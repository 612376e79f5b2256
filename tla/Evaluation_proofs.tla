-------------------------- MODULE Evaluation_proofs --------------------------
(***************************************************************************)
(* Proofs about Evaluation, for any miners, strategies, tasks, holdouts    *)
(* and answers of the workers, and for both drivers.                       *)
(*                                                                         *)
(* First the material of a task: what a verified reveal determines, and    *)
(* that of all a driver can be given for a task only the task itself is    *)
(* accepted.  Then the inductive invariant IInv: while a task is measured, *)
(* its strategies are divided between the queue and the evaluations, the   *)
(* answers of a batch are as many as the queue asks for, and an evaluation *)
(* comes from answers that passed _verify_worker_echo; and the             *)
(* observations of the closed tasks are evident, agree with each other and *)
(* cover what was submitted.                                               *)
(*                                                                         *)
(* Then the numbers: sums and products over finite sets, roots, medians    *)
(* and winsorized means, that with RInv make every reward a natural; who   *)
(* can have a weight; and the passes of the concentration cap.             *)
(*                                                                         *)
(* Last the copies: how far each statistic of values that are nearly a     *)
(* k-th of others is from a k-th of the statistic of those, and that k     *)
(* copies are observed, answered, counted and rewarded alike.              *)
(*                                                                         *)
(* And the tree of digests that a task is committed with: its root is that *)
(* of one list of fixtures.                                                *)
(***************************************************************************)
EXTENDS Evaluation, FiniteSetTheorems, SequenceTheorems, WellFoundedInduction, TLAPS

\* A non-empty set of naturals has a least element, and Min is it.
LEMMA MinOfNats ==
  ASSUME NEW S \in SUBSET Nat, S # {}
  PROVE  Min(S) \in S /\ \A y \in S : Min(S) <= y
<1>1. PICK x \in S : \A y \in S : ~ (<<y, x>> \in OpToRel(<, Nat))
  BY NatLessThanWellFounded, WFMin
<1>2. \A y \in S : x <= y
  <2> SUFFICES ASSUME NEW y \in S, y < x PROVE FALSE
    OBVIOUS
  <2>1. <<y, x>> \in OpToRel(<, Nat)
    BY DEF OpToRel
  <2>2. QED
    BY <1>1, <2>1
<1>3. QED
  BY <1>2 DEF Min

\* A chain of gates lets pass exactly what every gate lets pass.
LEMMA OpenGates ==
  ASSUME NEW gates, NEW n \in Nat, DOMAIN gates = 1 .. n,
         \A i \in 1 .. n : gates[i][2] # "none",
         FirstClosed(gates) = "none"
  PROVE  \A i \in 1 .. n : ~gates[i][1]
<1> DEFINE closed == {i \in DOMAIN gates : gates[i][1]}
<1>1. closed \in SUBSET Nat /\ closed \subseteq 1 .. n
  OBVIOUS
<1>2. ASSUME closed # {} PROVE FALSE
  <2>1. Min(closed) \in closed
    BY <1>1, <1>2, MinOfNats
  <2>2. FirstClosed(gates) = gates[Min(closed)][2]
    BY <1>2 DEF FirstClosed
  <2>3. QED
    BY <1>1, <2>1, <2>2
<1>3. QED
  BY <1>2

\* The enumeration of a finite set lists each element once.
LEMMA Enumeration ==
  ASSUME NEW S, IsFiniteSet(S)
  PROVE  /\ Cardinality(S) \in Nat
         /\ SetToSeq(S) \in Seq(S)
         /\ Len(SetToSeq(S)) = Cardinality(S)
         /\ Range(SetToSeq(S)) = S
         /\ \A i, j \in 1 .. Len(SetToSeq(S)) : SetToSeq(S)[i] = SetToSeq(S)[j] => i = j
<1> DEFINE n == Cardinality(S)
           q == SetToSeq(S)
<1>1. n \in Nat /\ ExistsBijection(1 .. n, S)
  BY FS_CardinalityType
<1>2. PICK g : g \in Bijection(1 .. n, S)
  BY <1>1 DEF ExistsBijection
<1>3. g \in [1 .. n -> S] /\ IsInjective(g)
  BY <1>2 DEF Bijection, Injection, Surjection
<1>4. q \in [1 .. n -> S] /\ IsInjective(q)
  BY <1>3 DEF SetToSeq
<1>5. q \in Seq(S) /\ Len(q) = n
  BY <1>1, <1>4, SeqDef, LenProperties
<1>6. q \in Injection(1 .. n, S)
  BY <1>4 DEF Injection
<1>7. IsFiniteSet(1 .. n) /\ Cardinality(1 .. n) = n
  BY <1>1, FS_Interval
<1>8. q \in Surjection(1 .. n, S)
  BY <1>6, <1>7, FS_Injection
<1>9. \A x \in S : \E i \in 1 .. n : q[i] = x
  BY <1>8 DEF Surjection
<1>10. \A i, j \in 1 .. n : q[i] = q[j] => i = j
  BY <1>4 DEF IsInjective
<1>11. Range(q) = S
  BY <1>4, <1>9 DEF Range
<1>12. QED
  BY <1>1, <1>5, <1>10, <1>11

-----------------------------------------------------------------------------
(* The material of a task (TaskMaterial). *)

\* A task that is accepted passes every check of _validate_and_regenerate_task.
LEMMA AcceptedChecks ==
  ASSUME NEW p, TaskRefusal(p) = "none"
  PROVE  LET terms == p.public.terms
             due   == BenchmarkTerms(terms.owner, terms.family)
         IN  /\ terms.family \in QueryFamilies /\ RevealVerifies(p)
             /\ terms.sql = due.sql /\ terms.schema = due.schema
             /\ terms.ranges = due.ranges /\ terms.training = due.training
<1> DEFINE terms == p.public.terms
           due == BenchmarkTerms(terms.owner, terms.family)
           gates == <<
             <<terms.family \notin QueryFamilies, "unknown benchmark family">>,
             <<~RevealVerifies(p), "reveal or fixtures do not verify">>,
             <<terms.sql # due.sql, "reference SQL">>,
             <<terms.schema # due.schema, "schema">>,
             <<terms.ranges # due.ranges, "parameter ranges">>,
             <<terms.training # due.training, "public training fixture">>>>
<1>1. DOMAIN gates = 1 .. 6 /\ \A i \in 1 .. 6 : gates[i][2] # "none"
  OBVIOUS
<1>2. FirstClosed(gates) = "none"
  BY Zenon DEF TaskRefusal
<1> HIDE DEF gates
<1>3. \A i \in 1 .. 6 : ~gates[i][1]
  BY <1>1, <1>2, OpenGates
<1>4. ~gates[1][1] /\ ~gates[2][1] /\ ~gates[3][1] /\ ~gates[4][1] /\ ~gates[5][1] /\ ~gates[6][1]
  BY <1>3
<1>5. QED
  BY <1>4 DEF gates

\* What the commitment determines of a reveal, whatever the root is worth: the
\* fixtures follow from the seed because they are generated anew.
LEMMA CommitmentDetermines ==
  ASSUME NEW public, NEW r, NEW s,
         CommitmentPayload(public, r) = CommitmentPayload(public, s)
  PROVE  r.seed = s.seed /\ r.salt = s.salt /\ r.root = s.root
  BY DEF CommitmentPayload

RevealFields == {"task_id", "seed", "salt", "fixtures", "root"}

\* Two reveals that verify against one public task are the same: the published
\* commitment leaves no choice of the seed, the salt or the fixtures
\* (audit_task_reveal with its regeneration).
THEOREM OneRevealPerTask ==
  ASSUME NEW public, NEW r, NEW s,
         RevealVerifies([public |-> public, reveal |-> r]),
         RevealVerifies([public |-> public, reveal |-> s])
  PROVE  \A x \in RevealFields : r[x] = s[x]
<1>1. /\ public.task_id = r.task_id /\ public.task_id = s.task_id
      /\ HiddenFixtures(r.seed, public.terms.family) = r.fixtures
      /\ HiddenFixtures(s.seed, public.terms.family) = s.fixtures
      /\ CommitmentPayload(public, r) = CommitmentPayload(public, s)
  BY DEF RevealVerifies, AuditTaskReveal
<1>2. r.seed = s.seed /\ r.salt = s.salt /\ r.root = s.root
  BY <1>1, CommitmentDetermines
<1>3. QED
  BY <1>1, <1>2 DEF RevealFields

\* An accepted task is the one the benchmark creates from its terms' owner and
\* family and the draw it reveals.
THEOREM AcceptedIsGenerated ==
  ASSUME NEW p, TaskRefusal(p) = "none"
  PROVE  LET terms == p.public.terms
             draw  == [task_id |-> p.reveal.task_id, seed |-> p.reveal.seed, salt |-> p.reveal.salt]
             made  == CreateBenchmarkTask(terms.owner, terms.family, draw)
         IN  /\ \A x \in RevealFields : p.reveal[x] = made.reveal[x]
             /\ p.public.task_id = made.public.task_id
             /\ p.public.holdouts = made.public.holdouts
             /\ \A x \in {"owner", "family", "sql", "schema", "ranges", "training"} :
                  terms[x] = made.public.terms[x]
<1> DEFINE terms == p.public.terms
           draw == [task_id |-> p.reveal.task_id, seed |-> p.reveal.seed, salt |-> p.reveal.salt]
           made == CreateBenchmarkTask(terms.owner, terms.family, draw)
           fixtures == HiddenFixtures(p.reveal.seed, terms.family)
<1>1. /\ p.public.task_id = p.reveal.task_id /\ fixtures = p.reveal.fixtures
      /\ MerkleRoot(p.reveal.fixtures) = p.reveal.root
      /\ p.public.holdouts = Len(p.reveal.fixtures)
  BY AcceptedChecks DEF RevealVerifies, AuditTaskReveal
<1>2. /\ made.reveal = [task_id |-> p.reveal.task_id, seed |-> p.reveal.seed, salt |-> p.reveal.salt,
                        fixtures |-> fixtures, root |-> MerkleRoot(fixtures)]
      /\ made.public.terms = BenchmarkTerms(terms.owner, terms.family)
      /\ made.public.task_id = p.reveal.task_id /\ made.public.holdouts = Len(fixtures)
  BY DEF CreateBenchmarkTask, CreateTask
<1>3. \A x \in RevealFields : p.reveal[x] = made.reveal[x]
  BY <1>1, <1>2 DEF RevealFields
<1>4. /\ made.public.terms.owner = terms.owner /\ made.public.terms.family = terms.family
      /\ terms.sql = made.public.terms.sql /\ terms.schema = made.public.terms.schema
      /\ terms.ranges = made.public.terms.ranges /\ terms.training = made.public.terms.training
  <2>1. /\ BenchmarkTerms(terms.owner, terms.family).owner = terms.owner
        /\ BenchmarkTerms(terms.owner, terms.family).family = terms.family
    BY DEF BenchmarkTerms
  <2>2. QED
    BY <1>2, <2>1, AcceptedChecks
<1>5. QED
  BY <1>1, <1>2, <1>3, <1>4

\* The shape of a task that the benchmark created.
LEMMA CreatedShape ==
  ASSUME NEW t, NEW p \in Created(t)
  PROVE  \E draw :
    LET reveal == [task_id |-> draw.task_id, seed |-> draw.seed, salt |-> draw.salt,
                   fixtures |-> HiddenFixtures(draw.seed, Schedule[t]),
                   root |-> MerkleRoot(HiddenFixtures(draw.seed, Schedule[t]))]
        terms  == BenchmarkTerms(t, Schedule[t])
    IN  p = [public |-> [task_id |-> draw.task_id, terms |-> terms,
                         holdouts |-> Len(reveal.fixtures),
                         commitment |-> [task_id |-> draw.task_id, terms |-> terms,
                                         seed |-> draw.seed, salt |-> draw.salt,
                                         root |-> reveal.root]],
             reveal |-> reveal]
<1>1. PICK draw \in DrawsOf[t] : p = CreateBenchmarkTask(t, Schedule[t], draw)
  BY DEF Created
<1>2. QED
  BY <1>1 DEF CreateBenchmarkTask, CreateTask, CommitmentPayload

\* A task has as many fixtures as there are holdout profiles.
LEMMA FixtureCount ==
  ASSUME NEW seed, NEW f
  PROVE  Fixtures \in Nat /\ Fixtures >= 2 /\ Len(HiddenFixtures(seed, f)) = Fixtures
<1> DEFINE h == HiddenFixtures(seed, f)
           S == {h[i] : i \in 1 .. Fixtures}
<1>1. Fixtures \in Nat /\ Fixtures >= 2 /\ DOMAIN HoldoutProfiles = 1 .. Fixtures
  BY MaterialAssumption, LenProperties DEF Fixtures
<1>2. h = [i \in 1 .. Fixtures |-> h[i]]
  BY <1>1 DEF HiddenFixtures
<1> HIDE DEF h
<1>3. h \in [1 .. Fixtures -> S]
  BY <1>2
<1>4. Len(h) = Fixtures
  BY <1>1, <1>3, SeqDef, LenProperties
<1>5. QED
  BY <1>1, <1>4 DEF h

\* HiddenFixtures of two families differ: the family is part of every seed.
LEMMA FamilyInFixtures ==
  ASSUME NEW seed, NEW f, NEW g, HiddenFixtures(seed, f) = HiddenFixtures(seed, g)
  PROVE  f = g
<1>1. 1 \in DOMAIN HoldoutProfiles
  BY MaterialAssumption, LenProperties
<1>2. HiddenFixtures(seed, f)[1].parameters[1] = f
  BY <1>1 DEF HiddenFixtures, GenerateFixture
<1>3. HiddenFixtures(seed, g)[1].parameters[1] = g
  BY <1>1 DEF HiddenFixtures, GenerateFixture
<1>4. QED
  BY <1>2, <1>3

\* Whatever the evaluation is given for a task, it accepts only the task itself.
LEMMA OnlyTheCreated ==
  ASSUME NEW p \in Created(task), NEW q \in GivenFor(p), TaskRefusal(q) = "none"
  PROVE  q = p
<1> DEFINE terms == BenchmarkTerms(task, Schedule[task])
           others == UNION {Created(t) : t \in DOMAIN Schedule \ {task}}
           fixtures == HiddenFixtures(q.reveal.seed, q.public.terms.family)
<1>1. /\ q.public.task_id = q.reveal.task_id /\ q.public.holdouts = Len(q.reveal.fixtures)
      /\ fixtures = q.reveal.fixtures
      /\ q.public.commitment = [task_id |-> q.public.task_id, terms |-> q.public.terms,
                                seed |-> q.reveal.seed, salt |-> q.reveal.salt,
                                root |-> q.reveal.root]
  BY AcceptedChecks DEF RevealVerifies, AuditTaskReveal, CommitmentPayload
<1>2. PICK draw : LET reveal == [task_id |-> draw.task_id, seed |-> draw.seed, salt |-> draw.salt,
                                 fixtures |-> HiddenFixtures(draw.seed, Schedule[task]),
                                 root |-> MerkleRoot(HiddenFixtures(draw.seed, Schedule[task]))]
                  IN  p = [public |-> [task_id |-> draw.task_id, terms |-> terms,
                                       holdouts |-> Len(reveal.fixtures),
                                       commitment |-> [task_id |-> draw.task_id, terms |-> terms,
                                                       seed |-> draw.seed, salt |-> draw.salt,
                                                       root |-> reveal.root]],
                           reveal |-> reveal]
  BY CreatedShape
<1>3. terms.owner = task /\ terms.family = Schedule[task]
  BY DEF BenchmarkTerms
<1>4. CASE \E o \in others : q = [p EXCEPT !.reveal = [o.reveal EXCEPT !.task_id = p.reveal.task_id]]
  <2>1. PICK o \in others : q = [p EXCEPT !.reveal = [o.reveal EXCEPT !.task_id = p.reveal.task_id]]
    BY <1>4
  <2>2. PICK t : o \in Created(t)
    OBVIOUS
  <2>3. PICK d : o.reveal = [task_id |-> d.task_id, seed |-> d.seed, salt |-> d.salt,
                             fixtures |-> HiddenFixtures(d.seed, Schedule[t]),
                             root |-> MerkleRoot(HiddenFixtures(d.seed, Schedule[t]))]
    BY <2>2, CreatedShape
  <2>4. q.public = p.public /\ q.reveal = [o.reveal EXCEPT !.task_id = p.reveal.task_id]
    BY <1>2, <2>1
  <2>5. /\ q.reveal = [task_id |-> p.reveal.task_id, seed |-> q.reveal.seed, salt |-> q.reveal.salt,
                       fixtures |-> q.reveal.fixtures, root |-> q.reveal.root]
    BY <2>3, <2>4
  <2>6. /\ q.reveal.seed = p.reveal.seed /\ q.reveal.salt = p.reveal.salt
        /\ q.reveal.root = p.reveal.root
    BY <1>1, <1>2, <2>4
  <2>7. q.reveal.fixtures = p.reveal.fixtures
    BY <1>1, <1>2, <1>3, <2>4, <2>6
  <2>8. p.reveal = [task_id |-> p.reveal.task_id, seed |-> p.reveal.seed, salt |-> p.reveal.salt,
                    fixtures |-> p.reveal.fixtures, root |-> p.reveal.root]
    BY <1>2
  <2>9. q.reveal = p.reveal
    BY <2>5, <2>6, <2>7, <2>8
  <2>10. QED
    BY <1>2, <2>1, <2>4, <2>9
<1>5. CASE \E o \in others : q = [p EXCEPT !.reveal.salt = o.reveal.salt]
  BY <1>1, <1>2, <1>5
<1>6. CASE \E o \in others : q = [p EXCEPT !.public.terms.owner = o.public.terms.owner]
  BY <1>1, <1>2, <1>6
<1>7. CASE q = [p EXCEPT !.public.holdouts = Fixtures + 1]
  <2>1. q.public.holdouts = Fixtures + 1 /\ q.reveal = p.reveal
    BY <1>2, <1>7
  <2>2. Len(q.reveal.fixtures) = Fixtures /\ Fixtures \in Nat
    BY <1>2, <2>1, FixtureCount
  <2>3. q.public.holdouts = Len(q.reveal.fixtures)
    BY <1>1
  <2>4. Fixtures + 1 = Fixtures
    BY <2>1, <2>2, <2>3
  <2>5. QED
    BY <2>2, <2>4
<1>8. CASE q = [p EXCEPT !.reveal.fixtures = Reverse(@)]
  BY <1>1, <1>2, <1>3, <1>8
<1>9. ASSUME NEW other,
             other \in {[terms EXCEPT !.family = "custom"], [terms EXCEPT !.schema = "v1"],
                        [terms EXCEPT !.sql = <<>>], [terms EXCEPT !.ranges = <<>>],
                        [terms EXCEPT !.training.content = <<>>]},
             q = CreateTask(other, [task_id |-> p.reveal.task_id, seed |-> p.reveal.seed,
                                    salt |-> p.reveal.salt], p.reveal.fixtures)
      PROVE  q = p
  <2>1. /\ q.public.terms = other /\ q.reveal.seed = p.reveal.seed
        /\ q.reveal.fixtures = p.reveal.fixtures
    BY <1>9 DEF CreateTask
  <2>2. LET due == BenchmarkTerms(other.owner, other.family)
        IN  /\ other.sql = due.sql /\ other.schema = due.schema
            /\ other.ranges = due.ranges /\ other.training = due.training
    BY <2>1, AcceptedChecks
  <2>3. other = terms
    <3>1. CASE other = [terms EXCEPT !.family = "custom"]
      <4>1. other.family = "custom"
        BY <3>1 DEF BenchmarkTerms
      <4>2. HiddenFixtures(p.reveal.seed, "custom") = HiddenFixtures(p.reveal.seed, Schedule[task])
        BY <1>1, <1>2, <2>1, <4>1
      <4>3. Schedule[task] = "custom"
        BY <4>2, FamilyInFixtures
      <4>4. QED
        BY <1>3, <3>1, <4>3 DEF BenchmarkTerms
    <3>2. CASE other = [terms EXCEPT !.schema = "v1"]
      BY <2>2, <3>2 DEF BenchmarkTerms
    <3>3. CASE other = [terms EXCEPT !.sql = <<>>]
      BY <2>2, <3>3 DEF BenchmarkTerms
    <3>4. CASE other = [terms EXCEPT !.ranges = <<>>]
      BY <2>2, <3>4 DEF BenchmarkTerms
    <3>5. CASE other = [terms EXCEPT !.training.content = <<>>]
      BY <2>2, <3>5 DEF BenchmarkTerms, TrainingFixture, GenerateFixture
    <3>6. QED
      BY <1>9, <3>1, <3>2, <3>3, <3>4, <3>5
  <2>4. p = CreateTask(terms, [task_id |-> p.reveal.task_id, seed |-> p.reveal.seed,
                               salt |-> p.reveal.salt], p.reveal.fixtures)
    BY <1>2 DEF CreateTask, CommitmentPayload
  <2>5. QED
    BY <1>9, <2>3, <2>4
<1>10. QED
  BY <1>4, <1>5, <1>6, <1>7, <1>8, <1>9 DEF GivenFor

-----------------------------------------------------------------------------
(* The inductive invariant. *)

Busy == {"grouping", "measuring", "scoring"}

Control ==
  /\ driver \in {"batch", "cohort"}
  /\ task \in 1 .. Len(Schedule) + 1
  /\ status \in {"open", "created", "allocated", "raised"} \cup Busy
  /\ status \in {"created"} \cup Busy => task \in DOMAIN Schedule
  /\ status = "scoring" => driver = "batch"

\* What the driver was given.
Given ==
  /\ status = "created" => private \in Created(task)
  /\ status \in Busy => /\ \E p \in Created(task) : private \in GivenFor(p)
                        /\ subs \in Submissions[task]
  /\ status \in {"measuring", "scoring"} => subs # Empty

\* No strategy is lost between the queue and the evaluations.
Queued ==
  /\ status \notin {"measuring", "scoring"} \/ (status = "measuring" /\ driver = "batch") =>
       evals = Empty
  /\ status \in {"measuring", "scoring"} =>
       queue \in Seq(Strategies) /\ Strategies = DOMAIN evals \cup Range(queue)

\* The answers are those of the queued strategies, unless the batch failed.
Batched ==
  /\ failed \subseteq 1 .. task /\ (task \in failed => status \in {"scoring", "raised"})
  /\ driver = "cohort" => failed = {}
  /\ status # "scoring" => answers = <<>>
  /\ status = "scoring" =>
       IF task \in failed THEN answers = <<>> /\ evals = Empty
       ELSE answers \in Seq(Range(answers)) /\ Len(answers) = Len(queue) * Fixtures

\* An evaluation comes from answers that passed _verify_worker_echo.
Measured(s) ==
  LET b     == evals[s].evidence.bundle
      given == evals[s].evidence.answers
  IN  /\ s = StrategyOf[b] /\ DOMAIN given = 1 .. Fixtures
      /\ \A i \in 1 .. Fixtures : Echo(given[i], b, i)
      /\ evals[s] = Evaluated(b, given)

Evaluations ==
  /\ \A s \in DOMAIN evals : Measured(s)
  /\ evals # Empty => private \in Created(task)

\* What RewardHasItsEvidence says of one observation.
Evident(o) ==
  o.reward > 0 =>
    LET given == o.evidence.answers
    IN  /\ o.evidence.task = o.task
        /\ Len(given) = Fixtures
        /\ \A k \in 1 .. Fixtures :
             /\ given[k].strategy = o.strategy /\ given[k].fixture = k
             /\ given[k].result.correct /\ given[k].result.compliant
             /\ Score(given[k].result).valid
        /\ \E k \in 1 .. Fixtures : given[k].result.used

\* Two observations of one strategy on one task share their evaluation.
Agree(x, y) ==
  /\ x.miner = y.miner /\ x.task = y.task => x = y
  /\ x.available /\ y.available /\ x.task = y.task /\ x.strategy = y.strategy =>
       x.evidence = y.evidence /\ x.reward = y.reward

Recorded ==
  /\ obs \in Seq(Range(obs))
  /\ \A i \in DOMAIN obs :
       obs[i].miner \in Miners /\ obs[i].task \in 1 .. task - 1 /\ Evident(obs[i])
  /\ \A i, j \in DOMAIN obs : obs[i] = obs[j] => i = j
  /\ \A i, j \in DOMAIN obs : Agree(obs[i], obs[j])

\* The miners with an observation, or an available one, of the task t.
Listed(t) == {obs[i].miner : i \in {j \in DOMAIN obs : obs[j].task = t}}
Seen(t)   == {obs[i].miner : i \in {j \in DOMAIN obs : obs[j].task = t /\ obs[j].available}}

Complete ==
  \A t \in 1 .. task - 1 :
    /\ t \notin failed => Seen(t) \in {DOMAIN sub : sub \in Submissions[t]} \ {{}}
    /\ t \in failed => Seen(t) = {}
    /\ driver = "batch" => Listed(t) = Miners

IInv ==
  /\ Control /\ Given /\ Queued /\ Batched /\ Evaluations /\ Recorded /\ Complete

\* What the properties need of the invariant.
LEMMA InvEvidence == IInv => RewardHasItsEvidence
  BY DEF IInv, Evaluations, Recorded, Evident, RewardHasItsEvidence

\* The record of the closed tasks is complete and gives the aggregation nothing
\* to refuse.
LEMMA InvWhole == IInv => TasksObservedWhole
<1> SUFFICES ASSUME IInv PROVE TasksObservedWhole
  OBVIOUS
<1> USE DEF IInv
<1>1. ASSUME status = "open", AggregationRaises(obs, Miners) PROVE FALSE
  <2>1. Miners # {}
    BY EvaluationAssumption
  <2>2. \A i \in DOMAIN obs : obs[i].miner \in Miners /\ obs[i].task \in DOMAIN Schedule
    <3>1. DOMAIN Schedule = 1 .. Len(Schedule) /\ Len(Schedule) \in Nat
      BY AggregationAssumption, LenProperties
    <3>2. \A t \in 1 .. task - 1 : t \in DOMAIN Schedule
      BY <3>1 DEF Control
    <3>3. QED
      BY <3>2 DEF Recorded
  <2>3. \A i, j \in DOMAIN obs :
          /\ obs[i].miner = obs[j].miner /\ obs[i].task = obs[j].task => i = j
          /\ obs[i].available /\ obs[j].available /\ obs[i].task = obs[j].task
             /\ obs[i].strategy = obs[j].strategy =>
               obs[i].evidence = obs[j].evidence /\ obs[i].reward = obs[j].reward
    BY DEF Recorded, Agree
  <2>4. ~DeduplicationRaises(obs)
    BY <2>3 DEF DeduplicationRaises, Duplicates, Counted
  <2>5. QED
    BY <1>1, <2>1, <2>2, <2>3, <2>4 DEF AggregationRaises
<1>2. ASSUME NEW t \in 1 .. task - 1
      PROVE  LET of(m)    == {i \in DOMAIN obs : obs[i].task = t /\ obs[i].miner = m}
                 seen     == {m \in Miners : \E i \in of(m) : obs[i].available}
                 accepted == {DOMAIN sub : sub \in Submissions[t]}
             IN  /\ \A m \in Miners : Cardinality(of(m)) <= 1
                 /\ t \notin failed => seen \in accepted \ {{}}
                 /\ t \in failed => seen = {}
                 /\ driver = "batch" => \A m \in Miners : of(m) # {}
  <2> DEFINE of(m) == {i \in DOMAIN obs : obs[i].task = t /\ obs[i].miner = m}
             seen  == {m \in Miners : \E i \in of(m) : obs[i].available}
  <2>1. ASSUME NEW m \in Miners PROVE Cardinality(of(m)) <= 1
    <3>1. CASE of(m) = {}
      BY <3>1, FS_EmptySet
    <3>2. CASE of(m) # {}
      <4>1. PICK i \in of(m) : TRUE
        BY <3>2
      <4>2. \A j \in of(m) : obs[j] = obs[i]
        BY <4>1 DEF Recorded, Agree
      <4>3. \A j \in of(m) : j = i
        <5>1. \A j, k \in DOMAIN obs : obs[j] = obs[k] => j = k
          BY DEF Recorded
        <5>2. \A j \in of(m) : j \in DOMAIN obs
          OBVIOUS
        <5>3. QED
          BY <4>1, <4>2, <5>1, <5>2
      <4>4. of(m) = {i}
        BY <4>1, <4>3
      <4>5. Cardinality(of(m)) = Cardinality({i})
        BY <4>4, Zenon
      <4>6. Cardinality({i}) = 1
        BY FS_Singleton
      <4>7. QED
        BY <4>5, <4>6
    <3>3. QED
      BY <3>1, <3>2
  <2>2. seen = Seen(t)
    BY DEF Recorded, Seen
  <2>3. driver = "batch" => \A m \in Miners : of(m) # {}
    BY DEF Complete, Listed
  <2>4. /\ t \notin failed => seen \in {DOMAIN sub : sub \in Submissions[t]} \ {{}}
        /\ t \in failed => seen = {}
    BY <2>2 DEF Complete
  <2>5. QED
    BY <2>1, <2>3, <2>4
<1>3. QED
  BY <1>1, <1>2 DEF TasksObservedWhole

-----------------------------------------------------------------------------
(* The steps. *)

\* The empty map has no domain.
LEMMA NoEvaluation == DOMAIN Empty = {}
  BY DEF Empty

\* Init establishes the invariant.
LEMMA InitIInv == Init => IInv
<1> SUFFICES ASSUME Init PROVE IInv
  OBVIOUS
<1>1. Len(Schedule) \in Nat
  BY AggregationAssumption, LenProperties
<1>2. obs = <<>> /\ DOMAIN obs = {} /\ obs \in Seq(Range(obs))
  BY EmptySeq DEF Init
<1>3. Control /\ Given /\ Queued /\ Batched
  BY <1>1 DEF Init, Control, Given, Queued, Batched, Busy
<1>4. Evaluations
  BY NoEvaluation DEF Init, Evaluations
<1>5. Recorded /\ Complete
  BY <1>2 DEF Recorded, Complete, Init
<1>6. QED
  BY <1>3, <1>4, <1>5 DEF IInv

\* A step that closes no task leaves the record of the closed ones.
LEMMA RecordStands ==
  ASSUME IInv, UNCHANGED <<driver, task, obs>>, failed' = failed \/ failed' = failed \cup {task}
  PROVE  Recorded' /\ Complete'
<1>1. Recorded'
  BY DEF IInv, Recorded, Evident, Agree
<1>2. Complete'
  <2>1. Seen(0)' = Seen(0) /\ \A t : Seen(t)' = Seen(t) /\ Listed(t)' = Listed(t)
    BY DEF Seen, Listed
  <2>2. \A t \in 1 .. task - 1 : t \in failed' <=> t \in failed
    BY DEF IInv, Control
  <2>3. QED
    BY <2>1, <2>2 DEF IInv, Complete
<1>3. QED
  BY <1>1, <1>2

\* An exception leaves nothing of the task.
LEMMA RaiseStep ==
  ASSUME IInv, Raise
  PROVE  IInv'
<1>1. Recorded' /\ Complete'
  BY RecordStands DEF Raise
<1>2. Control' /\ Given' /\ Queued' /\ Batched'
  BY DEF Raise, IInv, Control, Given, Queued, Batched, Busy
<1>3. Evaluations'
  BY NoEvaluation DEF Raise, Evaluations
<1>4. QED
  BY <1>1, <1>2, <1>3 DEF IInv

\* create_benchmark_task_v2: the task's material, or an exception.
LEMMA CreateStep ==
  ASSUME IInv, Create
  PROVE  IInv'
<1>1. CASE Raise
  BY <1>1, RaiseStep
<1>2. CASE /\ private' \in Created(task) /\ status' = "created"
           /\ UNCHANGED <<driver, task, subs, queue, answers, evals, obs, failed,
                          aggregates, reason, weights>>
  <2>1. status = "open" /\ task \in DOMAIN Schedule
    BY DEF Create
  <2>2. Recorded' /\ Complete'
    BY <1>2, RecordStands
  <2>3. Control' /\ Given'
    BY <1>2, <2>1 DEF IInv, Control, Given, Busy, Created
  <2>4. Queued' /\ Batched'
    BY <1>2, <2>1 DEF IInv, Queued, Batched, Control
  <2>5. Evaluations'
    BY <1>2, <2>1, NoEvaluation DEF IInv, Queued, Evaluations
  <2>6. QED
    BY <2>2, <2>3, <2>4, <2>5 DEF IInv
<1>3. QED
  BY <1>1, <1>2 DEF Create

\* What a driver can be given depends on the task alone.
LEMMA SameGifts ==
  ASSUME NEW p, task' = task
  PROVE  Created(task)' = Created(task) /\ GivenFor(p)' = GivenFor(p)
<1>1. Created(task)' = Created(task)
  BY DEF Created
<1>2. GivenFor(p)' = GivenFor(p)
  BY DEF GivenFor, Created
<1>3. QED
  BY <1>1, <1>2

\* What the driver goes on with is given for the task that was created.
LEMMA CollectStep ==
  ASSUME IInv, Collect
  PROVE  IInv'
<1>1. Recorded' /\ Complete'
  BY RecordStands DEF Collect
<1>2. Control'
  BY DEF Collect, IInv, Control, Busy
<1>3. Given'
  <2>1. PICK p \in Created(task) : private' \in GivenFor(p)
    BY DEF Collect, IInv, Given
  <2>2. p \in Created(task)' /\ private' \in GivenFor(p)'
    BY <2>1, SameGifts DEF Collect
  <2>3. subs' \in Submissions[task] /\ task' = task /\ status' = "grouping"
    BY DEF Collect
  <2>4. QED
    BY <2>2, <2>3 DEF Given
<1>4. Queued' /\ Batched'
  BY DEF Collect, IInv, Queued, Batched, Control
<1>5. Evaluations'
  BY NoEvaluation DEF Collect, Evaluations
<1>6. QED
  BY <1>1, <1>2, <1>3, <1>4, <1>5 DEF IInv

\* The submissions of a task name finitely many strategies.
LEMMA SubmissionFacts ==
  ASSUME IInv, status \in Busy
  PROVE  /\ DOMAIN subs \subseteq Miners /\ IsFiniteSet(DOMAIN subs)
         /\ subs \in [DOMAIN subs -> Bundles]
         /\ IsFiniteSet(Strategies)
         /\ subs # Empty => DOMAIN subs # {}
<1>1. task \in DOMAIN Schedule /\ subs \in Submissions[task]
  BY DEF IInv, Control, Given
<1>2. DOMAIN subs \subseteq Miners /\ subs \in [DOMAIN subs -> Bundles]
  BY <1>1, EvaluationAssumption
<1>3. IsFiniteSet(DOMAIN subs)
  BY <1>2, EvaluationAssumption, FS_Subset
<1>4. IsFiniteSet(Strategies)
  <2> DEFINE h == [m \in DOMAIN subs |-> StrategyOf[subs[m]]]
  <2>1. h \in Surjection(DOMAIN subs, Strategies)
    BY DEF Surjection, Strategies
  <2>2. QED
    BY <1>3, <2>1, FS_Surjection
<1>5. subs # Empty => DOMAIN subs # {}
  BY <1>2 DEF Empty
<1>6. QED
  BY <1>2, <1>3, <1>4, <1>5

\* What a sequence holds is its head and what its tail holds.
LEMMA RangeOf ==
  ASSUME NEW S, NEW q \in Seq(S)
  PROVE  /\ q \in Seq(Range(q)) /\ Range(q) \subseteq S
         /\ q # <<>> => Range(q) = {Head(q)} \cup Range(Tail(q))
         /\ q = <<>> => Range(q) = {}
<1>1. q \in Seq(Range(q)) /\ Range(q) \subseteq S
  BY SeqOfRange, RangeOfSeq
<1>2. ASSUME q # <<>> PROVE Range(q) = {Head(q)} \cup Range(Tail(q))
  <2>1. Range(q) = {q[i] : i \in 1 .. Len(q)}
    BY RangeEquality
  <2>2. /\ Tail(q) \in Seq(S) /\ Len(Tail(q)) = Len(q) - 1
        /\ \A i \in 1 .. Len(Tail(q)) : Tail(q)[i] = q[i + 1]
    BY <1>2, HeadTailProperties
  <2>3. Range(Tail(q)) = {Tail(q)[i] : i \in 1 .. Len(Tail(q))}
    BY <2>2, RangeEquality
  <2>4. Head(q) = q[1] /\ Len(q) \in Nat \ {0}
    BY <1>2, EmptySeq
  <2>5. ASSUME NEW i \in 1 .. Len(q) PROVE q[i] \in {Head(q)} \cup Range(Tail(q))
    <3>1. CASE i = 1
      BY <2>4, <3>1
    <3>2. CASE i # 1
      <4>1. i - 1 \in 1 .. Len(Tail(q)) /\ Tail(q)[i - 1] = q[i]
        BY <2>2, <2>4, <3>2
      <4>2. QED
        BY <2>3, <4>1
    <3>3. QED
      BY <3>1, <3>2
  <2>6. ASSUME NEW i \in 1 .. Len(Tail(q)) PROVE Tail(q)[i] \in Range(q)
    <3>1. i + 1 \in 1 .. Len(q) /\ Tail(q)[i] = q[i + 1]
      BY <2>2, <2>4
    <3>2. QED
      BY <2>1, <3>1
  <2>7. Head(q) \in Range(q)
    BY <2>1, <2>4
  <2>8. QED
    BY <2>1, <2>3, <2>5, <2>6, <2>7
<1>3. ASSUME q = <<>> PROVE Range(q) = {}
  BY <1>3 DEF Range
<1>4. QED
  BY <1>1, <1>2, <1>3

\* A function on 1 .. n is a sequence of n elements.
LEMMA IsSequence ==
  ASSUME NEW n \in Nat, NEW q, q = [k \in 1 .. n |-> q[k]]
  PROVE  q \in Seq(Range(q)) /\ Len(q) = n
<1>1. q \in [1 .. n -> Range(q)]
  BY DEF Range
<1>2. QED
  BY <1>1, SeqDef, LenProperties

\* A worker returns as many answers as it was asked for.
LEMMA DeliveredShape ==
  ASSUME NEW n \in Nat, NEW q \in Delivered(n)
  PROVE  q \in Seq(Range(q)) /\ Len(q) = n /\ DOMAIN q = 1 .. n
<1>1. DOMAIN q = 1 .. n /\ q = [k \in 1 .. n |-> q[k]]
  BY DEF Delivered
<1>2. QED
  BY <1>1, IsSequence

\* The queue holds every strategy of the accepted submissions.
LEMMA GroupStep ==
  ASSUME IInv, Group
  PROVE  IInv'
<1>1. CASE Raise
  BY <1>1, RaiseStep
<1>2. CASE /\ ~Unworkable /\ status' = "measuring" /\ queue' = SetToSeq(Strategies)
           /\ UNCHANGED <<driver, task, private, subs, answers, evals, obs, failed,
                          aggregates, reason, weights>>
  <2>1. status = "grouping"
    BY DEF Group
  <2>2. Recorded' /\ Complete'
    BY <1>2, RecordStands
  <2>3. Control'
    BY <1>2, <2>1 DEF IInv, Control, Busy
  <2>4. Given'
    BY <1>2, <2>1, SameGifts DEF IInv, Given, Busy, Unworkable
  <2>5. Queued'
    <3>1. evals = Empty
      BY <2>1 DEF IInv, Queued
    <3>2. queue' \in Seq(Strategies) /\ Range(queue') = Strategies
      BY <1>2, <2>1, SubmissionFacts, Enumeration DEF Busy
    <3>3. Strategies' = Strategies
      BY <1>2 DEF Strategies
    <3>4. QED
      BY <1>2, <3>1, <3>2, <3>3, NoEvaluation DEF Queued
  <2>6. Batched'
    BY <1>2, <2>1 DEF IInv, Batched
  <2>7. Evaluations'
    BY <1>2, <2>1, NoEvaluation DEF IInv, Queued, Evaluations
  <2>8. QED
    BY <2>2, <2>3, <2>4, <2>5, <2>6, <2>7 DEF IInv
<1>3. QED
  BY <1>1, <1>2 DEF Group

\* The batch worker answers every item of the queue, or the task has failed.
LEMMA BatchStep ==
  ASSUME IInv, RunBatch \/ BatchFails
  PROVE  IInv'
<1>1. /\ status = "measuring" /\ driver = "batch" /\ status' = "scoring"
      /\ UNCHANGED <<driver, task, private, subs, queue, evals, obs>>
  BY DEF RunBatch, BatchFails
<1>2. failed' = failed \/ failed' = failed \cup {task}
  BY DEF RunBatch, BatchFails
<1>3. Recorded' /\ Complete'
  BY <1>1, <1>2, RecordStands
<1>4. Control'
  BY <1>1 DEF IInv, Control, Busy
<1>5. Given'
  BY <1>1, SameGifts DEF IInv, Given, Busy
<1>6. evals = Empty /\ task \notin failed /\ queue \in Seq(Strategies) /\ answers = <<>>
  BY <1>1 DEF IInv, Queued, Batched
<1>7. Queued'
  <2>1. Strategies' = Strategies
    BY <1>1 DEF Strategies
  <2>2. QED
    BY <1>1, <2>1 DEF IInv, Queued
<1>8. Batched'
  <2>1. task \in 1 .. Len(Schedule) + 1 /\ failed \subseteq 1 .. task
    BY DEF IInv, Control, Batched
  <2>2. CASE RunBatch
    <3>1. Len(queue) * Fixtures \in Nat
      BY <1>6, FixtureCount, LenProperties
    <3>2. answers' \in Seq(Range(answers')) /\ Len(answers') = Len(queue) * Fixtures
      BY <2>2, <3>1, DeliveredShape DEF RunBatch
    <3>3. failed' = failed
      BY <2>2 DEF RunBatch
    <3>4. QED
      BY <1>1, <1>6, <2>1, <3>2, <3>3 DEF Batched
  <2>3. CASE BatchFails
    <3>1. failed' = failed \cup {task} /\ answers' = answers
      BY <2>3 DEF BatchFails
    <3>2. task \in 1 .. task
      BY <2>1, AggregationAssumption, LenProperties
    <3>3. QED
      BY <1>1, <1>6, <2>1, <3>1, <3>2 DEF Batched
  <2>4. QED
    BY <2>2, <2>3
<1>9. Evaluations'
  BY <1>1, <1>6, NoEvaluation DEF Evaluations
<1>10. QED
  BY <1>3, <1>4, <1>5, <1>7, <1>8, <1>9 DEF IInv

\* An evaluation depends on the task, the bundle and the answers.
LEMMA SameEvaluation ==
  ASSUME NEW b, NEW given, task' = task
  PROVE  Evaluated(b, given)' = Evaluated(b, given)
  BY DEF Evaluated

\* One bundle stands for each strategy.
LEMMA CanonicalFacts ==
  ASSUME IInv, status \in Busy, NEW s \in Strategies
  PROVE  StrategyOf[Canonical(s)] = s
<1>1. PICK q \in DOMAIN subs : StrategyOf[subs[q]] = s
  BY DEF Strategies
<1>2. MinersOf(s) # {}
  BY <1>1 DEF MinersOf
<1>3. (CHOOSE m \in MinersOf(s) : TRUE) \in MinersOf(s)
  BY <1>2
<1>4. QED
  BY <1>3 DEF Canonical, MinersOf

\* A strategy is scored from answers of its own, or the task is given up.
LEMMA ScoreStep ==
  ASSUME IInv, status \in {"measuring", "scoring"}, queue # <<>>,
         status = "measuring" => driver = "cohort",
         status = "scoring" => task \notin failed,
         NEW given, DOMAIN given = 1 .. Fixtures, ScoreHead(given)
  PROVE  IInv'
<1> DEFINE h == Head(queue)
           b == Canonical(h)
<1>1. CASE Raise
  BY <1>1, RaiseStep
<1>2. CASE /\ TaskRefusal(private) = "none" /\ \A i \in 1 .. Fixtures : Echo(given[i], b, i)
           /\ evals' = [s \in DOMAIN evals \cup {StrategyOf[b]} |->
                          IF s = StrategyOf[b] THEN Evaluated(b, given) ELSE evals[s]]
           /\ queue' = Tail(queue)
           /\ answers' = SubSeq(answers, Fixtures + 1, Len(answers))
           /\ UNCHANGED <<driver, task, private, status, subs, obs, failed, aggregates, reason, weights>>
  <2>1. queue \in Seq(Strategies) /\ Strategies = DOMAIN evals \cup Range(queue)
    BY DEF IInv, Queued
  <2>2. h \in Strategies /\ StrategyOf[b] = h
    BY <2>1, HeadTailProperties, CanonicalFacts DEF Busy
  <2>3. Recorded' /\ Complete'
    BY <1>2, RecordStands
  <2>4. Control'
    BY <1>2 DEF IInv, Control, Busy
  <2>5. Given'
    BY <1>2, SameGifts DEF IInv, Given, Busy
  <2>6. Queued'
    <3>1. Strategies' = Strategies
      BY <1>2 DEF Strategies
    <3>2. Tail(queue) \in Seq(Strategies) /\ Range(queue) = {h} \cup Range(Tail(queue))
      BY <2>1, HeadTailProperties, RangeOf
    <3>3. DOMAIN evals' = DOMAIN evals \cup {h}
      BY <1>2, <2>2
    <3>4. QED
      BY <1>2, <2>1, <3>1, <3>2, <3>3 DEF Queued
  <2>7. Batched'
    <3>1. CASE status = "measuring"
      <4>1. answers = <<>>
        BY <3>1 DEF IInv, Batched
      <4>2. answers' = <<>>
        BY <1>2, <4>1, FixtureCount, SubSeqEmpty, EmptySeq
      <4>3. QED
        BY <1>2, <3>1, <4>2 DEF IInv, Batched
    <3>2. CASE status = "scoring"
      <4> DEFINE S == Range(answers)
      <4>1. answers \in Seq(S) /\ Len(answers) = Len(queue) * Fixtures
        BY <3>2 DEF IInv, Batched
      <4>2. Fixtures \in Nat /\ Fixtures >= 2 /\ Len(answers) \in Nat
        BY <4>1, FixtureCount, LenProperties
      <4>3. Len(Tail(queue)) = Len(queue) - 1 /\ Len(queue) \in Nat \ {0}
        BY <2>1, HeadTailProperties, EmptySeq
      <4>4. Len(answers) = (Len(queue) - 1) * Fixtures + Fixtures
            /\ (Len(queue) - 1) * Fixtures \in Nat
        BY <4>1, <4>2, <4>3
      <4>5. \A i \in Fixtures + 1 .. Len(answers) : answers[i] \in S
        BY <4>1, <4>2, LenProperties
      <4>6. /\ answers' \in Seq(S)
            /\ Len(answers') = IF Fixtures + 1 <= Len(answers) THEN Len(answers) - (Fixtures + 1) + 1 ELSE 0
        BY <1>2, <4>2, <4>5, SubSeqProperties
      <4>7. Len(answers') = (Len(queue) - 1) * Fixtures
        BY <4>2, <4>4, <4>6
      <4>8. Len(queue') = Len(queue) - 1
        BY <1>2, <4>3
      <4>9. answers' \in Seq(Range(answers'))
        BY <4>6, SeqOfRange
      <4>10. QED
        BY <1>2, <3>2, <4>7, <4>8, <4>9 DEF IInv, Batched
    <3>3. QED
      BY <3>1, <3>2
  <2>8. Evaluations'
    <3>1. private \in Created(task)
      <4>1. PICK p \in Created(task) : private \in GivenFor(p)
        BY DEF IInv, Given, Busy
      <4>2. QED
        BY <1>2, <4>1, OnlyTheCreated
    <3>2. private' \in Created(task)'
      BY <1>2, <3>1, SameGifts
    <3>3. ASSUME NEW s \in DOMAIN evals' PROVE Measured(s)'
      <4>1. CASE s = h
        <5>1. evals'[s] = Evaluated(b, given)
          BY <1>2, <2>2, <4>1
        <5>2. Evaluated(b, given).evidence.bundle = b /\ Evaluated(b, given).evidence.answers = given
          BY DEF Evaluated
        <5>3. PICK c : c = b
          OBVIOUS
        <5>4. Evaluated(c, given)' = Evaluated(c, given)
          BY <1>2, SameEvaluation
        <5>5. evals'[s].evidence.bundle = c /\ evals'[s].evidence.answers = given
              /\ evals'[s] = Evaluated(c, given)'
          BY <5>1, <5>2, <5>3, <5>4
        <5>6. \A i \in 1 .. Fixtures : Echo(given[i], c, i)
          BY <1>2, <5>3
        <5>7. QED
          BY <2>2, <4>1, <5>3, <5>5, <5>6 DEF Measured
      <4>2. CASE s # h
        <5>1. s \in DOMAIN evals /\ evals'[s] = evals[s]
          BY <1>2, <2>2, <4>2
        <5>2. Measured(s)
          BY <5>1 DEF IInv, Evaluations
        <5>3. PICK c, g : c = evals[s].evidence.bundle /\ g = evals[s].evidence.answers
          OBVIOUS
        <5>4. Evaluated(c, g)' = Evaluated(c, g)
          BY <1>2, SameEvaluation
        <5>5. QED
          BY <5>1, <5>2, <5>3, <5>4 DEF Measured
      <4>3. QED
        BY <4>1, <4>2
    <3>4. QED
      BY <3>2, <3>3 DEF Evaluations
  <2>9. QED
    BY <2>3, <2>4, <2>5, <2>6, <2>7, <2>8 DEF IInv
<1>3. QED
  BY <1>1, <1>2 DEF ScoreHead

\* A slice of the batch has one answer for each fixture.
LEMMA SliceStep ==
  ASSUME IInv, ScoreSlice
  PROVE  IInv'
<1> DEFINE S == Range(answers)
<1>1. status = "scoring" /\ answers # <<>> /\ ScoreHead(SubSeq(answers, 1, Fixtures))
  BY DEF ScoreSlice
<1>2. task \notin failed /\ answers \in Seq(S) /\ Len(answers) = Len(queue) * Fixtures
  BY <1>1 DEF IInv, Batched
<1>3. queue \in Seq(Strategies) /\ Len(queue) \in Nat
  BY <1>1, LenProperties DEF IInv, Queued
<1>4. Fixtures \in Nat /\ Fixtures >= 2 /\ Len(answers) \in Nat \ {0}
  BY <1>1, <1>2, FixtureCount, LenProperties, EmptySeq
<1>5. Len(queue) # 0 /\ Len(answers) >= Fixtures
  BY <1>2, <1>3, <1>4
<1>6. \A i \in 1 .. Fixtures : answers[i] \in S
  BY <1>2, <1>4, <1>5, LenProperties
<1>7. SubSeq(answers, 1, Fixtures) \in Seq(S) /\ Len(SubSeq(answers, 1, Fixtures)) = Fixtures
  BY <1>4, <1>6, SubSeqProperties
<1>8. DOMAIN SubSeq(answers, 1, Fixtures) = 1 .. Fixtures
  BY <1>7, LenProperties
<1>9. queue # <<>>
  BY <1>3, <1>5, EmptySeq
<1>10. QED
  BY <1>1, <1>2, <1>8, <1>9, ScoreStep

\* The cohort runs its worker once for each fixture.
LEMMA CohortStep ==
  ASSUME IInv, EvaluateStrategy
  PROVE  IInv'
<1>1. status = "measuring" /\ driver = "cohort" /\ queue # <<>>
  BY DEF EvaluateStrategy
<1>2. PICK given \in Delivered(Fixtures) : ScoreHead(given)
  BY DEF EvaluateStrategy
<1>3. DOMAIN given = 1 .. Fixtures
  BY <1>2, FixtureCount, DeliveredShape
<1>4. QED
  BY <1>1, <1>2, <1>3, ScoreStep

\* The aggregation reads the record and leaves it as it is.
LEMMA AllocateStep ==
  ASSUME IInv, Allocate
  PROVE  IInv'
<1>1. CASE Raise
  BY <1>1, RaiseStep
<1>2. CASE /\ status' = "allocated"
           /\ UNCHANGED <<driver, task, private, subs, queue, answers, evals, obs, failed>>
  <2>1. status = "open"
    BY DEF Allocate
  <2>2. Recorded' /\ Complete'
    BY <1>2, RecordStands
  <2>3. Control' /\ Given' /\ Queued' /\ Batched'
    BY <1>2, <2>1 DEF IInv, Control, Given, Queued, Batched, Busy
  <2>4. Evaluations'
    BY <1>2, <2>1, NoEvaluation DEF IInv, Queued, Evaluations
  <2>5. QED
    BY <2>2, <2>3, <2>4 DEF IInv
<1>3. QED
  BY <1>1, <1>2 DEF Allocate

\* What the finished task hands to the aggregation.
SeenNow == UNION {MinersOf(s) : s \in DOMAIN evals}
NewObs  == {Observed(m, evals[StrategyOf[subs[m]]]) : m \in SeenNow}
Filled  == IF driver = "batch" THEN {Unavailable(m) : m \in Miners \ SeenNow} ELSE {}

\* The observations of the strategies that were evaluated.
LEMMA ObservedEvident ==
  ASSUME IInv, NEW s \in DOMAIN evals, NEW m
  PROVE  Evident(Observed(m, evals[s]))
<1>1. PICK e, b, given, results, o :
        /\ e = evals[s] /\ b = e.evidence.bundle /\ given = e.evidence.answers
        /\ results = [i \in DOMAIN given |-> given[i].result]
        /\ o = Observed(m, e)
  BY Zenon
<1>2. /\ s = StrategyOf[b] /\ DOMAIN given = 1 .. Fixtures
      /\ \A i \in 1 .. Fixtures : Echo(given[i], b, i)
      /\ e = Evaluated(b, given)
  BY <1>1 DEF IInv, Evaluations, Measured
<1>3. /\ e.strategy = s /\ e.evidence.task = task
      /\ FinalCode(b, results) # "none" => e.reward = 0
  <2>1. e = Evaluated(b, given) /\ results = [i \in DOMAIN given |-> given[i].result]
    BY <1>1, <1>2
  <2>2. /\ e.strategy = StrategyOf[b]
        /\ e.evidence = [task |-> task, bundle |-> b, answers |-> given]
        /\ FinalCode(b, results) # "none" => e.reward = 0
    BY <2>1 DEF Evaluated
  <2>3. QED
    BY <1>2, <2>2
<1>4. PICK shown : shown = [i \in DOMAIN given |->
                    [strategy |-> StrategyOf[given[i].bundle], fixture |-> given[i].fixture,
                     result |-> given[i].result]]
  BY Zenon
<1>5. /\ o.evidence.task = task /\ o.task = task /\ o.strategy = s /\ o.reward = e.reward
      /\ o.evidence.answers = shown
  BY <1>1, <1>3, <1>4 DEF Observed, EvidenceOf
<1>6. ASSUME NEW k \in 1 .. Fixtures
      PROVE  shown[k].strategy = s /\ shown[k].fixture = k /\ shown[k].result = results[k]
  <2>1. given[k].bundle = b /\ given[k].fixture = k
    BY <1>2 DEF Echo
  <2>2. QED
    BY <1>1, <1>2, <1>4, <2>1
<1>7. Len(shown) = Fixtures
  <2>1. shown = [k \in 1 .. Fixtures |-> shown[k]]
    BY <1>2, <1>4
  <2>2. QED
    BY <2>1, FixtureCount, IsSequence
<1>8. ASSUME o.reward > 0
      PROVE  /\ \A i \in 1 .. Fixtures : results[i].correct /\ results[i].compliant
                                         /\ Score(results[i]).valid
             /\ \E i \in 1 .. Fixtures : results[i].used
  <2>1. PICK gates : gates = <<
        <<\E i \in DOMAIN results : ~results[i].correct, "exact_result_gate">>,
        <<\E i \in DOMAIN results : ~results[i].compliant, "artifact_policy_gate">>,
        <<\E i \in DOMAIN results : ~Score(results[i]).valid, "benchmark_invalid">>,
        <<b \notin HasIndexes \/ ~(\E i \in DOMAIN results : results[i].used), "no_robust_improvement">>>>
    BY Zenon
  <2>2. FinalCode(b, results) = FirstClosed(gates)
    BY <2>1, Zenon DEF FinalCode
  <2>3. FinalCode(b, results) = "none"
    BY <1>3, <1>5, <1>8
  <2>4. DOMAIN results = 1 .. Fixtures
    BY <1>1, <1>2
  <2>5. DOMAIN gates = 1 .. 4 /\ \A i \in 1 .. 4 : gates[i][2] # "none"
    BY <2>1
  <2>6. /\ gates[1][1] = (\E i \in DOMAIN results : ~results[i].correct)
        /\ gates[2][1] = (\E i \in DOMAIN results : ~results[i].compliant)
        /\ gates[3][1] = (\E i \in DOMAIN results : ~Score(results[i]).valid)
        /\ gates[4][1] = (b \notin HasIndexes \/ ~(\E i \in DOMAIN results : results[i].used))
    BY <2>1
  <2>7. \A i \in 1 .. 4 : ~gates[i][1]
    BY <2>2, <2>3, <2>5, OpenGates
  <2>8. ~gates[1][1] /\ ~gates[2][1] /\ ~gates[3][1] /\ ~gates[4][1]
    BY <2>7
  <2>9. QED
    BY <2>4, <2>6, <2>8
<1>9. o.reward > 0 =>
        /\ o.evidence.task = o.task /\ Len(o.evidence.answers) = Fixtures
        /\ \A k \in 1 .. Fixtures :
             /\ shown[k].strategy = o.strategy /\ shown[k].fixture = k
             /\ shown[k].result.correct /\ shown[k].result.compliant
             /\ Score(shown[k].result).valid
        /\ \E k \in 1 .. Fixtures : shown[k].result.used
  BY <1>5, <1>6, <1>7, <1>8
<1>10. Evident(o)
  BY <1>5, <1>9 DEF Evident
<1>11. QED
  BY <1>1, <1>10

\* The elements of a concatenation are those of the first, then of the second.
LEMMA Concatenated ==
  ASSUME NEW S, NEW p \in Seq(S), NEW q \in Seq(S), NEW r, r = p \o q
  PROVE  /\ r \in Seq(S)
         /\ \A i \in DOMAIN r : \/ i \in DOMAIN p /\ r[i] = p[i]
                                \/ \E j \in DOMAIN q : i = Len(p) + j /\ r[i] = q[j]
         /\ \A i \in DOMAIN p : i \in DOMAIN r /\ r[i] = p[i]
         /\ \A j \in DOMAIN q : Len(p) + j \in DOMAIN r /\ r[Len(p) + j] = q[j]
<1>1. /\ r \in Seq(S) /\ Len(r) = Len(p) + Len(q)
      /\ \A i \in 1 .. Len(p) + Len(q) : r[i] = IF i <= Len(p) THEN p[i] ELSE q[i - Len(p)]
  BY ConcatProperties
<1>2. /\ DOMAIN p = 1 .. Len(p) /\ DOMAIN q = 1 .. Len(q) /\ DOMAIN r = 1 .. Len(p) + Len(q)
      /\ Len(p) \in Nat /\ Len(q) \in Nat
  BY <1>1, LenProperties
<1>3. ASSUME NEW i \in DOMAIN r
      PROVE  \/ i \in DOMAIN p /\ r[i] = p[i]
             \/ \E j \in DOMAIN q : i = Len(p) + j /\ r[i] = q[j]
  <2>1. CASE i <= Len(p)
    BY <1>1, <1>2, <2>1
  <2>2. CASE ~(i <= Len(p))
    <3>1. i - Len(p) \in 1 .. Len(q) /\ i = Len(p) + (i - Len(p)) /\ r[i] = q[i - Len(p)]
      BY <1>1, <1>2, <2>2
    <3>2. QED
      BY <1>2, <3>1
  <2>3. QED
    BY <2>1, <2>2
<1>4. \A i \in DOMAIN p : i \in DOMAIN r /\ r[i] = p[i]
  BY <1>1, <1>2
<1>5. ASSUME NEW j \in DOMAIN q PROVE Len(p) + j \in DOMAIN r /\ r[Len(p) + j] = q[j]
  <2>1. Len(p) + j \in 1 .. Len(p) + Len(q) /\ ~(Len(p) + j <= Len(p)) /\ Len(p) + j - Len(p) = j
    BY <1>2
  <2>2. QED
    BY <1>1, <1>2, <2>1
<1>6. QED
  BY <1>1, <1>3, <1>4, <1>5

\* When a task is closed, all its strategies were evaluated or none was.
LEMMA ClosedFacts ==
  ASSUME IInv, CloseTask
  PROVE  /\ status \in Busy /\ task \in DOMAIN Schedule /\ subs # Empty /\ answers = <<>>
         /\ SeenNow \subseteq Miners
         /\ task \in failed => SeenNow = {}
         /\ task \notin failed => SeenNow = DOMAIN subs
<1>1. /\ status \in {"measuring", "scoring"} /\ task \in DOMAIN Schedule /\ subs # Empty
      /\ Strategies = DOMAIN evals \cup Range(queue) /\ queue \in Seq(Strategies)
  BY DEF CloseTask, IInv, Control, Given, Queued
<1>2. answers = <<>>
  BY DEF CloseTask, IInv, Batched
<1>3. task \in failed => DOMAIN evals = {}
  BY NoEvaluation DEF CloseTask, IInv, Batched
<1>4. task \notin failed => queue = <<>>
  <2> SUFFICES ASSUME task \notin failed, status = "scoring" PROVE queue = <<>>
    BY DEF CloseTask
  <2>1. Len(answers) = 0 /\ Len(answers) = Len(queue) * Fixtures
    BY <1>2, EmptySeq DEF IInv, Batched
  <2>2. Len(queue) \in Nat /\ Fixtures \in Nat /\ Fixtures >= 2
    BY <1>1, LenProperties, FixtureCount
  <2>3. Len(queue) = 0
    BY <2>1, <2>2
  <2>4. QED
    BY <1>1, <2>3, EmptySeq
<1>5. task \notin failed => DOMAIN evals = Strategies
  BY <1>1, <1>4, RangeOf
<1>6. SeenNow \subseteq DOMAIN subs
  BY DEF SeenNow, MinersOf
<1>7. task \notin failed => DOMAIN subs \subseteq SeenNow
  BY <1>5 DEF SeenNow, MinersOf, Strategies
<1>8. task \in failed => SeenNow = {}
  BY <1>3 DEF SeenNow
<1>9. status \in Busy
  BY <1>1 DEF Busy
<1>10. SeenNow \subseteq Miners
  BY <1>6, <1>9, SubmissionFacts
<1>11. QED
  BY <1>1, <1>2, <1>6, <1>7, <1>8, <1>9, <1>10

\* The observations a task is closed with.
LEMMA NewObservations ==
  ASSUME IInv, CloseTask
  PROVE  /\ IsFiniteSet(NewObs \cup Filled)
         /\ \A o \in NewObs \cup Filled : o.miner \in Miners /\ o.task = task /\ Evident(o)
         /\ \A o \in NewObs : o.available
         /\ \A o \in Filled : ~o.available
         /\ \A m \in SeenNow : \E o \in NewObs : o.miner = m
         /\ \A o \in NewObs : o.miner \in SeenNow
         /\ driver = "batch" => \A m \in Miners \ SeenNow : \E o \in Filled : o.miner = m
         /\ \A x, y \in NewObs \cup Filled : Agree(x, y)
<1>1. SeenNow \subseteq Miners /\ IsFiniteSet(Miners)
  BY ClosedFacts, EvaluationAssumption
<1>2. IsFiniteSet(NewObs)
  <2> DEFINE h == [m \in SeenNow |-> Observed(m, evals[StrategyOf[subs[m]]])]
  <2>1. h \in Surjection(SeenNow, NewObs)
    BY DEF Surjection, NewObs
  <2>2. IsFiniteSet(SeenNow)
    BY <1>1, FS_Subset
  <2>3. QED
    BY <2>1, <2>2, FS_Surjection
<1>3. IsFiniteSet(Filled)
  <2>1. CASE driver = "batch"
    <3> DEFINE h == [m \in Miners \ SeenNow |-> Unavailable(m)]
    <3>1. h \in Surjection(Miners \ SeenNow, Filled)
      BY <2>1 DEF Surjection, Filled
    <3>2. IsFiniteSet(Miners \ SeenNow)
      BY <1>1, FS_Subset
    <3>3. QED
      BY <3>1, <3>2, FS_Surjection
  <2>2. CASE driver # "batch"
    BY <2>2, FS_EmptySet DEF Filled
  <2>3. QED
    BY <2>1, <2>2
<1>4. IsFiniteSet(NewObs \cup Filled)
  BY <1>2, <1>3, FS_Union
<1>5. ASSUME NEW o \in NewObs
      PROVE  \E m \in SeenNow, s \in DOMAIN evals :
               s = StrategyOf[subs[m]] /\ o = Observed(m, evals[s])
  BY DEF NewObs, SeenNow, MinersOf
<1>6. ASSUME NEW o \in Filled PROVE \E m \in Miners \ SeenNow : o = Unavailable(m)
  BY DEF Filled
<1>7. \A m, e : Observed(m, e).miner = m /\ Observed(m, e).task = task /\ Observed(m, e).available
                /\ Observed(m, e).strategy = e.strategy
                /\ Observed(m, e).evidence = EvidenceOf(e) /\ Observed(m, e).reward = e.reward
  BY DEF Observed
<1>8. \A m : Unavailable(m).miner = m /\ Unavailable(m).task = task /\ ~Unavailable(m).available
             /\ Evident(Unavailable(m))
  BY DEF Unavailable, Evident
<1>9. ASSUME NEW s \in DOMAIN evals PROVE evals[s].strategy = s
  <2>1. PICK e, b, given :
          e = evals[s] /\ b = e.evidence.bundle /\ given = e.evidence.answers
    BY Zenon
  <2>2. s = StrategyOf[b] /\ e = Evaluated(b, given)
    BY <2>1 DEF IInv, Evaluations, Measured
  <2>3. e.strategy = StrategyOf[b]
    BY <2>2 DEF Evaluated
  <2>4. QED
    BY <2>1, <2>2, <2>3
<1>10. ASSUME NEW o \in NewObs
       PROVE  o.miner \in SeenNow /\ o.task = task /\ o.available /\ Evident(o)
  <2>1. PICK m \in SeenNow, s \in DOMAIN evals : o = Observed(m, evals[s])
    BY <1>5
  <2>2. QED
    BY <1>7, <2>1, ObservedEvident
<1>11. ASSUME NEW o \in Filled
       PROVE  o.miner \in Miners \ SeenNow /\ o.task = task /\ ~o.available /\ Evident(o)
  BY <1>6, <1>8
<1>12. \A m \in SeenNow : \E o \in NewObs : o.miner = m
  BY <1>7 DEF NewObs
<1>13. driver = "batch" => \A m \in Miners \ SeenNow : \E o \in Filled : o.miner = m
  BY <1>8 DEF Filled
<1>14. ASSUME NEW x \in NewObs, NEW y \in NewObs PROVE Agree(x, y)
  <2>1. PICK m \in SeenNow, s \in DOMAIN evals : s = StrategyOf[subs[m]] /\ x = Observed(m, evals[s])
    BY <1>5
  <2>2. PICK k \in SeenNow, r \in DOMAIN evals : r = StrategyOf[subs[k]] /\ y = Observed(k, evals[r])
    BY <1>5
  <2>3. x.miner = y.miner => x = y
    BY <1>7, <2>1, <2>2
  <2>4. x.strategy = y.strategy => s = r
    BY <1>7, <1>9, <2>1, <2>2
  <2>5. s = r => x.evidence = y.evidence /\ x.reward = y.reward
    BY <1>7, <2>1, <2>2
  <2>6. QED
    BY <2>3, <2>4, <2>5 DEF Agree
<1>15. ASSUME NEW x \in Filled, NEW y \in Filled PROVE Agree(x, y)
  <2>1. PICK m, k : x = Unavailable(m) /\ y = Unavailable(k)
    BY <1>6
  <2>2. x.miner = y.miner => x = y
    BY <1>8, <2>1
  <2>3. QED
    BY <1>11, <2>2 DEF Agree
<1>16. ASSUME NEW x \in NewObs, NEW y \in Filled PROVE Agree(x, y) /\ Agree(y, x)
  BY <1>10, <1>11 DEF Agree
<1>17. QED
  BY <1>1, <1>4, <1>10, <1>11, <1>12, <1>13, <1>14, <1>15, <1>16

\* The observations of a task join the record.
LEMMA CloseStep ==
  ASSUME IInv, CloseTask
  PROVE  IInv'
<1> DEFINE N == NewObs \cup Filled
           S == Range(obs) \cup N
<1>1. PICK q : /\ q \in Seq(N) /\ Range(q) = N
               /\ \A i, j \in 1 .. Len(q) : q[i] = q[j] => i = j
               /\ obs' = obs \o q
  <2>1. obs' = obs \o SetToSeq(N)
    BY Zenon DEF CloseTask, NewObs, Filled, SeenNow
  <2>2. IsFiniteSet(N)
    BY NewObservations
  <2> HIDE DEF N
  <2>3. QED
    BY <2>1, <2>2, Enumeration
<1>2. /\ task' = task + 1 /\ private' = Empty /\ status' = "open" /\ evals' = Empty
      /\ UNCHANGED <<driver, answers, failed>>
  BY DEF CloseTask
<1>3. /\ task \in DOMAIN Schedule /\ subs # Empty /\ answers = <<>> /\ SeenNow \subseteq Miners
      /\ status \in Busy
  BY ClosedFacts
<1>4. DOMAIN Schedule = 1 .. Len(Schedule) /\ Len(Schedule) \in Nat /\ task \in Nat /\ task >= 1
  BY <1>3, AggregationAssumption, LenProperties
<1>5. obs \in Seq(S) /\ q \in Seq(S)
  BY <1>1 DEF IInv, Recorded
<1>6. /\ obs' \in Seq(S)
      /\ \A i \in DOMAIN obs' : \/ i \in DOMAIN obs /\ obs'[i] = obs[i]
                                \/ \E j \in DOMAIN q : i = Len(obs) + j /\ obs'[i] = q[j]
      /\ \A i \in DOMAIN obs : i \in DOMAIN obs' /\ obs'[i] = obs[i]
      /\ \A j \in DOMAIN q : Len(obs) + j \in DOMAIN obs' /\ obs'[Len(obs) + j] = q[j]
  <2>1. PICK T, p, r : T = S /\ p = obs /\ r = obs'
    OBVIOUS
  <2>2. p \in Seq(T) /\ q \in Seq(T) /\ r = p \o q
    BY <1>1, <1>5, <2>1
  <2>3. /\ r \in Seq(T)
        /\ \A i \in DOMAIN r : \/ i \in DOMAIN p /\ r[i] = p[i]
                               \/ \E j \in DOMAIN q : i = Len(p) + j /\ r[i] = q[j]
        /\ \A i \in DOMAIN p : i \in DOMAIN r /\ r[i] = p[i]
        /\ \A j \in DOMAIN q : Len(p) + j \in DOMAIN r /\ r[Len(p) + j] = q[j]
    BY <2>2, Concatenated
  <2>4. QED
    BY <2>1, <2>3
<1>7. \A j \in DOMAIN q : q[j] \in N
  BY <1>1 DEF Range
<1>8. \A o \in N : \E j \in DOMAIN q : q[j] = o
  BY <1>1 DEF Range
<1>9. /\ \A o \in N : o.miner \in Miners /\ o.task = task /\ Evident(o)
      /\ \A x, y \in N : Agree(x, y)
  BY NewObservations
<1>10. \A i \in DOMAIN obs :
         obs[i].miner \in Miners /\ obs[i].task \in 1 .. task - 1 /\ Evident(obs[i])
  BY DEF IInv, Recorded
<1>11. \A i \in DOMAIN obs : obs[i].task # task
  BY <1>4, <1>10
<1>12. Recorded'
  <2>1. obs' \in Seq(Range(obs'))
    BY <1>6, SeqOfRange
  <2>2. ASSUME NEW i \in DOMAIN obs'
        PROVE  obs'[i].miner \in Miners /\ obs'[i].task \in 1 .. task' - 1 /\ Evident(obs'[i])
    <3>1. CASE i \in DOMAIN obs /\ obs'[i] = obs[i]
      BY <1>2, <1>4, <1>10, <3>1
    <3>2. CASE \E j \in DOMAIN q : i = Len(obs) + j /\ obs'[i] = q[j]
      <4>1. PICK o \in N : obs'[i] = o
        BY <1>7, <3>2
      <4>2. task \in 1 .. task' - 1
        BY <1>2, <1>4
      <4>3. QED
        BY <1>9, <4>1, <4>2
    <3>3. QED
      BY <1>6, <3>1, <3>2
  <2>3. ASSUME NEW i \in DOMAIN obs', NEW j \in DOMAIN obs'
        PROVE  Agree(obs'[i], obs'[j]) /\ (obs'[i] = obs'[j] => i = j)
    <3>1. CASE i \in DOMAIN obs /\ obs'[i] = obs[i] /\ j \in DOMAIN obs /\ obs'[j] = obs[j]
      BY <3>1 DEF IInv, Recorded
    <3>2. CASE /\ \E k \in DOMAIN q : i = Len(obs) + k /\ obs'[i] = q[k]
               /\ \E k \in DOMAIN q : j = Len(obs) + k /\ obs'[j] = q[k]
      <4>1. PICK k \in DOMAIN q, l \in DOMAIN q : /\ i = Len(obs) + k /\ obs'[i] = q[k]
                                                  /\ j = Len(obs) + l /\ obs'[j] = q[l]
        BY <3>2
      <4>2. DOMAIN q = 1 .. Len(q)
        BY <1>1, LenProperties
      <4>3. q[k] = q[l] => k = l
        BY <1>1, <4>2
      <4>4. Agree(q[k], q[l])
        BY <1>7, <1>9
      <4>5. QED
        BY <4>1, <4>3, <4>4
    <3>3. CASE i \in DOMAIN obs /\ obs'[i] = obs[i]
               /\ \E k \in DOMAIN q : j = Len(obs) + k /\ obs'[j] = q[k]
      BY <1>7, <1>9, <1>11, <3>3 DEF Agree
    <3>4. CASE j \in DOMAIN obs /\ obs'[j] = obs[j]
               /\ \E k \in DOMAIN q : i = Len(obs) + k /\ obs'[i] = q[k]
      BY <1>7, <1>9, <1>11, <3>4 DEF Agree
    <3>5. QED
      BY <1>6, <3>1, <3>2, <3>3, <3>4
  <2>4. \A o : Evident(o)' <=> Evident(o)
    BY DEF Evident
  <2>5. QED
    BY <2>1, <2>2, <2>3, <2>4 DEF Recorded, Agree, Evident
<1>13. Complete'
  <2>1. ASSUME NEW t \in 1 .. task - 1
        PROVE  Seen(t)' = Seen(t) /\ Listed(t)' = Listed(t)
    <3>1. t # task
      BY <1>4
    <3>2. \A j \in DOMAIN q : q[j].task # t
      BY <1>7, <1>9, <3>1
    <3>3. \A i \in DOMAIN obs' : obs'[i].task = t => i \in DOMAIN obs /\ obs'[i] = obs[i]
      BY <1>6, <3>2
    <3>4. QED
      BY <1>6, <3>3 DEF Seen, Listed
  <2>2. ASSUME NEW t, t = task PROVE Seen(t)' = SeenNow
    <3>1. ASSUME NEW m \in SeenNow
          PROVE  \E i \in DOMAIN obs' : obs'[i].task = task /\ obs'[i].available /\ obs'[i].miner = m
      <4>1. PICK o \in NewObs : o.miner = m
        BY NewObservations
      <4>2. PICK j \in DOMAIN q : q[j] = o
        BY <1>8
      <4>3. o.task = task /\ o.available
        BY NewObservations
      <4>4. QED
        BY <1>6, <4>1, <4>2, <4>3
    <3>2. ASSUME NEW i \in DOMAIN obs', obs'[i].task = task, obs'[i].available
          PROVE  obs'[i].miner \in SeenNow
      <4>1. ~(i \in DOMAIN obs /\ obs'[i] = obs[i])
        BY <1>11, <3>2
      <4>2. PICK o \in N : obs'[i] = o
        BY <1>6, <1>7, <4>1
      <4>3. o \in NewObs
        BY <3>2, <4>2, NewObservations
      <4>4. QED
        BY <4>2, <4>3, NewObservations
    <3>3. QED
      BY <2>2, <3>1, <3>2 DEF Seen
  <2>3. ASSUME NEW t, t = task, driver = "batch" PROVE Listed(t)' = Miners
    <3>1. ASSUME NEW m \in Miners
          PROVE  \E i \in DOMAIN obs' : obs'[i].task = task /\ obs'[i].miner = m
      <4>1. PICK o \in N : o.miner = m
        BY <2>3, NewObservations
      <4>2. PICK j \in DOMAIN q : q[j] = o
        BY <1>8
      <4>3. QED
        BY <1>6, <1>9, <4>1, <4>2
    <3>2. \A i \in DOMAIN obs' : obs'[i].miner \in Miners
      BY <1>12 DEF Recorded
    <3>3. QED
      BY <2>3, <3>1, <3>2 DEF Listed
  <2>4. task \notin failed => SeenNow \in {DOMAIN sub : sub \in Submissions[task]} \ {{}}
    <3>1. subs \in Submissions[task]
      BY <1>3 DEF IInv, Given
    <3>2. DOMAIN subs # {}
      BY <1>3, SubmissionFacts
    <3>3. QED
      BY <3>1, <3>2, ClosedFacts
  <2>5. task \in failed => SeenNow = {}
    BY ClosedFacts
  <2>6. ASSUME NEW t \in 1 .. task' - 1
        PROVE  /\ t \notin failed => Seen(t)' \in {DOMAIN sub : sub \in Submissions[t]} \ {{}}
               /\ t \in failed => Seen(t)' = {}
               /\ driver = "batch" => Listed(t)' = Miners
    <3>1. t = task \/ t \in 1 .. task - 1
      BY <1>2, <1>4
    <3>2. CASE t = task
      BY <1>2, <2>2, <2>3, <2>4, <2>5, <3>2
    <3>3. CASE t \in 1 .. task - 1
      BY <2>1, <3>3 DEF IInv, Complete
    <3>4. QED
      BY <3>1, <3>2, <3>3
  <2>7. QED
    BY <1>2, <2>6 DEF Complete
<1>14. Control' /\ Given'
  BY <1>2, <1>4, <1>3 DEF IInv, Control, Given, Busy
<1>15. Queued'
  BY <1>2 DEF Queued
<1>16. Batched'
  BY <1>2, <1>3, <1>4 DEF IInv, Batched
<1>17. Evaluations'
  BY <1>2, NoEvaluation DEF Evaluations
<1>18. QED
  BY <1>12, <1>13, <1>14, <1>15, <1>16, <1>17 DEF IInv

\* A step that changes nothing.
LEMMA StutterStep ==
  ASSUME IInv, UNCHANGED vars
  PROVE  IInv'
<1>1. Recorded' /\ Complete'
  BY RecordStands DEF vars
<1>2. Control' /\ Given' /\ Queued' /\ Batched'
  BY SameGifts DEF vars, IInv, Control, Given, Queued, Batched, Busy, Strategies
<1>3. Evaluations'
  <2>1. ASSUME NEW s \in DOMAIN evals PROVE Measured(s)'
    <3>1. PICK b, given : b = evals[s].evidence.bundle /\ given = evals[s].evidence.answers
      OBVIOUS
    <3>2. Evaluated(b, given)' = Evaluated(b, given)
      BY SameEvaluation DEF vars
    <3>3. QED
      BY <3>1, <3>2 DEF vars, IInv, Evaluations, Measured
  <2>2. QED
    BY <2>1, SameGifts DEF vars, IInv, Evaluations
<1>4. QED
  BY <1>1, <1>2, <1>3 DEF IInv

\* Every step keeps the invariant.
LEMMA NextIInv == IInv /\ [Next]_vars => IInv'
<1> SUFFICES ASSUME IInv, [Next]_vars PROVE IInv'
  OBVIOUS
<1>1. CASE Create
  BY <1>1, CreateStep
<1>2. CASE Collect
  BY <1>2, CollectStep
<1>3. CASE Group
  BY <1>3, GroupStep
<1>4. CASE RunBatch \/ BatchFails
  BY <1>4, BatchStep
<1>5. CASE ScoreSlice
  BY <1>5, SliceStep
<1>6. CASE EvaluateStrategy
  BY <1>6, CohortStep
<1>7. CASE WorkerRaises
  BY <1>7, RaiseStep DEF WorkerRaises
<1>8. CASE CloseTask
  BY <1>8, CloseStep
<1>9. CASE Allocate
  BY <1>9, AllocateStep
<1>10. CASE UNCHANGED vars
  BY <1>10, StutterStep
<1>11. QED
  BY <1>1, <1>2, <1>3, <1>4, <1>5, <1>6, <1>7, <1>8, <1>9, <1>10 DEF Next

\* The inductive invariant holds in every reachable state of both drivers.
THEOREM Invariance == Spec => []IInv
<1>1. QED
  BY InitIInv, NextIInv, PTL DEF Spec

\* A positive reward has, for every holdout of the task that was created, a
\* correct and compliant answer about that very strategy, one of which uses an
\* index: for both drivers, whatever order the answers come in and whatever the
\* driver is given for the task (_verify_worker_echo, the slices of the batch,
\* _finalize_holdout_evaluation, _validate_and_regenerate_task).
THEOREM EvidenceForRewards == Spec => []RewardHasItsEvidence
  BY Invariance, InvEvidence, PTL

\* A closed task has one available observation of each accepted miner, or of
\* none when its batch failed, and the aggregation never raises ValueError on
\* what the drivers hand over.
THEOREM ObservedWhole == Spec => []TasksObservedWhole
  BY Invariance, InvWhole, PTL

-----------------------------------------------------------------------------
(* Folds over finite sets: the sums and products of the statistics.        *)

\* Induction over the subsets of a finite set: a set of them that holds each
\* subset whose proper subsets it holds, holds them all.
LEMMA SubsetInduction ==
  ASSUME NEW S, IsFiniteSet(S), NEW good \in SUBSET SUBSET S,
         \A T \in SUBSET S : (\A R \in SUBSET T : R # T => R \in good) => T \in good
  PROVE  good = SUBSET S
<1> DEFINE bad == (SUBSET S) \ good
           sizes == {Cardinality(T) : T \in bad}
<1> SUFFICES ASSUME bad # {} PROVE FALSE
  OBVIOUS
<1>1. \A T \in SUBSET S : IsFiniteSet(T) /\ Cardinality(T) \in Nat
  BY FS_Subset, FS_CardinalityType
<1>2. sizes \in SUBSET Nat /\ sizes # {}
  BY <1>1
<1>3. PICK n \in sizes : \A k \in sizes : n <= k
  <2> HIDE DEF sizes
  <2>1. QED
    BY <1>2, MinOfNats
<1>4. PICK T \in bad : Cardinality(T) = n
  OBVIOUS
<1>5. PICK R \in SUBSET T : R # T /\ R \in bad
  OBVIOUS
<1>6. Cardinality(R) < Cardinality(T)
  <2>1. IsFiniteSet(T)
    BY <1>1
  <2>2. Cardinality(R) <= Cardinality(T) /\ Cardinality(R) # Cardinality(T)
    BY <1>5, <2>1, FS_Subset
  <2>3. Cardinality(R) \in Nat /\ Cardinality(T) \in Nat
    BY <1>1
  <2>4. QED
    BY <2>2, <2>3
<1>7. Cardinality(R) \in sizes
  BY <1>5
<1>8. n \in Nat /\ Cardinality(R) \in Nat
  BY <1>1, <1>2
<1> HIDE DEF sizes, bad
<1>9. n <= Cardinality(R)
  BY <1>3, <1>7
<1>10. QED
  BY <1>4, <1>6, <1>8, <1>9

\* What a fold does with a value and the fold of the rest.
Combined(kind, a, b) == IF kind = "product" THEN a * b ELSE a + b

\* The recursion of the sum, or the product, of f over the set S.
IsFold(iter, kind, f, S) ==
  iter = [s \in SUBSET S |->
            IF s = {} THEN IF kind = "product" THEN 1 ELSE 0
            ELSE Combined(kind, f[CHOOSE x \in s : TRUE], iter[s \ {CHOOSE x \in s : TRUE}])]

\* The recursion has a function: built up by the size of the subsets.
LEMMA FoldExists ==
  ASSUME NEW S, IsFiniteSet(S), NEW f, NEW kind \in {"sum", "product"}
  PROVE  \E iter : IsFold(iter, kind, f, S)
<1> DEFINE upTo(n) == {s \in SUBSET S : Cardinality(s) <= n}
           pick(s) == CHOOSE x \in s : TRUE
           base == IF kind = "product" THEN 1 ELSE 0
           folds(n, it) == it = [s \in upTo(n) |-> IF s = {} THEN base
                                                   ELSE Combined(kind, f[pick(s)], it[s \ {pick(s)}])]
           bad == {n \in Nat : ~ \E it : folds(n, it)}
<1>1. \A s \in SUBSET S : IsFiniteSet(s) /\ Cardinality(s) \in Nat
  BY FS_Subset, FS_CardinalityType
<1>2. \A s : s # {} => pick(s) \in s
  OBVIOUS
<1>3. \A s \in SUBSET S : s # {} =>
        s \ {pick(s)} \in SUBSET S /\ Cardinality(s \ {pick(s)}) = Cardinality(s) - 1
  BY <1>1, <1>2, FS_RemoveElement
<1>4. ASSUME bad # {} PROVE FALSE
  <2>1. PICK n \in bad : \A k \in bad : n <= k
    <3>1. bad \in SUBSET Nat
      OBVIOUS
    <3> HIDE DEF bad
    <3>2. QED
      BY <1>4, <3>1, MinOfNats
  <2>2. n # 0
    <3>1. \A s \in upTo(0) : s = {}
      BY <1>1, FS_EmptySet
    <3>2. folds(0, [s \in upTo(0) |-> base])
      BY <3>1
    <3>3. QED
      BY <3>2
  <2>3. n - 1 \in Nat /\ n - 1 \notin bad
    <3>1. n \in Nat
      OBVIOUS
    <3> HIDE DEF bad
    <3>2. QED
      BY <2>1, <2>2, <3>1
  <2>4. PICK it : folds(n - 1, it)
    BY <2>3
  <2> DEFINE new == [s \in upTo(n) |-> IF s = {} THEN base
                                       ELSE Combined(kind, f[pick(s)], it[s \ {pick(s)}])]
  <2>5. \A s \in upTo(n - 1) : s \in upTo(n)
    BY <1>1, <2>3
  <2>6. \A s \in upTo(n - 1) : new[s] = it[s]
    BY <2>4, <2>5
  <2>7. \A s \in upTo(n) : s # {} => s \ {pick(s)} \in upTo(n - 1)
    BY <1>1, <1>3, <2>3
  <2>8. new = [s \in upTo(n) |-> IF s = {} THEN base
                                 ELSE Combined(kind, f[pick(s)], new[s \ {pick(s)}])]
    <3>1. \A s \in upTo(n) : s # {} => new[s \ {pick(s)}] = it[s \ {pick(s)}]
      BY <2>6, <2>7
    <3> HIDE DEF upTo, pick
    <3>2. QED
      BY <3>1
  <2>9. folds(n, new)
    BY <2>8
  <2>10. QED
    BY <2>1, <2>9
<1>5. PICK it : folds(Cardinality(S), it)
  BY <1>1, <1>4
<1>6. upTo(Cardinality(S)) = SUBSET S
  BY <1>1, FS_Subset
<1>7. IsFold(it, kind, f, S)
  BY <1>5, <1>6 DEF IsFold
<1>8. QED
  BY <1>7

\* Two folds over sets, one part of the other, agree where the functions do.
LEMMA FoldsAgree ==
  ASSUME NEW S, IsFiniteSet(S), NEW T \in SUBSET S, NEW f, NEW g, \A x \in T : f[x] = g[x],
         NEW kind \in {"sum", "product"}, NEW i, IsFold(i, kind, f, S), NEW j, IsFold(j, kind, g, T)
  PROVE  \A s \in SUBSET T : i[s] = j[s]
<1> DEFINE pick(s) == CHOOSE x \in s : TRUE
           base == IF kind = "product" THEN 1 ELSE 0
           good == {s \in SUBSET T : i[s] = j[s]}
<1>1. IsFiniteSet(T)
  BY FS_Subset
<1>2. \A s \in SUBSET S : i[s] = IF s = {} THEN base ELSE Combined(kind, f[pick(s)], i[s \ {pick(s)}])
  BY DEF IsFold
<1>3. \A s \in SUBSET T : j[s] = IF s = {} THEN base ELSE Combined(kind, g[pick(s)], j[s \ {pick(s)}])
  BY DEF IsFold
<1>4. ASSUME NEW s \in SUBSET T, \A r \in SUBSET s : r # s => r \in good
      PROVE  s \in good
  <2>1. CASE s = {}
    BY <1>2, <1>3, <2>1
  <2>2. CASE s # {}
    <3>1. pick(s) \in s
      BY <2>2
    <3> HIDE DEF pick
    <3>2. i[s \ {pick(s)}] = j[s \ {pick(s)}] /\ f[pick(s)] = g[pick(s)]
      BY <1>4, <3>1
    <3>3. QED
      BY <1>2, <1>3, <2>2, <3>2
  <2>3. QED
    BY <2>1, <2>2
<1>5. good = SUBSET T
  <2> HIDE DEF good
  <2>1. good \in SUBSET SUBSET T
    BY DEF good
  <2>2. QED
    BY <1>1, <1>4, <2>1, SubsetInduction
<1>6. QED
  BY <1>5

\* The sums of f over the subsets of S are the values of one fold over S.
LEMMA SumIs ==
  ASSUME NEW S, IsFiniteSet(S), NEW f, NEW i, IsFold(i, "sum", f, S), NEW T \in SUBSET S
  PROVE  SumOver(f, T) = i[T]
<1> DEFINE sums(iter) == iter = [s \in SUBSET T |->
                                   IF s = {} THEN 0
                                   ELSE f[CHOOSE x \in s : TRUE] + iter[s \ {CHOOSE x \in s : TRUE}]]
<1>1. PICK j : j = CHOOSE iter : sums(iter)
  OBVIOUS
<1>2. ASSUME NEW iter PROVE sums(iter) <=> IsFold(iter, "sum", f, T)
  BY DEF IsFold, Combined
<1>3. sums(j)
  <2>1. \E iter : IsFold(iter, "sum", f, T)
    BY FS_Subset, FoldExists
  <2> HIDE DEF sums
  <2>2. \E iter : sums(iter)
    BY <1>2, <2>1
  <2>3. QED
    BY <1>1, <2>2
<1>4. SumOver(f, T) = j[T]
  BY <1>1 DEF SumOver, MapThenSumSet, MapThenFoldSet
<1>5. \A s \in SUBSET T : i[s] = j[s]
  <2>1. IsFold(j, "sum", f, T) /\ \A x \in T : f[x] = f[x]
    BY <1>2, <1>3
  <2> HIDE DEF sums
  <2>2. QED
    BY <2>1, FoldsAgree
<1>6. QED
  BY <1>4, <1>5

\* A product is the value of its fold.
LEMMA ProductIs ==
  ASSUME NEW f, IsFiniteSet(DOMAIN f), NEW i, IsFold(i, "product", f, DOMAIN f)
  PROVE  Product(f) = i[DOMAIN f]
<1> DEFINE T == DOMAIN f
           products(iter) == iter = [s \in SUBSET T |->
                                   IF s = {} THEN 1
                                   ELSE f[CHOOSE x \in s : TRUE] * iter[s \ {CHOOSE x \in s : TRUE}]]
<1>1. PICK j : j = CHOOSE iter : products(iter)
  OBVIOUS
<1>2. ASSUME NEW iter PROVE products(iter) <=> IsFold(iter, "product", f, T)
  BY DEF IsFold, Combined
<1>3. products(j)
  <2>1. \E iter : IsFold(iter, "product", f, T)
    BY FoldExists
  <2> HIDE DEF products
  <2>2. \E iter : products(iter)
    BY <1>2, <2>1
  <2>3. QED
    BY <1>1, <2>2
<1>4. Product(f) = j[T]
  BY <1>1 DEF Product, FoldFunction, FoldFunctionOnSet, MapThenFoldSet
<1>5. \A s \in SUBSET T : i[s] = j[s]
  <2>1. IsFold(j, "product", f, T) /\ \A x \in T : f[x] = f[x]
    BY <1>2, <1>3
  <2> HIDE DEF products, T
  <2>2. QED
    BY <2>1, FoldsAgree DEF T
<1>6. QED
  BY <1>4, <1>5

\* Combining naturals gives one.
LEMMA CombinedNats ==
  ASSUME NEW kind \in {"sum", "product"}, NEW a \in Nat, NEW b \in Nat
  PROVE  Combined(kind, a, b) \in Nat
  BY DEF Combined

\* The order in which naturals are combined does not matter.
LEMMA CombinedSwap ==
  ASSUME NEW kind \in {"sum", "product"}, NEW a \in Nat, NEW b \in Nat, NEW c \in Nat
  PROVE  Combined(kind, a, Combined(kind, b, c)) = Combined(kind, b, Combined(kind, a, c))
<1>1. CASE kind = "sum"
  BY <1>1 DEF Combined
<1>2. CASE kind = "product"
  <2>1. a * (b * c) = b * (a * c)
    OBVIOUS
  <2>2. QED
    BY <1>2, <2>1 DEF Combined
<1>3. QED
  BY <1>1, <1>2

\* A fold of naturals is one, and takes its elements in any order.
LEMMA FoldStep ==
  ASSUME NEW S, IsFiniteSet(S), NEW f, \A x \in S : f[x] \in Nat,
         NEW kind \in {"sum", "product"}, NEW i, IsFold(i, kind, f, S)
  PROVE  /\ i[{}] = IF kind = "product" THEN 1 ELSE 0
         /\ \A s \in SUBSET S : i[s] \in Nat
         /\ \A s \in SUBSET S : \A x \in s : i[s] = Combined(kind, f[x], i[s \ {x}])
<1> DEFINE pick(s) == CHOOSE x \in s : TRUE
           base == IF kind = "product" THEN 1 ELSE 0
           good == {s \in SUBSET S : /\ i[s] \in Nat
                                     /\ \A x \in s : i[s] = Combined(kind, f[x], i[s \ {x}])}
<1>1. \A s \in SUBSET S : i[s] = IF s = {} THEN base ELSE Combined(kind, f[pick(s)], i[s \ {pick(s)}])
  BY DEF IsFold
<1>2. ASSUME NEW s \in SUBSET S, \A r \in SUBSET s : r # s => r \in good, s # {}
      PROVE  s \in good
  <2>1. PICK y \in s : y = pick(s)
    BY <1>2
  <2> HIDE DEF pick
  <2>2. i[s] = Combined(kind, f[y], i[s \ {y}])
    BY <1>1, <1>2, <2>1
  <2>3. i[s \ {y}] \in Nat /\ f[y] \in Nat
    BY <1>2
  <2>4. ASSUME NEW x \in s PROVE i[s] = Combined(kind, f[x], i[s \ {x}])
    <3>1. CASE x = y
      BY <2>2, <3>1
    <3>2. CASE x # y
      <4>1. PICK r : r = (s \ {y}) \ {x} /\ r = (s \ {x}) \ {y}
        OBVIOUS
      <4>2. i[s \ {y}] = Combined(kind, f[x], i[r])
        BY <1>2, <3>2, <4>1
      <4>3. i[s \ {x}] = Combined(kind, f[y], i[r])
        BY <1>2, <3>2, <4>1
      <4>4. i[r] \in Nat
        <5>1. r \in SUBSET s /\ r # s
          BY <4>1
        <5>2. QED
          BY <1>2, <5>1
      <4>5. f[x] \in Nat
        OBVIOUS
      <4>6. Combined(kind, f[y], Combined(kind, f[x], i[r])) = Combined(kind, f[x], Combined(kind, f[y], i[r]))
        <5>1. PICK a, b, c \in Nat : a = f[y] /\ b = f[x] /\ c = i[r]
          BY <2>3, <4>4, <4>5
        <5>2. Combined(kind, a, Combined(kind, b, c)) = Combined(kind, b, Combined(kind, a, c))
          BY CombinedSwap
        <5>3. QED
          BY <5>1, <5>2
      <4>7. QED
        BY <2>2, <4>2, <4>3, <4>6
    <3>3. QED
      BY <3>1, <3>2
  <2>5. i[s] \in Nat
    <3>1. PICK a, c \in Nat : a = f[y] /\ c = i[s \ {y}]
      BY <2>3
    <3>2. Combined(kind, a, c) \in Nat
      BY CombinedNats
    <3>3. QED
      BY <2>2, <3>1, <3>2
  <2>6. QED
    BY <2>4, <2>5
<1>3. {} \in good
  BY <1>1
<1>4. good = SUBSET S
  <2> HIDE DEF good
  <2>1. good \in SUBSET SUBSET S
    BY DEF good
  <2>2. \A s \in SUBSET S : (\A r \in SUBSET s : r # s => r \in good) => s \in good
    BY <1>2, <1>3
  <2>3. QED
    BY <2>1, <2>2, SubsetInduction
<1>5. QED
  BY <1>1, <1>4

\* A sum depends on the values it adds.
LEMMA SumEqual ==
  ASSUME NEW S, IsFiniteSet(S), NEW f, NEW g, \A x \in S : f[x] = g[x]
  PROVE  SumOver(f, S) = SumOver(g, S)
<1>1. PICK i : IsFold(i, "sum", f, S)
  BY FoldExists
<1>2. PICK j : IsFold(j, "sum", g, S)
  BY FoldExists
<1>3. SumOver(f, S) = i[S] /\ SumOver(g, S) = j[S]
  BY <1>1, <1>2, SumIs
<1>4. i[S] = j[S]
  <2>1. S \in SUBSET S
    OBVIOUS
  <2>2. \A s \in SUBSET S : i[s] = j[s]
    BY <1>1, <1>2, <2>1, FoldsAgree
  <2>3. QED
    BY <2>2
<1>5. QED
  BY <1>3, <1>4

\* The sum of naturals is one, and takes its elements in any order.
LEMMA SumStep ==
  ASSUME NEW S, IsFiniteSet(S), NEW f, \A x \in S : f[x] \in Nat
  PROVE  /\ SumOver(f, S) \in Nat
         /\ SumOver(f, {}) = 0
         /\ \A x \in S : SumOver(f, S) = f[x] + SumOver(f, S \ {x})
<1>1. PICK i : IsFold(i, "sum", f, S)
  BY FoldExists
<1>2. /\ SumOver(f, S) = i[S] /\ SumOver(f, {}) = i[{}]
      /\ \A x \in S : SumOver(f, S \ {x}) = i[S \ {x}]
  BY <1>1, SumIs
<1>3. /\ i[{}] = 0
      /\ \A s \in SUBSET S : i[s] \in Nat
      /\ \A s \in SUBSET S : \A x \in s : i[s] = Combined("sum", f[x], i[s \ {x}])
  BY <1>1, FoldStep
<1>4. S \in SUBSET S
  OBVIOUS
<1>5. \A x \in S : i[S] = f[x] + i[S \ {x}]
  BY <1>3, <1>4 DEF Combined
<1>6. QED
  BY <1>2, <1>3, <1>4, <1>5

\* Arithmetic: what an added element does to a comparison of sums.
LEMMA AddCompare ==
  ASSUME NEW a \in Nat, NEW b \in Nat, NEW c \in Nat, NEW x \in Nat, NEW y \in Nat,
         NEW p \in Nat, NEW q \in Nat, NEW n \in Nat,
         a * x <= b * y + c, a * p <= b * q + c * n
  PROVE  a * (x + p) <= b * (y + q) + c * (n + 1)
<1>1. a * (x + p) = a * x + a * p /\ b * (y + q) = b * y + b * q /\ c * (n + 1) = c * n + c
  OBVIOUS
<1>2. /\ a * x \in Nat /\ a * p \in Nat /\ b * y \in Nat /\ b * q \in Nat /\ c * n \in Nat
  OBVIOUS
<1>3. QED
  BY <1>1, <1>2

\* Sums compare as their elements do.
LEMMA SumCompare ==
  ASSUME NEW S, IsFiniteSet(S), NEW f, NEW g, \A x \in S : f[x] \in Nat /\ g[x] \in Nat,
         NEW a \in Nat, NEW b \in Nat, NEW c \in Nat,
         \A x \in S : a * f[x] <= b * g[x] + c
  PROVE  a * SumOver(f, S) <= b * SumOver(g, S) + c * Cardinality(S)
<1> DEFINE good == {T \in SUBSET S :
                      a * SumOver(f, T) <= b * SumOver(g, T) + c * Cardinality(T)}
<1>1. \A T \in SUBSET S : IsFiniteSet(T) /\ Cardinality(T) \in Nat
  BY FS_Subset, FS_CardinalityType
<1>2. ASSUME NEW T \in SUBSET S, \A R \in SUBSET T : R # T => R \in good
      PROVE  T \in good
  <2>1. CASE T = {}
    <3>1. SumOver(f, T) = 0 /\ SumOver(g, T) = 0 /\ Cardinality(T) = 0
      BY <2>1, SumStep, FS_EmptySet
    <3>2. QED
      BY <3>1
  <2>2. CASE T # {}
    <3>1. PICK x \in T : TRUE
      BY <2>2
    <3>2. PICK R \in SUBSET S : R = T \ {x}
      OBVIOUS
    <3>3. R \in good
      BY <1>2, <3>1, <3>2
    <3>4. SumOver(f, T) = f[x] + SumOver(f, R) /\ SumOver(g, T) = g[x] + SumOver(g, R)
      BY <1>1, <3>2, SumStep
    <3>5. Cardinality(T) = Cardinality(R) + 1
      BY <1>1, <3>2, FS_RemoveElement
    <3>6. SumOver(f, R) \in Nat /\ SumOver(g, R) \in Nat /\ Cardinality(R) \in Nat
      BY <1>1, SumStep
    <3>7. a * (f[x] + SumOver(f, R)) <= b * (g[x] + SumOver(g, R)) + c * (Cardinality(R) + 1)
      BY <3>3, <3>6, AddCompare
    <3>8. QED
      BY <3>4, <3>5, <3>7
  <2>3. QED
    BY <2>1, <2>2
<1>3. S \in good
  <2> HIDE DEF good
  <2>1. good \in SUBSET SUBSET S
    BY DEF good
  <2>2. QED
    BY <1>2, <2>1, SubsetInduction
<1>4. QED
  BY <1>3

\* A sum of multiples is the multiple of the sum.
LEMMA SumScale ==
  ASSUME NEW S, IsFiniteSet(S), NEW f, NEW g, \A x \in S : f[x] \in Nat,
         NEW a \in Nat, \A x \in S : g[x] = a * f[x]
  PROVE  SumOver(g, S) = a * SumOver(f, S)
<1>1. \A x \in S : g[x] \in Nat /\ 1 * g[x] <= a * f[x] + 0 /\ a * f[x] <= 1 * g[x] + 0
  OBVIOUS
<1>2. 1 * SumOver(g, S) <= a * SumOver(f, S) + 0 * Cardinality(S)
  BY <1>1, SumCompare
<1>3. a * SumOver(f, S) <= 1 * SumOver(g, S) + 0 * Cardinality(S)
  BY <1>1, SumCompare
<1>4. SumOver(f, S) \in Nat /\ SumOver(g, S) \in Nat /\ Cardinality(S) \in Nat
  BY <1>1, SumStep, FS_CardinalityType
<1>5. a * SumOver(f, S) \in Nat
  BY <1>4
<1>6. QED
  BY <1>2, <1>3, <1>4, <1>5

\* A sum of equal values is a product.
LEMMA SumConstant ==
  ASSUME NEW S, IsFiniteSet(S), NEW f, NEW a \in Nat, \A x \in S : f[x] = a
  PROVE  SumOver(f, S) = a * Cardinality(S)
<1> DEFINE one == [x \in S |-> 1]
<1>1. \A x \in S : one[x] = 1 /\ one[x] \in Nat
  OBVIOUS
<1> HIDE DEF one
<1>2. SumOver(f, S) = a * SumOver(one, S)
  BY <1>1, SumScale
<1>3. SumOver(one, S) = Cardinality(S)
  <2> DEFINE good == {T \in SUBSET S : SumOver(one, T) = Cardinality(T)}
  <2>1. \A T \in SUBSET S : IsFiniteSet(T) /\ Cardinality(T) \in Nat
    BY FS_Subset, FS_CardinalityType
  <2>2. ASSUME NEW T \in SUBSET S, \A R \in SUBSET T : R # T => R \in good
        PROVE  T \in good
    <3>1. CASE T = {}
      BY <3>1, SumStep, FS_EmptySet, <1>1
    <3>2. CASE T # {}
      <4>1. PICK x \in T : TRUE
        BY <3>2
      <4>2. PICK R \in SUBSET S : R = T \ {x}
        OBVIOUS
      <4>3. SumOver(one, R) = Cardinality(R)
        BY <2>2, <4>1, <4>2
      <4>4. SumOver(one, T) = 1 + SumOver(one, R)
        BY <1>1, <2>1, <4>2, SumStep
      <4>5. Cardinality(T) = Cardinality(R) + 1 /\ Cardinality(R) \in Nat
        BY <2>1, <4>2, FS_RemoveElement
      <4>6. QED
        BY <4>3, <4>4, <4>5
    <3>3. QED
      BY <3>1, <3>2
  <2>3. S \in good
    <3> HIDE DEF good
    <3>1. good \in SUBSET SUBSET S
      BY DEF good
    <3>2. QED
      BY <2>2, <3>1, SubsetInduction
  <2>4. QED
    BY <2>3
<1>4. QED
  BY <1>2, <1>3

\* A sum is that of a part and that of the rest.
LEMMA SumSplit ==
  ASSUME NEW S, IsFiniteSet(S), NEW f, \A x \in S : f[x] \in Nat, NEW T \in SUBSET S
  PROVE  SumOver(f, S) = SumOver(f, T) + SumOver(f, S \ T)
<1> DEFINE good == {R \in SUBSET S : SumOver(f, S) = SumOver(f, R) + SumOver(f, S \ R)}
<1>1. \A R \in SUBSET S : IsFiniteSet(R) /\ SumOver(f, R) \in Nat
  BY FS_Subset, SumStep
<1>2. ASSUME NEW R \in SUBSET S, \A Q \in SUBSET R : Q # R => Q \in good
      PROVE  R \in good
  <2>1. CASE R = {}
    <3>1. S \ R = S /\ SumOver(f, R) = 0
      BY <2>1, SumStep
    <3>2. QED
      BY <1>1, <3>1
  <2>2. CASE R # {}
    <3>1. PICK x \in R : TRUE
      BY <2>2
    <3>2. PICK Q \in SUBSET S : Q = R \ {x}
      OBVIOUS
    <3>3. SumOver(f, S) = SumOver(f, Q) + SumOver(f, S \ Q)
      BY <1>2, <3>1, <3>2
    <3>4. SumOver(f, R) = f[x] + SumOver(f, Q)
      BY <1>1, <3>2, SumStep
    <3>5. PICK P \in SUBSET S : P = S \ Q
      OBVIOUS
    <3>6. SumOver(f, P) = f[x] + SumOver(f, P \ {x})
      BY <1>1, <3>2, <3>5, SumStep
    <3>7. P \ {x} = S \ R
      BY <3>2, <3>5
    <3>8. SumOver(f, Q) \in Nat /\ SumOver(f, S \ R) \in Nat /\ f[x] \in Nat
      BY <1>1
    <3>9. SumOver(f, S \ Q) = SumOver(f, P) /\ SumOver(f, P \ {x}) = SumOver(f, S \ R)
      BY <3>5, <3>7, Zenon
    <3>10. PICK q, r, p \in Nat : q = SumOver(f, Q) /\ r = SumOver(f, S \ R) /\ p = f[x]
      BY <3>8
    <3>11. SumOver(f, S) = q + (p + r) /\ SumOver(f, R) = p + q
      BY <3>3, <3>4, <3>6, <3>9, <3>10
    <3>12. SumOver(f, S) = SumOver(f, R) + SumOver(f, S \ R)
      BY <3>10, <3>11
    <3>13. QED
      BY <3>12
  <2>3. QED
    BY <2>1, <2>2
<1>3. T \in good
  <2> HIDE DEF good
  <2>1. good \in SUBSET SUBSET S
    BY DEF good
  <2>2. QED
    BY <1>2, <2>1, SubsetInduction
<1>4. QED
  BY <1>3

-----------------------------------------------------------------------------
(* Products, powers and roots.                                             *)

\* Arithmetic: products compare as their factors do.
LEMMA TimesCompare ==
  ASSUME NEW a \in Nat, NEW b \in Nat, NEW c \in Nat, NEW d \in Nat, a <= b, c <= d
  PROVE  a * c <= b * d
<1>1. a * c <= a * d
  OBVIOUS
<1>2. a * d <= b * d
  OBVIOUS
<1>3. a * c \in Nat /\ a * d \in Nat /\ b * d \in Nat
  OBVIOUS
<1>4. QED
  BY <1>1, <1>2, <1>3

\* The products of f over the subsets of D, with the factors in any order.
Multiplies(i, f, D) ==
  /\ i[{}] = 1
  /\ \A s \in SUBSET D : i[s] \in Nat
  /\ \A s \in SUBSET D : \A x \in s : i[s] = f[x] * i[s \ {x}]

\* A fold of products takes its factors in any order.
LEMMA ProductStep ==
  ASSUME NEW D, IsFiniteSet(D), NEW f, \A x \in D : f[x] \in Nat,
         NEW i, IsFold(i, "product", f, D)
  PROVE  Multiplies(i, f, D)
<1>1. /\ i[{}] = IF "product" = "product" THEN 1 ELSE 0
      /\ \A s \in SUBSET D : i[s] \in Nat
      /\ \A s \in SUBSET D : \A x \in s : i[s] = Combined("product", f[x], i[s \ {x}])
  BY FoldStep
<1>2. QED
  BY <1>1 DEF Combined, Multiplies

\* A product of naturals is one; without a zero, it is not less than a factor.
LEMMA ProductNat ==
  ASSUME NEW f, IsFiniteSet(DOMAIN f), \A x \in DOMAIN f : f[x] \in Nat
  PROVE  /\ Product(f) \in Nat
         /\ (\A x \in DOMAIN f : f[x] > 0) => \A x \in DOMAIN f : f[x] <= Product(f)
<1>1. PICK D : D = DOMAIN f
  OBVIOUS
<1>2. PICK i : IsFold(i, "product", f, D)
  BY <1>1, FoldExists
<1>3. Product(f) = i[D]
  BY <1>1, <1>2, ProductIs
<1>4. /\ i[{}] = 1
      /\ \A s \in SUBSET D : i[s] \in Nat
      /\ \A s \in SUBSET D : \A x \in s : i[s] = f[x] * i[s \ {x}]
  <2>1. IsFiniteSet(D) /\ \A x \in D : f[x] \in Nat
    BY <1>1
  <2>2. Multiplies(i, f, D)
    BY <1>2, <2>1, ProductStep
  <2>3. QED
    BY <2>2 DEF Multiplies
<1>5. ASSUME \A x \in D : f[x] > 0, NEW x \in D PROVE f[x] <= i[D]
  <2> DEFINE good == {s \in SUBSET D : i[s] >= 1}
  <2>1. ASSUME NEW s \in SUBSET D, \A r \in SUBSET s : r # s => r \in good PROVE s \in good
    <3>1. CASE s = {}
      BY <1>4, <3>1
    <3>2. CASE s # {}
      <4>1. PICK y \in s : TRUE
        BY <3>2
      <4>2. PICK r : r = s \ {y}
        OBVIOUS
      <4>3. r \in SUBSET D /\ r \in SUBSET s /\ r # s
        BY <4>1, <4>2
      <4>4. i[r] >= 1 /\ i[r] \in Nat
        BY <1>4, <2>1, <4>3
      <4>5. f[y] \in Nat /\ f[y] >= 1
        BY <1>1, <1>5, <4>1
      <4>6. i[s] = f[y] * i[r]
        BY <1>4, <4>1, <4>2
      <4>7. 1 * 1 <= f[y] * i[r]
        BY <4>4, <4>5, TimesCompare
      <4>8. i[s] \in Nat
        BY <1>4
      <4>9. QED
        BY <4>6, <4>7, <4>8
    <3>3. QED
      BY <3>1, <3>2
  <2>2. good = SUBSET D
    <3> HIDE DEF good
    <3>1. good \in SUBSET SUBSET D
      BY DEF good
    <3>2. QED
      BY <1>1, <2>1, <3>1, SubsetInduction
  <2>3. PICK r : r = D \ {x}
    OBVIOUS
  <2>4. i[r] >= 1 /\ i[r] \in Nat /\ i[D] = f[x] * i[r]
    <3>1. r \in SUBSET D /\ D \in SUBSET D
      BY <2>3
    <3>2. QED
      BY <1>4, <2>2, <2>3, <3>1
  <2>5. f[x] \in Nat
    BY <1>1
  <2>6. f[x] * 1 <= f[x] * i[r]
    BY <2>4, <2>5, TimesCompare
  <2>7. QED
    BY <2>4, <2>5, <2>6
<1>6. i[D] \in Nat
  BY <1>4
<1>7. QED
  BY <1>1, <1>3, <1>5, <1>6

\* A product of greater factors is not less.
LEMMA ProductMonotone ==
  ASSUME NEW f, IsFiniteSet(DOMAIN f), NEW g, DOMAIN g = DOMAIN f,
         \A x \in DOMAIN f : f[x] \in Nat /\ g[x] \in Nat /\ f[x] <= g[x]
  PROVE  Product(f) <= Product(g)
<1>1. PICK D : D = DOMAIN f /\ D = DOMAIN g
  OBVIOUS
<1>2. PICK i : IsFold(i, "product", f, D)
  BY <1>1, FoldExists
<1>3. PICK j : IsFold(j, "product", g, D)
  BY <1>1, FoldExists
<1>4. Product(f) = i[D] /\ Product(g) = j[D]
  BY <1>1, <1>2, <1>3, ProductIs
<1>5. /\ i[{}] = 1
      /\ \A s \in SUBSET D : i[s] \in Nat
      /\ \A s \in SUBSET D : \A x \in s : i[s] = f[x] * i[s \ {x}]
  <2>1. IsFiniteSet(D) /\ \A x \in D : f[x] \in Nat
    BY <1>1
  <2>2. Multiplies(i, f, D)
    BY <1>2, <2>1, ProductStep
  <2>3. QED
    BY <2>2 DEF Multiplies
<1>6. /\ j[{}] = 1
      /\ \A s \in SUBSET D : j[s] \in Nat
      /\ \A s \in SUBSET D : \A x \in s : j[s] = g[x] * j[s \ {x}]
  <2>1. IsFiniteSet(D) /\ \A x \in D : g[x] \in Nat
    BY <1>1
  <2>2. Multiplies(j, g, D)
    BY <1>3, <2>1, ProductStep
  <2>3. QED
    BY <2>2 DEF Multiplies
<1> DEFINE good == {s \in SUBSET D : i[s] <= j[s]}
<1>7. ASSUME NEW s \in SUBSET D, \A r \in SUBSET s : r # s => r \in good PROVE s \in good
  <2>1. CASE s = {}
    BY <1>5, <1>6, <2>1
  <2>2. CASE s # {}
    <3>1. PICK y \in s : TRUE
      BY <2>2
    <3>2. PICK r : r = s \ {y}
      OBVIOUS
    <3>3. r \in SUBSET D /\ r \in SUBSET s /\ r # s
      BY <3>1, <3>2
    <3>4. i[r] <= j[r] /\ i[r] \in Nat /\ j[r] \in Nat
      BY <1>5, <1>6, <1>7, <3>3
    <3>5. f[y] \in Nat /\ g[y] \in Nat /\ f[y] <= g[y]
      BY <1>1, <3>1
    <3>6. i[s] = f[y] * i[r] /\ j[s] = g[y] * j[r]
      BY <1>5, <1>6, <3>1, <3>2
    <3>7. f[y] * i[r] <= g[y] * j[r]
      BY <3>4, <3>5, TimesCompare
    <3>8. QED
      BY <3>6, <3>7
  <2>3. QED
    BY <2>1, <2>2
<1>8. good = SUBSET D
  <2> HIDE DEF good
  <2>1. good \in SUBSET SUBSET D
    BY DEF good
  <2>2. QED
    BY <1>1, <1>7, <2>1, SubsetInduction
<1>9. D \in good
  BY <1>8
<1>10. QED
  BY <1>4, <1>9

\* The product of products, factor by factor.
LEMMA ProductTimes ==
  ASSUME NEW f, IsFiniteSet(DOMAIN f), NEW g, DOMAIN g = DOMAIN f, NEW h, DOMAIN h = DOMAIN f,
         \A x \in DOMAIN f : f[x] \in Nat /\ g[x] \in Nat /\ h[x] = f[x] * g[x]
  PROVE  Product(h) = Product(f) * Product(g)
<1>1. PICK D : D = DOMAIN f /\ D = DOMAIN g /\ D = DOMAIN h
  OBVIOUS
<1>2. PICK i : IsFold(i, "product", f, D)
  BY <1>1, FoldExists
<1>3. PICK j : IsFold(j, "product", g, D)
  BY <1>1, FoldExists
<1>4. PICK k : IsFold(k, "product", h, D)
  BY <1>1, FoldExists
<1>5. Product(f) = i[D] /\ Product(g) = j[D] /\ Product(h) = k[D]
  BY <1>1, <1>2, <1>3, <1>4, ProductIs
<1>6. \A x \in D : f[x] \in Nat /\ g[x] \in Nat /\ h[x] \in Nat /\ h[x] = f[x] * g[x]
  BY <1>1
<1>7. IsFiniteSet(D)
  BY <1>1
<1>8. /\ i[{}] = 1
      /\ \A s \in SUBSET D : i[s] \in Nat
      /\ \A s \in SUBSET D : \A x \in s : i[s] = f[x] * i[s \ {x}]
  <2>1. \A x \in D : f[x] \in Nat
    BY <1>6
  <2>2. Multiplies(i, f, D)
    BY <1>2, <1>7, <2>1, ProductStep
  <2>3. QED
    BY <2>2 DEF Multiplies
<1>9. /\ j[{}] = 1
      /\ \A s \in SUBSET D : j[s] \in Nat
      /\ \A s \in SUBSET D : \A x \in s : j[s] = g[x] * j[s \ {x}]
  <2>1. \A x \in D : g[x] \in Nat
    BY <1>6
  <2>2. Multiplies(j, g, D)
    BY <1>3, <1>7, <2>1, ProductStep
  <2>3. QED
    BY <2>2 DEF Multiplies
<1>10. /\ k[{}] = 1
       /\ \A s \in SUBSET D : \A x \in s : k[s] = h[x] * k[s \ {x}]
  <2>1. \A x \in D : h[x] \in Nat
    BY <1>6
  <2>2. Multiplies(k, h, D)
    BY <1>4, <1>7, <2>1, ProductStep
  <2>3. QED
    BY <2>2 DEF Multiplies
<1> DEFINE good == {s \in SUBSET D : k[s] = i[s] * j[s]}
<1>11. ASSUME NEW s \in SUBSET D, \A r \in SUBSET s : r # s => r \in good PROVE s \in good
  <2>1. CASE s = {}
    BY <1>8, <1>9, <1>10, <2>1
  <2>2. CASE s # {}
    <3>1. PICK y \in s : TRUE
      BY <2>2
    <3>2. PICK r : r = s \ {y}
      OBVIOUS
    <3>3. r \in SUBSET D /\ r \in SUBSET s /\ r # s
      BY <3>1, <3>2
    <3>4. k[r] = i[r] * j[r]
      BY <1>11, <3>3
    <3>5. PICK a, b, c, d \in Nat : a = f[y] /\ b = g[y] /\ c = i[r] /\ d = j[r]
      BY <1>6, <1>8, <1>9, <3>1, <3>3
    <3>6. i[s] = a * c /\ j[s] = b * d /\ k[s] = (a * b) * (c * d)
      BY <1>6, <1>8, <1>9, <1>10, <3>1, <3>2, <3>4, <3>5
    <3>7. (a * b) * (c * d) = (a * c) * (b * d)
      OBVIOUS
    <3>8. QED
      BY <3>6, <3>7
  <2>3. QED
    BY <2>1, <2>2
<1>12. good = SUBSET D
  <2> HIDE DEF good
  <2>1. good \in SUBSET SUBSET D
    BY DEF good
  <2>2. QED
    BY <1>1, <1>11, <2>1, SubsetInduction
<1>13. D \in good
  BY <1>12
<1>14. QED
  BY <1>5, <1>13

\* Powers of naturals: their type, their order, and the power of a product.
LEMMA PowerFacts ==
  ASSUME NEW n \in Nat, NEW a \in Nat, NEW b \in Nat
  PROVE  /\ Power(a, n) \in Nat
         /\ a <= b => Power(a, n) <= Power(b, n)
         /\ Power(a * b, n) = Power(a, n) * Power(b, n)
         /\ n > 0 /\ a > 0 => a <= Power(a, n)
<1>1. PICK f, g, h : f = [i \in 1 .. n |-> a] /\ g = [i \in 1 .. n |-> b] /\ h = [i \in 1 .. n |-> a * b]
  OBVIOUS
<1>2. Power(a, n) = Product(f) /\ Power(b, n) = Product(g) /\ Power(a * b, n) = Product(h)
  BY <1>1 DEF Power
<1>3. DOMAIN f = 1 .. n /\ DOMAIN g = 1 .. n /\ DOMAIN h = 1 .. n /\ IsFiniteSet(1 .. n)
  BY <1>1, FS_Interval
<1>4. \A i \in 1 .. n : f[i] = a /\ g[i] = b /\ h[i] = f[i] * g[i]
  BY <1>1
<1>5. Product(f) \in Nat
  BY <1>3, <1>4, ProductNat
<1>6. ASSUME a <= b PROVE Product(f) <= Product(g)
  BY <1>3, <1>4, <1>6, ProductMonotone
<1>7. Product(h) = Product(f) * Product(g)
  BY <1>3, <1>4, ProductTimes
<1>8. ASSUME n > 0, a > 0 PROVE a <= Product(f)
  <2>1. 1 \in DOMAIN f /\ f[1] = a /\ \A x \in DOMAIN f : f[x] > 0
    BY <1>3, <1>4, <1>8
  <2>2. QED
    BY <1>3, <1>4, <2>1, ProductNat
<1>9. QED
  BY <1>2, <1>5, <1>6, <1>7, <1>8

\* Arithmetic: a quotient is a natural, less than what is divided, and not less
\* than what the divisor can be multiplied with.
LEMMA Quotient ==
  ASSUME NEW k \in Nat, NEW d \in Nat, d >= 2
  PROVE  /\ k \div d \in Nat
         /\ k = 0 => k \div d = 0
         /\ k > 0 => k \div d < k
         /\ d * (k \div d) <= k
         /\ \A q \in Nat : d * q <= k => q <= k \div d
<1>1. PICK j, m \in Nat : j = k \div d /\ m = k % d /\ k = d * j + m /\ m < d
  OBVIOUS
<1>2. ASSUME NEW q \in Nat, d * q <= k PROVE q <= j
  <2>1. SUFFICES ASSUME j + 1 <= q PROVE FALSE
    OBVIOUS
  <2>2. d * (j + 1) <= d * q
    BY <2>1, TimesCompare
  <2>3. d * (j + 1) = d * j + d
    OBVIOUS
  <2>4. d * j \in Nat /\ d * q \in Nat
    OBVIOUS
  <2>5. QED
    BY <1>1, <1>2, <2>2, <2>3, <2>4
<1>3. 2 * j <= d * j
  BY TimesCompare
<1>4. d * j \in Nat
  OBVIOUS
<1>5. k > 0 => j < k
  BY <1>1, <1>3, <1>4
<1>6. k = 0 => j = 0
  BY <1>1, <1>3, <1>4
<1>7. d * j <= k
  BY <1>1, <1>4
<1>8. QED
  BY <1>1, <1>2, <1>5, <1>6, <1>7

\* The root of k from that of the quotient.
RootFrom(n, k, half) ==
  IF k = 0 THEN 0 ELSE IF Power(2 * half + 1, n) <= k THEN 2 * half + 1 ELSE 2 * half

\* The recursion of the root up to p.
IsRoot(it, n, p) == it = [k \in 0 .. p |-> RootFrom(n, k, it[k \div Power(2, n)])]

\* The divisor of the recursion.
LEMMA TwoToThe ==
  ASSUME NEW n \in Nat, n > 0
  PROVE  Power(2, n) \in Nat /\ Power(2, n) >= 2
  BY PowerFacts

\* The recursion has a function.
LEMMA RootExists ==
  ASSUME NEW n \in Nat, n > 0, NEW p \in Nat
  PROVE  \E it : IsRoot(it, n, p)
<1>1. PICK d \in Nat : d = Power(2, n) /\ d >= 2
  BY TwoToThe
<1> DEFINE bad == {q \in Nat : ~ \E it : IsRoot(it, n, q)}
<1>2. SUFFICES ASSUME bad # {} PROVE FALSE
  OBVIOUS
<1>3. PICK q \in bad : \A k \in bad : q <= k
  <2>1. bad \in SUBSET Nat
    OBVIOUS
  <2> HIDE DEF bad
  <2>2. QED
    BY <1>2, <2>1, MinOfNats
<1>4. q \in Nat /\ ~ \E it : IsRoot(it, n, q)
  OBVIOUS
<1>5. q # 0
  <2>1. PICK it : it = [k \in 0 .. 0 |-> 0]
    OBVIOUS
  <2>2. \A k \in 0 .. 0 : RootFrom(n, k, it[k \div Power(2, n)]) = 0
    BY DEF RootFrom
  <2>3. IsRoot(it, n, 0)
    BY <2>1, <2>2 DEF IsRoot
  <2>4. QED
    BY <1>4, <2>3
<1>6. q - 1 \in Nat /\ q - 1 \notin bad
  <2> HIDE DEF bad
  <2>1. QED
    BY <1>3, <1>4, <1>5
<1>7. PICK it : IsRoot(it, n, q - 1)
  BY <1>6
<1>8. PICK new : new = [k \in 0 .. q |-> RootFrom(n, k, it[k \div d])]
  OBVIOUS
<1>9. \A k \in 0 .. q - 1 : new[k] = it[k]
  <2>1. \A k \in 0 .. q - 1 : k \in 0 .. q
    BY <1>6
  <2>2. \A k \in 0 .. q - 1 : it[k] = RootFrom(n, k, it[k \div d])
    BY <1>1, <1>7 DEF IsRoot
  <2>3. QED
    BY <1>8, <2>1, <2>2
<1>10. \A k \in 0 .. q : k \div d \in 0 .. q - 1
  <2>1. SUFFICES ASSUME NEW k \in 0 .. q PROVE k \div d \in 0 .. q - 1
    OBVIOUS
  <2>2. k \in Nat /\ k <= q
    BY <1>4
  <2>3. PICK j \in Nat : j = k \div d /\ (k = 0 => j = 0) /\ (k > 0 => j < k)
    BY <1>1, <2>2, Quotient
  <2>4. j \in 0 .. q - 1
    BY <1>4, <1>5, <2>2, <2>3
  <2>5. QED
    BY <2>3, <2>4
<1>11. new = [k \in 0 .. q |-> RootFrom(n, k, new[k \div d])]
  <2>1. \A k \in 0 .. q : new[k \div d] = it[k \div d]
    BY <1>9, <1>10
  <2>2. QED
    BY <1>8, <2>1
<1>12. IsRoot(new, n, q)
  BY <1>1, <1>11 DEF IsRoot
<1>13. QED
  BY <1>4, <1>12

\* The power of 0 is 0.
LEMMA PowerOfZero ==
  ASSUME NEW n \in Nat, n > 0
  PROVE  Power(0, n) = 0
<1>1. PICK a, b \in Nat : a = Power(0, n) /\ b = Power(2, n) /\ b >= 2
  BY PowerFacts, TwoToThe
<1>2. a = a * b
  <2>1. 0 * 2 = 0
    OBVIOUS
  <2>2. Power(0 * 2, n) = Power(0, n) * Power(2, n)
    BY PowerFacts
  <2>3. QED
    BY <1>1, <2>1, <2>2
<1>3. a * 2 <= a * b
  BY <1>1, TimesCompare
<1>4. a = 0
  BY <1>2, <1>3
<1>5. QED
  BY <1>1, <1>4

\* The root of a natural is the greatest number whose power the natural
\* reaches, and that of 0 is 0.
LEMMA RootFacts ==
  ASSUME NEW n \in Nat, n > 0, NEW p \in Nat
  PROVE  /\ Root(n, p) \in Nat
         /\ p = 0 => Root(n, p) = 0
         /\ Power(Root(n, p), n) <= p
         /\ \A r \in Nat : Power(r, n) <= p => r <= Root(n, p)
<1> DEFINE roots(it) == it = [k \in 0 .. p |->
             LET low == 2 * it[k \div Power(2, n)]
             IN  IF k = 0 THEN 0 ELSE IF Power(low + 1, n) <= k THEN low + 1 ELSE low]
<1>1. PICK it : it = CHOOSE g : roots(g)
  OBVIOUS
<1>2. ASSUME NEW g PROVE roots(g) <=> IsRoot(g, n, p)
  BY DEF IsRoot, RootFrom
<1>3. roots(it)
  <2>1. \E g : IsRoot(g, n, p)
    BY RootExists
  <2> HIDE DEF roots
  <2>2. \E g : roots(g)
    BY <1>2, <2>1
  <2>3. QED
    BY <1>1, <2>2
<1>4. Root(n, p) = it[p]
  BY <1>1 DEF Root
<1>5. PICK d \in Nat : d = Power(2, n) /\ d >= 2
  BY TwoToThe
<1>6. \A k \in 0 .. p : it[k] = RootFrom(n, k, it[k \div d])
  <2>1. IsRoot(it, n, p)
    BY <1>2, <1>3
  <2>2. QED
    BY <1>5, <2>1 DEF IsRoot
<1> HIDE DEF roots
<1> DEFINE bad == {k \in 0 .. p : ~(/\ it[k] \in Nat /\ Power(it[k], n) <= k
                                    /\ \A r \in Nat : Power(r, n) <= k => r <= it[k])}
<1>7. ASSUME bad # {} PROVE FALSE
  <2>1. bad \in SUBSET Nat
    OBVIOUS
  <2>2. PICK k \in bad : \A j \in bad : k <= j
    <3> HIDE DEF bad
    <3>1. QED
      BY <1>7, <2>1, MinOfNats
  <2>3. k \in Nat /\ k \in 0 .. p
    OBVIOUS
  <2>4. CASE k = 0
    <3>1. it[k] = 0
      BY <1>6, <2>3, <2>4 DEF RootFrom
    <3>2. ASSUME NEW r \in Nat, Power(r, n) <= k PROVE r <= 0
      <4>1. Power(r, n) \in Nat /\ (r > 0 => r <= Power(r, n))
        BY PowerFacts
      <4>2. QED
        BY <2>4, <3>2, <4>1
    <3>3. Power(it[k], n) <= k
      BY <2>4, <3>1, PowerOfZero
    <3>4. QED
      BY <3>1, <3>2, <3>3
  <2>5. CASE k # 0
    <3>1. PICK j \in Nat : j = k \div d /\ j < k /\ d * j <= k
                               /\ \A q \in Nat : d * q <= k => q <= j
      BY <1>5, <2>3, <2>5, Quotient
    <3>2. j \in 0 .. p /\ j \notin bad
      <4>1. j \in 0 .. p
        BY <2>3, <3>1
      <4> HIDE DEF bad
      <4>2. QED
        BY <2>2, <2>3, <3>1, <4>1
    <3>3. PICK h \in Nat : h = it[j] /\ Power(h, n) <= j /\ \A q \in Nat : Power(q, n) <= j => q <= h
      BY <3>2
    <3>4. it[k] = IF Power(2 * h + 1, n) <= k THEN 2 * h + 1 ELSE 2 * h
      <4>1. it[k] = RootFrom(n, k, h)
        BY <1>6, <2>3, <3>1, <3>3
      <4>2. QED
        BY <2>5, <4>1 DEF RootFrom
    <3>5. ASSUME NEW r \in Nat, Power(r, n) <= k PROVE r <= it[k]
      <4>1. PICK q \in Nat : r = 2 * q \/ r = 2 * q + 1
        <5>1. r \div 2 \in Nat /\ (r = 2 * (r \div 2) \/ r = 2 * (r \div 2) + 1)
          OBVIOUS
        <5>2. QED
          BY <5>1
      <4>2. 2 * q \in Nat /\ 2 * q <= r
        BY <4>1
      <4>3. Power(2 * q, n) <= Power(r, n) /\ Power(2 * q, n) \in Nat /\ Power(r, n) \in Nat
        BY <4>2, PowerFacts
      <4>4. Power(2 * q, n) = Power(2, n) * Power(q, n) /\ Power(q, n) \in Nat
        BY PowerFacts
      <4>5. PICK w \in Nat : w = Power(q, n)
        BY <4>4
      <4>6. d * w <= k
        <5>1. d * w = Power(2 * q, n)
          BY <1>5, <4>4, <4>5
        <5>2. QED
          BY <2>3, <3>5, <4>3, <5>1
      <4>7. q <= h
        BY <3>1, <3>3, <4>5, <4>6
      <4>8. CASE Power(2 * h + 1, n) <= k
        BY <3>4, <4>1, <4>7, <4>8
      <4>9. CASE ~(Power(2 * h + 1, n) <= k)
        <5>1. r # 2 * h + 1
          BY <3>5, <4>9
        <5>2. QED
          BY <3>4, <4>1, <4>7, <4>9, <5>1
      <4>10. QED
        BY <4>8, <4>9
    <3>6. it[k] \in Nat
      BY <3>4
    <3>7. Power(it[k], n) <= k
      <4>1. CASE Power(2 * h + 1, n) <= k
        BY <3>4, <4>1
      <4>2. CASE ~(Power(2 * h + 1, n) <= k)
        <5>1. PICK w \in Nat : w = Power(h, n) /\ w <= j
          BY <3>3, PowerFacts
        <5>2. d * w <= d * j
          BY <5>1, TimesCompare
        <5>3. Power(2 * h, n) = d * w
          BY <1>5, <5>1, PowerFacts
        <5>4. d * w \in Nat /\ d * j \in Nat
          OBVIOUS
        <5>5. QED
          BY <2>3, <3>1, <3>4, <4>2, <5>2, <5>3, <5>4
      <4>3. QED
        BY <4>1, <4>2
    <3>8. QED
      BY <3>5, <3>6, <3>7
  <2>6. QED
    BY <2>4, <2>5
<1>8. p \in 0 .. p
  OBVIOUS
<1>9. it[p] \in Nat /\ Power(it[p], n) <= p /\ \A r \in Nat : Power(r, n) <= p => r <= it[p]
  BY <1>7, <1>8
<1>10. p = 0 => it[p] = 0
  BY <1>6, <1>8 DEF RootFrom
<1>11. QED
  BY <1>4, <1>9, <1>10

-----------------------------------------------------------------------------
(* The robust statistics.                                                  *)

\* The image of a finite set is not larger, and as large if no two are mapped
\* to one.
LEMMA Image ==
  ASSUME NEW S, IsFiniteSet(S), NEW f, NEW T, T = {f[x] : x \in S}
  PROVE  /\ IsFiniteSet(T) /\ Cardinality(T) \in Nat
         /\ Cardinality(T) <= Cardinality(S)
         /\ (\A x, y \in S : f[x] = f[y] => x = y) => Cardinality(T) = Cardinality(S)
<1>1. PICK g : g = [x \in S |-> f[x]]
  OBVIOUS
<1>2. g \in Surjection(S, T)
  BY <1>1 DEF Surjection
<1>3. /\ IsFiniteSet(T) /\ Cardinality(T) <= Cardinality(S)
      /\ Cardinality(T) = Cardinality(S) <=> g \in Injection(S, T)
  BY <1>2, FS_Surjection
<1>4. (\A x, y \in S : f[x] = f[y] => x = y) => g \in Injection(S, T)
  BY <1>1, <1>2 DEF Injection, Surjection, IsInjective
<1>5. QED
  BY <1>3, <1>4, FS_CardinalityType

\* A finite non-empty set of naturals has a greatest element.
LEMMA MaxOfNats ==
  ASSUME NEW S \in SUBSET Nat, S # {}, IsFiniteSet(S)
  PROVE  \E m \in S : \A x \in S : x <= m
<1> DEFINE good == {T \in SUBSET S : T = {} \/ \E m \in T : \A x \in T : x <= m}
<1>1. ASSUME NEW T \in SUBSET S, \A R \in SUBSET T : R # T => R \in good PROVE T \in good
  <2>1. SUFFICES ASSUME T # {} PROVE \E m \in T : \A x \in T : x <= m
    OBVIOUS
  <2>2. PICK y \in T : TRUE
    BY <2>1
  <2>3. T \ {y} \in good
    <3>1. T \ {y} \in SUBSET T /\ T \ {y} # T
      OBVIOUS
    <3> HIDE DEF good
    <3>2. QED
      BY <1>1, <3>1
  <2>4. CASE T \ {y} = {}
    <3>1. \A x \in T : x <= y
      BY <2>4
    <3>2. QED
      BY <3>1
  <2>5. CASE T \ {y} # {}
    <3>1. PICK m \in T \ {y} : \A x \in T \ {y} : x <= m
      BY <2>3, <2>5
    <3>2. m \in Nat /\ y \in Nat
      OBVIOUS
    <3>3. CASE y <= m
      <4>1. \A x \in T : x <= m
        BY <3>1, <3>3
      <4>2. QED
        BY <4>1
    <3>4. CASE ~(y <= m)
      <4>1. \A x \in T : x <= y
        BY <3>1, <3>2, <3>4
      <4>2. QED
        BY <4>1
    <3>5. QED
      BY <3>3, <3>4
  <2>6. QED
    BY <2>4, <2>5
<1>2. S \in good
  <2> HIDE DEF good
  <2>1. good \in SUBSET SUBSET S
    BY DEF good
  <2>2. good = SUBSET S
    BY <1>1, <2>1, SubsetInduction
  <2>3. QED
    BY <2>2
<1>3. QED
  BY <1>2

\* The lesser and the greater of two integers.
LEMMA MinMax ==
  ASSUME NEW a \in Int, NEW b \in Int
  PROVE  /\ Min({a, b}) = IF a <= b THEN a ELSE b
         /\ Max({a, b}) = IF a <= b THEN b ELSE a
<1>1. PICK l \in Int : l = IF a <= b THEN a ELSE b
  OBVIOUS
<1>2. PICK m \in Int : m = IF a <= b THEN b ELSE a
  OBVIOUS
<1>3. l \in {a, b} /\ m \in {a, b} /\ \A y \in {a, b} : l <= y /\ m >= y
  BY <1>1, <1>2
<1>4. \A x \in {a, b} : (\A y \in {a, b} : x <= y) => x = l
  BY <1>1
<1>5. \A x \in {a, b} : (\A y \in {a, b} : x >= y) => x = m
  BY <1>2
<1>6. Min({a, b}) \in {a, b} /\ \A y \in {a, b} : Min({a, b}) <= y
  BY <1>3 DEF Min
<1>7. Max({a, b}) \in {a, b} /\ \A y \in {a, b} : Max({a, b}) >= y
  BY <1>3 DEF Max
<1>8. QED
  BY <1>1, <1>2, <1>4, <1>5, <1>6, <1>7

\* The families of values the statistics are about.
Values(v) == IsFiniteSet(DOMAIN v) /\ DOMAIN v # {} /\ \A k \in DOMAIN v : v[k] \in Nat

\* How many there are.
LEMMA ValueCount ==
  ASSUME NEW v, Values(v)
  PROVE  Cardinality(DOMAIN v) \in Nat \ {0}
  BY FS_CardinalityType, FS_EmptySet DEF Values

\* What is sorted is one of the values.
LEMMA SortedValue ==
  ASSUME NEW v, Values(v), NEW i \in 1 .. Cardinality(DOMAIN v)
  PROVE  \E k \in DOMAIN v : Sorted(v)[i] = v[k]
<1> DEFINE graph == {<<k, v[k]>> : k \in DOMAIN v}
           upTo(x) == Cardinality({p \in graph : p[2] <= x})
           reached == {x \in {p[2] : p \in graph} : upTo(x) >= i}
<1>1. PICK n \in Nat : n = Cardinality(DOMAIN v)
  BY ValueCount
<1>2. PICK D : D = DOMAIN v /\ IsFiniteSet(D) /\ D # {} /\ \A k \in D : v[k] \in Nat
  BY DEF Values
<1>3. IsFiniteSet(graph) /\ Cardinality(graph) = n
  <2>1. PICK f : f = [k \in D |-> <<k, v[k]>>]
    OBVIOUS
  <2>2. graph = {f[k] : k \in D} /\ \A x, y \in D : f[x] = f[y] => x = y
    BY <1>2, <2>1
  <2> HIDE DEF graph
  <2>3. QED
    BY <1>1, <1>2, <2>2, Image
<1>4. PICK R : R = {v[k] : k \in D}
  OBVIOUS
<1>5. R \in SUBSET Nat /\ R # {}
  BY <1>2, <1>4
<1>6. IsFiniteSet(R)
  BY <1>2, <1>4, Image
<1>7. {p[2] : p \in graph} = R
  <2>1. \A p \in graph : p[2] \in R
    BY <1>2, <1>4
  <2>2. \A k \in D : <<k, v[k]>> \in graph /\ <<k, v[k]>>[2] = v[k]
    BY <1>2
  <2>3. \A y \in R : \E p \in graph : p[2] = y
    BY <1>4, <2>2
  <2> HIDE DEF graph
  <2>4. QED
    BY <2>1, <2>3
<1>8. PICK m \in R : \A x \in R : x <= m
  BY <1>5, <1>6, MaxOfNats
<1>9. {p \in graph : p[2] <= m} = graph
  <2>1. \A p \in graph : p[2] \in R
    BY <1>7
  <2>2. QED
    BY <1>8, <2>1
<1>10. upTo(m) = n
  BY <1>3, <1>9
<1>11. m \in reached
  BY <1>1, <1>8, <1>10, <1>7
<1>12. reached \in SUBSET Nat /\ reached # {}
  BY <1>5, <1>11, <1>7
<1>13. Min(reached) \in reached
  <2> HIDE DEF reached
  <2>1. QED
    BY <1>12, MinOfNats
<1>14. Sorted(v)[i] = Min(reached)
  BY DEF Sorted
<1>15. Min(reached) \in R
  BY <1>13, <1>7
<1>16. QED
  BY <1>2, <1>4, <1>14, <1>15

\* So it is a natural, and 0 among zeros.
LEMMA SortedFacts ==
  ASSUME NEW v, Values(v)
  PROVE  \A i \in 1 .. Cardinality(DOMAIN v) :
           Sorted(v)[i] \in Nat /\ ((\A k \in DOMAIN v : v[k] = 0) => Sorted(v)[i] = 0)
<1>1. SUFFICES ASSUME NEW i \in 1 .. Cardinality(DOMAIN v)
               PROVE  Sorted(v)[i] \in Nat /\ ((\A k \in DOMAIN v : v[k] = 0) => Sorted(v)[i] = 0)
  OBVIOUS
<1>2. PICK k \in DOMAIN v : Sorted(v)[i] = v[k]
  BY SortedValue
<1>3. QED
  BY <1>2 DEF Values

\* The median is a natural.
LEMMA MedianNat ==
  ASSUME NEW v, Values(v)
  PROVE  Median2(v) \in Nat
<1>1. PICK n \in Nat \ {0} : n = Cardinality(DOMAIN v)
  BY ValueCount
<1>2. (n + 1) \div 2 \in 1 .. n /\ n \div 2 + 1 \in 1 .. n
  OBVIOUS
<1>3. Sorted(v)[(n + 1) \div 2] \in Nat /\ Sorted(v)[n \div 2 + 1] \in Nat
  BY <1>1, <1>2, SortedFacts
<1>4. QED
  BY <1>1, <1>3 DEF Median2

\* The winsorized mean is a natural, and 0 of zeros.
LEMMA MeanFacts ==
  ASSUME NEW v, Values(v)
  PROVE  /\ WinsorizedMean(v) \in Nat
         /\ (\A k \in DOMAIN v : v[k] = 0) => WinsorizedMean(v) = 0
<1>1. PICK n \in Nat \ {0} : n = Cardinality(DOMAIN v)
  BY ValueCount
<1>2. PICK q \in Nat : q = n \div WinsorShare
  <2>1. WinsorShare \in Nat /\ WinsorShare >= 2
    BY AggregationAssumption
  <2>2. QED
    BY <2>1, Quotient
<1>3. PICK h \in Nat : h = (n - 1) \div 2
  OBVIOUS
<1>4. PICK w \in Nat : w = Min({q, h}) /\ w <= h
  BY MinMax
<1>5. 1 + w \in 1 .. n /\ n - w \in 1 .. n
  BY <1>3, <1>4
<1>6. PICK l, u \in Nat : l = Sorted(v)[1 + w] /\ u = Sorted(v)[n - w]
  BY <1>1, <1>5, SortedFacts
<1>7. PICK b : b = [k \in DOMAIN v |-> Min({u, Max({l, v[k]})})]
  OBVIOUS
<1>8. PICK D : D = DOMAIN v /\ IsFiniteSet(D) /\ \A k \in D : v[k] \in Nat
  BY DEF Values
<1>9. \A k \in D : b[k] \in Nat /\ (l = 0 /\ u = 0 /\ v[k] = 0 => b[k] = 0)
  <2>1. SUFFICES ASSUME NEW k \in D
                 PROVE  b[k] \in Nat /\ (l = 0 /\ u = 0 /\ v[k] = 0 => b[k] = 0)
    OBVIOUS
  <2>2. PICK x \in Nat : x = v[k]
    BY <1>8
  <2>3. PICK y \in Nat : y = Max({l, x}) /\ (l = 0 /\ x = 0 => y = 0)
    BY MinMax
  <2>4. PICK z \in Nat : z = Min({u, y}) /\ (u = 0 /\ y = 0 => z = 0)
    BY MinMax
  <2>5. b[k] = z
    BY <1>7, <1>8, <2>2, <2>3, <2>4
  <2>6. QED
    BY <2>2, <2>3, <2>4, <2>5
<1>10. WinsorizedMean(v) = SumOver(b, D) \div n
  BY <1>1, <1>2, <1>3, <1>4, <1>6, <1>7, <1>8 DEF WinsorizedMean
<1>11. SumOver(b, D) \in Nat
  BY <1>8, <1>9, SumStep
<1>12. SumOver(b, D) \div n \in Nat
  BY <1>11
<1>13. ASSUME \A k \in DOMAIN v : v[k] = 0 PROVE WinsorizedMean(v) = 0
  <2>1. l = 0 /\ u = 0
    BY <1>1, <1>5, <1>6, <1>13, SortedFacts
  <2>2. \A k \in D : b[k] = 0
    BY <1>8, <1>9, <1>13, <2>1
  <2>3. SumOver(b, D) = 0 * Cardinality(D)
    BY <1>8, <2>2, SumConstant
  <2>4. 0 * Cardinality(D) = 0 /\ 0 \div n = 0
    BY <1>1, <1>8
  <2>5. QED
    BY <1>10, <2>3, <2>4
<1>14. QED
  BY <1>10, <1>12, <1>13

\* The standard error is a natural.
LEMMA ErrorNat ==
  ASSUME NEW v, Values(v)
  PROVE  StandardError(v) \in Nat
<1>1. PICK n \in Nat \ {0} : n = Cardinality(DOMAIN v)
  BY ValueCount
<1>2. PICK c \in Nat : c = Median2(v)
  BY MedianNat
<1>3. PICK d : d = [k \in DOMAIN v |-> Max({2 * v[k] - c, c - 2 * v[k]})]
  OBVIOUS
<1>4. Values(d)
  <2>1. ASSUME NEW k \in DOMAIN v PROVE d[k] \in Nat
    <3>1. PICK x \in Nat : x = v[k]
      BY DEF Values
    <3>2. \A a, b \in Int : a + b = 0 => Max({a, b}) \in Nat
      <4>1. SUFFICES ASSUME NEW a \in Int, NEW b \in Int, a + b = 0 PROVE Max({a, b}) \in Nat
        OBVIOUS
      <4>2. Max({a, b}) = IF a <= b THEN b ELSE a
        BY MinMax
      <4>3. (IF a <= b THEN b ELSE a) \in Nat
        BY <4>1
      <4>4. QED
        BY <4>2, <4>3
    <3>3. 2 * x - c \in Int /\ c - 2 * x \in Int /\ (2 * x - c) + (c - 2 * x) = 0
      OBVIOUS
    <3>4. Max({2 * x - c, c - 2 * x}) \in Nat
      BY <3>2, <3>3
    <3>5. QED
      BY <1>3, <3>1, <3>4
  <2>2. DOMAIN d = DOMAIN v
    BY <1>3
  <2>3. QED
    BY <2>1, <2>2 DEF Values
<1>5. PICK m \in Nat : m = Median2(d)
  BY <1>4, MedianNat
<1>6. PICK p \in Nat : p = (9 * m * m) \div (64 * n)
  <2>1. PICK a, e \in Nat : a = 9 * m * m /\ e = 64 * n /\ e >= 2
    OBVIOUS
  <2>2. QED
    BY <2>1, Quotient
<1>7. Root(2, p) \in Nat
  BY RootFacts
<1>8. StandardError(v) = IF n < 2 THEN 0 ELSE Root(2, p)
  BY <1>1, <1>2, <1>3, <1>5, <1>6 DEF StandardError
<1>9. QED
  BY <1>7, <1>8

\* The lower bound of a family is a natural, and 0 if nothing in it has a value.
LEMMA BoundFacts ==
  ASSUME NEW v, Values(v)
  PROVE  /\ LowerBound(v) \in Nat
         /\ (\A k \in DOMAIN v : v[k] = 0) => LowerBound(v) = 0
<1>1. PICK w, e, z \in Nat : w = WinsorizedMean(v) /\ e = StandardError(v) /\ z = ConfidenceZ
  BY MeanFacts, ErrorNat, AggregationAssumption
<1>2. z * e \in Nat /\ w - z * e \in Int
  OBVIOUS
<1>3. Max({0, w - z * e}) \in Nat /\ (w = 0 => Max({0, w - z * e}) = 0)
  BY <1>2, MinMax
<1>4. (\A k \in DOMAIN v : v[k] = 0) => w = 0
  BY <1>1, MeanFacts
<1>5. LowerBound(v) = Max({0, w - z * e})
  BY <1>1 DEF LowerBound
<1>6. QED
  BY <1>3, <1>4, <1>5

-----------------------------------------------------------------------------
(* Rewards are naturals.                                                   *)

\* The score of what a worker can find.
LEMMA ScoreNat ==
  ASSUME NEW r, r.trials \in Seq(Trial), r.savings \in Nat
  PROVE  Score(r).reward \in Nat
<1>1. IsFiniteSet(DOMAIN r.trials)
  <2>1. Len(r.trials) \in Nat /\ DOMAIN r.trials = 1 .. Len(r.trials)
    BY LenProperties
  <2>2. QED
    BY <2>1, FS_Interval
<1>2. PICK d \in Nat : d = Cardinality(Completed(r))
  <2>1. Completed(r) \in SUBSET DOMAIN r.trials
    BY DEF Completed
  <2>2. IsFiniteSet(Completed(r))
    BY <1>1, <2>1, FS_Subset
  <2>3. QED
    BY <2>2, FS_CardinalityType
<1>3. PICK v \in Nat : v = r.savings
  OBVIOUS
<1>4. v * d * d \in Nat
  OBVIOUS
<1>5. Score(r).reward = 0 \/ Score(r).reward = v * d * d
  BY <1>2, <1>3 DEF Score
<1>6. QED
  BY <1>4, <1>5

\* 1 in the unit of a score.
LEMMA OneNat == One \in Nat
<1>1. PICK t, u \in Nat : t = TrialCount /\ u = SavingsUnit
  BY EvaluationAssumption
<1>2. t * t * u \in Nat
  OBVIOUS
<1>3. QED
  BY <1>1, <1>2 DEF One

\* The robust reward of the holdouts.
LEMMA HoldoutNat ==
  ASSUME NEW v, DOMAIN v = 1 .. Fixtures, \A i \in 1 .. Fixtures : v[i] \in Nat
  PROVE  RobustHoldoutReward(v) \in Nat
<1>1. PICK n \in Nat : n = Fixtures /\ n >= 2
  BY FixtureCount
<1>2. Cardinality(DOMAIN v) = n /\ IsFiniteSet(1 .. n) /\ Cardinality(1 .. n) = n
  BY <1>1, FS_Interval
<1>3. Values(v)
  BY <1>1, <1>2 DEF Values
<1>4. PICK w \in 1 .. n : w = Max({1, (n + 3) \div 4})
  <2>1. PICK q \in Nat : q = (n + 3) \div 4 /\ q <= n
    BY <1>1
  <2>2. Max({1, q}) = IF 1 <= q THEN q ELSE 1
    <3>1. PICK x \in Nat : x = 1
      OBVIOUS
    <3>2. Max({x, q}) = IF x <= q THEN q ELSE x
      BY MinMax
    <3>3. QED
      BY <3>1, <3>2
  <2>3. (IF 1 <= q THEN q ELSE 1) \in 1 .. n
    BY <1>1, <2>1
  <2>4. QED
    BY <2>1, <2>2, <2>3
<1>5. PICK q \in Nat : q = SumOver(Sorted(v), 1 .. w) \div w
  <2>1. IsFiniteSet(1 .. w)
    BY FS_Interval
  <2>2. \A i \in 1 .. w : Sorted(v)[i] \in Nat
    BY <1>2, <1>3, SortedFacts
  <2>3. PICK m \in Nat : m = SumOver(Sorted(v), 1 .. w)
    BY <2>1, <2>2, SumStep
  <2>4. m \div w \in Nat
    OBVIOUS
  <2>5. QED
    BY <2>3, <2>4
<1>6. PICK one \in Nat : one = One
  BY OneNat
<1>7. PICK f, g : f = [i \in 1 .. n |-> one] /\ g = [i \in DOMAIN v |-> one + v[i]]
  OBVIOUS
<1>8. /\ DOMAIN f = 1 .. n /\ DOMAIN g = 1 .. n
      /\ \A i \in 1 .. n : f[i] \in Nat /\ g[i] \in Nat /\ f[i] <= g[i]
  BY <1>1, <1>7
<1>9. Product(f) <= Product(g) /\ Product(g) \in Nat
  BY <1>2, <1>8, ProductMonotone, ProductNat
<1>10. Power(one, n) = Product(f)
  BY <1>7 DEF Power
<1>11. PICK p \in Nat : p = Product(g)
  BY <1>9
<1>12. PICK r \in Nat : r = Root(n, p) /\ one <= r
  <2>1. n > 0 /\ Power(one, n) <= p
    BY <1>1, <1>9, <1>10, <1>11
  <2>2. Root(n, p) \in Nat /\ \A r \in Nat : Power(r, n) <= p => r <= Root(n, p)
    BY <2>1, RootFacts
  <2>3. QED
    BY <2>1, <2>2
<1>13. PICK u \in Nat : u = RewardUnit
  BY EvaluationAssumption
<1>14. RobustHoldoutReward(v) = u * (3 * q + 2 * (r - one))
  BY <1>2, <1>4, <1>5, <1>6, <1>7, <1>11, <1>12, <1>13 DEF RobustHoldoutReward
<1>15. PICK d \in Nat : d = r - one
  BY <1>12
<1>16. \A x \in Nat : u * x \in Nat
  OBVIOUS
<1>17. u * (3 * q + 2 * d) \in Nat
  BY <1>16
<1>18. QED
  BY <1>14, <1>15, <1>17

\* An answer whose result scores a natural.
Scored(answer) == Score(answer.result).reward \in Nat

\* So does an evaluation of such answers.
LEMMA EvaluatedNat ==
  ASSUME NEW b, NEW given, DOMAIN given = 1 .. Fixtures, \A i \in 1 .. Fixtures : Scored(given[i])
  PROVE  Evaluated(b, given).reward \in Nat
<1>1. PICK results : results = [i \in DOMAIN given |-> given[i].result]
  OBVIOUS
<1>2. PICK scores : scores = [i \in DOMAIN given |-> Score(results[i]).reward]
  OBVIOUS
<1>3. DOMAIN scores = 1 .. Fixtures /\ \A i \in 1 .. Fixtures : scores[i] \in Nat
  BY <1>1, <1>2 DEF Scored
<1>4. RobustHoldoutReward(scores) \in Nat
  BY <1>3, HoldoutNat
<1>5. Evaluated(b, given).reward = IF FinalCode(b, results) = "none" THEN RobustHoldoutReward(scores) ELSE 0
  BY <1>1, <1>2 DEF Evaluated
<1>6. QED
  BY <1>4, <1>5

\* The ways to answer the requests 1 .. k in their order.
AnswerLists(it, k) == IF k = 0 THEN {<<>>}
                      ELSE {Append(q, a) : q \in it[k - 1], a \in AnswersTo(Item(k))}

\* The recursion of InOrder has a function.
LEMMA ListsExist ==
  ASSUME NEW n \in Nat
  PROVE  \E it : it = [k \in 0 .. n |-> AnswerLists(it, k)]
<1> DEFINE bad == {m \in Nat : ~ \E it : it = [k \in 0 .. m |-> AnswerLists(it, k)]}
<1>1. SUFFICES ASSUME bad # {} PROVE FALSE
  OBVIOUS
<1>2. PICK m \in bad : \A j \in bad : m <= j
  <2>1. bad \in SUBSET Nat
    OBVIOUS
  <2> HIDE DEF bad
  <2>2. QED
    BY <1>1, <2>1, MinOfNats
<1>3. m \in Nat /\ ~ \E it : it = [k \in 0 .. m |-> AnswerLists(it, k)]
  OBVIOUS
<1>4. m # 0
  <2>1. PICK it : it = [k \in 0 .. 0 |-> {<<>>}]
    OBVIOUS
  <2>2. \A k \in 0 .. 0 : AnswerLists(it, k) = {<<>>}
    BY DEF AnswerLists
  <2>3. it = [k \in 0 .. 0 |-> AnswerLists(it, k)]
    BY <2>1, <2>2
  <2>4. QED
    BY <1>3, <2>3
<1>5. m - 1 \in Nat /\ m - 1 \notin bad
  <2> HIDE DEF bad
  <2>1. QED
    BY <1>2, <1>3, <1>4
<1>6. PICK it : it = [k \in 0 .. m - 1 |-> AnswerLists(it, k)]
  BY <1>5
<1>7. PICK new : new = [k \in 0 .. m |-> AnswerLists(it, k)]
  OBVIOUS
<1>8. \A k \in 0 .. m - 1 : new[k] = it[k]
  BY <1>5, <1>6, <1>7
<1>9. \A k \in 0 .. m : AnswerLists(new, k) = AnswerLists(it, k)
  <2>1. SUFFICES ASSUME NEW k \in 0 .. m PROVE AnswerLists(new, k) = AnswerLists(it, k)
    OBVIOUS
  <2>2. CASE k = 0
    BY <2>2 DEF AnswerLists
  <2>3. CASE k # 0
    <3>1. new[k - 1] = it[k - 1]
      BY <1>3, <1>8, <2>3
    <3>2. QED
      BY <2>3, <3>1 DEF AnswerLists
  <2>4. QED
    BY <2>2, <2>3
<1>10. new = [k \in 0 .. m |-> AnswerLists(new, k)]
  BY <1>7, <1>9
<1>11. QED
  BY <1>3, <1>10

\* Every answer in such a list is one to its request.
LEMMA InOrderShape ==
  ASSUME NEW n \in Nat, NEW q \in InOrder(n)
  PROVE  \A i \in 1 .. n : q[i] \in AnswersTo(Item(i))
<1> DEFINE lists(it) == it = [k \in 0 .. n |->
             IF k = 0 THEN {<<>>}
             ELSE {Append(p, a) : p \in it[k - 1], a \in AnswersTo(Item(k))}]
<1>1. PICK it : it = CHOOSE g : lists(g)
  OBVIOUS
<1>2. lists(it)
  <2>1. \A g : lists(g) <=> g = [k \in 0 .. n |-> AnswerLists(g, k)]
    BY DEF AnswerLists
  <2>2. \E g : g = [k \in 0 .. n |-> AnswerLists(g, k)]
    BY ListsExist
  <2> HIDE DEF lists
  <2>3. \E g : lists(g)
    BY <2>1, <2>2
  <2>4. QED
    BY <1>1, <2>3
<1>3. \A k \in 0 .. n : it[k] = AnswerLists(it, k)
  <2>1. \A g : lists(g) <=> g = [k \in 0 .. n |-> AnswerLists(g, k)]
    BY DEF AnswerLists
  <2> HIDE DEF lists
  <2>2. it = [k \in 0 .. n |-> AnswerLists(it, k)]
    BY <1>2, <2>1
  <2>3. QED
    BY <2>2
<1>4. q \in it[n]
  BY <1>1 DEF InOrder
<1>5. PICK S : S = UNION {AnswersTo(Item(k)) : k \in 1 .. n}
  OBVIOUS
<1> DEFINE bad == {k \in 0 .. n : ~ \A p \in it[k] : /\ p \in Seq(S) /\ Len(p) = k
                                                     /\ \A i \in 1 .. k : p[i] \in AnswersTo(Item(i))}
<1>6. ASSUME bad # {} PROVE FALSE
  <2>1. PICK k \in bad : \A j \in bad : k <= j
    <3>1. bad \in SUBSET Nat
      OBVIOUS
    <3> HIDE DEF bad
    <3>2. QED
      BY <1>6, <3>1, MinOfNats
  <2>2. k \in 0 .. n
    OBVIOUS
  <2>3. k # 0
    <3>1. SUFFICES ASSUME k = 0 PROVE FALSE
      OBVIOUS
    <3>2. it[k] = {<<>>}
      <4>1. AnswerLists(it, k) = {<<>>}
        BY <3>1 DEF AnswerLists
      <4>2. QED
        BY <1>3, <2>2, <4>1
    <3>3. <<>> \in Seq(S) /\ Len(<<>>) = k
      BY <3>1, EmptySeq
    <3>4. \A i \in 1 .. k : FALSE
      BY <3>1
    <3>5. \A p \in it[k] : p \in Seq(S) /\ Len(p) = k /\ \A i \in 1 .. k : p[i] \in AnswersTo(Item(i))
      BY <3>2, <3>3, <3>4
    <3>6. QED
      BY <3>5
  <2>4. k - 1 \in 0 .. n /\ k - 1 \notin bad
    <3>1. k - 1 \in 0 .. n /\ ~(k <= k - 1)
      BY <2>2, <2>3
    <3> HIDE DEF bad
    <3>2. QED
      BY <2>1, <3>1
  <2>5. \A p \in it[k - 1] : /\ p \in Seq(S) /\ Len(p) = k - 1
                             /\ \A i \in 1 .. k - 1 : p[i] \in AnswersTo(Item(i))
    BY <2>4
  <2>6. \A r \in it[k] : \E p \in it[k - 1], a \in AnswersTo(Item(k)) : r = Append(p, a)
    <3>1. \A r \in AnswerLists(it, k) : \E p \in it[k - 1], a \in AnswersTo(Item(k)) : r = Append(p, a)
      BY <2>3 DEF AnswerLists
    <3>2. QED
      BY <1>3, <2>2, <3>1
  <2>7. ASSUME NEW r \in it[k]
        PROVE  r \in Seq(S) /\ Len(r) = k /\ \A i \in 1 .. k : r[i] \in AnswersTo(Item(i))
    <3>1. PICK p \in it[k - 1], a \in AnswersTo(Item(k)) : r = Append(p, a)
      BY <2>6
    <3>2. a \in S /\ p \in Seq(S) /\ Len(p) = k - 1 /\ \A i \in 1 .. k - 1 : p[i] \in AnswersTo(Item(i))
      <4>1. k \in 1 .. n
        BY <2>2, <2>3
      <4>2. a \in S
        BY <1>5, <4>1
      <4>3. QED
        BY <2>5, <4>2
    <3>3. /\ r \in Seq(S) /\ Len(r) = Len(p) + 1 /\ r[Len(p) + 1] = a
          /\ \A i \in 1 .. Len(p) : r[i] = p[i]
      BY <3>1, <3>2, AppendProperties
    <3>4. Len(r) = k /\ r[k] = a /\ \A i \in 1 .. k - 1 : r[i] = p[i]
      BY <2>2, <3>2, <3>3
    <3>5. ASSUME NEW i \in 1 .. k PROVE r[i] \in AnswersTo(Item(i))
      <4>1. CASE i = k
        BY <3>4, <4>1
      <4>2. CASE i # k
        <5>1. i \in 1 .. k - 1
          BY <2>2, <4>2
        <5>2. QED
          BY <3>2, <3>4, <5>1
      <4>3. QED
        BY <4>1, <4>2
    <3>6. QED
      BY <3>3, <3>4, <3>5
  <2>8. QED
    BY <2>7
<1>7. n \in 0 .. n
  OBVIOUS
<1>8. QED
  BY <1>4, <1>6, <1>7

\* The answers of a worker are worth naturals.
LEMMA DeliveredScored ==
  ASSUME IInv, status \in {"measuring", "scoring"},
         NEW n \in Nat, n <= Len(queue) * Fixtures, NEW q \in Delivered(n)
  PROVE  \A k \in DOMAIN q : Scored(q[k])
<1>1. PICK p \in InOrder(n), turn \in {0, n \div 2} :
        q = [k \in 1 .. n |-> p[1 + ((k - 1 + turn) % n)]]
  BY DEF Delivered
<1>2. PICK f \in Nat : f = Fixtures /\ f >= 2
  BY FixtureCount
<1>3. queue \in Seq(Strategies)
  BY DEF IInv, Queued
<1>4. PICK l \in Nat : l = Len(queue)
  BY <1>3, LenProperties
<1>5. task \in DOMAIN Schedule /\ status \in Busy
  BY DEF IInv, Control, Busy
<1>6. ASSUME NEW i \in 1 .. n PROVE Scored(p[i])
  <2>1. PICK j \in Nat : j = (i - 1) \div f /\ f * j <= i - 1
    <3>1. i - 1 \in Nat
      OBVIOUS
    <3>2. \A x \in Nat : x \div f \in Nat /\ f * (x \div f) <= x
      BY <1>2, Quotient
    <3>3. QED
      BY <3>1, <3>2
  <2>2. 1 + j \in 1 .. l
    <3>1. SUFFICES ASSUME l <= j PROVE FALSE
      OBVIOUS
    <3>2. f * l <= f * j
      BY <3>1, TimesCompare
    <3>3. f * l \in Nat /\ f * j \in Nat /\ l * f = f * l
      OBVIOUS
    <3>4. n <= l * f
      BY <1>2, <1>4
    <3>5. QED
      BY <2>1, <3>2, <3>3, <3>4
  <2>3. PICK s \in Strategies : s = queue[1 + j]
    BY <1>3, <1>4, <2>2
  <2>4. PICK m \in DOMAIN subs : s = StrategyOf[subs[m]]
    BY DEF Strategies
  <2>5. s \in DOMAIN PlanOf
    <3>1. subs[m] \in Bundles
      BY <1>5, SubmissionFacts
    <3>2. QED
      BY <2>4, <3>1, EvaluationAssumption
  <2>6. Item(i).bundle = Canonical(s) /\ StrategyOf[Canonical(s)] = s
    <3>1. Item(i).bundle = Canonical(s)
      BY <1>2, <2>1, <2>3 DEF Item
    <3>2. QED
      BY <1>5, <3>1, CanonicalFacts
  <2>7. PICK r \in OutcomesOf[task][s] : p[i].result = r
    <3>1. p[i] \in AnswersTo(Item(i))
      BY InOrderShape
    <3>2. QED
      BY <2>6, <3>1 DEF AnswersTo
  <2>8. r.trials \in Seq(Trial) /\ r.savings \in Nat
    BY <1>5, <2>5, EvaluationAssumption
  <2>9. QED
    BY <2>7, <2>8, ScoreNat DEF Scored
<1>7. ASSUME NEW k \in DOMAIN q PROVE Scored(q[k])
  <2>1. k \in 1 .. n /\ q[k] = p[1 + ((k - 1 + turn) % n)]
    BY <1>1
  <2>2. 1 + ((k - 1 + turn) % n) \in 1 .. n
    <3>1. PICK x \in Nat : x = k - 1 + turn
      <4>1. turn \in Nat
        OBVIOUS
      <4>2. QED
        BY <2>1, <4>1
    <3>2. n > 0
      BY <2>1
    <3>3. x % n \in 0 .. n - 1
      BY <3>1, <3>2
    <3>4. QED
      BY <3>1, <3>3
  <2>3. QED
    BY <1>6, <2>1, <2>2
<1>8. QED
  BY <1>7

-----------------------------------------------------------------------------
(* The rewards and the plan along the steps.                               *)

\* An observation that is worth a natural.
Worth(o) ==
  /\ o = [miner |-> o.miner, task |-> o.task, available |-> o.available, correct |-> o.correct,
          compliant |-> o.compliant, reward |-> o.reward, strategy |-> o.strategy,
          behavior |-> o.behavior, evidence |-> o.evidence]
  /\ o.reward \in Nat

\* Whatever is scored is worth a natural.
Sound ==
  /\ \A i \in DOMAIN answers : Scored(answers[i])
  /\ \A s \in DOMAIN evals : evals[s].reward \in Nat
  /\ \A i \in DOMAIN obs : Worth(obs[i])

\* The plan is that of the observations, and there is none before.
Allocated ==
  IF status = "allocated"
  THEN /\ aggregates = AggregateNetwork(obs, Miners)
       /\ reason = NoPlanReason(aggregates, MinDistinct, CapNum, CapDen)
       /\ weights = IF reason # "none" THEN Empty
                    ELSE [m \in Eligible(aggregates) |-> ShareOf(aggregates, m, CapNum, CapDen)]
  ELSE weights = Empty

RInv == Sound /\ Allocated

\* Init establishes the invariant.
LEMMA InitRInv == Init => RInv
  BY NoEvaluation, EmptySeq DEF Init, RInv, Sound, Allocated, Worth

\* A step that allocates nothing.
LEMMA NoPlanYet ==
  ASSUME Allocated, status # "allocated", status' # "allocated", weights' = weights
  PROVE  Allocated'
  BY DEF Allocated

\* An exception leaves the record.
LEMMA RaiseSound ==
  ASSUME RInv, status # "allocated", Raise
  PROVE  RInv'
<1>1. Allocated'
  BY NoPlanYet DEF RInv, Raise
<1>2. Sound'
  BY NoEvaluation, EmptySeq DEF RInv, Sound, Raise, Scored, Worth
<1>3. QED
  BY <1>1, <1>2 DEF RInv

\* The material, the submissions and the queue are worth nothing yet.
LEMMA EarlySound ==
  ASSUME RInv, Create \/ Collect \/ Group \/ WorkerRaises \/ BatchFails
  PROVE  RInv'
<1>1. status # "allocated"
  BY DEF Create, Collect, Group, WorkerRaises, BatchFails
<1>2. CASE Raise
  BY <1>1, <1>2, RaiseSound
<1>3. CASE /\ status' # "allocated" /\ weights' = weights /\ obs' = obs
           /\ answers' \in {answers, <<>>} /\ evals' \in {evals, Empty}
  <2>1. Allocated'
    BY <1>1, <1>3, NoPlanYet DEF RInv
  <2>2. Sound'
    BY <1>3, NoEvaluation, EmptySeq DEF RInv, Sound, Scored, Worth
  <2>3. QED
    BY <2>1, <2>2 DEF RInv
<1>4. QED
  BY <1>2, <1>3 DEF Create, Collect, Group, WorkerRaises, BatchFails

\* The answers of the batch.
LEMMA BatchSound ==
  ASSUME IInv, RInv, RunBatch
  PROVE  RInv'
<1>1. /\ status = "measuring" /\ status' = "scoring" /\ UNCHANGED <<evals, obs, weights>>
      /\ answers' \in Delivered(Len(queue) * Fixtures)
  BY DEF RunBatch
<1>2. Allocated'
  BY <1>1, NoPlanYet DEF RInv
<1>3. \A k \in DOMAIN answers' : Scored(answers'[k])
  <2>1. PICK q : q = answers'
    OBVIOUS
  <2>2. queue \in Seq(Strategies)
    BY <1>1 DEF IInv, Queued
  <2>3. PICK n \in Nat : n = Len(queue) * Fixtures
    BY <2>2, LenProperties, FixtureCount
  <2>4. \A k \in DOMAIN q : Scored(q[k])
    BY <1>1, <2>1, <2>3, DeliveredScored
  <2>5. QED
    BY <2>1, <2>4
<1>4. Sound'
  BY <1>1, <1>3 DEF RInv, Sound, Scored, Worth
<1>5. QED
  BY <1>2, <1>4 DEF RInv

\* What is scored from answers that score naturals.
LEMMA ScoreSound ==
  ASSUME RInv, status # "allocated",
         NEW given, DOMAIN given = 1 .. Fixtures, \A i \in 1 .. Fixtures : Scored(given[i]),
         \A i \in DOMAIN SubSeq(answers, Fixtures + 1, Len(answers)) :
           Scored(SubSeq(answers, Fixtures + 1, Len(answers))[i]),
         ScoreHead(given)
  PROVE  RInv'
<1> DEFINE b == Canonical(Head(queue))
<1>1. CASE Raise
  BY <1>1, RaiseSound
<1>2. CASE /\ evals' = [s \in DOMAIN evals \cup {StrategyOf[b]} |->
                          IF s = StrategyOf[b] THEN Evaluated(b, given) ELSE evals[s]]
           /\ answers' = SubSeq(answers, Fixtures + 1, Len(answers))
           /\ UNCHANGED <<status, obs, weights>>
  <2>1. Allocated'
    BY <1>2, NoPlanYet DEF RInv
  <2>2. Evaluated(b, given).reward \in Nat
    BY EvaluatedNat
  <2>3. ASSUME NEW s \in DOMAIN evals' PROVE evals'[s].reward \in Nat
    <3>1. evals'[s] = Evaluated(b, given) \/ (s \in DOMAIN evals /\ evals'[s] = evals[s])
      BY <1>2
    <3>2. QED
      BY <2>2, <3>1 DEF RInv, Sound
  <2>4. PICK q : q = SubSeq(answers, Fixtures + 1, Len(answers)) /\ answers' = q
    BY <1>2
  <2>5. Sound'
    BY <1>2, <2>3, <2>4 DEF RInv, Sound, Scored, Worth
  <2>6. QED
    BY <2>1, <2>5 DEF RInv
<1>3. QED
  BY <1>1, <1>2 DEF ScoreHead

\* The next slice of the batch.
LEMMA SliceSound ==
  ASSUME IInv, RInv, ScoreSlice
  PROVE  RInv'
<1>1. status = "scoring" /\ answers # <<>> /\ ScoreHead(SubSeq(answers, 1, Fixtures))
  BY DEF ScoreSlice
<1>2. PICK S, f, l : S = Range(answers) /\ f = Fixtures /\ l = Len(answers)
  OBVIOUS
<1>3. answers \in Seq(S) /\ l = Len(queue) * f
  BY <1>1, <1>2 DEF IInv, Batched
<1>4. f \in Nat /\ f >= 2 /\ l \in Nat \ {0}
  BY <1>1, <1>2, <1>3, FixtureCount, LenProperties, EmptySeq
<1>5. l >= f
  <2>1. queue \in Seq(Strategies) /\ Len(queue) \in Nat
    BY <1>1, LenProperties DEF IInv, Queued
  <2>2. QED
    BY <1>3, <1>4, <2>1
<1>6. \A i \in 1 .. l : answers[i] \in S /\ Scored(answers[i])
  <2>1. DOMAIN answers = 1 .. l
    BY <1>2, <1>3, LenProperties
  <2>2. QED
    BY <1>2, <2>1 DEF RInv, Sound, Range
<1>7. PICK g, h : g = SubSeq(answers, 1, f) /\ h = SubSeq(answers, f + 1, l)
  OBVIOUS
<1>8. DOMAIN g = 1 .. f /\ \A i \in 1 .. f : g[i] = answers[i]
  <2>1. \A i \in 1 .. f : answers[i] \in S
    BY <1>4, <1>5, <1>6
  <2>2. /\ g \in Seq(S) /\ Len(g) = f - 1 + 1
        /\ \A i \in 1 .. f - 1 + 1 : g[i] = answers[1 + i - 1]
    BY <1>4, <1>7, <2>1, SubSeqProperties
  <2>3. QED
    BY <1>4, <2>2, LenProperties
<1>9. \A i \in DOMAIN h : \E k \in 1 .. l : h[i] = answers[k]
  <2>1. \A i \in f + 1 .. l : answers[i] \in S
    BY <1>4, <1>6
  <2>2. /\ h \in Seq(S) /\ Len(h) = IF f + 1 <= l THEN l - (f + 1) + 1 ELSE 0
        /\ \A i \in 1 .. l - (f + 1) + 1 : h[i] = answers[f + 1 + i - 1]
    BY <1>4, <1>7, <2>1, SubSeqProperties
  <2>3. DOMAIN h = 1 .. l - f
    BY <1>4, <1>5, <2>2, LenProperties
  <2>4. \A i \in 1 .. l - f : f + 1 + i - 1 \in 1 .. l /\ i \in 1 .. l - (f + 1) + 1
    BY <1>4, <1>5
  <2>5. QED
    BY <2>2, <2>3, <2>4
<1>10. \A i \in 1 .. f : Scored(g[i])
  BY <1>4, <1>5, <1>6, <1>8
<1>11. \A i \in DOMAIN h : Scored(h[i])
  BY <1>6, <1>9
<1>12. ScoreHead(g)
  BY <1>1, <1>2, <1>7
<1>13. QED
  BY <1>1, <1>2, <1>7, <1>8, <1>10, <1>11, <1>12, ScoreSound

\* The next strategy of the cohort.
LEMMA CohortSound ==
  ASSUME IInv, RInv, EvaluateStrategy
  PROVE  RInv'
<1>1. status = "measuring" /\ driver = "cohort" /\ queue # <<>>
  BY DEF EvaluateStrategy
<1>2. PICK given \in Delivered(Fixtures) : ScoreHead(given)
  BY DEF EvaluateStrategy
<1>3. PICK f \in Nat : f = Fixtures /\ f >= 2
  BY FixtureCount
<1>4. DOMAIN given = 1 .. f
  BY <1>2, <1>3, DeliveredShape
<1>5. f <= Len(queue) * Fixtures
  <2>1. queue \in Seq(Strategies) /\ Len(queue) \in Nat \ {0}
    BY <1>1, EmptySeq DEF IInv, Queued
  <2>2. PICK l \in Nat : l = Len(queue) /\ 1 <= l
    BY <2>1
  <2>3. 1 * f <= l * f
    BY <2>2, TimesCompare
  <2>4. QED
    BY <1>3, <2>2, <2>3
<1>6. \A k \in DOMAIN given : Scored(given[k])
  BY <1>1, <1>2, <1>3, <1>5, DeliveredScored
<1>7. answers = <<>>
  BY <1>1 DEF IInv, Batched
<1>8. SubSeq(answers, Fixtures + 1, Len(answers)) = <<>>
  BY <1>3, <1>7, SubSeqEmpty, EmptySeq
<1>9. \A i \in DOMAIN SubSeq(answers, Fixtures + 1, Len(answers)) :
        Scored(SubSeq(answers, Fixtures + 1, Len(answers))[i])
  <2>1. PICK h : h = SubSeq(answers, Fixtures + 1, Len(answers)) /\ h = <<>>
    BY <1>8
  <2>2. DOMAIN h = {}
    <3>1. h \in Seq({}) /\ Len(h) = 0
      BY <2>1, EmptySeq
    <3>2. DOMAIN h = 1 .. Len(h)
      BY <3>1, LenProperties
    <3>3. QED
      BY <3>1, <3>2
  <2>3. \A i \in DOMAIN h : Scored(h[i])
    BY <2>2
  <2>4. QED
    BY <2>1, <2>3
<1>10. QED
  BY <1>1, <1>2, <1>3, <1>4, <1>6, <1>9, ScoreSound

\* The observations of a closed task are worth what its evaluations are.
LEMMA CloseSound ==
  ASSUME IInv, RInv, CloseTask
  PROVE  RInv'
<1> DEFINE N == NewObs \cup Filled
<1>1. /\ status \in {"measuring", "scoring"} /\ status' = "open"
      /\ evals' = Empty /\ answers' = answers /\ weights' = weights
  BY DEF CloseTask
<1>2. Allocated'
  BY <1>1, NoPlanYet DEF RInv
<1>3. \A o \in N : Worth(o)
  <2>1. ASSUME NEW o \in NewObs PROVE Worth(o)
    <3>1. PICK m \in SeenNow : o = Observed(m, evals[StrategyOf[subs[m]]])
      BY DEF NewObs
    <3>2. PICK e : e = evals[StrategyOf[subs[m]]] /\ e.reward \in Nat
      BY DEF SeenNow, MinersOf, RInv, Sound
    <3>3. o = Observed(m, e)
      BY <3>1, <3>2
    <3>4. QED
      BY <3>2, <3>3 DEF Observed, Worth
  <2>2. ASSUME NEW o \in Filled PROVE Worth(o)
    <3>1. PICK m : o = Unavailable(m)
      BY DEF Filled
    <3>2. QED
      BY <3>1 DEF Unavailable, Worth
  <2>3. QED
    BY <2>1, <2>2
<1>4. PICK q : q \in Seq(N) /\ obs' = obs \o q
  <2>1. obs' = obs \o SetToSeq(N)
    BY Zenon DEF CloseTask, NewObs, Filled, SeenNow
  <2>2. IsFiniteSet(N)
    BY NewObservations
  <2> HIDE DEF N
  <2>3. QED
    BY <2>1, <2>2, Enumeration
<1>5. PICK T, p, r : T = Range(obs) \cup N /\ p = obs /\ r = obs'
  OBVIOUS
<1>6. p \in Seq(T) /\ q \in Seq(T) /\ r = p \o q
  BY <1>4, <1>5 DEF IInv, Recorded
<1>7. \A x \in T : Worth(x)
  BY <1>3, <1>5 DEF RInv, Sound, Range
<1>8. \A i \in DOMAIN r : r[i] \in T
  BY <1>6, Concatenated, LenProperties
<1>9. \A i \in DOMAIN obs' : Worth(obs'[i])
  BY <1>5, <1>7, <1>8
<1>10. Sound'
  BY <1>1, <1>9, NoEvaluation DEF RInv, Sound, Scored, Worth
<1>11. QED
  BY <1>2, <1>10 DEF RInv

\* The plan.
LEMMA AllocateSound ==
  ASSUME RInv, Allocate
  PROVE  RInv'
<1>1. status = "open"
  BY DEF Allocate
<1>2. CASE Raise
  BY <1>1, <1>2, RaiseSound
<1>3. CASE ~Raise
  <2>1. /\ aggregates' = AggregateNetwork(obs, Miners)
        /\ reason' = NoPlanReason(aggregates', MinDistinct, CapNum, CapDen)
        /\ weights' = IF reason' # "none" THEN Empty
                      ELSE [m \in Eligible(aggregates') |-> ShareOf(aggregates', m, CapNum, CapDen)]
        /\ status' = "allocated"
        /\ UNCHANGED <<answers, evals, obs>>
    BY <1>3 DEF Allocate
  <2>2. Allocated'
    <3>1. PICK o : o = obs /\ o = obs'
      BY <2>1
    <3>2. AggregateNetwork(obs, Miners)' = AggregateNetwork(o, Miners)
      BY <3>1
    <3>3. QED
      BY <2>1, <3>1, <3>2 DEF Allocated
  <2>3. Sound'
    BY <2>1 DEF RInv, Sound, Scored, Worth
  <2>4. QED
    BY <2>2, <2>3 DEF RInv
<1>4. QED
  BY <1>2, <1>3

\* Every step keeps the invariant.
LEMMA NextRInv == IInv /\ RInv /\ [Next]_vars => RInv'
<1> SUFFICES ASSUME IInv, RInv, [Next]_vars PROVE RInv'
  OBVIOUS
<1>1. CASE Create \/ Collect \/ Group \/ WorkerRaises \/ BatchFails
  BY <1>1, EarlySound
<1>2. CASE RunBatch
  BY <1>2, BatchSound
<1>3. CASE ScoreSlice
  BY <1>3, SliceSound
<1>4. CASE EvaluateStrategy
  BY <1>4, CohortSound
<1>5. CASE CloseTask
  BY <1>5, CloseSound
<1>6. CASE Allocate
  BY <1>6, AllocateSound
<1>7. CASE UNCHANGED vars
  BY <1>7 DEF vars, RInv, Sound, Allocated, Scored, Worth
<1>8. QED
  BY <1>1, <1>2, <1>3, <1>4, <1>5, <1>6, <1>7 DEF Next

\* Both invariants hold in every reachable state.
THEOREM PlanInvariance == Spec => [](IInv /\ RInv)
<1>1. QED
  BY InitIInv, NextIInv, InitRInv, NextRInv, PTL DEF Spec

-----------------------------------------------------------------------------
(* Who can have a weight.                                                  *)

\* The part of its reward that an observation keeps.
Shared(seen, i) == IF Counted(seen[i])
                   THEN [seen[i] EXCEPT !.reward = @ \div Cardinality(Duplicates(seen, i))]
                   ELSE seen[i]

\* Sharing a reward changes nothing else, and makes no reward of nothing.
LEMMA SharedFacts ==
  ASSUME IInv, RInv, NEW i \in DOMAIN obs
  PROVE  /\ Shared(obs, i).miner = obs[i].miner /\ Shared(obs, i).task = obs[i].task
         /\ Shared(obs, i).available = obs[i].available
         /\ Shared(obs, i).correct = obs[i].correct /\ Shared(obs, i).compliant = obs[i].compliant
         /\ Shared(obs, i).reward \in Nat
         /\ Shared(obs, i).reward > 0 => obs[i].reward > 0
<1>1. PICK o : o = obs[i] /\ Worth(o)
  BY DEF RInv, Sound
<1>2. CASE ~Counted(o)
  BY <1>1, <1>2 DEF Shared, Worth
<1>3. CASE Counted(o)
  <2>1. PICK n \in Nat \ {0} : n = Cardinality(Duplicates(obs, i))
    <3>1. IsFiniteSet(DOMAIN obs)
      <4>1. Len(obs) \in Nat /\ DOMAIN obs = 1 .. Len(obs)
        BY LenProperties DEF IInv, Recorded
      <4>2. QED
        BY <4>1, FS_Interval
    <3>2. Duplicates(obs, i) \in SUBSET DOMAIN obs /\ i \in Duplicates(obs, i)
      BY <1>1, <1>3 DEF Duplicates
    <3>3. IsFiniteSet(Duplicates(obs, i)) /\ Duplicates(obs, i) # {}
      BY <3>1, <3>2, FS_Subset
    <3>4. QED
      BY <3>3, FS_CardinalityType, FS_EmptySet
  <2>2. PICK w \in Nat : w = o.reward
    BY <1>1 DEF Worth
  <2>3. w \div n \in Nat /\ (w = 0 => w \div n = 0)
    OBVIOUS
  <2>4. PICK v \in Nat : v = w \div n /\ (v > 0 => w > 0)
    BY <2>3
  <2>5. Shared(obs, i) = [o EXCEPT !.reward = v]
    BY <1>1, <1>3, <2>1, <2>2, <2>4 DEF Shared
  <2>6. Shared(obs, i) = [miner |-> o.miner, task |-> o.task, available |-> o.available,
                          correct |-> o.correct, compliant |-> o.compliant, reward |-> v,
                          strategy |-> o.strategy, behavior |-> o.behavior, evidence |-> o.evidence]
    BY <1>1, <2>5 DEF Worth
  <2>7. QED
    BY <1>1, <2>2, <2>4, <2>6
<1>4. QED
  BY <1>2, <1>3

\* What is aggregated for a miner.
Own(seen, m) == {o \in Deduplicated(seen) : o.miner = m}

\* The reward a miner has of a task is a natural, and comes from a counted
\* observation of the task with a reward.
LEMMA GatedFacts ==
  ASSUME IInv, RInv, NEW m, NEW t
  PROVE  /\ GatedReward(Own(obs, m), t) \in Nat
         /\ GatedReward(Own(obs, m), t) # 0 =>
              \E i \in DOMAIN obs : /\ obs[i].miner = m /\ obs[i].task = t /\ Counted(obs[i])
                                    /\ obs[i].reward > 0
<1>1. PICK counted : counted = {o \in Own(obs, m) : o.task = t /\ Counted(o)}
  OBVIOUS
<1>2. CASE counted = {}
  BY <1>1, <1>2 DEF GatedReward, RewardIn
<1>3. CASE counted # {}
  <2>1. PICK o \in counted : GatedReward(Own(obs, m), t) = o.reward
    BY <1>1, <1>3 DEF GatedReward, RewardIn
  <2>2. PICK i \in DOMAIN obs : o = Shared(obs, i)
    BY <1>1 DEF Own, Deduplicated, Shared
  <2>3. o.miner = m /\ o.task = t /\ o.available /\ o.compliant /\ o.correct
    BY <1>1 DEF Own, Counted
  <2>4. /\ obs[i].miner = m /\ obs[i].task = t /\ Counted(obs[i])
        /\ o.reward \in Nat /\ (o.reward > 0 => obs[i].reward > 0)
    BY <2>2, <2>3, SharedFacts DEF Counted
  <2>5. QED
    BY <2>1, <2>4
<1>4. QED
  BY <1>2, <1>3

\* The scheduled tasks of a family are finitely many, and some.
LEMMA FamilyTasks ==
  ASSUME NEW f \in Families
  PROVE  IsFiniteSet(TasksOf(f)) /\ TasksOf(f) # {}
<1>1. Len(Schedule) \in Nat /\ DOMAIN Schedule = 1 .. Len(Schedule)
  BY AggregationAssumption, LenProperties
<1>2. IsFiniteSet(TasksOf(f))
  <2>1. IsFiniteSet(DOMAIN Schedule)
    BY <1>1, FS_Interval
  <2>2. TasksOf(f) \in SUBSET DOMAIN Schedule
    BY DEF TasksOf
  <2>3. QED
    BY <2>1, <2>2, FS_Subset
<1>3. TasksOf(f) # {}
  <2>1. MinimumFamilyTasks \in Nat \ {0} /\ Cardinality(TasksOf(f)) >= MinimumFamilyTasks
    BY AggregationAssumption
  <2>2. Cardinality({}) = 0
    BY FS_EmptySet
  <2>3. QED
    BY <2>1, <2>2
<1>4. QED
  BY <1>2, <1>3

\* The score of a family is a natural, and needs a reward in the family.
LEMMA FamilyFacts ==
  ASSUME IInv, RInv, NEW m, NEW f \in Families
  PROVE  /\ FamilyScore(Own(obs, m), f) \in Nat
         /\ FamilyScore(Own(obs, m), f) # 0 =>
              \E i \in DOMAIN obs : /\ obs[i].miner = m /\ Schedule[obs[i].task] = f
                                    /\ Counted(obs[i]) /\ obs[i].reward > 0
<1>1. PICK v : v = [t \in TasksOf(f) |-> GatedReward(Own(obs, m), t)]
  OBVIOUS
<1>2. Values(v)
  BY <1>1, FamilyTasks, GatedFacts DEF Values
<1>3. FamilyScore(Own(obs, m), f) = LowerBound(v)
  BY <1>1 DEF FamilyScore
<1>4. ASSUME LowerBound(v) # 0
      PROVE  \E i \in DOMAIN obs : /\ obs[i].miner = m /\ Schedule[obs[i].task] = f
                                   /\ Counted(obs[i]) /\ obs[i].reward > 0
  <2>1. PICK t \in TasksOf(f) : GatedReward(Own(obs, m), t) # 0
    BY <1>1, <1>2, <1>4, BoundFacts
  <2>2. PICK i \in DOMAIN obs : /\ obs[i].miner = m /\ obs[i].task = t /\ Counted(obs[i])
                                /\ obs[i].reward > 0
    BY <2>1, GatedFacts
  <2>3. Schedule[t] = f
    BY DEF TasksOf
  <2>4. QED
    BY <2>2, <2>3
<1>5. QED
  BY <1>2, <1>3, <1>4, BoundFacts

\* What an eligible aggregate has in every family.
LEMMA EligibleFacts ==
  ASSUME NEW mine, Aggregate(mine).eligible, NEW f \in Families
  PROVE  /\ ~(Cardinality({o \in Answered(mine) : Schedule[o.task] = f}) < MinimumFamilyTasks)
         /\ FamilyScore(mine, f) # 0
<1> DEFINE available == Answered(mine)
           n         == Cardinality(available)
           compliant == Cardinality({o \in available : o.compliant})
           correct   == Cardinality({o \in available : o.correct})
           inFamily  == [h \in Families |-> Cardinality({o \in available : Schedule[o.task] = h})]
           reward    == RobustScore(mine) * compliant
           gates     == <<
             <<n < MinimumTasks, "insufficient_tasks">>,
             <<\E h \in Families : inFamily[h] < MinimumFamilyTasks, "insufficient_family_tasks">>,
             <<n * 100 < MinAvailability * Len(Schedule), "availability_gate">>,
             <<compliant * 100 < MinCompliance * n, "compliance_gate">>,
             <<correct * 100 < MinCorrectness * n, "correctness_gate">>,
             <<\E h \in Families : FamilyScore(mine, h) = 0, "worst_family_gate">>,
             <<reward = 0, "no_robust_improvement">>>>
<1>1. Aggregate(mine).eligible <=> FirstClosed(gates) = "none"
  BY DEF Aggregate
<1>2. /\ gates[2][1] <=> \E h \in Families : inFamily[h] < MinimumFamilyTasks
      /\ gates[6][1] <=> \E h \in Families : FamilyScore(mine, h) = 0
      /\ DOMAIN gates = 1 .. 7 /\ \A i \in 1 .. 7 : gates[i][2] # "none"
  OBVIOUS
<1>3. inFamily[f] = Cardinality({o \in available : Schedule[o.task] = f})
  OBVIOUS
<1> HIDE DEF gates, inFamily
<1>4. \A i \in 1 .. 7 : ~gates[i][1]
  BY <1>1, <1>2, OpenGates
<1>5. 2 \in 1 .. 7 /\ 6 \in 1 .. 7
  OBVIOUS
<1>6. QED
  BY <1>2, <1>3, <1>4, <1>5

\* A miner with a weight is eligible.
LEMMA WeightedFacts ==
  ASSUME RInv, NEW m \in DOMAIN weights
  PROVE  /\ status = "allocated" /\ m \in Miners
         /\ aggregates[m] = Aggregate(Own(obs, m)) /\ aggregates[m].eligible
<1>1. status = "allocated" /\ reason = "none"
  BY NoEvaluation DEF RInv, Allocated
<1>2. m \in Eligible(aggregates) /\ aggregates = AggregateNetwork(obs, Miners)
  BY <1>1 DEF RInv, Allocated
<1>3. m \in DOMAIN aggregates /\ aggregates[m].eligible
  BY <1>2 DEF Eligible
<1>4. aggregates = [k \in Miners |-> Aggregate(Own(obs, k))]
  BY <1>2 DEF AggregateNetwork, Own
<1>5. QED
  BY <1>1, <1>3, <1>4

\* The observations of a miner in a family are not fewer than what is aggregated.
LEMMA EnoughAnswers ==
  ASSUME IInv, RInv, NEW m, NEW f
  PROVE  Cardinality({o \in Answered(Own(obs, m)) : Schedule[o.task] = f})
           <= Cardinality({i \in DOMAIN obs : /\ obs[i].miner = m /\ Schedule[obs[i].task] = f
                                              /\ obs[i].available})
<1>1. PICK I : I = {i \in DOMAIN obs : /\ obs[i].miner = m /\ Schedule[obs[i].task] = f
                                       /\ obs[i].available}
  OBVIOUS
<1>2. IsFiniteSet(I)
  <2>1. Len(obs) \in Nat /\ DOMAIN obs = 1 .. Len(obs)
    BY LenProperties DEF IInv, Recorded
  <2>2. IsFiniteSet(DOMAIN obs) /\ I \in SUBSET DOMAIN obs
    BY <1>1, <2>1, FS_Interval
  <2>3. QED
    BY <2>2, FS_Subset
<1>3. PICK s : s = [i \in I |-> Shared(obs, i)]
  OBVIOUS
<1>4. PICK T : T = {o \in Answered(Own(obs, m)) : Schedule[o.task] = f}
  OBVIOUS
<1>5. T = {s[i] : i \in I}
  <2>1. ASSUME NEW i \in I PROVE s[i] \in T
    <3>1. i \in DOMAIN obs /\ obs[i].miner = m /\ Schedule[obs[i].task] = f /\ obs[i].available
      BY <1>1
    <3>2. s[i] \in Deduplicated(obs)
      BY <1>3, <3>1 DEF Deduplicated, Shared
    <3>3. s[i].miner = m /\ Schedule[s[i].task] = f /\ s[i].available
      BY <1>3, <3>1, SharedFacts
    <3>4. QED
      BY <1>4, <3>2, <3>3 DEF Answered, Own
  <2>2. ASSUME NEW o \in T PROVE \E i \in I : o = s[i]
    <3>1. o \in Deduplicated(obs) /\ o.miner = m /\ Schedule[o.task] = f /\ o.available
      BY <1>4 DEF Answered, Own
    <3>2. PICK i \in DOMAIN obs : o = Shared(obs, i)
      BY <3>1 DEF Deduplicated, Shared
    <3>3. i \in I
      BY <1>1, <3>1, <3>2, SharedFacts
    <3>4. QED
      BY <1>3, <3>2, <3>3
  <2>3. QED
    BY <2>1, <2>2
<1>6. Cardinality(T) <= Cardinality(I)
  BY <1>2, <1>5, Image
<1>7. QED
  BY <1>1, <1>4, <1>6

\* A miner has finitely many observations.
LEMMA OwnFinite ==
  ASSUME IInv, NEW m
  PROVE  IsFiniteSet(Own(obs, m))
<1>1. Len(obs) \in Nat /\ DOMAIN obs = 1 .. Len(obs)
  BY LenProperties DEF IInv, Recorded
<1>2. IsFiniteSet(DOMAIN obs)
  BY <1>1, FS_Interval
<1>3. PICK s, U : s = [i \in DOMAIN obs |-> Shared(obs, i)] /\ U = Deduplicated(obs)
  OBVIOUS
<1>4. U = {s[i] : i \in DOMAIN obs}
  BY <1>3 DEF Deduplicated, Shared
<1>5. IsFiniteSet(U)
  BY <1>2, <1>4, Image
<1>6. Own(obs, m) \in SUBSET U
  BY <1>3 DEF Own
<1>7. QED
  BY <1>5, <1>6, FS_Subset

\* The first half of WeightNeedsEveryFamily.
LEMMA WeightedInFamily ==
  ASSUME IInv, RInv, NEW m \in DOMAIN weights, NEW f \in Families
  PROVE  LET mine == {i \in DOMAIN obs : obs[i].miner = m /\ Schedule[obs[i].task] = f}
         IN  /\ Cardinality({i \in mine : obs[i].available}) >= MinimumFamilyTasks
             /\ \E i \in mine : obs[i].correct /\ obs[i].compliant /\ obs[i].reward > 0
<1>1. PICK mine : mine = {i \in DOMAIN obs : obs[i].miner = m /\ Schedule[obs[i].task] = f}
  OBVIOUS
<1>2. /\ ~(Cardinality({o \in Answered(Own(obs, m)) : Schedule[o.task] = f}) < MinimumFamilyTasks)
      /\ FamilyScore(Own(obs, m), f) # 0
  BY WeightedFacts, EligibleFacts
<1>3. PICK I : I = {i \in DOMAIN obs : /\ obs[i].miner = m /\ Schedule[obs[i].task] = f
                                       /\ obs[i].available}
               /\ I = {i \in mine : obs[i].available}
  BY <1>1
<1>4. PICK T : T = {o \in Answered(Own(obs, m)) : Schedule[o.task] = f}
  OBVIOUS
<1>5. Cardinality(T) <= Cardinality(I) /\ ~(Cardinality(T) < MinimumFamilyTasks)
  BY <1>2, <1>3, <1>4, EnoughAnswers
<1>6. Cardinality(T) \in Nat /\ Cardinality(I) \in Nat
  <2>1. Len(obs) \in Nat /\ DOMAIN obs = 1 .. Len(obs)
    BY LenProperties DEF IInv, Recorded
  <2>2. IsFiniteSet(DOMAIN obs) /\ I \in SUBSET DOMAIN obs
    BY <1>3, <2>1, FS_Interval
  <2>3. T \in SUBSET Own(obs, m)
    BY <1>4 DEF Answered
  <2>4. IsFiniteSet(I) /\ IsFiniteSet(T)
    BY <2>2, <2>3, OwnFinite, FS_Subset
  <2>5. QED
    BY <2>4, FS_CardinalityType
<1>7. Cardinality(I) >= MinimumFamilyTasks
  BY <1>5, <1>6, AggregationAssumption
<1>8. PICK i \in DOMAIN obs : /\ obs[i].miner = m /\ Schedule[obs[i].task] = f
                              /\ Counted(obs[i]) /\ obs[i].reward > 0
  BY <1>2, FamilyFacts
<1>9. i \in mine /\ obs[i].correct /\ obs[i].compliant /\ obs[i].reward > 0
  BY <1>1, <1>8 DEF Counted
<1>10. QED
  BY <1>1, <1>3, <1>7, <1>9

\* The rewards of the tasks depend on the available observations.
LEMMA SameReward ==
  ASSUME NEW x, NEW y, Answered(x) = Answered(y)
  PROVE  /\ \A t : GatedReward(x, t) = GatedReward(y, t)
         /\ \A f : FamilyScore(x, f) = FamilyScore(y, f)
         /\ RobustScore(x) = RobustScore(y)
<1>1. ASSUME NEW t PROVE GatedReward(x, t) = GatedReward(y, t)
  <2>1. \A o \in x : Counted(o) => o \in Answered(x)
    BY DEF Counted, Answered
  <2>2. \A o \in y : Counted(o) => o \in Answered(y)
    BY DEF Counted, Answered
  <2>3. \A o : (o \in Answered(x) => o \in x) /\ (o \in Answered(y) => o \in y)
    BY DEF Answered
  <2>4. {o \in x : o.task = t /\ Counted(o)} = {o \in y : o.task = t /\ Counted(o)}
    <3>1. \A o : o \in x /\ Counted(o) <=> o \in y /\ Counted(o)
      BY <2>1, <2>2, <2>3
    <3>2. QED
      BY <3>1
  <2>5. PICK c : c = {o \in x : o.task = t /\ Counted(o)} /\ c = {o \in y : o.task = t /\ Counted(o)}
    BY <2>4
  <2>6. QED
    BY <2>5, Zenon DEF GatedReward
<1>2. ASSUME NEW f PROVE FamilyScore(x, f) = FamilyScore(y, f)
  <2>1. PICK v : v = [t \in TasksOf(f) |-> GatedReward(x, t)]
    OBVIOUS
  <2>2. v = [t \in TasksOf(f) |-> GatedReward(y, t)]
    BY <1>1, <2>1
  <2>3. QED
    BY <2>1, <2>2 DEF FamilyScore
<1>3. RobustScore(x) = RobustScore(y)
  <2>1. PICK v : v = [f \in Families |-> FamilyScore(x, f)]
    OBVIOUS
  <2>2. v = [f \in Families |-> FamilyScore(y, f)]
    BY <1>2, <2>1
  <2>3. QED
    BY <2>1, <2>2 DEF RobustScore
<1>4. QED
  BY <1>1, <1>2, <1>3

\* Chains whose gates agree close alike.
LEMMA SameGates ==
  ASSUME NEW n \in Nat, NEW p, NEW q, DOMAIN p = 1 .. n, DOMAIN q = 1 .. n,
         \A i \in 1 .. n : (p[i][1] <=> q[i][1]) /\ p[i][2] = q[i][2]
  PROVE  FirstClosed(p) = FirstClosed(q)
<1>1. PICK c : c = {i \in DOMAIN p : p[i][1]}
  OBVIOUS
<1>2. c = {i \in DOMAIN q : q[i][1]}
  BY <1>1
<1>3. FirstClosed(p) = IF c = {} THEN "none" ELSE p[Min(c)][2]
  BY <1>1, Zenon DEF FirstClosed
<1>4. FirstClosed(q) = IF c = {} THEN "none" ELSE q[Min(c)][2]
  BY <1>2, Zenon DEF FirstClosed
<1>5. c # {} => Min(c) \in 1 .. n
  <2>1. c \in SUBSET Nat /\ c \subseteq 1 .. n
    BY <1>1
  <2>2. QED
    BY <2>1, MinOfNats
<1>6. QED
  BY <1>3, <1>4, <1>5

\* An aggregate depends on the available observations.
LEMMA SameAggregate ==
  ASSUME NEW x, NEW y, Answered(x) = Answered(y)
  PROVE  Aggregate(x) = Aggregate(y)
<1> DEFINE compliant(a) == Cardinality({o \in a : o.compliant})
           gates(z, a) == <<
             <<Cardinality(a) < MinimumTasks, "insufficient_tasks">>,
             <<\E f \in Families : [h \in Families |-> Cardinality({o \in a : Schedule[o.task] = h})][f]
                 < MinimumFamilyTasks, "insufficient_family_tasks">>,
             <<Cardinality(a) * 100 < MinAvailability * Len(Schedule), "availability_gate">>,
             <<compliant(a) * 100 < MinCompliance * Cardinality(a), "compliance_gate">>,
             <<Cardinality({o \in a : o.correct}) * 100 < MinCorrectness * Cardinality(a), "correctness_gate">>,
             <<\E f \in Families : FamilyScore(z, f) = 0, "worst_family_gate">>,
             <<RobustScore(z) * compliant(a) = 0, "no_robust_improvement">>>>
           whole(z, a, code) ==
             [eligible |-> code = "none", code |-> code,
              reward   |-> IF code = "none" THEN RobustScore(z) * compliant(a) ELSE 0,
              strategy |-> {<<Schedule[o.task], o.strategy>> : o \in a},
              behavior |-> {<<Schedule[o.task], o.behavior>> : o \in a}]
<1>1. \A z : Aggregate(z) = whole(z, Answered(z), FirstClosed(gates(z, Answered(z))))
  BY DEF Aggregate
<1>2. PICK a : a = Answered(x) /\ a = Answered(y)
  OBVIOUS
<1>3. PICK r : r = RobustScore(x) /\ r = RobustScore(y)
  BY SameReward
<1>4. \A f : FamilyScore(x, f) = FamilyScore(y, f)
  BY SameReward
<1>5. FirstClosed(gates(x, a)) = FirstClosed(gates(y, a))
  <2>1. DOMAIN gates(x, a) = 1 .. 7 /\ DOMAIN gates(y, a) = 1 .. 7
    OBVIOUS
  <2>2. /\ gates(x, a)[1][1] <=> gates(y, a)[1][1]
        /\ gates(x, a)[2][1] <=> gates(y, a)[2][1]
        /\ gates(x, a)[3][1] <=> gates(y, a)[3][1]
        /\ gates(x, a)[4][1] <=> gates(y, a)[4][1]
        /\ gates(x, a)[5][1] <=> gates(y, a)[5][1]
    OBVIOUS
  <2>3. gates(x, a)[6][1] <=> gates(y, a)[6][1]
    BY <1>4
  <2>4. gates(x, a)[7][1] <=> gates(y, a)[7][1]
    BY <1>3
  <2>5. \A i \in 1 .. 7 : gates(x, a)[i][2] = gates(y, a)[i][2]
    OBVIOUS
  <2> HIDE DEF gates
  <2>6. \A i \in 1 .. 7 : (gates(x, a)[i][1] <=> gates(y, a)[i][1])
                         /\ gates(x, a)[i][2] = gates(y, a)[i][2]
    <3>1. \A i \in 1 .. 7 : i = 1 \/ i = 2 \/ i = 3 \/ i = 4 \/ i = 5 \/ i = 6 \/ i = 7
      OBVIOUS
    <3>2. QED
      BY <2>2, <2>3, <2>4, <2>5, <3>1
  <2>7. PICK p, q : p = gates(x, a) /\ q = gates(y, a)
    OBVIOUS
  <2>8. PICK n \in Nat : /\ DOMAIN p = 1 .. n /\ DOMAIN q = 1 .. n
                         /\ \A i \in 1 .. n : (p[i][1] <=> q[i][1]) /\ p[i][2] = q[i][2]
    BY <2>1, <2>6, <2>7
  <2>9. FirstClosed(p) = FirstClosed(q)
    BY <2>8, SameGates
  <2>10. QED
    BY <2>7, <2>9
<1>6. PICK c : c = FirstClosed(gates(x, a)) /\ c = FirstClosed(gates(y, a))
  <2> HIDE DEF gates
  <2>1. QED
    BY <1>5
<1>7. whole(x, a, c) = whole(y, a, c)
  BY <1>3, Zenon
<1> HIDE DEF whole, gates
<1>8. Aggregate(x) = whole(x, a, c)
  BY <1>1, <1>2, <1>6, Zenon
<1>9. Aggregate(y) = whole(y, a, c)
  BY <1>1, <1>2, <1>6, Zenon
<1>10. QED
  BY <1>7, <1>8, <1>9, Zenon

\* The observations of miners who answered.
Available(seen) == Restrict(seen, {i \in DOMAIN seen : seen[i].available})

\* An answer shares its reward with answers only.
LEMMA SameShare ==
  ASSUME NEW seen, NEW i \in DOMAIN Available(seen)
  PROVE  Shared(Available(seen), i) = Shared(seen, i)
<1>1. PICK a : a = Available(seen)
  OBVIOUS
<1>2. DOMAIN a = {j \in DOMAIN seen : seen[j].available} /\ \A j \in DOMAIN a : a[j] = seen[j]
  BY <1>1 DEF Available, Restrict
<1>3. Duplicates(a, i) = Duplicates(seen, i)
  <2>1. ASSUME NEW j
        PROVE  j \in Duplicates(a, i) <=> j \in Duplicates(seen, i)
    BY <1>1, <1>2 DEF Duplicates, Counted
  <2>2. QED
    BY <2>1
<1>4. PICK n : n = Cardinality(Duplicates(a, i)) /\ n = Cardinality(Duplicates(seen, i))
  BY <1>3
<1>5. PICK o : o = a[i] /\ o = seen[i]
  BY <1>1, <1>2
<1>6. Shared(a, i) = IF Counted(o) THEN [o EXCEPT !.reward = @ \div n] ELSE o
  BY <1>4, <1>5 DEF Shared
<1>7. Shared(seen, i) = IF Counted(o) THEN [o EXCEPT !.reward = @ \div n] ELSE o
  BY <1>4, <1>5 DEF Shared
<1>8. QED
  BY <1>1, <1>6, <1>7

\* What an unavailable observation is worth to the aggregates: nothing.
LEMMA AnsweredOnly ==
  ASSUME IInv, RInv
  PROVE  AggregateNetwork(Available(obs), Miners) = AggregateNetwork(obs, Miners)
<1>1. PICK a : a = Available(obs)
  OBVIOUS
<1>2. DOMAIN a = {j \in DOMAIN obs : obs[j].available}
  BY <1>1 DEF Available, Restrict
<1>3. \A i \in DOMAIN a : Shared(a, i) = Shared(obs, i)
  BY <1>1, SameShare
<1>4. ASSUME NEW m PROVE Answered(Own(a, m)) = Answered(Own(obs, m))
  <2>1. ASSUME NEW o \in Answered(Own(a, m)) PROVE o \in Answered(Own(obs, m))
    <3>1. o \in Deduplicated(a) /\ o.miner = m /\ o.available
      BY DEF Answered, Own
    <3>2. PICK i \in DOMAIN a : o = Shared(a, i)
      BY <3>1 DEF Deduplicated, Shared
    <3>3. i \in DOMAIN obs /\ o = Shared(obs, i)
      BY <1>2, <1>3, <3>2
    <3>4. o \in Deduplicated(obs)
      BY <3>3 DEF Deduplicated, Shared
    <3>5. QED
      BY <3>1, <3>4 DEF Answered, Own
  <2>2. ASSUME NEW o \in Answered(Own(obs, m)) PROVE o \in Answered(Own(a, m))
    <3>1. o \in Deduplicated(obs) /\ o.miner = m /\ o.available
      BY DEF Answered, Own
    <3>2. PICK i \in DOMAIN obs : o = Shared(obs, i)
      BY <3>1 DEF Deduplicated, Shared
    <3>3. obs[i].available
      BY <3>1, <3>2, SharedFacts
    <3>4. i \in DOMAIN a /\ o = Shared(a, i)
      BY <1>2, <1>3, <3>2, <3>3
    <3>5. o \in Deduplicated(a)
      BY <3>4 DEF Deduplicated, Shared
    <3>6. QED
      BY <3>1, <3>5 DEF Answered, Own
  <2>3. QED
    BY <2>1, <2>2
<1>5. \A m \in Miners : Aggregate(Own(a, m)) = Aggregate(Own(obs, m))
  BY <1>4, SameAggregate
<1>6. AggregateNetwork(a, Miners) = [m \in Miners |-> Aggregate(Own(a, m))]
  BY DEF AggregateNetwork, Own
<1>7. AggregateNetwork(obs, Miners) = [m \in Miners |-> Aggregate(Own(obs, m))]
  BY DEF AggregateNetwork, Own
<1>8. QED
  BY <1>1, <1>5, <1>6, <1>7

\* WeightNeedsEveryFamily, from the invariants.
LEMMA FamiliesNeeded ==
  ASSUME IInv, RInv
  PROVE  WeightNeedsEveryFamily
<1>1. status = "allocated" =>
        aggregates = AggregateNetwork(Restrict(obs, {i \in DOMAIN obs : obs[i].available}), Miners)
  BY AnsweredOnly DEF RInv, Allocated, Available
<1>2. QED
  BY <1>1, WeightedInFamily DEF WeightNeedsEveryFamily

\* A miner with a weight has, in every required family, the quota of answers and
\* one with a reward, and unavailable observations count for nothing
\* (_aggregate_scheduled_miner, allocate_weights).
THEOREM WeightFromEveryFamily == Spec => []WeightNeedsEveryFamily
<1>1. IInv /\ RInv => WeightNeedsEveryFamily
  BY FamiliesNeeded
<1>2. QED
  BY PlanInvariance, <1>1, PTL

\* Copies of a strategy on a task have the reward of one of them together, up
\* to what their divisions are rounded down by.
OneRewardPerStrategy ==
  \A i \in DOMAIN obs : Counted(obs[i]) =>
    LET copies == Duplicates(obs, i)
        parts  == SumOver([j \in copies |-> Shared(obs, j).reward], copies)
    IN  /\ parts <= obs[i].reward
        /\ obs[i].reward < parts + Cardinality(copies)

\* Arithmetic: what a division by n leaves is less than n.
LEMMA Parts ==
  ASSUME NEW r \in Nat, NEW n \in Nat, n > 0
  PROVE  r \div n \in Nat /\ (r \div n) * n <= r /\ r < (r \div n) * n + n
<1>1. CASE n = 1
  <2>1. r \div 1 = r
    OBVIOUS
  <2>2. QED
    BY <1>1, <2>1
<1>2. CASE n # 1
  <2>1. n >= 2
    BY <1>2
  <2>2. PICK q \in Nat : q = r \div n
    BY <2>1, Quotient
  <2>3. n * q <= r /\ \A p \in Nat : n * p <= r => p <= q
    BY <2>1, <2>2, Quotient
  <2>4. PICK p \in Nat : p = q + 1
    OBVIOUS
  <2>5. ~(n * p <= r)
    BY <2>3, <2>4
  <2>6. n * p = n * q + n /\ n * q = q * n /\ n * q \in Nat
    BY <2>4
  <2>7. QED
    BY <2>2, <2>3, <2>5, <2>6
<1>3. QED
  BY <1>1, <1>2

\* OneRewardPerStrategy, from the invariants.
LEMMA CopiesDivide ==
  ASSUME IInv, RInv
  PROVE  OneRewardPerStrategy
<1> SUFFICES ASSUME NEW i \in DOMAIN obs, Counted(obs[i])
             PROVE  LET copies == Duplicates(obs, i)
                        parts  == SumOver([j \in copies |-> Shared(obs, j).reward], copies)
                    IN  /\ parts <= obs[i].reward
                        /\ obs[i].reward < parts + Cardinality(copies)
  BY DEF OneRewardPerStrategy
<1>1. PICK C : C = Duplicates(obs, i)
  OBVIOUS
<1>2. PICK r \in Nat : r = obs[i].reward
  BY DEF RInv, Sound, Worth
<1>3. IsFiniteSet(C) /\ i \in C /\ C \in SUBSET DOMAIN obs
  <2>1. Len(obs) \in Nat /\ DOMAIN obs = 1 .. Len(obs)
    BY LenProperties DEF IInv, Recorded
  <2>2. IsFiniteSet(DOMAIN obs) /\ C \in SUBSET DOMAIN obs /\ i \in C
    BY <1>1, <2>1, FS_Interval DEF Duplicates
  <2>3. QED
    BY <2>2, FS_Subset
<1>4. PICK n \in Nat : n = Cardinality(C) /\ n > 0
  <2>1. Cardinality(C) \in Nat /\ Cardinality(C) # 0
    BY <1>3, FS_CardinalityType, FS_EmptySet
  <2>2. QED
    BY <2>1
<1>5. PICK q \in Nat : q = r \div n /\ q * n <= r /\ r < q * n + n
  BY <1>4, Parts
<1>6. ASSUME NEW j \in C PROVE Shared(obs, j).reward = q
  <2>1. /\ j \in DOMAIN obs /\ Counted(obs[j])
        /\ obs[j].task = obs[i].task /\ obs[j].strategy = obs[i].strategy
    BY <1>1 DEF Duplicates
  <2>2. Duplicates(obs, j) = C
    BY <1>1, <2>1 DEF Duplicates
  <2>3. obs[j].reward = r
    BY <1>2, <2>1 DEF IInv, Recorded, Agree, Counted
  <2>4. PICK o : o = obs[j] /\ Worth(o)
    BY <2>1 DEF RInv, Sound
  <2>5. PICK x : x = [o EXCEPT !.reward = @ \div n] /\ x = Shared(obs, j)
    BY <1>4, <2>1, <2>2, <2>4 DEF Shared
  <2>6. x.reward = o.reward \div n
    BY <2>4, <2>5 DEF Worth
  <2>7. QED
    BY <1>5, <2>3, <2>4, <2>5, <2>6
<1>7. PICK s : s = [j \in C |-> Shared(obs, j).reward]
  OBVIOUS
<1>8. SumOver(s, C) = q * n
  <2>1. \A j \in C : s[j] = q
    BY <1>6, <1>7
  <2>2. SumOver(s, C) = q * Cardinality(C)
    BY <1>3, <2>1, SumConstant
  <2>3. QED
    BY <1>4, <2>2
<1>9. QED
  BY <1>1, <1>2, <1>4, <1>5, <1>7, <1>8

\* Names multiply no reward: on every task, the copies of a strategy have what
\* one of them would have, less a remainder below their number
\* (deduplicate_task_rewards).
THEOREM CopiesShareTaskReward == Spec => []OneRewardPerStrategy
<1>1. IInv /\ RInv => OneRewardPerStrategy
  BY CopiesDivide
<1>2. QED
  BY PlanInvariance, <1>1, PTL

-----------------------------------------------------------------------------
(* The passes of _capped_normalize, and the shares they leave.             *)

\* The recursion of the passes over the parts of S: drop[R] leaves R in one.
IsPass(pass, drop, S) ==
  pass = [R \in SUBSET S |-> IF drop[R] = {} THEN R ELSE pass[R \ drop[R]]]

\* The recursion has a function: built up by the size of the parts.
LEMMA PassExists ==
  ASSUME NEW S, IsFiniteSet(S), NEW drop, \A R \in SUBSET S : drop[R] \subseteq R
  PROVE  \E pass : IsPass(pass, drop, S)
<1> DEFINE upTo(n) == {s \in SUBSET S : Cardinality(s) <= n}
           passes(n, it) == it = [s \in upTo(n) |-> IF drop[s] = {} THEN s
                                                    ELSE it[s \ drop[s]]]
           bad == {n \in Nat : ~ \E it : passes(n, it)}
<1>1. \A s \in SUBSET S : IsFiniteSet(s) /\ Cardinality(s) \in Nat
  BY FS_Subset, FS_CardinalityType
<1>2. ASSUME NEW s \in SUBSET S, drop[s] # {}
      PROVE  s \ drop[s] \in SUBSET S /\ Cardinality(s \ drop[s]) < Cardinality(s)
  <2>1. PICK r : r = s \ drop[s]
    OBVIOUS
  <2>2. drop[s] \subseteq s
    OBVIOUS
  <2>3. r \in SUBSET s /\ r \in SUBSET S /\ r # s
    BY <1>2, <2>1, <2>2
  <2>4. Cardinality(r) < Cardinality(s)
    BY <1>1, <2>3, FS_Subset
  <2>5. QED
    BY <2>1, <2>3, <2>4
<1>3. \A s \in SUBSET S : drop[s] # {} =>
        s \ drop[s] \in SUBSET S /\ Cardinality(s \ drop[s]) < Cardinality(s)
  BY <1>2
<1>4. ASSUME bad # {} PROVE FALSE
  <2>1. PICK n \in bad : \A k \in bad : n <= k
    <3>1. bad \in SUBSET Nat
      OBVIOUS
    <3> HIDE DEF bad
    <3>2. QED
      BY <1>4, <3>1, MinOfNats
  <2>2. n # 0
    <3>1. \A s \in upTo(0) : drop[s] = {}
      <4>1. ASSUME NEW s \in upTo(0) PROVE drop[s] = {}
        <5>1. s \in SUBSET S /\ Cardinality(s) <= 0
          OBVIOUS
        <5>2. s = {}
          BY <1>1, <5>1, FS_EmptySet
        <5>3. drop[s] \subseteq s
          BY <5>1
        <5>4. QED
          BY <5>2, <5>3
      <4>2. QED
        BY <4>1
    <3>2. \E it : passes(0, it)
      <4>1. PICK it : it = [s \in upTo(0) |-> s]
        OBVIOUS
      <4>2. it = [s \in upTo(0) |-> IF drop[s] = {} THEN s ELSE it[s \ drop[s]]]
        <5> HIDE DEF upTo
        <5>1. QED
          BY <3>1, <4>1
      <4>3. QED
        BY <4>2
    <3>3. 0 \notin bad
      BY <3>2
    <3>4. QED
      <4> HIDE DEF bad
      <4>1. QED
        BY <3>3
  <2>3. n - 1 \in Nat /\ n - 1 \notin bad
    <3>1. n \in Nat
      OBVIOUS
    <3> HIDE DEF bad
    <3>2. QED
      BY <2>1, <2>2, <3>1
  <2>4. PICK it : passes(n - 1, it)
    BY <2>3
  <2> DEFINE new == [s \in upTo(n) |-> IF drop[s] = {} THEN s ELSE it[s \ drop[s]]]
  <2>5. \A s \in upTo(n - 1) : s \in upTo(n)
    BY <1>1, <2>3
  <2>6. \A s \in upTo(n - 1) : new[s] = it[s]
    BY <2>4, <2>5
  <2>7. \A s \in upTo(n) : drop[s] # {} => s \ drop[s] \in upTo(n - 1)
    <3>1. ASSUME NEW s \in upTo(n), drop[s] # {} PROVE s \ drop[s] \in upTo(n - 1)
      <4>1. s \in SUBSET S /\ Cardinality(s) <= n
        OBVIOUS
      <4>2. PICK r : r = s \ drop[s] /\ r \in SUBSET S /\ Cardinality(r) < Cardinality(s)
        BY <1>3, <3>1, <4>1
      <4>3. Cardinality(r) \in Nat /\ Cardinality(s) \in Nat
        BY <1>1, <4>1, <4>2
      <4>4. Cardinality(r) <= n - 1
        BY <2>3, <4>1, <4>2, <4>3
      <4>5. QED
        BY <4>2, <4>4
    <3>2. QED
      BY <3>1
  <2>8. new = [s \in upTo(n) |-> IF drop[s] = {} THEN s ELSE new[s \ drop[s]]]
    <3>1. \A s \in upTo(n) : drop[s] # {} => new[s \ drop[s]] = it[s \ drop[s]]
      BY <2>6, <2>7
    <3> HIDE DEF upTo
    <3>2. QED
      BY <3>1
  <2>9. passes(n, new)
    BY <2>8
  <2>10. QED
    BY <2>1, <2>9
<1>5. PICK it : passes(Cardinality(S), it)
  BY <1>1, <1>4
<1>6. upTo(Cardinality(S)) = SUBSET S
  BY <1>1, FS_Subset
<1>7. IsPass(it, drop, S)
  BY <1>5, <1>6 DEF IsPass
<1>8. QED
  BY <1>7

\* The passes of BelowCap.
LEMMA PassOf ==
  ASSUME NEW w, IsFiniteSet(DOMAIN w), NEW c, NEW d,
         NEW drop, \A R \in SUBSET DOMAIN w : drop[R] = AboveCap(w, R, c, d)
  PROVE  \E pass : BelowCap(w, c, d) = pass[DOMAIN w] /\ IsPass(pass, drop, DOMAIN w)
<1> DEFINE found(pass) == pass = [R \in SUBSET DOMAIN w |->
                                    LET capped == AboveCap(w, R, c, d)
                                    IN  IF capped = {} THEN R ELSE pass[R \ capped]]
<1>1. \A R \in SUBSET DOMAIN w : drop[R] \subseteq R
  BY DEF AboveCap
<1>2. \E pass : IsPass(pass, drop, DOMAIN w)
  BY <1>1, PassExists
<1>3. ASSUME NEW pass PROVE IsPass(pass, drop, DOMAIN w) <=> found(pass)
  BY DEF IsPass
<1>4. PICK pass : pass = CHOOSE p : found(p)
  OBVIOUS
<1>5. found(pass)
  <2>1. \E p : found(p)
    BY <1>2, <1>3
  <2> HIDE DEF found
  <2>2. QED
    BY <1>4, <2>1
<1>6. BelowCap(w, c, d) = pass[DOMAIN w]
  BY <1>4 DEF BelowCap
<1>7. QED
  BY <1>3, <1>5, <1>6

\* Arithmetic: a factor cancels in a comparison.
LEMMA Cancel ==
  ASSUME NEW a \in Int, NEW b \in Int, NEW t \in Nat, a * t < b * t
  PROVE  a < b
<1> SUFFICES ASSUME b <= a PROVE FALSE
  OBVIOUS
<1>1. b * t <= a * t
  OBVIOUS
<1>2. a * t \in Int /\ b * t \in Int
  OBVIOUS
<1>3. QED
  BY <1>1, <1>2

\* Raw shares: naturals of finitely many recipients, enough of them to meet
\* the cap c / d.
IsRaw(raw, c, d) ==
  /\ IsFiniteSet(DOMAIN raw) /\ DOMAIN raw # {} /\ \A m \in DOMAIN raw : raw[m] \in Nat
  /\ c \in Nat /\ d \in Nat \ {0} /\ ~TooFewForCap(raw, c, d)

\* What is left of the mass when R still shares it.
LEMMA MassFacts ==
  ASSUME NEW raw, NEW c, NEW d, IsRaw(raw, c, d), NEW R \in SUBSET DOMAIN raw,
         NEW A \in SUBSET R
  PROVE  /\ MassLeft(raw, R, c, d) \in Int
         /\ MassLeft(raw, R, c, d) <= c * Cardinality(R)
         /\ MassLeft(raw, R \ A, c, d) = MassLeft(raw, R, c, d) - c * Cardinality(A)
<1>1. IsFiniteSet(DOMAIN raw) /\ c \in Nat /\ d \in Nat
  BY DEF IsRaw
<1>2. PICK O, Q : O = DOMAIN raw \ R /\ Q = DOMAIN raw \ (R \ A)
  OBVIOUS
<1>3. /\ IsFiniteSet(O) /\ IsFiniteSet(A) /\ IsFiniteSet(R)
      /\ O \cap A = {} /\ O \cup A = Q /\ O \cap R = {} /\ O \cup R = DOMAIN raw
  <2>1. O \in SUBSET DOMAIN raw /\ A \in SUBSET DOMAIN raw
    BY <1>2
  <2>2. IsFiniteSet(O) /\ IsFiniteSet(A) /\ IsFiniteSet(R)
    BY <1>1, <2>1, FS_Subset
  <2>3. QED
    BY <1>2, <2>2
<1>4. PICK o, a, r \in Nat : o = Cardinality(O) /\ a = Cardinality(A) /\ r = Cardinality(R)
  BY <1>3, FS_CardinalityType
<1>5. Cardinality(Q) = o + a /\ Cardinality(DOMAIN raw) = o + r
  <2>1. Cardinality({}) = 0
    BY FS_EmptySet
  <2>2. /\ Cardinality(O \cup A) = Cardinality(O) + Cardinality(A) - Cardinality(O \cap A)
        /\ Cardinality(O \cup R) = Cardinality(O) + Cardinality(R) - Cardinality(O \cap R)
    BY <1>3, FS_Union
  <2>3. /\ Cardinality(O \cup A) = Cardinality(Q) /\ Cardinality(O \cap A) = 0
        /\ Cardinality(O \cup R) = Cardinality(DOMAIN raw) /\ Cardinality(O \cap R) = 0
    BY <1>3, <2>1, Zenon
  <2>4. QED
    BY <1>4, <2>2, <2>3
<1>6. MassLeft(raw, R, c, d) = d - c * o /\ MassLeft(raw, R \ A, c, d) = d - c * (o + a)
  BY <1>2, <1>4, <1>5 DEF MassLeft
<1>7. ~((o + r) * c < d)
  BY <1>5 DEF IsRaw, TooFewForCap
<1>8. c * (o + a) = c * o + c * a /\ (o + r) * c = c * o + c * r /\ (o + r) * c \in Nat
  BY <1>1
<1>9. c * o \in Nat /\ c * a \in Nat /\ c * r \in Nat
  BY <1>1
<1>10. QED
  BY <1>1, <1>4, <1>6, <1>7, <1>8, <1>9

\* A pass caps no more than the mass allows, and never everyone.
LEMMA PassKeeps ==
  ASSUME NEW raw, NEW c, NEW d, IsRaw(raw, c, d), NEW R \in SUBSET DOMAIN raw,
         MassLeft(raw, R, c, d) >= 0, AboveCap(raw, R, c, d) # {}
  PROVE  LET left == R \ AboveCap(raw, R, c, d)
         IN  left # {} /\ left # R /\ MassLeft(raw, left, c, d) >= 0
<1>1. PICK A : A = AboveCap(raw, R, c, d)
  OBVIOUS
<1>2. A \in SUBSET R /\ A # {}
  BY <1>1 DEF AboveCap
<1>3. IsFiniteSet(R) /\ IsFiniteSet(A) /\ c \in Nat /\ \A m \in R : raw[m] \in Nat
  BY <1>2, FS_Subset DEF IsRaw
<1>4. PICK t, s, q \in Nat : t = SumOver(raw, R) /\ s = SumOver(raw, A) /\ q = SumOver(raw, R \ A)
  <2>1. R \ A \in SUBSET R
    OBVIOUS
  <2>2. IsFiniteSet(R \ A)
    BY <1>3, <2>1, FS_Subset
  <2>3. (\A m \in A : raw[m] \in Nat) /\ (\A m \in R \ A : raw[m] \in Nat)
    BY <1>2, <1>3
  <2>4. SumOver(raw, R) \in Nat /\ SumOver(raw, A) \in Nat /\ SumOver(raw, R \ A) \in Nat
    BY <1>3, <2>2, <2>3, SumStep
  <2>5. QED
    BY <2>4
<1>5. t = s + q
  BY <1>2, <1>3, <1>4, SumSplit
<1>6. PICK l \in Nat : l = MassLeft(raw, R, c, d)
  <2>1. MassLeft(raw, R, c, d) \in Int
    BY <1>2, MassFacts
  <2>2. QED
    BY <2>1
<1>7. PICK a \in Nat : a = Cardinality(A) /\ a > 0
  <2>1. Cardinality(A) \in Nat /\ Cardinality(A) # 0
    BY <1>2, <1>3, FS_CardinalityType, FS_EmptySet
  <2>2. QED
    BY <2>1
<1>8. PICK p \in Nat : p = c * t + 1
  BY <1>3
<1>9. p * a <= l * s
  <2>1. PICK one : one = [x \in A |-> 1]
    OBVIOUS
  <2>2. \A x \in A : one[x] \in Nat /\ raw[x] \in Nat /\ p * one[x] <= l * raw[x] + 0
    <3>1. ASSUME NEW x \in A PROVE one[x] = 1 /\ raw[x] \in Nat /\ p <= l * raw[x]
      <4>1. l * raw[x] > c * t /\ raw[x] \in Nat
        BY <1>1, <1>2, <1>3, <1>4, <1>6 DEF AboveCap
      <4>2. l * raw[x] \in Nat /\ c * t \in Nat
        BY <1>3, <4>1
      <4>3. QED
        BY <1>8, <2>1, <4>1, <4>2
    <3>2. QED
      BY <1>8, <3>1
  <2>3. p * SumOver(one, A) <= l * SumOver(raw, A) + 0 * Cardinality(A)
    BY <1>3, <2>2, SumCompare
  <2>4. SumOver(one, A) = 1 * Cardinality(A)
    BY <1>3, <2>1, SumConstant
  <2>5. p * a \in Nat /\ l * s \in Nat /\ SumOver(one, A) = a
    BY <1>7, <2>4
  <2>6. QED
    BY <1>4, <1>7, <2>3, <2>5
<1>10. c * a < l
  <2>1. l * s <= l * t
    BY <1>5
  <2>2. p * a = (c * a) * t + a
    BY <1>3, <1>8
  <2>3. (c * a) * t \in Nat /\ l * t \in Nat /\ l * s \in Nat /\ p * a \in Nat /\ c * a \in Nat
    BY <1>3
  <2>4. (c * a) * t < l * t
    BY <1>7, <1>9, <2>1, <2>2, <2>3
  <2>5. QED
    BY <2>3, <2>4, Cancel
<1>11. MassLeft(raw, R \ A, c, d) = l - c * a /\ l <= c * Cardinality(R)
  BY <1>2, <1>6, <1>7, MassFacts
<1>12. A # R
  BY <1>7, <1>10, <1>11, <1>3
<1>13. MassLeft(raw, R \ A, c, d) >= 0
  BY <1>3, <1>10, <1>11
<1>14. QED
  BY <1>1, <1>2, <1>12, <1>13

\* The passes end with recipients that no one of which is above the cap.
LEMMA BelowFacts ==
  ASSUME NEW raw, NEW c, NEW d, IsRaw(raw, c, d)
  PROVE  LET below == BelowCap(raw, c, d)
         IN  /\ below \in SUBSET DOMAIN raw /\ below # {}
             /\ MassLeft(raw, below, c, d) >= 0 /\ AboveCap(raw, below, c, d) = {}
<1>1. PICK S : S = DOMAIN raw /\ IsFiniteSet(S) /\ S # {}
  BY DEF IsRaw
<1>2. PICK drop : drop = [R \in SUBSET S |-> AboveCap(raw, R, c, d)]
  OBVIOUS
<1>3. PICK pass : BelowCap(raw, c, d) = pass[S] /\ IsPass(pass, drop, S)
  BY <1>1, <1>2, PassOf
<1> DEFINE fit(R) == R # {} /\ MassLeft(raw, R, c, d) >= 0
           good == {R \in SUBSET S : fit(R) => /\ pass[R] \in SUBSET S /\ fit(pass[R])
                                               /\ AboveCap(raw, pass[R], c, d) = {}}
<1>4. \A R \in SUBSET S : pass[R] = IF drop[R] = {} THEN R ELSE pass[R \ drop[R]]
  BY <1>3 DEF IsPass
<1>5. ASSUME NEW R \in SUBSET S, \A Q \in SUBSET R : Q # R => Q \in good
      PROVE  R \in good
  <2>1. SUFFICES ASSUME fit(R)
                 PROVE  pass[R] \in SUBSET S /\ fit(pass[R]) /\ AboveCap(raw, pass[R], c, d) = {}
    OBVIOUS
  <2>2. PICK A : A = AboveCap(raw, R, c, d) /\ A = drop[R]
    BY <1>2
  <2>3. CASE A = {}
    BY <1>4, <2>1, <2>2, <2>3
  <2>4. CASE A # {}
    <3>1. PICK Q : Q = R \ A
      OBVIOUS
    <3>2. fit(Q) /\ Q # R
      BY <1>1, <2>1, <2>2, <2>4, <3>1, PassKeeps
    <3>3. Q \in SUBSET R /\ Q \in good
      BY <1>5, <3>1, <3>2
    <3>4. pass[R] = pass[Q]
      BY <1>4, <2>2, <2>4, <3>1
    <3>5. QED
      BY <3>2, <3>3, <3>4
  <2>5. QED
    BY <2>3, <2>4
<1>6. S \in good
  <2>1. good \in SUBSET SUBSET S
    OBVIOUS
  <2> HIDE DEF good
  <2>2. QED
    BY <1>1, <1>5, <2>1, SubsetInduction
<1>7. fit(S)
  <2>1. MassLeft(raw, S, c, d) = d
    <3>1. DOMAIN raw \ S = {}
      BY <1>1
    <3>2. Cardinality(DOMAIN raw \ S) = 0
      BY <3>1, FS_EmptySet
    <3>3. QED
      BY <3>2 DEF MassLeft, IsRaw
  <2>2. QED
    BY <1>1, <2>1 DEF IsRaw
<1>8. QED
  BY <1>1, <1>3, <1>6, <1>7

\* The shares of _capped_normalize: together the whole, none above the cap.
LEMMA SharesOf ==
  ASSUME NEW raw, NEW c, NEW d, IsRaw(raw, c, d),
         NEW groups, groups = CappedNormalize(raw, c, d)
  PROVE  /\ DOMAIN groups.num = DOMAIN raw
         /\ SumOver(groups.num, DOMAIN raw) = groups.den
         /\ \A m \in DOMAIN raw : groups.num[m] * d <= c * groups.den
<1>1. /\ IsFiniteSet(DOMAIN raw) /\ \A m \in DOMAIN raw : raw[m] \in Nat
      /\ c \in Nat /\ d \in Nat
  BY DEF IsRaw
<1>2. PICK D, B, O : D = DOMAIN raw /\ B = BelowCap(raw, c, d) /\ O = D \ B
  OBVIOUS
<1>3. B \in SUBSET D /\ B # {} /\ MassLeft(raw, B, c, d) >= 0 /\ AboveCap(raw, B, c, d) = {}
  BY <1>2, BelowFacts
<1>4. IsFiniteSet(B) /\ IsFiniteSet(O) /\ \A m \in B : raw[m] \in Nat
  <2>1. O \in SUBSET DOMAIN raw /\ B \in SUBSET DOMAIN raw
    BY <1>2, <1>3
  <2>2. QED
    BY <1>1, <2>1, FS_Subset
<1>5. PICK o \in Nat : o = Cardinality(O)
  BY <1>4, FS_CardinalityType
<1>6. PICK k \in Nat : k = Cardinality(B) /\ k >= 1
  <2>1. Cardinality(B) \in Nat /\ Cardinality(B) # 0
    BY <1>3, <1>4, FS_CardinalityType, FS_EmptySet
  <2>2. QED
    BY <2>1
<1>7. PICK t \in Nat : t = SumOver(raw, B)
  BY <1>4, SumStep
<1>8. PICK l \in Nat : l = MassLeft(raw, B, c, d) /\ l = d - c * o /\ l <= c * k
  <2>1. {} \in SUBSET B
    OBVIOUS
  <2>2. MassLeft(raw, B, c, d) \in Int /\ MassLeft(raw, B, c, d) <= c * k
    BY <1>2, <1>3, <1>6, <2>1, MassFacts
  <2>3. MassLeft(raw, B, c, d) = d - c * o
    BY <1>2, <1>5 DEF MassLeft
  <2>4. QED
    BY <1>3, <2>2, <2>3
<1>9. PICK p \in Nat : p = (IF t > 0 THEN t ELSE Max({1, k})) /\ p = (IF t > 0 THEN t ELSE k)
  <2>1. Max({1, k}) = k
    BY <1>6, MinMax
  <2>2. QED
    BY <2>1
<1>10. PICK v : v = [m \in B |-> IF t > 0 THEN raw[m] ELSE 1]
  OBVIOUS
<1>11. \A m \in B : v[m] \in Nat
  BY <1>4, <1>10
<1>12. SumOver(v, B) = p
  <2>1. CASE t > 0
    <3>1. \A m \in B : v[m] = raw[m]
      BY <1>10, <2>1
    <3>2. SumOver(v, B) = SumOver(raw, B)
      BY <1>4, <3>1, SumEqual
    <3>3. QED
      BY <1>7, <1>9, <2>1, <3>2
  <2>2. CASE ~(t > 0)
    <3>1. \A m \in B : v[m] = 1
      BY <1>10, <2>2
    <3>2. SumOver(v, B) = 1 * Cardinality(B)
      BY <1>4, <3>1, SumConstant
    <3>3. QED
      BY <1>6, <1>9, <2>2, <3>2
  <2>3. QED
    BY <2>1, <2>2
<1>13. ASSUME NEW m \in B PROVE l * v[m] <= c * p
  <2>1. CASE t > 0
    <3>1. v[m] = raw[m] /\ p = t
      BY <1>9, <1>10, <2>1
    <3>2. ~(l * raw[m] > c * t)
      BY <1>3, <1>7, <1>8 DEF AboveCap
    <3>3. l * raw[m] \in Nat /\ c * t \in Nat
      BY <1>1, <1>4
    <3>4. QED
      BY <3>1, <3>2, <3>3
  <2>2. CASE ~(t > 0)
    <3>1. v[m] = 1 /\ p = k
      BY <1>9, <1>10, <2>2
    <3>2. QED
      BY <1>8, <3>1
  <2>3. QED
    BY <2>1, <2>2
<1>14. PICK N : N = [m \in D |-> IF m \in B THEN l * v[m] ELSE c * p]
  OBVIOUS
<1>15. groups.num = N /\ groups.den = d * p
  <2>1. /\ groups.den = d * (IF t > 0 THEN t ELSE Max({1, k}))
        /\ groups.num = [m \in D |-> IF m \in B THEN l * v[m]
                                     ELSE c * (IF t > 0 THEN t ELSE Max({1, k}))]
    BY <1>2, <1>6, <1>7, <1>8, <1>10, Zenon DEF CappedNormalize
  <2>2. QED
    BY <1>9, <1>14, <2>1, Zenon
<1>16. \A m \in D : N[m] \in Nat /\ N[m] <= c * p
  <2>1. c * p \in Nat
    BY <1>1
  <2>2. ASSUME NEW m \in D PROVE N[m] \in Nat /\ N[m] <= c * p
    <3>1. CASE m \in B
      <4>1. PICK x \in Nat : x = v[m]
        BY <1>11, <3>1
      <4>2. l * x \in Nat /\ l * x <= c * p
        BY <1>13, <3>1, <4>1
      <4>3. QED
        BY <1>14, <3>1, <4>1, <4>2
    <3>2. CASE m \notin B
      BY <1>14, <2>1, <3>2
    <3>3. QED
      BY <3>1, <3>2
  <2>3. QED
    BY <2>2
<1>17. SumOver(N, D) = d * p
  <2>1. SumOver(N, B) = l * p
    <3>1. \A m \in B : N[m] = l * v[m]
      BY <1>3, <1>14
    <3>2. SumOver(N, B) = l * SumOver(v, B)
      BY <1>4, <1>11, <3>1, SumScale
    <3>3. QED
      BY <1>12, <3>2
  <2>2. SumOver(N, O) = (c * p) * o
    <3>1. PICK z \in Nat : z = c * p
      BY <1>1
    <3>2. \A m \in O : N[m] = z
      BY <1>2, <1>14, <3>1
    <3>3. SumOver(N, O) = z * Cardinality(O)
      BY <1>4, <3>2, SumConstant
    <3>4. QED
      BY <1>5, <3>1, <3>3
  <2>3. SumOver(N, D) = SumOver(N, B) + SumOver(N, O)
    BY <1>1, <1>2, <1>3, <1>16, SumSplit
  <2>4. l * p + (c * p) * o = d * p
    <3>1. PICK e \in Nat : e = c * o
      BY <1>1
    <3>2. (c * p) * o = e * p
      BY <1>1, <3>1
    <3>3. l * p + e * p = (l + e) * p /\ l + e = d
      BY <1>1, <1>8, <3>1
    <3>4. QED
      BY <3>2, <3>3
  <2>5. QED
    BY <2>1, <2>2, <2>3, <2>4
<1>18. ASSUME NEW m \in D PROVE N[m] * d <= c * (d * p)
  <2>1. PICK x \in Nat : x = N[m] /\ x <= c * p
    BY <1>16
  <2>2. c * p \in Nat /\ c * (d * p) = (c * p) * d
    BY <1>1
  <2>3. x * d <= (c * p) * d
    BY <1>1, <2>1, <2>2, TimesCompare
  <2>4. QED
    BY <2>1, <2>2, <2>3
<1>19. DOMAIN N = D
  BY <1>14
<1>20. QED
  BY <1>2, <1>15, <1>17, <1>18, <1>19

\* The score over all families is a natural.
LEMMA RobustNat ==
  ASSUME IInv, RInv, NEW m
  PROVE  RobustScore(Own(obs, m)) \in Nat
<1>1. PICK v : v = [f \in Families |-> FamilyScore(Own(obs, m), f)]
  OBVIOUS
<1>2. Values(v) /\ DOMAIN v = Families
  BY <1>1, FamilyFacts, AggregationAssumption DEF Values
<1>3. PICK n \in Nat : n = Cardinality(Families) /\ n > 0
  <2>1. Cardinality(Families) \in Nat \ {0}
    BY <1>2, ValueCount
  <2>2. QED
    BY <2>1
<1>4. PICK p \in Nat : p = Product(v)
  BY <1>2, ProductNat DEF Values
<1>5. PICK r \in Nat : r = Root(n, p)
  BY <1>3, RootFacts
<1>6. PICK e \in Nat : e = StandardError(v)
  BY <1>2, ErrorNat
<1>7. PICK z \in Nat : z = ConfidenceZ
  BY AggregationAssumption
<1>8. RobustScore(Own(obs, m)) = Max({0, r - z * e})
  BY <1>1, <1>3, <1>4, <1>5, <1>6, <1>7, Zenon DEF RobustScore
<1>9. PICK x \in Int : x = r - z * e
  BY <1>5, <1>6, <1>7
<1>10. Max({0, x}) \in Nat
  <2>1. Max({0, x}) = IF 0 <= x THEN x ELSE 0
    BY MinMax
  <2>2. QED
    BY <2>1
<1>11. QED
  BY <1>8, <1>9, <1>10

\* So is the reward of an aggregate.
LEMMA AggregateNat ==
  ASSUME IInv, RInv, NEW m
  PROVE  Aggregate(Own(obs, m)).reward \in Nat
<1>1. PICK mine : mine = Own(obs, m)
  OBVIOUS
<1>2. PICK x \in Nat : x = RobustScore(mine)
  BY <1>1, RobustNat
<1>3. PICK n \in Nat : n = Cardinality({o \in Answered(mine) : o.compliant})
  <2>1. {o \in Answered(mine) : o.compliant} \in SUBSET mine
    BY DEF Answered
  <2>2. IsFiniteSet({o \in Answered(mine) : o.compliant})
    BY <1>1, <2>1, OwnFinite, FS_Subset
  <2>3. QED
    BY <2>2, FS_CardinalityType
<1>4. x * n \in Nat
  OBVIOUS
<1>5. Aggregate(mine).reward = 0 \/ Aggregate(mine).reward = x * n
  BY <1>2, <1>3 DEF Aggregate
<1>6. QED
  BY <1>1, <1>4, <1>5

\* The rewards of a set of miners are a sum.
LEMMA RewardIs ==
  ASSUME NEW agg, NEW S, IsFiniteSet(S), NEW r, r = [m \in S |-> agg[m].reward]
  PROVE  RewardOver(agg, S) = SumOver(r, S)
<1> DEFINE sums(iter) == iter = [s \in SUBSET S |->
                                   IF s = {} THEN 0
                                   ELSE agg[CHOOSE x \in s : TRUE].reward
                                          + iter[s \ {CHOOSE x \in s : TRUE}]]
<1>1. PICK j : j = CHOOSE iter : sums(iter)
  OBVIOUS
<1>2. \A s \in SUBSET S : s # {} => r[CHOOSE x \in s : TRUE] = agg[CHOOSE x \in s : TRUE].reward
  <2>1. ASSUME NEW s \in SUBSET S, s # {}
        PROVE  r[CHOOSE x \in s : TRUE] = agg[CHOOSE x \in s : TRUE].reward
    <3>1. PICK x \in S : x = CHOOSE y \in s : TRUE
      BY <2>1
    <3>2. r[x] = agg[x].reward
      OBVIOUS
    <3>3. QED
      BY <3>1, <3>2
  <2>2. QED
    BY <2>1
<1>3. ASSUME NEW iter PROVE sums(iter) <=> IsFold(iter, "sum", r, S)
  BY <1>2 DEF IsFold, Combined
<1>4. sums(j)
  <2>1. \E iter : IsFold(iter, "sum", r, S)
    BY FoldExists
  <2> HIDE DEF sums
  <2>2. \E iter : sums(iter)
    BY <1>3, <2>1
  <2>3. QED
    BY <1>1, <2>2
<1>5. RewardOver(agg, S) = j[S]
  BY <1>1 DEF RewardOver, MapThenSumSet, MapThenFoldSet
<1>6. IsFold(j, "sum", r, S) /\ S \in SUBSET S
  BY <1>3, <1>4
<1>7. SumOver(r, S) = j[S]
  <2> HIDE DEF sums
  <2>1. QED
    BY <1>6, SumIs
<1>8. QED
  BY <1>5, <1>7

\* The plan of a run is made of the behaviours of the eligible miners.
LEMMA PlanFacts ==
  ASSUME IInv, RInv, status = "allocated", reason = "none"
  PROVE  /\ DOMAIN weights = Eligible(aggregates)
         /\ IsRaw(GroupMasses(aggregates), CapNum, CapDen)
<1>1. /\ aggregates = AggregateNetwork(obs, Miners)
      /\ NoPlanReason(aggregates, MinDistinct, CapNum, CapDen) = "none"
      /\ DOMAIN weights = Eligible(aggregates)
  BY DEF RInv, Allocated
<1>2. aggregates = [m \in Miners |-> Aggregate(Own(obs, m))]
  BY <1>1 DEF AggregateNetwork, Own
<1>3. DOMAIN aggregates = Miners /\ \A m \in Miners : aggregates[m].reward \in Nat
  BY <1>2, AggregateNat
<1>4. IsFiniteSet(Eligible(aggregates)) /\ Eligible(aggregates) \in SUBSET Miners
  <2>1. Eligible(aggregates) \in SUBSET Miners
    BY <1>3 DEF Eligible
  <2>2. QED
    BY <2>1, FS_Subset, EvaluationAssumption
<1>5. PICK G : G = Groups(aggregates) /\ IsFiniteSet(G) /\ Cardinality(G) \in Nat
  <2>1. PICK h, E : h = [m \in Eligible(aggregates) |-> aggregates[m].behavior] /\ E = Eligible(aggregates)
    OBVIOUS
  <2>2. Groups(aggregates) = {h[m] : m \in E}
    BY <2>1 DEF Groups
  <2>3. IsFiniteSet(Groups(aggregates)) /\ Cardinality(Groups(aggregates)) \in Nat
    BY <1>4, <2>1, <2>2, Image
  <2>4. QED
    BY <2>3
<1>6. G # {} /\ ~TooFewForCap(GroupMasses(aggregates), CapNum, CapDen)
  <2>1. MinDistinct \in Nat \ {0}
    BY EvaluationAssumption
  <2>2. /\ Eligible(aggregates) # {} /\ ~(Cardinality(G) < MinDistinct)
        /\ ~(Cardinality(G) >= MinDistinct /\ TooFewForCap(GroupMasses(aggregates), CapNum, CapDen))
    BY <1>1, <1>5 DEF NoPlanReason
  <2>3. G # {}
    BY <1>5, <2>2 DEF Groups
  <2>4. QED
    BY <1>5, <2>1, <2>2, <2>3
<1>7. ASSUME NEW b \in G PROVE GroupMass(aggregates, b) \in Nat
  <2> DEFINE copies(s) == {m \in Members(aggregates, b) : aggregates[m].strategy = s}
             masses == {RewardOver(aggregates, copies(s)) :
                          s \in {aggregates[m].strategy : m \in Members(aggregates, b)}}
  <2>1. \A s : RewardOver(aggregates, copies(s)) \in Nat
    <3>1. ASSUME NEW s PROVE RewardOver(aggregates, copies(s)) \in Nat
      <4>1. PICK C : C = copies(s)
        OBVIOUS
      <4>2. C \in SUBSET Eligible(aggregates)
        BY <4>1 DEF Members
      <4>3. IsFiniteSet(C) /\ \A m \in C : aggregates[m].reward \in Nat
        BY <1>3, <1>4, <4>2, FS_Subset
      <4>4. PICK r : r = [m \in C |-> aggregates[m].reward]
        OBVIOUS
      <4>5. RewardOver(aggregates, C) = SumOver(r, C)
        BY <4>3, <4>4, RewardIs
      <4>6. SumOver(r, C) \in Nat
        BY <4>3, <4>4, SumStep
      <4>7. QED
        BY <4>1, <4>5, <4>6
    <3>2. QED
      BY <3>1
  <2>2. masses \in SUBSET Nat
    <3> HIDE DEF copies
    <3>1. QED
      BY <2>1
  <2>3. masses # {}
    <3>1. PICK m \in Eligible(aggregates) : aggregates[m].behavior = b
      BY <1>5 DEF Groups
    <3>2. m \in Members(aggregates, b)
      BY <3>1 DEF Members
    <3>3. RewardOver(aggregates, copies(aggregates[m].strategy)) \in masses
      <4> HIDE DEF copies
      <4>1. QED
        BY <3>2
    <3> HIDE DEF masses
    <3>4. QED
      BY <3>3
  <2>4. GroupMass(aggregates, b) = Min(masses)
    BY DEF GroupMass
  <2>5. Min(masses) \in Nat
    <3> HIDE DEF masses
    <3>1. QED
      BY <2>2, <2>3, MinOfNats
  <2>6. QED
    BY <2>4, <2>5
<1>8. PICK raw : raw = GroupMasses(aggregates)
  OBVIOUS
<1>9. DOMAIN raw = G /\ \A b \in G : raw[b] \in Nat
  BY <1>5, <1>7, <1>8 DEF GroupMasses
<1>10. CapNum \in Nat /\ CapDen \in Nat \ {0}
  <2>1. CapDen \in Nat \ {0} /\ CapNum \in 1 .. CapDen
    BY EvaluationAssumption
  <2>2. QED
    BY <2>1
<1>11. IsRaw(raw, CapNum, CapDen)
  BY <1>5, <1>6, <1>8, <1>9, <1>10 DEF IsRaw
<1>12. QED
  BY <1>1, <1>8, <1>11

\* SharesWithinCap, from the invariants.
LEMMA PlanWithinCap ==
  ASSUME IInv, RInv
  PROVE  SharesWithinCap
<1> SUFFICES ASSUME status = "allocated", reason = "none"
             PROVE  LET groups == CappedNormalize(GroupMasses(aggregates), CapNum, CapDen)
                    IN  /\ SumOver(groups.num, DOMAIN groups.num) = groups.den
                        /\ \A b \in DOMAIN groups.num : groups.num[b] * CapDen <= CapNum * groups.den
                        /\ \A b \in Groups(aggregates) : \E m \in DOMAIN weights : aggregates[m].behavior = b
  BY DEF SharesWithinCap
<1>1. PICK raw : raw = GroupMasses(aggregates) /\ IsRaw(raw, CapNum, CapDen)
  BY PlanFacts
<1>2. PICK groups : groups = CappedNormalize(raw, CapNum, CapDen)
  OBVIOUS
<1>3. /\ DOMAIN groups.num = DOMAIN raw
      /\ SumOver(groups.num, DOMAIN raw) = groups.den
      /\ \A m \in DOMAIN raw : groups.num[m] * CapDen <= CapNum * groups.den
  BY <1>1, <1>2, SharesOf
<1>4. SumOver(groups.num, DOMAIN groups.num) = groups.den
  BY <1>3, Zenon
<1>5. \A b \in Groups(aggregates) : \E m \in DOMAIN weights : aggregates[m].behavior = b
  BY PlanFacts DEF Groups
<1>6. QED
  BY <1>1, <1>2, <1>3, <1>4, <1>5

\* A plan distributes the whole weight, none of it above the cap to the miners
\* of one behaviour, and every behaviour of an eligible miner has its part
\* (_capped_normalize, allocate_weights).
THEOREM PlanSharesWithinCap == Spec => []SharesWithinCap
<1>1. IInv /\ RInv => SharesWithinCap
  BY PlanWithinCap
<1>2. QED
  BY PlanInvariance, <1>1, PTL

-----------------------------------------------------------------------------
(* Values that are nearly a multiple of others, and what the statistics    *)
(* make of them.                                                           *)

\* The values of v and of w have the same names, and those of v are k times
\* those of w up to e.
Off(v, w, k, e) ==
  /\ Values(v) /\ Values(w) /\ DOMAIN v = DOMAIN w
  /\ \A x \in DOMAIN v : k * w[x] <= v[x] + e /\ v[x] <= k * w[x] + e

\* The i-th of the sorted values is the least that i of the values do not exceed.
LEMMA SortedLeast ==
  ASSUME NEW v, Values(v), NEW i \in 1 .. Cardinality(DOMAIN v)
  PROVE  /\ Cardinality({x \in DOMAIN v : v[x] <= Sorted(v)[i]}) >= i
         /\ \A m \in DOMAIN v :
              Cardinality({x \in DOMAIN v : v[x] <= v[m]}) >= i => Sorted(v)[i] <= v[m]
<1> DEFINE graph == {<<k, v[k]>> : k \in DOMAIN v}
           upTo(x) == Cardinality({p \in graph : p[2] <= x})
           reached == {x \in {p[2] : p \in graph} : upTo(x) >= i}
<1>1. PICK D : D = DOMAIN v /\ IsFiniteSet(D) /\ D # {} /\ \A k \in D : v[k] \in Nat
  BY DEF Values
<1>2. ASSUME NEW x \in Nat PROVE upTo(x) = Cardinality({k \in D : v[k] <= x})
  <2>1. PICK f : f = [k \in D |-> <<k, v[k]>>]
    OBVIOUS
  <2>2. PICK S : S = {k \in D : v[k] <= x}
    OBVIOUS
  <2>3. IsFiniteSet(S)
    BY <1>1, <2>2, FS_Subset
  <2>4. \A k, l \in S : f[k] = f[l] => k = l
    BY <2>1, <2>2
  <2>5. PICK T : T = {p \in graph : p[2] <= x}
    OBVIOUS
  <2>6. \A p \in T : \E k \in S : p = f[k]
    BY <1>1, <2>1, <2>2, <2>5
  <2>7. \A k \in S : f[k] \in T
    BY <1>1, <2>1, <2>2, <2>5
  <2>8. T = {f[k] : k \in S}
    BY <2>6, <2>7
  <2>9. Cardinality(T) = Cardinality(S)
    BY <2>3, <2>4, <2>8, Image
  <2>10. QED
    BY <2>2, <2>5, <2>9
<1>3. \A p \in graph : p[2] \in Nat
  BY <1>1
<1>4. \A m \in D : <<m, v[m]>> \in graph /\ <<m, v[m]>>[2] = v[m]
  BY <1>1
<1>5. PICK R : R = reached
  OBVIOUS
<1>6. R \in SUBSET Nat
  BY <1>3, <1>5
<1>7. PICK y \in D : Sorted(v)[i] = v[y]
  BY <1>1, SortedValue
<1>8. Sorted(v)[i] = Min(R)
  BY <1>5 DEF Sorted
<1>9. ASSUME NEW m \in D, Cardinality({x \in D : v[x] <= v[m]}) >= i
      PROVE  v[m] \in R
  BY <1>1, <1>2, <1>4, <1>5, <1>9
<1>10. R # {}
  <2>1. PICK V : V = {v[x] : x \in D}
    OBVIOUS
  <2>2. V \in SUBSET Nat /\ V # {} /\ IsFiniteSet(V)
    <3>1. V \in SUBSET Nat /\ V # {}
      BY <1>1, <2>1
    <3>2. IsFiniteSet(V)
      BY <1>1, <2>1, Image
    <3>3. QED
      BY <3>1, <3>2
  <2>3. PICK u \in V : \A x \in V : x <= u
    BY <2>2, MaxOfNats
  <2>4. PICK m \in D : v[m] = u
    BY <2>1
  <2>5. {x \in D : v[x] <= v[m]} = D
    BY <2>1, <2>3, <2>4
  <2>6. Cardinality({x \in D : v[x] <= v[m]}) >= i
    BY <1>1, <2>5
  <2>7. QED
    BY <1>9, <2>6
<1>11. Min(R) \in R /\ \A z \in R : Min(R) <= z
  BY <1>6, <1>10, MinOfNats
<1>12. Cardinality({x \in D : v[x] <= Min(R)}) >= i
  <2>1. PICK u \in R : u = Min(R)
    BY <1>11
  <2>2. u \in Nat /\ upTo(u) >= i
    BY <1>5, <1>6
  <2>3. QED
    BY <1>2, <2>1, <2>2
<1>13. QED
  BY <1>1, <1>8, <1>9, <1>11, <1>12

\* What compares value by value compares in order.
LEMMA SortedBelow ==
  ASSUME NEW v, Values(v), NEW w, Values(w), DOMAIN v = DOMAIN w,
         NEW a \in Nat, NEW b \in Nat, NEW c \in Nat,
         \A x \in DOMAIN v : a * v[x] <= b * w[x] + c,
         NEW i \in 1 .. Cardinality(DOMAIN v)
  PROVE  a * Sorted(v)[i] <= b * Sorted(w)[i] + c
<1>1. PICK D : D = DOMAIN v /\ D = DOMAIN w /\ IsFiniteSet(D) /\ \A x \in D : v[x] \in Nat /\ w[x] \in Nat
  BY DEF Values
<1>2. PICK p, q \in Nat : p = Sorted(v)[i] /\ q = Sorted(w)[i]
  BY SortedFacts
<1>3. PICK W : W = {x \in D : w[x] <= q}
  OBVIOUS
<1>4. IsFiniteSet(W) /\ Cardinality(W) \in Nat /\ Cardinality(W) >= i /\ W \in SUBSET D
  <2>1. W \in SUBSET D /\ Cardinality(W) >= i
    BY <1>1, <1>2, <1>3, SortedLeast
  <2>2. IsFiniteSet(W)
    BY <1>1, <2>1, FS_Subset
  <2>3. QED
    BY <2>1, <2>2, FS_CardinalityType
<1>5. PICK V : V = {v[x] : x \in W}
  OBVIOUS
<1>6. V \in SUBSET Nat /\ V # {} /\ IsFiniteSet(V)
  <2>1. W # {}
    <3>1. SUFFICES ASSUME W = {} PROVE FALSE
      OBVIOUS
    <3>2. Cardinality(W) = 0
      BY <3>1, FS_EmptySet
    <3>3. i \in Nat /\ i >= 1
      BY <1>1, FS_CardinalityType
    <3>4. QED
      BY <1>4, <3>2, <3>3
  <2>2. V \in SUBSET Nat /\ V # {}
    BY <1>1, <1>4, <1>5, <2>1
  <2>3. IsFiniteSet(V)
    BY <1>4, <1>5, Image
  <2>4. QED
    BY <2>2, <2>3
<1>7. PICK u \in V : \A x \in V : x <= u
  BY <1>6, MaxOfNats
<1>8. PICK m \in W : v[m] = u
  BY <1>5
<1>9. PICK M : M = {x \in D : v[x] <= v[m]}
  OBVIOUS
<1>10. Cardinality(M) >= i
  <2>1. W \in SUBSET M /\ M \in SUBSET D
    BY <1>4, <1>5, <1>7, <1>8, <1>9
  <2>2. IsFiniteSet(M)
    BY <1>1, <2>1, FS_Subset
  <2>3. Cardinality(W) <= Cardinality(M) /\ Cardinality(M) \in Nat
    BY <2>1, <2>2, FS_Subset, FS_CardinalityType
  <2>4. i \in Nat
    BY <1>1, FS_CardinalityType
  <2>5. QED
    BY <1>4, <2>3, <2>4
<1>11. p <= v[m]
  BY <1>1, <1>2, <1>4, <1>9, <1>10, SortedLeast
<1>12. PICK x, y \in Nat : x = v[m] /\ y = w[m] /\ y <= q /\ a * x <= b * y + c
  BY <1>1, <1>3, <1>4
<1>13. a * p <= a * x /\ b * y <= b * q
  BY <1>11, <1>12, TimesCompare
<1>14. a * p \in Nat /\ a * x \in Nat /\ b * y \in Nat /\ b * q \in Nat
  OBVIOUS
<1>15. QED
  BY <1>2, <1>12, <1>13, <1>14

\* So sorting keeps the distance.
LEMMA SortedOff ==
  ASSUME NEW k \in Nat, NEW e \in Nat, NEW v, NEW w, Off(v, w, k, e),
         NEW i \in 1 .. Cardinality(DOMAIN v)
  PROVE  k * Sorted(w)[i] <= Sorted(v)[i] + e /\ Sorted(v)[i] <= k * Sorted(w)[i] + e
<1>1. PICK D : D = DOMAIN v /\ D = DOMAIN w
  BY DEF Off
<1>2. Values(v) /\ Values(w) /\ \A x \in D : v[x] \in Nat /\ w[x] \in Nat
  BY <1>1 DEF Off, Values
<1>3. PICK p, q \in Nat : p = Sorted(v)[i] /\ q = Sorted(w)[i]
  BY <1>1, <1>2, SortedFacts
<1>4. \A x \in D : k * w[x] <= 1 * v[x] + e /\ 1 * v[x] <= k * w[x] + e
  BY <1>1, <1>2 DEF Off
<1>5. k * Sorted(w)[i] <= 1 * Sorted(v)[i] + e
  BY <1>1, <1>2, <1>4, SortedBelow
<1>6. 1 * Sorted(v)[i] <= k * Sorted(w)[i] + e
  BY <1>1, <1>2, <1>4, SortedBelow
<1>7. QED
  BY <1>3, <1>5, <1>6

\* The median is the sum of two of them.
LEMMA MedianOff ==
  ASSUME NEW k \in Nat, NEW e \in Nat, NEW v, NEW w, Off(v, w, k, e)
  PROVE  k * Median2(w) <= Median2(v) + 2 * e /\ Median2(v) <= k * Median2(w) + 2 * e
<1>1. PICK D : D = DOMAIN v /\ D = DOMAIN w
  BY DEF Off
<1>2. Values(v) /\ Values(w)
  BY DEF Off
<1>3. PICK n \in Nat \ {0} : n = Cardinality(D)
  BY <1>1, <1>2, ValueCount
<1>4. PICK i, j \in 1 .. n : i = (n + 1) \div 2 /\ j = n \div 2 + 1
  OBVIOUS
<1>5. PICK p, q, r, s \in Nat : /\ p = Sorted(v)[i] /\ q = Sorted(v)[j]
                                /\ r = Sorted(w)[i] /\ s = Sorted(w)[j]
  BY <1>1, <1>2, <1>3, SortedFacts
<1>6. k * r <= p + e /\ p <= k * r + e /\ k * s <= q + e /\ q <= k * s + e
  BY <1>1, <1>3, <1>5, SortedOff
<1>7. Median2(v) = p + q /\ Median2(w) = r + s
  BY <1>1, <1>3, <1>4, <1>5 DEF Median2
<1>8. k * (r + s) = k * r + k * s /\ k * r \in Nat /\ k * s \in Nat
  OBVIOUS
<1>9. QED
  BY <1>6, <1>7, <1>8

\* The absolute deviations from the median, doubled.
Deviations(v) ==
  [x \in DOMAIN v |-> Max({2 * v[x] - Median2(v), Median2(v) - 2 * v[x]})]

LEMMA DeviationsNat ==
  ASSUME NEW v, Values(v)
  PROVE  /\ Values(Deviations(v)) /\ DOMAIN Deviations(v) = DOMAIN v
         /\ \A x \in DOMAIN v : Deviations(v)[x] = IF 2 * v[x] >= Median2(v) THEN 2 * v[x] - Median2(v)
                                                   ELSE Median2(v) - 2 * v[x]
<1>1. PICK c \in Nat : c = Median2(v)
  BY MedianNat
<1>2. PICK d : d = Deviations(v)
  OBVIOUS
<1>3. DOMAIN d = DOMAIN v /\ \A x \in DOMAIN v : d[x] = Max({2 * v[x] - c, c - 2 * v[x]})
  BY <1>1, <1>2 DEF Deviations
<1>4. ASSUME NEW x \in DOMAIN v
      PROVE  d[x] \in Nat /\ d[x] = IF 2 * v[x] >= c THEN 2 * v[x] - c ELSE c - 2 * v[x]
  <2>1. PICK y \in Nat : y = v[x]
    BY DEF Values
  <2>2. 2 * y - c \in Int /\ c - 2 * y \in Int
    OBVIOUS
  <2>3. Max({2 * y - c, c - 2 * y}) = IF 2 * y - c <= c - 2 * y THEN c - 2 * y ELSE 2 * y - c
    BY <2>2, MinMax
  <2>4. d[x] = IF 2 * y - c <= c - 2 * y THEN c - 2 * y ELSE 2 * y - c
    BY <1>3, <2>1, <2>3
  <2>5. QED
    BY <2>1, <2>4
<1>5. QED
  BY <1>1, <1>2, <1>3, <1>4 DEF Values

LEMMA DeviationsOff ==
  ASSUME NEW k \in Nat, NEW e \in Nat, NEW v, NEW w, Off(v, w, k, e)
  PROVE  Off(Deviations(v), Deviations(w), k, 4 * e)
<1>1. PICK D : D = DOMAIN v /\ D = DOMAIN w
  BY DEF Off
<1>2. Values(v) /\ Values(w) /\ \A x \in D : v[x] \in Nat /\ w[x] \in Nat
  BY <1>1 DEF Off, Values
<1>3. PICK a, b \in Nat : a = Median2(v) /\ b = Median2(w) /\ k * b <= a + 2 * e /\ a <= k * b + 2 * e
  BY <1>2, MedianNat, MedianOff
<1>4. ASSUME NEW x \in D
      PROVE  /\ k * Deviations(w)[x] <= Deviations(v)[x] + 4 * e
             /\ Deviations(v)[x] <= k * Deviations(w)[x] + 4 * e
  <2>1. PICK p, q \in Nat : p = v[x] /\ q = w[x] /\ k * q <= p + e /\ p <= k * q + e
    BY <1>1, <1>2 DEF Off
  <2>2. PICK y, z \in Nat : /\ y = Deviations(v)[x] /\ y = (IF 2 * p >= a THEN 2 * p - a ELSE a - 2 * p)
                            /\ z = Deviations(w)[x] /\ z = (IF 2 * q >= b THEN 2 * q - b ELSE b - 2 * q)
    <3>1. /\ Deviations(v)[x] = (IF 2 * p >= a THEN 2 * p - a ELSE a - 2 * p)
          /\ Deviations(w)[x] = (IF 2 * q >= b THEN 2 * q - b ELSE b - 2 * q)
      BY <1>1, <1>2, <1>3, <2>1, DeviationsNat
    <3>2. (IF 2 * p >= a THEN 2 * p - a ELSE a - 2 * p) \in Nat
      OBVIOUS
    <3>3. (IF 2 * q >= b THEN 2 * q - b ELSE b - 2 * q) \in Nat
      OBVIOUS
    <3>4. QED
      BY <3>1, <3>2, <3>3, Zenon
  <2>3. PICK kq, kb \in Nat : kq = k * q /\ kb = k * b
    OBVIOUS
  <2>4. k * z = IF 2 * q >= b THEN 2 * kq - kb ELSE kb - 2 * kq
    BY <2>2, <2>3
  <2>5. 2 * q >= b => 2 * kq >= kb
    <3>1. 2 * q >= b => k * b <= k * (2 * q)
      BY TimesCompare
    <3>2. QED
      BY <2>3, <3>1
  <2>6. 2 * q <= b => 2 * kq <= kb
    <3>1. 2 * q <= b => k * (2 * q) <= k * b
      BY TimesCompare
    <3>2. QED
      BY <2>3, <3>1
  <2>7. k * z \in Nat /\ k * z = IF 2 * kq >= kb THEN 2 * kq - kb ELSE kb - 2 * kq
    BY <2>4, <2>5, <2>6
  <2>8. PICK kz \in Nat : kz = k * z /\ kz = IF 2 * kq >= kb THEN 2 * kq - kb ELSE kb - 2 * kq
    BY <2>7
  <2>9. kz <= y + 4 * e /\ y <= kz + 4 * e
    BY <1>3, <2>1, <2>2, <2>3, <2>8
  <2>10. QED
    BY <2>2, <2>8, <2>9
<1>5. QED
  BY <1>1, <1>2, <1>4, DeviationsNat DEF Off

\* The standard error as a root.
LEMMA ErrorIs ==
  ASSUME NEW v, Values(v), NEW n \in Nat \ {0}, n = Cardinality(DOMAIN v), n >= 2,
         NEW m \in Nat, m = Median2(Deviations(v)), NEW x \in Nat, x = StandardError(v)
  PROVE  (64 * n) * (x * x) <= 9 * (m * m) /\ 9 * (m * m) < (64 * n) * ((x + 1) * (x + 1))
<1>1. PICK d : d = Deviations(v)
  OBVIOUS
<1>2. PICK a, e \in Nat : a = 9 * m * m /\ e = 64 * n /\ e >= 2
  OBVIOUS
<1>3. PICK p \in Nat : p = a \div e /\ e * p <= a /\ \A q \in Nat : e * q <= a => q <= p
  <2>1. a \div e \in Nat /\ e * (a \div e) <= a /\ \A q \in Nat : e * q <= a => q <= a \div e
    BY <1>2, Quotient
  <2>2. QED
    BY <2>1, Zenon
<1>4. x = Root(2, p)
  BY <1>1, <1>2, <1>3, ~(n < 2) DEF StandardError, Deviations
<1>5. \A r \in Nat : Power(r, 2) = r * r
  <2>1. SUFFICES ASSUME NEW r \in Nat PROVE Power(r, 2) = r * r
    OBVIOUS
  <2>2. PICK f : f = [i \in 1 .. 2 |-> r]
    OBVIOUS
  <2>3. PICK D : D = 1 .. 2
    OBVIOUS
  <2>4. DOMAIN f = D /\ \A i \in D : f[i] = r /\ f[i] \in Nat
    BY <2>2, <2>3
  <2>5. IsFiniteSet(D)
    <3>1. PICK g, h \in Int : g = 1 /\ h = 2
      OBVIOUS
    <3>2. IsFiniteSet(g .. h)
      BY FS_Interval
    <3>3. QED
      BY <2>3, <3>1, <3>2
  <2>6. PICK i : IsFold(i, "product", f, D)
    BY <2>5, FoldExists
  <2>7. Product(f) = i[D]
    BY <2>4, <2>5, <2>6, ProductIs
  <2>8. Multiplies(i, f, D)
    BY <2>4, <2>5, <2>6, ProductStep
  <2>9. PICK R : R = D \ {1}
    OBVIOUS
  <2>10. 1 \in D /\ 2 \in R /\ 2 \in D /\ R \in SUBSET D /\ R \ {2} = {}
    BY <2>3, <2>9
  <2>11. i[D] = f[1] * i[D \ {1}]
    BY <2>8, <2>10 DEF Multiplies
  <2>12. i[R] = f[2] * i[R \ {2}]
    BY <2>8, <2>10 DEF Multiplies
  <2>13. i[R \ {2}] = 1
    BY <2>8, <2>10 DEF Multiplies
  <2>14. i[R] = r
    BY <2>4, <2>10, <2>12, <2>13
  <2>15. QED
    BY <2>2, <2>4, <2>7, <2>9, <2>10, <2>11, <2>14 DEF Power
<1>6. x * x <= p
  <2>1. Power(Root(2, p), 2) <= p
    BY RootFacts
  <2>2. Power(x, 2) = x * x
    BY <1>5
  <2>3. QED
    BY <1>4, <2>1, <2>2, Zenon
<1>7. p < (x + 1) * (x + 1)
  <2>1. PICK y \in Nat : y = x + 1
    OBVIOUS
  <2>2. y * y \in Nat /\ (y * y <= p => y <= x)
    <3>1. Power(y, 2) <= p => y <= Root(2, p)
      BY RootFacts
    <3>2. Power(y, 2) = y * y /\ y * y \in Nat
      BY <1>5
    <3>3. QED
      BY <1>4, <3>1, <3>2, Zenon
  <2>3. QED
    BY <2>1, <2>2
<1>8. PICK s, t \in Nat : s = x * x /\ t = (x + 1) * (x + 1)
  OBVIOUS
<1>9. e * s <= a
  <2>1. e * s <= e * p
    BY <1>6, <1>8, TimesCompare
  <2>2. e * s \in Nat /\ e * p \in Nat
    OBVIOUS
  <2>3. QED
    BY <1>3, <2>1, <2>2
<1>10. a < e * t
  <2>1. e * t \in Nat /\ ~(e * t <= a)
    BY <1>3, <1>7, <1>8
  <2>2. QED
    BY <2>1
<1>11. a = 9 * (m * m)
  BY <1>2
<1>12. QED
  BY <1>2, <1>8, <1>9, <1>10, <1>11

\* Arithmetic: roots of squares that are eight times as large are as near.
LEMMA RootsApart ==
  ASSUME NEW n \in Nat \ {0}, NEW u \in Nat, NEW y \in Nat, NEW a \in Nat, NEW b \in Nat, NEW e \in Nat,
         9 * (a * a) < (64 * n) * (u * u), (64 * n) * (y * y) <= 9 * (b * b), b <= a + 8 * e
  PROVE  y < u + 3 * e
<1>1. SUFFICES ASSUME u + 3 * e <= y PROVE FALSE
  OBVIOUS
<1>2. PICK s, t \in Nat : s = u + 3 * e /\ t = a + 8 * e
  OBVIOUS
<1>3. s * s <= y * y /\ b * b <= t * t
  BY <1>1, <1>2, TimesCompare
<1>4. PICK ss, yy, bb, tt \in Nat : ss = s * s /\ yy = y * y /\ bb = b * b /\ tt = t * t
  OBVIOUS
<1>5. (64 * n) * ss <= (64 * n) * yy
  BY <1>3, <1>4, TimesCompare
<1>6. (64 * n) * ss \in Nat /\ (64 * n) * yy \in Nat
  OBVIOUS
<1>7. (64 * n) * ss <= 9 * tt
  BY <1>3, <1>4, <1>5, <1>6
<1>8. PICK uu, ue, ee, aa, ae \in Nat : uu = u * u /\ ue = u * e /\ ee = e * e /\ aa = a * a /\ ae = a * e
  OBVIOUS
<1>9. ss = uu + 6 * ue + 9 * ee
  BY <1>2, <1>4, <1>8
<1>10. tt = aa + 16 * ae + 64 * ee
  BY <1>2, <1>4, <1>8
<1>11. PICK nuu, nue, nee \in Nat : nuu = n * uu /\ nue = n * ue /\ nee = n * ee
  OBVIOUS
<1>12. (64 * n) * ss = 64 * nuu + 384 * nue + 576 * nee
  BY <1>9, <1>11
<1>13. 9 * aa < 64 * nuu
  BY <1>8, <1>11
<1>14. ee <= nee
  BY <1>11
<1>15. 384 * nue < 144 * ae
  BY <1>7, <1>10, <1>12, <1>13, <1>14
<1>16. 8 * (n * u) < 3 * a
  <2>1. SUFFICES ASSUME 3 * a <= 8 * (n * u) PROVE FALSE
    OBVIOUS
  <2>2. PICK p, q \in Nat : p = 3 * a /\ q = 8 * (n * u)
    OBVIOUS
  <2>3. p * e <= q * e
    BY <2>1, <2>2, TimesCompare
  <2>4. p * e = 3 * ae /\ q * e = 8 * nue
    BY <1>8, <1>11, <2>2
  <2>5. QED
    BY <1>15, <2>3, <2>4
<1>17. PICK p, q \in Nat : p = 3 * a /\ q = 8 * (n * u) /\ q <= p
  BY <1>16
<1>18. q * q <= p * p
  BY <1>17, TimesCompare
<1>19. p * p = 9 * aa
  BY <1>8, <1>17
<1>20. q * q = 64 * (n * nuu)
  BY <1>8, <1>11, <1>17
<1>21. nuu <= n * nuu /\ n * nuu \in Nat
  OBVIOUS
<1>22. QED
  BY <1>13, <1>18, <1>19, <1>20, <1>21

\* The standard error.
LEMMA ErrorOff ==
  ASSUME NEW k \in Nat \ {0}, NEW e \in Nat, NEW v, NEW w, Off(v, w, k, e)
  PROVE  /\ k * StandardError(w) <= StandardError(v) + 3 * e
         /\ StandardError(v) <= k * StandardError(w) + (k - 1) + 3 * e
<1>1. Values(v) /\ Values(w) /\ DOMAIN v = DOMAIN w
  BY DEF Off
<1>2. PICK n \in Nat \ {0} : n = Cardinality(DOMAIN v) /\ n = Cardinality(DOMAIN w)
  BY <1>1, ValueCount
<1>3. PICK x, y \in Nat : x = StandardError(v) /\ y = StandardError(w)
  BY <1>1, ErrorNat
<1>4. CASE n < 2
  <2>1. x = 0 /\ y = 0
    BY <1>2, <1>3, <1>4 DEF StandardError
  <2>2. QED
    BY <1>3, <2>1
<1>5. CASE ~(n < 2)
  <2>1. PICK dv, dw : dv = Deviations(v) /\ dw = Deviations(w) /\ Off(dv, dw, k, 4 * e)
    BY DeviationsOff
  <2>2. PICK a, b \in Nat : a = Median2(dv) /\ b = Median2(dw)
    <3>1. Values(dv) /\ Values(dw)
      BY <2>1 DEF Off
    <3>2. QED
      BY <3>1, MedianNat
  <2>3. k * b <= a + 8 * e /\ a <= k * b + 8 * e
    <3>1. PICK f \in Nat : f = 4 * e
      OBVIOUS
    <3>2. k * b <= a + 2 * f /\ a <= k * b + 2 * f
      BY <2>1, <2>2, <3>1, MedianOff
    <3>3. QED
      BY <3>1, <3>2
  <2>4. n >= 2
    BY <1>5
  <2>5. (64 * n) * (x * x) <= 9 * (a * a) /\ 9 * (a * a) < (64 * n) * ((x + 1) * (x + 1))
    BY <1>1, <1>2, <1>3, <2>1, <2>2, <2>4, ErrorIs
  <2>6. (64 * n) * (y * y) <= 9 * (b * b) /\ 9 * (b * b) < (64 * n) * ((y + 1) * (y + 1))
    BY <1>1, <1>2, <1>3, <2>1, <2>2, <2>4, ErrorIs
  <2>7. \A p, q \in Nat : /\ p <= q => (k * k) * p <= (k * k) * q
                          /\ p < q => (k * k) * p < (k * k) * q
    <3>1. SUFFICES ASSUME NEW p \in Nat, NEW q \in Nat
                   PROVE  /\ p <= q => (k * k) * p <= (k * k) * q
                          /\ p < q => (k * k) * p < (k * k) * q
      OBVIOUS
    <3>2. PICK kk \in Nat : kk = k * k /\ kk >= 1
      <4>1. 1 * 1 <= k * k
        BY TimesCompare
      <4>2. QED
        BY <4>1
    <3>3. p <= q => kk * p <= kk * q
      BY TimesCompare
    <3>4. p < q => kk * p < kk * q
      <4>1. SUFFICES ASSUME p + 1 <= q PROVE kk * p < kk * q
        OBVIOUS
      <4>2. kk * (p + 1) <= kk * q
        BY <4>1, TimesCompare
      <4>3. kk * (p + 1) = kk * p + kk /\ kk * p \in Nat /\ kk * q \in Nat
        OBVIOUS
      <4>4. QED
        BY <3>2, <4>2, <4>3
    <3>5. QED
      BY <3>2, <3>3, <3>4
  <2>8. k * y <= x + 3 * e
    <3>1. PICK kb, ky, u \in Nat : kb = k * b /\ ky = k * y /\ u = x + 1
      OBVIOUS
    <3>2. (64 * n) * (ky * ky) <= 9 * (kb * kb)
      <4>1. PICK p, q \in Nat : p = (64 * n) * (y * y) /\ q = 9 * (b * b)
        OBVIOUS
      <4>2. (k * k) * p <= (k * k) * q
        BY <2>6, <2>7, <4>1
      <4>3. (k * k) * p = (64 * n) * (ky * ky)
        BY <3>1, <4>1
      <4>4. (k * k) * q = 9 * (kb * kb)
        BY <3>1, <4>1
      <4>5. QED
        BY <4>2, <4>3, <4>4
    <3>3. ky < u + 3 * e
      BY <2>3, <2>5, <3>1, <3>2, RootsApart
    <3>4. QED
      BY <3>1, <3>3
  <2>9. x <= k * y + (k - 1) + 3 * e
    <3>1. PICK kb, z, u \in Nat : kb = k * b /\ z = y + 1 /\ u = k * z
      OBVIOUS
    <3>2. 9 * (kb * kb) < (64 * n) * (u * u)
      <4>1. PICK p, q \in Nat : p = (64 * n) * (z * z) /\ q = 9 * (b * b)
        OBVIOUS
      <4>2. (k * k) * q < (k * k) * p
        BY <2>6, <2>7, <3>1, <4>1
      <4>3. (k * k) * p = (64 * n) * (u * u)
        BY <3>1, <4>1
      <4>4. (k * k) * q = 9 * (kb * kb)
        BY <3>1, <4>1
      <4>5. QED
        BY <4>2, <4>3, <4>4
    <3>3. x < u + 3 * e
      BY <2>3, <2>5, <3>1, <3>2, RootsApart
    <3>4. u = k * y + k /\ k * y \in Nat
      BY <3>1
    <3>5. QED
      BY <3>3, <3>4
  <2>10. QED
    BY <1>3, <2>8, <2>9
<1>6. QED
  BY <1>4, <1>5

\* Arithmetic: what is between the least and the greatest stays as near.
LEMMA ClampOff ==
  ASSUME NEW k \in Nat, NEW e \in Nat, NEW l \in Nat, NEW u \in Nat, NEW x \in Nat,
         NEW m \in Nat, NEW v \in Nat, NEW y \in Nat,
         k * m <= l + e, l <= k * m + e, k * v <= u + e, u <= k * v + e,
         k * y <= x + e, x <= k * y + e
  PROVE  /\ Min({u, Max({l, x})}) \in Nat /\ Min({v, Max({m, y})}) \in Nat
         /\ k * Min({v, Max({m, y})}) <= Min({u, Max({l, x})}) + e
         /\ Min({u, Max({l, x})}) <= k * Min({v, Max({m, y})}) + e
<1>1. PICK a \in Nat : a = Max({l, x}) /\ a = IF l <= x THEN x ELSE l
  <2>1. Max({l, x}) = IF l <= x THEN x ELSE l
    <3>1. l \in Int /\ x \in Int
      OBVIOUS
    <3>2. QED
      BY <3>1, MinMax, Zenon
  <2>2. (IF l <= x THEN x ELSE l) \in Nat
    OBVIOUS
  <2>3. QED
    BY <2>1, <2>2, Zenon
<1>2. PICK b \in Nat : b = Max({m, y}) /\ b = IF m <= y THEN y ELSE m
  <2>1. Max({m, y}) = IF m <= y THEN y ELSE m
    BY MinMax
  <2>2. (IF m <= y THEN y ELSE m) \in Nat
    OBVIOUS
  <2>3. QED
    BY <2>1, <2>2, Zenon
<1>3. PICK p \in Nat : p = Min({u, a}) /\ p = IF u <= a THEN u ELSE a
  BY MinMax
<1>4. PICK q \in Nat : q = Min({v, b}) /\ q = IF v <= b THEN v ELSE b
  BY MinMax
<1>5. PICK km, kv, ky, kb, kq \in Nat : km = k * m /\ kv = k * v /\ ky = k * y /\ kb = k * b /\ kq = k * q
  OBVIOUS
<1>6. kb = IF km <= ky THEN ky ELSE km
  <2>1. (m <= y => km <= ky) /\ (y <= m => ky <= km)
    BY <1>5, TimesCompare
  <2>2. QED
    BY <1>2, <1>5, <2>1
<1>7. kq = IF kv <= kb THEN kv ELSE kb
  <2>1. (v <= b => kv <= kb) /\ (b <= v => kb <= kv)
    BY <1>5, TimesCompare
  <2>2. QED
    BY <1>4, <1>5, <2>1
<1>8. km <= l + e /\ l <= km + e /\ kv <= u + e /\ u <= kv + e /\ ky <= x + e /\ x <= ky + e
  BY <1>5
<1>9. kb <= a + e /\ a <= kb + e
  BY <1>1, <1>6, <1>8
<1>10. kq <= p + e /\ p <= kq + e
  BY <1>3, <1>7, <1>8, <1>9
<1>11. QED
  BY <1>1, <1>2, <1>3, <1>4, <1>5, <1>10

\* Arithmetic: means that are rounded down.
LEMMA QuotientOff ==
  ASSUME NEW k \in Nat \ {0}, NEW e \in Nat, NEW n \in Nat \ {0}, NEW a \in Nat, NEW b \in Nat,
         k * b <= a + e * n, a <= k * b + e * n
  PROVE  /\ a \div n \in Nat /\ b \div n \in Nat
         /\ k * (b \div n) <= (a \div n) + e
         /\ a \div n <= k * (b \div n) + (k - 1) + e
<1>1. PICK p, r \in Nat : p = a \div n /\ a = n * p + r /\ r < n
  <2>1. a \div n \in Nat /\ a % n \in Nat /\ a = n * (a \div n) + (a % n) /\ a % n < n
    OBVIOUS
  <2>2. QED
    BY <2>1
<1>2. PICK q, s \in Nat : q = b \div n /\ b = n * q + s /\ s < n
  <2>1. b \div n \in Nat /\ b % n \in Nat /\ b = n * (b \div n) + (b % n) /\ b % n < n
    OBVIOUS
  <2>2. QED
    BY <2>1
<1>3. k * q <= p + e
  <2>1. SUFFICES ASSUME p + e + 1 <= k * q PROVE FALSE
    OBVIOUS
  <2>2. n * (p + e + 1) <= n * (k * q)
    BY <2>1, TimesCompare
  <2>3. n * (p + e + 1) = n * p + e * n + n /\ n * p \in Nat /\ e * n \in Nat
    OBVIOUS
  <2>4. k * b = n * (k * q) + k * s /\ k * s \in Nat /\ n * (k * q) \in Nat
    BY <1>2
  <2>5. QED
    BY <1>1, <2>2, <2>3, <2>4
<1>4. p <= k * q + (k - 1) + e
  <2>1. SUFFICES ASSUME k * q + k + e <= p PROVE FALSE
    OBVIOUS
  <2>2. n * (k * q + k + e) <= n * p
    BY <2>1, TimesCompare
  <2>3. n * (k * q + k + e) = k * (n * q) + k * n + e * n
    <3>1. PICK kq \in Nat : kq = k * q
      OBVIOUS
    <3>2. n * (kq + k + e) = n * kq + n * k + n * e
      OBVIOUS
    <3>3. n * kq = k * (n * q) /\ n * k = k * n /\ n * e = e * n
      BY <3>1
    <3>4. n * (kq + k + e) = k * (n * q) + k * n + e * n
      BY <3>2, <3>3, Zenon
    <3>5. QED
      BY <3>1, <3>4, Zenon
  <2>4. k * b = k * (n * q) + k * s
    <3>1. PICK nq \in Nat : nq = n * q /\ b = nq + s
      BY <1>2
    <3>2. k * (nq + s) = k * nq + k * s
      OBVIOUS
    <3>3. QED
      BY <3>1, <3>2, Zenon
  <2>5. k * s + 1 <= k * n
    <3>1. k * (s + 1) <= k * n
      BY <1>2, TimesCompare
    <3>2. k * (s + 1) = k * s + k /\ k * s \in Nat /\ k * n \in Nat
      OBVIOUS
    <3>3. QED
      BY <3>1, <3>2
  <2>6. k * (n * q) \in Nat /\ k * s \in Nat /\ k * n \in Nat /\ e * n \in Nat /\ n * p \in Nat
    OBVIOUS
  <2>7. QED
    BY <1>1, <2>2, <2>3, <2>4, <2>5, <2>6
<1>5. QED
  BY <1>1, <1>2, <1>3, <1>4

\* The winsorized mean.
LEMMA MeanOff ==
  ASSUME NEW k \in Nat \ {0}, NEW e \in Nat, NEW v, NEW w, Off(v, w, k, e)
  PROVE  /\ k * WinsorizedMean(w) <= WinsorizedMean(v) + e
         /\ WinsorizedMean(v) <= k * WinsorizedMean(w) + (k - 1) + e
<1>1. Values(v) /\ Values(w) /\ DOMAIN v = DOMAIN w
  BY DEF Off
<1>2. PICK n \in Nat \ {0} : n = Cardinality(DOMAIN v) /\ n = Cardinality(DOMAIN w)
  BY <1>1, ValueCount
<1>3. PICK q \in Nat : q = n \div WinsorShare
  <2>1. WinsorShare \in Nat /\ WinsorShare >= 2
    BY AggregationAssumption
  <2>2. QED
    BY <2>1, Quotient
<1>4. PICK h \in Nat : h = (n - 1) \div 2
  OBVIOUS
<1>5. PICK t \in Nat : t = Min({q, h}) /\ t <= h
  BY MinMax
<1>6. 1 + t \in 1 .. n /\ n - t \in 1 .. n
  BY <1>4, <1>5
<1>7. PICK l, u \in Nat : l = Sorted(v)[1 + t] /\ u = Sorted(v)[n - t]
  BY <1>1, <1>2, <1>6, SortedFacts
<1>8. PICK lw, uw \in Nat : lw = Sorted(w)[1 + t] /\ uw = Sorted(w)[n - t]
  BY <1>1, <1>2, <1>6, SortedFacts
<1>9. k * lw <= l + e /\ l <= k * lw + e /\ k * uw <= u + e /\ u <= k * uw + e
  BY <1>2, <1>6, <1>7, <1>8, SortedOff
<1>10. PICK bv : bv = [x \in DOMAIN v |-> Min({u, Max({l, v[x]})})]
  OBVIOUS
<1>11. PICK bw : bw = [x \in DOMAIN w |-> Min({uw, Max({lw, w[x]})})]
  OBVIOUS
<1>12. PICK D : D = DOMAIN v /\ D = DOMAIN w /\ IsFiniteSet(D) /\ \A x \in D : v[x] \in Nat /\ w[x] \in Nat
  BY <1>1 DEF Values
<1>13. ASSUME NEW x \in D
       PROVE  bv[x] \in Nat /\ bw[x] \in Nat /\ k * bw[x] <= 1 * bv[x] + e /\ 1 * bv[x] <= k * bw[x] + e
  <2>1. PICK y, z \in Nat : y = v[x] /\ z = w[x] /\ k * z <= y + e /\ y <= k * z + e
    BY <1>12 DEF Off
  <2>2. PICK a, b \in Nat : /\ a = Min({u, Max({l, y})}) /\ b = Min({uw, Max({lw, z})})
                            /\ k * b <= a + e /\ a <= k * b + e
    <3>1. /\ Min({u, Max({l, y})}) \in Nat /\ Min({uw, Max({lw, z})}) \in Nat
          /\ k * Min({uw, Max({lw, z})}) <= Min({u, Max({l, y})}) + e
          /\ Min({u, Max({l, y})}) <= k * Min({uw, Max({lw, z})}) + e
      <4>1. /\ k * lw <= l + e /\ l <= k * lw + e /\ k * uw <= u + e /\ u <= k * uw + e
            /\ k * z <= y + e /\ y <= k * z + e /\ k \in Nat
        BY <1>9, <2>1
      <4>2. QED
        BY <4>1, ClampOff, Zenon
    <3>2. QED
      BY <3>1, Zenon
  <2>3. bv[x] = a /\ bw[x] = b
    BY <1>10, <1>11, <1>12, <2>1, <2>2
  <2>4. QED
    BY <2>2, <2>3
<1>14. PICK a, b \in Nat : a = SumOver(bv, D) /\ b = SumOver(bw, D)
  BY <1>12, <1>13, SumStep
<1>15. k * b <= 1 * a + e * n
  <2>1. k * SumOver(bw, D) <= 1 * SumOver(bv, D) + e * Cardinality(D)
    BY <1>12, <1>13, SumCompare
  <2>2. QED
    BY <1>2, <1>12, <1>14, <2>1
<1>16. 1 * a <= k * b + e * n
  <2>1. 1 * SumOver(bv, D) <= k * SumOver(bw, D) + e * Cardinality(D)
    BY <1>12, <1>13, SumCompare
  <2>2. QED
    BY <1>2, <1>12, <1>14, <2>1
<1>17. k * b <= a + e * n /\ a <= k * b + e * n
  BY <1>15, <1>16
<1>18. WinsorizedMean(v) = a \div n
  BY <1>2, <1>3, <1>4, <1>5, <1>7, <1>10, <1>12, <1>14 DEF WinsorizedMean
<1>19. WinsorizedMean(w) = b \div n
  BY <1>2, <1>3, <1>4, <1>5, <1>8, <1>11, <1>12, <1>14 DEF WinsorizedMean
<1>20. QED
  <2>1. k * (b \div n) <= (a \div n) + e /\ a \div n <= k * (b \div n) + (k - 1) + e
    BY <1>17, QuotientOff
  <2>2. QED
    BY <1>18, <1>19, <2>1, Zenon

\* The lower confidence bound.
LEMMA BoundOff ==
  ASSUME NEW k \in Nat \ {0}, NEW e \in Nat, NEW v, NEW w, Off(v, w, k, e),
         NEW s \in Nat, s = (k - 1) + e + ConfidenceZ * (k - 1 + 3 * e)
  PROVE  k * LowerBound(w) <= LowerBound(v) + s /\ LowerBound(v) <= k * LowerBound(w) + s
<1>1. Values(v) /\ Values(w)
  BY DEF Off
<1>2. PICK a, b, x, y, z \in Nat : /\ a = WinsorizedMean(v) /\ b = WinsorizedMean(w)
                                   /\ x = StandardError(v) /\ y = StandardError(w) /\ z = ConfidenceZ
  <2>1. WinsorizedMean(v) \in Nat /\ WinsorizedMean(w) \in Nat
    BY <1>1, MeanFacts
  <2>2. StandardError(v) \in Nat /\ StandardError(w) \in Nat
    BY <1>1, ErrorNat
  <2>3. ConfidenceZ \in Nat
    BY AggregationAssumption
  <2>4. QED
    BY <2>1, <2>2, <2>3
<1>3. PICK d \in Nat : d = k - 1
  OBVIOUS
<1>4. PICK kb, ky \in Nat : kb = k * b /\ ky = k * y
  OBVIOUS
<1>5. kb <= a + e /\ a <= kb + d + e
  BY <1>2, <1>3, <1>4, MeanOff
<1>6. ky <= x + 3 * e /\ x <= ky + d + 3 * e
  BY <1>2, <1>3, <1>4, ErrorOff
<1>7. PICK zx, zy, zky, zd, ze \in Nat : zx = z * x /\ zy = z * y /\ zky = z * ky /\ zd = z * d /\ ze = z * e
  OBVIOUS
<1>8. zky <= zx + 3 * ze /\ zx <= zky + zd + 3 * ze
  <2>1. z * ky <= z * (x + 3 * e) /\ z * x <= z * (ky + d + 3 * e)
    BY <1>6, TimesCompare
  <2>2. z * (x + 3 * e) = zx + 3 * ze /\ z * (ky + d + 3 * e) = zky + zd + 3 * ze
    BY <1>7
  <2>3. QED
    BY <1>7, <2>1, <2>2
<1>9. s = d + e + zd + 3 * ze
  BY <1>2, <1>3, <1>7
<1>10. PICK p \in Nat : p = LowerBound(v) /\ p = IF 0 <= a - zx THEN a - zx ELSE 0
  <2>1. 0 \in Int /\ a - zx \in Int
    OBVIOUS
  <2>2. Max({0, a - zx}) = IF 0 <= a - zx THEN a - zx ELSE 0
    BY <2>1, MinMax
  <2>3. LowerBound(v) = Max({0, a - zx})
    BY <1>2, <1>7 DEF LowerBound
  <2>4. (IF 0 <= a - zx THEN a - zx ELSE 0) \in Nat
    OBVIOUS
  <2>5. QED
    BY <2>2, <2>3, <2>4, Zenon
<1>11. PICK q \in Nat : q = LowerBound(w) /\ q = IF 0 <= b - zy THEN b - zy ELSE 0
  <2>1. 0 \in Int /\ b - zy \in Int
    OBVIOUS
  <2>2. Max({0, b - zy}) = IF 0 <= b - zy THEN b - zy ELSE 0
    BY <2>1, MinMax
  <2>3. LowerBound(w) = Max({0, b - zy})
    BY <1>2, <1>7 DEF LowerBound
  <2>4. (IF 0 <= b - zy THEN b - zy ELSE 0) \in Nat
    OBVIOUS
  <2>5. QED
    BY <2>2, <2>3, <2>4, Zenon
<1>12. PICK kq \in Nat : kq = k * q /\ kq = IF 0 <= kb - zky THEN kb - zky ELSE 0
  <2>1. k * (b - zy) = kb - zky
    BY <1>4, <1>7
  <2>2. CASE 0 <= b - zy
    <3>1. 0 <= kb - zky
      <4>1. k * zy <= k * b
        BY <2>2, TimesCompare
      <4>2. k * zy = zky
        BY <1>4, <1>7
      <4>3. QED
        BY <1>4, <4>1, <4>2
    <3>2. k * q = kb - zky
      BY <1>11, <2>1, <2>2
    <3>3. QED
      BY <3>1, <3>2
  <2>3. CASE ~(0 <= b - zy)
    <3>1. kb - zky <= 0
      <4>1. k * b <= k * zy
        BY <2>3, TimesCompare
      <4>2. k * zy = zky
        BY <1>4, <1>7
      <4>3. QED
        BY <1>4, <4>1, <4>2
    <3>2. k * q = 0
      BY <1>11, <2>3
    <3>3. QED
      BY <3>1, <3>2
  <2>4. QED
    BY <2>2, <2>3
<1>13. kq <= p + s /\ p <= kq + s
  <2>1. zky \in Nat /\ kb \in Nat
    OBVIOUS
  <2>2. QED
    BY <1>5, <1>8, <1>9, <1>10, <1>12
<1>14. QED
  BY <1>10, <1>11, <1>12, <1>13

\* What rounding the parts of k copies does to the score of a family.
LEMMA FamilyOff ==
  ASSUME NEW k \in Nat \ {0}, NEW v, NEW w, Off(v, w, k, k - 1)
  PROVE  /\ FamilyRounding(k) \in Nat
         /\ k * LowerBound(w) <= LowerBound(v) + FamilyRounding(k)
         /\ LowerBound(v) <= k * LowerBound(w) + FamilyRounding(k)
<1>1. PICK d, z \in Nat : d = k - 1 /\ z = ConfidenceZ
  BY AggregationAssumption
<1>2. PICK s \in Nat : s = d + d + z * (d + 3 * d)
  OBVIOUS
<1>3. s = (4 * z + 2) * d
  <2>1. PICK zd \in Nat : zd = z * d
    OBVIOUS
  <2>2. z * (d + 3 * d) = 4 * zd
    BY <2>1
  <2>3. (4 * z + 2) * d = 4 * zd + 2 * d
    BY <2>1
  <2>4. QED
    BY <1>2, <2>2, <2>3
<1>4. FamilyRounding(k) = s
  BY <1>1, <1>3 DEF FamilyRounding
<1>5. k * LowerBound(w) <= LowerBound(v) + s /\ LowerBound(v) <= k * LowerBound(w) + s
  BY <1>1, <1>2, BoundOff
<1>6. QED
  BY <1>4, <1>5

-----------------------------------------------------------------------------
(* The geometric mean of values that are nearly a multiple of others.      *)

\* One factor more.
LEMMA PowerStep ==
  ASSUME NEW k \in Nat, NEW n \in Nat
  PROVE  Power(k, n + 1) = k * Power(k, n)
<1>1. PICK D, E : D = 1 .. n + 1 /\ E = 1 .. n
  OBVIOUS
<1>2. IsFiniteSet(D) /\ IsFiniteSet(E)
  <2>1. IsFiniteSet(1 .. n + 1) /\ IsFiniteSet(1 .. n)
    BY FS_Interval
  <2>2. QED
    BY <1>1, <2>1
<1>3. PICK f, g : f = [i \in D |-> k] /\ g = [i \in E |-> k]
  OBVIOUS
<1>4. DOMAIN f = D /\ DOMAIN g = E /\ (\A i \in D : f[i] = k) /\ (\A i \in E : f[i] = g[i])
  <2>1. E \in SUBSET D
    BY <1>1
  <2>2. QED
    BY <1>3, <2>1
<1>5. PICK p : IsFold(p, "product", f, D)
  BY <1>2, FoldExists
<1>6. PICK q : IsFold(q, "product", g, E)
  BY <1>2, FoldExists
<1>7. Product(f) = p[D] /\ Product(g) = q[E]
  BY <1>2, <1>4, <1>5, <1>6, ProductIs
<1>8. Multiplies(p, f, D)
  BY <1>2, <1>4, <1>5, ProductStep
<1>9. n + 1 \in D /\ D \ {n + 1} = E /\ D \in SUBSET D /\ E \in SUBSET D /\ E \in SUBSET E
  BY <1>1
<1>10. p[D] = k * p[E]
  <2>1. p[D] = f[n + 1] * p[D \ {n + 1}]
    BY <1>8, <1>9 DEF Multiplies
  <2>2. QED
    BY <1>4, <1>9, <2>1
<1>11. \A s \in SUBSET E : p[s] = q[s]
  BY <1>2, <1>4, <1>5, <1>6, <1>9, FoldsAgree
<1>12. p[E] = q[E]
  BY <1>9, <1>11
<1>13. Power(k, n + 1) = Product(f) /\ Power(k, n) = Product(g)
  BY <1>1, <1>3 DEF Power
<1>14. QED
  BY <1>7, <1>10, <1>12, <1>13

\* A product of one factor is its power.
LEMMA ProductConstant ==
  ASSUME NEW k \in Nat, NEW f, IsFiniteSet(DOMAIN f), \A x \in DOMAIN f : f[x] = k
  PROVE  Product(f) = Power(k, Cardinality(DOMAIN f))
<1>1. PICK D : D = DOMAIN f
  OBVIOUS
<1>2. PICK i : IsFold(i, "product", f, D)
  BY <1>1, FoldExists
<1>3. Product(f) = i[D]
  BY <1>1, <1>2, ProductIs
<1>4. Multiplies(i, f, D)
  BY <1>1, <1>2, ProductStep
<1>5. \A T \in SUBSET D : IsFiniteSet(T) /\ Cardinality(T) \in Nat
  BY <1>1, FS_Subset, FS_CardinalityType
<1> DEFINE good == {T \in SUBSET D : i[T] = Power(k, Cardinality(T))}
<1>6. ASSUME NEW T \in SUBSET D, \A R \in SUBSET T : R # T => R \in good
      PROVE  T \in good
  <2>1. CASE T = {}
    <3>1. i[T] = 1 /\ Cardinality(T) = 0
      BY <1>4, <2>1, FS_EmptySet DEF Multiplies
    <3>2. Power(k, 0) = 1
      <4>1. PICK g : g = [j \in {} |-> k]
        OBVIOUS
      <4>2. PICK E : E = {}
        OBVIOUS
      <4>3. IsFiniteSet(E) /\ DOMAIN g = E /\ \A j \in E : g[j] \in Nat
        BY <4>1, <4>2, FS_EmptySet
      <4>4. PICK q : IsFold(q, "product", g, E)
        BY <4>3, FoldExists
      <4>5. Product(g) = q[E]
        BY <4>3, <4>4, ProductIs
      <4>6. Multiplies(q, g, E)
        BY <4>3, <4>4, ProductStep
      <4>7. q[E] = 1
        BY <4>2, <4>6 DEF Multiplies
      <4>8. 1 .. 0 = {}
        OBVIOUS
      <4>9. Power(k, 0) = Product(g)
        BY <4>1, <4>8 DEF Power
      <4>10. QED
        BY <4>5, <4>7, <4>9
    <3>3. QED
      BY <3>1, <3>2
  <2>2. CASE T # {}
    <3>1. PICK x \in T : TRUE
      BY <2>2
    <3>2. PICK R : R = T \ {x} /\ R \in SUBSET T /\ R # T
      <4>1. x \notin T \ {x} /\ T \ {x} \in SUBSET T
        OBVIOUS
      <4>2. T \ {x} # T
        BY <3>1, <4>1, Zenon
      <4>3. QED
        BY <4>1, <4>2, Zenon
    <3>3. i[R] = Power(k, Cardinality(R))
      BY <1>6, <3>2
    <3>4. i[T] = k * i[R]
      <4>1. i[T] = f[x] * i[T \ {x}]
        BY <1>4 DEF Multiplies
      <4>2. QED
        BY <1>1, <3>2, <4>1
    <3>5. PICK c \in Nat : c = Cardinality(R) /\ Cardinality(T) = c + 1
      <4>1. IsFiniteSet(T) /\ Cardinality(R) = Cardinality(T) - 1
        BY <1>5, <3>1, <3>2, FS_RemoveElement
      <4>2. Cardinality(R) \in Nat /\ Cardinality(T) \in Nat
        BY <1>5, <3>2
      <4>3. QED
        BY <4>1, <4>2
    <3>6. Power(k, c + 1) = k * Power(k, c)
      BY PowerStep
    <3>7. QED
      BY <3>3, <3>4, <3>5, <3>6
  <2>3. QED
    BY <2>1, <2>2
<1>7. good = SUBSET D
  <2> HIDE DEF good
  <2>1. good \in SUBSET SUBSET D
    BY DEF good
  <2>2. QED
    BY <1>1, <1>6, <2>1, SubsetInduction
<1>8. D \in good
  <2> HIDE DEF good
  <2>1. QED
    BY <1>7
<1>9. QED
  BY <1>1, <1>3, <1>8

\* The geometric mean is a multiple of that of the others as the values are.
LEMMA GeometricOff ==
  ASSUME NEW k \in Nat \ {0}, NEW w, Values(w), NEW n \in Nat \ {0}, n = Cardinality(DOMAIN w),
         NEW hi, NEW lo, DOMAIN hi = DOMAIN w, DOMAIN lo = DOMAIN w,
         \A x \in DOMAIN w : /\ hi[x] \in Nat /\ lo[x] \in Nat
                             /\ k * w[x] <= hi[x] /\ lo[x] <= k * w[x]
  PROVE  /\ k * Root(n, Product(w)) <= Root(n, Product(hi))
         /\ Root(n, Product(lo)) <= k * Root(n, Product(w)) + (k - 1)
<1>1. PICK D : D = DOMAIN w /\ IsFiniteSet(D) /\ \A x \in D : w[x] \in Nat
  BY DEF Values
<1>2. PICK c, m : c = [x \in D |-> k] /\ m = [x \in D |-> c[x] * w[x]]
  OBVIOUS
<1>3. /\ DOMAIN c = D /\ DOMAIN m = D
      /\ \A x \in D : c[x] = k /\ c[x] \in Nat /\ m[x] = c[x] * w[x] /\ m[x] = k * w[x] /\ m[x] \in Nat
  BY <1>1, <1>2
<1>4. PICK p, ph, pl, pm, pc \in Nat : /\ p = Product(w) /\ ph = Product(hi) /\ pl = Product(lo)
                                       /\ pm = Product(m) /\ pc = Product(c)
  <2>1. Product(w) \in Nat
    BY <1>1, ProductNat
  <2>2. Product(hi) \in Nat
    BY <1>1, ProductNat
  <2>3. Product(lo) \in Nat
    BY <1>1, ProductNat
  <2>4. Product(m) \in Nat
    BY <1>1, <1>3, ProductNat
  <2>5. Product(c) \in Nat
    BY <1>1, <1>3, ProductNat
  <2>6. QED
    BY <2>1, <2>2, <2>3, <2>4, <2>5
<1>5. pm <= ph
  BY <1>1, <1>3, <1>4, ProductMonotone
<1>6. pl <= pm
  BY <1>1, <1>3, <1>4, ProductMonotone
<1>7. pm = pc * p
  BY <1>1, <1>3, <1>4, ProductTimes
<1>8. pc = Power(k, n)
  BY <1>1, <1>3, <1>4, ProductConstant
<1>9. pc >= 1
  <2>1. k \in Nat /\ n \in Nat /\ n > 0 /\ k > 0
    OBVIOUS
  <2>2. k <= Power(k, n)
    BY <2>1, PowerFacts
  <2>3. QED
    BY <1>8, <2>1, <2>2
<1>10. PICK g, gh, gl \in Nat : g = Root(n, p) /\ gh = Root(n, ph) /\ gl = Root(n, pl)
  <2>1. Root(n, p) \in Nat /\ Root(n, ph) \in Nat /\ Root(n, pl) \in Nat
    BY RootFacts
  <2>2. QED
    BY <2>1
<1>11. k * g <= gh
  <2>1. PICK x, y \in Nat : x = Power(g, n) /\ x <= p /\ y = Power(k * g, n) /\ y = pc * x
    <3>1. Power(g, n) \in Nat /\ Power(k * g, n) = Power(k, n) * Power(g, n)
      BY PowerFacts
    <3>2. Power(g, n) <= p
      BY <1>10, RootFacts
    <3>3. pc * Power(g, n) \in Nat
      BY <3>1
    <3>4. QED
      BY <1>8, <3>1, <3>2, <3>3
  <2>2. pc * x <= pc * p
    BY <2>1, TimesCompare
  <2>3. y <= ph
    <3>1. pc * x \in Nat /\ pc * p \in Nat
      OBVIOUS
    <3>2. QED
      BY <1>5, <1>7, <2>1, <2>2, <3>1
  <2>4. k * g \in Nat
    OBVIOUS
  <2>5. \A r \in Nat : Power(r, n) <= ph => r <= Root(n, ph)
    BY RootFacts
  <2>6. QED
    BY <1>10, <2>1, <2>3, <2>4, <2>5
<1>12. gl <= k * g + (k - 1)
  <2>1. SUFFICES ASSUME k * (g + 1) <= gl PROVE FALSE
    <3>1. k * (g + 1) = k * g + k /\ k * g \in Nat
      OBVIOUS
    <3>2. QED
      BY <3>1
  <2>2. PICK x, y, z \in Nat : /\ x = Power(g + 1, n) /\ y = Power(k * (g + 1), n) /\ y = pc * x
                               /\ z = Power(gl, n) /\ y <= z /\ z <= pl
    <3>1. PICK h \in Nat : h = g + 1
      OBVIOUS
    <3>2. Power(h, n) \in Nat /\ Power(k * h, n) = Power(k, n) * Power(h, n)
      BY PowerFacts
    <3>3. PICK kh \in Nat : kh = k * h /\ kh <= gl
      BY <2>1, <3>1
    <3>4. Power(kh, n) \in Nat /\ Power(gl, n) \in Nat /\ Power(kh, n) <= Power(gl, n)
      BY <3>3, PowerFacts
    <3>5. Power(gl, n) <= pl
      BY <1>10, RootFacts
    <3>6. QED
      BY <1>8, <3>1, <3>2, <3>3, <3>4, <3>5
  <2>3. pc * x <= pc * p
    BY <1>6, <1>7, <2>2
  <2>4. x <= p
    <3>1. SUFFICES ASSUME p + 1 <= x PROVE FALSE
      OBVIOUS
    <3>2. pc * (p + 1) <= pc * x
      BY <3>1, TimesCompare
    <3>3. pc * (p + 1) = pc * p + pc /\ pc * p \in Nat /\ pc * x \in Nat
      OBVIOUS
    <3>4. QED
      BY <1>9, <2>3, <3>2, <3>3
  <2>5. g + 1 <= g
    <3>1. \A r \in Nat : Power(r, n) <= p => r <= Root(n, p)
      BY RootFacts
    <3>2. g + 1 \in Nat
      OBVIOUS
    <3>3. QED
      BY <1>10, <2>2, <2>4, <3>1, <3>2
  <2>6. QED
    BY <2>5
<1>13. QED
  BY <1>4, <1>10, <1>11, <1>12

-----------------------------------------------------------------------------
(* What a portfolio of observations is worth.                              *)

\* The score of a miner from those of the families, and what it is when each
\* of these may be off by e and the whole by s.
RobustFrom(w) ==
  Max({0, Root(Cardinality(Families), Product(w)) - ConfidenceZ * StandardError(w)})

RobustNear(v, e, s) ==
  Max({0, (Root(Cardinality(Families), Product([f \in Families |-> Max({0, v[f] + e})]))
             - ConfidenceZ * StandardError(v)) + s})

\* The score of a miner whose families' scores are a part of those of another
\* is that part of what the other's score is near to.
LEMMA RobustOff ==
  ASSUME NEW k \in Nat \ {0}, NEW b \in Nat, NEW v, NEW w, Off(v, w, k, b), DOMAIN v = Families,
         NEW s \in Nat, s = (ConfidenceZ + 1) * (k - 1) + 3 * ConfidenceZ * b
  PROVE  /\ RobustFrom(w) \in Nat /\ RobustNear(v, -b, -s) \in Nat /\ RobustNear(v, b, s) \in Nat
         /\ RobustNear(v, -b, -s) <= k * RobustFrom(w)
         /\ k * RobustFrom(w) <= RobustNear(v, b, s)
<1>1. PICK n \in Nat \ {0} : n = Cardinality(Families)
  <2>1. IsFiniteSet(Families) /\ Families # {}
    BY AggregationAssumption
  <2>2. QED
    BY <2>1, FS_CardinalityType, FS_EmptySet
<1>2. PICK hi : hi = [f \in Families |-> Max({0, v[f] + b})]
  OBVIOUS
<1>3. PICK lo : lo = [f \in Families |-> Max({0, v[f] + (-b)})]
  OBVIOUS
<1>4. Values(v) /\ Values(w) /\ DOMAIN w = Families /\ IsFiniteSet(Families)
  BY AggregationAssumption DEF Off
<1>5. ASSUME NEW f \in Families
      PROVE  /\ hi[f] \in Nat /\ lo[f] \in Nat
             /\ k * w[f] <= hi[f] /\ lo[f] <= k * w[f]
  <2>1. PICK x, y \in Nat : x = v[f] /\ y = w[f] /\ k * y <= x + b /\ x <= k * y + b
    BY <1>4 DEF Off, Values
  <2>2. Max({0, x + b}) = x + b
    <3>1. 0 \in Int /\ x + b \in Int /\ 0 <= x + b
      OBVIOUS
    <3>2. QED
      BY <3>1, MinMax
  <2>3. Max({0, x + (-b)}) = IF 0 <= x + (-b) THEN x + (-b) ELSE 0
    <3>1. 0 \in Int /\ x + (-b) \in Int
      OBVIOUS
    <3>2. QED
      BY <3>1, MinMax
  <2>4. PICK l \in Nat : l = (IF 0 <= x + (-b) THEN x + (-b) ELSE 0)
    <3>1. (IF 0 <= x + (-b) THEN x + (-b) ELSE 0) \in Nat
      OBVIOUS
    <3>2. QED
      BY <3>1
  <2>5. hi[f] = x + b /\ lo[f] = l
    BY <1>2, <1>3, <2>1, <2>2, <2>3, <2>4
  <2>6. PICK ky \in Nat : ky = k * y
    OBVIOUS
  <2>7. l <= ky
    BY <2>1, <2>4, <2>6
  <2>8. QED
    BY <2>1, <2>5, <2>6, <2>7
<1>6. DOMAIN hi = Families /\ DOMAIN lo = Families
  BY <1>2, <1>3
<1>7. PICK ph, pl, pw \in Nat : ph = Product(hi) /\ pl = Product(lo) /\ pw = Product(w)
  <2>1. Product(hi) \in Nat
    BY <1>4, <1>5, <1>6, ProductNat
  <2>2. Product(lo) \in Nat
    BY <1>4, <1>5, <1>6, ProductNat
  <2>3. Product(w) \in Nat
    BY <1>4, ProductNat DEF Values
  <2>4. QED
    BY <2>1, <2>2, <2>3
<1>8. PICK g, gh, gl \in Nat : g = Root(n, pw) /\ gh = Root(n, ph) /\ gl = Root(n, pl)
  <2>1. Root(n, pw) \in Nat /\ Root(n, ph) \in Nat /\ Root(n, pl) \in Nat
    <3>1. n \in Nat /\ n > 0
      OBVIOUS
    <3>2. QED
      BY <3>1, RootFacts, Zenon
  <2>2. QED
    BY <2>1
<1>9. k * g <= gh /\ gl <= k * g + (k - 1)
  <2>1. k * Root(n, Product(w)) <= Root(n, Product(hi))
    BY <1>4, <1>5, <1>6, <1>1, GeometricOff
  <2>2. Root(n, Product(lo)) <= k * Root(n, Product(w)) + (k - 1)
    BY <1>4, <1>5, <1>6, <1>1, GeometricOff
  <2>3. QED
    BY <1>7, <1>8, <2>1, <2>2
<1>10. PICK x, y, z, d \in Nat : x = StandardError(v) /\ y = StandardError(w) /\ z = ConfidenceZ /\ d = k - 1
  <2>1. StandardError(v) \in Nat /\ StandardError(w) \in Nat
    BY <1>4, ErrorNat
  <2>2. ConfidenceZ \in Nat /\ k - 1 \in Nat
    BY AggregationAssumption
  <2>3. QED
    BY <2>1, <2>2
<1>11. k * y <= x + 3 * b /\ x <= k * y + d + 3 * b
  BY <1>10, ErrorOff
<1>12. PICK kg, ky, zx, zy, zky, zd, zb \in Nat :
         /\ kg = k * g /\ ky = k * y /\ zx = z * x /\ zy = z * y /\ zky = z * ky /\ zd = z * d /\ zb = z * b
  OBVIOUS
<1>13. zky <= zx + 3 * zb /\ zx <= zky + zd + 3 * zb
  <2>1. z * ky <= z * (x + 3 * b) /\ z * x <= z * (ky + d + 3 * b)
    BY <1>11, <1>12, TimesCompare
  <2>2. z * (x + 3 * b) = zx + 3 * zb /\ z * (ky + d + 3 * b) = zky + zd + 3 * zb
    BY <1>12
  <2>3. QED
    BY <1>12, <2>1, <2>2
<1>14. s = zd + d + 3 * zb
  BY <1>10, <1>12
<1>15. ASSUME NEW j \in Int
       PROVE  Max({0, j}) = (IF 0 <= j THEN j ELSE 0) /\ (IF 0 <= j THEN j ELSE 0) \in Nat
  <2>1. Max({0, j}) = (IF 0 <= j THEN j ELSE 0)
    <3>1. 0 \in Int
      OBVIOUS
    <3>2. QED
      BY <3>1, MinMax, Zenon
  <2>2. (IF 0 <= j THEN j ELSE 0) \in Nat
    OBVIOUS
  <2>3. QED
    BY <2>1, <2>2, Zenon
<1>16. PICK r \in Nat : r = Max({0, g - zy}) /\ r = IF 0 <= g - zy THEN g - zy ELSE 0
  BY <1>15
<1>17. PICK p \in Nat : p = Max({0, (gl - zx) + (-s)})
                        /\ p = IF 0 <= (gl - zx) + (-s) THEN (gl - zx) + (-s) ELSE 0
  BY <1>15
<1>18. PICK q \in Nat : q = Max({0, (gh - zx) + s}) /\ q = IF 0 <= (gh - zx) + s THEN (gh - zx) + s ELSE 0
  BY <1>15
<1>19. PICK kr \in Nat : kr = k * r /\ kr = IF 0 <= kg - zky THEN kg - zky ELSE 0
  <2>1. k * (g - zy) = kg - zky
    BY <1>12
  <2>2. k * zy = zky
    BY <1>12
  <2>3. CASE 0 <= g - zy
    <3>1. 0 <= kg - zky
      <4>1. k * zy <= k * g
        BY <2>3, TimesCompare
      <4>2. QED
        BY <1>12, <2>2, <4>1
    <3>2. k * r = kg - zky
      BY <1>16, <2>1, <2>3
    <3>3. QED
      BY <3>1, <3>2
  <2>4. CASE ~(0 <= g - zy)
    <3>1. kg - zky <= 0
      <4>1. k * g <= k * zy
        BY <2>4, TimesCompare
      <4>2. QED
        BY <1>12, <2>2, <4>1
    <3>2. k * r = 0
      BY <1>16, <2>4
    <3>3. QED
      BY <3>1, <3>2
  <2>5. QED
    BY <2>3, <2>4
<1>20. kr <= q
  <2>1. kg <= gh
    BY <1>9, <1>12
  <2>2. kr = IF 0 <= kg - zky THEN kg - zky ELSE 0
    BY <1>19
  <2>3. q = IF 0 <= (gh - zx) + s THEN (gh - zx) + s ELSE 0
    BY <1>18
  <2>4. QED
    BY <1>13, <1>14, <2>1, <2>2, <2>3
<1>21. p <= kr
  <2>1. gl <= kg + d
    BY <1>9, <1>10, <1>12
  <2>2. kr = IF 0 <= kg - zky THEN kg - zky ELSE 0
    BY <1>19
  <2>3. p = IF 0 <= (gl - zx) + (-s) THEN (gl - zx) + (-s) ELSE 0
    BY <1>17
  <2>4. QED
    BY <1>13, <1>14, <2>1, <2>2, <2>3
<1>22. RobustFrom(w) = r
  BY <1>7, <1>8, <1>10, <1>12, <1>16, <1>1, Zenon DEF RobustFrom
<1>23. RobustNear(v, -b, -s) = p
  BY <1>7, <1>8, <1>10, <1>12, <1>17, <1>1, <1>3, Zenon DEF RobustNear
<1>24. RobustNear(v, b, s) = q
  BY <1>7, <1>8, <1>10, <1>12, <1>18, <1>1, <1>2, Zenon DEF RobustNear
<1>25. p <= k * r /\ k * r <= q
  BY <1>19, <1>20, <1>21
<1>26. QED
  BY <1>22, <1>23, <1>24, <1>25

\* If every reward of a portfolio is a k-th of another's, so are its scores.
LEMMA ScoresOff ==
  ASSUME NEW k \in Nat \ {0}, NEW mine, NEW copy,
         \A t \in DOMAIN Schedule :
           /\ GatedReward(mine, t) \in Nat /\ GatedReward(copy, t) \in Nat
           /\ k * GatedReward(copy, t) <= GatedReward(mine, t) + (k - 1)
           /\ GatedReward(mine, t) <= k * GatedReward(copy, t) + (k - 1)
  PROVE  /\ FamilyRounding(k) \in Nat
         /\ Off([f \in Families |-> FamilyScore(mine, f)],
                [f \in Families |-> FamilyScore(copy, f)], k, FamilyRounding(k))
<1>1. ASSUME NEW f \in Families
      PROVE  /\ FamilyScore(mine, f) \in Nat /\ FamilyScore(copy, f) \in Nat
             /\ FamilyRounding(k) \in Nat
             /\ k * FamilyScore(copy, f) <= FamilyScore(mine, f) + FamilyRounding(k)
             /\ FamilyScore(mine, f) <= k * FamilyScore(copy, f) + FamilyRounding(k)
  <2>1. PICK v, w : /\ v = [t \in TasksOf(f) |-> GatedReward(mine, t)]
                    /\ w = [t \in TasksOf(f) |-> GatedReward(copy, t)]
    OBVIOUS
  <2>2. PICK D : D = TasksOf(f) /\ IsFiniteSet(D) /\ D # {} /\ D \in SUBSET DOMAIN Schedule
    BY FamilyTasks DEF TasksOf
  <2>3. /\ DOMAIN v = D /\ DOMAIN w = D
        /\ \A t \in D : v[t] = GatedReward(mine, t) /\ w[t] = GatedReward(copy, t)
    BY <2>1, <2>2
  <2>4. \A t \in D : /\ v[t] \in Nat /\ w[t] \in Nat
                     /\ k * w[t] <= v[t] + (k - 1) /\ v[t] <= k * w[t] + (k - 1)
    <3>1. SUFFICES ASSUME NEW t \in D
                   PROVE  /\ v[t] \in Nat /\ w[t] \in Nat
                          /\ k * w[t] <= v[t] + (k - 1) /\ v[t] <= k * w[t] + (k - 1)
      OBVIOUS
    <3>2. t \in DOMAIN Schedule
      BY <2>2
    <3>3. v[t] = GatedReward(mine, t) /\ w[t] = GatedReward(copy, t)
      BY <2>3
    <3>4. /\ GatedReward(mine, t) \in Nat /\ GatedReward(copy, t) \in Nat
          /\ k * GatedReward(copy, t) <= GatedReward(mine, t) + (k - 1)
          /\ GatedReward(mine, t) <= k * GatedReward(copy, t) + (k - 1)
      BY <3>2, Zenon
    <3>5. QED
      BY <3>3, <3>4
  <2>5. Off(v, w, k, k - 1)
    BY <2>2, <2>3, <2>4, Zenon DEF Off, Values
  <2>6. FamilyScore(mine, f) = LowerBound(v) /\ FamilyScore(copy, f) = LowerBound(w)
    BY <2>1 DEF FamilyScore
  <2>7. LowerBound(v) \in Nat /\ LowerBound(w) \in Nat
    <3>1. Values(v) /\ Values(w)
      BY <2>5 DEF Off
    <3>2. QED
      BY <3>1, BoundFacts
  <2>8. /\ FamilyRounding(k) \in Nat
        /\ k * LowerBound(w) <= LowerBound(v) + FamilyRounding(k)
        /\ LowerBound(v) <= k * LowerBound(w) + FamilyRounding(k)
    BY <2>5, FamilyOff
  <2>9. QED
    BY <2>6, <2>7, <2>8, Zenon
<1>2. PICK f \in Families : TRUE
  BY AggregationAssumption
<1>3. FamilyRounding(k) \in Nat
  BY <1>1, <1>2
<1>4. PICK v, w : /\ v = [f1 \in Families |-> FamilyScore(mine, f1)]
                  /\ w = [f1 \in Families |-> FamilyScore(copy, f1)]
  OBVIOUS
<1>5. /\ DOMAIN v = Families /\ DOMAIN w = Families
      /\ \A f1 \in Families : v[f1] = FamilyScore(mine, f1) /\ w[f1] = FamilyScore(copy, f1)
  BY <1>4
<1>6. \A f1 \in Families : /\ v[f1] \in Nat /\ w[f1] \in Nat
                           /\ k * w[f1] <= v[f1] + FamilyRounding(k)
                           /\ v[f1] <= k * w[f1] + FamilyRounding(k)
  BY <1>1, <1>5
<1>7. IsFiniteSet(Families) /\ Families # {}
  BY AggregationAssumption
<1>8. Off(v, w, k, FamilyRounding(k))
  BY <1>5, <1>6, <1>7, Zenon DEF Off, Values
<1>9. QED
  BY <1>3, <1>4, <1>8

\* And k such portfolios are together worth what the other is, up to rounding.
LEMMA WorthOff ==
  ASSUME NEW k \in Nat \ {0}, NEW mine, NEW copy,
         \A t \in DOMAIN Schedule :
           /\ GatedReward(mine, t) \in Nat /\ GatedReward(copy, t) \in Nat
           /\ k * GatedReward(copy, t) <= GatedReward(mine, t) + (k - 1)
           /\ GatedReward(mine, t) <= k * GatedReward(copy, t) + (k - 1),
         NEW c \in Nat, c = Cardinality({o \in Answered(mine) : o.compliant})
  PROVE  /\ RobustScore(copy) \in Nat
         /\ k * (RobustScore(copy) * c)
              \in WorthWithin(mine, -FamilyRounding(k), -SpreadRounding(k))
                    .. WorthWithin(mine, FamilyRounding(k), SpreadRounding(k))
<1>1. PICK v, w : /\ v = [f \in Families |-> FamilyScore(mine, f)]
                  /\ w = [f \in Families |-> FamilyScore(copy, f)]
  OBVIOUS
<1>2. PICK b \in Nat : b = FamilyRounding(k) /\ Off(v, w, k, b)
  BY <1>1, ScoresOff
<1>3. PICK z, d \in Nat : z = ConfidenceZ /\ d = k - 1
  <2>1. ConfidenceZ \in Nat /\ k - 1 \in Nat
    BY AggregationAssumption
  <2>2. QED
    BY <2>1
<1>4. PICK s \in Nat : s = (ConfidenceZ + 1) * (k - 1) + 3 * ConfidenceZ * b
  <2>1. (z + 1) * d + 3 * z * b \in Nat
    OBVIOUS
  <2>2. QED
    BY <1>3, <2>1
<1>5. SpreadRounding(k) = s
  BY <1>2, <1>4 DEF SpreadRounding
<1>6. DOMAIN v = Families
  BY <1>1
<1>7. PICK r, p, q \in Nat : /\ r = RobustFrom(w) /\ p = RobustNear(v, -b, -s) /\ q = RobustNear(v, b, s)
                             /\ p <= k * r /\ k * r <= q
  <2>1. /\ RobustFrom(w) \in Nat /\ RobustNear(v, -b, -s) \in Nat /\ RobustNear(v, b, s) \in Nat
        /\ RobustNear(v, -b, -s) <= k * RobustFrom(w)
        /\ k * RobustFrom(w) <= RobustNear(v, b, s)
    BY <1>2, <1>4, <1>6, RobustOff
  <2>2. QED
    BY <2>1
<1>8. RobustScore(copy) = r
  BY <1>1, <1>7 DEF RobustScore, RobustFrom
<1>9. WorthWithin(mine, b, s) = q * c
  BY <1>1, <1>7 DEF WorthWithin, RobustNear
<1>10. WorthWithin(mine, -b, -s) = p * c
  BY <1>1, <1>7 DEF WorthWithin, RobustNear
<1>11. p * c <= (k * r) * c /\ (k * r) * c <= q * c
  <2>1. k * r \in Nat
    OBVIOUS
  <2>2. QED
    BY <1>7, <2>1, TimesCompare
<1>12. (k * r) * c = k * (r * c) /\ p * c \in Nat /\ q * c \in Nat /\ k * (r * c) \in Nat
  OBVIOUS
<1>13. k * (r * c) \in p * c .. q * c
  BY <1>11, <1>12
<1>14. QED
  BY <1>2, <1>5, <1>8, <1>9, <1>10, <1>13, Zenon

-----------------------------------------------------------------------------
(* The observations of copies.                                             *)

\* Observations that are as the drivers record them, one of a miner and task.
Single(seen) ==
  /\ IsFiniteSet(DOMAIN seen)
  /\ \A i \in DOMAIN seen : Worth(seen[i])
  /\ \A i, j \in DOMAIN seen : seen[i].miner = seen[j].miner /\ seen[i].task = seen[j].task => i = j

\* What sharing changes of an observation.
LEMMA SharedIs ==
  ASSUME NEW seen, NEW i, Worth(seen[i])
  PROVE  /\ Shared(seen, i).miner = seen[i].miner /\ Shared(seen, i).task = seen[i].task
         /\ Shared(seen, i).available = seen[i].available
         /\ Shared(seen, i).correct = seen[i].correct /\ Shared(seen, i).compliant = seen[i].compliant
         /\ (Counted(Shared(seen, i)) <=> Counted(seen[i]))
         /\ Counted(seen[i]) =>
              Shared(seen, i).reward = seen[i].reward \div Cardinality(Duplicates(seen, i))
<1>1. PICK o : o = seen[i] /\ Worth(o)
  OBVIOUS
<1>2. PICK v : v = o.reward \div Cardinality(Duplicates(seen, i))
  OBVIOUS
<1>3. CASE ~Counted(o)
  BY <1>1, <1>3 DEF Shared
<1>4. CASE Counted(o)
  <2>1. Shared(seen, i) = [o EXCEPT !.reward = v]
    BY <1>1, <1>2, <1>4 DEF Shared
  <2>2. Shared(seen, i) = [miner |-> o.miner, task |-> o.task, available |-> o.available,
                           correct |-> o.correct, compliant |-> o.compliant, reward |-> v,
                           strategy |-> o.strategy, behavior |-> o.behavior, evidence |-> o.evidence]
    BY <1>1, <2>1 DEF Worth
  <2>3. QED
    BY <1>1, <1>2, <1>4, <2>2 DEF Counted
<1>5. QED
  BY <1>3, <1>4

\* The reward a miner has of a task is its part of what it was observed to be.
LEMMA GatedIs ==
  ASSUME NEW seen, Single(seen), NEW k, NEW t
  PROVE  /\ \A i \in DOMAIN seen :
              seen[i].miner = k /\ seen[i].task = t /\ Counted(seen[i]) =>
                GatedReward(Own(seen, k), t) = Shared(seen, i).reward
         /\ (~ \E i \in DOMAIN seen : seen[i].miner = k /\ seen[i].task = t /\ Counted(seen[i])) =>
                GatedReward(Own(seen, k), t) = 0
<1>1. PICK c : c = {o \in Own(seen, k) : o.task = t /\ Counted(o)}
  OBVIOUS
<1>2. GatedReward(Own(seen, k), t) = RewardIn(c)
  BY <1>1 DEF GatedReward
<1>3. ASSUME NEW o \in c
      PROVE  \E i \in DOMAIN seen : /\ o = Shared(seen, i) /\ seen[i].miner = k /\ seen[i].task = t
                                    /\ Counted(seen[i])
  <2>1. o \in Deduplicated(seen) /\ o.miner = k /\ o.task = t /\ Counted(o)
    BY <1>1 DEF Own
  <2>2. PICK i \in DOMAIN seen : o = Shared(seen, i)
    BY <2>1 DEF Deduplicated, Shared
  <2>3. Worth(seen[i])
    BY DEF Single
  <2>4. QED
    BY <2>1, <2>2, <2>3, SharedIs
<1>4. ASSUME NEW i \in DOMAIN seen, seen[i].miner = k, seen[i].task = t, Counted(seen[i])
      PROVE  RewardIn(c) = Shared(seen, i).reward
  <2>1. Worth(seen[i])
    BY DEF Single
  <2>2. Shared(seen, i) \in c
    <3>1. Shared(seen, i) \in Deduplicated(seen)
      BY DEF Deduplicated, Shared
    <3>2. Shared(seen, i).miner = k /\ Shared(seen, i).task = t /\ Counted(Shared(seen, i))
      BY <1>4, <2>1, SharedIs
    <3>3. QED
      BY <1>1, <3>1, <3>2 DEF Own
  <2>3. ASSUME NEW o \in c PROVE o = Shared(seen, i)
    <3>1. PICK j \in DOMAIN seen : o = Shared(seen, j) /\ seen[j].miner = k /\ seen[j].task = t
      BY <1>3
    <3>2. j = i
      BY <1>4, <3>1 DEF Single
    <3>3. QED
      BY <3>1, <3>2
  <2>4. PICK o : o = (CHOOSE x \in c : TRUE) /\ o \in c
    BY <2>2
  <2>5. c # {}
    BY <2>2
  <2>6. RewardIn(c) = o.reward
    BY <2>4, <2>5 DEF RewardIn
  <2>7. QED
    BY <2>3, <2>4, <2>6
<1>5. ASSUME ~ \E i \in DOMAIN seen : seen[i].miner = k /\ seen[i].task = t /\ Counted(seen[i])
      PROVE  RewardIn(c) = 0
  <2>1. c = {}
    BY <1>3, <1>5
  <2>2. QED
    BY <2>1 DEF RewardIn
<1>6. QED
  BY <1>2, <1>4, <1>5

\* What the gates count of a set of observations.
Heads(S) == {<<o.task, o.correct, o.compliant>> : o \in S}

LEMMA HeadsCount ==
  ASSUME NEW seen, Single(seen), NEW k, NEW S \in SUBSET Own(seen, k)
  PROVE  Cardinality(S) \in Nat /\ Cardinality(S) = Cardinality(Heads(S))
<1>1. PICK U : U = Deduplicated(seen)
  OBVIOUS
<1>2. IsFiniteSet(U)
  <2>1. PICK s, D : s = [i \in DOMAIN seen |-> Shared(seen, i)] /\ D = DOMAIN seen /\ IsFiniteSet(D)
    BY DEF Single
  <2>2. U = {s[i] : i \in D}
    BY <1>1, <2>1 DEF Deduplicated, Shared
  <2>3. QED
    BY <2>1, <2>2, Image
<1>3. S \in SUBSET U
  BY <1>1 DEF Own
<1>4. IsFiniteSet(S)
  BY <1>2, <1>3, FS_Subset
<1>5. PICK h : h = [o \in S |-> <<o.task, o.correct, o.compliant>>]
  OBVIOUS
<1>6. PICK T : T = Heads(S)
  OBVIOUS
<1>7. T = {h[o] : o \in S}
  BY <1>5, <1>6 DEF Heads
<1>8. ASSUME NEW x \in S, NEW y \in S, h[x] = h[y] PROVE x = y
  <2>1. x.task = y.task
    BY <1>5, <1>8
  <2>2. PICK i \in DOMAIN seen : x = Shared(seen, i)
    BY <1>1, <1>3 DEF Deduplicated, Shared
  <2>3. PICK j \in DOMAIN seen : y = Shared(seen, j)
    BY <1>1, <1>3 DEF Deduplicated, Shared
  <2>4. x.miner = k /\ y.miner = k
    BY DEF Own
  <2>5. seen[i].miner = k /\ seen[i].task = x.task
    BY <2>2, <2>4, SharedIs DEF Single
  <2>6. seen[j].miner = k /\ seen[j].task = y.task
    BY <2>3, <2>4, SharedIs DEF Single
  <2>7. i = j
    BY <2>1, <2>5, <2>6 DEF Single
  <2>8. QED
    BY <2>2, <2>3, <2>7
<1>9. Cardinality(T) = Cardinality(S)
  BY <1>4, <1>7, <1>8, Image
<1>10. QED
  BY <1>4, <1>6, <1>9, FS_CardinalityType

\* How many observations the gates count.
CompliantIn(S) == Cardinality({o \in S : o.compliant})
CorrectIn(S)   == Cardinality({o \in S : o.correct})
FamilyIn(S, f) == Cardinality({o \in S : Schedule[o.task] = f})

\* Sets with the same heads count alike.
LEMMA HeadsEqual ==
  ASSUME NEW x, Single(x), NEW y, Single(y), NEW k, NEW l,
         Heads(Answered(Own(x, k))) = Heads(Answered(Own(y, l)))
  PROVE  /\ Cardinality(Answered(Own(x, k))) \in Nat
         /\ Cardinality(Answered(Own(x, k))) = Cardinality(Answered(Own(y, l)))
         /\ CompliantIn(Answered(Own(x, k))) \in Nat
         /\ CompliantIn(Answered(Own(x, k))) = CompliantIn(Answered(Own(y, l)))
         /\ CorrectIn(Answered(Own(x, k))) = CorrectIn(Answered(Own(y, l)))
         /\ \A f : FamilyIn(Answered(Own(x, k)), f) = FamilyIn(Answered(Own(y, l)), f)
<1>1. PICK A, B : A = Answered(Own(x, k)) /\ B = Answered(Own(y, l)) /\ Heads(A) = Heads(B)
  OBVIOUS
<1>2. A \in SUBSET Own(x, k) /\ B \in SUBSET Own(y, l)
  BY <1>1 DEF Answered
<1>3. ASSUME NEW S \in SUBSET A, NEW T \in SUBSET B, Heads(S) = Heads(T)
      PROVE  Cardinality(S) \in Nat /\ Cardinality(S) = Cardinality(T)
  <2>1. S \in SUBSET Own(x, k) /\ T \in SUBSET Own(y, l)
    BY <1>2
  <2>2. Cardinality(S) \in Nat /\ Cardinality(S) = Cardinality(Heads(S))
    BY <2>1, HeadsCount
  <2>3. Cardinality(T) = Cardinality(Heads(T))
    BY <2>1, HeadsCount
  <2>4. QED
    BY <1>3, <2>2, <2>3
<1>4. PICK H : H = Heads(A) /\ H = Heads(B)
  BY <1>1
<1>5. Cardinality(A) \in Nat /\ Cardinality(A) = Cardinality(B)
  BY <1>3, <1>1
<1>6. /\ Cardinality({o \in A : o.compliant}) \in Nat
      /\ Cardinality({o \in A : o.compliant}) = Cardinality({o \in B : o.compliant})
  <2>1. PICK S, T : S = {o \in A : o.compliant} /\ T = {o \in B : o.compliant}
    OBVIOUS
  <2>2. Heads(S) = {h \in H : h[3]}
    BY <1>4, <2>1 DEF Heads
  <2>3. Heads(T) = {h \in H : h[3]}
    BY <1>4, <2>1 DEF Heads
  <2>4. S \in SUBSET A /\ T \in SUBSET B
    BY <2>1
  <2>5. Cardinality(S) \in Nat /\ Cardinality(S) = Cardinality(T)
    BY <1>3, <2>2, <2>3, <2>4
  <2>6. QED
    BY <2>1, <2>5
<1>7. Cardinality({o \in A : o.correct}) = Cardinality({o \in B : o.correct})
  <2>1. PICK S, T : S = {o \in A : o.correct} /\ T = {o \in B : o.correct}
    OBVIOUS
  <2>2. Heads(S) = {h \in H : h[2]}
    BY <1>4, <2>1 DEF Heads
  <2>3. Heads(T) = {h \in H : h[2]}
    BY <1>4, <2>1 DEF Heads
  <2>4. S \in SUBSET A /\ T \in SUBSET B
    BY <2>1
  <2>5. Cardinality(S) = Cardinality(T)
    BY <1>3, <2>2, <2>3, <2>4
  <2>6. QED
    BY <2>1, <2>5
<1>8. ASSUME NEW f
      PROVE  Cardinality({o \in A : Schedule[o.task] = f}) = Cardinality({o \in B : Schedule[o.task] = f})
  <2>1. PICK S, T : S = {o \in A : Schedule[o.task] = f} /\ T = {o \in B : Schedule[o.task] = f}
    OBVIOUS
  <2>2. Heads(S) = {h \in H : Schedule[h[1]] = f}
    BY <1>4, <2>1 DEF Heads
  <2>3. Heads(T) = {h \in H : Schedule[h[1]] = f}
    BY <1>4, <2>1 DEF Heads
  <2>4. S \in SUBSET A /\ T \in SUBSET B
    BY <2>1
  <2>5. Cardinality(S) = Cardinality(T)
    BY <1>3, <2>2, <2>3, <2>4
  <2>6. QED
    BY <2>1, <2>5
<1>9. QED
  BY <1>5, <1>6, <1>7, <1>8, <1>1 DEF CompliantIn, CorrectIn, FamilyIn

\* So miners whose observations have the same heads and rewards are aggregated
\* to the same reward.
LEMMA SameWorth ==
  ASSUME NEW x, Single(x), NEW y, Single(y), NEW k, NEW l,
         Heads(Answered(Own(x, k))) = Heads(Answered(Own(y, l))),
         \A t \in DOMAIN Schedule : GatedReward(Own(x, k), t) = GatedReward(Own(y, l), t)
  PROVE  Aggregate(Own(x, k)).reward = Aggregate(Own(y, l)).reward
<1> DEFINE compliant(z) == Cardinality({o \in Answered(z) : o.compliant})
           gates(z) == <<
             <<Cardinality(Answered(z)) < MinimumTasks, "insufficient_tasks">>,
             <<\E f \in Families : [h \in Families |-> Cardinality({o \in Answered(z) : Schedule[o.task] = h})][f]
                 < MinimumFamilyTasks, "insufficient_family_tasks">>,
             <<Cardinality(Answered(z)) * 100 < MinAvailability * Len(Schedule), "availability_gate">>,
             <<compliant(z) * 100 < MinCompliance * Cardinality(Answered(z)), "compliance_gate">>,
             <<Cardinality({o \in Answered(z) : o.correct}) * 100
                 < MinCorrectness * Cardinality(Answered(z)), "correctness_gate">>,
             <<\E f \in Families : FamilyScore(z, f) = 0, "worst_family_gate">>,
             <<RobustScore(z) * compliant(z) = 0, "no_robust_improvement">>>>
<1>1. PICK a, b : a = Own(x, k) /\ b = Own(y, l)
  OBVIOUS
<1>2. \A z : Aggregate(z).reward = IF FirstClosed(gates(z)) = "none" THEN RobustScore(z) * compliant(z) ELSE 0
  BY DEF Aggregate
<1>3. PICK A, B : A = Answered(a) /\ B = Answered(b)
  OBVIOUS
<1>4. /\ Cardinality(A) = Cardinality(B)
      /\ Cardinality({o \in A : o.compliant}) = Cardinality({o \in B : o.compliant})
      /\ Cardinality({o \in A : o.correct}) = Cardinality({o \in B : o.correct})
      /\ \A f : Cardinality({o \in A : Schedule[o.task] = f})
                  = Cardinality({o \in B : Schedule[o.task] = f})
  <2>1. /\ Cardinality(Answered(Own(x, k))) = Cardinality(Answered(Own(y, l)))
        /\ CompliantIn(Answered(Own(x, k))) = CompliantIn(Answered(Own(y, l)))
        /\ CorrectIn(Answered(Own(x, k))) = CorrectIn(Answered(Own(y, l)))
        /\ \A f : FamilyIn(Answered(Own(x, k)), f) = FamilyIn(Answered(Own(y, l)), f)
    BY HeadsEqual
  <2>2. /\ Cardinality(A) = Cardinality(B)
        /\ CompliantIn(A) = CompliantIn(B) /\ CorrectIn(A) = CorrectIn(B)
        /\ \A f : FamilyIn(A, f) = FamilyIn(B, f)
    BY <1>1, <1>3, <2>1, Zenon
  <2>3. QED
    BY <2>2 DEF CompliantIn, CorrectIn, FamilyIn
<1>5. \A f : FamilyScore(a, f) = FamilyScore(b, f)
  <2>1. SUFFICES ASSUME NEW f PROVE FamilyScore(a, f) = FamilyScore(b, f)
    OBVIOUS
  <2>2. PICK v : v = [t \in TasksOf(f) |-> GatedReward(a, t)]
    OBVIOUS
  <2>3. \A t \in TasksOf(f) : GatedReward(a, t) = GatedReward(b, t)
    BY <1>1 DEF TasksOf
  <2>4. v = [t \in TasksOf(f) |-> GatedReward(b, t)]
    BY <2>2, <2>3
  <2>5. QED
    BY <2>2, <2>4 DEF FamilyScore
<1>6. RobustScore(a) = RobustScore(b)
  <2>1. PICK v : v = [f \in Families |-> FamilyScore(a, f)]
    OBVIOUS
  <2>2. v = [f \in Families |-> FamilyScore(b, f)]
    BY <1>5, <2>1
  <2>3. QED
    BY <2>1, <2>2 DEF RobustScore
<1>7. compliant(a) = compliant(b)
  BY <1>3, <1>4
<1>8. FirstClosed(gates(a)) = FirstClosed(gates(b))
  <2>1. DOMAIN gates(a) = 1 .. 7 /\ DOMAIN gates(b) = 1 .. 7
    OBVIOUS
  <2>2. gates(a)[1][1] <=> gates(b)[1][1]
    BY <1>3, <1>4
  <2>3. gates(a)[2][1] <=> gates(b)[2][1]
    BY <1>3, <1>4
  <2>4. gates(a)[3][1] <=> gates(b)[3][1]
    BY <1>3, <1>4
  <2>5. gates(a)[4][1] <=> gates(b)[4][1]
    BY <1>3, <1>4
  <2>6. gates(a)[5][1] <=> gates(b)[5][1]
    BY <1>3, <1>4
  <2>7. gates(a)[6][1] <=> gates(b)[6][1]
    BY <1>5
  <2>8. gates(a)[7][1] <=> gates(b)[7][1]
    <3>1. RobustScore(a) * compliant(a) = RobustScore(b) * compliant(b)
      BY <1>6, <1>7, Zenon
    <3>2. QED
      BY <3>1
  <2>9. \A i \in 1 .. 7 : gates(a)[i][2] = gates(b)[i][2]
    OBVIOUS
  <2> HIDE DEF gates
  <2>10. \A i \in 1 .. 7 : (gates(a)[i][1] <=> gates(b)[i][1])
                          /\ gates(a)[i][2] = gates(b)[i][2]
    <3>1. \A i \in 1 .. 7 : i = 1 \/ i = 2 \/ i = 3 \/ i = 4 \/ i = 5 \/ i = 6 \/ i = 7
      OBVIOUS
    <3>2. QED
      BY <2>2, <2>3, <2>4, <2>5, <2>6, <2>7, <2>8, <2>9, <3>1
  <2>11. PICK p, q : p = gates(a) /\ q = gates(b)
    OBVIOUS
  <2>12. PICK n \in Nat : /\ DOMAIN p = 1 .. n /\ DOMAIN q = 1 .. n
                          /\ \A i \in 1 .. n : (p[i][1] <=> q[i][1]) /\ p[i][2] = q[i][2]
    BY <2>1, <2>10, <2>11
  <2>13. FirstClosed(p) = FirstClosed(q)
    BY <2>12, SameGates
  <2>14. QED
    BY <2>11, <2>13
<1> HIDE DEF gates, compliant
<1>9. QED
  BY <1>1, <1>2, <1>6, <1>7, <1>8, Zenon

\* The record of a run, and any part of it, is of that kind.
LEMMA SingleRecord ==
  ASSUME IInv, RInv, NEW W \in SUBSET DOMAIN obs
  PROVE  /\ Single(obs) /\ Single(Restrict(obs, W))
         /\ DOMAIN Restrict(obs, W) = W /\ \A i \in W : Restrict(obs, W)[i] = obs[i]
<1>1. IsFiniteSet(DOMAIN obs)
  <2>1. Len(obs) \in Nat /\ DOMAIN obs = 1 .. Len(obs)
    BY LenProperties DEF IInv, Recorded
  <2>2. QED
    BY <2>1, FS_Interval
<1>2. \A i \in DOMAIN obs : Worth(obs[i])
  BY DEF RInv, Sound
<1>3. ASSUME NEW i \in DOMAIN obs, NEW j \in DOMAIN obs,
             obs[i].miner = obs[j].miner, obs[i].task = obs[j].task
      PROVE  i = j
  <2>1. Agree(obs[i], obs[j])
    BY DEF IInv, Recorded
  <2>2. obs[i] = obs[j]
    BY <1>3, <2>1 DEF Agree
  <2>3. QED
    BY <2>2 DEF IInv, Recorded
<1>4. Single(obs)
  BY <1>1, <1>2, <1>3 DEF Single
<1>5. PICK seen : seen = Restrict(obs, W)
  OBVIOUS
<1>6. DOMAIN seen = W /\ \A i \in W : seen[i] = obs[i]
  BY <1>5 DEF Restrict
<1>7. IsFiniteSet(W)
  BY <1>1, FS_Subset
<1>8. Single(seen)
  BY <1>2, <1>3, <1>6, <1>7 DEF Single
<1>9. QED
  BY <1>4, <1>5, <1>6, <1>8

\* Observations that differ in the name of the miner, and in digests.
Twins(x, y) ==
  /\ x.task = y.task /\ x.available = y.available /\ x.correct = y.correct
  /\ x.compliant = y.compliant /\ x.reward = y.reward /\ x.strategy = y.strategy

\* An observation under another name.
LEMMA Renamed ==
  ASSUME NEW x, Worth(x), NEW y, Worth(y), NEW m, [x EXCEPT !.miner = m] = [y EXCEPT !.miner = m]
  PROVE  Twins(x, y)
<1>1. PICK z : z = [x EXCEPT !.miner = m] /\ z = [y EXCEPT !.miner = m]
  OBVIOUS
<1>2. z = [miner |-> m, task |-> x.task, available |-> x.available, correct |-> x.correct,
           compliant |-> x.compliant, reward |-> x.reward, strategy |-> x.strategy,
           behavior |-> x.behavior, evidence |-> x.evidence]
  BY <1>1 DEF Worth
<1>3. z = [miner |-> m, task |-> y.task, available |-> y.available, correct |-> y.correct,
           compliant |-> y.compliant, reward |-> y.reward, strategy |-> y.strategy,
           behavior |-> y.behavior, evidence |-> y.evidence]
  BY <1>1 DEF Worth
<1>4. /\ z.task = x.task /\ z.available = x.available /\ z.correct = x.correct
      /\ z.compliant = x.compliant /\ z.reward = x.reward /\ z.strategy = x.strategy
  BY <1>2
<1>5. /\ z.task = y.task /\ z.available = y.available /\ z.correct = y.correct
      /\ z.compliant = y.compliant /\ z.reward = y.reward /\ z.strategy = y.strategy
  BY <1>3
<1>6. QED
  BY <1>4, <1>5, Zenon DEF Twins

\* Whatever one copy is observed to do, every other is.
LEMMA CopiesAlike ==
  ASSUME RInv, NEW m, NEW k \in CopiesOf(m), NEW l \in CopiesOf(m),
         NEW i \in DOMAIN obs, obs[i].miner = k, obs[i].available
  PROVE  \E j \in DOMAIN obs : obs[j].miner = l /\ Twins(obs[i], obs[j])
<1> DEFINE portfolio(n) == {[o EXCEPT !.miner = m] : o \in {obs[h] : h \in {j \in DOMAIN obs :
                                              obs[j].miner = n /\ obs[j].available}}}
<1>1. portfolio(k) = portfolio(l)
  BY DEF CopiesOf
<1>2. PICK x : x = [obs[i] EXCEPT !.miner = m]
  OBVIOUS
<1>3. x \in portfolio(k)
  BY <1>2
<1>4. x \in portfolio(l)
  <2> HIDE DEF portfolio
  <2>1. QED
    BY <1>1, <1>3
<1>5. PICK j \in DOMAIN obs : obs[j].miner = l /\ x = [obs[j] EXCEPT !.miner = m]
  BY <1>4
<1>6. Worth(obs[i]) /\ Worth(obs[j])
  BY DEF RInv, Sound
<1>7. QED
  BY <1>2, <1>5, <1>6, Renamed

\* Nobody but a copy was observed with a strategy of m on its task.
Unshared(m) ==
  \A i, j \in DOMAIN obs :
    obs[i].miner = m /\ obs[i].available /\ obs[j].task = obs[i].task
      /\ obs[j].strategy = obs[i].strategy => obs[j].miner \in CopiesOf(m)

\* Every copy has its part of a reward: the duplicates are the copies.
LEMMA AsManyAsCopies ==
  ASSUME IInv, RInv, NEW m \in Miners, Unshared(m), NEW i \in DOMAIN obs,
         obs[i].miner \in CopiesOf(m), Counted(obs[i])
  PROVE  Cardinality(Duplicates(obs, i)) = Cardinality(CopiesOf(m))
<1>1. PICK C, D : C = CopiesOf(m) /\ D = Duplicates(obs, i)
  OBVIOUS
<1>2. m \in C
  BY <1>1 DEF CopiesOf
<1>3. PICK o \in DOMAIN obs : obs[o].miner = m /\ Twins(obs[i], obs[o])
  BY <1>1, <1>2, CopiesAlike DEF Counted
<1>4. IsFiniteSet(D) /\ D \in SUBSET DOMAIN obs
  <2>1. IsFiniteSet(DOMAIN obs)
    BY SingleRecord DEF Single
  <2>2. D \in SUBSET DOMAIN obs
    BY <1>1 DEF Duplicates
  <2>3. QED
    BY <2>1, <2>2, FS_Subset
<1>5. PICK h : h = [j \in D |-> obs[j].miner]
  OBVIOUS
<1>6. ASSUME NEW j \in D PROVE h[j] \in C
  <2>1. /\ j \in DOMAIN obs /\ obs[j].task = obs[o].task /\ obs[j].strategy = obs[o].strategy
        /\ obs[o].available
    BY <1>1, <1>3 DEF Duplicates, Twins, Counted
  <2>2. QED
    BY <1>1, <1>3, <1>5, <2>1 DEF Unshared
<1>7. ASSUME NEW l \in C PROVE \E j \in D : h[j] = l
  <2>1. PICK j \in DOMAIN obs : obs[j].miner = l /\ Twins(obs[i], obs[j])
    BY <1>1, CopiesAlike DEF Counted
  <2>2. j \in D
    BY <1>1, <2>1 DEF Duplicates, Twins, Counted
  <2>3. QED
    BY <1>5, <2>1, <2>2
<1>8. ASSUME NEW j \in D, NEW l \in D, h[j] = h[l] PROVE j = l
  <2>1. /\ j \in DOMAIN obs /\ l \in DOMAIN obs /\ obs[j].task = obs[l].task
        /\ obs[j].miner = obs[l].miner
    BY <1>1, <1>5, <1>8 DEF Duplicates
  <2>2. Single(obs)
    BY SingleRecord
  <2>3. QED
    BY <2>1, <2>2 DEF Single
<1>9. C = {h[j] : j \in D}
  BY <1>6, <1>7
<1>10. Cardinality(C) = Cardinality(D)
  BY <1>4, <1>8, <1>9, Image
<1>11. QED
  BY <1>1, <1>10

\* The record without the other copies of m.
Without(m) == Restrict(obs, {i \in DOMAIN obs : obs[i].miner \notin CopiesOf(m) \ {m}})

\* It holds what m was observed to do, and nothing new.
LEMMA WithoutFacts ==
  ASSUME IInv, RInv, NEW m
  PROVE  /\ Single(obs) /\ Single(Without(m)) /\ DOMAIN Without(m) \in SUBSET DOMAIN obs
         /\ \A i \in DOMAIN Without(m) :
              Without(m)[i] = obs[i] /\ obs[i].miner \notin CopiesOf(m) \ {m}
         /\ \A i \in DOMAIN obs : obs[i].miner = m => i \in DOMAIN Without(m)
<1>1. PICK W : W = {i \in DOMAIN obs : obs[i].miner \notin CopiesOf(m) \ {m}}
  OBVIOUS
<1>2. W \in SUBSET DOMAIN obs
  BY <1>1
<1>3. /\ Single(obs) /\ Single(Restrict(obs, W))
      /\ DOMAIN Restrict(obs, W) = W /\ \A i \in W : Restrict(obs, W)[i] = obs[i]
  BY <1>2, SingleRecord
<1>4. Without(m) = Restrict(obs, W)
  BY <1>1 DEF Without
<1>5. QED
  BY <1>1, <1>3, <1>4

\* The copies are some miners, and m is one of them.
LEMMA CopiesCount ==
  ASSUME NEW m \in Miners
  PROVE  /\ IsFiniteSet(CopiesOf(m)) /\ m \in CopiesOf(m) /\ CopiesOf(m) \in SUBSET Miners
         /\ Cardinality(CopiesOf(m)) \in Nat \ {0}
<1>1. m \in CopiesOf(m) /\ CopiesOf(m) \in SUBSET Miners
  BY DEF CopiesOf
<1>2. IsFiniteSet(CopiesOf(m))
  BY <1>1, FS_Subset, EvaluationAssumption
<1>3. Cardinality(CopiesOf(m)) \in Nat /\ Cardinality(CopiesOf(m)) # 0
  BY <1>1, <1>2, FS_CardinalityType, FS_EmptySet
<1>4. QED
  BY <1>1, <1>2, <1>3

\* Alone, m keeps its reward.
LEMMA AloneKeeps ==
  ASSUME IInv, RInv, NEW m \in Miners, Unshared(m), NEW i \in DOMAIN Without(m),
         obs[i].miner = m, Counted(obs[i])
  PROVE  Shared(Without(m), i).reward = obs[i].reward
<1>1. PICK w : w = Without(m)
  OBVIOUS
<1>2. /\ Single(obs) /\ Single(w) /\ DOMAIN w \in SUBSET DOMAIN obs
      /\ \A j \in DOMAIN w : w[j] = obs[j] /\ obs[j].miner \notin CopiesOf(m) \ {m}
  BY <1>1, WithoutFacts
<1>3. PICK D : D = Duplicates(w, i)
  OBVIOUS
<1>4. i \in DOMAIN w /\ i \in DOMAIN obs /\ w[i] = obs[i]
  BY <1>1, <1>2
<1>5. i \in D
  BY <1>3, <1>4 DEF Duplicates
<1>6. ASSUME NEW j \in D PROVE j = i
  <2>1. /\ j \in DOMAIN w /\ j \in DOMAIN obs /\ w[j] = obs[j]
        /\ obs[j].task = obs[i].task /\ obs[j].strategy = obs[i].strategy
    BY <1>2, <1>3, <1>4 DEF Duplicates
  <2>2. obs[j].miner \in CopiesOf(m)
    BY <1>4, <2>1 DEF Unshared, Counted
  <2>3. obs[j].miner = m
    BY <1>2, <2>1, <2>2
  <2>4. QED
    BY <1>2, <1>4, <2>1, <2>3 DEF Single
<1>7. D = {i}
  BY <1>5, <1>6
<1>8. Cardinality(D) = 1
  BY <1>7, FS_Singleton
<1>9. PICK r \in Nat : r = obs[i].reward
  BY <1>2, <1>4 DEF Single, Worth
<1>10. Shared(w, i).reward = r \div 1
  <2>1. Worth(w[i]) /\ Counted(w[i])
    BY <1>2, <1>4 DEF Single
  <2>2. Shared(w, i).reward = w[i].reward \div Cardinality(Duplicates(w, i))
    BY <2>1, SharedIs
  <2>3. QED
    BY <1>3, <1>4, <1>8, <1>9, <2>2
<1>11. QED
  BY <1>1, <1>9, <1>10

\* A copy has of every task its part of what m has of it alone.
LEMMA GatedOfCopy ==
  ASSUME IInv, RInv, NEW m \in Miners, Unshared(m), NEW k \in CopiesOf(m), NEW t
  PROVE  \E r \in Nat : /\ GatedReward(Own(Without(m), m), t) = r
                        /\ GatedReward(Own(obs, k), t) = r \div Cardinality(CopiesOf(m))
<1>1. PICK w : w = Without(m)
  OBVIOUS
<1>2. /\ Single(obs) /\ Single(w) /\ DOMAIN w \in SUBSET DOMAIN obs
      /\ \A i \in DOMAIN w : w[i] = obs[i]
      /\ \A i \in DOMAIN obs : obs[i].miner = m => i \in DOMAIN w
  BY <1>1, WithoutFacts
<1>3. PICK n \in Nat \ {0} : n = Cardinality(CopiesOf(m))
  BY CopiesCount
<1>4. m \in CopiesOf(m)
  BY CopiesCount
<1>5. CASE \E i \in DOMAIN obs : obs[i].miner = m /\ obs[i].task = t /\ Counted(obs[i])
  <2>1. PICK i \in DOMAIN obs : obs[i].miner = m /\ obs[i].task = t /\ Counted(obs[i])
    BY <1>5
  <2>2. PICK j \in DOMAIN obs : obs[j].miner = k /\ Twins(obs[i], obs[j])
    BY <1>4, <2>1, CopiesAlike DEF Counted
  <2>3. /\ obs[j].task = t /\ Counted(obs[j]) /\ obs[j].reward = obs[i].reward
    BY <2>1, <2>2 DEF Twins, Counted
  <2>4. PICK r \in Nat : r = obs[i].reward
    BY <1>2, <2>1 DEF Single, Worth
  <2>5. GatedReward(Own(obs, k), t) = Shared(obs, j).reward
    BY <1>2, <2>2, <2>3, GatedIs
  <2>6. Shared(obs, j).reward = r \div n
    <3>1. Cardinality(Duplicates(obs, j)) = n
      BY <1>3, <2>2, <2>3, AsManyAsCopies
    <3>2. Worth(obs[j])
      BY <1>2 DEF Single
    <3>3. Shared(obs, j).reward = obs[j].reward \div Cardinality(Duplicates(obs, j))
      BY <2>3, <3>2, SharedIs
    <3>4. QED
      BY <2>3, <2>4, <3>1, <3>3
  <2>7. i \in DOMAIN w /\ w[i] = obs[i]
    BY <1>2, <2>1
  <2>8. GatedReward(Own(w, m), t) = Shared(w, i).reward
    BY <1>2, <2>1, <2>7, GatedIs
  <2>9. Shared(w, i).reward = r
    BY <1>1, <2>1, <2>4, <2>7, AloneKeeps
  <2>10. QED
    BY <1>1, <1>3, <2>5, <2>6, <2>8, <2>9
<1>6. CASE ~ \E i \in DOMAIN obs : obs[i].miner = m /\ obs[i].task = t /\ Counted(obs[i])
  <2>1. ASSUME NEW j \in DOMAIN obs, obs[j].miner = k, obs[j].task = t, Counted(obs[j])
        PROVE  FALSE
    <3>1. PICK i \in DOMAIN obs : obs[i].miner = m /\ Twins(obs[j], obs[i])
      BY <1>4, <2>1, CopiesAlike DEF Counted
    <3>2. obs[i].task = t /\ Counted(obs[i])
      BY <2>1, <3>1 DEF Twins, Counted
    <3>3. QED
      BY <1>6, <3>1, <3>2
  <2>2. GatedReward(Own(obs, k), t) = 0
    BY <1>2, <2>1, GatedIs
  <2>3. ~ \E i \in DOMAIN w : w[i].miner = m /\ w[i].task = t /\ Counted(w[i])
    BY <1>2, <1>6
  <2>4. GatedReward(Own(w, m), t) = 0
    BY <1>2, <2>3, GatedIs
  <2>5. 0 \div n = 0
    <3>1. PICK q \in Nat : q = 0 \div n
      BY Parts
    <3>2. q * n <= 0
      BY <3>1, Parts
    <3>3. q * n >= q
      BY <1>3
    <3>4. QED
      BY <3>1, <3>2, <3>3
  <2>6. QED
    BY <1>1, <1>3, <2>2, <2>4, <2>5
<1>7. QED
  BY <1>5, <1>6

\* The heads of a miner's answers are those of what was observed of it.
LEMMA HeadsAre ==
  ASSUME NEW seen, Single(seen), NEW k, NEW h
  PROVE  h \in Heads(Answered(Own(seen, k))) <=>
           \E i \in DOMAIN seen :
             /\ seen[i].miner = k /\ seen[i].available
             /\ h = <<seen[i].task, seen[i].correct, seen[i].compliant>>
<1>1. ASSUME h \in Heads(Answered(Own(seen, k)))
      PROVE  \E i \in DOMAIN seen :
               /\ seen[i].miner = k /\ seen[i].available
               /\ h = <<seen[i].task, seen[i].correct, seen[i].compliant>>
  <2>1. PICK o \in Own(seen, k) : o.available /\ h = <<o.task, o.correct, o.compliant>>
    BY <1>1 DEF Heads, Answered
  <2>2. o \in Deduplicated(seen) /\ o.miner = k
    BY DEF Own
  <2>3. PICK i \in DOMAIN seen : o = Shared(seen, i)
    BY <2>2 DEF Deduplicated, Shared
  <2>4. Worth(seen[i])
    BY DEF Single
  <2>5. /\ o.miner = seen[i].miner /\ o.task = seen[i].task /\ o.available = seen[i].available
        /\ o.correct = seen[i].correct /\ o.compliant = seen[i].compliant
    BY <2>3, <2>4, SharedIs
  <2>6. QED
    BY <2>1, <2>2, <2>5
<1>2. ASSUME NEW i \in DOMAIN seen, seen[i].miner = k, seen[i].available,
             h = <<seen[i].task, seen[i].correct, seen[i].compliant>>
      PROVE  h \in Heads(Answered(Own(seen, k)))
  <2>1. Worth(seen[i])
    BY DEF Single
  <2>2. PICK o : o = Shared(seen, i)
    OBVIOUS
  <2>3. /\ o.miner = seen[i].miner /\ o.task = seen[i].task /\ o.available = seen[i].available
        /\ o.correct = seen[i].correct /\ o.compliant = seen[i].compliant
    BY <2>1, <2>2, SharedIs
  <2>4. o \in Deduplicated(seen)
    BY <2>2 DEF Deduplicated, Shared
  <2>5. o \in Answered(Own(seen, k))
    BY <1>2, <2>3, <2>4 DEF Answered, Own
  <2>6. QED
    BY <1>2, <2>3, <2>5 DEF Heads
<1>3. QED
  BY <1>1, <1>2

\* Copies answered alike, and m alone as m among its copies.
LEMMA SameHeads ==
  ASSUME IInv, RInv, NEW m \in Miners
  PROVE  /\ \A k \in CopiesOf(m) :
              Heads(Answered(Own(obs, k))) = Heads(Answered(Own(obs, m)))
         /\ Heads(Answered(Own(Without(m), m))) = Heads(Answered(Own(obs, m)))
<1>1. Single(obs)
  BY WithoutFacts
<1>2. ASSUME NEW k \in CopiesOf(m), NEW l \in CopiesOf(m), NEW h,
             h \in Heads(Answered(Own(obs, k)))
      PROVE  h \in Heads(Answered(Own(obs, l)))
  <2>1. PICK i \in DOMAIN obs : /\ obs[i].miner = k /\ obs[i].available
                                /\ h = <<obs[i].task, obs[i].correct, obs[i].compliant>>
    BY <1>1, <1>2, HeadsAre
  <2>2. PICK j \in DOMAIN obs : obs[j].miner = l /\ Twins(obs[i], obs[j])
    BY <2>1, CopiesAlike
  <2>3. obs[j].available /\ h = <<obs[j].task, obs[j].correct, obs[j].compliant>>
    BY <2>1, <2>2 DEF Twins
  <2>4. QED
    BY <1>1, <2>2, <2>3, HeadsAre
<1>3. ASSUME NEW k \in CopiesOf(m)
      PROVE  Heads(Answered(Own(obs, k))) = Heads(Answered(Own(obs, m)))
  <2>1. m \in CopiesOf(m)
    BY CopiesCount
  <2>2. PICK G, H : G = Heads(Answered(Own(obs, k))) /\ H = Heads(Answered(Own(obs, m)))
    OBVIOUS
  <2>3. \A h : h \in G <=> h \in H
    BY <1>2, <2>1, <2>2
  <2>4. QED
    BY <2>2, <2>3
<1>4. Heads(Answered(Own(Without(m), m))) = Heads(Answered(Own(obs, m)))
  <2>1. PICK w : w = Without(m)
    OBVIOUS
  <2>2. /\ Single(w) /\ DOMAIN w \in SUBSET DOMAIN obs
        /\ \A i \in DOMAIN w : w[i] = obs[i]
        /\ \A i \in DOMAIN obs : obs[i].miner = m => i \in DOMAIN w
    BY <2>1, WithoutFacts
  <2>3. PICK G, H : G = Heads(Answered(Own(w, m))) /\ H = Heads(Answered(Own(obs, m)))
    OBVIOUS
  <2>4. ASSUME NEW h \in G PROVE h \in H
    <3>1. PICK i \in DOMAIN w : /\ w[i].miner = m /\ w[i].available
                                /\ h = <<w[i].task, w[i].correct, w[i].compliant>>
      BY <2>2, <2>3, <2>4, HeadsAre
    <3>2. i \in DOMAIN obs /\ w[i] = obs[i]
      BY <2>2
    <3>3. QED
      BY <1>1, <2>3, <3>1, <3>2, HeadsAre
  <2>5. ASSUME NEW h \in H PROVE h \in G
    <3>1. PICK i \in DOMAIN obs : /\ obs[i].miner = m /\ obs[i].available
                                  /\ h = <<obs[i].task, obs[i].correct, obs[i].compliant>>
      BY <1>1, <2>3, <2>5, HeadsAre
    <3>2. i \in DOMAIN w /\ w[i] = obs[i]
      BY <2>2, <3>1
    <3>3. QED
      BY <2>2, <2>3, <3>1, <3>2, HeadsAre
  <2>6. G = H
    BY <2>4, <2>5
  <2>7. QED
    BY <2>1, <2>3, <2>6
<1>5. QED
  BY <1>3, <1>4

\* So all copies are aggregated to one reward.
LEMMA SameRewards ==
  ASSUME IInv, RInv, NEW m \in Miners, Unshared(m), NEW k \in CopiesOf(m)
  PROVE  Aggregate(Own(obs, k)).reward = Aggregate(Own(obs, m)).reward
<1>1. Single(obs) /\ m \in CopiesOf(m)
  BY WithoutFacts, CopiesCount
<1>2. Heads(Answered(Own(obs, k))) = Heads(Answered(Own(obs, m)))
  BY SameHeads
<1>3. ASSUME NEW t \in DOMAIN Schedule
      PROVE  GatedReward(Own(obs, k), t) = GatedReward(Own(obs, m), t)
  <2>1. PICK r \in Nat : /\ GatedReward(Own(Without(m), m), t) = r
                         /\ GatedReward(Own(obs, k), t) = r \div Cardinality(CopiesOf(m))
    BY GatedOfCopy
  <2>2. PICK q \in Nat : /\ GatedReward(Own(Without(m), m), t) = q
                         /\ GatedReward(Own(obs, m), t) = q \div Cardinality(CopiesOf(m))
    BY <1>1, GatedOfCopy
  <2>3. r = q
    BY <2>1, <2>2
  <2>4. QED
    BY <2>1, <2>2, <2>3, Zenon
<1>4. QED
  BY <1>1, <1>2, <1>3, SameWorth

\* An aggregate has either no reward or that of its score.
LEMMA ScoreOfReward ==
  ASSUME NEW mine, Aggregate(mine).reward # 0
  PROVE  Aggregate(mine).reward = RobustScore(mine) * CompliantIn(Answered(mine))
  BY DEF Aggregate, CompliantIn

\* What the copies get together is what m is worth alone, up to rounding.
LEMMA CopiesTogether ==
  ASSUME IInv, RInv, status = "allocated", NEW m \in Eligible(aggregates), Unshared(m)
  PROVE  RewardOver(aggregates, CopiesOf(m))
           \in WorthWithin(Own(Without(m), m), -FamilyRounding(Cardinality(CopiesOf(m))),
                           -SpreadRounding(Cardinality(CopiesOf(m))))
               .. WorthWithin(Own(Without(m), m), FamilyRounding(Cardinality(CopiesOf(m))),
                              SpreadRounding(Cardinality(CopiesOf(m))))
<1>1. aggregates = [k \in Miners |-> Aggregate(Own(obs, k))]
  BY DEF RInv, Allocated, AggregateNetwork, Own
<1>2. m \in Miners /\ aggregates[m].reward > 0
  BY <1>1 DEF Eligible
<1>3. PICK C : /\ C = CopiesOf(m) /\ IsFiniteSet(C) /\ m \in C /\ C \in SUBSET Miners
               /\ Cardinality(C) \in Nat \ {0}
  BY <1>2, CopiesCount
<1>4. PICK n \in Nat \ {0} : n = Cardinality(C)
  BY <1>3
<1>5. PICK mine, copy : mine = Own(Without(m), m) /\ copy = Own(obs, m)
  OBVIOUS
<1>6. ASSUME NEW t \in DOMAIN Schedule
      PROVE  /\ GatedReward(mine, t) \in Nat /\ GatedReward(copy, t) \in Nat
             /\ n * GatedReward(copy, t) <= GatedReward(mine, t) + (n - 1)
             /\ GatedReward(mine, t) <= n * GatedReward(copy, t) + (n - 1)
  <2>1. PICK r \in Nat : GatedReward(mine, t) = r /\ GatedReward(copy, t) = r \div n
    BY <1>2, <1>3, <1>4, <1>5, GatedOfCopy
  <2>2. PICK q \in Nat : q = r \div n
    BY Parts
  <2>3. q * n <= r /\ r < q * n + n
    BY <2>2, Parts
  <2>4. PICK p \in Nat : p = q * n
    OBVIOUS
  <2>5. p = n * q
    BY <2>4
  <2>6. p <= r /\ r < p + n
    BY <2>3, <2>4
  <2>7. p <= r + (n - 1) /\ r <= p + (n - 1)
    BY <2>6
  <2>8. QED
    BY <2>1, <2>2, <2>5, <2>7
<1>7. PICK c \in Nat : c = CompliantIn(Answered(mine)) /\ c = CompliantIn(Answered(copy))
  <2>1. Single(obs) /\ Single(Without(m))
    BY WithoutFacts
  <2>2. Heads(Answered(Own(Without(m), m))) = Heads(Answered(Own(obs, m)))
    BY <1>2, SameHeads
  <2>3. /\ CompliantIn(Answered(Own(Without(m), m))) \in Nat
        /\ CompliantIn(Answered(Own(Without(m), m))) = CompliantIn(Answered(Own(obs, m)))
    BY <2>1, <2>2, HeadsEqual
  <2>4. QED
    BY <1>5, <2>3
<1>8. c = Cardinality({o \in Answered(mine) : o.compliant})
  BY <1>7 DEF CompliantIn
<1>9. PICK p, q : /\ p = WorthWithin(mine, -FamilyRounding(n), -SpreadRounding(n))
                  /\ q = WorthWithin(mine, FamilyRounding(n), SpreadRounding(n))
  OBVIOUS
<1>10. RobustScore(copy) \in Nat /\ n * (RobustScore(copy) * c) \in p .. q
  BY <1>6, <1>8, <1>9, WorthOff
<1>11. PICK a \in Nat : a = RobustScore(copy) * c
  BY <1>10
<1>12. aggregates[m].reward = a
  <2>1. aggregates[m] = Aggregate(copy)
    BY <1>1, <1>2, <1>5
  <2>2. Aggregate(copy).reward # 0
    BY <1>2, <2>1
  <2>3. Aggregate(copy).reward = RobustScore(copy) * CompliantIn(Answered(copy))
    BY <2>2, ScoreOfReward
  <2>4. QED
    BY <1>7, <1>11, <2>1, <2>3
<1>13. ASSUME NEW k \in C PROVE aggregates[k].reward = a
  <2>1. Aggregate(Own(obs, k)).reward = Aggregate(Own(obs, m)).reward
    BY <1>2, <1>3, SameRewards
  <2>2. aggregates[k] = Aggregate(Own(obs, k)) /\ aggregates[m] = Aggregate(Own(obs, m))
    BY <1>1, <1>2, <1>3
  <2>3. QED
    BY <1>12, <2>1, <2>2
<1>14. RewardOver(aggregates, C) = a * n
  <2>1. PICK r : r = [k \in C |-> aggregates[k].reward]
    OBVIOUS
  <2>2. \A k \in C : r[k] = a
    BY <1>13, <2>1
  <2>3. RewardOver(aggregates, C) = SumOver(r, C)
    BY <1>3, <2>1, RewardIs
  <2>4. SumOver(r, C) = a * Cardinality(C)
    BY <1>3, <2>2, SumConstant
  <2>5. QED
    BY <1>4, <2>3, <2>4
<1>15. a * n = n * a
  OBVIOUS
<1>16. RewardOver(aggregates, C) \in p .. q
  BY <1>10, <1>11, <1>14, <1>15
<1>17. QED
  BY <1>3, <1>4, <1>5, <1>9, <1>16, Zenon

\* What the property asks.
LEMMA CopiesRewarded == IInv /\ RInv => CopiesShareOneReward
<1>1. SUFFICES ASSUME IInv, RInv, status = "allocated", NEW m \in Eligible(aggregates),
                      ~ \E i \in DOMAIN obs :
                          /\ obs[i].miner \notin CopiesOf(m)
                          /\ <<obs[i].task, obs[i].strategy>> \in
                               {<<obs[g].task, obs[g].strategy>> :
                                  g \in {j \in DOMAIN obs : obs[j].miner = m /\ obs[j].available}}
               PROVE  RewardOver(aggregates, CopiesOf(m))
                        \in WorthWithin({o \in Deduplicated(Without(m)) : o.miner = m},
                                        -FamilyRounding(Cardinality(CopiesOf(m))),
                                        -SpreadRounding(Cardinality(CopiesOf(m))))
                            .. WorthWithin({o \in Deduplicated(Without(m)) : o.miner = m},
                                           FamilyRounding(Cardinality(CopiesOf(m))),
                                           SpreadRounding(Cardinality(CopiesOf(m))))
  BY DEF CopiesShareOneReward, Without
<1>2. Unshared(m)
  BY <1>1 DEF Unshared
<1>3. Own(Without(m), m) = {o \in Deduplicated(Without(m)) : o.miner = m}
  BY DEF Own
<1>4. QED
  BY <1>1, <1>2, <1>3, CopiesTogether

\* A portfolio under several names earns what it earns under one, up to the
\* rounding of its parts (deduplicate_task_rewards, _aggregate_scheduled_miner).
THEOREM CopiesShareReward == Spec => []CopiesShareOneReward
<1>1. QED
  BY PlanInvariance, CopiesRewarded, PTL

-----------------------------------------------------------------------------
(* The Merkle root determines its list of fixtures.                        *)

\* A level of the tree: digests that are all different.
IsLevel(l, m) ==
  /\ l = [i \in 1 .. m |-> l[i]] /\ Len(l) = m
  /\ \A i, j \in 1 .. m : l[i] = l[j] => i = j

\* A sequence given by its length.
LEMMA LengthOf ==
  ASSUME NEW m \in Nat, NEW l, l = [i \in 1 .. m |-> l[i]]
  PROVE  Len(l) = m
<1> DEFINE S == {l[i] : i \in 1 .. m}
<1>1. l \in [1 .. m -> S]
  OBVIOUS
<1>2. QED
  BY <1>1, SeqDef, LenProperties

\* How many parents a level has.
LEMMA Halves ==
  ASSUME NEW m \in Nat \ {0}
  PROVE  /\ (m + 1) \div 2 \in Nat \ {0} /\ 2 * ((m + 1) \div 2) \in {m, m + 1}
         /\ m # 1 => (m + 1) \div 2 < m
  OBVIOUS

\* The k-th parent is a node over the k-th pair.
LEMMA ParentIs ==
  ASSUME NEW m \in Nat \ {0}, NEW l, IsLevel(l, m)
  PROVE  /\ Len(Parents(l)) = (m + 1) \div 2
         /\ Parents(l) = [k \in 1 .. (m + 1) \div 2 |-> Parents(l)[k]]
         /\ \A k \in 1 .. (m + 1) \div 2 :
              Parents(l)[k] = <<"node", l[2 * k - 1], l[IF 2 * k <= m THEN 2 * k ELSE m]>>
<1>1. PICK h \in Nat : h = (m + 1) \div 2
  BY Halves
<1>2. PICK p : p = [k \in 1 .. h |-> <<"node", l[2 * k - 1], l[IF 2 * k <= m THEN 2 * k ELSE m]>>]
  OBVIOUS
<1>3. \A k \in 1 .. h : Min({2 * k, m}) = IF 2 * k <= m THEN 2 * k ELSE m
  <2>1. ASSUME NEW k \in 1 .. h PROVE Min({2 * k, m}) = IF 2 * k <= m THEN 2 * k ELSE m
    <3>1. 2 * k \in Int /\ m \in Int
      OBVIOUS
    <3>2. QED
      BY <3>1, MinMax
  <2>2. QED
    BY <2>1
<1>4. Parents(l) = [k \in 1 .. h |-> <<"node", l[2 * k - 1], l[Min({2 * k, m})]>>]
  BY <1>1 DEF Parents, IsLevel
<1>5. Parents(l) = p
  BY <1>2, <1>3, <1>4
<1>6. p = [k \in 1 .. h |-> p[k]]
  BY <1>2
<1>7. Len(p) = h
  BY <1>6, LengthOf
<1>8. QED
  BY <1>1, <1>2, <1>5, <1>6, <1>7

\* The parents of a level are a level.
LEMMA ParentsLevel ==
  ASSUME NEW m \in Nat \ {0}, NEW l, IsLevel(l, m)
  PROVE  IsLevel(Parents(l), (m + 1) \div 2)
<1>1. PICK h \in Nat : h = (m + 1) \div 2 /\ 2 * h \in {m, m + 1}
  BY Halves
<1>2. PICK p : p = Parents(l)
  OBVIOUS
<1>3. /\ Len(p) = h /\ p = [k \in 1 .. h |-> p[k]]
      /\ \A k \in 1 .. h : p[k] = <<"node", l[2 * k - 1], l[IF 2 * k <= m THEN 2 * k ELSE m]>>
  BY <1>1, <1>2, ParentIs
<1>4. ASSUME NEW i \in 1 .. h, NEW j \in 1 .. h, p[i] = p[j] PROVE i = j
  <2>1. l[2 * i - 1] = l[2 * j - 1]
    BY <1>3, <1>4
  <2>2. 2 * i - 1 \in 1 .. m /\ 2 * j - 1 \in 1 .. m
    BY <1>1
  <2>3. 2 * i - 1 = 2 * j - 1
    BY <2>1, <2>2 DEF IsLevel
  <2>4. QED
    BY <2>3
<1>5. QED
  BY <1>1, <1>2, <1>3, <1>4 DEF IsLevel

\* And they determine it, also its length: a last digest that is repeated is
\* not the digest of another fixture.
LEMMA ParentsDetermine ==
  ASSUME NEW m \in Nat \ {0}, NEW n \in Nat \ {0}, NEW a, NEW b, IsLevel(a, m), IsLevel(b, n),
         Parents(a) = Parents(b)
  PROVE  m = n /\ a = b
<1>1. PICK h \in Nat \ {0} : h = (m + 1) \div 2 /\ 2 * h \in {m, m + 1}
  BY Halves
<1>2. PICK g \in Nat \ {0} : g = (n + 1) \div 2 /\ 2 * g \in {n, n + 1}
  BY Halves
<1>3. PICK p : p = Parents(a) /\ p = Parents(b)
  OBVIOUS
<1>4. /\ Len(p) = h
      /\ \A k \in 1 .. h : p[k] = <<"node", a[2 * k - 1], a[IF 2 * k <= m THEN 2 * k ELSE m]>>
  BY <1>1, <1>3, ParentIs
<1>5. /\ Len(p) = g
      /\ \A k \in 1 .. g : p[k] = <<"node", b[2 * k - 1], b[IF 2 * k <= n THEN 2 * k ELSE n]>>
  BY <1>2, <1>3, ParentIs
<1>6. g = h
  BY <1>4, <1>5
<1>7. \A k \in 1 .. h : /\ a[2 * k - 1] = b[2 * k - 1]
                        /\ a[IF 2 * k <= m THEN 2 * k ELSE m] = b[IF 2 * k <= n THEN 2 * k ELSE n]
  <2>1. SUFFICES ASSUME NEW k \in 1 .. h
                 PROVE  /\ a[2 * k - 1] = b[2 * k - 1]
                        /\ a[IF 2 * k <= m THEN 2 * k ELSE m] = b[IF 2 * k <= n THEN 2 * k ELSE n]
    OBVIOUS
  <2>2. PICK x, y : x = a[IF 2 * k <= m THEN 2 * k ELSE m] /\ y = b[IF 2 * k <= n THEN 2 * k ELSE n]
    OBVIOUS
  <2>3. p[k] = <<"node", a[2 * k - 1], x>>
    BY <1>4, <2>2, Zenon
  <2>4. p[k] = <<"node", b[2 * k - 1], y>>
    BY <1>5, <1>6, <2>2, Zenon
  <2>5. a[2 * k - 1] = b[2 * k - 1] /\ x = y
    BY <2>3, <2>4
  <2>6. QED
    BY <2>2, <2>5, Zenon
<1>8. m = n
  <2>1. a[2 * h - 1] = b[2 * h - 1]
    BY <1>1, <1>7
  <2>2. a[IF 2 * h <= m THEN 2 * h ELSE m] = b[IF 2 * h <= n THEN 2 * h ELSE n]
    BY <1>1, <1>7
  <2>3. CASE m = 2 * h - 1 /\ n = 2 * h
    <3>1. b[2 * h] = b[2 * h - 1]
      BY <2>1, <2>2, <2>3
    <3>2. 2 * h \in 1 .. n /\ 2 * h - 1 \in 1 .. n
      BY <2>3
    <3>3. 2 * h = 2 * h - 1
      BY <3>1, <3>2 DEF IsLevel
    <3>4. QED
      BY <3>3
  <2>4. CASE m = 2 * h /\ n = 2 * h - 1
    <3>1. a[2 * h] = a[2 * h - 1]
      BY <2>1, <2>2, <2>4
    <3>2. 2 * h \in 1 .. m /\ 2 * h - 1 \in 1 .. m
      BY <2>4
    <3>3. 2 * h = 2 * h - 1
      BY <3>1, <3>2 DEF IsLevel
    <3>4. QED
      BY <3>3
  <2>5. QED
    BY <1>1, <1>2, <1>6, <2>3, <2>4
<1>9. ASSUME NEW i \in 1 .. m PROVE a[i] = b[i]
  <2>1. PICK k \in 1 .. h : i = 2 * k - 1 \/ i = 2 * k
    <3>1. (i + 1) \div 2 \in 1 .. h /\ (i = 2 * ((i + 1) \div 2) - 1 \/ i = 2 * ((i + 1) \div 2))
      BY <1>1
    <3>2. QED
      BY <3>1
  <2>2. CASE i = 2 * k - 1
    BY <1>7, <2>2
  <2>3. CASE i = 2 * k
    BY <1>7, <1>8, <2>3
  <2>4. QED
    BY <2>1, <2>2, <2>3
<1>10. a = [i \in 1 .. m |-> a[i]] /\ b = [i \in 1 .. m |-> b[i]]
  BY <1>8 DEF IsLevel
<1>11. [i \in 1 .. m |-> a[i]] = [i \in 1 .. m |-> b[i]]
  BY <1>9
<1>12. QED
  BY <1>8, <1>10, <1>11, Zenon

\* One pass of the loop that builds the tree; the root alone is left as it is.
Climb(level) == IF Len(level) = 1 THEN level ELSE Parents(level)

\* The levels of a tree of at most n passes.
LevelAt(up, base, k) == IF k = 0 THEN base ELSE Climb(up[k - 1])
Tree(up, base, n)    == up = [k \in 0 .. n |-> LevelAt(up, base, k)]

\* There is such a function.
LEMMA TreeExists ==
  ASSUME NEW base, NEW n \in Nat
  PROVE  \E up : Tree(up, base, n)
<1> DEFINE bad == {m \in Nat : ~ \E up : Tree(up, base, m)}
<1>1. SUFFICES ASSUME bad # {} PROVE FALSE
  OBVIOUS
<1>2. PICK m \in bad : \A j \in bad : m <= j
  <2>1. bad \in SUBSET Nat
    OBVIOUS
  <2> HIDE DEF bad
  <2>2. QED
    BY <1>1, <2>1, MinOfNats
<1>3. m \in Nat /\ ~ \E up : Tree(up, base, m)
  OBVIOUS
<1>4. m # 0
  <2>1. PICK up : up = [k \in 0 .. 0 |-> base]
    OBVIOUS
  <2>2. \A k \in 0 .. 0 : LevelAt(up, base, k) = base
    BY DEF LevelAt
  <2>3. Tree(up, base, 0)
    BY <2>1, <2>2 DEF Tree
  <2>4. QED
    BY <1>3, <2>3
<1>5. m - 1 \in Nat /\ m - 1 \notin bad
  <2> HIDE DEF bad
  <2>1. QED
    BY <1>2, <1>3, <1>4
<1>6. PICK up : up = [k \in 0 .. m - 1 |-> LevelAt(up, base, k)]
  BY <1>5 DEF Tree
<1>7. PICK new : new = [k \in 0 .. m |-> LevelAt(up, base, k)]
  OBVIOUS
<1>8. \A k \in 0 .. m - 1 : new[k] = up[k]
  BY <1>5, <1>6, <1>7
<1>9. \A k \in 0 .. m : LevelAt(new, base, k) = LevelAt(up, base, k)
  <2>1. SUFFICES ASSUME NEW k \in 0 .. m PROVE LevelAt(new, base, k) = LevelAt(up, base, k)
    OBVIOUS
  <2>2. CASE k = 0
    BY <2>2 DEF LevelAt
  <2>3. CASE k # 0
    <3>1. new[k - 1] = up[k - 1]
      BY <1>3, <1>8, <2>3
    <3>2. QED
      BY <2>3, <3>1 DEF LevelAt
  <2>4. QED
    BY <2>2, <2>3
<1>10. Tree(new, base, m)
  BY <1>7, <1>9 DEF Tree
<1>11. QED
  BY <1>3, <1>10

Leaves(fixtures) == [i \in DOMAIN fixtures |-> <<"leaf", i, fixtures[i]>>]

\* The root is the last level's only digest.
LEMMA RootIs ==
  ASSUME NEW n \in Nat, NEW fixtures, DOMAIN fixtures = 1 .. n,
         NEW up, Tree(up, Leaves(fixtures), n)
  PROVE  MerkleRoot(fixtures) = up[n][1]
<1> DEFINE climbs(iter) == iter = [s \in SUBSET (1 .. n) |->
                                     IF s = {} THEN Leaves(fixtures)
                                     ELSE Climb(iter[s \ {Max(s)}])]
<1>1. PICK j : j = CHOOSE iter : climbs(iter)
  OBVIOUS
<1>2. IsFiniteSet(1 .. n) /\ Cardinality(1 .. n) = n
  <2>1. n >= 1 \/ n = 0
    OBVIOUS
  <2>2. QED
    BY <2>1, FS_Interval
<1>3. \A s \in SUBSET (1 .. n) : IsFiniteSet(s) /\ Cardinality(s) \in 0 .. n
  <2>1. ASSUME NEW s \in SUBSET (1 .. n) PROVE IsFiniteSet(s) /\ Cardinality(s) \in 0 .. n
    <3>1. IsFiniteSet(s) /\ Cardinality(s) <= n
      <4>1. PICK N : N = 1 .. n
        OBVIOUS
      <4>2. IsFiniteSet(N) /\ Cardinality(N) = n /\ s \in SUBSET N
        BY <1>2, <4>1
      <4>3. IsFiniteSet(s) /\ Cardinality(s) <= Cardinality(N)
        BY <4>2, FS_Subset
      <4>4. QED
        BY <4>2, <4>3
    <3>2. Cardinality(s) \in Nat
      BY <3>1, FS_CardinalityType
    <3>3. QED
      BY <3>1, <3>2
  <2>2. QED
    BY <2>1
<1>4. \A s \in SUBSET (1 .. n) : s # {} => Max(s) \in s
  <2>1. ASSUME NEW s \in SUBSET (1 .. n), s # {} PROVE Max(s) \in s
    <3>1. PICK x \in s : \A y \in s : y <= x
      <4>1. s \in SUBSET Nat /\ IsFiniteSet(s)
        BY <1>3
      <4>2. QED
        BY <2>1, <4>1, MaxOfNats
    <3>2. \A y \in s : x >= y
      BY <3>1
    <3>3. QED
      BY <3>2 DEF Max
  <2>2. QED
    BY <2>1
<1>5. PICK it : it = [s \in SUBSET (1 .. n) |-> up[Cardinality(s)]]
  OBVIOUS
<1>6. climbs(it)
  <2>1. ASSUME NEW s \in SUBSET (1 .. n)
        PROVE  it[s] = IF s = {} THEN Leaves(fixtures) ELSE Climb(it[s \ {Max(s)}])
    <3>1. PICK c \in 0 .. n : c = Cardinality(s)
      BY <1>3
    <3>2. it[s] = LevelAt(up, Leaves(fixtures), c)
      BY <1>5, <3>1 DEF Tree
    <3>3. CASE s = {}
      <4>1. c = 0
        BY <3>1, <3>3, FS_EmptySet
      <4>2. QED
        BY <3>2, <3>3, <4>1 DEF LevelAt
    <3>4. CASE s # {}
      <4>1. PICK x \in s : x = Max(s)
        BY <1>4, <3>4
      <4>2. Cardinality(s \ {x}) = c - 1 /\ c # 0
        BY <1>3, <3>1, <3>4, FS_RemoveElement, FS_EmptySet
      <4>3. it[s \ {x}] = up[c - 1]
        BY <1>5, <4>2
      <4>4. QED
        BY <3>2, <3>4, <4>1, <4>2, <4>3 DEF LevelAt
    <3>5. QED
      BY <3>3, <3>4
  <2>2. it = [s \in SUBSET (1 .. n) |-> it[s]]
    BY <1>5
  <2>3. QED
    BY <2>1, <2>2
<1>7. climbs(j)
  <2> HIDE DEF climbs
  <2>1. QED
    BY <1>1, <1>6
<1>8. MerkleRoot(fixtures) = j[1 .. n][1]
  BY <1>1 DEF MerkleRoot, FoldLeft, MapThenFoldSet, Climb, Leaves
<1>9. j = it
  <2> DEFINE good == {s \in SUBSET (1 .. n) : j[s] = it[s]}
  <2>1. ASSUME NEW s \in SUBSET (1 .. n), \A r \in SUBSET s : r # s => r \in good
        PROVE  s \in good
    <3>1. j[s] = IF s = {} THEN Leaves(fixtures) ELSE Climb(j[s \ {Max(s)}])
      BY <1>7
    <3>2. it[s] = IF s = {} THEN Leaves(fixtures) ELSE Climb(it[s \ {Max(s)}])
      BY <1>6
    <3>3. CASE s = {}
      BY <3>1, <3>2, <3>3
    <3>4. CASE s # {}
      <4>1. PICK x \in s : x = Max(s)
        BY <1>4, <3>4
      <4>2. s \ {x} \in SUBSET s /\ s \ {x} # s
        BY <4>1
      <4>3. j[s \ {x}] = it[s \ {x}]
        BY <2>1, <4>2
      <4>4. QED
        BY <3>1, <3>2, <3>4, <4>1, <4>3
    <3>5. QED
      BY <3>3, <3>4
  <2>2. good = SUBSET (1 .. n)
    <3>1. good \in SUBSET SUBSET (1 .. n)
      OBVIOUS
    <3> HIDE DEF good
    <3>2. QED
      BY <1>2, <2>1, <3>1, SubsetInduction
  <2>3. \A s \in SUBSET (1 .. n) : j[s] = it[s]
    BY <2>2
  <2>4. j = [s \in SUBSET (1 .. n) |-> j[s]] /\ it = [s \in SUBSET (1 .. n) |-> it[s]]
    BY <1>5, <1>7
  <2> HIDE DEF good, climbs
  <2>5. QED
    BY <2>3, <2>4
<1>10. it[1 .. n] = up[n]
  BY <1>2, <1>5
<1>11. QED
  BY <1>8, <1>9, <1>10

\* Every level is one, and n passes reduce n fixtures to the root.
LEMMA TreeLevels ==
  ASSUME NEW n \in Nat \ {0}, NEW fixtures, DOMAIN fixtures = 1 .. n,
         NEW up, Tree(up, Leaves(fixtures), n)
  PROVE  /\ \A k \in 0 .. n : \E m \in Nat \ {0} : IsLevel(up[k], m)
         /\ Len(up[n]) = 1
<1> DEFINE small(k) == \E m \in Nat \ {0} : IsLevel(up[k], m) /\ (m = 1 \/ m <= n - k)
           bad == {k \in 0 .. n : ~small(k)}
<1>1. \A k \in 0 .. n : up[k] = LevelAt(up, Leaves(fixtures), k)
  BY DEF Tree
<1>2. ASSUME bad # {} PROVE FALSE
  <2>1. PICK k \in bad : \A j \in bad : k <= j
    <3>1. bad \in SUBSET Nat
      OBVIOUS
    <3> HIDE DEF bad
    <3>2. QED
      BY <1>2, <3>1, MinOfNats
  <2>2. k \in 0 .. n /\ ~small(k)
    OBVIOUS
  <2>3. CASE k = 0
    <3>1. PICK l : l = Leaves(fixtures)
      OBVIOUS
    <3>2. l = [i \in 1 .. n |-> <<"leaf", i, fixtures[i]>>]
      BY <3>1 DEF Leaves
    <3>3. l = [i \in 1 .. n |-> l[i]] /\ \A i, j \in 1 .. n : l[i] = l[j] => i = j
      BY <3>2
    <3>4. IsLevel(l, n)
      BY <3>3, LengthOf DEF IsLevel
    <3>5. up[k] = l
      BY <1>1, <2>2, <2>3, <3>1 DEF LevelAt
    <3>6. QED
      BY <2>2, <2>3, <3>4, <3>5
  <2>4. CASE k # 0
    <3>1. k - 1 \in 0 .. n /\ small(k - 1)
      <4>1. k - 1 \in 0 .. n /\ k - 1 \notin bad
        <5> HIDE DEF bad
        <5>1. QED
          BY <2>1, <2>2, <2>4
      <4>2. QED
        BY <4>1
    <3>2. PICK m \in Nat \ {0} : IsLevel(up[k - 1], m) /\ (m = 1 \/ m <= n - (k - 1))
      BY <3>1
    <3>3. up[k] = Climb(up[k - 1]) /\ Len(up[k - 1]) = m
      BY <1>1, <2>2, <2>4, <3>2 DEF LevelAt, IsLevel
    <3>4. CASE m = 1
      BY <2>2, <3>2, <3>3, <3>4 DEF Climb
    <3>5. CASE m # 1
      <4>1. PICK h \in Nat \ {0} : h = (m + 1) \div 2 /\ h < m
        BY <3>5, Halves
      <4>2. IsLevel(up[k], h)
        BY <3>2, <3>3, <3>5, <4>1, ParentsLevel DEF Climb
      <4>3. h <= n - k
        BY <2>2, <3>2, <3>5, <4>1
      <4>4. QED
        BY <2>2, <4>2, <4>3
    <3>6. QED
      BY <3>4, <3>5
  <2>5. QED
    BY <2>3, <2>4
<1>3. \A k \in 0 .. n : small(k)
  BY <1>2
<1>4. \A k \in 0 .. n : \E m \in Nat \ {0} : IsLevel(up[k], m) /\ (m = 1 \/ m <= n - k)
  BY <1>3
<1>5. Len(up[n]) = 1
  <2>1. PICK m \in Nat \ {0} : IsLevel(up[n], m) /\ (m = 1 \/ m <= n - n)
    BY <1>4
  <2>2. QED
    BY <2>1 DEF IsLevel
<1>6. QED
  BY <1>4, <1>5

\* A level below the leaves that was made of more than one digest is of nodes.
LEMMA LevelBelow ==
  ASSUME NEW n \in Nat \ {0}, NEW fixtures, DOMAIN fixtures = 1 .. n,
         NEW up, Tree(up, Leaves(fixtures), n), NEW k \in 0 .. n
  PROVE  \/ k = 0 /\ up[k] = Leaves(fixtures)
         \/ k # 0 /\ up[k - 1] = up[k]
         \/ /\ k # 0 /\ up[k] = Parents(up[k - 1]) /\ up[k][1][1] = "node"
            /\ \E m \in Nat \ {0} : IsLevel(up[k - 1], m)
<1>1. up[k] = LevelAt(up, Leaves(fixtures), k)
  BY DEF Tree
<1>2. CASE k = 0
  BY <1>1, <1>2 DEF LevelAt
<1>3. CASE k # 0 /\ Len(up[k - 1]) = 1
  BY <1>1, <1>3 DEF LevelAt, Climb
<1>4. CASE k # 0 /\ Len(up[k - 1]) # 1
  <2>1. up[k] = Parents(up[k - 1])
    BY <1>1, <1>4 DEF LevelAt, Climb
  <2>2. k - 1 \in 0 .. n
    BY <1>4
  <2>3. PICK m \in Nat \ {0} : IsLevel(up[k - 1], m)
    BY <2>2, TreeLevels
  <2>4. 1 \in 1 .. (m + 1) \div 2
    BY Halves
  <2>5. PICK l : l = up[k - 1] /\ IsLevel(l, m)
    BY <2>3
  <2>6. PICK x : x = l[IF 2 * 1 <= m THEN 2 * 1 ELSE m]
    OBVIOUS
  <2>7. Parents(l)[1] = <<"node", l[2 * 1 - 1], x>>
    <3>1. \A i \in 1 .. (m + 1) \div 2 :
            Parents(l)[i] = <<"node", l[2 * i - 1], l[IF 2 * i <= m THEN 2 * i ELSE m]>>
      BY <2>5, ParentIs
    <3>2. QED
      BY <2>4, <2>6, <3>1, Zenon
  <2>8. Parents(l)[1][1] = "node"
    BY <2>7
  <2>9. QED
    BY <1>4, <2>1, <2>3, <2>5, <2>8
<1>5. QED
  BY <1>2, <1>3, <1>4

\* Two trees with a level in common have the same leaves.
LEMMA OneTree ==
  ASSUME NEW n \in Nat \ {0}, NEW a, DOMAIN a = 1 .. n, NEW u, Tree(u, Leaves(a), n),
         NEW m \in Nat \ {0}, NEW b, DOMAIN b = 1 .. m, NEW v, Tree(v, Leaves(b), m),
         NEW p \in 0 .. n, NEW q \in 0 .. m, u[p] = v[q]
  PROVE  Leaves(a) = Leaves(b)
<1> DEFINE sums == {s \in Nat : \E i \in 0 .. n, j \in 0 .. m : i + j = s /\ u[i] = v[j]}
<1>1. PICK s \in sums : \A t \in sums : s <= t
  <2>1. sums \in SUBSET Nat
    OBVIOUS
  <2>2. p + q \in sums
    OBVIOUS
  <2> HIDE DEF sums
  <2>3. QED
    BY <2>1, <2>2, MinOfNats
<1>2. PICK i \in 0 .. n, j \in 0 .. m : i + j = s /\ u[i] = v[j]
  OBVIOUS
<1>3. ASSUME NEW g \in 0 .. n, NEW h \in 0 .. m, u[g] = v[h] PROVE i + j <= g + h
  <2>1. g + h \in sums
    BY <1>3
  <2> HIDE DEF sums
  <2>2. QED
    BY <1>1, <1>2, <2>1
<1> HIDE DEF sums
<1>4. ~ (i # 0 /\ u[i - 1] = u[i])
  <2>1. ASSUME i # 0, u[i - 1] = u[i] PROVE FALSE
    <3>1. i - 1 \in 0 .. n
      BY <2>1
    <3>2. i + j <= (i - 1) + j
      BY <1>2, <1>3, <2>1, <3>1
    <3>3. QED
      BY <3>2
  <2>2. QED
    BY <2>1
<1>5. ~ (j # 0 /\ v[j - 1] = v[j])
  <2>1. ASSUME j # 0, v[j - 1] = v[j] PROVE FALSE
    <3>1. j - 1 \in 0 .. m
      BY <2>1
    <3>2. i + j <= i + (j - 1)
      BY <1>2, <1>3, <2>1, <3>1
    <3>3. QED
      BY <3>2
  <2>2. QED
    BY <2>1
<1>6. \/ i = 0 /\ u[i] = Leaves(a)
      \/ /\ i # 0 /\ u[i] = Parents(u[i - 1]) /\ u[i][1][1] = "node"
         /\ \E k \in Nat \ {0} : IsLevel(u[i - 1], k)
  BY <1>4, LevelBelow
<1>7. \/ j = 0 /\ v[j] = Leaves(b)
      \/ /\ j # 0 /\ v[j] = Parents(v[j - 1]) /\ v[j][1][1] = "node"
         /\ \E k \in Nat \ {0} : IsLevel(v[j - 1], k)
  BY <1>5, LevelBelow
<1>8. Leaves(a)[1][1] = "leaf" /\ Leaves(b)[1][1] = "leaf"
  BY DEF Leaves
<1>9. CASE i = 0
  BY <1>2, <1>6, <1>7, <1>8, <1>9
<1>10. CASE j = 0
  BY <1>2, <1>6, <1>7, <1>8, <1>10
<1>11. CASE i # 0 /\ j # 0
  <2>1. PICK k \in Nat \ {0} : IsLevel(u[i - 1], k)
    BY <1>6, <1>11
  <2>2. PICK l \in Nat \ {0} : IsLevel(v[j - 1], l)
    BY <1>7, <1>11
  <2>3. Parents(u[i - 1]) = Parents(v[j - 1])
    BY <1>2, <1>6, <1>7, <1>11
  <2>4. u[i - 1] = v[j - 1]
    BY <2>1, <2>2, <2>3, ParentsDetermine
  <2>5. i - 1 \in 0 .. n /\ j - 1 \in 0 .. m
    BY <1>11
  <2>6. i + j <= (i - 1) + (j - 1)
    BY <1>3, <2>4, <2>5
  <2>7. QED
    BY <2>6
<1>12. QED
  BY <1>9, <1>10, <1>11

\* The root determines the list of fixtures, its length and order included
\* (hidden_fixture_merkle_root: leaves with their index, and a last digest that
\* is repeated on an odd level).
THEOREM RootBinds ==
  ASSUME NEW S, NEW a \in Seq(S), NEW b \in Seq(S), a # <<>>, b # <<>>,
         MerkleRoot(a) = MerkleRoot(b)
  PROVE  a = b
<1>1. PICK n \in Nat \ {0} : n = Len(a) /\ DOMAIN a = 1 .. n /\ a = [i \in 1 .. n |-> a[i]]
  <2>1. Len(a) \in Nat /\ DOMAIN a = 1 .. Len(a) /\ a \in [1 .. Len(a) -> S]
    BY LenProperties
  <2>2. Len(a) # 0
    BY EmptySeq
  <2>3. QED
    BY <2>1, <2>2
<1>2. PICK m \in Nat \ {0} : m = Len(b) /\ DOMAIN b = 1 .. m /\ b = [i \in 1 .. m |-> b[i]]
  <2>1. Len(b) \in Nat /\ DOMAIN b = 1 .. Len(b) /\ b \in [1 .. Len(b) -> S]
    BY LenProperties
  <2>2. Len(b) # 0
    BY EmptySeq
  <2>3. QED
    BY <2>1, <2>2
<1>3. PICK u : Tree(u, Leaves(a), n)
  BY TreeExists
<1>4. PICK v : Tree(v, Leaves(b), m)
  BY TreeExists
<1>5. u[n] = v[m]
  <2>1. u[n][1] = v[m][1]
    BY <1>1, <1>2, <1>3, <1>4, RootIs
  <2>2. n \in 0 .. n /\ m \in 0 .. m
    OBVIOUS
  <2>3. PICK k \in Nat \ {0} : IsLevel(u[n], k) /\ Len(u[n]) = 1
    BY <1>1, <1>3, <2>2, TreeLevels
  <2>4. PICK l \in Nat \ {0} : IsLevel(v[m], l) /\ Len(v[m]) = 1
    BY <1>2, <1>4, <2>2, TreeLevels
  <2>5. PICK x, y : x = u[n] /\ y = v[m]
    OBVIOUS
  <2>6. x = [i \in 1 .. 1 |-> x[i]] /\ y = [i \in 1 .. 1 |-> y[i]] /\ x[1] = y[1]
    BY <2>1, <2>3, <2>4, <2>5 DEF IsLevel
  <2>7. \A i \in 1 .. 1 : x[i] = y[i]
    BY <2>6
  <2>8. x = y
    BY <2>6, <2>7
  <2>9. QED
    BY <2>5, <2>8
<1>6. Leaves(a) = Leaves(b)
  <2>1. n \in 0 .. n /\ m \in 0 .. m
    OBVIOUS
  <2>2. QED
    BY <1>1, <1>2, <1>3, <1>4, <1>5, <2>1, OneTree
<1>7. PICK l : l = [i \in 1 .. n |-> <<"leaf", i, a[i]>>] /\ l = [i \in 1 .. m |-> <<"leaf", i, b[i]>>]
  BY <1>1, <1>2, <1>6 DEF Leaves
<1>8. 1 .. n = 1 .. m
  BY <1>7
<1>9. \A i \in 1 .. n : a[i] = b[i]
  <2>1. ASSUME NEW i \in 1 .. n PROVE a[i] = b[i]
    <3>1. l[i] = <<"leaf", i, a[i]>>
      BY <1>7
    <3>2. l[i] = <<"leaf", i, b[i]>>
      BY <1>7, <1>8
    <3>3. QED
      BY <3>1, <3>2
  <2>2. QED
    BY <2>1
<1>10. a = [i \in 1 .. n |-> a[i]] /\ b = [i \in 1 .. n |-> b[i]]
  BY <1>1, <1>2, <1>8
<1>11. QED
  BY <1>9, <1>10

\* So a public task can be opened in one way only, also before an auditor that
\* regenerates nothing (audit_task_reveal without a factory): all its reveals
\* that pass agree in every field.
THEOREM OneOpeningPerTask ==
  ASSUME NEW public, NEW S, NEW r, r.fixtures \in Seq(S), NEW s, s.fixtures \in Seq(S),
         r.fixtures # <<>>, s.fixtures # <<>>, NEW g, NEW h,
         AuditTaskReveal(public, r, g), AuditTaskReveal(public, s, h)
  PROVE  \A x \in RevealFields : r[x] = s[x]
<1>1. /\ public.task_id = r.task_id /\ public.task_id = s.task_id
      /\ MerkleRoot(r.fixtures) = r.root /\ MerkleRoot(s.fixtures) = s.root
      /\ CommitmentPayload(public, r) = CommitmentPayload(public, s)
  BY DEF AuditTaskReveal
<1>2. r.seed = s.seed /\ r.salt = s.salt /\ r.root = s.root
  BY <1>1, CommitmentDetermines
<1>3. r.fixtures = s.fixtures
  BY <1>1, <1>2, RootBinds
<1>4. QED
  BY <1>1, <1>2, <1>3 DEF RevealFields
=============================================================================
