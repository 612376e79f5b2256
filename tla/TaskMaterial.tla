----------------------------- MODULE TaskMaterial -----------------------------
(***************************************************************************)
(* What a benchmark task is made of: the hidden fixtures that follow from  *)
(* the secret seed, the commitment that is published with the task, and    *)
(* the checks that a revealed task passes before anything is measured on   *)
(* it (planrace/taskgen_v2.py, evaluation_v2.py, benchmark_v2.py).         *)
(*                                                                         *)
(* A private task is a record [public, reveal]; the terms of its public    *)
(* part are the arguments of create_task_v2.  A digest is the value it is  *)
(* taken of, so two digests agree exactly when these values do.            *)
(***************************************************************************)
EXTENDS Gates, SequencesExt

CONSTANTS
  QueryFamilies,       \* QUERY_FAMILIES
  HoldoutProfiles,     \* HOLDOUT_PROFILES, their fixture ids in order
  PublicTrainingSeed

ASSUME MaterialAssumption ==
  /\ HoldoutProfiles \in Seq(Range(HoldoutProfiles)) /\ Len(HoldoutProfiles) >= 2
  /\ IsInjective(HoldoutProfiles)

-----------------------------------------------------------------------------
\* The generator.  _derive_seed keys one generator per fixture and family.
DeriveSeed(secret, id, family) == <<secret, family, id>>

\* _generate_fixture: rows and then parameters are drawn from one seed; the
\* row count and the image of the database follow from the rows.
GenerateFixture(seed, id, family) ==
  [fixture_id |-> id, content |-> <<"rows", seed>>, parameters |-> <<family, seed>>]

\* generate_hidden_fixtures, of a known family.
HiddenFixtures(secret, family) ==
  [i \in DOMAIN HoldoutProfiles |->
     LET id == HoldoutProfiles[i]
     IN  GenerateFixture(DeriveSeed(secret, id, family), id, family)]

\* generate_public_training_fixture, as it is published.
TrainingFixture(family) ==
  LET seed == DeriveSeed(PublicTrainingSeed, "training_public_v2", family)
  IN  [seed |-> PublicTrainingSeed, content |-> GenerateFixture(seed, "training_public_v2", family).content]

-----------------------------------------------------------------------------
Parents(level) ==
  [k \in 1 .. (Len(level) + 1) \div 2 |->
     <<"node", level[2 * k - 1], level[Min({2 * k, Len(level)})]>>]

\* hidden_fixture_merkle_root: the leaves carry their index, an odd level
\* repeats its last digest.
MerkleRoot(fixtures) ==
  LET leaves == [i \in DOMAIN fixtures |-> <<"leaf", i, fixtures[i]>>]
      climb(level, f) == IF Len(level) = 1 THEN level ELSE Parents(level)
  IN  FoldLeft(climb, leaves, fixtures)[1]

\* _commitment_payload: all of the public task but the number of holdouts.
CommitmentPayload(public, reveal) ==
  [task_id |-> public.task_id, terms |-> public.terms,
   seed |-> reveal.seed, salt |-> reveal.salt, root |-> reveal.root]

\* create_task_v2 raises ValueError for these draws and fixtures.
CreateRaises(draw, fixtures) ==
  \/ draw.salt = draw.seed
  \/ Len(fixtures) < 2
  \/ \E i, j \in DOMAIN fixtures : i # j /\ fixtures[i].fixture_id = fixtures[j].fixture_id

CreateTask(terms, draw, fixtures) ==
  LET reveal == [task_id |-> draw.task_id, seed |-> draw.seed, salt |-> draw.salt,
                 fixtures |-> fixtures, root |-> MerkleRoot(fixtures)]
      named  == [task_id |-> draw.task_id, terms |-> terms]
  IN  [public |-> [task_id |-> named.task_id, terms |-> terms, holdouts |-> Len(fixtures),
                   commitment |-> CommitmentPayload(named, reveal)],
       reveal |-> reveal]

\* create_benchmark_task_v2: the family fixes all terms but those of the
\* owner (hotkey, engine, generator, policies, budget and deadline).
BenchmarkTerms(owner, family) ==
  [owner |-> owner, family |-> family, schema |-> "v2", sql |-> <<"sql", family>>,
   training |-> TrainingFixture(family), ranges |-> <<"ranges", family>>]

CreateBenchmarkTask(owner, family, draw) ==
  CreateTask(BenchmarkTerms(owner, family), draw, HiddenFixtures(draw.seed, family))

-----------------------------------------------------------------------------
\* Fault: the commitment is not compared.
AuditTaskRevealFault(public, reveal, regenerated) ==
  /\ public.task_id = reveal.task_id
  /\ public.holdouts = Len(reveal.fixtures)
  /\ MerkleRoot(reveal.fixtures) = reveal.root
  /\ regenerated = reveal.fixtures

\* audit_task_reveal with a factory that regenerates the given fixtures.
AuditTaskReveal(public, reveal, regenerated) ==
  /\ public.task_id = reveal.task_id
  /\ public.holdouts = Len(reveal.fixtures)
  /\ MerkleRoot(reveal.fixtures) = reveal.root
  /\ regenerated = reveal.fixtures
  /\ public.commitment = CommitmentPayload(public, reveal)

RevealVerifies(private) ==
  AuditTaskReveal(private.public, private.reveal,
                  HiddenFixtures(private.reveal.seed, private.public.terms.family))

\* _validate_and_regenerate_task, from its first check to its last.
TaskRefusal(private) ==
  LET terms == private.public.terms
      due   == BenchmarkTerms(terms.owner, terms.family)
  IN  FirstClosed(<<
        <<terms.family \notin QueryFamilies, "unknown benchmark family">>,
        <<~RevealVerifies(private), "reveal or fixtures do not verify">>,
        <<terms.sql # due.sql, "reference SQL">>,
        <<terms.schema # due.schema, "schema">>,
        <<terms.ranges # due.ranges, "parameter ranges">>,
        <<terms.training # due.training, "public training fixture">>>>)
=============================================================================
