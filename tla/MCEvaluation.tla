---------------------------- MODULE MCEvaluation ----------------------------
(* Four tasks, three of family f and one of family g; three miners.  a1 and  *)
(* a2 are one executable strategy with two metadata, b another with the same *)
(* plan, c one with a plan of its own and n the empty index set.  The entropy *)
(* source can repeat the seed of the first task as its salt.                 *)
EXTENDS Evaluation, TLC

CONSTANTS f, g, m1, m2, m3, a1, a2, b1, c1, n1, A, B, C, N, p, q, r

MCSchedule == <<f, f, f, g>>
MCStrategyOf == (a1 :> A) @@ (a2 :> A) @@ (b1 :> B) @@ (c1 :> C) @@ (n1 :> N)
MCPlanOf == (A :> p) @@ (B :> p) @@ (C :> q) @@ (N :> r)

MCTrials(late) ==
  [i \in 1 .. TrialCount |->
     [worker |-> 1, order |-> IF i % 2 = 1 THEN "baseline-first" ELSE "candidate-first",
      baselineTimedOut |-> FALSE, candidateTimedOut |-> i \in late]]

Fast   == Result("none", TRUE, TRUE, MCTrials({}), TRUE, 2)
Late   == Result("none", TRUE, TRUE, MCTrials({1}), TRUE, 1)
Same   == Result("none", TRUE, TRUE, MCTrials({}), FALSE, 1)
Wrong  == Result("result_mismatch", FALSE, TRUE, <<>>, TRUE, 0)
Broken == Failure("query_timeout")

Certain == (A :> {Fast}) @@ (B :> {Late}) @@ (C :> {Fast}) @@ (N :> {Same})

MCOutcomesOf ==
  <<[Certain EXCEPT ![A] = {Fast, Wrong}], [Certain EXCEPT ![C] = {Fast, Broken}],
    Certain, [Certain EXCEPT ![A] = {Late}, ![B] = {Fast, Wrong}, ![C] = {Fast, Broken}]>>

Copied  == (m1 :> a1) @@ (m2 :> a2) @@ (m3 :> c1)
Near    == (m1 :> a1) @@ (m2 :> b1) @@ (m3 :> c1)
Absent  == (m1 :> a1) @@ (m3 :> c1)
Nobody  == [m \in {} |-> a1]
Swarm   == (m1 :> a1) @@ (m2 :> b1) @@ (m3 :> n1)

MCSubmissions ==
  <<{Copied, Nobody}, {Copied, Absent}, {Copied, Swarm}, {Copied, Near}>>

Draw(t) == [task_id |-> t, seed |-> <<"seed", t>>, salt |-> <<"salt", t>>]

MCDrawsOf == [t \in 1 .. 4 |-> {Draw(t)} \cup IF t = 1 THEN {[Draw(t) EXCEPT !.salt = Draw(t).seed]} ELSE {}]

MCProfiles == <<"zero", "small">>

\* The root determines the list of fixtures, its length and order included.
ASSUME RootBindsFixtures ==
  \A n, k \in 2 .. 5 : \A a \in [1 .. n -> {1, 2}], b \in [1 .. k -> {1, 2}] :
    MerkleRoot(a) = MerkleRoot(b) => a = b
=============================================================================
