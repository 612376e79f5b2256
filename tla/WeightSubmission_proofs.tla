----------------------- MODULE WeightSubmission_proofs -----------------------
(***************************************************************************)
(* Proofs about the weights, for any subnet, scorings, hyperparameters,    *)
(* width of the vector and number of processes.                            *)
(*                                                                         *)
(* The submission is well typed; what is executed rests on the state that was *)
(* reviewed; a ready readback has a cause; a plan whose state is unchanged *)
(* passes its revalidation.  The argument of the second: last_update only  *)
(* grows, and reaches the block of every operation that is executed.  A plan *)
(* records a last_update not later than its own block.  When a process     *)
(* revalidates the plan the two are equal, so every operation executed so far *)
(* is not later than the plan; those still to come are later than the      *)
(* revalidation.                                                           *)
(*                                                                         *)
(* The u16 vector of a scoring fills to the limit and no further, ranks the *)
(* hotkeys as their scores do, misses the limit only by its rounding, and gives *)
(* the shares that _capped_normalize would.  These rest on the sums over finite *)
(* sets, which are proved first, by induction over the subsets of a set; on the *)
(* facts about the cutoff (LoweredSplit, CutoffFacts); and on the theorem that *)
(* the passes of _capped_normalize end at that cutoff.                     *)
(***************************************************************************)
EXTENDS WeightSubmission, WeightInputs, FiniteSetTheorems, FunctionTheorems,
        WellFoundedInduction, TLAPS

\* Operation y does not fall between the plan and the revalidation of x.
Apart(x, y) == y.block > x.plan.block => y.block > x.fresh

\* The extrinsics that are signed, or about to be.
InFlight == pool \cup {task[p] : p \in {q \in Processes : task[q].pc = "signing"}}

Clocks ==
  /\ block \in Nat /\ lastUpdate \in Nat /\ lastUpdate <= block
  /\ \A s \in saved : s.block \in Nat /\ s.view.lastUpdate \in Nat
                      /\ s.view.lastUpdate <= s.block
  /\ \A y \in landed : y.block \in Nat /\ y.block <= lastUpdate
  /\ \A x \in InFlight \cup landed : x.fresh \in Nat /\ x.fresh <= block
                                     /\ x.plan.block \in Nat

AllApart == \A x \in InFlight \cup landed, y \in landed : Apart(x, y)

IInv == (task \in [Processes -> {task[p] : p \in Processes}]) /\ Clocks /\ AllApart

-----------------------------------------------------------------------------
\* Init establishes the invariant.
LEMMA InitIInv == Init => IInv
<1> SUFFICES ASSUME Init PROVE IInv
  OBVIOUS
<1>1. InFlight = {}
  BY DEF Init, InFlight, Idle
<1>2. QED
  BY <1>1 DEF Init, IInv, Clocks, AllApart

\* A step of the chain that executes nothing, and a readback, keep it.
LEMMA QuietStep ==
  ASSUME IInv, UNCHANGED <<lastUpdate, pool, saved, task, landed>>,
         block' = block \/ block' = block + 1
  PROVE  IInv'
<1>1. InFlight' = InFlight
  BY DEF InFlight
<1>2. QED
  BY <1>1 DEF IInv, Clocks, AllApart, Apart

\* A new plan records a last_update that is not later than its block.
LEMMA CollectStep ==
  ASSUME IInv, NEW scoring \in Scorings, CollectPlan(scoring)
  PROVE  IInv'
<1>1. InFlight' = InFlight
  BY DEF CollectPlan, InFlight
<1>2. \A s \in saved' : s \in saved \/ (s.block = block /\ s.view.lastUpdate = lastUpdate)
  BY DEF CollectPlan, View
<1>3. UNCHANGED <<block, lastUpdate, task, landed>>
  BY DEF CollectPlan, weightsVars
<1>4. QED
  BY <1>1, <1>2, <1>3 DEF IInv, Clocks, AllApart

\* At the revalidation every executed operation is not later than the plan.
LEMMA RevalidateStep ==
  ASSUME IInv, NEW p \in Processes, NEW plan \in saved, Revalidate(p, plan)
  PROVE  IInv'
<1> DEFINE new == [pc |-> "signing", plan |-> plan, fresh |-> block]
<1>1. plan.view.lastUpdate = lastUpdate
  BY DEF Revalidate, FreshEquivalent, View
<1>2. \A y \in landed : Apart(new, y)
  BY <1>1 DEF IInv, Clocks, Apart
<1>3. task' = [task EXCEPT ![p] = new] /\ UNCHANGED <<block, lastUpdate, pool, saved, landed>>
  BY DEF Revalidate, weightsVars
<1>4. \A q \in Processes : task'[q] = task[q] \/ task'[q] = new
  BY <1>3 DEF IInv
<1>5. InFlight' \subseteq InFlight \cup {new}
  BY <1>3, <1>4 DEF InFlight
<1>6. task' \in [Processes -> {task'[q] : q \in Processes}]
  BY <1>3 DEF IInv
<1>7. new.fresh = block /\ new.plan.block \in Nat
  BY DEF IInv, Clocks
<1> HIDE DEF new
<1>8. Clocks'
  BY <1>3, <1>5, <1>7 DEF IInv, Clocks
<1>9. AllApart'
  <2>1. \A x, y : Apart(x, y)' = Apart(x, y)
    BY DEF Apart
  <2>2. QED
    BY <1>2, <1>3, <1>5, <2>1 DEF IInv, AllApart
<1>10. QED
  BY <1>6, <1>8, <1>9 DEF IInv

\* Signing, or a kill before it, adds no new pair of plan and revalidation.
LEMMA SignStep ==
  ASSUME IInv, NEW p \in Processes, Submit(p) \/ KillBeforeSigning(p)
  PROVE  IInv'
<1>1. /\ task[p].pc = "signing"
      /\ task' = [task EXCEPT ![p] = Idle]
      /\ UNCHANGED <<block, lastUpdate, saved, landed>>
  BY DEF Submit, KillBeforeSigning, weightsVars
<1>2. \A x \in InFlight' : \E z \in InFlight : x.plan = z.plan /\ x.fresh = z.fresh
  <2> SUFFICES ASSUME NEW x \in InFlight'
               PROVE  \E z \in InFlight : x.plan = z.plan /\ x.fresh = z.fresh
    OBVIOUS
  <2>1. task[p] \in InFlight
    BY <1>1 DEF InFlight
  <2>2. CASE x \in pool'
    BY <2>1, <2>2 DEF Submit, KillBeforeSigning, InFlight
  <2>3. CASE x \notin pool'
    <3>1. PICK q \in Processes : x = task'[q] /\ task'[q].pc = "signing"
      BY <2>3 DEF InFlight
    <3>2. task'[q] = task[q]
      BY <1>1, <3>1 DEF IInv, Idle
    <3>3. QED
      BY <3>1, <3>2 DEF InFlight
  <2>4. QED
    BY <2>2, <2>3
<1>3. task' \in [Processes -> {task'[q] : q \in Processes}]
  BY <1>1 DEF IInv
<1>4. Clocks'
  BY <1>1, <1>2 DEF IInv, Clocks
<1>5. AllApart'
  BY <1>1, <1>2 DEF IInv, AllApart, Apart
<1>6. QED
  BY <1>3, <1>4, <1>5 DEF IInv

\* What is executed is later than every revalidation so far.
LEMMA ExecuteStep ==
  ASSUME IInv, NEW x \in pool, Execute(x)
  PROVE  IInv'
<1> DEFINE new == [plan |-> x.plan, fresh |-> x.fresh, block |-> block + 1,
                   direct |-> ~params.commit]
<1>1. /\ block' = block + 1 /\ lastUpdate' = block + 1
      /\ pool' = pool \ {x} /\ landed' = landed \cup {new}
      /\ UNCHANGED <<saved, task>>
  BY DEF Execute, NewBlock, tool
<1>2. x \in InFlight /\ InFlight' \subseteq InFlight
  BY <1>1 DEF InFlight
<1>3. new.plan = x.plan /\ new.fresh = x.fresh /\ new.block = block + 1
  OBVIOUS
<1> HIDE DEF new
<1>4. \A z \in InFlight \cup landed \cup {new} :
         z.fresh \in Nat /\ z.fresh <= block /\ z.plan.block \in Nat
  BY <1>2, <1>3 DEF IInv, Clocks
<1>5. Clocks'
  BY <1>1, <1>2, <1>3, <1>4 DEF IInv, Clocks
<1>6. AllApart'
  <2> SUFFICES ASSUME NEW z \in InFlight \cup landed \cup {new}, NEW y \in landed \cup {new}
               PROVE  y.block > z.plan.block => y.block > z.fresh
    BY <1>1, <1>2 DEF AllApart, Apart
  <2>1. CASE y = new
    BY <1>3, <1>4, <2>1 DEF IInv, Clocks
  <2>2. CASE y \in landed
    BY <1>2, <1>3, <2>2 DEF IInv, AllApart, Apart
  <2>3. QED
    BY <2>1, <2>2
<1>7. QED
  BY <1>1, <1>5, <1>6 DEF IInv

\* Every step keeps the invariant.
LEMMA NextIInv == IInv /\ [Next]_vars => IInv'
<1> SUFFICES ASSUME IInv, [Next]_vars PROVE IInv'
  OBVIOUS
<1>1. CASE \E plan \in saved : Readback(plan)
  BY <1>1, QuietStep DEF Readback, weightsVars
<1>2. CASE EmptyBlock \/ SetPermit
  BY <1>2, QuietStep DEF EmptyBlock, SetPermit, NewBlock, weightsVars, tool
<1>3. CASE \E x \in commits : Reveal(x)
  BY <1>3, QuietStep DEF Reveal, NewBlock, tool
<1>4. CASE \E h \in Hotkeys, u \in Uids : Register(h, u)
  BY <1>4, QuietStep DEF Register, NewBlock, weightsVars, tool
<1>5. CASE \E new \in ParamSets : SetParams(new)
  BY <1>5, QuietStep DEF SetParams, NewBlock, weightsVars, tool
<1>6. CASE UNCHANGED vars
  BY <1>6, QuietStep DEF vars, weightsVars, tool
<1>7. QED
  BY <1>1, <1>2, <1>3, <1>4, <1>5, <1>6, CollectStep, RevalidateStep, SignStep, ExecuteStep
     DEF Next

\* No weight operation is executed between the block of a plan that was signed
\* and its revalidation, whatever the processes, kills and lost extrinsics: an
\* authorization that was executed cannot be signed again.
THEOREM SignedOnReviewedState == Spec => []ReviewedStateStands
<1>1. IInv => ReviewedStateStands
  BY DEF IInv, AllApart, Apart, ReviewedStateStands
<1>2. QED
  BY <1>1, InitIInv, NextIInv, PTL DEF Spec

-----------------------------------------------------------------------------
\* A readback that is ready has a cause.  The argument: the executed operation
\* that moved last_update is in landed, and as long as no vector is committed
\* for later the validator's row is what that operation carried.
Latest ==
  /\ block \in Nat /\ lastUpdate \in Nat /\ lastUpdate <= block
  /\ \A s \in saved : s.block \in Nat
  /\ \A x \in commits : \E y \in landed : ~y.direct
  /\ lastUpdate > 0 =>
       \E x \in landed : /\ x.block = lastUpdate
                         /\ (\A y \in landed : y.direct) => row = VectorOf(x.plan)

Caused == Latest /\ EvidenceHasExtrinsic

\* A readback adds evidence whose cause is the last executed operation.
LEMMA ReadbackCaused ==
  ASSUME Caused, NEW plan \in saved, Readback(plan)
  PROVE  Caused'
<1>1. /\ UNCHANGED <<block, lastUpdate, row, commits, saved, landed>>
      /\ evidence' = evidence \cup {[plan |-> plan, block |-> block]}
      /\ lastUpdate > plan.block /\ Near(row, VectorOf(plan))
  BY DEF Readback, ReadbackReady, weightsVars
<1>2. PICK x \in landed : /\ x.block = lastUpdate
                          /\ (\A y \in landed : y.direct) => row = VectorOf(x.plan)
  BY <1>1 DEF Caused, Latest
<1>3. Latest'
  BY <1>1 DEF Caused, Latest
<1>4. EvidenceHasExtrinsic'
  BY <1>1, <1>2 DEF Caused, Latest, EvidenceHasExtrinsic
<1>5. QED
  BY <1>3, <1>4 DEF Caused

\* An executed operation is the new cause, and takes none away.
LEMMA ExecuteCaused ==
  ASSUME Caused, NEW x \in pool, Execute(x)
  PROVE  Caused'
<1> DEFINE new == [plan |-> x.plan, fresh |-> x.fresh, block |-> block + 1,
                   direct |-> ~params.commit]
<1>1. /\ block' = block + 1 /\ lastUpdate' = block + 1 /\ landed' = landed \cup {new}
      /\ row' = IF params.commit THEN row ELSE VectorOf(x.plan)
      /\ commits' = IF params.commit THEN commits \cup {x} ELSE commits
      /\ UNCHANGED <<saved, evidence>>
  BY DEF Execute, NewBlock, tool
<1>2. new.plan = x.plan /\ new.block = block + 1 /\ new.direct = ~params.commit
  OBVIOUS
<1> HIDE DEF new
<1>3. new.direct => row' = VectorOf(new.plan)
  BY <1>1, <1>2
<1>4. \A y \in commits' : \E z \in landed' : ~z.direct
  BY <1>1, <1>2 DEF Caused, Latest
<1>5. Latest'
  BY <1>1, <1>2, <1>3, <1>4 DEF Caused, Latest
<1>6. EvidenceHasExtrinsic'
  BY <1>1 DEF Caused, EvidenceHasExtrinsic
<1>7. QED
  BY <1>5, <1>6 DEF Caused

\* A reveal changes the row, after a commit.
LEMMA RevealCaused ==
  ASSUME Caused, NEW x \in commits, Reveal(x)
  PROVE  Caused'
<1>1. /\ block' = block + 1 /\ commits' \subseteq commits
      /\ UNCHANGED <<lastUpdate, saved, landed, evidence>>
  BY DEF Reveal, NewBlock, tool
<1>2. \E y \in landed : ~y.direct
  BY DEF Caused, Latest
<1>3. QED
  BY <1>1, <1>2 DEF Caused, Latest, EvidenceHasExtrinsic

\* Every other step leaves the row and what was executed alone.
LEMMA OtherCaused ==
  ASSUME Caused, UNCHANGED <<lastUpdate, row, commits, landed, evidence>>,
         block' = block \/ block' = block + 1, \A s \in saved' : s \in saved \/ s.block = block
  PROVE  Caused'
BY DEF Caused, Latest, EvidenceHasExtrinsic

LEMMA NextCaused == Caused /\ [Next]_vars => Caused'
<1> SUFFICES ASSUME Caused, [Next]_vars PROVE Caused'
  OBVIOUS
<1>1. CASE \E scoring \in Scorings : CollectPlan(scoring)
  BY <1>1, OtherCaused DEF CollectPlan, weightsVars
<1>2. CASE \E p \in Processes : \/ \E plan \in saved : Revalidate(p, plan)
                                \/ Submit(p) \/ KillBeforeSigning(p)
  BY <1>2, OtherCaused DEF Revalidate, Submit, KillBeforeSigning, weightsVars
<1>3. CASE \/ EmptyBlock \/ SetPermit
           \/ \E h \in Hotkeys, u \in Uids : Register(h, u)
           \/ \E new \in ParamSets : SetParams(new)
  BY <1>3, OtherCaused DEF EmptyBlock, SetPermit, Register, SetParams, NewBlock, weightsVars, tool
<1>4. CASE UNCHANGED vars
  BY <1>4, OtherCaused DEF vars, weightsVars, tool
<1>5. QED
  BY <1>1, <1>2, <1>3, <1>4, ReadbackCaused, ExecuteCaused, RevealCaused DEF Next

\* Readback evidence always names a plan after which a weight operation of the
\* validator was executed, and one with the plan's recipients and, up to the
\* tolerance, its shares if weights are never committed for later, whatever the
\* slots, processes and reveals.
THEOREM EvidenceIsCaused == Spec => []EvidenceHasExtrinsic
<1>1. Init => Caused
  BY DEF Init, Caused, Latest, EvidenceHasExtrinsic
<1>2. Caused => EvidenceHasExtrinsic
  BY DEF Caused
<1>3. QED
  BY <1>1, <1>2, NextCaused, PTL DEF Spec

-----------------------------------------------------------------------------
\* Types.

\* What the tool holds, and what is executed, stays of its type.
Records ==
  /\ \A s \in saved : s.block \in 0 .. block /\ \A t \in s.targets : t.uid \in Uids
  /\ task \in [Processes -> {Idle} \cup Tasks]
  /\ pool \cup commits \subseteq Extrinsics
  /\ landed \subseteq [plan : saved, fresh : 0 .. block, block : 0 .. block, direct : BOOLEAN]
  /\ evidence \subseteq [plan : saved, block : 0 .. block]

\* What the chain holds.
Chain ==
  /\ block \in 0 .. MaxBlock /\ lastUpdate \in 0 .. block
  /\ params \in ParamSets /\ permit \in BOOLEAN
  /\ uidOf \in [Hotkeys -> Uids \cup {NoUid}] /\ DOMAIN row = Uids
  /\ \A g, h \in Hotkeys : uidOf[g] = uidOf[h] /\ uidOf[g] # NoUid => g = h

LEMMA Split == TypeOK => Chain /\ Records
BY DEF TypeOK, Chain, Records

LEMMA Join == Chain' /\ Records' => TypeOK'
BY DEF TypeOK, Chain, Records

LEMMA BlockType == Chain => block \in Nat /\ MaxBlock \in Nat
BY SubmissionAssumption DEF Chain

\* As the chain grows and plans are saved the records keep their types.
LEMMA TypesGrow ==
  ASSUME Chain, saved \subseteq saved', block' = block \/ block' = block + 1
  PROVE  /\ Tasks \subseteq Tasks' /\ Extrinsics \subseteq Extrinsics' /\ 0 .. block \subseteq 0 .. block'
         /\ [plan : saved, fresh : 0 .. block, block : 0 .. block, direct : BOOLEAN]
              \subseteq [plan : saved', fresh : 0 .. block', block : 0 .. block', direct : BOOLEAN]
         /\ [plan : saved, block : 0 .. block] \subseteq [plan : saved', block : 0 .. block']
<1>1. 0 .. block \subseteq 0 .. block'
  BY BlockType
<1>2. \A x : InTime(x)' = InTime(x)
  BY DEF InTime
<1>3. Tasks \subseteq Tasks'
  BY <1>1, <1>2 DEF Tasks
<1>4. Extrinsics \subseteq Extrinsics'
  BY <1>1, <1>2 DEF Extrinsics
<1>5. QED
  BY <1>1, <1>3, <1>4

\* A block that executes nothing, and a step that leaves the records alone.
LEMMA RecordsStand ==
  ASSUME Chain, Records, UNCHANGED <<saved, task, pool, landed, evidence>>,
         commits' \subseteq commits, block' = block \/ block' = block + 1
  PROVE  Records'
BY TypesGrow DEF Records

\* A block: the chain's part of each of its events.
LEMMA BlockChain ==
  ASSUME Chain, NewBlock, lastUpdate' \in {lastUpdate, block'}, params' \in ParamSets,
         permit' \in BOOLEAN, DOMAIN row' = Uids,
         uidOf' = uidOf \/ \E h \in Hotkeys, u \in Uids :
            uidOf' = [g \in Hotkeys |-> IF g = h THEN u ELSE IF uidOf[g] = u THEN NoUid ELSE uidOf[g]]
  PROVE  Chain'
<1>1. block' \in 0 .. MaxBlock /\ lastUpdate' \in 0 .. block'
  BY BlockType DEF Chain, NewBlock
<1>2. uidOf' \in [Hotkeys -> Uids \cup {NoUid}]
  BY DEF Chain
<1>3. \A g, h \in Hotkeys : uidOf'[g] = uidOf'[h] /\ uidOf'[g] # NoUid => g = h
  BY SubmissionAssumption DEF Chain
<1>4. QED
  BY <1>1, <1>2, <1>3 DEF Chain

LEMMA VectorDomain == \A plan : DOMAIN VectorOf(plan) = Uids
BY DEF VectorOf

LEMMA CollectType ==
  ASSUME TypeOK, NEW scoring \in Scorings, CollectPlan(scoring)
  PROVE  TypeOK'
<1> DEFINE new == [block |-> block, view |-> View, targets |-> Targets(scoring)]
<1>1. /\ saved' = saved \cup {new} /\ Ready(scoring, MinimumPositive)
      /\ UNCHANGED <<block, params, uidOf, permit, row, lastUpdate, commits, pool, task, landed, evidence>>
  BY DEF CollectPlan, subnet, weightsVars
<1>2. \A t \in Targets(scoring) : t.uid \in Uids
  <2>1. DOMAIN Conformed(scoring) \subseteq DOMAIN PositiveScores(scoring)
    BY DEF Conformed, Conform, PositiveScores, Restrict, Clip, LowerToCutoff
  <2>2. DOMAIN PositiveScores(scoring) \subseteq Hotkeys
    BY SubmissionAssumption DEF PositiveScores, Restrict
  <2>3. \A h \in DOMAIN PositiveScores(scoring) : uidOf[h] # NoUid
    BY <1>1 DEF Ready
  <2>4. \A h \in DOMAIN Conformed(scoring) : uidOf[h] \in Uids
    BY <2>1, <2>2, <2>3 DEF TypeOK
  <2> HIDE DEF new
  <2>5. QED
    BY <2>4 DEF Targets
<1>3. new.block = block /\ \A t \in new.targets : t.uid \in Uids
  BY <1>2
<1>4. Chain /\ Records /\ Chain'
  BY <1>1, Split DEF Chain
<1> HIDE DEF new
<1>5. \A s \in saved' : s.block \in 0 .. block' /\ \A t \in s.targets : t.uid \in Uids
  BY <1>1, <1>3, <1>4, BlockType DEF Records
<1>6. QED
  BY <1>1, <1>4, <1>5, TypesGrow, Join DEF Records

LEMMA TaskType ==
  ASSUME TypeOK, NEW p \in Processes,
         (\E plan \in saved : Revalidate(p, plan)) \/ Submit(p) \/ KillBeforeSigning(p)
  PROVE  TypeOK'
<1>1. /\ UNCHANGED <<block, params, uidOf, permit, row, lastUpdate, commits, saved, landed, evidence>>
      /\ Chain /\ Records
  BY Split DEF Revalidate, Submit, KillBeforeSigning, subnet, weightsVars
<1>2. Chain' /\ Tasks' = Tasks /\ Extrinsics' = Extrinsics
  BY <1>1 DEF Chain, Tasks, Extrinsics
<1>3. ASSUME NEW plan \in saved, Revalidate(p, plan)
      PROVE  TypeOK'
  <2> DEFINE new == [pc |-> "signing", plan |-> plan, fresh |-> block]
  <2>1. new \in Tasks
    BY <1>1, <1>3, BlockType DEF Tasks, InTime, Revalidate, FreshEquivalent
  <2>2. task' = [task EXCEPT ![p] = new] /\ pool' = pool
    BY <1>3 DEF Revalidate
  <2> HIDE DEF new
  <2>3. task' \in [Processes -> {Idle} \cup Tasks]
    BY <1>1, <2>1, <2>2 DEF Records
  <2>4. QED
    BY <1>1, <1>2, <2>2, <2>3, Join DEF Records
<1>4. CASE Submit(p) \/ KillBeforeSigning(p)
  <2>1. /\ task' = [task EXCEPT ![p] = Idle] /\ task[p].pc = "signing"
        /\ pool' \subseteq pool \cup {[by |-> p, plan |-> task[p].plan, fresh |-> task[p].fresh]}
    BY <1>4 DEF Submit, KillBeforeSigning
  <2>2. task[p] \in Tasks
    BY <1>1, <2>1 DEF Records, Idle
  <2>3. [by |-> p, plan |-> task[p].plan, fresh |-> task[p].fresh] \in Extrinsics
    BY <2>2 DEF Tasks, Extrinsics, InTime
  <2>4. task' \in [Processes -> {Idle} \cup Tasks]
    BY <1>1, <2>1 DEF Records
  <2>5. QED
    BY <1>1, <1>2, <2>1, <2>3, <2>4, Join DEF Records
<1>5. QED
  BY <1>3, <1>4

LEMMA ReadbackType ==
  ASSUME TypeOK, NEW plan \in saved, Readback(plan)
  PROVE  TypeOK'
<1>1. /\ UNCHANGED <<block, params, uidOf, permit, row, lastUpdate, commits, pool, saved, task, landed>>
      /\ evidence' = evidence \cup {[plan |-> plan, block |-> block]}
      /\ Chain /\ Records
  BY Split DEF Readback, subnet, weightsVars
<1>2. [plan |-> plan, block |-> block] \in [plan : saved, block : 0 .. block]
  BY <1>1, BlockType
<1>3. Chain' /\ Tasks' = Tasks /\ Extrinsics' = Extrinsics
  BY <1>1 DEF Chain, Tasks, Extrinsics
<1>4. QED
  BY <1>1, <1>2, <1>3, Join DEF Records

LEMMA ExecuteType ==
  ASSUME TypeOK, NEW x \in pool, Execute(x)
  PROVE  TypeOK'
<1> DEFINE new == [plan |-> x.plan, fresh |-> x.fresh, block |-> block + 1,
                   direct |-> ~params.commit]
<1>1. /\ NewBlock /\ block' = block + 1 /\ pool' = pool \ {x} /\ lastUpdate' = block'
      /\ row' = row \/ row' = VectorOf(x.plan)
      /\ commits' \subseteq commits \cup {x} /\ landed' = landed \cup {new}
      /\ UNCHANGED <<params, uidOf, permit, saved, task, evidence>>
      /\ Chain /\ Records
  BY Split DEF Execute, NewBlock, subnet, tool
<1>2. Chain'
  BY <1>1, BlockChain, VectorDomain DEF Chain
<1>3. /\ Tasks \subseteq Tasks' /\ Extrinsics \subseteq Extrinsics' /\ 0 .. block \subseteq 0 .. block'
      /\ [plan : saved, fresh : 0 .. block, block : 0 .. block, direct : BOOLEAN]
           \subseteq [plan : saved', fresh : 0 .. block', block : 0 .. block', direct : BOOLEAN]
      /\ [plan : saved, block : 0 .. block] \subseteq [plan : saved', block : 0 .. block']
  BY <1>1, TypesGrow
<1>4. x \in Extrinsics /\ block + 1 \in 0 .. block'
  BY <1>1, BlockType DEF Records
<1>5. new \in [plan : saved', fresh : 0 .. block', block : 0 .. block', direct : BOOLEAN]
  BY <1>1, <1>3, <1>4 DEF Extrinsics
<1> HIDE DEF new
<1>6. Records'
  BY <1>1, <1>3, <1>4, <1>5 DEF Records
<1>7. QED
  BY <1>2, <1>6, Join

LEMMA ChainType ==
  ASSUME TypeOK,
         \/ EmptyBlock \/ SetPermit
         \/ \E x \in commits : Reveal(x)
         \/ \E h \in Hotkeys, u \in Uids : Register(h, u)
         \/ \E new \in ParamSets : SetParams(new)
  PROVE  TypeOK'
<1>1. /\ NewBlock /\ block' = block + 1 /\ UNCHANGED <<lastUpdate, saved, task, pool, landed, evidence>>
      /\ commits' \subseteq commits /\ Chain /\ Records
  BY Split DEF EmptyBlock, SetPermit, Reveal, Register, SetParams, NewBlock, subnet, weightsVars, tool
<1>2. params' \in ParamSets /\ permit' \in BOOLEAN
  BY <1>1 DEF EmptyBlock, SetPermit, Reveal, Register, SetParams, subnet, Chain
<1>3. DOMAIN row' = Uids
  BY <1>1, VectorDomain DEF EmptyBlock, SetPermit, Reveal, Register, SetParams, weightsVars, Chain
<1>4. uidOf' = uidOf \/ \E h \in Hotkeys, u \in Uids :
        uidOf' = [g \in Hotkeys |-> IF g = h THEN u ELSE IF uidOf[g] = u THEN NoUid ELSE uidOf[g]]
  BY DEF EmptyBlock, SetPermit, Reveal, Register, SetParams, subnet
<1>5. Chain'
  BY <1>1, <1>2, <1>3, <1>4, BlockChain
<1>6. QED
  BY <1>1, <1>5, RecordsStand, Join

\* Every variable keeps its type: what is signed, executed or in evidence is of
\* a saved plan that was not too old at its revalidation, and no two hotkeys
\* share a slot.
THEOREM TypeCorrect == Spec => []TypeOK
<1>1. Init => TypeOK
  BY SubmissionAssumption DEF Init, TypeOK
<1>2. TypeOK /\ [Next]_vars => TypeOK'
  <2> SUFFICES ASSUME TypeOK, [Next]_vars PROVE TypeOK'
    OBVIOUS
  <2>1. CASE UNCHANGED vars
    BY <2>1 DEF TypeOK, Tasks, Extrinsics, vars, subnet, weightsVars, tool
  <2>2. QED
    BY <2>1, CollectType, TaskType, ReadbackType, ExecuteType, ChainType DEF Next
<1>3. QED
  BY <1>1, <1>2, PTL DEF Spec

-----------------------------------------------------------------------------
(* Sums over finite sets: the total of a vector, of a lowered vector, and  *)
(* the sums of _capped_normalize, are all folds of one recursion.          *)

\* A non-empty set of naturals has a least element.
LEMMA LeastNat ==
  ASSUME NEW S \in SUBSET Nat, S # {}
  PROVE  \E x \in S : \A y \in S : x <= y
<1>1. PICK x \in S : \A y \in S : ~ (<<y, x>> \in OpToRel(<, Nat))
  BY NatLessThanWellFounded, WFMin
<1>2. \A y \in S : x <= y
  <2> SUFFICES ASSUME NEW y \in S, y < x PROVE FALSE
    OBVIOUS
  <2>1. <<y, x>> \in OpToRel(<, Nat)
    BY DEF OpToRel
  <2>2. QED
    BY <1>1, <2>1
<1>3. QED
  BY <1>2

\* Induction over the subsets of a finite set: a set of them that holds each
\* subset whose proper subsets it holds, holds them all.
LEMMA SubsetInduction ==
  ASSUME NEW S, IsFiniteSet(S), NEW good \in SUBSET SUBSET S,
         \A T \in SUBSET S : (\A R \in SUBSET T : R # T => R \in good) => T \in good
  PROVE  good = SUBSET S
<1> DEFINE bad == (SUBSET S) \ good
           sizes == {Cardinality(T) : T \in bad}
<1> SUFFICES ASSUME bad # {} PROVE FALSE
  OBVIOUS
<1>1. \A T \in SUBSET S : IsFiniteSet(T) /\ Cardinality(T) \in Nat
  BY FS_Subset, FS_CardinalityType
<1>2. sizes \in SUBSET Nat /\ sizes # {}
  BY <1>1
<1>3. PICK n \in sizes : \A k \in sizes : n <= k
  BY <1>2, LeastNat
<1>4. PICK T \in bad : Cardinality(T) = n
  OBVIOUS
<1>5. PICK R \in SUBSET T : R # T /\ R \in bad
  OBVIOUS
<1>6. Cardinality(R) < Cardinality(T)
  <2>1. IsFiniteSet(T)
    BY <1>1
  <2>2. Cardinality(R) <= Cardinality(T) /\ Cardinality(R) # Cardinality(T)
    BY <1>5, <2>1, FS_Subset
  <2>3. Cardinality(R) \in Nat /\ Cardinality(T) \in Nat
    BY <1>1
  <2>4. QED
    BY <2>2, <2>3
<1>7. Cardinality(R) \in sizes
  BY <1>5
<1>8. n \in Nat /\ Cardinality(R) \in Nat
  BY <1>1, <1>2
<1> HIDE DEF sizes, bad
<1>9. n <= Cardinality(R)
  BY <1>3, <1>7
<1>10. QED
  BY <1>4, <1>6, <1>8, <1>9

\* The recursion of the fold of f over S, with its function.
IsSum(iter, f, S) ==
  iter = [s \in SUBSET S |-> IF s = {} THEN 0
                             ELSE f[CHOOSE x \in s : TRUE] + iter[s \ {CHOOSE x \in s : TRUE}]]

\* The value of a sum is that of its recursion.
LEMMA SumDef ==
  ASSUME NEW f, NEW S
  PROVE  SumOver(f, S) = (CHOOSE iter : IsSum(iter, f, S))[S]
  BY DEF SumOver, MapThenSumSet, MapThenFoldSet, IsSum

\* The recursion has a function: built up by the size of the subsets.
LEMMA SumExists ==
  ASSUME NEW S, IsFiniteSet(S), NEW f
  PROVE  \E iter : IsSum(iter, f, S)
<1> DEFINE upTo(n) == {s \in SUBSET S : Cardinality(s) <= n}
           pick(s) == CHOOSE x \in s : TRUE
           sums(n, it) == it = [s \in upTo(n) |-> IF s = {} THEN 0
                                                  ELSE f[pick(s)] + it[s \ {pick(s)}]]
           bad == {n \in Nat : ~ \E it : sums(n, it)}
<1>1. \A s \in SUBSET S : IsFiniteSet(s) /\ Cardinality(s) \in Nat
  BY FS_Subset, FS_CardinalityType
<1>2. \A s : s # {} => pick(s) \in s
  OBVIOUS
<1>3. \A s \in SUBSET S : s # {} =>
        s \ {pick(s)} \in SUBSET S /\ Cardinality(s \ {pick(s)}) = Cardinality(s) - 1
  BY <1>1, <1>2, FS_RemoveElement
<1>4. ASSUME bad # {} PROVE FALSE
  <2>1. PICK n \in bad : \A k \in bad : n <= k
    BY <1>4, LeastNat
  <2>2. n # 0
    <3>1. \A s \in upTo(0) : s = {}
      BY <1>1, FS_EmptySet
    <3>2. sums(0, [s \in upTo(0) |-> 0])
      BY <3>1
    <3>3. QED
      BY <3>2
  <2>3. n - 1 \in Nat /\ n - 1 \notin bad
    <3>1. n \in Nat
      OBVIOUS
    <3> HIDE DEF bad
    <3>2. QED
      BY <2>1, <2>2, <3>1
  <2>4. PICK it : sums(n - 1, it)
    BY <2>3
  <2> DEFINE new == [s \in upTo(n) |-> IF s = {} THEN 0 ELSE f[pick(s)] + it[s \ {pick(s)}]]
  <2>5. \A s \in upTo(n - 1) : s \in upTo(n)
    BY <1>1, <2>3
  <2>6. \A s \in upTo(n - 1) : new[s] = it[s]
    BY <2>4, <2>5
  <2>7. \A s \in upTo(n) : s # {} => s \ {pick(s)} \in upTo(n - 1)
    BY <1>1, <1>3, <2>3
  <2>8. new = [s \in upTo(n) |-> IF s = {} THEN 0 ELSE f[pick(s)] + new[s \ {pick(s)}]]
    <3>1. \A s \in upTo(n) : s # {} => new[s \ {pick(s)}] = it[s \ {pick(s)}]
      BY <2>6, <2>7
    <3> HIDE DEF upTo, pick
    <3>2. QED
      BY <3>1
  <2>9. sums(n, new)
    BY <2>8
  <2>10. QED
    BY <2>1, <2>9
<1>5. PICK it : sums(Cardinality(S), it)
  BY <1>1, <1>4
<1>6. upTo(Cardinality(S)) = SUBSET S
  BY <1>1, FS_Subset
<1>7. IsSum(it, f, S)
  BY <1>5, <1>6 DEF IsSum
<1>8. QED
  BY <1>7

\* Two folds over sets, one part of the other, agree where the functions do.
LEMMA SumsAgree ==
  ASSUME NEW S, IsFiniteSet(S), NEW T \in SUBSET S, NEW f, NEW g, \A x \in T : f[x] = g[x],
         NEW i, IsSum(i, f, S), NEW j, IsSum(j, g, T)
  PROVE  \A s \in SUBSET T : i[s] = j[s]
<1> DEFINE pick(s) == CHOOSE x \in s : TRUE
           good == {s \in SUBSET T : i[s] = j[s]}
<1>1. IsFiniteSet(T)
  BY FS_Subset
<1>2. \A s \in SUBSET S : i[s] = IF s = {} THEN 0 ELSE f[pick(s)] + i[s \ {pick(s)}]
  BY DEF IsSum
<1>3. \A s \in SUBSET T : j[s] = IF s = {} THEN 0 ELSE g[pick(s)] + j[s \ {pick(s)}]
  BY DEF IsSum
<1>4. ASSUME NEW s \in SUBSET T, \A r \in SUBSET s : r # s => r \in good
      PROVE  s \in good
  <2>1. CASE s = {}
    BY <1>2, <1>3, <2>1
  <2>2. CASE s # {}
    <3>1. pick(s) \in s
      BY <2>2
    <3> HIDE DEF pick
    <3>2. i[s \ {pick(s)}] = j[s \ {pick(s)}] /\ f[pick(s)] = g[pick(s)]
      BY <1>4, <3>1
    <3>3. QED
      BY <1>2, <1>3, <2>2, <3>2
  <2>3. QED
    BY <2>1, <2>2
<1>5. good = SUBSET T
  <2> HIDE DEF good
  <2>1. good \in SUBSET SUBSET T
    BY DEF good
  <2>2. QED
    BY <1>1, <1>4, <2>1, SubsetInduction
<1>6. QED
  BY <1>5

\* The sums of f over the subsets of S are the values of one fold over S.
LEMMA SumIs ==
  ASSUME NEW S, IsFiniteSet(S), NEW f, NEW i, IsSum(i, f, S), NEW T \in SUBSET S
  PROVE  SumOver(f, T) = i[T]
<1>1. PICK j : j = CHOOSE iter : IsSum(iter, f, T)
  OBVIOUS
<1>2. IsSum(j, f, T)
  <2>1. \E iter : IsSum(iter, f, T)
    BY FS_Subset, SumExists
  <2>2. QED
    BY <1>1, <2>1
<1>3. SumOver(f, T) = j[T]
  BY <1>1, SumDef
<1>4. i[T] = j[T]
  BY <1>2, SumsAgree
<1>5. QED
  BY <1>3, <1>4

\* A sum depends on the values it adds.
LEMMA SumEqual ==
  ASSUME NEW S, IsFiniteSet(S), NEW f, NEW g, \A x \in S : f[x] = g[x]
  PROVE  SumOver(f, S) = SumOver(g, S)
<1>1. PICK i, j : IsSum(i, f, S) /\ IsSum(j, g, S)
  BY SumExists
<1>2. SumOver(f, S) = i[S] /\ SumOver(g, S) = j[S]
  BY <1>1, SumIs
<1>3. i[S] = j[S]
  <2>1. S \in SUBSET S
    OBVIOUS
  <2>2. \A s \in SUBSET S : i[s] = j[s]
    BY <1>1, <2>1, SumsAgree
  <2>3. QED
    BY <2>2
<1>4. QED
  BY <1>2, <1>3

\* The sum of naturals is one, and takes its elements in any order.
LEMMA SumStep ==
  ASSUME NEW S, IsFiniteSet(S), NEW f, \A x \in S : f[x] \in Nat
  PROVE  /\ SumOver(f, S) \in Nat
         /\ SumOver(f, {}) = 0
         /\ \A x \in S : SumOver(f, S) = f[x] + SumOver(f, S \ {x})
<1>1. PICK i : IsSum(i, f, S)
  BY SumExists
<1> DEFINE pick(s) == CHOOSE x \in s : TRUE
           good == {s \in SUBSET S : /\ i[s] \in Nat
                                     /\ \A x \in s : i[s] = f[x] + i[s \ {x}]}
<1>2. \A s \in SUBSET S : i[s] = IF s = {} THEN 0 ELSE f[pick(s)] + i[s \ {pick(s)}]
  BY <1>1 DEF IsSum
<1>3. ASSUME NEW s \in SUBSET S, \A r \in SUBSET s : r # s => r \in good, s # {}
      PROVE  s \in good
  <2>1. PICK y \in s : y = pick(s)
    BY <1>3
  <2> HIDE DEF pick
  <2>2. i[s] = f[y] + i[s \ {y}]
    BY <1>2, <1>3, <2>1
  <2>3. i[s \ {y}] \in Nat /\ f[y] \in Nat
    BY <1>3
  <2>4. ASSUME NEW x \in s PROVE i[s] = f[x] + i[s \ {x}]
    <3>1. CASE x = y
      BY <2>2, <3>1
    <3>2. CASE x # y
      <4>1. i[s \ {y}] = f[x] + i[(s \ {y}) \ {x}]
        BY <1>3, <3>2
      <4>2. i[s \ {x}] = f[y] + i[(s \ {x}) \ {y}]
        BY <1>3, <3>2
      <4>3. (s \ {y}) \ {x} = (s \ {x}) \ {y}
        OBVIOUS
      <4>4. PICK r : r = (s \ {y}) \ {x}
        OBVIOUS
      <4>5. i[r] \in Nat
        <5>1. r \in SUBSET s /\ r # s
          BY <4>4
        <5>2. QED
          BY <1>3, <5>1
      <4>6. f[x] \in Nat
        OBVIOUS
      <4>7. i[(s \ {y}) \ {x}] = i[r] /\ i[(s \ {x}) \ {y}] = i[r]
        BY <4>3, <4>4
      <4>8. i[s] = f[y] + (f[x] + i[r]) /\ i[s \ {x}] = f[y] + i[r]
        BY <2>2, <4>1, <4>2, <4>7
      <4>9. QED
        BY <2>3, <4>5, <4>6, <4>8
    <3>3. QED
      BY <3>1, <3>2
  <2>5. QED
    BY <2>2, <2>3, <2>4
<1>4. {} \in good
  BY <1>2
<1>5. good = SUBSET S
  <2> HIDE DEF good
  <2>1. good \in SUBSET SUBSET S
    BY DEF good
  <2>2. \A s \in SUBSET S : (\A r \in SUBSET s : r # s => r \in good) => s \in good
    BY <1>3, <1>4
  <2>3. QED
    BY <2>1, <2>2, SubsetInduction
<1>6. /\ SumOver(f, S) = i[S] /\ SumOver(f, {}) = i[{}]
      /\ \A x \in S : SumOver(f, S \ {x}) = i[S \ {x}]
  BY <1>1, SumIs
<1>7. i[{}] = 0
  BY <1>2
<1>8. S \in good
  BY <1>5
<1>9. QED
  BY <1>6, <1>7, <1>8

\* Arithmetic: what an added element does to a comparison of sums.
LEMMA AddCompare ==
  ASSUME NEW a \in Nat, NEW b \in Nat, NEW c \in Nat, NEW x \in Nat, NEW y \in Nat,
         NEW p \in Nat, NEW q \in Nat, NEW n \in Nat,
         a * x <= b * y + c, a * p <= b * q + c * n
  PROVE  a * (x + p) <= b * (y + q) + c * (n + 1)
<1>1. a * (x + p) = a * x + a * p /\ b * (y + q) = b * y + b * q /\ c * (n + 1) = c * n + c
  OBVIOUS
<1>2. /\ a * x \in Nat /\ a * p \in Nat /\ b * y \in Nat /\ b * q \in Nat /\ c * n \in Nat
  OBVIOUS
<1>3. QED
  BY <1>1, <1>2

\* Sums compare as their elements do.
LEMMA SumCompare ==
  ASSUME NEW S, IsFiniteSet(S), NEW f, NEW g, \A x \in S : f[x] \in Nat /\ g[x] \in Nat,
         NEW a \in Nat, NEW b \in Nat, NEW c \in Nat,
         \A x \in S : a * f[x] <= b * g[x] + c
  PROVE  a * SumOver(f, S) <= b * SumOver(g, S) + c * Cardinality(S)
<1> DEFINE good == {T \in SUBSET S :
                      a * SumOver(f, T) <= b * SumOver(g, T) + c * Cardinality(T)}
<1>1. \A T \in SUBSET S : IsFiniteSet(T) /\ Cardinality(T) \in Nat
  BY FS_Subset, FS_CardinalityType
<1>2. ASSUME NEW T \in SUBSET S, \A R \in SUBSET T : R # T => R \in good
      PROVE  T \in good
  <2>1. CASE T = {}
    <3>1. SumOver(f, T) = 0 /\ SumOver(g, T) = 0 /\ Cardinality(T) = 0
      BY <2>1, SumStep, FS_EmptySet
    <3>2. QED
      BY <3>1
  <2>2. CASE T # {}
    <3>1. PICK x \in T : TRUE
      BY <2>2
    <3>2. PICK R \in SUBSET S : R = T \ {x}
      OBVIOUS
    <3>3. R \in good
      BY <1>2, <3>1, <3>2
    <3>4. SumOver(f, T) = f[x] + SumOver(f, R) /\ SumOver(g, T) = g[x] + SumOver(g, R)
      BY <1>1, <3>2, SumStep
    <3>5. Cardinality(T) = Cardinality(R) + 1
      BY <1>1, <3>2, FS_RemoveElement
    <3>6. SumOver(f, R) \in Nat /\ SumOver(g, R) \in Nat /\ Cardinality(R) \in Nat
      BY <1>1, SumStep
    <3>7. a * (f[x] + SumOver(f, R)) <= b * (g[x] + SumOver(g, R)) + c * (Cardinality(R) + 1)
      BY <3>3, <3>6, AddCompare
    <3>8. QED
      BY <3>4, <3>5, <3>7
  <2>3. QED
    BY <2>1, <2>2
<1>3. S \in good
  <2> HIDE DEF good
  <2>1. good \in SUBSET SUBSET S
    BY DEF good
  <2>2. QED
    BY <1>2, <2>1, SubsetInduction
<1>4. QED
  BY <1>3

\* A sum of smaller values is smaller.
LEMMA SumMonotone ==
  ASSUME NEW S, IsFiniteSet(S), NEW f, NEW g, \A x \in S : f[x] \in Nat /\ g[x] \in Nat,
         \A x \in S : f[x] <= g[x]
  PROVE  SumOver(f, S) <= SumOver(g, S)
<1>1. \A x \in S : 1 * f[x] <= 1 * g[x] + 0
  OBVIOUS
<1>2. 1 * SumOver(f, S) <= 1 * SumOver(g, S) + 0 * Cardinality(S)
  BY <1>1, SumCompare
<1>3. SumOver(f, S) \in Nat /\ SumOver(g, S) \in Nat /\ Cardinality(S) \in Nat
  BY SumStep, FS_CardinalityType
<1>4. QED
  BY <1>2, <1>3

\* A sum of smaller values, one of them strictly, is strictly smaller.
LEMMA SumStrict ==
  ASSUME NEW S, IsFiniteSet(S), NEW f, NEW g, \A x \in S : f[x] \in Nat /\ g[x] \in Nat,
         \A x \in S : f[x] <= g[x], NEW x \in S, f[x] < g[x]
  PROVE  SumOver(f, S) < SumOver(g, S)
<1>1. PICK R : R = S \ {x}
  OBVIOUS
<1>2. IsFiniteSet(R) /\ R \subseteq S
  BY <1>1, FS_Subset
<1>3. SumOver(f, R) <= SumOver(g, R)
  BY <1>2, SumMonotone
<1>4. SumOver(f, R) \in Nat /\ SumOver(g, R) \in Nat
  BY <1>2, SumStep
<1>5. SumOver(f, S) = f[x] + SumOver(f, R) /\ SumOver(g, S) = g[x] + SumOver(g, R)
  BY <1>1, SumStep
<1>6. QED
  BY <1>3, <1>4, <1>5

\* A sum of multiples is the multiple of the sum.
LEMMA SumScale ==
  ASSUME NEW S, IsFiniteSet(S), NEW f, NEW g, \A x \in S : f[x] \in Nat,
         NEW a \in Nat, \A x \in S : g[x] = a * f[x]
  PROVE  SumOver(g, S) = a * SumOver(f, S)
<1>1. \A x \in S : g[x] \in Nat /\ 1 * g[x] <= a * f[x] + 0 /\ a * f[x] <= 1 * g[x] + 0
  OBVIOUS
<1>2. 1 * SumOver(g, S) <= a * SumOver(f, S) + 0 * Cardinality(S)
  BY <1>1, SumCompare
<1>3. a * SumOver(f, S) <= 1 * SumOver(g, S) + 0 * Cardinality(S)
  BY <1>1, SumCompare
<1>4. SumOver(f, S) \in Nat /\ SumOver(g, S) \in Nat /\ Cardinality(S) \in Nat
  BY <1>1, SumStep, FS_CardinalityType
<1>5. a * SumOver(f, S) \in Nat
  BY <1>4
<1>6. QED
  BY <1>2, <1>3, <1>4, <1>5

\* A sum of equal values is a product.
LEMMA SumConstant ==
  ASSUME NEW S, IsFiniteSet(S), NEW f, NEW a \in Nat, \A x \in S : f[x] = a
  PROVE  SumOver(f, S) = a * Cardinality(S)
<1> DEFINE one == [x \in S |-> 1]
<1>1. \A x \in S : one[x] = 1 /\ one[x] \in Nat
  OBVIOUS
<1> HIDE DEF one
<1>2. SumOver(f, S) = a * SumOver(one, S)
  BY <1>1, SumScale
<1>3. SumOver(one, S) = Cardinality(S)
  <2> DEFINE good == {T \in SUBSET S : SumOver(one, T) = Cardinality(T)}
  <2>1. \A T \in SUBSET S : IsFiniteSet(T) /\ Cardinality(T) \in Nat
    BY FS_Subset, FS_CardinalityType
  <2>2. ASSUME NEW T \in SUBSET S, \A R \in SUBSET T : R # T => R \in good
        PROVE  T \in good
    <3>1. CASE T = {}
      BY <3>1, SumStep, FS_EmptySet, <1>1
    <3>2. CASE T # {}
      <4>1. PICK x \in T : TRUE
        BY <3>2
      <4>2. PICK R \in SUBSET S : R = T \ {x}
        OBVIOUS
      <4>3. SumOver(one, R) = Cardinality(R)
        BY <2>2, <4>1, <4>2
      <4>4. SumOver(one, T) = 1 + SumOver(one, R)
        BY <1>1, <2>1, <4>2, SumStep
      <4>5. Cardinality(T) = Cardinality(R) + 1 /\ Cardinality(R) \in Nat
        BY <2>1, <4>2, FS_RemoveElement
      <4>6. QED
        BY <4>3, <4>4, <4>5
    <3>3. QED
      BY <3>1, <3>2
  <2>3. S \in good
    <3> HIDE DEF good
    <3>1. good \in SUBSET SUBSET S
      BY DEF good
    <3>2. QED
      BY <2>2, <3>1, SubsetInduction
  <2>4. QED
    BY <2>3
<1>4. QED
  BY <1>2, <1>3

\* A sum is that of a part and that of the rest.
LEMMA SumSplit ==
  ASSUME NEW S, IsFiniteSet(S), NEW f, \A x \in S : f[x] \in Nat, NEW T \in SUBSET S
  PROVE  SumOver(f, S) = SumOver(f, T) + SumOver(f, S \ T)
<1> DEFINE good == {R \in SUBSET S : SumOver(f, S) = SumOver(f, R) + SumOver(f, S \ R)}
<1>1. \A R \in SUBSET S : IsFiniteSet(R) /\ SumOver(f, R) \in Nat
  BY FS_Subset, SumStep
<1>2. ASSUME NEW R \in SUBSET S, \A Q \in SUBSET R : Q # R => Q \in good
      PROVE  R \in good
  <2>1. CASE R = {}
    <3>1. S \ R = S /\ SumOver(f, R) = 0
      BY <2>1, SumStep
    <3>2. QED
      BY <1>1, <3>1
  <2>2. CASE R # {}
    <3>1. PICK x \in R : TRUE
      BY <2>2
    <3>2. PICK Q \in SUBSET S : Q = R \ {x}
      OBVIOUS
    <3>3. SumOver(f, S) = SumOver(f, Q) + SumOver(f, S \ Q)
      BY <1>2, <3>1, <3>2
    <3>4. SumOver(f, R) = f[x] + SumOver(f, Q)
      BY <1>1, <3>2, SumStep
    <3>5. PICK P \in SUBSET S : P = S \ Q
      OBVIOUS
    <3>6. SumOver(f, P) = f[x] + SumOver(f, P \ {x})
      BY <1>1, <3>2, <3>5, SumStep
    <3>7. P \ {x} = S \ R
      BY <3>2, <3>5
    <3>8. SumOver(f, Q) \in Nat /\ SumOver(f, S \ R) \in Nat /\ f[x] \in Nat
      BY <1>1
    <3>9. SumOver(f, S \ Q) = SumOver(f, P) /\ SumOver(f, P \ {x}) = SumOver(f, S \ R)
      BY <3>5, <3>7, Zenon
    <3>10. PICK q, r, p \in Nat : q = SumOver(f, Q) /\ r = SumOver(f, S \ R) /\ p = f[x]
      BY <3>8
    <3>11. SumOver(f, S) = q + (p + r) /\ SumOver(f, R) = p + q
      BY <3>3, <3>4, <3>6, <3>9, <3>10
    <3>12. SumOver(f, S) = SumOver(f, R) + SumOver(f, S \ R)
      BY <3>10, <3>11
    <3>13. QED
      BY <3>12
  <2>3. QED
    BY <2>1, <2>2
<1>3. T \in good
  <2> HIDE DEF good
  <2>1. good \in SUBSET SUBSET S
    BY DEF good
  <2>2. QED
    BY <1>2, <2>1, SubsetInduction
<1>4. QED
  BY <1>3

-----------------------------------------------------------------------------
(* The limit and its cutoff.                                              *)

\* A vector as plan_hotkey_weights makes it: some hotkeys, positive values.
IsVector(w) == IsFiniteSet(DOMAIN w) /\ DOMAIN w # {} /\ w \in [DOMAIN w -> Nat \ {0}]

\* The lesser of two.
LEMMA MinOfTwo ==
  ASSUME NEW x \in Int, NEW y \in Int
  PROVE  Min({x, y}) = IF x <= y THEN x ELSE y
<1>1. PICK z : z = Min({x, y})
  OBVIOUS
<1>2. z = CHOOSE u \in {x, y} : \A v \in {x, y} : u <= v
  BY <1>1 DEF Min
<1>3. \E u \in {x, y} : \A v \in {x, y} : u <= v
  OBVIOUS
<1>4. z \in {x, y} /\ \A v \in {x, y} : z <= v
  BY <1>2, <1>3
<1>5. QED
  BY <1>1, <1>4

\* The top of a vector is one of its values and bounds them all.
LEMMA TopFacts ==
  ASSUME NEW w, IsFiniteSet(DOMAIN w), DOMAIN w # {}, w \in [DOMAIN w -> Nat]
  PROVE  /\ Top(w) \in Nat
         /\ \E h \in DOMAIN w : w[h] = Top(w)
         /\ \A h \in DOMAIN w : w[h] <= Top(w)
<1> DEFINE D == DOMAIN w
           total == SumOver(w, D)
           gaps == {total - w[h] : h \in D}
           values == {w[h] : h \in D}
<1>1. total \in Nat
  BY SumStep
<1>2. ASSUME NEW h \in D PROVE w[h] <= total
  <2>1. PICK R : R = D \ {h}
    OBVIOUS
  <2>2. IsFiniteSet(R) /\ \A x \in R : w[x] \in Nat
    BY <2>1, FS_Subset
  <2>3. SumOver(w, R) \in Nat
    BY <2>2, SumStep
  <2>4. total = w[h] + SumOver(w, R)
    BY <2>1, SumStep
  <2>5. QED
    BY <2>3, <2>4
<1> HIDE DEF total
<1>3. gaps \in SUBSET Nat /\ gaps # {}
  BY <1>1, <1>2
<1>4. PICK h \in D : \A g \in D : total - w[h] <= total - w[g]
  <2>1. PICK m \in gaps : \A n \in gaps : m <= n
    BY <1>3, LeastNat
  <2>2. QED
    BY <2>1
<1>5. \A g \in D : w[g] <= w[h]
  BY <1>1, <1>4
<1>6. \E u \in values : \A v \in values : u >= v
  BY <1>5
<1>7. Top(w) = CHOOSE u \in values : \A v \in values : u >= v
  BY DEF Top, Max
<1>8. Top(w) \in values /\ \A v \in values : Top(w) >= v
  BY <1>6, <1>7
<1>9. QED
  BY <1>8

\* The values of w, those above w[h] lowered to it.
Lowered(w, h) == [g \in DOMAIN w |-> IF w[g] <= w[h] THEN w[g] ELSE w[h]]

\* LoweredTo is the total of the lowered values.
LEMMA LoweredDef ==
  ASSUME NEW w, IsFiniteSet(DOMAIN w), w \in [DOMAIN w -> Nat], NEW h \in DOMAIN w
  PROVE  LoweredTo(w, h) = SumOver(Lowered(w, h), DOMAIN w)
<1> DEFINE D == DOMAIN w
           v == Lowered(w, h)
           pick(s) == CHOOSE x \in s : TRUE
           folds(iter) == iter = [s \in SUBSET D |->
                             IF s = {} THEN 0
                             ELSE Min({w[pick(s)], w[h]}) + iter[s \ {pick(s)}]]
<1>1. LoweredTo(w, h) = (CHOOSE iter : folds(iter))[D]
  BY DEF LoweredTo, MapThenSumSet, MapThenFoldSet
<1>2. \A s \in SUBSET D : s # {} => Min({w[pick(s)], w[h]}) = v[pick(s)]
  <2>1. ASSUME NEW g \in D PROVE Min({w[g], w[h]}) = v[g]
    <3>1. w[g] \in Int /\ w[h] \in Int
      OBVIOUS
    <3>2. QED
      BY <3>1, MinOfTwo DEF Lowered
  <2>2. \A s \in SUBSET D : s # {} => pick(s) \in D
    OBVIOUS
  <2>3. QED
    BY <2>1, <2>2
<1>3. ASSUME NEW iter PROVE folds(iter) <=> IsSum(iter, v, D)
  <2> HIDE DEF v, D
  <2>1. [s \in SUBSET D |-> IF s = {} THEN 0
                            ELSE Min({w[pick(s)], w[h]}) + iter[s \ {pick(s)}]]
        = [s \in SUBSET D |-> IF s = {} THEN 0 ELSE v[pick(s)] + iter[s \ {pick(s)}]]
    BY <1>2
  <2>2. QED
    BY <2>1 DEF IsSum
<1>4. \E iter : IsSum(iter, v, D)
  BY SumExists
<1>5. PICK it : it = CHOOSE iter : folds(iter)
  OBVIOUS
<1>6. folds(it)
  <2> HIDE DEF folds
  <2>1. \E iter : folds(iter)
    BY <1>3, <1>4
  <2>2. QED
    BY <1>5, <2>1
<1>7. SumOver(v, D) = it[D]
  <2> HIDE DEF v, D, folds
  <2>1. IsFiniteSet(D) /\ D \in SUBSET D
    BY DEF D
  <2>2. IsSum(it, v, D)
    BY <1>3, <1>6
  <2>3. QED
    BY <2>1, <2>2, SumIs
<1>8. QED
  BY <1>1, <1>5, <1>7

\* What lowering to w[h] leaves is at most the values of any part and w[h] for
\* each of the others, and that exactly when it lowers the others alone.
LEMMA LoweredSplit ==
  ASSUME NEW w, IsFiniteSet(DOMAIN w), w \in [DOMAIN w -> Nat], NEW h \in DOMAIN w,
         NEW R \in SUBSET DOMAIN w
  PROVE  /\ LoweredTo(w, h) \in Nat
         /\ LoweredTo(w, h) <= SumOver(w, R) + w[h] * Cardinality(DOMAIN w \ R)
         /\ (\A g \in R : w[g] <= w[h]) /\ (\A g \in DOMAIN w \ R : w[h] <= w[g]) =>
              LoweredTo(w, h) = SumOver(w, R) + w[h] * Cardinality(DOMAIN w \ R)
<1>1. PICK D, v, A : D = DOMAIN w /\ v = Lowered(w, h) /\ A = D \ R
  OBVIOUS
<1>2. \A g \in D : /\ v[g] \in Nat /\ w[g] \in Nat /\ v[g] <= w[g] /\ v[g] <= w[h]
                   /\ v[g] = IF w[g] <= w[h] THEN w[g] ELSE w[h]
  BY <1>1 DEF Lowered
<1>3. IsFiniteSet(D) /\ IsFiniteSet(R) /\ IsFiniteSet(A) /\ R \subseteq D /\ A \subseteq D
  BY <1>1, FS_Subset
<1>4. LoweredTo(w, h) = SumOver(v, D)
  BY <1>1, LoweredDef
<1>5. SumOver(v, D) = SumOver(v, R) + SumOver(v, A)
  BY <1>1, <1>2, <1>3, SumSplit
<1>6. /\ SumOver(v, D) \in Nat /\ SumOver(v, R) \in Nat /\ SumOver(v, A) \in Nat
      /\ SumOver(w, R) \in Nat
  <2>1. SumOver(v, D) \in Nat
    BY <1>2, <1>3, SumStep
  <2>2. SumOver(v, R) \in Nat
    BY <1>2, <1>3, SumStep
  <2>3. SumOver(v, A) \in Nat
    BY <1>2, <1>3, SumStep
  <2>4. SumOver(w, R) \in Nat
    BY <1>2, <1>3, SumStep
  <2>5. QED
    BY <2>1, <2>2, <2>3, <2>4
<1>7. SumOver(v, R) <= SumOver(w, R)
  BY <1>2, <1>3, SumMonotone
<1> DEFINE flat == [g \in A |-> w[h]]
<1>8. SumOver(flat, A) = w[h] * Cardinality(A)
  <2>1. w[h] \in Nat /\ \A g \in A : flat[g] = w[h]
    OBVIOUS
  <2> HIDE DEF flat
  <2>2. QED
    BY <1>3, <2>1, SumConstant
<1>9. SumOver(v, A) <= SumOver(flat, A)
  <2>1. \A g \in A : v[g] \in Nat /\ flat[g] \in Nat /\ v[g] <= flat[g]
    BY <1>1, <1>2, <1>3
  <2> HIDE DEF flat
  <2>2. QED
    BY <1>3, <2>1, SumMonotone
<1>10. ASSUME \A g \in R : w[g] <= w[h], \A g \in A : w[h] <= w[g]
       PROVE  SumOver(v, R) = SumOver(w, R) /\ SumOver(v, A) = SumOver(flat, A)
  <2>1. \A g \in R : v[g] = w[g]
    BY <1>2, <1>3, <1>10
  <2>2. \A g \in A : v[g] = flat[g]
    <3>1. ASSUME NEW g \in A PROVE v[g] = w[h]
      <4>1. w[h] <= w[g] /\ w[g] \in Nat /\ w[h] \in Nat
        BY <1>2, <1>3, <1>10
      <4>2. QED
        BY <1>2, <1>3, <4>1
    <3>2. QED
      BY <3>1
  <2> HIDE DEF flat
  <2>3. SumOver(v, R) = SumOver(w, R)
    BY <1>3, <2>1, SumEqual
  <2>4. SumOver(v, A) = SumOver(flat, A)
    BY <1>3, <2>2, SumEqual
  <2>5. QED
    BY <2>3, <2>4
<1> HIDE DEF flat
<1>11. Cardinality(A) = Cardinality(DOMAIN w \ R) /\ w[h] * Cardinality(A) \in Nat
  <2>1. Cardinality(A) \in Nat /\ w[h] \in Nat
    BY <1>3, FS_CardinalityType
  <2>2. w[h] * Cardinality(A) \in Nat
    BY <2>1
  <2>3. QED
    BY <1>1, <2>2, Zenon
<1>12. LoweredTo(w, h) <= SumOver(w, R) + w[h] * Cardinality(A)
  BY <1>4, <1>5, <1>6, <1>7, <1>8, <1>9, <1>11
<1>13. (\A g \in R : w[g] <= w[h]) /\ (\A g \in A : w[h] <= w[g]) =>
         LoweredTo(w, h) = SumOver(w, R) + w[h] * Cardinality(A)
  BY <1>4, <1>5, <1>8, <1>10
<1>14. QED
  BY <1>1, <1>4, <1>6, <1>11, <1>12, <1>13

\* Lowering to less leaves less, but not less in proportion.
LEMMA LoweredScale ==
  ASSUME NEW w, IsFiniteSet(DOMAIN w), w \in [DOMAIN w -> Nat],
         NEW g \in DOMAIN w, NEW h \in DOMAIN w, w[g] <= w[h]
  PROVE  w[g] * LoweredTo(w, h) <= w[h] * LoweredTo(w, g)
<1>1. PICK D, u, v : D = DOMAIN w /\ u = Lowered(w, h) /\ v = Lowered(w, g)
  OBVIOUS
<1>2. \A k \in D : u[k] \in Nat /\ v[k] \in Nat
  BY <1>1 DEF Lowered
<1>3. PICK x, y \in Nat : x = w[g] /\ y = w[h]
  OBVIOUS
<1>4. ASSUME NEW k \in D PROVE x * u[k] <= y * v[k] + 0
  <2>1. PICK z \in Nat : z = w[k]
    BY <1>1
  <2>2. u[k] = (IF z <= y THEN z ELSE y) /\ v[k] = (IF z <= x THEN z ELSE x)
    BY <1>1, <1>3, <2>1 DEF Lowered
  <2>3. x <= y
    BY <1>3
  <2>4. CASE z <= x
    <3>1. u[k] = z /\ v[k] = z
      BY <2>2, <2>3, <2>4
    <3>2. x * z <= y * z
      BY <2>3
    <3>3. QED
      BY <3>1, <3>2
  <2>5. CASE ~(z <= x)
    <3>1. v[k] = x /\ u[k] \in Nat /\ u[k] <= y
      BY <2>2, <2>5
    <3>2. x * u[k] <= x * y
      BY <3>1
    <3>3. x * y = y * x
      OBVIOUS
    <3>4. QED
      BY <3>1, <3>2, <3>3
  <2>6. QED
    BY <2>4, <2>5
<1>5. x * SumOver(u, D) <= y * SumOver(v, D) + 0 * Cardinality(D)
  BY <1>1, <1>2, <1>4, SumCompare
<1>6. SumOver(u, D) = LoweredTo(w, h) /\ SumOver(v, D) = LoweredTo(w, g)
  BY <1>1, LoweredDef
<1>7. SumOver(u, D) \in Nat /\ SumOver(v, D) \in Nat /\ Cardinality(D) \in Nat
  BY <1>1, <1>2, SumStep, FS_CardinalityType
<1>8. y * SumOver(v, D) \in Nat
  BY <1>7
<1>9. QED
  BY <1>3, <1>5, <1>6, <1>7, <1>8

\* Some hotkey of a set of them has the least value.
LEMMA LeastOf ==
  ASSUME NEW w, w \in [DOMAIN w -> Nat], NEW A \in SUBSET DOMAIN w, A # {}
  PROVE  \E g \in A : \A k \in A : w[g] <= w[k]
<1> DEFINE values == {w[k] : k \in A}
<1>1. values \in SUBSET Nat /\ values # {}
  OBVIOUS
<1>2. PICK x \in values : \A y \in values : x <= y
  BY <1>1, LeastNat
<1>3. QED
  BY <1>2

\* The hotkeys that keep their value are those with the smaller values.
LEMMA BelowIsLower ==
  ASSUME NEW w, IsVector(w), NEW limit \in Nat,
         NEW h \in BelowCutoff(w, limit), NEW g \in DOMAIN w, w[g] <= w[h]
  PROVE  g \in BelowCutoff(w, limit)
<1>1. w \in [DOMAIN w -> Nat] /\ IsFiniteSet(DOMAIN w) /\ h \in DOMAIN w
  BY DEF IsVector, BelowCutoff
<1>2. PICK x, y, lg, lh \in Nat : /\ x = w[g] /\ y = w[h]
                                  /\ lg = LoweredTo(w, g) /\ lh = LoweredTo(w, h)
  BY <1>1, LoweredSplit
<1>3. x > 0 /\ y > 0
  BY <1>1, <1>2 DEF IsVector
<1>4. U16 \in Nat
  BY VectorAssumption
<1>5. y * U16 <= limit * lh
  BY <1>2 DEF BelowCutoff
<1>6. x * lh <= y * lg
  BY <1>1, <1>2, LoweredScale
<1>7. x * (y * U16) <= x * (limit * lh)
  <2>1. y * U16 \in Nat /\ limit * lh \in Nat
    BY <1>4
  <2>2. QED
    BY <1>5, <2>1
<1>8. limit * (x * lh) <= limit * (y * lg)
  <2>1. x * lh \in Nat /\ y * lg \in Nat
    BY <1>4
  <2>2. QED
    BY <1>6, <2>1
<1>9. /\ x * (y * U16) = y * (x * U16) /\ x * (limit * lh) = limit * (x * lh)
      /\ limit * (y * lg) = y * (limit * lg)
  BY <1>4
<1>10. y * (x * U16) <= y * (limit * lg)
  <2>1. x * (y * U16) \in Nat /\ limit * (x * lh) \in Nat /\ limit * (y * lg) \in Nat
    BY <1>4
  <2>2. QED
    BY <1>7, <1>8, <1>9, <2>1
<1>11. x * U16 <= limit * lg
  <2>1. PICK p, q \in Nat : p = x * U16 /\ q = limit * lg
    BY <1>4
  <2>2. y * p <= y * q
    BY <1>10, <2>1
  <2>3. p <= q
    BY <1>3, <2>2
  <2>4. QED
    BY <2>1, <2>3
<1>12. QED
  BY <1>2, <1>11 DEF BelowCutoff

\* The hotkeys above the cutoff, what the others keep, and the scale of Clip.
AtLimit(w, limit) == DOMAIN w \ BelowCutoff(w, limit)
Kept(w, limit)    == SumOver(w, BelowCutoff(w, limit))
Scale(w, limit)   == U16 - limit * Cardinality(AtLimit(w, limit))

\* The cutoff: what it leaves to the hotkeys below it, and what it takes from
\* the others.
LEMMA CutoffFacts ==
  ASSUME NEW w, IsVector(w), NEW limit \in Nat
  PROVE  /\ BelowCutoff(w, limit) \subseteq DOMAIN w
         /\ IsFiniteSet(BelowCutoff(w, limit)) /\ IsFiniteSet(AtLimit(w, limit))
         /\ Kept(w, limit) \in Nat /\ Scale(w, limit) \in Int
         /\ Cardinality(AtLimit(w, limit)) \in Nat /\ Cardinality(BelowCutoff(w, limit)) \in Nat
         /\ Cardinality(DOMAIN w) = Cardinality(AtLimit(w, limit)) + Cardinality(BelowCutoff(w, limit))
         /\ \A h \in BelowCutoff(w, limit) : w[h] * Scale(w, limit) <= limit * Kept(w, limit)
         /\ \A h \in BelowCutoff(w, limit), g \in AtLimit(w, limit) : w[h] < w[g]
         /\ AtLimit(w, limit) # {} =>
              /\ Scale(w, limit) > 0
              /\ \A g \in AtLimit(w, limit) : w[g] * Scale(w, limit) > limit * Kept(w, limit)
         /\ Cardinality(DOMAIN w) * limit >= U16 => BelowCutoff(w, limit) # {} /\ Kept(w, limit) > 0
<1>1. PICK B, A, kept, scale :
        /\ B = BelowCutoff(w, limit) /\ A = AtLimit(w, limit)
        /\ kept = Kept(w, limit) /\ scale = Scale(w, limit)
        /\ A = DOMAIN w \ B /\ kept = SumOver(w, B) /\ scale = U16 - limit * Cardinality(A)
  BY DEF AtLimit, Kept, Scale
<1>2. /\ w \in [DOMAIN w -> Nat] /\ IsFiniteSet(DOMAIN w) /\ DOMAIN w # {}
      /\ \A h \in DOMAIN w : w[h] > 0
  BY DEF IsVector
<1>3. /\ B \subseteq DOMAIN w /\ IsFiniteSet(B) /\ IsFiniteSet(A)
      /\ A \subseteq DOMAIN w /\ A \cap B = {} /\ DOMAIN w = A \cup B
  <2>1. B \subseteq DOMAIN w
    BY <1>1 DEF BelowCutoff
  <2>2. A \subseteq DOMAIN w /\ A \cap B = {} /\ DOMAIN w = A \cup B
    BY <1>1, <2>1
  <2>3. QED
    BY <1>2, <2>1, <2>2, FS_Subset
<1>4. PICK n, k, u \in Nat : n = Cardinality(A) /\ k = kept /\ u = U16
  <2>1. Cardinality(A) \in Nat
    BY <1>3, FS_CardinalityType
  <2>2. kept \in Nat
    BY <1>1, <1>2, <1>3, SumStep
  <2>3. QED
    BY <2>1, <2>2, VectorAssumption
<1>5. scale = u - limit * n /\ scale \in Int
  BY <1>1, <1>4
<1>6. Cardinality(B) \in Nat /\ Cardinality(DOMAIN w) = Cardinality(A) + Cardinality(B)
  <2>1. Cardinality(A \cup B) = Cardinality(A) + Cardinality(B)
    <3>1. Cardinality(A \cap B) = 0
      BY <1>3, FS_EmptySet
    <3>2. Cardinality(A) \in Nat /\ Cardinality(B) \in Nat
      BY <1>3, FS_CardinalityType
    <3>3. Cardinality(A \cup B) = Cardinality(A) + Cardinality(B) - Cardinality(A \cap B)
      BY <1>3, FS_Union
    <3>4. QED
      BY <3>1, <3>2, <3>3
  <2>2. Cardinality(A \cup B) = Cardinality(DOMAIN w)
    BY <1>3, Zenon
  <2>3. QED
    BY <1>3, <2>1, <2>2, FS_CardinalityType
<1>7. ASSUME NEW h \in B, NEW g \in A PROVE w[h] < w[g]
  <2>1. ~(w[g] <= w[h])
    BY <1>1, <1>3, BelowIsLower
  <2>2. w[g] \in Nat /\ w[h] \in Nat
    BY <1>2, <1>3
  <2>3. QED
    BY <2>1, <2>2
<1>8. ASSUME NEW h \in B PROVE w[h] * scale <= limit * kept
  <2>1. PICK x, l \in Nat : x = w[h] /\ l = LoweredTo(w, h)
    BY <1>2, <1>3, LoweredSplit
  <2>2. l <= k + x * n
    BY <1>1, <1>2, <1>3, <1>4, <2>1, LoweredSplit
  <2>3. x * u <= limit * l
    BY <1>1, <1>4, <2>1 DEF BelowCutoff
  <2>4. limit * l <= limit * (k + x * n)
    <3>1. k + x * n \in Nat
      OBVIOUS
    <3>2. QED
      BY <2>2, <3>1
  <2>5. limit * (k + x * n) = limit * k + x * (limit * n) /\ x * (u - limit * n) = x * u - x * (limit * n)
    OBVIOUS
  <2>6. x * (u - limit * n) <= limit * k
    <3>1. x * u \in Nat /\ limit * l \in Nat /\ limit * k \in Nat /\ x * (limit * n) \in Nat
      OBVIOUS
    <3>2. QED
      BY <2>3, <2>4, <2>5, <3>1
  <2>7. QED
    BY <1>4, <1>5, <2>1, <2>6
<1>9. ASSUME A # {} PROVE scale > 0 /\ \A g \in A : w[g] * scale > limit * kept
  <2>1. PICK a \in A : \A g \in A : w[a] <= w[g]
    BY <1>2, <1>3, <1>9, LeastOf
  <2>2. PICK x, l \in Nat : x = w[a] /\ l = LoweredTo(w, a)
    BY <1>2, <1>3, LoweredSplit
  <2>3. l = k + x * n
    <3>1. \A g \in B : w[g] <= w[a]
      BY <1>2, <1>3, <1>7
    <3>2. \A g \in DOMAIN w \ B : w[a] <= w[g]
      BY <1>1, <2>1
    <3>3. LoweredTo(w, a) = SumOver(w, B) + w[a] * Cardinality(DOMAIN w \ B)
      BY <1>2, <1>3, <3>1, <3>2, LoweredSplit
    <3>4. QED
      BY <1>1, <1>4, <2>2, <3>3
  <2>4. ~(x * u <= limit * l)
    BY <1>1, <1>3, <1>4, <2>2 DEF BelowCutoff
  <2>5. limit * l = limit * k + x * (limit * n) /\ x * (u - limit * n) = x * u - x * (limit * n)
    BY <2>3
  <2>6. x * scale > limit * k /\ limit * k \in Nat
    <3>1. x * u \in Nat /\ limit * l \in Nat /\ limit * k \in Nat /\ x * (limit * n) \in Nat
      OBVIOUS
    <3>2. QED
      BY <1>5, <2>4, <2>5, <3>1
  <2>7. scale > 0
    <3>1. ASSUME scale <= 0 PROVE FALSE
      <4>1. x * scale <= 0
        BY <1>5, <3>1
      <4>2. QED
        BY <1>5, <2>6, <4>1
    <3>2. QED
      BY <1>5, <3>1
  <2>8. ASSUME NEW g \in A PROVE w[g] * scale > limit * kept
    <3>1. PICK y \in Nat : y = w[g]
      BY <1>2, <1>3
    <3>2. x <= y
      BY <2>1, <2>2, <3>1
    <3>3. x * scale <= y * scale
      BY <1>5, <2>7, <3>2
    <3>4. QED
      BY <1>4, <1>5, <2>6, <3>1, <3>3
  <2>9. QED
    BY <2>7, <2>8
<1>10. ASSUME Cardinality(DOMAIN w) * limit >= U16 PROVE B # {} /\ kept > 0
  <2>1. PICK h \in DOMAIN w : \A g \in DOMAIN w : w[h] <= w[g]
    BY <1>2, LeastOf
  <2>2. PICK x, l, m \in Nat : x = w[h] /\ l = LoweredTo(w, h) /\ m = Cardinality(DOMAIN w)
    BY <1>2, LoweredSplit, FS_CardinalityType
  <2>3. l = x * m
    <3>1. PICK R \in SUBSET DOMAIN w : R = {}
      OBVIOUS
    <3>2. DOMAIN w \ R = DOMAIN w /\ SumOver(w, R) = 0
      BY <1>2, <3>1, SumStep
    <3>3. LoweredTo(w, h) = SumOver(w, R) + w[h] * Cardinality(DOMAIN w \ R)
      BY <1>2, <2>1, <3>1, LoweredSplit
    <3>4. Cardinality(DOMAIN w \ R) = Cardinality(DOMAIN w)
      BY <3>2, Zenon
    <3>5. x * m \in Nat
      OBVIOUS
    <3>6. QED
      BY <2>2, <3>2, <3>3, <3>4, <3>5
  <2>4. m * limit >= u
    BY <1>4, <1>10, <2>2
  <2>5. x * u <= x * (m * limit)
    <3>1. m * limit \in Nat
      OBVIOUS
    <3>2. QED
      BY <2>4, <3>1
  <2>6. x * (m * limit) = limit * l
    BY <2>3
  <2>7. h \in B
    BY <1>1, <1>4, <2>2, <2>5, <2>6 DEF BelowCutoff
  <2>8. PICK R : R = B \ {h}
    OBVIOUS
  <2>9. SumOver(w, R) \in Nat
    BY <1>2, <1>3, <2>8, FS_Subset, SumStep
  <2>10. kept = w[h] + SumOver(w, R)
    BY <1>1, <1>2, <1>3, <2>7, <2>8, SumStep
  <2>11. QED
    BY <1>2, <2>1, <2>7, <2>9, <2>10
<1>11. QED
  BY <1>1, <1>3, <1>4, <1>5, <1>6, <1>7, <1>8, <1>9, <1>10

\* The total of a vector is the sum of its values.
LEMMA TotalIs ==
  ASSUME NEW w
  PROVE  Total(w) = SumOver(w, DOMAIN w)
  BY DEF Total, SumOver

\* A vector is within the limit when no value lies above the cutoff.
LEMMA WithinIsAllBelow ==
  ASSUME NEW w, IsVector(w), NEW limit \in Nat
  PROVE  WithinLimit(w, limit) <=> BelowCutoff(w, limit) = DOMAIN w
<1>1. w \in [DOMAIN w -> Nat] /\ IsFiniteSet(DOMAIN w) /\ DOMAIN w # {}
  BY DEF IsVector
<1>2. PICK h \in DOMAIN w : w[h] = Top(w) /\ \A g \in DOMAIN w : w[g] <= w[h]
  BY <1>1, TopFacts
<1>3. LoweredTo(w, h) = Total(w)
  <2>1. PICK R \in SUBSET DOMAIN w : R = DOMAIN w
    OBVIOUS
  <2>2. DOMAIN w \ R = {}
    BY <2>1
  <2>3. Cardinality(DOMAIN w \ R) = 0
    BY <2>2, FS_EmptySet
  <2>4. LoweredTo(w, h) = SumOver(w, R) + w[h] * Cardinality(DOMAIN w \ R)
    BY <1>1, <1>2, <2>1, LoweredSplit
  <2>5. SumOver(w, R) \in Nat /\ w[h] \in Nat
    BY <1>1, <2>1, SumStep
  <2>6. SumOver(w, R) = Total(w)
    BY <2>1, TotalIs
  <2>7. QED
    BY <2>3, <2>4, <2>5, <2>6
<1>4. h \in BelowCutoff(w, limit) <=> WithinLimit(w, limit)
  BY <1>2, <1>3 DEF BelowCutoff, WithinLimit
<1>5. BelowCutoff(w, limit) \subseteq DOMAIN w
  BY DEF BelowCutoff
<1>6. h \in BelowCutoff(w, limit) => \A g \in DOMAIN w : g \in BelowCutoff(w, limit)
  BY <1>2, BelowIsLower
<1>7. QED
  BY <1>2, <1>4, <1>5, <1>6

\* The vector that is lowered to the cutoff: its values and its total.
LEMMA LowerFacts ==
  ASSUME NEW w, IsVector(w), NEW limit \in Nat, limit > 0,
         Cardinality(DOMAIN w) * limit >= U16, ~WithinLimit(w, limit),
         NEW c, c = LowerToCutoff(w, limit)
  PROVE  /\ AtLimit(w, limit) # {} /\ BelowCutoff(w, limit) # {}
         /\ Kept(w, limit) > 0 /\ Scale(w, limit) > 0
         /\ DOMAIN c = DOMAIN w
         /\ \A h \in BelowCutoff(w, limit) :
              c[h] = w[h] * Scale(w, limit) /\ c[h] <= limit * Kept(w, limit)
         /\ \A h \in AtLimit(w, limit) : c[h] = limit * Kept(w, limit)
         /\ Total(c) = Kept(w, limit) * U16
<1>1. /\ w \in [DOMAIN w -> Nat] /\ IsFiniteSet(DOMAIN w)
      /\ \A h \in DOMAIN w : w[h] > 0
  BY DEF IsVector
<1>2. PICK B, A, kept, scale :
        /\ B = BelowCutoff(w, limit) /\ A = AtLimit(w, limit)
        /\ kept = Kept(w, limit) /\ scale = Scale(w, limit)
        /\ A = DOMAIN w \ B /\ kept = SumOver(w, B) /\ scale = U16 - limit * Cardinality(A)
  BY DEF AtLimit, Kept, Scale
<1>3. /\ B \subseteq DOMAIN w /\ IsFiniteSet(B) /\ IsFiniteSet(A)
      /\ kept \in Nat /\ scale \in Int
      /\ \A h \in B : w[h] * scale <= limit * kept
      /\ A # {} => scale > 0 /\ \A g \in A : w[g] * scale > limit * kept
      /\ B # {} /\ kept > 0
  BY <1>2, CutoffFacts
<1>4. A # {}
  <2>1. B # DOMAIN w
    BY <1>2, WithinIsAllBelow
  <2>2. QED
    BY <1>2, <1>3, <2>1
<1>5. scale \in Nat /\ scale > 0 /\ A \subseteq DOMAIN w /\ A \cap B = {} /\ DOMAIN w = A \cup B
  <2>1. scale > 0
    BY <1>3, <1>4
  <2>2. scale \in Nat
    BY <1>3, <2>1
  <2>3. A \subseteq DOMAIN w /\ A \cap B = {} /\ DOMAIN w = A \cup B
    <3>1. A = DOMAIN w \ B
      BY <1>2
    <3>2. B \subseteq DOMAIN w
      BY <1>3
    <3>3. QED
      BY <3>1, <3>2
  <2>4. QED
    BY <2>1, <2>2, <2>3
<1>6. Total(Restrict(w, B)) = kept
  <2>1. PICK v : v = Restrict(w, B)
    OBVIOUS
  <2>2. DOMAIN v = B /\ \A h \in B : v[h] = w[h]
    BY <2>1 DEF Restrict
  <2>3. SumOver(v, B) = SumOver(w, B)
    BY <1>3, <2>2, SumEqual
  <2>4. Total(v) = SumOver(v, B)
    BY <2>2, TotalIs
  <2>5. QED
    BY <1>2, <2>1, <2>3, <2>4
<1>7. c = [h \in DOMAIN w |-> Min({w[h] * scale, limit * kept})]
  BY <1>2, <1>6 DEF LowerToCutoff
<1>8. PICK top \in Nat : top = limit * kept
  BY <1>3
<1>9. ASSUME NEW h \in B PROVE c[h] = scale * w[h] /\ c[h] = w[h] * scale /\ c[h] <= top
  <2>1. PICK x \in Nat : x = w[h] * scale
    BY <1>1, <1>3, <1>5
  <2>2. c[h] = Min({x, top}) /\ x <= top
    BY <1>3, <1>7, <1>8, <2>1
  <2>3. c[h] = x
    BY <2>2, MinOfTwo
  <2>4. w[h] * scale = scale * w[h]
    BY <1>1, <1>3, <1>5
  <2>5. QED
    BY <2>1, <2>2, <2>3, <2>4
<1>10. ASSUME NEW h \in A PROVE c[h] = top
  <2>1. PICK x \in Nat : x = w[h] * scale
    BY <1>1, <1>5
  <2>2. c[h] = Min({x, top}) /\ x > top
    BY <1>3, <1>4, <1>5, <1>7, <1>8, <2>1
  <2>3. QED
    BY <2>2, MinOfTwo
<1>11. Total(c) = kept * U16
  <2>1. \A h \in DOMAIN w : c[h] \in Nat
    <3>1. \A h \in B : w[h] * scale \in Nat
      BY <1>1, <1>3, <1>5
    <3>2. QED
      BY <1>5, <1>8, <1>9, <1>10, <3>1
  <2>2. DOMAIN c = DOMAIN w
    BY <1>7
  <2>3. Total(c) = SumOver(c, DOMAIN w)
    BY <2>2, TotalIs
  <2>4. SumOver(c, DOMAIN w) = SumOver(c, B) + SumOver(c, A)
    BY <1>1, <1>2, <1>3, <2>1, SumSplit
  <2>5. SumOver(c, B) = scale * kept
    <3>1. \A h \in B : w[h] \in Nat /\ c[h] = scale * w[h]
      BY <1>1, <1>3, <1>9
    <3>2. SumOver(c, B) = scale * SumOver(w, B)
      BY <1>3, <1>5, <3>1, SumScale
    <3>3. QED
      BY <1>2, <3>2
  <2>6. SumOver(c, A) = top * Cardinality(A)
    BY <1>3, <1>8, <1>10, SumConstant
  <2>7. PICK n, u \in Nat : n = Cardinality(A) /\ u = U16
    BY <1>3, FS_CardinalityType, VectorAssumption
  <2>8. scale * kept + (limit * kept) * n = kept * u
    <3>1. scale = u - limit * n
      BY <1>2, <2>7
    <3>2. (u - limit * n) * kept + (limit * kept) * n = kept * u
      BY <1>3
    <3>3. QED
      BY <3>1, <3>2
  <2>9. QED
    BY <1>8, <2>3, <2>4, <2>5, <2>6, <2>7, <2>8
<1>12. QED
  BY <1>2, <1>3, <1>4, <1>5, <1>7, <1>8, <1>9, <1>10, <1>11

\* What Clip returns, in its three cases.
LEMMA ClipCases ==
  ASSUME NEW w, NEW limit \in Nat
  PROVE  /\ WithinLimit(w, limit) => Clip(w, limit) = w
         /\ ~WithinLimit(w, limit) /\ Cardinality(DOMAIN w) * limit <= U16 =>
              Clip(w, limit) = [h \in DOMAIN w |-> 1]
         /\ ~WithinLimit(w, limit) /\ ~(Cardinality(DOMAIN w) * limit <= U16) =>
              Clip(w, limit) = LowerToCutoff(w, limit)
<1>1. CASE WithinLimit(w, limit)
  BY <1>1 DEF Clip
<1>2. CASE ~WithinLimit(w, limit) /\ Cardinality(DOMAIN w) * limit <= U16
  BY <1>2 DEF Clip
<1>3. CASE ~WithinLimit(w, limit) /\ ~(Cardinality(DOMAIN w) * limit <= U16)
  BY <1>3 DEF Clip
<1>4. QED
  BY <1>1, <1>2, <1>3

\* A limit that can be met is one that LowerFacts speaks of.
LEMMA MetLimit ==
  ASSUME NEW w, IsFiniteSet(DOMAIN w), NEW limit \in Nat,
         ~(Cardinality(DOMAIN w) * limit <= U16)
  PROVE  limit > 0 /\ Cardinality(DOMAIN w) * limit >= U16
<1>1. PICK n, u \in Nat : n = Cardinality(DOMAIN w) /\ u = U16
  BY FS_CardinalityType, VectorAssumption
<1>2. n * limit > u
  BY <1>1
<1>3. limit > 0
  <2>1. limit = 0 => n * limit = 0
    OBVIOUS
  <2>2. QED
    BY <1>2, <2>1
<1>4. QED
  BY <1>1, <1>2, <1>3

\* A clipped vector is a vector on the same hotkeys, in the same order.
LEMMA ClipShape ==
  ASSUME NEW w, IsVector(w), NEW limit \in Nat, NEW c, c = Clip(w, limit)
  PROVE  /\ IsVector(c) /\ DOMAIN c = DOMAIN w
         /\ \A g, h \in DOMAIN w : w[g] <= w[h] => c[g] <= c[h]
<1>1. /\ w \in [DOMAIN w -> Nat] /\ IsFiniteSet(DOMAIN w) /\ DOMAIN w # {}
      /\ \A h \in DOMAIN w : w[h] > 0
  BY DEF IsVector
<1>2. CASE WithinLimit(w, limit)
  <2>1. c = w
    BY <1>2, ClipCases
  <2>2. QED
    BY <2>1
<1>3. CASE ~WithinLimit(w, limit) /\ Cardinality(DOMAIN w) * limit <= U16
  <2>1. c = [h \in DOMAIN w |-> 1]
    BY <1>3, ClipCases
  <2>2. QED
    BY <1>1, <2>1 DEF IsVector
<1>4. CASE ~WithinLimit(w, limit) /\ ~(Cardinality(DOMAIN w) * limit <= U16)
  <2>1. c = LowerToCutoff(w, limit)
    BY <1>4, ClipCases
  <2>2. limit > 0 /\ Cardinality(DOMAIN w) * limit >= U16
    BY <1>1, <1>4, MetLimit
  <2>3. PICK B, A, kept, scale :
          /\ B = BelowCutoff(w, limit) /\ A = AtLimit(w, limit)
          /\ kept = Kept(w, limit) /\ scale = Scale(w, limit)
    OBVIOUS
  <2>4. /\ B \subseteq DOMAIN w /\ kept \in Nat /\ scale \in Int
        /\ \A h \in B, g \in A : w[h] < w[g]
    BY <2>3, CutoffFacts
  <2>5. DOMAIN w = A \cup B
    BY <2>3, <2>4 DEF AtLimit
  <2>6. /\ kept > 0 /\ scale > 0 /\ DOMAIN c = DOMAIN w
        /\ \A h \in B : c[h] = w[h] * scale /\ c[h] <= limit * kept
        /\ \A h \in A : c[h] = limit * kept
    BY <1>4, <2>1, <2>2, <2>3, LowerFacts
  <2>7. PICK top \in Nat : top = limit * kept /\ top > 0
    <3>1. limit * kept \in Nat /\ limit * kept > 0
      BY <2>2, <2>4, <2>6
    <3>2. QED
      BY <3>1
  <2>8. scale \in Nat
    BY <2>4, <2>6
  <2>9. ASSUME NEW h \in DOMAIN w PROVE c[h] \in Nat /\ c[h] > 0
    <3>1. CASE h \in B
      <4>1. PICK x \in Nat : x = w[h] /\ x > 0
        BY <1>1
      <4>2. x * scale \in Nat /\ x * scale > 0
        BY <2>6, <2>8, <4>1
      <4>3. QED
        BY <2>6, <3>1, <4>1, <4>2
    <3>2. CASE h \in A
      BY <2>6, <2>7, <3>2
    <3>3. QED
      BY <2>5, <3>1, <3>2
  <2>10. ASSUME NEW g \in DOMAIN w, NEW h \in DOMAIN w, w[g] <= w[h] PROVE c[g] <= c[h]
    <3>1. PICK x, y \in Nat : x = w[g] /\ y = w[h] /\ x <= y
      BY <1>1, <2>10
    <3>2. CASE g \in B /\ h \in B
      <4>1. x * scale <= y * scale
        BY <2>8, <3>1
      <4>2. QED
        BY <2>6, <3>1, <3>2, <4>1
    <3>3. CASE g \in B /\ h \in A
      BY <2>6, <3>3
    <3>4. CASE g \in A /\ h \in A
      BY <2>6, <2>7, <3>4
    <3>5. CASE g \in A /\ h \in B
      BY <2>4, <3>1, <3>5
    <3>6. QED
      BY <2>5, <3>2, <3>3, <3>4, <3>5
  <2>11. IsVector(c)
    <3>1. DOMAIN c = DOMAIN w
      BY <2>6
    <3>2. c = [h \in DOMAIN c |-> c[h]]
      BY <2>1 DEF LowerToCutoff
    <3>3. c \in [DOMAIN c -> Nat \ {0}]
      BY <2>9, <3>1, <3>2
    <3>4. IsFiniteSet(DOMAIN c) /\ DOMAIN c # {}
      BY <1>1, <3>1
    <3>5. QED
      BY <3>3, <3>4 DEF IsVector
  <2>12. QED
    BY <2>6, <2>10, <2>11
<1>5. QED
  BY <1>2, <1>3, <1>4

\* A limit that can be met is met.
LEMMA ClipWithinLimit ==
  ASSUME NEW w, IsVector(w), NEW limit \in Nat, ~(Cardinality(DOMAIN w) * limit <= U16),
         NEW c, c = Clip(w, limit)
  PROVE  WithinLimit(c, limit)
<1>1. CASE WithinLimit(w, limit)
  BY <1>1, ClipCases
<1>2. CASE ~WithinLimit(w, limit)
  <2>1. c = LowerToCutoff(w, limit)
    BY <1>2, ClipCases
  <2>2. limit > 0 /\ Cardinality(DOMAIN w) * limit >= U16
    BY MetLimit DEF IsVector
  <2>3. PICK B, A, kept :
          /\ B = BelowCutoff(w, limit) /\ A = AtLimit(w, limit) /\ kept = Kept(w, limit)
    OBVIOUS
  <2>4. kept \in Nat /\ B \subseteq DOMAIN w
    BY <2>3, CutoffFacts
  <2>5. /\ DOMAIN c = DOMAIN w /\ Total(c) = kept * U16
        /\ \A h \in B : c[h] <= limit * kept
        /\ \A h \in A : c[h] = limit * kept
    BY <1>2, <2>1, <2>2, <2>3, LowerFacts
  <2>6. \A h \in DOMAIN w : c[h] <= limit * kept
    <3>1. limit * kept <= limit * kept
      BY <2>4
    <3>2. DOMAIN w = A \cup B
      BY <2>3, <2>4 DEF AtLimit
    <3>3. QED
      BY <2>5, <3>1, <3>2
  <2>7. IsVector(c)
    BY ClipShape
  <2>8. /\ Top(c) \in Nat /\ \E h \in DOMAIN c : c[h] = Top(c)
    BY <2>7, TopFacts DEF IsVector
  <2>9. Top(c) <= limit * kept
    BY <2>5, <2>6, <2>8
  <2>10. PICK t, u, k \in Nat : t = Top(c) /\ u = U16 /\ k = kept
    BY <2>4, <2>8, VectorAssumption
  <2>11. t * u <= (limit * k) * u
    <3>1. limit * k \in Nat
      OBVIOUS
    <3>2. QED
      BY <2>9, <2>10, <3>1
  <2>12. (limit * k) * u = limit * (k * u)
    OBVIOUS
  <2>13. QED
    BY <2>5, <2>10, <2>11, <2>12 DEF WithinLimit
<1>3. QED
  BY <1>1, <1>2

\* Where a vector is clipped, the limit is reached and no further: see
\* ClipFillsToLimit of WeightInputs.
LEMMA ClipFills ==
  ASSUME NEW w, IsVector(w), NEW limit \in Nat, ~(Cardinality(DOMAIN w) * limit <= U16),
         ~WithinLimit(w, limit), NEW c, c = Clip(w, limit),
         NEW at, at = {h \in DOMAIN c : c[h] * U16 = limit * Total(c)}
  PROVE  /\ at # {}
         /\ \A g, h \in DOMAIN c \ at : c[g] * w[h] = c[h] * w[g]
         /\ \A g \in DOMAIN c \ at, h \in at : w[g] <= w[h]
<1>1. c = LowerToCutoff(w, limit)
  BY ClipCases
<1>2. limit > 0 /\ Cardinality(DOMAIN w) * limit >= U16
  BY MetLimit DEF IsVector
<1>3. PICK B, A, kept, scale :
        /\ B = BelowCutoff(w, limit) /\ A = AtLimit(w, limit)
        /\ kept = Kept(w, limit) /\ scale = Scale(w, limit)
  OBVIOUS
<1>4. /\ B \subseteq DOMAIN w /\ kept \in Nat /\ scale \in Int
      /\ \A h \in B, g \in A : w[h] < w[g]
  BY <1>3, CutoffFacts
<1>5. DOMAIN w = A \cup B
  BY <1>3, <1>4 DEF AtLimit
<1>6. /\ A # {} /\ kept > 0 /\ scale > 0 /\ DOMAIN c = DOMAIN w /\ Total(c) = kept * U16
      /\ \A h \in B : c[h] = w[h] * scale /\ c[h] <= limit * kept
      /\ \A h \in A : c[h] = limit * kept
  BY <1>1, <1>2, <1>3, LowerFacts
<1>7. PICK u, k, top \in Nat : u = U16 /\ u > 0 /\ k = kept /\ top = limit * kept
  <2>1. limit * kept \in Nat
    BY <1>4
  <2>2. QED
    BY <1>4, <2>1, VectorAssumption
<1>8. ASSUME NEW h \in DOMAIN w
      PROVE  h \in at <=> c[h] = top
  <2>1. c[h] \in Nat
    BY ClipShape DEF IsVector
  <2>2. limit * Total(c) = top * u
    <3>1. limit * (k * u) = (limit * k) * u
      OBVIOUS
    <3>2. QED
      BY <1>6, <1>7, <3>1
  <2>3. PICK x \in Nat : x = c[h]
    BY <2>1
  <2>4. x * u = top * u <=> x = top
    BY <1>7
  <2>5. h \in at <=> c[h] * U16 = limit * Total(c)
    BY <1>6
  <2>6. QED
    BY <1>7, <2>2, <2>3, <2>4, <2>5
<1>9. A \subseteq at /\ at \subseteq DOMAIN w
  BY <1>5, <1>6, <1>7, <1>8
<1>10. w \in [DOMAIN w -> Nat]
  BY DEF IsVector
<1>11. ASSUME NEW g \in DOMAIN c \ at, NEW h \in DOMAIN c \ at
       PROVE  c[g] * w[h] = c[h] * w[g]
  <2>1. g \in B /\ h \in B
    BY <1>5, <1>6, <1>9
  <2>2. PICK x, y \in Nat : x = w[g] /\ y = w[h]
    BY <1>4, <1>10, <2>1
  <2>3. (x * scale) * y = (y * scale) * x
    BY <1>4
  <2>4. QED
    BY <1>6, <2>1, <2>2, <2>3
<1>12. ASSUME NEW g \in DOMAIN c \ at, NEW h \in at
       PROVE  w[g] <= w[h]
  <2>1. g \in B /\ c[g] # top /\ c[h] = top /\ g \in DOMAIN w /\ h \in DOMAIN w
    BY <1>5, <1>6, <1>8, <1>9
  <2>2. PICK x, y \in Nat : x = w[g] /\ y = w[h]
    BY <1>10, <2>1
  <2>3. CASE h \in A
    BY <1>4, <2>1, <2>2, <2>3
  <2>4. CASE h \in B
    <3>1. x * scale <= top /\ x * scale # top /\ y * scale = top
      BY <1>6, <1>7, <2>1, <2>2, <2>4
    <3>2. x * scale < y * scale
      <4>1. x * scale \in Int /\ y * scale \in Int
        BY <1>4
      <4>2. QED
        BY <3>1, <4>1
    <3>3. y < x => y * scale <= x * scale
      BY <1>4, <1>6
    <3>4. x * scale \in Int /\ y * scale \in Int
      BY <1>4
    <3>5. QED
      BY <2>2, <3>2, <3>3, <3>4
  <2>5. QED
    BY <1>5, <2>1, <2>3, <2>4
<1>13. QED
  BY <1>6, <1>9, <1>11, <1>12

-----------------------------------------------------------------------------
(* Rounding to u16.                                                        *)

\* Rounding goes to a nearest integer.
LEMMA RoundNear ==
  ASSUME NEW n \in Nat, NEW d \in Nat, d > 0
  PROVE  /\ Round(n, d) \in Nat
         /\ 2 * n <= 2 * (d * Round(n, d)) + d
         /\ 2 * (d * Round(n, d)) <= 2 * n + d
<1>1. PICK q, m : q = n \div d /\ m = n % d
  OBVIOUS
<1>2. q \in Nat /\ m \in Nat /\ m < d /\ n = d * q + m
  BY <1>1
<1>3. Round(n, d) = IF 2 * m < d \/ (2 * m = d /\ q % 2 = 0) THEN q ELSE q + 1
  BY <1>1 DEF Round
<1>4. CASE Round(n, d) = q /\ 2 * m <= d
  BY <1>2, <1>4
<1>5. CASE Round(n, d) = q + 1 /\ 2 * m >= d
  <2>1. d * (q + 1) = d * q + d
    BY <1>2
  <2>2. PICK p \in Nat : p = d * q
    BY <1>2
  <2>3. d * Round(n, d) = p + d
    BY <1>5, <2>1, <2>2
  <2>4. q + 1 \in Nat
    BY <1>2
  <2>5. QED
    BY <1>2, <1>5, <2>2, <2>3, <2>4
<1>6. QED
  BY <1>2, <1>3, <1>4, <1>5

\* Rounding keeps the order.
LEMMA RoundMonotone ==
  ASSUME NEW n \in Nat, NEW m \in Nat, n <= m, NEW d \in Nat, d > 0
  PROVE  Round(n, d) <= Round(m, d)
<1>1. PICK x, y \in Nat : x = Round(n, d) /\ y = Round(m, d)
  BY RoundNear
<1>2. 2 * (d * x) <= 2 * n + d /\ 2 * m <= 2 * (d * y) + d
  BY <1>1, RoundNear
<1>3. CASE n = m
  BY <1>1, <1>3
<1>4. CASE n < m
  <2>1. ASSUME x > y PROVE FALSE
    <3>1. d * (y + 1) <= d * x
      BY <2>1
    <3>2. d * (y + 1) = d * y + d
      OBVIOUS
    <3>3. d * y \in Nat /\ d * x \in Nat
      OBVIOUS
    <3>4. QED
      BY <1>2, <1>4, <3>1, <3>2, <3>3
  <2>2. QED
    BY <1>1, <2>1
<1>5. QED
  BY <1>3, <1>4

\* An integer is its own rounding.
LEMMA RoundExact ==
  ASSUME NEW u \in Nat, NEW d \in Nat, d > 0
  PROVE  Round(d * u, d) = u
<1>1. PICK n \in Nat : n = d * u
  OBVIOUS
<1>2. PICK x \in Nat : x = Round(n, d)
  BY RoundNear
<1>3. 2 * n <= 2 * (d * x) + d /\ 2 * (d * x) <= 2 * n + d
  BY <1>2, RoundNear
<1>4. d * x \in Nat
  OBVIOUS
<1>5. ASSUME x > u PROVE FALSE
  <2>1. d * (u + 1) <= d * x /\ d * (u + 1) = d * u + d
    BY <1>5
  <2>2. QED
    BY <1>1, <1>3, <1>4, <2>1
<1>6. ASSUME x < u PROVE FALSE
  <2>1. d * (x + 1) <= d * u /\ d * (x + 1) = d * x + d
    BY <1>6
  <2>2. QED
    BY <1>1, <1>3, <1>4, <2>1
<1>7. QED
  BY <1>1, <1>2, <1>5, <1>6

\* The u16 values of a vector, before those that are zero are left out.
Quantized(c) == [h \in DOMAIN c |-> Round(c[h] * U16, Top(c))]

LEMMA QuantizedFacts ==
  ASSUME NEW c, IsVector(c), NEW r, r = Quantized(c)
  PROVE  /\ DOMAIN r = DOMAIN c /\ Top(c) > 0
         /\ \A h \in DOMAIN c : r[h] \in 0 .. U16
         /\ \A g, h \in DOMAIN c : c[g] <= c[h] => r[g] <= r[h]
         /\ \A h \in DOMAIN c : c[h] = Top(c) => r[h] = U16
         /\ \A h \in DOMAIN c : (2 * U16) * c[h] <= (2 * Top(c)) * r[h] + Top(c)
<1>1. /\ \A h \in DOMAIN c : c[h] \in Nat /\ c[h] > 0
      /\ IsFiniteSet(DOMAIN c) /\ DOMAIN c # {} /\ c \in [DOMAIN c -> Nat]
  BY DEF IsVector
<1>2. PICK t, u \in Nat : t = Top(c) /\ t > 0 /\ u = U16 /\ u > 0
  <2>1. Top(c) \in Nat /\ \E h \in DOMAIN c : c[h] = Top(c)
    BY <1>1, TopFacts
  <2>2. Top(c) > 0
    BY <1>1, <2>1
  <2>3. QED
    BY <2>1, <2>2, VectorAssumption
<1>3. \A h \in DOMAIN c : c[h] <= t
  BY <1>1, <1>2, TopFacts
<1>4. DOMAIN r = DOMAIN c /\ \A h \in DOMAIN c : r[h] = Round(c[h] * u, t)
  BY <1>2 DEF Quantized
<1>5. Round(t * u, t) = u
  BY <1>2, RoundExact
<1>6. ASSUME NEW g \in DOMAIN c, NEW h \in DOMAIN c, c[g] <= c[h] PROVE r[g] <= r[h]
  <2>1. PICK x, y \in Nat : x = c[g] * u /\ y = c[h] * u /\ x <= y
    <3>1. c[g] \in Nat /\ c[h] \in Nat
      BY <1>1
    <3>2. c[g] * u \in Nat /\ c[h] * u \in Nat /\ c[g] * u <= c[h] * u
      BY <1>6, <3>1
    <3>3. QED
      BY <3>2
  <2>2. Round(x, t) <= Round(y, t)
    BY <1>2, <2>1, RoundMonotone
  <2>3. QED
    BY <1>4, <2>1, <2>2
<1>7. ASSUME NEW h \in DOMAIN c, c[h] = t PROVE r[h] = u
  BY <1>4, <1>5, <1>7
<1>8. ASSUME NEW h \in DOMAIN c
      PROVE  r[h] \in Nat /\ r[h] <= u /\ (2 * u) * c[h] <= (2 * t) * r[h] + t
  <2>1. PICK z, x \in Nat : z = c[h] /\ z <= t /\ x = z * u
    <3>1. c[h] \in Nat /\ c[h] <= t
      BY <1>1, <1>3
    <3>2. c[h] * u \in Nat
      BY <3>1
    <3>3. QED
      BY <3>1, <3>2
  <2>2. r[h] = Round(x, t)
    BY <1>4, <2>1
  <2>3. PICK y \in Nat : y = Round(x, t) /\ 2 * x <= 2 * (t * y) + t
    BY <1>2, RoundNear
  <2>4. y <= u
    <3>1. x <= t * u /\ t * u \in Nat
      BY <2>1
    <3>2. Round(x, t) <= Round(t * u, t)
      BY <1>2, <3>1, RoundMonotone
    <3>3. QED
      BY <1>5, <2>3, <3>2
  <2>5. (2 * u) * z = 2 * x /\ (2 * t) * y = 2 * (t * y)
    BY <2>1
  <2>6. QED
    BY <2>1, <2>2, <2>3, <2>4, <2>5
<1>9. \A h \in DOMAIN c : r[h] \in 0 .. U16
  BY <1>2, <1>8
<1>10. QED
  BY <1>2, <1>4, <1>6, <1>7, <1>8, <1>9

\* Conform is the rounding of the clipped vector, without its zeros.
LEMMA ConformIs ==
  ASSUME NEW w, IsVector(w), NEW limit \in Nat,
         NEW r, r = Quantized(Clip(w, limit)), NEW q, q = Conform(w, limit)
  PROVE  /\ DOMAIN q \subseteq DOMAIN w
         /\ \A h \in DOMAIN w : h \in DOMAIN q <=> r[h] > 0
         /\ \A h \in DOMAIN q : q[h] = r[h]
<1>1. PICK c : c = Clip(w, limit)
  OBVIOUS
<1>2. DOMAIN c = DOMAIN w
  BY <1>1, ClipShape
<1>3. r = [h \in DOMAIN w |-> Round(c[h] * U16, Top(c))]
  BY <1>1, <1>2 DEF Quantized
<1>4. q = PositiveScores(r)
  BY <1>1, <1>3 DEF Conform
<1>5. DOMAIN r = DOMAIN w
  BY <1>3
<1>6. PICK P : P = {h \in DOMAIN r : r[h] > 0}
  OBVIOUS
<1>7. q = [h \in P |-> r[h]]
  BY <1>4, <1>6 DEF PositiveScores, Restrict
<1>8. DOMAIN q = P /\ \A h \in P : q[h] = r[h]
  BY <1>7
<1>9. QED
  BY <1>5, <1>6, <1>8

\* The best of a vector are the best of what it is clipped to.
LEMMA TopIsKept ==
  ASSUME NEW w, IsVector(w), NEW limit \in Nat, NEW c, c = Clip(w, limit),
         NEW h \in DOMAIN w, w[h] = Top(w)
  PROVE  c[h] = Top(c)
<1>1. w \in [DOMAIN w -> Nat] /\ IsFiniteSet(DOMAIN w) /\ DOMAIN w # {}
  BY DEF IsVector
<1>2. \A g \in DOMAIN w : w[g] <= w[h]
  BY <1>1, TopFacts
<1>3. IsVector(c) /\ DOMAIN c = DOMAIN w /\ \A g \in DOMAIN w : c[g] <= c[h]
  BY <1>2, ClipShape
<1>4. c \in [DOMAIN c -> Nat] /\ IsFiniteSet(DOMAIN c) /\ DOMAIN c # {}
  BY <1>3 DEF IsVector
<1>5. PICK g \in DOMAIN c : c[g] = Top(c) /\ \A k \in DOMAIN c : c[k] <= Top(c)
  BY <1>4, TopFacts
<1>6. c[g] <= c[h] /\ c[h] <= c[g] /\ c[g] \in Nat /\ c[h] \in Nat
  BY <1>3, <1>4, <1>5
<1>7. QED
  BY <1>5, <1>6

\* The u16 vector ranks the hotkeys as the vector does: see RankingKept.
LEMMA ConformRanks ==
  ASSUME NEW w, IsVector(w), NEW limit \in Nat, NEW q, q = Conform(w, limit)
  PROVE  /\ DOMAIN q \subseteq DOMAIN w
         /\ \A h \in DOMAIN q : q[h] \in 1 .. U16
         /\ \A h \in DOMAIN w : w[h] = Top(w) => h \in DOMAIN q /\ q[h] = U16
         /\ \A g \in DOMAIN q, h \in DOMAIN w :
              w[g] <= w[h] => h \in DOMAIN q /\ q[g] <= q[h]
<1>1. PICK c : c = Clip(w, limit)
  OBVIOUS
<1>2. PICK r : r = Quantized(c)
  OBVIOUS
<1>3. /\ IsVector(c) /\ DOMAIN c = DOMAIN w
      /\ \A g, h \in DOMAIN w : w[g] <= w[h] => c[g] <= c[h]
  BY <1>1, ClipShape
<1>4. /\ \A h \in DOMAIN w : r[h] \in 0 .. U16
      /\ \A g, h \in DOMAIN w : c[g] <= c[h] => r[g] <= r[h]
      /\ \A h \in DOMAIN w : c[h] = Top(c) => r[h] = U16
  BY <1>2, <1>3, QuantizedFacts
<1>5. /\ DOMAIN q \subseteq DOMAIN w
      /\ \A h \in DOMAIN w : h \in DOMAIN q <=> r[h] > 0
      /\ \A h \in DOMAIN q : q[h] = r[h]
  BY <1>1, <1>2, ConformIs
<1>6. U16 \in Nat /\ U16 > 0
  BY VectorAssumption
<1>7. \A h \in DOMAIN q : q[h] \in 1 .. U16
  BY <1>4, <1>5, <1>6
<1>8. ASSUME NEW h \in DOMAIN w, w[h] = Top(w) PROVE h \in DOMAIN q /\ q[h] = U16
  <2>1. c[h] = Top(c)
    BY <1>1, <1>8, TopIsKept
  <2>2. r[h] = U16
    BY <1>4, <2>1
  <2>3. QED
    BY <1>5, <1>6, <2>2
<1>9. ASSUME NEW g \in DOMAIN q, NEW h \in DOMAIN w, w[g] <= w[h]
      PROVE  h \in DOMAIN q /\ q[g] <= q[h]
  <2>1. g \in DOMAIN w /\ r[g] > 0 /\ q[g] = r[g]
    BY <1>5
  <2>2. r[g] <= r[h]
    BY <1>3, <1>4, <1>9, <2>1
  <2>3. r[h] > 0
    BY <1>4, <1>6, <2>1, <2>2
  <2>4. QED
    BY <1>5, <2>1, <2>2, <2>3
<1>10. QED
  BY <1>5, <1>7, <1>8, <1>9

\* The greatest share of the u16 vector is above the limit by no more than the
\* rounding: see GateMissedOnlyByRounding.
LEMMA ConformNearLimit ==
  ASSUME NEW w, IsVector(w), NEW limit \in Nat, ~(Cardinality(DOMAIN w) * limit <= U16),
         NEW q, q = Conform(w, limit)
  PROVE  2 * Top(q) * U16 <= limit * (2 * Total(q) + Cardinality(DOMAIN w))
<1>1. PICK D, c : D = DOMAIN w /\ c = Clip(w, limit)
  OBVIOUS
<1>2. PICK r : r = Quantized(c)
  OBVIOUS
<1>3. IsVector(c) /\ DOMAIN c = D
  BY <1>1, ClipShape
<1>4. /\ DOMAIN r = D /\ Top(c) > 0
      /\ \A h \in D : r[h] \in 0 .. U16
      /\ \A h \in D : (2 * U16) * c[h] <= (2 * Top(c)) * r[h] + Top(c)
  BY <1>2, <1>3, QuantizedFacts
<1>5. /\ DOMAIN q \subseteq D
      /\ \A h \in D : h \in DOMAIN q <=> r[h] > 0
      /\ \A h \in DOMAIN q : q[h] = r[h]
  <2>1. r = Quantized(Clip(w, limit))
    BY <1>1, <1>2, Zenon
  <2>2. QED
    BY <1>1, <2>1, ConformIs
<1>6. /\ IsFiniteSet(D) /\ D # {} /\ c \in [D -> Nat] /\ w \in [D -> Nat]
      /\ \A h \in D : c[h] \in Nat
  BY <1>1, <1>3 DEF IsVector
<1>7. PICK u, t, n \in Nat : u = U16 /\ u > 0 /\ t = Top(c) /\ t > 0 /\ n = Cardinality(D)
  <2>1. Top(c) \in Nat
    BY <1>3, <1>6, TopFacts
  <2>2. QED
    <3>1. Cardinality(D) \in Nat
      BY <1>6, FS_CardinalityType
    <3>2. QED
      BY <1>4, <2>1, <3>1, VectorAssumption
<1>8. \A h \in D : r[h] \in Nat
  BY <1>4, <1>7
<1>9. Top(q) = u
  <2>1. PICK h \in D : w[h] = Top(w)
    BY <1>1, <1>6, TopFacts
  <2>2. h \in DOMAIN q /\ q[h] = u /\ \A g \in DOMAIN q : q[g] \in 1 .. u
    BY <1>1, <1>7, <2>1, ConformRanks
  <2>3. q \in [DOMAIN q -> Nat]
    <3>1. q = [g \in DOMAIN q |-> q[g]]
      BY DEF Conform, PositiveScores, Restrict
    <3>2. \A g \in DOMAIN q : q[g] \in Nat
      BY <2>2
    <3>3. QED
      BY <3>1, <3>2
  <2>4. IsFiniteSet(DOMAIN q) /\ DOMAIN q # {}
    <3>1. DOMAIN q \subseteq D
      BY <1>5
    <3>2. QED
      BY <1>6, <2>2, <3>1, FS_Subset
  <2>5. /\ Top(q) \in Nat /\ \E g \in DOMAIN q : q[g] = Top(q)
        /\ \A g \in DOMAIN q : q[g] <= Top(q)
    BY <2>3, <2>4, TopFacts
  <2>6. QED
    BY <2>2, <2>5
<1>10. Total(q) = SumOver(r, D) /\ SumOver(r, D) \in Nat
  <2>1. PICK P, Z : P = DOMAIN q /\ Z = D \ P
    OBVIOUS
  <2>2. P \in SUBSET D /\ IsFiniteSet(P) /\ IsFiniteSet(Z) /\ \A h \in Z : r[h] = 0
    <3>1. P \in SUBSET D
      BY <1>5, <2>1
    <3>2. \A h \in Z : r[h] = 0
      <4>1. ASSUME NEW h \in Z PROVE r[h] = 0
        <5>1. h \in D /\ ~(r[h] > 0) /\ r[h] \in Nat
          BY <1>5, <1>8, <2>1
        <5>2. QED
          BY <5>1
      <4>2. QED
        BY <4>1
    <3>3. Z \subseteq D
      BY <2>1
    <3>4. QED
      BY <1>6, <3>1, <3>2, <3>3, FS_Subset
  <2>3. SumOver(r, D) = SumOver(r, P) + SumOver(r, D \ P)
    BY <1>6, <1>8, <2>2, SumSplit
  <2>4. SumOver(r, Z) = 0 * Cardinality(Z)
    BY <2>2, SumConstant
  <2>5. Total(q) = SumOver(q, P)
    BY <2>1, TotalIs
  <2>6. SumOver(q, P) = SumOver(r, P)
    BY <1>5, <2>1, <2>2, SumEqual
  <2>7. SumOver(r, P) \in Nat /\ SumOver(r, D) \in Nat
    <3>1. \A h \in P : r[h] \in Nat
      BY <1>8, <2>2
    <3>2. SumOver(r, P) \in Nat
      BY <2>2, <3>1, SumStep
    <3>3. SumOver(r, D) \in Nat
      BY <1>6, <1>8, SumStep
    <3>4. QED
      BY <3>2, <3>3
  <2>8. Cardinality(Z) \in Nat
    BY <2>2, FS_CardinalityType
  <2>9. 0 * Cardinality(Z) = 0
    BY <2>8
  <2>10. SumOver(r, Z) = SumOver(r, D \ P)
    BY <2>1
  <2>11. QED
    BY <2>3, <2>4, <2>5, <2>6, <2>7, <2>9, <2>10
<1>11. PICK p, s \in Nat : p = SumOver(c, D) /\ s = SumOver(r, D)
  BY <1>6, <1>10, SumStep
<1>12. (2 * u) * p <= (2 * t) * s + t * n
  <2>1. \A h \in D : (2 * u) * c[h] <= (2 * t) * r[h] + t
    BY <1>4, <1>7
  <2>2. 2 * u \in Nat /\ 2 * t \in Nat
    OBVIOUS
  <2>3. (2 * u) * SumOver(c, D) <= (2 * t) * SumOver(r, D) + t * Cardinality(D)
    BY <1>6, <1>8, <2>1, <2>2, SumCompare
  <2>4. QED
    BY <1>7, <1>11, <2>3
<1>13. t * u <= limit * p
  <2>1. WithinLimit(c, limit)
    BY <1>1, ClipWithinLimit
  <2>2. Total(c) = p
    BY <1>3, <1>11, TotalIs
  <2>3. QED
    BY <1>7, <2>1, <2>2 DEF WithinLimit
<1>14. 2 * u * u <= limit * (2 * s + n)
  <2>1. PICK x, y \in Nat : x = 2 * u * u /\ y = limit * (2 * s + n)
    <3>1. 2 * u * u \in Nat /\ limit * (2 * s + n) \in Nat
      OBVIOUS
    <3>2. QED
      BY <3>1
  <2>2. (2 * u) * (t * u) <= (2 * u) * (limit * p)
    <3>1. t * u \in Nat /\ limit * p \in Nat /\ 2 * u \in Nat
      OBVIOUS
    <3>2. QED
      BY <1>13, <3>1
  <2>3. limit * ((2 * u) * p) <= limit * ((2 * t) * s + t * n)
    <3>1. (2 * u) * p \in Nat /\ (2 * t) * s + t * n \in Nat
      OBVIOUS
    <3>2. QED
      BY <1>12, <3>1
  <2>4. (2 * u) * (t * u) = t * x
    BY <2>1
  <2>5. (2 * u) * (limit * p) = limit * ((2 * u) * p)
    OBVIOUS
  <2>6. limit * ((2 * t) * s + t * n) = t * y
    BY <2>1
  <2>7. t * x <= t * y
    <3>1. limit * ((2 * u) * p) \in Nat /\ t * x \in Nat /\ t * y \in Nat
      OBVIOUS
    <3>2. QED
      BY <2>2, <2>3, <2>4, <2>5, <2>6, <3>1
  <2>8. x <= y
    BY <1>7, <2>7
  <2>9. QED
    BY <2>1, <2>8
<1>15. QED
  BY <1>1, <1>7, <1>9, <1>10, <1>11, <1>14

-----------------------------------------------------------------------------
(* The passes of _capped_normalize and the cutoff of _clip_to_max_weight.  *)

\* The recursion of the passes over the parts of S: drop[R] leaves R in one.
IsPass(pass, drop, S) ==
  pass = [R \in SUBSET S |-> IF drop[R] = {} THEN R ELSE pass[R \ drop[R]]]

\* The recursion has a function: built up by the size of the parts.
LEMMA PassExists ==
  ASSUME NEW S, IsFiniteSet(S), NEW drop, \A R \in SUBSET S : drop[R] \subseteq R
  PROVE  \E pass : IsPass(pass, drop, S)
<1> DEFINE upTo(n) == {s \in SUBSET S : Cardinality(s) <= n}
           passes(n, it) == it = [s \in upTo(n) |-> IF drop[s] = {} THEN s
                                                    ELSE it[s \ drop[s]]]
           bad == {n \in Nat : ~ \E it : passes(n, it)}
<1>1. \A s \in SUBSET S : IsFiniteSet(s) /\ Cardinality(s) \in Nat
  BY FS_Subset, FS_CardinalityType
<1>2. ASSUME NEW s \in SUBSET S, drop[s] # {}
      PROVE  s \ drop[s] \in SUBSET S /\ Cardinality(s \ drop[s]) < Cardinality(s)
  <2>1. PICK r : r = s \ drop[s]
    OBVIOUS
  <2>2. drop[s] \subseteq s
    OBVIOUS
  <2>3. r \in SUBSET s /\ r \in SUBSET S /\ r # s
    BY <1>2, <2>1, <2>2
  <2>4. Cardinality(r) < Cardinality(s)
    BY <1>1, <2>3, FS_Subset
  <2>5. QED
    BY <2>1, <2>3, <2>4
<1>3. \A s \in SUBSET S : drop[s] # {} =>
        s \ drop[s] \in SUBSET S /\ Cardinality(s \ drop[s]) < Cardinality(s)
  BY <1>2
<1>4. ASSUME bad # {} PROVE FALSE
  <2>1. PICK n \in bad : \A k \in bad : n <= k
    BY <1>4, LeastNat
  <2>2. n # 0
    <3>1. \A s \in upTo(0) : drop[s] = {}
      <4>1. ASSUME NEW s \in upTo(0) PROVE drop[s] = {}
        <5>1. s \in SUBSET S /\ Cardinality(s) <= 0
          OBVIOUS
        <5>2. s = {}
          BY <1>1, <5>1, FS_EmptySet
        <5>3. drop[s] \subseteq s
          BY <5>1
        <5>4. QED
          BY <5>2, <5>3
      <4>2. QED
        BY <4>1
    <3>2. \E it : passes(0, it)
      <4>1. PICK it : it = [s \in upTo(0) |-> s]
        OBVIOUS
      <4>2. it = [s \in upTo(0) |-> IF drop[s] = {} THEN s ELSE it[s \ drop[s]]]
        <5> HIDE DEF upTo
        <5>1. QED
          BY <3>1, <4>1
      <4>3. QED
        BY <4>2
    <3>3. 0 \notin bad
      BY <3>2
    <3>4. QED
      <4> HIDE DEF bad
      <4>1. QED
        BY <3>3
  <2>3. n - 1 \in Nat /\ n - 1 \notin bad
    <3>1. n \in Nat
      OBVIOUS
    <3> HIDE DEF bad
    <3>2. QED
      BY <2>1, <2>2, <3>1
  <2>4. PICK it : passes(n - 1, it)
    BY <2>3
  <2> DEFINE new == [s \in upTo(n) |-> IF drop[s] = {} THEN s ELSE it[s \ drop[s]]]
  <2>5. \A s \in upTo(n - 1) : s \in upTo(n)
    BY <1>1, <2>3
  <2>6. \A s \in upTo(n - 1) : new[s] = it[s]
    BY <2>4, <2>5
  <2>7. \A s \in upTo(n) : drop[s] # {} => s \ drop[s] \in upTo(n - 1)
    <3>1. ASSUME NEW s \in upTo(n), drop[s] # {} PROVE s \ drop[s] \in upTo(n - 1)
      <4>1. s \in SUBSET S /\ Cardinality(s) <= n
        OBVIOUS
      <4>2. PICK r : r = s \ drop[s] /\ r \in SUBSET S /\ Cardinality(r) < Cardinality(s)
        BY <1>3, <3>1, <4>1
      <4>3. Cardinality(r) \in Nat /\ Cardinality(s) \in Nat
        BY <1>1, <4>1, <4>2
      <4>4. Cardinality(r) <= n - 1
        BY <2>3, <4>1, <4>2, <4>3
      <4>5. QED
        BY <4>2, <4>4
    <3>2. QED
      BY <3>1
  <2>8. new = [s \in upTo(n) |-> IF drop[s] = {} THEN s ELSE new[s \ drop[s]]]
    <3>1. \A s \in upTo(n) : drop[s] # {} => new[s \ drop[s]] = it[s \ drop[s]]
      BY <2>6, <2>7
    <3> HIDE DEF upTo
    <3>2. QED
      BY <3>1
  <2>9. passes(n, new)
    BY <2>8
  <2>10. QED
    BY <2>1, <2>9
<1>5. PICK it : passes(Cardinality(S), it)
  BY <1>1, <1>4
<1>6. upTo(Cardinality(S)) = SUBSET S
  BY <1>1, FS_Subset
<1>7. IsPass(it, drop, S)
  BY <1>5, <1>6 DEF IsPass
<1>8. QED
  BY <1>7

\* The passes of BelowCap.
LEMMA PassOf ==
  ASSUME NEW w, IsFiniteSet(DOMAIN w), NEW c, NEW d,
         NEW drop, \A R \in SUBSET DOMAIN w : drop[R] = AboveCap(w, R, c, d)
  PROVE  \E pass : BelowCap(w, c, d) = pass[DOMAIN w] /\ IsPass(pass, drop, DOMAIN w)
<1> DEFINE found(pass) == pass = [R \in SUBSET DOMAIN w |->
                                    LET capped == AboveCap(w, R, c, d)
                                    IN  IF capped = {} THEN R ELSE pass[R \ capped]]
<1>1. \A R \in SUBSET DOMAIN w : drop[R] \subseteq R
  BY DEF AboveCap
<1>2. \E pass : IsPass(pass, drop, DOMAIN w)
  BY <1>1, PassExists
<1>3. ASSUME NEW pass PROVE IsPass(pass, drop, DOMAIN w) <=> found(pass)
  BY DEF IsPass
<1>4. PICK pass : pass = CHOOSE p : found(p)
  OBVIOUS
<1>5. found(pass)
  <2>1. \E p : found(p)
    BY <1>2, <1>3
  <2> HIDE DEF found
  <2>2. QED
    BY <1>4, <2>1
<1>6. BelowCap(w, c, d) = pass[DOMAIN w]
  BY <1>4 DEF BelowCap
<1>7. QED
  BY <1>3, <1>5, <1>6

\* What a pass takes from a part R that holds the hotkeys below the cutoff and
\* whose rest has the greater values: nothing below the cutoff, and nothing at
\* all only when R is what lies below it.
LEMMA PassKeepsBelow ==
  ASSUME NEW w, IsVector(w), NEW limit \in Nat, NEW R \in SUBSET DOMAIN w,
         BelowCutoff(w, limit) \subseteq R,
         \A g \in R, k \in DOMAIN w \ R : w[g] <= w[k]
  PROVE  /\ BelowCutoff(w, limit) \subseteq R \ AboveCap(w, R, limit, U16)
         /\ \A g \in R \ AboveCap(w, R, limit, U16), k \in AboveCap(w, R, limit, U16) :
              w[g] <= w[k]
         /\ AboveCap(w, R, limit, U16) = {} => R = BelowCutoff(w, limit)
<1>1. /\ w \in [DOMAIN w -> Nat] /\ IsFiniteSet(DOMAIN w)
      /\ \A h \in DOMAIN w : w[h] > 0
  BY DEF IsVector
<1>2. PICK A, B, over : A = DOMAIN w \ R /\ B = BelowCutoff(w, limit)
                        /\ over = AboveCap(w, R, limit, U16)
  OBVIOUS
<1>3. IsFiniteSet(R) /\ IsFiniteSet(A) /\ A \subseteq DOMAIN w
  BY <1>1, <1>2, FS_Subset
<1>4. PICK u, n, k \in Nat : u = U16 /\ n = Cardinality(A) /\ k = SumOver(w, R)
  <2>1. Cardinality(A) \in Nat
    BY <1>3, FS_CardinalityType
  <2>2. SumOver(w, R) \in Nat
    <3>1. \A x \in R : w[x] \in Nat
      BY <1>1
    <3>2. QED
      BY <1>3, <3>1, SumStep
  <2>3. QED
    BY <2>1, <2>2, VectorAssumption
<1>5. PICK mass \in Int : mass = u - limit * n
  <2>1. u - limit * n \in Int
    OBVIOUS
  <2>2. QED
    BY <2>1
<1>6. over = {h \in R : mass * w[h] > limit * k}
  <2>1. MassLeft(w, R, limit, U16) = mass
    BY <1>2, <1>4, <1>5 DEF MassLeft
  <2>2. QED
    BY <1>2, <1>4, <2>1 DEF AboveCap
<1>7. ASSUME NEW h \in B PROVE h \notin over
  <2>1. h \in DOMAIN w
    BY <1>2 DEF BelowCutoff
  <2>2. PICK x, l \in Nat : x = w[h] /\ l = LoweredTo(w, h)
    BY <1>1, <2>1, LoweredSplit
  <2>3. l <= k + x * n
    BY <1>1, <1>2, <1>4, <2>1, <2>2, LoweredSplit
  <2>4. x * u <= limit * l
    BY <1>2, <1>4, <2>2 DEF BelowCutoff
  <2>5. limit * l <= limit * (k + x * n)
    <3>1. k + x * n \in Nat
      OBVIOUS
    <3>2. QED
      BY <2>3, <3>1
  <2>6. limit * (k + x * n) = limit * k + x * (limit * n) /\ (u - limit * n) * x = x * u - x * (limit * n)
    OBVIOUS
  <2>7. (u - limit * n) * x <= limit * k
    <3>1. x * u \in Nat /\ limit * l \in Nat /\ limit * k \in Nat /\ x * (limit * n) \in Nat
      OBVIOUS
    <3>2. QED
      BY <2>4, <2>5, <2>6, <3>1
  <2>8. ~(mass * w[h] > limit * k)
    <3>1. mass * x \in Int /\ limit * k \in Int
      OBVIOUS
    <3>2. QED
      BY <1>5, <2>2, <2>7, <3>1
  <2>9. QED
    BY <1>6, <2>8
<1>8. ASSUME NEW g \in R \ over, NEW h \in over PROVE w[g] <= w[h]
  <2>1. PICK x, y \in Nat : x = w[g] /\ y = w[h]
    BY <1>1, <1>6
  <2>2. ~(mass * x > limit * k) /\ mass * y > limit * k
    BY <1>6, <2>1
  <2>3. mass * x \in Int /\ mass * y \in Int /\ limit * k \in Nat
    OBVIOUS
  <2>4. mass > 0
    <3>1. mass <= 0 => mass * y <= 0
      OBVIOUS
    <3>2. QED
      BY <2>2, <2>3, <3>1
  <2>5. y < x => mass * y <= mass * x
    BY <2>4
  <2>6. QED
    BY <2>1, <2>2, <2>3, <2>5
<1>9. ASSUME over = {} PROVE R = B
  <2>1. ASSUME NEW g \in R PROVE g \in B
    <3>1. PICK v \in [R -> Nat] : v = [h \in R |-> w[h]]
      BY <1>1
    <3>2. PICK a \in R : \A h \in R : w[h] <= w[a]
      <4>1. DOMAIN v = R /\ R # {}
        BY <3>1
      <4>2. \E h \in DOMAIN v : v[h] = Top(v)
        BY <1>3, <3>1, <4>1, TopFacts
      <4>3. \A h \in DOMAIN v : v[h] <= Top(v)
        BY <1>3, <3>1, <4>1, TopFacts
      <4>4. QED
        BY <3>1, <4>1, <4>2, <4>3
    <3>3. PICK x, l \in Nat : x = w[a] /\ l = LoweredTo(w, a)
      BY <1>1, LoweredSplit
    <3>4. l = k + x * n
      <4>1. LoweredTo(w, a) = SumOver(w, R) + w[a] * Cardinality(DOMAIN w \ R)
        BY <1>1, <3>2, LoweredSplit
      <4>2. QED
        BY <1>2, <1>4, <3>3, <4>1
    <3>5. ~(mass * x > limit * k)
      BY <1>6, <1>9, <3>3
    <3>6. limit * (k + x * n) = limit * k + x * (limit * n) /\ (u - limit * n) * x = x * u - x * (limit * n)
      OBVIOUS
    <3>7. x * u <= limit * l
      <4>1. x * u \in Nat /\ limit * l \in Nat /\ limit * k \in Nat /\ x * (limit * n) \in Nat
        OBVIOUS
      <4>2. QED
        BY <1>5, <3>4, <3>5, <3>6, <4>1
    <3>8. a \in B
      BY <1>2, <1>4, <3>3, <3>7 DEF BelowCutoff
    <3>9. QED
      BY <1>2, <3>2, <3>8, BelowIsLower
  <2>2. QED
    BY <1>2, <2>1
<1>10. QED
  BY <1>2, <1>7, <1>8, <1>9

\* The passes of _capped_normalize end at the cutoff that _clip_to_max_weight
\* computes, whether or not the cap can be met.
THEOREM PassesFindTheCutoff ==
  ASSUME NEW w, IsVector(w), NEW limit \in Nat
  PROVE  BelowCap(w, limit, U16) = BelowCutoff(w, limit)
<1>1. PICK D, B : D = DOMAIN w /\ B = BelowCutoff(w, limit)
  OBVIOUS
<1>2. IsFiniteSet(D)
  BY <1>1 DEF IsVector
<1>3. PICK pass : /\ BelowCap(w, limit, U16) = pass[D]
                  /\ \A R \in SUBSET D :
                       pass[R] = IF AboveCap(w, R, limit, U16) = {} THEN R
                                 ELSE pass[R \ AboveCap(w, R, limit, U16)]
  <2>1. PICK drop : drop = [R \in SUBSET DOMAIN w |-> AboveCap(w, R, limit, U16)]
    OBVIOUS
  <2>2. \A R \in SUBSET DOMAIN w : drop[R] = AboveCap(w, R, limit, U16)
    BY <2>1
  <2>3. PICK pass : BelowCap(w, limit, U16) = pass[DOMAIN w] /\ IsPass(pass, drop, DOMAIN w)
    BY <1>1, <1>2, <2>2, PassOf
  <2>4. \A R \in SUBSET DOMAIN w :
          pass[R] = IF drop[R] = {} THEN R ELSE pass[R \ drop[R]]
    BY <2>3 DEF IsPass
  <2>5. \A R \in SUBSET D :
          pass[R] = IF AboveCap(w, R, limit, U16) = {} THEN R
                    ELSE pass[R \ AboveCap(w, R, limit, U16)]
    <3>1. ASSUME NEW R \in SUBSET D
          PROVE  pass[R] = IF AboveCap(w, R, limit, U16) = {} THEN R
                           ELSE pass[R \ AboveCap(w, R, limit, U16)]
      <4>1. R \in SUBSET DOMAIN w
        BY <1>1
      <4>2. drop[R] = AboveCap(w, R, limit, U16)
        BY <2>2, <4>1
      <4>3. QED
        BY <2>4, <4>1, <4>2
    <3>2. QED
      BY <3>1
  <2>6. BelowCap(w, limit, U16) = pass[D]
    BY <1>1, <2>3
  <2>7. QED
    BY <2>5, <2>6, Zenon
<1> DEFINE held(R) == B \subseteq R /\ \A g \in R, k \in D \ R : w[g] <= w[k]
           good == {R \in SUBSET D : held(R) => pass[R] = B}
<1>4. ASSUME NEW R \in SUBSET D, \A T \in SUBSET R : T # R => T \in good
      PROVE  R \in good
  <2>1. SUFFICES ASSUME held(R) PROVE pass[R] = B
    OBVIOUS
  <2>2. PICK over : over = AboveCap(w, R, limit, U16)
    OBVIOUS
  <2>3. /\ B \subseteq R \ over
        /\ \A g \in R \ over, k \in over : w[g] <= w[k]
        /\ over = {} => R = B
    BY <1>1, <2>1, <2>2, PassKeepsBelow
  <2>4. over \subseteq R
    BY <2>2 DEF AboveCap
  <2>5. pass[R] = IF over = {} THEN R ELSE pass[R \ over]
    BY <1>3, <2>2
  <2>6. CASE over = {}
    BY <2>3, <2>5, <2>6
  <2>7. CASE over # {}
    <3>1. PICK T : T = R \ over
      OBVIOUS
    <3>2. T \in SUBSET R /\ T # R
      BY <2>4, <2>7, <3>1
    <3>3. \A g \in T, k \in D \ T : w[g] <= w[k]
      <4>1. ASSUME NEW g \in T, NEW k \in D \ T PROVE w[g] <= w[k]
        <5>1. g \in R \ over /\ g \in R
          BY <3>1
        <5>2. k \in over \/ k \in D \ R
          BY <3>1
        <5>3. QED
          BY <2>1, <2>3, <5>1, <5>2
      <4>2. QED
        BY <4>1
    <3>4. held(T)
      BY <2>3, <3>1, <3>3
    <3>5. pass[T] = B
      <4>1. T \in good
        BY <1>4, <3>2
      <4>2. QED
        BY <3>4, <4>1
    <3>6. QED
      BY <2>5, <2>7, <3>1, <3>5
  <2>8. QED
    BY <2>6, <2>7
<1>5. good = SUBSET D
  <2> HIDE DEF good
  <2>1. good \in SUBSET SUBSET D
    BY DEF good
  <2>2. QED
    BY <1>2, <1>4, <2>1, SubsetInduction
<1>6. held(D)
  BY <1>1 DEF BelowCutoff
<1>7. pass[D] = B
  BY <1>5, <1>6
<1>8. QED
  BY <1>1, <1>3, <1>7

\* The shares of _capped_normalize under a cap that can be met, in the terms of
\* the cutoff.
LEMMA CappedShares ==
  ASSUME NEW w, IsVector(w), NEW limit \in Nat, Cardinality(DOMAIN w) * limit >= U16,
         NEW shares, shares = CappedNormalize(w, limit, U16)
  PROVE  /\ shares.den = U16 * Kept(w, limit)
         /\ \A h \in DOMAIN w :
              shares.num[h] = IF h \in BelowCutoff(w, limit) THEN Scale(w, limit) * w[h]
                              ELSE limit * Kept(w, limit)
<1>1. PICK B, kept, scale :
        /\ B = BelowCutoff(w, limit) /\ kept = Kept(w, limit) /\ scale = Scale(w, limit)
  OBVIOUS
<1>2. BelowCap(w, limit, U16) = B
  BY <1>1, PassesFindTheCutoff
<1>3. SumOver(w, B) = kept /\ kept > 0
  BY <1>1, CutoffFacts DEF Kept
<1>4. MassLeft(w, B, limit, U16) = scale
  BY <1>1 DEF MassLeft, Scale, AtLimit
<1>5. shares = [num |-> [m \in DOMAIN w |-> IF m \in B THEN scale * [k \in B |-> w[k]][m]
                                            ELSE limit * kept],
                den |-> U16 * kept]
  BY <1>2, <1>3, <1>4 DEF CappedNormalize
<1>6. QED
  BY <1>1, <1>5

\* _capped_normalize and _clip_to_max_weight give every hotkey one share: see
\* CappingsAgree.
LEMMA SharesAgree ==
  ASSUME NEW w, IsVector(w), NEW limit \in Nat, Cardinality(DOMAIN w) * limit >= U16,
         NEW shares, shares = CappedNormalize(w, limit, U16), NEW c, c = Clip(w, limit)
  PROVE  \A h \in DOMAIN w : shares.num[h] * Total(c) = c[h] * shares.den
<1>1. PICK B, A, kept, scale :
        /\ B = BelowCutoff(w, limit) /\ A = AtLimit(w, limit)
        /\ kept = Kept(w, limit) /\ scale = Scale(w, limit)
        /\ A = DOMAIN w \ B /\ kept = SumOver(w, B) /\ scale = U16 - limit * Cardinality(A)
  BY DEF AtLimit, Kept, Scale
<1>2. /\ w \in [DOMAIN w -> Nat] /\ IsFiniteSet(DOMAIN w) /\ DOMAIN w # {}
  BY <1>1 DEF IsVector
<1>3. /\ B \subseteq DOMAIN w /\ kept \in Nat /\ kept > 0
  BY <1>1, CutoffFacts
<1>4. PICK u, n \in Nat : u = U16 /\ u > 0 /\ n = Cardinality(DOMAIN w)
  BY <1>2, FS_CardinalityType, VectorAssumption
<1>5. /\ shares.den = u * kept
      /\ \A h \in DOMAIN w : shares.num[h] = IF h \in B THEN scale * w[h] ELSE limit * kept
  <2>1. /\ shares.den = U16 * Kept(w, limit)
        /\ \A h \in DOMAIN w :
              shares.num[h] = IF h \in BelowCutoff(w, limit) THEN Scale(w, limit) * w[h]
                              ELSE limit * Kept(w, limit)
    BY CappedShares
  <2>2. QED
    BY <1>1, <1>4, <2>1
<1>6. CASE WithinLimit(w, limit)
  <2>1. c = w
    BY <1>6, ClipCases
  <2>2. B = DOMAIN w
    BY <1>1, <1>6, WithinIsAllBelow
  <2>3. A = {}
    BY <1>1, <2>2
  <2>4. scale = u
    <3>1. Cardinality(A) = 0
      BY <2>3, FS_EmptySet
    <3>2. QED
      BY <1>1, <1>4, <3>1
  <2>5. Total(c) = kept
    BY <1>1, <2>1, <2>2, TotalIs
  <2>6. ASSUME NEW h \in DOMAIN w PROVE shares.num[h] * Total(c) = c[h] * shares.den
    <3>1. PICK x \in Nat : x = w[h]
      BY <1>2
    <3>2. shares.num[h] = u * x
      BY <1>5, <2>2, <2>4, <3>1
    <3>3. (u * x) * kept = x * (u * kept)
      BY <1>3
    <3>4. QED
      BY <1>5, <2>1, <2>5, <3>1, <3>2, <3>3
  <2>7. QED
    BY <1>1, <2>6
<1>7. CASE ~WithinLimit(w, limit)
  <2>1. limit > 0
    <3>1. n * limit >= u
      BY <1>1, <1>4
    <3>2. limit = 0 => n * limit = 0
      OBVIOUS
    <3>3. QED
      BY <1>4, <3>1, <3>2
  <2>2. PICK low : low = LowerToCutoff(w, limit)
    OBVIOUS
  <2>3. /\ DOMAIN low = DOMAIN w /\ Total(low) = kept * u /\ scale > 0
        /\ \A h \in B : low[h] = w[h] * scale /\ low[h] <= limit * kept
        /\ \A h \in A : low[h] = limit * kept
    <3>1. /\ DOMAIN low = DOMAIN w /\ Total(low) = Kept(w, limit) * U16 /\ Scale(w, limit) > 0
          /\ \A h \in BelowCutoff(w, limit) :
               low[h] = w[h] * Scale(w, limit) /\ low[h] <= limit * Kept(w, limit)
          /\ \A h \in AtLimit(w, limit) : low[h] = limit * Kept(w, limit)
      BY <1>7, <2>1, <2>2, LowerFacts
    <3>2. QED
      BY <1>1, <1>4, <3>1
  <2>4. scale \in Nat
    BY <1>1, <2>3, CutoffFacts
  <2>5. ASSUME NEW h \in DOMAIN w PROVE low[h] \in Nat /\ shares.num[h] = low[h]
    <3>1. PICK x \in Nat : x = w[h]
      BY <1>2
    <3>2. x * scale \in Nat /\ x * scale = scale * x /\ limit * kept \in Nat
      BY <1>3, <2>4
    <3>3. CASE h \in B
      BY <1>5, <2>3, <3>1, <3>2, <3>3
    <3>4. CASE h \notin B
      BY <1>1, <1>5, <2>3, <3>2, <3>4
    <3>5. QED
      BY <3>3, <3>4
  <2>6. PICK top \in Nat : top = limit * kept
    BY <1>3
  <2>7. \A h \in DOMAIN w : low[h] <= top
    <3>1. \A h \in A : low[h] <= top
      BY <2>3, <2>6
    <3>2. \A h \in B : low[h] <= top
      BY <2>3, <2>6
    <3>3. QED
      BY <1>1, <3>1, <3>2
  <2>8. CASE n * limit <= u
    <3>1. n * limit = u
      BY <1>1, <1>4, <2>8
    <3>2. c = [h \in DOMAIN w |-> 1]
      BY <1>1, <1>4, <1>7, <2>8, ClipCases
    <3>3. Total(c) = n
      <4>1. DOMAIN c = DOMAIN w /\ \A h \in DOMAIN w : c[h] = 1
        BY <3>2
      <4>2. Total(c) = SumOver(c, DOMAIN w)
        BY <4>1, TotalIs
      <4>3. SumOver(c, DOMAIN w) = 1 * Cardinality(DOMAIN w)
        <5>1. PICK a \in Nat : a = 1
          OBVIOUS
        <5>2. \A h \in DOMAIN w : c[h] = a
          BY <4>1, <5>1
        <5>3. SumOver(c, DOMAIN w) = a * Cardinality(DOMAIN w)
          BY <1>2, <5>2, SumConstant
        <5>4. QED
          BY <5>1, <5>3
      <4>4. QED
        BY <1>4, <4>2, <4>3
    <3>4. SumOver(low, DOMAIN w) = kept * u
      BY <2>3, TotalIs
    <3>5. kept * u = top * n
      <4>1. kept * (n * limit) = (limit * kept) * n
        BY <1>3
      <4>2. QED
        BY <2>6, <3>1, <4>1
    <3>6. ASSUME NEW h \in DOMAIN w PROVE low[h] = top
      <4>1. PICK flat : flat = [g \in DOMAIN w |-> top]
        OBVIOUS
      <4>2. \A g \in DOMAIN w : low[g] \in Nat /\ flat[g] \in Nat /\ low[g] <= flat[g] /\ flat[g] = top
        BY <2>5, <2>7, <4>1
      <4>3. SumOver(flat, DOMAIN w) = top * Cardinality(DOMAIN w)
        BY <1>2, <4>2, SumConstant
      <4>4. low[h] < flat[h] => SumOver(low, DOMAIN w) < SumOver(flat, DOMAIN w)
        BY <1>2, <4>2, SumStrict
      <4>5. ~(low[h] < flat[h])
        <5>1. SumOver(low, DOMAIN w) = SumOver(flat, DOMAIN w) /\ SumOver(flat, DOMAIN w) \in Nat
          <6>1. top * n \in Nat
            OBVIOUS
          <6>2. QED
            BY <1>4, <3>4, <3>5, <4>3, <6>1
        <5>2. QED
          BY <4>4, <5>1
      <4>6. QED
        BY <4>2, <4>5
    <3>7. ASSUME NEW h \in DOMAIN w PROVE shares.num[h] * Total(c) = c[h] * shares.den
      <4>1. c[h] = 1 /\ shares.num[h] = top
        BY <2>5, <3>2, <3>6
      <4>2. shares.den = top * n
        <5>1. u * kept = kept * u
          BY <1>3
        <5>2. QED
          BY <1>5, <3>5, <5>1
      <4>3. 1 * (top * n) = top * n
        OBVIOUS
      <4>4. QED
        BY <3>3, <4>1, <4>2, <4>3
    <3>8. QED
      BY <1>1, <3>7
  <2>9. CASE ~(n * limit <= u)
    <3>1. c = low
      BY <1>1, <1>4, <1>7, <2>2, <2>9, ClipCases
    <3>2. u * kept = kept * u
      BY <1>3
    <3>3. ASSUME NEW h \in DOMAIN w PROVE shares.num[h] * Total(c) = c[h] * shares.den
      BY <1>5, <2>3, <2>5, <3>1, <3>2, <3>3
    <3>4. QED
      BY <1>1, <3>3
  <2>10. QED
    BY <2>8, <2>9
<1>8. QED
  BY <1>6, <1>7

-----------------------------------------------------------------------------
(* Every scoring under every limit.                                        *)

\* The inputs: scores that are naturals, and a limit.
InputsOK == scores \in [Miners -> Nat] /\ raw \in Nat

\* Scores stay naturals.
LEMMA InputsInvariant == SpecInputs => []InputsOK
<1>1. InitInputs => InputsOK
  BY VectorAssumption DEF InitInputs, InputsOK
<1>2. InputsOK /\ [NextInputs]_inputs => InputsOK'
  <2> SUFFICES ASSUME InputsOK, [NextInputs]_inputs PROVE InputsOK'
    OBVIOUS
  <2> USE DEF InputsOK
  <2>1. ASSUME NEW h \in Miners, NEW s \in 0 .. MaxScore, Score(h, s) PROVE InputsOK'
    <3>1. s \in Nat
      BY InputsAssumption
    <3>2. QED
      BY <2>1, <3>1 DEF Score
  <2>2. ASSUME NEW limit \in 1 .. U16, SetLimit(limit) PROVE InputsOK'
    BY <2>2, VectorAssumption DEF SetLimit
  <2>3. CASE UNCHANGED inputs
    BY <2>3 DEF inputs
  <2>4. QED
    BY <2>1, <2>2, <2>3 DEF NextInputs
<1>3. QED
  BY <1>1, <1>2, PTL DEF SpecInputs

\* What is planned is a vector, on the hotkeys with a positive score.
LEMMA PlannedVector ==
  ASSUME InputsOK
  PROVE  /\ DOMAIN planned = {h \in Miners : scores[h] > 0}
         /\ DOMAIN planned # {} => IsVector(planned)
         /\ raw \in Nat
<1>1. DOMAIN scores = Miners /\ scores \in [Miners -> Nat] /\ raw \in Nat
  BY DEF InputsOK
<1>2. PICK P : P = {h \in Miners : scores[h] > 0}
  OBVIOUS
<1>3. planned = [h \in P |-> scores[h]]
  BY <1>1, <1>2 DEF planned, PositiveScores, Restrict
<1>4. IsFiniteSet(P)
  <2>1. P \subseteq Miners
    BY <1>2
  <2>2. QED
    BY <2>1, InputsAssumption, FS_Subset
<1>5. planned \in [P -> Nat \ {0}]
  BY <1>1, <1>2, <1>3
<1>6. DOMAIN planned = P
  BY <1>3
<1>7. P # {} => IsVector(planned)
  BY <1>4, <1>5, <1>6 DEF IsVector
<1>8. QED
  BY <1>1, <1>2, <1>6, <1>7

\* A feasible limit is one that the lemmas on Clip speak of.
LEMMA FeasibleVector ==
  ASSUME InputsOK, Feasible
  PROVE  IsVector(planned) /\ raw \in Nat /\ ~(Cardinality(DOMAIN planned) * raw <= U16)
<1>1. IsVector(planned) /\ raw \in Nat /\ Cardinality(DOMAIN planned) * raw > U16
  BY PlannedVector DEF Feasible
<1>2. PICK n, u \in Nat : n = Cardinality(DOMAIN planned) /\ u = U16
  BY <1>1, FS_CardinalityType, VectorAssumption DEF IsVector
<1>3. n * raw \in Nat /\ n * raw > u
  BY <1>1, <1>2
<1>4. QED
  BY <1>1, <1>2, <1>3

\* For any scoring, any limit and any width of the vector, _clip_to_max_weight
\* fills to the limit and no further.
THEOREM LimitFilled == SpecInputs => []ClipFillsToLimit
<1>1. InputsOK => ClipFillsToLimit
  <2> SUFFICES ASSUME InputsOK, Feasible, Clipped(planned, raw) PROVE ClipFillsToLimit
    BY DEF ClipFillsToLimit
  <2>1. PICK w, limit, c : w = planned /\ limit = raw /\ c = Clip(w, limit)
    OBVIOUS
  <2>2. /\ IsVector(w) /\ limit \in Nat /\ ~(Cardinality(DOMAIN w) * limit <= U16)
        /\ ~WithinLimit(w, limit)
    BY <2>1, FeasibleVector DEF Clipped
  <2>3. PICK at : at = {h \in DOMAIN c : c[h] * U16 = limit * Total(c)}
    OBVIOUS
  <2>4. WithinLimit(c, limit)
    BY <2>1, <2>2, ClipWithinLimit
  <2>5. /\ at # {}
        /\ \A g, h \in DOMAIN c \ at : c[g] * w[h] = c[h] * w[g]
        /\ \A g \in DOMAIN c \ at, h \in at : w[g] <= w[h]
    BY <2>1, <2>2, <2>3, ClipFills
  <2>6. QED
    BY <2>1, <2>3, <2>4, <2>5 DEF ClipFillsToLimit
<1>2. QED
  BY <1>1, InputsInvariant, PTL

\* For any scoring, limit and width, the vector that _conform_weight_vector gives
\* ranks the hotkeys as their scores do and keeps the best.
THEOREM ScoresRanked == SpecInputs => []RankingKept
<1>1. InputsOK => RankingKept
  <2> SUFFICES ASSUME InputsOK, DOMAIN planned # {} PROVE RankingKept
    BY DEF RankingKept
  <2>1. PICK w, limit, q : w = planned /\ limit = raw /\ q = Conform(w, limit)
    OBVIOUS
  <2>2. IsVector(w) /\ limit \in Nat /\ DOMAIN w = {h \in Miners : scores[h] > 0}
    BY <2>1, PlannedVector
  <2>3. /\ DOMAIN q \subseteq DOMAIN w
        /\ \A h \in DOMAIN q : q[h] \in 1 .. U16
        /\ \A h \in DOMAIN w : w[h] = Top(w) => h \in DOMAIN q /\ q[h] = U16
        /\ \A g \in DOMAIN q, h \in DOMAIN w :
             w[g] <= w[h] => h \in DOMAIN q /\ q[g] <= q[h]
    BY <2>1, <2>2, ConformRanks
  <2>4. QED
    BY <2>1, <2>2, <2>3 DEF RankingKept
<1>2. QED
  BY <1>1, InputsInvariant, PTL

\* For any scoring and any limit that can be met, the passes of
\* _capped_normalize and the cutoff of _clip_to_max_weight give one share.
THEOREM CappingsGiveOneShare == SpecInputs => []CappingsAgree
<1>1. InputsOK => CappingsAgree
  <2> SUFFICES ASSUME InputsOK, DOMAIN planned # {}, ~TooFewForCap(planned, raw, U16)
               PROVE  CappingsAgree
    BY DEF CappingsAgree
  <2>1. PICK w, limit, c, shares : /\ w = planned /\ limit = raw /\ c = Clip(w, limit)
                                   /\ shares = CappedNormalize(w, limit, U16)
    OBVIOUS
  <2>2. IsVector(w) /\ limit \in Nat
    BY <2>1, PlannedVector
  <2>3. Cardinality(DOMAIN w) * limit >= U16
    <3>1. PICK n, u \in Nat : n = Cardinality(DOMAIN w) /\ u = U16
      BY <2>2, FS_CardinalityType, VectorAssumption DEF IsVector
    <3>2. ~(n * limit < u)
      BY <2>1, <3>1 DEF TooFewForCap
    <3>3. n * limit \in Nat
      BY <2>2
    <3>4. QED
      BY <3>1, <3>2, <3>3
  <2>4. \A h \in DOMAIN w : shares.num[h] * Total(c) = c[h] * shares.den
    BY <2>1, <2>2, <2>3, SharesAgree
  <2>5. QED
    BY <2>1, <2>4 DEF CappingsAgree
<1>2. QED
  BY <1>1, InputsInvariant, PTL

\* For any scoring and any limit that can be met, the limit gate of
\* collect_testnet_weight_plan is missed by no more than the rounding.
THEOREM GateMissBounded == SpecInputs => []GateMissedOnlyByRounding
<1>1. InputsOK => GateMissedOnlyByRounding
  <2> SUFFICES ASSUME InputsOK, Feasible PROVE GateMissedOnlyByRounding
    BY DEF GateMissedOnlyByRounding
  <2>1. PICK w, limit, q : w = planned /\ limit = raw /\ q = Conform(w, limit)
    OBVIOUS
  <2>2. IsVector(w) /\ limit \in Nat /\ ~(Cardinality(DOMAIN w) * limit <= U16)
    BY <2>1, FeasibleVector
  <2>3. 2 * Top(q) * U16 <= limit * (2 * Total(q) + Cardinality(DOMAIN w))
    BY <2>1, <2>2, ConformNearLimit
  <2>4. QED
    BY <2>1, <2>3 DEF GateMissedOnlyByRounding
<1>2. QED
  BY <1>1, InputsInvariant, PTL

-----------------------------------------------------------------------------
(* An unchanged plan passes.                                               *)

\* The plan s is what weight-plan makes of the scoring, on the slots f and the
\* rest of the chain that the plan records.
MadeWith(s, scoring, f) ==
  LET v == PositiveScores(scoring)
      q == Conform(v, s.view.params.limit)
  IN  /\ s.targets = {[hotkey |-> h, uid |-> f[h], score |-> scoring[h],
                       total |-> Total(v), u16 |-> q[h]] : h \in DOMAIN q}
      /\ s.block <= block /\ DOMAIN v # {}
      /\ s.view.uid # NoUid /\ s.view.permit
      /\ \A h \in DOMAIN v : f[h] # NoUid
      /\ \/ s.view.params.rate = 0 \/ s.view.lastUpdate = 0
         \/ s.block - s.view.lastUpdate >= s.view.params.rate
      /\ Cardinality(DOMAIN q) >= s.view.params.minimum
      /\ WithinLimit(q, s.view.params.limit)

Made == \A s \in saved : \E scoring \in Scorings : \E f : MadeWith(s, scoring, f)

\* Every saved plan was made of a scoring, with all gates passed.
LEMMA NextMade == TypeOK /\ Made /\ [Next]_vars => Made'
<1> SUFFICES ASSUME TypeOK, Made, [Next]_vars PROVE Made'
  OBVIOUS
<1>1. ASSUME saved' = saved, block' = block \/ block' = block + 1
      PROVE  Made'
  <2>1. block \in Nat /\ \A s \in saved : s.block \in Nat
    BY SubmissionAssumption DEF TypeOK
  <2>2. ASSUME NEW s \in saved, NEW scoring \in Scorings, NEW f, MadeWith(s, scoring, f)
        PROVE  MadeWith(s, scoring, f)'
    <3>1. s.block <= block => s.block <= block'
      BY <1>1, <2>1
    <3>2. QED
      BY <2>2, <3>1 DEF MadeWith
  <2>3. QED
    BY <1>1, <2>2 DEF Made
<1>2. ASSUME NEW scoring \in Scorings, CollectPlan(scoring) PROVE Made'
  <2>1. PICK s : s = [block |-> block, view |-> View, targets |-> Targets(scoring)]
    OBVIOUS
  <2>2. saved' = saved \cup {s} /\ block' = block /\ Ready(scoring, MinimumPositive)
    BY <1>2, <2>1 DEF CollectPlan
  <2>3. /\ s.view.params = params /\ s.view.uid = uidOf[Validator] /\ s.view.permit = permit
        /\ s.view.lastUpdate = lastUpdate /\ s.block = block /\ s.targets = Targets(scoring)
    BY <2>1 DEF View
  <2>4. s.block <= block
    BY <2>3, SubmissionAssumption DEF TypeOK
  <2>5. s.targets = {[hotkey |-> h, uid |-> uidOf[h], score |-> scoring[h],
                      total |-> Total(PositiveScores(scoring)),
                      u16 |-> Conform(PositiveScores(scoring), params.limit)[h]]
                     : h \in DOMAIN Conform(PositiveScores(scoring), params.limit)}
    BY <2>3 DEF Targets, Conformed
  <2>6. MadeWith(s, scoring, uidOf)
    BY <2>2, <2>3, <2>4, <2>5 DEF MadeWith, Ready, RateLimitElapsed, Conformed
  <2>7. \A x, y, f : MadeWith(x, y, f)' <=> MadeWith(x, y, f)
    BY <2>2 DEF MadeWith
  <2>8. QED
    BY <2>2, <2>6, <2>7 DEF Made
<1>3. ASSUME NEW p \in Processes,
             (\E plan \in saved : Revalidate(p, plan)) \/ Submit(p) \/ KillBeforeSigning(p)
      PROVE  Made'
  BY <1>1, <1>3 DEF Revalidate, Submit, KillBeforeSigning
<1>4. ASSUME NEW plan \in saved, Readback(plan) PROVE Made'
  BY <1>1, <1>4 DEF Readback
<1>5. ASSUME NewBlock, UNCHANGED saved PROVE Made'
  BY <1>1, <1>5 DEF NewBlock
<1>6. CASE \/ EmptyBlock \/ (\E x \in pool : Execute(x)) \/ (\E x \in commits : Reveal(x))
           \/ (\E h \in Hotkeys, u \in Uids : Register(h, u))
           \/ (\E new \in ParamSets : SetParams(new)) \/ SetPermit
  BY <1>5, <1>6 DEF EmptyBlock, Execute, Reveal, Register, SetParams, SetPermit, tool
<1>7. CASE UNCHANGED vars
  BY <1>1, <1>7 DEF vars, tool
<1>8. QED
  BY <1>2, <1>3, <1>4, <1>6, <1>7 DEF Next

\* The scores a submission plans with are those of the plan's targets.
LEMMA ScoresOfPlan ==
  ASSUME NEW s, NEW scoring, NEW f, MadeWith(s, scoring, f),
         NEW v, v = PositiveScores(scoring), NEW q, q = Conform(v, s.view.params.limit)
  PROVE  /\ TargetsOf(s) = DOMAIN q
         /\ DOMAIN ScoresOf(s) = DOMAIN q
         /\ \A h \in DOMAIN q : ScoresOf(s)[h] = scoring[h]
<1>1. PICK P : P = DOMAIN q
  OBVIOUS
<1> DEFINE target(h) == [hotkey |-> h, uid |-> f[h], score |-> scoring[h],
                         total |-> Total(v), u16 |-> q[h]]
<1>2. s.targets = {target(h) : h \in P}
  BY <1>1 DEF MadeWith
<1>3. TargetsOf(s) = P
  <2>1. ASSUME NEW h \in P PROVE h \in TargetsOf(s)
    <3>1. target(h) \in s.targets /\ target(h).hotkey = h
      BY <1>2
    <3> HIDE DEF target
    <3>2. QED
      BY <3>1 DEF TargetsOf
  <2>2. ASSUME NEW k \in TargetsOf(s) PROVE k \in P
    <3>1. PICK t \in s.targets : k = t.hotkey
      BY DEF TargetsOf
    <3>2. PICK h \in P : t = target(h)
      BY <1>2, <3>1
    <3>3. QED
      BY <3>1, <3>2
  <2>3. QED
    BY <2>1, <2>2
<1>4. ASSUME NEW h \in P
      PROVE  (CHOOSE t \in s.targets : t.hotkey = h).score = scoring[h]
  <2>1. target(h) \in s.targets /\ target(h).hotkey = h
    BY <1>2
  <2>2. PICK t : t = CHOOSE x \in s.targets : x.hotkey = h
    OBVIOUS
  <2>3. t \in s.targets /\ t.hotkey = h
    BY <2>1, <2>2
  <2>4. PICK k \in P : t = target(k)
    BY <1>2, <2>3
  <2>5. k = h /\ t.score = scoring[k]
    BY <2>3, <2>4
  <2>6. QED
    BY <2>2, <2>5
<1>5. DOMAIN ScoresOf(s) = P /\ \A h \in P : ScoresOf(s)[h] = scoring[h]
  BY <1>3, <1>4 DEF ScoresOf
<1>6. QED
  BY <1>1, <1>3, <1>5

\* What is planned of a scoring is a vector.
LEMMA ScoringVector ==
  ASSUME NEW scoring \in Scorings, NEW v, v = PositiveScores(scoring), DOMAIN v # {}
  PROVE  /\ IsVector(v) /\ v = [h \in DOMAIN v |-> scoring[h]]
         /\ \A h \in DOMAIN v : v[h] = scoring[h] /\ v[h] \in Nat /\ v[h] > 0
<1>1. PICK D : D = {h \in DOMAIN scoring : scoring[h] > 0}
  OBVIOUS
<1>2. scoring \in [DOMAIN scoring -> Nat] /\ IsFiniteSet(D)
  <2>1. scoring \in [DOMAIN scoring -> Nat] /\ DOMAIN scoring \subseteq Hotkeys
        /\ IsFiniteSet(Hotkeys)
    BY SubmissionAssumption
  <2>2. D \subseteq Hotkeys
    BY <1>1, <2>1
  <2>3. QED
    BY <2>1, <2>2, FS_Subset
<1>3. v = [h \in D |-> scoring[h]]
  BY <1>1 DEF PositiveScores, Restrict
<1>4. DOMAIN v = D /\ \A h \in D : v[h] = scoring[h] /\ v[h] \in Nat /\ v[h] > 0
  BY <1>1, <1>2, <1>3
<1>5. IsVector(v)
  <2>1. v \in [D -> Nat \ {0}]
    BY <1>1, <1>2, <1>3
  <2>2. QED
    BY <1>2, <1>4, <2>1 DEF IsVector
<1>6. QED
  BY <1>3, <1>4, <1>5

\* A plan whose total is that of the scores of its targets lost no score: they
\* are the whole planned vector.
LEMMA NothingLost ==
  ASSUME NEW scoring \in Scorings, NEW v, v = PositiveScores(scoring), DOMAIN v # {},
         NEW limit \in Nat, NEW q, q = Conform(v, limit),
         NEW z, DOMAIN z = DOMAIN q, \A h \in DOMAIN q : z[h] = scoring[h],
         z = [h \in DOMAIN z |-> z[h]], Total(z) = Total(v)
  PROVE  DOMAIN q = DOMAIN v /\ z = v /\ PositiveScores(z) = v
<1>1. PICK D : D = DOMAIN v
  OBVIOUS
<1>2. IsVector(v) /\ IsFiniteSet(D)
  BY <1>1, ScoringVector DEF IsVector
<1>3. v = [h \in D |-> scoring[h]]
  BY <1>1, ScoringVector
<1>4. DOMAIN v = D /\ \A h \in D : v[h] = scoring[h] /\ v[h] \in Nat /\ v[h] > 0
  BY <1>1, ScoringVector
<1>5. IsVector(v)
  BY <1>2
<1>6. PICK P, R : P = DOMAIN q /\ R = D \ P
  OBVIOUS
<1>7. P \subseteq D /\ IsFiniteSet(P) /\ IsFiniteSet(R)
  <2>1. DOMAIN q \subseteq DOMAIN v
    BY <1>5, ConformRanks
  <2>2. QED
    BY <1>2, <1>4, <1>6, <2>1, FS_Subset
<1>8. SumOver(v, R) = 0
  <2>1. SumOver(v, D) = SumOver(v, P) + SumOver(v, R)
    <3>1. P \in SUBSET D
      BY <1>7
    <3>2. SumOver(v, D) = SumOver(v, P) + SumOver(v, D \ P)
      BY <1>2, <1>4, <3>1, SumSplit
    <3>3. QED
      BY <1>6, <3>2
  <2>2. Total(v) = SumOver(v, D)
    BY <1>4, TotalIs
  <2>3. Total(z) = SumOver(z, P)
    BY <1>6, TotalIs
  <2>4. \A h \in P : z[h] = v[h]
    BY <1>4, <1>6, <1>7
  <2>5. SumOver(z, P) = SumOver(v, P)
    BY <1>7, <2>4, SumEqual
  <2>6. SumOver(v, P) \in Nat /\ SumOver(v, R) \in Nat
    <3>1. (\A h \in P : v[h] \in Nat) /\ (\A h \in R : v[h] \in Nat)
      BY <1>4, <1>6, <1>7
    <3>2. SumOver(v, P) \in Nat
      BY <1>7, <3>1, SumStep
    <3>3. SumOver(v, R) \in Nat
      BY <1>7, <3>1, SumStep
    <3>4. QED
      BY <3>2, <3>3
  <2>7. QED
    BY <2>1, <2>2, <2>3, <2>5, <2>6
<1>9. R = {}
  <2>1. ASSUME NEW h \in R PROVE FALSE
    <3>1. PICK Q : Q = R \ {h}
      OBVIOUS
    <3>2. IsFiniteSet(Q) /\ \A g \in R : v[g] \in Nat /\ v[g] > 0
      BY <1>4, <1>6, <1>7, <3>1, FS_Subset
    <3>3. SumOver(v, R) = v[h] + SumOver(v, Q)
      BY <1>7, <3>1, <3>2, SumStep
    <3>4. SumOver(v, Q) \in Nat
      <4>1. \A g \in Q : v[g] \in Nat
        BY <3>1, <3>2
      <4>2. QED
        BY <3>2, <4>1, SumStep
    <3>5. QED
      BY <1>8, <3>2, <3>3, <3>4
  <2>2. QED
    BY <2>1
<1>10. DOMAIN q = D
  BY <1>6, <1>7, <1>9
<1>11. z = v
  BY <1>3, <1>10
<1>12. PositiveScores(v) = v
  <2>1. {h \in DOMAIN v : v[h] > 0} = D
    BY <1>4
  <2>2. PositiveScores(v) = [h \in D |-> v[h]]
    BY <2>1 DEF PositiveScores, Restrict
  <2>3. QED
    BY <1>3, <2>2
<1>13. QED
  BY <1>4, <1>10, <1>11, <1>12

\* A plan that was made with all gates passed, and whose state is still that
\* of the chain, passes the revalidation.
LEMMA UnchangedPasses ==
  ASSUME TypeOK, NEW s \in saved, NEW scoring \in Scorings, NEW f, MadeWith(s, scoring, f),
         View = s.view, block - s.block <= MaxAge,
         \A t \in s.targets : uidOf[t.hotkey] = t.uid /\ t.total = Total(ScoresOf(s))
  PROVE  FreshEquivalent(s)
<1>1. PICK v, q, z, limit : /\ v = PositiveScores(scoring) /\ limit = params.limit
                            /\ q = Conform(v, limit) /\ z = ScoresOf(s)
  OBVIOUS
<1>2. /\ s.view.params = params /\ s.view.uid = uidOf[Validator]
      /\ s.view.permit = permit /\ s.view.lastUpdate = lastUpdate
  <2>1. /\ View.params = params /\ View.uid = uidOf[Validator]
        /\ View.permit = permit /\ View.lastUpdate = lastUpdate
    BY DEF View
  <2>2. QED
    BY <2>1
<1>3. /\ s.targets = {[hotkey |-> h, uid |-> f[h], score |-> scoring[h],
                       total |-> Total(v), u16 |-> q[h]] : h \in DOMAIN q}
      /\ s.block <= block /\ DOMAIN v # {}
      /\ uidOf[Validator] # NoUid /\ permit
      /\ \A h \in DOMAIN v : f[h] # NoUid
      /\ params.rate = 0 \/ lastUpdate = 0 \/ s.block - lastUpdate >= params.rate
      /\ Cardinality(DOMAIN q) >= params.minimum
      /\ WithinLimit(q, limit)
  BY <1>1, <1>2 DEF MadeWith
<1>4. /\ block \in Nat /\ s.block \in Nat /\ lastUpdate \in Nat
      /\ params.rate \in Nat /\ limit \in Nat
  BY <1>1, SubmissionAssumption, VectorAssumption DEF TypeOK
<1>5. DOMAIN z = DOMAIN q /\ \A h \in DOMAIN q : z[h] = scoring[h]
  BY <1>1, <1>2, ScoresOfPlan
<1>6. z = [h \in DOMAIN z |-> z[h]]
  BY <1>1 DEF ScoresOf
<1>7. PICK best : best \in DOMAIN q
  <2>1. IsVector(v)
    BY <1>1, <1>3, ScoringVector
  <2>2. PICK h \in DOMAIN v : v[h] = Top(v)
    BY <2>1, TopFacts DEF IsVector
  <2>3. h \in DOMAIN q
    BY <1>1, <1>4, <2>1, <2>2, ConformRanks
  <2>4. QED
    BY <2>3
<1>8. \A h \in DOMAIN q : uidOf[h] = f[h] /\ Total(v) = Total(z)
  <2>1. ASSUME NEW h \in DOMAIN q PROVE uidOf[h] = f[h] /\ Total(v) = Total(z)
    <3>1. PICK t : t = [hotkey |-> h, uid |-> f[h], score |-> scoring[h],
                        total |-> Total(v), u16 |-> q[h]]
      OBVIOUS
    <3>2. t \in s.targets
      BY <1>3, <3>1
    <3>3. t.hotkey = h /\ t.uid = f[h] /\ t.total = Total(v)
      BY <3>1
    <3>4. QED
      BY <1>1, <3>2, <3>3
  <2>2. QED
    BY <2>1
<1>9. DOMAIN q = DOMAIN v /\ z = v /\ PositiveScores(z) = v
  BY <1>1, <1>3, <1>4, <1>5, <1>6, <1>7, <1>8, NothingLost
<1>10. Conformed(z) = q
  BY <1>1, <1>9 DEF Conformed
<1>11. RateLimitElapsed(block)
  <2>1. s.block - lastUpdate >= params.rate => block - lastUpdate >= params.rate
    BY <1>3, <1>4
  <2>2. QED
    BY <1>3, <2>1 DEF RateLimitElapsed
<1>12. Cardinality(DOMAIN v) >= 1
  <2>1. IsFiniteSet(DOMAIN v)
    BY <1>1, <1>3, ScoringVector DEF IsVector
  <2>2. Cardinality(DOMAIN v) \in Nat /\ Cardinality(DOMAIN v) # 0
    BY <1>3, <2>1, FS_CardinalityType, FS_EmptySet
  <2>3. QED
    BY <2>2
<1>13. Ready(z, 1)
  <2>1. \A h \in DOMAIN v : uidOf[h] # NoUid
    BY <1>3, <1>8, <1>9
  <2>2. QED
    BY <1>1, <1>3, <1>9, <1>10, <1>11, <1>12, <2>1 DEF Ready
<1>14. Targets(z) = s.targets
  <2>1. Targets(z) = {[hotkey |-> h, uid |-> uidOf[h], score |-> z[h],
                       total |-> Total(v), u16 |-> q[h]] : h \in DOMAIN q}
    BY <1>9, <1>10 DEF Targets
  <2>2. \A h \in DOMAIN q : uidOf[h] = f[h] /\ z[h] = scoring[h]
    BY <1>5, <1>8
  <2>3. QED
    BY <1>3, <2>1, <2>2
<1>15. block - s.block \in 0 .. MaxAge
  BY <1>3, <1>4, SubmissionAssumption
<1>16. QED
  BY <1>1, <1>13, <1>14, <1>15 DEF FreshEquivalent

\* _require_fresh_equivalent_plan refuses no plan whose state is unchanged and
\* which lost no score to the rounding, in any subnet.
THEOREM UnchangedPlanAccepted == Spec => []UnchangedPlanPasses
<1>1. Init => Made
  BY DEF Init, Made
<1>2. TypeOK /\ Made => UnchangedPlanPasses
  BY UnchangedPasses DEF Made, UnchangedPlanPasses
<1>3. QED
  BY <1>1, <1>2, NextMade, TypeCorrect, PTL DEF Spec
=============================================================================
