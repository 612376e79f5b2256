-------------------------- MODULE WeightSubmission --------------------------
(***************************************************************************)
(* Digest-authorized weight submission on testnet: collect_testnet_weight_ *)
(* plan, submit_testnet_weight_plan and verify_testnet_weight_readback of  *)
(* planrace/testnet_weights.py and testnet_submission.py, run by several   *)
(* processes against a chain that moves on between any two of their steps. *)
(*                                                                         *)
(* A collection reads one pinned block and is one step.  A plan's digest   *)
(* stands for its content, so an authorized digest is a saved plan.  A     *)
(* plan, or a fresh plan, that misses a gate is refused before it has any  *)
(* effect.  The chain is external: every change of it is a block.          *)
(***************************************************************************)
EXTENDS WeightVector

CONSTANTS
  Hotkeys,    \* all hotkeys of the subnet
  Validator,  \* validator_hotkey_ss58
  Uids,       \* the slots of the subnet
  NoUid,      \* of a hotkey that is not registered
  FirstUids,  \* the slots when the operator first looks
  Scorings,   \* the scores an operator may plan with: functions of hotkeys
  ParamSets,  \* hyperparameters: [limit, minimum, rate, commit]
  Processes,  \* invocations of weight-submit
  MaxAge,     \* max_plan_age_blocks
  MinimumPositive,  \* minimum_positive_hotkeys of weight-plan
  Tolerance,  \* quantization_tolerance of weight-readback, in units of 1 / U16
  MaxPlans,   \* bound on the saved plans
  MaxBlock    \* bound on the height of the chain

ASSUME SubmissionAssumption ==
  /\ IsFiniteSet(Hotkeys) /\ Validator \in Hotkeys /\ NoUid \notin Uids
  /\ FirstUids \in [Hotkeys -> Uids \cup {NoUid}]
  /\ \A g, h \in Hotkeys : FirstUids[g] = FirstUids[h] /\ FirstUids[g] # NoUid => g = h
  /\ \A scores \in Scorings : /\ DOMAIN scores \subseteq Hotkeys \ {Validator}
                             /\ scores \in [DOMAIN scores -> Nat]
  /\ ParamSets \subseteq [limit : 1 .. U16, minimum : Nat, rate : Nat, commit : BOOLEAN]
  /\ MaxAge \in Nat /\ MinimumPositive \in Nat /\ Tolerance \in Nat /\ MaxPlans \in Nat /\ MaxBlock \in Nat

VARIABLES
  block,       \* height of the chain
  params,      \* hyperparameters of the subnet
  uidOf,       \* uidOf[h]: the slot of hotkey h
  permit,      \* the validator may set weights: permit or subnet owner
  row,         \* row[u]: the weight the validator's row gives slot u
  lastUpdate,  \* last_update of the validator, 0 before its first operation
  commits,     \* timelocked vectors that are not yet revealed
  pool,        \* signed extrinsics that are not yet in a block
  saved,       \* plans written by weight-plan
  task,        \* task[p]: what weight-submit process p has reached
  landed,      \* history: the extrinsics that were executed
  evidence     \* history: plans with the block of a readback that was ready

subnet == <<params, uidOf, permit>>
weightsVars == <<row, lastUpdate, commits>>
tool == <<saved, task, evidence>>
vars == <<block, subnet, weightsVars, pool, tool, landed>>

Idle == [pc |-> "idle"]

TargetsOf(plan) == {t.hotkey : t \in plan.targets}

\* The u16 vector of a plan, by slot.
VectorOf(plan) ==
  [u \in Uids |-> IF \E t \in plan.targets : t.uid = u
                  THEN (CHOOSE t \in plan.targets : t.uid = u).u16
                  ELSE 0]

\* A plan and the block of the fresh plan: in a task and in a signed extrinsic.
InTime(x) == x.fresh - x.plan.block \in 0 .. MaxAge
Tasks == {x \in [pc : {"signing"}, plan : saved, fresh : 0 .. block] : InTime(x)}
Extrinsics == {x \in [by : Processes, plan : saved, fresh : 0 .. block] : InTime(x)}

TypeOK ==
  /\ block \in 0 .. MaxBlock /\ lastUpdate \in 0 .. block
  /\ params \in ParamSets /\ permit \in BOOLEAN
  /\ uidOf \in [Hotkeys -> Uids \cup {NoUid}] /\ DOMAIN row = Uids
  /\ \A g, h \in Hotkeys : uidOf[g] = uidOf[h] /\ uidOf[g] # NoUid => g = h
  /\ \A s \in saved : s.block \in 0 .. block /\ \A t \in s.targets : t.uid \in Uids
  /\ task \in [Processes -> {Idle} \cup Tasks]
  /\ pool \cup commits \subseteq Extrinsics
  /\ landed \subseteq [plan : saved, fresh : 0 .. block, block : 0 .. block, direct : BOOLEAN]
  /\ evidence \subseteq [plan : saved, block : 0 .. block]

Init ==
  /\ block = 0
  /\ params \in ParamSets
  /\ uidOf = FirstUids /\ permit = TRUE
  /\ row = [u \in Uids |-> 0] /\ lastUpdate = 0
  /\ commits = {} /\ pool = {} /\ saved = {} /\ landed = {} /\ evidence = {}
  /\ task = [p \in Processes |-> Idle]

-----------------------------------------------------------------------------
\* Reading the chain.

\* What a plan records of the chain, beside its targets: hyperparameters and
\* the validator's readback.
View == [params |-> params, uid |-> uidOf[Validator], permit |-> permit,
         lastUpdate |-> lastUpdate, row |-> row]

RateLimitElapsed(now) ==
  params.rate = 0 \/ lastUpdate = 0 \/ now - lastUpdate >= params.rate

Conformed(scores) == Conform(PositiveScores(scores), params.limit)

\* The targets: slot, score, planned weight as score over total, u16 value.
Targets(scores) ==
  LET q == Conformed(scores)
  IN  {[hotkey |-> h, uid |-> uidOf[h], score |-> scores[h],
        total |-> Total(PositiveScores(scores)), u16 |-> q[h]] : h \in DOMAIN q}

\* Every gate of collect_testnet_weight_plan.
Ready(scores, minimumPositive) ==
  LET proposed == DOMAIN PositiveScores(scores)
  IN  /\ Cardinality(proposed) >= minimumPositive /\ proposed # {}
      /\ uidOf[Validator] # NoUid /\ permit
      /\ \A h \in proposed : uidOf[h] # NoUid
      /\ RateLimitElapsed(block)
      /\ Cardinality(DOMAIN Conformed(scores)) >= params.minimum
      /\ WithinLimit(Conformed(scores), params.limit)

\* The scores a submission plans anew with: those of the targets.
ScoresOf(plan) ==
  [h \in TargetsOf(plan) |-> (CHOOSE t \in plan.targets : t.hotkey = h).score]

\* Faults: the reviewed state is not compared; the age is off by one.
FreshEquivalentStateFault(plan) ==
  /\ Ready(ScoresOf(plan), 1)
  /\ block - plan.block \in 0 .. MaxAge
  /\ Targets(ScoresOf(plan)) = plan.targets
FreshEquivalentStrictFault(plan) ==
  /\ Ready(ScoresOf(plan), 1)
  /\ block - plan.block \in 0 .. MaxAge - 1
  /\ View = plan.view
  /\ Targets(ScoresOf(plan)) = plan.targets

\* _require_fresh_equivalent_plan.
FreshEquivalent(plan) ==
  /\ Ready(ScoresOf(plan), 1)
  /\ block - plan.block \in 0 .. MaxAge
  /\ View = plan.view
  /\ Targets(ScoresOf(plan)) = plan.targets

\* The recipients are the same, and no share differs by more than the tolerance.
Near(v, w) ==
  LET bound == Tolerance * Total(v) * Total(w)
  IN  \A u \in Uids : /\ v[u] > 0 <=> w[u] > 0
                      /\ (v[u] * Total(w) - w[u] * Total(v)) * U16 \in -bound .. bound

\* Faults: an old operation is taken for the plan's; only the recipients count.
ReadbackReadyFault(plan) ==
  /\ block > plan.block
  /\ uidOf[Validator] # NoUid /\ uidOf[Validator] = plan.view.uid /\ permit
  /\ \A t \in plan.targets : uidOf[t.hotkey] = t.uid
  /\ Near(row, VectorOf(plan))
ReadbackReadyRecipientsFault(plan) ==
  /\ block > plan.block
  /\ uidOf[Validator] # NoUid /\ uidOf[Validator] = plan.view.uid /\ permit
  /\ \A t \in plan.targets : uidOf[t.hotkey] = t.uid
  /\ lastUpdate > plan.block
  /\ \A u \in Uids : row[u] > 0 <=> VectorOf(plan)[u] > 0

\* Every gate of verify_testnet_weight_readback.
ReadbackReady(plan) ==
  /\ block > plan.block
  /\ uidOf[Validator] # NoUid /\ uidOf[Validator] = plan.view.uid /\ permit
  /\ \A t \in plan.targets : uidOf[t.hotkey] = t.uid
  /\ lastUpdate > plan.block
  /\ Near(row, VectorOf(plan))

-----------------------------------------------------------------------------
\* The commands.

\* weight-plan.
CollectPlan(scores) ==
  /\ Cardinality(saved) < MaxPlans
  /\ Ready(scores, MinimumPositive)
  /\ saved' = saved \cup {[block |-> block, view |-> View, targets |-> Targets(scores)]}
  /\ UNCHANGED <<block, subnet, weightsVars, pool, task, landed, evidence>>

\* weight-submit, up to the signature: the plan is loaded, its digest is the
\* authorized one, and the fresh plan is equivalent.
Revalidate(p, plan) ==
  /\ task[p] = Idle
  /\ FreshEquivalent(plan)
  /\ task' = [task EXCEPT ![p] = [pc |-> "signing", plan |-> plan, fresh |-> block]]
  /\ UNCHANGED <<block, subnet, weightsVars, pool, saved, landed, evidence>>

\* The submitter, without retries: the vector of the source plan.  The process
\* then waits for the SDK and prints a receipt or fails, or is killed, which
\* changes nothing here; it may be run again at once.
Submit(p) ==
  /\ task[p].pc = "signing"
  /\ pool' = pool \cup {[by |-> p, plan |-> task[p].plan, fresh |-> task[p].fresh]}
  /\ task' = [task EXCEPT ![p] = Idle]
  /\ UNCHANGED <<block, subnet, weightsVars, saved, landed, evidence>>

\* The process is killed before it signs.
KillBeforeSigning(p) ==
  /\ task[p].pc = "signing"
  /\ task' = [task EXCEPT ![p] = Idle]
  /\ UNCHANGED <<block, subnet, weightsVars, pool, saved, landed, evidence>>

\* weight-readback.
Readback(plan) ==
  /\ ReadbackReady(plan)
  /\ evidence' = evidence \cup {[plan |-> plan, block |-> block]}
  /\ UNCHANGED <<block, subnet, weightsVars, pool, saved, task, landed>>

-----------------------------------------------------------------------------
\* The chain.  A reassigned slot keeps its place in the validator's row.
NewBlock == block < MaxBlock /\ block' = block + 1

EmptyBlock == NewBlock /\ UNCHANGED <<subnet, weightsVars, pool, tool, landed>>

\* An extrinsic is executed: the weights are set, or committed for later.  One
\* that is refused, expires or is lost stays in the pool unexecuted.
Execute(x) ==
  /\ NewBlock
  /\ uidOf[Validator] # NoUid /\ permit /\ RateLimitElapsed(block + 1)
  /\ pool' = pool \ {x}
  /\ lastUpdate' = block + 1
  /\ row' = IF params.commit THEN row ELSE VectorOf(x.plan)
  /\ commits' = IF params.commit THEN commits \cup {x} ELSE commits
  /\ landed' = landed \cup {[plan |-> x.plan, fresh |-> x.fresh, block |-> block + 1,
                             direct |-> ~params.commit]}
  /\ UNCHANGED <<subnet, tool>>

\* A commit is revealed at its round.
Reveal(x) ==
  /\ NewBlock
  /\ commits' = commits \ {x}
  /\ row' = VectorOf(x.plan)
  /\ UNCHANGED <<subnet, lastUpdate, pool, tool, landed>>

\* A hotkey takes a slot, of another hotkey if it is not free.  The validator
\* does not register again.
Register(h, u) ==
  /\ NewBlock
  /\ h # Validator /\ uidOf[h] = NoUid
  /\ uidOf' = [g \in Hotkeys |-> IF g = h THEN u ELSE IF uidOf[g] = u THEN NoUid ELSE uidOf[g]]
  /\ UNCHANGED <<params, permit, weightsVars, pool, tool, landed>>

SetParams(new) ==
  /\ NewBlock
  /\ params' = new
  /\ UNCHANGED <<uidOf, permit, weightsVars, pool, tool, landed>>

SetPermit ==
  /\ NewBlock
  /\ permit' = ~permit
  /\ UNCHANGED <<params, uidOf, weightsVars, pool, tool, landed>>

Next ==
  \/ \E scores \in Scorings : CollectPlan(scores)
  \/ \E p \in Processes :
        \/ \E plan \in saved : Revalidate(p, plan)
        \/ Submit(p)
        \/ KillBeforeSigning(p)
  \/ \E plan \in saved : Readback(plan)
  \/ EmptyBlock
  \/ \E x \in pool : Execute(x)
  \/ \E x \in commits : Reveal(x)
  \/ \E h \in Hotkeys, u \in Uids : Register(h, u)
  \/ \E new \in ParamSets : SetParams(new)
  \/ SetPermit

Spec == Init /\ [][Next]_vars

-----------------------------------------------------------------------------
\* What was signed rests on the state that was reviewed: between the block of
\* the plan and the block of its revalidation no other weight operation was
\* executed.  So one authorization is executed twice only when two processes
\* hold it at once, never by running weight-submit again after the first
\* execution, and neither a kill nor a lost receipt makes that possible.
ReviewedStateStands ==
  \A x, y \in landed : y.block > x.plan.block => y.block > x.fresh

\* A readback that is ready has a cause: after the block of the plan a weight
\* operation of the validator was executed, and if weights are never committed
\* one whose vector has the plan's recipients and its shares up to the tolerance:
\* not always the plan's own vector, as the row of another plan can be that near.
EvidenceHasExtrinsic ==
  \A e \in evidence : \E x \in landed :
    /\ x.block > e.plan.block /\ x.block <= e.block
    /\ (\A y \in landed : y.direct) => Near(VectorOf(x.plan), VectorOf(e.plan))

\* A plan is refused only because something changed: as long as the validator's
\* state, the hyperparameters and the slots of its targets are those of the plan
\* and it is not too old, its submission passes the revalidation.  The
\* submission plans anew with the scores of the targets, so this does not hold
\* of a plan that lost a positive score to the rounding to u16.
UnchangedPlanPasses ==
  \A s \in saved :
    /\ View = s.view
    /\ block - s.block <= MaxAge
    /\ \A t \in s.targets : uidOf[t.hotkey] = t.uid /\ t.total = Total(ScoresOf(s))
    => FreshEquivalent(s)
=============================================================================
