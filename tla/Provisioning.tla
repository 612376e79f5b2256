---------------------------- MODULE Provisioning ----------------------------
(***************************************************************************)
(* Digest-authorized creation of the testnet subnet: provision-plan,       *)
(* provision-submit and provision-readback of testnet_provisioning.py,     *)
(* testnet_provisioning_submission.py and testnet_provisioning_readback.py *)
(* run by several processes, each through a node that may lag behind the   *)
(* chain.                                                                  *)
(*                                                                         *)
(* A command reads one pinned block, so it is one step between its reads   *)
(* and its effect on the chain.  A plan's digest stands for its content: an *)
(* authorized digest is a saved plan.  A plan that misses a gate is written *)
(* too, but never gets past its validation, so only the others are kept.   *)
(* The chain, its queue of registrations and the SDK are external.         *)
(***************************************************************************)
EXTENDS Integers, FiniteSets

CONSTANTS
  Hotkeys,     \* the hotkeys of the identity manifest
  Owner,       \* validator-00
  Netuids,     \* the non-root subnets
  Processes,   \* invocations of provision-submit
  Prices,      \* prices of a subnet
  Balances,    \* what the coldkey may hold at first
  Reserve,     \* existential deposit and fee cap
  MAX_SUBNET_CREATION_REVIEW_COST,
  MAX_CREATION_WALLET_BALANCE,
  MAX_TESTNET_BUDGET,
  NoPrice,     \* of a result that reports no price
  NoPlan,      \* before the first plan
  NoReceipt,   \* before the first receipt
  NoSubnet,    \* of a netuid that is free
  MaxAge,      \* --max-plan-age-blocks
  MaxLag,      \* bound on the blocks a node is behind
  MaxSigned,   \* bound on the signed extrinsics
  MaxReceived, \* bound on what others send to the coldkey
  MaxBlock     \* bound on the height of the chain

ASSUME ProvisioningAssumption ==
  /\ Owner \in Hotkeys
  /\ Prices \subseteq Nat \ {0} /\ Balances \subseteq Nat /\ Reserve \in Nat
  /\ MAX_SUBNET_CREATION_REVIEW_COST \in Nat /\ MAX_CREATION_WALLET_BALANCE \in Nat
  /\ MAX_TESTNET_BUDGET \in Nat
  /\ NoPrice \notin Prices
  /\ MaxAge \in Nat /\ MaxLag \in Nat
  /\ MaxSigned \in Nat /\ MaxReceived \in Nat /\ MaxBlock \in Nat

VARIABLES
  block,     \* height of the chain
  history,   \* history[b]: the state of the chain at a block b that nodes still answer at
  pool,      \* signed extrinsics that are not yet in a block
  queue,     \* registrations that were paid for and wait for their subnet
  created,   \* history: the subnets this coldkey has created
  spent,     \* history: what it has paid for them
  saved,     \* the plan that provision-plan wrote last
  task,      \* task[p]: what provision-submit process p has reached
  receipt    \* the receipt that provision-submit wrote last

chain == <<block, history>>
tool  == <<saved, task, receipt>>
vars  == <<chain, pool, queue, created, spent, tool>>

Idle == [pc |-> "idle"]

\* A subnet, of this coldkey or of another account.
Subnets == [ours : BOOLEAN, at : Nat, locked : Nat]

\* price: of the next creation; received: all that was ever sent to the
\* coldkey; owned: it owns a hotkey; taken: hotkeys registered by others.
Snapshots ==
  [price : Prices, balance : Nat, received : Nat, owned : BOOLEAN,
   taken : SUBSET Hotkeys, subnets : [Netuids -> Subnets \cup {NoSubnet}]]

Plans ==
  [block : 0 .. MaxBlock, price : Prices, balance : Nat, owned : BOOLEAN,
   registered : SUBSET Hotkeys]
Extrinsics ==
  {x \in [by : Processes, plan : Plans, fresh : 0 .. block, received : Nat] :
     x.fresh \in x.plan.block .. x.plan.block + MaxAge}

\* The blocks at which a node may answer.
Answering == {b \in 0 .. block : block - b <= MaxLag}

TypeOK ==
  /\ block \in 0 .. MaxBlock
  /\ history \in [Answering -> Snapshots]
  /\ saved \in Plans \cup {NoPlan}
  /\ pool \subseteq Extrinsics
  /\ queue \subseteq [x : Extrinsics, price : Prices, paid : 0 .. block]
  /\ created \subseteq [x : Extrinsics, price : Prices, paid : 0 .. block,
                        netuid : Netuids, at : 0 .. block]
  /\ spent \in Nat
  /\ task \in [Processes -> {Idle} \cup [pc : {"signing", "waiting"}, x : Extrinsics]]
  /\ receipt \in [x : Extrinsics, included : 0 .. block, netuid : Netuids,
                  price : Prices \cup {NoPrice}] \cup {NoReceipt}

Init ==
  /\ block = 0
  /\ history \in [{0} -> [price : Prices, balance : Balances, received : {0}, owned : {FALSE},
                          taken : {{}}, subnets : {[n \in Netuids |-> NoSubnet]}]]
  /\ pool = {} /\ queue = {} /\ created = {} /\ spent = 0
  /\ saved = NoPlan /\ receipt = NoReceipt
  /\ task = [p \in Processes |-> Idle]

-----------------------------------------------------------------------------
\* The commands.

Head == history[block]

\* Everything signed, and what became of it.
Signed == pool \cup {q.x : q \in queue} \cup {c.x : c \in created}

\* The hotkeys of the manifest that are registered on some subnet.
Registered(s) ==
  s.taken \cup (IF \E n \in Netuids : s.subnets[n] # NoSubnet /\ s.subnets[n].ours
                THEN {Owner} ELSE {})

\* What a plan records of a block.
PlanAt(b) ==
  [block |-> b, price |-> history[b].price, balance |-> history[b].balance,
   owned |-> history[b].owned, registered |-> Registered(history[b])]

\* Fault: the exposure of the wallet is not a gate.
ValidPlanExposureFault(plan) ==
  /\ ~plan.owned /\ plan.registered = {}
  /\ plan.balance > 0 /\ plan.balance <= MAX_TESTNET_BUDGET
  /\ plan.price <= MAX_SUBNET_CREATION_REVIEW_COST
  /\ plan.balance >= plan.price + Reserve

\* The gates of a plan: collect_testnet_provision_plan reports them, and
\* _validated_provision_plan_digest recomputes them from the plan's numbers and
\* raises unless all hold.
ValidPlan(plan) ==
  /\ ~plan.owned /\ plan.registered = {}
  /\ plan.balance > 0 /\ plan.balance <= MAX_TESTNET_BUDGET
  /\ plan.balance <= MAX_CREATION_WALLET_BALANCE
  /\ plan.price <= MAX_SUBNET_CREATION_REVIEW_COST
  /\ plan.balance >= plan.price + Reserve

\* provision-plan.
CollectPlan(b) ==
  /\ ValidPlan(PlanAt(b))
  /\ saved' = PlanAt(b)
  /\ UNCHANGED <<chain, pool, queue, created, spent, task, receipt>>

\* Fault: the balances are not compared.
FreshEquivalentBalanceFault(plan, fresh) ==
  /\ ValidPlan(fresh)
  /\ fresh.block - plan.block \in 0 .. MaxAge
  /\ fresh = [plan EXCEPT !.block = fresh.block, !.balance = fresh.balance]

\* _require_fresh_equivalent_plan.
FreshEquivalent(plan, fresh) ==
  /\ ValidPlan(fresh)
  /\ fresh.block - plan.block \in 0 .. MaxAge
  /\ fresh = [plan EXCEPT !.block = fresh.block]

\* provision-submit up to the signature: the plan is loaded, its digest is the authorized one, the
\* dynamic cost acknowledged, the fresh plan passes every gate and is
\* equivalent, and the local keys are the plan's.  (received is history.)
Revalidate(p, b) ==
  /\ task[p] = Idle /\ saved # NoPlan
  /\ ValidPlan(saved)
  /\ FreshEquivalent(saved, PlanAt(b))
  /\ task' = [task EXCEPT ![p] =
       [pc |-> "signing",
        x  |-> [by |-> p, plan |-> saved, fresh |-> b, received |-> history[b].received]]]
  /\ UNCHANGED <<chain, pool, queue, created, spent, saved, receipt>>

\* The submitter: one extrinsic, without retries.
Submit(p) ==
  /\ task[p].pc = "signing" /\ Cardinality(Signed) < MaxSigned
  /\ pool' = pool \cup {task[p].x}
  /\ task' = [task EXCEPT ![p].pc = "waiting"]
  /\ UNCHANGED <<chain, queue, created, spent, saved, receipt>>

\* The process is killed, or its SDK call fails, reports no success or gives up
\* after registration_timeout: no receipt.  It may be invoked again.
Abandon(p) ==
  /\ task[p] # Idle
  /\ task' = [task EXCEPT ![p] = Idle]
  /\ UNCHANGED <<chain, pool, queue, created, spent, saved, receipt>>

\* The extrinsic is final and the SDK reports a netuid, with or without the
\* price: the receipt takes them as they are, if the netuid is not the root.
WriteReceipt(p) ==
  /\ task[p].pc = "waiting"
  /\ \E c \in created, n \in Netuids : \E price \in {c.price, NoPrice} :
       /\ c.x = task[p].x
       /\ receipt' = [x |-> c.x, included |-> c.paid, netuid |-> n, price |-> price]
  /\ task' = [task EXCEPT ![p] = Idle]
  /\ UNCHANGED <<chain, pool, queue, created, spent, saved>>

\* provision-readback writes nothing but its report: what matters is when it is
\* ready.  Fault: who owns the subnet is not compared with the receipt.
ReadbackReadyFault(r, b) ==
  LET net == history[b].subnets[r.netuid]
  IN  /\ b >= r.included
      /\ net # NoSubnet
      /\ history[b].owned
      /\ r.x.plan.block <= net.at

\* _validated_provision_receipt_digest: the digest, the coordinates and the fixed
\* bounds; the rest of a receipt stands by the way it is written.
ValidReceipt(r) == r.netuid \in Netuids /\ r.x.plan.block <= r.x.fresh

\* The gates of verify_testnet_provision_readback at the finalized block b.
\* The including block of a successful extrinsic is final, so the gates about
\* its hash, its index and its call hold of every receipt of provision-submit.
ReadbackReady(r, b) ==
  LET net == history[b].subnets[r.netuid]
  IN  /\ ValidReceipt(r)
      /\ b >= r.included
      /\ net # NoSubnet /\ net.ours
      /\ history[b].owned
      /\ r.x.plan.block <= net.at /\ net.at <= b
      /\ net.locked > 0 /\ r.price \in {NoPrice, net.locked}

-----------------------------------------------------------------------------
\* The chain: one event in a block, and the price moves.
NewBlock(s) ==
  /\ block < MaxBlock /\ block' = block + 1
  /\ \E price \in Prices :
       history' = [b \in Answering' |->
                     IF b = block + 1 THEN [s EXCEPT !.price = price] ELSE history[b]]

EmptyBlock == NewBlock(Head) /\ UNCHANGED <<pool, queue, created, spent, tool>>

\* Anyone can send funds to a public address.
Receive ==
  /\ Head.received < MaxReceived
  /\ NewBlock([Head EXCEPT !.balance = @ + 1, !.received = @ + 1])
  /\ UNCHANGED <<pool, queue, created, spent, tool>>

\* Another account registers one of the hotkeys.
TakeHotkey(h) ==
  /\ h \notin Registered(Head)
  /\ NewBlock([Head EXCEPT !.taken = @ \cup {h}])
  /\ UNCHANGED <<pool, queue, created, spent, tool>>

\* A netuid goes to another account, and a subnet is dissolved.
ForeignSubnet(n) ==
  /\ Head.subnets[n] = NoSubnet
  /\ NewBlock([Head EXCEPT !.subnets[n] = [ours |-> FALSE, at |-> block + 1, locked |-> Head.price]])
  /\ UNCHANGED <<pool, queue, created, spent, tool>>

Dissolve(n) ==
  /\ Head.subnets[n] # NoSubnet
  /\ NewBlock([Head EXCEPT !.subnets[n] = NoSubnet])
  /\ UNCHANGED <<pool, queue, created, spent, tool>>

\* The subnet of a registration that is paid for appears at the next block.
Appears(q, n, s) ==
  /\ s.subnets[n] = NoSubnet
  /\ NewBlock([s EXCEPT !.owned = TRUE,
                        !.subnets[n] = [ours |-> TRUE, at |-> block + 1, locked |-> q.price]])
  /\ created' = created \cup
       {[x |-> q.x, price |-> q.price, paid |-> q.paid, netuid |-> n, at |-> block + 1]}

\* An extrinsic is executed at the price of the block, whatever it was at the
\* review, if the balance affords it: at once, or by way of the queue.
Execute(x) ==
  LET q    == [x |-> x, price |-> Head.price, paid |-> block + 1]
      paid == [Head EXCEPT !.balance = @ - Head.price]
  IN  /\ Head.balance >= Head.price /\ Owner \notin Head.taken
      /\ pool' = pool \ {x} /\ spent' = spent + Head.price
      /\ \/ \E n \in Netuids : Appears(q, n, paid) /\ UNCHANGED queue
         \/ NewBlock(paid) /\ queue' = queue \cup {q} /\ UNCHANGED created
      /\ UNCHANGED tool

Activate(q) ==
  /\ \E n \in Netuids : Appears(q, n, Head)
  /\ queue' = queue \ {q}
  /\ UNCHANGED <<pool, spent, tool>>

Next ==
  \/ \E b \in Answering : CollectPlan(b)
  \/ \E p \in Processes :
        \/ \E b \in Answering : Revalidate(p, b)
        \/ Submit(p) \/ Abandon(p) \/ WriteReceipt(p)
  \/ EmptyBlock \/ Receive
  \/ \E h \in Hotkeys : TakeHotkey(h)
  \/ \E n \in Netuids : ForeignSubnet(n) \/ Dissolve(n)
  \/ \E x \in pool : Execute(x)
  \/ \E q \in queue : Activate(q)

Spec == Init /\ [][Next]_vars

-----------------------------------------------------------------------------
\* What is signed after a registration was paid for, by whatever rerun.  The
\* registration was still in the queue, as nothing is revalidated once a subnet
\* of the coldkey has appeared, also when it has been dissolved since; and it was
\* not the same reviewed plan, whose balance is no longer that of the coldkey,
\* unless others had sent the coldkey in between what was paid.  A rerun whose
\* revalidation precedes the payment, or that reviews a new plan while the
\* registration waits, is not refused: see AtMostOneSubnet.
SignedAfterPayment ==
  \A x \in Signed, q \in queue \cup created :
    x.fresh >= q.paid =>
      /\ q \in created => x.fresh < q.at
      /\ x.plan = q.x.plan => x.received - q.x.received >= q.price

\* TESTNET.md:86-88: the coldkey must own no hotkeys and the planned hotkeys must
\* have no registrations, "preventing a rerun from creating a second subnet".
AtMostOneSubnet == Cardinality(created) <= 1

\* The price is not limited on the chain, but the staged balance is: all that
\* the coldkey ever pays for subnets, by one invocation or several, is at most
\* the cap on the creation wallet and what others have sent to it since the
\* first revalidation.
ExposureBounded ==
  spent > 0 =>
    \E x \in Signed :
      spent <= MAX_CREATION_WALLET_BALANCE + Head.received - x.received

\* A ready readback is about a subnet that this project created after the plan
\* it reviewed, that stood at the block of the readback, and that was paid for
\* at the price on the receipt, if it has one.  As long as there is only one,
\* it is the one of the receipt's own extrinsic.
EvidenceNamesCreation ==
  \A b \in Answering :
    receipt # NoReceipt /\ ReadbackReady(receipt, b) =>
      \E c \in created :
        /\ c.netuid = receipt.netuid /\ c.at = history[b].subnets[c.netuid].at
        /\ receipt.x.plan.block <= c.at /\ c.at <= b
        /\ receipt.price \in {NoPrice, c.price}
        /\ Cardinality(created) = 1 => c.x = receipt.x
=============================================================================
