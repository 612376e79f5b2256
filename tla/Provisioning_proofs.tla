------------------------- MODULE Provisioning_proofs -------------------------
(***************************************************************************)
(* Proofs, for any prices, balances, limits, lags and number of processes, *)
(* that Provisioning is well typed and that its three properties hold.     *)
(*                                                                         *)
(* The arguments: a creation is visible at its block and at every later    *)
(* one, so a revalidation that sees none precedes all of them; what the    *)
(* coldkey holds, less what it was sent, only falls from one block to the  *)
(* next, and falls by the price at each payment, while a revalidation finds *)
(* the balance of the reviewed plan; what the coldkey has spent, and holds, *)
(* and was sent, is what the first executed extrinsic was reviewed with; and *)
(* a subnet of the coldkey stands on the chain only as one of the creations. *)
(***************************************************************************)
EXTENDS Provisioning, FiniteSetTheorems, TLAPS

\* What is signed and what is about to be.
InFlight == {task[p].x : p \in {q \in Processes : task[q] # Idle}}
Known    == Signed \cup InFlight

-----------------------------------------------------------------------------
\* Types.
LEMMA HeadType == TypeOK => block \in Nat /\ block \in Answering /\ Head \in Snapshots
BY ProvisioningAssumption DEF TypeOK, Answering, Head

LEMMA SnapshotType ==
  ASSUME NEW s \in Snapshots
  PROVE  /\ s.price \in Prices /\ s.price \in Nat \ {0}
         /\ s.balance \in Nat /\ s.received \in Nat /\ s.owned \in BOOLEAN
         /\ s.taken \subseteq Hotkeys
         /\ s.subnets \in [Netuids -> Subnets \cup {NoSubnet}]
BY ProvisioningAssumption DEF Snapshots

\* A new block: the others answer as before.
LEMMA BlockFacts ==
  ASSUME TypeOK, NEW s \in Snapshots, NewBlock(s)
  PROVE  /\ block' = block + 1 /\ block' \in 0 .. MaxBlock
         /\ block' \in Answering' /\ history' \in [Answering' -> Snapshots]
         /\ \E price \in Prices : history'[block'] = [s EXCEPT !.price = price]
         /\ \A b \in Answering' : b # block' => b \in Answering /\ history'[b] = history[b]
<1>1. block' = block + 1 /\ block \in Nat /\ block' \in 0 .. MaxBlock
  BY ProvisioningAssumption DEF TypeOK, NewBlock
<1>2. PICK price \in Prices :
        history' = [b \in Answering' |->
                      IF b = block + 1 THEN [s EXCEPT !.price = price] ELSE history[b]]
  BY DEF NewBlock
<1>3. \A b \in Answering' : b # block' => b \in Answering
  BY <1>1, ProvisioningAssumption DEF Answering
<1>4. block' \in Answering'
  BY <1>1, ProvisioningAssumption DEF Answering
<1>5. [s EXCEPT !.price = price] \in Snapshots
  BY DEF Snapshots
<1>6. history' \in [Answering' -> Snapshots]
  BY <1>1, <1>2, <1>3, <1>5 DEF TypeOK
<1>7. QED
  BY <1>1, <1>2, <1>3, <1>4, <1>6

\* As the chain grows what was of a type stays of it.
LEMMA ExtrinsicsGrow ==
  ASSUME TypeOK, block' = block \/ block' = block + 1
  PROVE  Extrinsics \subseteq Extrinsics' /\ 0 .. block \subseteq 0 .. block'
BY DEF TypeOK, Extrinsics

LEMMA PlanType == ASSUME TypeOK, NEW b \in Answering PROVE PlanAt(b) \in Plans
<1>1. b \in 0 .. MaxBlock /\ history[b] \in Snapshots
  BY ProvisioningAssumption DEF TypeOK, Answering
<1>2. Registered(history[b]) \subseteq Hotkeys
  BY <1>1, SnapshotType, ProvisioningAssumption DEF Registered
<1>3. QED
  BY <1>1, <1>2, SnapshotType DEF PlanAt, Plans

LEMMA TaskType ==
  ASSUME TypeOK, NEW p \in Processes, task[p] # Idle
  PROVE  /\ task[p] \in [pc : {"signing", "waiting"}, x : Extrinsics]
         /\ task[p].x \in Extrinsics
BY DEF TypeOK

LEMMA InitTypeOK == Init => TypeOK
<1> SUFFICES ASSUME Init PROVE TypeOK
  OBVIOUS
<1>1. block \in 0 .. MaxBlock /\ Answering = {0}
  BY ProvisioningAssumption DEF Init, Answering
<1>2. history \in [{0} -> Snapshots]
  <2> DEFINE none == [n \in Netuids |-> NoSubnet]
  <2>1. PICK s \in [price : Prices, balance : Balances, received : {0}, owned : {FALSE},
                    taken : {{}}, subnets : {none}] : history = [b \in {0} |-> s]
    BY DEF Init
  <2>2. none \in [Netuids -> Subnets \cup {NoSubnet}]
    OBVIOUS
  <2>3. s \in Snapshots
    <3>1. /\ Balances \subseteq Nat /\ {0} \subseteq Nat /\ {FALSE} \subseteq BOOLEAN
          /\ {{}} \subseteq SUBSET Hotkeys /\ {none} \subseteq [Netuids -> Subnets \cup {NoSubnet}]
      BY <2>2, ProvisioningAssumption
    <3> HIDE DEF none
    <3>2. QED
      BY <3>1, <2>1 DEF Snapshots
  <2>4. QED
    BY <2>1, <2>3
<1>3. QED
  BY <1>1, <1>2 DEF Init, TypeOK

\* A plan is revalidated.
LEMMA RevalidateFacts ==
  ASSUME TypeOK, NEW p \in Processes, NEW b \in Answering, Revalidate(p, b)
  PROVE  LET x == [by |-> p, plan |-> saved, fresh |-> b, received |-> history[b].received]
         IN  /\ x \in Extrinsics
             /\ task' = [task EXCEPT ![p] = [pc |-> "signing", x |-> x]]
             /\ ~history[b].owned
             /\ saved.balance = history[b].balance
             /\ saved.balance <= MAX_CREATION_WALLET_BALANCE
<1> DEFINE x == [by |-> p, plan |-> saved, fresh |-> b, received |-> history[b].received]
<1>1. PlanAt(b) = [block |-> b, price |-> history[b].price, balance |-> history[b].balance,
                   owned |-> history[b].owned, registered |-> Registered(history[b])]
  BY DEF PlanAt
<1>2. saved \in Plans
  BY DEF TypeOK, Revalidate
<1>3. PlanAt(b) \in Plans
  BY PlanType
<1>4. PlanAt(b) = [saved EXCEPT !.block = b] /\ b - saved.block \in 0 .. MaxAge
      /\ ~PlanAt(b).owned
  BY <1>1 DEF Revalidate, FreshEquivalent, ValidPlan
<1>5. b \in 0 .. block /\ saved.block \in Nat /\ MaxAge \in Nat /\ history[b].received \in Nat
  BY <1>2, SnapshotType, ProvisioningAssumption DEF TypeOK, Answering, Plans
<1>6. b \in saved.block .. saved.block + MaxAge
  BY <1>4, <1>5, HeadType
<1>7. x \in Extrinsics
  BY <1>2, <1>5, <1>6 DEF Extrinsics
<1>8. saved.balance = history[b].balance
  BY <1>1, <1>2, <1>4 DEF Plans
<1>9. QED
  BY <1>1, <1>4, <1>7, <1>8 DEF Revalidate, ValidPlan

\* The steps of the tool keep the types.
LEMMA ToolTypeOK ==
  ASSUME TypeOK,
         \/ \E b \in Answering : CollectPlan(b)
         \/ \E p \in Processes :
               (\E b \in Answering : Revalidate(p, b)) \/ Submit(p) \/ Abandon(p)
               \/ WriteReceipt(p)
  PROVE  TypeOK'
<1>1. ASSUME NEW b \in Answering, CollectPlan(b) PROVE TypeOK'
  BY <1>1, PlanType DEF CollectPlan, chain, TypeOK, Answering, Extrinsics
<1>2. ASSUME UNCHANGED <<chain, queue, created, spent, saved>>,
             pool' \subseteq Extrinsics,
             task' \in [Processes -> {Idle} \cup [pc : {"signing", "waiting"}, x : Extrinsics]],
             receipt' \in [x : Extrinsics, included : 0 .. block, netuid : Netuids,
                           price : Prices \cup {NoPrice}] \cup {NoReceipt}
      PROVE  TypeOK'
  BY <1>2 DEF chain, TypeOK, Answering, Extrinsics
<1>3. ASSUME NEW p \in Processes, NEW b \in Answering, Revalidate(p, b) PROVE TypeOK'
  <2>1. UNCHANGED <<chain, pool, queue, created, spent, saved, receipt>>
    BY <1>3 DEF Revalidate
  <2>2. PICK x \in Extrinsics : task' = [task EXCEPT ![p] = [pc |-> "signing", x |-> x]]
    BY <1>3, RevalidateFacts
  <2>3. QED
    BY <1>2, <2>1, <2>2 DEF TypeOK
<1>4. ASSUME NEW p \in Processes, Submit(p) PROVE TypeOK'
  <2>1. task[p] # Idle
    BY <1>4 DEF Submit, Idle
  <2>2. task' = [task EXCEPT ![p] = [task[p] EXCEPT !.pc = "waiting"]]
        /\ pool' = pool \cup {task[p].x}
        /\ UNCHANGED <<chain, queue, created, spent, saved, receipt>>
    BY <1>4 DEF Submit
  <2>3. QED
    BY <1>2, <2>1, <2>2, TaskType DEF TypeOK
<1>5. ASSUME NEW p \in Processes, Abandon(p) PROVE TypeOK'
  BY <1>2, <1>5 DEF Abandon, TypeOK
<1>6. ASSUME NEW p \in Processes, WriteReceipt(p) PROVE TypeOK'
  <2>1. receipt' \in [x : Extrinsics, included : 0 .. block, netuid : Netuids,
                      price : Prices \cup {NoPrice}]
    BY <1>6 DEF WriteReceipt, TypeOK
  <2>2. QED
    BY <1>2, <1>6, <2>1 DEF WriteReceipt, TypeOK
<1>7. QED
  BY <1>1, <1>3, <1>4, <1>5, <1>6

\* A block of the chain keeps the types of what it does not change.
LEMMA BlockTypeOK ==
  ASSUME TypeOK, NEW s \in Snapshots, NewBlock(s), UNCHANGED tool,
         pool' \subseteq pool, spent' \in Nat,
         queue' \subseteq [x : Extrinsics, price : Prices, paid : 0 .. block'],
         created' \subseteq [x : Extrinsics, price : Prices, paid : 0 .. block',
                             netuid : Netuids, at : 0 .. block']
  PROVE  TypeOK'
<1>1. block' = block + 1 /\ block' \in 0 .. MaxBlock /\ history' \in [Answering' -> Snapshots]
  BY BlockFacts
<1>2. Extrinsics \subseteq Extrinsics' /\ 0 .. block \subseteq 0 .. block'
  BY <1>1, ExtrinsicsGrow
<1>3. pool' \subseteq Extrinsics'
  BY <1>2 DEF TypeOK
<1>4. task' \in [Processes -> {Idle} \cup [pc : {"signing", "waiting"}, x : Extrinsics']]
  BY <1>2 DEF TypeOK, tool
<1>5. receipt' \in [x : Extrinsics', included : 0 .. block', netuid : Netuids,
                    price : Prices \cup {NoPrice}] \cup {NoReceipt}
  BY <1>2 DEF TypeOK, tool
<1>6. queue' \subseteq [x : Extrinsics', price : Prices, paid : 0 .. block']
  BY <1>2
<1>7. created' \subseteq [x : Extrinsics', price : Prices, paid : 0 .. block',
                          netuid : Netuids, at : 0 .. block']
  BY <1>2
<1>8. QED
  BY <1>1, <1>3, <1>4, <1>5, <1>6, <1>7 DEF TypeOK, tool


-----------------------------------------------------------------------------
\* What the steps do to what is known, in terms the invariants need.

\* A subnet of this coldkey stands in s only if it stood at the head.
OwnStand(s) ==
  \A n \in Netuids :
    s.subnets[n] # NoSubnet /\ s.subnets[n].ours => s.subnets[n] = Head.subnets[n]

\* Most blocks leave the project's hotkeys and funds as they are, up to what
\* others send.
LEMMA QuietBlock ==
  ASSUME TypeOK,
         \/ EmptyBlock \/ Receive
         \/ \E h \in Hotkeys : TakeHotkey(h)
         \/ \E n \in Netuids : ForeignSubnet(n) \/ Dissolve(n)
  PROVE  /\ UNCHANGED <<pool, queue, created, spent, tool>>
         /\ \E s \in Snapshots :
              /\ NewBlock(s) /\ OwnStand(s) /\ s.owned = Head.owned
              /\ s.balance - s.received = Head.balance - Head.received
<1>1. block \in Nat /\ Head \in Snapshots
  BY HeadType
<1>2. /\ Head.price \in Prices /\ Head.price \in Nat
      /\ Head.balance \in Nat /\ Head.received \in Nat /\ Head.owned \in BOOLEAN
      /\ Head.taken \subseteq Hotkeys /\ Head.subnets \in [Netuids -> Subnets \cup {NoSubnet}]
  BY <1>1, SnapshotType
<1> HIDE DEF Head
<1>3. CASE EmptyBlock
  BY <1>1, <1>3 DEF EmptyBlock, OwnStand
<1>4. CASE Receive
  <2> DEFINE r == [Head EXCEPT !.balance = Head.balance + 1]
             s == [r EXCEPT !.received = Head.received + 1]
  <2>1. s = [Head EXCEPT !.balance = @ + 1, !.received = @ + 1]
    BY <1>1 DEF Snapshots
  <2>2. r \in Snapshots /\ r.received = Head.received /\ r.owned = Head.owned
        /\ r.subnets = Head.subnets /\ r.balance = Head.balance + 1
    BY <1>1, <1>2 DEF Snapshots
  <2>3. NewBlock(s)
    BY <1>4, <2>1 DEF Receive
  <2> HIDE DEF r
  <2>4. s \in Snapshots /\ s.owned = Head.owned /\ s.subnets = Head.subnets
        /\ s.balance = Head.balance + 1 /\ s.received = Head.received + 1
    BY <1>2, <2>2 DEF Snapshots
  <2> HIDE DEF s
  <2>5. QED
    BY <1>2, <1>4, <2>3, <2>4 DEF Receive, OwnStand
<1>5. ASSUME NEW h \in Hotkeys, TakeHotkey(h)
      PROVE  \E s \in Snapshots :
               /\ NewBlock(s) /\ OwnStand(s) /\ s.owned = Head.owned
               /\ s.balance - s.received = Head.balance - Head.received
  <2> DEFINE s == [Head EXCEPT !.taken = @ \cup {h}]
  <2>1. s \in Snapshots /\ s.owned = Head.owned /\ s.subnets = Head.subnets
        /\ s.balance = Head.balance /\ s.received = Head.received
    BY <1>1, <1>2 DEF Snapshots
  <2>2. NewBlock(s)
    BY <1>5 DEF TakeHotkey
  <2> HIDE DEF s
  <2>3. QED
    BY <2>1, <2>2 DEF OwnStand
<1>6. ASSUME NEW n \in Netuids, NEW net \in Subnets \cup {NoSubnet},
             net = NoSubnet \/ ~net.ours, NewBlock([Head EXCEPT !.subnets[n] = net])
      PROVE  \E s \in Snapshots :
               /\ NewBlock(s) /\ OwnStand(s) /\ s.owned = Head.owned
               /\ s.balance - s.received = Head.balance - Head.received
  <2> DEFINE s == [Head EXCEPT !.subnets[n] = net]
  <2>1. s.subnets = [Head.subnets EXCEPT ![n] = net] /\ s.owned = Head.owned
        /\ s.balance = Head.balance /\ s.received = Head.received
    BY <1>1 DEF Snapshots
  <2>2. s \in Snapshots
    <3>1. [Head.subnets EXCEPT ![n] = net] \in [Netuids -> Subnets \cup {NoSubnet}]
      BY <1>2
    <3>2. QED
      BY <1>1, <1>2, <3>1 DEF Snapshots
  <2>3. OwnStand(s)
    <3> HIDE DEF s
    <3> QED BY <1>2, <1>6, <2>1 DEF OwnStand
  <2>4. QED
    BY <1>6, <2>1, <2>2, <2>3
<1>7. ASSUME NEW n \in Netuids, ForeignSubnet(n)
      PROVE  \E s \in Snapshots :
               /\ NewBlock(s) /\ OwnStand(s) /\ s.owned = Head.owned
               /\ s.balance - s.received = Head.balance - Head.received
  <2>1. [ours |-> FALSE, at |-> block + 1, locked |-> Head.price] \in Subnets
    BY <1>1, <1>2 DEF Subnets
  <2>2. QED
    BY <1>6, <1>7, <2>1 DEF ForeignSubnet
<1>8. QED
  BY <1>3, <1>4, <1>5, <1>6, <1>7
     DEF EmptyBlock, Receive, TakeHotkey, ForeignSubnet, Dissolve

\* The new block t is s with the subnet n of the registration q.
ShowsOwn(t, s, n, q) ==
  /\ NewBlock(t) /\ t.owned = TRUE /\ t.balance = s.balance /\ t.received = s.received
  /\ t.subnets = [s.subnets EXCEPT
                    ![n] = [ours |-> TRUE, at |-> block + 1, locked |-> q.price]]

\* The block in which a subnet of the coldkey appears.
LEMMA AppearsFacts ==
  ASSUME TypeOK, NEW s \in Snapshots, NEW n \in Netuids,
         NEW q \in [x : Extrinsics, price : Prices, paid : 0 .. block + 1], Appears(q, n, s)
  PROVE  \E t \in Snapshots : ShowsOwn(t, s, n, q)
<1> DEFINE net == [ours |-> TRUE, at |-> block + 1, locked |-> q.price]
           t == [s EXCEPT !.owned = TRUE, !.subnets[n] = net]
<1>1. net \in Subnets
  <2>1. block \in Nat /\ q.price \in Nat
    BY HeadType, ProvisioningAssumption DEF Appears
  <2>2. QED
    BY <2>1 DEF Subnets
<1>2. [s.subnets EXCEPT ![n] = net] \in [Netuids -> Subnets \cup {NoSubnet}]
  BY <1>1, SnapshotType
<1>3. NewBlock(t)
  BY DEF Appears
<1> HIDE DEF net
<1>4. t.owned = TRUE /\ t.balance = s.balance /\ t.received = s.received
      /\ t.subnets = [s.subnets EXCEPT ![n] = net]
  BY DEF Snapshots
<1>5. t \in Snapshots
  BY <1>2 DEF Snapshots
<1>6. QED
  BY <1>3, <1>4, <1>5 DEF net, ShowsOwn


\* An executed extrinsic is paid for at the price of the block and waits, or
\* has its subnet at once.
LEMMA ExecuteFacts ==
  ASSUME TypeOK, NEW x \in pool, Execute(x)
  PROVE  LET q == [x |-> x, price |-> Head.price, paid |-> block + 1]
         IN  /\ UNCHANGED tool /\ pool' = pool \ {x} /\ spent' = spent + Head.price
             /\ q \in [x : Extrinsics, price : Prices, paid : 0 .. block + 1]
             /\ \E s \in Snapshots :
                  /\ s.balance = Head.balance - Head.price /\ s.received = Head.received
                  /\ s.subnets = Head.subnets /\ s.owned = Head.owned
                  /\ \/ NewBlock(s) /\ queue' = queue \cup {q} /\ UNCHANGED created
                     \/ UNCHANGED queue /\ \E n \in Netuids : Appears(q, n, s)
<1> DEFINE q == [x |-> x, price |-> Head.price, paid |-> block + 1]
           s == [Head EXCEPT !.balance = @ - Head.price]
<1>1. block \in Nat /\ Head \in Snapshots /\ Head.price \in Prices /\ Head.price \in Nat
      /\ Head.balance \in Nat /\ Head.balance >= Head.price
  BY HeadType, SnapshotType DEF Execute
<1>2. q \in [x : Extrinsics, price : Prices, paid : 0 .. block + 1]
  BY <1>1 DEF TypeOK
<1>3. /\ UNCHANGED tool /\ pool' = pool \ {x} /\ spent' = spent + Head.price
      /\ \/ NewBlock(s) /\ queue' = queue \cup {q} /\ UNCHANGED created
         \/ UNCHANGED queue /\ \E n \in Netuids : Appears(q, n, s)
  BY DEF Execute
<1> HIDE DEF Head
<1>4. s.balance = Head.balance - Head.price /\ s.received = Head.received
      /\ s.subnets = Head.subnets /\ s.owned = Head.owned
  BY <1>1 DEF Snapshots
<1>5. s \in Snapshots
  BY <1>1 DEF Snapshots
<1> HIDE DEF q, s
<1>6. QED
  BY <1>2, <1>3, <1>4, <1>5 DEF q

\* The steps of the tool.  What becomes known is what a revalidation saw.
LEMMA ToolFacts ==
  ASSUME TypeOK,
         \/ \E b \in Answering : CollectPlan(b)
         \/ \E p \in Processes :
               (\E b \in Answering : Revalidate(p, b)) \/ Submit(p) \/ Abandon(p)
               \/ WriteReceipt(p)
  PROVE  /\ UNCHANGED <<chain, queue, created, spent>> /\ Signed \subseteq Signed'
         /\ \A x \in Known' :
              \/ x \in Known
              \/ \E b \in Answering :
                    /\ x.fresh = b /\ ~history[b].owned
                    /\ x.plan.balance = history[b].balance
                    /\ x.plan.balance <= MAX_CREATION_WALLET_BALANCE
                    /\ x.received = history[b].received
         /\ receipt' = receipt \/ \E c \in created : receipt'.x = c.x
<1>1. ASSUME NEW b \in Answering, CollectPlan(b)
      PROVE  UNCHANGED <<chain, pool, queue, created, spent, task, receipt>>
  BY <1>1 DEF CollectPlan
<1>2. ASSUME NEW p \in Processes, Submit(p) \/ Abandon(p) \/ WriteReceipt(p)
      PROVE  /\ UNCHANGED <<chain, queue, created, spent>> /\ pool \subseteq pool'
             /\ pool' \subseteq pool \cup InFlight /\ InFlight' \subseteq InFlight
  <2>1. UNCHANGED <<chain, queue, created, spent>> /\ task[p] # Idle
    BY <1>2 DEF Submit, Abandon, WriteReceipt, Idle
  <2>2. task[p].x \in InFlight
    BY <2>1 DEF InFlight
  <2>3. \A r \in Processes : task'[r] # Idle => task[r] # Idle /\ task'[r].x = task[r].x
    <3>1. task'[p] # Idle => task'[p].x = task[p].x
      BY <1>2, <2>1, TaskType DEF TypeOK, Submit, Abandon, WriteReceipt
    <3>2. \A r \in Processes : r # p => task'[r] = task[r]
      BY <1>2 DEF TypeOK, Submit, Abandon, WriteReceipt
    <3>3. QED
      BY <2>1, <3>1, <3>2
  <2>4. InFlight' \subseteq InFlight
    BY <2>3 DEF InFlight
  <2>5. pool \subseteq pool' /\ pool' \subseteq pool \cup {task[p].x}
    BY <1>2 DEF Submit, Abandon, WriteReceipt
  <2>6. QED
    BY <2>1, <2>2, <2>4, <2>5
<1>3. ASSUME NEW p \in Processes, NEW b \in Answering, Revalidate(p, b)
      PROVE  /\ UNCHANGED <<chain, pool, queue, created, spent, receipt>>
             /\ \E x : /\ InFlight' \subseteq InFlight \cup {x}
                       /\ x.fresh = b /\ ~history[b].owned
                       /\ x.plan.balance = history[b].balance
                       /\ x.plan.balance <= MAX_CREATION_WALLET_BALANCE
                       /\ x.received = history[b].received
  <2> DEFINE x == [by |-> p, plan |-> saved, fresh |-> b, received |-> history[b].received]
  <2>1. task' = [task EXCEPT ![p] = [pc |-> "signing", x |-> x]]
    BY <1>3, RevalidateFacts
  <2>2. \A r \in Processes : task'[r] = task[r] \/ task'[r].x = x
    BY <2>1 DEF TypeOK
  <2>3. InFlight' \subseteq InFlight \cup {x}
    <3> HIDE DEF x
    <3>1. QED
      BY <2>2 DEF InFlight
  <2>4. x.fresh = b /\ x.received = history[b].received /\ x.plan = saved
    OBVIOUS
  <2>5. ~history[b].owned /\ saved.balance = history[b].balance
        /\ saved.balance <= MAX_CREATION_WALLET_BALANCE
    BY <1>3, RevalidateFacts
  <2>6. UNCHANGED <<chain, pool, queue, created, spent, receipt>>
    BY <1>3 DEF Revalidate
  <2> HIDE DEF x
  <2>7. QED
    BY <2>3, <2>4, <2>5, <2>6
<1>4. ASSUME NEW p \in Processes, WriteReceipt(p) PROVE \E c \in created : receipt'.x = c.x
  BY <1>4 DEF WriteReceipt
<1>5. ASSUME UNCHANGED <<queue, created>>, pool \subseteq pool', pool' \subseteq pool \cup InFlight
      PROVE  Signed \subseteq Signed' /\ Signed' \subseteq Known
  BY <1>5 DEF Signed, Known
<1>6. CASE \E b \in Answering : CollectPlan(b)
  BY <1>1, <1>5, <1>6 DEF Known, InFlight
<1>7. CASE \E p \in Processes : \E b \in Answering : Revalidate(p, b)
  BY <1>3, <1>5, <1>7 DEF Known
<1>8. CASE \E p \in Processes : Submit(p) \/ Abandon(p) \/ WriteReceipt(p)
  BY <1>2, <1>4, <1>5, <1>8 DEF Known, Submit, Abandon
<1>9. QED
  BY <1>6, <1>7, <1>8


-----------------------------------------------------------------------------
\* The inductive invariant, one part per property.

\* A creation is visible at every block since, and no known extrinsic was
\* revalidated at one of them.
Sees ==
  /\ \A c \in created, b \in Answering : c.at <= b => history[b].owned
  /\ \A x \in Known, c \in created : c.at > x.fresh

\* Nothing is signed above the cap; as long as nothing has been spent, what the
\* coldkey holds without what it was sent is what every review saw; and what it
\* has spent since belongs to the same sum as one review.
Funds ==
  /\ \A x \in Known : x.plan.balance <= MAX_CREATION_WALLET_BALANCE
  /\ spent = 0 =>
       /\ \A b \in Answering :
            history[b].balance - history[b].received = Head.balance - Head.received
       /\ \A x \in Known : x.plan.balance - x.received = Head.balance - Head.received
  /\ spent > 0 =>
       \E x \in Signed :
         spent + Head.balance - Head.received = x.plan.balance - x.received

\* The subnets of the coldkey are its creations, and a receipt is of one.
Stands ==
  /\ \A b \in Answering, n \in Netuids :
       history[b].subnets[n] # NoSubnet /\ history[b].subnets[n].ours =>
         \E c \in created :
           /\ c.netuid = n /\ c.at = history[b].subnets[n].at
           /\ c.price = history[b].subnets[n].locked
  /\ receipt # NoReceipt => \E c \in created : c.x = receipt.x
  /\ IsFiniteSet(created)

\* What the coldkey holds of its own at a block, and held at a revalidation.
Own(b)      == history[b].balance - history[b].received
Reviewed(x) == x.plan.balance - x.received

\* The registrations that were paid for.
Paid == queue \cup created

\* What the coldkey holds of its own never grows, and is less by the price of a
\* registration once that is paid for.
Falls ==
  /\ \A a, b \in Answering : a <= b => Own(b) <= Own(a)
  /\ \A x \in Known, b \in Answering : x.fresh <= b => Own(b) <= Reviewed(x)
  /\ \A q \in Paid, b \in Answering : q.paid <= b => Own(b) <= Reviewed(q.x) - q.price
  /\ \A x \in Known, q \in Paid : x.fresh >= q.paid => Reviewed(x) <= Reviewed(q.x) - q.price

IInv == TypeOK /\ Sees /\ Funds /\ Stands /\ Falls

LEMMA KnownType ==
  ASSUME TypeOK
  PROVE  Signed \subseteq Known /\
         \A x \in Known : /\ x.fresh \in Nat /\ x.fresh <= block
                          /\ x.plan.balance \in Nat /\ x.received \in Nat
<1>1. Signed \subseteq Extrinsics
  BY DEF TypeOK, Signed
<1>2. InFlight \subseteq Extrinsics
  BY TaskType DEF InFlight
<1>3. \A x \in Extrinsics : /\ x.fresh \in Nat /\ x.fresh <= block
                            /\ x.plan.balance \in Nat /\ x.received \in Nat
  BY HeadType DEF Extrinsics, Plans
<1>4. QED
  BY <1>1, <1>2, <1>3 DEF Known

LEMMA PaidType ==
  ASSUME TypeOK
  PROVE  \A q \in Paid : /\ q.paid \in Nat /\ q.paid <= block /\ q.price \in Nat
                          /\ q.x \in Known
<1>1. block \in Nat /\ \A price \in Prices : price \in Nat
  BY HeadType, ProvisioningAssumption
<1>2. \A q \in Paid : q.paid \in 0 .. block /\ q.price \in Prices
  BY DEF Paid, TypeOK
<1>3. \A q \in Paid : q.x \in Known
  BY DEF Paid, Known, Signed
<1>4. QED
  BY <1>1, <1>2, <1>3

\* What the coldkey holds of its own, in whole units.
LEMMA OwnType ==
  ASSUME TypeOK
  PROVE  /\ \A b \in Answering : b \in Nat /\ b <= block /\ Own(b) \in Int
         /\ \A x \in Known : Reviewed(x) \in Int
<1>1. ASSUME NEW b \in Answering PROVE b \in Nat /\ b <= block /\ Own(b) \in Int
  <2>1. history[b] \in Snapshots
    BY DEF TypeOK
  <2>2. history[b].balance \in Nat /\ history[b].received \in Nat
    BY <2>1, SnapshotType
  <2>3. QED
    BY <2>2, HeadType DEF Answering, Own
<1>2. \A x \in Known : Reviewed(x) \in Int
  BY KnownType DEF Reviewed
<1>3. QED
  BY <1>1, <1>2

\* The new head is s, but for the price.
LEMMA NewHead ==
  ASSUME TypeOK, NEW s \in Snapshots, NewBlock(s)
  PROVE  /\ Head'.owned = s.owned /\ Head'.balance = s.balance
         /\ Head'.received = s.received /\ Head'.subnets = s.subnets
         /\ Head' = history'[block']
<1>1. Head' = history'[block']
  BY DEF Head
<1>2. PICK price \in Prices : Head' = [s EXCEPT !.price = price]
  BY <1>1, BlockFacts
<1>3. QED
  BY <1>1, <1>2 DEF Snapshots

LEMMA InitIInv == Init => IInv
<1> SUFFICES ASSUME Init PROVE IInv
  OBVIOUS
<1>1. TypeOK
  BY InitTypeOK
<1>2. Known = {} /\ created = {} /\ spent = 0 /\ receipt = NoReceipt /\ block = 0
  BY DEF Init, Known, Signed, InFlight
<1>3. Answering = {0}
  BY <1>2, ProvisioningAssumption DEF Answering
<1>4. \A n \in Netuids : history[0].subnets[n] = NoSubnet
  BY DEF Init
<1>5. IsFiniteSet(created)
  BY <1>2, FS_EmptySet
<1>6. Sees /\ Stands
  BY <1>2, <1>3, <1>4, <1>5 DEF Sees, Stands
<1>7. Funds
  BY <1>2, <1>3 DEF Funds, Head
<1>8. Falls
  <2>1. Paid = {}
    BY DEF Init, Paid
  <2>2. Own(0) \in Int
    BY <1>1, <1>3, OwnType
  <2>3. QED
    BY <1>2, <1>3, <2>1, <2>2 DEF Falls
<1>9. QED
  BY <1>1, <1>6, <1>7, <1>8 DEF IInv

\* A revalidation sees no creation; the other steps of the tool see nothing new.
LEMMA ToolStep ==
  ASSUME IInv,
         \/ \E b \in Answering : CollectPlan(b)
         \/ \E p \in Processes :
               (\E b \in Answering : Revalidate(p, b)) \/ Submit(p) \/ Abandon(p)
               \/ WriteReceipt(p)
  PROVE  IInv'
<1>1. TypeOK' /\ TypeOK
  BY ToolTypeOK DEF IInv
<1>2. UNCHANGED <<block, history, queue, created, spent>> /\ Signed \subseteq Signed'
  BY <1>1, ToolFacts DEF chain
<1>3. Answering' = Answering /\ Head' = Head
  BY <1>2 DEF Answering, Head
<1>4. \A x \in Known' :
        \/ x \in Known
        \/ \E b \in Answering :
              /\ x.fresh = b /\ ~history[b].owned
              /\ x.plan.balance = history[b].balance
              /\ x.plan.balance <= MAX_CREATION_WALLET_BALANCE
              /\ x.received = history[b].received
  BY <1>1, ToolFacts
<1>5. \A b \in Answering : b \in Nat
  BY <1>1, HeadType DEF Answering
<1>6. \A c \in created : c.at \in Nat
  BY <1>1, HeadType DEF TypeOK
<1>7. Sees'
  BY <1>2, <1>3, <1>4, <1>5, <1>6 DEF IInv, Sees
<1>8. Funds'
  BY <1>2, <1>3, <1>4 DEF IInv, Funds
<1>9. Stands'
  <2>1. receipt' # NoReceipt => \E c \in created : c.x = receipt'.x
    BY <1>1, ToolFacts DEF IInv, Stands
  <2>2. QED
    BY <1>2, <1>3, <2>1 DEF IInv, Stands
<1>10. Falls'
  <2>1. /\ Paid' = Paid /\ \A b : Own(b)' = Own(b)
        /\ \A x : Reviewed(x)' = Reviewed(x)
    BY <1>2 DEF Paid, Own, Reviewed
  <2>2. \A x \in Known' : \/ x \in Known
                          \/ x.fresh \in Answering /\ Reviewed(x) = Own(x.fresh)
    BY <1>4 DEF Own, Reviewed
  <2>3. Falls
    BY DEF IInv
  <2>4. \A x \in Known', b \in Answering : x.fresh <= b => Own(b) <= Reviewed(x)
    BY <2>2, <2>3 DEF Falls
  <2>5. \A x \in Known', q \in Paid : x.fresh >= q.paid => Reviewed(x) <= Reviewed(q.x) - q.price
    <3> SUFFICES ASSUME NEW x \in Known', NEW q \in Paid, x.fresh >= q.paid
                 PROVE  Reviewed(x) <= Reviewed(q.x) - q.price
      OBVIOUS
    <3>1. CASE x \in Known
      BY <2>3, <3>1 DEF Falls
    <3>2. CASE x.fresh \in Answering /\ Reviewed(x) = Own(x.fresh)
      <4>1. q.paid <= x.fresh
        BY <1>1, <1>5, <3>2, PaidType
      <4>2. QED
        BY <2>3, <3>2, <4>1 DEF Falls
    <3>3. QED
      BY <2>2, <3>1, <3>2
  <2>6. QED
    BY <1>3, <2>1, <2>3, <2>4, <2>5 DEF Falls
<1>11. QED
  BY <1>1, <1>7, <1>8, <1>9, <1>10 DEF IInv


\* A block at which no hotkey of the project is lost, and whose creations, if
\* any, are visible.
LEMMA SeesBlock ==
  ASSUME TypeOK, Sees, NEW s \in Snapshots, NewBlock(s), Known' \subseteq Known,
         \A c \in created' : c \in created \/ c.at = block + 1,
         s.owned = TRUE \/ (created' = created /\ s.owned = Head.owned)
  PROVE  Sees'
<1>1. /\ block \in Nat /\ block \in Answering /\ block' = block + 1 /\ Head'.owned = s.owned
      /\ Head' = history'[block']
      /\ \A b \in Answering' : b # block' => b \in Answering /\ history'[b] = history[b]
  BY BlockFacts, NewHead, HeadType
<1>2. \A b \in Answering' : b \in Nat /\ b <= block + 1
  BY <1>1 DEF Answering
<1>3. \A c \in created : c.at \in Nat /\ c.at <= block
  BY HeadType DEF TypeOK
<1>4. ASSUME NEW c \in created', NEW b \in Answering', c.at <= b PROVE history'[b].owned
  <2>1. CASE b # block'
    <3>1. c \in created
      BY <1>1, <1>2, <1>4, <2>1
    <3>2. QED
      BY <1>1, <1>4, <2>1, <3>1 DEF Sees
  <2>2. CASE b = block' /\ s.owned = TRUE
    BY <1>1, <2>2
  <2>3. CASE b = block' /\ created' = created /\ s.owned = Head.owned
    BY <1>1, <1>3, <2>3 DEF Sees, Head
  <2>4. QED
    BY <2>1, <2>2, <2>3
<1>5. \A x \in Known', c \in created' : c.at > x.fresh
  BY <1>1, KnownType DEF Sees
<1>6. QED
  BY <1>4, <1>5 DEF Sees

\* A block that spends nothing: what is held less what was sent stays.
LEMMA FundsBlock ==
  ASSUME TypeOK, Funds, NEW s \in Snapshots, NewBlock(s), Known' = Known, Signed' = Signed,
         spent' = spent, s.balance - s.received = Head.balance - Head.received
  PROVE  Funds'
<1>1. /\ block \in Answering
      /\ Head'.balance = s.balance /\ Head'.received = s.received /\ Head' = history'[block']
      /\ \A b \in Answering' : b # block' => b \in Answering /\ history'[b] = history[b]
  BY BlockFacts, NewHead, HeadType
<1>2. /\ Head.balance \in Nat /\ Head.received \in Nat /\ s.balance \in Nat /\ s.received \in Nat
      /\ spent \in Nat
  BY HeadType, SnapshotType DEF TypeOK
<1> HIDE DEF Head
<1>3. \A x \in Known' : x.plan.balance <= MAX_CREATION_WALLET_BALANCE
  BY DEF Funds
<1>4. ASSUME spent' = 0
      PROVE  /\ \A b \in Answering' :
                  history'[b].balance - history'[b].received = Head'.balance - Head'.received
             /\ \A x \in Known' : x.plan.balance - x.received = Head'.balance - Head'.received
  <2>1. /\ \A b \in Answering :
               history[b].balance - history[b].received = Head.balance - Head.received
        /\ \A x \in Known : x.plan.balance - x.received = Head.balance - Head.received
    BY <1>4 DEF Funds
  <2>2. Head'.balance - Head'.received = Head.balance - Head.received
    BY <1>1
  <2>3. \A b \in Answering' :
           history'[b].balance - history'[b].received = Head.balance - Head.received
    BY <1>1, <2>1, <2>2
  <2>4. QED
    BY <2>1, <2>2, <2>3
<1>5. ASSUME spent' > 0
      PROVE  \E x \in Signed' :
               spent' + Head'.balance - Head'.received = x.plan.balance - x.received
  <2>1. PICK x \in Signed :
               spent + Head.balance - Head.received = x.plan.balance - x.received
    BY <1>5 DEF Funds
  <2>2. QED
    BY <1>1, <1>2, <2>1
<1>6. QED
  BY <1>3, <1>4, <1>5 DEF Funds

\* A block in which x is paid for.
LEMMA FundsExecute ==
  ASSUME TypeOK, Funds, NEW s \in Snapshots, NewBlock(s), NEW x \in pool, x \in Signed',
         Known' \subseteq Known, Signed \subseteq Signed', spent' = spent + Head.price,
         s.balance = Head.balance - Head.price, s.received = Head.received
  PROVE  Funds'
<1>1. Head'.balance = s.balance /\ Head'.received = s.received
  BY NewHead
<1>2. /\ Head.balance \in Nat /\ Head.received \in Nat /\ Head.price \in Nat \ {0}
      /\ spent \in Nat
  BY HeadType, SnapshotType DEF TypeOK
<1>3. x \in Known
  BY DEF Known, Signed
<1> HIDE DEF Head
<1>4. \A y \in Known' : y.plan.balance <= MAX_CREATION_WALLET_BALANCE
  BY DEF Funds
<1>5. \E y \in Signed' : spent' + Head'.balance - Head'.received = y.plan.balance - y.received
  <2>1. CASE spent = 0
    <3>1. x.plan.balance - x.received = Head.balance - Head.received
      BY <1>3, <2>1 DEF Funds
    <3>2. QED
      BY <1>1, <1>2, <2>1, <3>1
  <2>2. CASE spent > 0
    <3>1. PICK y \in Signed :
                 spent + Head.balance - Head.received = y.plan.balance - y.received
      BY <2>2 DEF Funds
    <3>2. QED
      BY <1>1, <1>2, <3>1
  <2>3. QED
    BY <1>2, <2>1, <2>2
<1>6. spent' > 0
  BY <1>2
<1>7. QED
  BY <1>2, <1>4, <1>5, <1>6 DEF Funds

\* A block at which the coldkey holds no more of its own than before, and less
\* by the price of a registration that is paid for in it.
LEMMA FallsBlock ==
  ASSUME TypeOK, Falls, NEW s \in Snapshots, NewBlock(s), Known' \subseteq Known,
         s.balance - s.received <= Own(block),
         \A q \in Paid' :
           \/ \E r \in Paid : q.x = r.x /\ q.price = r.price /\ q.paid = r.paid
           \/ /\ q.x \in Known /\ q.paid = block + 1 /\ q.price \in Nat
              /\ s.balance - s.received <= Own(block) - q.price
  PROVE  Falls'
<1>1. PICK now : now = s.balance - s.received
  OBVIOUS
<1>2. /\ block \in Nat /\ block \in Answering /\ block' = block + 1
      /\ \A b \in Answering' : b # block' => b \in Answering /\ Own(b)' = Own(b)
      /\ now \in Int
  BY <1>1, BlockFacts, HeadType, SnapshotType DEF Own
<1>3. ASSUME NEW b \in Answering', b = block + 1 PROVE Own(b)' = now
  BY <1>1, <1>2, <1>3, NewHead DEF Own
<1>4. \A x : Reviewed(x)' = Reviewed(x)
  BY DEF Reviewed
<1>5. \A b \in Answering' : b \in Nat /\ b <= block + 1
  BY <1>2 DEF Answering
<1>6. /\ \A b \in Answering : b \in Nat /\ b <= block /\ Own(b) \in Int
      /\ \A x \in Known : Reviewed(x) \in Int /\ x.fresh \in Nat /\ x.fresh <= block
      /\ \A q \in Paid : q.paid \in Nat /\ q.paid <= block /\ q.price \in Nat /\ q.x \in Known
  BY OwnType, KnownType, PaidType
<1>7. /\ now <= Own(block)
      /\ \A q \in Paid' :
           \/ \E r \in Paid : q.x = r.x /\ q.price = r.price /\ q.paid = r.paid
           \/ q.x \in Known /\ q.paid = block + 1 /\ q.price \in Nat /\ now <= Own(block) - q.price
  BY <1>1
<1>8. \A a, b \in Answering' : a <= b => Own(b)' <= Own(a)'
  <2> SUFFICES ASSUME NEW a \in Answering', NEW b \in Answering', a <= b
               PROVE  Own(b)' <= Own(a)'
    OBVIOUS
  <2>1. CASE b # block + 1
    BY <1>2, <1>5, <2>1 DEF Falls
  <2>2. CASE b = block + 1 /\ a # block + 1
    <3>1. a \in Answering /\ Own(a)' = Own(a) /\ a <= block
      BY <1>2, <1>6, <2>2
    <3>2. Own(block) <= Own(a)
      BY <1>2, <3>1 DEF Falls
    <3>3. QED
      BY <1>2, <1>3, <1>6, <1>7, <2>2, <3>1, <3>2
  <2>3. CASE b = block + 1 /\ a = block + 1
    BY <1>2, <1>3, <2>3
  <2>4. QED
    BY <2>1, <2>2, <2>3
<1>9. \A x \in Known', b \in Answering' : x.fresh <= b => Own(b)' <= Reviewed(x)'
  <2> SUFFICES ASSUME NEW x \in Known, NEW b \in Answering', x.fresh <= b
               PROVE  Own(b)' <= Reviewed(x)
    BY <1>4
  <2>1. CASE b # block + 1
    BY <1>2, <2>1 DEF Falls
  <2>2. CASE b = block + 1
    <3>1. Own(block) <= Reviewed(x)
      BY <1>2, <1>6 DEF Falls
    <3>2. QED
      BY <1>2, <1>3, <1>6, <1>7, <2>2, <3>1
  <2>3. QED
    BY <2>1, <2>2
<1>10. \A q \in Paid', b \in Answering' : q.paid <= b => Own(b)' <= Reviewed(q.x)' - q.price
  <2> SUFFICES ASSUME NEW q \in Paid', NEW b \in Answering', q.paid <= b
               PROVE  Own(b)' <= Reviewed(q.x) - q.price
    BY <1>4
  <2>1. CASE q.x \in Known /\ q.paid = block + 1 /\ q.price \in Nat /\ now <= Own(block) - q.price
    <3>1. b = block + 1
      BY <1>2, <1>5, <2>1
    <3>2. Own(block) <= Reviewed(q.x)
      BY <1>2, <1>6, <2>1 DEF Falls
    <3>3. QED
      BY <1>2, <1>3, <1>6, <2>1, <3>1, <3>2
  <2>2. ASSUME NEW r \in Paid, q.x = r.x, q.price = r.price, q.paid = r.paid
        PROVE  Own(b)' <= Reviewed(q.x) - q.price
    <3>1. CASE b # block + 1
      BY <1>2, <2>2, <3>1 DEF Falls
    <3>2. CASE b = block + 1
      <4>1. Own(block) <= Reviewed(r.x) - r.price
        BY <1>2, <1>6 DEF Falls
      <4>2. QED
        BY <1>2, <1>3, <1>6, <1>7, <2>2, <3>2, <4>1
    <3>3. QED
      BY <3>1, <3>2
  <2>3. QED
    BY <1>7, <2>1, <2>2
<1>11. \A x \in Known', q \in Paid' :
          x.fresh >= q.paid => Reviewed(x)' <= Reviewed(q.x)' - q.price
  <2> SUFFICES ASSUME NEW x \in Known, NEW q \in Paid', x.fresh >= q.paid
               PROVE  Reviewed(x) <= Reviewed(q.x) - q.price
    BY <1>4
  <2>1. q.paid # block + 1
    BY <1>2, <1>6
  <2>2. QED
    BY <1>7, <2>1 DEF Falls
<1>12. QED
  BY <1>8, <1>9, <1>10, <1>11 DEF Falls

\* A block at which a subnet of the coldkey is one that stood or one created.
LEMMA StandsBlock ==
  ASSUME TypeOK, Stands, NEW s \in Snapshots, NewBlock(s), receipt' = receipt,
         created \subseteq created', IsFiniteSet(created'),
         \A n \in Netuids :
           s.subnets[n] # NoSubnet /\ s.subnets[n].ours =>
             \/ s.subnets[n] = Head.subnets[n]
             \/ \E c \in created' : /\ c.netuid = n /\ c.at = s.subnets[n].at
                                    /\ c.price = s.subnets[n].locked
  PROVE  Stands'
<1>1. /\ block \in Answering /\ Head'.subnets = s.subnets /\ Head' = history'[block']
      /\ \A b \in Answering' : b # block' => b \in Answering /\ history'[b] = history[b]
  BY BlockFacts, NewHead, HeadType
<1>2. ASSUME NEW b \in Answering', NEW n \in Netuids,
             history'[b].subnets[n] # NoSubnet, history'[b].subnets[n].ours
      PROVE  \E c \in created' : /\ c.netuid = n /\ c.at = history'[b].subnets[n].at
                                 /\ c.price = history'[b].subnets[n].locked
  <2>1. CASE b # block'
    BY <1>1, <1>2, <2>1 DEF Stands
  <2>2. CASE b = block'
    <3>1. history'[b].subnets[n] = s.subnets[n]
      BY <1>1, <2>2
    <3>2. CASE s.subnets[n] = Head.subnets[n]
      BY <1>1, <1>2, <3>1, <3>2 DEF Stands, Head
    <3>3. QED
      BY <1>2, <3>1, <3>2
  <2>3. QED
    BY <2>1, <2>2
<1>3. QED
  BY <1>2 DEF Stands


LEMMA QuietStep ==
  ASSUME IInv,
         \/ EmptyBlock \/ Receive
         \/ \E h \in Hotkeys : TakeHotkey(h)
         \/ \E n \in Netuids : ForeignSubnet(n) \/ Dissolve(n)
  PROVE  IInv'
<1>1. UNCHANGED <<pool, queue, created, spent, tool>>
  BY QuietBlock DEF IInv
<1>2. PICK s \in Snapshots :
        /\ NewBlock(s) /\ OwnStand(s) /\ s.owned = Head.owned
        /\ s.balance - s.received = Head.balance - Head.received
  BY QuietBlock DEF IInv
<1>3. Known' = Known /\ Signed' = Signed
  BY <1>1 DEF Known, Signed, InFlight, tool
<1>4. TypeOK'
  <2>1. block' = block + 1 /\ block \in Nat
    BY <1>2, HeadType DEF IInv, NewBlock
  <2>2. 0 .. block \subseteq 0 .. block'
    BY <2>1
  <2>3. /\ queue \subseteq [x : Extrinsics, price : Prices, paid : 0 .. block']
        /\ created \subseteq [x : Extrinsics, price : Prices, paid : 0 .. block',
                              netuid : Netuids, at : 0 .. block']
    BY <2>2 DEF IInv, TypeOK
  <2>4. QED
    BY <1>1, <1>2, <2>3, BlockTypeOK DEF IInv, TypeOK
<1>5. Sees'
  BY <1>1, <1>2, <1>3, SeesBlock DEF IInv
<1>6. Funds'
  BY <1>1, <1>2, <1>3, FundsBlock DEF IInv
<1>7. Stands'
  BY <1>1, <1>2, StandsBlock DEF IInv, OwnStand, Stands, tool
<1>8. Falls'
  <2>1. Paid' = Paid
    BY <1>1 DEF Paid
  <2>2. s.balance - s.received <= Own(block)
    <3>1. s.balance - s.received = Own(block)
      BY <1>2 DEF Own, Head
    <3>2. Own(block) \in Int
      BY OwnType, HeadType DEF IInv
    <3>3. QED
      BY <3>1, <3>2
  <2>3. QED
    BY <1>2, <1>3, <2>1, <2>2, FallsBlock DEF IInv
<1>9. QED
  BY <1>4, <1>5, <1>6, <1>7, <1>8 DEF IInv

\* A subnet of the coldkey appears, of a registration q on the state s.
LEMMA AppearsStep ==
  ASSUME IInv, NEW s \in Snapshots, NEW n \in Netuids,
         NEW q \in [x : Extrinsics, price : Prices, paid : 0 .. block + 1], Appears(q, n, s),
         s.subnets = Head.subnets, UNCHANGED tool, Known' \subseteq Known,
         pool' \subseteq pool, spent' \in Nat, queue' \subseteq queue
  PROVE  TypeOK' /\ Sees' /\ Stands'
<1> DEFINE new == [x |-> q.x, price |-> q.price, paid |-> q.paid, netuid |-> n, at |-> block + 1]
           net == [ours |-> TRUE, at |-> block + 1, locked |-> q.price]
<1>1. created' = created \cup {new}
  BY DEF Appears
<1>2. PICK t \in Snapshots :
        /\ NewBlock(t) /\ t.owned = TRUE /\ t.balance = s.balance /\ t.received = s.received
        /\ t.subnets = [s.subnets EXCEPT ![n] = net]
  <2>1. PICK t \in Snapshots : ShowsOwn(t, s, n, q)
    BY AppearsFacts DEF IInv
  <2>2. QED
    BY <2>1 DEF ShowsOwn
<1>3. TypeOK'
  <2>1. block' = block + 1 /\ block \in Nat
    BY <1>2, HeadType DEF IInv, NewBlock
  <2>2. 0 .. block \subseteq 0 .. block' /\ block + 1 \in 0 .. block' /\ q.paid \in 0 .. block'
    BY <2>1
  <2>3. new \in [x : Extrinsics, price : Prices, paid : 0 .. block',
                 netuid : Netuids, at : 0 .. block']
    BY <2>2
  <2> HIDE DEF new
  <2>4. created' \subseteq [x : Extrinsics, price : Prices, paid : 0 .. block',
                            netuid : Netuids, at : 0 .. block']
    BY <1>1, <2>2, <2>3 DEF IInv, TypeOK
  <2>5. queue' \subseteq [x : Extrinsics, price : Prices, paid : 0 .. block']
    BY <2>2 DEF IInv, TypeOK
  <2>6. QED
    BY <1>2, <2>4, <2>5, BlockTypeOK DEF IInv
<1>4. new.at = block + 1 /\ new.netuid = n /\ new.price = q.price
  OBVIOUS
<1>5. net.at = block + 1 /\ net.locked = q.price
  OBVIOUS
<1> HIDE DEF new, net
<1>6. Sees'
  BY <1>1, <1>2, <1>4, SeesBlock DEF IInv
<1>7. Stands'
  <2>1. IsFiniteSet(created')
    BY <1>1, FS_AddElement DEF IInv, Stands
  <2>2. \A k \in Netuids : k # n => t.subnets[k] = Head.subnets[k]
    BY <1>2, SnapshotType
  <2>3. t.subnets[n] = net
    BY <1>2, SnapshotType
  <2>4. \A k \in Netuids :
           \/ t.subnets[k] = Head.subnets[k]
           \/ \E c \in created' : /\ c.netuid = k /\ c.at = t.subnets[k].at
                                  /\ c.price = t.subnets[k].locked
    BY <1>1, <1>4, <1>5, <2>2, <2>3
  <2>5. QED
    BY <1>1, <1>2, <2>1, <2>4, StandsBlock DEF IInv, tool
<1>8. QED
  BY <1>3, <1>6, <1>7

\* It is the creation of the registration's extrinsic, at what it cost.
LEMMA AppearsCreates ==
  ASSUME NEW s, NEW n, NEW q, Appears(q, n, s)
  PROVE  \E c : /\ created' = created \cup {c}
                /\ c.x = q.x /\ c.price = q.price /\ c.paid = q.paid
<1> DEFINE new == [x |-> q.x, price |-> q.price, paid |-> q.paid, netuid |-> n, at |-> block + 1]
<1>1. /\ created' = created \cup {new}
      /\ new.x = q.x /\ new.price = q.price /\ new.paid = q.paid
  BY DEF Appears
<1>2. QED
  BY <1>1

LEMMA ExecuteStep ==
  ASSUME IInv, NEW x \in pool, Execute(x)
  PROVE  IInv'
<1> DEFINE q == [x |-> x, price |-> Head.price, paid |-> block + 1]
<1>1. /\ UNCHANGED tool /\ pool' = pool \ {x} /\ spent' = spent + Head.price
      /\ q \in [x : Extrinsics, price : Prices, paid : 0 .. block + 1]
  BY ExecuteFacts DEF IInv
<1>2. PICK s \in Snapshots :
        /\ s.balance = Head.balance - Head.price /\ s.received = Head.received
        /\ s.subnets = Head.subnets /\ s.owned = Head.owned
        /\ \/ NewBlock(s) /\ queue' = queue \cup {q} /\ UNCHANGED created
           \/ UNCHANGED queue /\ \E n \in Netuids : Appears(q, n, s)
  BY ExecuteFacts DEF IInv
<1>3. spent' \in Nat
  BY <1>1, HeadType, SnapshotType DEF IInv, TypeOK
<1>4. q.x = x /\ q.price = Head.price /\ q.paid = block + 1
  OBVIOUS
<1> HIDE DEF q
<1>5. ASSUME NEW t \in Snapshots, NewBlock(t), t.balance = s.balance, t.received = s.received,
             NEW c, c.x = x, c.price = q.price, c.paid = q.paid, Paid' = Paid \cup {c},
             Known' = Known
      PROVE  Falls'
  <2>1. /\ Head.balance \in Nat /\ Head.received \in Nat /\ Head.price \in Nat
        /\ Own(block) = Head.balance - Head.received
    BY HeadType, SnapshotType DEF IInv, Own, Head
  <2> HIDE DEF Head
  <2>2. t.balance - t.received = Own(block) - c.price /\ c.price \in Nat /\ Own(block) \in Int
    BY <1>2, <1>4, <1>5, <2>1
  <2>3. t.balance - t.received <= Own(block) /\ t.balance - t.received <= Own(block) - c.price
    BY <2>2
  <2>4. x \in Known /\ c.paid = block + 1
    BY <1>4, <1>5 DEF Known, Signed
  <2>5. QED
    BY <1>5, <2>2, <2>3, <2>4, FallsBlock DEF IInv
<1>6. CASE NewBlock(s) /\ queue' = queue \cup {q} /\ UNCHANGED created
  <2>1. Signed' = Signed
    BY <1>1, <1>4, <1>6 DEF Signed
  <2>2. Known' = Known /\ x \in Signed'
    BY <1>1, <2>1 DEF Known, Signed, InFlight, tool
  <2>3. TypeOK'
    <3>1. block' = block + 1 /\ block \in Nat
      BY <1>6, HeadType DEF IInv, NewBlock
    <3>2. 0 .. block \subseteq 0 .. block'
      BY <3>1
    <3>3. /\ queue' \subseteq [x : Extrinsics, price : Prices, paid : 0 .. block']
          /\ created' \subseteq [x : Extrinsics, price : Prices, paid : 0 .. block',
                                 netuid : Netuids, at : 0 .. block']
      BY <1>1, <1>6, <3>1, <3>2 DEF IInv, TypeOK
    <3>4. pool' \subseteq pool
      BY <1>1
    <3>5. QED
      BY <1>1, <1>3, <1>6, <3>3, <3>4, BlockTypeOK DEF IInv
  <2>4. Sees'
    BY <1>2, <1>6, <2>2, SeesBlock DEF IInv
  <2>5. Funds'
    BY <1>1, <1>2, <1>6, <2>1, <2>2, FundsExecute DEF IInv
  <2>6. Stands'
    BY <1>1, <1>2, <1>6, StandsBlock DEF IInv, Stands, tool
  <2>7. Falls'
    <3>1. Paid' = Paid \cup {q}
      BY <1>6 DEF Paid
    <3>2. QED
      BY <1>4, <1>5, <1>6, <2>2, <3>1
  <2>8. QED
    BY <2>3, <2>4, <2>5, <2>6, <2>7 DEF IInv
<1>7. ASSUME NEW n \in Netuids, UNCHANGED queue, Appears(q, n, s)
      PROVE  IInv'
  <2>1. PICK c : created' = created \cup {c} /\ c.x = x /\ c.price = q.price /\ c.paid = q.paid
    BY <1>4, <1>7, AppearsCreates
  <2>2. Signed' = Signed
    BY <1>1, <1>7, <2>1 DEF Signed
  <2>3. Known' = Known /\ x \in Signed'
    BY <1>1, <2>2 DEF Known, Signed, InFlight, tool
  <2>4. TypeOK' /\ Sees' /\ Stands'
    BY <1>1, <1>2, <1>3, <1>7, <2>3, AppearsStep
  <2>5. PICK t \in Snapshots :
          NewBlock(t) /\ t.balance = s.balance /\ t.received = s.received
    BY <1>1, <1>7, AppearsFacts DEF IInv, ShowsOwn
  <2>6. Funds'
    BY <1>1, <1>2, <2>2, <2>3, <2>5, FundsExecute DEF IInv
  <2>7. Falls'
    <3>1. Paid' = Paid \cup {c}
      BY <1>7, <2>1 DEF Paid
    <3>2. QED
      BY <1>5, <2>1, <2>3, <2>5, <3>1
  <2>8. QED
    BY <2>4, <2>6, <2>7 DEF IInv
<1>8. QED
  BY <1>2, <1>6, <1>7

LEMMA ActivateStep ==
  ASSUME IInv, NEW q \in queue, Activate(q)
  PROVE  IInv'
<1>1. PICK n \in Netuids : Appears(q, n, Head)
  BY DEF Activate
<1>2. queue' = queue \ {q} /\ UNCHANGED <<pool, spent, tool>>
  BY DEF Activate
<1>3. q \in [x : Extrinsics, price : Prices, paid : 0 .. block + 1] /\ Head \in Snapshots
  <2>1. q \in [x : Extrinsics, price : Prices, paid : 0 .. block] /\ block \in Nat
    BY HeadType DEF IInv, TypeOK
  <2>2. QED
    BY <2>1, HeadType DEF IInv
<1>4. PICK c : created' = created \cup {c} /\ c.x = q.x /\ c.price = q.price /\ c.paid = q.paid
  BY <1>1, AppearsCreates
<1>5. Signed' = Signed
  BY <1>2, <1>4 DEF Signed
<1>6. Known' = Known
  BY <1>2, <1>5 DEF Known, InFlight, tool
<1>7. TypeOK' /\ Sees' /\ Stands'
  BY <1>1, <1>2, <1>3, <1>6, AppearsStep DEF IInv, TypeOK
<1>8. PICK t \in Snapshots :
        NewBlock(t) /\ t.balance = Head.balance /\ t.received = Head.received
  BY <1>1, <1>3, AppearsFacts DEF IInv, ShowsOwn
<1>9. Funds'
  BY <1>2, <1>5, <1>6, <1>8, FundsBlock DEF IInv
<1>10. Falls'
  <2>1. Paid' \subseteq Paid \cup {c} /\ q \in Paid
    BY <1>2, <1>4 DEF Paid
  <2>2. \A d \in Paid' : \E r \in Paid : d.x = r.x /\ d.price = r.price /\ d.paid = r.paid
    BY <1>4, <2>1
  <2>3. t.balance - t.received = Own(block) /\ Own(block) \in Int
    BY <1>8, OwnType, HeadType DEF IInv, Own, Head
  <2>4. t.balance - t.received <= Own(block)
    BY <2>3
  <2>5. QED
    BY <1>6, <1>8, <2>2, <2>4, FallsBlock DEF IInv
<1>11. QED
  BY <1>7, <1>9, <1>10 DEF IInv

\* Every step keeps the invariant.
LEMMA NextIInv == IInv /\ [Next]_vars => IInv'
<1> SUFFICES ASSUME IInv, [Next]_vars PROVE IInv'
  OBVIOUS
<1>1. CASE UNCHANGED vars
  BY <1>1 DEF vars, chain, tool, IInv, TypeOK, Sees, Funds, Stands, Falls, Paid, Own, Reviewed, Answering, Extrinsics, Known,
              Signed, InFlight, Head
<1>2. QED
  BY <1>1, ToolStep, QuietStep, ExecuteStep, ActivateStep DEF Next

-----------------------------------------------------------------------------
\* Every reachable state is well typed; in particular whatever is signed was
\* revalidated at most --max-plan-age-blocks after its plan's block, and never
\* before it, although nodes may be behind.
THEOREM TypeCorrect == Spec => []TypeOK
<1>1. IInv => TypeOK
  BY DEF IInv
<1>2. QED
  BY <1>1, InitIInv, NextIInv, PTL DEF Spec

\* What is signed after a registration was paid for was revalidated while that
\* registration waited in the queue, and not for the plan it was paid for, unless
\* others sent the coldkey in between what was paid: for any prices and funds, any
\* number of invocations, kills and reruns, and any lag of the nodes.
THEOREM RerunsAfterPayment == Spec => []SignedAfterPayment
<1>1. ASSUME IInv PROVE SignedAfterPayment
  <2> SUFFICES ASSUME NEW x \in Signed, NEW q \in queue \cup created, x.fresh >= q.paid
               PROVE  /\ q \in created => x.fresh < q.at
                      /\ x.plan = q.x.plan => x.received - q.x.received >= q.price
    BY DEF SignedAfterPayment
  <2>1. x \in Known /\ q \in Paid
    BY DEF Known, Paid
  <2>2. q \in created => x.fresh < q.at
    <3>1. ASSUME q \in created PROVE x.fresh < q.at
      <4>1. q.at > x.fresh
        BY <1>1, <2>1, <3>1 DEF IInv, Sees
      <4>2. q.at \in Nat /\ x.fresh \in Nat
        BY <1>1, <2>1, <3>1, HeadType, KnownType DEF IInv, TypeOK
      <4>3. QED
        BY <4>1, <4>2
    <3>2. QED
      BY <3>1
  <2>3. ASSUME x.plan = q.x.plan PROVE x.received - q.x.received >= q.price
    <3>1. x.plan.balance - x.received <= q.x.plan.balance - q.x.received - q.price
      BY <1>1, <2>1 DEF IInv, Falls, Reviewed
    <3>2. /\ x.plan.balance \in Nat /\ x.received \in Nat /\ q.x.received \in Nat
          /\ q.price \in Nat /\ q.x.plan.balance = x.plan.balance
      BY <1>1, <2>1, <2>3, KnownType, PaidType DEF IInv
    <3>3. QED
      BY <3>1, <3>2
  <2>4. QED
    BY <2>2, <2>3
<1>2. QED
  BY <1>1, InitIInv, NextIInv, PTL DEF Spec

\* All creations together never cost more than the cap on the creation wallet
\* and what was sent to it, whatever the prices become.
THEOREM ExposureStaysBounded == Spec => []ExposureBounded
<1>1. ASSUME IInv PROVE ExposureBounded
  <2> SUFFICES ASSUME spent > 0
               PROVE  \E x \in Signed :
                        spent <= MAX_CREATION_WALLET_BALANCE + Head.received - x.received
    BY DEF ExposureBounded
  <2>1. PICK x \in Signed :
          spent + Head.balance - Head.received = x.plan.balance - x.received
    BY <1>1 DEF IInv, Funds
  <2>2. x.plan.balance <= MAX_CREATION_WALLET_BALANCE
    BY <1>1, KnownType DEF IInv, Funds
  <2>3. /\ Head.balance \in Nat /\ Head.received \in Nat /\ spent \in Nat
        /\ x.plan.balance \in Nat /\ x.received \in Nat
        /\ MAX_CREATION_WALLET_BALANCE \in Nat
    BY <1>1, HeadType, SnapshotType, KnownType, ProvisioningAssumption DEF IInv, TypeOK
  <2> HIDE DEF Head
  <2>4. QED
    BY <2>1, <2>2, <2>3
<1>2. QED
  BY <1>1, InitIInv, NextIInv, PTL DEF Spec

\* A readback that is ready names a creation of this project, the receipt's own
\* if there is only one, at any block that any node answers at.
THEOREM EvidenceIsOfACreation == Spec => []EvidenceNamesCreation
<1>1. ASSUME IInv PROVE EvidenceNamesCreation
  <2> SUFFICES ASSUME NEW b \in Answering, receipt # NoReceipt, ReadbackReady(receipt, b)
               PROVE  \E c \in created :
                        /\ c.netuid = receipt.netuid
                        /\ c.at = history[b].subnets[c.netuid].at
                        /\ receipt.x.plan.block <= c.at /\ c.at <= b
                        /\ receipt.price \in {NoPrice, c.price}
                        /\ Cardinality(created) = 1 => c.x = receipt.x
    BY DEF EvidenceNamesCreation
  <2> DEFINE net == history[b].subnets[receipt.netuid]
  <2>1. receipt.netuid \in Netuids /\ net # NoSubnet /\ net.ours
        /\ receipt.x.plan.block <= net.at /\ net.at <= b
        /\ receipt.price \in {NoPrice, net.locked}
    BY DEF ReadbackReady, ValidReceipt
  <2>2. PICK c \in created : c.netuid = receipt.netuid /\ c.at = net.at /\ c.price = net.locked
    BY <1>1, <2>1 DEF IInv, Stands
  <2>3. ASSUME Cardinality(created) = 1 PROVE c.x = receipt.x
    <3>1. PICK d \in created : d.x = receipt.x
      BY <1>1 DEF IInv, Stands
    <3>2. \E e : created = {e}
      BY <1>1, <2>3, FS_Singleton DEF IInv, Stands
    <3>3. QED
      BY <3>1, <3>2
  <2>4. QED
    BY <2>1, <2>2, <2>3
<1>2. QED
  BY <1>1, InitIInv, NextIInv, PTL DEF Spec

=============================================================================
