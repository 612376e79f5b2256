------------------------ MODULE MinerService_proofs ------------------------
(***************************************************************************)
(* Proofs, for any requests, handlers, limits and clock, of the safety     *)
(* properties of MinerService.                                             *)
(*                                                                         *)
(* The arguments: a handler is counted by pending_strategies exactly while *)
(* it is inside execute_strategy; only a handler that passed the checks is *)
(* ever inside; a strategy thread outlives its handler only by a timeout;  *)
(* and a request that has got past the nonce store is either still stored  *)
(* there or too old to be fresh, so no second handler gets past it.        *)
(***************************************************************************)
EXTENDS MinerService, FiniteSetTheorems, TLAPS

Inside   == {"waiting", "queued", "running", "finished"}
Holding  == {"queued", "running", "finished"}

-----------------------------------------------------------------------------
\* Where the handlers are.

\* A handler that moves joins the sets of its new step and leaves the others.
LEMMA Moves ==
  ASSUME TypeOK, NEW h \in Handlers, NEW step \in Steps, Goto(h, step)
  PROVE  /\ pc' \in [Handlers -> Steps]
         /\ InService' = IF step \in Inside THEN InService \cup {h} ELSE InService \ {h}
         /\ SlotsHeld' = IF step \in Holding THEN SlotsHeld \cup {h} ELSE SlotsHeld \ {h}
<1>1. pc' = [pc EXCEPT ![h] = step] /\ pc \in [Handlers -> Steps]
  BY DEF Goto, TypeOK
<1>2. \A k \in Handlers : pc'[k] = IF k = h THEN step ELSE pc[k]
  BY <1>1
<1>3. pc' \in [Handlers -> Steps]
  BY <1>1
<1>4. InService' = IF step \in Inside THEN InService \cup {h} ELSE InService \ {h}
  BY <1>2 DEF InService, Inside
<1>5. SlotsHeld' = IF step \in Holding THEN SlotsHeld \cup {h} ELSE SlotsHeld \ {h}
  BY <1>2 DEF SlotsHeld, Holding
<1>6. QED
  BY <1>3, <1>4, <1>5

\* Cardinalities of sets of handlers.
LEMMA Counting ==
  ASSUME NEW S \in SUBSET Handlers, NEW h
  PROVE  /\ IsFiniteSet(S) /\ Cardinality(S) \in Nat
         /\ h \notin S => Cardinality(S \cup {h}) = Cardinality(S) + 1
         /\ h \in S => Cardinality(S \ {h}) = Cardinality(S) - 1 /\ Cardinality(S) > 0
         /\ h \in S => S \cup {h} = S
         /\ h \notin S => S \ {h} = S
<1>1. IsFiniteSet(S)
  BY MinerAssumption, FS_Subset
<1>2. Cardinality(S) \in Nat
  BY <1>1, FS_CardinalityType
<1>3. h \notin S => Cardinality(S \cup {h}) = Cardinality(S) + 1
  BY <1>1, FS_AddElement
<1>4. h \in S => Cardinality(S \ {h}) = Cardinality(S) - 1
  BY <1>1, FS_RemoveElement
<1>5. h \in S => Cardinality(S \ {h}) \in Nat
  BY <1>1, FS_RemoveElement, FS_CardinalityType
<1>6. QED
  BY <1>1, <1>2, <1>3, <1>4, <1>5

LEMMA SetTypes ==
  /\ InService \in SUBSET Handlers /\ SlotsHeld \in SUBSET Handlers
  /\ SlotsHeld \subseteq InService /\ Executing \subseteq SlotsHeld
BY DEF InService, SlotsHeld, Executing

\* pending_strategies and the semaphore.
Counts == PendingExact /\ Cardinality(SlotsHeld) <= MaxConcurrent

\* A handler that ends, wherever it was, gives back what it holds.
LEMMA EndCounts ==
  ASSUME TypeOK, Counts, NEW h \in Handlers, Goto(h, "idle"),
         pending' = IF h \in InService THEN pending - 1 ELSE pending
  PROVE  Counts' /\ pending' \in Nat
<1>1. "idle" \in Steps /\ "idle" \notin Inside /\ "idle" \notin Holding
  BY DEF Steps, Inside, Holding
<1>2. InService' = InService \ {h} /\ SlotsHeld' = SlotsHeld \ {h}
  BY <1>1, Moves
<1> DEFINE I == InService
           H == SlotsHeld
<1>3. I \in SUBSET Handlers /\ H \in SUBSET Handlers
  BY SetTypes
<1>4. /\ pending = Cardinality(I) /\ pending <= MaxPending /\ MaxPending \in Nat
      /\ pending' = IF h \in I THEN pending - 1 ELSE pending
  BY MinerAssumption DEF Counts, PendingExact
<1>5. Cardinality(H) <= MaxConcurrent /\ MaxConcurrent \in Nat
  BY MinerAssumption DEF Counts
<1> HIDE DEF I, H
<1>6. pending' = Cardinality(I \ {h}) /\ pending' \in Nat /\ pending' <= MaxPending
  <2>1. Cardinality(I) \in Nat
    BY <1>3, Counting
  <2>2. h \in I => Cardinality(I \ {h}) = Cardinality(I) - 1 /\ Cardinality(I) > 0
    BY <1>3, Counting
  <2>3. h \notin I => I \ {h} = I
    OBVIOUS
  <2>4. QED
    BY <1>4, <2>1, <2>2, <2>3
<1>7. Cardinality(H \ {h}) <= MaxConcurrent
  BY <1>3, <1>5, Counting
<1>8. QED
  BY <1>2, <1>6, <1>7 DEF Counts, PendingExact, I, H

\* A handler that moves on inside, or before, execute_strategy.
LEMMA MoveCounts ==
  ASSUME TypeOK, Counts, NEW h \in Handlers, NEW step \in Steps, Goto(h, step),
         step \in Inside <=> h \in InService, step \in Holding <=> h \in SlotsHeld
  PROVE  InService' = InService /\ SlotsHeld' = SlotsHeld
BY Moves, SetTypes DEF Counts

-----------------------------------------------------------------------------
\* Types and counts.

LEMMA VerdictType ==
  ASSUME NEW q \in Requests
  PROVE  CheckVerdict(q) \in Refusals \cup {"admitted"}
BY MinerAssumption DEF CheckVerdict, Refusals

LEMMA AfterType ==
  ASSUME TypeOK, NEW q \in Requests, NEW value \in Results
  PROVE  AfterStrategy(q, value) \in Reply
<1>1. \A code \in Refusals : Refusal(q, code) \in Reply
  BY DEF Refusal, Reply
<1>2. Signed(q, clock) \in Reply
  BY DEF Signed, Reply, TypeOK
<1>3. value # "bundle" => value \in Refusals
  BY DEF Results, Refusals
<1>4. {"request_expired_after_strategy", "task_deadline_elapsed_after_strategy",
       "response_cannot_predate_request"} \subseteq Refusals
  BY DEF Refusals
<1>5. value = "raises" => value # "bundle"
  OBVIOUS
<1> HIDE DEF Refusal, Signed, Reply, Refusals
<1>6. QED
  BY <1>1, <1>2, <1>3, <1>4, <1>5 DEF AfterStrategy

\* A reply leaves the handler idle.
LEMMA AnswerType ==
  ASSUME TypeOK, NEW h \in Handlers, NEW reply \in Reply, Answer(h, reply)
  PROVE  /\ Goto(h, "idle") /\ replies' = replies \cup {reply} /\ replies' \subseteq Reply
         /\ req' \in [Handlers -> Requests] /\ result' \in [Handlers -> Results]
         /\ pc' \in [Handlers -> Steps]
<1>1. AnyRequest \in Requests
  BY MinerAssumption DEF AnyRequest
<1>2. Goto(h, "idle") /\ replies' = replies \cup {reply}
  BY DEF Answer
<1>3. pc' \in [Handlers -> Steps]
  BY <1>2 DEF Goto, Steps, TypeOK
<1>4. req' \in [Handlers -> Requests] /\ result' \in [Handlers -> Results]
  BY <1>1 DEF Answer, TypeOK, Results
<1>5. QED
  BY <1>2, <1>3, <1>4 DEF TypeOK

Base == TypeOK /\ Counts

\* A step that moves no handler.
LEMMA StillBase ==
  ASSUME Base, UNCHANGED <<pc, pending>>, TypeOK'
  PROVE  Base'
<1>1. InService' = InService /\ SlotsHeld' = SlotsHeld
  BY DEF InService, SlotsHeld
<1>2. QED
  BY <1>1 DEF Base, Counts, PendingExact

\* A handler moves without entering or leaving the counted sets.
LEMMA MoveBase ==
  ASSUME Base, NEW h \in Handlers, NEW step \in Steps, Goto(h, step), pending' = pending,
         step \in Inside <=> h \in InService, step \in Holding <=> h \in SlotsHeld,
         clock' = clock, nonces' \subseteq Requests, req' \in [Handlers -> Requests],
         result' \in [Handlers -> Results], orphans' \subseteq Requests,
         started' \in [Requests -> Nat], replies' = replies, deliveries' \in Nat
  PROVE  Base'
<1>1. InService' = InService /\ SlotsHeld' = SlotsHeld /\ pc' \in [Handlers -> Steps]
  BY MoveCounts, Moves DEF Base
<1>2. Counts'
  BY <1>1 DEF Base, Counts, PendingExact
<1>3. TypeOK'
  BY <1>1 DEF Base, TypeOK
<1>4. QED
  BY <1>2, <1>3 DEF Base

\* A handler answers.
LEMMA AnswerBase ==
  ASSUME Base, NEW h \in Handlers, NEW reply \in Reply, Answer(h, reply),
         pending' = IF h \in InService THEN pending - 1 ELSE pending,
         nonces' \subseteq Requests, orphans' \subseteq Requests,
         UNCHANGED <<clock, started, deliveries>>
  PROVE  Base'
<1>1. /\ Goto(h, "idle") /\ replies' \subseteq Reply /\ req' \in [Handlers -> Requests]
      /\ result' \in [Handlers -> Results] /\ pc' \in [Handlers -> Steps]
  BY AnswerType DEF Base
<1>2. Counts' /\ pending' \in Nat
  BY <1>1, EndCounts DEF Base
<1>3. TypeOK'
  BY <1>1, <1>2 DEF Base, TypeOK
<1>4. QED
  BY <1>2, <1>3 DEF Base

LEMMA RefusalType ==
  ASSUME NEW q \in Requests, NEW code \in Refusals
  PROVE  Refusal(q, code) \in Reply
BY DEF Refusal, Reply

LEMMA Codes ==
  /\ BeforeNonce \subseteq Refusals
  /\ {"auth_stale", "auth_replayed", "strategy_queue_full", "request_expired",
      "strategy_deadline_elapsed"} \subseteq Refusals
BY DEF Refusals

LEMMA DeliverBase ==
  ASSUME Base, NEW h \in Handlers, NEW q \in Requests, Deliver(h, q)
  PROVE  Base'
<1>1. pc[h] = "idle" /\ Goto(h, "reading") /\ req' = [req EXCEPT ![h] = q]
      /\ deliveries' = deliveries + 1
      /\ UNCHANGED <<clock, nonces, result, pending, orphans, started, replies>>
  BY DEF Deliver
<1>2. h \notin InService /\ h \notin SlotsHeld /\ "reading" \notin Inside
      /\ "reading" \notin Holding /\ "reading" \in Steps
  BY <1>1 DEF InService, SlotsHeld, Inside, Holding, Steps
<1>3. QED
  BY <1>1, <1>2, MoveBase DEF Base, TypeOK

\* A handler before execute_strategy: it goes on there, or refuses.
LEMMA EarlyBase ==
  ASSUME Base, NEW h \in Handlers, Authenticate(h) \/ Check(h)
  PROVE  Base'
<1>1. /\ pc[h] \in {"reading", "authorizing"} /\ req[h] \in Requests
      /\ nonces' \subseteq Requests
      /\ UNCHANGED <<clock, pending, orphans, started, deliveries>>
  BY DEF Authenticate, Check, FreshNonces, Base, TypeOK
<1>2. h \notin InService /\ h \notin SlotsHeld
  BY <1>1 DEF InService, SlotsHeld
<1>3. \/ \E step \in {"authorizing", "admitting"} :
            Goto(h, step) /\ UNCHANGED <<req, replies, result>>
      \/ \E code \in Refusals : Answer(h, Refusal(req[h], code))
  <2>1. CASE Authenticate(h)
    BY <2>1, Codes DEF Authenticate
  <2>2. CASE Check(h)
    BY <1>1, <2>2, VerdictType DEF Check
  <2>3. QED
    BY <2>1, <2>2
<1>4. CASE \E step \in {"authorizing", "admitting"} :
             Goto(h, step) /\ UNCHANGED <<req, replies, result>>
  <2>1. PICK step \in {"authorizing", "admitting"} :
           Goto(h, step) /\ UNCHANGED <<req, replies, result>>
    BY <1>4
  <2>2. step \in Steps /\ step \notin Inside /\ step \notin Holding
    BY DEF Steps, Inside, Holding
  <2>3. QED
    BY <1>1, <1>2, <2>1, <2>2, MoveBase DEF Base, TypeOK
<1>5. CASE \E code \in Refusals : Answer(h, Refusal(req[h], code))
  BY <1>1, <1>2, <1>5, RefusalType, AnswerBase DEF Base, TypeOK
<1>6. QED
  BY <1>3, <1>4, <1>5

LEMMA AdmitBase ==
  ASSUME Base, NEW h \in Handlers, Admit(h)
  PROVE  Base'
<1>1. /\ pc[h] = "admitting" /\ req[h] \in Requests
      /\ UNCHANGED <<clock, nonces, orphans, started, deliveries>>
  BY DEF Admit, Base, TypeOK
<1>2. h \notin InService /\ h \notin SlotsHeld
  BY <1>1 DEF InService, SlotsHeld
<1>3. CASE \E code \in Refusals : Answer(h, Refusal(req[h], code)) /\ UNCHANGED pending
  BY <1>1, <1>2, <1>3, RefusalType, AnswerBase DEF Base, TypeOK
<1>4. CASE /\ pending < MaxPending /\ pending' = pending + 1 /\ Goto(h, "waiting")
           /\ UNCHANGED <<req, replies, result>>
  <2>1. "waiting" \in Steps /\ "waiting" \in Inside /\ "waiting" \notin Holding
    BY DEF Steps, Inside, Holding
  <2>2. /\ InService' = InService \cup {h} /\ SlotsHeld' = SlotsHeld \ {h}
        /\ pc' \in [Handlers -> Steps]
    BY <1>4, <2>1, Moves DEF Base
  <2> DEFINE I == InService
  <2>3. SlotsHeld' = SlotsHeld /\ I \in SUBSET Handlers /\ h \notin I /\ InService' = I \cup {h}
    BY <1>2, <2>2, SetTypes
  <2>4. pending = Cardinality(I) /\ pending \in Nat /\ MaxPending \in Nat
    BY MinerAssumption DEF Base, TypeOK, Counts, PendingExact
  <2> HIDE DEF I
  <2>5. Cardinality(I \cup {h}) = pending + 1
    BY <2>3, <2>4, Counting
  <2>6. Counts'
    BY <1>4, <2>3, <2>4, <2>5 DEF Base, Counts, PendingExact
  <2>7. TypeOK'
    BY <1>1, <1>4, <2>2, <2>4 DEF Base, TypeOK
  <2>8. QED
    BY <2>6, <2>7 DEF Base
<1>5. QED
  BY <1>3, <1>4, Codes DEF Admit

LEMMA AcquireBase ==
  ASSUME Base, NEW h \in Handlers, AcquireSlot(h)
  PROVE  Base'
<1>1. /\ pc[h] = "waiting" /\ req[h] \in Requests /\ started' \in [Requests -> Nat]
      /\ UNCHANGED <<clock, nonces, req, result, pending, orphans, replies, deliveries>>
  BY DEF AcquireSlot, Base, TypeOK
<1>2. PICK step \in {"queued", "running"} : Goto(h, step)
  BY DEF AcquireSlot
<1>3. step \in Steps /\ step \in Inside /\ step \in Holding
  BY DEF Steps, Inside, Holding
<1>4. h \in InService /\ h \notin SlotsHeld
  BY <1>1 DEF InService, SlotsHeld
<1>5. InService' = InService /\ SlotsHeld' = SlotsHeld \cup {h} /\ pc' \in [Handlers -> Steps]
  BY <1>2, <1>3, <1>4, Moves DEF Base
<1> DEFINE H == SlotsHeld
<1>6. /\ H \in SUBSET Handlers /\ h \notin H /\ SlotsHeld' = H \cup {h}
      /\ Cardinality(H) < MaxConcurrent /\ MaxConcurrent \in Nat
  BY <1>4, <1>5, SetTypes, MinerAssumption DEF AcquireSlot
<1> HIDE DEF H
<1>7. Cardinality(SlotsHeld') <= MaxConcurrent
  BY <1>6, Counting
<1>8. Counts'
  BY <1>1, <1>5, <1>7 DEF Base, Counts, PendingExact
<1>9. TypeOK'
  BY <1>1, <1>5 DEF Base, TypeOK
<1>10. QED
  BY <1>8, <1>9 DEF Base

LEMMA RunBase ==
  ASSUME Base, NEW h \in Handlers,
         StartThread(h) \/ \E value \in Results : StrategyReturns(h, value)
  PROVE  Base'
<1>1. /\ pc[h] \in {"queued", "running"}
      /\ started' \in [Requests -> Nat] /\ result' \in [Handlers -> Results]
      /\ UNCHANGED <<clock, nonces, req, pending, orphans, replies, deliveries>>
  BY DEF StartThread, StrategyReturns, Base, TypeOK
<1>2. PICK step \in {"running", "finished"} : Goto(h, step)
  BY DEF StartThread, StrategyReturns
<1>3. step \in Steps /\ step \in Inside /\ step \in Holding
  BY DEF Steps, Inside, Holding
<1>4. h \in InService /\ h \in SlotsHeld
  BY <1>1 DEF InService, SlotsHeld
<1>5. QED
  BY <1>1, <1>2, <1>3, <1>4, MoveBase DEF Base, TypeOK

LEMMA EndBase ==
  ASSUME Base, NEW h \in Handlers, Timeout(h) \/ Resume(h)
  PROVE  Base'
<1>1. h \in InService /\ pending' = pending - 1 /\ req[h] \in Requests /\ result[h] \in Results
      /\ nonces' \subseteq Requests /\ orphans' \subseteq Requests
      /\ UNCHANGED <<clock, started, deliveries>>
  BY DEF Timeout, Resume, InService, Base, TypeOK
<1>2. \E reply \in Reply : Answer(h, reply)
  BY <1>1, Codes, RefusalType, AfterType DEF Timeout, Resume, Base
<1>3. QED
  BY <1>1, <1>2, AnswerBase

LEMMA RestartBase ==
  ASSUME Base, Restart
  PROVE  Base'
<1>1. /\ pc' = [h \in Handlers |-> "idle"] /\ pending' = 0 /\ orphans' = {}
      /\ req' = [h \in Handlers |-> AnyRequest] /\ result' = [h \in Handlers |-> "bundle"]
      /\ UNCHANGED <<clock, nonces, started, replies, deliveries>>
  BY DEF Restart
<1>2. AnyRequest \in Requests
  BY MinerAssumption DEF AnyRequest
<1>3. InService' = {} /\ SlotsHeld' = {}
  BY <1>1 DEF InService, SlotsHeld
<1>4. Counts'
  BY <1>1, <1>3, FS_EmptySet, MinerAssumption DEF Counts, PendingExact
<1>5. TypeOK'
  BY <1>1, <1>2 DEF Base, TypeOK, Steps, Results
<1>6. QED
  BY <1>4, <1>5 DEF Base

LEMMA InitBase == Init => Base
<1> SUFFICES ASSUME Init PROVE Base
  OBVIOUS
<1>1. AnyRequest \in Requests
  BY MinerAssumption DEF AnyRequest
<1>2. InService = {} /\ SlotsHeld = {}
  BY DEF Init, InService, SlotsHeld
<1>3. Counts
  BY <1>2, FS_EmptySet, MinerAssumption DEF Init, Counts, PendingExact
<1>4. TypeOK
  BY <1>1 DEF Init, TypeOK, Steps, Results
<1>5. QED
  BY <1>3, <1>4 DEF Base

LEMMA NextBase == Base /\ [Next]_vars => Base'
<1> SUFFICES ASSUME Base, [Next]_vars PROVE Base'
  OBVIOUS
<1>1. CASE Tick \/ (\E q \in Requests : OrphanEnds(q)) \/ UNCHANGED vars
  <2>1. TypeOK' /\ UNCHANGED <<pc, pending>>
    BY <1>1 DEF Tick, OrphanEnds, vars, Base, TypeOK
  <2>2. QED
    BY <2>1, StillBase
<1>2. QED
  BY <1>1, DeliverBase, EarlyBase, AdmitBase, AcquireBase, RunBase, EndBase, RestartBase DEF Next

-----------------------------------------------------------------------------
\* What is signed.

\* Past the checks a request has no defect.
Clean == \A h \in Handlers : pc[h] = "admitting" \/ h \in InService => Defect[req[h]] = "none"

LEMMA CheckedIsClean ==
  ASSUME NEW q \in Requests, CheckVerdict(q) = "admitted"
  PROVE  Defect[q] = "none"
BY MinerAssumption DEF CheckVerdict, BeforeNonce, AfterNonce

\* A signed reply of AfterStrategy is in time.
LEMMA AfterInTime ==
  ASSUME TypeOK, NEW q \in Requests, NEW value \in Results,
         AfterStrategy(q, value).code = "signed"
  PROVE  LET p == AfterStrategy(q, value)
         IN  p.req = q /\ Issued[q] <= p.at /\ p.at < Expires[q] /\ p.at < Deadline[q]
<1>1. clock \in Nat /\ Issued[q] \in Nat /\ Expires[q] \in Nat /\ Deadline[q] \in Nat
  BY MinerAssumption DEF TypeOK
<1>2. /\ clock < Expires[q] /\ clock < Deadline[q] /\ clock >= Issued[q]
      /\ AfterStrategy(q, value) = Signed(q, clock)
  BY <1>1 DEF AfterStrategy, Refusal, Results
<1>3. Signed(q, clock).req = q /\ Signed(q, clock).at = clock
  BY DEF Signed
<1>4. QED
  BY <1>1, <1>2, <1>3

\* Who is inside after a step of one handler.
LEMMA CleanStep ==
  ASSUME Base, Clean, NEW h \in Handlers,
         \A k \in Handlers : k # h => pc'[k] = pc[k] /\ req'[k] = req[k],
         pc'[h] \in {"admitting"} \cup Inside => Defect[req'[h]] = "none"
  PROVE  Clean'
BY DEF Clean, InService, Inside, Base, TypeOK

LEMMA CleanNext == Base /\ Clean /\ [Next]_vars => Clean'
<1> SUFFICES ASSUME Base, Clean, [Next]_vars PROVE Clean'
  OBVIOUS
<1>1. CASE Tick \/ (\E q \in Requests : OrphanEnds(q)) \/ UNCHANGED vars
  BY <1>1 DEF Tick, OrphanEnds, vars, Clean, InService
<1>2. CASE Restart
  BY <1>2 DEF Restart, Clean, InService
<1>3. ASSUME NEW h \in Handlers, NEW reply, Answer(h, reply) PROVE Clean'
  BY <1>3, CleanStep DEF Answer, Goto, Inside, Base, TypeOK
<1>4. ASSUME NEW h \in Handlers, NEW step \in Steps, Goto(h, step), req' = req,
             step \in {"admitting"} \cup Inside => Defect[req[h]] = "none"
      PROVE  Clean'
  BY <1>4, CleanStep DEF Goto, Base, TypeOK
<1>5. ASSUME NEW h \in Handlers, Check(h) PROVE Clean'
  <2>1. req[h] \in Requests /\ "admitting" \in Steps
    BY DEF Base, TypeOK, Steps
  <2>2. QED
    BY <1>3, <1>4, <1>5, <2>1, CheckedIsClean DEF Check
<1>6. ASSUME NEW h \in Handlers,
             (\E q \in Requests : Deliver(h, q)) \/ Authenticate(h)
      PROVE  Clean'
  <2>1. CASE Authenticate(h)
    <3>1. "authorizing" \in Steps /\ "authorizing" \notin {"admitting"} \cup Inside
      BY DEF Steps, Inside
    <3>2. QED
      BY <1>3, <1>4, <2>1, <3>1 DEF Authenticate
  <2>2. CASE \E q \in Requests : Deliver(h, q)
    BY <2>2, CleanStep DEF Deliver, Goto, Inside, Base, TypeOK
  <2>3. QED
    BY <1>6, <2>1, <2>2
<1>7. ASSUME NEW h \in Handlers,
             \/ Admit(h) \/ AcquireSlot(h) \/ StartThread(h)
             \/ \E value \in Results : StrategyReturns(h, value)
      PROVE  Clean'
  <2>1. {"waiting", "queued", "running", "finished"} \subseteq Steps
    BY DEF Steps
  <2>2. pc[h] = "admitting" \/ h \in InService
    BY <1>7 DEF Admit, AcquireSlot, StartThread, StrategyReturns, InService
  <2>3. Defect[req[h]] = "none"
    BY <2>2 DEF Clean
  <2>4. (\E reply : Answer(h, reply)) \/ \E step \in Steps : Goto(h, step) /\ req' = req
    BY <1>7, <2>1 DEF Admit, AcquireSlot, StartThread, StrategyReturns
  <2>5. QED
    BY <1>3, <1>4, <2>3, <2>4
<1>8. CASE \E h \in Handlers : Timeout(h) \/ Resume(h)
  BY <1>3, <1>8 DEF Timeout, Resume
<1>9. QED
  BY <1>1, <1>2, <1>5, <1>6, <1>7, <1>8 DEF Next

\* Every step that sends a signed reply sends one that is in time.
LEMMA SignedNext ==
  ASSUME Base, Clean, SignedInTime, [Next]_vars
  PROVE  SignedInTime'
<1>1. CASE replies' = replies
  BY <1>1 DEF SignedInTime
<1>2. ASSUME NEW h \in Handlers, NEW code \in Refusals, Answer(h, Refusal(req[h], code))
      PROVE  SignedInTime'
  <2>1. replies' = replies \cup {Refusal(req[h], code)}
    BY <1>2 DEF Answer
  <2>2. Refusal(req[h], code).code # "signed"
    BY MinerAssumption DEF Refusal, Refusals, BeforeNonce, AfterNonce, Results
  <2>3. QED
    BY <2>1, <2>2 DEF SignedInTime
<1>3. ASSUME NEW h \in Handlers, Resume(h) PROVE SignedInTime'
  <2>1. req[h] \in Requests /\ result[h] \in Results /\ Defect[req[h]] = "none"
    BY <1>3 DEF Base, TypeOK, Clean, InService, Resume
  <2>2. replies' = replies \cup {AfterStrategy(req[h], result[h])}
    BY <1>3 DEF Resume, Answer
  <2>3. QED
    BY <2>1, <2>2, AfterInTime DEF SignedInTime, Base
<1>4. ASSUME NEW h \in Handlers, Authenticate(h) \/ Check(h) \/ Admit(h) \/ Timeout(h)
      PROVE  SignedInTime'
  <2>1. req[h] \in Requests
    BY DEF Base, TypeOK
  <2>2. replies' = replies \/ \E code \in Refusals : Answer(h, Refusal(req[h], code))
    BY <1>4, <2>1, Codes, VerdictType DEF Authenticate, Check, Admit, Timeout
  <2>3. QED
    BY <1>1, <1>2, <2>2
<1>5. CASE \/ Tick \/ Restart \/ UNCHANGED vars \/ \E q \in Requests : OrphanEnds(q)
           \/ \E h \in Handlers :
                \/ \E q \in Requests : Deliver(h, q)
                \/ AcquireSlot(h) \/ StartThread(h)
                \/ \E value \in Results : StrategyReturns(h, value)
  BY <1>1, <1>5 DEF Tick, Restart, vars, OrphanEnds, Deliver, AcquireSlot, StartThread,
                    StrategyReturns
<1>6. QED
  BY <1>3, <1>4, <1>5 DEF Next

-----------------------------------------------------------------------------
\* Threads that outlive their handlers.
Outlived == \A q \in orphans : clock >= ExecutionDeadline(q)

LEMMA OutlivedNext ==
  ASSUME Base, Outlived, [Next]_vars
  PROVE  Outlived'
<1>1. clock \in Nat /\ orphans \subseteq Requests /\ clock' \in Nat /\ clock' >= clock
  BY DEF Base, TypeOK, Next, Tick, Restart, OrphanEnds, Deliver, Authenticate, Check, Admit,
         AcquireSlot, StartThread, StrategyReturns, Timeout, Resume, vars
<1>2. \A q \in Requests : ExecutionDeadline(q) \in Nat
  BY MinerAssumption DEF ExecutionDeadline
<1>3. \A q : ExecutionDeadline(q)' = ExecutionDeadline(q)
  BY DEF ExecutionDeadline
<1>4. \A q \in orphans' : q \in orphans \/ clock >= ExecutionDeadline(q)
  BY DEF Next, Tick, Restart, OrphanEnds, Deliver, Authenticate, Check, Admit,
         AcquireSlot, StartThread, StrategyReturns, Timeout, Resume, vars
<1>5. \A q \in orphans' : q \in Requests
  BY <1>1 DEF Next, Tick, Restart, OrphanEnds, Deliver, Authenticate, Check, Admit,
         AcquireSlot, StartThread, StrategyReturns, Timeout, Resume, vars, Base, TypeOK
<1>6. QED
  BY <1>1, <1>2, <1>4, <1>5 DEF Outlived

LEMMA ExecutingBounded == Base => Cardinality(Executing) <= MaxConcurrent
<1> SUFFICES ASSUME Base PROVE Cardinality(Executing) <= MaxConcurrent
  OBVIOUS
<1>1. IsFiniteSet(SlotsHeld) /\ Cardinality(SlotsHeld) \in Nat
  BY SetTypes, Counting
<1>2. Cardinality(Executing) <= Cardinality(SlotsHeld) /\ Cardinality(Executing) \in Nat
  BY <1>1, SetTypes, FS_Subset, FS_CardinalityType
<1>3. QED
  BY <1>1, <1>2, MinerAssumption DEF Base, Counts

-----------------------------------------------------------------------------
\* A request runs at most once.

\* Past the nonce store, and not yet run.
Past == {"authorizing", "admitting", "waiting", "queued"}
Live(q) == {h \in Handlers : pc[h] \in Past /\ req[h] = q}

\* A request's nonce is stored, or it is too old.
Spent(q) == q \in nonces \/ Nonce[q] < clock - NonceTTL

Once ==
  \A q \in Requests :
    /\ started[q] \in {0, 1}
    /\ \A h, k \in Live(q) : h = k
    /\ started[q] = 1 => Live(q) = {}
    /\ started[q] = 1 \/ Live(q) # {} => Spent(q)

\* A request that is spent stays so.
LEMMA SpentStays ==
  ASSUME Base, NEW q \in Requests, Spent(q), [Next]_vars
  PROVE  Spent(q)'
<1>1. clock \in Nat /\ Nonce[q] \in Nat /\ NonceTTL \in Nat
  BY MinerAssumption DEF Base, TypeOK
<1>2. clock' = clock \/ clock' = clock + 1
  BY DEF Next, Tick, Restart, OrphanEnds, Deliver, Authenticate, Check, Admit,
         AcquireSlot, StartThread, StrategyReturns, Timeout, Resume, vars
<1>3. nonces' = nonces \/ FreshNonces \subseteq nonces'
  BY DEF Next, Tick, Restart, OrphanEnds, Deliver, Authenticate, Check, Admit,
         AcquireSlot, StartThread, StrategyReturns, Timeout, Resume, vars
<1>4. q \in nonces => q \in FreshNonces \/ Nonce[q] < clock - NonceTTL
  BY <1>1 DEF FreshNonces
<1>5. QED
  BY <1>1, <1>2, <1>3, <1>4 DEF Spent

\* No handler gets past the nonce store or runs anything anew.
LEMMA QuietOnce ==
  ASSUME Base, Once, [Next]_vars, started' = started,
         \A h \in Handlers : pc'[h] \in Past => pc[h] \in Past /\ req'[h] = req[h]
  PROVE  Once'
<1>1. \A q \in Requests : Live(q)' \subseteq Live(q)
  BY DEF Live
<1>2. \A q \in Requests : Spent(q) => Spent(q)'
  BY SpentStays
<1>3. QED
  BY <1>1, <1>2 DEF Once

\* The nonce store lets a handler past.
LEMMA AuthenticateOnce ==
  ASSUME Base, Once, NEW h \in Handlers, Authenticate(h), [Next]_vars
  PROVE  Once'
<1>1. PICK q \in Requests : q = req[h]
  BY DEF Base, TypeOK
<1>2. q \in Requests /\ started' = started /\ pc[h] = "reading" /\ pc[h] \notin Past
  BY DEF Authenticate, Base, TypeOK, Past
<1>3. CASE \E reply : Answer(h, reply)
  BY <1>2, <1>3, QuietOnce DEF Answer, Goto, Base, TypeOK, Past
<1>4. CASE /\ Fresh(q) /\ NonceAdmitted(q) /\ Goto(h, "authorizing") /\ req' = req
           /\ nonces' = FreshNonces \cup {p \in {q} : NonceAdmitted(q)}
  <2>1. q \notin nonces /\ ~(Nonce[q] < clock - NonceTTL)
    <3>1. clock \in Nat /\ Nonce[q] \in Nat /\ Window \in Nat /\ NonceTTL \in Nat /\ Window <= NonceTTL
      BY <1>2, MinerAssumption DEF Base, TypeOK
    <3>2. Nonce[q] >= clock - NonceTTL
      BY <1>4, <3>1 DEF Fresh
    <3>3. q \notin nonces
      BY <1>4, <3>2 DEF NonceAdmitted, FreshNonces
    <3>4. QED
      BY <3>1, <3>2, <3>3
  <2>2. started[q] = 0 /\ Live(q) = {}
    BY <1>2, <2>1 DEF Once, Spent
  <2>3. \A k \in Handlers : pc'[k] = IF k = h THEN "authorizing" ELSE pc[k]
    BY <1>4 DEF Goto, Base, TypeOK
  <2>4. Live(q)' \subseteq {h} /\ \A p \in Requests : p # q => Live(p)' \subseteq Live(p)
    BY <1>1, <1>4, <2>2, <2>3 DEF Live
  <2>5. Spent(q)'
    BY <1>4 DEF Spent
  <2>6. \A p \in Requests : Spent(p) => Spent(p)'
    BY SpentStays
  <2>7. QED
    BY <1>2, <2>2, <2>4, <2>5, <2>6 DEF Once
<1>5. QED
  BY <1>1, <1>3, <1>4 DEF Authenticate

\* A strategy starts: its handler is no longer live.
LEMMA StartOnce ==
  ASSUME Base, Once, NEW h \in Handlers, [Next]_vars, req' = req,
         pc[h] \in Past, Goto(h, "running"), started' = [started EXCEPT ![req[h]] = @ + 1]
  PROVE  Once'
<1> DEFINE q == req[h]
<1>1. q \in Requests /\ h \in Live(q)
  BY DEF Base, TypeOK, Live
<1>2. \A k \in Handlers : pc'[k] = IF k = h THEN "running" ELSE pc[k]
  BY DEF Goto, Base, TypeOK
<1>3. "running" \notin Past
  BY DEF Past
<1>4. \A p \in Requests : Live(p)' = Live(p) \ {h}
  BY <1>2, <1>3 DEF Live
<1>5. \A p \in Requests : Spent(p) => Spent(p)'
  BY SpentStays
<1>6. started[q] = 0 /\ Live(q)' = {} /\ Spent(q)'
  BY <1>1, <1>4, <1>5 DEF Once
<1>7. \A p \in Requests : started'[p] = IF p = q THEN started[p] + 1 ELSE started[p]
  BY <1>1 DEF Base, TypeOK
<1> HIDE DEF q
<1>8. QED
  BY <1>1, <1>4, <1>5, <1>6, <1>7 DEF Once

LEMMA OnceNext ==
  ASSUME Base, Once, [Next]_vars
  PROVE  Once'
<1>1. CASE \E h \in Handlers : Authenticate(h)
  BY <1>1, AuthenticateOnce
<1>2. ASSUME NEW h \in Handlers, AcquireSlot(h) \/ StartThread(h)
      PROVE  Once'
  <2>1. req' = req /\ pc[h] \in Past
    BY <1>2 DEF AcquireSlot, StartThread, Past
  <2>2. \/ Goto(h, "running") /\ started' = [started EXCEPT ![req[h]] = @ + 1]
        \/ Goto(h, "queued") /\ started' = started
    BY <1>2 DEF AcquireSlot, StartThread
  <2>3. CASE Goto(h, "queued") /\ started' = started
    BY <2>1, <2>3, QuietOnce DEF Goto, Base, TypeOK
  <2>4. QED
    BY <2>1, <2>2, <2>3, StartOnce
<1>3. CASE Tick \/ Restart \/ UNCHANGED vars \/ \E q \in Requests : OrphanEnds(q)
  BY <1>3, QuietOnce DEF Tick, Restart, vars, OrphanEnds, Past
<1>4. ASSUME NEW h \in Handlers,
             \/ \E q \in Requests : Deliver(h, q)
             \/ Check(h) \/ Admit(h) \/ Timeout(h) \/ Resume(h)
             \/ \E value \in Results : StrategyReturns(h, value)
      PROVE  Once'
  <2>1. started' = started
    BY <1>4 DEF Deliver, Check, Admit, Timeout, Resume, StrategyReturns
  <2>2. \/ /\ \E step \in {"reading", "idle", "finished"} : Goto(h, step)
           /\ \A k \in Handlers : k # h => req'[k] = req[k]
        \/ \E step \in {"admitting", "waiting"} : Goto(h, step) /\ req' = req /\ pc[h] \in Past
    <3>1. CASE (\E reply : Answer(h, reply)) \/ \E q \in Requests : Deliver(h, q)
      BY <3>1 DEF Answer, Deliver, Base, TypeOK
    <3>2. CASE \E value \in Results : StrategyReturns(h, value)
      BY <3>2 DEF StrategyReturns
    <3>3. CASE /\ pc[h] \in {"authorizing", "admitting"} /\ req' = req
               /\ \E step \in {"admitting", "waiting"} : Goto(h, step)
      BY <3>3 DEF Past
    <3>4. QED
      BY <1>4, <3>1, <3>2, <3>3 DEF Check, Admit, Timeout, Resume
  <2>3. {"reading", "idle", "finished"} \cap Past = {}
    BY DEF Past
  <2>4. \A k \in Handlers : pc'[k] \in Past => pc[k] \in Past /\ req'[k] = req[k]
    BY <2>2, <2>3 DEF Goto, Base, TypeOK
  <2>5. QED
    BY <2>1, <2>4, QuietOnce
<1>5. QED
  BY <1>1, <1>2, <1>3, <1>4 DEF Next

-----------------------------------------------------------------------------
IInv == Base /\ Clean /\ SignedInTime /\ Outlived /\ Once

LEMMA InitIInv == Init => IInv
<1> SUFFICES ASSUME Init PROVE IInv
  OBVIOUS
<1>1. Base
  BY InitBase
<1>2. \A q \in Requests : Live(q) = {}
  BY DEF Init, Live, Past
<1>3. Clean /\ SignedInTime /\ Outlived /\ Once
  BY <1>2 DEF Init, Clean, InService, SignedInTime, Outlived, Once
<1>4. QED
  BY <1>1, <1>3 DEF IInv

LEMMA NextIInv == IInv /\ [Next]_vars => IInv'
BY NextBase, CleanNext, SignedNext, OutlivedNext, OnceNext DEF IInv

LEMMA Invariant == Spec => []IInv
BY InitIInv, NextIInv, PTL DEF Spec

\* Every variable keeps its type; in particular pending_strategies never falls
\* below zero.
THEOREM TypeCorrect == Spec => []TypeOK
<1>1. IInv => TypeOK
  BY DEF IInv, Base
<1>2. QED
  BY <1>1, Invariant, PTL

\* pending_strategies counts the handlers inside execute_strategy, for any
\* number of handlers, and never exceeds max_pending_strategies.
THEOREM PendingIsExact == Spec => []PendingExact
<1>1. IInv => PendingExact
  BY DEF IInv, Base, Counts
<1>2. QED
  BY <1>1, Invariant, PTL

\* A signed request is executed at most once, however often it is delivered,
\* the nonce store is cleaned and the service restarts.
THEOREM RequestsRunOnce == Spec => []ExecutedAtMostOnce
<1>1. IInv => ExecutedAtMostOnce
  BY DEF IInv, Once, ExecutedAtMostOnce
<1>2. QED
  BY <1>1, Invariant, PTL

\* What the miner signs is in time, and answers a request without a defect.
THEOREM SignaturesInTime == Spec => []SignedInTime
<1>1. IInv => SignedInTime
  BY DEF IInv
<1>2. QED
  BY <1>1, Invariant, PTL

\* Work beyond max_concurrent_strategies is work of expired requests.
THEOREM ExcessIsExpired == Spec => []ExcessOnlyExpired
<1>1. IInv => ExcessOnlyExpired
  BY ExecutingBounded DEF IInv, Outlived, ExcessOnlyExpired
<1>2. QED
  BY <1>1, Invariant, PTL
=============================================================================
