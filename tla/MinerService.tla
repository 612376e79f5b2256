---------------------------- MODULE MinerService ----------------------------
(***************************************************************************)
(* The miner service of planrace/api_v2.py: authenticated requests pass    *)
(* the nonce store (planrace/nonce.py) and the authorization hook          *)
(* (planrace/auth.py), are checked against the clock, and run the miner's  *)
(* strategy under a bound on pending and on concurrent executions and      *)
(* under a timeout; the artifact is signed if it is still in time.         *)
(*                                                                         *)
(* The handlers are coroutines of one event loop: what a handler does      *)
(* between two awaits is one step.  A synchronous strategy runs on a       *)
(* thread of the default executor and is not stopped by the timeout.       *)
(***************************************************************************)
EXTENDS Integers, FiniteSets

CONSTANTS
  Requests,       \* the signed HTTP requests that can arrive
  Nonce,          \* Nonce[q]: the nonce of q, the time at which it was signed
  Issued,         \* Issued[q]: issued_at_unix_ms
  Expires,        \* Expires[q]: expires_at_unix_ms
  Deadline,       \* Deadline[q]: the task's deadline_unix_ms
  Defect,         \* Defect[q]: the first static check that q fails, or "none"
  Handlers,       \* handler coroutines
  MaxPending,     \* max_pending_strategies
  MaxConcurrent,  \* max_concurrent_strategies
  PoolSize,       \* threads of the default executor
  SyncStrategy,   \* TRUE: the strategy runs in a thread
  Skew,           \* tolerated lead of a request's clock (5000 ms)
  MaxLifetime,    \* MAX_REQUEST_LIFETIME_MS
  Window,         \* freshness window of bt.http_auth.verify
  NonceTTL,       \* ttl_ns of the nonce store
  MaxNonces,      \* max_entries of the nonce store
  MaxClock,       \* bound on the clock
  MaxDeliveries   \* bound on the deliveries of requests

\* Checks that depend only on the request, in the order of the code: the body
\* limit and the signature before the nonce store, the others after it.
BeforeNonce == {"content_length_invalid", "body_too_large", "request_target_invalid",
                "auth_malformed", "auth_wrong_receiver", "auth_bad_signature"}
AfterNonce == {"hotkey_forbidden", "task_validation_failed",
               "validator_identity_mismatch", "wrong_receiver"}

ASSUME MinerAssumption ==
  /\ Requests # {} /\ IsFiniteSet(Handlers)
  /\ \A f \in {Nonce, Issued, Expires, Deadline} : f \in [Requests -> Nat]
  /\ \A q \in Requests : Issued[q] < Expires[q]
  /\ Defect \in [Requests -> BeforeNonce \cup AfterNonce \cup {"none"}]
  /\ MaxConcurrent \in Nat \ {0} /\ MaxPending \in Nat /\ MaxPending >= MaxConcurrent
  /\ PoolSize \in Nat \ {0} /\ SyncStrategy \in BOOLEAN
  /\ {Skew, MaxLifetime, Window, NonceTTL, MaxNonces, MaxClock, MaxDeliveries} \subseteq Nat
  /\ Window <= NonceTTL

VARIABLES
  clock,       \* the miner's wall clock
  nonces,      \* rows of accepted_nonces: the requests whose nonce is stored
  pc,          \* pc[h]: where handler h is
  req,         \* req[h]: the request it handles
  result,      \* result[h]: what its strategy returned
  pending,     \* pending_strategies
  orphans,     \* requests whose strategy thread has outlived its handler
  started,     \* history: started[q] counts the strategy runs for q
  replies,     \* history: the replies sent
  deliveries   \* number of deliveries so far

vars == <<clock, nonces, pc, req, result, pending, orphans, started, replies,
          deliveries>>

Steps == {"idle", "reading", "authorizing", "admitting", "waiting", "queued",
          "running", "finished"}

\* Handlers counted by pending_strategies, and those that hold a slot of the
\* semaphore strategy_slots.
InService  == {h \in Handlers : pc[h] \in {"waiting", "queued", "running", "finished"}}
SlotsHeld  == {h \in Handlers : pc[h] \in {"queued", "running", "finished"}}
Executing  == {h \in Handlers : pc[h] = "running"}

\* "strategy_bad_bundle" stands for the codes strategy_wrong_task,
\* strategy_wrong_engine and strategy_bundle_too_large.
Results == {"bundle", "strategy_bad_bundle", "raises"}

\* A reply: a code, and for a signed response the time it was issued at.
Refusals ==
  BeforeNonce \cup AfterNonce \cup (Results \ {"bundle"}) \cup
  { "auth_stale", "auth_replayed", "request_from_future", "request_expired",
    "request_lifetime_too_long", "task_deadline_elapsed", "strategy_queue_full",
    "strategy_deadline_elapsed", "request_expired_after_strategy",
    "task_deadline_elapsed_after_strategy", "response_cannot_predate_request" }
Refusal(q, code) == [req |-> q, code |-> code]
Signed(q, t) == [req |-> q, code |-> "signed", at |-> t]
Reply == [req : Requests, code : Refusals] \cup [req : Requests, code : {"signed"}, at : Nat]

\* The request of a handler that is idle: it is not looked at.
AnyRequest == CHOOSE q \in Requests : TRUE

TypeOK ==
  /\ clock \in Nat
  /\ nonces \subseteq Requests
  /\ pc \in [Handlers -> Steps]
  /\ req \in [Handlers -> Requests]
  /\ result \in [Handlers -> Results]
  /\ pending \in Nat
  /\ orphans \subseteq Requests
  /\ started \in [Requests -> Nat]
  /\ replies \subseteq Reply
  /\ deliveries \in Nat

Init ==
  /\ clock = 0
  /\ nonces = {}
  /\ pc = [h \in Handlers |-> "idle"]
  /\ req = [h \in Handlers |-> AnyRequest]
  /\ result = [h \in Handlers |-> "bundle"]
  /\ pending = 0
  /\ orphans = {}
  /\ started = [q \in Requests |-> 0]
  /\ replies = {}
  /\ deliveries = 0

-----------------------------------------------------------------------------
Goto(h, step) == pc' = [pc EXCEPT ![h] = step]

\* The handler ends with the given reply.
Answer(h, reply) ==
  /\ Goto(h, "idle")
  /\ replies' = replies \cup {reply}
  /\ result' = [result EXCEPT ![h] = "bundle"]
  /\ req' = [req EXCEPT ![h] = AnyRequest]

ExecutionDeadline(q) == IF Expires[q] < Deadline[q] THEN Expires[q] ELSE Deadline[q]

Tick ==
  /\ clock < MaxClock
  /\ clock' = clock + 1
  /\ UNCHANGED <<nonces, pc, req, result, pending, orphans, started, replies, deliveries>>

\* The network delivers a request, possibly again.
Deliver(h, q) ==
  /\ pc[h] = "idle"
  /\ deliveries < MaxDeliveries
  /\ deliveries' = deliveries + 1
  /\ req' = [req EXCEPT ![h] = q]
  /\ Goto(h, "reading")
  /\ UNCHANGED <<clock, nonces, result, pending, orphans, started, replies>>

\* Fault: nonces are kept for less than the freshness window.
FreshNoncesFault == {p \in nonces : Nonce[p] >= clock}

\* SQLiteNonceStore.check_and_store: old rows are deleted, the insert fails at
\* the limit and for a stored nonce.
FreshNonces == {p \in nonces : Nonce[p] >= clock - NonceTTL}
NonceAdmitted(q) == Cardinality(FreshNonces) < MaxNonces /\ q \notin FreshNonces

\* Freshness of a signed request, as bt.http_auth.verify judges it.
Fresh(q) == clock - Window <= Nonce[q] /\ Nonce[q] <= clock + Window

\* authenticate_request up to the authorization hook: the body limit and
\* bt.http_auth.verify, which consults the nonce store last.
Authenticate(h) ==
  /\ pc[h] = "reading"
  /\ LET q == req[h]
     IN  \/ /\ Defect[q] \in BeforeNonce
            /\ Answer(h, Refusal(q, Defect[q]))
            /\ UNCHANGED nonces
         \/ /\ Defect[q] \notin BeforeNonce /\ ~ Fresh(q)
            /\ Answer(h, Refusal(q, "auth_stale"))
            /\ UNCHANGED nonces
         \/ /\ Defect[q] \notin BeforeNonce /\ Fresh(q)
            /\ nonces' = FreshNonces \cup {p \in {q} : NonceAdmitted(q)}
            /\ IF NonceAdmitted(q)
               THEN Goto(h, "authorizing") /\ UNCHANGED <<req, replies, result>>
               ELSE Answer(h, Refusal(q, "auth_replayed"))
  /\ UNCHANGED <<clock, pending, orphans, started, deliveries>>

\* The authorization hook and the checks of optimize: the first that fails.
CheckVerdict(q) ==
  IF Defect[q] # "none" THEN Defect[q]
  ELSE IF Issued[q] > clock + Skew THEN "request_from_future"
  ELSE IF Expires[q] <= clock THEN "request_expired"
  ELSE IF Expires[q] - Issued[q] > MaxLifetime THEN "request_lifetime_too_long"
  ELSE IF clock >= Deadline[q] THEN "task_deadline_elapsed"
  ELSE "admitted"

Check(h) ==
  /\ pc[h] = "authorizing"
  /\ IF CheckVerdict(req[h]) = "admitted"
     THEN Goto(h, "admitting") /\ UNCHANGED <<req, replies, result>>
     ELSE Answer(h, Refusal(req[h], CheckVerdict(req[h])))
  /\ UNCHANGED <<clock, nonces, pending, orphans, started, deliveries>>

\* Fault: the early return does not give the pending count back.
AdmitFault(h) ==
  /\ pc[h] = "admitting"
  /\ LET q == req[h]
     IN  \/ /\ pending >= MaxPending
            /\ Answer(h, Refusal(q, "strategy_queue_full"))
            /\ UNCHANGED pending
         \/ /\ pending < MaxPending /\ clock >= ExecutionDeadline(q)
            /\ Answer(h, Refusal(q, "request_expired"))
            /\ pending' = pending + 1
         \/ /\ pending < MaxPending /\ clock < ExecutionDeadline(q)
            /\ pending' = pending + 1
            /\ Goto(h, "waiting")
            /\ UNCHANGED <<req, replies, result>>
  /\ UNCHANGED <<clock, nonces, orphans, started, deliveries>>

\* execute_strategy up to the semaphore.  The clock is read again; when no
\* time remains, pending_strategies is incremented and decremented at once.
Admit(h) ==
  /\ pc[h] = "admitting"
  /\ LET q == req[h]
     IN  \/ /\ pending >= MaxPending
            /\ Answer(h, Refusal(q, "strategy_queue_full"))
            /\ UNCHANGED pending
         \/ /\ pending < MaxPending /\ clock >= ExecutionDeadline(q)
            /\ Answer(h, Refusal(q, "request_expired"))
            /\ UNCHANGED pending
         \/ /\ pending < MaxPending /\ clock < ExecutionDeadline(q)
            /\ pending' = pending + 1
            /\ Goto(h, "waiting")
            /\ UNCHANGED <<req, replies, result>>
  /\ UNCHANGED <<clock, nonces, orphans, started, deliveries>>

\* Fault: no semaphore, every admitted handler goes on.
AcquireSlotFault(h) ==
  /\ pc[h] = "waiting"
  /\ Goto(h, IF SyncStrategy THEN "queued" ELSE "running")
  /\ started' = IF SyncStrategy THEN started ELSE [started EXCEPT ![req[h]] = @ + 1]
  /\ UNCHANGED <<clock, nonces, req, result, pending, orphans, replies, deliveries>>

\* The semaphore is acquired; a coroutine strategy starts at once, the thread
\* of a synchronous one when the executor has a free thread.
AcquireSlot(h) ==
  /\ pc[h] = "waiting"
  /\ Cardinality(SlotsHeld) < MaxConcurrent
  /\ Goto(h, IF SyncStrategy THEN "queued" ELSE "running")
  /\ started' = IF SyncStrategy THEN started ELSE [started EXCEPT ![req[h]] = @ + 1]
  /\ UNCHANGED <<clock, nonces, req, result, pending, orphans, replies, deliveries>>

StartThread(h) ==
  /\ pc[h] = "queued"
  /\ Cardinality(Executing) + Cardinality(orphans) < PoolSize
  /\ Goto(h, "running")
  /\ started' = [started EXCEPT ![req[h]] = @ + 1]
  /\ UNCHANGED <<clock, nonces, req, result, pending, orphans, replies, deliveries>>

\* The strategy returns a bundle, good or not, or raises.
StrategyReturns(h, value) ==
  /\ pc[h] = "running"
  /\ result' = [result EXCEPT ![h] = value]
  /\ Goto(h, "finished")
  /\ UNCHANGED <<clock, nonces, req, pending, orphans, started, replies, deliveries>>

OrphanEnds(q) ==
  /\ q \in orphans
  /\ orphans' = orphans \ {q}
  /\ UNCHANGED <<clock, nonces, pc, req, result, pending, started, replies, deliveries>>

\* Fault: the timeout does not cover the executor's queue.
TimeoutQueuedFault(h) ==
  /\ h \in InService /\ pc[h] # "queued"
  /\ clock >= ExecutionDeadline(req[h])
  /\ Answer(h, Refusal(req[h], "strategy_deadline_elapsed"))
  /\ pending' = pending - 1
  /\ orphans' = orphans \cup {q \in {req[h]} : SyncStrategy /\ pc[h] = "running"}
  /\ UNCHANGED <<clock, nonces, started, deliveries>>

\* asyncio.timeout fires: the slot and the pending count are given back; a
\* strategy thread goes on by itself.  A result that came in too late to be
\* resumed is lost.
Timeout(h) ==
  /\ h \in InService
  /\ clock >= ExecutionDeadline(req[h])
  /\ Answer(h, Refusal(req[h], "strategy_deadline_elapsed"))
  /\ pending' = pending - 1
  /\ orphans' = orphans \cup {q \in {req[h]} : SyncStrategy /\ pc[h] = "running"}
  /\ UNCHANGED <<clock, nonces, started, deliveries>>

\* Fault: the deadline is not looked at again after the strategy.
AfterStrategyFault(q, value) ==
  IF value = "raises" THEN Refusal(q, value)
  ELSE IF clock >= Expires[q] THEN Refusal(q, "request_expired_after_strategy")
  ELSE IF value # "bundle" THEN Refusal(q, value)
  ELSE IF clock < Issued[q] THEN Refusal(q, "response_cannot_predate_request")
  ELSE Signed(q, clock)

\* What optimize does with a result: the checks after the strategy, then
\* sign_optimization_response, which refuses to predate the request.
AfterStrategy(q, value) ==
  IF value = "raises" THEN Refusal(q, value)
  ELSE IF clock >= Expires[q] THEN Refusal(q, "request_expired_after_strategy")
  ELSE IF clock >= Deadline[q] THEN Refusal(q, "task_deadline_elapsed_after_strategy")
  ELSE IF value # "bundle" THEN Refusal(q, value)
  ELSE IF clock < Issued[q] THEN Refusal(q, "response_cannot_predate_request")
  ELSE Signed(q, clock)

\* The handler resumes with the result of its strategy and replies.
Resume(h) ==
  /\ pc[h] = "finished"
  /\ pending' = pending - 1
  /\ Answer(h, AfterStrategy(req[h], result[h]))
  /\ UNCHANGED <<clock, nonces, orphans, started, deliveries>>

\* The service stops and starts again: only the nonce database survives.
Restart ==
  /\ \E h \in Handlers : pc[h] # "idle"
  /\ pc' = [h \in Handlers |-> "idle"]
  /\ result' = [h \in Handlers |-> "bundle"]
  /\ pending' = 0
  /\ orphans' = {}
  /\ req' = [h \in Handlers |-> AnyRequest]
  /\ UNCHANGED <<clock, nonces, started, replies, deliveries>>

Next ==
  \/ Tick
  \/ Restart
  \/ \E q \in Requests : OrphanEnds(q)
  \/ \E h \in Handlers :
        \/ \E q \in Requests : Deliver(h, q)
        \/ Authenticate(h) \/ Check(h) \/ Admit(h)
        \/ AcquireSlot(h) \/ StartThread(h)
        \/ \E value \in Results : StrategyReturns(h, value)
        \/ Timeout(h) \/ Resume(h)

\* The event loop runs every coroutine and timer that is ready, and time
\* passes.  A strategy need not return, nor a thread end.
Fairness ==
  /\ WF_vars(Tick)
  /\ \A h \in Handlers :
       WF_vars(Authenticate(h) \/ Check(h) \/ Admit(h) \/ Timeout(h) \/ Resume(h))

Spec == Init /\ [][Next]_vars
FairSpec == Spec /\ Fairness

-----------------------------------------------------------------------------
\* pending_strategies counts exactly the handlers inside execute_strategy and
\* never exceeds its limit: every way out of it (refusal, timeout, exception,
\* reply) gives back what it took, and nothing is given back twice.
PendingExact == pending = Cardinality(InService) /\ pending <= MaxPending

\* A signed request runs the strategy at most once, although the network may
\* repeat it, other requests fill the nonce store and the service restarts:
\* no nonce leaves the store while its request is still fresh.
ExecutedAtMostOnce == \A q \in Requests : started[q] <= 1

\* Every response the miner signs lies inside the validity interval of its
\* request and before the deadline of its task, however long the strategy ran
\* and whenever the timeout came, and only clean requests are answered.
SignedInTime ==
  \A p \in replies : p.code = "signed" =>
    /\ Issued[p.req] <= p.at /\ p.at < Expires[p.req] /\ p.at < Deadline[p.req]
    /\ Defect[p.req] = "none"

\* At most max_concurrent_strategies executions hold a slot; any other one is
\* a thread whose request has passed its execution deadline, so the service
\* exceeds its concurrency only by work nobody waits for.
ExcessOnlyExpired ==
  /\ Cardinality(Executing) <= MaxConcurrent
  /\ \A q \in orphans : clock >= ExecutionDeadline(q)

\* A request that has been admitted is answered, even if its strategy and the
\* strategies of all others never return and hold every thread.  The handlers
\* are interchangeable: one stands for all.
AdmittedIsAnswered ==
  LET h == CHOOSE k \in Handlers : TRUE
  IN  h \in InService ~> pc[h] = "idle"
=============================================================================
