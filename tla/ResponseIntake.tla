--------------------------- MODULE ResponseIntake ---------------------------
(***************************************************************************)
(* Validator processes that receive signed miner responses and verify them *)
(* against one shared replay store (planrace/auth_v2.py, and the end of    *)
(* request_optimization_v2 in planrace/validator_client_v2.py).            *)
(*                                                                         *)
(* The wall clock is read twice on the way of a response: once when its    *)
(* body is complete (the `now` of every freshness check) and once inside   *)
(* the store (the time of the DELETE).  Between the two reads the process  *)
(* awaits response.aclose(), parses and verifies, and waits for the lock   *)
(* of the store; other processes run and the clock advances.  The network  *)
(* may deliver a response any number of times, to any process.             *)
(***************************************************************************)
EXTENDS ResponseAuth

CONSTANTS
  Verifiers,      \* validator processes (or threads of one process)
  MaxClock,       \* bound on the clock
  MaxDeliveries   \* bound on the number of deliveries

ASSUME IntakeAssumption == MaxClock \in Nat /\ MaxDeliveries \in Nat

VARIABLES
  clock,       \* the wall clock, in milliseconds
  rows,        \* the table of the replay store
  pc,          \* pc[v]: where process v is in the handling of its response
  resp,        \* resp[v]: the response it handles
  now,         \* now[v]: received_at_unix_ms, sampled when the body was complete
  storeNow,    \* storeNow[v]: the clock sampled inside check_and_store
  answer,      \* answer[v]: what check_and_store returned
  accepted,    \* history: the responses accepted by some process
  lost,        \* history: those stored by a process that stopped before its return
  times,       \* history: times[k] counts the acceptances of key k
  deliveries   \* number of deliveries so far

vars == <<clock, rows, pc, resp, now, storeNow, answer, accepted, lost, times,
          deliveries>>

Steps == {"idle", "received", "verified", "storing", "returned"}

TypeOK ==
  /\ clock \in Nat
  /\ rows \subseteq Row
  /\ pc \in [Verifiers -> Steps]
  /\ resp \in [Verifiers -> Responses]
  /\ now \in [Verifiers -> Nat]
  /\ storeNow \in [Verifiers -> Nat]
  /\ answer \in [Verifiers -> BOOLEAN]
  /\ accepted \subseteq Responses
  /\ lost \subseteq Responses
  /\ times \in [Keys -> Nat]
  /\ deliveries \in Nat

Init ==
  /\ clock = 0
  /\ rows = {}
  /\ pc = [v \in Verifiers |-> "idle"]
  /\ resp = [v \in Verifiers |-> CHOOSE r \in Responses : TRUE]
  /\ now = [v \in Verifiers |-> 0]
  /\ storeNow = [v \in Verifiers |-> 0]
  /\ answer = [v \in Verifiers |-> FALSE]
  /\ accepted = {}
  /\ lost = {}
  /\ times = [k \in Keys |-> 0]
  /\ deliveries = 0

-----------------------------------------------------------------------------
Goto(v, step) == pc' = [pc EXCEPT ![v] = step]

\* The process has committed a row and not returned yet.
Pending(v) == pc[v] = "returned" /\ answer[v]

\* The handling ends: its local variables are gone (resp[v] is then unused).
Finish(v) ==
  /\ Goto(v, "idle")
  /\ now' = [now EXCEPT ![v] = 0]
  /\ storeNow' = [storeNow EXCEPT ![v] = 0]
  /\ answer' = [answer EXCEPT ![v] = FALSE]

\* Time passes.
Tick ==
  /\ clock < MaxClock
  /\ clock' = clock + 1
  /\ UNCHANGED <<rows, pc, resp, now, storeNow, answer, accepted, lost, times,
                 deliveries>>

\* The body of a response is complete: the client samples received_at.
Receive(v, r) ==
  /\ pc[v] = "idle"
  /\ deliveries < MaxDeliveries
  /\ deliveries' = deliveries + 1
  /\ resp' = [resp EXCEPT ![v] = r]
  /\ now' = [now EXCEPT ![v] = clock]
  /\ Goto(v, "received")
  /\ UNCHANGED <<clock, rows, storeNow, answer, accepted, lost, times>>

\* verify_signed_response up to the replay store: a failing check raises.
Verify(v) ==
  /\ pc[v] = "received"
  /\ IF Verdict(resp[v], now[v]) = "verified"
     THEN Goto(v, "verified") /\ UNCHANGED <<now, storeNow, answer>>
     ELSE Finish(v)
  /\ UNCHANGED <<clock, rows, resp, accepted, lost, times, deliveries>>

\* check_and_store has its lock and evaluates the argument of the DELETE.
StoreClock(v) ==
  /\ pc[v] = "verified"
  /\ storeNow' = [storeNow EXCEPT ![v] = clock]
  /\ Goto(v, "storing")
  /\ UNCHANGED <<clock, rows, resp, now, answer, accepted, lost, times, deliveries>>

\* The transaction DELETE, COUNT, INSERT commits.
StoreCommit(v) ==
  /\ pc[v] = "storing"
  /\ LET result == CheckAndStore(rows, resp[v], storeNow[v])
     IN  /\ rows' = result.rows
         /\ answer' = [answer EXCEPT ![v] = result.ok]
  /\ Goto(v, "returned")
  /\ UNCHANGED <<clock, resp, now, storeNow, accepted, lost, times, deliveries>>

\* verify_signed_response returns the artifact, or raises response_replayed.
Return(v) ==
  /\ pc[v] = "returned"
  /\ IF answer[v]
     THEN /\ accepted' = accepted \cup {resp[v]}
          /\ times' = [times EXCEPT ![resp[v].key] = @ + 1]
     ELSE UNCHANGED <<accepted, times>>
  /\ Finish(v)
  /\ UNCHANGED <<clock, rows, resp, lost, deliveries>>

\* The process stops, or sqlite3 raises (database locked): nothing of the
\* handling survives, and an open transaction is rolled back.  A memory store
\* is shared by the threads of one process and has no such failure of its own.
Abort(v) ==
  /\ Persistent
  /\ pc[v] # "idle"
  /\ lost' = IF Pending(v) THEN lost \cup {resp[v]} ELSE lost
  /\ Finish(v)
  /\ UNCHANGED <<clock, rows, resp, accepted, times, deliveries>>

Next ==
  \/ Tick
  \/ \E v \in Verifiers :
        \/ \E r \in Responses : Receive(v, r)
        \/ Verify(v)
        \/ StoreClock(v)
        \/ StoreCommit(v)
        \/ Return(v)
        \/ Abort(v)

Spec == Init /\ [][Next]_vars

-----------------------------------------------------------------------------
\* Steps of process v that the action properties are about.
Commits(v) == pc[v] = "storing" /\ pc'[v] = "returned"
Accepts(v) == pc[v] = "returned" /\ answer[v] /\ times'[resp[v].key] > times[resp[v].key]

\* A response that has been accepted and has not expired still has its row:
\* neither the deletion of expired rows with a stale clock, nor the capacity
\* limit, nor a crash ever removes the memory of a live acceptance
\* (SQLiteResponseReplayStore.check_and_store).
LiveAcceptanceStored ==
  \A r \in accepted : r.expires > clock => RowOf(r) \in rows

\* No two unexpired acceptances of one key, whatever the interleaving of the
\* processes: when a response is accepted and an earlier one with its key was
\* accepted too, one of the two has already expired.  (Not necessarily the
\* earlier: its process may have been overtaken between commit and return.)
NoSecondAcceptanceWhileLive ==
  [][\A v \in Verifiers : Accepts(v) =>
        \A r \in accepted : r.key = resp[v].key =>
           r.expires <= clock \/ resp[v].expires <= clock]_vars

\* The responses that have taken a slot, each by its own handling: those that
\* were accepted, are about to be, or were stored by a process that stopped
\* between its commit and its return.
Holders == accepted \cup lost \cup {resp[v] : v \in {w \in Verifiers : Pending(w)}}

\* The checks of verify_signed_response that do not lapse with time.
Passed(r) ==
  /\ r.defects = {}
  /\ r.expires <= ReqExpires[r.key]
  /\ r.issued + Skew >= ReqIssued[r.key]
  /\ r.issued <= clock + Skew

\* No response takes a slot before it has passed every check: the very response
\* whose handling made a row, which is not always one that was accepted, has no
\* defect and lies within its request.  So no forged, predating or overlong copy
\* of a response, whatever its key and expiry, makes the genuine one look
\* replayed (the store comes last in verify_signed_response).  And concurrent
\* inserts never take more than max_entries slots.
OnlyVerifiedStored ==
  /\ Cardinality(rows) <= MaxEntries
  /\ \A x \in rows : \E r \in Holders : RowOf(r) = x
  /\ \A r \in Holders : Passed(r)

\* Some response of the key that has taken a slot has not expired at t.
Held(k, t) == \E r \in Holders : r.key = k /\ r.expires > t

\* A verified response is refused only on account of what other handlings have
\* made of theirs: an unexpired response of its key was accepted, is about to
\* be, or was lost by a process that stopped after its commit; or max_entries
\* keys are taken in that way.  A handling that was refused, that failed a check
\* or that stopped before its commit costs nobody an acceptance.
RefusalHasHolder ==
  [][\A v \in Verifiers : (Commits(v) /\ ~ answer'[v]) =>
        \/ Held(resp[v].key, storeNow[v])
        \/ \E full \in SUBSET Keys :
              /\ Cardinality(full) >= MaxEntries
              /\ \A k \in full : Held(k, storeNow[v])]_vars

\* Each request is answered at most once: no key is ever accepted twice.
AtMostOnce == \A k \in Keys : times[k] <= 1
=============================================================================
