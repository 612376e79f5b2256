---------------------------- MODULE ResponseAuth ----------------------------
(***************************************************************************)
(* Response authentication of planrace/auth_v2.py, as operators: the       *)
(* checks of verify_signed_response in the order the code makes them, and  *)
(* check_and_store of the two replay stores as a function from the table   *)
(* before the call to the table and the answer after it.                   *)
(*                                                                         *)
(* A response is abstracted to what the checks and the stores tell apart:  *)
(* its replay key (miner_hotkey, request_nonce, request_id), its validity  *)
(* interval, and the set of binding checks it would fail (a signature, a   *)
(* digest or an identity that does not match is a defect of the response). *)
(***************************************************************************)
EXTENDS Naturals, Sequences, FiniteSets

CONSTANTS
  Keys,        \* replay keys
  Responses,   \* the responses that can be delivered
  ReqIssued,   \* ReqIssued[k]: issued_at_unix_ms of the request with key k
  ReqExpires,  \* ReqExpires[k]: its expires_at_unix_ms
  Skew,        \* max_clock_skew_ms
  MaxEntries,  \* max_entries of the store
  Persistent   \* TRUE: SQLiteResponseReplayStore, FALSE: the memory store

\* The checks of verify_signed_response, in the order of the code.
CheckOrder ==
  << "metagraph_identity_mismatch", "wrong_miner", "wrong_receiver",
     "wrong_request", "wrong_task", "wrong_nonce", "request_digest_mismatch",
     "engine_digest_mismatch", "artifact_digest_mismatch",
     "response_predates_request", "response_from_future",
     "response_outlives_request", "response_expired", "bad_signature" >>

TimeChecks == {"response_predates_request", "response_from_future",
               "response_outlives_request", "response_expired"}

BindingChecks == {CheckOrder[i] : i \in DOMAIN CheckOrder} \ TimeChecks

\* SignedOptimizationResponse: the model validator requires expires > issued.
Response == {r \in [key : Keys, issued : Nat, expires : Nat,
                    defects : SUBSET BindingChecks] : r.expires > r.issued}

ASSUME AuthAssumption ==
  /\ Responses \subseteq Response /\ Responses # {}
  /\ ReqIssued \in [Keys -> Nat]
  /\ ReqExpires \in [Keys -> Nat]
  /\ Skew \in Nat
  /\ MaxEntries \in Nat \ {0}
  /\ Persistent \in BOOLEAN

-----------------------------------------------------------------------------
\* The code of a time check fails in these cases; `now` is now_unix_ms.
FailsTimeCheck(c, r, now) ==
  \/ c = "response_predates_request" /\ r.issued + Skew < ReqIssued[r.key]
  \/ c = "response_from_future"      /\ r.issued > now + Skew
  \/ c = "response_outlives_request" /\ r.expires > ReqExpires[r.key]
  \/ c = "response_expired"          /\ r.expires < now

Fails(c, r, now) == c \in r.defects \/ FailsTimeCheck(c, r, now)

\* Fault: the signature is left for after the replay store.
VerdictUnsignedFault(r, now) ==
  LET failed == {i \in 1..13 : Fails(CheckOrder[i], r, now)}
  IN  IF failed = {} THEN "verified"
      ELSE CheckOrder[CHOOSE i \in failed : \A j \in failed : i <= j]

\* The code raised by the checks that precede the replay store: the first one
\* that fails, or "verified" when all of them pass.
Verdict(r, now) ==
  IF \A i \in DOMAIN CheckOrder : ~ Fails(CheckOrder[i], r, now)
  THEN "verified"
  ELSE CheckOrder[CHOOSE i \in DOMAIN CheckOrder :
                    /\ Fails(CheckOrder[i], r, now)
                    /\ \A j \in 1..(i - 1) : ~ Fails(CheckOrder[j], r, now)]

-----------------------------------------------------------------------------
\* A row of accepted_v2_responses.  The memory store keeps only the key; its
\* rows carry the expiry as well so that both stores have one type.
Row == [key : Keys, expires : Nat]

RowOf(r) == [key |-> r.key, expires |-> r.expires]

KeysOf(table) == {x.key : x \in table}

\* Fault: the deletion is one millisecond early.
PurgeFault(table, t) == IF Persistent THEN {x \in table : x.expires > t + 1} ELSE table

\* DELETE ... WHERE expires_at_unix_ms <= t.  The memory store never deletes.
Purge(table, t) == IF Persistent THEN {x \in table : x.expires > t} ELSE table

\* Fault: the key is not compared.
AdmitsAnyKeyFault(table, r) == Cardinality(table) < MaxEntries

\* The INSERT succeeds: below max_entries and no row with the same key.  (The
\* memory store tests the key first; the answer is False either way.)
Admits(table, r) == Cardinality(table) < MaxEntries /\ r.key \notin KeysOf(table)

\* Fault: the rows are counted before the expired ones are deleted.
CheckAndStoreFault(table, r, t) ==
  LET kept == Purge(table, t)
      ok   == Cardinality(table) < MaxEntries /\ r.key \notin KeysOf(kept)
  IN  [ok |-> ok, rows |-> IF ok THEN kept \cup {RowOf(r)} ELSE kept]

\* check_and_store: the answer, and the table it leaves.  The deletion is
\* committed whatever the answer is.
CheckAndStore(table, r, t) ==
  LET kept == Purge(table, t)
  IN  [ok   |-> Admits(kept, r),
       rows |-> IF Admits(kept, r) THEN kept \cup {RowOf(r)} ELSE kept]
=============================================================================
