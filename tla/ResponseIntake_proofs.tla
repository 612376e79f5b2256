------------------------ MODULE ResponseIntake_proofs ------------------------
(***************************************************************************)
(* Proofs about ResponseIntake, for any sets of keys, responses and        *)
(* processes, any store limit, and both kinds of store.                    *)
(*                                                                         *)
(* LiveAcceptanceStored is not inductive: a process that has committed its *)
(* row and not yet returned must be counted as well (PendingStored), every *)
(* clock sample is at most the clock (SamplesPast), and a table has one    *)
(* row per key (UniqueKeys).  OnlyVerifiedStored needs in addition that    *)
(* what a process is about to store has passed the checks.                 *)
(***************************************************************************)
EXTENDS ResponseIntake, FiniteSetTheorems, TLAPS

SamplesPast == \A v \in Verifiers : now[v] <= clock /\ storeNow[v] <= clock

UniqueKeys == \A x, y \in rows : x.key = y.key => x = y

PendingStored ==
  \A v \in Verifiers : Pending(v) /\ resp[v].expires > clock => RowOf(resp[v]) \in rows

\* Of two answers True for one key, given or pending, one has expired.
OneLivePerKey ==
  \A v \in Verifiers : Pending(v) =>
    /\ \A w \in Verifiers \ {v} : Pending(w) /\ resp[w].key = resp[v].key =>
         resp[w].expires <= clock \/ resp[v].expires <= clock
    /\ \A r \in accepted : r.key = resp[v].key =>
         r.expires <= clock \/ resp[v].expires <= clock

IInv ==
  /\ TypeOK
  /\ SamplesPast
  /\ UniqueKeys
  /\ LiveAcceptanceStored
  /\ PendingStored
  /\ OneLivePerKey

-----------------------------------------------------------------------------
\* The replay stores and the checks of ResponseAuth.

\* What the deletion leaves, for either store.
LEMMA PurgeFacts ==
  ASSUME NEW table \in SUBSET Row, NEW t \in Nat
  PROVE  /\ Purge(table, t) \subseteq table
         /\ \A x \in table : x.expires > t => x \in Purge(table, t)
  BY DEF Purge

\* What check_and_store does to a table, for either store.
LEMMA CheckAndStoreFacts ==
  ASSUME NEW table \in SUBSET Row, NEW r \in Responses, NEW t \in Nat
  PROVE  LET result == CheckAndStore(table, r, t)
         IN  /\ result.ok \in BOOLEAN
             /\ result.rows \in SUBSET Row
             /\ result.ok => RowOf(r) \in result.rows
             /\ \A x \in table : x.expires > t => x \in result.rows
             /\ \A x \in result.rows : x \in table \/ (x = RowOf(r) /\ result.ok)
             /\ result.ok => \A x \in table : x.key = r.key => x.expires <= t
             /\ result.ok => \A x \in result.rows : x.key = r.key => x = RowOf(r)
<1> DEFINE kept == Purge(table, t)
           result == CheckAndStore(table, r, t)
           ok == Admits(kept, r)
<1>1. r.key \in Keys /\ r.expires \in Nat
  BY AuthAssumption DEF Response
<1>2. RowOf(r) \in Row /\ RowOf(r).key = r.key
  BY <1>1 DEF RowOf, Row
<1>3. ok \in BOOLEAN
  BY Zenon DEF Admits
<1>4. result.ok = ok /\ result.rows = IF ok THEN kept \cup {RowOf(r)} ELSE kept
  BY Zenon DEF CheckAndStore
<1>5. ok => \A x \in kept : x.key # r.key
  BY DEF Admits, KeysOf
<1>6. \A x \in table : x.expires \in Nat
  BY DEF Row
<1> HIDE DEF kept, result, ok
<1>7. kept \subseteq table /\ \A x \in table : x.expires > t => x \in kept
  BY PurgeFacts DEF kept
<1>8. QED
  BY <1>2, <1>3, <1>4, <1>5, <1>6, <1>7 DEF result

-----------------------------------------------------------------------------
\* A non-empty set of indices of the checks has a first element.
LEMMA FirstIndex ==
  ASSUME NEW S \in SUBSET (1 .. 14), S # {}
  PROVE  \E m \in S : \A j \in 1 .. (m - 1) : j \notin S
<1> DEFINE T == {k \in 0 .. 14 : S \cap (1 .. k) # {} => \E m \in S : \A j \in 1 .. (m - 1) : j \notin S}
<1>1. 0 \in T
  OBVIOUS
<1>2. \A k \in 0 .. 13 : k \in T => k + 1 \in T
  <2> SUFFICES ASSUME NEW k \in 0 .. 13, k \in T, S \cap (1 .. (k + 1)) # {},
                      S \cap (1 .. k) = {}
               PROVE  \E m \in S : \A j \in 1 .. (m - 1) : j \notin S
    OBVIOUS
  <2>1. k + 1 \in S
    OBVIOUS
  <2>2. \A j \in 1 .. ((k + 1) - 1) : j \notin S
    OBVIOUS
  <2>3. QED
    BY <2>1, <2>2
<1> HIDE DEF T
<1>3. 1 \in T /\ 2 \in T /\ 3 \in T /\ 4 \in T
  BY <1>1, <1>2
<1>4. 5 \in T /\ 6 \in T /\ 7 \in T /\ 8 \in T
  BY <1>2, <1>3
<1>5. 9 \in T /\ 10 \in T /\ 11 \in T /\ 12 \in T
  BY <1>2, <1>4
<1>6. 13 \in T /\ 14 \in T
  BY <1>2, <1>5
<1>7. S \cap (1 .. 14) # {}
  OBVIOUS
<1>8. QED
  BY <1>6, <1>7 DEF T

\* A response is verified only if it passes every check.
LEMMA VerdictFacts ==
  ASSUME NEW r \in Responses, NEW t \in Nat, Verdict(r, t) = "verified"
  PROVE  /\ r.defects = {} /\ r.expires <= ReqExpires[r.key]
         /\ r.issued + Skew >= ReqIssued[r.key] /\ r.issued <= t + Skew
<1> DEFINE S == {i \in 1 .. 14 : Fails(CheckOrder[i], r, t)}
<1>1. DOMAIN CheckOrder = 1 .. 14
  BY DEF CheckOrder
<1>2. \A i \in 1 .. 14 : CheckOrder[i] # "verified"
  BY DEF CheckOrder
<1>3. S = {}
  <2> SUFFICES ASSUME S # {} PROVE FALSE
    OBVIOUS
  <2>1. \E m \in DOMAIN CheckOrder :
           /\ Fails(CheckOrder[m], r, t)
           /\ \A j \in 1 .. (m - 1) : ~ Fails(CheckOrder[j], r, t)
    <3>1. PICK m \in S : \A j \in 1 .. (m - 1) : j \notin S
      BY FirstIndex
    <3>2. \A j \in 1 .. (m - 1) : j \in 1 .. 14
      OBVIOUS
    <3>3. QED
      BY <1>1, <3>1, <3>2
  <2>2. PICK i \in 1 .. 14 : Verdict(r, t) = CheckOrder[i]
    BY <1>1, <2>1 DEF Verdict
  <2>3. QED
    BY <1>2, <2>2
<1>4. \A i \in 1 .. 14 : ~ Fails(CheckOrder[i], r, t)
  BY <1>3
<1>5. r \in Response /\ r.key \in Keys /\ ReqIssued[r.key] \in Nat /\ ReqExpires[r.key] \in Nat
      /\ r.issued \in Nat /\ r.expires \in Nat /\ Skew \in Nat
  BY AuthAssumption DEF Response
<1>6. r.defects = {}
  <2>1. r.defects \subseteq BindingChecks
    BY <1>5 DEF Response
  <2>2. \A c \in r.defects : \E i \in 1 .. 14 : CheckOrder[i] = c
    BY <1>1, <2>1 DEF BindingChecks
  <2>3. QED
    BY <1>4, <2>2 DEF Fails
<1>7. /\ CheckOrder[10] = "response_predates_request" /\ CheckOrder[11] = "response_from_future"
      /\ CheckOrder[12] = "response_outlives_request"
  BY DEF CheckOrder
<1>8. /\ ~ FailsTimeCheck("response_predates_request", r, t)
      /\ ~ FailsTimeCheck("response_from_future", r, t)
      /\ ~ FailsTimeCheck("response_outlives_request", r, t)
  BY <1>4, <1>7 DEF Fails
<1>9. QED
  BY <1>5, <1>6, <1>8 DEF FailsTimeCheck

-----------------------------------------------------------------------------
\* Init establishes the type invariant.
LEMMA InitTypeOK == Init => TypeOK
  BY AuthAssumption DEF Init, TypeOK, Steps, Row

\* Every step keeps the type invariant.
LEMMA NextTypeOK == TypeOK /\ [Next]_vars => TypeOK'
<1> SUFFICES ASSUME TypeOK, [Next]_vars PROVE TypeOK'
  OBVIOUS
<1> USE AuthAssumption DEF TypeOK, Steps
<1>1. CASE Tick
  BY <1>1 DEF Tick
<1>2. ASSUME NEW v \in Verifiers, NEW r \in Responses, Receive(v, r) PROVE TypeOK'
  BY <1>2 DEF Receive, Goto
<1>3. ASSUME NEW v \in Verifiers, Verify(v) PROVE TypeOK'
  <2>1. CASE Verdict(resp[v], now[v]) = "verified"
    BY <1>3, <2>1 DEF Verify, Goto
  <2>2. CASE Verdict(resp[v], now[v]) # "verified"
    <3>1. Finish(v) /\ UNCHANGED <<clock, rows, resp, accepted, lost, times, deliveries>>
      BY <1>3, <2>2 DEF Verify
    <3>2. QED
      BY <3>1 DEF Finish, Goto
  <2>3. QED
    BY <2>1, <2>2
<1>4. ASSUME NEW v \in Verifiers, StoreClock(v) PROVE TypeOK'
  BY <1>4 DEF StoreClock, Goto
<1>5. ASSUME NEW v \in Verifiers, StoreCommit(v) PROVE TypeOK'
  <2> DEFINE result == CheckAndStore(rows, resp[v], storeNow[v])
  <2>1. result.ok \in BOOLEAN /\ result.rows \in SUBSET Row
    BY CheckAndStoreFacts
  <2>2. QED
    BY <1>5, <2>1 DEF StoreCommit, Goto
<1>6. ASSUME NEW v \in Verifiers, Return(v) PROVE TypeOK'
  <2>1. resp[v].key \in Keys
    BY DEF Response
  <2>2. QED
    BY <1>6, <2>1 DEF Return, Finish, Goto
<1>7. ASSUME NEW v \in Verifiers, Abort(v) PROVE TypeOK'
  BY <1>7 DEF Abort, Finish, Goto, Pending
<1>8. CASE UNCHANGED vars
  BY <1>8 DEF vars
<1>9. QED
  BY <1>1, <1>2, <1>3, <1>4, <1>5, <1>6, <1>7, <1>8 DEF Next

\* Every variable keeps its type in every behaviour of the intake.
THEOREM TypeCorrect == Spec => []TypeOK
  BY InitTypeOK, NextTypeOK, PTL DEF Spec

-----------------------------------------------------------------------------
\* Init establishes the inductive invariant.
LEMMA InitIInv == Init => IInv
<1> SUFFICES ASSUME Init PROVE IInv
  OBVIOUS
<1>1. TypeOK
  BY InitTypeOK
<1>2. QED
  BY <1>1 DEF Init, IInv, SamplesPast, UniqueKeys, LiveAcceptanceStored, PendingStored,
              OneLivePerKey, Pending

\* Facts about the responses in play that the steps below use.
LEMMA ResponseFacts ==
  ASSUME TypeOK
  PROVE  /\ \A v \in Verifiers : resp[v] \in Responses
         /\ \A r \in Responses : r.key \in Keys /\ r.expires \in Nat
         /\ \A x \in rows : x.key \in Keys /\ x.expires \in Nat
         /\ \A r \in Responses : RowOf(r).key = r.key /\ RowOf(r).expires = r.expires
  BY AuthAssumption DEF TypeOK, Response, Row, RowOf

\* Steps that leave the table, the acceptances and the pending answers as they
\* are, while the clock does not go back, keep the invariant's main parts.
LEMMA QuietStep ==
  ASSUME IInv, TypeOK', clock' >= clock,
         rows' = rows, accepted' = accepted,
         \A v \in Verifiers : Pending(v)' => Pending(v) /\ resp'[v] = resp[v]
  PROVE  UniqueKeys' /\ LiveAcceptanceStored' /\ PendingStored' /\ OneLivePerKey'
<1> USE DEF IInv
<1>1. clock \in Nat /\ clock' \in Nat /\ accepted \subseteq Responses
  BY DEF TypeOK
<1>2. /\ \A v \in Verifiers : resp[v] \in Responses
      /\ \A r \in Responses : r.key \in Keys /\ r.expires \in Nat
  BY ResponseFacts
<1>3. UniqueKeys'
  BY DEF UniqueKeys
<1>4. LiveAcceptanceStored'
  BY <1>1, <1>2 DEF LiveAcceptanceStored
<1>5. PendingStored'
  BY <1>1, <1>2 DEF PendingStored
<1>6. OneLivePerKey'
  BY <1>1, <1>2 DEF OneLivePerKey
<1>7. QED
  BY <1>3, <1>4, <1>5, <1>6

\* The commit of a store transaction keeps the invariant.
LEMMA CommitStep ==
  ASSUME IInv, TypeOK', NEW v \in Verifiers, StoreCommit(v)
  PROVE  UniqueKeys' /\ LiveAcceptanceStored' /\ PendingStored' /\ OneLivePerKey'
<1> DEFINE result == CheckAndStore(rows, resp[v], storeNow[v])
<1>1. /\ TypeOK /\ SamplesPast /\ UniqueKeys /\ LiveAcceptanceStored
      /\ PendingStored /\ OneLivePerKey
  BY DEF IInv
<1>2. /\ clock \in Nat /\ storeNow[v] \in Nat /\ storeNow[v] <= clock
      /\ accepted \subseteq Responses /\ rows \in SUBSET Row
  BY <1>1 DEF TypeOK, SamplesPast
<1>3. /\ \A w \in Verifiers : resp[w] \in Responses
      /\ \A r \in Responses : r.key \in Keys /\ r.expires \in Nat
      /\ \A x \in rows : x.key \in Keys /\ x.expires \in Nat
      /\ \A r \in Responses : RowOf(r).key = r.key /\ RowOf(r).expires = r.expires
  BY <1>1, ResponseFacts
<1>4. /\ result.ok \in BOOLEAN
      /\ result.ok => RowOf(resp[v]) \in result.rows
      /\ \A x \in rows : x.expires > storeNow[v] => x \in result.rows
      /\ \A x \in result.rows : x \in rows \/ (x = RowOf(resp[v]) /\ result.ok)
      /\ result.ok => \A x \in rows : x.key = resp[v].key => x.expires <= storeNow[v]
      /\ result.ok => \A x \in result.rows : x.key = resp[v].key => x = RowOf(resp[v])
  BY <1>2, <1>3, CheckAndStoreFacts
<1>5. /\ rows' = result.rows /\ clock' = clock /\ accepted' = accepted /\ resp' = resp
      /\ ~ Pending(v)
      /\ Pending(v)' <=> result.ok
      /\ \A w \in Verifiers \ {v} : Pending(w)' <=> Pending(w)
  BY <1>1, <1>4 DEF StoreCommit, Goto, Pending, TypeOK
<1> HIDE DEF result
<1>6. UniqueKeys'
  BY <1>1, <1>3, <1>4, <1>5 DEF UniqueKeys
<1>7. LiveAcceptanceStored'
  BY <1>1, <1>2, <1>3, <1>4, <1>5 DEF LiveAcceptanceStored
<1>8. PendingStored'
  BY <1>1, <1>2, <1>3, <1>4, <1>5 DEF PendingStored
<1>9. OneLivePerKey'
  <2>1. \A w \in Verifiers : Pending(w) /\ result.ok /\ resp[w].key = resp[v].key =>
          resp[w].expires <= clock
    BY <1>1, <1>2, <1>3, <1>4 DEF PendingStored
  <2>2. \A r \in accepted : result.ok /\ r.key = resp[v].key => r.expires <= clock
    BY <1>1, <1>2, <1>3, <1>4 DEF LiveAcceptanceStored
  <2>3. QED
    BY <1>1, <1>3, <1>5, <2>1, <2>2 DEF OneLivePerKey
<1>10. QED
  BY <1>6, <1>7, <1>8, <1>9

\* The return of an answer keeps the invariant.
LEMMA ReturnStep ==
  ASSUME IInv, TypeOK', NEW v \in Verifiers, Return(v)
  PROVE  UniqueKeys' /\ LiveAcceptanceStored' /\ PendingStored' /\ OneLivePerKey'
<1>1. /\ TypeOK /\ UniqueKeys /\ LiveAcceptanceStored
      /\ PendingStored /\ OneLivePerKey
  BY DEF IInv
<1>2. /\ \A w \in Verifiers : resp[w] \in Responses
      /\ \A r \in Responses : r.key \in Keys /\ r.expires \in Nat
  BY <1>1, ResponseFacts
<1>3. /\ rows' = rows /\ clock' = clock /\ resp' = resp /\ clock \in Nat
      /\ accepted \subseteq Responses
  BY <1>1 DEF Return, TypeOK
<1>4. /\ ~ Pending(v)'
      /\ \A w \in Verifiers \ {v} : Pending(w)' <=> Pending(w)
  BY <1>1 DEF Return, Finish, Goto, Pending, TypeOK
<1>5. \A r \in accepted' : r \in accepted \/ (r = resp[v] /\ Pending(v))
  BY <1>1 DEF Return, Pending, TypeOK
<1>6. UniqueKeys'
  BY <1>1, <1>3 DEF UniqueKeys
<1>7. LiveAcceptanceStored'
  BY <1>1, <1>2, <1>3, <1>5 DEF LiveAcceptanceStored, PendingStored
<1>8. PendingStored'
  BY <1>1, <1>2, <1>3, <1>4 DEF PendingStored
<1>9. OneLivePerKey'
  BY <1>1, <1>2, <1>3, <1>4, <1>5 DEF OneLivePerKey
<1>10. QED
  BY <1>6, <1>7, <1>8, <1>9

\* Every step keeps the inductive invariant.
LEMMA NextIInv == IInv /\ [Next]_vars => IInv'
<1> SUFFICES ASSUME IInv, [Next]_vars PROVE IInv'
  OBVIOUS
<1>1. TypeOK /\ TypeOK'
  BY NextTypeOK DEF IInv
<1> USE <1>1
<1>2. CASE Tick
  <2>1. /\ clock' >= clock /\ rows' = rows /\ accepted' = accepted
        /\ \A v \in Verifiers : Pending(v)' => Pending(v) /\ resp'[v] = resp[v]
    BY <1>2 DEF Tick, TypeOK, Pending
  <2>2. SamplesPast'
    BY <1>2 DEF Tick, IInv, SamplesPast, TypeOK
  <2>3. QED
    BY <2>1, <2>2, QuietStep DEF IInv
<1>3. ASSUME NEW v \in Verifiers, NEW r \in Responses, Receive(v, r) PROVE IInv'
  <2>1. /\ clock' >= clock /\ rows' = rows /\ accepted' = accepted
        /\ \A w \in Verifiers : Pending(w)' => Pending(w) /\ resp'[w] = resp[w]
    BY <1>3 DEF Receive, Goto, TypeOK, Pending
  <2>2. SamplesPast'
    BY <1>3 DEF Receive, IInv, SamplesPast, TypeOK
  <2>3. QED
    BY <2>1, <2>2, QuietStep DEF IInv
<1>4. ASSUME NEW v \in Verifiers, Verify(v) PROVE IInv'
  <2>1. /\ clock' >= clock /\ rows' = rows /\ accepted' = accepted
        /\ \A w \in Verifiers : Pending(w)' => Pending(w) /\ resp'[w] = resp[w]
    BY <1>4 DEF Verify, Finish, Goto, TypeOK, Pending
  <2>2. SamplesPast'
    BY <1>4 DEF Verify, Finish, Goto, IInv, SamplesPast, TypeOK
  <2>3. QED
    BY <2>1, <2>2, QuietStep DEF IInv
<1>5. ASSUME NEW v \in Verifiers, StoreClock(v) PROVE IInv'
  <2>1. /\ clock' >= clock /\ rows' = rows /\ accepted' = accepted
        /\ \A w \in Verifiers : Pending(w)' => Pending(w) /\ resp'[w] = resp[w]
    BY <1>5 DEF StoreClock, Goto, TypeOK, Pending
  <2>2. SamplesPast'
    BY <1>5 DEF StoreClock, IInv, SamplesPast, TypeOK
  <2>3. QED
    BY <2>1, <2>2, QuietStep DEF IInv
<1>6. ASSUME NEW v \in Verifiers, StoreCommit(v) PROVE IInv'
  <2>1. SamplesPast'
    BY <1>6 DEF StoreCommit, IInv, SamplesPast, TypeOK
  <2>2. QED
    BY <1>6, <2>1, CommitStep DEF IInv
<1>7. ASSUME NEW v \in Verifiers, Return(v) PROVE IInv'
  <2>1. SamplesPast'
    BY <1>7 DEF Return, Finish, IInv, SamplesPast, TypeOK
  <2>2. QED
    BY <1>7, <2>1, ReturnStep DEF IInv
<1>8. ASSUME NEW v \in Verifiers, Abort(v) PROVE IInv'
  <2>1. /\ clock' >= clock /\ rows' = rows /\ accepted' = accepted
        /\ \A w \in Verifiers : Pending(w)' => Pending(w) /\ resp'[w] = resp[w]
    BY <1>8 DEF Abort, Finish, Goto, TypeOK, Pending
  <2>2. SamplesPast'
    BY <1>8 DEF Abort, Finish, IInv, SamplesPast, TypeOK
  <2>3. QED
    BY <2>1, <2>2, QuietStep DEF IInv
<1>9. CASE UNCHANGED vars
  <2>1. /\ clock' >= clock /\ rows' = rows /\ accepted' = accepted
        /\ \A w \in Verifiers : Pending(w)' => Pending(w) /\ resp'[w] = resp[w]
    BY <1>9 DEF vars, TypeOK, Pending
  <2>2. SamplesPast'
    BY <1>9 DEF vars, IInv, SamplesPast
  <2>3. QED
    BY <2>1, <2>2, QuietStep DEF IInv
<1>10. QED
  BY <1>2, <1>3, <1>4, <1>5, <1>6, <1>7, <1>8, <1>9 DEF Next

\* An accepted response that has not expired keeps its row in the replay store
\* in every behaviour, for any number of processes and any store limit.
THEOREM LiveAcceptancesAreStored == Spec => []LiveAcceptanceStored
<1>1. IInv => LiveAcceptanceStored
  BY DEF IInv
<1>2. QED
  BY <1>1, InitIInv, NextIInv, PTL DEF Spec

\* No response is accepted while another acceptance of its key is live and it
\* is live itself.
THEOREM AcceptancesDoNotOverlap == Spec => NoSecondAcceptanceWhileLive
<1>1. IInv => \A v \in Verifiers : Accepts(v) =>
                 \A r \in accepted : r.key = resp[v].key =>
                    r.expires <= clock \/ resp[v].expires <= clock
  BY DEF IInv, OneLivePerKey, Pending, Accepts
<1>2. QED
  BY <1>1, InitIInv, NextIInv, PTL DEF Spec, NoSecondAcceptanceWhileLive

-----------------------------------------------------------------------------
\* With the memory store, which deletes nothing: whatever is pending or has
\* been accepted has its key in the table, and is the only one of its key.
KeyTaken(k) == \E x \in rows : x.key = k

MemoryInv ==
  /\ TypeOK
  /\ \A v \in Verifiers : Pending(v) =>
        /\ KeyTaken(resp[v].key) /\ times[resp[v].key] = 0
        /\ \A w \in Verifiers \ {v} : Pending(w) => resp[w].key # resp[v].key
  /\ \A k \in Keys : times[k] > 0 => KeyTaken(k)
  /\ AtMostOnce

\* Steps that leave the table, the counts and the pending answers as they are
\* keep it.
LEMMA MemoryQuietStep ==
  ASSUME MemoryInv, TypeOK', rows' = rows, times' = times,
         \A v \in Verifiers : Pending(v)' => Pending(v) /\ resp'[v] = resp[v]
  PROVE  MemoryInv'
<1>1. \A k : KeyTaken(k)' <=> KeyTaken(k)
  BY DEF KeyTaken
<1>2. AtMostOnce'
  BY DEF MemoryInv, AtMostOnce
<1>3. QED
  BY <1>1, <1>2 DEF MemoryInv

\* A commit keeps it: the insert of a key that is taken is refused.
LEMMA MemoryCommitStep ==
  ASSUME ~ Persistent, MemoryInv, TypeOK', NEW v \in Verifiers, StoreCommit(v)
  PROVE  MemoryInv'
<1> DEFINE result == CheckAndStore(rows, resp[v], storeNow[v])
<1>1. /\ TypeOK /\ storeNow[v] \in Nat /\ rows \in SUBSET Row
      /\ resp \in [Verifiers -> Responses] /\ times \in [Keys -> Nat]
  BY DEF MemoryInv, TypeOK
<1>2. \A r \in Responses : r.key \in Keys /\ RowOf(r).key = r.key
  BY <1>1, ResponseFacts
<1>3. result.ok \in BOOLEAN /\ (result.ok => RowOf(resp[v]) \in result.rows)
  BY <1>1, CheckAndStoreFacts
<1>4. rows \subseteq result.rows /\ (result.ok => ~ KeyTaken(resp[v].key))
  BY DEF CheckAndStore, Purge, Admits, KeysOf, KeyTaken
<1>5. /\ rows' = result.rows /\ times' = times /\ resp' = resp
      /\ ~ Pending(v) /\ (Pending(v)' <=> result.ok)
      /\ \A w \in Verifiers \ {v} : Pending(w)' <=> Pending(w)
  BY <1>1, <1>3 DEF StoreCommit, Goto, Pending, TypeOK
<1> HIDE DEF result
<1>6. /\ \A k : KeyTaken(k) => KeyTaken(k)'
      /\ result.ok => KeyTaken(resp[v].key)'
  BY <1>1, <1>2, <1>3, <1>4, <1>5 DEF KeyTaken
<1>7. result.ok => times[resp[v].key] = 0
  BY <1>1, <1>2, <1>4 DEF MemoryInv
<1>8. AtMostOnce'
  BY <1>5 DEF MemoryInv, AtMostOnce
<1>9. QED
  BY <1>1, <1>2, <1>4, <1>5, <1>6, <1>7, <1>8 DEF MemoryInv

\* A return keeps it: the key of what is pending has not been accepted before.
LEMMA MemoryReturnStep ==
  ASSUME MemoryInv, TypeOK', NEW v \in Verifiers, Return(v)
  PROVE  MemoryInv'
<1>1. /\ TypeOK /\ resp \in [Verifiers -> Responses] /\ times \in [Keys -> Nat]
      /\ answer[v] \in BOOLEAN
  BY DEF MemoryInv, TypeOK
<1>2. \A r \in Responses : r.key \in Keys
  BY <1>1, ResponseFacts
<1>3. /\ rows' = rows /\ resp' = resp /\ ~ Pending(v)'
      /\ \A w \in Verifiers \ {v} : Pending(w)' <=> Pending(w)
      /\ times' = IF Pending(v) THEN [times EXCEPT ![resp[v].key] = @ + 1] ELSE times
  BY <1>1 DEF Return, Finish, Goto, Pending, TypeOK
<1>4. \A k : KeyTaken(k)' <=> KeyTaken(k)
  BY <1>3 DEF KeyTaken
<1>5. CASE Pending(v)
  BY <1>1, <1>2, <1>3, <1>4, <1>5 DEF MemoryInv, AtMostOnce
<1>6. CASE ~ Pending(v)
  BY <1>1, <1>3, <1>4, <1>6 DEF MemoryInv, AtMostOnce
<1>7. QED
  BY <1>5, <1>6

\* The memory store accepts no key twice, whatever the interleaving of the
\* threads and however late a copy is (MemoryResponseReplayStore).  For the
\* SQLite store this is false.
THEOREM MemoryStoreAcceptsOnce ==
  ASSUME ~ Persistent
  PROVE  Spec => []AtMostOnce
<1>1. Init => MemoryInv
  <2> SUFFICES ASSUME Init PROVE MemoryInv
    OBVIOUS
  <2>1. TypeOK
    BY InitTypeOK
  <2>2. QED
    BY <2>1 DEF Init, MemoryInv, AtMostOnce, Pending, KeyTaken
<1>2. MemoryInv /\ [Next]_vars => MemoryInv'
  <2> SUFFICES ASSUME MemoryInv, [Next]_vars PROVE MemoryInv'
    OBVIOUS
  <2>1. TypeOK /\ TypeOK'
    BY NextTypeOK DEF MemoryInv
  <2> USE <2>1
  <2>2. ASSUME NEW v \in Verifiers, StoreCommit(v) PROVE MemoryInv'
    BY <2>2, MemoryCommitStep
  <2>3. ASSUME NEW v \in Verifiers, Return(v) PROVE MemoryInv'
    BY <2>3, MemoryReturnStep
  <2>4. CASE Tick \/ UNCHANGED vars
    BY <2>4, MemoryQuietStep DEF Tick, vars, Pending
  <2>5. ASSUME NEW v \in Verifiers, NEW r \in Responses, Receive(v, r) PROVE MemoryInv'
    <3>1. /\ rows' = rows /\ times' = times
          /\ \A w \in Verifiers : Pending(w)' => Pending(w) /\ resp'[w] = resp[w]
      BY <2>5 DEF Receive, Goto, TypeOK, Pending
    <3>2. QED
      BY <3>1, MemoryQuietStep
  <2>6. ASSUME NEW v \in Verifiers, Verify(v) \/ StoreClock(v) \/ Abort(v) PROVE MemoryInv'
    <3>1. /\ rows' = rows /\ times' = times
          /\ \A w \in Verifiers : Pending(w)' => Pending(w) /\ resp'[w] = resp[w]
      BY <2>6 DEF Verify, StoreClock, Abort, Finish, Goto, TypeOK, Pending
    <3>2. QED
      BY <3>1, MemoryQuietStep
  <2>7. QED
    BY <2>2, <2>3, <2>4, <2>5, <2>6 DEF Next
<1>3. MemoryInv => AtMostOnce
  BY DEF MemoryInv
<1>4. QED
  BY <1>1, <1>2, <1>3, PTL DEF Spec

-----------------------------------------------------------------------------
\* What is stored has been verified, and what is about to be stored too.
StoredInv ==
  /\ IsFiniteSet(rows) /\ OnlyVerifiedStored
  /\ \A v \in Verifiers : pc[v] \in {"verified", "storing"} => Passed(resp[v])

\* check_and_store keeps the table within max_entries.
LEMMA StoreSize ==
  ASSUME NEW table, IsFiniteSet(table), Cardinality(table) <= MaxEntries,
         NEW r \in Responses, NEW t \in Nat
  PROVE  /\ IsFiniteSet(CheckAndStore(table, r, t).rows)
         /\ Cardinality(CheckAndStore(table, r, t).rows) <= MaxEntries
<1> DEFINE kept == Purge(table, t)
<1>1. kept \subseteq table
  BY DEF Purge
<1>2. /\ IsFiniteSet(kept) /\ Cardinality(kept) \in Nat /\ Cardinality(table) \in Nat
      /\ Cardinality(kept) <= Cardinality(table)
  BY <1>1, FS_Subset, FS_CardinalityType
<1>3. /\ IsFiniteSet(kept \cup {RowOf(r)})
      /\ Cardinality(kept \cup {RowOf(r)}) \in {Cardinality(kept), Cardinality(kept) + 1}
  BY <1>2, FS_AddElement
<1>4. /\ Admits(kept, r) => Cardinality(kept) < MaxEntries
      /\ CheckAndStore(table, r, t).rows = IF Admits(kept, r) THEN kept \cup {RowOf(r)} ELSE kept
  BY DEF Admits, CheckAndStore
<1> HIDE DEF kept
<1>5. QED
  BY <1>2, <1>3, <1>4, AuthAssumption

\* What has passed goes on passing.
LEMMA PassedStays ==
  ASSUME TypeOK, clock' \in Nat, clock' >= clock, NEW r \in Responses, Passed(r)
  PROVE  Passed(r)'
<1>1. clock \in Nat /\ r.issued \in Nat /\ Skew \in Nat
  BY AuthAssumption DEF TypeOK, Response
<1>2. QED
  BY <1>1 DEF Passed

\* Who holds a slot.
LEMMA HoldersAre ==
  \A r : r \in Holders <=> \/ r \in accepted \/ r \in lost
                           \/ \E v \in Verifiers : Pending(v) /\ resp[v] = r
  BY DEF Holders

\* A process that was not pending and is not pending changes no holder.
LEMMA HoldersKept ==
  ASSUME UNCHANGED <<accepted, lost>>,
         \A v \in Verifiers : /\ Pending(v)' <=> Pending(v)
                              /\ Pending(v) => resp'[v] = resp[v]
  PROVE  Holders' = Holders
<1>1. \A r : r \in Holders' <=> \/ r \in accepted' \/ r \in lost'
                                \/ \E v \in Verifiers : Pending(v)' /\ resp'[v] = r
  BY DEF Holders
<1>2. QED
  BY <1>1, HoldersAre

\* Steps that leave the table and the holders alone and verify nothing.
LEMMA QuietStored ==
  ASSUME TypeOK, TypeOK', StoredInv, clock' >= clock, rows' = rows, Holders' = Holders,
         \A v \in Verifiers : pc'[v] \in {"verified", "storing"} =>
            pc[v] \in {"verified", "storing"} /\ resp'[v] = resp[v]
  PROVE  StoredInv'
<1>1. clock' \in Nat /\ \A v \in Verifiers : resp[v] \in Responses
  BY DEF TypeOK
<1>2. \A r \in Responses : Passed(r) => Passed(r)'
  BY <1>1, PassedStays
<1>3. Holders \subseteq Responses
  BY DEF Holders, TypeOK
<1>4. OnlyVerifiedStored'
  BY <1>2, <1>3 DEF StoredInv, OnlyVerifiedStored
<1>5. QED
  BY <1>1, <1>2, <1>4 DEF StoredInv

LEMMA CommitStored ==
  ASSUME TypeOK, TypeOK', StoredInv, NEW v \in Verifiers, StoreCommit(v)
  PROVE  StoredInv'
<1> DEFINE result == CheckAndStore(rows, resp[v], storeNow[v])
<1>1. /\ pc[v] = "storing" /\ pc' = [pc EXCEPT ![v] = "returned"] /\ rows' = result.rows
      /\ answer' = [answer EXCEPT ![v] = result.ok]
      /\ UNCHANGED <<clock, resp, accepted, lost>>
  BY DEF StoreCommit, Goto
<1>2. resp[v] \in Responses /\ storeNow[v] \in Nat /\ rows \in SUBSET Row
  BY DEF TypeOK
<1>3. /\ result.ok \in BOOLEAN
      /\ \A x \in result.rows : x \in rows \/ (x = RowOf(resp[v]) /\ result.ok)
  BY <1>2, CheckAndStoreFacts
<1>4. IsFiniteSet(result.rows) /\ Cardinality(result.rows) <= MaxEntries
  BY <1>2, StoreSize DEF StoredInv, OnlyVerifiedStored
<1> HIDE DEF result
<1>5. Passed(resp[v])
  BY <1>1 DEF StoredInv
<1>6. /\ ~ Pending(v) /\ (Pending(v)' <=> result.ok)
      /\ \A w \in Verifiers \ {v} : Pending(w)' <=> Pending(w)
  BY <1>1, <1>3 DEF Pending, TypeOK
<1>7. \A r : r \in Holders' <=> \/ r \in accepted' \/ r \in lost'
                                \/ \E w \in Verifiers : Pending(w)' /\ resp'[w] = r
  BY DEF Holders
<1>8. /\ Holders \subseteq Holders'
      /\ \A r \in Holders' : r \in Holders \/ r = resp[v]
      /\ result.ok => resp[v] \in Holders'
  BY <1>1, <1>6, <1>7, HoldersAre
<1>9. \A r : Passed(r)' <=> Passed(r)
  BY <1>1 DEF Passed
<1>10. OnlyVerifiedStored'
  <2>1. \A x \in rows' : \E r \in Holders' : RowOf(r) = x
    BY <1>1, <1>3, <1>8 DEF StoredInv, OnlyVerifiedStored
  <2>2. \A r \in Holders' : Passed(r)
    BY <1>5, <1>8 DEF StoredInv, OnlyVerifiedStored
  <2>3. QED
    BY <1>1, <1>4, <1>9, <2>1, <2>2 DEF OnlyVerifiedStored
<1>11. \A w \in Verifiers : pc'[w] \in {"verified", "storing"} => Passed(resp[w])
  BY <1>1 DEF StoredInv, TypeOK
<1>12. QED
  BY <1>1, <1>4, <1>9, <1>10, <1>11 DEF StoredInv

LEMMA VerifyStored ==
  ASSUME TypeOK, TypeOK', SamplesPast, StoredInv, NEW v \in Verifiers, Verify(v)
  PROVE  StoredInv'
<1>1. pc[v] = "received" /\ UNCHANGED <<clock, rows, resp, accepted, lost>>
  BY DEF Verify
<1>2. \E step \in {"idle", "verified"} : pc' = [pc EXCEPT ![v] = step]
  BY DEF Verify, Finish, Goto
<1>3. \A w \in Verifiers \ {v} : answer'[w] = answer[w]
  BY DEF Verify, Finish, TypeOK
<1>4. Holders' = Holders
  <2>1. \A w \in Verifiers : /\ Pending(w)' <=> Pending(w)
                             /\ Pending(w) => resp'[w] = resp[w]
    BY <1>1, <1>2, <1>3 DEF Pending, TypeOK
  <2>2. QED
    BY <1>1, <2>1, HoldersKept
<1>5. CASE Finish(v)
  <2>1. pc' = [pc EXCEPT ![v] = "idle"]
    BY <1>5 DEF Finish, Goto
  <2>2. \A w \in Verifiers : pc'[w] \in {"verified", "storing"} =>
           pc[w] \in {"verified", "storing"} /\ resp'[w] = resp[w]
    BY <1>1, <2>1 DEF TypeOK
  <2>3. clock' >= clock
    BY <1>1 DEF TypeOK
  <2>4. QED
    BY <1>1, <1>4, <2>2, <2>3, QuietStored
<1>6. CASE Verdict(resp[v], now[v]) = "verified" /\ Goto(v, "verified")
  <2>1. resp[v] \in Responses /\ now[v] \in Nat /\ now[v] <= clock /\ clock \in Nat /\ Skew \in Nat
        /\ resp[v].issued \in Nat
    BY AuthAssumption DEF TypeOK, SamplesPast, Response
  <2>2. Passed(resp[v])
    BY <1>6, <2>1, VerdictFacts DEF Passed
  <2>3. \A w \in Verifiers : pc'[w] = IF w = v THEN "verified" ELSE pc[w]
    BY <1>6 DEF Goto, TypeOK
  <2>4. \A w \in Verifiers : pc'[w] \in {"verified", "storing"} => Passed(resp[w])
    BY <2>2, <2>3 DEF StoredInv
  <2>5. \A r : Passed(r)' <=> Passed(r)
    BY <1>1 DEF Passed
  <2>6. OnlyVerifiedStored'
    BY <1>1, <1>4, <2>5 DEF StoredInv, OnlyVerifiedStored
  <2>7. QED
    BY <1>1, <2>4, <2>5, <2>6 DEF StoredInv
<1>7. QED
  BY <1>5, <1>6 DEF Verify

\* A process that returns, or stops after its commit, hands its slot over to
\* the history.
LEMMA EndsHolders ==
  ASSUME TypeOK, NEW v \in Verifiers, Return(v) \/ Abort(v)
  PROVE  Holders' = Holders
<1>1. /\ resp' = resp /\ pc' = [pc EXCEPT ![v] = "idle"]
      /\ answer' = [answer EXCEPT ![v] = FALSE]
  BY DEF Return, Abort, Finish, Goto
<1>2. /\ ~ Pending(v)'
      /\ \A w \in Verifiers \ {v} : Pending(w)' <=> Pending(w)
  BY <1>1 DEF Pending, TypeOK
<1>3. /\ accepted \subseteq accepted' /\ lost \subseteq lost'
      /\ \A r : r \in accepted' \cup lost' <=>
           r \in accepted \cup lost \/ (Pending(v) /\ r = resp[v])
  <2>1. CASE Return(v)
    BY <2>1 DEF Return, Pending
  <2>2. CASE Abort(v)
    BY <2>2 DEF Abort
  <2>3. QED
    BY <2>1, <2>2
<1>4. \A r : r \in Holders' <=> \/ r \in accepted' \/ r \in lost'
                                \/ \E w \in Verifiers : Pending(w)' /\ resp'[w] = r
  BY DEF Holders
<1>5. QED
  BY <1>1, <1>2, <1>3, <1>4, HoldersAre

LEMMA NextStored == IInv /\ StoredInv /\ [Next]_vars => StoredInv'
<1> SUFFICES ASSUME IInv, StoredInv, [Next]_vars PROVE StoredInv'
  OBVIOUS
<1>1. TypeOK /\ TypeOK' /\ SamplesPast
  BY NextTypeOK DEF IInv
<1>2. CASE Tick \/ UNCHANGED vars
  <2>1. Holders' = Holders
    BY <1>2, HoldersKept DEF Tick, vars, Pending
  <2>2. QED
    BY <1>1, <1>2, <2>1, QuietStored DEF Tick, vars, TypeOK
<1>3. ASSUME NEW v \in Verifiers, \E r \in Responses : Receive(v, r) PROVE StoredInv'
  <2>1. Holders' = Holders
    BY <1>1, <1>3, HoldersKept DEF Receive, Goto, Pending, TypeOK
  <2>2. QED
    BY <1>1, <1>3, <2>1, QuietStored DEF Receive, Goto, TypeOK
<1>4. ASSUME NEW v \in Verifiers, StoreClock(v) PROVE StoredInv'
  <2>1. Holders' = Holders
    BY <1>1, <1>4, HoldersKept DEF StoreClock, Goto, Pending, TypeOK
  <2>2. QED
    BY <1>1, <1>4, <2>1, QuietStored DEF StoreClock, Goto, TypeOK
<1>5. ASSUME NEW v \in Verifiers, Return(v) \/ Abort(v) PROVE StoredInv'
  <2>1. Holders' = Holders
    BY <1>1, <1>5, EndsHolders
  <2>2. QED
    BY <1>1, <1>5, <2>1, QuietStored DEF Return, Abort, Finish, Goto, TypeOK
<1>6. QED
  BY <1>1, <1>2, <1>3, <1>4, <1>5, CommitStored, VerifyStored DEF Next

LEMMA StoredInvariant == Spec => []StoredInv
<1>1. Init => StoredInv
  BY FS_EmptySet, AuthAssumption DEF Init, StoredInv, OnlyVerifiedStored, Holders, Pending
<1>2. QED
  BY <1>1, InitIInv, NextIInv, NextStored, PTL DEF Spec

\* Every slot of the replay store was taken by a response that had passed every
\* check of verify_signed_response, and the store never holds more than
\* max_entries of them.
THEOREM StoredIsVerified == Spec => []OnlyVerifiedStored
<1>1. StoredInv => OnlyVerifiedStored
  BY DEF StoredInv
<1>2. QED
  BY <1>1, StoredInvariant, PTL

-----------------------------------------------------------------------------
\* A refusal, for either reason, has other handlings behind it.
LEMMA RefusalFacts ==
  ASSUME Persistent, IInv, StoredInv, NEW v \in Verifiers,
         ~ CheckAndStore(rows, resp[v], storeNow[v]).ok
  PROVE  \/ Held(resp[v].key, storeNow[v])
         \/ \E full \in SUBSET Keys :
              /\ Cardinality(full) >= MaxEntries
              /\ \A k \in full : Held(k, storeNow[v])
<1> DEFINE live == Purge(rows, storeNow[v])
           full == KeysOf(live)
<1>1. live \subseteq rows /\ \A x \in live : x.expires > storeNow[v]
  BY DEF Purge
<1>2. \A x \in live : x.key \in Keys
  BY <1>1 DEF IInv, TypeOK, Row
<1>3. \A x \in live : Held(x.key, storeNow[v])
  <2> SUFFICES ASSUME NEW x \in live PROVE Held(x.key, storeNow[v])
    OBVIOUS
  <2>1. PICK r \in Holders : RowOf(r) = x
    BY <1>1 DEF StoredInv, OnlyVerifiedStored
  <2>2. r.key = x.key /\ r.expires = x.expires
    BY <2>1 DEF RowOf
  <2>3. QED
    BY <1>1, <2>2 DEF Held
<1>4. IsFiniteSet(live) /\ Cardinality(live) \in Nat
  BY <1>1, FS_Subset, FS_CardinalityType DEF StoredInv
<1>5. Cardinality(full) = Cardinality(live)
  <2> DEFINE f == [x \in live |-> x.key]
  <2>1. f \in Bijection(live, full)
    <3>1. f \in [live -> full] /\ \A k \in full : \E x \in live : f[x] = k
      BY DEF KeysOf
    <3>2. \A x, y \in live : f[x] = f[y] => x = y
      BY <1>1 DEF IInv, UniqueKeys
    <3>3. QED
      BY <3>1, <3>2 DEF Bijection, Injection, Surjection, IsInjective
  <2>2. ExistsBijection(live, full)
    BY <2>1 DEF ExistsBijection
  <2>3. QED
    BY <1>4, <2>2, FS_Bijection
<1>6. CASE resp[v].key \in KeysOf(live)
  BY <1>3, <1>6 DEF KeysOf
<1>7. CASE resp[v].key \notin KeysOf(live)
  <2>1. ~ (Cardinality(live) < MaxEntries)
    BY <1>7 DEF CheckAndStore, Admits
  <2>2. Cardinality(full) >= MaxEntries
    BY <1>4, <1>5, <2>1, AuthAssumption
  <2>3. full \in SUBSET Keys /\ \A k \in full : Held(k, storeNow[v])
    BY <1>2, <1>3 DEF KeysOf
  <2>4. QED
    BY <2>2, <2>3
<1>8. QED
  BY <1>6, <1>7

\* The SQLite store refuses a verified response only on account of unexpired
\* responses that other handlings have stored, accepted or lost to a stop: of
\* its own key, or of max_entries keys.
THEOREM RefusalsHaveHolders ==
  ASSUME Persistent
  PROVE  Spec => RefusalHasHolder
<1>1. ASSUME IInv, StoredInv, [Next]_vars, NEW v \in Verifiers, Commits(v), ~ answer'[v]
      PROVE  \/ Held(resp[v].key, storeNow[v])
             \/ \E full \in SUBSET Keys :
                  /\ Cardinality(full) >= MaxEntries
                  /\ \A k \in full : Held(k, storeNow[v])
  <2>1. TypeOK /\ pc[v] = "storing" /\ pc'[v] = "returned"
    BY <1>1 DEF IInv, Commits
  <2>2. StoreCommit(v)
    <3>1. pc \in [Verifiers -> Steps] /\ pc' # pc
      BY <2>1 DEF TypeOK
    <3>2. ASSUME NEW w \in Verifiers,
                 \/ \E r \in Responses : Receive(w, r)
                 \/ Verify(w) \/ StoreClock(w) \/ Return(w) \/ Abort(w)
          PROVE  FALSE
      <4>1. \E step \in {"received", "verified", "idle", "storing"} : pc' = [pc EXCEPT ![w] = step]
        BY <3>2 DEF Receive, Verify, StoreClock, Return, Abort, Finish, Goto
      <4>2. QED
        BY <2>1, <3>1, <4>1
    <3>3. ASSUME NEW w \in Verifiers, StoreCommit(w) PROVE w = v
      BY <2>1, <3>1, <3>3 DEF StoreCommit, Goto
    <3>4. QED
      BY <1>1, <3>1, <3>2, <3>3 DEF Next, Tick, vars
  <2>3. ~ CheckAndStore(rows, resp[v], storeNow[v]).ok
    BY <1>1, <2>1, <2>2 DEF StoreCommit, TypeOK
  <2>4. QED
    BY <1>1, <2>3, RefusalFacts
<1>2. IInv /\ StoredInv /\ [Next]_vars =>
        [\A v \in Verifiers : (Commits(v) /\ ~ answer'[v]) =>
            \/ Held(resp[v].key, storeNow[v])
            \/ \E full \in SUBSET Keys :
                 /\ Cardinality(full) >= MaxEntries
                 /\ \A k \in full : Held(k, storeNow[v])]_vars
  BY <1>1
<1>3. QED
  BY <1>2, InitIInv, NextIInv, StoredInvariant, PTL DEF Spec, RefusalHasHolder
=============================================================================
