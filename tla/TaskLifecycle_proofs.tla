------------------------ MODULE TaskLifecycle_proofs ------------------------
(***************************************************************************)
(* Proofs about TaskLifecycle, for any sets of tasks, requests, responses  *)
(* and threads: the sealed collection is one collection, a request has one *)
(* timely answer, and the lifecycles implement CommitReveal.               *)
(*                                                                         *)
(* SealedSetAgreed needs that an open task has shown no view yet, and the  *)
(* refinement that a caller's sample of the clock is in the past           *)
(* (SamplesPast) and that no two lifecycles answer one request.            *)
(***************************************************************************)
EXTENDS TaskLifecycle, TLAPS

SamplesPast ==
  \A c \in Callers : call[c].op \in {"submit", "seal", "reveal"} => call[c].now <= clock

OpenUnseen == \A t \in Tasks : phase[t] = "open" => views[t] = {}

IInv ==
  /\ TypeOK
  /\ SamplesPast
  /\ OpenUnseen
  /\ SealedSetAgreed
  /\ OneTimelyAnswerPerRequest

-----------------------------------------------------------------------------
\* What the record of a call holds, by its operation.
LEMMA CallFacts ==
  ASSUME TypeOK, NEW c \in Callers
  PROVE  /\ call[c].op = "submit" => /\ call[c].task \in Tasks
                                     /\ call[c].resp \in Responses
                                     /\ call[c].now \in Nat
         /\ call[c].op \in {"seal", "reveal"} => call[c].task \in Tasks /\ call[c].now \in Nat
         /\ call[c].op = "bundles" => call[c].task \in Tasks
<1>1. call[c] \in SubmitCall \cup TimedCall \cup ReadCall \cup {NoCall}
  BY DEF TypeOK
<1>2. QED
  BY <1>1 DEF SubmitCall, TimedCall, ReadCall, NoCall

\* A store keeps to the rows of its table, for either kind of store.
LEMMA StoreKeepsRows ==
  ASSUME NEW table \in SUBSET Row, NEW r \in Responses, NEW t \in Nat
  PROVE  CheckAndStore(table, r, t).rows \in SUBSET Row
<1> DEFINE kept == Purge(table, t)
<1>1. r.key \in Keys /\ r.expires \in Nat
  BY AuthAssumption DEF Response
<1>2. RowOf(r) \in Row
  BY <1>1 DEF RowOf, Row
<1>3. kept \in SUBSET Row
  BY DEF Purge
<1>4. CheckAndStore(table, r, t).rows = IF Admits(kept, r) THEN kept \cup {RowOf(r)} ELSE kept
  BY Zenon DEF CheckAndStore
<1>5. QED
  BY <1>2, <1>3, <1>4

\* submit_verified either stores one response that passed the guards, in its
\* own lifecycle, or changes no submissions.
LEMMA SubmitFacts ==
  ASSUME TypeOK, NEW c \in Callers, SubmitVerified(c)
  PROVE  /\ rows' \in SUBSET Row
         /\ \/ submissions' = submissions
            \/ /\ Admissible(call[c].task, call[c].resp, call[c].now)
               /\ submissions' = [submissions EXCEPT ![call[c].task] =
                                    @ \cup {[resp |-> call[c].resp, at |-> call[c].now]}]
<1> DEFINE t == call[c].task
           r == call[c].resp
           n == call[c].now
<1>1. t \in Tasks /\ r \in Responses /\ n \in Nat /\ rows \in SUBSET Row /\ clock \in Nat
  BY CallFacts DEF SubmitVerified, TypeOK
<1>2. CASE Admissible(t, r, n) /\ Verdict(r, n) = "verified"
  <2>1. PICK s \in n..clock :
          LET result == CheckAndStore(rows, r, s)
          IN  /\ rows' = result.rows
              /\ submissions' =
                   IF result.ok
                   THEN [submissions EXCEPT ![t] = @ \cup {[resp |-> r, at |-> n]}]
                   ELSE submissions
    BY <1>2 DEF SubmitVerified
  <2>2. s \in Nat
    BY <1>1
  <2>3. CheckAndStore(rows, r, s).rows \in SUBSET Row
    BY <1>1, <2>2, StoreKeepsRows
  <2>4. QED
    BY <1>2, <2>1, <2>3
<1>3. CASE ~ (Admissible(t, r, n) /\ Verdict(r, n) = "verified")
  <2>1. UNCHANGED <<rows, submissions>>
    BY <1>3, Zenon DEF SubmitVerified
  <2>2. QED
    BY <1>1, <2>1
<1>4. QED
  BY <1>2, <1>3

\* Init establishes the type invariant.
LEMMA InitTypeOK == Init => TypeOK
  BY DEF Init, TypeOK, NoCall

\* Every step keeps the type invariant.
LEMMA NextTypeOK == TypeOK /\ [Next]_vars => TypeOK'
<1> SUFFICES ASSUME TypeOK, [Next]_vars PROVE TypeOK'
  OBVIOUS
<1> USE DEF TypeOK
<1>1. CASE Tick
  BY <1>1 DEF Tick
<1>2. ASSUME NEW c \in Callers, NEW t \in Tasks, NEW r \in Responses, InvokeSubmit(c, t, r)
      PROVE  TypeOK'
  BY <1>2 DEF InvokeSubmit, Invoke, SubmitCall
<1>3. ASSUME NEW c \in Callers, NEW t \in Tasks, NEW op \in {"seal", "reveal"},
             InvokeTimed(c, op, t)
      PROVE  TypeOK'
  BY <1>3 DEF InvokeTimed, Invoke, TimedCall
<1>4. ASSUME NEW c \in Callers, NEW t \in Tasks, InvokeBundles(c, t) PROVE TypeOK'
  BY <1>4 DEF InvokeBundles, Invoke, ReadCall
<1>5. ASSUME NEW c \in Callers, SubmitVerified(c) PROVE TypeOK'
  <2>1. call[c].task \in Tasks /\ call[c].resp \in Responses /\ call[c].now \in Nat
    BY <1>5, CallFacts DEF SubmitVerified
  <2>2. [resp |-> call[c].resp, at |-> call[c].now] \in Submission
    BY <2>1 DEF Submission
  <2>3. submissions' \in [Tasks -> SUBSET Submission] /\ rows' \in SUBSET Row
    BY <1>5, <2>1, <2>2, SubmitFacts
  <2>4. QED
    BY <1>5, <2>3 DEF SubmitVerified, Done
<1>6. ASSUME NEW c \in Callers, Seal(c) \/ Reveal(c) \/ SealedBundles(c) PROVE TypeOK'
  <2>1. call[c].task \in Tasks
    BY <1>6, CallFacts DEF Seal, Reveal, SealedBundles
  <2>2. Stored(call[c].task) \in SUBSET Responses
    BY <2>1 DEF Stored, Submission
  <2>3. phase' \in [Tasks -> {"open", "sealed", "revealed"}]
    BY <1>6, <2>1 DEF Seal, Reveal, SealedBundles
  <2>4. views' \in [Tasks -> SUBSET SUBSET Responses]
    BY <1>6, <2>1, <2>2 DEF Seal, Reveal, SealedBundles
  <2>5. QED
    BY <1>6, <2>3, <2>4 DEF Seal, Reveal, SealedBundles, Done
<1>7. CASE UNCHANGED vars
  BY <1>7 DEF vars
<1>8. QED
  BY <1>1, <1>2, <1>3, <1>4, <1>5, <1>6, <1>7 DEF Next

\* Every variable keeps its type in every behaviour of the lifecycles.
THEOREM TypeCorrect == Spec => []TypeOK
  BY InitTypeOK, NextTypeOK, PTL DEF Spec

-----------------------------------------------------------------------------
\* Init establishes the inductive invariant.
LEMMA InitIInv == Init => IInv
<1> SUFFICES ASSUME Init PROVE IInv
  OBVIOUS
<1>1. TypeOK
  BY InitTypeOK
<1>2. QED
  BY <1>1 DEF Init, IInv, SamplesPast, OpenUnseen, SealedSetAgreed, OneTimelyAnswerPerRequest,
              NoCall

\* Every sample of the clock stays in the past.
LEMMA NextSamplesPast == TypeOK /\ SamplesPast /\ [Next]_vars => SamplesPast'
<1> SUFFICES ASSUME TypeOK, SamplesPast, [Next]_vars,
                    NEW c \in Callers, call'[c].op \in {"submit", "seal", "reveal"}
             PROVE  call'[c].now <= clock'
  BY DEF SamplesPast
<1>1. clock' \in Nat /\ clock \in Nat /\ clock <= clock'
  <2>1. clock' = clock \/ clock' = clock + 1
    BY DEF Next, vars, Tick, InvokeSubmit, InvokeTimed, InvokeBundles, Invoke, SubmitVerified,
           Seal, Reveal, SealedBundles
  <2>2. QED
    BY <2>1 DEF TypeOK
<1>2. CASE call'[c] = call[c]
  BY <1>1, <1>2, CallFacts DEF SamplesPast
<1>3. CASE call'[c] # call[c]
  <2>1. call'[c] = NoCall \/ call'[c].op = "bundles" \/ call'[c].now = clock
    <3>1. ASSUME NEW d \in Callers, NEW record, Invoke(d, record) PROVE call'[c] = record
      BY <1>3, <3>1 DEF Invoke, TypeOK
    <3>2. ASSUME NEW d \in Callers, Done(d) PROVE call'[c] = NoCall
      BY <1>3, <3>2 DEF Done, TypeOK
    <3>3. ~ Tick /\ ~ UNCHANGED vars
      BY <1>3 DEF Tick, vars
    <3>4. ASSUME NEW d \in Callers, NEW t \in Tasks, NEW r \in Responses, InvokeSubmit(d, t, r)
          PROVE  call'[c].now = clock
      BY <3>1, <3>4 DEF InvokeSubmit
    <3>5. ASSUME NEW d \in Callers, NEW t \in Tasks, NEW op \in {"seal", "reveal"},
                 InvokeTimed(d, op, t)
          PROVE  call'[c].now = clock
      BY <3>1, <3>5 DEF InvokeTimed
    <3>6. ASSUME NEW d \in Callers, NEW t \in Tasks, InvokeBundles(d, t)
          PROVE  call'[c].op = "bundles"
      BY <3>1, <3>6 DEF InvokeBundles
    <3>7. ASSUME NEW d \in Callers,
                 SubmitVerified(d) \/ Seal(d) \/ Reveal(d) \/ SealedBundles(d)
          PROVE  call'[c] = NoCall
      BY <3>2, <3>7 DEF SubmitVerified, Seal, Reveal, SealedBundles
    <3>8. QED
      BY <3>3, <3>4, <3>5, <3>6, <3>7 DEF Next
  <2>2. QED
    BY <1>1, <2>1 DEF NoCall
<1>4. QED
  BY <1>2, <1>3

\* Steps that leave submissions, phases and views alone keep the rest of the
\* invariant.
LEMMA QuietStep ==
  ASSUME IInv, UNCHANGED <<submissions, phase, views>>
  PROVE  OpenUnseen' /\ SealedSetAgreed' /\ OneTimelyAnswerPerRequest'
  BY DEF IInv, OpenUnseen, SealedSetAgreed, OneTimelyAnswerPerRequest, Stored

\* The collection of t is the old one with one response more, or the old one.
LEMMA StoredAfterSubmit ==
  ASSUME TypeOK, NEW t \in Tasks, NEW s,
         submissions' = [submissions EXCEPT ![t] = @ \cup {s}]
  PROVE  /\ Stored(t)' = Stored(t) \cup {s.resp}
         /\ RequestsIn(t)' = RequestsIn(t) \cup {s.resp.key}
         /\ \A u \in Tasks \ {t} : Stored(u)' = Stored(u) /\ RequestsIn(u)' = RequestsIn(u)
<1>1. submissions'[t] = submissions[t] \cup {s}
  BY DEF TypeOK
<1>2. \A u \in Tasks \ {t} : submissions'[u] = submissions[u]
  BY DEF TypeOK
<1>3. Stored(t)' = Stored(t) \cup {s.resp}
  BY <1>1 DEF Stored
<1>4. RequestsIn(t)' = RequestsIn(t) \cup {s.resp.key}
  BY <1>3 DEF RequestsIn
<1>5. \A u \in Tasks \ {t} : Stored(u)' = Stored(u)
  BY <1>2 DEF Stored
<1>6. QED
  BY <1>3, <1>4, <1>5 DEF RequestsIn

\* A submission keeps the views of sealed tasks and the uniqueness of answers.
LEMMA SubmitStep ==
  ASSUME IInv, NEW c \in Callers, SubmitVerified(c)
  PROVE  OpenUnseen' /\ SealedSetAgreed' /\ OneTimelyAnswerPerRequest'
<1> DEFINE t == call[c].task
           r == call[c].resp
           n == call[c].now
           s == [resp |-> r, at |-> n]
<1>1. TypeOK /\ t \in Tasks /\ r \in Responses /\ n \in Nat
  BY CallFacts DEF IInv, SubmitVerified
<1>2. UNCHANGED <<clock, phase, views>>
  BY DEF SubmitVerified
<1>3. CASE submissions' = submissions
  BY <1>2, <1>3, QuietStep
<1>4. CASE /\ Admissible(t, r, n)
           /\ submissions' = [submissions EXCEPT ![t] = @ \cup {s}]
  <2>1. phase[t] = "open" /\ n < Deadline[t] /\ TaskOf[r.key] = t /\ r.key \notin RequestsIn(t)
    BY <1>4 DEF Admissible
  <2>2. OpenUnseen'
    BY <1>2 DEF IInv, OpenUnseen
  <2>3. SealedSetAgreed'
    <3>1. views[t] = {}
      BY <1>1, <2>1 DEF IInv, OpenUnseen
    <3>2. \A u \in Tasks \ {t} : Stored(u)' = Stored(u)
      BY <1>1, <1>4, StoredAfterSubmit
    <3>3. QED
      BY <1>2, <3>1, <3>2 DEF IInv, SealedSetAgreed
  <2>4. OneTimelyAnswerPerRequest'
    <3>1. \A u \in Tasks : \A q \in submissions'[u] : q \in submissions[u] \/ (u = t /\ q = s)
      BY <1>1, <1>4 DEF TypeOK
    <3>2. s.at < Deadline[t] /\ TaskOf[s.resp.key] = t
      BY <2>1
    <3>3. \A u \in Tasks : \A q \in submissions[u] :
            q.at < Deadline[u] /\ TaskOf[q.resp.key] = u
      BY DEF IInv, OneTimelyAnswerPerRequest
    <3>4. \A u \in Tasks : \A q \in submissions[u] : q.resp.key # s.resp.key
      <4> SUFFICES ASSUME NEW u \in Tasks, NEW q \in submissions[u], q.resp.key = r.key
                   PROVE  FALSE
        OBVIOUS
      <4>1. u = t
        BY <2>1, <3>3
      <4>2. q.resp.key \in RequestsIn(t)
        BY <4>1 DEF RequestsIn, Stored
      <4>3. QED
        BY <2>1, <4>2
    <3>5. \A a, b \in Tasks : \A p \in submissions[a], q \in submissions[b] :
            p.resp.key = q.resp.key => a = b /\ p = q
      BY DEF IInv, OneTimelyAnswerPerRequest
    <3> HIDE DEF s, t, n, r
    <3>6. QED
      BY <3>1, <3>2, <3>3, <3>4, <3>5 DEF OneTimelyAnswerPerRequest
  <2>5. QED
    BY <2>2, <2>3, <2>4
<1>5. QED
  BY <1>1, <1>3, <1>4, SubmitFacts

\* Sealing, revealing and reading show the collection as it is.
LEMMA ReadStep ==
  ASSUME IInv, NEW c \in Callers, Seal(c) \/ Reveal(c) \/ SealedBundles(c)
  PROVE  OpenUnseen' /\ SealedSetAgreed' /\ OneTimelyAnswerPerRequest'
<1> DEFINE t == call[c].task
<1>1. TypeOK /\ t \in Tasks
  BY CallFacts DEF IInv, Seal, Reveal, SealedBundles
<1>2. UNCHANGED submissions
  BY DEF Seal, Reveal, SealedBundles
<1>3. \A u \in Tasks : Stored(u)' = Stored(u)
  BY <1>2 DEF Stored
<1>4. \A u \in Tasks : views'[u] = views[u] \/ (u = t /\ views'[u] = views[u] \cup {Stored(t)})
  BY <1>1 DEF Seal, Reveal, SealedBundles, TypeOK
<1>5. \A u \in Tasks : phase'[u] = "open" => phase[u] = "open" /\ views'[u] = views[u]
  BY <1>1 DEF Seal, Reveal, SealedBundles, TypeOK
<1>6. OpenUnseen'
  BY <1>5 DEF IInv, OpenUnseen
<1>7. SealedSetAgreed'
  BY <1>3, <1>4 DEF IInv, SealedSetAgreed
<1>8. OneTimelyAnswerPerRequest'
  BY <1>2 DEF IInv, OneTimelyAnswerPerRequest
<1>9. QED
  BY <1>6, <1>7, <1>8

\* Every step keeps the inductive invariant.
LEMMA NextIInv == IInv /\ [Next]_vars => IInv'
<1> SUFFICES ASSUME IInv, [Next]_vars PROVE IInv'
  OBVIOUS
<1>1. TypeOK' /\ SamplesPast'
  BY NextTypeOK, NextSamplesPast DEF IInv
<1>2. OpenUnseen' /\ SealedSetAgreed' /\ OneTimelyAnswerPerRequest'
  <2>1. CASE Tick
    BY <2>1, QuietStep DEF Tick
  <2>2. ASSUME NEW c \in Callers, NEW record, Invoke(c, record)
        PROVE  OpenUnseen' /\ SealedSetAgreed' /\ OneTimelyAnswerPerRequest'
    BY <2>2, QuietStep DEF Invoke
  <2>3. CASE UNCHANGED vars
    BY <2>3, QuietStep DEF vars
  <2>4. QED
    BY <2>1, <2>2, <2>3, SubmitStep, ReadStep
       DEF Next, InvokeSubmit, InvokeTimed, InvokeBundles
<1>3. QED
  BY <1>1, <1>2 DEF IInv

\* seal and sealed_bundles of a task always return the same collection,
\* whatever the threads and however old their samples of the clock.
THEOREM SealedCollectionIsOne == Spec => []SealedSetAgreed
<1>1. IInv => SealedSetAgreed
  BY DEF IInv
<1>2. QED
  BY <1>1, InitIInv, NextIInv, PTL DEF Spec

\* A request is answered once, for its own task and before its deadline, even
\* when the replay store has forgotten it.
THEOREM AnswersAreUnique == Spec => []OneTimelyAnswerPerRequest
<1>1. IInv => OneTimelyAnswerPerRequest
  BY DEF IInv
<1>2. QED
  BY <1>1, InitIInv, NextIInv, PTL DEF Spec

-----------------------------------------------------------------------------
\* The variables of CommitReveal under the refinement mapping.
Collected == [t \in Tasks |-> RequestsIn(t)]
Due == [t \in Tasks |-> clock >= Deadline[t]]

\* A step that changes neither submissions nor phases is a stuttering step of
\* the protocol, unless a deadline passes.
LEMMA RefineQuiet ==
  ASSUME UNCHANGED <<clock, submissions, phase>>
  PROVE  UNCHANGED CR!vars
<1>1. \A t \in Tasks : RequestsIn(t)' = RequestsIn(t)
  BY DEF RequestsIn, Stored
<1>2. QED
  BY <1>1 DEF CR!vars

\* Time passes: deadlines pass and stay passed.
LEMMA RefineTick ==
  ASSUME TypeOK, Tick
  PROVE  CR!DeadlinesPass
<1>1. \A t \in Tasks : RequestsIn(t)' = RequestsIn(t)
  BY DEF Tick, RequestsIn, Stored
<1>2. \A t \in Tasks : clock >= Deadline[t] => clock' >= Deadline[t]
  BY LifecycleAssumption DEF Tick, TypeOK
<1>3. Collected' = Collected /\ phase' = phase
  BY <1>1 DEF Collected, Tick
<1>4. Due' \in [Tasks -> BOOLEAN]
  <2>1. \A t \in Tasks : (clock' >= Deadline[t]) \in BOOLEAN
    OBVIOUS
  <2>2. QED
    BY <2>1, Zenon DEF Due
<1>5. \A t \in Tasks : Due[t] => Due'[t]
  BY <1>2, Zenon DEF Due
<1>6. QED
  BY <1>3, <1>4, <1>5, Zenon DEF CR!DeadlinesPass, Collected, Due

\* Storing an admissible submission collects one answer.
LEMMA RefineStore ==
  ASSUME IInv, NEW t \in Tasks, NEW s, s.resp.key \in Keys,
         Admissible(t, s.resp, s.at),
         submissions' = [submissions EXCEPT ![t] = @ \cup {s}],
         UNCHANGED <<clock, phase>>
  PROVE  CR!Collect(t, s.resp.key)
<1>1. phase[t] = "open" /\ TaskOf[s.resp.key] = t /\ s.resp.key \notin RequestsIn(t)
  BY DEF Admissible
<1>2. \A u \in Tasks : s.resp.key \notin RequestsIn(u)
  <2> SUFFICES ASSUME NEW u \in Tasks, s.resp.key \in RequestsIn(u) PROVE FALSE
    OBVIOUS
  <2>1. PICK q \in submissions[u] : q.resp.key = s.resp.key
    BY DEF RequestsIn, Stored
  <2>2. TaskOf[q.resp.key] = u
    BY DEF IInv, OneTimelyAnswerPerRequest
  <2>3. QED
    BY <1>1, <2>1, <2>2
<1>3. /\ RequestsIn(t)' = RequestsIn(t) \cup {s.resp.key}
      /\ \A u \in Tasks \ {t} : RequestsIn(u)' = RequestsIn(u)
  BY StoredAfterSubmit DEF IInv
<1>4. Collected' = [Collected EXCEPT ![t] = @ \cup {s.resp.key}]
  BY <1>3 DEF Collected
<1>5. Due' = Due
  BY DEF Due
<1>6. \A u \in Tasks : s.resp.key \notin Collected[u]
  BY <1>2 DEF Collected
<1>7. QED
  BY <1>1, <1>4, <1>5, <1>6, Zenon DEF CR!Collect, Collected, Due

\* A submission collects one answer, or changes nothing.
LEMMA RefineSubmit ==
  ASSUME IInv, NEW c \in Callers, SubmitVerified(c)
  PROVE  (\E t \in Tasks, k \in Keys : CR!Collect(t, k)) \/ UNCHANGED CR!vars
<1>1. TypeOK /\ call[c].task \in Tasks /\ call[c].resp \in Responses
  BY CallFacts DEF IInv, SubmitVerified
<1>2. PICK t \in Tasks : t = call[c].task
  BY <1>1
<1>3. PICK s : s = [resp |-> call[c].resp, at |-> call[c].now]
  OBVIOUS
<1>4. s.resp \in Responses /\ s.resp.key \in Keys
  BY <1>1, <1>3, AuthAssumption DEF Response
<1>5. UNCHANGED <<clock, phase>>
  BY DEF SubmitVerified
<1>6. CASE submissions' = submissions
  BY <1>5, <1>6, RefineQuiet
<1>7. CASE /\ Admissible(t, s.resp, s.at)
           /\ submissions' = [submissions EXCEPT ![t] = @ \cup {s}]
  BY <1>4, <1>5, <1>7, RefineStore
<1>8. QED
  BY <1>1, <1>2, <1>3, <1>6, <1>7, SubmitFacts

\* seal closes an open task whose deadline has passed, or changes nothing.
LEMMA RefineSeal ==
  ASSUME IInv, NEW c \in Callers, Seal(c)
  PROVE  (\E t \in Tasks : CR!Close(t)) \/ UNCHANGED CR!vars
<1> DEFINE t == call[c].task
<1>1. TypeOK /\ t \in Tasks /\ call[c].now \in Nat /\ call[c].now <= clock
  BY CallFacts DEF IInv, Seal, SamplesPast
<1>2. \A u \in Tasks : RequestsIn(u)' = RequestsIn(u)
  BY DEF Seal, RequestsIn, Stored
<1>3. UNCHANGED <<clock, submissions>>
  BY DEF Seal
<1>4. CASE phase' = phase
  BY <1>3, <1>4, RefineQuiet
<1>5. CASE phase' # phase
  <2>1. call[c].now >= Deadline[t] /\ phase[t] # "revealed"
        /\ phase' = [phase EXCEPT ![t] = "sealed"]
    BY <1>5 DEF Seal
  <2>2. phase[t] = "open"
    BY <1>1, <1>5, <2>1 DEF TypeOK
  <2>3. clock >= Deadline[t]
    <3>1. Deadline[t] \in Nat /\ clock \in Nat
      BY <1>1, LifecycleAssumption DEF TypeOK
    <3> HIDE DEF t
    <3>2. QED
      BY <1>1, <2>1, <3>1
  <2> HIDE DEF t
  <2>4. Collected' = Collected /\ Due' = Due
    BY <1>2, <1>3 DEF Collected, Due
  <2>5. Due[t]
    BY <1>1, <2>3, Zenon DEF Due
  <2>6. CR!Close(t)
    BY <2>1, <2>2, <2>4, <2>5, Zenon DEF CR!Close, Collected, Due
  <2>7. QED
    BY <1>1, <2>6
<1>6. QED
  BY <1>4, <1>5

\* reveal exposes a sealed task, or changes nothing.
LEMMA RefineReveal ==
  ASSUME IInv, NEW c \in Callers, Reveal(c)
  PROVE  (\E t \in Tasks : CR!Expose(t)) \/ UNCHANGED CR!vars
<1> DEFINE t == call[c].task
<1>1. TypeOK /\ t \in Tasks
  BY CallFacts DEF IInv, Reveal
<1>2. \A u \in Tasks : RequestsIn(u)' = RequestsIn(u)
  BY DEF Reveal, RequestsIn, Stored
<1>3. UNCHANGED <<clock, submissions>>
  BY DEF Reveal
<1>4. CASE phase' = phase
  BY <1>3, <1>4, RefineQuiet
<1>5. CASE phase' # phase
  <2>1. phase[t] # "open" /\ phase' = [phase EXCEPT ![t] = "revealed"]
    BY <1>5 DEF Reveal
  <2>2. phase[t] = "sealed"
    BY <1>1, <1>5, <2>1 DEF TypeOK
  <2>3. CR!Expose(t)
    BY <1>1, <1>2, <1>3, <2>1, <2>2 DEF CR!Expose
  <2>4. QED
    BY <1>1, <2>3
<1>6. QED
  BY <1>4, <1>5

\* Initial states map to initial states.
LEMMA RefineInit == Init => CR!Init
<1> SUFFICES ASSUME Init PROVE CR!Init
  OBVIOUS
<1>1. \A t \in Tasks : RequestsIn(t) = {}
  BY DEF Init, RequestsIn, Stored
<1>2. QED
  BY <1>1 DEF Init, CR!Init

\* Every step maps to a step of the protocol or to a stuttering step.
LEMMA RefineNext == IInv /\ [Next]_vars => [CR!Next]_(CR!vars)
<1> SUFFICES ASSUME IInv, [Next]_vars PROVE CR!Next \/ UNCHANGED CR!vars
  OBVIOUS
<1>1. CASE Tick
  BY <1>1, RefineTick DEF IInv, CR!Next
<1>2. ASSUME NEW c \in Callers, NEW record, Invoke(c, record) PROVE UNCHANGED CR!vars
  BY <1>2, RefineQuiet DEF Invoke
<1>3. ASSUME NEW c \in Callers, SubmitVerified(c) PROVE CR!Next \/ UNCHANGED CR!vars
  BY <1>3, RefineSubmit DEF CR!Next
<1>4. ASSUME NEW c \in Callers, Seal(c) PROVE CR!Next \/ UNCHANGED CR!vars
  BY <1>4, RefineSeal DEF CR!Next
<1>5. ASSUME NEW c \in Callers, Reveal(c) PROVE CR!Next \/ UNCHANGED CR!vars
  BY <1>5, RefineReveal DEF CR!Next
<1>6. ASSUME NEW c \in Callers, SealedBundles(c) PROVE UNCHANGED CR!vars
  BY <1>6, RefineQuiet DEF SealedBundles
<1>7. CASE UNCHANGED vars
  BY <1>7, RefineQuiet DEF vars
<1>8. QED
  BY <1>1, <1>2, <1>3, <1>4, <1>5, <1>6, <1>7
     DEF Next, InvokeSubmit, InvokeTimed, InvokeBundles

\* The lifecycles of any number of tasks, driven by any number of threads,
\* implement the commit-and-reveal protocol.
THEOREM LifecycleImplementsCommitReveal == Spec => ImplementsCommitReveal
<1>1. Spec => []IInv
  BY InitIInv, NextIInv, PTL DEF Spec
<1>2. QED
  BY <1>1, RefineInit, RefineNext, PTL DEF Spec, ImplementsCommitReveal, CR!Spec

-----------------------------------------------------------------------------
\* Only seal and reveal change a phase, and each by one step forward, after the
\* deadline has passed on the clock.
LEMMA PhaseStep ==
  ASSUME IInv, [Next]_vars, NEW t \in Tasks, phase'[t] # phase[t]
  PROVE  /\ clock >= Deadline[t]
         /\ <<phase[t], phase'[t]>> \in {<<"open", "sealed">>, <<"sealed", "revealed">>}
<1>1. \E c \in Callers : Seal(c) \/ Reveal(c)
  BY DEF Next, vars, Tick, InvokeSubmit, InvokeTimed, InvokeBundles, Invoke, SubmitVerified,
         SealedBundles
<1>2. PICK c \in Callers : Seal(c) \/ Reveal(c)
  BY <1>1
<1>3. call[c].now \in Nat /\ call[c].now <= clock
  BY <1>2, CallFacts DEF IInv, SamplesPast, Seal, Reveal
<1>4. clock \in Nat /\ Deadline[t] \in Nat
      /\ phase \in [Tasks -> {"open", "sealed", "revealed"}]
  BY LifecycleAssumption DEF IInv, TypeOK
<1>5. CASE Seal(c)
  <2>1. call[c].task = t /\ call[c].now >= Deadline[t] /\ phase[t] # "revealed"
        /\ phase'[t] = "sealed"
    BY <1>4, <1>5 DEF Seal
  <2>2. QED
    BY <1>3, <1>4, <2>1
<1>6. CASE Reveal(c)
  <2>1. call[c].task = t /\ call[c].now >= Deadline[t] /\ phase[t] # "open"
        /\ phase'[t] = "revealed"
    BY <1>4, <1>6 DEF Reveal
  <2>2. QED
    BY <1>3, <1>4, <2>1
<1>7. QED
  BY <1>2, <1>5, <1>6

\* The phases of a task only advance, and not before its deadline, although a
\* caller's sample of the clock may be old by the time its call runs.
THEOREM PhasesOnlyAdvance == Spec => PhasesAdvance
<1>1. IInv /\ [Next]_vars =>
        [\A t \in Tasks : phase'[t] # phase[t] =>
            /\ clock >= Deadline[t]
            /\ <<phase[t], phase'[t]>> \in {<<"open", "sealed">>, <<"sealed", "revealed">>}]_vars
  BY PhaseStep
<1>2. QED
  BY <1>1, InitIInv, NextIInv, PTL DEF Spec, PhasesAdvance
-----------------------------------------------------------------------------
\* A response consumes its replay slot exactly when it is stored: every row of
\* the store is that of a submission, so no path of submit_verified uses up the
\* slot of a response that it then refuses.
SlotImpliesSubmission ==
  \A x \in rows : \E t \in Tasks : \E s \in submissions[t] : x = RowOf(s.resp)

\* Only submit_verified adds a row, together with the submission.
LEMMA SlotStep == TypeOK /\ SlotImpliesSubmission /\ [Next]_vars => SlotImpliesSubmission'
<1> SUFFICES ASSUME TypeOK, SlotImpliesSubmission, [Next]_vars
             PROVE  SlotImpliesSubmission'
  OBVIOUS
<1>1. ASSUME NEW c \in Callers, SubmitVerified(c) PROVE SlotImpliesSubmission'
  <2> DEFINE t == call[c].task
             s == [resp |-> call[c].resp, at |-> call[c].now]
  <2>1. CASE UNCHANGED <<rows, submissions>>
    BY <2>1 DEF SlotImpliesSubmission
  <2>2. ASSUME NEW storeNow, rows' = CheckAndStore(rows, call[c].resp, storeNow).rows,
               submissions' = IF CheckAndStore(rows, call[c].resp, storeNow).ok
                              THEN [submissions EXCEPT ![t] = @ \cup {s}]
                              ELSE submissions
        PROVE  SlotImpliesSubmission'
    <3>1. t \in Tasks
      BY <1>1, CallFacts DEF SubmitVerified
    <3>2. submissions \in [Tasks -> SUBSET Submission]
      BY DEF TypeOK
    <3>3. Purge(rows, storeNow) \subseteq rows
      BY DEF Purge
    <3>4. CASE Admits(Purge(rows, storeNow), call[c].resp)
      <4>1. rows' = Purge(rows, storeNow) \cup {RowOf(call[c].resp)}
        BY <2>2, <3>4 DEF CheckAndStore
      <4>2. submissions' = [submissions EXCEPT ![t] = @ \cup {s}]
        BY <2>2, <3>4 DEF CheckAndStore
      <4>3. s \in submissions'[t] /\ RowOf(call[c].resp) = RowOf(s.resp)
        BY <3>1, <3>2, <4>2
      <4>4. \A u \in Tasks : submissions[u] \subseteq submissions'[u]
        BY <3>1, <3>2, <4>2
      <4>5. QED
        BY <3>1, <3>3, <4>1, <4>3, <4>4 DEF SlotImpliesSubmission
    <3>5. CASE ~Admits(Purge(rows, storeNow), call[c].resp)
      BY <2>2, <3>3, <3>5 DEF CheckAndStore, SlotImpliesSubmission
    <3>6. QED
      BY <3>4, <3>5
  <2>3. QED
    BY <1>1, <2>1, <2>2 DEF SubmitVerified
<1>2. CASE UNCHANGED <<rows, submissions>>
  BY <1>2 DEF SlotImpliesSubmission
<1>3. QED
  BY <1>1, <1>2 DEF Next, vars, Tick, InvokeSubmit, InvokeTimed, InvokeBundles, Invoke, Seal,
                    Reveal, SealedBundles

\* The replay slots in use are those of stored submissions, whatever threads
\* submit, with whatever samples of the clock.
THEOREM SlotsAreSubmissions == Spec => []SlotImpliesSubmission
<1>1. Init => TypeOK /\ SlotImpliesSubmission
  BY InitTypeOK DEF Init, SlotImpliesSubmission
<1>2. TypeOK /\ [Next]_vars => TypeOK'
  BY NextTypeOK
<1>3. QED
  BY <1>1, <1>2, SlotStep, PTL DEF Spec
=============================================================================
