---------------------------- MODULE TaskLifecycle ----------------------------
(***************************************************************************)
(* TaskLifecycleV2 of planrace/taskgen_v2.py: the thread-safe state        *)
(* machine that collects verified submissions for a committed task, seals  *)
(* them at the deadline and only then reveals the secret fixtures.         *)
(*                                                                         *)
(* Several threads call the methods.  A caller samples the clock and then  *)
(* waits for the lifecycle's lock, so the now_unix_ms a method sees may be *)
(* older than the clock when its body runs.  A body runs under the lock    *)
(* and is one step; the replay store it reaches through                    *)
(* verify_signed_response is shared by all lifecycles.                     *)
(***************************************************************************)
EXTENDS ResponseAuth

CONSTANTS
  Tasks,     \* the committed tasks, one lifecycle each
  TaskOf,    \* TaskOf[k]: the task the request with key k carries
  Deadline,  \* Deadline[t]: deadline_unix_ms of task t
  Callers,   \* threads that call the lifecycles
  MaxClock   \* bound on the clock

ASSUME LifecycleAssumption ==
  /\ TaskOf \in [Keys -> Tasks]
  /\ Deadline \in [Tasks -> Nat]
  /\ MaxClock \in Nat

VARIABLES
  clock,        \* the wall clock
  rows,         \* the table of the replay store
  phase,        \* phase[t]: TaskPhase
  submissions,  \* submissions[t]: stored responses, each with the time its
                \* caller sampled before submitting it
  call,         \* call[c]: the call thread c is in, or NoCall
  views         \* history, views[t]: what seal and sealed_bundles returned

vars == <<clock, rows, phase, submissions, call, views>>

NoCall == [op |-> "none"]

SubmitCall == [op : {"submit"}, task : Tasks, resp : Responses, now : Nat]
TimedCall  == [op : {"seal", "reveal"}, task : Tasks, now : Nat]
ReadCall   == [op : {"bundles"}, task : Tasks]

Submission == [resp : Responses, at : Nat]

TypeOK ==
  /\ clock \in Nat
  /\ rows \subseteq Row
  /\ phase \in [Tasks -> {"open", "sealed", "revealed"}]
  /\ submissions \in [Tasks -> SUBSET Submission]
  /\ call \in [Callers -> SubmitCall \cup TimedCall \cup ReadCall \cup {NoCall}]
  /\ views \in [Tasks -> SUBSET SUBSET Responses]

Init ==
  /\ clock = 0
  /\ rows = {}
  /\ phase = [t \in Tasks |-> "open"]
  /\ submissions = [t \in Tasks |-> {}]
  /\ call = [c \in Callers |-> NoCall]
  /\ views = [t \in Tasks |-> {}]

-----------------------------------------------------------------------------
\* The responses, and the request ids, that lifecycle t holds.
Stored(t) == {s.resp : s \in submissions[t]}
RequestsIn(t) == {r.key : r \in Stored(t)}

Tick ==
  /\ clock < MaxClock
  /\ clock' = clock + 1
  /\ UNCHANGED <<rows, phase, submissions, call, views>>

Invoke(c, record) ==
  /\ call[c] = NoCall
  /\ call' = [call EXCEPT ![c] = record]
  /\ UNCHANGED <<clock, rows, phase, submissions, views>>

InvokeSubmit(c, t, r) ==
  Invoke(c, [op |-> "submit", task |-> t, resp |-> r, now |-> clock])

InvokeTimed(c, op, t) == Invoke(c, [op |-> op, task |-> t, now |-> clock])

InvokeBundles(c, t) == Invoke(c, [op |-> "bundles", task |-> t])

Done(c) == call' = [call EXCEPT ![c] = NoCall]

\* Faults: the phase is not checked; a request may be answered twice.
AdmissiblePhaseFault(t, r, now) ==
  /\ now < Deadline[t]
  /\ TaskOf[r.key] = t
  /\ "wrong_task" \notin r.defects
  /\ r.key \notin RequestsIn(t)
AdmissibleTwiceFault(t, r, now) ==
  /\ phase[t] = "open"
  /\ now < Deadline[t]
  /\ TaskOf[r.key] = t
  /\ "wrong_task" \notin r.defects

\* The guards of submit_verified, before and after verify_signed_response.
Admissible(t, r, now) ==
  /\ phase[t] = "open"               \* submissions_sealed
  /\ now < Deadline[t]               \* submission_after_deadline
  /\ TaskOf[r.key] = t               \* request_not_for_lifecycle_task
  /\ "wrong_task" \notin r.defects   \* wrong_task
  /\ r.key \notin RequestsIn(t)      \* duplicate_request

\* submit_verified: a guard raises, or verification raises, or the response is
\* stored.  The store reads the clock between the caller's sample and now.
SubmitVerified(c) ==
  /\ call[c].op = "submit"
  /\ LET t == call[c].task
         r == call[c].resp
         n == call[c].now
     IN  IF Admissible(t, r, n) /\ Verdict(r, n) = "verified"
         THEN \E storeNow \in n..clock :
                LET result == CheckAndStore(rows, r, storeNow)
                IN  /\ rows' = result.rows
                    /\ submissions' =
                         IF result.ok
                         THEN [submissions EXCEPT ![t] = @ \cup {[resp |-> r, at |-> n]}]
                         ELSE submissions
         ELSE UNCHANGED <<rows, submissions>>
  /\ Done(c)
  /\ UNCHANGED <<clock, phase, views>>

\* Faults: a revealed task is sealed again; the phase is shared, and all tasks
\* that are due are sealed at once.
SealAgainFault(c) ==
  /\ call[c].op = "seal"
  /\ LET t == call[c].task
     IN  IF call[c].now >= Deadline[t]
         THEN /\ phase' = [phase EXCEPT ![t] = "sealed"]
              /\ views' = [views EXCEPT ![t] = @ \cup {Stored(t)}]
         ELSE UNCHANGED <<phase, views>>
  /\ Done(c)
  /\ UNCHANGED <<clock, rows, submissions>>
SealSharedFault(c) ==
  /\ call[c].op = "seal"
  /\ LET t == call[c].task
         n == call[c].now
     IN  IF n >= Deadline[t] /\ phase[t] # "revealed"
         THEN /\ phase' = [u \in Tasks |-> IF n >= Deadline[u] /\ phase[u] = "open"
                                          THEN "sealed" ELSE phase[u]]
              /\ views' = [views EXCEPT ![t] = @ \cup {Stored(t)}]
         ELSE UNCHANGED <<phase, views>>
  /\ Done(c)
  /\ UNCHANGED <<clock, rows, submissions>>

\* seal: idempotent until the reveal; returns the stored responses.
Seal(c) ==
  /\ call[c].op = "seal"
  /\ LET t == call[c].task
     IN  IF call[c].now >= Deadline[t] /\ phase[t] # "revealed"
         THEN /\ phase' = [phase EXCEPT ![t] = "sealed"]
              /\ views' = [views EXCEPT ![t] = @ \cup {Stored(t)}]
         ELSE UNCHANGED <<phase, views>>
  /\ Done(c)
  /\ UNCHANGED <<clock, rows, submissions>>

\* reveal: raises before the deadline and before the seal; idempotent.
Reveal(c) ==
  /\ call[c].op = "reveal"
  /\ LET t == call[c].task
     IN  phase' = IF call[c].now >= Deadline[t] /\ phase[t] # "open"
                  THEN [phase EXCEPT ![t] = "revealed"]
                  ELSE phase
  /\ Done(c)
  /\ UNCHANGED <<clock, rows, submissions, views>>

\* sealed_bundles: raises while open.
SealedBundles(c) ==
  /\ call[c].op = "bundles"
  /\ LET t == call[c].task
     IN  views' = IF phase[t] # "open"
                  THEN [views EXCEPT ![t] = @ \cup {Stored(t)}]
                  ELSE views
  /\ Done(c)
  /\ UNCHANGED <<clock, rows, phase, submissions>>

Next ==
  \/ Tick
  \/ \E c \in Callers :
        \/ \E t \in Tasks, r \in Responses : InvokeSubmit(c, t, r)
        \/ \E t \in Tasks, op \in {"seal", "reveal"} : InvokeTimed(c, op, t)
        \/ \E t \in Tasks : InvokeBundles(c, t)
        \/ SubmitVerified(c)
        \/ Seal(c)
        \/ Reveal(c)
        \/ SealedBundles(c)

Spec == Init /\ [][Next]_vars

-----------------------------------------------------------------------------
\* Whatever thread asks, and however long a submission waited for the lock,
\* seal and sealed_bundles return one and the same collection of a task.
SealedSetAgreed ==
  \A t \in Tasks : \A view \in views[t] : view = Stored(t)

\* Every stored submission was sampled before its task's deadline, was issued
\* for that task, and answers a request no other submission answers: a request
\* is answered once even after its replay row has expired and been deleted.
OneTimelyAnswerPerRequest ==
  \A t, u \in Tasks : \A s \in submissions[t], q \in submissions[u] :
    /\ s.at < Deadline[t] /\ TaskOf[s.resp.key] = t
    /\ s.resp.key = q.resp.key => t = u /\ s = q

\* The phases of a task go open, sealed, revealed and never back, and the
\* secret material is not exposed before the deadline has passed on the clock.
PhasesAdvance ==
  [][\A t \in Tasks : phase'[t] # phase[t] =>
        /\ clock >= Deadline[t]
        /\ <<phase[t], phase'[t]>> \in {<<"open", "sealed">>, <<"sealed", "revealed">>}]_vars

\* The lifecycles implement the abstract commit-and-reveal protocol.
CR == INSTANCE CommitReveal WITH
        Requests  <- Keys,
        collected <- [t \in Tasks |-> RequestsIn(t)],
        due       <- [t \in Tasks |-> clock >= Deadline[t]]

ImplementsCommitReveal == CR!Spec
=============================================================================
