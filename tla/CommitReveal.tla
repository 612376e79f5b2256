---------------------------- MODULE CommitReveal ----------------------------
(***************************************************************************)
(* What a task lifecycle promises its miners and its auditors: submissions *)
(* are collected while the task is open, one per request; the collection   *)
(* is closed once, not before the deadline, and never changes again; the   *)
(* secret fixtures are exposed only after that.                            *)
(***************************************************************************)
CONSTANTS Tasks, Requests

VARIABLES
  phase,      \* phase[t]: "open", "sealed" or "revealed"
  collected,  \* collected[t]: the requests of t that have been answered
  due         \* due[t]: the deadline of t has passed

vars == <<phase, collected, due>>

Init ==
  /\ phase = [t \in Tasks |-> "open"]
  /\ collected = [t \in Tasks |-> {}]
  /\ due \in [Tasks -> BOOLEAN]

\* Deadlines pass, at any time and several at once, and stay passed.
DeadlinesPass ==
  /\ due' \in [Tasks -> BOOLEAN]
  /\ \A t \in Tasks : due[t] => due'[t]
  /\ UNCHANGED <<phase, collected>>

\* One answer to one request that has none, while the task is open.
Collect(t, k) ==
  /\ phase[t] = "open"
  /\ \A u \in Tasks : k \notin collected[u]
  /\ collected' = [collected EXCEPT ![t] = @ \cup {k}]
  /\ UNCHANGED <<phase, due>>

Close(t) ==
  /\ phase[t] = "open"
  /\ due[t]
  /\ phase' = [phase EXCEPT ![t] = "sealed"]
  /\ UNCHANGED <<collected, due>>

Expose(t) ==
  /\ phase[t] = "sealed"
  /\ phase' = [phase EXCEPT ![t] = "revealed"]
  /\ UNCHANGED <<collected, due>>

Next ==
  \/ DeadlinesPass
  \/ \E t \in Tasks : Close(t) \/ Expose(t)
  \/ \E t \in Tasks, k \in Requests : Collect(t, k)

Spec == Init /\ [][Next]_vars
=============================================================================
