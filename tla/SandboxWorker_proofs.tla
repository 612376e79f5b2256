------------------------ MODULE SandboxWorker_proofs ------------------------
(***************************************************************************)
(* Proofs, for any requests, numbers of indexes and trials, timeouts and   *)
(* digests, of the type invariant and four safety properties of            *)
(* SandboxWorker.                                                          *)
(*                                                                         *)
(* IInv: while a statement runs, what is left on its connection is its own *)
(* timeout less what it has run; the indexes built are counted and all     *)
(* there before the plan; and what was seen of a copy is its reference or  *)
(* candidate result and what the current trial has got so far, which are   *)
(* one digest when the trial closes.                                       *)
(*                                                                         *)
(* RInv, inductive on top of IInv: the recorded trials are the worker's    *)
(* own, in the interleaved orders and with no timed out baseline; a trial  *)
(* gets a cold result of the candidate, so that a candidate without any    *)
(* result has timed out in every trial; a result is well formed; and an    *)
(* answer is given once, a failure or the result of a worker that has      *)
(* returned.                                                               *)
(***************************************************************************)
EXTENDS SandboxWorker, FiniteSetTheorems, FunctionTheorems, SequenceTheorems,
        WellFoundedInduction, TLAPS

Values == Digests \cup {None, "timeout"}

Core ==
  /\ pc \in {"none", "admit", "open", "close"} \cup Statement \cup Ended
  /\ parent = "idle" => pc = "none"
  /\ pc # "none" => request \in Requests
  /\ step \in 0 .. 5 /\ (pc = "run" => step \in 1 .. 4)
  /\ ran \in Nat /\ installed \in Nat /\ left \in [Arms -> Nat]
  /\ got \in [Arms \X Temps -> Values]
  /\ seen \in [Arms -> SUBSET Digests]

\* The deadline on the connection of a is the current statement's own.
Owed(a) == left[a] = IF ran < QueryTimeout THEN QueryTimeout - ran ELSE 0

Timed ==
  /\ ~early
  /\ pc \in {"index", "plan"} => Owed("candidate")
  /\ pc = "run" => Owed(Runs(Order)[step][1])

Built ==
  /\ ~partial
  /\ pc \in {"none", "admit"} => installed = 0
  /\ pc = "index" => installed < Indexes[request]
  /\ pc \in {"plan", "open", "run", "close"} => installed = Indexes[request]

GotOf(a) == {got[<<a, t>>] : t \in Temps}

Agree ==
  /\ result # None => pc = "returned"
  /\ CorrectMeansAllAgree
  /\ pc \in {"none", "admit", "index", "plan"} =>
       /\ reference = None /\ candidate = None
       /\ seen["baseline"] = {} /\ seen["candidate"] = {}
  /\ pc \in {"open", "run", "close"} =>
       reference \in Digests \cup {None} /\ candidate \in {None, reference}
  /\ pc = "open" => /\ seen["baseline"] = {reference} \ {None}
                    /\ seen["candidate"] = {candidate} \ {None}
  /\ pc \in {"run", "close"} =>
       /\ seen["baseline"] = ({reference} \cup GotOf("baseline")) \ {None}
       /\ seen["candidate"] = ({candidate} \cup GotOf("candidate")) \ {None, "timeout"}
       /\ "timeout" \notin GotOf("baseline")
  /\ pc = "run" =>
       /\ \A i \in 1 .. (step - 1) : Runs(Order)[i][1] = "baseline" => got[Runs(Order)[i]] # None
       /\ \A i \in step .. 4 : got[Runs(Order)[i]] = None
  /\ pc = "close" => None \notin GotOf("baseline")

IInv == Core /\ Timed /\ Built /\ Agree

-----------------------------------------------------------------------------
\* The executions of a trial: all four, each once.
LEMMA RunFacts ==
  ASSUME NEW o
  PROVE  /\ \A i \in 1 .. 4 : /\ Runs(o)[i] \in Arms \X Temps /\ Runs(o)[i][1] \in Arms
                              /\ Runs(o)[i] = <<Runs(o)[i][1], Runs(o)[i][2]>>
                              /\ Runs(o)[i][2] \in Temps
         /\ \A i, j \in 1 .. 4 : Runs(o)[i] = Runs(o)[j] => i = j
         /\ \A t \in Temps : \E i \in 1 .. 4 : Runs(o)[i] = <<"baseline", t>>
<1>1. CASE o = "baseline-first"
  BY <1>1 DEF Runs, Arms, Temps
<1>2. CASE o # "baseline-first"
  BY <1>2 DEF Runs, Arms, Temps
<1>3. QED
  BY <1>1, <1>2

LEMMA Facts ==
  /\ QueryTimeout \in Nat /\ QueryTimeout > 0 /\ TrialCount \in Nat /\ TrialCount > 0
  /\ None \notin Digests /\ "timeout" \notin Digests /\ None # "timeout"
  /\ \A r \in Requests : Indexes[r] \in Nat
  /\ Arms = {"baseline", "candidate"} /\ Temps = {"cold", "warm"}
BY SandboxAssumption DEF Arms, Temps

\* The larger of two numbers.
LEMMA MaxOfTwo ==
  ASSUME NEW x \in Int
  PROVE  Max({x, 0}) = IF x < 0 THEN 0 ELSE x
<1>1. \E m \in {x, 0} : \A y \in {x, 0} : m >= y
  <2>1. CASE x < 0
    BY <2>1
  <2>2. CASE ~(x < 0)
    BY <2>2
  <2>3. QED
    BY <2>1, <2>2
<1>2. Max({x, 0}) \in {x, 0} /\ \A y \in {x, 0} : Max({x, 0}) >= y
  BY <1>1 DEF Max
<1>3. QED
  BY <1>2

\* No gate of three is closed when the first closed one has no code.
LEMMA GateFacts ==
  ASSUME NEW a \in BOOLEAN, NEW b \in BOOLEAN, NEW c \in BOOLEAN, NEW u, NEW v, NEW w,
         u # "none", v # "none", w # "none",
         FirstClosed(<<<<a, u>>, <<b, v>>, <<c, w>>>>) = "none"
  PROVE  ~a /\ ~b /\ ~c
<1> DEFINE gates == <<<<a, u>>, <<b, v>>, <<c, w>>>>
           closed == {i \in DOMAIN gates : gates[i][1]}
<1>1. DOMAIN gates = {1, 2, 3} /\ gates[1][1] = a /\ gates[2][1] = b /\ gates[3][1] = c
      /\ gates[1][2] = u /\ gates[2][2] = v /\ gates[3][2] = w
  OBVIOUS
<1>2. closed \subseteq {1, 2, 3} /\ \A i \in {1, 2, 3} : i \in closed <=> gates[i][1]
  BY <1>1
<1> HIDE DEF closed, gates
<1>3. closed # {} => Min(closed) \in closed
  <2> SUFFICES ASSUME closed # {} PROVE Min(closed) \in closed
    OBVIOUS
  <2>1. \E m \in closed : \A y \in closed : m <= y
    <3>1. \A i \in {1, 2, 3} : 1 <= i /\ (i # 1 => 2 <= i) /\ i <= 3 /\ i \in Int
      OBVIOUS
    <3>2. CASE 1 \in closed
      BY <1>2, <3>1, <3>2
    <3>3. CASE 1 \notin closed /\ 2 \in closed
      BY <1>2, <3>1, <3>3
    <3>4. CASE 1 \notin closed /\ 2 \notin closed
      <4>1. closed = {3}
        BY <1>2, <3>4
      <4>2. QED
        BY <4>1
    <3>5. QED
      BY <3>2, <3>3, <3>4
  <2>2. QED
    BY <2>1 DEF Min
<1>4. FirstClosed(gates) = IF closed = {} THEN "none" ELSE gates[Min(closed)][2]
  BY DEF FirstClosed, closed
<1>5. closed = {}
  BY <1>1, <1>2, <1>3, <1>4 DEF gates
<1>6. QED
  BY <1>1, <1>2, <1>5

LEMMA NoRunsFacts ==
  /\ NoRuns \in [Arms \X Temps -> Values]
  /\ \A x \in Arms \X Temps : NoRuns[x] = None
BY DEF NoRuns, Values

LEMMA Initial == Init => IInv
<1> SUFFICES ASSUME Init PROVE IInv
  OBVIOUS
<1> USE Facts DEF Init
<1>1. Core
  BY NoRunsFacts DEF Core, Statement
<1>2. Timed
  BY DEF Timed
<1>3. Built
  BY DEF Built
<1>4. Agree
  BY DEF Agree, CorrectMeansAllAgree
<1>5. QED
  BY <1>1, <1>2, <1>3, <1>4 DEF IInv

\* execute_request leaves without calling a bundle correct, or calls one correct
\* of which every result was the same.
LEMMA Leaving ==
  ASSUME IInv, NEW r, Leave(r), pc # "none", ~early', UNCHANGED <<seen, partial>>,
         r.correct => \E d \in Digests : seen["candidate"] = {d} /\ seen["baseline"] = {d}
  PROVE  IInv'
<1> USE Facts DEF Leave, DropLocals
<1>1. Core'
  <2>1. [a \in Arms |-> 0] \in [Arms -> Nat]
    OBVIOUS
  <2>2. got' \in [Arms \X Temps -> Values]
    BY NoRunsFacts
  <2>3. parent' = parent /\ parent # "idle" /\ request' \in Requests /\ pc' = "returned"
    BY DEF IInv, Core
  <2>4. QED
    BY <2>1, <2>2, <2>3 DEF IInv, Core, Ended
<1>2. Timed'
  BY DEF Timed
<1>3. Built'
  BY DEF IInv, Built
<1>4. Agree'
  BY DEF Agree, CorrectMeansAllAgree
<1>5. QED
  BY <1>1, <1>2, <1>3, <1>4 DEF IInv

\* A statement on the connection of a is not interrupted in its own time.
LEMMA OwnTime ==
  ASSUME IInv, NEW a \in Arms, Owed(a), Interrupts(a)
  PROVE  ~early' /\ UNCHANGED <<seen, partial>>
<1>1. ran \in Nat /\ ~early
  BY DEF IInv, Core, Timed
<1>2. ran >= QueryTimeout
  BY <1>1, Facts DEF Owed, Interrupts
<1>3. ~(ran < QueryTimeout)
  BY <1>1, <1>2, Facts
<1>4. early' = (early \/ ran < QueryTimeout) /\ UNCHANGED <<seen, partial>>
  BY DEF Interrupts
<1>5. ~early'
  BY <1>1, <1>3, <1>4, Zenon
<1>6. QED
  BY <1>4, <1>5

\* The failures of a request are not correct.
LEMMA FailureIncorrect == \A code : ~Failure(code).correct
BY DEF Failure, Result

\* What was seen and got is as before.
LEMMA AgreeUnchanged ==
  ASSUME Agree, UNCHANGED <<pc, got, step, trials, reference, candidate, result, seen>>
  PROVE  Agree'
<1>1. \A a : GotOf(a)' = GotOf(a)
  BY DEF GotOf
<1>2. GotOf("baseline")' = GotOf("baseline") /\ GotOf("candidate")' = GotOf("candidate")
  BY <1>1
<1>3. Order' = Order
  BY DEF Order
<1>4. CorrectMeansAllAgree'
  BY DEF Agree, CorrectMeansAllAgree
<1>5. (pc = "run" => /\ \A i \in 1 .. (step - 1) : Runs(Order)[i][1] = "baseline" => got[Runs(Order)[i]] # None
                    /\ \A i \in step .. 4 : got[Runs(Order)[i]] = None)'
  BY <1>3 DEF Agree
<1>6. QED
  BY <1>2, <1>4, <1>5 DEF Agree

LEMMA ValidatorStep ==
  ASSUME IInv, Validator
  PROVE  IInv'
<1> USE DEF trial, progress, history
<1>1. CASE \E r \in Requests : Spawn(r)
  <2>1. PICK r \in Requests : Spawn(r)
    BY <1>1
  <2>2. pc = "none" /\ pc' = "admit" /\ request' = r /\ parent' = "waiting"
    BY <2>1 DEF Spawn, IInv, Core
  <2>3. UNCHANGED <<step, got, left, ran, installed, trials, reference, candidate, result,
                    early, seen, partial>>
    BY <2>1 DEF Spawn
  <2>4. Core'
    BY <2>2, <2>3 DEF IInv, Core, Statement
  <2>5. Timed' /\ Built'
    BY <2>2, <2>3 DEF IInv, Timed, Built
  <2>6. Agree'
    BY <2>2, <2>3 DEF IInv, Agree, CorrectMeansAllAgree, GotOf
  <2>7. QED
    BY <2>4, <2>5, <2>6 DEF IInv
<1>2. CASE Refuse \/ Collect \/ WallTimeout \/ AwaitKilled
  <2>1. UNCHANGED Worker /\ (parent' = "idle" => parent = "idle")
    BY <1>2 DEF Refuse, Collect, WallTimeout, AwaitKilled
  <2>2. UNCHANGED <<step, got, left, ran, installed, trials, reference, candidate, result,
                    early, seen, partial, pc, request>>
    BY <2>1 DEF Worker
  <2>3. Core'
    BY <2>1, <2>2 DEF IInv, Core
  <2>4. Timed'
    BY <2>2 DEF IInv, Timed, Owed, Order
  <2>5. Built'
    BY <2>2 DEF IInv, Built
  <2>6. Agree'
    BY <2>2, AgreeUnchanged DEF IInv
  <2>7. QED
    BY <2>3, <2>4, <2>5, <2>6 DEF IInv
<1>3. QED
  BY <1>1, <1>2 DEF Validator

\* One tick is one off what is left and one more of what has run.
LEMMA TickStep ==
  ASSUME IInv, Tick
  PROVE  IInv'
<1> USE DEF progress, history, validator
<1>1. UNCHANGED <<parent, step, got, installed, trials, reference, candidate, result, early,
                  seen, partial, pc, request>>
  BY DEF Tick
<1>2. ran \in Nat /\ ran' = ran + 1 /\ left \in [Arms -> Nat]
  BY DEF IInv, Core, Tick
<1>3. \A a \in Arms : left'[a] = IF left[a] - 1 < 0 THEN 0 ELSE left[a] - 1
  <2>1. TAKE a \in Arms
  <2>2. left'[a] = Max({left[a] - 1, 0}) /\ left[a] - 1 \in Int
    BY <1>2 DEF Tick
  <2>3. QED
    BY <2>2, MaxOfTwo
<1>4. left' \in [Arms -> Nat]
  <2>1. left' = [a \in Arms |-> Max({left[a] - 1, 0})]
    BY DEF Tick
  <2>2. \A a \in Arms : left'[a] \in Nat
    BY <1>2, <1>3
  <2>3. QED
    BY <2>1, <2>2
<1>5. \A a \in Arms : Owed(a) => Owed(a)'
  BY <1>2, <1>3, Facts DEF Owed
<1>6. Core'
  BY <1>1, <1>2, <1>4 DEF IInv, Core
<1>7. Timed'
  <2>1. "candidate" \in Arms
    BY Facts
  <2>2. pc = "run" => Runs(Order)[step][1] \in Arms
    BY RunFacts DEF IInv, Core
  <2>3. Order' = Order
    BY <1>1 DEF Order
  <2>4. QED
    BY <1>1, <1>5, <2>1, <2>2, <2>3 DEF IInv, Timed
<1>8. Built'
  BY <1>1 DEF IInv, Built
<1>9. Agree'
  BY <1>1, AgreeUnchanged DEF IInv
<1>10. QED
  BY <1>6, <1>7, <1>8, <1>9 DEF IInv

LEMMA AdmitStep ==
  ASSUME IInv, Admit
  PROVE  IInv'
<1>1. CASE Refusal(request) # "none"
  <2>1. Leave(Failure(Refusal(request))) /\ UNCHANGED <<early, seen, partial>> /\ pc = "admit"
    BY <1>1 DEF Admit, history
  <2>2. ~early'
    BY <2>1 DEF IInv, Timed
  <2>3. QED
    BY <2>1, <2>2, Leaving, FailureIncorrect
<1>2. CASE Refusal(request) = "none"
  <2> USE DEF validator, history
  <2>1. /\ UNCHANGED <<parent, request, step, got, installed, trials, reference, candidate,
                       result, early, seen, partial>>
        /\ pc = "admit" /\ pc' = IF Indexes[request] = 0 THEN "plan" ELSE "index"
        /\ ran' = 0 /\ left' = [left EXCEPT !["candidate"] = QueryTimeout]
    BY <1>2 DEF Admit, Start
  <2>2. request \in Requests /\ Indexes[request] \in Nat /\ left \in [Arms -> Nat]
        /\ "candidate" \in Arms
    BY <2>1, Facts DEF IInv, Core
  <2>3. Core'
    BY <2>1, <2>2, Facts DEF IInv, Core, Statement
  <2>4. Timed'
    BY <2>1, <2>2, Facts DEF IInv, Timed, Owed
  <2>5. Built'
    BY <2>1, <2>2, Facts DEF IInv, Built
  <2>6. Agree'
    BY <2>1 DEF IInv, Agree, CorrectMeansAllAgree
  <2>7. QED
    BY <2>3, <2>4, <2>5, <2>6 DEF IInv
<1>3. QED
  BY <1>1, <1>2

LEMMA BuildIndexStep ==
  ASSUME IInv, BuildIndex
  PROVE  IInv'
<1> USE DEF validator, history
<1>1. /\ UNCHANGED <<parent, request, step, got, trials, reference, candidate, result,
                     early, seen, partial>>
      /\ pc = "index" /\ installed' = installed + 1
      /\ pc' = IF installed' = Indexes[request] THEN "plan" ELSE "index"
      /\ ran' = 0 /\ left' = [left EXCEPT !["candidate"] = QueryTimeout]
  BY DEF BuildIndex, Start
<1>2. request \in Requests /\ Indexes[request] \in Nat /\ left \in [Arms -> Nat]
      /\ "candidate" \in Arms /\ installed \in Nat
  BY <1>1, Facts DEF IInv, Core
<1>3. Core'
  BY <1>1, <1>2, Facts DEF IInv, Core, Statement
<1>4. Timed'
  BY <1>1, <1>2, Facts DEF IInv, Timed, Owed
<1>5. Built'
  BY <1>1, <1>2, Facts DEF IInv, Built
<1>6. Agree'
  BY <1>1 DEF IInv, Agree, CorrectMeansAllAgree
<1>7. QED
  BY <1>3, <1>4, <1>5, <1>6 DEF IInv

\* The failures of the worker before and during the trials.
LEMMA FailureStep ==
  ASSUME IInv, OutgrowLimit \/ SetupFails \/ RunRejected
  PROVE  IInv'
<1>1. ~early
  BY DEF IInv, Timed
<1>2. CASE pc \in {"index", "plan"} /\ Interrupts("candidate") /\ Leave(Failure("query_timeout"))
  <2>1. Owed("candidate") /\ "candidate" \in Arms /\ pc # "none"
    BY <1>2, Facts DEF IInv, Timed
  <2>2. ~early' /\ UNCHANGED <<seen, partial>>
    BY <1>2, <2>1, OwnTime
  <2>3. QED
    BY <1>2, <2>1, <2>2, Leaving, FailureIncorrect
<1>3. CASE \E code : pc # "none" /\ Leave(Failure(code)) /\ UNCHANGED history
  <2>1. PICK code : pc # "none" /\ Leave(Failure(code)) /\ UNCHANGED <<early, seen, partial>>
    BY <1>3 DEF history
  <2>2. QED
    BY <1>1, <2>1, Leaving, FailureIncorrect
<1>4. QED
  BY <1>2, <1>3 DEF OutgrowLimit, SetupFails, RunRejected

LEMMA CrashStep ==
  ASSUME IInv, Crash
  PROVE  IInv'
<1> USE Facts DEF Crash, DropLocals, history
<1>1. Core'
  <2>1. [a \in Arms |-> 0] \in [Arms -> Nat]
    OBVIOUS
  <2>2. got' \in [Arms \X Temps -> Values]
    BY NoRunsFacts
  <2>3. parent' = parent /\ parent # "idle" /\ request' \in Requests /\ pc' = "crashed"
    BY DEF IInv, Core
  <2>4. QED
    BY <2>1, <2>2, <2>3 DEF IInv, Core, Ended
<1>2. Timed' /\ Built'
  BY DEF IInv, Timed, Built
<1>3. result = None /\ result' = None
  BY DEF IInv, Agree, Ended
<1>4. Agree'
  BY <1>3 DEF Agree, CorrectMeansAllAgree
<1>5. QED
  BY <1>1, <1>2, <1>4 DEF IInv

LEMMA ExplainStep ==
  ASSUME IInv, Explain
  PROVE  IInv'
<1>1. /\ UNCHANGED <<parent, request, step, got, left, ran, installed, trials, reference,
                     candidate, result, early, seen, partial>>
      /\ pc = "plan" /\ pc' = "open"
  BY DEF Explain, validator, trial, progress, history
<1>2. Core'
  BY <1>1 DEF IInv, Core
<1>3. Timed' /\ Built'
  BY <1>1 DEF IInv, Timed, Built
<1>4. Agree'
  BY <1>1 DEF IInv, Agree, CorrectMeansAllAgree
<1>5. QED
  BY <1>2, <1>3, <1>4 DEF IInv

LEMMA OpenTrialStep ==
  ASSUME IInv, OpenTrial
  PROVE  IInv'
<1>1. /\ UNCHANGED <<parent, request, installed, trials, reference, candidate, result,
                     early, seen>>
      /\ pc = "open" /\ pc' = "run" /\ step' = 1 /\ got' = NoRuns /\ ran' = 0
      /\ left' = [a \in Arms |-> QueryTimeout]
      /\ partial' = (partial \/ installed # Indexes[request])
  BY DEF OpenTrial, validator, progress
<1>2. Core'
  <2>1. left' \in [Arms -> Nat]
    BY <1>1, Facts
  <2>2. got' \in [Arms \X Temps -> Values]
    BY <1>1, NoRunsFacts
  <2>3. QED
    BY <1>1, <2>1, <2>2 DEF IInv, Core, Statement
<1>3. Timed'
  <2>1. \A a \in Arms : Owed(a)'
    BY <1>1, Facts DEF Owed
  <2>2. Order' = Order
    BY <1>1 DEF Order
  <2>3. Runs(Order)[1][1] \in Arms
    BY RunFacts
  <2>4. QED
    BY <1>1, <2>1, <2>2, <2>3 DEF IInv, Timed
<1>4. Built'
  <2>1. installed = Indexes[request] /\ ~partial
    BY <1>1 DEF IInv, Built
  <2>2. ~partial'
    BY <1>1, <2>1, Zenon
  <2>3. QED
    BY <1>1, <2>1, <2>2 DEF Built
<1>5. Agree'
  <2>1. GotOf("baseline")' = {None} /\ GotOf("candidate")' = {None}
    BY <1>1, NoRunsFacts, Facts DEF GotOf
  <2>2. \A i \in 1 .. 4 : got'[Runs(Order)[i]] = None
    BY <1>1, RunFacts, NoRunsFacts
  <2>3. Order' = Order
    BY <1>1 DEF Order
  <2>4. CorrectMeansAllAgree'
    BY <1>1 DEF IInv, Agree, CorrectMeansAllAgree
  <2>5. /\ seen'["baseline"] = ({reference'} \cup GotOf("baseline")') \ {None}
        /\ seen'["candidate"] = ({candidate'} \cup GotOf("candidate")') \ {None, "timeout"}
        /\ reference' \in Digests \cup {None} /\ candidate' \in {None, reference'}
    BY <1>1, <2>1, Facts DEF IInv, Agree
  <2>6. "timeout" \notin GotOf("baseline")' /\ result' = None
    <3>1. None # "timeout"
      BY Facts
    <3>2. QED
      BY <1>1, <2>1, <3>1 DEF IInv, Agree
  <2>7. QED
    BY <1>1, <2>2, <2>3, <2>4, <2>5, <2>6 DEF Agree
<1>6. QED
  BY <1>2, <1>3, <1>4, <1>5 DEF IInv

\* A bundle is correct when its result is the reference, the only digest seen.
LEMMA FinishStep ==
  ASSUME IInv, Finish
  PROVE  IInv'
<1>1. pc = "open" /\ ~early /\ UNCHANGED <<early, seen, partial>>
  BY DEF IInv, Timed, Finish, history
<1>2. PICK r : Leave(r) /\ (r.correct => candidate # None /\ candidate = reference)
  <2>1. CASE candidate = None
    <3>1. PICK u \in UsesIndex : Leave(Result("candidate_timeout", FALSE, TRUE, trials, u, 0))
      BY <2>1 DEF Finish
    <3>2. QED
      BY <3>1 DEF Result
  <2>2. CASE candidate # None
    <3>1. PICK s \in Savings, u \in UsesIndex :
             Leave(IF candidate = reference
                   THEN Result("none", TRUE, TRUE, trials, u, s)
                   ELSE Result("result_mismatch", FALSE, TRUE, trials, u, 0))
      BY <2>2 DEF Finish
    <3>2. CASE candidate = reference
      BY <2>2, <3>1, <3>2
    <3>3. CASE candidate # reference
      <4>1. Leave(Result("result_mismatch", FALSE, TRUE, trials, u, 0))
        BY <3>1, <3>3
      <4>2. QED
        BY <4>1 DEF Result
    <3>4. QED
      BY <3>2, <3>3
  <2>3. QED
    BY <2>1, <2>2
<1>3. r.correct => \E d \in Digests : seen["candidate"] = {d} /\ seen["baseline"] = {d}
  BY <1>1, <1>2 DEF IInv, Agree
<1>4. QED
  BY <1>1, <1>2, <1>3, Leaving

\* The trial goes on after its current execution has given v: a digest that is
\* seen, or for the candidate a time-out.
LEMMA AdvanceStep ==
  ASSUME IInv, pc = "run", NEW v \in Digests \cup {"timeout"},
         NEW x, x = Runs(Order)[step],
         Advance([got EXCEPT ![x] = v]),
         ~early', UNCHANGED <<parent, request, installed, trials, reference, candidate, result,
                              partial>>,
         v = "timeout" => x[1] = "candidate" /\ UNCHANGED seen,
         v # "timeout" => seen' = [seen EXCEPT ![x[1]] = @ \cup {v}]
  PROVE  IInv'
<1> DEFINE runs == Runs(Order)
<1>1. /\ step \in 1 .. 4 /\ step \in Int /\ x \in Arms \X Temps /\ x[1] \in Arms
      /\ x = <<x[1], x[2]>> /\ x[2] \in Temps /\ x = runs[step]
      /\ got \in [Arms \X Temps -> Values] /\ left \in [Arms -> Nat]
      /\ seen \in [Arms -> SUBSET Digests]
  BY RunFacts DEF IInv, Core
<1>2. got' = [got EXCEPT ![x] = v]
  BY DEF Advance
<1>3. /\ step' \in {step + 1, step + 2}
      /\ step' = step + 2 => step < 4 /\ runs[step + 1] = <<"candidate", "warm">>
  BY <1>1 DEF Advance
<1>4. IF step' > 4 THEN pc' = "close" /\ UNCHANGED <<left, ran>>
      ELSE pc' = "run" /\ ran' = 0 /\ left' = [left EXCEPT ![runs[step'][1]] = QueryTimeout]
  BY <1>1 DEF Advance, Start
<1>5. Order' = Order
  BY DEF Order
<1> HIDE DEF runs
<1>6. /\ \A i \in 1 .. 4 : /\ runs[i] \in Arms \X Temps /\ runs[i][1] \in Arms
      /\ \A i, j \in 1 .. 4 : runs[i] = runs[j] => i = j
      /\ \A t \in Temps : \E i \in 1 .. 4 : runs[i] = <<"baseline", t>>
  BY RunFacts DEF runs
<1>7. Core'
  <2>1. got' \in [Arms \X Temps -> Values]
    BY <1>1, <1>2 DEF Values
  <2>2. seen' \in [Arms -> SUBSET Digests]
    <3>1. CASE v = "timeout"
      BY <1>1, <3>1
    <3>2. CASE v # "timeout"
      <4>1. v \in Digests /\ seen[x[1]] \cup {v} \subseteq Digests
        BY <1>1, <3>2
      <4>2. seen' = [seen EXCEPT ![x[1]] = seen[x[1]] \cup {v}]
        BY <3>2
      <4>3. QED
        BY <1>1, <4>1, <4>2
    <3>3. QED
      BY <3>1, <3>2
  <2>3. left' \in [Arms -> Nat] /\ ran' \in Nat
    BY <1>1, <1>4, Facts DEF IInv, Core
  <2>4. step' \in 0 .. 5 /\ (pc' = "run" => step' \in 1 .. 4) /\ pc' \in {"run", "close"}
    BY <1>1, <1>3, <1>4
  <2>5. QED
    BY <2>1, <2>2, <2>3, <2>4 DEF IInv, Core, Statement
<1>8. Timed'
  <2>1. pc' \in {"run", "close"}
    BY <1>4
  <2>2. pc' = "run" => left'[runs[step'][1]] = QueryTimeout /\ ran' = 0
    BY <1>1, <1>3, <1>4, <1>6
  <2>3. (pc = "run" => Owed(Runs(Order)[step][1]))'
    BY <1>5, <2>2, Facts DEF Owed, runs
  <2>4. QED
    BY <2>1, <2>3 DEF Timed
<1>9. Built'
  BY <1>4 DEF IInv, Built
<1>10. \A y \in Arms \X Temps : got'[y] = IF y = x THEN v ELSE got[y]
  BY <1>1, <1>2
<1>11. got[x] = None
  BY <1>1 DEF IInv, Agree, runs
<1>12. Agree'
  <2>1. \A a \in Arms : a # x[1] => GotOf(a)' = GotOf(a)
    <3>1. SUFFICES ASSUME NEW a \in Arms, a # x[1] PROVE GotOf(a)' = GotOf(a)
      OBVIOUS
    <3>2. \A t \in Temps : <<a, t>> # x
      BY <1>1, <3>1
    <3>3. \A t \in Temps : got'[<<a, t>>] = got[<<a, t>>]
      BY <1>10, <3>2
    <3>4. GotOf(a)' \subseteq GotOf(a)
      BY <3>3 DEF GotOf
    <3>5. GotOf(a) \subseteq GotOf(a)'
      BY <3>3 DEF GotOf
    <3>6. QED
      BY <3>4, <3>5
  <2>2. GotOf(x[1])' \cup {None} = GotOf(x[1]) \cup {v, None}
    <3>1. \A w \in GotOf(x[1])' : w \in GotOf(x[1]) \cup {v, None}
      <4>1. TAKE w \in GotOf(x[1])'
      <4>2. PICK t \in Temps : w = got'[<<x[1], t>>]
        BY DEF GotOf
      <4>3. got'[<<x[1], t>>] \in {v, got[<<x[1], t>>]}
        BY <1>1, <1>10
      <4>4. got[<<x[1], t>>] \in GotOf(x[1])
        BY DEF GotOf
      <4>5. QED
        BY <4>2, <4>3, <4>4
    <3>2. v \in GotOf(x[1])'
      BY <1>1, <1>10 DEF GotOf
    <3>3. \A w \in GotOf(x[1]) : w \in GotOf(x[1])' \cup {None}
      <4>1. TAKE w \in GotOf(x[1])
      <4>2. PICK t \in Temps : w = got[<<x[1], t>>]
        BY DEF GotOf
      <4>3. CASE <<x[1], t>> = x
        BY <1>11, <4>2, <4>3
      <4>4. CASE <<x[1], t>> # x
        <5>1. got'[<<x[1], t>>] = w
          BY <1>1, <1>10, <4>2, <4>4
        <5>2. QED
          BY <5>1 DEF GotOf
      <4>5. QED
        BY <4>3, <4>4
    <3>4. QED
      BY <3>1, <3>2, <3>3
  <2>3. /\ seen["baseline"] = ({reference} \cup GotOf("baseline")) \ {None}
        /\ seen["candidate"] = ({candidate} \cup GotOf("candidate")) \ {None, "timeout"}
        /\ "timeout" \notin GotOf("baseline")
    BY DEF IInv, Agree
  <2>4. /\ seen'["baseline"] = ({reference} \cup GotOf("baseline")') \ {None}
        /\ "timeout" \notin GotOf("baseline")'
    <3>1. CASE x[1] = "baseline"
      <4>1. v # "timeout" /\ seen'["baseline"] = seen["baseline"] \cup {v} /\ v # None
        BY <1>1, <3>1, Facts
      <4>2. QED
        BY <2>2, <2>3, <3>1, <4>1, Facts
    <3>2. CASE x[1] # "baseline"
      <4>1. seen'["baseline"] = seen["baseline"] /\ GotOf("baseline")' = GotOf("baseline")
        BY <1>1, <2>1, <3>2, Facts
      <4>2. QED
        BY <2>3, <4>1
    <3>3. QED
      BY <3>1, <3>2
  <2>5. seen'["candidate"] = ({candidate} \cup GotOf("candidate")') \ {None, "timeout"}
    <3>1. CASE x[1] = "candidate" /\ v = "timeout"
      BY <2>2, <2>3, <3>1
    <3>2. CASE x[1] = "candidate" /\ v # "timeout"
      <4>1. seen'["candidate"] = seen["candidate"] \cup {v} /\ v # None
        BY <1>1, <3>2, Facts
      <4>2. QED
        BY <2>2, <2>3, <3>2, <4>1, Facts
    <3>3. CASE x[1] # "candidate"
      <4>1. seen'["candidate"] = seen["candidate"] /\ GotOf("candidate")' = GotOf("candidate")
        BY <1>1, <2>1, <3>3, Facts
      <4>2. QED
        BY <2>3, <4>1
    <3>4. QED
      BY <3>1, <3>2, <3>3
  <2>6. \A i \in 1 .. 4 : i < step' /\ runs[i][1] = "baseline" => got'[runs[i]] # None
    <3>1. SUFFICES ASSUME NEW i \in 1 .. 4, i < step', runs[i][1] = "baseline"
                   PROVE  got'[runs[i]] # None
      OBVIOUS
    <3>2. CASE i < step
      <4>1. got[runs[i]] # None
        BY <1>1, <3>1, <3>2 DEF IInv, Agree, runs
      <4>2. runs[i] # x
        BY <1>11, <4>1
      <4>3. QED
        BY <1>6, <1>10, <4>1, <4>2
    <3>3. CASE i = step
      <4>1. v # None
        BY Facts
      <4>2. QED
        BY <1>1, <1>10, <3>3, <4>1
    <3>4. CASE i > step
      <4>1. i = step + 1 /\ runs[i] = <<"candidate", "warm">>
        BY <1>1, <1>3, <3>1, <3>4
      <4>2. QED
        BY <3>1, <4>1
    <3>5. QED
      BY <1>1, <3>2, <3>3, <3>4
  <2>7. \A i \in 1 .. 4 : i >= step' => got'[runs[i]] = None
    <3>1. SUFFICES ASSUME NEW i \in 1 .. 4, i >= step' PROVE got'[runs[i]] = None
      OBVIOUS
    <3>2. i > step /\ runs[i] # x
      BY <1>1, <1>3, <1>6, <3>1
    <3>3. got[runs[i]] = None
      BY <1>1, <3>2 DEF IInv, Agree, runs
    <3>4. QED
      BY <1>6, <1>10, <3>2, <3>3
  <2>8. pc' = "close" => None \notin GotOf("baseline")'
    <3>1. SUFFICES ASSUME pc' = "close", NEW t \in Temps PROVE got'[<<"baseline", t>>] # None
      BY DEF GotOf
    <3>2. step' > 4
      BY <1>4, <3>1
    <3>3. PICK i \in 1 .. 4 : runs[i] = <<"baseline", t>>
      BY <1>6
    <3>4. i < step'
      BY <1>1, <1>3, <3>2
    <3>5. QED
      BY <2>6, <3>3, <3>4
  <2>9. (pc = "run" =>
           /\ \A i \in 1 .. (step - 1) : Runs(Order)[i][1] = "baseline" => got[Runs(Order)[i]] # None
           /\ \A i \in step .. 4 : got[Runs(Order)[i]] = None)'
    <3>1. SUFFICES ASSUME pc' = "run"
          PROVE  /\ \A i \in 1 .. (step' - 1) : runs[i][1] = "baseline" => got'[runs[i]] # None
                 /\ \A i \in step' .. 4 : got'[runs[i]] = None
      BY <1>5 DEF runs
    <3>2. step' \in 1 .. 4
      BY <1>1, <1>3, <1>4, <3>1
    <3>3. /\ \A i \in 1 .. (step' - 1) : i \in 1 .. 4 /\ i < step'
          /\ \A i \in step' .. 4 : i \in 1 .. 4 /\ i >= step'
      <4>1. \A n \in 1 .. 4 : /\ \A i \in 1 .. (n - 1) : i \in 1 .. 4 /\ i < n
                              /\ \A i \in n .. 4 : i \in 1 .. 4 /\ i >= n
        OBVIOUS
      <4>2. QED
        BY <3>2, <4>1
    <3>4. QED
      BY <2>6, <2>7, <3>3
  <2>10. pc' \in {"run", "close"} /\ result = None /\ result' = None
    BY <1>4 DEF IInv, Agree
  <2>11. reference' \in Digests \cup {None} /\ candidate' \in {None, reference'}
    BY DEF IInv, Agree
  <2>12. QED
    BY <2>4, <2>5, <2>8, <2>9, <2>10, <2>11 DEF Agree, CorrectMeansAllAgree
<1>13. QED
  BY <1>7, <1>8, <1>9, <1>12 DEF IInv

LEMMA RunStep ==
  ASSUME IInv, (\E d \in Digests : RunCompletes(d)) \/ RunInterrupted
  PROVE  IInv'
<1> DEFINE x == Runs(Order)[step]
<1>1. CASE \E d \in Digests : RunCompletes(d)
  <2>1. PICK d \in Digests : RunCompletes(d)
    BY <1>1
  <2>2. /\ pc = "run" /\ Advance([got EXCEPT ![x] = d])
        /\ seen' = [seen EXCEPT ![x[1]] = @ \cup {d}]
        /\ UNCHANGED <<parent, request, installed, trials, reference, candidate, result,
                       early, partial>>
    BY <2>1 DEF RunCompletes, validator, progress
  <2>3. ~early' /\ d # "timeout"
    BY <2>2, Facts DEF IInv, Timed
  <2>4. QED
    BY <2>2, <2>3, AdvanceStep
<1>2. CASE RunInterrupted
  <2>1. pc = "run" /\ Interrupts(x[1]) /\ x[1] \in Arms
    BY <1>2, RunFacts DEF RunInterrupted, IInv, Core
  <2>2. ~early' /\ UNCHANGED <<seen, partial>>
    BY <2>1, OwnTime DEF IInv, Timed
  <2>3. CASE x[1] = "baseline"
    <3>1. Leave(Failure("query_timeout"))
      BY <1>2, <2>3 DEF RunInterrupted
    <3>2. QED
      BY <2>1, <2>2, <3>1, Leaving, FailureIncorrect
  <2>4. CASE x[1] # "baseline"
    <3>1. Advance([got EXCEPT ![x] = "timeout"])
          /\ UNCHANGED <<parent, request, installed, trials, reference, candidate, result>>
      BY <1>2, <2>4 DEF RunInterrupted, validator, progress
    <3>2. x[1] = "candidate"
      BY <2>1, <2>4, Facts
    <3>3. QED
      BY <2>1, <2>2, <3>1, <3>2, AdvanceStep
  <2>5. QED
    BY <2>3, <2>4
<1>3. QED
  BY <1>1, <1>2

\* A trial is recorded when all its results, and the reference of the trials
\* before it, are one digest.
LEMMA CloseTrialStep ==
  ASSUME IInv, CloseTrial
  PROVE  IInv'
<1> DEFINE d == got[<<"baseline", "cold">>]
<1>1. pc = "close" /\ ~early
  BY DEF CloseTrial, IInv, Timed
<1>2. CASE CloseCode = "none" /\ RecordTrial
  <2>1. /\ d = got[<<"baseline", "warm">>]
        /\ \A c \in CompletedRuns : c = d
        /\ reference \in {None, d}
    <3> DEFINE differ  == d # got[<<"baseline", "warm">>]
               mixed   == \E c \in CompletedRuns : c # d
               changed == reference \notin {None, d}
    <3>1. FirstClosed(<<<<differ, "nondeterministic_result">>, <<mixed, "result_mismatch">>,
                        <<changed, "nondeterministic_result">>>>) = "none"
      BY <1>2 DEF CloseCode
    <3>2. differ \in BOOLEAN /\ mixed \in BOOLEAN /\ changed \in BOOLEAN
      OBVIOUS
    <3> HIDE DEF differ, mixed, changed
    <3>3. ~differ /\ ~mixed /\ ~changed
      BY <3>1, <3>2, GateFacts
    <3>4. QED
      BY <3>3 DEF differ, mixed, changed
  <2>2. /\ reference' = d
        /\ candidate' = IF CompletedRuns = {} THEN candidate
                        ELSE CHOOSE c \in CompletedRuns : TRUE
        /\ pc' = "open"
        /\ UNCHANGED <<parent, request, step, got, left, ran, installed, result, early, seen,
                       partial>>
    BY <1>2 DEF RecordTrial, validator, trial, history
  <2>3. GotOf("baseline") = {d} /\ d \in Digests
    <3>1. GotOf("baseline") = {d, got[<<"baseline", "warm">>]}
      BY Facts DEF GotOf
    <3>2. GotOf("baseline") = {d}
      BY <2>1, <3>1
    <3>3. d \in Values /\ d # None /\ d # "timeout"
      <4>1. <<"baseline", "cold">> \in Arms \X Temps
        BY Facts
      <4>2. d \in Values
        BY <4>1 DEF IInv, Core
      <4>3. None \notin GotOf("baseline") /\ "timeout" \notin GotOf("baseline")
        BY <1>1 DEF IInv, Agree
      <4>4. QED
        BY <3>2, <4>2, <4>3
    <3>4. QED
      BY <3>2, <3>3 DEF Values
  <2>4. CompletedRuns = GotOf("candidate") \ {None, "timeout"}
    BY DEF CompletedRuns, GotOf
  <2>5. /\ seen["baseline"] = ({reference} \cup GotOf("baseline")) \ {None}
        /\ seen["candidate"] = ({candidate} \cup GotOf("candidate")) \ {None, "timeout"}
        /\ candidate \in {None, reference} /\ result = None
    BY <1>1 DEF IInv, Agree
  <2>6. candidate \in {None, d} /\ d # None /\ d # "timeout" /\ None # "timeout"
    BY <2>1, <2>3, <2>5, Facts
  <2>7. seen'["baseline"] = {reference'} \ {None}
    BY <2>1, <2>2, <2>3, <2>5, <2>6
  <2>8. seen'["candidate"] = {candidate'} \ {None} /\ candidate' \in {None, reference'}
    <3>1. CASE CompletedRuns = {}
      BY <2>2, <2>4, <2>5, <2>6, <3>1
    <3>2. CASE CompletedRuns # {}
      <4>1. CompletedRuns = {d} /\ candidate' = d
        BY <2>1, <2>2, <3>2
      <4>2. seen["candidate"] = {d}
        BY <2>4, <2>5, <2>6, <4>1
      <4>3. QED
        BY <2>2, <2>6, <4>1, <4>2
    <3>3. QED
      BY <3>1, <3>2
  <2>9. Core'
    BY <1>1, <2>2 DEF IInv, Core
  <2>10. Timed' /\ Built'
    BY <1>1, <2>2 DEF IInv, Timed, Built
  <2>11. Agree'
    BY <2>2, <2>3, <2>5, <2>7, <2>8 DEF Agree, CorrectMeansAllAgree
  <2>12. QED
    BY <2>9, <2>10, <2>11 DEF IInv
<1>3. CASE \E r : Leave(r) /\ ~r.correct /\ UNCHANGED <<early, seen, partial>>
  BY <1>1, <1>3, Leaving
<1>4. CASE CloseCode = "nondeterministic_result"
           /\ Leave(Failure("nondeterministic_result")) /\ UNCHANGED history
  BY <1>3, <1>4, FailureIncorrect DEF history
<1>5. CASE (\E u \in UsesIndex : Leave(Result("result_mismatch", FALSE, TRUE, trials, u, 0)))
           /\ UNCHANGED history
  BY <1>3, <1>5 DEF Result, history
<1>6. QED
  BY <1>2, <1>4, <1>5 DEF CloseTrial

LEMMA StutterStep ==
  ASSUME IInv, UNCHANGED vars
  PROVE  IInv'
<1>1. UNCHANGED <<parent, request, step, got, left, ran, installed, trials, reference,
                  candidate, result, early, seen, partial, pc>>
  BY DEF vars, validator, trial, progress, history
<1>2. Core' /\ Built'
  BY <1>1 DEF IInv, Core, Built
<1>3. Timed'
  BY <1>1 DEF IInv, Timed, Owed, Order
<1>4. Agree'
  BY <1>1, AgreeUnchanged DEF IInv
<1>5. QED
  BY <1>2, <1>3, <1>4 DEF IInv

LEMMA Inductive == IInv /\ [Next]_vars => IInv'
<1> SUFFICES ASSUME IInv, [Next]_vars PROVE IInv'
  OBVIOUS
<1>1. CASE Validator
  BY <1>1, ValidatorStep
<1>2. CASE Tick
  BY <1>2, TickStep
<1>3. CASE Admit
  BY <1>3, AdmitStep
<1>4. CASE BuildIndex
  BY <1>4, BuildIndexStep
<1>5. CASE OutgrowLimit \/ SetupFails \/ RunRejected
  BY <1>5, FailureStep
<1>6. CASE Explain
  BY <1>6, ExplainStep
<1>7. CASE OpenTrial
  BY <1>7, OpenTrialStep
<1>8. CASE (\E d \in Digests : RunCompletes(d)) \/ RunInterrupted
  BY <1>8, RunStep
<1>9. CASE CloseTrial
  BY <1>9, CloseTrialStep
<1>10. CASE Finish
  BY <1>10, FinishStep
<1>11. CASE Crash
  BY <1>11, CrashStep
<1>12. CASE UNCHANGED vars
  BY <1>12, StutterStep
<1>13. QED
  BY <1>1, <1>2, <1>3, <1>4, <1>5, <1>6, <1>7, <1>8, <1>9, <1>10, <1>11, <1>12 DEF Next

-----------------------------------------------------------------------------
(* The codes of the checks, and the orders of the trials. *)

\* A non-empty set of naturals has a least element, its Min.
LEMMA MinIsLeast ==
  ASSUME NEW S \in SUBSET Nat, S # {}
  PROVE  Min(S) \in S
<1>1. PICK x \in S : \A y \in S : ~ (<<y, x>> \in OpToRel(<, Nat))
  BY NatLessThanWellFounded, WFMin
<1>2. \A y \in S : x <= y
  <2> SUFFICES ASSUME NEW y \in S, y < x PROVE FALSE
    OBVIOUS
  <2>1. <<y, x>> \in OpToRel(<, Nat)
    BY DEF OpToRel
  <2>2. QED
    BY <1>1, <2>1
<1>3. \E m \in S : \A y \in S : m <= y
  BY <1>2
<1>4. QED
  BY <1>3 DEF Min

\* A chain of gates gives "none" when all are open, else the code of one.
LEMMA GateCode ==
  ASSUME NEW gates, NEW n \in Nat, DOMAIN gates = 1 .. n
  PROVE  /\ (\A i \in 1 .. n : ~gates[i][1]) => FirstClosed(gates) = "none"
         /\ FirstClosed(gates) # "none" => \E i \in 1 .. n : FirstClosed(gates) = gates[i][2]
<1>1. PICK closed : closed = {i \in DOMAIN gates : gates[i][1]}
  OBVIOUS
<1>2. FirstClosed(gates) = IF closed = {} THEN "none" ELSE gates[Min(closed)][2]
  BY <1>1 DEF FirstClosed
<1>3. closed # {} => Min(closed) \in closed
  <2>1. closed \in SUBSET Nat
    BY <1>1
  <2>2. QED
    BY <2>1, MinIsLeast
<1>4. QED
  BY <1>1, <1>2, <1>3

\* A refused request gets the code of a check, which is not that of a time-out.
LEMMA RefusalCode ==
  ASSUME NEW r, Refusal(r) # "none"
  PROVE  Refusal(r) \in Range(AdmissionChecks) /\ Refusal(r) # "candidate_timeout"
<1> DEFINE Other == {c \in Range(FixtureChecks) \cup Range(ArtifactChecks) \cup {"engine_mismatch"}
                             \cup Range(QueryChecks) \cup Range(SchemaChecks)
                             \cup Range(BundleChecks) : c # "candidate_timeout"}
<1>1. FixtureChecks \in Seq(Other)
  <2>1. \A i \in 1 .. 12 : FixtureChecks[i] # "candidate_timeout"
    BY DEF FixtureChecks
  <2>2. DOMAIN FixtureChecks = 1 .. 12 /\ FixtureChecks = [i \in 1 .. 12 |-> FixtureChecks[i]]
    BY DEF FixtureChecks
  <2>3. \A i \in 1 .. 12 : FixtureChecks[i] \in Other
    BY <2>1, <2>2 DEF Range
  <2>4. QED
    BY <2>2, <2>3
<1>2. ArtifactChecks \in Seq(Other)
  <2>1. \A i \in 1 .. 6 : ArtifactChecks[i] # "candidate_timeout"
    BY DEF ArtifactChecks
  <2>2. DOMAIN ArtifactChecks = 1 .. 6 /\ ArtifactChecks = [i \in 1 .. 6 |-> ArtifactChecks[i]]
    BY DEF ArtifactChecks
  <2>3. \A i \in 1 .. 6 : ArtifactChecks[i] \in Other
    BY <2>1, <2>2 DEF Range
  <2>4. QED
    BY <2>2, <2>3
<1>3. <<"engine_mismatch">> \in Seq(Other)
  OBVIOUS
<1>4. QueryChecks \in Seq(Other)
  <2>1. \A i \in 1 .. 8 : QueryChecks[i] # "candidate_timeout"
    BY DEF QueryChecks
  <2>2. DOMAIN QueryChecks = 1 .. 8 /\ QueryChecks = [i \in 1 .. 8 |-> QueryChecks[i]]
    BY DEF QueryChecks
  <2>3. \A i \in 1 .. 8 : QueryChecks[i] \in Other
    BY <2>1, <2>2 DEF Range
  <2>4. QED
    BY <2>2, <2>3
<1>5. SchemaChecks \in Seq(Other)
  <2>1. \A i \in 1 .. 8 : SchemaChecks[i] # "candidate_timeout"
    BY DEF SchemaChecks
  <2>2. DOMAIN SchemaChecks = 1 .. 8 /\ SchemaChecks = [i \in 1 .. 8 |-> SchemaChecks[i]]
    BY DEF SchemaChecks
  <2>3. \A i \in 1 .. 8 : SchemaChecks[i] \in Other
    BY <2>1, <2>2 DEF Range
  <2>4. QED
    BY <2>2, <2>3
<1>6. BundleChecks \in Seq(Other)
  <2>1. \A i \in 1 .. 2 : BundleChecks[i] # "candidate_timeout"
    BY DEF BundleChecks
  <2>2. DOMAIN BundleChecks = 1 .. 2 /\ BundleChecks = [i \in 1 .. 2 |-> BundleChecks[i]]
    BY DEF BundleChecks
  <2>3. \A i \in 1 .. 2 : BundleChecks[i] \in Other
    BY <2>1, <2>2 DEF Range
  <2>4. QED
    BY <2>2, <2>3
<1>7. \A c \in Other : c # "candidate_timeout"
  OBVIOUS
<1> HIDE DEF Other
<1>8. AdmissionChecks \in Seq(Other)
  <2>1. \A s, t \in Seq(Other) : s \o t \in Seq(Other)
    BY ConcatProperties
  <2>2. QED
    BY <1>1, <1>2, <1>3, <1>4, <1>5, <1>6, <2>1 DEF AdmissionChecks
<1>9. PICK n \in Nat : n = Len(AdmissionChecks) /\ DOMAIN AdmissionChecks = 1 .. n
                       /\ \A i \in 1 .. n : AdmissionChecks[i] \in Other
  BY <1>8
<1>10. PICK gates : gates = [i \in DOMAIN AdmissionChecks |->
                               <<AdmissionChecks[i] \in Defects[r], AdmissionChecks[i]>>]
  OBVIOUS
<1>11. DOMAIN gates = 1 .. n /\ \A i \in 1 .. n : gates[i][2] = AdmissionChecks[i]
  BY <1>9, <1>10
<1>12. Refusal(r) = FirstClosed(gates)
  BY <1>10 DEF Refusal
<1>13. PICK i \in 1 .. n : Refusal(r) = AdmissionChecks[i]
  BY <1>11, <1>12, GateCode
<1>14. QED
  BY <1>7, <1>9, <1>13 DEF Range

Firsts  == {i \in 1 .. TrialCount : (i - 1) % 4 \in {0, 3}}
Seconds == {i \in 1 .. TrialCount : (i - 1) % 4 \in {1, 2}}

\* Every pair of trials has one of either order.
LEMMA PairsBalance ==
  /\ IsFiniteSet(Firsts) /\ IsFiniteSet(Seconds)
  /\ Cardinality(Firsts) = Cardinality(Seconds)
  /\ Cardinality(Firsts) + Cardinality(Seconds) = TrialCount
<1>1. TrialCount \in Nat /\ TrialCount % 2 = 0
  BY SandboxAssumption
<1>2. IsFiniteSet(1 .. TrialCount) /\ Cardinality(1 .. TrialCount) = TrialCount
  <2>1. TrialCount >= 6
    BY SandboxAssumption
  <2>2. QED
    BY <1>1, <2>1, FS_Interval
<1>3. Firsts \subseteq 1 .. TrialCount /\ Seconds \subseteq 1 .. TrialCount
  BY DEF Firsts, Seconds
<1>4. IsFiniteSet(Firsts) /\ IsFiniteSet(Seconds)
  BY <1>2, <1>3, FS_Subset
<1>5. Firsts \cap Seconds = {} /\ Firsts \cup Seconds = 1 .. TrialCount
  <2>1. \A i \in 1 .. TrialCount : (i - 1) % 4 \in 0 .. 3
    BY <1>1
  <2>2. 0 .. 3 = {0, 1, 2, 3}
    OBVIOUS
  <2>3. QED
    BY <2>1, <2>2 DEF Firsts, Seconds
<1>6. ExistsBijection(Firsts, Seconds)
  <2>1. ASSUME NEW i \in 1 .. TrialCount
        PROVE  /\ i % 2 = 1 => i + 1 \in 1 .. TrialCount
               /\ i % 2 # 1 => i - 1 \in 1 .. TrialCount
               /\ i % 2 = 1 => ((i - 1) % 4 \in {0, 3} <=> i % 4 = 1)
               /\ i % 2 # 1 => ((i - 1) % 4 \in {0, 3} <=> i % 4 = 0)
               /\ i % 2 = 1 => ((i + 1 - 1) % 4 \in {1, 2} <=> i % 4 = 1)
               /\ i % 2 # 1 => ((i - 1 - 1) % 4 \in {1, 2} <=> i % 4 = 0)
               /\ i % 2 = 1 => (i + 1) % 2 # 1 /\ i + 1 - 1 = i
               /\ i % 2 # 1 => (i - 1) % 2 = 1 /\ i - 1 + 1 = i
    BY <1>1
  <2>2. PICK f : f = [i \in Firsts |-> IF i % 2 = 1 THEN i + 1 ELSE i - 1]
    OBVIOUS
  <2>3. f \in [Firsts -> Seconds]
    BY <2>1, <2>2 DEF Firsts, Seconds
  <2>4. \A i, j \in Firsts : f[i] = f[j] => i = j
    BY <2>1, <2>2 DEF Firsts
  <2>5. \A j \in Seconds : \E i \in Firsts : f[i] = j
    <3>1. ASSUME NEW j \in Seconds PROVE \E i \in Firsts : f[i] = j
      <4>1. j \in 1 .. TrialCount /\ (j - 1) % 4 \in {1, 2}
        BY DEF Seconds
      <4>2. CASE j % 2 = 1
        <5>1. PICK i \in 1 .. TrialCount : i = j + 1
          BY <2>1, <4>1, <4>2
        <5>2. i % 2 # 1 /\ i - 1 = j /\ (i - 1) % 4 \in {0, 3}
          BY <4>1, <4>2, <5>1
        <5>3. i \in Firsts
          BY <5>2 DEF Firsts
        <5>4. f[i] = j
          BY <2>2, <5>2, <5>3
        <5>5. QED
          BY <5>3, <5>4
      <4>3. CASE j % 2 # 1
        <5>1. PICK i \in 1 .. TrialCount : i = j - 1
          BY <2>1, <4>1, <4>3
        <5>2. i % 2 = 1 /\ i + 1 = j /\ (i - 1) % 4 \in {0, 3}
          BY <4>1, <4>3, <5>1
        <5>3. i \in Firsts
          BY <5>2 DEF Firsts
        <5>4. f[i] = j
          BY <2>2, <5>2, <5>3
        <5>5. QED
          BY <5>3, <5>4
      <4>4. QED
        BY <4>2, <4>3
    <3>2. QED
      BY <3>1
  <2>6. f \in Bijection(Firsts, Seconds)
    BY <2>3, <2>4, <2>5 DEF Bijection, Injection, Surjection, IsInjective
  <2>7. QED
    BY <2>6 DEF ExistsBijection
<1>7. Cardinality(Firsts) = Cardinality(Seconds)
  BY <1>4, <1>6, FS_Bijection
<1>8. Cardinality(Firsts \cup Seconds) = Cardinality(Firsts) + Cardinality(Seconds)
  <2>1. Cardinality(Firsts \cap Seconds) = 0
    BY <1>5, FS_EmptySet
  <2>2. Cardinality(Firsts) \in Nat /\ Cardinality(Seconds) \in Nat
    BY <1>4, FS_CardinalityType
  <2>3. Cardinality(Firsts \cup Seconds)
          = Cardinality(Firsts) + Cardinality(Seconds) - Cardinality(Firsts \cap Seconds)
    BY <1>4, FS_Union
  <2>4. QED
    BY <2>1, <2>2, <2>3
<1>9. QED
  BY <1>2, <1>4, <1>5, <1>7, <1>8

\* The orders are the blocks of ABBA for every even number of trials.
LEMMA OrdersAre ==
  /\ DOMAIN InterleaveOrders = 1 .. TrialCount
  /\ \A i \in 1 .. TrialCount :
       InterleaveOrders[i] = IF i \in Firsts THEN "baseline-first" ELSE "candidate-first"
  /\ \A i \in 1 .. TrialCount : i \in Firsts \/ i \in Seconds
<1> DEFINE pattern == <<"baseline-first", "candidate-first", "candidate-first", "baseline-first">>
           blocks  == [i \in 1 .. TrialCount |-> pattern[((i - 1) % 4) + 1]]
           count(order) == Cardinality({i \in DOMAIN blocks : blocks[i] = order})
<1>1. TrialCount \in Nat
  BY SandboxAssumption
<1>2. ASSUME NEW i \in 1 .. TrialCount
      PROVE  /\ blocks[i] = IF i \in Firsts THEN "baseline-first" ELSE "candidate-first"
             /\ i \in Firsts \/ i \in Seconds
             /\ ~(i \in Firsts /\ i \in Seconds)
  <2>1. PICK m \in {0, 1, 2, 3} : m = (i - 1) % 4
    <3>1. (i - 1) % 4 \in 0 .. 3
      BY <1>1
    <3>2. QED
      BY <3>1
  <2>2. blocks[i] = pattern[m + 1]
    BY <2>1
  <2>3. (i \in Firsts <=> m \in {0, 3}) /\ (i \in Seconds <=> m \in {1, 2})
    BY <2>1 DEF Firsts, Seconds
  <2>4. pattern[0 + 1] = "baseline-first" /\ pattern[1 + 1] = "candidate-first"
        /\ pattern[2 + 1] = "candidate-first" /\ pattern[3 + 1] = "baseline-first"
    OBVIOUS
  <2> HIDE DEF pattern, blocks
  <2>5. CASE m = 0
    BY <2>2, <2>3, <2>4, <2>5
  <2>6. CASE m = 1
    BY <2>2, <2>3, <2>4, <2>6
  <2>7. CASE m = 2
    BY <2>2, <2>3, <2>4, <2>7
  <2>8. CASE m = 3
    BY <2>2, <2>3, <2>4, <2>8
  <2>9. QED
    BY <2>5, <2>6, <2>7, <2>8
<1>3. DOMAIN blocks = 1 .. TrialCount
  OBVIOUS
<1>4. InterleaveOrders = IF count("baseline-first") = count("candidate-first") THEN blocks
      ELSE [blocks EXCEPT ![TrialCount - 1] = "baseline-first",
                          ![TrialCount] = "candidate-first"]
  BY DEF InterleaveOrders
<1> HIDE DEF blocks
<1>5. {i \in DOMAIN blocks : blocks[i] = "baseline-first"} = Firsts
  BY <1>2, <1>3 DEF Firsts
<1>6. {i \in DOMAIN blocks : blocks[i] = "candidate-first"} = Seconds
  BY <1>2, <1>3 DEF Firsts, Seconds
<1>7. count("baseline-first") = count("candidate-first")
  BY <1>5, <1>6, PairsBalance
<1>8. InterleaveOrders = blocks
  BY <1>4, <1>7
<1>9. QED
  BY <1>2, <1>3, <1>8

-----------------------------------------------------------------------------
(* What score_benchmark makes of the trials of a worker. *)

\* Trials as the worker records them: its own, in the interleaved orders, of which
\* the baseline has never timed out.
SoundTrials(ts) ==
  /\ ts \in Seq(Trial) /\ Len(ts) <= TrialCount
  /\ \A i \in 1 .. Len(ts) :
       /\ ts[i].worker = 1 /\ ts[i].order = InterleaveOrders[i]
       /\ ~ts[i].baselineTimedOut

\* The orders stay balanced when one trial at most is left out.
LEMMA OneShort ==
  ASSUME NEW ts, SoundTrials(ts), Len(ts) = TrialCount, NEW I, I \subseteq 1 .. TrialCount,
         Cardinality(I) >= TrialCount - 1
  PROVE  ~Unbalanced(ts, I)
<1>1. PICK n \in Nat : n = TrialCount /\ n >= 6
  BY SandboxAssumption
<1>2. PICK U : U = 1 .. n /\ IsFiniteSet(U) /\ Cardinality(U) = n
  BY <1>1, FS_Interval
<1>3. IsFiniteSet(U \ I) /\ Cardinality(U \ I) <= 1
  <2>1. IsFiniteSet(U \ I) /\ Cardinality(U \ I) = Cardinality(U) - Cardinality(U \cap I)
    BY <1>2, FS_Difference
  <2>2. U \cap I = I /\ IsFiniteSet(I)
    BY <1>1, <1>2, FS_Subset
  <2>3. Cardinality(I) \in Nat
    BY <2>2, FS_CardinalityType
  <2>4. PICK kept \in Nat : kept = Cardinality(I) /\ kept >= n - 1
    BY <1>1, <2>3
  <2>5. Cardinality(U \ I) = n - kept
    BY <1>2, <2>1, <2>2, <2>4
  <2>6. n - kept <= 1
    BY <1>1, <2>4
  <2>7. QED
    BY <2>1, <2>5, <2>6
<1>4. ASSUME NEW S, S \subseteq U, Cardinality(S) >= 3
      PROVE  /\ Cardinality(S \cap I) \in Nat
             /\ Cardinality(S \cap I) \in {Cardinality(S), Cardinality(S) - 1}
  <2>1. IsFiniteSet(S) /\ IsFiniteSet(S \ I) /\ IsFiniteSet(S \cap I)
    BY <1>2, <1>4, FS_Subset
  <2>2. Cardinality(S \ I) = Cardinality(S) - Cardinality(S \cap I)
    BY <2>1, FS_Difference
  <2>3. S \ I \subseteq U \ I
    BY <1>4
  <2>4. Cardinality(S \ I) <= Cardinality(U \ I)
    BY <1>3, <2>3, FS_Subset
  <2>5. Cardinality(S) \in Nat /\ Cardinality(S \ I) \in Nat /\ Cardinality(S \cap I) \in Nat
        /\ Cardinality(U \ I) \in Nat
    BY <1>3, <2>1, FS_CardinalityType
  <2>6. QED
    BY <1>3, <2>2, <2>4, <2>5
<1>5. PICK half \in Nat : Cardinality(Firsts) = half /\ Cardinality(Seconds) = half /\ half >= 3
  <2>1. Cardinality(Firsts) \in Nat
    BY PairsBalance, FS_CardinalityType
  <2>2. Cardinality(Firsts) = Cardinality(Seconds)
        /\ Cardinality(Firsts) + Cardinality(Seconds) = n
    BY <1>1, PairsBalance
  <2>3. QED
    BY <1>1, <2>1, <2>2
<1>6. Firsts \subseteq U /\ Seconds \subseteq U
  BY <1>1, <1>2 DEF Firsts, Seconds
<1>7. \A i \in I : /\ ts[i].order = "baseline-first" <=> i \in Firsts
                   /\ ts[i].order = "candidate-first" <=> i \in Seconds
  <2>1. TAKE i \in I
  <2>2. i \in 1 .. TrialCount /\ ts[i].order = InterleaveOrders[i]
    BY DEF SoundTrials
  <2>3. ~(i \in Firsts /\ i \in Seconds) /\ (i \in Firsts \/ i \in Seconds)
    <3>1. (i - 1) % 4 \in {0, 3} => (i - 1) % 4 \notin {1, 2}
      OBVIOUS
    <3>2. QED
      BY <2>2, <3>1, OrdersAre DEF Firsts, Seconds
  <2>4. QED
    BY <2>2, <2>3, OrdersAre
<1>8. {i \in I : ts[i].order = "baseline-first"} = Firsts \cap I
  BY <1>7
<1>9. {i \in I : ts[i].order = "candidate-first"} = Seconds \cap I
  BY <1>7
<1>10. PICK first, second : first = Cardinality(Firsts \cap I) /\ second = Cardinality(Seconds \cap I)
  OBVIOUS
<1>11. first \in {half, half - 1} /\ second \in {half, half - 1}
  BY <1>4, <1>5, <1>6, <1>10
<1>12. first # 0 /\ second # 0 /\ first - second \in -1 .. 1
  BY <1>5, <1>11
<1>13. Unbalanced(ts, I) <=> first = 0 \/ second = 0 \/ first - second \notin -1 .. 1
  BY <1>8, <1>9, <1>10 DEF Unbalanced
<1>14. QED
  BY <1>12, <1>13

\* A result with sound trials of the full number is a valid benchmark, and a correct
\* one with one time-out at most is rewarded its savings.
LEMMA SoundScores ==
  ASSUME MinimumTrials <= TrialCount, MaxTimeoutShare <= TrialCount,
         NEW r, SoundTrials(r.trials), Len(r.trials) = TrialCount
  PROVE  /\ Score(r).valid
         /\ r.correct /\ r.compliant /\ Cardinality(Completed(r)) >= TrialCount - 1
              => ZeroCode(r) = "none"
<1>1. PICK n \in Nat : n = TrialCount /\ n >= 6 /\ Len(r.trials) = n
  BY SandboxAssumption
<1>2. DOMAIN r.trials = 1 .. n
  BY <1>1 DEF SoundTrials
<1>3. IsFiniteSet(1 .. n) /\ Cardinality(1 .. n) = n
  BY <1>1, FS_Interval
<1>4. InvalidCode(r) = "none"
  <2>1. ~(Len(r.trials) < MinimumTrials)
    BY <1>1, ScoringAssumption
  <2>2. ~(Cardinality({r.trials[i].worker : i \in DOMAIN r.trials}) # 1)
    <3>1. {r.trials[i].worker : i \in DOMAIN r.trials} = {1}
      <4>1. \A i \in 1 .. n : r.trials[i].worker = 1
        BY <1>1 DEF SoundTrials
      <4>2. 1 \in 1 .. n
        BY <1>1
      <4>3. QED
        BY <1>2, <4>1, <4>2
    <3>2. QED
      BY <3>1, FS_Singleton
  <2>3. ~Unbalanced(r.trials, DOMAIN r.trials)
    BY <1>1, <1>2, <1>3, OneShort
  <2>4. ~\E i \in DOMAIN r.trials : r.trials[i].baselineTimedOut
    BY <1>1, <1>2 DEF SoundTrials
  <2>5. PICK gates : gates = <<
          <<Len(r.trials) < MinimumTrials, "insufficient_trials">>,
          <<Cardinality({r.trials[i].worker : i \in DOMAIN r.trials}) # 1, "mixed_workers">>,
          <<Unbalanced(r.trials, DOMAIN r.trials), "unbalanced_interleaving">>,
          <<\E i \in DOMAIN r.trials : r.trials[i].baselineTimedOut, "baseline_timeout">>>>
    OBVIOUS
  <2>6. InvalidCode(r) = FirstClosed(gates)
    BY <2>5 DEF InvalidCode
  <2>7. DOMAIN gates = 1 .. 4
    BY <2>5
  <2>8. ~gates[1][1] /\ ~gates[2][1] /\ ~gates[3][1] /\ ~gates[4][1]
    BY <2>1, <2>2, <2>3, <2>4, <2>5
  <2>9. \A i \in 1 .. 4 : ~gates[i][1]
    BY <2>8
  <2>10. QED
    BY <2>6, <2>7, <2>9, GateCode
<1>5. Score(r).valid
  BY <1>4 DEF Score
<1>6. ASSUME r.correct, r.compliant, Cardinality(Completed(r)) >= TrialCount - 1
      PROVE  ZeroCode(r) = "none"
  <2>1. Completed(r) \subseteq 1 .. n /\ IsFiniteSet(Completed(r))
    BY <1>2, <1>3, FS_Subset DEF Completed
  <2>2. PICK done \in Nat : done = Cardinality(Completed(r)) /\ done <= n /\ done >= n - 1
    <3>1. Cardinality(Completed(r)) \in Nat /\ Cardinality(Completed(r)) <= n
      BY <1>3, <2>1, FS_CardinalityType, FS_Subset
    <3>2. QED
      BY <1>1, <1>6, <3>1
  <2>3. PICK timeouts : timeouts = Len(r.trials) - Cardinality(Completed(r))
    OBVIOUS
  <2>4. ~(timeouts * MaxTimeoutShare > Len(r.trials))
    <3>1. timeouts \in {0, 1}
      BY <1>1, <2>2, <2>3
    <3>2. MaxTimeoutShare \in Nat /\ MaxTimeoutShare <= n
      BY <1>1, ScoringAssumption
    <3>3. 0 * MaxTimeoutShare = 0 /\ 1 * MaxTimeoutShare = MaxTimeoutShare
      BY <3>2
    <3>4. QED
      BY <1>1, <3>1, <3>2, <3>3
  <2>5. ~(Cardinality(Completed(r)) < 2)
    BY <1>1, <2>2
  <2>6. ~Unbalanced(r.trials, Completed(r))
    BY <1>1, <1>6, <2>1, OneShort
  <2>7. PICK gates : gates = <<
        <<~r.correct, "result_mismatch">>,
        <<~r.compliant, "policy_rejected">>,
        <<timeouts * MaxTimeoutShare > Len(r.trials), "timeout_rate">>,
        <<Cardinality(Completed(r)) < 2, "candidate_timeout">>,
        <<Unbalanced(r.trials, Completed(r)), "timeout_order_imbalance">>>>
    OBVIOUS
  <2>8. ZeroCode(r) = FirstClosed(gates)
    BY <2>3, <2>7 DEF ZeroCode
  <2>9. DOMAIN gates = 1 .. 5
    BY <2>7
  <2>10. ~gates[1][1] /\ ~gates[2][1] /\ ~gates[3][1] /\ ~gates[4][1] /\ ~gates[5][1]
    BY <1>6, <2>4, <2>5, <2>6, <2>7
  <2>11. \A i \in 1 .. 5 : ~gates[i][1]
    BY <2>10
  <2>12. QED
    BY <2>8, <2>9, <2>11, GateCode
<1>7. QED
  BY <1>5, <1>6

-----------------------------------------------------------------------------
(* What the worker returns and the validator answers. *)

\* A result that may be answered: well formed, and correct only with sound trials.
Sound(r) ==
  /\ r \in Results /\ WellFormed(r, TrialCount)
  /\ r.correct => SoundTrials(r.trials) /\ Len(r.trials) = TrialCount

Clocked == ran \in 0 .. QueryTimeout + 1 /\ left \in [Arms -> 0 .. QueryTimeout]

\* The trials recorded so far; a trial gets a cold result of the candidate.
Recorded ==
  /\ SoundTrials(trials)
  /\ pc \in {"run", "close"} => Len(trials) < TrialCount
  /\ candidate = None => \A i \in 1 .. Len(trials) : trials[i].candidateTimedOut
  /\ pc = "run" => \A i \in 1 .. 4 : i < step /\ Runs(Order)[i] = <<"candidate", "cold">>
                                       => got[<<"candidate", "cold">>] # None
  /\ pc = "close" => got[<<"candidate", "cold">>] # None
  /\ pc \in Ended => reference = None /\ candidate = None

Returned ==
  /\ workdir \in BOOLEAN /\ (pc = "returned" => ~workdir)
  /\ early \in BOOLEAN /\ partial \in BOOLEAN /\ request \in Requests \cup {None}
  /\ result # None => Sound(result)

Answered ==
  /\ parent \in {"idle", "waiting", "killed", "returned", "raised"}
  /\ cli \in {"none", "running", "exited", "dead"} /\ faults \in 0 .. MaxFaults
  /\ answer # None =>
       /\ parent = "returned" /\ Sound(answer)
       /\ answer.compliant => pc = "returned" /\ answer = result /\ cli = "exited"

RInv == Clocked /\ Recorded /\ Returned /\ Answered

\* Failures and results of a worker may be answered.
LEMMA FailureSound ==
  ASSUME NEW code \in FailureCodes, code # "candidate_timeout", code # "none"
  PROVE  Sound(Failure(code)) /\ ~Failure(code).correct /\ ~Failure(code).compliant
<1>1. PICK r : r = Failure(code)
  OBVIOUS
<1>2. /\ r = [code |-> code, correct |-> FALSE, compliant |-> FALSE, trials |-> <<>>,
              used |-> FALSE, savings |-> 0]
      /\ r.code = code /\ r.correct = FALSE /\ r.compliant = FALSE /\ r.trials = <<>>
  BY <1>1 DEF Failure, Result
<1>3. r \in Results
  <2>1. <<>> \in Seq(Trial)
    OBVIOUS
  <2>2. QED
    BY <1>2, <2>1 DEF Results
<1>4. WellFormed(r, TrialCount)
  BY <1>2 DEF WellFormed
<1>5. QED
  BY <1>1, <1>2, <1>3, <1>4 DEF Sound

LEMMA ResultSound ==
  ASSUME NEW code \in {"result_mismatch", "candidate_timeout", "none"},
         NEW correct \in BOOLEAN, correct <=> code = "none",
         SoundTrials(trials), NEW u \in BOOLEAN, NEW s \in Savings \cup {0},
         code # "result_mismatch" => Len(trials) = TrialCount,
         code = "candidate_timeout" => \A i \in 1 .. Len(trials) : trials[i].candidateTimedOut
  PROVE  Sound(Result(code, correct, TRUE, trials, u, s))
<1>1. PICK r : r = Result(code, correct, TRUE, trials, u, s)
  OBVIOUS
<1>2. /\ r = [code |-> code, correct |-> correct, compliant |-> TRUE, trials |-> trials,
              used |-> u, savings |-> s]
      /\ r.code = code /\ r.correct = correct /\ r.compliant = TRUE /\ r.trials = trials
  BY <1>1 DEF Result
<1>3. r \in Results
  <2>1. trials \in Seq(Trial)
    BY DEF SoundTrials
  <2>2. QED
    BY <1>2, <2>1 DEF Results
<1>4. WellFormed(r, TrialCount)
  <2>1. DOMAIN trials = 1 .. Len(trials)
    BY DEF SoundTrials
  <2>2. QED
    BY <1>2, <2>1 DEF WellFormed
<1>5. r.correct => SoundTrials(r.trials) /\ Len(r.trials) = TrialCount
  BY <1>2
<1>6. QED
  BY <1>1, <1>3, <1>4, <1>5 DEF Sound

LEMMA NoTrials == SoundTrials(<<>>)
<1>1. <<>> \in Seq(Trial) /\ Len(<<>>) = 0 /\ 0 <= TrialCount
  BY Facts
<1>2. QED
  BY <1>1 DEF SoundTrials

LEMMA RInitial == Init => RInv
<1> SUFFICES ASSUME Init PROVE RInv
  OBVIOUS
<1>1. Clocked
  BY Facts DEF Init, Clocked
<1>2. Recorded
  BY NoTrials DEF Init, Recorded, Ended
<1>3. Returned
  BY DEF Init, Returned
<1>4. Answered
  <2>1. 0 \in 0 .. MaxFaults
    BY SandboxAssumption
  <2>2. QED
    BY <2>1 DEF Init, Answered
<1>5. QED
  BY <1>1, <1>2, <1>3, <1>4 DEF RInv

\* Without its locals the worker has no trials and no time is running.
LEMMA Dropped ==
  ASSUME DropLocals, pc' \in Ended
  PROVE  Clocked' /\ Recorded'
<1>1. Clocked'
  BY Facts DEF Clocked, DropLocals
<1>2. Recorded'
  <2>1. trials' = <<>> /\ reference' = None /\ candidate' = None
    BY DEF DropLocals
  <2>2. SoundTrials(trials)'
    BY <2>1, NoTrials DEF SoundTrials
  <2>3. Len(trials') = 0
    BY <2>1
  <2>4. QED
    BY <2>1, <2>2, <2>3 DEF Recorded, Ended
<1>3. QED
  BY <1>1, <1>2

LEMMA LeavingSound ==
  ASSUME RInv, NEW r, Leave(r), Sound(r), pc # "returned",
         early' \in BOOLEAN, partial' \in BOOLEAN
  PROVE  RInv'
<1>1. /\ pc' = "returned" /\ result' = r /\ workdir' = FALSE /\ DropLocals
      /\ cli' = IF cli = "running" THEN "exited" ELSE cli
      /\ UNCHANGED <<parent, answer, request, faults>>
  BY DEF Leave
<1>2. Clocked' /\ Recorded'
  BY <1>1, Dropped DEF Ended
<1>3. Returned'
  <2>1. Sound(r)'
    BY DEF Sound
  <2>2. QED
    BY <1>1 DEF RInv, Returned, Sound
<1>4. Answered'
  BY <1>1 DEF RInv, Answered, Sound
<1>5. QED
  BY <1>2, <1>3, <1>4 DEF RInv

\* The worker goes on: what is outside is as before.
LEMMA GoesOn ==
  ASSUME RInv, pc # "returned", pc' # "returned", workdir' \in BOOLEAN,
         early' \in BOOLEAN, partial' \in BOOLEAN,
         UNCHANGED <<parent, answer, cli, request, result, faults>>
  PROVE  Returned' /\ Answered'
<1>1. Returned'
  BY DEF RInv, Returned, Sound
<1>2. Answered'
  BY DEF RInv, Answered, Sound
<1>3. QED
  BY <1>1, <1>2

LEMMA RValidator ==
  ASSUME IInv, RInv, Validator
  PROVE  RInv'
<1>1. faults \in 0 .. MaxFaults /\ MaxFaults \in Nat
      /\ (Fault => faults' \in 0 .. MaxFaults) /\ (Fine => faults' \in 0 .. MaxFaults)
  BY SandboxAssumption DEF RInv, Answered, Fault, Fine
<1>2. ASSUME UNCHANGED Worker PROVE Clocked' /\ Recorded' /\ Returned'
  <2>1. UNCHANGED <<request, pc, step, got, left, ran, workdir, installed, trials, reference,
                    candidate, result, early, seen, partial>>
    BY <1>2 DEF Worker, trial, progress, history
  <2>2. Order' = Order
    BY <2>1 DEF Order
  <2>3. Clocked'
    BY <2>1 DEF RInv, Clocked
  <2>4. Recorded'
    BY <2>1, <2>2 DEF RInv, Recorded, SoundTrials
  <2>5. Returned'
    BY <2>1 DEF RInv, Returned, Sound
  <2>6. QED
    BY <2>3, <2>4, <2>5
<1>3. ASSUME NEW code \in FailureCodes, code # "candidate_timeout", code # "none",
             answer' = Failure(code), parent' = "returned", UNCHANGED cli,
             faults' \in 0 .. MaxFaults
      PROVE  Answered'
  <2>1. Sound(answer') /\ ~answer'.compliant
    BY <1>3, FailureSound
  <2>2. QED
    BY <1>3, <2>1 DEF RInv, Answered, Sound
<1>4. CASE Refuse
  <2>1. parent' = "returned" /\ UNCHANGED <<cli, Worker>>
    BY <1>4 DEF Refuse
  <2>2. CASE \E code \in {"database_missing", "database_limit", "engine_image_mismatch",
                          "worker_input_limit"} : answer' = Failure(code) /\ Fine
    BY <1>1, <1>2, <1>3, <2>1, <2>2 DEF FailureCodes, RInv
  <2>3. CASE answer' = Failure("worker_spawn_error") /\ Fault
    BY <1>1, <1>2, <1>3, <2>1, <2>3 DEF FailureCodes, RInv
  <2>4. QED
    BY <1>4, <2>2, <2>3 DEF Refuse
<1>5. CASE \E r \in Requests : Spawn(r)
  <2>1. PICK r \in Requests : Spawn(r)
    BY <1>5
  <2>2. /\ parent = "idle" /\ parent' = "waiting" /\ cli' = "running" /\ request' = r
        /\ pc' = "admit" /\ pc = "none"
        /\ UNCHANGED <<answer, step, got, left, ran, workdir, installed, trials, reference,
                       candidate, result, early, seen, partial, faults>>
    BY <2>1 DEF Spawn, trial, progress, history, IInv, Core
  <2>3. Clocked'
    BY <2>2 DEF RInv, Clocked
  <2>4. Recorded'
    BY <2>2 DEF RInv, Recorded, SoundTrials, Ended
  <2>5. Returned'
    BY <2>2 DEF RInv, Returned, Sound
  <2>6. Answered'
    BY <2>2 DEF RInv, Answered
  <2>7. QED
    BY <2>3, <2>4, <2>5, <2>6 DEF RInv
<1>6. CASE Collect
  <2>1. parent' = "returned" /\ cli = "exited" /\ UNCHANGED <<cli, Worker>>
    BY <1>6 DEF Collect
  <2>2. UNCHANGED <<pc, result>>
    BY <2>1 DEF Worker, progress
  <2>3. CASE Outcome = "ok" /\ answer' = result /\ Fine
    <3>1. pc = "returned"
      BY <2>3 DEF Outcome
    <3>2. Answered'
      BY <1>1, <2>1, <2>2, <2>3, <3>1 DEF RInv, Answered, Returned, Sound
    <3>3. QED
      BY <1>2, <2>1, <3>2 DEF RInv
  <2>4. CASE Outcome = "crash" /\ answer' = Failure("worker_crash") /\ Fine
    BY <1>1, <1>2, <1>3, <2>1, <2>4 DEF FailureCodes, RInv
  <2>5. CASE Fault /\ \E code \in {"worker_output_limit", "worker_malformed_output"} :
                          answer' = Failure(code)
    BY <1>1, <1>2, <1>3, <2>1, <2>5 DEF FailureCodes, RInv
  <2>6. QED
    BY <1>6, <2>3, <2>4, <2>5 DEF Collect
<1>7. CASE WallTimeout
  <2>1. /\ parent = "waiting" /\ parent' = "killed" /\ cli' = "dead"
        /\ UNCHANGED <<answer, Worker, faults>>
    BY <1>7 DEF WallTimeout
  <2>2. Answered'
    BY <1>1, <2>1 DEF RInv, Answered
  <2>3. QED
    BY <1>2, <2>1, <2>2 DEF RInv
<1>8. CASE AwaitKilled
  <2>1. parent = "killed" /\ UNCHANGED <<cli, Worker>>
    BY <1>8 DEF AwaitKilled
  <2>2. CASE parent' = "returned" /\ answer' = Failure("worker_timeout") /\ Fine
    BY <1>1, <1>2, <1>3, <2>1, <2>2 DEF FailureCodes, RInv
  <2>3. CASE parent' = "raised" /\ UNCHANGED answer /\ Fault
    <3>1. Answered'
      BY <1>1, <2>1, <2>3 DEF RInv, Answered
    <3>2. QED
      BY <1>2, <2>1, <3>1 DEF RInv
  <2>4. QED
    BY <1>8, <2>2, <2>3 DEF AwaitKilled
<1>9. QED
  BY <1>4, <1>5, <1>6, <1>7, <1>8 DEF Validator

LEMMA RTick ==
  ASSUME RInv, Tick
  PROVE  RInv'
<1>1. /\ pc \in Statement /\ ran <= QueryTimeout /\ ran' = ran + 1
      /\ left' = [a \in Arms |-> Max({left[a] - 1, 0})]
      /\ UNCHANGED <<parent, answer, cli, request, pc, step, got, workdir, installed, trials,
                     reference, candidate, result, early, seen, partial, faults>>
  BY DEF Tick, validator, progress, history
<1>2. Clocked'
  <2>1. ran \in Nat /\ left \in [Arms -> 0 .. QueryTimeout] /\ QueryTimeout \in Nat
    BY Facts DEF RInv, Clocked
  <2>2. ASSUME NEW a \in Arms PROVE left'[a] \in 0 .. QueryTimeout
    <3>1. left[a] \in 0 .. QueryTimeout /\ left[a] - 1 \in Int
      BY <2>1
    <3>2. left'[a] = Max({left[a] - 1, 0})
      BY <1>1
    <3>3. left'[a] = IF left[a] - 1 < 0 THEN 0 ELSE left[a] - 1
      BY <3>1, <3>2, MaxOfTwo
    <3>4. QED
      BY <2>1, <3>1, <3>3
  <2>3. left' \in [Arms -> 0 .. QueryTimeout]
    BY <1>1, <2>2
  <2>4. QED
    BY <1>1, <2>1, <2>3 DEF Clocked
<1>3. Recorded'
  BY <1>1 DEF RInv, Recorded, SoundTrials, Order
<1>4. Returned' /\ Answered'
  BY <1>1, GoesOn DEF RInv, Returned, Statement
<1>5. QED
  BY <1>2, <1>3, <1>4 DEF RInv

LEMMA Renewed ==
  ASSUME RInv, NEW a, Start(a)
  PROVE  Clocked'
<1>1. QueryTimeout \in 0 .. QueryTimeout /\ 0 \in 0 .. QueryTimeout + 1
  BY Facts
<1>2. QED
  BY <1>1 DEF RInv, Clocked, Start

LEMMA RAdmit ==
  ASSUME RInv, Admit
  PROVE  RInv'
<1>1. pc = "admit" /\ early \in BOOLEAN /\ partial \in BOOLEAN
  BY DEF Admit, RInv, Returned
<1>2. CASE Refusal(request) # "none"
  <2>1. Leave(Failure(Refusal(request))) /\ UNCHANGED <<early, partial>>
    BY <1>2 DEF Admit, history
  <2>2. Sound(Failure(Refusal(request)))
    <3>1. Refusal(request) \in FailureCodes /\ Refusal(request) # "candidate_timeout"
      BY <1>2, RefusalCode DEF FailureCodes
    <3>2. QED
      BY <1>2, <3>1, FailureSound
  <2>3. QED
    BY <1>1, <2>1, <2>2, LeavingSound
<1>3. CASE Refusal(request) = "none"
  <2>1. /\ workdir' = TRUE /\ pc' = IF Indexes[request] = 0 THEN "plan" ELSE "index"
        /\ Start("candidate")
        /\ UNCHANGED <<parent, answer, cli, request, step, got, trials, reference, candidate,
                       result, early, partial, faults>>
    BY <1>3 DEF Admit, validator, history
  <2>2. Recorded'
    BY <2>1 DEF RInv, Recorded, SoundTrials, Ended
  <2>3. Returned' /\ Answered'
    BY <1>1, <2>1, GoesOn
  <2>4. QED
    BY <2>1, <2>2, <2>3, Renewed DEF RInv
<1>4. QED
  BY <1>2, <1>3

LEMMA RBuildExplain ==
  ASSUME RInv, BuildIndex \/ Explain
  PROVE  RInv'
<1>1. /\ pc \in {"index", "plan"} /\ pc' \in {"index", "plan", "open"}
      /\ UNCHANGED <<parent, answer, cli, request, step, got, workdir, trials, reference,
                     candidate, result, early, partial, faults>>
  BY DEF BuildIndex, Explain, validator, trial, progress, history
<1>2. Clocked'
  <2>1. CASE BuildIndex
    BY <2>1, Renewed DEF BuildIndex
  <2>2. CASE Explain
    BY <2>2 DEF Explain, trial, RInv, Clocked
  <2>3. QED
    BY <2>1, <2>2
<1>3. Recorded'
  BY <1>1 DEF RInv, Recorded, SoundTrials, Ended
<1>4. Returned' /\ Answered'
  BY <1>1, GoesOn DEF RInv, Returned
<1>5. QED
  BY <1>2, <1>3, <1>4 DEF RInv

LEMMA RFailure ==
  ASSUME RInv, OutgrowLimit \/ SetupFails \/ RunRejected
  PROVE  RInv'
<1>1. early \in BOOLEAN /\ partial \in BOOLEAN
  BY DEF RInv, Returned
<1>2. PICK code \in FailureCodes : /\ code # "none" /\ code # "candidate_timeout"
                                  /\ Leave(Failure(code))
  BY DEF OutgrowLimit, SetupFails, RunRejected, FailureCodes
<1>3. pc # "returned"
  BY DEF OutgrowLimit, SetupFails, RunRejected
<1>4. early' \in BOOLEAN /\ partial' \in BOOLEAN
  BY <1>1 DEF OutgrowLimit, SetupFails, RunRejected, Interrupts, history
<1>5. QED
  BY <1>2, <1>3, <1>4, FailureSound, LeavingSound

LEMMA ROpenTrial ==
  ASSUME RInv, OpenTrial
  PROVE  RInv'
<1>1. /\ pc = "open" /\ Len(trials) < TrialCount /\ pc' = "run" /\ step' = 1 /\ ran' = 0
      /\ left' = [a \in Arms |-> QueryTimeout]
      /\ partial' = (partial \/ installed # Indexes[request])
      /\ UNCHANGED <<parent, answer, cli, request, workdir, trials, reference, candidate,
                     result, early, faults>>
  BY DEF OpenTrial, validator, progress
<1>2. Clocked'
  BY <1>1, Facts DEF Clocked
<1>3. Recorded'
  BY <1>1 DEF RInv, Recorded, SoundTrials, Ended
<1>4. Returned' /\ Answered'
  BY <1>1, GoesOn DEF RInv, Returned
<1>5. QED
  BY <1>2, <1>3, <1>4 DEF RInv

\* An execution of the current trial has given v, and the trial goes on.
LEMMA RAdvance ==
  ASSUME IInv, RInv, pc = "run", NEW v \in Digests \cup {"timeout"},
         NEW x, x = Runs(Order)[step], Advance([got EXCEPT ![x] = v]),
         UNCHANGED <<parent, answer, cli, request, workdir, trials, reference, candidate,
                     result, partial, faults>>,
         early' \in BOOLEAN
  PROVE  RInv'
<1> DEFINE runs == Runs(Order)
           cold == <<"candidate", "cold">>
<1>1. /\ step \in 1 .. 4 /\ x \in Arms \X Temps /\ x[1] \in Arms /\ x = runs[step]
      /\ got \in [Arms \X Temps -> Values] /\ v # None
  BY RunFacts, Facts DEF IInv, Core
<1>2. got' = [got EXCEPT ![x] = v]
  BY DEF Advance
<1>3. /\ step' \in {step + 1, step + 2}
      /\ step' = step + 2 => step < 4 /\ runs[step + 1] = <<"candidate", "warm">>
  BY <1>1 DEF Advance
<1>4. IF step' > 4 THEN pc' = "close" /\ UNCHANGED <<left, ran>>
      ELSE pc' = "run" /\ ran' = 0 /\ left' = [left EXCEPT ![runs[step'][1]] = QueryTimeout]
  BY <1>1 DEF Advance, Start
<1>5. Order' = Order
  BY DEF Order
<1>6. cold \in Arms \X Temps
  BY Facts
<1>7. \E i \in 1 .. 4 : runs[i] = cold
  <2>1. CASE Order = "baseline-first"
    BY <2>1 DEF Runs
  <2>2. CASE Order # "baseline-first"
    BY <2>2 DEF Runs
  <2>3. QED
    BY <2>1, <2>2
<1>8. \A i \in 1 .. 4 : runs[i] \in Arms \X Temps
  BY RunFacts
<1> HIDE DEF runs
<1>9. Clocked'
  <2>1. QueryTimeout \in 0 .. QueryTimeout /\ 0 \in 0 .. QueryTimeout + 1
    BY Facts
  <2>2. QED
    BY <1>4, <2>1 DEF RInv, Clocked
<1>10. \A i \in 1 .. 4 : i < step' /\ runs[i] = cold => got'[cold] # None
  <2>1. SUFFICES ASSUME NEW i \in 1 .. 4, i < step', runs[i] = cold PROVE got'[cold] # None
    OBVIOUS
  <2>2. CASE i < step
    <3>1. got[cold] # None
      BY <2>1, <2>2 DEF RInv, Recorded, runs
    <3>2. QED
      BY <1>1, <1>2, <1>6, <3>1
  <2>3. CASE i = step
    BY <1>1, <1>2, <2>1, <2>3
  <2>4. CASE i > step
    <3>1. i = step + 1 /\ runs[i] = <<"candidate", "warm">>
      BY <1>1, <1>3, <2>1, <2>4
    <3>2. QED
      BY <2>1, <3>1
  <2>5. QED
    BY <1>1, <2>2, <2>3, <2>4
<1>11. pc' = "close" => got'[cold] # None
  <2>1. SUFFICES ASSUME pc' = "close" PROVE got'[cold] # None
    OBVIOUS
  <2>2. step' > 4
    BY <1>4, <2>1
  <2>3. PICK i \in 1 .. 4 : runs[i] = cold
    BY <1>7
  <2>4. i < step'
    BY <1>1, <1>3, <2>2
  <2>5. QED
    BY <1>10, <2>3, <2>4
<1>12. Recorded'
  <2>1. pc' \in {"run", "close"}
    BY <1>4
  <2>2. SoundTrials(trials)'
    BY DEF RInv, Recorded, SoundTrials
  <2>3. Len(trials') < TrialCount
    BY DEF RInv, Recorded
  <2>4. (candidate = None => \A i \in 1 .. Len(trials) : trials[i].candidateTimedOut)'
    BY DEF RInv, Recorded
  <2>5. (pc = "run" => \A i \in 1 .. 4 : i < step /\ Runs(Order)[i] = <<"candidate", "cold">>
                                       => got[<<"candidate", "cold">>] # None)'
    BY <1>5, <1>10 DEF runs
  <2>6. pc' \notin Ended
    BY <2>1 DEF Ended
  <2>7. QED
    BY <1>11, <2>2, <2>3, <2>4, <2>5, <2>6 DEF Recorded
<1>13. Returned' /\ Answered'
  BY <1>4, GoesOn DEF RInv, Returned
<1>14. QED
  BY <1>9, <1>12, <1>13 DEF RInv

LEMMA RRun ==
  ASSUME IInv, RInv, (\E d \in Digests : RunCompletes(d)) \/ RunInterrupted
  PROVE  RInv'
<1> DEFINE x == Runs(Order)[step]
<1>1. early \in BOOLEAN /\ partial \in BOOLEAN
  BY DEF RInv, Returned
<1>2. CASE \E d \in Digests : RunCompletes(d)
  <2>1. PICK d \in Digests : RunCompletes(d)
    BY <1>2
  <2>2. /\ pc = "run" /\ Advance([got EXCEPT ![x] = d])
        /\ UNCHANGED <<parent, answer, cli, request, workdir, trials, reference, candidate,
                       result, early, partial, faults>>
    BY <2>1 DEF RunCompletes, validator, progress
  <2>3. QED
    BY <1>1, <2>2, RAdvance
<1>3. CASE RunInterrupted
  <2>1. /\ pc = "run" /\ early' = (early \/ ran < QueryTimeout) /\ UNCHANGED partial
    BY <1>3 DEF RunInterrupted, Interrupts
  <2>2. early' \in BOOLEAN /\ partial' \in BOOLEAN
    BY <1>1, <2>1
  <2>3. CASE x[1] = "baseline"
    <3>1. Leave(Failure("query_timeout"))
      BY <1>3, <2>3 DEF RunInterrupted
    <3>2. Sound(Failure("query_timeout"))
      BY FailureSound DEF FailureCodes
    <3>3. QED
      BY <2>1, <2>2, <3>1, <3>2, LeavingSound
  <2>4. CASE x[1] # "baseline"
    <3>1. /\ Advance([got EXCEPT ![x] = "timeout"])
          /\ UNCHANGED <<parent, answer, cli, request, workdir, trials, reference, candidate,
                         result, faults>>
      BY <1>3, <2>4 DEF RunInterrupted, validator, progress
    <3>2. QED
      BY <2>1, <2>2, <3>1, RAdvance
  <2>5. QED
    BY <2>3, <2>4
<1>4. QED
  BY <1>2, <1>3

\* A trial without a result of the candidate is one that it has timed out.
LEMMA RRecord ==
  ASSUME IInv, RInv, pc = "close", RecordTrial
  PROVE  RInv'
<1>1. PICK rec : rec = [worker |-> 1, order |-> Order, baselineTimedOut |-> FALSE,
                        candidateTimedOut |-> \E t \in Temps : got[<<"candidate", t>>] = "timeout"]
  OBVIOUS
<1>2. /\ trials' = Append(trials, rec) /\ pc' = "open" /\ reference' = got[<<"baseline", "cold">>]
      /\ candidate' = IF CompletedRuns = {} THEN candidate
                      ELSE CHOOSE c \in CompletedRuns : TRUE
      /\ UNCHANGED <<parent, answer, cli, request, step, got, left, ran, workdir, result, early,
                     partial, faults>>
  BY <1>1 DEF RecordTrial, validator, trial, history
<1>3. PICK n \in Nat : n = Len(trials) /\ n + 1 \in 1 .. TrialCount
  <2>1. Len(trials) \in Nat /\ Len(trials) < TrialCount
    BY DEF RInv, Recorded, SoundTrials
  <2>2. QED
    BY <2>1, Facts
<1>4. rec.worker = 1 /\ rec.order = InterleaveOrders[n + 1] /\ rec.baselineTimedOut = FALSE
      /\ rec.candidateTimedOut = \E t \in Temps : got[<<"candidate", t>>] = "timeout"
  BY <1>1, <1>3 DEF Order
<1>5. rec \in Trial
  <2>1. InterleaveOrders[n + 1] \in Orders
    BY <1>3, OrdersAre DEF Orders
  <2>2. rec.candidateTimedOut \in BOOLEAN
    BY <1>4
  <2>3. Order \in Orders
    BY <1>3, <2>1 DEF Order
  <2>4. QED
    BY <1>1, <2>3 DEF Trial
<1>6. /\ trials' \in Seq(Trial) /\ Len(trials') = n + 1 /\ trials'[n + 1] = rec
      /\ \A i \in 1 .. n : trials'[i] = trials[i]
  <2>1. trials \in Seq(Trial)
    BY DEF RInv, Recorded, SoundTrials
  <2>2. QED
    BY <1>2, <1>3, <1>5, <2>1, AppendProperties
<1>7. SoundTrials(trials)'
  <2>1. \A i \in 1 .. n + 1 : /\ trials'[i].worker = 1 /\ trials'[i].order = InterleaveOrders[i]
                             /\ ~trials'[i].baselineTimedOut
    <3>1. TAKE i \in 1 .. n + 1
    <3>2. CASE i = n + 1
      BY <1>4, <1>6, <3>2
    <3>3. CASE i # n + 1
      <4>1. i \in 1 .. n
        BY <1>3, <3>3
      <4>2. QED
        BY <1>3, <1>6, <4>1 DEF RInv, Recorded, SoundTrials
    <3>4. QED
      BY <3>2, <3>3
  <2>2. n + 1 <= TrialCount
    BY <1>3
  <2>3. QED
    BY <1>6, <2>1, <2>2 DEF SoundTrials
<1>8. candidate' = None => \A i \in 1 .. n + 1 : trials'[i].candidateTimedOut
  <2>1. SUFFICES ASSUME candidate' = None PROVE \A i \in 1 .. n + 1 : trials'[i].candidateTimedOut
    OBVIOUS
  <2>2. CompletedRuns = {}
    <3>1. \A c \in CompletedRuns : c # None
      BY DEF CompletedRuns
    <3>2. CompletedRuns # {} => candidate' \in CompletedRuns
      BY <1>2
    <3>3. QED
      BY <2>1, <3>1, <3>2
  <2>3. candidate = None
    BY <1>2, <2>1, <2>2
  <2>4. got[<<"candidate", "cold">>] \in {None, "timeout"}
    BY <2>2, Facts DEF CompletedRuns
  <2>5. got[<<"candidate", "cold">>] # None
    BY DEF RInv, Recorded
  <2>6. rec.candidateTimedOut
    BY <1>4, <2>4, <2>5, Facts
  <2>7. \A i \in 1 .. n : trials[i].candidateTimedOut
    BY <1>3, <2>3 DEF RInv, Recorded
  <2>8. TAKE i \in 1 .. n + 1
  <2>9. CASE i = n + 1
    BY <1>6, <2>6, <2>9
  <2>10. CASE i # n + 1
    <3>1. i \in 1 .. n
      BY <1>3, <2>10
    <3>2. QED
      BY <1>6, <2>7, <3>1
  <2>11. QED
    BY <2>9, <2>10
<1>9. Recorded'
  BY <1>2, <1>6, <1>7, <1>8 DEF Recorded, Ended
<1>10. Clocked'
  BY <1>2 DEF RInv, Clocked
<1>11. Returned' /\ Answered'
  BY <1>2, GoesOn DEF RInv, Returned
<1>12. QED
  BY <1>9, <1>10, <1>11 DEF RInv

LEMMA UsesBoolean == \A u \in UsesIndex : u \in BOOLEAN
BY DEF UsesIndex

LEMMA RCloseTrial ==
  ASSUME IInv, RInv, CloseTrial
  PROVE  RInv'
<1>1. pc = "close" /\ early \in BOOLEAN /\ partial \in BOOLEAN /\ SoundTrials(trials)
  BY DEF CloseTrial, RInv, Returned, Recorded
<1>2. CASE CloseCode = "none" /\ RecordTrial
  BY <1>1, <1>2, RRecord
<1>3. CASE Leave(Failure("nondeterministic_result")) /\ UNCHANGED history
  <2>1. Sound(Failure("nondeterministic_result"))
    BY FailureSound DEF FailureCodes
  <2>2. QED
    BY <1>1, <1>3, <2>1, LeavingSound DEF history
<1>4. CASE (\E u \in UsesIndex : Leave(Result("result_mismatch", FALSE, TRUE, trials, u, 0)))
           /\ UNCHANGED history
  <2>1. PICK u \in UsesIndex : Leave(Result("result_mismatch", FALSE, TRUE, trials, u, 0))
    BY <1>4
  <2>2. Sound(Result("result_mismatch", FALSE, TRUE, trials, u, 0))
    BY <1>1, UsesBoolean, ResultSound
  <2>3. QED
    BY <1>1, <1>4, <2>1, <2>2, LeavingSound DEF history
<1>5. QED
  BY <1>2, <1>3, <1>4 DEF CloseTrial

LEMMA RFinish ==
  ASSUME IInv, RInv, Finish
  PROVE  RInv'
<1>1. /\ pc = "open" /\ Len(trials) = TrialCount /\ UNCHANGED <<early, partial>>
      /\ early \in BOOLEAN /\ partial \in BOOLEAN /\ SoundTrials(trials)
  BY DEF Finish, history, RInv, Returned, Recorded
<1>2. CASE candidate = None
  <2>1. PICK u \in UsesIndex : Leave(Result("candidate_timeout", FALSE, TRUE, trials, u, 0))
    BY <1>2 DEF Finish
  <2>2. \A i \in 1 .. Len(trials) : trials[i].candidateTimedOut
    BY <1>2 DEF RInv, Recorded
  <2>3. Sound(Result("candidate_timeout", FALSE, TRUE, trials, u, 0))
    BY <1>1, <2>2, UsesBoolean, ResultSound
  <2>4. QED
    BY <1>1, <2>1, <2>3, LeavingSound
<1>3. CASE candidate # None
  <2>1. PICK s \in Savings, u \in UsesIndex :
           Leave(IF candidate = reference
                 THEN Result("none", TRUE, TRUE, trials, u, s)
                 ELSE Result("result_mismatch", FALSE, TRUE, trials, u, 0))
    BY <1>3 DEF Finish
  <2>2. u \in BOOLEAN
    BY UsesBoolean
  <2>3. CASE candidate = reference
    <3>1. Leave(Result("none", TRUE, TRUE, trials, u, s))
      BY <2>1, <2>3
    <3>2. Sound(Result("none", TRUE, TRUE, trials, u, s))
      BY <1>1, <2>2, ResultSound
    <3>3. QED
      BY <1>1, <3>1, <3>2, LeavingSound
  <2>4. CASE candidate # reference
    <3>1. Leave(Result("result_mismatch", FALSE, TRUE, trials, u, 0))
      BY <2>1, <2>4
    <3>2. Sound(Result("result_mismatch", FALSE, TRUE, trials, u, 0))
      BY <1>1, <2>2, ResultSound
    <3>3. QED
      BY <1>1, <3>1, <3>2, LeavingSound
  <2>5. QED
    BY <2>3, <2>4
<1>4. QED
  BY <1>2, <1>3

LEMMA RCrash ==
  ASSUME RInv, Crash
  PROVE  RInv'
<1>1. /\ pc # "returned" /\ pc' = "crashed" /\ Fault /\ DropLocals
      /\ cli' = IF cli = "running" THEN "exited" ELSE cli
      /\ UNCHANGED <<parent, answer, request, workdir, result, early, partial>>
  BY DEF Crash, Ended, history
<1>2. Clocked' /\ Recorded'
  BY <1>1, Dropped DEF Ended
<1>3. Returned'
  BY <1>1 DEF RInv, Returned, Sound
<1>4. faults' \in 0 .. MaxFaults
  BY <1>1, SandboxAssumption DEF Fault, RInv, Answered
<1>5. Answered'
  BY <1>1, <1>4 DEF RInv, Answered, Sound
<1>6. QED
  BY <1>2, <1>3, <1>5 DEF RInv

LEMMA RStutter ==
  ASSUME RInv, UNCHANGED vars
  PROVE  RInv'
<1>1. UNCHANGED <<parent, answer, cli, request, pc, step, got, left, ran, workdir, installed,
                  trials, reference, candidate, result, early, seen, partial, faults>>
  BY DEF vars, validator, trial, progress, history
<1>2. Clocked' /\ Recorded'
  BY <1>1 DEF RInv, Clocked, Recorded, SoundTrials, Order
<1>3. Returned' /\ Answered'
  BY <1>1 DEF RInv, Returned, Answered, Sound
<1>4. QED
  BY <1>2, <1>3 DEF RInv

LEMMA RInductive == IInv /\ RInv /\ [Next]_vars => RInv'
<1> SUFFICES ASSUME IInv, RInv, [Next]_vars PROVE RInv'
  OBVIOUS
<1>1. CASE Validator
  BY <1>1, RValidator
<1>2. CASE Tick
  BY <1>2, RTick
<1>3. CASE Admit
  BY <1>3, RAdmit
<1>4. CASE BuildIndex \/ Explain
  BY <1>4, RBuildExplain
<1>5. CASE OutgrowLimit \/ SetupFails \/ RunRejected
  BY <1>5, RFailure
<1>6. CASE OpenTrial
  BY <1>6, ROpenTrial
<1>7. CASE (\E d \in Digests : RunCompletes(d)) \/ RunInterrupted
  BY <1>7, RRun
<1>8. CASE CloseTrial
  BY <1>8, RCloseTrial
<1>9. CASE Finish
  BY <1>9, RFinish
<1>10. CASE Crash
  BY <1>10, RCrash
<1>11. CASE UNCHANGED vars
  BY <1>11, RStutter
<1>12. QED
  BY <1>1, <1>2, <1>3, <1>4, <1>5, <1>6, <1>7, <1>8, <1>9, <1>10, <1>11 DEF Next

-----------------------------------------------------------------------------
\* execute_request calls a bundle correct only when every execution that
\* completed, of either copy and in any trial, gave one and the same result.
THEOREM CorrectnessIsAgreement == Spec => []CorrectMeansAllAgree
<1>1. IInv => CorrectMeansAllAgree
  BY DEF IInv, Agree
<1>2. QED
  BY <1>1, Initial, Inductive, PTL DEF Spec

\* No trial of execute_request measures a copy on which an index of the bundle
\* is missing, however many indexes it has.
THEOREM BundlesAreMeasuredWhole == Spec => []NoPartialBundleMeasured
<1>1. IInv => NoPartialBundleMeasured
  BY DEF IInv, Built, NoPartialBundleMeasured
<1>2. QED
  BY <1>1, Initial, Inductive, PTL DEF Spec

\* The progress handler interrupts no statement before it has itself run for
\* query_timeout_ms, for every timeout.
THEOREM InterruptsAreInOwnTime == Spec => []InterruptsAreOwn
<1>1. IInv => InterruptsAreOwn
  BY DEF IInv, Timed, InterruptsAreOwn
<1>2. QED
  BY <1>1, Initial, Inductive, PTL DEF Spec

\* Every state of a worker and its validator is well typed, and a copy of the
\* fixture never outlives the return of execute_request.
THEOREM TypeCorrect == Spec => []TypeOK
<1>1. IInv /\ RInv => TypeOK
  <2> SUFFICES ASSUME IInv, RInv PROVE TypeOK
    OBVIOUS
  <2>1. reference \in Digests \cup {None} /\ candidate \in Digests \cup {None}
    <3>1. \/ pc \in {"none", "admit", "index", "plan"} \/ pc \in {"open", "run", "close"}
          \/ pc \in Ended
      BY DEF IInv, Core, Statement
    <3>2. CASE pc \in {"none", "admit", "index", "plan"}
      BY <3>2 DEF IInv, Agree
    <3>3. CASE pc \in {"open", "run", "close"}
      <4>1. reference \in Digests \cup {None} /\ candidate \in {None, reference}
        BY <3>3 DEF IInv, Agree
      <4>2. QED
        BY <4>1
    <3>4. CASE pc \in Ended
      BY <3>4 DEF RInv, Recorded
    <3>5. QED
      BY <3>1, <3>2, <3>3, <3>4
  <2>2. answer \in Results \cup {None} /\ result \in Results \cup {None}
    BY DEF RInv, Returned, Answered, Sound
  <2>3. trials \in Seq(Trial) /\ Len(trials) <= TrialCount
    BY DEF RInv, Recorded, SoundTrials
  <2>4. got \in [Arms \X Temps -> Digests \cup {None, "timeout"}]
    BY DEF IInv, Core, Values
  <2>5. QED
    BY <2>1, <2>2, <2>3, <2>4 DEF IInv, Core, RInv, Clocked, Returned, Answered, TypeOK
<1>2. QED
  BY <1>1, Initial, Inductive, RInitial, RInductive, PTL DEF Spec

\* An answer of run_docker_worker is one that score_benchmark can rely on, for every
\* number of trials that its policy accepts and that a single time-out does not
\* close on: evaluate_holdout refuses fewer trials than minimum_trials, and the
\* default maximum_timeout_rate of one in five lets one trial in six time out.
THEOREM AnswersAreScorable ==
  ASSUME MinimumTrials <= TrialCount, MaxTimeoutShare <= TrialCount
  PROVE  Spec => []AnswerScorable
<1>1. IInv /\ RInv => AnswerScorable
  <2> SUFFICES ASSUME RInv, answer # None
               PROVE  /\ WellFormed(answer, TrialCount)
                      /\ answer.compliant => pc = "returned" /\ answer = result /\ cli = "exited"
                      /\ answer.correct =>
                           /\ Score(answer).valid
                           /\ Cardinality(Completed(answer)) >= TrialCount - 1
                                => ZeroCode(answer) = "none"
    BY DEF AnswerScorable
  <2>1. Sound(answer)
        /\ (answer.compliant => pc = "returned" /\ answer = result /\ cli = "exited")
    BY DEF RInv, Answered
  <2>2. ASSUME answer.correct
        PROVE  /\ Score(answer).valid
               /\ Cardinality(Completed(answer)) >= TrialCount - 1 => ZeroCode(answer) = "none"
    <3>1. SoundTrials(answer.trials) /\ Len(answer.trials) = TrialCount /\ answer.compliant
      BY <2>1, <2>2 DEF Sound, WellFormed
    <3>2. QED
      BY <2>2, <3>1, SoundScores
  <2>3. QED
    BY <2>1, <2>2 DEF Sound
<1>2. QED
  BY <1>1, Initial, Inductive, RInitial, RInductive, PTL DEF Spec
=============================================================================
