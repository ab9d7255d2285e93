----------------------- MODULE CircuitBreaker_proofs -----------------------
(***************************************************************************)
(* Theorems about CircuitBreaker, for every set of requests, threshold and *)
(* timeout: types, the agreement of counter and state, what one failure    *)
(* does to a probing breaker, and the refinement of BreakerPromise.        *)
(***************************************************************************)
EXTENDS CircuitBreaker, TLAPS

(* The invariant holds initially. *)
LEMMA InitInv == Init => BreakerInv
BY BreakerAssumption
DEF Init, BreakerInv, TypeOK, PendingHasName, CountMatchesState, BreakerStates

(* The counter stays in its range, and reaches the threshold when one more *)
(* failure would: the cap never hides a crossing.                          *)
LEMMA CountedBounds ==
  ASSUME failures \in 0 .. FailureCap
  PROVE  /\ Counted \in 0 .. FailureCap
         /\ Counted >= failures
         /\ (Counted >= Threshold) <=> (failures + 1 >= Threshold)
BY BreakerAssumption DEF Counted

(* Every step keeps the invariant. *)
LEMMA StepInv == BreakerInv /\ [Next]_vars => BreakerInv'
<1> SUFFICES ASSUME BreakerInv, [Next]_vars PROVE BreakerInv'
  OBVIOUS
<1> USE BreakerAssumption DEF BreakerInv
<1>1. ASSUME NEW r \in Requests, Send(r) PROVE BreakerInv'
  <2>1. TypeOK'
    BY <1>1 DEF Send, Allow, TypeOK, BreakerStates
  <2>2. PendingHasName'
    BY <1>1 DEF Send, TypeOK, PendingHasName
  <2>3. CountMatchesState'
    BY <1>1 DEF Send, Allow, CountMatchesState
  <2>4. QED
    BY <2>1, <2>2, <2>3
<1>2. ASSUME NEW r \in Requests, Succeed(r) PROVE BreakerInv'
  <2>1. /\ failures' = 0 /\ state' = "closed" /\ age' = age
        /\ gauge' = gauge /\ api' = api
        /\ Leave(r, state # "closed", "closed")
    BY <1>2 DEF Succeed, RecordSuccess
  <2>2. TypeOK'
    BY <2>1 DEF TypeOK, BreakerStates, Leave
  <2>3. PendingHasName'
    BY <2>1 DEF TypeOK, PendingHasName, Leave
  <2>4. CountMatchesState'
    BY <2>1 DEF CountMatchesState
  <2>5. QED
    BY <2>2, <2>3, <2>4
<1>3. ASSUME NEW r \in Requests, Fail(r) PROVE BreakerInv'
  <2>1. /\ failures' = Counted /\ age' = 0
        /\ state' = IF Counted >= Threshold THEN "open" ELSE state
        /\ gauge' = gauge /\ api' = api
        /\ Leave(r, Counted >= Threshold /\ state # "open", "open")
    BY <1>3 DEF Fail, RecordFailure
  <2>2. failures \in 0 .. FailureCap
    BY DEF TypeOK
  <2>3. TypeOK'
    BY <2>1, <2>2, CountedBounds DEF TypeOK, BreakerStates, Leave
  <2>4. PendingHasName'
    BY <2>1 DEF TypeOK, PendingHasName, Leave
  <2>5. CountMatchesState'
    BY <2>1, <2>2, CountedBounds DEF CountMatchesState
  <2>6. QED
    BY <2>3, <2>4, <2>5
<1>4. ASSUME NEW r \in Requests, Unread(r) PROVE BreakerInv'
  BY <1>4 DEF Unread, Leave, breaker, TypeOK, PendingHasName, CountMatchesState
<1>5. ASSUME NEW r \in Requests, Callback(r) PROVE BreakerInv'
  BY <1>5 DEF Callback, breaker, TypeOK, PendingHasName, CountMatchesState
<1>6. CASE Ping
  BY <1>6 DEF Ping, Allow, TypeOK, BreakerStates, PendingHasName, CountMatchesState
<1>7. CASE Tick
  BY <1>7 DEF Tick, TypeOK, PendingHasName, CountMatchesState
<1>8. CASE Degrade
  BY <1>8 DEF Degrade, breaker, TypeOK, PendingHasName, CountMatchesState
<1>9. CASE Recover
  BY <1>9 DEF Recover, breaker, TypeOK, PendingHasName, CountMatchesState
<1>10. CASE UNCHANGED vars
  BY <1>10 DEF vars, TypeOK, PendingHasName, CountMatchesState
<1>11. QED
  BY <1>1, <1>2, <1>3, <1>4, <1>5, <1>6, <1>7, <1>8, <1>9, <1>10 DEF Next, Finish

(* The inductive invariant holds of every behaviour. *)
LEMMA AlwaysInv == Spec => []BreakerInv
BY InitInv, StepInv, PTL DEF Spec

(* Type correctness: CircuitBreaker keeps every variable in its range. *)
THEOREM TypeCorrect == Spec => []TypeOK
<1>1. BreakerInv => TypeOK
  BY DEF BreakerInv
<1>2. QED
  BY <1>1, AlwaysInv, PTL

(* The breaker is closed exactly while fewer than Threshold failures are   *)
(* counted, however the requests of any number of goroutines interleave.   *)
THEOREM CountAgrees == Spec => []CountMatchesState
<1>1. BreakerInv => CountMatchesState
  BY DEF BreakerInv
<1>2. QED
  BY <1>1, AlwaysInv, PTL

(* One recorded failure ends probing: RecordFailure reopens a half-open    *)
(* breaker although it looks at nothing but the counter.                   *)
THEOREM ProbingEnds == Spec => OneFailureEndsProbing
<1>1. BreakerInv /\ [Next]_vars =>
        [\A r \in Requests :
            (state = "half-open" /\ Fail(r)) => (state' = "open" /\ age' = 0)]_vars
  <2> SUFFICES ASSUME BreakerInv, NEW r \in Requests, state = "half-open", Fail(r)
               PROVE  state' = "open" /\ age' = 0
    OBVIOUS
  <2>1. failures \in 0 .. FailureCap /\ failures >= Threshold
    BY BreakerAssumption DEF BreakerInv, TypeOK, CountMatchesState
  <2>2. Counted >= Threshold
    BY <2>1, BreakerAssumption, CountedBounds
  <2>3. QED
    BY <2>2 DEF Fail, RecordFailure
<1>2. QED
  BY <1>1, AlwaysInv, PTL DEF Spec, OneFailureEndsProbing

(* CircuitBreaker implements the transition table of BreakerPromise.       *)
THEOREM Refinement == Spec => ImplementsPromise
<1>1. Init => Promise!PInit
  BY DEF Init, Promise!PInit
<1>2. BreakerInv /\ [Next]_vars => [Promise!PNext]_(Promise!promiseVars)
  <2> SUFFICES ASSUME BreakerInv, [Next]_vars
               PROVE  Promise!PNext \/ UNCHANGED Promise!promiseVars
    OBVIOUS
  <2>0. failures \in 0 .. FailureCap /\ state \in BreakerStates /\ CountMatchesState
    BY DEF BreakerInv, TypeOK
  <2> USE BreakerAssumption DEF Promise!PNext, Promise!promiseVars
  <2>1. ASSUME Allow PROVE Promise!PNext \/ UNCHANGED Promise!promiseVars
    BY <2>0, <2>1 DEF Allow, Promise!StartProbing
  <2>2. ASSUME NEW r \in Requests, Succeed(r)
        PROVE  Promise!PNext \/ UNCHANGED Promise!promiseVars
    BY <2>0, <2>2 DEF Succeed, RecordSuccess, BreakerStates,
       Promise!Forgive, Promise!Heal, Promise!HealLate
  <2>3. ASSUME NEW r \in Requests, Fail(r)
        PROVE  Promise!PNext \/ UNCHANGED Promise!promiseVars
    <3>1. /\ failures' = Counted
          /\ state' = IF Counted >= Threshold THEN "open" ELSE state
      BY <2>3 DEF Fail, RecordFailure
    <3>2. CASE state = "closed"
      <4>1. failures < Threshold
        BY <2>0, <3>2 DEF CountMatchesState
      <4>2. Counted = failures + 1
        BY <2>0, <4>1 DEF Counted
      <4>3. CASE failures + 1 < Threshold
        BY <2>0, <3>1, <3>2, <4>2, <4>3 DEF Promise!Tolerate
      <4>4. CASE failures + 1 = Threshold
        BY <2>0, <3>1, <3>2, <4>2, <4>4 DEF Promise!Trip
      <4>5. QED
        BY <2>0, <4>1, <4>3, <4>4
    <3>3. CASE state # "closed"
      <4>1. Counted >= Threshold
        BY <2>0, <3>3, CountedBounds DEF CountMatchesState
      <4>2. state' = "open"
        BY <3>1, <4>1
      <4>3. QED
        BY <2>0, <3>3, <4>2 DEF BreakerStates, Promise!Reopen
    <3>4. QED
      BY <3>2, <3>3
  <2>4. ASSUME UNCHANGED <<state, failures>>
        PROVE  Promise!PNext \/ UNCHANGED Promise!promiseVars
    BY <2>4
  <2>5. QED
    BY <2>1, <2>2, <2>3, <2>4
    DEF Next, Finish, Send, Unread, Callback, Ping, Tick, Degrade, Recover, breaker, vars
<1>3. QED
  BY <1>1, <1>2, AlwaysInv, PTL DEF Spec, ImplementsPromise, Promise!PSpec

-----------------------------------------------------------------------------
(* GaugeTracksState fails, as a run shows, because callbacks run after the *)
(* mutex is released.  This is its only cause: the gauge is right as long  *)
(* as no two callbacks are pending at once.                                *)
CallbacksApart ==
  \A r, s \in Requests : pc[r] = "callback" /\ pc[s] = "callback" => r = s

(* What keeps it right: the pending callback, if there is one, will report *)
(* the state the breaker is in.  A probing breaker has not reported yet.   *)
GaugeInv ==
  /\ GaugeTracksState
  /\ \A r \in Requests :
       pc[r] = "callback" /\ state \in {"open", "closed"} => note[r] = state

(* An answered request that leaves a callback behind if and only if it     *)
(* changed the state keeps the gauge right.                                *)
LEMMA OutcomeKeepsGauge ==
  ASSUME TypeOK, GaugeInv, CallbacksApart',
         NEW r \in Requests, pc[r] = "flight", gauge' = gauge,
         NEW changed \in BOOLEAN, NEW to,
         changed <=> state' # state, changed => to = state',
         Leave(r, changed, to)
  PROVE  GaugeInv'
<1>1. /\ pc' = [pc EXCEPT ![r] = IF changed THEN "callback" ELSE "idle"]
      /\ note' = [note EXCEPT ![r] = IF changed THEN to ELSE "none"]
      /\ DOMAIN pc = Requests /\ DOMAIN note = Requests
  BY DEF Leave, TypeOK
<1>2. CASE changed
  <2>1. pc'[r] = "callback" /\ note'[r] = state'
    BY <1>1, <1>2
  <2>2. \A s \in Requests : pc'[s] = "callback" => s = r
    BY <2>1 DEF CallbacksApart
  <2>3. QED
    BY <2>1, <2>2 DEF GaugeInv, GaugeTracksState
<1>3. CASE ~changed
  <2>1. state' = state
    BY <1>3
  <2>2. \A s \in Requests :
          (pc'[s] = "callback" <=> pc[s] = "callback")
            /\ (pc[s] = "callback" => note'[s] = note[s])
    BY <1>1, <1>3
  <2>3. QED
    BY <2>1, <2>2 DEF GaugeInv, GaugeTracksState
<1>4. QED
  BY <1>2, <1>3

(* Allow reports nothing, and only starts probing. *)
LEMMA AllowKeepsGauge ==
  ASSUME GaugeInv, Allow, gauge' = gauge, note' = note,
         \A s \in Requests : pc'[s] = "callback" <=> pc[s] = "callback"
  PROVE  GaugeInv'
BY DEF GaugeInv, GaugeTracksState, Allow

(* Every step after which no two callbacks are pending keeps it right.     *)
LEMMA StepGauge ==
  BreakerInv /\ GaugeInv /\ CallbacksApart' /\ [Next]_vars => GaugeInv'
<1> SUFFICES ASSUME BreakerInv, GaugeInv, CallbacksApart', [Next]_vars
             PROVE  GaugeInv'
  OBVIOUS
<1>0. TypeOK /\ CountMatchesState /\ failures \in 0 .. FailureCap
  BY DEF BreakerInv, TypeOK
<1>1. ASSUME NEW r \in Requests, Send(r) PROVE GaugeInv'
  <2>1. \A s \in Requests : pc'[s] = "callback" <=> pc[s] = "callback"
    BY <1>0, <1>1 DEF Send, TypeOK
  <2>2. QED
    BY <1>1, <2>1, AllowKeepsGauge DEF Send
<1>2. ASSUME NEW r \in Requests, Succeed(r) PROVE GaugeInv'
  <2>1. /\ pc[r] = "flight" /\ gauge' = gauge /\ state' = "closed"
        /\ Leave(r, state # "closed", "closed")
    BY <1>2 DEF Succeed, RecordSuccess
  <2>2. QED
    BY <1>0, <2>1, OutcomeKeepsGauge
<1>3. ASSUME NEW r \in Requests, Fail(r) PROVE GaugeInv'
  <2>1. /\ pc[r] = "flight" /\ gauge' = gauge
        /\ state' = IF Counted >= Threshold THEN "open" ELSE state
        /\ Leave(r, Counted >= Threshold /\ state # "open", "open")
    BY <1>3 DEF Fail, RecordFailure
  <2>2. QED
    BY <1>0, <2>1, OutcomeKeepsGauge
<1>4. ASSUME NEW r \in Requests, Unread(r) PROVE GaugeInv'
  BY <1>0, <1>4, OutcomeKeepsGauge DEF Unread, breaker
<1>5. ASSUME NEW r \in Requests, Callback(r) PROVE GaugeInv'
  <2>1. /\ gauge' = note[r] /\ state' = state
        /\ pc' = [pc EXCEPT ![r] = "idle"] /\ note' = [note EXCEPT ![r] = "none"]
        /\ pc[r] = "callback" /\ DOMAIN pc = Requests /\ DOMAIN note = Requests
    BY <1>0, <1>5 DEF Callback, breaker, TypeOK
  <2>2. \A s \in Requests :
          pc'[s] = "callback" => pc[s] = "callback" /\ note'[s] = note[s]
    BY <2>1
  <2>3. state \in {"open", "closed"} => note[r] = state
    BY <2>1 DEF GaugeInv
  <2>4. QED
    BY <2>1, <2>2, <2>3 DEF GaugeInv, GaugeTracksState
<1>6. CASE Ping
  BY <1>6, AllowKeepsGauge DEF Ping
<1>7. CASE Tick \/ Degrade \/ Recover \/ UNCHANGED vars
  BY <1>7 DEF Tick, Degrade, Recover, vars, breaker, GaugeInv, GaugeTracksState
<1>8. QED
  BY <1>1, <1>2, <1>3, <1>4, <1>5, <1>6, <1>7 DEF Next, Finish

(* The gauge tracks the breaker, for any number of goroutines, as long as  *)
(* no two state changes have their callbacks pending at once: the order of *)
(* two callbacks is the only way to the wrong gauge breaker_gauge finds.   *)
THEOREM GaugeFollows == Spec /\ []CallbacksApart => []GaugeTracksState
<1>1. Init => GaugeInv
  BY DEF Init, GaugeInv, GaugeTracksState
<1>2. GaugeInv => GaugeTracksState
  BY DEF GaugeInv
<1>3. QED
  BY <1>1, <1>2, StepGauge, AlwaysInv, PTL DEF Spec
=============================================================================
