-------------------------- MODULE Readiness_proofs --------------------------
(***************************************************************************)
(* Theorems about Readiness, for every set of requests and of probes: the  *)
(* composition leaves the circuit breaker all it promises, and probes that *)
(* arrive together make one ping.                                          *)
(***************************************************************************)
EXTENDS Readiness, CircuitBreaker_proofs

(* Each step of the composition is a step of the breaker, or none.         *)
LEMMA StepOfBreaker == [RNext]_readyVars => [Next]_vars
<1> SUFFICES ASSUME [RNext]_readyVars PROVE Next \/ UNCHANGED vars
  OBVIOUS
<1>1. ASSUME NEW r \in Requests, Request(r) PROVE Next
  BY <1>1 DEF Request, Next
<1>2. ASSUME NEW p \in Probes, Begin(p) \/ Consult(p) \/ Answered(p)
      PROVE  Next \/ UNCHANGED vars
  BY <1>2 DEF Begin, Consult, Answered, Next
<1>3. CASE (Ping \/ Recover) /\ UNCHANGED checker
  BY <1>3 DEF Next
<1>4. CASE TimePasses
  BY <1>4 DEF TimePasses, Next
<1>5. CASE ApiDegrades
  BY <1>5 DEF ApiDegrades, Next
<1>6. CASE UNCHANGED readyVars
  BY <1>6 DEF readyVars
<1>7. QED
  BY <1>1, <1>2, <1>3, <1>4, <1>5, <1>6 DEF RNext

(* The composition implements the breaker alone: readiness pings, which    *)
(* ask Allow and report nothing, are steps the breaker already allows for. *)
THEOREM Composition == RSpec => Spec
<1>1. RInit => Init
  BY DEF RInit
<1>2. QED
  BY <1>1, StepOfBreaker, PTL DEF RSpec, Spec

(* So the breaker with its pings implements the documented transition table *)
(* of BreakerPromise.                                                      *)
THEOREM ComposedRefinement == RSpec => ImplementsPromise
BY Composition, Refinement, PTL

-----------------------------------------------------------------------------
(* Initially no probe pings. *)
LEMMA CheckerInit == RInit => CheckerInv
<1> SUFFICES ASSUME RInit PROVE CheckerInv
  OBVIOUS
<1>1. \A p \in Probes : probe[p] = "idle"
  BY DEF RInit
<1>2. since \in 0 .. CacheTTL
  BY ReadinessAssumption DEF RInit
<1>3. CheckerTypeOK
  BY <1>2 DEF RInit, CheckerTypeOK
<1>4. ~inFlight
  BY DEF RInit
<1>5. QED
  BY <1>1, <1>3, <1>4 DEF CheckerInv, OnePingAtATime, FlagMeansFlight

(* Storing a result ends the only ping there is. *)
LEMMA StoreKeepsInv ==
  ASSUME CheckerInv, NEW p \in Probes, probe[p] # "idle",
         NEW result \in {"ok", "error"}, Store(p, result)
  PROVE  CheckerInv'
<1>1. \A q \in Probes : probe'[q] = "idle"
  BY DEF Store, CheckerInv, CheckerTypeOK, OnePingAtATime
<1>2. CheckerTypeOK'
  <2>1. since' \in 0 .. CacheTTL
    BY ReadinessAssumption DEF Store
  <2>2. inFlight' \in BOOLEAN
    BY DEF Store
  <2>3. QED
    BY <2>1, <2>2 DEF Store, CheckerInv, CheckerTypeOK
<1>3. OnePingAtATime' /\ FlagMeansFlight'
  BY <1>1 DEF Store, OnePingAtATime, FlagMeansFlight
<1>4. QED
  BY <1>2, <1>3 DEF CheckerInv

(* Every step keeps one ping at most, and the flag in step with it. *)
LEMMA CheckerStep == CheckerInv /\ [RNext]_readyVars => CheckerInv'
<1> SUFFICES ASSUME CheckerInv, [RNext]_readyVars PROVE CheckerInv'
  OBVIOUS
<1>1. ASSUME UNCHANGED checker PROVE CheckerInv'
  BY <1>1 DEF checker, CheckerInv, CheckerTypeOK, OnePingAtATime, FlagMeansFlight
<1>2. ASSUME NEW p \in Probes, Begin(p) PROVE CheckerInv'
  <2>1. \A q \in Probes : probe'[q] # "idle" <=> q = p
    BY <1>2 DEF Begin, CheckerInv, CheckerTypeOK, FlagMeansFlight
  <2>2. CheckerTypeOK'
    BY <1>2 DEF Begin, CheckerInv, CheckerTypeOK
  <2>3. inFlight'
    BY <1>2 DEF Begin
  <2>4. QED
    BY <2>1, <2>2, <2>3 DEF CheckerInv, OnePingAtATime, FlagMeansFlight
<1>3. ASSUME NEW p \in Probes, Consult(p) PROVE CheckerInv'
  <2>1. CASE Store(p, "error")
    BY <1>3, <2>1, StoreKeepsInv DEF Consult
  <2>2. CASE /\ probe' = [probe EXCEPT ![p] = "wire"]
             /\ shaky' = IF api = "degraded" THEN shaky \cup {p} ELSE shaky
             /\ UNCHANGED <<inFlight, lastResult, since>>
    <3>1. \A q \in Probes : probe'[q] # "idle" <=> probe[q] # "idle"
      BY <1>3, <2>2 DEF Consult, CheckerInv, CheckerTypeOK
    <3>2. CheckerTypeOK'
      BY <2>2 DEF CheckerInv, CheckerTypeOK
    <3>3. QED
      BY <2>2, <3>1, <3>2 DEF CheckerInv, OnePingAtATime, FlagMeansFlight
  <2>3. QED
    BY <1>3, <2>1, <2>2 DEF Consult
<1>4. ASSUME NEW p \in Probes, Answered(p) PROVE CheckerInv'
  BY <1>4, StoreKeepsInv DEF Answered
<1>5. ASSUME UNCHANGED <<probe, inFlight, lastResult>>,
             since' \in 0 .. CacheTTL, shaky' \in SUBSET Probes
      PROVE  CheckerInv'
  BY <1>5 DEF CheckerInv, CheckerTypeOK, OnePingAtATime, FlagMeansFlight
<1>6. CASE TimePasses
  <2>1. since' \in 0 .. CacheTTL
    BY <1>6, ReadinessAssumption DEF TimePasses, CheckerInv, CheckerTypeOK
  <2>2. QED
    BY <1>5, <1>6, <2>1 DEF TimePasses, CheckerInv, CheckerTypeOK
<1>7. CASE ApiDegrades
  BY <1>5, <1>7 DEF ApiDegrades, CheckerInv, CheckerTypeOK
<1>8. QED
  BY <1>1, <1>2, <1>3, <1>4, <1>6, <1>7 DEF RNext, Request, readyVars, checker

(* However many probes arrive together, one of them pings. *)
THEOREM OnePing == RSpec => []OnePingAtATime
<1>1. CheckerInv => OnePingAtATime
  BY DEF CheckerInv
<1>2. QED
  BY <1>1, CheckerInit, CheckerStep, PTL DEF RSpec
=============================================================================
