--------------------------- MODULE CircuitBreaker ---------------------------
(***************************************************************************)
(* The circuit breaker of the Pangolin client and the requests that go     *)
(* through it: pkg/pangolin/circuit_breaker.go, the parts of doRequest and *)
(* Ping in pkg/pangolin/client.go that consult it, and the state-change    *)
(* callback that cmd/controller/main.go installs.                          *)
(*                                                                         *)
(* Every reconciler goroutine shares one breaker.  Allow, RecordSuccess    *)
(* and RecordFailure hold its mutex and are one step each; between Allow   *)
(* and the outcome the request is on the wire, and the callback runs after *)
(* the mutex is released, in a step of its own.                            *)
(*                                                                         *)
(* Abstracted: URLs, bodies, log lines, request metrics.  Time is the      *)
(* number of ticks since the last failure, up to the breaker's timeout.    *)
(***************************************************************************)
EXTENDS Naturals, FiniteSets

CONSTANTS
  Requests,     \* the goroutines that call doRequest
  Threshold,    \* failures that open the breaker (5 in NewClient)
  Timeout,      \* ticks an open breaker waits (30s in NewClient)
  FailureCap    \* where the model stops counting failures

ASSUME BreakerAssumption ==
  /\ Threshold \in Nat \ {0}
  /\ Timeout \in Nat \ {0}
  /\ FailureCap \in Nat
  /\ FailureCap >= Threshold

VARIABLES
  state,     \* cb.state
  failures,  \* cb.failures
  age,       \* ticks since cb.lastFailure, at most Timeout
  pc,        \* where each request is: "idle", "flight" or "callback"
  note,      \* the state name its pending callback was given
  gauge,     \* pangolin_circuit_breaker_state, as the name it stands for
  api,       \* the environment: is the Pangolin API "healthy" or "degraded"?
  atRisk     \* requests that were on the wire while the API was degraded

breaker == <<state, failures, age>>
vars == <<state, failures, age, pc, note, gauge, api, atRisk>>

BreakerStates == {"closed", "open", "half-open"}

Init ==
  /\ state = "closed" /\ failures = 0
  /\ age = Timeout                    \* lastFailure is the zero time
  /\ pc = [r \in Requests |-> "idle"]
  /\ note = [r \in Requests |-> "none"]
  /\ gauge = "closed"                 \* a Prometheus gauge starts at 0
  /\ api = "healthy" /\ atRisk = {}

-----------------------------------------------------------------------------
(* The breaker's three operations.  An operator whose name extends that of *)
(* an operation (AllowNever, RecordFailureOffByOne...) is that operation   *)
(* with a mistake in it; no specification uses it, and PROJECT.json names  *)
(* the property that would expose the mistake.                             *)

(* Allow returns nil and, if the timeout has elapsed, starts probing.  When *)
(* it returns ErrCircuitOpen nothing changes.  No callback is invoked.     *)
AllowResettingCount ==
  /\ state = "open" => age = Timeout
  /\ state' = IF state = "open" THEN "half-open" ELSE state
  /\ failures' = IF state = "open" THEN 0 ELSE failures
  /\ UNCHANGED age

AllowNever ==
  /\ state # "open"
  /\ UNCHANGED breaker

Allow ==
  /\ state = "open" => age = Timeout
  /\ state' = IF state = "open" THEN "half-open" ELSE state
  /\ UNCHANGED <<failures, age>>

(* The goroutine leaves with a callback to run if the state changed. *)
Leave(r, changed, to) ==
  /\ pc' = [pc EXCEPT ![r] = IF changed THEN "callback" ELSE "idle"]
  /\ note' = [note EXCEPT ![r] = IF changed THEN to ELSE "none"]
  /\ atRisk' = atRisk \ {r}

RecordSuccessWithoutReset(r) ==
  /\ failures' = IF state = "closed" THEN 0 ELSE failures
  /\ state' = "closed"
  /\ UNCHANGED age
  /\ Leave(r, state # "closed", "closed")

RecordSuccessDecrementing(r) ==
  /\ failures' = failures - 1
  /\ state' = "closed"
  /\ UNCHANGED age
  /\ Leave(r, state # "closed", "closed")

RecordSuccess(r) ==
  /\ failures' = 0
  /\ state' = "closed"
  /\ UNCHANGED age
  /\ Leave(r, state # "closed", "closed")

Counted == IF failures < FailureCap THEN failures + 1 ELSE failures

RecordFailureOffByOne(r) ==
  /\ failures' = Counted
  /\ age' = 0
  /\ state' = IF Counted > Threshold THEN "open" ELSE state
  /\ Leave(r, Counted > Threshold /\ state # "open", "open")

RecordFailure(r) ==
  /\ failures' = Counted
  /\ age' = 0
  /\ state' = IF Counted >= Threshold THEN "open" ELSE state
  /\ Leave(r, Counted >= Threshold /\ state # "open", "open")

-----------------------------------------------------------------------------
(* doRequest. *)

Send(r) ==
  /\ pc[r] = "idle"
  /\ Allow
  /\ pc' = [pc EXCEPT ![r] = "flight"]
  /\ atRisk' = IF api = "degraded" THEN atRisk \cup {r} ELSE atRisk
  /\ UNCHANGED <<note, gauge, api>>

(* A healthy API answers every request; one that was on the wire during an *)
(* outage may still fail afterwards.                                       *)
MayFail(r) == api = "degraded" \/ r \in atRisk

(* Any answer below 400, or a 4xx other than 429. *)
Succeed(r) ==
  /\ pc[r] = "flight"
  /\ RecordSuccess(r)
  /\ UNCHANGED <<gauge, api>>

(* A connection error, a timeout, a 5xx or a 429. *)
Fail(r) ==
  /\ pc[r] = "flight"
  /\ MayFail(r)
  /\ RecordFailure(r)
  /\ UNCHANGED <<gauge, api>>

(* The body could not be read: doRequest returns and records nothing. *)
Unread(r) ==
  /\ pc[r] = "flight"
  /\ MayFail(r)
  /\ Leave(r, FALSE, "none")
  /\ UNCHANGED <<breaker, gauge, api>>

(* Ping asks Allow and never reports an outcome.  The early returns of     *)
(* doRequest between Allow and the wire have the same effect.              *)
Ping ==
  /\ Allow
  /\ UNCHANGED <<pc, note, gauge, api, atRisk>>

(* The callback installed by main sets the gauge to the state it was given. *)
Callback(r) ==
  /\ pc[r] = "callback"
  /\ gauge' = note[r]
  /\ pc' = [pc EXCEPT ![r] = "idle"]
  /\ note' = [note EXCEPT ![r] = "none"]
  /\ UNCHANGED <<breaker, api, atRisk>>

-----------------------------------------------------------------------------
(* Time and the API. *)

Tick ==
  /\ age < Timeout
  /\ age' = age + 1
  /\ UNCHANGED <<state, failures, pc, note, gauge, api, atRisk>>

Degrade ==
  /\ api = "healthy"
  /\ api' = "degraded"
  /\ atRisk' = {r \in Requests : pc[r] = "flight"}
  /\ UNCHANGED <<breaker, pc, note, gauge>>

Recover ==
  /\ api = "degraded"
  /\ api' = "healthy"
  /\ UNCHANGED <<breaker, pc, note, gauge, atRisk>>

Finish(r) == Succeed(r) \/ Fail(r) \/ Unread(r)

Next ==
  \/ \E r \in Requests : Send(r) \/ Finish(r) \/ Callback(r)
  \/ Ping \/ Tick \/ Degrade \/ Recover

(* Time passes; doRequest returns because the HTTP client has a timeout;   *)
(* callbacks run; and requests keep coming, because every reconciler is    *)
(* requeued on error and the manager resyncs every 10 minutes.  Nothing is *)
(* assumed of the API.                                                     *)
Fairness ==
  /\ WF_vars(Tick)
  /\ \A r \in Requests : /\ WF_vars(Send(r))
                         /\ WF_vars(Finish(r))
                         /\ WF_vars(Callback(r))

Spec == Init /\ [][Next]_vars
FairSpec == Spec /\ Fairness

-----------------------------------------------------------------------------
(* Every variable stays in its range. *)
TypeOK ==
  /\ state \in BreakerStates
  /\ failures \in 0 .. FailureCap
  /\ age \in 0 .. Timeout
  /\ pc \in [Requests -> {"idle", "flight", "callback"}]
  /\ note \in [Requests -> {"none", "closed", "open"}]
  /\ gauge \in {"closed", "open"}
  /\ api \in {"healthy", "degraded"}
  /\ atRisk \subseteq Requests

(* The counter and the state never disagree: the breaker is closed exactly *)
(* while fewer than Threshold failures are counted.  RecordFailure decides *)
(* to reopen a half-open breaker by the counter alone, so it relies on     *)
(* this, which no single operation establishes.                            *)
CountMatchesState == (state = "closed") <=> (failures < Threshold)

(* A callback is pending exactly while it has a state name to report. *)
PendingHasName == \A r \in Requests : (pc[r] = "callback") <=> (note[r] # "none")

(* The inductive invariant of the proofs. *)
BreakerInv == TypeOK /\ PendingHasName /\ CountMatchesState

(* While the breaker probes, one recorded failure reopens it and restarts  *)
(* the timeout, although RecordFailure only compares the counter with the  *)
(* threshold: the failures that opened the breaker must still be counted.  *)
OneFailureEndsProbing ==
  [][\A r \in Requests :
        (state = "half-open" /\ Fail(r)) => (state' = "open" /\ age' = 0)]_vars

(* The code implements the transition table of its comment: see            *)
(* BreakerPromise.  The counter stands for the streak only while closed.   *)
Promise == INSTANCE BreakerPromise WITH
  mode <- state,
  streak <- IF state = "closed" THEN failures ELSE 0

ImplementsPromise == Promise!PSpec

(* If the API is eventually healthy for good then the breaker is           *)
(* eventually closed for good, whatever was in flight when it recovered.   *)
RecoversWithApi == <>[](api = "healthy") => <>[](state = "closed")

-----------------------------------------------------------------------------
(* What a comment of the code says and the code does not do. *)

(* metrics.go:116, "tracks the current state": with no callback pending    *)
(* the gauge does not read closed while the breaker is open.               *)
GaugeTracksState ==
  (\A r \in Requests : pc[r] # "callback") =>
     (state \in {"open", "closed"} => gauge = state)
=============================================================================
