----------------------------- MODULE Readiness -----------------------------
(***************************************************************************)
(* The readiness check of the controller, pkg/controller/healthcheck.go,   *)
(* composed with the circuit breaker it pings through: CircuitBreaker is   *)
(* extended, and each of its steps is a step here.                         *)
(*                                                                         *)
(* Probes of the kubelet call check concurrently.  A probe that finds a    *)
(* fresh result, or a ping in flight, is answered from lastResult and      *)
(* changes nothing.  Any other sets inFlight under the mutex, consults the *)
(* breaker and the network without it, and takes it again to store what    *)
(* came back; that return and the storing are one step, since all that     *)
(* other probes can see in between is the ping in flight.                  *)
(*                                                                         *)
(* A ping ends with an error if the network, a 5xx, its own timeout of 5s  *)
(* or the probe's end it; all these are "degraded".  An answer below 500,  *)
(* a 429 included, is a success, although the breaker counts a 429.        *)
(***************************************************************************)
EXTENDS CircuitBreaker

CONSTANTS
  Probes,      \* the goroutines that serve /readyz
  CacheTTL,    \* ticks for which a success is reused (30s)
  ErrorTTL     \* ticks for which an error is reused (5s)

ASSUME ReadinessAssumption ==
  /\ CacheTTL \in Nat \ {0} /\ ErrorTTL \in Nat \ {0}
  /\ ErrorTTL <= CacheTTL

VARIABLES
  probe,       \* "idle", or how far the probe's ping is: "asking", "wire"
  inFlight,    \* p.inFlight
  lastResult,  \* p.lastResult: "ok" is nil
  since,       \* ticks since p.lastCheck, at most CacheTTL
  shaky        \* pings that were on the wire while the API was degraded

checker == <<probe, inFlight, lastResult, since, shaky>>
readyVars == <<vars, checker>>

RInit ==
  /\ Init
  /\ probe = [p \in Probes |-> "idle"] /\ inFlight = FALSE
  /\ lastResult = "ok" /\ since = CacheTTL    \* nil, and the zero time
  /\ shaky = {}

-----------------------------------------------------------------------------
(* An operator whose name extends that of an operation is that operation   *)
(* with a mistake in it; no specification uses it.                         *)

Expired == since >= (IF lastResult = "ok" THEN CacheTTL ELSE ErrorTTL)

(* The first critical section of check, when it does not answer at once. *)
BeginByAge(p) ==
  /\ probe[p] = "idle" /\ Expired
  /\ inFlight' = TRUE /\ probe' = [probe EXCEPT ![p] = "asking"]
  /\ UNCHANGED <<vars, lastResult, since, shaky>>

Begin(p) ==
  /\ probe[p] = "idle" /\ Expired /\ ~inFlight
  /\ inFlight' = TRUE /\ probe' = [probe EXCEPT ![p] = "asking"]
  /\ UNCHANGED <<vars, lastResult, since, shaky>>

(* The second one: what Ping returned is stored. *)
StoreKeepingFlag(p, result) ==
  /\ lastResult' = result /\ since' = 0
  /\ inFlight' = (inFlight /\ result = "error")
  /\ probe' = [probe EXCEPT ![p] = "idle"] /\ shaky' = shaky \ {p}

Store(p, result) ==
  /\ lastResult' = result /\ since' = 0 /\ inFlight' = FALSE
  /\ probe' = [probe EXCEPT ![p] = "idle"] /\ shaky' = shaky \ {p}

(* Ping consults the breaker, which may start probing by it. *)
Consult(p) ==
  /\ probe[p] = "asking"
  /\ \/ /\ Ping /\ probe' = [probe EXCEPT ![p] = "wire"]
        /\ shaky' = IF api = "degraded" THEN shaky \cup {p} ELSE shaky
        /\ UNCHANGED <<inFlight, lastResult, since>>
     \/ state = "open" /\ age < Timeout /\ Store(p, "error") /\ UNCHANGED vars

Answered(p) ==
  /\ probe[p] = "wire"
  /\ \/ Store(p, "ok")
     \/ (api = "degraded" \/ p \in shaky) /\ Store(p, "error")
  /\ UNCHANGED vars

-----------------------------------------------------------------------------
(* Both clocks show the same time. *)
TimePasses ==
  /\ Tick \/ (age = Timeout /\ UNCHANGED vars)
  /\ age < Timeout \/ since < CacheTTL
  /\ since' = IF since < CacheTTL THEN since + 1 ELSE since
  /\ UNCHANGED <<probe, inFlight, lastResult, shaky>>

ApiDegrades ==
  /\ Degrade
  /\ shaky' = {p \in Probes : probe[p] = "wire"}
  /\ UNCHANGED <<probe, inFlight, lastResult, since>>

Request(r) == (Send(r) \/ Finish(r) \/ Callback(r)) /\ UNCHANGED checker

RNext ==
  \/ \E r \in Requests : Request(r)
  \/ \E p \in Probes : Begin(p) \/ Consult(p) \/ Answered(p)
  \/ (Ping \/ Recover) /\ UNCHANGED checker    \* a doRequest that returns early
  \/ TimePasses \/ ApiDegrades

(* As in CircuitBreaker; and the kubelet goes on probing (every 10s), and a *)
(* ping ends, by its timeout if by nothing else.                           *)
RFairness ==
  /\ WF_readyVars(TimePasses)
  /\ \A r \in Requests : /\ WF_readyVars(Send(r) /\ UNCHANGED checker)
                         /\ WF_readyVars(Finish(r) /\ UNCHANGED checker)
                         /\ WF_readyVars(Callback(r) /\ UNCHANGED checker)
  /\ \A p \in Probes : WF_readyVars(Begin(p) \/ Consult(p) \/ Answered(p))

RSpec == RInit /\ [][RNext]_readyVars
RFairSpec == RSpec /\ RFairness

-----------------------------------------------------------------------------
(* Of the probes that arrive together one pings: so a result is never      *)
(* replaced by that of an earlier ping, and the API is not hammered.       *)
OnePingAtATime == \A p, q \in Probes : (probe[p] # "idle" /\ probe[q] # "idle") => p = q

(* The flag is up exactly while a probe has a ping in flight: were it ever *)
(* left up, every later probe would be answered from the cache.            *)
FlagMeansFlight == inFlight <=> \E p \in Probes : probe[p] # "idle"

(* The checker's part of the type invariant. *)
CheckerTypeOK ==
  /\ probe \in [Probes -> {"idle", "asking", "wire"}]
  /\ inFlight \in BOOLEAN
  /\ lastResult \in {"ok", "error"}
  /\ since \in 0 .. CacheTTL
  /\ shaky \subseteq Probes

(* The inductive invariant of the proofs. *)
CheckerInv == CheckerTypeOK /\ OnePingAtATime /\ FlagMeansFlight

(* Once the API is healthy for good the controller reports itself ready    *)
(* for good: the breaker closes, although Ping asks it and never reports   *)
(* an outcome, and no old error or forgotten flag stays in the cache.      *)
ReadyWithApi == <>[](api = "healthy") => <>[](lastResult = "ok")
=============================================================================
