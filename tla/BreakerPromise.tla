--------------------------- MODULE BreakerPromise ---------------------------
(***************************************************************************)
(* What a circuit breaker promises its callers, without clocks, goroutines *)
(* or a shared failure counter.  It is the transition table in the comment *)
(* of the type CircuitBreaker (pkg/pangolin/circuit_breaker.go:20-26), with *)
(* one transition added because several requests are in flight at once: a  *)
(* success that arrives while the breaker is open closes it.               *)
(*                                                                         *)
(* In this table a failed probe reopens the breaker whatever was counted   *)
(* before, and counting starts afresh each time the breaker closes.  The   *)
(* code keeps ONE counter for both jobs; CircuitBreaker.tla shows that it  *)
(* nevertheless implements this table.                                     *)
(***************************************************************************)
EXTENDS Naturals

CONSTANT Threshold

VARIABLES
  mode,    \* "closed", "open" or "half-open"
  streak   \* failures in a row since the breaker was last closed or healed

promiseVars == <<mode, streak>>

PInit == mode = "closed" /\ streak = 0

(* A failure that does not yet complete a run of Threshold of them. *)
Tolerate ==
  /\ mode = "closed"
  /\ streak + 1 < Threshold
  /\ streak' = streak + 1
  /\ UNCHANGED mode

(* The Threshold-th failure in a row. *)
Trip ==
  /\ mode = "closed"
  /\ streak + 1 = Threshold
  /\ mode' = "open"
  /\ streak' = 0

(* A success in normal operation forgives the failures before it. *)
Forgive ==
  /\ mode = "closed"
  /\ streak' = 0
  /\ UNCHANGED mode

StartProbing == mode = "open" /\ mode' = "half-open" /\ UNCHANGED streak

(* One failure is enough while probing. *)
Reopen == mode = "half-open" /\ mode' = "open" /\ UNCHANGED streak

Heal == mode = "half-open" /\ mode' = "closed" /\ UNCHANGED streak

(* Not in the comment's table: the answer to a request that was sent before *)
(* the breaker opened arrives while it is open.                            *)
HealLate == mode = "open" /\ mode' = "closed" /\ UNCHANGED streak

PNext == \/ Tolerate \/ Trip \/ Forgive
         \/ StartProbing \/ Reopen \/ Heal \/ HealLate

PSpec == PInit /\ [][PNext]_promiseVars
=============================================================================
