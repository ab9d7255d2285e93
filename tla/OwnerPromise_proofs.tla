------------------------- MODULE OwnerPromise_proofs -------------------------
(***************************************************************************)
(* What the promise of a reconciler is worth to those who rely on it.      *)
(***************************************************************************)
EXTENDS OwnerPromise, TLAPS

(* Every step keeps hold of an object that has, or may yet have, a thing. *)
LEMMA StepHeld == Held /\ [PNext]_promiseVars => Held'
<1> SUFFICES ASSUME Held, [PNext]_promiseVars, object' = "new"
             PROVE  things' = {} /\ pending' = 0
  BY DEF Held
<1>1. CASE Protect \/ MarkDeleted \/ Release
  BY <1>1 DEF Protect, MarkDeleted, Release, Becomes
<1>2. CASE Make \/ MakeSpare \/ GiveUp
  BY <1>2 DEF Make, MakeSpare, GiveUp
<1>3. CASE Arrive
  <2>1. pending = 0 /\ pending > 0
    BY <1>3 DEF Arrive, Held
  <2>2. QED
    BY <2>1
<1>4. CASE Delete \/ Lose
  BY <1>4 DEF Delete, Lose, Held
<1>5. CASE UNCHANGED promiseVars
  BY <1>5 DEF promiseVars, Held
<1>6. QED
  BY <1>1, <1>2, <1>3, <1>4, <1>5 DEF PNext

(* Every step keeps at most one of the things that are not spare. *)
LEMMA StepSingle == Single /\ [PNext]_promiseVars => Single'
<1> SUFFICES ASSUME Single, [PNext]_promiseVars PROVE Single'
  OBVIOUS
<1>1. ASSUME things' \ spare' \subseteq things \ spare PROVE Single'
  BY <1>1 DEF Single
<1>2. CASE Protect \/ MarkDeleted \/ Release
  BY <1>1, <1>2 DEF Protect, MarkDeleted, Release, Becomes
<1>3. CASE Make
  <2>1. PICK id : things' = things \cup {id}
    BY <1>3 DEF Make, OneMore
  <2>2. things' \ spare' \subseteq {id}
    BY <1>3, <2>1 DEF Make
  <2>3. QED
    BY <2>2 DEF Single
<1>4. CASE MakeSpare \/ Arrive
  <2>1. \/ spare' = spare \cup (things' \ things)
        \/ UNCHANGED <<things, spare>>
    BY <1>4 DEF MakeSpare, Arrive
  <2>2. QED
    BY <1>1, <2>1
<1>5. CASE GiveUp \/ Delete \/ Lose
  <2>1. things' \subseteq things /\ spare' = spare
    BY <1>5 DEF GiveUp, Delete, Lose
  <2>2. QED
    BY <1>1, <2>1
<1>6. CASE UNCHANGED promiseVars
  BY <1>1, <1>6 DEF promiseVars
<1>7. QED
  BY <1>2, <1>3, <1>4, <1>5, <1>6 DEF PNext

(* Who keeps the promise loses no object that has, or may yet have, a thing *)
(* in Pangolin, and keeps at most one thing, spare ones apart.             *)
THEOREM Worth == PSpec => [](Held /\ Single)
<1>1. PInit => Held /\ Single
  BY DEF PInit, Held, Single
<1>2. QED
  BY <1>1, StepHeld, StepSingle, PTL DEF PSpec
=============================================================================
