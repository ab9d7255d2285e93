---------------------------- MODULE OwnerPromise ----------------------------
(***************************************************************************)
(* What a reconciler promises about the thing it keeps in Pangolin for one *)
(* Kubernetes object: a site for a Gateway, a resource for a TCPRoute or a *)
(* GRPCRoute.  The reconcilers, their caches, copies, labels and retries   *)
(* do not appear: GatewaySite, TCPRoute and GRPCRoute show that they come  *)
(* to this.                                                                *)
(*                                                                         *)
(* Nothing is made for an object without the finalizer.  A thing is made   *)
(* when there is none, except for spare ones: those whose creation took    *)
(* effect after the client had given it up, or which were made without a   *)
(* look at what was there.  While the object lives the reconciler takes    *)
(* nothing away.  An object with the finalizer goes only after someone has *)
(* deleted it and the reconciler has let it go; that nothing is left then  *)
(* is not promised.                                                        *)
(***************************************************************************)
EXTENDS Naturals

CONSTANT MayLetGo   \* the reconciler may take things from a live object

VARIABLES
  object,   \* "new": no finalizer; "kept"; "doomed": being deleted; "gone"
  things,   \* ids of the things in Pangolin
  spare,    \* ids of things that may be one too many
  pending,  \* creations the client has given up, and that may yet happen
  losses    \* how often others may still take something away

promiseVars == <<object, things, spare, pending, losses>>

PInit ==
  /\ object = "new" /\ things = {} /\ spare = {}
  /\ pending = 0 /\ losses \in Nat

Becomes(phase) == object' = phase /\ UNCHANGED <<things, spare, pending, losses>>

(* The reconciler adds the finalizer. *)
Protect == object = "new" /\ Becomes("kept")

(* A user deletes the object, which goes at once if nothing holds it. *)
MarkDeleted == (object = "new" /\ Becomes("gone")) \/ (object = "kept" /\ Becomes("doomed"))

(* The reconciler removes the finalizer. *)
Release == object = "doomed" /\ Becomes("gone")

(* A thing that was not there before comes to exist. *)
OneMore == \E id \in things' \ (things \cup spare) : things' = things \cup {id}

Make ==
  /\ object # "new" /\ things \subseteq spare
  /\ OneMore
  /\ UNCHANGED <<object, spare, pending, losses>>

MakeSpare ==
  /\ object # "new"
  /\ OneMore /\ spare' = spare \cup (things' \ things)
  /\ UNCHANGED <<object, pending, losses>>

GiveUp ==
  /\ object # "new"
  /\ pending' = pending + 1
  /\ UNCHANGED <<object, things, spare, losses>>

(* A creation that was given up takes effect, or fails. *)
Arrive ==
  /\ pending > 0 /\ pending' = pending - 1
  /\ \/ OneMore /\ spare' = spare \cup (things' \ things)
     \/ UNCHANGED <<things, spare>>
  /\ UNCHANGED <<object, losses>>

Delete ==
  /\ object \in {"doomed", "gone"} \/ MayLetGo
  /\ \E id \in things : things' = things \ {id}
  /\ UNCHANGED <<object, spare, pending, losses>>

Lose ==
  /\ losses > 0 /\ losses' = losses - 1
  /\ things' \subseteq things
  /\ UNCHANGED <<object, spare, pending>>

PNext ==
  \/ Protect \/ MarkDeleted \/ Release
  \/ Make \/ MakeSpare \/ GiveUp \/ Arrive \/ Delete \/ Lose

PSpec == PInit /\ [][PNext]_promiseVars

-----------------------------------------------------------------------------
(* What the promise is worth.  An object that has a thing, or may yet have *)
(* one, cannot vanish behind the reconciler's back.                        *)
Held == object = "new" => things = {} /\ pending = 0

(* Of the things that are not spare there is at most one. *)
Single == \A a, b \in things \ spare : a = b
=============================================================================
