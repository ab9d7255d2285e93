------------------------------ MODULE TCPRoute ------------------------------
(***************************************************************************)
(* One TCPRoute, its Pangolin resource and the targets of that resource:   *)
(* pkg/controller/tcproute_controller.go.                                  *)
(*                                                                         *)
(* The work queue never runs one route twice at a time, so the reconciler  *)
(* is one process; each of its calls to the API server or to Pangolin is a *)
(* step.  It reads the route, and the Gateway's site-id label, from caches *)
(* that lag behind the API server, and patches without a resource version. *)
(* The answer to a patch replaces its copy of the route, spec included.  A *)
(* call may fail, or take effect although its answer is lost; a resource   *)
(* whose creation timed out may appear later; the process may crash.       *)
(*                                                                         *)
(* A resource is its id.  Every resource here bears the route's resource   *)
(* name "tcp-<namespace>-<name>".  A route is attached when one of its     *)
(* parentRefs leads to a Gateway of this controller with a TCP listener;   *)
(* what its rules resolve to (Services, ports, weights, grants) is a set   *)
(* of endpoints, which an edit or a change of a Service changes.  Status   *)
(* conditions are left out, as are further parents, which are rejected,    *)
(* and drift of name and port, which is only logged.                       *)
(***************************************************************************)
EXTENDS Integers, FiniteSets

CONSTANTS
  Endpoints,  \* addresses and ports of backends
  FirstWant,  \* the endpoints the route starts with
  MaxEdits,   \* changes of the route or of its Services in a run
  MaxFaults,  \* calls that fail or lose their answer, and crashes, in a run
  MaxKills    \* things lost in Pangolin behind the controller's back

ASSUME TCPAssumption ==
  /\ FirstWant \subseteq Endpoints
  /\ MaxEdits \in Nat /\ MaxFaults \in Nat /\ MaxKills \in Nat

VARIABLES
  route,      \* the route, as the API server has it
  cache,      \* the route, as the informer cache has it
  label,      \* the Gateway's site-id label on the API server
  seen,       \* that label in the cache
  live,       \* the Gateway's site in Pangolin
  resources,  \* ids of the resources in Pangolin
  nextRes,    \* the id of the next resource
  late,       \* CreateResource calls given up by the client, on their way
  extra,      \* resources made by such calls, or after a failed list
  targets,    \* the targets in Pangolin
  pc,         \* the next call of the reconciler
  snap,       \* its copy of the route
  site,       \* the site of its copy of the Gateway
  res,        \* the resource it works on
  blind,      \* the list of resources failed
  todo,       \* the endpoints it will make a target for
  stale,      \* the targets it will delete
  edits, faults, kills   \* budgets

vars == <<route, cache, label, seen, live, resources, nextRes, late, extra, targets,
          pc, snap, site, res, blind, todo, stale, edits, faults, kills>>

caches   == <<cache, seen>>
creation == <<nextRes, late, extra>>
pangolin == <<resources, nextRes, late, extra, targets>>
local    == <<snap, site, res, blind, todo, stale>>

NoSite     == 0
NoResource == 0    \* no resource-id label

Route == [exists : BOOLEAN, deleting : BOOLEAN, finalizer : BOOLEAN, label : Nat,
          attached : BOOLEAN, want : SUBSET Endpoints]

Gone == [exists |-> FALSE, deleting |-> FALSE, finalizer |-> FALSE, label |-> NoResource,
         attached |-> FALSE, want |-> {}]

NewRoute == [exists |-> TRUE, deleting |-> FALSE, finalizer |-> FALSE, label |-> NoResource,
             attached |-> TRUE, want |-> FirstWant]

(* The API server's changes to a route. *)
WithFinalizer(o)  == [o EXCEPT !.finalizer = TRUE]
WithDeletion(o)   == [o EXCEPT !.deleting = TRUE]
WithLabel(o, n)   == [o EXCEPT !.label = n]
WithSpec(o, a, w) == [o EXCEPT !.attached = a, !.want = w]

Target == [res : Nat, ep : Endpoints, site : Nat, on : BOOLEAN]

TargetOf(id, e, s) == [res |-> id, ep |-> e, site |-> s, on |-> TRUE]

TargetsOf(id) == {t \in targets : t.res = id}

Init ==
  /\ route = NewRoute /\ cache = NewRoute
  /\ label = 1 /\ seen = 1 /\ live = 1
  /\ resources = {} /\ nextRes = 1 /\ late = 0 /\ extra = {} /\ targets = {}
  /\ pc = "idle" /\ snap = Gone /\ site = NoSite /\ res = NoResource
  /\ blind = FALSE /\ todo = {} /\ stale = {}
  /\ edits = MaxEdits /\ faults = MaxFaults /\ kills = MaxKills

-----------------------------------------------------------------------------
(* An operator whose name extends that of an operation is that operation   *)
(* with a mistake in it; no specification uses it.                         *)

Return ==
  /\ pc' = "idle" /\ snap' = Gone /\ site' = NoSite /\ res' = NoResource
  /\ blind' = FALSE /\ todo' = {} /\ stale' = {}

Fault == faults > 0 /\ faults' = faults - 1

(* A call that had no effect and returned an error. *)
Refused == Fault /\ Return /\ UNCHANGED <<route, label, pangolin>>

(* A step that leaves caches and environment alone. *)
Own == UNCHANGED <<caches, live, edits, kills>>

NotFound == ~route.exists /\ Return /\ UNCHANGED <<route, faults>>

-----------------------------------------------------------------------------
(* Reconcile, handleTCPDelete and reconcileTCPRoute. *)

(* A parent can be used: the route is attached and the Gateway's copy has  *)
(* a site.                                                                 *)
Managed(o) == o.attached /\ seen # NoSite

ResourceEntry(o) == IF o.label = NoResource THEN "adopt" ELSE "verify"

DeleteEntryKeepingUnlabelled(o) ==
  IF ~o.finalizer \/ o.label = NoResource THEN "idle" ELSE "deleteResource"

DeleteEntry(o) ==
  IF ~o.finalizer THEN "idle"
  ELSE IF o.label # NoResource THEN "deleteResource" ELSE "dropFinalizer"

DetachEntry(o) == IF o.label # NoResource THEN "detach" ELSE "idle"

EntryWithoutFinalizer(o) ==
  IF o.deleting THEN DeleteEntry(o)
  ELSE IF ~Managed(o) THEN DetachEntry(o) ELSE ResourceEntry(o)

EntryKeepingDetached(o) ==
  IF o.deleting THEN DeleteEntry(o)
  ELSE IF ~Managed(o) THEN "idle"
  ELSE IF ~o.finalizer THEN "addFinalizer" ELSE ResourceEntry(o)

(* The first call made for a copy of the route. *)
Entry(o) ==
  IF o.deleting THEN DeleteEntry(o)
  ELSE IF ~Managed(o) THEN DetachEntry(o)
  ELSE IF ~o.finalizer THEN "addFinalizer" ELSE ResourceEntry(o)

Read ==
  /\ pc = "idle" /\ cache.exists /\ Entry(cache) # "idle"
  /\ pc' = Entry(cache) /\ snap' = cache /\ site' = seen
  /\ UNCHANGED <<route, label, pangolin, res, blind, todo, stale, faults>> /\ Own

AddFinalizer ==
  /\ pc = "addFinalizer"
  /\ \/ /\ route.exists
        /\ route' = WithFinalizer(route) /\ snap' = route' /\ pc' = ResourceEntry(route)
        /\ UNCHANGED <<site, res, blind, todo, stale, faults>>
     \/ NotFound
     \/ Fault /\ Return /\ UNCHANGED route
     \/ Fault /\ Return /\ route.exists /\ route' = WithFinalizer(route)
  /\ UNCHANGED <<label, pangolin>> /\ Own

ByNameTakingNil ==
  \/ \E id \in resources : res' = id /\ pc' = "label"
  \/ resources = {} /\ pc' = "label" /\ res' = -1

(* In the list of resources one bears the route's name, or none does. *)
ByName ==
  \/ \E id \in resources : res' = id /\ pc' = "label"
  \/ resources = {} /\ pc' = "create" /\ UNCHANGED res

(* adoptOrCreateTCPResource: if the list fails, it is done without. *)
AdoptWithoutList ==
  /\ pc = "adopt"
  /\ pc' = "create"
  /\ UNCHANGED <<route, label, pangolin, snap, site, res, blind, todo, stale, faults>> /\ Own

Adopt ==
  /\ pc = "adopt"
  /\ \/ ByName /\ UNCHANGED <<blind, faults>>
     \/ Fault /\ blind' = TRUE /\ pc' = "create" /\ UNCHANGED res
  /\ UNCHANGED <<route, label, pangolin, snap, site, todo, stale>> /\ Own

(* verifyOrRecreateTCPResource. *)
Verify ==
  /\ pc = "verify"
  /\ \/ /\ IF snap.label \in resources
           THEN res' = snap.label /\ pc' = "listTargets"
           ELSE ByName
        /\ UNCHANGED <<route, label, pangolin, snap, site, blind, todo, stale, faults>>
     \/ Refused
  /\ Own

NewResource(more) ==
  /\ resources' = resources \cup {nextRes} /\ nextRes' = nextRes + 1
  /\ extra' = IF more THEN extra \cup {nextRes} ELSE extra

(* createTCPPangolinResource. *)
Create ==
  /\ pc = "create"
  /\ \/ /\ NewResource(blind)
        /\ res' = nextRes /\ pc' = "label"
        /\ UNCHANGED <<late, snap, site, blind, todo, stale, faults>>
     \/ Fault /\ Return /\ UNCHANGED <<resources, creation>>
     \/ Fault /\ Return /\ NewResource(blind) /\ UNCHANGED late
     \/ Fault /\ Return /\ late' = late + 1 /\ UNCHANGED <<resources, nextRes, extra>>
  /\ UNCHANGED <<route, label, targets>> /\ Own

(* The resource-id label is patched, whatever it is by now. *)
SaveLabel ==
  /\ pc = "label"
  /\ \/ /\ route.exists
        /\ route' = WithLabel(route, res) /\ snap' = route' /\ pc' = "listTargets"
        /\ UNCHANGED <<site, res, blind, todo, stale, faults>>
     \/ NotFound
     \/ Fault /\ Return /\ UNCHANGED route
     \/ Fault /\ Return /\ route.exists /\ route' = WithLabel(route, res)
  /\ UNCHANGED <<label, pangolin>> /\ Own

(* DeleteResource, of the resource and its targets; a 404 is as good. *)
Deleted(id) == resources' = resources \ {id} /\ targets' = targets \ TargetsOf(id)

DeleteResource(from, to) ==
  /\ pc = from
  /\ \/ /\ Deleted(snap.label) /\ pc' = to
        /\ UNCHANGED <<route, label, creation, local, faults>>
     \/ Refused
     \/ Deleted(snap.label) /\ Fault /\ Return /\ UNCHANGED <<route, label, creation>>
  /\ Own

(* No parent can be used: deleteTCPPangolinResource. *)
Detach == DeleteResource("detach", "unlabel")

Unlabel ==
  /\ pc = "unlabel"
  /\ \/ route.exists /\ route' = WithLabel(route, NoResource) /\ Return /\ UNCHANGED faults
     \/ NotFound
     \/ Fault /\ Return /\ UNCHANGED route
     \/ Fault /\ Return /\ route.exists /\ route' = WithLabel(route, NoResource)
  /\ UNCHANGED <<label, pangolin>> /\ Own

(* handleTCPDelete. *)
DeleteOwn == DeleteResource("deleteResource", "dropFinalizer")

DropFinalizer ==
  /\ pc = "dropFinalizer"
  /\ \/ route.exists /\ route' = Gone /\ Return /\ UNCHANGED faults
     \/ NotFound
     \/ Fault /\ Return /\ UNCHANGED route
     \/ Fault /\ Return /\ route.exists /\ route' = Gone
  /\ UNCHANGED <<label, pangolin>> /\ Own

-----------------------------------------------------------------------------
(* reconcileTCPTargets. *)

(* A listed target that is as the copy of the route wants it. *)
MatchesDisabled(t) == t.ep \in snap.want /\ t.site = site

Matches(t) == t.ep \in snap.want /\ t.site = site /\ t.on

ListTargets ==
  /\ pc = "listTargets"
  /\ \/ /\ res \in resources
        /\ todo'  = snap.want \ {t.ep : t \in {u \in TargetsOf(res) : Matches(u)}}
        /\ stale' = {t \in TargetsOf(res) : ~Matches(t)}
        /\ pc' = "targets"
        /\ UNCHANGED <<route, label, pangolin, snap, site, res, blind, faults>>
     \/ /\ res \notin resources /\ Return
        /\ UNCHANGED <<route, label, pangolin, faults>>
     \/ Refused
  /\ Own

(* Missing targets are made, in any order; Pangolin refuses one on a       *)
(* resource or on a site that is gone.                                     *)
CreateTarget ==
  /\ pc = "targets"
  /\ \E e \in todo :
       LET possible == res \in resources /\ site = live
           more == targets' = targets \cup {TargetOf(res, e, site)} IN
       \/ /\ possible /\ more /\ todo' = todo \ {e}
          /\ UNCHANGED <<pc, snap, site, res, blind, stale, faults>>
       \/ /\ site # live /\ pc' = "clearLabel"
          /\ UNCHANGED <<targets, local, faults>>
       \/ res \notin resources /\ Return /\ UNCHANGED <<targets, faults>>
       \/ Fault /\ Return /\ UNCHANGED targets
       \/ Fault /\ Return /\ possible /\ more
  /\ UNCHANGED <<route, label, resources, creation>> /\ Own

(* Then the others are deleted; an error, a 404 included, ends the job. *)
SweepFirst ==
  /\ pc = "targets"
  /\ \E t \in stale :
       /\ t \in targets /\ targets' = targets \ {t} /\ stale' = stale \ {t}
       /\ UNCHANGED <<pc, snap, site, res, blind, todo, faults>>
  /\ UNCHANGED <<route, label, resources, creation>> /\ Own

Sweep ==
  /\ pc = "targets" /\ todo = {}
  /\ \E t \in stale :
       \/ /\ t \in targets /\ targets' = targets \ {t} /\ stale' = stale \ {t}
          /\ UNCHANGED <<pc, snap, site, res, blind, todo, faults>>
       \/ t \notin targets /\ Return /\ UNCHANGED <<targets, faults>>
       \/ Fault /\ Return /\ targets' \in {targets, targets \ {t}}
  /\ UNCHANGED <<route, label, resources, creation>> /\ Own

TargetsDone ==
  /\ pc = "targets" /\ todo = {} /\ stale = {} /\ Return
  /\ UNCHANGED <<route, label, pangolin, faults>> /\ Own

(* The site is gone: the Gateway's label is cleared; an error is logged. *)
ClearLabel ==
  /\ pc = "clearLabel" /\ Return
  /\ \/ label' = NoSite /\ UNCHANGED faults
     \/ Fault /\ UNCHANGED label
  /\ UNCHANGED <<route, pangolin>> /\ Own

Reconcile ==
  \/ Read \/ AddFinalizer \/ Adopt \/ Verify \/ Create \/ SaveLabel
  \/ Detach \/ Unlabel \/ DeleteOwn \/ DropFinalizer
  \/ ListTargets \/ CreateTarget \/ Sweep \/ TargetsDone \/ ClearLabel

-----------------------------------------------------------------------------
(* The environment. *)

(* The route's parentRefs or rules change, or what a Service resolves to. *)
Edit ==
  /\ edits > 0 /\ edits' = edits - 1
  /\ route.exists /\ ~route.deleting
  /\ \E a \in BOOLEAN, w \in SUBSET Endpoints : route' = WithSpec(route, a, w)
  /\ UNCHANGED <<caches, label, live, pangolin, pc, local, faults, kills>>

UserDeletes ==
  /\ route.exists /\ ~route.deleting
  /\ route' = IF route.finalizer THEN WithDeletion(route) ELSE Gone
  /\ UNCHANGED <<caches, label, live, pangolin, pc, local, edits, faults, kills>>

(* The informers deliver the latest objects, each in its own time. *)
RouteSync ==
  /\ cache # route /\ cache' = route
  /\ UNCHANGED <<route, seen, label, live, pangolin, pc, local, edits, faults, kills>>

GatewaySync ==
  /\ seen # label /\ seen' = label
  /\ UNCHANGED <<route, cache, label, live, pangolin, pc, local, edits, faults, kills>>

(* What GatewaySite promises: a Gateway without a live site gets one.  Only *)
(* losses make it replace a site, so they number it.                       *)
GatewayReconciles ==
  /\ label # live \/ live = NoSite
  /\ live' = IF live = NoSite THEN MaxKills - kills + 1 ELSE live
  /\ label' = live'
  /\ UNCHANGED <<route, caches, pangolin, pc, local, edits, faults, kills>>

(* Someone deletes the site, a resource or a target, or disables a target. *)
Outsider ==
  /\ kills > 0 /\ kills' = kills - 1
  /\ \/ live # NoSite /\ live' = NoSite /\ targets' = {} /\ UNCHANGED resources
     \/ \E id \in resources : Deleted(id) /\ UNCHANGED live
     \/ \E t \in targets :
          /\ targets' \in {targets \ {t}, (targets \ {t}) \cup {[t EXCEPT !.on = FALSE]}}
          /\ UNCHANGED <<resources, live>>
  /\ UNCHANGED <<route, caches, label, creation, pc, local, edits, faults>>

(* A CreateResource that the client has given up takes effect. *)
LateCreate ==
  /\ late > 0 /\ late' = late - 1
  /\ NewResource(TRUE)
  /\ UNCHANGED <<route, caches, label, live, targets, pc, local, edits, faults, kills>>

(* The controller restarts; its caches are listed afresh. *)
Crash ==
  /\ pc # "idle"
  /\ Fault /\ Return
  /\ cache' = route /\ seen' = label
  /\ UNCHANGED <<route, label, live, pangolin, edits, kills>>

Environment ==
  \/ Edit \/ UserDeletes \/ RouteSync \/ GatewaySync \/ GatewayReconciles
  \/ Outsider \/ LateCreate \/ Crash

Next == Reconcile \/ Environment

(* A job goes on, and another follows: after five minutes on success,      *)
(* sooner when no parent can be used, with backoff on an error.  Caches    *)
(* catch up, and the Gateway reconciler does its part.                     *)
Fairness ==
  /\ WF_vars(Reconcile)
  /\ WF_vars(RouteSync) /\ WF_vars(GatewaySync)
  /\ WF_vars(GatewayReconciles)

Spec == Init /\ [][Next]_vars
FairSpec == Spec /\ Fairness

-----------------------------------------------------------------------------
(* Every variable stays in its range. *)
TypeOK ==
  /\ route \in Route /\ cache \in Route /\ snap \in Route
  /\ label \in Nat /\ seen \in Nat /\ live \in Nat /\ site \in Nat
  /\ resources \subseteq Nat /\ extra \subseteq Nat
  /\ nextRes \in Nat \ {0} /\ late \in Nat /\ res \in Nat
  /\ targets \subseteq Target /\ stale \subseteq Target
  /\ todo \subseteq Endpoints /\ blind \in BOOLEAN
  /\ pc \in {"idle", "addFinalizer", "adopt", "verify", "create", "label",
             "detach", "unlabel", "deleteResource", "dropFinalizer",
             "listTargets", "targets", "clearLabel"}
  /\ edits \in 0 .. MaxEdits /\ faults \in 0 .. MaxFaults /\ kills \in 0 .. MaxKills

(* A lost label, a crash or a stale copy never leads to a second resource: *)
(* only a creation that took effect late, or one after the list of         *)
(* resources had failed, can make one.                                     *)
AtMostOneResource == \A a, b \in resources \ extra : a = b

(* A route that has a resource cannot go without handleTCPDelete: the      *)
(* finalizer is there before the first resource, and as long as the route. *)
FinalizerCoversResource == (route.exists /\ resources # {}) => route.finalizer

(* Where the route stands, for the promise: see OwnerPromise. *)
Phase(o) ==
  IF ~o.exists THEN "gone"
  ELSE IF o.deleting THEN "doomed"
  ELSE IF o.finalizer THEN "kept" ELSE "new"

(* The reconciler keeps at most one resource for the route, and only under *)
(* its finalizer; a detached route may lose it.                            *)
Promise == INSTANCE OwnerPromise WITH
  MayLetGo <- TRUE, object <- Phase(route), things <- resources, spare <- extra, pending <- late,
  losses <- kills

ImplementsPromise == Promise!PSpec

(* Make before break: a target is swept only when each endpoint that the   *)
(* reconciler's copy wants has its target, so that connections always find *)
(* one; unless someone else has taken it away.                             *)
MakeBeforeBreak ==
  [][Sweep /\ kills = MaxKills =>
       \A e \in snap.want : TargetOf(res, e, site) \in targets']_vars

(* The parts of the inductive invariant behind the safety properties.      *)
(* Unless it is blind, a creation starts when none could have been found.  *)
CreatesOnlyWhenNone == pc = "create" /\ ~blind => resources \subseteq extra

(* A resource exists, or may yet come to exist. *)
MayHaveResource == resources # {} \/ late > 0

(* Once the reconciler is past AddFinalizer, or a resource exists or may   *)
(* come to exist, or the cache shows the finalizer, the API server has it. *)
Covered ==
  (/\ route.exists
   /\ \/ pc \notin {"idle", "addFinalizer", "detach", "unlabel"}
      \/ cache.finalizer \/ MayHaveResource) => route.finalizer

(* While targets are made and swept: no stale target is a wanted one, and  *)
(* those wanted that are not to be made are there.                         *)
SweepIsSafe ==
  pc = "targets" =>
    /\ \A t \in stale : ~Matches(t)
    /\ kills = MaxKills => \A e \in snap.want \ todo : TargetOf(res, e, site) \in targets

(* Ids are issued in order. *)
IdsIssued == \A id \in resources \cup extra : id < nextRes

(* Deletion is for ever: what the cache and the reconciler know of it holds *)
(* on the API server.                                                      *)
DeletionIsFinal ==
  (cache.deleting \/ pc \in {"deleteResource", "dropFinalizer"})
     => (~route.exists \/ route.deleting)

ResourceInv ==
  /\ TypeOK /\ IdsIssued /\ AtMostOneResource /\ CreatesOnlyWhenNone
  /\ Covered /\ DeletionIsFinal /\ SweepIsSafe

Alive == route.exists /\ ~route.deleting

(* The labelled resource is there, with exactly the wanted targets on the  *)
(* live site.                                                              *)
Served ==
  /\ route.label \in resources
  /\ TargetsOf(route.label) = {TargetOf(route.label, e, live) : e \in route.want}

(* A route that stays attached is served in the end, and stays so, with    *)
(* failing calls, crashes, lost sites, resources and targets before.       *)
RouteServed == <>[](Alive /\ route.attached) => <>[]Served

(* A route that stays detached has no target left in the end, unless a     *)
(* call failed or something was lost in Pangolin.                          *)
TrafficStopsUndisturbed ==
  <>[](Alive /\ ~route.attached)
    => <>[](targets = {} \/ faults < MaxFaults \/ kills < MaxKills)

(* A route that is being deleted goes. *)
DeletionCompletes == route.deleting ~> ~route.exists
=============================================================================
