------------------------------ MODULE GRPCRoute ------------------------------
(***************************************************************************)
(* One GRPCRoute, its Pangolin resource and targets, and its status:       *)
(* pkg/controller/grpcroute_controller.go.  updateRouteStatus of the       *)
(* HTTPRoute reconciler (httproute_status.go) is the same function.        *)
(*                                                                         *)
(* As in TCPRoute, the reconciler is one process, each of its calls is a   *)
(* step, it reads from caches that lag behind the API server, and the      *)
(* answer to a patch replaces its copy.  Unlike a TCPRoute, a GRPCRoute    *)
(* creates its first resource without looking for one of its name, never   *)
(* deletes a target, and keeps its resource when it has no parent.         *)
(*                                                                         *)
(* A status update carries the resource version of the copy it was made    *)
(* from: the API server refuses it unless that copy, cached, is the        *)
(* current object.  The generation counts the versions of the spec.        *)
(*                                                                         *)
(* Whether Pangolin refuses (409) a second resource of a name is not for   *)
(* this code to say: refusing is either, from the start.  Left out: the    *)
(* choice of a domain, which is fixed per route, the enabled flag of a     *)
(* target and the name of a resource, which are not compared or not        *)
(* corrected, and Services without an address.                             *)
(***************************************************************************)
EXTENDS Integers, FiniteSets

CONSTANTS
  Endpoints,  \* addresses and ports of backends
  FirstWant,  \* the endpoints the route starts with
  MaxChanges, \* changes of the route's spec, and losses in Pangolin, in a run
  MaxFaults   \* calls that fail or lose their answer, crashes, and jobs that
              \* start from a cache that lags behind, in a run

ASSUME GRPCAssumption ==
  /\ FirstWant \subseteq Endpoints
  /\ MaxChanges \in Nat /\ MaxFaults \in Nat

VARIABLES
  route,      \* the route, as the API server has it
  cache,      \* the route, as the informer cache has it
  label,      \* the Gateway's site-id label on the API server
  seen,       \* that label in the cache
  live,       \* the Gateway's site in Pangolin
  refusing,   \* Pangolin refuses a second resource of one name
  resources,  \* ids of the resources in Pangolin
  nextRes,    \* the id of the next resource
  late,       \* CreateResource calls given up by the client, on their way
  extra,      \* resources made by such calls, or without a look at the list
  targets,    \* the targets in Pangolin
  pc,         \* the next call of the reconciler
  snap,       \* its copy of the route
  site,       \* the site of its copy of the Gateway
  res,        \* the resource it works on
  todo,       \* the endpoints it will make a target for
  accepted,   \* the verdict it will write into the status
  changes, faults   \* budgets

vars == <<route, cache, label, seen, live, refusing, resources, nextRes, late, extra,
          targets, pc, snap, site, res, todo, accepted, changes, faults>>

caches   == <<cache, seen>>
creation == <<nextRes, late, extra>>
pangolin == <<resources, nextRes, late, extra, targets>>
local    == <<snap, site, res, todo, accepted>>

NoSite     == 0
NoResource == 0    \* no resource-id label

Verdicts == {"unknown", "accepted", "rejected"}

Route == [exists : BOOLEAN, deleting : BOOLEAN, finalizer : BOOLEAN, label : Nat,
          attached : BOOLEAN, want : SUBSET Endpoints, generation : Nat,
          verdict : Verdicts, observed : Nat]

Gone == [exists |-> FALSE, deleting |-> FALSE, finalizer |-> FALSE, label |-> NoResource,
         attached |-> FALSE, want |-> {}, generation |-> 0,
         verdict |-> "unknown", observed |-> 0]

NewRoute == [exists |-> TRUE, deleting |-> FALSE, finalizer |-> FALSE, label |-> NoResource,
             attached |-> TRUE, want |-> FirstWant, generation |-> 1,
             verdict |-> "unknown", observed |-> 0]

(* The API server's changes to a route. *)
WithFinalizer(o)  == [o EXCEPT !.finalizer = TRUE]
WithDeletion(o)   == [o EXCEPT !.deleting = TRUE, !.generation = @ + 1]
WithLabel(o, n)   == [o EXCEPT !.label = n]
WithSpec(o, a, w) == [o EXCEPT !.attached = a, !.want = w, !.generation = @ + 1]
WithStatus(o, v, g) == [o EXCEPT !.verdict = v, !.observed = g]

Target == [res : Nat, ep : Endpoints, site : Nat]

TargetOf(id, e, s) == [res |-> id, ep |-> e, site |-> s]

TargetsOf(id) == {t \in targets : t.res = id}

Init ==
  /\ route = NewRoute /\ cache = NewRoute
  /\ label = 1 /\ seen = 1 /\ live = 1
  /\ refusing \in BOOLEAN
  /\ resources = {} /\ nextRes = 1 /\ late = 0 /\ extra = {} /\ targets = {}
  /\ pc = "idle" /\ snap = Gone /\ site = NoSite /\ res = NoResource
  /\ todo = {} /\ accepted = FALSE
  /\ changes = MaxChanges /\ faults = MaxFaults

-----------------------------------------------------------------------------
(* An operator whose name extends that of an operation is that operation   *)
(* with a mistake in it; no specification uses it.                         *)

Return ==
  /\ pc' = "idle" /\ snap' = Gone /\ site' = NoSite /\ res' = NoResource
  /\ todo' = {} /\ accepted' = FALSE

(* The job ends with a status update, which needs nothing of the copy; its *)
(* generation is kept to say what the verdict is about.                    *)
Conclude(verdict) ==
  /\ pc' = "status" /\ accepted' = verdict
  /\ snap' = [Gone EXCEPT !.generation = snap.generation] /\ site' = NoSite /\ res' = NoResource /\ todo' = {}

Fault == faults > 0 /\ faults' = faults - 1

(* A step that leaves caches and environment alone. *)
Own == UNCHANGED <<caches, live, refusing, changes>>

NotFound == ~route.exists /\ Return /\ UNCHANGED <<route, faults>>

(* A patch of the route, and what follows its success; without an answer   *)
(* the job ends, and the patch may have been applied.                      *)
Patch(changed, then) ==
  /\ \/ route.exists /\ route' = changed /\ then /\ UNCHANGED faults
     \/ NotFound
     \/ Fault /\ Return /\ UNCHANGED route
     \/ Fault /\ Return /\ route.exists /\ route' = changed
  /\ UNCHANGED <<label, pangolin>> /\ Own

(* A call of Pangolin that had no effect and returned an error. *)
Refused == Fault /\ Conclude(FALSE) /\ UNCHANGED <<route, label, pangolin>>

-----------------------------------------------------------------------------
(* Reconcile and handleDelete. *)

DeleteEntryKeepingUnlabelled(o) ==
  IF ~o.finalizer \/ o.label = NoResource THEN "idle" ELSE "deleteResource"

DeleteEntry(o) ==
  IF ~o.finalizer THEN "idle"
  ELSE IF o.label # NoResource THEN "deleteResource" ELSE "dropFinalizer"

EntryWithoutFinalizer(o) == IF o.deleting THEN DeleteEntry(o) ELSE "gateway"

(* The first call made for a copy of the route. *)
Entry(o) ==
  IF o.deleting THEN DeleteEntry(o)
  ELSE IF ~o.finalizer THEN "addFinalizer" ELSE "gateway"

(* A job follows a timer of seconds or minutes, and the cache has caught up; *)
(* or an event or an error, and it may not have: such jobs are few.        *)
Read ==
  /\ pc = "idle" /\ cache.exists /\ Entry(cache) # "idle"
  /\ pc' = Entry(cache) /\ snap' = cache
  /\ (cache = route /\ UNCHANGED faults) \/ (cache # route /\ Fault)
  /\ UNCHANGED <<route, label, pangolin, site, res, todo, accepted>> /\ Own

AddFinalizer ==
  /\ pc = "addFinalizer"
  /\ Patch(WithFinalizer(route),
           /\ snap' = WithFinalizer(route) /\ pc' = "gateway"
           /\ UNCHANGED <<site, res, todo, accepted>>)

(* handleDelete: DeleteResource takes the targets along; a 404 is as good. *)
Deleted(id) == resources' = resources \ {id} /\ targets' = targets \ TargetsOf(id)

DeleteOwn ==
  /\ pc = "deleteResource"
  /\ \/ /\ Deleted(snap.label) /\ pc' = "dropFinalizer"
        /\ UNCHANGED <<creation, local, faults>>
     \/ Fault /\ Return /\ UNCHANGED pangolin
     \/ Deleted(snap.label) /\ Fault /\ Return /\ UNCHANGED creation
  /\ UNCHANGED <<route, label>> /\ Own

DropFinalizer == pc = "dropFinalizer" /\ Patch(Gone, Return)

-----------------------------------------------------------------------------
(* reconcileGRPCRoute. *)

(* Its first parent's Gateway, from the cache; without a parent nothing is *)
(* done, without a site the route waits.                                   *)
FindGateway ==
  /\ pc = "gateway"
  /\ \/ ~snap.attached /\ Return
     \/ snap.attached /\ seen = NoSite /\ Conclude(FALSE)
     \/ /\ snap.attached /\ seen # NoSite /\ site' = seen
        /\ pc' = IF snap.label = NoResource THEN "create" ELSE "verify"
        /\ UNCHANGED <<snap, res, todo, accepted>>
  /\ UNCHANGED <<route, label, pangolin, faults>> /\ Own

VerifyTakingNil ==
  /\ pc = "verify"
  /\ \/ /\ IF snap.label \in resources
           THEN res' = snap.label /\ pc' = "listTargets"
           ELSE \/ \E id \in resources : res' = id /\ pc' = "label"
                \/ resources = {} /\ pc' = "label" /\ res' = -1
        /\ UNCHANGED <<route, label, pangolin, snap, site, todo, accepted, faults>>
     \/ Refused
  /\ Own

VerifyById ==
  /\ pc = "verify"
  /\ \/ /\ IF snap.label \in resources
           THEN res' = snap.label /\ pc' = "listTargets"
           ELSE pc' = "create" /\ UNCHANGED res
        /\ UNCHANGED <<route, label, pangolin, snap, site, todo, accepted, faults>>
     \/ Refused
  /\ Own

VerifyTrustingLabel ==
  /\ pc = "verify"
  /\ res' = snap.label /\ pc' = "listTargets"
  /\ UNCHANGED <<route, label, pangolin, snap, site, todo, accepted, faults>> /\ Own

(* verifyOrRecreateResource: the list is searched by id, then by name. *)
Verify ==
  /\ pc = "verify"
  /\ \/ /\ IF snap.label \in resources
           THEN res' = snap.label /\ pc' = "listTargets"
           ELSE \/ \E id \in resources : res' = id /\ pc' = "label"
                \/ resources = {} /\ pc' = "create" /\ UNCHANGED res
        /\ UNCHANGED <<route, label, pangolin, snap, site, todo, accepted, faults>>
     \/ Refused
  /\ Own

(* Pangolin makes the resource. *)
NewResource(unsearched) ==
  /\ ~(refusing /\ resources # {})
  /\ resources' = resources \cup {nextRes} /\ nextRes' = nextRes + 1
  /\ extra' = IF unsearched THEN extra \cup {nextRes} ELSE extra

(* createPangolinResource, called for a route that has no label, unseen    *)
(* what the list would show, or by recreateResource.                       *)
Unsearched == snap.label = NoResource

Create ==
  /\ pc = "create"
  /\ \/ /\ NewResource(Unsearched)
        /\ res' = nextRes /\ pc' = "label"
        /\ UNCHANGED <<late, snap, site, todo, accepted, faults>>
     \/ refusing /\ resources # {} /\ Conclude(FALSE) /\ UNCHANGED <<resources, creation, faults>>
     \/ Fault /\ Conclude(FALSE) /\ UNCHANGED <<resources, creation>>
     \/ Fault /\ Conclude(FALSE) /\ NewResource(Unsearched) /\ UNCHANGED late
     \/ Fault /\ Conclude(FALSE) /\ late' = late + 1 /\ UNCHANGED <<resources, nextRes, extra>>
  /\ UNCHANGED <<route, label, targets>> /\ Own

(* The label of a new, recreated or adopted resource is patched, whatever  *)
(* it is by now.  Only in the first case does a failure go unreported.     *)
SaveLabel ==
  /\ pc = "label"
  /\ \/ /\ route.exists /\ route' = WithLabel(route, res)
        /\ snap' = route' /\ pc' = "listTargets"
        /\ UNCHANGED <<site, res, todo, accepted, faults>>
     \/ /\ \/ ~route.exists /\ UNCHANGED <<route, faults>>
           \/ Fault /\ UNCHANGED route
           \/ Fault /\ route.exists /\ route' = WithLabel(route, res)
        /\ IF Unsearched THEN Return ELSE Conclude(FALSE)
  /\ UNCHANGED <<label, pangolin>> /\ Own

-----------------------------------------------------------------------------
(* reconcileTargets. *)

(* A listed target that serves an endpoint of the copy. *)
Matches(t) == t.ep \in snap.want /\ t.site = site

ListTargets ==
  /\ pc = "listTargets"
  /\ \/ /\ snap.want # {} /\ res \in resources
        /\ todo' = snap.want \ {t.ep : t \in {u \in TargetsOf(res) : Matches(u)}}
        /\ pc' = "targets"
        /\ UNCHANGED <<snap, site, res, accepted, faults>>
     \/ (snap.want = {} \/ res \notin resources) /\ Conclude(FALSE) /\ UNCHANGED faults
     \/ Fault /\ Conclude(FALSE)
  /\ UNCHANGED <<route, label, pangolin>> /\ Own

(* Missing targets are made; Pangolin refuses one on a resource or on a    *)
(* site that is gone.                                                      *)
CreateTarget ==
  /\ pc = "targets"
  /\ \E e \in todo :
       LET possible == res \in resources /\ site = live
           more == targets' = targets \cup {TargetOf(res, e, site)} IN
       \/ /\ possible /\ more /\ todo' = todo \ {e}
          /\ UNCHANGED <<pc, snap, site, res, accepted, faults>>
       \/ site # live /\ pc' = "clearLabel" /\ UNCHANGED <<targets, local, faults>>
       \/ res \notin resources /\ Conclude(FALSE) /\ UNCHANGED <<targets, faults>>
       \/ Fault /\ Conclude(FALSE) /\ UNCHANGED targets
       \/ Fault /\ Conclude(FALSE) /\ possible /\ more
  /\ UNCHANGED <<route, label, resources, creation>> /\ Own

TargetsDone ==
  /\ pc = "targets" /\ todo = {} /\ Conclude(TRUE)
  /\ UNCHANGED <<route, label, pangolin, faults>> /\ Own

(* The site is gone: the Gateway's label is cleared; an error is logged. *)
ClearLabel ==
  /\ pc = "clearLabel" /\ Conclude(FALSE)
  /\ \/ label' = NoSite /\ UNCHANGED faults
     \/ Fault /\ UNCHANGED label
  /\ UNCHANGED <<route, pangolin>> /\ Own

-----------------------------------------------------------------------------
(* updateRouteStatus: the verdict is written into the cached object, with  *)
(* the generation of that object, and sent with its version.  On a conflict *)
(* it is done again on what the cache has by then, five times in about 50ms *)
(* and then not at all.                                                    *)
Verdict == IF accepted THEN "accepted" ELSE "rejected"

Reported(o) == WithStatus(o, Verdict, o.generation)

WriteStatusOnce ==
  /\ pc = "status"
  /\ Return
  /\ IF cache = route /\ route.exists /\ route.verdict = "unknown"
     THEN route' = Reported(cache) ELSE UNCHANGED route
  /\ UNCHANGED <<label, pangolin, faults>> /\ Own

WriteStatus ==
  /\ pc = "status"
  /\ Return
  /\ \/ cache = route /\ route.exists /\ route' = Reported(cache) /\ UNCHANGED faults
     \/ (cache # route \/ ~route.exists) /\ UNCHANGED <<route, faults>>
     \/ Fault /\ UNCHANGED route
     \/ Fault /\ cache = route /\ route.exists /\ route' = Reported(cache)
  /\ UNCHANGED <<label, pangolin>> /\ Own

Reconcile ==
  \/ Read \/ AddFinalizer \/ DeleteOwn \/ DropFinalizer
  \/ FindGateway \/ Verify \/ Create \/ SaveLabel
  \/ ListTargets \/ CreateTarget \/ TargetsDone \/ ClearLabel \/ WriteStatus

-----------------------------------------------------------------------------
(* The environment. *)

(* The user changes parentRefs or rules. *)
Edit ==
  /\ changes > 0 /\ changes' = changes - 1
  /\ route.exists /\ ~route.deleting
  /\ \E a \in BOOLEAN, w \in SUBSET Endpoints : route' = WithSpec(route, a, w)
  /\ UNCHANGED <<caches, label, live, refusing, pangolin, pc, local, faults>>

UserDeletes ==
  /\ route.exists /\ ~route.deleting
  /\ route' = IF route.finalizer THEN WithDeletion(route) ELSE Gone
  /\ UNCHANGED <<caches, label, live, refusing, pangolin, pc, local, changes, faults>>

(* The informers deliver the latest objects, each in its own time. *)
RouteSync ==
  /\ cache # route /\ cache' = route
  /\ UNCHANGED <<route, seen, label, live, refusing, pangolin, pc, local, changes, faults>>

GatewaySync ==
  /\ seen # label /\ seen' = label
  /\ UNCHANGED <<route, cache, label, live, refusing, pangolin, pc, local, changes, faults>>

(* What GatewaySite promises: a Gateway without a live site gets one.  Only *)
(* losses make it replace a site, so they number it.                       *)
GatewayReconciles ==
  /\ label # live \/ live = NoSite
  /\ live' = IF live = NoSite THEN MaxChanges - changes + 1 ELSE live
  /\ label' = live'
  /\ UNCHANGED <<route, caches, refusing, pangolin, pc, local, changes, faults>>

(* Someone deletes the site, a resource or a target. *)
Outsider ==
  /\ changes > 0 /\ changes' = changes - 1
  /\ \/ live # NoSite /\ live' = NoSite /\ targets' = {} /\ UNCHANGED resources
     \/ \E id \in resources : Deleted(id) /\ UNCHANGED live
     \/ \E t \in targets : targets' = targets \ {t} /\ UNCHANGED <<resources, live>>
  /\ UNCHANGED <<route, caches, label, refusing, creation, pc, local, faults>>

(* A CreateResource that the client has given up takes effect, or fails. *)
LateCreate ==
  /\ late > 0 /\ late' = late - 1
  /\ \/ NewResource(TRUE)
     \/ refusing /\ resources # {} /\ UNCHANGED <<resources, nextRes, extra>>
  /\ UNCHANGED <<route, caches, label, live, refusing, targets, pc, local, changes, faults>>

(* The controller restarts; its caches are listed afresh. *)
Crash ==
  /\ pc # "idle"
  /\ Fault /\ Return
  /\ cache' = route /\ seen' = label
  /\ UNCHANGED <<route, label, live, refusing, pangolin, changes>>

Environment ==
  \/ Edit \/ UserDeletes \/ RouteSync \/ GatewaySync \/ GatewayReconciles
  \/ Outsider \/ LateCreate \/ Crash

Next == Reconcile \/ Environment

(* A job goes on, and another follows: after five minutes on success, after *)
(* ten or thirty seconds while something is missing, with backoff on an    *)
(* error.  Caches catch up, and the Gateway reconciler does its part.      *)
Fairness ==
  /\ WF_vars(Reconcile)
  /\ WF_vars(RouteSync) /\ WF_vars(GatewaySync)
  /\ WF_vars(GatewayReconciles)

Spec == Init /\ [][Next]_vars
FairSpec == Spec /\ Fairness

-----------------------------------------------------------------------------
(* Every variable stays in its range. *)
TypeOK ==
  /\ route \in Route /\ cache \in Route /\ snap \in Route
  /\ label \in Nat /\ seen \in Nat /\ live \in Nat /\ site \in Nat
  /\ refusing \in BOOLEAN /\ accepted \in BOOLEAN
  /\ resources \subseteq Nat /\ extra \subseteq Nat
  /\ nextRes \in Nat \ {0} /\ late \in Nat /\ res \in Nat
  /\ targets \subseteq Target /\ todo \subseteq Endpoints
  /\ pc \in {"idle", "addFinalizer", "gateway", "create", "verify", "label",
             "listTargets", "targets", "clearLabel", "status",
             "deleteResource", "dropFinalizer"}
  /\ changes \in 0 .. MaxChanges /\ faults \in 0 .. MaxFaults

(* Recreation makes no second resource: of those made after a look at the  *)
(* list there is never more than one, however stale the label that led to  *)
(* them.  A first creation, which looks at nothing, may make another.      *)
AtMostOneRecreated == \A a, b \in resources \ extra : a = b

(* A route that has a resource cannot go without handleDelete: the         *)
(* finalizer is there before the first resource, and as long as the route. *)
FinalizerCoversResource == (route.exists /\ resources # {}) => route.finalizer

(* Where the route stands, for the promise: see OwnerPromise. *)
Phase(o) ==
  IF ~o.exists THEN "gone"
  ELSE IF o.deleting THEN "doomed"
  ELSE IF o.finalizer THEN "kept" ELSE "new"

(* The reconciler keeps at most one resource for the route, first creations *)
(* apart, and only under its finalizer; it deletes none while it lives.    *)
Promise == INSTANCE OwnerPromise WITH
  MayLetGo <- FALSE, object <- Phase(route), things <- resources, spare <- extra, pending <- late,
  losses <- changes

ImplementsPromise == Promise!PSpec

(* A resource is recreated only after a search that found none.  No other  *)
(* resource can appear but a late one.                                     *)
RecreatesOnlyWhenNone ==
  (pc = "create" /\ ~Unsearched) => resources \subseteq extra

(* Calls that can be made for a route without the finalizer. *)
Early == {"idle", "addFinalizer"}

MayHaveResource == resources # {} \/ late > 0

(* The finalizer is there before anything that could need it, in the cache *)
(* as well.                                                                *)
Covered ==
  (route.exists /\ (pc \notin Early \/ cache.finalizer \/ MayHaveResource)) => route.finalizer

(* Ids are issued in order. *)
IdsIssued == \A id \in resources \cup extra : id < nextRes

(* Deletion is for ever: what the cache and the reconciler know of it holds *)
(* on the API server.                                                      *)
DeletionIsFinal ==
  (cache.deleting \/ pc \in {"deleteResource", "dropFinalizer"})
     => (~route.exists \/ route.deleting)

GRPCInv ==
  /\ TypeOK /\ IdsIssued /\ AtMostOneRecreated /\ RecreatesOnlyWhenNone
  /\ Covered /\ DeletionIsFinal

Alive == route.exists /\ ~route.deleting

(* The labelled resource is there, with a target on the live site for each *)
(* wanted endpoint.  Targets for others are never removed.                 *)
Served ==
  /\ route.want # {}
  /\ route.label \in resources
  /\ \A e \in route.want : TargetOf(route.label, e, live) \in targets

(* A route that keeps a parent and a backend is served in the end, if      *)
(* Pangolin accepts a second resource of its name, or no call has failed.  *)
RouteServedUndisturbed ==
  <>[](Alive /\ route.attached /\ route.want # {})
    => <>[](Served \/ (refusing /\ faults < MaxFaults))

(* The status is right in the end: it is about the current spec and says   *)
(* accepted exactly if the route is served, even while creation of the     *)
(* resource fails for ever.  Updates are lost in conflicts on the way.     *)
StatusSettles ==
  <>[](Alive /\ route.attached)
    => <>[]( /\ route.observed = route.generation
             /\ route.verdict = IF Served THEN "accepted" ELSE "rejected")

(* A route that is being deleted goes. *)
DeletionCompletes == route.deleting ~> ~route.exists
=============================================================================
