-------------------------- MODULE TCPRoute_proofs --------------------------
(***************************************************************************)
(* Theorems about TCPRoute, for every set of endpoints and every number of *)
(* edits, faults and losses.                                               *)
(***************************************************************************)
EXTENDS TCPRoute, TLAPS

(* The API server's changes make a route of a route. *)
LEMMA RouteClosed ==
  ASSUME NEW o \in Route, NEW n \in Nat, NEW a \in BOOLEAN, NEW w \in SUBSET Endpoints
  PROVE  /\ WithFinalizer(o) \in Route /\ WithDeletion(o) \in Route
         /\ WithLabel(o, n) \in Route /\ WithSpec(o, a, w) \in Route
BY DEF WithFinalizer, WithDeletion, WithLabel, WithSpec, Route

(* What the API server's changes leave alone. *)
LEMMA RouteFields ==
  ASSUME NEW o \in Route, NEW n \in Nat, NEW a \in BOOLEAN, NEW w \in SUBSET Endpoints
  PROVE  /\ WithFinalizer(o).finalizer
         /\ WithFinalizer(o).exists = o.exists /\ WithFinalizer(o).deleting = o.deleting
         /\ WithDeletion(o).exists = o.exists /\ WithDeletion(o).finalizer = o.finalizer
         /\ WithDeletion(o).deleting
         /\ WithLabel(o, n).exists = o.exists /\ WithLabel(o, n).finalizer = o.finalizer
         /\ WithLabel(o, n).deleting = o.deleting
         /\ WithSpec(o, a, w).exists = o.exists /\ WithSpec(o, a, w).finalizer = o.finalizer
         /\ WithSpec(o, a, w).deleting = o.deleting
BY DEF WithFinalizer, WithDeletion, WithLabel, WithSpec, Route

(* The two routes the model starts from. *)
LEMMA RouteConstants ==
  /\ Gone \in Route /\ ~Gone.exists /\ ~Gone.finalizer
  /\ NewRoute \in Route /\ ~NewRoute.finalizer /\ NewRoute.exists /\ ~NewRoute.deleting
BY TCPAssumption DEF Gone, NewRoute, Route, NoResource

(* A fault uses up a part of the budget. *)
LEMMA FaultType ==
  ASSUME faults \in 0 .. MaxFaults, Fault
  PROVE  faults' \in 0 .. MaxFaults
BY TCPAssumption DEF Fault

(* A new resource gets the next id. *)
LEMMA NewResourceType ==
  ASSUME resources \subseteq Nat, extra \subseteq Nat, nextRes \in Nat \ {0},
         NEW more, NewResource(more)
  PROVE  /\ resources' = resources \cup {nextRes} /\ resources' \subseteq Nat
         /\ extra' \subseteq Nat /\ extra \subseteq extra' /\ extra' \subseteq extra \cup {nextRes}
         /\ more => nextRes \in extra'
         /\ nextRes' \in Nat \ {0}
BY DEF NewResource

(* The types of what a job remembers. *)
LocalType ==
  /\ snap \in Route /\ site \in Nat /\ res \in Nat /\ blind \in BOOLEAN
  /\ todo \subseteq Endpoints /\ stale \subseteq Target
  /\ pc \in {"idle", "addFinalizer", "adopt", "verify", "create", "label",
             "detach", "unlabel", "deleteResource", "dropFinalizer",
             "listTargets", "targets", "clearLabel"}

(* The types of the rest. *)
WorldType ==
  /\ route \in Route /\ cache \in Route
  /\ label \in Nat /\ seen \in Nat /\ live \in Nat
  /\ resources \subseteq Nat /\ extra \subseteq Nat
  /\ nextRes \in Nat \ {0} /\ late \in Nat
  /\ targets \subseteq Target
  /\ edits \in 0 .. MaxEdits /\ faults \in 0 .. MaxFaults /\ kills \in 0 .. MaxKills

(* Together they are the type invariant. *)
LEMMA TypeParts == TypeOK <=> (LocalType /\ WorldType)
BY DEF TypeOK, LocalType, WorldType

(* A job that ends forgets everything. *)
LEMMA ReturnType == Return => LocalType'
<1> SUFFICES ASSUME Return PROVE LocalType'
  OBVIOUS
<1>1. snap' \in Route
  BY RouteConstants DEF Return
<1>2. site' \in Nat /\ res' \in Nat
  BY DEF Return, NoSite, NoResource
<1>3. blind' \in BOOLEAN
  BY DEF Return
<1>4. todo' \subseteq Endpoints /\ stale' \subseteq Target
  BY DEF Return
<1>5. pc' = "idle"
  BY DEF Return
<1>6. QED
  BY <1>1, <1>2, <1>3, <1>4, <1>5 DEF LocalType

(* The entry point of a reconcile is one of its calls, or there is none;   *)
(* it touches Pangolin only if the copy has the finalizer or is detached,  *)
(* and ends a deletion only if the copy is being deleted.                  *)
LEMMA EntryType ==
  ASSUME NEW o \in Route
  PROVE  /\ Entry(o) \in {"idle", "addFinalizer", "adopt", "verify", "detach",
                          "deleteResource", "dropFinalizer"}
         /\ Entry(o) \notin {"idle", "addFinalizer", "detach"} => o.finalizer
         /\ Entry(o) \in {"deleteResource", "dropFinalizer"} => o.deleting
         /\ ResourceEntry(o) \in {"adopt", "verify"}
<1>1. o.deleting \in BOOLEAN /\ o.finalizer \in BOOLEAN
  BY DEF Route
<1>2. ResourceEntry(o) \in {"adopt", "verify"}
  BY DEF ResourceEntry
<1>3. CASE o.deleting /\ ~o.finalizer
  BY <1>1, <1>2, <1>3 DEF Entry, DeleteEntry
<1>4. CASE o.deleting /\ o.finalizer
  BY <1>1, <1>2, <1>4 DEF Entry, DeleteEntry
<1>5. CASE ~o.deleting /\ ~Managed(o)
  BY <1>1, <1>2, <1>5 DEF Entry, DetachEntry
<1>6. CASE ~o.deleting /\ Managed(o)
  BY <1>1, <1>2, <1>6 DEF Entry
<1>7. QED
  BY <1>1, <1>3, <1>4, <1>5, <1>6

(* A target for an endpoint is a target. *)
LEMMA TargetType ==
  ASSUME NEW id \in Nat, NEW e \in Endpoints, NEW s \in Nat
  PROVE  TargetOf(id, e, s) \in Target
BY DEF TargetOf, Target

(* The invariant holds initially. *)
LEMMA InitInv == Init => ResourceInv
<1> SUFFICES ASSUME Init PROVE ResourceInv
  OBVIOUS
<1> USE TCPAssumption DEF Init, NoSite, NoResource
<1>1. TypeOK
  <2>1. LocalType
    <3>1. blind \in BOOLEAN
      OBVIOUS
    <3>2. QED
      BY <3>1, RouteConstants DEF LocalType
  <2>2. WorldType
    BY RouteConstants DEF WorldType
  <2>3. QED
    BY <2>1, <2>2, TypeParts
<1>2. AtMostOneResource /\ CreatesOnlyWhenNone /\ SweepIsSafe
  BY DEF AtMostOneResource, CreatesOnlyWhenNone, SweepIsSafe
<1>3. Covered /\ DeletionIsFinal /\ IdsIssued
  BY RouteConstants DEF Covered, MayHaveResource, DeletionIsFinal, IdsIssued
<1>4. QED
  BY <1>1, <1>2, <1>3 DEF ResourceInv

(* Type correctness of one step: what a job remembers. *)
LEMMA StepLocalType == TypeOK /\ [Next]_vars => LocalType'
<1> SUFFICES ASSUME TypeOK, [Next]_vars PROVE LocalType'
  OBVIOUS
<1> USE DEF local, pangolin
<1>0. LocalType /\ WorldType
  BY TypeParts
<1>1. CASE Return
  BY <1>1, ReturnType
<1>2. CASE UNCHANGED <<pc, local>>
  BY <1>0, <1>2 DEF LocalType
<1>3. CASE Read
  BY <1>0, <1>3, EntryType DEF Read, LocalType, WorldType
<1>4. CASE AddFinalizer
  <2>1. CASE /\ route' = WithFinalizer(route) /\ snap' = route' /\ pc' = ResourceEntry(route)
             /\ UNCHANGED <<site, res, blind, todo, stale, faults>>
    <3>1. snap' \in Route
      BY <1>0, <2>1, RouteClosed, 0 \in Nat DEF WorldType
    <3>2. pc' \in {"adopt", "verify"}
      BY <1>0, <2>1, EntryType DEF WorldType
    <3>3. QED
      BY <1>0, <2>1, <3>1, <3>2 DEF LocalType
  <2>2. QED
    BY <1>1, <1>4, <2>1 DEF AddFinalizer, NotFound
<1>5. ASSUME ByName PROVE res' \in Nat /\ pc' \in {"label", "create"}
  BY <1>0, <1>5 DEF ByName, LocalType, WorldType
<1>6. CASE Adopt
  <2>1. UNCHANGED <<snap, site, todo, stale>>
    BY <1>6 DEF Adopt
  <2>2. blind' \in BOOLEAN
    BY <1>0, <1>6 DEF Adopt, LocalType
  <2>3. res' \in Nat /\ pc' \in {"label", "create"}
    BY <1>0, <1>5, <1>6 DEF Adopt, LocalType
  <2>4. QED
    BY <1>0, <2>1, <2>2, <2>3 DEF LocalType
<1>7. CASE Verify
  <2>1. CASE /\ IF snap.label \in resources
                THEN res' = snap.label /\ pc' = "listTargets"
                ELSE ByName
             /\ UNCHANGED <<snap, site, blind, todo, stale>>
    <3>1. res' \in Nat /\ pc' \in {"label", "create", "listTargets"}
      BY <1>0, <1>5, <2>1 DEF WorldType
    <3>2. QED
      BY <1>0, <2>1, <3>1 DEF LocalType
  <2>2. QED
    BY <1>1, <1>7, <2>1 DEF Verify, Refused
<1>8. CASE Create
  <2>1. CASE res' = nextRes /\ pc' = "label" /\ UNCHANGED <<late, snap, site, blind, todo, stale, faults>>
    <3>1. res' \in Nat
      BY <1>0, <2>1 DEF WorldType
    <3>2. QED
      BY <1>0, <2>1, <3>1 DEF LocalType
  <2>2. QED
    BY <1>1, <1>8, <2>1 DEF Create
<1>9. CASE SaveLabel
  <2>1. CASE /\ route' = WithLabel(route, res) /\ snap' = route' /\ pc' = "listTargets"
             /\ UNCHANGED <<site, res, blind, todo, stale, faults>>
    <3>1. snap' \in Route
      BY <1>0, <2>1, RouteClosed DEF LocalType, WorldType
    <3>2. QED
      BY <1>0, <2>1, <3>1 DEF LocalType
  <2>2. QED
    BY <1>1, <1>9, <2>1 DEF SaveLabel, NotFound
<1>10. CASE Detach \/ DeleteOwn
  <2>1. CASE pc' \in {"unlabel", "dropFinalizer"} /\ UNCHANGED local
    BY <1>0, <2>1 DEF LocalType
  <2>2. QED
    BY <1>1, <1>10, <2>1 DEF Detach, DeleteOwn, DeleteResource, Refused
<1>11. CASE Unlabel \/ DropFinalizer \/ TargetsDone \/ ClearLabel \/ Crash
  BY <1>1, <1>11 DEF Unlabel, DropFinalizer, TargetsDone, ClearLabel, Crash, NotFound
<1>12. CASE ListTargets
  <2>1. CASE /\ todo'  = snap.want \ {t.ep : t \in {u \in TargetsOf(res) : Matches(u)}}
             /\ stale' = {t \in TargetsOf(res) : ~Matches(t)}
             /\ pc' = "targets"
             /\ UNCHANGED <<snap, site, res, blind>>
    <3>1. snap.want \subseteq Endpoints
      BY <1>0 DEF LocalType, Route
    <3>2. TargetsOf(res) \subseteq Target
      BY <1>0 DEF TargetsOf, WorldType
    <3>3. todo' \subseteq Endpoints
      BY <2>1, <3>1
    <3>4. stale' \subseteq Target
      BY <2>1, <3>2
    <3>5. QED
      BY <1>0, <2>1, <3>3, <3>4 DEF LocalType
  <2>2. QED
    BY <1>1, <1>12, <2>1 DEF ListTargets, Refused
<1>13. CASE CreateTarget
  <2>1. CASE todo' \subseteq todo /\ UNCHANGED <<pc, snap, site, res, blind, stale>>
    BY <1>0, <2>1 DEF LocalType
  <2>2. CASE pc' = "clearLabel" /\ UNCHANGED local
    BY <1>0, <2>2 DEF LocalType
  <2>3. QED
    BY <1>1, <1>13, <2>1, <2>2 DEF CreateTarget
<1>14. CASE Sweep
  <2>1. CASE stale' \subseteq stale /\ UNCHANGED <<pc, snap, site, res, blind, todo>>
    BY <1>0, <2>1 DEF LocalType
  <2>2. QED
    BY <1>1, <1>14, <2>1 DEF Sweep
<1>15. CASE Edit \/ UserDeletes \/ RouteSync \/ GatewaySync
  BY <1>2, <1>15 DEF Edit, UserDeletes, RouteSync, GatewaySync
<1>16. CASE GatewayReconciles \/ Outsider \/ LateCreate
  BY <1>2, <1>16 DEF GatewayReconciles, Outsider, LateCreate
<1>17. CASE UNCHANGED vars
  BY <1>2, <1>17 DEF vars
<1>18. QED
  BY <1>3, <1>4, <1>6, <1>7, <1>8, <1>9, <1>10, <1>11, <1>12, <1>13, <1>14,
     <1>15, <1>16, <1>17
  DEF Next, Reconcile, Environment

(* Type correctness of one step: the API server, the caches and Pangolin. *)
LEMMA StepWorldType == TypeOK /\ [Next]_vars => WorldType'
<1> SUFFICES ASSUME TypeOK, [Next]_vars PROVE WorldType'
  OBVIOUS
<1> USE TCPAssumption DEF pangolin, creation, caches, Own
<1>0. LocalType /\ WorldType
  BY TypeParts
<1>1. ASSUME route' \in Route, UNCHANGED <<caches, label, live, pangolin, edits, kills>>,
             Fault \/ UNCHANGED faults
      PROVE  WorldType'
  BY <1>0, <1>1, FaultType DEF WorldType
<1>2. /\ route \in Route /\ Gone \in Route /\ WithFinalizer(route) \in Route
      /\ WithDeletion(route) \in Route
      /\ WithLabel(route, res) \in Route /\ WithLabel(route, NoResource) \in Route
  BY <1>0, RouteClosed, RouteConstants, 0 \in Nat DEF LocalType, WorldType, NoResource
<1>3. CASE Read \/ Adopt \/ Verify \/ TargetsDone \/ ListTargets
  BY <1>1, <1>2, <1>3 DEF Read, Adopt, Verify, TargetsDone, ListTargets, Refused
<1>4. CASE AddFinalizer \/ SaveLabel \/ Unlabel \/ DropFinalizer
  BY <1>1, <1>2, <1>4 DEF AddFinalizer, SaveLabel, Unlabel, DropFinalizer, NotFound
<1>5. ASSUME NEW more, NewResource(more), targets' = targets
      PROVE  /\ resources' \subseteq Nat /\ extra' \subseteq Nat /\ nextRes' \in Nat \ {0}
             /\ targets' \subseteq Target
  BY <1>0, <1>5, NewResourceType DEF WorldType
<1>6. CASE Create
  <2>1. late' \in Nat /\ targets' = targets
    BY <1>0, <1>6 DEF Create, WorldType
  <2>2. resources' \subseteq Nat /\ extra' \subseteq Nat /\ nextRes' \in Nat \ {0}
    BY <1>0, <1>5, <1>6 DEF Create, WorldType
  <2>3. faults' \in 0 .. MaxFaults
    BY <1>0, <1>6, FaultType DEF Create, WorldType
  <2>4. QED
    BY <1>0, <1>6, <2>1, <2>2, <2>3 DEF Create, WorldType
<1>7. CASE Detach \/ DeleteOwn
  <2>1. resources' \subseteq resources /\ targets' \subseteq targets
    BY <1>7 DEF Detach, DeleteOwn, DeleteResource, Deleted, Refused
  <2>2. Fault \/ UNCHANGED faults
    BY <1>7 DEF Detach, DeleteOwn, DeleteResource, Refused
  <2>3. UNCHANGED <<route, label, creation, caches, live, edits, kills>>
    BY <1>7 DEF Detach, DeleteOwn, DeleteResource, Refused
  <2>4. QED
    BY <1>0, <2>1, <2>2, <2>3, FaultType DEF WorldType
<1>8. CASE CreateTarget \/ Sweep
  <2>1. ASSUME NEW e \in todo PROVE TargetOf(res, e, site) \in Target
    BY <1>0, TargetType DEF LocalType
  <2>2. targets' \subseteq Target
    BY <1>0, <1>8, <2>1 DEF CreateTarget, Sweep, WorldType
  <2>3. Fault \/ UNCHANGED faults
    BY <1>8 DEF CreateTarget, Sweep
  <2>4. UNCHANGED <<route, label, resources, creation, caches, live, edits, kills>>
    BY <1>8 DEF CreateTarget, Sweep
  <2>5. QED
    BY <1>0, <2>2, <2>3, <2>4, FaultType DEF WorldType
<1>9. CASE ClearLabel
  BY <1>0, <1>9, FaultType DEF ClearLabel, WorldType, NoSite
<1>10. CASE Edit
  <2>1. route' \in Route
    BY <1>2, <1>10, RouteClosed, 0 \in Nat DEF Edit
  <2>2. edits' \in 0 .. MaxEdits
    BY <1>0, <1>10 DEF Edit, WorldType
  <2>3. QED
    BY <1>0, <1>10, <2>1, <2>2 DEF Edit, WorldType
<1>11. CASE UserDeletes
  BY <1>0, <1>2, <1>11 DEF UserDeletes, WorldType
<1>12. CASE RouteSync \/ GatewaySync
  BY <1>0, <1>12 DEF RouteSync, GatewaySync, WorldType
<1>13. CASE GatewayReconciles
  <2>1. MaxKills - kills + 1 \in Nat
    BY <1>0 DEF WorldType
  <2>2. QED
    BY <1>0, <1>13, <2>1 DEF GatewayReconciles, WorldType
<1>14. CASE Outsider
  <2>1. kills' \in 0 .. MaxKills
    BY <1>0, <1>14 DEF Outsider, WorldType
  <2>2. ASSUME NEW t \in Target PROVE [t EXCEPT !.on = FALSE] \in Target
    BY <2>2 DEF Target
  <2>3. resources' \subseteq resources /\ targets' \subseteq Target
    BY <1>0, <1>14, <2>2 DEF Outsider, Deleted, WorldType
  <2>4. live' \in Nat
    BY <1>0, <1>14 DEF Outsider, NoSite, WorldType
  <2>5. QED
    BY <1>0, <1>14, <2>1, <2>3, <2>4 DEF Outsider, WorldType
<1>15. CASE LateCreate
  <2>1. late' \in Nat
    BY <1>0, <1>15 DEF LateCreate, WorldType
  <2>2. QED
    BY <1>0, <1>5, <1>15, <2>1 DEF LateCreate, WorldType
<1>16. CASE Crash
  BY <1>0, <1>16, FaultType DEF Crash, WorldType
<1>17. CASE UNCHANGED vars
  BY <1>0, <1>17 DEF vars, WorldType
<1>18. QED
  BY <1>3, <1>4, <1>6, <1>7, <1>8, <1>9, <1>10, <1>11, <1>12, <1>13, <1>14,
     <1>15, <1>16, <1>17
  DEF Next, Reconcile, Environment

(* Type correctness of one step. *)
LEMMA StepType == TypeOK /\ [Next]_vars => TypeOK'
<1>1. (LocalType /\ WorldType)' => TypeOK'
  BY DEF TypeOK, LocalType, WorldType
<1>2. QED
  BY <1>1, StepLocalType, StepWorldType

(* How one step can change the resources: none is added, or the reconciler *)
(* adds one, or a late CreateResource does; and a creation that is not     *)
(* blind starts only when none is listed.                                  *)
ResourcesShrink ==
  /\ resources' \subseteq resources /\ extra' = extra /\ nextRes' = nextRes
  /\ pc' = "create" /\ ~blind' => (pc = "create" /\ ~blind) \/ resources = {}

ResourceAdded == pc = "create" /\ pc' # "create" /\ NewResource(blind)

LateStep == NewResource(TRUE) /\ pc' = pc /\ blind' = blind

(* Every step changes the resources in one of these ways. *)
LEMMA ResourcesStep ==
  ASSUME TypeOK, [Next]_vars
  PROVE  /\ ResourcesShrink \/ ResourceAdded \/ LateStep
         /\ MayHaveResource' => (MayHaveResource \/ pc = "create")
<1> USE DEF pangolin, local, creation, ResourcesShrink, ResourceAdded, LateStep, MayHaveResource
<1>0. 0 \in Nat /\ late \in Nat /\ route \in Route /\ cache \in Route
  BY DEF TypeOK
<1>1. CASE UNCHANGED <<resources, extra, nextRes, late>> /\ pc' # "create"
  BY <1>1
<1>2. CASE Read
  <2>1. pc' # "create"
    BY <1>0, <1>2, EntryType DEF Read
  <2>2. QED
    BY <1>1, <1>2, <2>1 DEF Read
<1>3. CASE AddFinalizer
  <2>1. pc' # "create"
    BY <1>0, <1>3, EntryType DEF AddFinalizer, NotFound, Return
  <2>2. QED
    BY <1>1, <1>3, <2>1 DEF AddFinalizer
<1>4. CASE Adopt
  BY <1>4 DEF Adopt, ByName
<1>5. CASE Verify
  BY <1>5 DEF Verify, ByName, Refused, Return
<1>6. CASE Create
  <2>1. CASE ResourceAdded /\ UNCHANGED late
    BY <2>1
  <2>2. CASE Return /\ UNCHANGED <<resources, extra, nextRes>>
    BY <1>6, <2>2 DEF Create, Return
  <2>3. QED
    BY <1>6, <2>1, <2>2 DEF Create, Return
<1>7. CASE SaveLabel \/ Unlabel \/ DropFinalizer \/ TargetsDone \/ ClearLabel
  <2>1. pc' # "create"
    BY <1>7 DEF SaveLabel, Unlabel, DropFinalizer, TargetsDone, ClearLabel, NotFound, Return
  <2>2. QED
    BY <1>1, <1>7, <2>1 DEF SaveLabel, Unlabel, DropFinalizer, TargetsDone, ClearLabel
<1>8. CASE Detach \/ DeleteOwn
  BY <1>8 DEF Detach, DeleteOwn, DeleteResource, Deleted, Refused, Return
<1>9. CASE ListTargets \/ CreateTarget \/ Sweep
  <2>1. pc' # "create"
    BY <1>9 DEF ListTargets, CreateTarget, Sweep, Refused, Return
  <2>2. QED
    BY <1>1, <1>9, <2>1 DEF ListTargets, CreateTarget, Sweep, Refused
<1>10. CASE Edit \/ UserDeletes \/ RouteSync \/ GatewaySync \/ GatewayReconciles
  <2>1. UNCHANGED <<resources, extra, nextRes, late, pc, blind>>
    BY <1>10 DEF Edit, UserDeletes, RouteSync, GatewaySync, GatewayReconciles
  <2>2. QED
    BY <2>1
<1>11. CASE Outsider
  BY <1>11 DEF Outsider, Deleted
<1>12. CASE LateCreate
  BY <1>12 DEF LateCreate
<1>13. CASE Crash
  BY <1>13 DEF Crash, Return
<1>14. CASE UNCHANGED vars
  BY <1>14 DEF vars
<1>15. QED
  BY <1>2, <1>3, <1>4, <1>5, <1>6, <1>7, <1>8, <1>9, <1>10, <1>11, <1>12, <1>13, <1>14
  DEF Next, Reconcile, Environment

(* The parts of the invariant that are about resources. *)
LEMMA StepResources ==
  ASSUME TypeOK, AtMostOneResource, CreatesOnlyWhenNone, [Next]_vars
  PROVE  AtMostOneResource' /\ CreatesOnlyWhenNone'
<1> USE DEF AtMostOneResource, CreatesOnlyWhenNone
<1>1. CASE ResourcesShrink
  BY <1>1 DEF ResourcesShrink
<1>2. CASE ResourceAdded
  <2>1. CASE blind
    <3>1. resources' \ extra' \subseteq resources \ extra
      BY <1>2, <2>1 DEF ResourceAdded, NewResource
    <3>2. QED
      BY <1>2, <3>1 DEF ResourceAdded
  <2>2. CASE ~blind
    <3>1. resources' \ extra' \subseteq {nextRes}
      BY <1>2, <2>2 DEF ResourceAdded, NewResource
    <3>2. QED
      BY <1>2, <3>1 DEF ResourceAdded
  <2>3. QED
    BY <2>1, <2>2
<1>3. CASE LateStep
  <2>1. /\ resources' = resources \cup {nextRes} /\ extra' = extra \cup {nextRes}
        /\ pc' = pc /\ blind' = blind
    BY <1>3 DEF LateStep, NewResource
  <2>2. QED
    BY <2>1
<1>4. QED
  BY <1>1, <1>2, <1>3, ResourcesStep

(* Ids stay issued in order. *)
LEMMA StepIds == TypeOK /\ IdsIssued /\ [Next]_vars => IdsIssued'
<1> SUFFICES ASSUME TypeOK, IdsIssued, [Next]_vars PROVE IdsIssued'
  OBVIOUS
<1>1. nextRes \in Nat /\ resources \subseteq Nat /\ extra \subseteq Nat
  BY DEF TypeOK
<1>2. CASE ResourcesShrink
  BY <1>2 DEF ResourcesShrink, IdsIssued
<1>3. ASSUME resources' \cup extra' \subseteq resources \cup extra \cup {nextRes},
             nextRes' = nextRes + 1
      PROVE  IdsIssued'
  <2>1. ASSUME NEW id \in resources' \cup extra' PROVE id < nextRes'
    <3>1. CASE id = nextRes
      BY <1>1, <1>3, <3>1
    <3>2. CASE id # nextRes
      <4>1. id \in resources \cup extra
        BY <1>3, <2>1, <3>2
      <4>2. id \in Nat /\ id < nextRes
        BY <1>1, <4>1 DEF IdsIssued
      <4>3. QED
        BY <1>1, <1>3, <4>2
    <3>3. QED
      BY <3>1, <3>2
  <2>2. QED
    BY <2>1 DEF IdsIssued
<1>4. CASE ResourceAdded
  BY <1>3, <1>4 DEF ResourceAdded, NewResource
<1>5. CASE LateStep
  BY <1>3, <1>5 DEF LateStep, NewResource
<1>6. QED
  BY <1>2, <1>4, <1>5, ResourcesStep

(* How one step can change the route on the API server and in the cache,   *)
(* and how the reconciler can get past AddFinalizer or start to delete.    *)
RouteStep ==
  \/ route' = route
  \/ route' = WithFinalizer(route)
  \/ route' = WithDeletion(route)
  \/ \E n \in Nat : route' = WithLabel(route, n)
  \/ \E a \in BOOLEAN, w \in SUBSET Endpoints : route' = WithSpec(route, a, w)
  \/ route' = Gone

CacheStep == cache' = cache \/ (cache' = route /\ route' = route)

Early == {"idle", "addFinalizer", "detach", "unlabel"}

Deleting == {"deleteResource", "dropFinalizer"}

ControlStep ==
  \/ pc' \in Early
  \/ pc \notin Early /\ (pc' \in Deleting => pc \in Deleting)
  \/ pc' = Entry(cache) /\ route' = route
  \/ route' = WithFinalizer(route) /\ pc' \notin Deleting

(* Every step changes the route in one of these ways. *)
LEMMA KubeStep ==
  ASSUME TypeOK, [Next]_vars
  PROVE  RouteStep /\ CacheStep /\ ControlStep
<1> USE DEF pangolin, local, caches, Own, RouteStep, CacheStep, ControlStep, Early, Deleting
<1>0. route \in Route /\ res \in Nat /\ NoResource \in Nat
  BY DEF TypeOK, NoResource
<1>1. CASE Read
  BY <1>1 DEF Read
<1>2. CASE AddFinalizer
  <2>1. ResourceEntry(route) \in {"adopt", "verify"}
    BY <1>0, EntryType
  <2>2. QED
    BY <1>2, <2>1 DEF AddFinalizer, NotFound, Return
<1>3. CASE Adopt \/ Verify \/ Create
  BY <1>3 DEF Adopt, Verify, ByName, Create, Refused, Return
<1>4. CASE SaveLabel
  BY <1>0, <1>4 DEF SaveLabel, NotFound, Return
<1>5. CASE Detach \/ DeleteOwn
  BY <1>5 DEF Detach, DeleteOwn, DeleteResource, Refused, Return
<1>6. CASE Unlabel
  BY <1>0, <1>6 DEF Unlabel, NotFound, Return
<1>7. CASE DropFinalizer
  BY <1>7 DEF DropFinalizer, NotFound, Return
<1>8. CASE ListTargets \/ CreateTarget \/ Sweep \/ TargetsDone \/ ClearLabel
  <2>1. UNCHANGED <<route, cache>>
    BY <1>8 DEF ListTargets, CreateTarget, Sweep, TargetsDone, ClearLabel, Refused
  <2>2. pc \notin Early /\ pc' \notin Deleting
    BY <1>8 DEF ListTargets, CreateTarget, Sweep, TargetsDone, ClearLabel, Refused, Return
  <2>3. QED
    BY <2>1, <2>2
<1>9. CASE Edit
  BY <1>9 DEF Edit
<1>10. CASE UserDeletes
  BY <1>10 DEF UserDeletes
<1>11. CASE RouteSync \/ GatewaySync \/ GatewayReconciles \/ Outsider \/ LateCreate
  BY <1>11 DEF RouteSync, GatewaySync, GatewayReconciles, Outsider, LateCreate
<1>12. CASE Crash
  BY <1>12 DEF Crash, Return
<1>13. CASE UNCHANGED vars
  BY <1>13 DEF vars
<1>14. QED
  BY <1>1, <1>2, <1>3, <1>4, <1>5, <1>6, <1>7, <1>8, <1>9, <1>10, <1>11, <1>12, <1>13
  DEF Next, Reconcile, Environment

(* A route never comes back, and while it is there its finalizer and its   *)
(* deletion stay.                                                          *)
LEMMA RouteMonotone ==
  ASSUME route \in Route, RouteStep, route'.exists
  PROVE  /\ route.exists
         /\ route.finalizer => route'.finalizer
         /\ route.deleting => route'.deleting
<1>1. CASE \E n \in Nat : route' = WithLabel(route, n)
  BY <1>1, RouteFields DEF Route
<1>2. CASE \E a \in BOOLEAN, w \in SUBSET Endpoints : route' = WithSpec(route, a, w)
  BY <1>2, RouteFields, 0 \in Nat
<1>3. CASE route' = WithFinalizer(route) \/ route' = WithDeletion(route)
  BY <1>3, RouteFields, 0 \in Nat, FALSE \in BOOLEAN, {} \in SUBSET Endpoints
<1>4. QED
  BY <1>1, <1>2, <1>3, RouteConstants DEF RouteStep

(* The part of the invariant that is about the finalizer. *)
LEMMA StepCovered ==
  ASSUME TypeOK, Covered, [Next]_vars
  PROVE  Covered'
<1> SUFFICES ASSUME route'.exists,
                    \/ pc' \notin Early
                    \/ cache'.finalizer
                    \/ MayHaveResource'
             PROVE  route'.finalizer
  BY DEF Covered, Early
<1>1. route \in Route /\ cache \in Route
  BY DEF TypeOK
<1>2. route.exists /\ (route.finalizer => route'.finalizer)
  BY <1>1, KubeStep, RouteMonotone
<1>3. CASE route.finalizer
  BY <1>2, <1>3
<1>4. CASE ~route.finalizer
  <2>1. pc \in Early /\ ~cache.finalizer /\ ~MayHaveResource
    BY <1>2, <1>4 DEF Covered, Early
  <2>2. ~MayHaveResource'
    BY <2>1, ResourcesStep DEF Early
  <2>3. ~cache'.finalizer \/ route'.finalizer
    BY <1>4, <2>1, KubeStep DEF CacheStep
  <2>4. CASE pc' \notin Early
    <3>1. Entry(cache) \in Early
      BY <1>1, <2>1, EntryType DEF Early
    <3>2. route' = WithFinalizer(route)
      BY <2>1, <2>4, <3>1, KubeStep DEF ControlStep
    <3>3. QED
      BY <1>1, <3>2, RouteFields, 0 \in Nat, FALSE \in BOOLEAN, {} \in SUBSET Endpoints
  <2>5. QED
    BY <2>2, <2>3, <2>4
<1>5. QED
  BY <1>3, <1>4

(* Deletion stays final. *)
LEMMA StepDeletion ==
  ASSUME TypeOK, DeletionIsFinal, [Next]_vars
  PROVE  DeletionIsFinal'
<1> SUFFICES ASSUME route'.exists, cache'.deleting \/ pc' \in Deleting
             PROVE  route'.deleting
  BY DEF DeletionIsFinal, Deleting
<1>1. route \in Route /\ cache \in Route
  BY DEF TypeOK
<1>2. route.exists /\ (route.deleting => route'.deleting)
  BY <1>1, KubeStep, RouteMonotone
<1>3. CASE route.deleting
  BY <1>2, <1>3
<1>4. CASE ~route.deleting
  <2>1. ~cache.deleting /\ pc \notin Deleting
    BY <1>2, <1>4 DEF DeletionIsFinal, Deleting
  <2>2. ~cache'.deleting \/ route'.deleting
    BY <1>4, <2>1, KubeStep DEF CacheStep
  <2>3. Entry(cache) \notin Deleting
    BY <1>1, <2>1, EntryType DEF Deleting
  <2>4. pc' \notin Deleting
    BY <2>1, <2>3, KubeStep DEF ControlStep, Early, Deleting
  <2>5. QED
    BY <2>2, <2>4
<1>5. QED
  BY <1>3, <1>4

(* A target that is on is the one for its endpoint. *)
LEMMA TargetEqual ==
  ASSUME NEW t \in Target, t.on
  PROVE  t = TargetOf(t.res, t.ep, t.site)
<1>1. t.on = TRUE
  BY DEF Target
<1>2. t = [res |-> t.res, ep |-> t.ep, site |-> t.site, on |-> t.on]
  BY DEF Target
<1>3. QED
  BY <1>1, <1>2 DEF TargetOf

(* The target for a wanted endpoint is no stale one. *)
LEMMA WantedMatches ==
  ASSUME NEW e \in snap.want
  PROVE  Matches(TargetOf(res, e, site))
BY DEF Matches, TargetOf

(* What the reconciler does not do to targets while it makes and sweeps    *)
(* them leaves the safety of the sweep alone.                              *)
LEMMA SweepStutter ==
  ASSUME SweepIsSafe, pc = "targets", UNCHANGED <<snap, site, res, todo, stale>>,
         kills' = MaxKills => targets' = targets /\ kills' = kills
  PROVE  SweepIsSafe'
<1>1. \A t \in stale' : ~Matches(t)'
  BY DEF SweepIsSafe, Matches
<1>2. ASSUME kills' = MaxKills, NEW e \in snap'.want \ todo'
      PROVE  TargetOf(res, e, site)' \in targets'
  BY <1>2 DEF SweepIsSafe, TargetOf
<1>3. QED
  BY <1>1, <1>2 DEF SweepIsSafe

(* The part of the invariant that is about targets. *)
LEMMA StepSweep ==
  ASSUME TypeOK, SweepIsSafe, [Next]_vars
  PROVE  SweepIsSafe'
<1> SUFFICES ASSUME pc' = "targets" PROVE SweepIsSafe'
  BY DEF SweepIsSafe
<1> USE DEF pangolin, local, creation, caches, Own
<1>1. CASE Read
  BY <1>1, EntryType DEF Read, TypeOK
<1>2. CASE AddFinalizer
  BY <1>2, EntryType DEF AddFinalizer, NotFound, Return, TypeOK
<1>3. CASE Adopt \/ Verify \/ Create \/ SaveLabel
  BY <1>3 DEF Adopt, Verify, ByName, Create, SaveLabel, Refused, NotFound, Return
<1>4. CASE Detach \/ DeleteOwn
  BY <1>4 DEF Detach, DeleteOwn, DeleteResource, Refused, Return
<1>5. CASE Unlabel \/ DropFinalizer \/ TargetsDone \/ ClearLabel \/ Crash
  BY <1>5 DEF Unlabel, DropFinalizer, TargetsDone, ClearLabel, Crash, NotFound, Return
<1>6. CASE ListTargets
  <2>1. /\ todo'  = snap.want \ {t.ep : t \in {u \in TargetsOf(res) : Matches(u)}}
        /\ stale' = {t \in TargetsOf(res) : ~Matches(t)}
        /\ UNCHANGED <<snap, site, res, targets>>
    BY <1>6 DEF ListTargets, Refused, Return
  <2>2. \A t \in stale' : ~Matches(t)'
    BY <2>1 DEF Matches
  <2>3. ASSUME NEW e \in snap.want \ todo' PROVE TargetOf(res, e, site) \in targets
    <3>1. PICK t \in targets : t.res = res /\ Matches(t) /\ t.ep = e
      BY <2>1, <2>3 DEF TargetsOf
    <3>2. t \in Target /\ t.on /\ t.site = site
      BY <3>1 DEF TypeOK, Matches
    <3>3. t = TargetOf(res, e, site)
      BY <3>1, <3>2, TargetEqual
    <3>4. QED
      BY <3>1, <3>3
  <2>4. ASSUME NEW e \in snap'.want \ todo' PROVE TargetOf(res, e, site)' \in targets'
    BY <2>1, <2>3, <2>4 DEF TargetOf
  <2>5. QED
    BY <2>2, <2>4 DEF SweepIsSafe
<1>7. CASE CreateTarget
  <2>1. pc = "targets" /\ UNCHANGED <<snap, site, res, stale, kills>>
    BY <1>7 DEF CreateTarget, Return
  <2>2. PICK e \in todo : /\ targets' = targets \cup {TargetOf(res, e, site)}
                          /\ todo' = todo \ {e}
    BY <1>7 DEF CreateTarget, Return
  <2>3. \A t \in stale' : ~Matches(t)'
    BY <2>1 DEF SweepIsSafe, Matches
  <2>4. ASSUME kills' = MaxKills, NEW d \in snap'.want \ todo'
        PROVE  TargetOf(res, d, site)' \in targets'
    <3>1. TargetOf(res, d, site)' = TargetOf(res, d, site)
      BY <2>1 DEF TargetOf
    <3>2. CASE d = e
      BY <2>2, <3>1, <3>2
    <3>3. CASE d # e
      BY <2>1, <2>2, <2>4, <3>1, <3>3 DEF SweepIsSafe
    <3>4. QED
      BY <3>2, <3>3
  <2>5. QED
    BY <2>3, <2>4 DEF SweepIsSafe
<1>8. CASE Sweep
  <2>1. pc = "targets" /\ UNCHANGED <<snap, site, res, todo, kills>>
    BY <1>8 DEF Sweep, Return
  <2>2. PICK t \in stale : targets' = targets \ {t} /\ stale' = stale \ {t}
    BY <1>8 DEF Sweep, Return
  <2>3. \A u \in stale' : ~Matches(u)'
    BY <2>1, <2>2 DEF SweepIsSafe, Matches
  <2>4. ASSUME kills' = MaxKills, NEW e \in snap'.want \ todo'
        PROVE  TargetOf(res, e, site)' \in targets'
    <3>1. TargetOf(res, e, site)' = TargetOf(res, e, site)
      BY <2>1 DEF TargetOf
    <3>2. TargetOf(res, e, site) \in targets
      BY <2>1, <2>4 DEF SweepIsSafe
    <3>3. TargetOf(res, e, site) # t
      BY <2>1, <2>2, <2>4, WantedMatches DEF SweepIsSafe
    <3>4. QED
      BY <2>2, <3>1, <3>2, <3>3
  <2>5. QED
    BY <2>3, <2>4 DEF SweepIsSafe
<1>9. CASE Edit \/ UserDeletes \/ RouteSync \/ GatewaySync
  <2>1. UNCHANGED <<pc, snap, site, res, todo, stale, targets, kills>>
    BY <1>9 DEF Edit, UserDeletes, RouteSync, GatewaySync
  <2>2. QED
    BY <2>1, SweepStutter
<1>10. CASE GatewayReconciles \/ LateCreate
  <2>1. UNCHANGED <<pc, snap, site, res, todo, stale, targets, kills>>
    BY <1>10 DEF GatewayReconciles, LateCreate
  <2>2. QED
    BY <2>1, SweepStutter
<1>11. CASE Outsider
  <2>1. UNCHANGED <<pc, snap, site, res, todo, stale>>
    BY <1>11 DEF Outsider
  <2>2. kills' # MaxKills
    BY <1>11, TCPAssumption DEF Outsider, TypeOK
  <2>3. QED
    BY <2>1, <2>2, SweepStutter
<1>12. CASE UNCHANGED vars
  BY <1>12, SweepStutter DEF vars
<1>13. QED
  BY <1>1, <1>2, <1>3, <1>4, <1>5, <1>6, <1>7, <1>8, <1>9, <1>10, <1>11, <1>12
  DEF Next, Reconcile, Environment

(* Every step keeps the invariant. *)
LEMMA StepInv == ResourceInv /\ [Next]_vars => ResourceInv'
BY StepType, StepIds, StepResources, StepCovered, StepDeletion, StepSweep DEF ResourceInv

(* The inductive invariant holds of every behaviour. *)
LEMMA AlwaysInv == Spec => []ResourceInv
BY InitInv, StepInv, PTL DEF Spec

(* Type correctness: TCPRoute keeps every variable in its range. *)
THEOREM TypeCorrect == Spec => []TypeOK
<1>1. ResourceInv => TypeOK
  BY DEF ResourceInv
<1>2. QED
  BY <1>1, AlwaysInv, PTL

(* Adoption by name makes no second resource: one can come only from a     *)
(* creation that took effect late or followed a failed list.               *)
THEOREM OneResource == Spec => []AtMostOneResource
<1>1. ResourceInv => AtMostOneResource
  BY DEF ResourceInv
<1>2. QED
  BY <1>1, AlwaysInv, PTL

(* A route that has a resource has the finalizer, whatever fails and       *)
(* however far the caches lag.                                             *)
THEOREM FinalizerFirst == Spec => []FinalizerCoversResource
<1>1. ResourceInv => FinalizerCoversResource
  BY DEF ResourceInv, Covered, MayHaveResource, FinalizerCoversResource
<1>2. QED
  BY <1>1, AlwaysInv, PTL

(* reconcileTCPTargets makes before it breaks: when a stale target is swept *)
(* each endpoint of the copy has its target, before and after.             *)
THEOREM SweepsAreSafe == Spec => MakeBeforeBreak
<1>1. ResourceInv /\ [Next]_vars =>
        [Sweep /\ kills = MaxKills =>
           \A e \in snap.want : TargetOf(res, e, site) \in targets']_vars
  <2> SUFFICES ASSUME ResourceInv, Sweep, kills = MaxKills, NEW e \in snap.want
               PROVE  TargetOf(res, e, site) \in targets'
    OBVIOUS
  <2>1. pc = "targets" /\ todo = {}
    BY DEF Sweep
  <2>2. PICK t \in stale : targets' = targets \/ targets' = targets \ {t}
    BY DEF Sweep
  <2>3. TargetOf(res, e, site) \in targets
    BY <2>1 DEF ResourceInv, SweepIsSafe
  <2>4. TargetOf(res, e, site) # t
    BY <2>1, <2>2, WantedMatches DEF ResourceInv, SweepIsSafe
  <2>5. QED
    BY <2>2, <2>3, <2>4
<1>2. QED
  BY <1>1, AlwaysInv, PTL DEF Spec, MakeBeforeBreak

(* What the phases stand for. *)
LEMMA Phases ==
  ASSUME NEW o \in Route
  PROVE  /\ Phase(o) = "gone" <=> ~o.exists
         /\ Phase(o) = "doomed" <=> o.exists /\ o.deleting
         /\ Phase(o) = "kept" <=> o.exists /\ ~o.deleting /\ o.finalizer
         /\ Phase(o) = "new" <=> o.exists /\ ~o.deleting /\ ~o.finalizer
         /\ Phase(o) \in {"gone", "doomed", "kept", "new"}
<1>1. o.exists \in BOOLEAN /\ o.deleting \in BOOLEAN /\ o.finalizer \in BOOLEAN
  BY DEF Route
<1>2. QED
  BY <1>1 DEF Phase

(* Labels and edits leave the phase alone. *)
LEMMA PhaseKept ==
  ASSUME NEW o \in Route, NEW n \in Nat, NEW a \in BOOLEAN, NEW w \in SUBSET Endpoints
  PROVE  Phase(WithLabel(o, n)) = Phase(o) /\ Phase(WithSpec(o, a, w)) = Phase(o)
BY RouteFields DEF Phase

(* The finalizer, a deletion and the end of the route move it on. *)
LEMMA PhaseMoves ==
  ASSUME NEW o \in Route
  PROVE  /\ Phase(o) = "new" => Phase(WithFinalizer(o)) = "kept"
         /\ Phase(o) # "new" => Phase(WithFinalizer(o)) = Phase(o)
         /\ o.exists => Phase(WithDeletion(o)) = "doomed"
         /\ Phase(Gone) = "gone"
<1>1. 0 \in Nat /\ FALSE \in BOOLEAN /\ {} \in SUBSET Endpoints
  OBVIOUS
<1>2. /\ WithFinalizer(o).finalizer
      /\ WithFinalizer(o).exists = o.exists /\ WithFinalizer(o).deleting = o.deleting
      /\ WithDeletion(o).exists = o.exists /\ WithDeletion(o).deleting
  BY <1>1, RouteFields
<1>3. o.exists \in BOOLEAN /\ o.deleting \in BOOLEAN /\ o.finalizer \in BOOLEAN
  BY DEF Route
<1>4. QED
  BY <1>2, <1>3, RouteConstants DEF Phase

(* A step of the promise, or none. *)
PromiseStep == Promise!PNext \/ UNCHANGED Promise!promiseVars

(* A step that leaves resources alone changes the route as the promise says. *)
LEMMA RouteRefines ==
  ASSUME route \in Route, UNCHANGED <<resources, extra, late, kills>>,
         \/ route' = route \/ route' = WithFinalizer(route)
         \/ \E n \in Nat : route' = WithLabel(route, n)
         \/ \E a \in BOOLEAN, w \in SUBSET Endpoints : route' = WithSpec(route, a, w)
         \/ route.exists /\ ~route.deleting /\ route.finalizer /\ route' = WithDeletion(route)
         \/ route.exists /\ ~route.deleting /\ ~route.finalizer /\ route' = Gone
         \/ route.exists /\ route.deleting /\ route' = Gone
  PROVE  PromiseStep
<1> USE DEF PromiseStep, Promise!PNext, Promise!promiseVars
<1>0. 0 \in Nat /\ FALSE \in BOOLEAN /\ {} \in SUBSET Endpoints
  OBVIOUS
<1>1. CASE Phase(route') = Phase(route)
  BY <1>1 DEF Phase
<1>2. CASE Phase(route) = "new" /\ Phase(route') = "kept"
  BY <1>2 DEF Promise!Protect, Promise!Becomes, Phase
<1>3. CASE Phase(route) = "kept" /\ Phase(route') = "doomed"
  BY <1>3 DEF Promise!MarkDeleted, Promise!Becomes, Phase
<1>4. CASE Phase(route) = "new" /\ Phase(route') = "gone"
  BY <1>4 DEF Promise!MarkDeleted, Promise!Becomes, Phase
<1>5. CASE Phase(route) = "doomed" /\ Phase(route') = "gone"
  BY <1>5 DEF Promise!Release, Promise!Becomes, Phase
<1>6. CASE \E n \in Nat : route' = WithLabel(route, n)
  <2>1. PICK n \in Nat : route' = WithLabel(route, n)
    BY <1>6
  <2>2. QED
    BY <1>0, <1>1, <2>1, PhaseKept
<1>7. CASE \E a \in BOOLEAN, w \in SUBSET Endpoints : route' = WithSpec(route, a, w)
  <2>1. PICK a \in BOOLEAN, w \in SUBSET Endpoints : route' = WithSpec(route, a, w)
    BY <1>7
  <2>2. QED
    BY <1>0, <1>1, <2>1, PhaseKept
<1>8. CASE route' = route \/ route' = WithFinalizer(route)
  BY <1>1, <1>2, <1>8, PhaseMoves
<1>9. CASE \/ route.exists /\ ~route.deleting /\ route.finalizer /\ route' = WithDeletion(route)
           \/ route.exists /\ ~route.deleting /\ ~route.finalizer /\ route' = Gone
           \/ route.exists /\ route.deleting /\ route' = Gone
  <2>1. \/ Phase(route) = "kept" /\ Phase(route') = "doomed"
        \/ Phase(route) = "new" /\ Phase(route') = "gone"
        \/ Phase(route) = "doomed" /\ Phase(route') = "gone"
    BY <1>9, Phases, PhaseMoves
  <2>2. QED
    BY <1>3, <1>4, <1>5, <2>1
<1>10. QED
  BY <1>6, <1>7, <1>8, <1>9

(* A route that the reconciler works on has its finalizer or is gone; one  *)
(* whose deletion it carries out is being deleted or gone.                 *)
LEMMA Working ==
  ASSUME ResourceInv, pc \notin Early
  PROVE  /\ Phase(route) # "new"
         /\ pc \in Deleting => Phase(route) \in {"doomed", "gone"}
<1>1. route \in Route
  BY DEF ResourceInv, TypeOK
<1>2. route.exists => route.finalizer
  BY DEF ResourceInv, Covered, Early
<1>3. pc \in Deleting => ~route.exists \/ route.deleting
  BY DEF ResourceInv, DeletionIsFinal, Deleting
<1>4. QED
  BY <1>1, <1>2, <1>3, Phases

(* A resource that is added is one more for the promise. *)
LEMMA OneMoreResource ==
  ASSUME ResourceInv, NEW more, NewResource(more)
  PROVE  /\ Promise!OneMore /\ resources' \ resources = {nextRes}
         /\ extra' = IF more THEN extra \cup (resources' \ resources) ELSE extra
<1>1. nextRes \notin resources \cup extra
  BY DEF ResourceInv, TypeOK, IdsIssued
<1>2. resources' = resources \cup {nextRes}
  BY DEF NewResource
<1>3. QED
  BY <1>1, <1>2 DEF Promise!OneMore, NewResource

(* The TCPRoute reconciler keeps the promise: at most one resource, made   *)
(* under the finalizer, late and blind creations and losses apart.         *)
THEOREM Refinement == Spec => ImplementsPromise
<1>1. Init => Promise!PInit
  BY TCPAssumption DEF Init, NewRoute, Phase, Promise!PInit
<1>2. ResourceInv /\ [Next]_vars => [Promise!PNext]_(Promise!promiseVars)
  <2> SUFFICES ASSUME ResourceInv, [Next]_vars PROVE PromiseStep
    BY DEF PromiseStep
  <2> USE DEF caches, pangolin, creation, local, Own
  <2>0. route \in Route /\ res \in Nat /\ NoResource \in Nat /\ late \in Nat /\ kills \in Nat
    BY TCPAssumption DEF ResourceInv, TypeOK, NoResource
  <2>1. CASE AddFinalizer \/ SaveLabel \/ Unlabel
    <3>1. UNCHANGED <<resources, extra, late, kills>>
      BY <2>1 DEF AddFinalizer, SaveLabel, Unlabel
    <3>2. \/ route' = route \/ route' = WithFinalizer(route)
          \/ route' = WithLabel(route, res) \/ route' = WithLabel(route, NoResource)
      BY <2>1 DEF AddFinalizer, SaveLabel, Unlabel, NotFound
    <3>3. QED
      BY <2>0, <3>1, <3>2, RouteRefines
  <2>2. CASE UserDeletes
    BY <2>0, <2>2, RouteRefines DEF UserDeletes
  <2>3. CASE Edit
    BY <2>0, <2>3, RouteRefines DEF Edit
  <2>4. CASE DropFinalizer
    <3>1. route.exists => route.deleting
      BY <2>4 DEF DropFinalizer, ResourceInv, DeletionIsFinal
    <3>2. UNCHANGED <<resources, extra, late, kills>>
      BY <2>4 DEF DropFinalizer
    <3>3. route' = route \/ (route.exists /\ route' = Gone)
      BY <2>4 DEF DropFinalizer, NotFound
    <3>4. QED
      BY <2>0, <3>1, <3>2, <3>3, RouteRefines
  <2>5. CASE Create
    <3>1. Phase(route) # "new" /\ route' = route /\ kills' = kills
      BY <2>5, Working DEF Create, Early
    <3>2. CASE NewResource(blind) /\ late' = late /\ ~blind
      <4>1. Promise!OneMore /\ extra' = extra
        BY <3>2, OneMoreResource
      <4>2. resources \subseteq extra
        BY <2>5, <3>2 DEF Create, ResourceInv, CreatesOnlyWhenNone
      <4>3. Promise!Make
        BY <3>1, <3>2, <4>1, <4>2 DEF Promise!Make, Phase
      <4>4. QED
        BY <4>3 DEF PromiseStep, Promise!PNext
    <3>3. CASE NewResource(blind) /\ late' = late /\ blind
      <4>1. Promise!OneMore /\ extra' = extra \cup (resources' \ resources)
        BY <3>3, OneMoreResource
      <4>2. Promise!MakeSpare
        BY <3>1, <3>3, <4>1 DEF Promise!MakeSpare, Phase
      <4>3. QED
        BY <4>2 DEF PromiseStep, Promise!PNext
    <3>4. CASE late' = late + 1 /\ UNCHANGED <<resources, extra>>
      <4>1. Promise!GiveUp
        BY <3>1, <3>4 DEF Promise!GiveUp, Phase
      <4>2. QED
        BY <4>1 DEF PromiseStep, Promise!PNext
    <3>5. CASE UNCHANGED <<resources, extra, late>>
      BY <2>0, <3>1, <3>5, RouteRefines
    <3>6. QED
      BY <2>5, <3>2, <3>3, <3>4, <3>5 DEF Create
  <2>6. CASE LateCreate
    <3>1. NewResource(TRUE) /\ late > 0 /\ late' = late - 1 /\ UNCHANGED <<route, kills>>
      BY <2>6 DEF LateCreate
    <3>2. Promise!OneMore /\ extra' = extra \cup (resources' \ resources)
      BY <3>1, OneMoreResource
    <3>3. Promise!Arrive
      BY <3>1, <3>2 DEF Promise!Arrive, Phase
    <3>4. QED
      BY <3>3 DEF PromiseStep, Promise!PNext
  <2>7. CASE Detach \/ DeleteOwn
    <3>1. UNCHANGED <<route, extra, late, kills>>
      BY <2>7 DEF Detach, DeleteOwn, DeleteResource, Refused
    <3>2. CASE resources' = resources
      BY <2>0, <3>1, <3>2, RouteRefines
    <3>3. CASE resources' # resources
      <4>1. resources' = resources \ {snap.label} /\ snap.label \in resources
        BY <2>7, <3>3 DEF Detach, DeleteOwn, DeleteResource, Deleted, Refused
      <4>2. Promise!Delete
        BY <3>1, <4>1 DEF Promise!Delete, Phase
      <4>3. QED
        BY <4>2 DEF PromiseStep, Promise!PNext
    <3>4. QED
      BY <3>2, <3>3
  <2>8. CASE Outsider
    <3>1. resources' \subseteq resources
      BY <2>8 DEF Outsider, Deleted
    <3>2. Promise!Lose
      BY <2>8, <3>1 DEF Outsider, Promise!Lose, Phase
    <3>3. QED
      BY <3>2 DEF PromiseStep, Promise!PNext
  <2>9. CASE UNCHANGED <<route, resources, extra, late, kills>>
    BY <2>0, <2>9, RouteRefines
  <2>10. CASE Read \/ Adopt \/ Verify \/ ListTargets
    BY <2>9, <2>10 DEF Read, Adopt, Verify, ListTargets, Refused
  <2>11. CASE CreateTarget \/ Sweep \/ TargetsDone \/ ClearLabel
    BY <2>9, <2>11 DEF CreateTarget, Sweep, TargetsDone, ClearLabel
  <2>12. CASE RouteSync \/ GatewaySync \/ GatewayReconciles \/ Crash
    BY <2>9, <2>12 DEF RouteSync, GatewaySync, GatewayReconciles, Crash
  <2>13. CASE UNCHANGED vars
    BY <2>9, <2>13 DEF vars
  <2>14. QED
    BY <2>1, <2>2, <2>3, <2>4, <2>5, <2>6, <2>7, <2>8, <2>10, <2>11, <2>12, <2>13
    DEF Next, Reconcile, Environment
<1>3. QED
  BY <1>1, <1>2, AlwaysInv, PTL DEF Spec, ImplementsPromise, Promise!PSpec
=============================================================================
