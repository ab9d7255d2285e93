-------------------------- MODULE GRPCRoute_proofs --------------------------
(***************************************************************************)
(* Theorems about GRPCRoute, for every set of endpoints and every number   *)
(* of changes and faults.                                                  *)
(***************************************************************************)
EXTENDS GRPCRoute, TLAPS

(* The API server's changes make a route of a route. *)
LEMMA RouteClosed ==
  ASSUME NEW o \in Route, NEW n \in Nat, NEW a \in BOOLEAN, NEW w \in SUBSET Endpoints,
         NEW v \in Verdicts
  PROVE  /\ WithFinalizer(o) \in Route /\ WithDeletion(o) \in Route
         /\ WithLabel(o, n) \in Route /\ WithSpec(o, a, w) \in Route
         /\ WithStatus(o, v, n) \in Route
<1>1. WithFinalizer(o) \in Route
  BY DEF WithFinalizer, Route
<1>2. WithDeletion(o) \in Route
  <2>1. o.generation + 1 \in Nat
    BY DEF Route
  <2>2. QED
    BY <2>1 DEF WithDeletion, Route
<1>3. WithLabel(o, n) \in Route
  BY DEF WithLabel, Route
<1>4. WithSpec(o, a, w) \in Route
  <2>1. o.generation + 1 \in Nat
    BY DEF Route
  <2>2. QED
    BY <2>1 DEF WithSpec, Route
<1>5. WithStatus(o, v, n) \in Route
  BY DEF WithStatus, Route
<1>6. QED
  BY <1>1, <1>2, <1>3, <1>4, <1>5

(* What the API server's changes leave alone. *)
LEMMA RouteFields ==
  ASSUME NEW o \in Route, NEW n \in Nat, NEW a \in BOOLEAN, NEW w \in SUBSET Endpoints,
         NEW v \in Verdicts
  PROVE  /\ WithFinalizer(o).finalizer
         /\ WithFinalizer(o).exists = o.exists /\ WithFinalizer(o).deleting = o.deleting
         /\ WithDeletion(o).exists = o.exists /\ WithDeletion(o).finalizer = o.finalizer
         /\ WithDeletion(o).deleting
         /\ WithLabel(o, n).exists = o.exists /\ WithLabel(o, n).finalizer = o.finalizer
         /\ WithLabel(o, n).deleting = o.deleting
         /\ WithSpec(o, a, w).exists = o.exists /\ WithSpec(o, a, w).finalizer = o.finalizer
         /\ WithSpec(o, a, w).deleting = o.deleting
         /\ WithStatus(o, v, n).exists = o.exists /\ WithStatus(o, v, n).finalizer = o.finalizer
         /\ WithStatus(o, v, n).deleting = o.deleting
BY DEF WithFinalizer, WithDeletion, WithLabel, WithSpec, WithStatus, Route

(* A verdict is one, and there are values of the other types. *)
LEMMA Inhabited ==
  /\ Verdict \in Verdicts
  /\ 0 \in Nat /\ FALSE \in BOOLEAN /\ {} \in SUBSET Endpoints
BY DEF Verdict, Verdicts

(* The two routes the model starts from, and what a job keeps of its copy. *)
LEMMA RouteConstants ==
  /\ Gone \in Route /\ ~Gone.exists /\ ~Gone.finalizer /\ Gone.label = NoResource
  /\ NewRoute \in Route /\ ~NewRoute.finalizer /\ NewRoute.exists /\ ~NewRoute.deleting
  /\ \A g \in Nat : [Gone EXCEPT !.generation = g] \in Route
BY GRPCAssumption DEF Gone, NewRoute, Route, NoResource, Verdicts

(* A fault uses up a part of the budget. *)
LEMMA FaultType ==
  ASSUME faults \in 0 .. MaxFaults, Fault
  PROVE  faults' \in 0 .. MaxFaults
BY GRPCAssumption DEF Fault

(* A new resource gets the next id. *)
LEMMA NewResourceType ==
  ASSUME resources \subseteq Nat, extra \subseteq Nat, nextRes \in Nat \ {0},
         NEW unsearched, NewResource(unsearched)
  PROVE  /\ resources' = resources \cup {nextRes} /\ resources' \subseteq Nat
         /\ extra' \subseteq Nat /\ extra \subseteq extra' /\ extra' \subseteq extra \cup {nextRes}
         /\ unsearched => nextRes \in extra'
         /\ nextRes' \in Nat \ {0}
BY DEF NewResource

(* The types of what a job remembers. *)
LocalType ==
  /\ snap \in Route /\ site \in Nat /\ res \in Nat /\ accepted \in BOOLEAN
  /\ todo \subseteq Endpoints
  /\ pc \in {"idle", "addFinalizer", "gateway", "create", "verify", "label",
             "listTargets", "targets", "clearLabel", "status",
             "deleteResource", "dropFinalizer"}

(* The types of the rest. *)
WorldType ==
  /\ route \in Route /\ cache \in Route
  /\ label \in Nat /\ seen \in Nat /\ live \in Nat /\ refusing \in BOOLEAN
  /\ resources \subseteq Nat /\ extra \subseteq Nat
  /\ nextRes \in Nat \ {0} /\ late \in Nat
  /\ targets \subseteq Target
  /\ changes \in 0 .. MaxChanges /\ faults \in 0 .. MaxFaults

(* Together they are the type invariant. *)
LEMMA TypeParts == TypeOK <=> (LocalType /\ WorldType)
BY DEF TypeOK, LocalType, WorldType

(* A job that ends forgets everything. *)
LEMMA ReturnType == Return => LocalType' /\ pc' = "idle"
<1> SUFFICES ASSUME Return PROVE LocalType' /\ pc' = "idle"
  OBVIOUS
<1>1. snap' \in Route
  BY RouteConstants DEF Return
<1>2. site' \in Nat /\ res' \in Nat /\ todo' \subseteq Endpoints
  BY DEF Return, NoSite, NoResource
<1>3. accepted' \in BOOLEAN
  BY DEF Return
<1>4. pc' = "idle"
  BY DEF Return
<1>5. QED
  BY <1>1, <1>2, <1>3, <1>4 DEF LocalType

(* A job that concludes keeps its verdict, and the generation it is about. *)
LEMMA ConcludeType ==
  ASSUME snap \in Route, NEW verdict \in BOOLEAN, Conclude(verdict)
  PROVE  LocalType' /\ pc' = "status"
<1>1. snap' \in Route
  <2>1. snap.generation \in Nat
    BY DEF Route
  <2>2. QED
    BY <2>1, RouteConstants DEF Conclude
<1>2. site' \in Nat /\ res' \in Nat /\ todo' \subseteq Endpoints
  BY DEF Conclude, NoSite, NoResource
<1>3. accepted' \in BOOLEAN
  BY DEF Conclude
<1>4. pc' = "status"
  BY DEF Conclude
<1>5. QED
  BY <1>1, <1>2, <1>3, <1>4 DEF LocalType

(* The calls that carry out a deletion. *)
Deleting == {"deleteResource", "dropFinalizer"}

(* The entry point of a job is one of its calls, or there is none; without *)
(* the finalizer the first call is to add it, and only a copy that is being *)
(* deleted leads to a deletion.                                            *)
LEMMA EntryType ==
  ASSUME NEW o \in Route
  PROVE  /\ Entry(o) \in {"idle", "addFinalizer", "gateway", "deleteResource", "dropFinalizer"}
         /\ Entry(o) \notin Early => o.finalizer
         /\ Entry(o) \in Deleting => o.deleting
<1>1. o.deleting \in BOOLEAN /\ o.finalizer \in BOOLEAN
  BY DEF Route
<1>2. CASE o.deleting /\ ~o.finalizer
  BY <1>1, <1>2 DEF Entry, DeleteEntry, Early, Deleting
<1>3. CASE o.deleting /\ o.finalizer
  BY <1>1, <1>3 DEF Entry, DeleteEntry, Early, Deleting
<1>4. CASE ~o.deleting
  BY <1>1, <1>4 DEF Entry, Early, Deleting
<1>5. QED
  BY <1>1, <1>2, <1>3, <1>4

(* A target for an endpoint is a target. *)
LEMMA TargetType ==
  ASSUME NEW id \in Nat, NEW e \in Endpoints, NEW s \in Nat
  PROVE  TargetOf(id, e, s) \in Target
BY DEF TargetOf, Target

(* The invariant holds initially. *)
LEMMA InitInv == Init => GRPCInv
<1> SUFFICES ASSUME Init PROVE GRPCInv
  OBVIOUS
<1> USE GRPCAssumption DEF Init, NoSite, NoResource
<1>1. TypeOK
  <2>1. accepted \in BOOLEAN /\ refusing \in BOOLEAN
    OBVIOUS
  <2>2. LocalType
    BY <2>1, RouteConstants DEF LocalType
  <2>3. WorldType
    BY <2>1, RouteConstants DEF WorldType
  <2>4. QED
    BY <2>2, <2>3, TypeParts
<1>2. AtMostOneRecreated /\ RecreatesOnlyWhenNone
  BY DEF AtMostOneRecreated, RecreatesOnlyWhenNone
<1>3. Covered /\ DeletionIsFinal /\ IdsIssued
  BY RouteConstants DEF Covered, MayHaveResource, Early, DeletionIsFinal, IdsIssued
<1>4. QED
  BY <1>1, <1>2, <1>3 DEF GRPCInv

(* Type correctness of one step: what a job remembers. *)
LEMMA StepLocalType == TypeOK /\ [Next]_vars => LocalType'
<1> SUFFICES ASSUME TypeOK, [Next]_vars PROVE LocalType'
  OBVIOUS
<1> USE DEF local, pangolin
<1>0. /\ LocalType /\ WorldType
      /\ snap \in Route /\ TRUE \in BOOLEAN /\ FALSE \in BOOLEAN
  BY TypeParts DEF LocalType
<1>1. CASE Return
  BY <1>1, ReturnType
<1>2. CASE Conclude(TRUE) \/ Conclude(FALSE)
  BY <1>0, <1>2, ConcludeType
<1>3. CASE UNCHANGED <<pc, local>>
  BY <1>0, <1>3 DEF LocalType
<1>4. CASE Read
  BY <1>0, <1>4, EntryType DEF Read, LocalType, WorldType
<1>5. CASE AddFinalizer
  <2>1. CASE /\ snap' = WithFinalizer(route) /\ pc' = "gateway"
             /\ UNCHANGED <<site, res, todo, accepted>>
    <3>1. snap' \in Route
      BY <1>0, <2>1, RouteClosed, Inhabited DEF WorldType
    <3>2. QED
      BY <1>0, <2>1, <3>1 DEF LocalType
  <2>2. QED
    BY <1>1, <1>5, <2>1 DEF AddFinalizer, Patch, NotFound
<1>6. CASE DeleteOwn
  <2>1. CASE pc' = "dropFinalizer" /\ UNCHANGED local
    BY <1>0, <2>1 DEF LocalType
  <2>2. QED
    BY <1>1, <1>6, <2>1 DEF DeleteOwn
<1>7. CASE FindGateway
  <2>1. CASE /\ site' = seen /\ pc' = IF snap.label = NoResource THEN "create" ELSE "verify"
             /\ UNCHANGED <<snap, res, todo, accepted>>
    BY <1>0, <2>1 DEF LocalType, WorldType
  <2>2. QED
    BY <1>1, <1>2, <1>7, <2>1 DEF FindGateway
<1>8. CASE Verify
  <2>1. CASE /\ IF snap.label \in resources
                THEN res' = snap.label /\ pc' = "listTargets"
                ELSE \/ \E id \in resources : res' = id /\ pc' = "label"
                     \/ resources = {} /\ pc' = "create" /\ UNCHANGED res
             /\ UNCHANGED <<snap, site, todo, accepted>>
    <3>1. res' \in Nat /\ pc' \in {"label", "create", "listTargets"}
      BY <1>0, <2>1 DEF LocalType, WorldType
    <3>2. QED
      BY <1>0, <2>1, <3>1 DEF LocalType
  <2>2. QED
    BY <1>2, <1>8, <2>1 DEF Verify, Refused
<1>9. CASE Create
  <2>1. CASE res' = nextRes /\ pc' = "label" /\ UNCHANGED <<snap, site, todo, accepted>>
    <3>1. res' \in Nat
      BY <1>0, <2>1 DEF WorldType
    <3>2. QED
      BY <1>0, <2>1, <3>1 DEF LocalType
  <2>2. QED
    BY <1>2, <1>9, <2>1 DEF Create
<1>10. CASE SaveLabel
  <2>1. CASE /\ route' = WithLabel(route, res) /\ snap' = route' /\ pc' = "listTargets"
             /\ UNCHANGED <<site, res, todo, accepted>>
    <3>1. snap' \in Route
      BY <1>0, <2>1, RouteClosed, Inhabited DEF LocalType, WorldType
    <3>2. QED
      BY <1>0, <2>1, <3>1 DEF LocalType
  <2>2. QED
    BY <1>1, <1>2, <1>10, <2>1 DEF SaveLabel
<1>11. CASE ListTargets
  <2>1. CASE /\ todo' = snap.want \ {t.ep : t \in {u \in TargetsOf(res) : Matches(u)}}
             /\ pc' = "targets"
             /\ UNCHANGED <<snap, site, res, accepted>>
    <3>1. snap.want \subseteq Endpoints
      BY <1>0 DEF LocalType, Route
    <3>2. todo' \subseteq Endpoints
      BY <2>1, <3>1
    <3>3. QED
      BY <1>0, <2>1, <3>2 DEF LocalType
  <2>2. QED
    BY <1>2, <1>11, <2>1 DEF ListTargets
<1>12. CASE CreateTarget
  <2>1. CASE todo' \subseteq todo /\ UNCHANGED <<pc, snap, site, res, accepted>>
    BY <1>0, <2>1 DEF LocalType
  <2>2. CASE pc' = "clearLabel" /\ UNCHANGED local
    BY <1>0, <2>2 DEF LocalType
  <2>3. QED
    BY <1>2, <1>12, <2>1, <2>2 DEF CreateTarget
<1>13. CASE DropFinalizer \/ WriteStatus \/ Crash
  BY <1>1, <1>13 DEF DropFinalizer, Patch, NotFound, WriteStatus, Crash
<1>14. CASE TargetsDone \/ ClearLabel
  BY <1>2, <1>14 DEF TargetsDone, ClearLabel
<1>15. CASE Edit \/ UserDeletes \/ RouteSync \/ GatewaySync
  BY <1>3, <1>15 DEF Edit, UserDeletes, RouteSync, GatewaySync
<1>16. CASE GatewayReconciles \/ Outsider \/ LateCreate
  BY <1>3, <1>16 DEF GatewayReconciles, Outsider, LateCreate
<1>17. CASE UNCHANGED vars
  BY <1>3, <1>17 DEF vars
<1>18. QED
  BY <1>4, <1>5, <1>6, <1>7, <1>8, <1>9, <1>10, <1>11, <1>12, <1>13, <1>14,
     <1>15, <1>16, <1>17
  DEF Next, Reconcile, Environment

(* Type correctness of one step: the API server, the caches and Pangolin. *)
LEMMA StepWorldType == TypeOK /\ [Next]_vars => WorldType'
<1> SUFFICES ASSUME TypeOK, [Next]_vars PROVE WorldType'
  OBVIOUS
<1> USE GRPCAssumption DEF pangolin, creation, caches, Own
<1>0. LocalType /\ WorldType
  BY TypeParts
<1>1. ASSUME route' \in Route, UNCHANGED <<caches, label, live, refusing, pangolin, changes>>,
             Fault \/ UNCHANGED faults
      PROVE  WorldType'
  BY <1>0, <1>1, FaultType DEF WorldType
<1>2. /\ route \in Route /\ cache \in Route /\ Gone \in Route
      /\ WithFinalizer(route) \in Route /\ WithDeletion(route) \in Route
      /\ WithLabel(route, res) \in Route /\ Reported(cache) \in Route
  <2>1. res \in Nat /\ route \in Route /\ cache \in Route /\ cache.generation \in Nat
    BY <1>0 DEF LocalType, WorldType, Route
  <2>2. QED
    BY <2>1, RouteClosed, RouteConstants, Inhabited DEF Reported
<1>3. CASE Read \/ FindGateway \/ Verify \/ TargetsDone \/ ListTargets
  BY <1>1, <1>2, <1>3 DEF Read, FindGateway, Verify, TargetsDone, ListTargets, Refused
<1>4. CASE AddFinalizer \/ SaveLabel \/ DropFinalizer \/ WriteStatus
  BY <1>1, <1>2, <1>4
  DEF AddFinalizer, SaveLabel, DropFinalizer, WriteStatus, Patch, NotFound
<1>5. ASSUME NEW unsearched, NewResource(unsearched), targets' = targets
      PROVE  /\ resources' \subseteq Nat /\ extra' \subseteq Nat /\ nextRes' \in Nat \ {0}
             /\ targets' \subseteq Target
  BY <1>0, <1>5, NewResourceType DEF WorldType
<1>6. CASE Create
  <2>1. late' \in Nat /\ targets' = targets
    <3>1. (late' = late \/ late' = late + 1) /\ targets' = targets
      BY <1>6 DEF Create
    <3>2. QED
      BY <1>0, <3>1 DEF WorldType
  <2>2. resources' \subseteq Nat /\ extra' \subseteq Nat /\ nextRes' \in Nat \ {0}
    BY <1>0, <1>5, <1>6 DEF Create, WorldType
  <2>3. faults' \in 0 .. MaxFaults
    BY <1>0, <1>6, FaultType DEF Create, WorldType
  <2>4. UNCHANGED <<route, label, caches, live, refusing, changes>>
    BY <1>6 DEF Create
  <2>5. QED
    BY <1>0, <2>1, <2>2, <2>3, <2>4 DEF WorldType
<1>7. CASE DeleteOwn
  <2>1. resources' \subseteq resources /\ targets' \subseteq targets
    BY <1>7 DEF DeleteOwn, Deleted
  <2>2. Fault \/ UNCHANGED faults
    BY <1>7 DEF DeleteOwn
  <2>3. UNCHANGED <<route, label, creation, caches, live, refusing, changes>>
    BY <1>7 DEF DeleteOwn
  <2>4. QED
    BY <1>0, <2>1, <2>2, <2>3, FaultType DEF WorldType
<1>8. CASE CreateTarget
  <2>1. ASSUME NEW e \in todo PROVE TargetOf(res, e, site) \in Target
    BY <1>0, TargetType DEF LocalType
  <2>2. targets' \subseteq Target
    <3>1. \E e \in todo : targets' \in {targets, targets \cup {TargetOf(res, e, site)}}
      BY <1>8 DEF CreateTarget
    <3>2. targets \subseteq Target
      BY <1>0 DEF WorldType
    <3>3. QED
      BY <2>1, <3>1, <3>2
  <2>3. Fault \/ UNCHANGED faults
    BY <1>8 DEF CreateTarget
  <2>4. UNCHANGED <<route, label, resources, creation, caches, live, refusing, changes>>
    BY <1>8 DEF CreateTarget
  <2>5. QED
    BY <1>0, <2>2, <2>3, <2>4, FaultType DEF WorldType
<1>9. CASE ClearLabel
  BY <1>0, <1>9, FaultType DEF ClearLabel, WorldType, NoSite
<1>10. CASE Edit
  <2>1. route' \in Route
    BY <1>2, <1>10, RouteClosed, Inhabited DEF Edit
  <2>2. changes' \in 0 .. MaxChanges
    BY <1>0, <1>10 DEF Edit, WorldType
  <2>3. QED
    BY <1>0, <1>10, <2>1, <2>2 DEF Edit, WorldType
<1>11. CASE UserDeletes
  BY <1>0, <1>2, <1>11 DEF UserDeletes, WorldType
<1>12. CASE RouteSync \/ GatewaySync
  BY <1>0, <1>12 DEF RouteSync, GatewaySync, WorldType
<1>13. CASE GatewayReconciles
  <2>1. MaxChanges - changes + 1 \in Nat
    BY <1>0 DEF WorldType
  <2>2. QED
    BY <1>0, <1>13, <2>1 DEF GatewayReconciles, WorldType
<1>14. CASE Outsider
  <2>1. changes' \in 0 .. MaxChanges
    BY <1>0, <1>14 DEF Outsider, WorldType
  <2>2. resources' \subseteq resources /\ targets' \subseteq Target
    BY <1>0, <1>14 DEF Outsider, Deleted, WorldType
  <2>3. live' \in Nat
    BY <1>0, <1>14 DEF Outsider, NoSite, WorldType
  <2>4. UNCHANGED <<route, caches, label, refusing, creation, faults>>
    BY <1>14 DEF Outsider
  <2>5. QED
    BY <1>0, <2>1, <2>2, <2>3, <2>4 DEF WorldType
<1>15. CASE LateCreate
  <2>1. late' \in Nat /\ targets' = targets
    BY <1>0, <1>15 DEF LateCreate, WorldType
  <2>2. resources' \subseteq Nat /\ extra' \subseteq Nat /\ nextRes' \in Nat \ {0}
    BY <1>0, <1>5, <1>15 DEF LateCreate, WorldType
  <2>3. UNCHANGED <<route, caches, label, live, refusing, changes, faults>>
    BY <1>15 DEF LateCreate
  <2>4. QED
    BY <1>0, <2>1, <2>2, <2>3 DEF WorldType
<1>16. CASE Crash
  BY <1>0, <1>16, FaultType DEF Crash, WorldType
<1>17. CASE UNCHANGED vars
  BY <1>0, <1>17 DEF vars, WorldType
<1>18. QED
  BY <1>3, <1>4, <1>6, <1>7, <1>8, <1>9, <1>10, <1>11, <1>12, <1>13, <1>14,
     <1>15, <1>16, <1>17
  DEF Next, Reconcile, Environment

(* Type correctness of one step. *)
LEMMA StepType == TypeOK /\ [Next]_vars => TypeOK'
<1>1. (LocalType /\ WorldType)' => TypeOK'
  BY DEF TypeOK, LocalType, WorldType
<1>2. QED
  BY <1>1, StepLocalType, StepWorldType

(* How one step can change the resources: none is added, or the reconciler *)
(* adds one, or a late CreateResource does; and a creation for a route that *)
(* has a label starts only when none is listed.                            *)
ResourcesShrink ==
  /\ resources' \subseteq resources /\ extra' = extra /\ nextRes' = nextRes
  /\ pc' = "create" /\ ~Unsearched' => (pc = "create" /\ ~Unsearched) \/ resources = {}

ResourceAdded == pc = "create" /\ pc' # "create" /\ NewResource(Unsearched)

LateStep == NewResource(TRUE) /\ pc' = pc /\ snap' = snap

(* Every step changes the resources in one of these ways. *)
LEMMA ResourcesStep ==
  ASSUME TypeOK, [Next]_vars
  PROVE  /\ ResourcesShrink \/ ResourceAdded \/ LateStep
         /\ MayHaveResource' => (MayHaveResource \/ pc = "create")
<1> USE DEF pangolin, local, creation, ResourcesShrink, ResourceAdded, LateStep, MayHaveResource
<1>0. 0 \in Nat /\ late \in Nat /\ cache \in Route /\ snap \in Route
  BY DEF TypeOK
<1>1. CASE UNCHANGED <<resources, extra, nextRes, late>> /\ pc' # "create"
  BY <1>1
<1>2. Return => pc' # "create"
  BY DEF Return
<1>3. Conclude(TRUE) \/ Conclude(FALSE) => pc' # "create"
  BY DEF Conclude
<1>4. CASE Read
  <2>1. pc' # "create"
    BY <1>0, <1>4, EntryType DEF Read
  <2>2. QED
    BY <1>1, <1>4, <2>1 DEF Read
<1>5. CASE AddFinalizer \/ DropFinalizer \/ SaveLabel \/ WriteStatus
  <2>1. pc' # "create"
    BY <1>2, <1>3, <1>5 DEF AddFinalizer, DropFinalizer, SaveLabel, WriteStatus, Patch, NotFound
  <2>2. QED
    BY <1>1, <1>5, <2>1 DEF AddFinalizer, DropFinalizer, SaveLabel, WriteStatus, Patch
<1>6. CASE FindGateway
  <2>1. UNCHANGED <<resources, extra, nextRes, late>>
    BY <1>6 DEF FindGateway
  <2>2. pc' = "create" => snap.label = NoResource /\ snap' = snap
    BY <1>2, <1>3, <1>6 DEF FindGateway
  <2>3. QED
    BY <2>1, <2>2 DEF Unsearched
<1>7. CASE Verify
  <2>1. UNCHANGED <<resources, extra, nextRes, late>>
    BY <1>7 DEF Verify, Refused
  <2>2. pc' = "create" => resources = {}
    BY <1>3, <1>7 DEF Verify, Refused
  <2>3. QED
    BY <2>1, <2>2
<1>8. CASE Create
  <2>1. CASE NewResource(Unsearched)
    <3>1. pc = "create" /\ pc' # "create"
      BY <1>3, <1>8 DEF Create
    <3>2. QED
      BY <2>1, <3>1
  <2>2. CASE ~NewResource(Unsearched)
    <3>1. UNCHANGED <<resources, extra, nextRes>> /\ pc = "create" /\ pc' # "create"
      BY <1>3, <1>8, <2>2 DEF Create
    <3>2. QED
      BY <3>1
  <2>3. QED
    BY <2>1, <2>2
<1>9. CASE DeleteOwn
  <2>1. resources' \subseteq resources /\ UNCHANGED <<extra, nextRes, late>> /\ pc' # "create"
    BY <1>2, <1>9 DEF DeleteOwn, Deleted
  <2>2. QED
    BY <2>1
<1>10. CASE ListTargets \/ CreateTarget \/ TargetsDone \/ ClearLabel
  <2>1. pc' # "create"
    BY <1>3, <1>10 DEF ListTargets, CreateTarget, TargetsDone, ClearLabel
  <2>2. QED
    BY <1>1, <1>10, <2>1 DEF ListTargets, CreateTarget, TargetsDone, ClearLabel
<1>11. CASE Edit \/ UserDeletes \/ RouteSync \/ GatewaySync \/ GatewayReconciles
  <2>1. UNCHANGED <<resources, extra, nextRes, late, pc, snap>>
    BY <1>11 DEF Edit, UserDeletes, RouteSync, GatewaySync, GatewayReconciles
  <2>2. QED
    BY <2>1 DEF Unsearched
<1>12. CASE Outsider
  <2>1. resources' \subseteq resources /\ UNCHANGED <<extra, nextRes, late, pc, snap>>
    BY <1>12 DEF Outsider, Deleted
  <2>2. QED
    BY <2>1 DEF Unsearched
<1>13. CASE LateCreate
  <2>1. late > 0 /\ UNCHANGED <<pc, snap>>
    BY <1>13 DEF LateCreate
  <2>2. CASE NewResource(TRUE)
    BY <2>1, <2>2
  <2>3. CASE UNCHANGED <<resources, extra, nextRes>>
    BY <2>1, <2>3 DEF Unsearched
  <2>4. QED
    BY <1>13, <2>2, <2>3 DEF LateCreate
<1>14. CASE Crash
  BY <1>1, <1>2, <1>14 DEF Crash
<1>15. CASE UNCHANGED vars
  BY <1>15 DEF vars, Unsearched
<1>16. QED
  BY <1>4, <1>5, <1>6, <1>7, <1>8, <1>9, <1>10, <1>11, <1>12, <1>13, <1>14, <1>15
  DEF Next, Reconcile, Environment

(* The parts of the invariant that are about resources. *)
LEMMA StepResources ==
  ASSUME TypeOK, AtMostOneRecreated, RecreatesOnlyWhenNone, [Next]_vars
  PROVE  AtMostOneRecreated' /\ RecreatesOnlyWhenNone'
<1> USE DEF AtMostOneRecreated, RecreatesOnlyWhenNone
<1>1. CASE ResourcesShrink
  BY <1>1 DEF ResourcesShrink
<1>2. CASE ResourceAdded
  <2>1. CASE Unsearched
    <3>1. resources' \ extra' \subseteq resources \ extra
      BY <1>2, <2>1 DEF ResourceAdded, NewResource
    <3>2. QED
      BY <1>2, <3>1 DEF ResourceAdded
  <2>2. CASE ~Unsearched
    <3>1. resources' \ extra' \subseteq {nextRes}
      BY <1>2, <2>2 DEF ResourceAdded, NewResource
    <3>2. QED
      BY <1>2, <3>1 DEF ResourceAdded
  <2>3. QED
    BY <2>1, <2>2
<1>3. CASE LateStep
  <2>1. /\ resources' = resources \cup {nextRes} /\ extra' = extra \cup {nextRes}
        /\ pc' = pc /\ snap' = snap
    BY <1>3 DEF LateStep, NewResource
  <2>2. QED
    BY <2>1 DEF Unsearched
<1>4. QED
  BY <1>1, <1>2, <1>3, ResourcesStep

(* Ids stay issued in order. *)
LEMMA StepIds == TypeOK /\ IdsIssued /\ [Next]_vars => IdsIssued'
<1> SUFFICES ASSUME TypeOK, IdsIssued, [Next]_vars PROVE IdsIssued'
  OBVIOUS
<1>1. nextRes \in Nat /\ resources \subseteq Nat /\ extra \subseteq Nat
  BY DEF TypeOK
<1>2. CASE ResourcesShrink
  BY <1>2 DEF ResourcesShrink, IdsIssued
<1>3. ASSUME resources' \cup extra' \subseteq resources \cup extra \cup {nextRes},
             nextRes' = nextRes + 1
      PROVE  IdsIssued'
  <2>1. ASSUME NEW id \in resources' \cup extra' PROVE id < nextRes'
    <3>1. CASE id = nextRes
      BY <1>1, <1>3, <3>1
    <3>2. CASE id # nextRes
      <4>1. id \in resources \cup extra
        BY <1>3, <2>1, <3>2
      <4>2. id \in Nat /\ id < nextRes
        BY <1>1, <4>1 DEF IdsIssued
      <4>3. QED
        BY <1>1, <1>3, <4>2
    <3>3. QED
      BY <3>1, <3>2
  <2>2. QED
    BY <2>1 DEF IdsIssued
<1>4. CASE ResourceAdded
  BY <1>3, <1>4 DEF ResourceAdded, NewResource
<1>5. CASE LateStep
  BY <1>3, <1>5 DEF LateStep, NewResource
<1>6. QED
  BY <1>2, <1>4, <1>5, ResourcesStep

(* How one step can change the route on the API server and in the cache,   *)
(* and how the reconciler can get past AddFinalizer or start to delete.    *)
RouteStep ==
  \/ route' = route
  \/ route' = WithFinalizer(route)
  \/ route' = WithDeletion(route)
  \/ \E n \in Nat : route' = WithLabel(route, n)
  \/ \E a \in BOOLEAN, w \in SUBSET Endpoints : route' = WithSpec(route, a, w)
  \/ \E v \in Verdicts, g \in Nat : route' = WithStatus(route, v, g)
  \/ route' = Gone

CacheStep == cache' = cache \/ (cache' = route /\ route' = route)

ControlStep ==
  \/ pc' \in Early
  \/ pc \notin Early /\ (pc' \in Deleting => pc \in Deleting)
  \/ pc' = Entry(cache) /\ route' = route
  \/ route' = WithFinalizer(route) /\ pc' \notin Deleting

(* Every step changes the route in one of these ways. *)
LEMMA KubeStep ==
  ASSUME TypeOK, [Next]_vars
  PROVE  RouteStep /\ CacheStep /\ ControlStep
<1> USE DEF pangolin, local, caches, Own, RouteStep, CacheStep, ControlStep, Deleting
<1>0. /\ route \in Route /\ res \in Nat /\ route.generation \in Nat
      /\ "idle" \in Early /\ "addFinalizer" \in Early
  BY DEF TypeOK, Route, Early
<1>1. Return => pc' \in Early
  BY DEF Return, Early
<1>2. CASE Read
  BY <1>2 DEF Read
<1>3. CASE AddFinalizer
  BY <1>0, <1>1, <1>3 DEF AddFinalizer, Patch, NotFound
<1>4. CASE DeleteOwn \/ DropFinalizer
  <2>1. pc \notin Early /\ pc \in Deleting
    BY <1>4 DEF DeleteOwn, DropFinalizer, Early
  <2>2. UNCHANGED cache /\ route' \in {route, Gone}
    BY <1>4 DEF DeleteOwn, DropFinalizer, Patch, NotFound
  <2>3. QED
    BY <2>1, <2>2
<1>5. CASE FindGateway \/ Verify \/ Create \/ ListTargets \/ CreateTarget
  <2>1. pc \notin Early /\ pc' \notin Deleting
    BY <1>5 DEF FindGateway, Verify, Create, ListTargets, CreateTarget, Refused, Return, Conclude,
                Early
  <2>2. UNCHANGED <<route, cache>>
    BY <1>5 DEF FindGateway, Verify, Create, ListTargets, CreateTarget, Refused
  <2>3. QED
    BY <2>1, <2>2
<1>6. CASE TargetsDone \/ ClearLabel
  <2>1. pc \notin Early /\ pc' \notin Deleting /\ UNCHANGED <<route, cache>>
    BY <1>6 DEF TargetsDone, ClearLabel, Early, Conclude
  <2>2. QED
    BY <2>1
<1>7. CASE SaveLabel
  <2>1. /\ pc \notin Early /\ pc' \notin Deleting /\ UNCHANGED cache
        /\ route' \in {route, WithLabel(route, res)}
    BY <1>7 DEF SaveLabel, Early, Return, Conclude
  <2>2. QED
    BY <1>0, <2>1
<1>8. CASE WriteStatus
  <2>1. pc \notin Early /\ pc' \notin Deleting /\ UNCHANGED cache
    BY <1>8 DEF WriteStatus, Early, Return
  <2>2. route' \in {route, WithStatus(route, Verdict, route.generation)}
    BY <1>8 DEF WriteStatus, Reported
  <2>3. QED
    BY <1>0, <2>1, <2>2, Inhabited
<1>9. CASE Edit
  <2>1. UNCHANGED <<cache, pc>>
    BY <1>9 DEF Edit
  <2>2. QED
    BY <1>9, <2>1 DEF Edit
<1>10. CASE UserDeletes
  <2>1. UNCHANGED <<cache, pc>> /\ route' \in {WithDeletion(route), Gone}
    BY <1>10 DEF UserDeletes
  <2>2. QED
    BY <2>1
<1>11. CASE RouteSync \/ GatewaySync \/ GatewayReconciles \/ Outsider \/ LateCreate
  BY <1>11 DEF RouteSync, GatewaySync, GatewayReconciles, Outsider, LateCreate
<1>12. CASE Crash
  BY <1>1, <1>12 DEF Crash
<1>13. CASE UNCHANGED vars
  BY <1>13 DEF vars
<1>14. QED
  BY <1>2, <1>3, <1>4, <1>5, <1>6, <1>7, <1>8, <1>9, <1>10, <1>11, <1>12, <1>13
  DEF Next, Reconcile, Environment

(* A route never comes back, and while it is there its finalizer and its   *)
(* deletion stay.                                                          *)
LEMMA RouteMonotone ==
  ASSUME route \in Route, RouteStep, route'.exists
  PROVE  /\ route.exists
         /\ route.finalizer => route'.finalizer
         /\ route.deleting => route'.deleting
<1>1. CASE \E n \in Nat : route' = WithLabel(route, n)
  <2>1. PICK n \in Nat : route' = WithLabel(route, n)
    BY <1>1
  <2>2. /\ route'.exists = route.exists /\ route'.finalizer = route.finalizer
        /\ route'.deleting = route.deleting
    BY <2>1, RouteFields, Inhabited
  <2>3. QED
    BY <2>2
<1>2. CASE \E a \in BOOLEAN, w \in SUBSET Endpoints : route' = WithSpec(route, a, w)
  <2>1. PICK a \in BOOLEAN, w \in SUBSET Endpoints : route' = WithSpec(route, a, w)
    BY <1>2
  <2>2. QED
    BY <2>1, RouteFields, Inhabited
<1>3. CASE \E v \in Verdicts, g \in Nat : route' = WithStatus(route, v, g)
  <2>1. PICK v \in Verdicts, g \in Nat : route' = WithStatus(route, v, g)
    BY <1>3
  <2>2. /\ route'.exists = route.exists /\ route'.finalizer = route.finalizer
        /\ route'.deleting = route.deleting
    BY <2>1 DEF WithStatus, Route
  <2>3. QED
    BY <2>2
<1>4. CASE route' = WithFinalizer(route)
  <2>1. /\ route'.exists = route.exists /\ route'.deleting = route.deleting
        /\ route'.finalizer
    BY <1>4, RouteFields, Inhabited
  <2>2. QED
    BY <2>1
<1>5. CASE route' = WithDeletion(route)
  <2>1. /\ route'.exists = route.exists /\ route'.finalizer = route.finalizer
        /\ route'.deleting
    BY <1>5, RouteFields, Inhabited
  <2>2. QED
    BY <2>1
<1>6. QED
  BY <1>1, <1>2, <1>3, <1>4, <1>5, RouteConstants DEF RouteStep

(* The part of the invariant that is about the finalizer. *)
LEMMA StepCovered ==
  ASSUME TypeOK, Covered, [Next]_vars
  PROVE  Covered'
<1> SUFFICES ASSUME route'.exists,
                    \/ pc' \notin Early
                    \/ cache'.finalizer
                    \/ MayHaveResource'
             PROVE  route'.finalizer
  BY DEF Covered, Early
<1>1. route \in Route /\ cache \in Route
  BY DEF TypeOK
<1>2. route.exists /\ (route.finalizer => route'.finalizer)
  BY <1>1, KubeStep, RouteMonotone
<1>3. CASE route.finalizer
  BY <1>2, <1>3
<1>4. CASE ~route.finalizer
  <2>1. pc \in Early /\ ~cache.finalizer /\ ~MayHaveResource
    BY <1>2, <1>4 DEF Covered
  <2>2. ~MayHaveResource'
    BY <2>1, ResourcesStep DEF Early
  <2>3. ~cache'.finalizer \/ route'.finalizer
    BY <1>4, <2>1, KubeStep DEF CacheStep
  <2>4. CASE pc' \notin Early
    <3>1. Entry(cache) \in Early
      BY <1>1, <2>1, EntryType
    <3>2. route' = WithFinalizer(route)
      BY <2>1, <2>4, <3>1, KubeStep DEF ControlStep
    <3>3. QED
      BY <1>1, <3>2, RouteFields, Inhabited
  <2>5. QED
    BY <2>2, <2>3, <2>4
<1>5. QED
  BY <1>3, <1>4

(* Deletion stays final. *)
LEMMA StepDeletion ==
  ASSUME TypeOK, DeletionIsFinal, [Next]_vars
  PROVE  DeletionIsFinal'
<1> SUFFICES ASSUME route'.exists, cache'.deleting \/ pc' \in Deleting
             PROVE  route'.deleting
  BY DEF DeletionIsFinal, Deleting
<1>1. route \in Route /\ cache \in Route
  BY DEF TypeOK
<1>2. route.exists /\ (route.deleting => route'.deleting)
  BY <1>1, KubeStep, RouteMonotone
<1>3. CASE route.deleting
  BY <1>2, <1>3
<1>4. CASE ~route.deleting
  <2>1. ~cache.deleting /\ pc \notin Deleting
    BY <1>2, <1>4 DEF DeletionIsFinal, Deleting
  <2>2. ~cache'.deleting \/ route'.deleting
    BY <1>4, <2>1, KubeStep DEF CacheStep
  <2>3. Entry(cache) \notin Deleting
    BY <1>1, <2>1, EntryType DEF Deleting
  <2>4. pc' \notin Deleting
    BY <2>1, <2>3, KubeStep DEF ControlStep, Early, Deleting
  <2>5. QED
    BY <2>2, <2>4
<1>5. QED
  BY <1>3, <1>4

(* Every step keeps the invariant. *)
LEMMA StepInv == GRPCInv /\ [Next]_vars => GRPCInv'
BY StepType, StepIds, StepResources, StepCovered, StepDeletion DEF GRPCInv

(* The inductive invariant holds of every behaviour. *)
LEMMA AlwaysInv == Spec => []GRPCInv
BY InitInv, StepInv, PTL DEF Spec

(* Type correctness: GRPCRoute keeps every variable in its range. *)
THEOREM TypeCorrect == Spec => []TypeOK
<1>1. GRPCInv => TypeOK
  BY DEF GRPCInv
<1>2. QED
  BY <1>1, AlwaysInv, PTL

(* recreateResource makes no second resource, however stale the label that *)
(* led to it and whatever is lost: the list has been searched, by name too. *)
THEOREM OneRecreated == Spec => []AtMostOneRecreated
<1>1. GRPCInv => AtMostOneRecreated
  BY DEF GRPCInv
<1>2. QED
  BY <1>1, AlwaysInv, PTL

(* A route that has a resource has the finalizer, whatever fails and       *)
(* however far the caches lag; a creation still on its way included.       *)
THEOREM FinalizerFirst == Spec => []FinalizerCoversResource
<1>1. GRPCInv => FinalizerCoversResource
  BY DEF GRPCInv, Covered, MayHaveResource, FinalizerCoversResource
<1>2. QED
  BY <1>1, AlwaysInv, PTL

(* What the phases stand for. *)
LEMMA Phases ==
  ASSUME NEW o \in Route
  PROVE  /\ Phase(o) = "gone" <=> ~o.exists
         /\ Phase(o) = "doomed" <=> o.exists /\ o.deleting
         /\ Phase(o) = "kept" <=> o.exists /\ ~o.deleting /\ o.finalizer
         /\ Phase(o) = "new" <=> o.exists /\ ~o.deleting /\ ~o.finalizer
         /\ Phase(o) \in {"gone", "doomed", "kept", "new"}
<1>1. o.exists \in BOOLEAN /\ o.deleting \in BOOLEAN /\ o.finalizer \in BOOLEAN
  BY DEF Route
<1>2. QED
  BY <1>1 DEF Phase

(* Labels, edits and the status leave the phase alone. *)
LEMMA PhaseKept ==
  ASSUME NEW o \in Route, NEW n \in Nat, NEW a \in BOOLEAN, NEW w \in SUBSET Endpoints,
         NEW v \in Verdicts
  PROVE  /\ Phase(WithLabel(o, n)) = Phase(o) /\ Phase(WithSpec(o, a, w)) = Phase(o)
         /\ Phase(WithStatus(o, v, n)) = Phase(o)
BY RouteFields DEF Phase

(* The finalizer, a deletion and the end of the route move it on. *)
LEMMA PhaseMoves ==
  ASSUME NEW o \in Route
  PROVE  /\ Phase(o) = "new" => Phase(WithFinalizer(o)) = "kept"
         /\ Phase(o) # "new" => Phase(WithFinalizer(o)) = Phase(o)
         /\ o.exists => Phase(WithDeletion(o)) = "doomed"
         /\ Phase(Gone) = "gone"
<1>1. /\ WithFinalizer(o).finalizer
      /\ WithFinalizer(o).exists = o.exists /\ WithFinalizer(o).deleting = o.deleting
      /\ WithDeletion(o).exists = o.exists /\ WithDeletion(o).deleting
  BY RouteFields, Inhabited
<1>2. o.exists \in BOOLEAN /\ o.deleting \in BOOLEAN /\ o.finalizer \in BOOLEAN
  BY DEF Route
<1>3. QED
  BY <1>1, <1>2, RouteConstants DEF Phase

(* A step of the promise, or none. *)
PromiseStep == Promise!PNext \/ UNCHANGED Promise!promiseVars

(* A step that leaves resources alone changes the route as the promise says. *)
LEMMA RouteRefines ==
  ASSUME route \in Route, UNCHANGED <<resources, extra, late, changes>>,
         \/ route' = route \/ route' = WithFinalizer(route)
         \/ \E n \in Nat : route' = WithLabel(route, n)
         \/ \E v \in Verdicts, g \in Nat : route' = WithStatus(route, v, g)
         \/ route.exists /\ ~route.deleting /\ route.finalizer /\ route' = WithDeletion(route)
         \/ route.exists /\ ~route.deleting /\ ~route.finalizer /\ route' = Gone
         \/ route.exists /\ route.deleting /\ route' = Gone
  PROVE  PromiseStep
<1> USE DEF PromiseStep, Promise!PNext, Promise!promiseVars
<1>1. CASE Phase(route') = Phase(route)
  BY <1>1 DEF Phase
<1>2. CASE Phase(route) = "new" /\ Phase(route') = "kept"
  BY <1>2 DEF Promise!Protect, Promise!Becomes, Phase
<1>3. CASE Phase(route) = "kept" /\ Phase(route') = "doomed"
  BY <1>3 DEF Promise!MarkDeleted, Promise!Becomes, Phase
<1>4. CASE Phase(route) = "new" /\ Phase(route') = "gone"
  BY <1>4 DEF Promise!MarkDeleted, Promise!Becomes, Phase
<1>5. CASE Phase(route) = "doomed" /\ Phase(route') = "gone"
  BY <1>5 DEF Promise!Release, Promise!Becomes, Phase
<1>6. CASE \E n \in Nat : route' = WithLabel(route, n)
  <2>1. PICK n \in Nat : route' = WithLabel(route, n)
    BY <1>6
  <2>2. QED
    BY <1>1, <2>1, PhaseKept, Inhabited
<1>7. CASE \E v \in Verdicts, g \in Nat : route' = WithStatus(route, v, g)
  <2>1. PICK v \in Verdicts, g \in Nat : route' = WithStatus(route, v, g)
    BY <1>7
  <2>2. QED
    BY <1>1, <2>1, PhaseKept, Inhabited
<1>8. CASE route' = route \/ route' = WithFinalizer(route)
  BY <1>1, <1>2, <1>8, PhaseMoves
<1>9. CASE \/ route.exists /\ ~route.deleting /\ route.finalizer /\ route' = WithDeletion(route)
           \/ route.exists /\ ~route.deleting /\ ~route.finalizer /\ route' = Gone
           \/ route.exists /\ route.deleting /\ route' = Gone
  <2>1. \/ Phase(route) = "kept" /\ Phase(route') = "doomed"
        \/ Phase(route) = "new" /\ Phase(route') = "gone"
        \/ Phase(route) = "doomed" /\ Phase(route') = "gone"
    BY <1>9, Phases, PhaseMoves
  <2>2. QED
    BY <1>3, <1>4, <1>5, <2>1
<1>10. QED
  BY <1>6, <1>7, <1>8, <1>9

(* A route that the reconciler works on has its finalizer or is gone; one  *)
(* whose deletion it carries out is being deleted or gone.                 *)
LEMMA Working ==
  ASSUME GRPCInv, pc \notin Early
  PROVE  /\ Phase(route) # "new"
         /\ pc \in Deleting => Phase(route) \in {"doomed", "gone"}
<1>1. route \in Route
  BY DEF GRPCInv, TypeOK
<1>2. route.exists => route.finalizer
  BY DEF GRPCInv, Covered, Early
<1>3. pc \in Deleting => ~route.exists \/ route.deleting
  BY DEF GRPCInv, DeletionIsFinal, Deleting
<1>4. QED
  BY <1>1, <1>2, <1>3, Phases

(* A resource that is added is one more for the promise. *)
LEMMA OneMoreResource ==
  ASSUME GRPCInv, NEW more, NewResource(more)
  PROVE  /\ Promise!OneMore /\ resources' \ resources = {nextRes}
         /\ extra' = IF more THEN extra \cup (resources' \ resources) ELSE extra
<1>1. nextRes \notin resources \cup extra
  BY DEF GRPCInv, TypeOK, IdsIssued
<1>2. resources' = resources \cup {nextRes}
  BY DEF NewResource
<1>3. QED
  BY <1>1, <1>2 DEF Promise!OneMore, NewResource

(* The GRPCRoute reconciler keeps the promise: it makes a resource under   *)
(* the finalizer, a second one only in a first creation or late, and takes *)
(* none from a route that lives.                                           *)
THEOREM Refinement == Spec => ImplementsPromise
<1>1. Init => Promise!PInit
  BY GRPCAssumption DEF Init, NewRoute, Phase, Promise!PInit
<1>2. GRPCInv /\ [Next]_vars => [Promise!PNext]_(Promise!promiseVars)
  <2> SUFFICES ASSUME GRPCInv, [Next]_vars PROVE PromiseStep
    BY DEF PromiseStep
  <2> USE DEF caches, pangolin, creation, local, Own
  <2>0. /\ route \in Route /\ res \in Nat /\ route.generation \in Nat
        /\ late \in Nat /\ changes \in Nat
    BY GRPCAssumption DEF GRPCInv, TypeOK, Route
  <2>1. CASE AddFinalizer \/ SaveLabel
    <3>1. UNCHANGED <<resources, extra, late, changes>>
      BY <2>1 DEF AddFinalizer, SaveLabel, Patch
    <3>2. \/ route' = route \/ route' = WithFinalizer(route) \/ route' = WithLabel(route, res)
      BY <2>1 DEF AddFinalizer, SaveLabel, Patch, NotFound
    <3>3. QED
      BY <2>0, <3>1, <3>2, RouteRefines
  <2>2. CASE WriteStatus
    <3>1. route' = route \/ route' = WithStatus(route, Verdict, route.generation)
      BY <2>2 DEF WriteStatus, Reported
    <3>2. UNCHANGED <<resources, extra, late, changes>>
      BY <2>2 DEF WriteStatus
    <3>3. QED
      BY <2>0, <3>1, <3>2, RouteRefines, Inhabited
  <2>3. CASE UserDeletes
    BY <2>0, <2>3, RouteRefines DEF UserDeletes
  <2>4. CASE DropFinalizer
    <3>1. route.exists => route.deleting
      BY <2>4 DEF DropFinalizer, GRPCInv, DeletionIsFinal
    <3>2. UNCHANGED <<resources, extra, late, changes>>
      BY <2>4 DEF DropFinalizer, Patch
    <3>3. route' = route \/ (route.exists /\ route' = Gone)
      BY <2>4 DEF DropFinalizer, Patch, NotFound
    <3>4. QED
      BY <2>0, <3>1, <3>2, <3>3, RouteRefines
  <2>5. CASE Create
    <3>1. Phase(route) # "new" /\ route' = route /\ changes' = changes
      BY <2>5, Working DEF Create, Early
    <3>2. CASE NewResource(Unsearched) /\ late' = late /\ ~Unsearched
      <4>1. Promise!OneMore /\ extra' = extra
        BY <3>2, OneMoreResource
      <4>2. resources \subseteq extra
        BY <2>5, <3>2 DEF Create, GRPCInv, RecreatesOnlyWhenNone
      <4>3. Promise!Make
        BY <3>1, <3>2, <4>1, <4>2 DEF Promise!Make, Phase
      <4>4. QED
        BY <4>3 DEF PromiseStep, Promise!PNext
    <3>3. CASE NewResource(Unsearched) /\ late' = late /\ Unsearched
      <4>1. Promise!OneMore /\ extra' = extra \cup (resources' \ resources)
        BY <3>3, OneMoreResource
      <4>2. Promise!MakeSpare
        BY <3>1, <3>3, <4>1 DEF Promise!MakeSpare, Phase
      <4>3. QED
        BY <4>2 DEF PromiseStep, Promise!PNext
    <3>4. CASE late' = late + 1 /\ UNCHANGED <<resources, extra>>
      <4>1. Promise!GiveUp
        BY <3>1, <3>4 DEF Promise!GiveUp, Phase
      <4>2. QED
        BY <4>1 DEF PromiseStep, Promise!PNext
    <3>5. CASE UNCHANGED <<resources, extra, late>>
      BY <2>0, <3>1, <3>5, RouteRefines
    <3>6. QED
      BY <2>5, <3>2, <3>3, <3>4, <3>5 DEF Create
  <2>6. CASE LateCreate
    <3>1. late > 0 /\ late' = late - 1 /\ UNCHANGED <<route, changes>>
      BY <2>6 DEF LateCreate
    <3>2. CASE NewResource(TRUE)
      <4>1. Promise!OneMore /\ extra' = extra \cup (resources' \ resources)
        BY <3>2, OneMoreResource
      <4>2. Promise!Arrive
        BY <3>1, <4>1 DEF Promise!Arrive, Phase
      <4>3. QED
        BY <4>2 DEF PromiseStep, Promise!PNext
    <3>3. CASE UNCHANGED <<resources, extra>>
      <4>1. Promise!Arrive
        BY <3>1, <3>3 DEF Promise!Arrive, Phase
      <4>2. QED
        BY <4>1 DEF PromiseStep, Promise!PNext
    <3>4. QED
      BY <2>6, <3>2, <3>3 DEF LateCreate
  <2>7. CASE DeleteOwn
    <3>1. UNCHANGED <<route, extra, late, changes>>
      BY <2>7 DEF DeleteOwn
    <3>2. Phase(route) \in {"doomed", "gone"}
      BY <2>7, Working DEF DeleteOwn, Early, Deleting
    <3>3. CASE resources' = resources
      BY <2>0, <3>1, <3>3, RouteRefines
    <3>4. CASE resources' # resources
      <4>1. resources' = resources \ {snap.label} /\ snap.label \in resources
        BY <2>7, <3>4 DEF DeleteOwn, Deleted
      <4>2. Promise!Delete
        BY <3>1, <3>2, <4>1 DEF Promise!Delete, Phase
      <4>3. QED
        BY <4>2 DEF PromiseStep, Promise!PNext
    <3>5. QED
      BY <3>3, <3>4
  <2>8. CASE Edit \/ Outsider
    <3>1. changes > 0 /\ changes' = changes - 1 /\ UNCHANGED <<extra, late>>
      BY <2>8 DEF Edit, Outsider
    <3>2. resources' \subseteq resources
      BY <2>8 DEF Edit, Outsider, Deleted
    <3>3. Phase(route') = Phase(route)
      <4>1. CASE Edit
        <5>1. PICK a \in BOOLEAN, w \in SUBSET Endpoints : route' = WithSpec(route, a, w)
          BY <4>1 DEF Edit
        <5>2. QED
          BY <2>0, <5>1, PhaseKept, Inhabited
      <4>2. CASE Outsider
        BY <4>2 DEF Outsider
      <4>3. QED
        BY <2>8, <4>1, <4>2
    <3>4. Promise!Lose
      BY <3>1, <3>2, <3>3 DEF Promise!Lose, Phase
    <3>5. QED
      BY <3>4 DEF PromiseStep, Promise!PNext
  <2>9. CASE UNCHANGED <<route, resources, extra, late, changes>>
    BY <2>0, <2>9, RouteRefines
  <2>10. CASE Read \/ FindGateway \/ Verify \/ ListTargets
    BY <2>9, <2>10 DEF Read, FindGateway, Verify, ListTargets, Refused
  <2>11. CASE CreateTarget \/ TargetsDone \/ ClearLabel
    BY <2>9, <2>11 DEF CreateTarget, TargetsDone, ClearLabel
  <2>12. CASE RouteSync \/ GatewaySync \/ GatewayReconciles \/ Crash
    BY <2>9, <2>12 DEF RouteSync, GatewaySync, GatewayReconciles, Crash
  <2>13. CASE UNCHANGED vars
    BY <2>9, <2>13 DEF vars
  <2>14. QED
    BY <2>1, <2>2, <2>3, <2>4, <2>5, <2>6, <2>7, <2>8, <2>10, <2>11, <2>12, <2>13
    DEF Next, Reconcile, Environment
<1>3. QED
  BY <1>1, <1>2, AlwaysInv, PTL DEF Spec, ImplementsPromise, Promise!PSpec
=============================================================================
