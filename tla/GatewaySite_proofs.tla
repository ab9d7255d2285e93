------------------------ MODULE GatewaySite_proofs ------------------------
(***************************************************************************)
(* Theorems about GatewaySite, for every number of faults and of sites     *)
(* deleted behind the controller's back.                                   *)
(***************************************************************************)
EXTENDS GatewaySite, TLAPS

(* The invariant holds initially. *)
LEMMA InitInv == Init => SiteInv
<1> SUFFICES ASSUME Init PROVE SiteInv
  OBVIOUS
<1> USE SiteAssumption DEF Init, NewGateway, Gone, NoSite, Absent, Empty
<1>1. gw \in Gateway /\ cache \in Gateway /\ snap \in Gateway
  BY DEF Gateway
<1>2. TypeOK
  BY <1>1 DEF TypeOK
<1>3. IdsIssued /\ AtMostOneSite /\ CreatesOnlyWhenNone /\ Covered /\ DeletionIsFinal
  BY DEF IdsIssued, AtMostOneSite, CreatesOnlyWhenNone, Covered, MayHaveSite, DeletionIsFinal
<1>4. QED
  BY <1>2, <1>3 DEF SiteInv

(* The API server's changes make a Gateway of a Gateway. *)
LEMMA GatewayClosed ==
  ASSUME NEW o \in Gateway, NEW n \in Nat
  PROVE  /\ WithFinalizer(o) \in Gateway /\ WithDeletion(o) \in Gateway
         /\ WithLabel(o, n) \in Gateway /\ Gone \in Gateway
BY DEF WithFinalizer, WithDeletion, WithLabel, Gone, Gateway, NoSite

(* What the API server's changes leave alone. *)
LEMMA GatewayFields ==
  ASSUME NEW o \in Gateway, NEW n \in Nat
  PROVE  /\ WithFinalizer(o).finalizer
         /\ WithFinalizer(o).exists = o.exists /\ WithFinalizer(o).deleting = o.deleting
         /\ WithDeletion(o).deleting
         /\ WithDeletion(o).exists = o.exists /\ WithDeletion(o).finalizer = o.finalizer
         /\ WithLabel(o, n).exists = o.exists /\ WithLabel(o, n).deleting = o.deleting
         /\ WithLabel(o, n).finalizer = o.finalizer
         /\ ~Gone.exists /\ ~Gone.deleting /\ ~Gone.finalizer
BY DEF WithFinalizer, WithDeletion, WithLabel, Gone, Gateway

(* A fault uses up a part of the budget. *)
LEMMA FaultType ==
  ASSUME faults \in 0 .. MaxFaults, Fault
  PROVE  faults' \in 0 .. MaxFaults
BY SiteAssumption DEF Fault

(* A site gets the next id. *)
LEMMA NewSiteType ==
  ASSUME sites \subseteq Nat, nextId \in Nat \ {0}, NewSite
  PROVE  /\ sites' = sites \cup {nextId} /\ sites' \subseteq Nat
         /\ nextId' = nextId + 1 /\ nextId' \in Nat \ {0}
BY DEF NewSite

(* The entry point of a reconcile is one of its calls, or there is none; it *)
(* touches Pangolin only if the copy has the finalizer, and deletes only if *)
(* the copy is being deleted.                                              *)
LEMMA EntryType ==
  ASSUME NEW o \in Gateway
  PROVE  /\ Entry(o) \in {"idle", "addFinalizer", "verify", "list", "deleteSite",
                          "dropFinalizer"}
         /\ Entry(o) \notin {"idle", "addFinalizer"} => o.finalizer
         /\ Entry(o) \in {"deleteSite", "dropFinalizer"} => o.deleting
         /\ Entry(o) # "create"
         /\ SiteEntry(o) \in {"list", "verify"}
<1>1. o.deleting \in BOOLEAN /\ o.finalizer \in BOOLEAN
  BY DEF Gateway
<1>2. SiteEntry(o) \in {"list", "verify"}
  BY DEF SiteEntry
<1>3. CASE o.deleting /\ ~o.finalizer
  BY <1>1, <1>2, <1>3 DEF Entry, DeleteEntry
<1>4. CASE o.deleting /\ o.finalizer
  BY <1>1, <1>2, <1>4 DEF Entry, DeleteEntry
<1>5. CASE ~o.deleting
  BY <1>1, <1>2, <1>5 DEF Entry
<1>6. QED
  BY <1>1, <1>3, <1>4, <1>5

(* A refused call of the reconciler keeps the types. *)
LEMMA RefusedType ==
  ASSUME TypeOK, Refused, UNCHANGED <<cache, pod, route, kills>>
  PROVE  TypeOK'
<1>1. Gone \in Gateway
  BY GatewayClosed, 0 \in Nat DEF TypeOK
<1>2. QED
  BY <1>1, FaultType DEF Refused, TypeOK, Return, NoSite, Empty, pangolin

(* Type correctness of one step. *)
LEMMA StepType == TypeOK /\ [Next]_vars => TypeOK'
<1> SUFFICES ASSUME TypeOK, [Next]_vars PROVE TypeOK'
  OBVIOUS
<1> USE SiteAssumption DEF TypeOK, kube, pangolin, local, Empty
<1>0. Gone \in Gateway
  BY GatewayClosed, 0 \in Nat
<1>1. CASE Read
  BY <1>1, EntryType DEF Read
<1>2. CASE AddFinalizer
  BY <1>0, FaultType, GatewayClosed, <1>2, EntryType
  DEF AddFinalizer, Patched, NotFound, Return, NoSite
<1>3. CASE Verify
  <2>0. UNCHANGED <<cache, pod, route, kills>>
    BY <1>3 DEF Verify
  <2>1. CASE Return /\ UNCHANGED <<gw, pangolin, secret, deploy, faults>>
    BY <1>0, <2>0, <2>1 DEF Return, NoSite
  <2>2. CASE pc' = "list" /\ UNCHANGED <<gw, pangolin, secret, deploy, faults, local>>
    BY <2>0, <2>2
  <2>3. CASE Refused
    BY <2>0, <2>3, RefusedType
  <2>4. QED
    BY <1>3, <2>1, <2>2, <2>3 DEF Verify
<1>4. CASE List
  <2>0. UNCHANGED <<cache, pod, route, kills>>
    BY <1>4 DEF List
  <2>1. ASSUME NEW s \in sites, site' = s, creds' = Empty, pc' \in {"secret", "label"},
               UNCHANGED <<gw, pangolin, secret, deploy, faults, snap>>
        PROVE  TypeOK'
    BY <2>0, <2>1
  <2>2. CASE pc' = "create" /\ UNCHANGED <<gw, pangolin, secret, deploy, faults, local>>
    BY <2>0, <2>2
  <2>3. CASE Refused
    BY <2>0, <2>3, RefusedType
  <2>4. QED
    BY <1>4, <2>1, <2>2, <2>3 DEF List
<1>5. CASE Create
  <2>0. UNCHANGED <<cache, pod, route, kills>>
    BY <1>5 DEF Create
  <2>1. CASE /\ NewSite /\ site' = nextId /\ creds' = nextId /\ pc' = "secret"
             /\ UNCHANGED <<gw, late, lateIds, secret, deploy, faults, snap>>
    <3>1. site' \in Nat /\ creds' \in Nat
      BY <2>1
    <3>2. QED
      BY <2>0, <2>1, <3>1, NewSiteType
  <2>2. CASE Refused
    BY <2>0, <2>2, RefusedType
  <2>3. CASE Fault /\ Return /\ NewSite /\ UNCHANGED <<gw, late, lateIds, secret, deploy>>
    BY <1>0, <2>0, <2>3, FaultType, NewSiteType DEF Return, NoSite
  <2>4. CASE /\ Fault /\ Return /\ late' = late + 1
             /\ UNCHANGED <<gw, sites, nextId, lateIds, secret, deploy>>
    <3>1. late' \in Nat
      BY <2>4
    <3>2. QED
      BY <1>0, <2>0, <2>4, <3>1, FaultType DEF Return, NoSite
  <2>5. QED
    BY <1>5, <2>1, <2>2, <2>3, <2>4 DEF Create
<1>6. CASE SaveSecret
  <2>0. UNCHANGED <<cache, pod, route, kills>>
    BY <1>6 DEF SaveSecret
  <2>1. CASE WriteSecret /\ pc' = "label" /\ UNCHANGED <<gw, pangolin, deploy, faults, local>>
    BY <2>0, <2>1 DEF WriteSecret
  <2>2. CASE Refused
    BY <2>0, <2>2, RefusedType
  <2>3. CASE WriteSecret /\ Fault /\ Return /\ UNCHANGED <<gw, pangolin, deploy>>
    BY <1>0, <2>0, <2>3, FaultType DEF WriteSecret, Return, NoSite
  <2>4. QED
    BY <1>6, <2>1, <2>2, <2>3 DEF SaveSecret
<1>7. CASE SaveLabel
  BY <1>0, FaultType, GatewayClosed, <1>7 DEF SaveLabel, Patched, NotFound, Return, NoSite
<1>8. CASE Restart
  BY <1>0, FaultType, GatewayClosed, <1>8 DEF Restart, Return, NoSite
<1>9. CASE DeleteSite
  <2>0. UNCHANGED <<cache, pod, route, kills>>
    BY <1>9 DEF DeleteSite
  <2>1. CASE /\ sites' = sites \ {snap.label} /\ pc' = "dropFinalizer"
             /\ UNCHANGED <<gw, nextId, late, lateIds, secret, deploy, faults, local>>
    BY <2>0, <2>1
  <2>2. CASE Refused
    BY <2>0, <2>2, RefusedType
  <2>3. CASE /\ Fault /\ Return /\ sites' = sites \ {snap.label}
             /\ UNCHANGED <<gw, nextId, late, lateIds, secret, deploy>>
    BY <1>0, <2>0, <2>3, FaultType DEF Return, NoSite
  <2>4. QED
    BY <1>9, <2>1, <2>2, <2>3 DEF DeleteSite
<1>10. CASE DropFinalizer
  BY <1>0, FaultType, GatewayClosed, <1>10 DEF DropFinalizer, NotFound, Return, NoSite
<1>11. CASE DeployNewt \/ PodStarts \/ PodEvicted
  BY <1>11 DEF DeployNewt, PodStarts, PodEvicted
<1>12. CASE RouteFindsSiteGone \/ RouteClearsLabel
  BY <1>0, FaultType, GatewayClosed, <1>12
  DEF RouteFindsSiteGone, RouteClearsLabel, NoSite
<1>13. CASE UserDeletes \/ CacheSync
  BY <1>0, FaultType, GatewayClosed, <1>13 DEF UserDeletes, CacheSync
<1>14. CASE SiteKilled \/ LateCreate
  <2>1. CASE SiteKilled
    BY <2>1 DEF SiteKilled
  <2>2. CASE LateCreate
    <3>1. late' \in Nat
      BY <2>2 DEF LateCreate
    <3>2. QED
      BY <2>2, <3>1, NewSiteType DEF LateCreate
  <2>3. QED
    BY <1>14, <2>1, <2>2
<1>15. CASE Crash
  BY <1>0, FaultType, GatewayClosed, <1>15 DEF Crash, Return, NoSite
<1>16. CASE GarbageCollect
  BY <1>16 DEF GarbageCollect, Absent
<1>17. CASE UNCHANGED vars
  BY <1>17 DEF vars
<1>18. QED
  BY <1>1, <1>2, <1>3, <1>4, <1>5, <1>6, <1>7, <1>8, <1>9, <1>10, <1>11, <1>12,
     <1>13, <1>14, <1>15, <1>16, <1>17
  DEF Next, Reconcile, Environment

(* How one step can change the sites: none is added, or the reconciler adds *)
(* one, or a late CreateSite does; and creation starts only when none is   *)
(* listed.                                                                 *)
SitesShrink ==
  /\ sites' \subseteq sites /\ lateIds' = lateIds /\ nextId' = nextId
  /\ pc' = "create" => (pc = "create" \/ sites = {})

SiteAdded == pc = "create" /\ pc' # "create" /\ NewSite /\ lateIds' = lateIds

(* A step leaves sites, ids and late creates alone, or is one of the above. *)
LEMMA SitesStep ==
  ASSUME TypeOK, [Next]_vars
  PROVE  /\ SitesShrink \/ SiteAdded \/ (LateCreate /\ pc' = pc)
         /\ MayHaveSite' => (MayHaveSite \/ pc = "create")
<1> USE DEF kube, pangolin, local, SitesShrink, SiteAdded, MayHaveSite
<1>1. CASE Read
  <2>1. pc' # "create"
    BY <1>1, EntryType DEF Read, TypeOK
  <2>2. QED
    BY <1>1, <2>1 DEF Read
<1>2. CASE AddFinalizer
  <2>1. pc' # "create"
    BY <1>2, EntryType DEF AddFinalizer, Patched, NotFound, Return, TypeOK
  <2>2. QED
    BY <1>2, <2>1 DEF AddFinalizer
<1>3. CASE Verify
  BY <1>3 DEF Verify, Refused, Return
<1>4. CASE List
  BY <1>4 DEF List, Refused, Return
<1>5. CASE Create
  BY <1>5 DEF Create, NewSite, Refused, Return
<1>6. CASE SaveSecret
  BY <1>6 DEF SaveSecret, Refused, Return
<1>7. CASE SaveLabel
  BY <1>7 DEF SaveLabel, Patched, NotFound, Return
<1>8. CASE Restart
  BY <1>8 DEF Restart, Return
<1>9. CASE DeleteSite
  BY <1>9 DEF DeleteSite, Refused, Return
<1>10. CASE DropFinalizer
  BY <1>10 DEF DropFinalizer, NotFound, Return
<1>11. CASE DeployNewt \/ PodStarts \/ PodEvicted \/ RouteFindsSiteGone
  BY <1>11 DEF DeployNewt, PodStarts, PodEvicted, RouteFindsSiteGone
<1>12. CASE RouteClearsLabel \/ UserDeletes \/ CacheSync \/ GarbageCollect
  BY <1>12 DEF RouteClearsLabel, UserDeletes, CacheSync, GarbageCollect
<1>13. CASE SiteKilled
  BY <1>13 DEF SiteKilled
<1>14. CASE LateCreate
  BY <1>14 DEF LateCreate
<1>15. CASE Crash
  BY <1>15 DEF Crash, Return
<1>16. CASE UNCHANGED vars
  BY <1>16 DEF vars
<1>17. QED
  BY <1>1, <1>2, <1>3, <1>4, <1>5, <1>6, <1>7, <1>8, <1>9, <1>10, <1>11, <1>12,
     <1>13, <1>14, <1>15, <1>16
  DEF Next, Reconcile, Environment

(* The parts of the invariant that are about sites. *)
LEMMA StepSites ==
  ASSUME TypeOK, IdsIssued, AtMostOneSite, CreatesOnlyWhenNone, [Next]_vars
  PROVE  IdsIssued' /\ AtMostOneSite' /\ CreatesOnlyWhenNone'
<1> USE DEF IdsIssued, AtMostOneSite, CreatesOnlyWhenNone
<1>1. CASE SitesShrink
  BY <1>1 DEF SitesShrink
<1>2. CASE SiteAdded
  <2>1. sites' = sites \cup {nextId} /\ nextId' = nextId + 1 /\ lateIds' = lateIds
    BY <1>2 DEF SiteAdded, NewSite
  <2>2. IdsIssued'
    BY <2>1 DEF TypeOK
  <2>3. sites' \ lateIds' \subseteq {nextId}
    BY <1>2, <2>1 DEF SiteAdded
  <2>4. QED
    BY <1>2, <2>2, <2>3 DEF SiteAdded
<1>3. CASE LateCreate /\ pc' = pc
  <2>1. /\ sites' = sites \cup {nextId} /\ nextId' = nextId + 1
        /\ lateIds' = lateIds \cup {nextId}
    BY <1>3 DEF LateCreate, NewSite
  <2>2. IdsIssued'
    BY <2>1 DEF TypeOK
  <2>3. QED
    BY <1>3, <2>1, <2>2
<1>4. QED
  BY <1>1, <1>2, <1>3, SitesStep

(* How one step can change the Gateway on the API server and in the cache, *)
(* and how the reconciler can get past AddFinalizer or start to delete.    *)
GatewayStep ==
  \/ gw' = gw
  \/ gw' = WithFinalizer(gw)
  \/ gw' = WithDeletion(gw)
  \/ \E n \in Nat : gw' = WithLabel(gw, n)
  \/ gw' = Gone

CacheStep == cache' = cache \/ (cache' = gw /\ gw' = gw)

Early == {"idle", "addFinalizer"}
Deleting == {"deleteSite", "dropFinalizer"}

ControlStep ==
  \/ pc' \in Early
  \/ pc \notin Early /\ (pc' \in Deleting => pc \in Deleting)
  \/ pc' = Entry(cache) /\ gw' = gw
  \/ gw' = WithFinalizer(gw) /\ pc' \notin Deleting

(* Every step changes the Gateway in one of these ways. *)
LEMMA KubeStep ==
  ASSUME TypeOK, [Next]_vars
  PROVE  GatewayStep /\ CacheStep /\ ControlStep
<1> USE DEF kube, pangolin, local, GatewayStep, CacheStep, ControlStep, Early, Deleting
<1>0. gw \in Gateway /\ site \in Nat /\ 0 \in Nat
  BY DEF TypeOK
<1>1. CASE Read
  BY <1>1 DEF Read
<1>2. CASE AddFinalizer
  <2>1. SiteEntry(gw) \in {"list", "verify"}
    BY <1>0, EntryType
  <2>2. QED
    BY <1>2, <2>1 DEF AddFinalizer, Patched, NotFound, Return
<1>3. CASE Verify
  BY <1>3 DEF Verify, Refused, Return
<1>4. CASE List
  BY <1>4 DEF List, Refused, Return
<1>5. CASE Create
  BY <1>5 DEF Create, Refused, Return
<1>6. CASE SaveSecret
  BY <1>6 DEF SaveSecret, Refused, Return
<1>7. CASE SaveLabel
  BY <1>0, <1>7 DEF SaveLabel, Patched, NotFound, Return
<1>8. CASE Restart
  BY <1>8 DEF Restart, Return
<1>9. CASE DeleteSite
  BY <1>9 DEF DeleteSite, Refused, Return
<1>10. CASE DropFinalizer
  BY <1>10 DEF DropFinalizer, NotFound, Return
<1>11. CASE DeployNewt \/ PodStarts \/ PodEvicted \/ RouteFindsSiteGone
  BY <1>11 DEF DeployNewt, PodStarts, PodEvicted, RouteFindsSiteGone
<1>12. CASE RouteClearsLabel
  BY <1>0, <1>12 DEF RouteClearsLabel, NoSite
<1>13. CASE UserDeletes
  BY <1>13 DEF UserDeletes
<1>14. CASE CacheSync \/ GarbageCollect \/ SiteKilled \/ LateCreate
  BY <1>14 DEF CacheSync, GarbageCollect, SiteKilled, LateCreate
<1>15. CASE Crash
  BY <1>15 DEF Crash, Return
<1>16. CASE UNCHANGED vars
  BY <1>16 DEF vars
<1>17. QED
  BY <1>1, <1>2, <1>3, <1>4, <1>5, <1>6, <1>7, <1>8, <1>9, <1>10, <1>11, <1>12,
     <1>13, <1>14, <1>15, <1>16
  DEF Next, Reconcile, Environment

(* A Gateway never comes back, and while it is there its finalizer and its *)
(* deletion stay.                                                          *)
LEMMA GatewayMonotone ==
  ASSUME gw \in Gateway, GatewayStep, gw'.exists
  PROVE  /\ gw.exists
         /\ gw.finalizer => gw'.finalizer
         /\ gw.deleting => gw'.deleting
BY GatewayFields, 0 \in Nat DEF GatewayStep

(* The parts of the invariant that are about the Gateway. *)
LEMMA StepCovered ==
  ASSUME TypeOK, Covered, [Next]_vars
  PROVE  Covered'
<1> SUFFICES ASSUME gw'.exists,
                    \/ pc' \notin Early
                    \/ cache'.finalizer
                    \/ MayHaveSite'
             PROVE  gw'.finalizer
  BY DEF Covered, Early
<1>1. gw \in Gateway /\ cache \in Gateway
  BY DEF TypeOK
<1>2. gw.exists /\ (gw.finalizer => gw'.finalizer)
  BY <1>1, KubeStep, GatewayMonotone
<1>3. CASE gw.finalizer
  BY <1>2, <1>3
<1>4. CASE ~gw.finalizer
  <2>1. pc \in Early /\ ~cache.finalizer /\ ~MayHaveSite
    BY <1>2, <1>4 DEF Covered, Early
  <2>2. ~MayHaveSite'
    BY <2>1, SitesStep DEF Early
  <2>3. ~cache'.finalizer \/ gw'.finalizer
    BY <1>4, <2>1, KubeStep DEF CacheStep
  <2>4. CASE pc' \notin Early
    <3>1. Entry(cache) \in Early
      BY <1>1, <2>1, EntryType DEF Early
    <3>2. gw' = WithFinalizer(gw)
      BY <2>1, <2>4, <3>1, KubeStep DEF ControlStep
    <3>3. QED
      BY <1>1, <3>2, GatewayFields, 0 \in Nat
  <2>5. QED
    BY <2>2, <2>3, <2>4
<1>5. QED
  BY <1>3, <1>4

(* Deletion stays final. *)
LEMMA StepDeletion ==
  ASSUME TypeOK, DeletionIsFinal, [Next]_vars
  PROVE  DeletionIsFinal'
<1> SUFFICES ASSUME gw'.exists, cache'.deleting \/ pc' \in Deleting
             PROVE  gw'.deleting
  BY DEF DeletionIsFinal, Deleting
<1>1. gw \in Gateway /\ cache \in Gateway
  BY DEF TypeOK
<1>2. gw.exists /\ (gw.deleting => gw'.deleting)
  BY <1>1, KubeStep, GatewayMonotone
<1>3. CASE gw.deleting
  BY <1>2, <1>3
<1>4. CASE ~gw.deleting
  <2>1. ~cache.deleting /\ pc \notin Deleting
    BY <1>2, <1>4 DEF DeletionIsFinal, Deleting
  <2>2. ~cache'.deleting \/ gw'.deleting
    BY <1>4, <2>1, KubeStep DEF CacheStep
  <2>3. Entry(cache) \notin Deleting
    BY <1>1, <2>1, EntryType DEF Deleting
  <2>4. pc' \notin Deleting
    BY <2>1, <2>3, KubeStep DEF ControlStep, Early, Deleting
  <2>5. QED
    BY <2>2, <2>4
<1>5. QED
  BY <1>3, <1>4

(* Every step keeps the invariant. *)
LEMMA StepInv == SiteInv /\ [Next]_vars => SiteInv'
BY StepType, StepSites, StepCovered, StepDeletion DEF SiteInv

(* The inductive invariant holds of every behaviour. *)
LEMMA AlwaysInv == Spec => []SiteInv
BY InitInv, StepInv, PTL DEF Spec

(* Type correctness: GatewaySite keeps every variable in its range. *)
THEOREM TypeCorrect == Spec => []TypeOK
<1>1. SiteInv => TypeOK
  BY DEF SiteInv
<1>2. QED
  BY <1>1, AlwaysInv, PTL

(* ensureSite makes no second site: duplicates come only from CreateSite   *)
(* calls that took effect after the client had given them up.              *)
THEOREM OneSite == Spec => []AtMostOneSite
<1>1. SiteInv => AtMostOneSite
  BY DEF SiteInv
<1>2. QED
  BY <1>1, AlwaysInv, PTL

(* A Gateway that has a site has the finalizer, whatever fails and however *)
(* far the cache lags.                                                     *)
THEOREM FinalizerFirst == Spec => []FinalizerCoversSites
<1>1. SiteInv => FinalizerCoversSites
  BY DEF SiteInv, Covered, MayHaveSite, FinalizerCoversSites
<1>2. QED
  BY <1>1, AlwaysInv, PTL

(* Losses apart, only DeleteSite takes a site away. *)
LEMMA SitesStay ==
  ASSUME TypeOK, [Next]_vars, NEW s \in sites, s \notin sites', kills' = kills
  PROVE  pc = "deleteSite"
<1> USE DEF kube, pangolin, local
<1>1. ~SiteKilled
  BY DEF TypeOK, SiteKilled
<1>2. ~LateCreate
  BY DEF LateCreate, NewSite
<1>3. ~Create
  BY DEF Create, NewSite, Refused
<1>4. DeleteSite
  BY <1>1, <1>2, <1>3
  DEF Next, Reconcile, Environment, vars, Read, AddFinalizer, Verify, List, SaveSecret,
      SaveLabel, Restart, DropFinalizer, DeployNewt, PodStarts, PodEvicted,
      RouteFindsSiteGone, RouteClearsLabel, UserDeletes, CacheSync, GarbageCollect,
      Crash, Refused
<1>5. QED
  BY <1>4 DEF DeleteSite

(* The controller deletes a site in Pangolin only for a Gateway that is    *)
(* being deleted or is gone.                                               *)
THEOREM LiveGatewaysAreSafe == Spec => LiveGatewayKeepsSite
<1>1. SiteInv /\ [Next]_vars =>
        [(\E s \in sites : s \notin sites') /\ kills' = kills
            => ~gw.exists \/ gw.deleting]_vars
  <2> SUFFICES ASSUME SiteInv, [Next]_vars, NEW s \in sites, s \notin sites', kills' = kills
               PROVE  ~gw.exists \/ gw.deleting
    OBVIOUS
  <2>1. pc = "deleteSite"
    BY SitesStay DEF SiteInv
  <2>2. QED
    BY <2>1 DEF SiteInv, DeletionIsFinal
<1>2. QED
  BY <1>1, AlwaysInv, PTL DEF Spec, LiveGatewayKeepsSite

-----------------------------------------------------------------------------
(* Credentials are at hand only for the site that was just created, and    *)
(* after SaveSecret they are in the Secret as long as the Gateway is there. *)
CredentialsInv ==
  /\ creds # Empty => creds = site /\ pc \in {"secret", "label", "restart"}
  /\ creds # Empty /\ pc = "label" /\ gw.exists => secret = creds

(* How one step can change the credentials at hand: they are forgotten, or *)
(* come with a new site, or go with the reconciler from call to call; and  *)
(* the Secret changes under a Gateway only in SaveSecret.                  *)
CredentialsStep ==
  \/ creds' = Empty
  \/ pc = "create" /\ pc' = "secret" /\ creds' = site'
  \/ pc = "secret" /\ pc' = "label" /\ UNCHANGED <<site, creds>> /\ secret' = creds
  \/ pc = "label" /\ pc' = "restart" /\ UNCHANGED <<site, creds>>
  \/ UNCHANGED <<pc, site, creds>> /\ (gw.exists => secret' = secret)
  \/ UNCHANGED creds /\ pc \notin {"secret", "label", "restart"}

(* Every step changes them in one of these ways. *)
LEMMA CredentialsKinds ==
  ASSUME TypeOK, [Next]_vars
  PROVE  CredentialsStep
<1> USE DEF kube, pangolin, local, CredentialsStep
<1>1. CASE Read
  BY <1>1 DEF Read
<1>2. CASE AddFinalizer
  BY <1>2 DEF AddFinalizer, NotFound, Return
<1>3. CASE Verify
  BY <1>3 DEF Verify, Refused, Return
<1>4. CASE List
  BY <1>4 DEF List, Refused, Return
<1>5. CASE Create
  BY <1>5 DEF Create, Refused, Return
<1>6. CASE SaveSecret
  BY <1>6 DEF SaveSecret, WriteSecret, Refused, Return
<1>7. CASE SaveLabel
  BY <1>7 DEF SaveLabel, Patched, NotFound, Return
<1>8. CASE Restart
  BY <1>8 DEF Restart, Return
<1>9. CASE DeleteSite
  BY <1>9 DEF DeleteSite, Refused, Return
<1>10. CASE DropFinalizer
  BY <1>10 DEF DropFinalizer, NotFound, Return
<1>11. CASE DeployNewt \/ PodStarts \/ PodEvicted \/ RouteFindsSiteGone
  BY <1>11 DEF DeployNewt, PodStarts, PodEvicted, RouteFindsSiteGone
<1>12. CASE RouteClearsLabel \/ UserDeletes \/ CacheSync \/ GarbageCollect
  BY <1>12 DEF RouteClearsLabel, UserDeletes, CacheSync, GarbageCollect
<1>13. CASE SiteKilled \/ LateCreate
  BY <1>13 DEF SiteKilled, LateCreate
<1>14. CASE Crash
  BY <1>14 DEF Crash, Return
<1>15. CASE UNCHANGED vars
  BY <1>15 DEF vars
<1>16. QED
  BY <1>1, <1>2, <1>3, <1>4, <1>5, <1>6, <1>7, <1>8, <1>9, <1>10, <1>11, <1>12,
     <1>13, <1>14, <1>15
  DEF Next, Reconcile, Environment

(* The credentials invariant is inductive. *)
LEMMA StepCredentials ==
  ASSUME TypeOK, CredentialsInv, [Next]_vars
  PROVE  CredentialsInv'
<1>1. gw'.exists => gw.exists
  BY KubeStep, GatewayMonotone DEF TypeOK
<1>2. CredentialsStep
  BY CredentialsKinds
<1>3. QED
  BY <1>1, <1>2 DEF CredentialsInv, CredentialsStep

(* A step that gives the Gateway another label, a site's, is SaveLabel: the *)
(* other steps leave the label alone or remove it.                         *)
LEMMA LabelSteps ==
  ASSUME TypeOK, [Next]_vars, gw'.label # gw.label
  PROVE  (pc = "label" /\ gw'.label = site) \/ gw'.label = NoSite
<1> USE DEF kube, pangolin, local
<1>0. gw \in Gateway
  BY DEF TypeOK
<1>1. /\ WithFinalizer(gw).label = gw.label /\ WithDeletion(gw).label = gw.label
      /\ WithLabel(gw, NoSite).label = NoSite /\ Gone.label = NoSite
      /\ WithLabel(gw, site).label = site
  BY <1>0 DEF WithFinalizer, WithDeletion, WithLabel, Gone, Gateway
<1>2. CASE AddFinalizer \/ DropFinalizer
  BY <1>1, <1>2 DEF AddFinalizer, DropFinalizer, Patched, NotFound
<1>3. CASE SaveLabel
  BY <1>1, <1>3 DEF SaveLabel, Patched, NotFound
<1>4. CASE RouteClearsLabel \/ UserDeletes
  BY <1>1, <1>4 DEF RouteClearsLabel, UserDeletes
<1>5. CASE gw' = gw
  BY <1>5
<1>6. QED
  BY <1>2, <1>3, <1>4, <1>5
  DEF Next, Reconcile, Environment, vars, Read, Verify, List, Create, SaveSecret, Restart,
      DeleteSite, DeployNewt, PodStarts, PodEvicted, RouteFindsSiteGone, CacheSync,
      SiteKilled, LateCreate, GarbageCollect, Crash, Refused

(* When the reconciler labels the Gateway with a site it has just created, *)
(* the Secret holds that site's credentials, whatever failed before and    *)
(* whoever changed the Gateway meanwhile.                                  *)
THEOREM SecretFirst == Spec => SecretBeforeLabel
<1>1. Init => SiteInv /\ CredentialsInv
  BY InitInv DEF Init, CredentialsInv, Empty
<1>2. SiteInv /\ CredentialsInv /\ [Next]_vars => (SiteInv /\ CredentialsInv)'
  BY StepInv, StepCredentials DEF SiteInv
<1>3. SiteInv /\ CredentialsInv /\ [Next]_vars =>
        [(gw.exists /\ creds # Empty /\ gw'.label = site /\ gw.label # site)
           => secret = creds]_vars
  <2> SUFFICES ASSUME SiteInv, CredentialsInv, [Next]_vars, gw.exists, creds # Empty,
                      gw'.label = site, gw.label # site
               PROVE  secret = creds
    OBVIOUS
  <2>1. gw'.label # NoSite
    BY DEF CredentialsInv, Empty, NoSite
  <2>2. pc = "label"
    BY <2>1, LabelSteps DEF SiteInv
  <2>3. QED
    BY <2>2 DEF CredentialsInv
<1>4. QED
  BY <1>1, <1>2, <1>3, PTL DEF Spec, SecretBeforeLabel
-----------------------------------------------------------------------------
(* Until a site is lost, recreateSite has nothing to do: a label names a   *)
(* site that is there, and a site is deleted only when the cache shows that *)
(* the Gateway is doomed.                                                  *)
Doomed(o) == ~o.exists \/ o.deleting

Kept(o) == o.label \in sites \cup {NoSite}

AtWork(c) == c \notin Deleting \cup {"idle"}

DoomIsKnown ==
  /\ ~cache.exists => ~gw.exists
  /\ pc \in Deleting => Doomed(cache)

NothingToRecreate ==
  /\ ~Doomed(cache) => Kept(gw) /\ Kept(cache)
  /\ AtWork(pc) => Kept(gw) /\ Kept(snap)
  /\ pc \in {"secret", "label", "restart"} => site \in sites
  /\ pc = "verify" => snap.label # NoSite
  /\ pc \in {"list", "create", "secret", "label"} => ~Recreating
  /\ pc = "secret" => creds # Empty

UnlostInv == DoomIsKnown /\ (kills = MaxKills => NothingToRecreate)

(* A doomed Gateway stays doomed in the cache, and a deletion starts from a *)
(* doomed copy.                                                            *)
LEMMA StepDoom ==
  ASSUME TypeOK, DeletionIsFinal, DoomIsKnown, [Next]_vars
  PROVE  DoomIsKnown' /\ (Doomed(cache) => Doomed(cache)')
<1>1. gw \in Gateway /\ cache \in Gateway
  BY DEF TypeOK
<1>2. gw'.exists => gw.exists
  BY <1>1, KubeStep, GatewayMonotone
<1>3. Doomed(cache) => Doomed(gw)
  BY DEF DeletionIsFinal, DoomIsKnown, Doomed
<1>4. Doomed(cache) => Doomed(cache)'
  BY <1>3, KubeStep DEF CacheStep, Doomed
<1>5. ~cache'.exists => ~gw'.exists
  BY <1>2, KubeStep DEF CacheStep, DoomIsKnown
<1>6. pc' \in Deleting => Doomed(cache)
  <2>1. Entry(cache) \in Deleting => cache.deleting
    BY <1>1, EntryType DEF Deleting
  <2>2. pc' \in Deleting => pc \in Deleting \/ pc' = Entry(cache)
    BY KubeStep DEF ControlStep, Early, Deleting
  <2>3. QED
    BY <2>1, <2>2 DEF DoomIsKnown, Doomed
<1>7. QED
  BY <1>4, <1>5, <1>6 DEF DoomIsKnown

(* How one step can change what a job knows of its site. *)
JobStep ==
  \/ pc' = "idle"
  \/ UNCHANGED <<pc, snap, site, creds>>
  \/ pc = "idle" /\ pc' = Entry(cache) /\ snap' = cache /\ cache.exists
  \/ pc = "addFinalizer" /\ snap' = WithFinalizer(gw) /\ pc' = SiteEntry(gw)
  \/ pc = "verify" /\ snap.label \notin sites
  \/ pc = "list" /\ Recreating
  \/ pc = "list" /\ pc' = "label" /\ snap' = snap /\ site' \in sites
  \/ pc = "list" /\ pc' = "create" /\ snap' = snap
  \/ pc = "create" /\ pc' = "secret" /\ snap' = snap /\ site' \in sites' /\ creds' # Empty
  \/ pc = "secret" /\ pc' = "label" /\ UNCHANGED <<snap, site>>
  \/ pc = "label" /\ Recreating
  \/ pc \in Deleting /\ pc' \in Deleting

(* Every step changes it in one of these ways. *)
LEMMA JobKinds ==
  ASSUME TypeOK, [Next]_vars
  PROVE  JobStep
<1> USE DEF kube, pangolin, local, JobStep
<1>1. CASE Read
  BY <1>1 DEF Read
<1>2. CASE AddFinalizer
  BY <1>2 DEF AddFinalizer, Patched, NotFound, Return
<1>3. CASE Verify
  BY <1>3 DEF Verify, Refused, Return
<1>4. CASE List
  BY <1>4 DEF List, Refused, Return
<1>5. CASE Create
  <2>1. nextId # Empty
    BY DEF TypeOK, Empty
  <2>2. QED
    BY <1>5, <2>1 DEF Create, NewSite, Refused, Return
<1>6. CASE SaveSecret
  BY <1>6 DEF SaveSecret, Refused, Return
<1>7. CASE SaveLabel
  BY <1>7 DEF SaveLabel, NotFound, Return
<1>8. CASE Restart
  BY <1>8 DEF Restart, Return
<1>9. CASE DeleteSite
  BY <1>9 DEF DeleteSite, Refused, Return, Deleting
<1>10. CASE DropFinalizer
  BY <1>10 DEF DropFinalizer, NotFound, Return
<1>11. CASE DeployNewt \/ PodStarts \/ PodEvicted \/ RouteFindsSiteGone
  BY <1>11 DEF DeployNewt, PodStarts, PodEvicted, RouteFindsSiteGone
<1>12. CASE RouteClearsLabel \/ UserDeletes \/ CacheSync \/ GarbageCollect
  BY <1>12 DEF RouteClearsLabel, UserDeletes, CacheSync, GarbageCollect
<1>13. CASE SiteKilled \/ LateCreate
  BY <1>13 DEF SiteKilled, LateCreate
<1>14. CASE Crash
  BY <1>14 DEF Crash, Return
<1>15. CASE UNCHANGED vars
  BY <1>15 DEF vars
<1>16. QED
  BY <1>1, <1>2, <1>3, <1>4, <1>5, <1>6, <1>7, <1>8, <1>9, <1>10, <1>11, <1>12,
     <1>13, <1>14, <1>15
  DEF Next, Reconcile, Environment

(* A loss cannot be undone. *)
LEMMA LossesStay ==
  ASSUME TypeOK, [Next]_vars, kills' = MaxKills
  PROVE  kills' = kills
<1>1. ~SiteKilled
  BY SiteAssumption DEF TypeOK, SiteKilled
<1>2. QED
  BY <1>1 DEF Next, Reconcile, Environment, vars, Read, AddFinalizer, Verify, List, Create,
     SaveSecret, SaveLabel, Restart, DeleteSite, DropFinalizer, DeployNewt, PodStarts,
     PodEvicted, RouteFindsSiteGone, RouteClearsLabel, UserDeletes, CacheSync, LateCreate,
     GarbageCollect, Crash

(* Without a loss, every step leaves recreateSite with nothing to do. *)
LEMMA StepUnlost ==
  ASSUME TypeOK, DeletionIsFinal, UnlostInv, [Next]_vars
  PROVE  UnlostInv'
<1>1. DoomIsKnown' /\ (Doomed(cache) => Doomed(cache)')
  BY StepDoom DEF UnlostInv
<1>2. ASSUME kills' = MaxKills PROVE NothingToRecreate'
  <2>0. /\ kills' = kills /\ DoomIsKnown /\ NothingToRecreate
        /\ gw \in Gateway /\ cache \in Gateway
    BY <1>2, LossesStay DEF UnlostInv, TypeOK
  <2>1. pc \notin Deleting => sites \subseteq sites'
    BY <2>0, SitesStay DEF Deleting
  <2>2. gw'.label \in {gw.label, NoSite} \/ (pc = "label" /\ gw'.label = site)
    BY LabelSteps
  <2>3. pc \notin Deleting /\ Kept(gw) => Kept(gw)'
    BY <2>0, <2>1, <2>2 DEF NothingToRecreate, Kept
  <2>4. ~Doomed(cache)' => Kept(gw)' /\ Kept(cache)'
    <3> SUFFICES ASSUME ~Doomed(cache)' PROVE Kept(gw)' /\ Kept(cache)'
      OBVIOUS
    <3>1. ~Doomed(cache) /\ pc \notin Deleting
      BY <1>1, <2>0 DEF DoomIsKnown
    <3>2. Kept(gw) /\ Kept(cache) /\ Kept(gw)'
      BY <2>0, <2>3, <3>1 DEF NothingToRecreate
    <3>3. CASE cache' = cache
      BY <2>1, <3>1, <3>2, <3>3 DEF Kept
    <3>4. CASE cache' = gw /\ gw' = gw
      BY <3>2, <3>4 DEF Kept
    <3>5. QED
      BY <3>3, <3>4, KubeStep DEF CacheStep
  <2>5. ASSUME AtWork(pc') PROVE NothingToRecreate'
    <3>1. JobStep
      BY JobKinds
    <3>2. pc' # "idle" /\ pc' \notin Deleting
      BY <2>5 DEF AtWork
    <3>3. CASE pc = "idle"
      <4>1. pc' = Entry(cache) /\ snap' = cache /\ cache.exists
        BY <3>1, <3>2, <3>3 DEF JobStep, Deleting
      <4>2. ~cache.deleting
        BY <2>0, <3>2, <4>1 DEF Entry, DeleteEntry, Deleting, Gateway
      <4>3. /\ pc' \in {"addFinalizer", "list", "verify"}
            /\ pc' = "list" => cache.label = NoSite
            /\ pc' = "verify" => cache.label # NoSite
        BY <2>0, <4>1, <4>2 DEF Entry, SiteEntry, Gateway
      <4>4. Kept(gw)' /\ Kept(snap)'
        <5>1. Kept(gw) /\ Kept(cache) /\ pc \notin Deleting
          BY <2>0, <3>3, <4>1, <4>2 DEF NothingToRecreate, Doomed, Deleting
        <5>2. QED
          BY <2>1, <2>3, <4>1, <5>1 DEF Kept
      <4>5. QED
        BY <2>4, <4>1, <4>3, <4>4 DEF NothingToRecreate, Recreating
    <3>4. CASE pc # "idle"
      <4>1. pc \notin Deleting /\ AtWork(pc)
        BY <3>1, <3>2, <3>4 DEF JobStep, AtWork, Deleting
      <4>2. Kept(gw) /\ Kept(snap) /\ Kept(gw)' /\ sites \subseteq sites'
        BY <2>0, <2>1, <2>3, <4>1 DEF NothingToRecreate
      <4>3. ~(pc = "verify" /\ snap.label \notin sites)
        BY <2>0, <4>2 DEF NothingToRecreate, Kept
      <4>4. ~(pc \in {"list", "label"} /\ Recreating)
        BY <2>0 DEF NothingToRecreate
      <4>5. CASE UNCHANGED <<pc, snap, site, creds>>
        BY <2>0, <2>4, <4>2, <4>5 DEF NothingToRecreate, Kept, Recreating
      <4>6. CASE pc = "addFinalizer" /\ snap' = WithFinalizer(gw) /\ pc' = SiteEntry(gw)
        <5>1. snap'.label = gw.label
          BY <2>0, <4>6 DEF WithFinalizer, Gateway
        <5>2. /\ pc' \in {"list", "verify"}
              /\ pc' = "list" => gw.label = NoSite
              /\ pc' = "verify" => gw.label # NoSite
          BY <4>6 DEF SiteEntry
        <5>3. Kept(snap)'
          BY <4>2, <5>1 DEF Kept
        <5>4. QED
          BY <2>4, <4>2, <5>1, <5>2, <5>3 DEF NothingToRecreate, Recreating
      <4>7. CASE snap' = snap /\ ~Recreating
        <5>1. Kept(snap)' /\ ~Recreating'
          BY <4>2, <4>7 DEF Kept, Recreating
        <5>2. CASE pc = "list" /\ pc' = "label" /\ site' \in sites
          BY <2>4, <4>2, <5>1, <5>2 DEF NothingToRecreate
        <5>3. CASE pc = "list" /\ pc' = "create"
          BY <2>4, <4>2, <5>1, <5>3 DEF NothingToRecreate
        <5>4. CASE pc = "create" /\ pc' = "secret" /\ site' \in sites' /\ creds' # Empty
          BY <2>4, <4>2, <5>1, <5>4 DEF NothingToRecreate
        <5>5. CASE pc = "secret" /\ pc' = "label" /\ site' = site
          BY <2>0, <2>4, <4>2, <5>1, <5>5 DEF NothingToRecreate
        <5>6. QED
          BY <3>1, <3>2, <3>4, <4>1, <4>3, <4>4, <4>5, <4>6, <5>2, <5>3, <5>4, <5>5
          DEF JobStep
      <4>8. pc \in {"list", "create", "secret", "label"} => ~Recreating
        BY <2>0 DEF NothingToRecreate
      <4>9. QED
        BY <3>1, <3>2, <3>4, <4>1, <4>3, <4>4, <4>5, <4>6, <4>7, <4>8 DEF JobStep
    <3>5. QED
      BY <3>3, <3>4
  <2>6. ASSUME ~AtWork(pc') PROVE NothingToRecreate'
    BY <2>4, <2>6 DEF NothingToRecreate, AtWork, Deleting
  <2>7. QED
    BY <2>5, <2>6
<1>3. QED
  BY <1>1, <1>2 DEF UnlostInv

(* The Secret is written by SaveSecret, and taken away by Kubernetes. *)
LEMMA SecretWrites ==
  ASSUME [Next]_vars, secret' # secret
  PROVE  (pc = "secret" /\ secret' = creds) \/ secret' = Absent
<1> USE DEF kube, pangolin, local
<1>1. CASE SaveSecret
  BY <1>1 DEF SaveSecret, WriteSecret, Refused
<1>2. CASE GarbageCollect
  BY <1>2 DEF GarbageCollect
<1>3. QED
  BY <1>1, <1>2
  DEF Next, Reconcile, Environment, vars, Read, AddFinalizer, Verify, List, Create,
      SaveLabel, Restart, DeleteSite, DropFinalizer, DeployNewt, PodStarts, PodEvicted,
      RouteFindsSiteGone, RouteClearsLabel, UserDeletes, CacheSync, SiteKilled, LateCreate,
      Crash, Refused

(* Good credentials are never replaced by empty ones before a site has been *)
(* lost, whatever else fails: recreateSite is the only way to it.          *)
THEOREM CredentialsKept == Spec => CredentialsKeptUntilLoss
<1>1. Init => UnlostInv
  BY DEF Init, UnlostInv, DoomIsKnown, NothingToRecreate, Doomed, Kept, AtWork, Deleting,
         NewGateway, Gone, NoSite
<1>2. SiteInv /\ UnlostInv /\ [Next]_vars => (SiteInv /\ UnlostInv)'
  BY StepInv, StepUnlost DEF SiteInv
<1>3. SiteInv /\ UnlostInv /\ [Next]_vars =>
        [secret > 0 /\ kills = MaxKills => secret' # Empty]_vars
  <2> SUFFICES ASSUME SiteInv, UnlostInv, [Next]_vars, secret > 0, kills = MaxKills,
                      secret' = Empty
               PROVE  FALSE
    OBVIOUS
  <2>1. secret' # secret /\ secret' # Absent
    BY DEF Empty, Absent
  <2>2. pc = "secret" /\ creds = Empty
    BY <2>1, SecretWrites
  <2>3. QED
    BY <2>2 DEF UnlostInv, NothingToRecreate
<1>4. QED
  BY <1>1, <1>2, <1>3, InitInv, PTL DEF Spec, CredentialsKeptUntilLoss
-----------------------------------------------------------------------------
(* What the API server's changes make of a Gateway's phase. *)
LEMMA Phases ==
  ASSUME NEW o \in Gateway, NEW n \in Nat
  PROVE  /\ Phase(WithFinalizer(o)) = IF Phase(o) = "new" THEN "kept" ELSE Phase(o)
         /\ Phase(WithLabel(o, n)) = Phase(o)
         /\ o.exists => Phase(WithDeletion(o)) = "doomed"
         /\ Phase(Gone) = "gone"
         /\ Phase(o) = "gone" <=> ~o.exists
         /\ Phase(o) = "doomed" <=> o.exists /\ o.deleting
         /\ Phase(o) = "kept" <=> o.exists /\ ~o.deleting /\ o.finalizer
         /\ Phase(o) = "new" <=> o.exists /\ ~o.deleting /\ ~o.finalizer
<1>1. o.exists \in BOOLEAN /\ o.deleting \in BOOLEAN /\ o.finalizer \in BOOLEAN
  BY DEF Gateway
<1>2. QED
  BY <1>1, GatewayFields DEF Phase

(* A step of the promise, or none. *)
PromiseStep == Promise!PNext \/ UNCHANGED Promise!promiseVars

(* A step that leaves sites alone changes the Gateway as the promise says. *)
LEMMA GatewayRefines ==
  ASSUME gw \in Gateway, UNCHANGED <<sites, lateIds, late, kills>>,
         \/ gw' = gw \/ gw' = WithFinalizer(gw) \/ \E n \in Nat : gw' = WithLabel(gw, n)
         \/ gw.exists /\ ~gw.deleting /\ gw.finalizer /\ gw' = WithDeletion(gw)
         \/ gw.exists /\ ~gw.deleting /\ ~gw.finalizer /\ gw' = Gone
         \/ gw.exists /\ gw.deleting /\ gw' = Gone
  PROVE  PromiseStep
<1> USE DEF PromiseStep, Promise!PNext, Promise!promiseVars
<1>0. 0 \in Nat
  OBVIOUS
<1>1. CASE Phase(gw') = Phase(gw)
  BY <1>1 DEF Phase
<1>2. CASE Phase(gw) = "new" /\ Phase(gw') = "kept"
  BY <1>2 DEF Promise!Protect, Promise!Becomes, Phase
<1>3. CASE Phase(gw) = "kept" /\ Phase(gw') = "doomed"
  BY <1>3 DEF Promise!MarkDeleted, Promise!Becomes, Phase
<1>4. CASE Phase(gw) = "new" /\ Phase(gw') = "gone"
  BY <1>4 DEF Promise!MarkDeleted, Promise!Becomes, Phase
<1>5. CASE Phase(gw) = "doomed" /\ Phase(gw') = "gone"
  BY <1>5 DEF Promise!Release, Promise!Becomes, Phase
<1>6. QED
  BY <1>0, <1>1, <1>2, <1>3, <1>4, <1>5, Phases

(* A Gateway that the reconciler works on has its finalizer or is gone; one *)
(* it deletes the site of is being deleted or gone.                        *)
LEMMA Working ==
  ASSUME SiteInv, pc \notin Early
  PROVE  /\ Phase(gw) # "new"
         /\ pc \in Deleting => Phase(gw) \in {"doomed", "gone"}
<1>1. gw \in Gateway /\ 0 \in Nat
  BY DEF SiteInv, TypeOK
<1>2. gw.exists => gw.finalizer
  BY DEF SiteInv, Covered, Early
<1>3. pc \in Deleting => ~gw.exists \/ gw.deleting
  BY DEF SiteInv, DeletionIsFinal, Deleting
<1>4. QED
  BY <1>1, <1>2, <1>3, Phases

(* A site that is added is one more for the promise. *)
LEMMA OneMoreSite ==
  ASSUME SiteInv, NewSite
  PROVE  Promise!OneMore
<1>1. nextId \notin sites \cup lateIds
  BY DEF SiteInv, TypeOK, IdsIssued
<1>2. sites' = sites \cup {nextId}
  BY DEF NewSite
<1>3. QED
  BY <1>1, <1>2 DEF Promise!OneMore

(* The Gateway reconciler keeps the promise: at most one site, made under  *)
(* the finalizer and never taken from a Gateway that lives, late creations *)
(* and losses apart.                                                       *)
THEOREM Refinement == Spec => ImplementsPromise
<1>1. Init => Promise!PInit
  BY SiteAssumption DEF Init, NewGateway, Phase, Promise!PInit
<1>2. SiteInv /\ [Next]_vars => [Promise!PNext]_(Promise!promiseVars)
  <2> SUFFICES ASSUME SiteInv, [Next]_vars PROVE PromiseStep
    BY DEF PromiseStep
  <2> USE DEF kube, pangolin, local
  <2>0. gw \in Gateway /\ site \in Nat /\ 0 \in Nat /\ late \in Nat /\ kills \in Nat
    BY SiteAssumption DEF SiteInv, TypeOK
  <2>1. CASE AddFinalizer \/ SaveLabel \/ RouteClearsLabel
    <3>1. UNCHANGED <<sites, lateIds, late, kills>>
      BY <2>1 DEF AddFinalizer, SaveLabel, RouteClearsLabel
    <3>2. \/ gw' = gw \/ gw' = WithFinalizer(gw) \/ gw' = WithLabel(gw, site)
          \/ gw' = WithLabel(gw, NoSite)
      BY <2>1 DEF AddFinalizer, SaveLabel, RouteClearsLabel, Patched, NotFound
    <3>3. QED
      BY <2>0, <3>1, <3>2, GatewayRefines DEF NoSite
  <2>2. CASE UserDeletes
    BY <2>0, <2>2, GatewayRefines DEF UserDeletes
  <2>3. CASE DropFinalizer
    <3>1. gw.exists => gw.deleting
      BY <2>3 DEF DropFinalizer, SiteInv, DeletionIsFinal
    <3>2. UNCHANGED <<sites, lateIds, late, kills>>
      BY <2>3 DEF DropFinalizer
    <3>3. gw' = gw \/ (gw.exists /\ gw' = Gone)
      BY <2>3 DEF DropFinalizer, NotFound
    <3>4. QED
      BY <2>0, <3>1, <3>2, <3>3, GatewayRefines
  <2>4. CASE Create
    <3>1. Phase(gw) # "new" /\ gw' = gw /\ lateIds' = lateIds /\ kills' = kills
      BY <2>4, Working DEF Create, Refused, Early
    <3>2. CASE NewSite /\ late' = late
      <4>1. Promise!OneMore
        BY <3>2, OneMoreSite
      <4>2. sites \subseteq lateIds
        BY <2>4 DEF Create, SiteInv, CreatesOnlyWhenNone
      <4>3. Promise!Make
        BY <3>1, <3>2, <4>1, <4>2 DEF Promise!Make, Phase
      <4>4. QED
        BY <4>3 DEF PromiseStep, Promise!PNext
    <3>3. CASE late' = late + 1 /\ sites' = sites
      <4>1. Promise!GiveUp
        BY <3>1, <3>3 DEF Promise!GiveUp, Phase
      <4>2. QED
        BY <4>1 DEF PromiseStep, Promise!PNext
    <3>4. CASE sites' = sites /\ late' = late
      BY <2>0, <3>1, <3>4, GatewayRefines
    <3>5. QED
      BY <2>4, <3>2, <3>3, <3>4 DEF Create, Refused
  <2>5. CASE LateCreate
    <3>1. Promise!OneMore
      BY <2>5, OneMoreSite DEF LateCreate
    <3>2. lateIds' = lateIds \cup (sites' \ sites)
      <4>1. nextId \notin sites
        BY DEF SiteInv, TypeOK, IdsIssued
      <4>2. QED
        BY <2>5, <4>1 DEF LateCreate, NewSite
    <3>3. Promise!Arrive
      BY <2>5, <3>1, <3>2 DEF LateCreate, Promise!Arrive, Phase
    <3>4. QED
      BY <3>3 DEF PromiseStep, Promise!PNext
  <2>6. CASE DeleteSite
    <3>1. Phase(gw) \in {"doomed", "gone"} /\ UNCHANGED <<gw, lateIds, late, kills>>
      BY <2>6, Working DEF DeleteSite, Refused, Early, Deleting
    <3>2. CASE sites' = sites
      BY <2>0, <3>1, <3>2, GatewayRefines
    <3>3. CASE sites' # sites
      <4>1. sites' = sites \ {snap.label} /\ snap.label \in sites
        BY <2>6, <3>3 DEF DeleteSite, Refused
      <4>2. Promise!Delete
        BY <3>1, <4>1 DEF Promise!Delete, Phase
      <4>3. QED
        BY <4>2 DEF PromiseStep, Promise!PNext
    <3>4. QED
      BY <3>2, <3>3
  <2>7. CASE SiteKilled
    <3>1. Promise!Lose
      BY <2>7 DEF SiteKilled, Promise!Lose, Phase
    <3>2. QED
      BY <3>1 DEF PromiseStep, Promise!PNext
  <2>8. CASE UNCHANGED <<gw, sites, lateIds, late, kills>>
    BY <2>0, <2>8, GatewayRefines
  <2>9. CASE Read \/ Verify \/ List \/ SaveSecret \/ Restart \/ DeployNewt \/ PodStarts
    BY <2>8, <2>9 DEF Read, Verify, List, SaveSecret, Restart, DeployNewt, PodStarts, Refused
  <2>10. CASE RouteFindsSiteGone \/ CacheSync \/ Crash \/ GarbageCollect \/ PodEvicted
    BY <2>8, <2>10 DEF RouteFindsSiteGone, CacheSync, Crash, GarbageCollect, PodEvicted
  <2>11. CASE UNCHANGED vars
    BY <2>8, <2>11 DEF vars
  <2>12. QED
    BY <2>1, <2>2, <2>3, <2>4, <2>5, <2>6, <2>7, <2>9, <2>10, <2>11
    DEF Next, Reconcile, Environment
<1>3. QED
  BY <1>1, <1>2, AlwaysInv, PTL DEF Spec, ImplementsPromise, Promise!PSpec
=============================================================================
