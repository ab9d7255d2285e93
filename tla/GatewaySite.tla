---------------------------- MODULE GatewaySite ----------------------------
(***************************************************************************)
(* One Gateway, its Pangolin site, its credentials Secret and its newt     *)
(* pod: the Gateway reconciler (pkg/controller/gateway_controller.go), the *)
(* Newt reconciler (newt_controller.go), and the one thing the route       *)
(* reconcilers do to a Gateway, which is to clear its site-id label when   *)
(* Pangolin tells them that the site is gone (httproute_controller.go).    *)
(*                                                                         *)
(* The work queue never runs one key twice at a time, so the Gateway       *)
(* reconciler is one process; each of its calls to the API server or to    *)
(* Pangolin is a step, and between two of them anything else may happen.   *)
(* It reads the Gateway from an informer cache that may lag behind the API *)
(* server, and patches it without a resource version, so no patch ever     *)
(* conflicts.  A call may fail, may take effect although its answer is     *)
(* lost, and the process may crash; a CreateSite that timed out may take   *)
(* effect later.                                                           *)
(*                                                                         *)
(* A site is its id.  Credentials are the id of the site they were issued  *)
(* with.  Every site here bears this Gateway's site name "pgc-<name>":     *)
(* that is all ensureSite looks at.  Status conditions, events and metrics *)
(* are left out, as is a Gateway of another class, which the reconciler    *)
(* skips.  A Gateway is not created again under the same name.             *)
(***************************************************************************)
EXTENDS Integers, FiniteSets

CONSTANTS
  MaxFaults,  \* calls that fail or lose their answer, and crashes, in a run
  MaxKills    \* sites deleted in Pangolin behind the controller's back

ASSUME SiteAssumption == MaxFaults \in Nat /\ MaxKills \in Nat

VARIABLES
  gw,        \* the Gateway, as the API server has it
  cache,     \* the Gateway, as the informer cache has it
  secret,    \* credentials in <gateway>-newt-cred: Absent, Empty or a site id
  deploy,    \* the newt Deployment: "none", "starting" or "running"
  pod,       \* the credentials the newt pod read when it started
  sites,     \* ids of the sites that exist in Pangolin
  nextId,    \* the id of the next site
  late,      \* CreateSite calls given up by the client, still on their way
  lateIds,   \* sites created by such calls
  pc,        \* the next call of the Gateway reconciler
  snap,      \* its copy of the Gateway
  site,      \* the site ensureSite returned to it
  creds,     \* the credentials that came with it, or Empty
  route,     \* "clear" when a route reconciler is about to clear the label
  faults,    \* how many more calls may fail
  kills      \* how many more sites may be deleted behind its back

vars == <<gw, cache, secret, deploy, pod, sites, nextId, late, lateIds,
          pc, snap, site, creds, route, faults, kills>>

kube     == <<secret, deploy, pod>>
pangolin == <<sites, nextId, late, lateIds>>
local    == <<snap, site, creds>>

NoSite == 0        \* no site-id label
Absent == -1       \* no Secret, or no pod
Empty  == 0        \* NEWT_ID and NEWT_SECRET are empty strings

Gateway == [exists : BOOLEAN, deleting : BOOLEAN, finalizer : BOOLEAN, label : Nat]

Gone == [exists |-> FALSE, deleting |-> FALSE, finalizer |-> FALSE, label |-> NoSite]

(* What a user creates. *)
NewGateway == [exists |-> TRUE, deleting |-> FALSE, finalizer |-> FALSE, label |-> NoSite]

(* The API server's changes to a Gateway. *)
WithFinalizer(o) == [o EXCEPT !.finalizer = TRUE]
WithDeletion(o)  == [o EXCEPT !.deleting = TRUE]
WithLabel(o, n)  == [o EXCEPT !.label = n]

Init ==
  /\ gw = NewGateway /\ cache = NewGateway
  /\ secret = Absent /\ deploy = "none" /\ pod = Absent
  /\ sites = {} /\ nextId = 1 /\ late = 0 /\ lateIds = {}
  /\ pc = "idle" /\ snap = Gone /\ site = NoSite /\ creds = Empty
  /\ route = "idle"
  /\ faults = MaxFaults /\ kills = MaxKills

-----------------------------------------------------------------------------
(* Outcomes of a call.  An operator whose name extends that of a handler   *)
(* (EntryNeverVerifying...) is that handler with a mistake in it; no       *)
(* specification uses it.                                                  *)

Return == pc' = "idle" /\ snap' = Gone /\ site' = NoSite /\ creds' = Empty

Fault == faults > 0 /\ faults' = faults - 1

(* A call that had no effect and returned an error. *)
Refused == Fault /\ Return /\ UNCHANGED <<gw, pangolin, secret, deploy>>

-----------------------------------------------------------------------------
(* The Gateway reconciler. *)

(* The first call made for a Gateway object that is not being deleted: site *)
(* creation if it has no site-id label, verification otherwise.            *)
SiteEntry(o) == IF o.label = NoSite THEN "list" ELSE "verify"

DeleteEntry(o) ==
  IF ~o.finalizer THEN "idle"
  ELSE IF o.label # NoSite THEN "deleteSite" ELSE "dropFinalizer"

EntryWithoutFinalizer(o) == IF o.deleting THEN DeleteEntry(o) ELSE SiteEntry(o)

EntryNeverVerifying(o) ==
  IF o.deleting THEN DeleteEntry(o)
  ELSE IF ~o.finalizer THEN "addFinalizer"
  ELSE IF o.label = NoSite THEN "list" ELSE "idle"

EntryKeepingUnlabelled(o) ==
  IF o.deleting THEN IF o.label = NoSite THEN "idle" ELSE DeleteEntry(o)
  ELSE IF ~o.finalizer THEN "addFinalizer" ELSE SiteEntry(o)

Entry(o) ==
  IF o.deleting THEN DeleteEntry(o)
  ELSE IF ~o.finalizer THEN "addFinalizer" ELSE SiteEntry(o)

(* Reconcile starts: the Gateway comes from the cache. *)
Read ==
  /\ pc = "idle" /\ cache.exists /\ Entry(cache) # "idle"
  /\ pc' = Entry(cache) /\ snap' = cache
  /\ UNCHANGED <<gw, cache, kube, pangolin, site, creds, route, faults, kills>>

(* A merge patch of the Gateway succeeds; the reconciler's copy becomes the *)
(* object the API server answered with.                                    *)
Patched(new, next) == gw' = new /\ snap' = new /\ pc' = next

NotFound == ~gw.exists /\ Return /\ UNCHANGED <<gw, faults>>

AddFinalizer ==
  /\ pc = "addFinalizer"
  /\ \/ /\ gw.exists
        /\ Patched(WithFinalizer(gw), SiteEntry(gw))
        /\ UNCHANGED <<site, creds, faults>>
     \/ NotFound
     \/ Fault /\ Return /\ gw' = gw
     \/ Fault /\ Return /\ gw.exists /\ gw' = WithFinalizer(gw)
  /\ UNCHANGED <<cache, kube, pangolin, route, kills>>

(* verifyOrRecreateSite: GetSite finds the labelled site, or answers 404. *)
Verify ==
  /\ pc = "verify"
  /\ \/ /\ snap.label \in sites
        /\ Return
        /\ UNCHANGED <<gw, pangolin, secret, deploy, faults>>
     \/ /\ snap.label \notin sites
        /\ pc' = "list"
        /\ UNCHANGED <<gw, pangolin, secret, deploy, faults, local>>
     \/ Refused
  /\ UNCHANGED <<cache, pod, route, kills>>

(* A copy with a label has come here from Verify, through recreateSite. *)
Recreating == snap.label # NoSite

(* ensureSite looks for its site by name before it creates one.  A site    *)
(* found this way comes without credentials, and only recreateSite writes  *)
(* the Secret even so.                                                     *)
ListByLabelOnly ==
  /\ pc = "list" /\ pc' = "create"
  /\ UNCHANGED <<gw, pangolin, secret, deploy, faults, local>>
  /\ UNCHANGED <<cache, pod, route, kills>>

ListReplacingExisting ==
  /\ pc = "list" /\ pc' = "create"
  /\ sites' = {}
  /\ UNCHANGED <<gw, nextId, late, lateIds, secret, deploy, faults, local>>
  /\ UNCHANGED <<cache, pod, route, kills>>

ListReturningNil ==
  /\ pc = "list"
  /\ \/ \E s \in sites : site' = s /\ creds' = Absent /\ pc' = "label"
     \/ sites = {} /\ pc' = "create" /\ UNCHANGED <<site, creds>>
  /\ UNCHANGED <<gw, pangolin, secret, deploy, faults, snap>>
  /\ UNCHANGED <<cache, pod, route, kills>>

List ==
  /\ pc = "list"
  /\ \/ \E s \in sites :
          /\ site' = s /\ creds' = Empty
          /\ pc' = IF Recreating THEN "secret" ELSE "label"
          /\ UNCHANGED <<gw, pangolin, secret, deploy, faults, snap>>
     \/ /\ sites = {}
        /\ pc' = "create"
        /\ UNCHANGED <<gw, pangolin, secret, deploy, faults, local>>
     \/ Refused
  /\ UNCHANGED <<cache, pod, route, kills>>

NewSite == sites' = sites \cup {nextId} /\ nextId' = nextId + 1

(* PickSiteDefaults and CreateSite.  The credentials are in the answer of  *)
(* the first; they are lost with the reconcile unless CreateSite answers.  *)
Create ==
  /\ pc = "create"
  /\ \/ /\ NewSite
        /\ site' = nextId /\ creds' = nextId /\ pc' = "secret"
        /\ UNCHANGED <<gw, late, lateIds, secret, deploy, faults, snap>>
     \/ Refused
     \/ Fault /\ Return /\ NewSite /\ UNCHANGED <<gw, late, lateIds, secret, deploy>>
     \/ /\ Fault /\ Return /\ late' = late + 1
        /\ UNCHANGED <<gw, sites, nextId, lateIds, secret, deploy>>
  /\ UNCHANGED <<cache, pod, route, kills>>

WriteSecretOnce == secret' = IF secret = Absent THEN creds ELSE secret

(* createNewtCredentialsSecret: create it, or overwrite its data. *)
WriteSecret == secret' = creds

SaveSecret ==
  /\ pc = "secret"
  /\ \/ WriteSecret /\ pc' = "label" /\ UNCHANGED <<gw, pangolin, deploy, faults, local>>
     \/ Refused
     \/ WriteSecret /\ Fault /\ Return /\ UNCHANGED <<gw, pangolin, deploy>>
  /\ UNCHANGED <<cache, pod, route, kills>>

(* The site-id label is patched, whatever it is on the API server by now.  *)
SaveLabel ==
  /\ pc = "label"
  /\ \/ /\ gw.exists
        /\ IF Recreating
           THEN Patched(WithLabel(gw, site), "restart") /\ UNCHANGED <<site, creds>>
           ELSE gw' = WithLabel(gw, site) /\ Return
        /\ UNCHANGED faults
     \/ NotFound
     \/ Fault /\ Return /\ gw' = gw
     \/ Fault /\ Return /\ gw.exists /\ gw' = WithLabel(gw, site)
  /\ UNCHANGED <<cache, kube, pangolin, route, kills>>

(* recreateSite bumps the pod template of the Deployment, if there is one; *)
(* a failure is logged and forgotten.                                      *)
Restart ==
  /\ pc = "restart"
  /\ \/ deploy # "none" /\ deploy' = "starting" /\ UNCHANGED faults
     \/ deploy = "none" /\ UNCHANGED <<deploy, faults>>
     \/ Fault /\ UNCHANGED deploy
  /\ Return
  /\ UNCHANGED <<gw, cache, secret, pod, pangolin, route, kills>>

(* handleDelete: DeleteSite succeeds or answers 404. *)
DeleteSite ==
  /\ pc = "deleteSite"
  /\ \/ /\ sites' = sites \ {snap.label}
        /\ pc' = "dropFinalizer"
        /\ UNCHANGED <<gw, nextId, late, lateIds, secret, deploy, faults, local>>
     \/ Refused
     \/ /\ Fault /\ Return /\ sites' = sites \ {snap.label}
        /\ UNCHANGED <<gw, nextId, late, lateIds, secret, deploy>>
  /\ UNCHANGED <<cache, pod, route, kills>>

(* The last finalizer goes, and the Gateway with it. *)
DropFinalizer ==
  /\ pc = "dropFinalizer"
  /\ \/ gw.exists /\ gw' = Gone /\ Return /\ UNCHANGED faults
     \/ NotFound
     \/ Fault /\ Return /\ gw' = gw
     \/ Fault /\ Return /\ gw.exists /\ gw' = Gone
  /\ UNCHANGED <<cache, kube, pangolin, route, kills>>

Reconcile ==
  \/ Read \/ AddFinalizer \/ Verify \/ List \/ Create
  \/ SaveSecret \/ SaveLabel \/ Restart \/ DeleteSite \/ DropFinalizer

-----------------------------------------------------------------------------
(* The Newt reconciler and the pod it deploys. *)

(* The Deployment refers to the Secret by name.  Applying it again changes *)
(* nothing, whatever has become of the Secret's contents.                  *)
DeployNewt ==
  /\ cache.exists /\ ~cache.deleting /\ cache.label # NoSite
  /\ secret # Absent
  /\ deploy = "none"
  /\ deploy' = "starting"
  /\ UNCHANGED <<gw, cache, secret, pod, pangolin, pc, local, route, faults, kills>>

(* A pod reads its credentials once, when it starts. *)
PodStarts ==
  /\ deploy = "starting" /\ secret # Absent
  /\ deploy' = "running" /\ pod' = secret
  /\ UNCHANGED <<gw, cache, secret, pangolin, pc, local, route, faults, kills>>

(* A node is drained: the pod is started again. *)
PodEvicted ==
  /\ deploy = "running" /\ deploy' = "starting"
  /\ UNCHANGED <<gw, cache, secret, pod, pangolin, pc, local, route, faults, kills>>

-----------------------------------------------------------------------------
(* The route reconcilers' part. *)

(* Pangolin refuses a target because the site named by the cached Gateway  *)
(* is gone.                                                                *)
RouteFindsSiteGone ==
  /\ route = "idle"
  /\ cache.exists /\ cache.label # NoSite /\ cache.label \notin sites
  /\ route' = "clear"
  /\ UNCHANGED <<gw, cache, kube, pangolin, pc, local, faults, kills>>

(* The label is removed, whatever site it names by now. *)
RouteClearsLabel ==
  /\ route = "clear" /\ route' = "idle"
  /\ \/ gw' = (IF gw.exists THEN WithLabel(gw, NoSite) ELSE gw) /\ UNCHANGED faults
     \/ Fault /\ UNCHANGED gw
  /\ UNCHANGED <<cache, kube, pangolin, pc, local, kills>>

-----------------------------------------------------------------------------
(* The environment. *)

UserDeletes ==
  /\ gw.exists /\ ~gw.deleting
  /\ gw' = IF gw.finalizer THEN WithDeletion(gw) ELSE Gone
  /\ UNCHANGED <<cache, kube, pangolin, pc, local, route, faults, kills>>

(* The informer delivers the latest Gateway. *)
CacheSync ==
  /\ cache # gw /\ cache' = gw
  /\ UNCHANGED <<gw, kube, pangolin, pc, local, route, faults, kills>>

(* Someone deletes the site in Pangolin: an operator, or the reconciler of *)
(* a Gateway with the same name in another namespace.                      *)
SiteKilled ==
  /\ kills > 0 /\ kills' = kills - 1
  /\ \E s \in sites : sites' = sites \ {s}
  /\ UNCHANGED <<gw, cache, kube, nextId, late, lateIds, pc, local, route, faults>>

(* A CreateSite that the client has given up takes effect. *)
LateCreate ==
  /\ late > 0 /\ late' = late - 1
  /\ NewSite /\ lateIds' = lateIds \cup {nextId}
  /\ UNCHANGED <<gw, cache, kube, pc, local, route, faults, kills>>

(* The controller restarts; its cache is listed afresh. *)
Crash ==
  /\ pc # "idle" \/ route # "idle"
  /\ Fault /\ Return
  /\ cache' = gw /\ route' = "idle"
  /\ UNCHANGED <<gw, kube, pangolin, kills>>

(* Kubernetes collects what the Gateway owned. *)
GarbageCollect ==
  /\ ~gw.exists /\ (secret # Absent \/ deploy # "none")
  /\ secret' = Absent /\ deploy' = "none" /\ pod' = Absent
  /\ UNCHANGED <<gw, cache, pangolin, pc, local, route, faults, kills>>

Environment ==
  \/ UserDeletes \/ CacheSync \/ SiteKilled \/ LateCreate
  \/ Crash \/ GarbageCollect \/ PodEvicted

Next ==
  \/ Reconcile
  \/ DeployNewt \/ PodStarts
  \/ RouteFindsSiteGone \/ RouteClearsLabel
  \/ Environment

(* A reconcile that has begun goes on, and another follows: on an error it *)
(* is requeued with backoff, on success after two minutes.  The informer   *)
(* catches up, pods start, a route's patch is sent.  No one has to delete, *)
(* kill, crash or evict anything, and a late CreateSite may never land.    *)
Fairness ==
  /\ WF_vars(Reconcile)
  /\ WF_vars(CacheSync)
  /\ WF_vars(DeployNewt) /\ WF_vars(PodStarts)
  /\ WF_vars(RouteClearsLabel)

Spec == Init /\ [][Next]_vars
FairSpec == Spec /\ Fairness

-----------------------------------------------------------------------------
(* Every variable stays in its range. *)
TypeOK ==
  /\ gw \in Gateway /\ cache \in Gateway /\ snap \in Gateway
  /\ secret \in Nat \cup {Absent}
  /\ deploy \in {"none", "starting", "running"}
  /\ pod \in Nat \cup {Absent}
  /\ nextId \in Nat \ {0}
  /\ sites \subseteq Nat /\ lateIds \subseteq Nat
  /\ late \in Nat
  /\ pc \in {"idle", "addFinalizer", "verify", "list", "create", "secret",
             "label", "restart", "deleteSite", "dropFinalizer"}
  /\ site \in Nat
  /\ creds \in Nat
  /\ route \in {"idle", "clear"}
  /\ faults \in 0 .. MaxFaults /\ kills \in 0 .. MaxKills

(* Whatever fails, is retried, read stale or killed, ensureSite never makes *)
(* a second site while one exists: duplicates come only from CreateSite    *)
(* calls that took effect after the client had given them up.              *)
AtMostOneSite == \A s, t \in sites \ lateIds : s = t

(* A Gateway that has a site cannot vanish without handleDelete: its       *)
(* finalizer is on the API server before the first site is created, and    *)
(* stays while the Gateway does.                                           *)
FinalizerCoversSites == (gw.exists /\ sites # {}) => gw.finalizer

(* The reconciler, reading a stale cache or not, deletes a site in Pangolin *)
(* only for a Gateway that really is being deleted or is gone.             *)
LiveGatewayKeepsSite ==
  [][(\E s \in sites : s \notin sites') /\ kills' = kills
        => ~gw.exists \/ gw.deleting]_vars

(* Credentials reach the Secret before the label tells the Newt reconciler *)
(* to use them: when the reconciler publishes a site it has just created,  *)
(* the Secret holds that site's credentials and no others.                 *)
SecretBeforeLabel ==
  [][(gw.exists /\ creds # Empty /\ gw'.label = site /\ gw.label # site) => secret = creds]_vars

(* Where the Gateway stands, for the promise: see OwnerPromise. *)
Phase(o) ==
  IF ~o.exists THEN "gone"
  ELSE IF o.deleting THEN "doomed"
  ELSE IF o.finalizer THEN "kept" ELSE "new"

(* The reconciler keeps at most one site for the Gateway, and only under its *)
(* finalizer; it deletes none while the Gateway lives.                     *)
Promise == INSTANCE OwnerPromise WITH
  MayLetGo <- FALSE, object <- Phase(gw), things <- sites, spare <- lateIds, pending <- late,
  losses <- kills

ImplementsPromise == Promise!PSpec

(* The parts of the inductive invariant behind the safety properties.      *)
(* Ids are issued in order.                                                *)
IdsIssued == \A s \in sites \cup lateIds : s < nextId

(* No site that ensureSite could have found exists while one is created.   *)
CreatesOnlyWhenNone == pc = "create" => sites \subseteq lateIds

(* A site exists, or may yet come to exist. *)
MayHaveSite == sites # {} \/ late > 0

(* Once the reconciler is past AddFinalizer, or a site exists or may come  *)
(* to exist, or the cache shows the finalizer, the API server has it.      *)
Covered ==
  (/\ gw.exists
   /\ \/ pc \notin {"idle", "addFinalizer"}
      \/ cache.finalizer \/ MayHaveSite) => gw.finalizer

(* Deletion is for ever: what the cache and the reconciler know of it holds *)
(* on the API server.                                                      *)
DeletionIsFinal ==
  (cache.deleting \/ pc \in {"deleteSite", "dropFinalizer"})
     => (~gw.exists \/ gw.deleting)

SiteInv == TypeOK /\ IdsIssued /\ AtMostOneSite /\ CreatesOnlyWhenNone
           /\ Covered /\ DeletionIsFinal

(* A Gateway that is never deleted eventually has a live site for good:    *)
(* finitely many faults, crashes and lost sites only delay it.             *)
EventuallyProgrammed ==
  []gw.exists /\ []~gw.deleting => <>[](gw.label \in sites)

(* A Gateway that is being deleted eventually goes. *)
DeletionCompletes == gw.deleting ~> ~gw.exists

-----------------------------------------------------------------------------
(* What comments and documents say and the code does not ensure. *)

(* gateway_controller.go:211-213, "preserve whatever is already in the     *)
(* Secret": credentials are never replaced by empty ones.                  *)
CredentialsPreserved == [][secret > 0 => secret' # Empty]_vars

(* It takes a lost site to break that.                                      *)
CredentialsKeptUntilLoss ==
  [][secret > 0 /\ kills = MaxKills => secret' # Empty]_vars

(* A deleted Gateway leaves no site behind, once the reconciler is done and *)
(* no call is still on its way.                                            *)
NoOrphanSite == (~gw.exists /\ pc = "idle" /\ late = 0) => sites = {}

(* gateway_controller.go:374-376: the newt pod is restarted when the Secret *)
(* changes.  For a Gateway that is never deleted and whose Secret settles  *)
(* on the credentials of the labelled site, so does the pod.               *)
SecretSettles == <>[](gw.label # NoSite /\ secret = gw.label)

PodFollowsSecret ==
  []gw.exists /\ []~gw.deleting /\ SecretSettles => <>[](pod = gw.label)
=============================================================================
