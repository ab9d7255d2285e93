----------------------------- MODULE HTTPRoute -----------------------------
(***************************************************************************)
(* HTTPRoutes and what they own in Pangolin: one resource per hostname,    *)
(* shared by all routes that name it, and one target per backend of each   *)
(* rule.  pkg/controller/httproute_controller.go, httproute_targets.go and *)
(* the resource functions of httproute_helpers.go.                         *)
(*                                                                         *)
(* The work queue never runs one route twice at a time, but different      *)
(* routes run concurrently (MaxConcurrentReconciles): each route has a job, *)
(* whose calls to Pangolin and the API server are steps.  A call may fail, *)
(* or take effect although its answer is lost, and the process may crash.  *)
(*                                                                         *)
(* Pangolin (external): a second resource for a hostname is a conflict;    *)
(* deleting a resource or a site deletes its targets; a target cannot be   *)
(* made on a site or a resource that is gone; a target has no labels,      *)
(* since reconcileTargets never gives it any.                              *)
(*                                                                         *)
(* Abstracted: a rule is the list of its backends, each with its path, its *)
(* Service's address and, as one value, what drift detection compares      *)
(* (match type, priority, method); headers and single sign-on are one flag *)
(* of the resource.  Every hostname matches a domain, every rule has a     *)
(* backend, every backend a port.  A route is read as it is: a stale copy  *)
(* is that of a job that has made no call yet.  Status is left out.        *)
(***************************************************************************)
EXTENDS Integers, Sequences, FiniteSets

CONSTANTS
  Routes,       \* the HTTPRoutes
  Hosts,        \* the hostnames
  Hostnames,    \* for each route, the sequence of its hostnames
  FirstRules,   \* for each route, the backends of its rules
  OtherRules,   \* for each route, the backend lists a user may change them to
  MaxFaults,    \* failing calls, lost answers and crashes in a run
  MaxChanges    \* changes of a route's rules, and sites, resources and
                \* targets deleted behind the controller's back, in a run

(* Backends: what a target is made from. *)
Backend == [path : STRING, service : STRING, conf : STRING]

ASSUME HTTPRouteAssumption ==
  /\ Hostnames \in [Routes -> Seq(Hosts)]
  /\ FirstRules \in [Routes -> Seq(Backend)]
  /\ OtherRules \in [Routes -> SUBSET Seq(Backend)]
  /\ MaxFaults \in Nat /\ MaxChanges \in Nat

VARIABLES
  route,     \* the routes, as the API server has them
  resource,  \* the resource of each hostname
  targets,   \* the targets of all resources
  nextRes,   \* the id of the next resource
  live,      \* the Gateway's site in Pangolin
  label,     \* the site-id label of the Gateway
  job,       \* what the reconciler is doing with each route
  faults, changes   \* budgets

kube   == <<route, label>>
budget == <<faults, changes>>
vars   == <<route, resource, targets, nextRes, live, label, job, faults, changes>>

NoSite == 0
None   == [id |-> 0, bare |-> FALSE]     \* no resource

Gone == [exists |-> FALSE, deleting |-> FALSE, finalizer |-> FALSE, rules |-> <<>>]

NewRoute(rules) == [exists |-> TRUE, deleting |-> FALSE, finalizer |-> FALSE, rules |-> rules]

(* A job: the next call, the copy of the rules, the site of the Gateway,   *)
(* the resources as listed, the hostnames still to be done, the resource   *)
(* of the first, its targets as listed, the backends still to be done, the *)
(* ids of targets to keep, and whether a deletion failed.                  *)
Idle == [pc |-> "idle", rules |-> <<>>, site |-> NoSite,
         known |-> [h \in Hosts |-> None], hosts |-> <<>>, res |-> 0,
         listed |-> {}, todo |-> <<>>, keep |-> {}, failed |-> FALSE]

Init ==
  /\ route = [r \in Routes |-> NewRoute(FirstRules[r])]
  /\ resource = [h \in Hosts |-> None] /\ targets = {} /\ nextRes = 1
  /\ live = 1 /\ label = 1
  /\ job = [r \in Routes |-> Idle]
  /\ faults = MaxFaults /\ changes = MaxChanges

-----------------------------------------------------------------------------
(* An operator whose name extends that of an operation is that operation   *)
(* with a mistake in it; no specification uses it.                         *)

Step(r, j) == job' = [job EXCEPT ![r] = j]
Return(r)  == Step(r, Idle)

Fault == faults > 0 /\ faults' = faults - 1

(* A call that had no effect and returned an error that ends the job. *)
Refused(r) == Fault /\ Return(r) /\ UNCHANGED <<kube, resource, targets, nextRes, live>>

Exists(id) == \E h \in Hosts : resource[h].id = id

TargetsOf(id) == {t \in targets : t.res = id}

Paths(rules) == {rules[i].path : i \in DOMAIN rules}

(* Ids of targets: one that no target has and no job remembers. *)
UsedIds == {t.id : t \in targets \cup UNION {job[r].listed : r \in Routes}}
             \cup UNION {job[r].keep : r \in Routes}
NewId == CHOOSE n \in 1 .. Cardinality(UsedIds) + 1 : n \notin UsedIds

NewTarget(j) ==
  [id |-> NewId, res |-> j.res, path |-> Head(j.todo).path,
   service |-> Head(j.todo).service, site |-> j.site, conf |-> Head(j.todo).conf]

-----------------------------------------------------------------------------
(* Reconcile and reconcileHTTPRoute. *)

Read(r) ==
  /\ job[r].pc = "idle"
  /\ route[r].exists
  /\ route[r].deleting => route[r].finalizer
  /\ Step(r, [Idle EXCEPT
        !.pc = IF route[r].deleting THEN "findDoomed"
               ELSE IF route[r].finalizer THEN "find" ELSE "addFinalizer",
        !.rules = route[r].rules])
  /\ UNCHANGED <<kube, resource, targets, nextRes, live, budget>>

AddFinalizer(r) ==
  /\ job[r].pc = "addFinalizer"
  /\ \/ /\ route[r].exists
        /\ route' = [route EXCEPT ![r].finalizer = TRUE]
        /\ Step(r, [job[r] EXCEPT !.pc = "find", !.rules = route[r].rules])
        /\ UNCHANGED faults
     \/ ~route[r].exists /\ Return(r) /\ UNCHANGED <<route, faults>>
     \/ Fault /\ Return(r) /\ UNCHANGED route
     \/ /\ Fault /\ Return(r) /\ route[r].exists
        /\ route' = [route EXCEPT ![r].finalizer = TRUE]
  /\ UNCHANGED <<label, resource, targets, nextRes, live, changes>>

EnterWithoutDriftCheck(j) ==
  IF j.hosts = <<>> THEN Idle
  ELSE LET k == j.known[Head(j.hosts)] IN
       [j EXCEPT !.res = k.id, !.pc = IF k.id = 0 THEN "createResource" ELSE "listTargets"]

(* Go on with the first of the remaining hostnames. *)
Enter(j) ==
  IF j.hosts = <<>> THEN Idle
  ELSE LET k == j.known[Head(j.hosts)] IN
       [j EXCEPT !.res = k.id,
                 !.pc = IF k.id = 0 THEN "createResource"
                        ELSE IF k.bare THEN "configure" ELSE "listTargets"]

(* The Gateway is read; without a site the job ends.  Domains and resources *)
(* are listed.                                                             *)
Find(r) ==
  /\ job[r].pc = "find"
  /\ \/ label = NoSite /\ Return(r) /\ UNCHANGED <<kube, resource, targets, nextRes, live, faults>>
     \/ /\ label # NoSite
        /\ Step(r, Enter([job[r] EXCEPT !.site = label, !.known = resource,
                                        !.hosts = Hostnames[r]]))
        /\ UNCHANGED <<kube, resource, targets, nextRes, live, faults>>
     \/ Refused(r)
  /\ UNCHANGED changes

NewResource(h) ==
  /\ resource' = [resource EXCEPT ![h] = [id |-> nextRes, bare |-> TRUE]]
  /\ nextRes' = nextRes + 1

(* createPangolinResourceForHostname; a conflict leads to Adopt. *)
CreateResource(r) ==
  /\ job[r].pc = "createResource"
  /\ LET h == Head(job[r].hosts) IN
     \/ /\ resource[h] = None /\ NewResource(h)
        /\ Step(r, [job[r] EXCEPT !.pc = "configure", !.res = nextRes])
        /\ UNCHANGED faults
     \/ /\ resource[h] # None
        /\ Step(r, [job[r] EXCEPT !.pc = "adopt"])
        /\ UNCHANGED <<resource, nextRes, faults>>
     \/ Fault /\ Return(r) /\ UNCHANGED <<resource, nextRes>>
     \/ Fault /\ Return(r) /\ resource[h] = None /\ NewResource(h)
  /\ UNCHANGED <<kube, targets, live, changes>>

AdoptTakingNil(r) ==
  /\ job[r].pc = "adopt"
  /\ \/ Step(r, [job[r] EXCEPT !.pc = "configure", !.res = resource[Head(job[r].hosts)].id])
        /\ UNCHANGED faults
     \/ Fault /\ Return(r)
  /\ UNCHANGED <<kube, resource, targets, nextRes, live, changes>>

(* After a conflict the resource is looked up by name, and may be gone. *)
Adopt(r) ==
  /\ job[r].pc = "adopt"
  /\ LET k == resource[Head(job[r].hosts)] IN
     \/ k # None /\ Step(r, [job[r] EXCEPT !.pc = "configure", !.res = k.id]) /\ UNCHANGED faults
     \/ k = None /\ Return(r) /\ UNCHANGED faults
     \/ Fault /\ Return(r)
  /\ UNCHANGED <<kube, resource, targets, nextRes, live, changes>>

(* UpdateResource and DisableSSO, for a new resource or, in                *)
(* verifyOrUpdateResource, for one that has drifted: errors are logged.    *)
Configure(r) ==
  /\ job[r].pc = "configure"
  /\ \/ /\ resource' = [h \in Hosts |-> IF resource[h].id = job[r].res
                                        THEN [resource[h] EXCEPT !.bare = FALSE]
                                        ELSE resource[h]]
        /\ UNCHANGED faults
     \/ Fault /\ UNCHANGED resource
  /\ Step(r, [job[r] EXCEPT !.pc = "listTargets"])
  /\ UNCHANGED <<kube, targets, nextRes, live, changes>>

-----------------------------------------------------------------------------
(* reconcileTargets. *)

HitsByPath(j) == {t \in j.listed : t.path = Head(j.todo).path /\ t.site = j.site}

(* Listed targets that stand for the next backend. *)
Hits(j) == {t \in j.listed : /\ t.path = Head(j.todo).path
                             /\ t.service = Head(j.todo).service
                             /\ t.site = j.site}

OrphansOfAnyPath(j) == {t \in j.listed : t.id \notin j.keep}

(* Listed targets of the route's paths that no backend needs. *)
Orphans(j) == {t \in j.listed : t.path \in Paths(j.rules) /\ t.id \notin j.keep}

(* Sweep the orphans, and go on with the next hostname after the last. *)
Settle(j) ==
  IF Orphans(j) # {} THEN [j EXCEPT !.pc = "sweep"]
  ELSE Enter([j EXCEPT !.hosts = Tail(@), !.listed = {}, !.keep = {}])

(* Go on with the next backend. *)
Turn(j) ==
  IF j.todo = <<>> THEN Settle(j)
  ELSE [j EXCEPT !.pc = IF Hits(j) = {} THEN "createTarget" ELSE "match"]

ListTargets(r) ==
  /\ job[r].pc = "listTargets"
  /\ \/ /\ Exists(job[r].res)
        /\ Step(r, Turn([job[r] EXCEPT !.listed = TargetsOf(job[r].res),
                                       !.todo = job[r].rules, !.keep = {}]))
        /\ UNCHANGED <<kube, resource, targets, nextRes, live, faults>>
     \/ /\ ~Exists(job[r].res) /\ Return(r)
        /\ UNCHANGED <<kube, resource, targets, nextRes, live, faults>>
     \/ Refused(r)
  /\ UNCHANGED changes

(* The first target of the list that stands for the backend is kept if it  *)
(* has not drifted.  Otherwise it is deleted, whether or not that works.   *)
(* The backend's Service may fail to be read.                              *)
Match(r) ==
  /\ job[r].pc = "match"
  /\ \/ \E t \in Hits(job[r]) :
          IF t.conf = Head(job[r].todo).conf
          THEN /\ Step(r, Turn([job[r] EXCEPT !.keep = @ \cup {t.id}, !.todo = Tail(@)]))
               /\ UNCHANGED <<targets, faults>>
          ELSE /\ Step(r, [job[r] EXCEPT !.pc = "createTarget", !.keep = @ \cup {t.id}])
               /\ \/ targets' = targets \ {t} /\ UNCHANGED faults
                  \/ Fault /\ UNCHANGED targets
     \/ Fault /\ Return(r) /\ UNCHANGED targets
  /\ UNCHANGED <<kube, resource, nextRes, live, changes>>

CreateTarget(r) ==
  /\ job[r].pc = "createTarget"
  /\ LET t == NewTarget(job[r])
         possible == Exists(job[r].res) /\ job[r].site = live IN
     \/ /\ possible /\ targets' = targets \cup {t}
        /\ Step(r, Turn([job[r] EXCEPT !.keep = @ \cup {t.id}, !.todo = Tail(@)]))
        /\ UNCHANGED faults
     \/ /\ Exists(job[r].res) /\ job[r].site # live
        /\ Step(r, [job[r] EXCEPT !.pc = "clearLabel"])
        /\ UNCHANGED <<targets, faults>>
     \/ ~Exists(job[r].res) /\ Return(r) /\ UNCHANGED <<targets, faults>>
     \/ Fault /\ Return(r) /\ UNCHANGED targets
     \/ Fault /\ Return(r) /\ possible /\ targets' = targets \cup {t}
  /\ UNCHANGED <<kube, resource, nextRes, live, changes>>

(* Orphans are deleted one by one; errors are logged. *)
Sweep(r) ==
  /\ job[r].pc = "sweep"
  /\ \E t \in Orphans(job[r]) :
       /\ Step(r, Settle([job[r] EXCEPT !.listed = @ \ {t}]))
       /\ \/ targets' = targets \ {t} /\ UNCHANGED faults
          \/ Fault /\ UNCHANGED targets
  /\ UNCHANGED <<kube, resource, nextRes, live, changes>>

(* The site is gone: the Gateway's label is cleared. *)
ClearLabel(r) ==
  /\ job[r].pc = "clearLabel"
  /\ Return(r)
  /\ \/ label' = NoSite /\ UNCHANGED faults
     \/ Fault /\ UNCHANGED label
  /\ UNCHANGED <<route, resource, targets, nextRes, live, changes>>
-----------------------------------------------------------------------------
(* handleDelete. *)

(* The hostnames left, from the first that has a resource on. *)
FromFirstKnown(j) ==
  LET known == {i \in DOMAIN j.hosts : j.known[j.hosts[i]] # None} IN
  IF known = {} THEN <<>>
  ELSE SubSeq(j.hosts, CHOOSE i \in known : \A k \in known : i <= k, Len(j.hosts))

EnterDoomedForgettingErrors(j) ==
  LET hosts == FromFirstKnown(j) IN
  [j EXCEPT !.pc = IF hosts # <<>> THEN "listDoomed" ELSE "dropFinalizer",
            !.res = IF hosts # <<>> THEN j.known[Head(hosts)].id ELSE 0,
            !.hosts = hosts, !.listed = {}, !.keep = {}]

(* Go on with the first remaining hostname that has a resource. *)
EnterDoomed(j) ==
  LET hosts == FromFirstKnown(j) IN
  [j EXCEPT !.pc = IF hosts # <<>> THEN "listDoomed"
                   ELSE IF j.failed THEN "idle" ELSE "dropFinalizer",
            !.res = IF hosts # <<>> THEN j.known[Head(hosts)].id ELSE 0,
            !.hosts = hosts, !.listed = {}, !.keep = {}]

NextDoomed(j) == EnterDoomed([j EXCEPT !.hosts = Tail(@)])

(* A job that has failed ends. *)
StepDoomed(r, j) == Step(r, IF j.pc = "idle" THEN Idle ELSE j)

FindDoomedOrGiveUp(r) ==
  /\ job[r].pc = "findDoomed"
  /\ IF \A h \in Hosts : resource[h] = None
     THEN Return(r)
     ELSE Step(r, EnterDoomed([job[r] EXCEPT !.known = resource, !.hosts = Hostnames[r]]))
  /\ UNCHANGED <<kube, resource, targets, nextRes, live, budget>>

(* The list may fail: then there is nothing to do. *)
FindDoomed(r) ==
  /\ job[r].pc = "findDoomed"
  /\ \/ /\ Step(r, EnterDoomed([job[r] EXCEPT !.known = resource, !.hosts = Hostnames[r]]))
        /\ UNCHANGED faults
     \/ Fault /\ Step(r, EnterDoomed(job[r]))
  /\ UNCHANGED <<kube, resource, targets, nextRes, live, changes>>

(* If its targets cannot be listed the hostname is passed over. *)
ListDoomed(r) ==
  /\ job[r].pc = "listDoomed"
  /\ \/ /\ Exists(job[r].res)
        /\ Step(r, [job[r] EXCEPT !.pc = "deleteTargets", !.listed = TargetsOf(job[r].res)])
        /\ UNCHANGED faults
     \/ ~Exists(job[r].res) /\ StepDoomed(r, NextDoomed(job[r])) /\ UNCHANGED faults
     \/ Fault /\ StepDoomed(r, NextDoomed(job[r]))
  /\ UNCHANGED <<kube, resource, targets, nextRes, live, changes>>

(* Without labels, every target counts as the route's own.  One that cannot *)
(* be deleted, or is gone already (404), remains and makes the job fail.   *)
DeleteTarget(r) ==
  /\ job[r].pc = "deleteTargets"
  /\ \E t \in job[r].listed :
       LET error == [job[r] EXCEPT !.listed = @ \ {t}, !.keep = @ \cup {t.id}, !.failed = TRUE] IN
       \/ /\ t \in targets /\ targets' = targets \ {t}
          /\ Step(r, [job[r] EXCEPT !.listed = @ \ {t}])
          /\ UNCHANGED faults
       \/ t \notin targets /\ Step(r, error) /\ UNCHANGED <<targets, faults>>
       \/ Fault /\ Step(r, error) /\ targets' \in {targets, targets \ {t}}
  /\ UNCHANGED <<kube, resource, nextRes, live, changes>>

WithoutResource(id) ==
  /\ resource' = [h \in Hosts |-> IF resource[h].id = id THEN None ELSE resource[h]]
  /\ targets' = targets \ TargetsOf(id)

(* The resource goes if none of the listed targets remains. *)
DeleteResource(r) ==
  /\ job[r].pc = "deleteTargets" /\ job[r].listed = {}
  /\ LET error == [job[r] EXCEPT !.failed = TRUE] IN
     \/ /\ job[r].keep # {} /\ StepDoomed(r, NextDoomed(job[r]))
        /\ UNCHANGED <<resource, targets, faults>>
     \/ /\ job[r].keep = {} /\ Exists(job[r].res)
        /\ WithoutResource(job[r].res)
        /\ StepDoomed(r, NextDoomed(job[r])) /\ UNCHANGED faults
     \/ /\ job[r].keep = {} /\ ~Exists(job[r].res)
        /\ StepDoomed(r, NextDoomed(error)) /\ UNCHANGED <<resource, targets, faults>>
     \/ /\ job[r].keep = {} /\ Fault /\ StepDoomed(r, NextDoomed(error))
        /\ WithoutResource(job[r].res) \/ UNCHANGED <<resource, targets>>
  /\ UNCHANGED <<kube, nextRes, live, changes>>

DropFinalizer(r) ==
  /\ job[r].pc = "dropFinalizer"
  /\ Return(r)
  /\ \/ route' = [route EXCEPT ![r] = Gone] /\ UNCHANGED faults
     \/ Fault /\ route' \in {route, [route EXCEPT ![r] = Gone]}
  /\ UNCHANGED <<label, resource, targets, nextRes, live, changes>>

HandleDelete(r) ==
  FindDoomed(r) \/ ListDoomed(r) \/ DeleteTarget(r) \/ DeleteResource(r) \/ DropFinalizer(r)

ReconcileTargets(r) ==
  ListTargets(r) \/ Match(r) \/ CreateTarget(r) \/ Sweep(r)

Reconcile(r) ==
  \/ Read(r) \/ AddFinalizer(r) \/ Find(r)
  \/ CreateResource(r) \/ Adopt(r) \/ Configure(r)
  \/ ReconcileTargets(r) \/ ClearLabel(r) \/ HandleDelete(r)

-----------------------------------------------------------------------------
(* The environment. *)

(* Sites are numbered by what has been deleted, so a new one has a new id. *)
NextSite == MaxChanges - changes + 1

(* What GatewaySite promises: a Gateway without a live site gets one. *)
GatewayReconciles ==
  /\ label # live \/ live = NoSite
  /\ live' = IF live = NoSite THEN NextSite ELSE live
  /\ label' = live'
  /\ UNCHANGED <<route, resource, targets, nextRes, job, budget>>

Edit(r) ==
  /\ changes > 0 /\ changes' = changes - 1
  /\ route[r].exists /\ ~route[r].deleting
  /\ \E rules \in OtherRules[r] \ {route[r].rules} : route' = [route EXCEPT ![r].rules = rules]
  /\ UNCHANGED <<label, resource, targets, nextRes, live, job, faults>>

UserDeletes(r) ==
  /\ route[r].exists /\ ~route[r].deleting
  /\ route' = [route EXCEPT ![r] = IF @.finalizer THEN [@ EXCEPT !.deleting = TRUE] ELSE Gone]
  /\ UNCHANGED <<label, resource, targets, nextRes, live, job, budget>>

(* Someone deletes the site (and its targets), a resource or a target. *)
Outsider ==
  /\ changes > 0 /\ changes' = changes - 1
  /\ \/ live # NoSite /\ live' = NoSite /\ targets' = {} /\ UNCHANGED resource
     \/ \E h \in Hosts : resource[h] # None /\ WithoutResource(resource[h].id) /\ UNCHANGED live
     \/ \E t \in targets : targets' = targets \ {t} /\ UNCHANGED <<resource, live>>
  /\ UNCHANGED <<kube, nextRes, job, faults>>

Crash ==
  /\ Fault
  /\ job # [r \in Routes |-> Idle] /\ job' = [r \in Routes |-> Idle]
  /\ UNCHANGED <<kube, resource, targets, nextRes, live, changes>>

Next ==
  \/ \E r \in Routes : Reconcile(r) \/ Edit(r) \/ UserDeletes(r)
  \/ GatewayReconciles \/ Outsider \/ Crash

(* A job goes on, and another follows: after five minutes on success, ten  *)
(* seconds while the Gateway is not ready, with backoff on an error.  The  *)
(* Gateway reconciler does its part.                                       *)
Fairness ==
  /\ \A r \in Routes : WF_vars(Reconcile(r))
  /\ WF_vars(GatewayReconciles)

Spec == Init /\ [][Next]_vars
FairSpec == Spec /\ Fairness

-----------------------------------------------------------------------------
Calls == {"idle", "addFinalizer", "find", "createResource", "adopt", "configure",
          "listTargets", "match", "createTarget", "sweep", "clearLabel",
          "findDoomed", "listDoomed", "deleteTargets", "dropFinalizer"}

CallsOnResource == {"configure", "listTargets", "match", "createTarget", "sweep"}

(* A job is before one of its calls, with an id if that is on a resource. *)
JobsInRange ==
  \A r \in Routes : /\ job[r].pc \in Calls
                    /\ job[r].pc \in CallsOnResource => job[r].res # 0

(* Every variable stays in its range, a target is always one of a resource *)
(* that exists, and a job that is to work on a resource has its id.        *)
TypeOK ==
  /\ route \in [Routes -> [exists : BOOLEAN, deleting : BOOLEAN, finalizer : BOOLEAN,
                           rules : Seq(Backend)]]
  /\ resource \in [Hosts -> [id : 0 .. nextRes - 1, bare : BOOLEAN]]
  /\ \A t \in targets : Exists(t.res) /\ t.res # 0
  /\ nextRes \in Nat /\ live \in Nat /\ label \in Nat
  /\ JobsInRange
  /\ faults \in 0 .. MaxFaults /\ changes \in 0 .. MaxChanges

HostsOf(r) == {Hostnames[r][i] : i \in DOMAIN Hostnames[r]}

Wanted(r) == {route[r].rules[i] : i \in DOMAIN route[r].rules}

(* The paths of the rules a route may have, and the condition that no two  *)
(* routes have one in common: what tells their targets apart.              *)
PathsOf(r) == UNION {Paths(rules) : rules \in {FirstRules[r]} \cup OtherRules[r]}
OwnPaths == \A q, r \in Routes : q # r => PathsOf(q) \cap PathsOf(r) = {}

(* The condition that no two routes share a hostname. *)
OwnHosts == \A q, r \in Routes : q # r => HostsOf(q) \cap HostsOf(r) = {}

Alive(r) == route[r].exists /\ ~route[r].deleting

(* Target t carries the traffic of a backend of live route r. *)
Carries(t, r) ==
  /\ Alive(r)
  /\ \E h \in HostsOf(r) : t.res = resource[h].id
  /\ t.site = live
  /\ [path |-> t.path, service |-> t.service, conf |-> t.conf] \in Wanted(r)

Served(r) ==
  \A h \in HostsOf(r), b \in Wanted(r) :
    \E t \in targets : t.res = resource[h].id /\ Carries(t, r)
                       /\ t.path = b.path /\ t.service = b.service /\ t.conf = b.conf

(* No target of the route's paths is there that its rules do not call for. *)
NoStray(r) ==
  \A t \in targets :
    (\E h \in HostsOf(r) : t.res = resource[h].id) /\ t.path \in Paths(route[r].rules)
      => Carries(t, r)

(* A target that carries a live route's traffic is never taken away by the *)
(* reconciliation of another route of the same hostname: their paths tell  *)
(* their targets apart.  (Deletion is another matter, see below.)          *)
NeighbourUndisturbed ==
  [][\A q \in Routes : ReconcileTargets(q) =>
        \A t \in targets \ targets', r \in Routes \ {q} : ~Carries(t, r)]_vars

(* When the last route is gone and no call has failed, nothing is left in  *)
(* Pangolin, whatever the jobs of the routes did to each other meanwhile.  *)
NothingLeftBehind ==
  (\A r \in Routes : ~route[r].exists) /\ faults = MaxFaults
    => targets = {} /\ resource = [h \in Hosts |-> None]

(* A route that is never deleted ends up with its resource configured, all *)
(* its targets and no others on its paths, although other routes' deletion *)
(* takes its targets and resource away, and sites and targets get lost.    *)
RoutesServed ==
  \A r \in Routes :
    []Alive(r) => <>[](Served(r) /\ NoStray(r) /\ \A h \in HostsOf(r) : ~resource[h].bare)

(* A route that is being deleted goes, although another route's job may be *)
(* deleting the same targets and resource.                                 *)
DeletionCompletes == \A r \in Routes : route[r].deleting ~> ~route[r].exists

-----------------------------------------------------------------------------
(* What comments say and the code does not ensure. *)

(* httproute_controller.go:96: deleting a route takes no target away       *)
(* from another.                                                           *)
NeighbourSurvivesDeletion ==
  [][\A q \in Routes : HandleDelete(q) =>
        \A t \in targets \ targets', r \in Routes \ {q} : ~Carries(t, r)]_vars

(* httproute_targets.go:16, "Each HTTPRoute rule becomes a target": a live *)
(* route whose rules do not change ends up with a target for each of them. *)
EveryRuleHasATarget == \A r \in Routes : []Alive(r) => <>[]Served(r)
=============================================================================
