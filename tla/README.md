# Verification of the Pangolin Gateway controller

TLA+ models of the Pangolin Gateway controller (`cmd/`, `pkg/`), the TLC runs
that check them and the TLAPS proofs about them.  Line numbers refer to the
source tree this directory belongs to.

## The system

A Kubernetes controller that turns Gateway API objects into objects of a
Pangolin server.  A Gateway becomes a Pangolin *site* with a *newt* pod that
tunnels to it; routes become *resources* and *targets* of that site.

| component | source | state it keeps | operations |
|---|---|---|---|
| circuit breaker | `pkg/pangolin/circuit_breaker.go` | state, failure count, time of the last failure | `Allow`, `RecordSuccess`, `RecordFailure` |
| Pangolin client | `pkg/pangolin/client.go`, `errors.go` | the breaker | `doRequest`, `Ping`, one method per API call, page by page lists |
| Gateway reconciler | `pkg/controller/gateway_controller.go` | finalizer and site-id label of the Gateway, the Secret, the site in Pangolin | reconcile, `ensureSite`, `verifyOrRecreateSite`, `recreateSite`, `handleDelete` |
| Newt reconciler | `pkg/controller/newt_controller.go` | the newt Deployment | reconcile |
| HTTPRoute reconciler | `pkg/controller/httproute_*.go` | finalizer and resource-id label of the route; resources by hostname, shared by routes; targets by path | reconcile, `handleDelete`, target cleanup |
| GRPCRoute reconciler | `pkg/controller/grpcroute_controller.go` | the same, one resource per route | reconcile, delete |
| TCPRoute reconciler | `pkg/controller/tcproute_controller.go` | the same, one resource per route | reconcile, adopt, verify, delete |
| status writers | `httproute_status.go` and the reconcilers | conditions per parent | get, change, update, retry on conflict |
| GatewayClass reconciler | `gatewayclass_controller.go` | one condition | reconcile |
| readiness checker | `healthcheck.go` | last result and its time, ping in flight | `check` |
| webhooks, config, metrics, wiring | `pkg/webhook`, `pkg/config`, `pkg/metrics`, `cmd/controller/main.go` | none, or write-only counters | validation, loading, registration |

How they interact.  Each reconciler has a work queue that never runs one key
twice at a time; different keys, and different reconcilers, run concurrently.
They read Kubernetes objects from an informer cache that lags behind the API
server, patch them by merge patches without a resource version (no patch
conflicts; it just lands on whatever is there), and share one Pangolin client
with one breaker.  The Gateway's site-id label is the hand-over point: the
Gateway reconciler sets it, the Newt and route reconcilers wait for it, and a
route reconciler removes it when Pangolin says the site is gone.  The names of
sites and resources are the only thing that ties a Pangolin object to its
Kubernetes object once a label is lost.

What is hard: goroutines sharing the breaker and its callback; stale reads
followed by blind patches; a process that may stop between any two calls of a
reconcile; calls whose answer is lost, or that take effect late; deletion
racing creation; objects in Pangolin deleted by someone else.  `PROJECT.json`
lists these hazards at their lines, each with the properties that cover it or
the reason why none does.

What makes each component correct:

- *breaker*: it follows its documented transition table, but that a late success
  closes it as well; counter and state
  agree; it closes in the end once the API is well.
- *Gateway and Newt*: at most one site per Gateway; no site deleted under a live
  Gateway; the finalizer is there before the site; credentials are stored
  before they are announced; a live Gateway ends up with a live site; a
  deletion ends.
- *routes*: at most one resource per name; no target of another route removed;
  a live route's resource not deleted; deletion leaves nothing behind.
- *status*: updates lost in conflicts are made up for: what the status says is
  in the end true of the current generation.
- *readiness*: one ping at a time; ready for good once the API is well for good.
- *lists*: an item that is there throughout is listed, and once, as far as the
  client's pages and the totals the server reports reach.

## Modules

| module | models | state |
|---|---|---|
| `BreakerPromise` | the transition table in the comment of type `CircuitBreaker` | mode, streak of failures |
| `CircuitBreaker` | the breaker, the requests through it, the callback and its gauge | as in the code, plus where each request is and how the API fares |
| `CircuitBreaker_proofs` | theorems | |
| `GatewaySite` | the Gateway and Newt reconcilers for one Gateway, and the routes' effect on it | API server, cache, Pangolin, and the reconciler's local variables |
| `GatewaySite_proofs` | theorems | |
| `OwnerPromise` | what the reconcilers of Gateways, TCPRoutes and GRPCRoutes promise about the thing they keep in Pangolin | where the object stands, its things, creations given up |
| `OwnerPromise_proofs` | theorems | |
| `HTTPRoute` | several HTTPRoutes that share hostnames, their resources and targets | API server, Pangolin, and one job per route with its local variables |
| `HTTPRouteMC` | the routes and rules of the runs | |
| `HTTPRoute_proofs` | theorems | |
| `TCPRoute` | one TCPRoute, its resource and targets | API server, caches, Pangolin, and the reconciler's local variables |
| `TCPRoute_proofs` | theorems | |
| `GRPCRoute` | one GRPCRoute, its resource and targets, and its status (the status writer of HTTPRoutes is the same function) | as `TCPRoute`, plus generation, verdict and observedGeneration |
| `GRPCRoute_proofs` | theorems | |
| `Readiness` | the readiness checker, composed with `CircuitBreaker`, which it extends | the breaker's, plus result, clock and flag of the checker and where each probe is |
| `Readiness_proofs` | theorems | |
| `Lists` | a list read page by page from a server while it changes | the list, the kind of server, what has been received |
| `Lists_proofs` | theorems | |

### CircuitBreaker

`Allow`, `RecordSuccess` and `RecordFailure` are the three critical sections.
`doRequest` is `Send` (its call of `Allow`), then one of `Succeed`, `Fail` and
`Unread` (a body that cannot be read is reported to nobody), then `Callback` if
the state changed, since the callback runs after the mutex is released.  A
request stays on the wire as long as it likes, across any transitions.  A
half-open breaker lets any number of requests through: `Allow` (62-69) refuses
only while open, where the comments at lines 17 and 57 speak of one probe.  `Ping`
calls `Allow` and reports nothing.  `Tick` is time: the age of the last failure
up to the timeout, beyond which it makes no difference.  The environment,
`api`, is healthy or degraded; only a request that was on the wire while it was
degraded can fail.

### GatewaySite

Each call that the Gateway reconciler makes to the API server or to Pangolin is
an action, `pc` the next of them, and `snap`, `site`, `creds` its local
variables: `Read`, `AddFinalizer`, `Verify`, `List`, `Create`, `SaveSecret`,
`SaveLabel`, `Restart`, `DeleteSite`, `DropFinalizer`.  A call can be refused,
or succeed with its answer lost, as long as `faults` lasts; `Crash` may stop
the process between any two calls; a `CreateSite` the client has given up may
take effect later (`LateCreate`).  `List` serves both users of `ensureSite`:
the first creation, and `recreateSite`, told apart by the copy's label as in
the code.  `DeployNewt` is the Newt reconciler, `PodStarts` the moment its pod
reads the Secret.  `RouteFindsSiteGone` and `RouteClearsLabel` are the two
halves of what a route reconciler does when a target is refused because of the
site.  The user may delete the Gateway, and `SiteKilled` is anyone else who
deletes a site (an operator, or a Gateway of that name in another namespace,
since the site's name leaves the namespace out).

### OwnerPromise

What three reconcilers have in common, without caches, copies, labels and
retries: `GatewaySite`, `TCPRoute` and `GRPCRoute` implement it.  `object` is
where the Gateway or route stands (`Phase` there): without finalizer, with it,
being deleted, gone.  `things` are its sites or resources; `spare` are those
that may be one too many, because their creation took effect late (`lateIds`,
`extra`) or was made without a look at what is there (`extra`); `pending` are
the creations whose client has given up (`late`).  Nothing is made for an object without
the finalizer; a thing that is not spare is made only when there is none but
spare ones; a live object's things are taken away by nobody but others (`Lose`),
except that a TCPRoute may be detached (`MayLetGo`).  The promise ends where the
code's does: an object may go while it has a thing, as `gateway_orphan` shows.
In `GRPCRoute` edits and losses share one budget, which is `losses` here; an
edit is a loss of nothing.

### HTTPRoute

The work queue runs a route at most once at a time and different routes
concurrently, so each route has a `job`, a record of the reconciler's local
variables with the next call as `pc`.  `Find` reads the Gateway and lists
domains and resources; then for each hostname `CreateResource` (with `Adopt`
after a conflict) and `Configure`, and `reconcileTargets`: `ListTargets`, for
each backend `Match` or `CreateTarget`, then `Sweep` of the orphans.  What was
listed stays as it was (`known`, `listed`) while other jobs change Pangolin.
A target that is refused because of its site leads to `ClearLabel`.
`HandleDelete` is the deletion: `FindDoomed`, and for each hostname that has a
resource `ListDoomed`, `DeleteTarget` and `DeleteResource`, in the end
`DropFinalizer`.  Errors that the code logs and passes over (`Configure`,
`Sweep`, deletion of a drifted target, a failed list during deletion) are passed
over here.

A target is what `reconcileTargets` compares: path, Service, site, and one value
for match type, priority and method.  `GatewayReconciles` stands for the Gateway
reconciler with what `GatewaySite` shows of it: a Gateway without a live site
gets one.

### TCPRoute

As in `GatewaySite`, one process whose calls are the actions, with two caches,
of the route and of its Gateway's label.  `Entry` decides what a copy leads to:
deletion (`DeleteOwn`, `DropFinalizer`), detachment when no parent can be used
(`Detach`, `Unlabel`), or the finalizer and then a resource, found by name or
made (`Adopt`, `Create`, `SaveLabel`) or verified and if need be made again
(`Verify`).  After each patch the copy is what the API server answered, so a
label or an edit unknown to the cache is taken up there.  Then the targets:
`ListTargets` computes what is missing and what is stale, `CreateTarget` and
`Sweep` do it, in any order within each; `ClearLabel` if the site is gone.
`blind` remembers that the list of resources failed and the code creates one
without it; such resources, and those whose creation took effect late, are in
`extra`.  What the route's rules resolve to is a set of endpoints.

### GRPCRoute

Built as `TCPRoute` is, of another reconciler, which differs where it matters.
A route without a label goes straight to `Create` and looks at no list
(`Unsearched`); only a route whose label names nothing is looked up by name
(`Verify`, then `Create` or adoption by `SaveLabel`).  Targets are added and
never removed.  A route without a parent keeps its resource.  And it writes its
status: a job that has got past the Gateway ends with `WriteStatus`, whose five
attempts within some 50 ms are one step.  It changes the cached object, whose
generation it reports, and sends it with that object's version, so it succeeds
only while the cache shows the object as the API server has it.

What Pangolin says to a second resource of a name is not known from this code;
`refusing` is either, from the start, and each behaviour keeps to it.  Facts the
model brings out, none of which a document of the repository denies:

- If the answer to the first `CreateResource` or the label patch after it is
  lost, the next job creates a second resource, or, on a server that refuses one,
  gets a conflict in every job from then on; the route is never served, and
  its status says so (`StatusSettles`).
- For a moment `observedGeneration` may be of a spec nobody has looked at: the
  generation is that of the object at the time of writing
  (`httproute_status.go` 27), the verdict that of the one that was reconciled.
- Old targets, of removed backends, stay.  (Those of a lost site are taken to go
  with it in Pangolin: `Outsider`.)

The status has an entry per parent.  The reconciler writes that of the first
parent only, and never removes the entry of one the route no longer names
(566-576).  The model's one verdict stands for the first parent's entry; a
change of the first parent's name is not modelled.

### Readiness

`Begin` and `Store` are the two critical sections of `check`; what lies between
is `Consult`, which asks the breaker (it is the action `Ping` of `CircuitBreaker`
if the breaker agrees), and `Answered`.  A probe that is answered from the cache,
or while another pings, changes nothing and is no action.  `since` is the age of
the last result, on the clock that is also the breaker's.  A ping ended by its
5 s timeout, or because the kubelet has given up, is one that failed.

### Lists

`Receive` is one turn of the loop of `ListSites`, `ListResources` and
`ListTargetsRaw`: it takes a page and decides whether it was the last.  `Add`
and `Delete` change the list between any two pages, at any place.  The three
kinds of server: one that understands page numbers and may give less per page
than asked for (`cap`), one that is older and returns its first `LegacyLimit`
items whatever it is asked, and one that is asked for offsets.  Each may or may
not report its page size (`tells`).  With each page it reports a total, which
the loop compares with what has come (453, 628, 689): the length of the list, a
smaller number, among them the 0 that a total left out is decoded as, or a
larger one (`counts`, `Totals`).

Operators whose name extends that of a modelled operation
(`RecordFailureOffByOne`, `EntryWithoutFinalizer`...) are that operation with a
plausible mistake.  No specification uses them; each makes one property fail,
and `PROJECT.json` says which.

## Runs

| run | question | bounds |
|---|---|---|
| `breaker` | Do the breaker and the readiness checker keep their promises under concurrent requests and probes? | 3 requests, threshold 2, timeout 2, counter capped at 3; 2 probes, results good for 2 ticks, errors for 1 |
| `breaker_gauge` | Does the gauge follow the state? (no) | 2 requests |
| `gateway_site` | Is the life of a site safe, and does it end well? | 2 faults, 1 site lost |
| `gateway_credentials` | Are stored credentials preserved? (no) | no fault, 1 site lost |
| `gateway_orphan` | Does a deleted Gateway leave nothing in Pangolin? (no) | no fault, none lost |
| `gateway_pod` | Does the newt pod follow the Secret? (no) | no fault, 1 site lost |
| `http` | Do two routes that share a hostname end up right, and do they leave nothing? | 1 fault, 1 change (an edit, or a site, resource or target lost) |
| `http_shared` | Does deleting a route spare its neighbour's targets? (no) | no fault or change |
| `http_twins` | Do two rules of one path and Service both get a target? (no) | 1 route, no fault or change |
| `tcp` | Is the life of a TCPRoute's resource safe, and does it end well? | 2 endpoints; 1 edit, 1 fault, 1 loss |
| `grpc` | Is the life of a GRPCRoute's resource safe, does it end well, and does the status tell? | 2 endpoints; 1 edit or loss, 2 faults or stale starts |
| `lists` | Is a list complete and without repetition although it changes while it is read? | pages of 2, at most 3 pages, servers that give 1, 2 or 3; up to 6 items at first, 3 changes; totals exact, anything smaller, or too large by 1 |

Properties of `breaker`:

- `TypeOK`.
- `CountMatchesState`: closed exactly while fewer than `Threshold` failures are
  counted.  `RecordFailure` relies on it: it reopens a half-open breaker by
  comparing the counter, never by looking at the state.
- `OneFailureEndsProbing`: a failure recorded while probing reopens the breaker
  and restarts its timeout.
- `ImplementsPromise`: refinement of `BreakerPromise`, whose table has separate
  rules for opening and for reopening where the code has one counter.  The
  table of the comment lacks one transition the code has, from open to closed
  by a late success; `HealLate` adds it.
- `RecoversWithApi`: if the API is healthy for good, the breaker is closed for
  good, although readiness probes ask it and never report an outcome.
- `OnePingAtATime`: of the probes that arrive together one pings, so that no
  result is replaced by an older one.
- `ReadyWithApi`: if the API is healthy for good, the controller reports itself
  ready for good.  A flag left up on one of the ways out of `Ping`, or an error
  that never expires, would prevent it.

Three requests are needed for one to open the breaker, one to probe and one to
be late from before; a threshold of 2 lets counted failures and state differ;
the cap of 3 leaves one value above the threshold.  Two probes can collide; a
success is kept longer than an error, and both are of the order of the breaker's
timeout (30 s, 5 s and 30 s in the code), so each of them can run out first.

Properties of `gateway_site`:

- `TypeOK`.
- `AtMostOneSite`: leaving aside `CreateSite` calls that took effect after the
  client gave up, there is never a second site.
- `ImplementsPromise`: refinement of `OwnerPromise`.  A site is made only for a
  Gateway with the finalizer, so that it cannot go without `handleDelete`, and
  only when there is none; a crash, a stale copy or a late create does nothing
  that the promise does not allow.
- `LiveGatewayKeepsSite`: only for a Gateway that is being deleted, or is gone,
  does the reconciler delete a site, although it decides from the cache.
- `SecretBeforeLabel`: credentials are in the Secret when the label of a new
  site is published.
- `EventuallyProgrammed`: a Gateway that is never deleted has a live site in the
  end.
- `DeletionCompletes`: a Gateway under deletion goes.

Two faults and one lost site, each at any step, give a failure or crash of the
original reconcile and another one of the repair, before or after a site is
lost: a `CreateSite` with a lost answer followed by a failed patch, for
instance.  One fault is not enough for a repair that fails in turn.
Deadlock is not checked: once the Gateway is
gone and collected nothing remains to be done.

Fairness.  *Breaker*: time passes; `http.Client` has a timeout, so `doRequest`
returns; the callback is an ordinary call; requests keep coming, because
reconciles are requeued on error and the manager resyncs every ten minutes.  The
kubelet probes every ten seconds (`config/deployment.yaml` 119-124), and a ping
returns within its timeout.
*GatewaySite*: a reconcile in progress goes on and another follows (requeue
with backoff on error, after two minutes on success), the informer catches up,
the Newt reconciler and the kubelet act, and a route's patch is sent.  All weak,
and none is assumed of the user, the API's health, crashes, faults or lost
sites.

Properties of `http`:

- `TypeOK`, which says as well that every target belongs to a resource that is
  there (a job that remembers a deleted resource must not get it back) and that a
  job which goes on to a resource has its id (after a conflict the lookup by name
  may find none).
- `NothingLeftBehind`: when the last route has gone and no call has failed,
  Pangolin is as it was before.  Failures are excluded on purpose: if the lists of
  resources or of targets fail, `handleDelete` (113-115, 135-138) goes on as if
  they were empty.
- `NeighbourUndisturbed`: target reconciliation of one route never removes a
  target that carries another's traffic.  What tells them apart is the path.
- `RoutesServed`: a route that is never deleted ends up with a configured
  resource, a target for each backend and no other target on its paths, even if
  its neighbour's deletion takes everything away under its hands.
- `DeletionCompletes`: a route under deletion goes, although two deletions may be
  deleting the same targets and fail on each other's 404.

One fault and one change at any two steps give a failed repair.  One hostname
and two routes are the least that share a resource; each route has one rule, so
lists of two targets mix both owners.  Fairness: a job goes on and another follows (requeued
after five minutes, after ten seconds while the Gateway is not ready, with
backoff on error).

Properties of `tcp`:

- `TypeOK`.
- `AtMostOneResource`: a lost label, a crash or a stale copy makes no second
  resource; a failed list (409-411) or a creation that takes effect late may.
- `ImplementsPromise`: refinement of `OwnerPromise`, with `MayLetGo`.  No resource
  without the finalizer, which a copy that has been detached meanwhile may not show.
- `MakeBeforeBreak`: when a stale target is deleted, every endpoint of the copy
  has its target, so an edit leaves no gap.
- `RouteServed`: a route that stays attached ends up with a resource and exactly
  the wanted targets on the live site.
- `TrafficStopsUndisturbed`: a route that stays detached ends up without targets,
  if no call failed and nothing was lost in Pangolin.
- `DeletionCompletes`: a route under deletion goes.

Two endpoints are needed for a target to be made while another is stale.  One
edit, one fault and one loss, each at any step and in any order, cover an edit
between the list of targets and their deletion, a lost resource that is
recreated from a copy that misses the last label, and a crash of the repair.
Fairness: as for HTTPRoute, and both informers catch up.

Three facts about detachment are not among the properties, since no document
speaks of them.  `deleteTCPPangolinResource` (375-390) deletes the resource of
its copy's label and removes whatever label there is; if the copy misses a
recreation, the new resource keeps forwarding and is forgotten, which is why
`TrafficStopsUndisturbed` excepts faults and losses.  A Gateway whose label has
just been cleared, as the route reconcilers do when its site is lost, is skipped
like one that does not exist (211-217), and the attached route's resource is
deleted (232-241) and later made again.  And a deletion may miss a resource whose
label its copy does not have, as `gateway_orphan` shows for sites.

Properties of `grpc`:

- `TypeOK`.
- `AtMostOneRecreated`: of the resources made after a look at the list there is
  never more than one.  First creations, which look at nothing, and those that
  took effect late are set aside (`extra`).
- `ImplementsPromise`: refinement of `OwnerPromise`.  A live route's resource is
  never deleted, and none exists without the finalizer, which a status update,
  sent as a whole object, might take away.
- `RouteServedUndisturbed`: a route that keeps a parent and a backend ends up with
  a resource and a target on the live site for each backend, except on a server
  that refuses a second resource of a name after a call has failed.
- `StatusSettles`: in the end the status is about the current generation and says
  `accepted` exactly if the route is served, that exception included.
- `DeletionCompletes`: a route under deletion goes.

The second fault is what the first needs to show its effect: a lost answer and a
job that starts from a cache without the label, or a lost label patch and a
failing repair.  A job that starts from a copy that lags behind counts as a
fault too, which keeps the runs small; in `TCPRoute` any job may.  Fairness: as
for TCPRoute.  That the status settles needs a job that starts after the
cache has caught up: errors and waiting routes are requeued after ten or thirty
seconds, others after five minutes.

Properties of `lists`:

- `CompleteUnlessDeleted`: a list within reach that is returned holds every item
  that was there when the call began, wherever others have been added meanwhile.
- `EachOnceUnlessAdded`: no item comes twice, whatever has been deleted meanwhile.

Each says what the loop can promise, and its exceptions are real.  A deletion
shifts an item onto a page already read, and the reconciler that misses a site
or a resource creates another; an addition shifts one back, and it comes twice.
A server that gives fewer targets per page than it is asked for leaves gaps
between the offsets (`Honest`); so it does with page numbers if it does not say
how many it gives, because its first page looks like a last one.  A total that
is left out, or too small, ends the loop after a first page that is full, and
the rest is missed although nothing was deleted.  From such a server, and from
an old one, the first page is all the client is sure to get; from any other it
is 100 pages, after which the list is cut off without an error (`Reachable`).
An old server that reports more items than it gives is asked again and repeats
its page.  Six items are three full pages, so the limit is reached and, with
an addition, passed; servers that give 1, 2 or 3 items where 2 are asked for
give less, as much and not more.

### What the violated properties show

- `GaugeTracksState`: callbacks run outside the mutex (83-88, 103-106); two in
  the wrong order leave the gauge at "open" while the breaker is closed.  That is
  the only way (`GaugeFollows`).
- `CredentialsPreserved`: `recreateSite` (366) writes the Secret without the
  guard `reconcileGateway` has (214); from a stale copy it replaces good
  credentials by empty ones.  It takes a lost site (`CredentialsKept`).
- `NoOrphanSite`: `handleDelete` (156-176) on a copy that has no label yet
  removes the finalizer and leaves the site.
- `PodFollowsSecret`: only `recreateSite` restarts the pod (374-392); a site
  replaced by way of a first creation changes the Secret behind a running pod.
- `NeighbourSurvivesDeletion`: `handleDelete` (158-170) takes unlabelled targets
  for its own and `reconcileTargets` labels none, so it deletes the targets of
  all routes of the hostname and then the resource.  Routes that share no hostname
  are safe (`NeighboursSurvive`).  `RoutesServed` shows that
  the next reconcile of the neighbour, up to five minutes later, repairs it.
- `EveryRuleHasATarget`: targets are matched by address, port, site and path only
  (`httproute_targets.go` 107-115), so two rules that differ in match type or
  priority find the same one, and each replaces it by its own.

## Proofs

TLAPS proves these for all values of the constants, from the named assumptions
`BreakerAssumption`, `SiteAssumption`, `HTTPRouteAssumption`, `TCPAssumption`,
`GRPCAssumption`, `ReadinessAssumption` and `ListsAssumption`; `Neighbours` also
from `OwnPaths`, and `NeighboursSurvive` from `OwnHosts`.

*CircuitBreaker* (`TypeCorrect`, `CountAgrees`, `ProbingEnds`, `Refinement`,
`GaugeFollows`).  The inductive invariant `BreakerInv` is `TypeOK`, `CountMatchesState`, and
`PendingHasName`: a request has a callback pending exactly when it has a state
to report.  `CountMatchesState` is needed for the other two: without it a
failure during probing might leave the counter below the threshold, and the
step would be neither `Reopen` nor a stutter of `BreakerPromise`.  The lemma
`CountedBounds` says that the cap on the counter, which only the model has,
never hides a crossing of the threshold.  The refinement follows step by step:
each action is an action of the promise or leaves `mode` and `streak` alone.
`GaugeFollows` says when the gauge can be trusted: `GaugeTracksState`, which
`breaker_gauge` refutes, holds of every behaviour in which no two callbacks are
pending at once.  Its invariant is that the one pending callback will report the
state the breaker is in (`GaugeInv`).

*GatewaySite* (`TypeCorrect`, `OneSite`, `FinalizerFirst`, `LiveGatewaysAreSafe`,
`SecretFirst`, `Refinement`, `CredentialsKept`).
`SiteInv` adds four facts to `TypeOK` and `AtMostOneSite`.  `CreatesOnlyWhenNone`:
while the reconciler is about to create, only late sites exist, since `List`
saw none and nobody else creates; `AtMostOneSite` is not inductive without it.
`IdsIssued`: ids are fresh.  `Covered`: past `AddFinalizer`, or when a site
exists or may come to exist, or when the cache shows the finalizer, the API
server has it; the last two parts carry it over a lagging cache and a late
create.  `DeletionIsFinal`: what the cache or a deletion in progress knows of
the deletion is true on the API server.  The proof first reduces the actions to
a few kinds of step (`SitesStep`, `KubeStep`), then shows each part for each
kind.  `SecretFirst` has an invariant of its own, `CredentialsInv`: credentials are
at hand only for the site just created, and before the label is patched they are
in the Secret, which garbage collection takes away only once the Gateway is gone.
`FinalizerFirst` is the invariant `FinalizerCoversSites`, which no run checks by
itself since `ImplementsPromise` says it and more.

`Refinement` maps every step to a step of `OwnerPromise` or a stutter, under
`SiteInv`: `Covered` gives `Make`, `GiveUp` and `Arrive` their finalizer,
`CreatesOnlyWhenNone` gives `Make` its empty place, `IdsIssued` makes what is
added something new, and `DeletionIsFinal` is why `DeleteSite` and
`DropFinalizer`, decided on a stale copy, are a `Delete` and a `Release` of an
object that is really doomed.

`CredentialsKept` is the other side of `gateway_credentials`: until the first
site is lost in Pangolin (`CredentialsKeptUntilLoss`), nothing empties a Secret
that holds credentials, whatever calls fail and however far the cache lags.
`UnlostInv` is why: a label that the Gateway, the cache or a job's copy shows
names a site that is there (`Kept`), except of a Gateway that the cache knows to
be doomed, so `recreateSite` is never entered, and the guard of
`reconcileGateway` does the rest.  It needs that a deletion starts from a doomed
copy and that doom is for ever, in the cache too (`DoomIsKnown`).

*HTTPRoute* (`TypeCorrect`, `Neighbours`, `CleanedUp`, `NeighboursSurvive`).  `TypeOK` is not inductive: that a target
is made on a resource that exists, and that an id of 0 is no resource, depends on
what each job remembers.  `HTTPInv` adds, for the next call of every job, what the
call relies on (`JobOK`: a hostname, its resource, a backend that is left), and
that the rules of a route, and of its job's copy, are ones it may have.  The
lemmas `EnterOK`, `SettleOK` and `TurnOK` show this for going on to the next
hostname or backend, wherever that leads, and there is one lemma per action.
`Neighbours` asks that no two routes have a path in common in any rules they may
be given (`OwnPaths`, which TLC evaluates for the runs' routes): what a
reconciliation takes away is on a path of its route, even by a stale list and a
copy of rules edited since, and what carries a route's traffic is on a path of
that route.  Without `OwnPaths` it is false, since orphans are told by their paths.

`CleanedUp` (`NothingLeftBehind`) has the invariant `KeptInv`: as long as no call
has failed, each resource has a route that will take care of it, one that has
the finalizer and either has not begun its deletion, or has an error to report
and will try again, or still has the hostname before it and knows the resource by
its present id (`Keeps`).  The hostnames before a deletion are those
its list has resources for; that going on to the first of them skips none is
`FromFirstKnown`, proved from the least index at which there is one.
`NeighboursSurvive` asks that no two routes share a hostname (`OwnHosts`).  Its
invariant `ApartInv` says that what any job remembers of a hostname's resource
is that resource or one that is gone, and never another hostname's: ids are not
given out twice.  Without `OwnHosts` it is what `http_shared` refutes.

*TCPRoute* (`TypeCorrect`, `OneResource`, `FinalizerFirst`, `SweepsAreSafe`,
`Refinement`).  `ResourceInv` adds five facts to `TypeOK` and `AtMostOneResource`.
`CreatesOnlyWhenNone` and `Covered` are as for a site, except that a creation
after a failed list is set aside, and that detaching needs no finalizer.
`SweepIsSafe`: while targets are made and swept, no target to be deleted is one
that is wanted, and each wanted one that is not still to be made is there.
`MakeBeforeBreak` follows from it at the moment when nothing is left to be made.
The proof again reduces the actions to kinds of step (`ResourcesStep`,
`KubeStep`); for targets it goes action by action (`StepSweep`).  The other two,
`IdsIssued` and `DeletionIsFinal`, are there for `Refinement`, which goes as for a
site: a resource that is added is a new one, and the finalizer is dropped only
from a route that is really being deleted.

*GRPCRoute* (`TypeCorrect`, `OneRecreated`, `FinalizerFirst`, `Refinement`).  `GRPCInv`
adds four facts to `TypeOK` and `AtMostOneRecreated`.  `RecreatesOnlyWhenNone`: while a
labelled route is about to create, only set-aside resources exist, because
`Verify` saw none.  `Covered` is as for a TCPRoute; a status update, which sends
a whole object, needs the case that it keeps the finalizer.  `IdsIssued` and
`DeletionIsFinal` serve `Refinement`, as for a TCPRoute; here the latter also
shows that no live route loses its resource, since only a deletion deletes one.

*OwnerPromise* (`Worth`).  An object without the finalizer has nothing in
Pangolin and nothing under way (`Held`), and of the things that are not spare
there is at most one (`Single`).  With the refinements this holds of each of the
three reconcilers.

*Readiness* (`Composition`, `ComposedRefinement`, `OnePing`).  Every step of the
composition is a step of `CircuitBreaker` or leaves its variables alone
(`StepOfBreaker`), so `RSpec` implies its `Spec`, and what is proved of the
breaker, the refinement of `BreakerPromise` included, holds of the composition
without another induction.  `OnePing` has an invariant of its own: with it,
`FlagMeansFlight`, the flag is up exactly while a ping is in flight.

*Lists* (`Complete`, `Once`).  `ListsInv` says of a call in progress that nothing
was deleted in: what was there at its beginning and has not come yet lies behind
the offset of the next page (`NothingLost`), and as many items have come as that
offset says (`FullPages`).  An addition moves an item back or leaves it there; a
page takes all up to the next offset; and each reason to stop means that nothing
lies behind.  That is so of a list within reach: beyond the first page the total
must be no smaller than the list (`TotalFacts`).  `OnceInv` is the mirror image for a call that nothing was added in:
the items of the list are distinct, and none that has come lies behind the
offset, since a deletion moves items forward only; an old server's first page is
everything, and there is no second.

Only model-checked: the liveness properties (`RecoversWithApi`, `ReadyWithApi`,
`EventuallyProgrammed`, `RoutesServed`, `RouteServed`, `RouteServedUndisturbed`,
`StatusSettles`, `TrafficStopsUndisturbed`, `DeletionCompletes`): fairness and
ENABLED are beyond the prover.  Every safety property of a passing run is a
theorem.

## Not modelled

- Logging, events, counters and histograms; the wording of conditions; request
  bodies and URLs; the fields of the newt Deployment; TLS; RBAC, manifests and
  the chart; the fakes the unit tests use.
- Configuration parsing and the validation webhooks: they look at one file or
  one object, keep nothing, and meet no other step, so unit tests reach what a
  model could.
- The status of Gateways, of their listeners and of TCPRoutes, and the GatewayClass
  reconciler: each is one read-modify-write with the retry that `GRPCRoute`
  models.
- The choice of a domain for a hostname, which is a pure function of one list,
  and changes of an HTTPRoute's hostnames.
- A Gateway created again under its old name, and two Gateways of one name (the
  second appears only as an environment that deletes sites); two TCPRoutes whose
  names make one resource name; backends of one name in two namespaces, which
  the GRPCRoute reconciler confuses; Services that come and go under an HTTPRoute.
- Leader election is left to controller-runtime: one controller acts at a time.

## Plan

Done: `CircuitBreaker` with `BreakerPromise`, `GatewaySite`, `TCPRoute` and
`GRPCRoute` (with the status writer) with `OwnerPromise`, `HTTPRoute`, `Readiness`,
`Lists`, each with its proofs.  Left:

1. The life of a target as a promise of its own, which `TCPRoute` and `HTTPRoute`
   implement.
2. Two Gateways of one name, and two routes of one resource name, as instances
   that share one Pangolin.
