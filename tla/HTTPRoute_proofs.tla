-------------------------- MODULE HTTPRoute_proofs --------------------------
(***************************************************************************)
(* Theorems about HTTPRoute, for every set of routes, hostnames and rules  *)
(* and every number of changes and faults: type correctness, with it that  *)
(* no target outlives its resource; that routes whose paths differ leave   *)
(* each other's targets alone; that deletion leaves nothing behind; and    *)
(* that routes of different hostnames are not harmed by each other's       *)
(* deletion.                                                               *)
(***************************************************************************)
EXTENDS HTTPRoute, SequenceTheorems, WellFoundedInduction, TLAPS

(* Rules a route q may have: a sequence of backends of its own paths. *)
OwnRules(q, rules) == rules \in Seq(Backend) /\ Paths(rules) \subseteq PathsOf(q)

(* A job is a record of these fields. *)
JobFields ==
  {"pc", "rules", "site", "known", "hosts", "res", "listed", "todo", "keep", "failed"}
Shape(j) == j = [x \in JobFields |-> j[x]]

(* A job of route q, whatever its next call is. *)
Sound(q, j) == Shape(j) /\ OwnRules(q, j.rules) /\ j.hosts \in Seq(HostsOf(q))

(* The calls for which a hostname, its resource and a backend are at hand. *)
WithBackend == {"match", "createTarget"}
WithRes     == WithBackend \cup {"configure", "listTargets", "sweep"}
WithHost    == WithRes \cup {"createResource", "adopt"}

AtHost(j)       == j.hosts # <<>>
AtBackend(q, j) == OwnRules(q, j.todo) /\ j.todo # <<>>

(* The calls of a deletion for which a hostname and its resource are at    *)
(* hand: a target that was to be kept is one that failed to be deleted.    *)
Doomed == {"listDoomed", "deleteTargets"}

AtDoomed(j) ==
  /\ AtHost(j)
  /\ j.res = j.known[Head(j.hosts)].id
  /\ j.keep # {} => j.failed

(* The calls that rely on something. *)
Bound == WithHost \cup Doomed \cup {"dropFinalizer"}

(* What the next call of a job relies on. *)
JobOK(q, j) ==
  /\ Sound(q, j) /\ j.pc \in Calls
  /\ j.pc \in WithHost => AtHost(j)
  /\ j.pc \in WithRes => j.res # 0
  /\ j.pc \in WithBackend => AtBackend(q, j)
  /\ j.pc \in Doomed => AtDoomed(j)
  /\ j.pc = "deleteTargets" => \A t \in j.listed : t.res = j.res
  /\ j.pc = "dropFinalizer" => ~j.failed /\ j.hosts = <<>>

(* All jobs are sound. *)
Jobs == job = [r \in Routes |-> job[r]] /\ \A r \in Routes : JobOK(r, job[r])

(* Every route has rules of its own. *)
RoutesOK ==
  /\ route \in [Routes -> [exists : BOOLEAN, deleting : BOOLEAN, finalizer : BOOLEAN,
                           rules : Seq(Backend)]]
  /\ \A r \in Routes : OwnRules(r, route[r].rules)

(* A resource has an id that was given out, or is none. *)
ResourceOK ==
  /\ nextRes \in Nat \ {0}
  /\ resource \in [Hosts -> [id : 0 .. nextRes - 1, bare : BOOLEAN]]
  /\ \A h \in Hosts : resource[h].id = 0 => resource[h] = None

(* A target is one of a resource that exists. *)
TargetsOK == \A t \in targets : Exists(t.res) /\ t.res # 0

SitesOK   == live \in Nat /\ label \in Nat
BudgetsOK == faults \in 0 .. MaxFaults /\ changes \in 0 .. MaxChanges

(* TypeOK as an inductive invariant. *)
HTTPInv == Jobs /\ RoutesOK /\ ResourceOK /\ TargetsOK /\ SitesOK /\ BudgetsOK

-----------------------------------------------------------------------------
(* The rules of a route are its own, and so is no rule at all. *)
LEMMA RulesOwn ==
  ASSUME NEW r \in Routes
  PROVE  /\ OwnRules(r, FirstRules[r]) /\ OwnRules(r, <<>>)
         /\ \A rules \in OtherRules[r] : OwnRules(r, rules)
<1>1. FirstRules[r] \in Seq(Backend) /\ OtherRules[r] \subseteq Seq(Backend)
  BY HTTPRouteAssumption
<1>2. Paths(<<>>) = {}
  BY DEF Paths
<1>3. <<>> \in Seq(Backend)
  OBVIOUS
<1>4. QED
  BY <1>1, <1>2, <1>3 DEF OwnRules, PathsOf

(* What is left of rules after the first is rules, and the path of the     *)
(* first is one of the route's.                                            *)
LEMMA RestOwn ==
  ASSUME NEW q, NEW rules, OwnRules(q, rules), rules # <<>>
  PROVE  OwnRules(q, Tail(rules)) /\ Head(rules).path \in PathsOf(q)
<1>1. rules \in Seq(Backend) /\ Paths(rules) \subseteq PathsOf(q)
  BY DEF OwnRules
<1>2. Len(rules) \in Nat /\ Len(rules) > 0 /\ DOMAIN rules = 1 .. Len(rules)
  BY <1>1, EmptySeq, LenProperties
<1>3. /\ Tail(rules) \in Seq(Backend) /\ Len(Tail(rules)) = Len(rules) - 1
      /\ \A i \in 1 .. Len(Tail(rules)) : Tail(rules)[i] = rules[i + 1]
  BY <1>1, HeadTailProperties
<1>4. DOMAIN Tail(rules) = 1 .. Len(Tail(rules))
  BY <1>3, LenProperties
<1>5. Paths(Tail(rules)) \subseteq Paths(rules)
  BY <1>2, <1>3, <1>4 DEF Paths
<1>6. Head(rules) = rules[1]
  BY <1>1, <1>2
<1>7. QED
  BY <1>1, <1>2, <1>3, <1>5, <1>6 DEF OwnRules, Paths

(* The hostnames of a route are a sequence of them. *)
LEMMA HostsInOrder ==
  ASSUME NEW r \in Routes
  PROVE  Hostnames[r] \in Seq(HostsOf(r)) /\ HostsOf(r) \subseteq Hosts
<1>1. Hostnames[r] \in Seq(Hosts)
  BY HTTPRouteAssumption
<1>2. /\ Len(Hostnames[r]) \in Nat /\ DOMAIN Hostnames[r] = 1 .. Len(Hostnames[r])
      /\ \A i \in 1 .. Len(Hostnames[r]) : Hostnames[r][i] \in Hosts
      /\ Hostnames[r] = [i \in 1 .. Len(Hostnames[r]) |-> Hostnames[r][i]]
  BY <1>1, LenProperties, ElementOfSeq
<1>3. \A i \in 1 .. Len(Hostnames[r]) : Hostnames[r][i] \in HostsOf(r)
  BY <1>2 DEF HostsOf
<1>4. \E n \in Nat : Hostnames[r] \in [1 .. n -> HostsOf(r)]
  BY <1>2, <1>3
<1>5. Hostnames[r] \in Seq(HostsOf(r))
  <2> DEFINE H == HostsOf(r)
  <2> HIDE DEF H
  <2>1. \E n \in Nat : Hostnames[r] \in [1 .. n -> H]
    BY <1>4 DEF H
  <2>2. Hostnames[r] \in Seq(H)
    BY <2>1, SeqDef
  <2>3. QED
    BY <2>2 DEF H
<1>6. QED
  BY <1>2, <1>5 DEF HostsOf

(* An idle job is sound. *)
LEMMA IdleOK == ASSUME NEW r \in Routes PROVE JobOK(r, Idle) /\ Sound(r, Idle)
<1>1. Shape(Idle) /\ Idle.pc = "idle" /\ Idle.rules = <<>> /\ Idle.hosts = <<>>
  BY DEF Idle, Shape, JobFields
<1>2. Sound(r, Idle)
  BY <1>1, RulesOwn DEF Sound
<1>3. QED
  BY <1>1, <1>2 DEF JobOK, Calls, WithHost, WithRes, WithBackend, Doomed

(* A call that relies on nothing can follow in any job. *)
LEMMA FreeCall ==
  ASSUME NEW q \in Routes, NEW j, Sound(q, j), j.pc \in Calls \ Bound
  PROVE  JobOK(q, j)
BY DEF JobOK, Bound, WithHost, WithRes, Doomed

(* A call that relies on a hostname, and on its resource perhaps. *)
LEMMA HostCall ==
  ASSUME NEW q \in Routes, NEW j, Sound(q, j), AtHost(j),
         j.pc \in WithHost \ WithBackend, j.pc \in WithRes => j.res # 0
  PROVE  JobOK(q, j)
BY DEF JobOK, Calls, WithHost, WithRes, WithBackend, Doomed

(* A call that relies on a backend as well. *)
LEMMA BackendCall ==
  ASSUME NEW q \in Routes, NEW j, Sound(q, j), AtHost(j), AtBackend(q, j),
         j.pc \in WithBackend, j.res # 0
  PROVE  JobOK(q, j)
BY DEF JobOK, Calls, WithBackend, Doomed

(* Going on with the first hostname left makes a sound job of one. *)
LEMMA EnterOK ==
  ASSUME NEW q \in Routes, NEW j, Sound(q, j)
  PROVE  JobOK(q, Enter(j))
<1>1. CASE j.hosts = <<>>
  BY <1>1, IdleOK DEF Enter
<1>2. CASE j.hosts # <<>>
  <2> DEFINE k == j.known[Head(j.hosts)]
             call == IF k.id = 0 THEN "createResource"
                     ELSE IF k.bare THEN "configure" ELSE "listTargets"
             next == [j EXCEPT !.res = k.id, !.pc = call]
  <2>1. Enter(j) = next
    BY <1>2 DEF Enter
  <2>2. /\ call \in WithHost \ WithBackend
        /\ call \in WithRes => k.id # 0
    BY DEF WithBackend, WithRes, WithHost
  <2> HIDE DEF call, k
  <2>3. /\ Shape(next) /\ next.pc = call /\ next.res = k.id
        /\ next.rules = j.rules /\ next.hosts = j.hosts
    BY DEF Sound, Shape, JobFields
  <2> HIDE DEF next
  <2>4. QED
    BY <1>2, <2>1, <2>2, <2>3, HostCall DEF Sound, AtHost
<1>3. QED
  BY <1>1, <1>2

(* Sweeping the orphans, or going on with the next hostname, likewise. *)
LEMMA SettleOK ==
  ASSUME NEW q \in Routes, NEW j, Sound(q, j), AtHost(j), j.res # 0
  PROVE  JobOK(q, Settle(j))
<1>1. CASE Orphans(j) # {}
  <2> DEFINE next == [j EXCEPT !.pc = "sweep"]
  <2>1. /\ Shape(next) /\ next.pc = "sweep" /\ next.res = j.res
        /\ next.rules = j.rules /\ next.hosts = j.hosts
    BY DEF Sound, Shape, JobFields
  <2>2. Settle(j) = next
    BY <1>1 DEF Settle
  <2>3. "sweep" \in WithHost \ WithBackend
    BY DEF WithHost, WithRes, WithBackend
  <2> HIDE DEF next
  <2>4. QED
    BY <2>1, <2>2, <2>3, HostCall DEF Sound, AtHost
<1>2. CASE Orphans(j) = {}
  <2> DEFINE rest == Tail(j.hosts)
             next == [j EXCEPT !.hosts = rest, !.listed = {}, !.keep = {}]
  <2>1. rest \in Seq(HostsOf(q))
    BY HeadTailProperties DEF AtHost, Sound
  <2>2. Settle(j) = Enter(next)
    BY <1>2 DEF Settle
  <2> HIDE DEF rest
  <2>3. Shape(next) /\ next.rules = j.rules /\ next.hosts = rest
    BY DEF Sound, Shape, JobFields
  <2> HIDE DEF next
  <2>4. QED
    BY <2>1, <2>2, <2>3, EnterOK DEF Sound
<1>3. QED
  BY <1>1, <1>2

(* Going on with the next backend likewise. *)
LEMMA TurnOK ==
  ASSUME NEW q \in Routes, NEW j, Sound(q, j), AtHost(j), j.res # 0, OwnRules(q, j.todo)
  PROVE  JobOK(q, Turn(j))
<1>1. CASE j.todo = <<>>
  BY <1>1, SettleOK DEF Turn
<1>2. CASE j.todo # <<>>
  <2> DEFINE call == IF Hits(j) = {} THEN "createTarget" ELSE "match"
             next == [j EXCEPT !.pc = call]
  <2>1. Turn(j) = next
    BY <1>2 DEF Turn
  <2>2. call \in WithBackend
    BY DEF WithBackend
  <2> HIDE DEF call
  <2>3. /\ Shape(next) /\ next.pc = call /\ next.res = j.res /\ next.todo = j.todo
        /\ next.rules = j.rules /\ next.hosts = j.hosts
    BY DEF Sound, Shape, JobFields
  <2> HIDE DEF next
  <2>4. QED
    BY <1>2, <2>1, <2>2, <2>3, BackendCall DEF Sound, AtHost, AtBackend
<1>3. QED
  BY <1>1, <1>2

-----------------------------------------------------------------------------
(* The members of a sequence. *)
Members(s) == {s[i] : i \in DOMAIN s}

(* The numbers are well-founded: a set of some has a least one. *)
LEMMA Least ==
  ASSUME NEW T, T \subseteq Nat, T # {}
  PROVE  \E x \in T : \A y \in T : x <= y
<1>1. IsWellFoundedOn(OpToRel(<, Nat), Nat)
  BY NatLessThanWellFounded
<1>2. PICK x \in T : \A y \in T : ~(<<y, x>> \in OpToRel(<, Nat))
  BY <1>1, WFMin
<1>3. \A y \in T : <<y, x>> \in Nat \X Nat
  OBVIOUS
<1>4. \A y \in T : ~(y < x)
  BY <1>2, <1>3 DEF OpToRel
<1>5. QED
  BY <1>4

(* What is left of the hostnames when those before the first with a        *)
(* resource are passed over: its first has a resource, and every other one *)
(* that has a resource is still there.                                     *)
LEMMA FirstKnown ==
  ASSUME NEW S, NEW j, j.hosts \in Seq(S)
  PROVE  /\ FromFirstKnown(j) \in Seq(S)
         /\ FromFirstKnown(j) # <<>> => j.known[Head(FromFirstKnown(j))] # None
         /\ \A h \in Members(j.hosts) :
              j.known[h] # None => h \in Members(FromFirstKnown(j))
<1> DEFINE s == j.hosts
           known == {i \in DOMAIN s : j.known[s[i]] # None}
           first == CHOOSE i \in known : \A k \in known : i <= k
           left == SubSeq(s, first, Len(s))
<1>1. s \in Seq(S) /\ Len(s) \in Nat /\ DOMAIN s = 1 .. Len(s)
  BY LenProperties
<1>2. CASE known = {}
  <2>1. FromFirstKnown(j) = <<>>
    BY <1>2 DEF FromFirstKnown
  <2>2. \A h \in Members(s) : j.known[h] = None
    BY <1>2 DEF Members
  <2>3. QED
    BY <2>1, <2>2
<1>3. CASE known # {}
  <2>1. FromFirstKnown(j) = left
    BY <1>3 DEF FromFirstKnown
  <2>2. known \subseteq Nat
    BY <1>1
  <2>3. \E i \in known : \A k \in known : i <= k
    <3> HIDE DEF known
    <3>1. QED
      BY <1>3, <2>2, Least
  <2>4. first \in known /\ \A k \in known : first <= k
    BY <2>3
  <2> HIDE DEF first
  <2>5. first \in 1 .. Len(s) /\ j.known[s[first]] # None
    BY <1>1, <2>4
  <2>6. /\ left \in Seq(S) /\ Len(left) = Len(s) - first + 1
        /\ \A i \in 1 .. Len(s) - first + 1 : left[i] = s[first + i - 1]
    BY <1>1, <2>5, SubSeqProperties
  <2>7. left # <<>> /\ Head(left) = s[first]
    <3> HIDE DEF left, s
    <3>1. first \in Nat /\ first <= Len(s) /\ Len(left) > 0
      BY <1>1, <2>5, <2>6
    <3>2. left[1] = s[first] /\ left # <<>>
      BY <1>1, <2>6, <3>1
    <3>3. QED
      BY <2>6, <3>2
  <2>8. ASSUME NEW i \in 1 .. Len(s), j.known[s[i]] # None
        PROVE  s[i] \in Members(left)
    <3>1. i \in known
      BY <1>1, <2>8
    <3>2. first <= i
      BY <2>4, <3>1
    <3>3. i - first + 1 \in 1 .. Len(left)
      BY <1>1, <2>5, <2>6, <3>2
    <3>4. left[i - first + 1] = s[i]
      BY <1>1, <2>5, <2>6, <3>2
    <3>5. QED
      BY <2>6, <3>3, <3>4, LenProperties DEF Members
  <2> HIDE DEF left
  <2>9. \A h \in Members(s) : j.known[h] # None => h \in Members(left)
    BY <1>1, <2>8 DEF Members
  <2>10. QED
    BY <2>1, <2>5, <2>6, <2>7, <2>9
<1>4. QED
  BY <1>2, <1>3

(* Going on with the deletion makes a sound job of one: with a hostname    *)
(* that has a resource if there is one, and else the end.                  *)
LEMMA EnterDoomedOK ==
  ASSUME NEW q \in Routes, NEW j, Sound(q, j)
  PROVE  /\ JobOK(q, EnterDoomed(j)) /\ Sound(q, EnterDoomed(j))
         /\ EnterDoomed(j).pc \in {"listDoomed", "dropFinalizer", "idle"}
         /\ EnterDoomed(j).failed = j.failed /\ EnterDoomed(j).known = j.known
         /\ EnterDoomed(j).hosts = FromFirstKnown(j)
<1> DEFINE left == FromFirstKnown(j)
           call == IF left # <<>> THEN "listDoomed"
                   ELSE IF j.failed THEN "idle" ELSE "dropFinalizer"
           res  == IF left # <<>> THEN j.known[Head(left)].id ELSE 0
           next == [j EXCEPT !.pc = call, !.res = res, !.hosts = left,
                             !.listed = {}, !.keep = {}]
<1>1. EnterDoomed(j) = next
  BY DEF EnterDoomed
<1>2. left \in Seq(HostsOf(q))
  BY FirstKnown DEF Sound
<1>3. /\ call \in {"listDoomed", "dropFinalizer", "idle"}
      /\ call = "listDoomed" => left # <<>> /\ res = j.known[Head(left)].id
      /\ call = "dropFinalizer" => left = <<>> /\ ~j.failed
  OBVIOUS
<1> HIDE DEF call, res, left
<1>4. /\ Shape(next) /\ next.pc = call /\ next.rules = j.rules /\ next.hosts = left
      /\ next.res = res /\ next.keep = {} /\ next.failed = j.failed /\ next.known = j.known
  BY DEF Sound, Shape, JobFields
<1> HIDE DEF next
<1>5. Sound(q, next)
  BY <1>2, <1>4 DEF Sound
<1>6. CASE call = "listDoomed"
  <2>1. AtDoomed(next)
    BY <1>3, <1>4, <1>6 DEF AtDoomed, AtHost
  <2>2. JobOK(q, next)
    BY <1>4, <1>5, <1>6, <2>1 DEF JobOK, Calls, WithHost, WithRes, WithBackend
  <2>3. QED
    BY <1>1, <1>4, <1>5, <1>6, <2>2 DEF left
<1>7. CASE call = "dropFinalizer"
  <2>1. JobOK(q, next)
    BY <1>3, <1>4, <1>5, <1>7 DEF JobOK, Calls, WithHost, WithRes, WithBackend, Doomed
  <2>2. QED
    BY <1>1, <1>4, <1>5, <1>7, <2>1 DEF left
<1>8. CASE call = "idle"
  <2>1. "idle" \in Calls \ Bound
    BY DEF Calls, Bound, WithHost, WithRes, WithBackend, Doomed
  <2>2. JobOK(q, next)
    BY <1>4, <1>5, <1>8, <2>1, FreeCall
  <2>3. QED
    BY <1>1, <1>4, <1>5, <1>8, <2>2 DEF left
<1>9. QED
  BY <1>3, <1>6, <1>7, <1>8

(* The job that has put its first hostname behind it. *)
Behind(j) == [j EXCEPT !.hosts = Tail(@)]

(* Putting a hostname behind leaves the rest of the job alone. *)
LEMMA BehindOK ==
  ASSUME NEW q \in Routes, NEW j, Sound(q, j), AtHost(j)
  PROVE  /\ Sound(q, Behind(j)) /\ Behind(j).hosts = Tail(j.hosts)
         /\ Behind(j).failed = j.failed /\ Behind(j).known = j.known
         /\ NextDoomed(j) = EnterDoomed(Behind(j))
<1> DEFINE rest == Tail(j.hosts)
           next == [j EXCEPT !.hosts = rest]
<1>1. Behind(j) = next
  BY DEF Behind
<1>2. rest \in Seq(HostsOf(q))
  BY HeadTailProperties DEF AtHost, Sound
<1>3. NextDoomed(j) = EnterDoomed(Behind(j))
  BY DEF NextDoomed, Behind
<1> HIDE DEF rest
<1>4. /\ Shape(next) /\ next.rules = j.rules /\ next.hosts = rest
      /\ next.failed = j.failed /\ next.known = j.known
  BY DEF Sound, Shape, JobFields
<1> HIDE DEF next
<1>5. QED
  BY <1>1, <1>2, <1>3, <1>4 DEF Sound, rest

(* So does going on with the next hostname; and a job that has failed ends. *)
LEMMA NextDoomedOK ==
  ASSUME NEW q \in Routes, NEW j, Sound(q, j), AtHost(j)
  PROVE  /\ JobOK(q, NextDoomed(j))
         /\ \A k : JobOK(q, k) => JobOK(q, IF k.pc = "idle" THEN Idle ELSE k)
BY BehindOK, EnterDoomedOK, IdleOK

-----------------------------------------------------------------------------
(* Parts of the state that a step leaves alone stay as they are. *)
LEMMA Untouched ==
  ASSUME HTTPInv
  PROVE  /\ UNCHANGED job => Jobs'
         /\ UNCHANGED route => RoutesOK'
         /\ UNCHANGED <<resource, nextRes>> => ResourceOK'
         /\ UNCHANGED resource /\ targets' \subseteq targets => TargetsOK'
         /\ UNCHANGED <<live, label>> => SitesOK'
<1>1. UNCHANGED job => Jobs'
  BY DEF HTTPInv, Jobs
<1>2. UNCHANGED route => RoutesOK'
  BY DEF HTTPInv, RoutesOK
<1>3. UNCHANGED <<resource, nextRes>> => ResourceOK'
  BY DEF HTTPInv, ResourceOK
<1>4. UNCHANGED resource /\ targets' \subseteq targets => TargetsOK'
  BY DEF HTTPInv, TargetsOK, Exists
<1>5. UNCHANGED <<live, label>> => SitesOK'
  BY DEF HTTPInv, SitesOK
<1>6. QED
  BY <1>1, <1>2, <1>3, <1>4, <1>5

(* A fault or a change uses up a part of a budget. *)
LEMMA Spent ==
  ASSUME HTTPInv
  PROVE  /\ (Fault \/ UNCHANGED faults) /\ UNCHANGED changes => BudgetsOK'
         /\ UNCHANGED faults /\ changes > 0 /\ changes' = changes - 1 => BudgetsOK'
BY HTTPRouteAssumption DEF HTTPInv, BudgetsOK, Fault

(* A step of a route's job leaves the other jobs alone. *)
LEMMA StepOK ==
  ASSUME HTTPInv, NEW r \in Routes, NEW j, Step(r, j), JobOK(r, j)
  PROVE  Jobs'
<1>1. job' = [job EXCEPT ![r] = j]
  BY DEF Step
<1>2. job = [q \in Routes |-> job[q]] /\ \A q \in Routes : JobOK(q, job[q])
  BY DEF HTTPInv, Jobs
<1>3. \A q \in Routes : job'[q] = IF q = r THEN j ELSE job[q]
  BY <1>1, <1>2
<1>4. job' = [q \in Routes |-> job'[q]]
  BY <1>1, <1>2
<1>5. \A q \in Routes : JobOK(q, job'[q])
  BY <1>2, <1>3
<1>6. QED
  BY <1>4, <1>5 DEF Jobs

(* A job that ends is idle. *)
LEMMA ReturnOK == ASSUME HTTPInv, NEW r \in Routes, Return(r) PROVE Jobs'
BY StepOK, IdleOK DEF Return

(* Resources are made with an id of their own; targets keep theirs. *)
LEMMA NewResourceOK ==
  ASSUME HTTPInv, NEW h \in Hosts, resource[h] = None, NewResource(h), UNCHANGED targets
  PROVE  ResourceOK' /\ TargetsOK'
<1>1. /\ nextRes \in Nat \ {0} /\ nextRes' = nextRes + 1
      /\ resource \in [Hosts -> [id : 0 .. nextRes - 1, bare : BOOLEAN]]
      /\ \A g \in Hosts : resource[g].id = 0 => resource[g] = None
  BY DEF HTTPInv, ResourceOK, NewResource
<1>2. resource' = [resource EXCEPT ![h] = [id |-> nextRes, bare |-> TRUE]]
  BY DEF NewResource
<1>3. resource' \in [Hosts -> [id : 0 .. nextRes' - 1, bare : BOOLEAN]]
  <2>1. \A g \in Hosts : resource[g] \in [id : 0 .. nextRes' - 1, bare : BOOLEAN]
    BY <1>1
  <2>2. [id |-> nextRes, bare |-> TRUE] \in [id : 0 .. nextRes' - 1, bare : BOOLEAN]
    BY <1>1
  <2>3. QED
    BY <1>1, <1>2, <2>1, <2>2
<1>4. \A g \in Hosts : resource'[g] = IF g = h THEN [id |-> nextRes, bare |-> TRUE]
                                      ELSE resource[g]
  BY <1>1, <1>2
<1>5. \A g \in Hosts : resource'[g].id = 0 => resource'[g] = None
  BY <1>1, <1>4
<1>6. resource[h].id = 0
  BY DEF None
<1>7. TargetsOK'
  BY <1>4, <1>6 DEF HTTPInv, TargetsOK, Exists
<1>8. QED
  BY <1>1, <1>3, <1>5, <1>7 DEF ResourceOK

(* Configuring a resource leaves its id alone. *)
LEMMA ConfiguredOK ==
  ASSUME HTTPInv, NEW id, UNCHANGED <<targets, nextRes>>,
         resource' = [h \in Hosts |-> IF resource[h].id = id
                                      THEN [resource[h] EXCEPT !.bare = FALSE]
                                      ELSE resource[h]]
  PROVE  ResourceOK' /\ TargetsOK'
<1>1. /\ nextRes \in Nat \ {0}
      /\ resource \in [Hosts -> [id : 0 .. nextRes - 1, bare : BOOLEAN]]
      /\ \A g \in Hosts : resource[g].id = 0 => resource[g] = None
  BY DEF HTTPInv, ResourceOK
<1>2. ASSUME NEW h \in Hosts
      PROVE  /\ resource'[h] \in [id : 0 .. nextRes - 1, bare : BOOLEAN]
             /\ resource'[h].id = resource[h].id
             /\ resource'[h].id = 0 => resource'[h] = None
  <2>1. resource'[h] = IF resource[h].id = id THEN [resource[h] EXCEPT !.bare = FALSE]
                       ELSE resource[h]
    OBVIOUS
  <2>2. /\ resource[h] \in [id : 0 .. nextRes - 1, bare : BOOLEAN]
        /\ resource[h].id = 0 => resource[h] = None
    BY <1>1
  <2>3. /\ [resource[h] EXCEPT !.bare = FALSE] \in [id : 0 .. nextRes - 1, bare : BOOLEAN]
        /\ [resource[h] EXCEPT !.bare = FALSE].id = resource[h].id
    BY <2>2
  <2>4. [None EXCEPT !.bare = FALSE] = None
    <3>1. None = [x \in {"id", "bare"} |-> None[x]] /\ None.bare = FALSE
      BY DEF None
    <3>2. QED
      BY <3>1
  <2>5. QED
    BY <2>1, <2>2, <2>3, <2>4
<1>3. TargetsOK'
  BY <1>2 DEF HTTPInv, TargetsOK, Exists
<1>4. ResourceOK'
  BY <1>1, <1>2 DEF ResourceOK
<1>5. QED
  BY <1>3, <1>4

(* With a resource go its targets, and no others. *)
LEMMA WithoutResourceOK ==
  ASSUME HTTPInv, NEW id, WithoutResource(id), UNCHANGED nextRes
  PROVE  ResourceOK' /\ TargetsOK'
<1>1. /\ nextRes \in Nat \ {0}
      /\ resource \in [Hosts -> [id : 0 .. nextRes - 1, bare : BOOLEAN]]
      /\ \A g \in Hosts : resource[g].id = 0 => resource[g] = None
  BY DEF HTTPInv, ResourceOK
<1>2. \A h \in Hosts : resource'[h] = IF resource[h].id = id THEN None ELSE resource[h]
  BY DEF WithoutResource
<1>3. None \in [id : 0 .. nextRes - 1, bare : BOOLEAN]
  BY <1>1 DEF None
<1>4. ResourceOK'
  <2>1. \A h \in Hosts : /\ resource'[h] \in [id : 0 .. nextRes - 1, bare : BOOLEAN]
                         /\ resource'[h].id = 0 => resource'[h] = None
    BY <1>1, <1>2, <1>3
  <2>2. resource' = [h \in Hosts |-> resource'[h]]
    BY DEF WithoutResource
  <2>3. QED
    BY <1>1, <2>1, <2>2 DEF ResourceOK
<1>5. ASSUME NEW t \in targets' PROVE Exists(t.res)' /\ t.res # 0
  <2>1. t \in targets /\ t.res # id
    BY DEF WithoutResource, TargetsOf
  <2>2. t.res # 0 /\ Exists(t.res)
    BY <2>1 DEF HTTPInv, TargetsOK
  <2>3. PICK h \in Hosts : resource[h].id = t.res
    BY <2>2 DEF Exists
  <2>4. resource'[h].id = t.res
    BY <1>2, <2>1, <2>3
  <2>5. QED
    BY <2>2, <2>4 DEF Exists
<1>6. QED
  BY <1>4, <1>5 DEF TargetsOK

(* A route that is changed into one with rules of its own. *)
LEMMA RouteChange ==
  ASSUME HTTPInv, NEW r \in Routes,
         NEW o \in [exists : BOOLEAN, deleting : BOOLEAN, finalizer : BOOLEAN,
                    rules : Seq(Backend)],
         OwnRules(r, o.rules), route' = [route EXCEPT ![r] = o]
  PROVE  RoutesOK'
BY DEF HTTPInv, RoutesOK

(* The changes of a route: its finalizer, its deletion, its rules, its end. *)
LEMMA RouteChanges ==
  ASSUME HTTPInv, NEW r \in Routes
  PROVE  /\ route' = [route EXCEPT ![r].finalizer = TRUE] => RoutesOK'
         /\ route' = [route EXCEPT ![r].deleting = TRUE] => RoutesOK'
         /\ route' = [route EXCEPT ![r] = Gone] => RoutesOK'
         /\ \A rules \in OtherRules[r] :
              route' = [route EXCEPT ![r].rules = rules] => RoutesOK'
<1> DEFINE Route == [exists : BOOLEAN, deleting : BOOLEAN, finalizer : BOOLEAN,
                     rules : Seq(Backend)]
<1>1. route[r] \in Route /\ OwnRules(r, route[r].rules)
  BY DEF HTTPInv, RoutesOK
<1>2. ASSUME route' = [route EXCEPT ![r].finalizer = TRUE] PROVE RoutesOK'
  <2> DEFINE o == [route[r] EXCEPT !.finalizer = TRUE]
  <2>1. o \in Route /\ o.rules = route[r].rules
    BY <1>1
  <2>2. route' = [route EXCEPT ![r] = o]
    BY <1>2
  <2> HIDE DEF o
  <2>3. QED
    BY <1>1, <2>1, <2>2, RouteChange
<1>3. ASSUME route' = [route EXCEPT ![r].deleting = TRUE] PROVE RoutesOK'
  <2> DEFINE o == [route[r] EXCEPT !.deleting = TRUE]
  <2>1. o \in Route /\ o.rules = route[r].rules
    BY <1>1
  <2>2. route' = [route EXCEPT ![r] = o]
    BY <1>3
  <2> HIDE DEF o
  <2>3. QED
    BY <1>1, <2>1, <2>2, RouteChange
<1>4. ASSUME route' = [route EXCEPT ![r] = Gone] PROVE RoutesOK'
  <2>1. Gone \in Route /\ Gone.rules = <<>>
    BY DEF Gone
  <2>2. QED
    BY <1>4, <2>1, RulesOwn, RouteChange
<1>5. ASSUME NEW rules \in OtherRules[r], route' = [route EXCEPT ![r].rules = rules]
      PROVE  RoutesOK'
  <2> DEFINE o == [route[r] EXCEPT !.rules = rules]
  <2>1. OwnRules(r, rules)
    BY RulesOwn
  <2>2. o \in Route /\ o.rules = rules
    BY <1>1, <2>1 DEF OwnRules
  <2>3. route' = [route EXCEPT ![r] = o]
    BY <1>5
  <2> HIDE DEF o
  <2>4. QED
    BY <2>1, <2>2, <2>3, RouteChange
<1>6. QED
  BY <1>2, <1>3, <1>4, <1>5

-----------------------------------------------------------------------------
(* What is known of a job. *)
LEMMA JobFacts ==
  ASSUME HTTPInv, NEW r \in Routes
  PROVE  JobOK(r, job[r]) /\ Sound(r, job[r]) /\ Shape(job[r]) /\ OwnRules(r, route[r].rules)
BY DEF HTTPInv, Jobs, RoutesOK, JobOK, Sound

(* Reading the route. *)
LEMMA ReadInv == ASSUME HTTPInv, NEW r \in Routes, Read(r) PROVE HTTPInv'
<1> DEFINE call == IF route[r].deleting THEN "findDoomed"
                   ELSE IF route[r].finalizer THEN "find" ELSE "addFinalizer"
           rules == route[r].rules
           next == [Idle EXCEPT !.pc = call, !.rules = rules]
<1>1. Step(r, next)
  BY DEF Read
<1>2. call \in Calls \ Bound
  BY DEF Calls, Bound, WithHost, WithRes, WithBackend, Doomed
<1>3. OwnRules(r, rules)
  BY JobFacts
<1> HIDE DEF call, rules
<1>4. Sound(r, Idle)
  BY IdleOK
<1>5. Shape(next) /\ next.pc = call /\ next.rules = rules /\ next.hosts = Idle.hosts
  BY <1>4 DEF Sound, Shape, JobFields
<1> HIDE DEF next
<1>6. Jobs'
  BY <1>1, <1>2, <1>3, <1>4, <1>5, FreeCall, StepOK DEF Sound
<1>7. RoutesOK' /\ ResourceOK' /\ TargetsOK' /\ SitesOK' /\ BudgetsOK'
  BY Untouched, Spent DEF Read, kube, budget
<1>8. QED
  BY <1>6, <1>7 DEF HTTPInv

(* Adding the finalizer. *)
LEMMA AddFinalizerInv == ASSUME HTTPInv, NEW r \in Routes, AddFinalizer(r) PROVE HTTPInv'
<1> DEFINE rules == route[r].rules
           next == [job[r] EXCEPT !.pc = "find", !.rules = rules]
<1>1. Step(r, next) \/ Return(r)
  BY DEF AddFinalizer
<1>2. OwnRules(r, rules) /\ Sound(r, job[r])
  BY JobFacts
<1> HIDE DEF rules
<1>3. Shape(next) /\ next.pc = "find" /\ next.rules = rules /\ next.hosts = job[r].hosts
  BY <1>2 DEF Sound, Shape, JobFields
<1>4. "find" \in Calls \ Bound
  BY DEF Calls, Bound, WithHost, WithRes, WithBackend, Doomed
<1> HIDE DEF next
<1>5. Jobs'
  BY <1>1, <1>2, <1>3, <1>4, FreeCall, StepOK, ReturnOK DEF Sound
<1>6. RoutesOK'
  BY Untouched, RouteChanges DEF AddFinalizer
<1>7. ResourceOK' /\ TargetsOK' /\ SitesOK' /\ BudgetsOK'
  BY Untouched, Spent DEF AddFinalizer
<1>8. QED
  BY <1>5, <1>6, <1>7 DEF HTTPInv

(* Reading the Gateway and listing the resources. *)
LEMMA FindInv == ASSUME HTTPInv, NEW r \in Routes, Find(r) PROVE HTTPInv'
<1> DEFINE names == Hostnames[r]
           next == [job[r] EXCEPT !.site = label, !.known = resource, !.hosts = names]
<1>1. Step(r, Enter(next)) \/ Return(r)
  BY DEF Find, Refused
<1>2. names \in Seq(HostsOf(r))
  BY HostsInOrder
<1>3. Sound(r, job[r])
  BY JobFacts
<1> HIDE DEF names
<1>4. Shape(next) /\ next.rules = job[r].rules /\ next.hosts = names
  BY <1>3 DEF Sound, Shape, JobFields
<1> HIDE DEF next
<1>5. Jobs'
  BY <1>1, <1>2, <1>3, <1>4, EnterOK, StepOK, ReturnOK DEF Sound
<1>6. RoutesOK' /\ ResourceOK' /\ TargetsOK' /\ SitesOK' /\ BudgetsOK'
  BY Untouched, Spent DEF Find, Refused, kube
<1>7. QED
  BY <1>5, <1>6 DEF HTTPInv

(* Making a resource, or finding that there is one. *)
LEMMA CreateResourceInv == ASSUME HTTPInv, NEW r \in Routes, CreateResource(r) PROVE HTTPInv'
<1> DEFINE h == Head(job[r].hosts)
           made == [job[r] EXCEPT !.pc = "configure", !.res = nextRes]
           conflict == [job[r] EXCEPT !.pc = "adopt"]
<1>1. job[r].pc = "createResource" /\ JobOK(r, job[r])
  BY JobFacts DEF CreateResource
<1>2. AtHost(job[r]) /\ Sound(r, job[r])
  BY <1>1 DEF JobOK, WithHost
<1>3. h \in HostsOf(r) /\ h \in Hosts
  BY <1>2, HeadTailProperties, HostsInOrder DEF AtHost, Sound
<1>4. nextRes # 0
  BY DEF HTTPInv, ResourceOK
<1>5. JobOK(r, made)
  <2>1. /\ Shape(made) /\ made.pc = "configure" /\ made.res = nextRes
        /\ made.rules = job[r].rules /\ made.hosts = job[r].hosts
    BY <1>2 DEF Sound, Shape, JobFields
  <2>2. "configure" \in WithHost \ WithBackend
    BY DEF WithHost, WithRes, WithBackend
  <2> HIDE DEF made
  <2>3. QED
    BY <1>2, <1>4, <2>1, <2>2, HostCall DEF Sound, AtHost
<1>6. JobOK(r, conflict)
  <2>1. /\ Shape(conflict) /\ conflict.pc = "adopt"
        /\ conflict.rules = job[r].rules /\ conflict.hosts = job[r].hosts
    BY <1>2 DEF Sound, Shape, JobFields
  <2>2. "adopt" \in WithHost \ WithBackend /\ "adopt" \notin WithRes
    BY DEF WithHost, WithBackend, WithRes
  <2> HIDE DEF conflict
  <2>3. QED
    BY <1>2, <2>1, <2>2, HostCall DEF Sound, AtHost
<1>7. Step(r, made) \/ Step(r, conflict) \/ Return(r)
  BY DEF CreateResource
<1>8. Jobs'
  BY <1>5, <1>6, <1>7, StepOK, ReturnOK
<1>9. \/ resource[h] = None /\ NewResource(h) /\ UNCHANGED targets
      \/ UNCHANGED <<resource, nextRes, targets>>
  BY DEF CreateResource
<1>10. ResourceOK' /\ TargetsOK'
  BY <1>3, <1>9, NewResourceOK, Untouched
<1>11. RoutesOK' /\ SitesOK' /\ BudgetsOK'
  BY Untouched, Spent DEF CreateResource, kube
<1>12. QED
  BY <1>8, <1>10, <1>11 DEF HTTPInv

(* Looking up the resource after a conflict. *)
LEMMA AdoptInv == ASSUME HTTPInv, NEW r \in Routes, Adopt(r) PROVE HTTPInv'
<1> DEFINE h == Head(job[r].hosts)
           id == resource[h].id
           found == [job[r] EXCEPT !.pc = "configure", !.res = id]
<1>1. job[r].pc = "adopt" /\ JobOK(r, job[r])
  BY JobFacts DEF Adopt
<1>2. AtHost(job[r]) /\ Sound(r, job[r])
  BY <1>1 DEF JobOK, WithHost
<1>3. h \in HostsOf(r) /\ h \in Hosts
  BY <1>2, HeadTailProperties, HostsInOrder DEF AtHost, Sound
<1>4. resource[h] # None => id # 0
  BY <1>3 DEF HTTPInv, ResourceOK
<1>5. (resource[h] # None /\ Step(r, found)) \/ Return(r)
  BY DEF Adopt
<1> HIDE DEF id
<1>6. ASSUME id # 0 PROVE JobOK(r, found)
  <2>1. /\ Shape(found) /\ found.pc = "configure" /\ found.res = id
        /\ found.rules = job[r].rules /\ found.hosts = job[r].hosts
    BY <1>2 DEF Sound, Shape, JobFields
  <2>2. "configure" \in WithHost \ WithBackend
    BY DEF WithHost, WithRes, WithBackend
  <2> HIDE DEF found
  <2>3. QED
    BY <1>2, <1>6, <2>1, <2>2, HostCall DEF Sound, AtHost
<1>7. Jobs'
  BY <1>4, <1>5, <1>6, StepOK, ReturnOK
<1>8. RoutesOK' /\ ResourceOK' /\ TargetsOK' /\ SitesOK' /\ BudgetsOK'
  BY Untouched, Spent DEF Adopt, kube
<1>9. QED
  BY <1>7, <1>8 DEF HTTPInv

(* Configuring the resource. *)
LEMMA ConfigureInv == ASSUME HTTPInv, NEW r \in Routes, Configure(r) PROVE HTTPInv'
<1> DEFINE next == [job[r] EXCEPT !.pc = "listTargets"]
<1>1. job[r].pc = "configure" /\ JobOK(r, job[r])
  BY JobFacts DEF Configure
<1>2. AtHost(job[r]) /\ Sound(r, job[r]) /\ job[r].res # 0
  BY <1>1 DEF JobOK, WithHost, WithRes
<1>3. /\ Shape(next) /\ next.pc = "listTargets" /\ next.res = job[r].res
      /\ next.rules = job[r].rules /\ next.hosts = job[r].hosts
  BY <1>2 DEF Sound, Shape, JobFields
<1>4. "listTargets" \in WithHost \ WithBackend
  BY DEF WithHost, WithRes, WithBackend
<1>5. Step(r, next)
  BY DEF Configure
<1> HIDE DEF next
<1>6. Jobs'
  BY <1>2, <1>3, <1>4, <1>5, HostCall, StepOK DEF Sound, AtHost
<1>7. ResourceOK' /\ TargetsOK'
  BY ConfiguredOK, Untouched DEF Configure
<1>8. RoutesOK' /\ SitesOK' /\ BudgetsOK'
  BY Untouched, Spent DEF Configure, kube
<1>9. QED
  BY <1>6, <1>7, <1>8 DEF HTTPInv

(* Listing the targets of the resource. *)
LEMMA ListTargetsInv == ASSUME HTTPInv, NEW r \in Routes, ListTargets(r) PROVE HTTPInv'
<1> DEFINE found == TargetsOf(job[r].res)
           rules == job[r].rules
           next == [job[r] EXCEPT !.listed = found, !.todo = rules, !.keep = {}]
<1>1. job[r].pc = "listTargets" /\ JobOK(r, job[r])
  BY JobFacts DEF ListTargets
<1>2. AtHost(job[r]) /\ Sound(r, job[r]) /\ job[r].res # 0
  BY <1>1 DEF JobOK, WithHost, WithRes
<1>3. Step(r, Turn(next)) \/ Return(r)
  BY DEF ListTargets, Refused
<1>4. OwnRules(r, rules)
  BY <1>2 DEF Sound
<1> HIDE DEF found
<1>5. /\ Shape(next) /\ next.res = job[r].res /\ next.todo = rules
      /\ next.rules = rules /\ next.hosts = job[r].hosts
  BY <1>2 DEF Sound, Shape, JobFields
<1> HIDE DEF next, rules
<1>6. JobOK(r, Turn(next))
  BY <1>2, <1>4, <1>5, TurnOK DEF Sound, AtHost
<1>7. Jobs'
  BY <1>3, <1>6, StepOK, ReturnOK
<1>8. RoutesOK' /\ ResourceOK' /\ TargetsOK' /\ SitesOK' /\ BudgetsOK'
  BY Untouched, Spent DEF ListTargets, Refused, kube
<1>9. QED
  BY <1>7, <1>8 DEF HTTPInv

(* A job that has a backend at hand goes on to the next one. *)
LEMMA NextBackend ==
  ASSUME HTTPInv, NEW r \in Routes, job[r].pc \in WithBackend, NEW id
  PROVE  JobOK(r, Turn([job[r] EXCEPT !.keep = @ \cup {id}, !.todo = Tail(@)]))
<1> DEFINE keep == job[r].keep \cup {id}
           rest == Tail(job[r].todo)
           next == [job[r] EXCEPT !.keep = keep, !.todo = rest]
<1>1. next = [job[r] EXCEPT !.keep = @ \cup {id}, !.todo = Tail(@)]
  OBVIOUS
<1>2. /\ AtHost(job[r]) /\ Sound(r, job[r]) /\ job[r].res # 0
      /\ AtBackend(r, job[r])
  BY JobFacts DEF JobOK, WithHost, WithRes
<1>3. OwnRules(r, rest)
  BY <1>2, RestOwn DEF AtBackend
<1> HIDE DEF keep, rest
<1>4. /\ Shape(next) /\ next.res = job[r].res /\ next.todo = rest
      /\ next.rules = job[r].rules /\ next.hosts = job[r].hosts
  BY <1>2 DEF Sound, Shape, JobFields
<1> HIDE DEF next
<1>5. JobOK(r, Turn(next))
  BY <1>2, <1>3, <1>4, TurnOK DEF Sound, AtHost
<1>6. QED
  BY <1>1, <1>5

(* Keeping the target of a backend, or deleting it to make another. *)
LEMMA MatchInv == ASSUME HTTPInv, NEW r \in Routes, Match(r) PROVE HTTPInv'
<1>1. job[r].pc = "match" /\ job[r].pc \in WithBackend
  BY DEF Match, WithBackend
<1>2. /\ AtHost(job[r]) /\ Sound(r, job[r]) /\ job[r].res # 0
      /\ AtBackend(r, job[r])
  BY <1>1, JobFacts DEF JobOK, WithHost, WithRes
<1>3. ASSUME NEW id
      PROVE  JobOK(r, [job[r] EXCEPT !.pc = "createTarget", !.keep = @ \cup {id}])
  <2> DEFINE keep == job[r].keep \cup {id}
             next == [job[r] EXCEPT !.pc = "createTarget", !.keep = keep]
  <2>1. next = [job[r] EXCEPT !.pc = "createTarget", !.keep = @ \cup {id}]
    OBVIOUS
  <2> HIDE DEF keep
  <2>2. /\ Shape(next) /\ next.res = job[r].res /\ next.todo = job[r].todo
        /\ next.rules = job[r].rules /\ next.hosts = job[r].hosts
        /\ next.pc = "createTarget"
    BY <1>2 DEF Sound, Shape, JobFields
  <2>3. "createTarget" \in WithBackend
    BY DEF WithBackend
  <2> HIDE DEF next
  <2>4. JobOK(r, next)
    BY <1>2, <2>2, <2>3, BackendCall DEF Sound, AtHost, AtBackend
  <2>5. QED
    BY <2>1, <2>4
<1>4. Jobs'
  <2>1. CASE Return(r)
    BY <2>1, ReturnOK
  <2>2. CASE \E t \in Hits(job[r]) :
               \/ Step(r, Turn([job[r] EXCEPT !.keep = @ \cup {t.id}, !.todo = Tail(@)]))
               \/ Step(r, [job[r] EXCEPT !.pc = "createTarget", !.keep = @ \cup {t.id}])
    BY <1>1, <1>3, <2>2, NextBackend, StepOK
  <2>3. QED
    BY <2>1, <2>2 DEF Match
<1>5. RoutesOK' /\ ResourceOK' /\ TargetsOK' /\ SitesOK' /\ BudgetsOK'
  BY Untouched, Spent DEF Match, kube
<1>6. QED
  BY <1>4, <1>5 DEF HTTPInv

(* Making a target, on a resource that is there. *)
LEMMA CreateTargetInv == ASSUME HTTPInv, NEW r \in Routes, CreateTarget(r) PROVE HTTPInv'
<1> DEFINE t == NewTarget(job[r])
           next == [job[r] EXCEPT !.pc = "clearLabel"]
<1>1. job[r].pc \in WithBackend
  BY DEF CreateTarget, WithBackend
<1>2. Sound(r, job[r]) /\ job[r].res # 0
  BY <1>1, JobFacts DEF JobOK, WithRes
<1>3. JobOK(r, next)
  <2>1. /\ Shape(next) /\ next.rules = job[r].rules /\ next.pc = "clearLabel"
        /\ next.hosts = job[r].hosts
    BY <1>2 DEF Sound, Shape, JobFields
  <2>2. "clearLabel" \in Calls \ Bound
    BY DEF Calls, Bound, WithHost, WithRes, WithBackend, Doomed
  <2> HIDE DEF next
  <2>3. QED
    BY <1>2, <2>1, <2>2, FreeCall DEF Sound
<1>4. JobOK(r, Turn([job[r] EXCEPT !.keep = @ \cup {t.id}, !.todo = Tail(@)]))
  BY <1>1, NextBackend
<1>5. t.res = job[r].res
  BY DEF NewTarget
<1>6. /\ \/ Step(r, Turn([job[r] EXCEPT !.keep = @ \cup {t.id}, !.todo = Tail(@)]))
         \/ Step(r, next)
         \/ Return(r)
      /\ UNCHANGED targets \/ (Exists(job[r].res) /\ targets' = targets \cup {t})
      /\ UNCHANGED resource
  BY DEF CreateTarget
<1> HIDE DEF t, next
<1>7. Jobs'
  BY <1>3, <1>4, <1>6, StepOK, ReturnOK
<1>8. TargetsOK'
  <2>1. \A u \in targets' : Exists(u.res) /\ u.res # 0
    BY <1>2, <1>5, <1>6 DEF HTTPInv, TargetsOK
  <2>2. \A u \in targets' : Exists(u.res)'
    BY <1>6, <2>1 DEF Exists
  <2>3. QED
    BY <2>1, <2>2 DEF TargetsOK
<1>9. RoutesOK' /\ ResourceOK' /\ SitesOK' /\ BudgetsOK'
  BY Untouched, Spent DEF CreateTarget, kube
<1>10. QED
  BY <1>7, <1>8, <1>9 DEF HTTPInv

(* Deleting an orphan. *)
LEMMA SweepInv == ASSUME HTTPInv, NEW r \in Routes, Sweep(r) PROVE HTTPInv'
<1>1. job[r].pc = "sweep"
  BY DEF Sweep
<1>2. AtHost(job[r]) /\ Sound(r, job[r]) /\ job[r].res # 0
  BY <1>1, JobFacts DEF JobOK, WithHost, WithRes
<1>3. ASSUME NEW t
      PROVE  JobOK(r, Settle([job[r] EXCEPT !.listed = @ \ {t}]))
  <2> DEFINE left == job[r].listed \ {t}
             next == [job[r] EXCEPT !.listed = left]
  <2>1. next = [job[r] EXCEPT !.listed = @ \ {t}]
    OBVIOUS
  <2> HIDE DEF left
  <2>2. /\ Shape(next) /\ next.res = job[r].res
        /\ next.rules = job[r].rules /\ next.hosts = job[r].hosts
    BY <1>2 DEF Sound, Shape, JobFields
  <2> HIDE DEF next
  <2>3. JobOK(r, Settle(next))
    BY <1>2, <2>2, SettleOK DEF Sound, AtHost
  <2>4. QED
    BY <2>1, <2>3
<1>4. Jobs'
  BY <1>3, StepOK DEF Sweep
<1>5. RoutesOK' /\ ResourceOK' /\ TargetsOK' /\ SitesOK' /\ BudgetsOK'
  BY Untouched, Spent DEF Sweep, kube
<1>6. QED
  BY <1>4, <1>5 DEF HTTPInv

(* Clearing the label of a site that is gone. *)
LEMMA ClearLabelInv == ASSUME HTTPInv, NEW r \in Routes, ClearLabel(r) PROVE HTTPInv'
<1>1. Jobs'
  BY ReturnOK DEF ClearLabel
<1>2. SitesOK'
  BY DEF ClearLabel, HTTPInv, SitesOK, NoSite
<1>3. RoutesOK' /\ ResourceOK' /\ TargetsOK' /\ BudgetsOK'
  BY Untouched, Spent DEF ClearLabel
<1>4. QED
  BY <1>1, <1>2, <1>3 DEF HTTPInv

-----------------------------------------------------------------------------
(* Deletion: listing the resources of the route's hostnames. *)
LEMMA FindDoomedInv == ASSUME HTTPInv, NEW r \in Routes, FindDoomed(r) PROVE HTTPInv'
<1> DEFINE names == Hostnames[r]
           next == [job[r] EXCEPT !.known = resource, !.hosts = names]
<1>1. Sound(r, job[r])
  BY JobFacts
<1>2. Step(r, EnterDoomed(next)) \/ Step(r, EnterDoomed(job[r]))
  BY DEF FindDoomed
<1>3. names \in Seq(HostsOf(r))
  BY HostsInOrder
<1> HIDE DEF names
<1>4. Shape(next) /\ next.rules = job[r].rules /\ next.hosts = names
  BY <1>1 DEF Sound, Shape, JobFields
<1> HIDE DEF next
<1>5. Jobs'
  BY <1>1, <1>2, <1>3, <1>4, EnterDoomedOK, StepOK DEF Sound
<1>6. RoutesOK' /\ ResourceOK' /\ TargetsOK' /\ SitesOK' /\ BudgetsOK'
  BY Untouched, Spent DEF FindDoomed, kube
<1>7. QED
  BY <1>5, <1>6 DEF HTTPInv

(* Going on with the next hostname, or ending. *)
LEMMA StepDoomedOK ==
  ASSUME HTTPInv, NEW r \in Routes, NEW j, Sound(r, j), AtHost(j),
         StepDoomed(r, NextDoomed(j))
  PROVE  Jobs'
<1> DEFINE k == NextDoomed(j)
           next == IF k.pc = "idle" THEN Idle ELSE k
<1>1. Step(r, next)
  BY DEF StepDoomed
<1>2. JobOK(r, next)
  BY NextDoomedOK
<1> HIDE DEF next
<1>3. QED
  BY <1>1, <1>2, StepOK

(* Deletion: listing the targets of a resource. *)
LEMMA ListDoomedInv == ASSUME HTTPInv, NEW r \in Routes, ListDoomed(r) PROVE HTTPInv'
<1> DEFINE found == TargetsOf(job[r].res)
           next == [job[r] EXCEPT !.pc = "deleteTargets", !.listed = found]
<1>1. Sound(r, job[r]) /\ AtDoomed(job[r])
  BY JobFacts DEF ListDoomed, JobOK, Doomed
<1>2. Step(r, next) \/ StepDoomed(r, NextDoomed(job[r]))
  BY DEF ListDoomed
<1>3. \A t \in found : t.res = job[r].res
  BY DEF TargetsOf
<1> HIDE DEF found
<1>4. /\ Shape(next) /\ next.rules = job[r].rules /\ next.hosts = job[r].hosts
      /\ next.pc = "deleteTargets" /\ next.listed = found /\ next.res = job[r].res
      /\ next.known = job[r].known /\ next.keep = job[r].keep
      /\ next.failed = job[r].failed
  BY <1>1 DEF Sound, Shape, JobFields
<1> HIDE DEF next
<1>5. JobOK(r, next)
  BY <1>1, <1>3, <1>4 DEF JobOK, Sound, AtDoomed, AtHost, Calls, WithHost, WithRes, WithBackend
<1>6. Jobs'
  BY <1>1, <1>2, <1>5, StepOK, StepDoomedOK DEF AtDoomed
<1>7. RoutesOK' /\ ResourceOK' /\ TargetsOK' /\ SitesOK' /\ BudgetsOK'
  BY Untouched, Spent DEF ListDoomed, kube
<1>8. QED
  BY <1>6, <1>7 DEF HTTPInv

(* Deletion: what is left to do when a target has been deleted, or failed  *)
(* to be, or the resource failed to be.                                    *)
LEMMA DoomedSteps ==
  ASSUME HTTPInv, NEW r \in Routes, job[r].pc = "deleteTargets", NEW t
  PROVE  /\ JobOK(r, [job[r] EXCEPT !.listed = @ \ {t}])
         /\ JobOK(r, [job[r] EXCEPT !.listed = @ \ {t}, !.keep = @ \cup {t.id},
                                    !.failed = TRUE])
         /\ JobOK(r, [job[r] EXCEPT !.failed = TRUE])
<1> DEFINE left == job[r].listed \ {t}
           keep == job[r].keep \cup {t.id}
           next == [job[r] EXCEPT !.listed = left]
           error == [job[r] EXCEPT !.listed = left, !.keep = keep, !.failed = TRUE]
           late == [job[r] EXCEPT !.failed = TRUE]
<1>1. /\ Sound(r, job[r]) /\ AtDoomed(job[r])
      /\ \A u \in job[r].listed : u.res = job[r].res
  BY JobFacts DEF JobOK, Doomed
<1>2. /\ next = [job[r] EXCEPT !.listed = @ \ {t}]
      /\ error = [job[r] EXCEPT !.listed = @ \ {t}, !.keep = @ \cup {t.id}, !.failed = TRUE]
      /\ left \subseteq job[r].listed
  OBVIOUS
<1> HIDE DEF left, keep
<1>3. /\ Shape(next) /\ next.rules = job[r].rules /\ next.hosts = job[r].hosts
      /\ next.pc = "deleteTargets" /\ next.listed = left /\ next.res = job[r].res
      /\ next.known = job[r].known /\ next.keep = job[r].keep
      /\ next.failed = job[r].failed
  BY <1>1 DEF Sound, Shape, JobFields
<1>4. /\ Shape(error) /\ error.rules = job[r].rules /\ error.hosts = job[r].hosts
      /\ error.pc = "deleteTargets" /\ error.listed = left /\ error.res = job[r].res
      /\ error.known = job[r].known /\ error.failed = TRUE
  BY <1>1 DEF Sound, Shape, JobFields
<1>5. /\ Shape(late) /\ late.rules = job[r].rules /\ late.hosts = job[r].hosts
      /\ late.pc = "deleteTargets" /\ late.listed = job[r].listed /\ late.res = job[r].res
      /\ late.known = job[r].known /\ late.failed = TRUE
  BY <1>1 DEF Sound, Shape, JobFields
<1> HIDE DEF next, error, late
<1>6. JobOK(r, next)
  BY <1>1, <1>2, <1>3 DEF JobOK, Sound, AtDoomed, AtHost, Calls, WithHost, WithRes, WithBackend
<1>7. JobOK(r, error)
  BY <1>1, <1>2, <1>4 DEF JobOK, Sound, AtDoomed, AtHost, Calls, WithHost, WithRes, WithBackend
<1>8. JobOK(r, late)
  BY <1>1, <1>5 DEF JobOK, Sound, AtDoomed, AtHost, Calls, WithHost, WithRes, WithBackend
<1>9. QED
  BY <1>2, <1>6, <1>7, <1>8 DEF late

(* Deletion: deleting a target, or failing to. *)
LEMMA DeleteTargetInv == ASSUME HTTPInv, NEW r \in Routes, DeleteTarget(r) PROVE HTTPInv'
<1>1. job[r].pc = "deleteTargets"
  BY DEF DeleteTarget
<1>2. Jobs'
  BY <1>1, DoomedSteps, StepOK DEF DeleteTarget
<1>3. RoutesOK' /\ ResourceOK' /\ TargetsOK' /\ SitesOK' /\ BudgetsOK'
  BY Untouched, Spent DEF DeleteTarget, kube
<1>4. QED
  BY <1>2, <1>3 DEF HTTPInv

(* Deletion: deleting the resource. *)
LEMMA DeleteResourceInv == ASSUME HTTPInv, NEW r \in Routes, DeleteResource(r) PROVE HTTPInv'
<1> DEFINE error == [job[r] EXCEPT !.failed = TRUE]
<1>1. job[r].pc = "deleteTargets" /\ "deleteTargets" \in Doomed
  BY DEF DeleteResource, Doomed
<1>2. Sound(r, job[r]) /\ AtDoomed(job[r])
  BY <1>1, JobFacts DEF JobOK
<1>3. StepDoomed(r, NextDoomed(job[r])) \/ StepDoomed(r, NextDoomed(error))
  BY DEF DeleteResource
<1>4. JobOK(r, error) /\ error.pc = "deleteTargets"
  BY <1>1, <1>2, DoomedSteps DEF Sound, Shape, JobFields
<1> HIDE DEF error
<1>5. Sound(r, error) /\ AtDoomed(error)
  BY <1>1, <1>4 DEF JobOK
<1>6. Jobs'
  BY <1>2, <1>3, <1>5, StepDoomedOK DEF AtDoomed
<1>7. ResourceOK' /\ TargetsOK'
  <2>1. /\ WithoutResource(job[r].res) \/ UNCHANGED <<resource, targets>>
        /\ UNCHANGED nextRes
    BY DEF DeleteResource
  <2>2. QED
    BY <2>1, WithoutResourceOK, Untouched
<1>8. RoutesOK' /\ SitesOK' /\ BudgetsOK'
  BY Untouched, Spent DEF DeleteResource, kube
<1>9. QED
  BY <1>6, <1>7, <1>8 DEF HTTPInv

(* Deletion: dropping the finalizer. *)
LEMMA DropFinalizerInv == ASSUME HTTPInv, NEW r \in Routes, DropFinalizer(r) PROVE HTTPInv'
<1>1. Jobs'
  BY ReturnOK DEF DropFinalizer
<1>2. UNCHANGED route \/ route' = [route EXCEPT ![r] = Gone]
  BY DEF DropFinalizer
<1>3. RoutesOK'
  BY <1>2, RouteChanges, Untouched
<1>4. ResourceOK' /\ TargetsOK' /\ SitesOK' /\ BudgetsOK'
  BY Untouched, Spent DEF DropFinalizer
<1>5. QED
  BY <1>1, <1>3, <1>4 DEF HTTPInv

-----------------------------------------------------------------------------
(* A user edits or deletes a route. *)
LEMMA UserInv == ASSUME HTTPInv, NEW r \in Routes, Edit(r) \/ UserDeletes(r) PROVE HTTPInv'
<1>1. CASE Edit(r)
  <2>1. RoutesOK'
    BY <1>1, RouteChanges DEF Edit
  <2>2. Jobs' /\ ResourceOK' /\ TargetsOK' /\ SitesOK' /\ BudgetsOK'
    BY <1>1, Untouched, Spent DEF Edit
  <2>3. QED
    BY <2>1, <2>2 DEF HTTPInv
<1>2. CASE UserDeletes(r)
  <2>1. \/ route' = [route EXCEPT ![r].deleting = TRUE]
        \/ route' = [route EXCEPT ![r] = Gone]
    BY <1>2 DEF UserDeletes
  <2>2. RoutesOK'
    BY <2>1, RouteChanges
  <2>3. Jobs' /\ ResourceOK' /\ TargetsOK' /\ SitesOK' /\ BudgetsOK'
    BY <1>2, Untouched, Spent DEF UserDeletes, budget
  <2>4. QED
    BY <2>2, <2>3 DEF HTTPInv
<1>3. QED
  BY <1>1, <1>2

(* The Gateway gets a site. *)
LEMMA GatewayInv == ASSUME HTTPInv, GatewayReconciles PROVE HTTPInv'
<1>1. NextSite \in Nat
  BY HTTPRouteAssumption DEF HTTPInv, BudgetsOK, NextSite
<1>2. SitesOK'
  BY <1>1 DEF GatewayReconciles, HTTPInv, SitesOK
<1>3. Jobs' /\ RoutesOK' /\ ResourceOK' /\ TargetsOK' /\ BudgetsOK'
  BY Untouched, Spent DEF GatewayReconciles, budget
<1>4. QED
  BY <1>2, <1>3 DEF HTTPInv

(* Someone deletes a site, a resource or a target. *)
LEMMA OutsiderInv == ASSUME HTTPInv, Outsider PROVE HTTPInv'
<1>1. ResourceOK' /\ TargetsOK'
  <2>1. \/ \E id : WithoutResource(id)
        \/ UNCHANGED resource /\ targets' \subseteq targets
    BY DEF Outsider
  <2>2. UNCHANGED nextRes
    BY DEF Outsider
  <2>3. QED
    BY <2>1, <2>2, WithoutResourceOK, Untouched
<1>2. SitesOK'
  BY DEF Outsider, HTTPInv, SitesOK, NoSite, kube
<1>3. Jobs' /\ RoutesOK' /\ BudgetsOK'
  BY Untouched, Spent DEF Outsider, kube
<1>4. QED
  BY <1>1, <1>2, <1>3 DEF HTTPInv

(* The process crashes. *)
LEMMA CrashInv == ASSUME HTTPInv, Crash PROVE HTTPInv'
<1>1. Jobs'
  BY IdleOK DEF Crash, Jobs
<1>2. RoutesOK' /\ ResourceOK' /\ TargetsOK' /\ SitesOK' /\ BudgetsOK'
  BY Untouched, Spent DEF Crash, kube
<1>3. QED
  BY <1>1, <1>2 DEF HTTPInv

(* The invariant holds at first. *)
LEMMA InitInv == Init => HTTPInv
<1> SUFFICES ASSUME Init PROVE HTTPInv
  OBVIOUS
<1>1. Jobs
  BY IdleOK DEF Init, Jobs
<1>2. RoutesOK
  <2>1. \A r \in Routes : OwnRules(r, FirstRules[r]) /\ FirstRules[r] \in Seq(Backend)
    BY RulesOwn DEF OwnRules
  <2>2. \A r \in Routes : /\ NewRoute(FirstRules[r]).rules = FirstRules[r]
                          /\ NewRoute(FirstRules[r]) \in
                               [exists : BOOLEAN, deleting : BOOLEAN, finalizer : BOOLEAN,
                                rules : Seq(Backend)]
    BY <2>1 DEF NewRoute
  <2>3. QED
    BY <2>1, <2>2 DEF Init, RoutesOK
<1>3. ResourceOK
  BY DEF Init, ResourceOK, None
<1>4. TargetsOK /\ SitesOK
  BY DEF Init, TargetsOK, SitesOK
<1>5. BudgetsOK
  BY HTTPRouteAssumption DEF Init, BudgetsOK
<1>6. QED
  BY <1>1, <1>2, <1>3, <1>4, <1>5 DEF HTTPInv

(* Every step keeps it. *)
LEMMA StepInv == HTTPInv /\ [Next]_vars => HTTPInv'
<1> SUFFICES ASSUME HTTPInv, [Next]_vars PROVE HTTPInv'
  OBVIOUS
<1>1. ASSUME NEW r \in Routes, Reconcile(r) PROVE HTTPInv'
  <2>1. CASE Read(r) \/ AddFinalizer(r) \/ Find(r)
    BY <2>1, ReadInv, AddFinalizerInv, FindInv
  <2>2. CASE CreateResource(r) \/ Adopt(r) \/ Configure(r)
    BY <2>2, CreateResourceInv, AdoptInv, ConfigureInv
  <2>3. CASE ReconcileTargets(r)
    BY <2>3, ListTargetsInv, MatchInv, CreateTargetInv, SweepInv DEF ReconcileTargets
  <2>4. CASE ClearLabel(r)
    BY <2>4, ClearLabelInv
  <2>5. CASE HandleDelete(r)
    BY <2>5, FindDoomedInv, ListDoomedInv, DeleteTargetInv, DeleteResourceInv,
       DropFinalizerInv DEF HandleDelete
  <2>6. QED
    BY <1>1, <2>1, <2>2, <2>3, <2>4, <2>5 DEF Reconcile
<1>2. CASE UNCHANGED vars
  BY <1>2, Untouched, Spent DEF vars, HTTPInv
<1>3. QED
  BY <1>1, <1>2, UserInv, GatewayInv, OutsiderInv, CrashInv DEF Next

(* Every variable stays in its range; every target is one of a resource    *)
(* that exists: a resource is never deleted without its targets, and a     *)
(* target never made on one that is gone; and a job goes on to configure a *)
(* resource, or its targets, only with the id of one.                      *)
THEOREM TypeCorrect == Spec => []TypeOK
<1>1. HTTPInv => TypeOK
  <2> SUFFICES ASSUME HTTPInv PROVE TypeOK
    OBVIOUS
  <2>1. JobsInRange
    BY DEF HTTPInv, Jobs, JobOK, JobsInRange, CallsOnResource, WithRes, WithBackend
  <2>2. QED
    BY <2>1 DEF TypeOK, HTTPInv, RoutesOK, ResourceOK, TargetsOK, SitesOK, BudgetsOK
<1>2. QED
  BY <1>1, InitInv, StepInv, PTL DEF Spec

-----------------------------------------------------------------------------
(* What a route's reconciliation takes away is on a path of the route. *)
LEMMA TakesOwn ==
  ASSUME HTTPInv, NEW q \in Routes, ReconcileTargets(q), NEW t \in targets \ targets'
  PROVE  t.path \in PathsOf(q)
<1>1. CASE ListTargets(q) \/ CreateTarget(q)
  BY <1>1 DEF ListTargets, CreateTarget, Refused
<1>2. CASE Match(q)
  <2>1. t.path = Head(job[q].todo).path
    BY <1>2 DEF Match, Hits
  <2>2. AtBackend(q, job[q])
    BY <1>2, JobFacts DEF Match, JobOK, WithBackend
  <2>3. QED
    BY <2>1, <2>2, RestOwn DEF AtBackend
<1>3. CASE Sweep(q)
  <2>1. t.path \in Paths(job[q].rules)
    BY <1>3 DEF Sweep, Orphans
  <2>2. QED
    BY <2>1, JobFacts DEF Sound, OwnRules
<1>4. QED
  BY <1>1, <1>2, <1>3 DEF ReconcileTargets

(* What carries a route's traffic is on a path of that route. *)
LEMMA CarriesOwn ==
  ASSUME HTTPInv, NEW r \in Routes, NEW t, Carries(t, r)
  PROVE  t.path \in PathsOf(r)
<1>1. PICK i \in DOMAIN route[r].rules :
        route[r].rules[i] = [path |-> t.path, service |-> t.service, conf |-> t.conf]
  BY DEF Carries, Wanted
<1>2. route[r].rules[i].path = t.path
  BY <1>1
<1>3. t.path \in Paths(route[r].rules)
  BY <1>2 DEF Paths
<1>4. QED
  BY <1>3, JobFacts DEF OwnRules

(* Routes of one hostname whose paths differ, whatever their rules become, *)
(* never take each other's targets away when they reconcile.               *)
THEOREM Neighbours == ASSUME OwnPaths PROVE Spec => NeighbourUndisturbed
<1> DEFINE Undisturbed ==
      \A q \in Routes : ReconcileTargets(q) =>
        \A t \in targets \ targets', r \in Routes \ {q} : ~Carries(t, r)
<1>1. HTTPInv /\ [Next]_vars => [Undisturbed]_vars
  <2> SUFFICES ASSUME HTTPInv, NEW q \in Routes, ReconcileTargets(q),
                      NEW t \in targets \ targets', NEW r \in Routes \ {q}, Carries(t, r)
               PROVE  FALSE
    OBVIOUS
  <2>1. t.path \in PathsOf(q) /\ t.path \in PathsOf(r)
    BY TakesOwn, CarriesOwn
  <2>2. QED
    BY <2>1 DEF OwnPaths
<1>2. QED
  BY <1>1, InitInv, StepInv, PTL DEF Spec, NeighbourUndisturbed

-----------------------------------------------------------------------------
(* Nothing is left behind.  As long as no call has failed, every resource  *)
(* has a route that answers for it: one of its hostname, whose finalizer   *)
(* is on and whose job, if it is deleting already, still has that resource *)
(* ahead of it, or has an error and will begin again.                      *)

Deleting == Doomed \cup {"dropFinalizer"}

(* A job that still takes care of a resource h of this id. *)
Cares(j, h, id) ==
  j.pc \in Deleting => j.failed \/ (h \in Members(j.hosts) /\ j.known[h].id = id)

Held(r) == route[r].exists /\ route[r].finalizer

Keeps(r, h) == h \in HostsOf(r) /\ Held(r) /\ Cares(job[r], h, resource[h].id)

(* A job that does more than begin is one of a route with a finalizer. *)
BusyOK == \A r \in Routes : job[r].pc \notin {"idle", "addFinalizer"} => Held(r)

Kept ==
  faults = MaxFaults =>
    \A h \in Hosts : resource[h].id # 0 => \E r \in Routes : Keeps(r, h)

KeptInv == HTTPInv /\ BusyOK /\ Kept

(* After a fault nothing is claimed any more. *)
LEMMA AfterFault == ASSUME KeptInv, Fault PROVE Kept'
BY HTTPRouteAssumption DEF KeptInv, HTTPInv, BudgetsOK, Fault, Kept

(* A step of a route's job that leaves every resource to that route, or as *)
(* it is and to another.                                                   *)
LEMMA KeptStep ==
  ASSUME KeptInv, NEW r \in Routes, NEW j, Step(r, j), UNCHANGED faults,
         \A q \in Routes \ {r} : UNCHANGED route[q],
         \A h \in Hosts : resource'[h].id # 0 =>
           \/ Keeps(r, h)'
           \/ resource'[h].id = resource[h].id /\ ~Keeps(r, h)
  PROVE  Kept'
<1> SUFFICES ASSUME faults = MaxFaults, NEW h \in Hosts, resource'[h].id # 0
             PROVE  \E q \in Routes : Keeps(q, h)'
  BY DEF Kept
<1>1. CASE Keeps(r, h)'
  BY <1>1
<1>2. CASE resource'[h].id = resource[h].id /\ ~Keeps(r, h)
  <2>1. PICK q \in Routes : Keeps(q, h)
    BY <1>2 DEF KeptInv, Kept
  <2>2. q # r
    BY <1>2, <2>1
  <2>3. job'[q] = job[q]
    BY <2>2 DEF Step, KeptInv, HTTPInv, Jobs
  <2>4. Keeps(q, h)'
    BY <1>2, <2>1, <2>2, <2>3 DEF Keeps, Held
  <2>5. QED
    BY <2>4
<1>3. QED
  BY <1>1, <1>2

(* A step of a job that is not deleting, which may make a resource of one  *)
(* of the route's hostnames and leaves the route its finalizer.            *)
LEMMA KeptFilling ==
  ASSUME KeptInv, NEW r \in Routes, NEW j, Step(r, j), j.pc \notin Deleting,
         Fault \/ UNCHANGED faults,
         \A q \in Routes \ {r} : UNCHANGED route[q],
         Held(r) => Held(r)',
         \A h \in Hosts : resource'[h].id # 0 =>
           resource'[h].id = resource[h].id \/ (h \in HostsOf(r) /\ Held(r)')
  PROVE  Kept'
<1>1. CASE Fault
  BY <1>1, AfterFault
<1>2. CASE UNCHANGED faults
  <2>1. job'[r] = j
    BY DEF Step, KeptInv, HTTPInv, Jobs
  <2>2. ASSUME NEW h \in Hosts, resource'[h].id # 0
        PROVE  Keeps(r, h)' \/ (resource'[h].id = resource[h].id /\ ~Keeps(r, h))
    BY <2>1, <2>2 DEF Keeps, Cares
  <2>3. QED
    BY <1>2, <2>2, KeptStep
<1>3. QED
  BY <1>1, <1>2

(* A step of the environment, which makes no resource and leaves every     *)
(* route its finalizer.                                                    *)
LEMMA KeptOutside ==
  ASSUME KeptInv, UNCHANGED <<job, faults>>,
         \A q \in Routes : Held(q) => Held(q)',
         \A h \in Hosts : resource'[h].id # 0 => resource'[h].id = resource[h].id
  PROVE  BusyOK' /\ Kept'
<1>1. BusyOK'
  BY DEF KeptInv, BusyOK
<1>2. ASSUME faults = MaxFaults, NEW h \in Hosts, resource'[h].id # 0
      PROVE  \E q \in Routes : Keeps(q, h)'
  <2>1. PICK q \in Routes : Keeps(q, h)
    BY <1>2 DEF KeptInv, Kept
  <2>2. QED
    BY <1>2, <2>1 DEF Keeps
<1>3. QED
  BY <1>1, <1>2 DEF Kept

(* A step of a job that is past the finalizer leaves it one of a route     *)
(* with a finalizer.                                                       *)
LEMMA BusyStep ==
  ASSUME KeptInv, NEW r \in Routes, NEW j, Step(r, j), UNCHANGED route,
         j.pc \in {"idle", "addFinalizer"} \/ Held(r)
  PROVE  BusyOK'
<1>1. \A q \in Routes : job'[q] = IF q = r THEN j ELSE job[q]
  BY DEF Step, KeptInv, HTTPInv, Jobs
<1>2. QED
  BY <1>1 DEF KeptInv, BusyOK, Held

-----------------------------------------------------------------------------
(* The actions of a job that reconciles, and what they lead to: the call   *)
(* is not one of deletion, and the resources the job knows of are those it *)
(* knew, or none.                                                          *)
Filling(r) ==
  Find(r) \/ CreateResource(r) \/ Adopt(r) \/ Configure(r) \/ ReconcileTargets(r) \/ ClearLabel(r)

GoesOn(j, k) == k.pc \notin Deleting /\ k.known \in {j.known, Idle.known}

(* Entering a hostname, settling one and turning to a backend do so. *)
LEMMA FillingCalls ==
  ASSUME NEW j, Shape(j)
  PROVE  GoesOn(j, Enter(j)) /\ GoesOn(j, Settle(j)) /\ GoesOn(j, Turn(j))
<1>1. GoesOn(j, Idle)
  BY DEF Idle, Deleting, Doomed, GoesOn
<1>2. ASSUME NEW k, Shape(k), k.known = j.known PROVE GoesOn(j, Enter(k))
  <2>1. CASE k.hosts = <<>>
    BY <1>1, <2>1 DEF Enter
  <2>2. CASE k.hosts # <<>>
    <3> DEFINE f == k.known[Head(k.hosts)]
               call == IF f.id = 0 THEN "createResource"
                       ELSE IF f.bare THEN "configure" ELSE "listTargets"
               next == [k EXCEPT !.res = f.id, !.pc = call]
    <3>1. Enter(k) = next
      BY <2>2 DEF Enter
    <3>2. call \notin Deleting
      BY DEF Deleting, Doomed
    <3> HIDE DEF f, call
    <3>3. next.pc = call /\ next.known = k.known
      BY <1>2 DEF Shape, JobFields
    <3>4. QED
      BY <1>2, <3>1, <3>2, <3>3 DEF GoesOn
  <2>3. QED
    BY <2>1, <2>2
<1>3. GoesOn(j, Settle(j))
  <2>1. CASE Orphans(j) # {}
    <3> DEFINE next == [j EXCEPT !.pc = "sweep"]
    <3>1. Settle(j) = next
      BY <2>1 DEF Settle
    <3>2. next.pc = "sweep" /\ next.known = j.known
      BY DEF Shape, JobFields
    <3>3. QED
      BY <3>1, <3>2 DEF Deleting, Doomed, GoesOn
  <2>2. CASE Orphans(j) = {}
    <3> DEFINE rest == Tail(j.hosts)
               next == [j EXCEPT !.hosts = rest, !.listed = {}, !.keep = {}]
    <3>1. Settle(j) = Enter(next)
      BY <2>2 DEF Settle
    <3> HIDE DEF rest
    <3>2. Shape(next) /\ next.known = j.known
      BY DEF Shape, JobFields
    <3> HIDE DEF next
    <3>3. QED
      BY <1>2, <3>1, <3>2
  <2>3. QED
    BY <2>1, <2>2
<1>4. GoesOn(j, Turn(j))
  <2>1. CASE j.todo = <<>>
    BY <1>3, <2>1 DEF Turn
  <2>2. CASE j.todo # <<>>
    <3> DEFINE call == IF Hits(j) = {} THEN "createTarget" ELSE "match"
               next == [j EXCEPT !.pc = call]
    <3>1. Turn(j) = next
      BY <2>2 DEF Turn
    <3>2. call \notin Deleting
      BY DEF Deleting, Doomed
    <3> HIDE DEF call
    <3>3. next.pc = call /\ next.known = j.known
      BY DEF Shape, JobFields
    <3>4. QED
      BY <3>1, <3>2, <3>3 DEF GoesOn
  <2>3. QED
    BY <2>1, <2>2
<1>5. QED
  BY <1>2, <1>3, <1>4

(* The resources are listed once, before the first hostname. *)
LEMMA FindStep ==
  ASSUME HTTPInv, NEW r \in Routes, Find(r)
  PROVE  \E j : Step(r, j) /\ j.pc \notin Deleting /\ j.known \in {resource, Idle.known}
<1> DEFINE names == Hostnames[r]
           next == [job[r] EXCEPT !.site = label, !.known = resource, !.hosts = names]
<1>1. Step(r, Enter(next)) \/ Step(r, Idle)
  BY DEF Find, Refused, Return
<1> HIDE DEF names
<1>2. Shape(next) /\ next.known = resource
  BY JobFacts DEF Shape, JobFields
<1> HIDE DEF next
<1>3. GoesOn(next, Enter(next)) /\ Idle.pc \notin Deleting
  BY <1>2, FillingCalls DEF Idle, Deleting, Doomed
<1>4. QED
  BY <1>1, <1>2, <1>3 DEF GoesOn

(* Every other of these actions goes on with what is known. *)
LEMMA FillingStep ==
  ASSUME HTTPInv, NEW r \in Routes, Filling(r)
  PROVE  \E j : Step(r, j) /\ (GoesOn(job[r], j) \/ (j.pc \notin Deleting /\ j.known = resource))
<1>1. Shape(job[r])
  BY JobFacts
<1>2. CASE Return(r)
  <2>1. GoesOn(job[r], Idle)
    BY DEF Idle, Deleting, Doomed, GoesOn
  <2>2. QED
    BY <1>2, <2>1 DEF Return
<1>3. CASE Find(r)
  BY <1>3, FindStep DEF GoesOn
<1>4. CASE CreateResource(r) /\ ~Return(r)
  <2> DEFINE made == [job[r] EXCEPT !.pc = "configure", !.res = nextRes]
             conflict == [job[r] EXCEPT !.pc = "adopt"]
  <2>1. Step(r, made) \/ Step(r, conflict)
    BY <1>4 DEF CreateResource
  <2>2. /\ made.pc = "configure" /\ made.known = job[r].known
        /\ conflict.pc = "adopt" /\ conflict.known = job[r].known
    BY <1>1 DEF Shape, JobFields
  <2> HIDE DEF made, conflict
  <2>3. QED
    BY <2>1, <2>2 DEF Deleting, Doomed, GoesOn
<1>5. CASE Adopt(r) /\ ~Return(r)
  <2> DEFINE id == resource[Head(job[r].hosts)].id
             found == [job[r] EXCEPT !.pc = "configure", !.res = id]
  <2>1. Step(r, found)
    BY <1>5 DEF Adopt
  <2> HIDE DEF id
  <2>2. found.pc = "configure" /\ found.known = job[r].known
    BY <1>1 DEF Shape, JobFields
  <2> HIDE DEF found
  <2>3. QED
    BY <2>1, <2>2 DEF Deleting, Doomed, GoesOn
<1>6. CASE Configure(r)
  <2> DEFINE next == [job[r] EXCEPT !.pc = "listTargets"]
  <2>1. Step(r, next)
    BY <1>6 DEF Configure
  <2>2. next.pc = "listTargets" /\ next.known = job[r].known
    BY <1>1 DEF Shape, JobFields
  <2> HIDE DEF next
  <2>3. QED
    BY <2>1, <2>2 DEF Deleting, Doomed, GoesOn
<1>7. CASE ListTargets(r) /\ ~Return(r)
  <2> DEFINE found == TargetsOf(job[r].res)
             rules == job[r].rules
             next == [job[r] EXCEPT !.listed = found, !.todo = rules, !.keep = {}]
  <2>1. Step(r, Turn(next))
    BY <1>7 DEF ListTargets, Refused
  <2> HIDE DEF found, rules
  <2>2. Shape(next) /\ next.known = job[r].known
    BY <1>1 DEF Shape, JobFields
  <2> HIDE DEF next
  <2>3. GoesOn(job[r], Turn(next))
    BY <2>2, FillingCalls DEF GoesOn
  <2>4. QED
    BY <2>1, <2>3
<1>8. ASSUME NEW id
      PROVE  /\ GoesOn(job[r], Turn([job[r] EXCEPT !.keep = @ \cup {id}, !.todo = Tail(@)]))
             /\ GoesOn(job[r], [job[r] EXCEPT !.pc = "createTarget", !.keep = @ \cup {id}])
  <2> DEFINE keep == job[r].keep \cup {id}
             rest == Tail(job[r].todo)
             turn == [job[r] EXCEPT !.keep = keep, !.todo = rest]
             make == [job[r] EXCEPT !.pc = "createTarget", !.keep = keep]
  <2>1. /\ turn = [job[r] EXCEPT !.keep = @ \cup {id}, !.todo = Tail(@)]
        /\ make = [job[r] EXCEPT !.pc = "createTarget", !.keep = @ \cup {id}]
    OBVIOUS
  <2> HIDE DEF keep, rest
  <2>2. /\ Shape(turn) /\ turn.known = job[r].known
        /\ make.pc = "createTarget" /\ make.known = job[r].known
    BY <1>1 DEF Shape, JobFields
  <2> HIDE DEF turn, make
  <2>3. GoesOn(job[r], Turn(turn)) /\ GoesOn(job[r], make)
    BY <2>2, FillingCalls DEF Deleting, Doomed, GoesOn
  <2>4. QED
    BY <2>1, <2>3
<1>9. CASE Match(r) /\ ~Return(r)
  BY <1>8, <1>9 DEF Match
<1>10. CASE CreateTarget(r) /\ ~Return(r)
  <2> DEFINE clear == [job[r] EXCEPT !.pc = "clearLabel"]
             id == NewTarget(job[r]).id
  <2>1. \/ Step(r, Turn([job[r] EXCEPT !.keep = @ \cup {id}, !.todo = Tail(@)]))
        \/ Step(r, clear)
    BY <1>10 DEF CreateTarget
  <2>2. clear.pc = "clearLabel" /\ clear.known = job[r].known
    BY <1>1 DEF Shape, JobFields
  <2> HIDE DEF clear, id
  <2>3. GoesOn(job[r], clear)
    BY <2>2 DEF Deleting, Doomed, GoesOn
  <2>4. QED
    BY <1>8, <2>1, <2>3
<1>11. CASE Sweep(r)
  <2>1. PICK t : Step(r, Settle([job[r] EXCEPT !.listed = @ \ {t}]))
    BY <1>11 DEF Sweep
  <2> DEFINE left == job[r].listed \ {t}
             next == [job[r] EXCEPT !.listed = left]
  <2>2. next = [job[r] EXCEPT !.listed = @ \ {t}]
    OBVIOUS
  <2> HIDE DEF left
  <2>3. Shape(next) /\ next.known = job[r].known
    BY <1>1 DEF Shape, JobFields
  <2> HIDE DEF next
  <2>4. GoesOn(job[r], Settle(next))
    BY <2>3, FillingCalls DEF GoesOn
  <2>5. QED
    BY <2>1, <2>2, <2>4
<1>12. QED
  BY <1>2, <1>3, <1>4, <1>5, <1>6, <1>7, <1>9, <1>10, <1>11
     DEF Filling, ReconcileTargets, ClearLabel

(* Such a step makes resources of the route's hostnames only, and leaves   *)
(* the route itself alone.                                                 *)
LEMMA FillingKept ==
  ASSUME KeptInv, NEW r \in Routes, Filling(r)
  PROVE  BusyOK' /\ Kept'
<1>1. PICK j : Step(r, j) /\ j.pc \notin Deleting
  BY FillingStep DEF KeptInv, GoesOn
<1>2. job[r].pc \notin {"idle", "addFinalizer"}
  BY DEF Filling, ReconcileTargets, Find, CreateResource, Adopt, Configure, ListTargets,
         Match, CreateTarget, Sweep, ClearLabel
<1>3. Held(r)
  BY <1>2 DEF KeptInv, BusyOK
<1>4. UNCHANGED route /\ (Fault \/ UNCHANGED faults)
  BY DEF Filling, ReconcileTargets, Find, CreateResource, Adopt, Configure, ListTargets,
         Match, CreateTarget, Sweep, ClearLabel, Refused, kube
<1>5. ASSUME NEW h \in Hosts, resource'[h].id # 0
      PROVE  resource'[h].id = resource[h].id \/ h \in HostsOf(r)
  <2>1. CASE CreateResource(r)
    <3> DEFINE first == Head(job[r].hosts)
    <3>1. job[r].pc \in WithHost
      BY <2>1 DEF CreateResource, WithHost
    <3>2. first \in HostsOf(r)
      BY <3>1, JobFacts, HeadTailProperties DEF KeptInv, JobOK, AtHost, Sound
    <3>3. NewResource(first) \/ UNCHANGED resource
      BY <2>1 DEF CreateResource
    <3>4. \A g \in Hosts \ {first} : resource'[g] = resource[g]
      BY <3>3 DEF NewResource, KeptInv, HTTPInv, ResourceOK
    <3>5. QED
      BY <3>2, <3>4
  <2>2. CASE Configure(r)
    <3>1. \/ UNCHANGED resource
          \/ resource'[h] = IF resource[h].id = job[r].res
                            THEN [resource[h] EXCEPT !.bare = FALSE] ELSE resource[h]
      BY <2>2 DEF Configure
    <3>2. resource[h] \in [id : 0 .. nextRes - 1, bare : BOOLEAN]
      BY DEF KeptInv, HTTPInv, ResourceOK
    <3>3. [resource[h] EXCEPT !.bare = FALSE].id = resource[h].id
      BY <3>2
    <3>4. QED
      BY <3>1, <3>3
  <2>3. CASE ~CreateResource(r) /\ ~Configure(r)
    BY <2>3 DEF Filling, ReconcileTargets, Find, Adopt, ListTargets, Match, CreateTarget,
                Sweep, ClearLabel, Refused
  <2>4. QED
    BY <2>1, <2>2, <2>3
<1>6. BusyOK'
  BY <1>1, <1>3, <1>4, BusyStep
<1>7. Kept'
  BY <1>1, <1>3, <1>4, <1>5, KeptFilling DEF Held
<1>8. QED
  BY <1>6, <1>7

(* Beginning: reading the route, and adding the finalizer. *)
LEMMA BeginKept ==
  ASSUME KeptInv, NEW r \in Routes, Read(r) \/ AddFinalizer(r)
  PROVE  BusyOK' /\ Kept'
<1>1. CASE Read(r)
  <2> DEFINE call == IF route[r].deleting THEN "findDoomed"
                     ELSE IF route[r].finalizer THEN "find" ELSE "addFinalizer"
             rules == route[r].rules
             next == [Idle EXCEPT !.pc = call, !.rules = rules]
  <2>1. Step(r, next) /\ UNCHANGED <<route, resource, faults>>
    BY <1>1 DEF Read, kube, budget
  <2>2. call \notin Deleting /\ (call = "addFinalizer" \/ Held(r))
    BY <1>1 DEF Read, Deleting, Doomed, Held
  <2> HIDE DEF call, rules
  <2>3. next.pc = call
    BY DEF Idle
  <2> HIDE DEF next
  <2>4. QED
    BY <2>1, <2>2, <2>3, BusyStep, KeptFilling DEF Held
<1>2. CASE AddFinalizer(r)
  <2> DEFINE rules == route[r].rules
             next == [job[r] EXCEPT !.pc = "find", !.rules = rules]
  <2>1. /\ UNCHANGED resource /\ (Fault \/ UNCHANGED faults)
        /\ \/ /\ Step(r, next) /\ route[r].exists
              /\ route' = [route EXCEPT ![r].finalizer = TRUE]
           \/ /\ Step(r, Idle)
              /\ UNCHANGED route \/ route' = [route EXCEPT ![r].finalizer = TRUE]
    BY <1>2 DEF AddFinalizer, Return
  <2>2. Shape(job[r])
    BY JobFacts DEF KeptInv
  <2> HIDE DEF rules
  <2>3. next.pc = "find" /\ Idle.pc = "idle"
    BY <2>2 DEF Shape, JobFields, Idle
  <2>4. next.pc \notin Deleting /\ Idle.pc \notin Deleting
    BY <2>3 DEF Deleting, Doomed
  <2> HIDE DEF next
  <2>5. ASSUME route' = [route EXCEPT ![r].finalizer = TRUE]
        PROVE  /\ \A q \in Routes \ {r} : UNCHANGED route[q]
               /\ route'[r].finalizer = TRUE /\ route'[r].exists = route[r].exists
    BY <2>5 DEF KeptInv, HTTPInv, RoutesOK
  <2>6. PICK j \in {next, Idle} :
          /\ Step(r, j) /\ j.pc \notin Deleting
          /\ j.pc = "idle" \/ Held(r)'
          /\ \A q \in Routes \ {r} : UNCHANGED route[q]
          /\ Held(r) => Held(r)'
    <3>1. CASE /\ Step(r, next) /\ route[r].exists
               /\ route' = [route EXCEPT ![r].finalizer = TRUE]
      <4>1. Held(r)'
        BY <2>5, <3>1 DEF Held
      <4>2. QED
        BY <2>4, <2>5, <3>1, <4>1
    <3>2. CASE Step(r, Idle) /\ UNCHANGED route
      BY <2>3, <2>4, <3>2 DEF Held
    <3>3. CASE Step(r, Idle) /\ route' = [route EXCEPT ![r].finalizer = TRUE]
      <4>1. Held(r) => Held(r)'
        BY <2>5, <3>3 DEF Held
      <4>2. QED
        BY <2>3, <2>4, <2>5, <3>3, <4>1
    <3>4. QED
      BY <2>1, <3>1, <3>2, <3>3
  <2>7. Kept'
    BY <2>1, <2>6, KeptFilling
  <2>8. BusyOK'
    <3>1. \A q \in Routes : job'[q] = IF q = r THEN j ELSE job[q]
      BY <2>6 DEF Step, KeptInv, HTTPInv, Jobs
    <3>2. \A q \in Routes \ {r} : Held(q) => Held(q)'
      BY <2>6 DEF Held
    <3>3. QED
      BY <2>6, <3>1, <3>2 DEF KeptInv, BusyOK
  <2>9. QED
    BY <2>7, <2>8
<1>3. QED
  BY <1>1, <1>2

-----------------------------------------------------------------------------
(* Listing the resources, a job takes care of all that are there under the *)
(* hostnames of its route.                                                 *)
LEMMA FindDoomedKept ==
  ASSUME KeptInv, NEW r \in Routes, FindDoomed(r)
  PROVE  BusyOK' /\ Kept'
<1> DEFINE names == Hostnames[r]
           next == [job[r] EXCEPT !.known = resource, !.hosts = names]
<1>1. Sound(r, job[r]) /\ Held(r)
  BY JobFacts DEF KeptInv, BusyOK, FindDoomed
<1>2. /\ UNCHANGED <<route, resource>>
      /\ \/ UNCHANGED faults /\ Step(r, EnterDoomed(next))
         \/ Fault /\ Step(r, EnterDoomed(job[r]))
  BY DEF FindDoomed, kube
<1>3. names \in Seq(HostsOf(r)) /\ Members(names) = HostsOf(r)
  BY HostsInOrder DEF Members, HostsOf
<1> HIDE DEF names
<1>4. /\ Shape(next) /\ next.rules = job[r].rules /\ next.hosts = names
      /\ next.known = resource
  BY <1>1 DEF Sound, Shape, JobFields
<1> HIDE DEF next
<1>5. Sound(r, next)
  BY <1>1, <1>3, <1>4 DEF Sound
<1>6. BusyOK'
  BY <1>1, <1>2, BusyStep
<1>7. CASE UNCHANGED faults /\ Step(r, EnterDoomed(next))
  <2> DEFINE j == EnterDoomed(next)
  <2>1. j.known = resource /\ j.hosts = FromFirstKnown(next)
    BY <1>4, <1>5, EnterDoomedOK
  <2> HIDE DEF j
  <2>2. Step(r, j)
    BY <1>7 DEF j
  <2>3. job'[r] = j
    BY <2>2 DEF Step, KeptInv, HTTPInv, Jobs
  <2>4. ASSUME NEW h \in Hosts, resource'[h].id # 0, Keeps(r, h)
        PROVE  Keeps(r, h)'
    <3>1. resource[h].id # 0 /\ h \in HostsOf(r)
      BY <1>2, <2>4 DEF Keeps
    <3>2. resource[h] # None
      BY <3>1 DEF None
    <3>3. h \in Members(FromFirstKnown(next))
      BY <1>3, <1>4, <1>5, <3>1, <3>2, FirstKnown DEF Sound
    <3>4. QED
      BY <1>1, <1>2, <2>1, <2>3, <3>1, <3>3 DEF Keeps, Cares, Held
  <2>5. Kept'
    BY <1>2, <1>7, <2>2, <2>4, KeptStep
  <2>6. QED
    BY <1>6, <2>5
<1>8. CASE Fault
  BY <1>6, <1>8, AfterFault
<1>9. QED
  BY <1>2, <1>7, <1>8

(* Going on with the next hostname, a job still takes care of whatever is  *)
(* not the resource it has put behind.                                     *)
LEMMA CaresOn ==
  ASSUME KeptInv, NEW r \in Routes, NEW j, Sound(r, j), AtDoomed(j),
         StepDoomed(r, NextDoomed(j)), NEW h, NEW id, id # 0,
         j.failed \/ (h \in Members(j.hosts) /\ j.known[h].id = id),
         j.failed \/ id # j.res
  PROVE  Cares(job'[r], h, id)
<1> DEFINE b == Behind(j)
           k == EnterDoomed(b)
<1>1. /\ Sound(r, b) /\ b.hosts = Tail(j.hosts) /\ b.failed = j.failed
      /\ b.known = j.known /\ NextDoomed(j) = k
  BY BehindOK DEF AtDoomed
<1>2. k.failed = j.failed /\ k.known = j.known /\ k.hosts = FromFirstKnown(b)
  BY <1>1, EnterDoomedOK
<1>3. job'[r] = IF k.pc = "idle" THEN Idle ELSE k
  <2> HIDE DEF k
  <2>1. Step(r, IF k.pc = "idle" THEN Idle ELSE k)
    BY <1>1 DEF StepDoomed
  <2>2. QED
    BY <2>1 DEF Step, KeptInv, HTTPInv, Jobs
<1>4. Idle.pc \notin Deleting
  BY DEF Idle, Deleting, Doomed
<1> HIDE DEF b, k
<1>5. CASE j.failed
  BY <1>2, <1>3, <1>4, <1>5 DEF Cares
<1>6. CASE ~j.failed
  <2>1. h \in Members(j.hosts) /\ j.known[h].id = id /\ h # Head(j.hosts)
    BY <1>6 DEF AtDoomed
  <2>2. h \in Members(b.hosts)
    <3>1. j.hosts \in Seq(HostsOf(r)) /\ j.hosts # <<>>
      BY DEF Sound, AtDoomed, AtHost
    <3>2. PICK i \in DOMAIN j.hosts : h = j.hosts[i]
      BY <2>1 DEF Members
    <3>3. /\ DOMAIN j.hosts = 1 .. Len(j.hosts) /\ Len(j.hosts) \in Nat
          /\ Tail(j.hosts) \in Seq(HostsOf(r)) /\ Len(Tail(j.hosts)) = Len(j.hosts) - 1
          /\ \A n \in 1 .. Len(Tail(j.hosts)) : Tail(j.hosts)[n] = j.hosts[n + 1]
      BY <3>1, LenProperties, HeadTailProperties
    <3>4. Head(j.hosts) = j.hosts[1]
      BY <3>1
    <3>5. i \in Nat /\ i > 1 /\ i <= Len(j.hosts)
      BY <2>1, <3>2, <3>3, <3>4
    <3>6. i - 1 \in 1 .. Len(Tail(j.hosts)) /\ Tail(j.hosts)[i - 1] = h
      BY <3>2, <3>3, <3>5
    <3>7. i - 1 \in DOMAIN Tail(j.hosts)
      BY <3>3, <3>6, LenProperties
    <3>8. QED
      BY <1>1, <3>6, <3>7 DEF Members
  <2>3. b.known[h] # None
    BY <1>1, <2>1 DEF None
  <2>4. h \in Members(k.hosts)
    BY <1>1, <1>2, <2>2, <2>3, FirstKnown DEF Sound
  <2>5. QED
    BY <1>2, <1>3, <1>4, <2>1, <2>4 DEF Cares
<1>7. QED
  BY <1>5, <1>6

(* Going on likewise, as a step of the route's job: the resource that is   *)
(* put behind is gone, unless the job has an error.                        *)
LEMMA KeptOn ==
  ASSUME KeptInv, NEW r \in Routes, NEW j, Sound(r, j), AtDoomed(j),
         StepDoomed(r, NextDoomed(j)), UNCHANGED <<route, faults>>, Held(r),
         j.failed \/ (j.hosts = job[r].hosts /\ j.known = job[r].known /\ ~job[r].failed),
         job[r].pc \in Deleting,
         \A h \in Hosts : resource'[h].id # 0 =>
           resource'[h].id = resource[h].id /\ (j.failed \/ resource[h].id # j.res)
  PROVE  Kept'
<1> DEFINE k == NextDoomed(j)
           next == IF k.pc = "idle" THEN Idle ELSE k
<1>1. Step(r, next)
  BY DEF StepDoomed
<1> HIDE DEF next
<1>2. ASSUME NEW h \in Hosts, resource'[h].id # 0, Keeps(r, h)
      PROVE  Keeps(r, h)'
  <2>1. j.failed \/ (h \in Members(j.hosts) /\ j.known[h].id = resource[h].id)
    BY <1>2 DEF Keeps, Cares
  <2>2. Cares(job'[r], h, resource[h].id)
    BY <1>2, <2>1, CaresOn
  <2>3. QED
    BY <1>2, <2>2 DEF Keeps, Held
<1>3. QED
  BY <1>1, <1>2, KeptStep

(* Deletion: listing the targets of a resource.  A hostname is passed over *)
(* if its resource is gone.                                                *)
LEMMA ListDoomedKept ==
  ASSUME KeptInv, NEW r \in Routes, ListDoomed(r)
  PROVE  BusyOK' /\ Kept'
<1> DEFINE found == TargetsOf(job[r].res)
           next == [job[r] EXCEPT !.pc = "deleteTargets", !.listed = found]
<1>1. /\ Sound(r, job[r]) /\ AtDoomed(job[r]) /\ Held(r)
      /\ job[r].pc = "listDoomed" /\ job[r].pc \in Deleting
  BY JobFacts DEF ListDoomed, JobOK, Deleting, Doomed, KeptInv, BusyOK
<1>2. /\ UNCHANGED <<route, resource>>
      /\ \/ Step(r, next) /\ UNCHANGED faults
         \/ /\ ~Exists(job[r].res) /\ UNCHANGED faults
            /\ StepDoomed(r, NextDoomed(job[r]))
         \/ Fault /\ StepDoomed(r, NextDoomed(job[r]))
  BY DEF ListDoomed, kube
<1>3. BusyOK'
  BY <1>1, <1>2, BusyStep DEF StepDoomed
<1>4. CASE Fault
  BY <1>3, <1>4, AfterFault
<1>5. CASE Step(r, next) /\ UNCHANGED faults
  <2> HIDE DEF found
  <2>1. /\ next.hosts = job[r].hosts /\ next.known = job[r].known
        /\ next.failed = job[r].failed
    BY <1>1 DEF Sound, Shape, JobFields
  <2> HIDE DEF next
  <2>2. job'[r] = next
    BY <1>5 DEF Step, KeptInv, HTTPInv, Jobs
  <2>3. \A h \in Hosts : Keeps(r, h) => Keeps(r, h)'
    BY <1>1, <1>2, <2>1, <2>2 DEF Keeps, Cares, Held
  <2>4. Kept'
    BY <1>2, <1>5, <2>3, KeptStep
  <2>5. QED
    BY <1>3, <2>4
<1>6. CASE /\ ~Exists(job[r].res) /\ UNCHANGED faults
           /\ StepDoomed(r, NextDoomed(job[r]))
  <2>1. \A h \in Hosts : resource[h].id # job[r].res
    BY <1>6 DEF Exists
  <2>2. Kept'
    BY <1>1, <1>2, <1>6, <2>1, KeptOn
  <2>3. QED
    BY <1>3, <2>2
<1>7. QED
  BY <1>2, <1>4, <1>5, <1>6

(* Deletion: deleting a target.  A job that cannot has an error.           *)
LEMMA DeleteTargetKept ==
  ASSUME KeptInv, NEW r \in Routes, DeleteTarget(r)
  PROVE  BusyOK' /\ Kept'
<1>1. /\ Shape(job[r]) /\ Held(r)
      /\ job[r].pc = "deleteTargets" /\ job[r].pc \in Deleting
  BY JobFacts DEF DeleteTarget, Deleting, Doomed, KeptInv, BusyOK
<1>2. /\ UNCHANGED <<route, resource>> /\ (Fault \/ UNCHANGED faults)
      /\ \E t : \/ Step(r, [job[r] EXCEPT !.listed = @ \ {t}])
                \/ Step(r, [job[r] EXCEPT !.listed = @ \ {t}, !.keep = @ \cup {t.id},
                                          !.failed = TRUE])
  BY DEF DeleteTarget, kube
<1>3. PICK t : \/ Step(r, [job[r] EXCEPT !.listed = @ \ {t}])
               \/ Step(r, [job[r] EXCEPT !.listed = @ \ {t}, !.keep = @ \cup {t.id},
                                         !.failed = TRUE])
  BY <1>2
<1> DEFINE left == job[r].listed \ {t}
           keep == job[r].keep \cup {t.id}
           next == [job[r] EXCEPT !.listed = left]
           error == [job[r] EXCEPT !.listed = left, !.keep = keep, !.failed = TRUE]
<1>4. Step(r, next) \/ Step(r, error)
  BY <1>3
<1> HIDE DEF left, keep
<1>5. /\ next.hosts = job[r].hosts /\ next.known = job[r].known
      /\ next.failed = job[r].failed /\ error.failed = TRUE
  BY <1>1 DEF Shape, JobFields
<1> HIDE DEF next, error
<1>6. PICK j \in {next, error} : Step(r, j)
  BY <1>4
<1>7. job'[r] = j
  BY <1>6 DEF Step, KeptInv, HTTPInv, Jobs
<1>8. \A h \in Hosts : Keeps(r, h) => Keeps(r, h)'
  BY <1>1, <1>2, <1>5, <1>6, <1>7 DEF Keeps, Cares, Held
<1>9. CASE Fault
  BY <1>1, <1>2, <1>6, <1>9, AfterFault, BusyStep
<1>10. CASE UNCHANGED faults
  BY <1>1, <1>2, <1>6, <1>8, <1>10, KeptStep, BusyStep
<1>11. QED
  BY <1>2, <1>9, <1>10

(* Deletion: deleting the resource, or not, since a target remains or it   *)
(* is gone; then the job has an error.                                     *)
LEMMA DeleteResourceKept ==
  ASSUME KeptInv, NEW r \in Routes, DeleteResource(r)
  PROVE  BusyOK' /\ Kept'
<1> DEFINE error == [job[r] EXCEPT !.failed = TRUE]
<1>1. /\ JobOK(r, job[r]) /\ Sound(r, job[r]) /\ Shape(job[r]) /\ Held(r)
      /\ job[r].pc = "deleteTargets" /\ job[r].pc \in Deleting
  BY JobFacts DEF DeleteResource, Deleting, Doomed, KeptInv, BusyOK
<1>2. AtDoomed(job[r])
  BY <1>1 DEF JobOK, Doomed
<1>3. /\ UNCHANGED route
      /\ \/ Fault /\ StepDoomed(r, NextDoomed(error))
         \/ /\ job[r].keep # {} /\ UNCHANGED <<resource, faults>>
            /\ StepDoomed(r, NextDoomed(job[r]))
         \/ /\ WithoutResource(job[r].res) /\ UNCHANGED faults
            /\ StepDoomed(r, NextDoomed(job[r]))
         \/ /\ UNCHANGED <<resource, faults>>
            /\ StepDoomed(r, NextDoomed(error))
  BY DEF DeleteResource, kube
<1>4. Sound(r, error) /\ AtDoomed(error) /\ error.failed = TRUE
  <2>1. JobOK(r, error)
    BY <1>1, DoomedSteps DEF KeptInv
  <2>2. error.pc = "deleteTargets" /\ error.failed = TRUE
    BY <1>1 DEF Shape, JobFields
  <2> HIDE DEF error
  <2>3. QED
    BY <2>1, <2>2 DEF JobOK, Doomed
<1> HIDE DEF error
<1>5. BusyOK'
  BY <1>1, <1>3, BusyStep DEF StepDoomed
<1>6. CASE Fault
  BY <1>5, <1>6, AfterFault
<1>7. CASE /\ job[r].keep # {} /\ UNCHANGED <<resource, faults>>
           /\ StepDoomed(r, NextDoomed(job[r]))
  <2>1. job[r].failed
    BY <1>2, <1>7 DEF AtDoomed
  <2>2. Kept'
    BY <1>1, <1>2, <1>3, <1>7, <2>1, KeptOn
  <2>3. QED
    BY <1>5, <2>2
<1>8. CASE /\ WithoutResource(job[r].res) /\ UNCHANGED faults
           /\ StepDoomed(r, NextDoomed(job[r]))
  <2>1. \A h \in Hosts : resource'[h] = IF resource[h].id = job[r].res THEN None
                                        ELSE resource[h]
    BY <1>8 DEF WithoutResource
  <2>2. None.id = 0
    BY DEF None
  <2>3. \A h \in Hosts : resource'[h].id # 0 =>
          resource'[h].id = resource[h].id /\ resource[h].id # job[r].res
    BY <2>1, <2>2
  <2>4. Kept'
    BY <1>1, <1>2, <1>3, <1>8, <2>3, KeptOn
  <2>5. QED
    BY <1>5, <2>4
<1>9. CASE /\ UNCHANGED <<resource, faults>>
           /\ StepDoomed(r, NextDoomed(error))
  <2>1. Kept'
    BY <1>1, <1>3, <1>4, <1>9, KeptOn
  <2>2. QED
    BY <1>5, <2>1
<1>10. QED
  BY <1>3, <1>6, <1>7, <1>8, <1>9

(* Deletion: dropping the finalizer, when nothing is left to take care of. *)
LEMMA DropFinalizerKept ==
  ASSUME KeptInv, NEW r \in Routes, DropFinalizer(r)
  PROVE  BusyOK' /\ Kept'
<1>1. /\ job[r].pc = "dropFinalizer" /\ ~job[r].failed /\ job[r].hosts = <<>>
      /\ job[r].pc \in Deleting
  BY JobFacts DEF DropFinalizer, KeptInv, JobOK, Deleting
<1>2. /\ UNCHANGED resource /\ Step(r, Idle) /\ (Fault \/ UNCHANGED faults)
      /\ \A q \in Routes \ {r} : UNCHANGED route[q]
  BY DEF DropFinalizer, Return, KeptInv, HTTPInv, RoutesOK
<1>3. \A h \in Hosts : ~Keeps(r, h)
  BY <1>1 DEF Keeps, Cares, Members
<1>4. BusyOK'
  <2>1. \A q \in Routes : job'[q] = IF q = r THEN Idle ELSE job[q]
    BY <1>2 DEF Step, KeptInv, HTTPInv, Jobs
  <2>2. Idle.pc = "idle"
    BY DEF Idle
  <2>3. QED
    BY <1>2, <2>1, <2>2 DEF KeptInv, BusyOK, Held
<1>5. CASE Fault
  BY <1>4, <1>5, AfterFault
<1>6. CASE UNCHANGED faults
  BY <1>2, <1>3, <1>4, <1>6, KeptStep
<1>7. QED
  BY <1>2, <1>5, <1>6

-----------------------------------------------------------------------------
(* The environment makes no resource, and no route with a finalizer goes   *)
(* but by the hand of its own job.                                         *)
LEMMA OutsideKept ==
  ASSUME KeptInv
  PROVE  /\ \A r \in Routes : Edit(r) \/ UserDeletes(r) => BusyOK' /\ Kept'
         /\ GatewayReconciles \/ Outsider \/ UNCHANGED vars => BusyOK' /\ Kept'
<1>1. \A q \in Routes :
        route[q] \in [exists : BOOLEAN, deleting : BOOLEAN, finalizer : BOOLEAN,
                      rules : Seq(Backend)]
  BY DEF KeptInv, HTTPInv, RoutesOK
<1>2. ASSUME NEW r \in Routes, Edit(r) PROVE BusyOK' /\ Kept'
  <2>1. PICK rules : route' = [route EXCEPT ![r].rules = rules]
    BY <1>2 DEF Edit
  <2>2. \A q \in Routes : /\ route'[q].exists = route[q].exists
                          /\ route'[q].finalizer = route[q].finalizer
    BY <1>1, <2>1 DEF KeptInv, HTTPInv, RoutesOK
  <2>3. UNCHANGED <<job, faults, resource>>
    BY <1>2 DEF Edit
  <2>4. QED
    BY <2>2, <2>3, KeptOutside DEF Held
<1>3. ASSUME NEW r \in Routes, UserDeletes(r) PROVE BusyOK' /\ Kept'
  <2>1. \/ route' = [route EXCEPT ![r].deleting = TRUE]
        \/ route' = [route EXCEPT ![r] = Gone] /\ ~route[r].finalizer
    BY <1>3 DEF UserDeletes
  <2>2. \A q \in Routes : Held(q) => Held(q)'
    BY <1>1, <2>1 DEF KeptInv, HTTPInv, RoutesOK, Held
  <2>3. UNCHANGED <<job, faults, resource>>
    BY <1>3 DEF UserDeletes, budget
  <2>4. QED
    BY <2>2, <2>3, KeptOutside
<1>4. CASE GatewayReconciles
  BY <1>4, KeptOutside DEF GatewayReconciles, budget, Held
<1>5. CASE Outsider
  <2>1. UNCHANGED <<job, faults, route>>
    BY <1>5 DEF Outsider, kube
  <2>2. UNCHANGED resource \/ \E id : WithoutResource(id)
    BY <1>5 DEF Outsider
  <2>3. \A h \in Hosts : resource'[h] \in {resource[h], None}
    BY <2>2 DEF WithoutResource
  <2>4. None.id = 0
    BY DEF None
  <2>5. QED
    BY <2>1, <2>3, <2>4, KeptOutside DEF Held
<1>6. CASE UNCHANGED vars
  BY <1>6, KeptOutside DEF vars, Held
<1>7. QED
  BY <1>2, <1>3, <1>4, <1>5, <1>6

(* Whatever is done, every resource has a route that answers for it. *)
LEMMA KeptSteps == KeptInv /\ [Next]_vars => KeptInv'
<1> SUFFICES ASSUME KeptInv, [Next]_vars PROVE BusyOK' /\ Kept'
  BY StepInv DEF KeptInv
<1>1. ASSUME NEW r \in Routes, Reconcile(r) PROVE BusyOK' /\ Kept'
  <2>1. CASE Read(r) \/ AddFinalizer(r)
    BY <2>1, BeginKept
  <2>2. CASE Filling(r)
    BY <2>2, FillingKept
  <2>3. CASE HandleDelete(r)
    BY <2>3, FindDoomedKept, ListDoomedKept, DeleteTargetKept, DeleteResourceKept,
       DropFinalizerKept DEF HandleDelete
  <2>4. QED
    BY <1>1, <2>1, <2>2, <2>3 DEF Reconcile, Filling
<1>2. CASE Crash
  <2>1. \A r \in Routes : job'[r].pc = "idle"
    BY <1>2 DEF Crash, Idle
  <2>2. BusyOK'
    BY <2>1 DEF BusyOK
  <2>3. Kept'
    BY <1>2, AfterFault DEF Crash
  <2>4. QED
    BY <2>2, <2>3
<1>3. QED
  BY <1>1, <1>2, OutsideKept DEF Next

(* When the last route is gone and no call has failed, nothing is left in  *)
(* Pangolin: no resource and no target, although routes that share a       *)
(* hostname share its resource, make it again when it is gone and delete   *)
(* it and its targets under each other's hands.                            *)
THEOREM CleanedUp == Spec => []NothingLeftBehind
<1>1. Init => KeptInv
  <2> SUFFICES ASSUME Init PROVE BusyOK /\ Kept
    BY InitInv DEF KeptInv
  <2>1. \A r \in Routes : job[r].pc = "idle"
    BY DEF Init, Idle
  <2>2. \A h \in Hosts : resource[h].id = 0
    BY DEF Init, None
  <2>3. QED
    BY <2>1, <2>2 DEF BusyOK, Kept
<1>2. KeptInv => NothingLeftBehind
  <2> SUFFICES ASSUME KeptInv, \A r \in Routes : ~route[r].exists, faults = MaxFaults
               PROVE  targets = {} /\ resource = [h \in Hosts |-> None]
    BY DEF NothingLeftBehind
  <2>1. \A h \in Hosts : resource[h].id = 0
    BY DEF KeptInv, Kept, Keeps, Held
  <2>2. resource = [h \in Hosts |-> None]
    BY <2>1 DEF KeptInv, HTTPInv, ResourceOK
  <2>3. \A t \in targets : FALSE
    BY <2>1 DEF KeptInv, HTTPInv, TargetsOK, Exists
  <2>4. QED
    BY <2>2, <2>3
<1>3. QED
  BY <1>1, <1>2, KeptSteps, PTL DEF Spec

-----------------------------------------------------------------------------
(* Deletion takes what the hostname's resource has, and no other.  The ids *)
(* a job knows were given out, and an id stands for one hostname only,     *)
(* since none is given out twice.                                          *)
Apart(k) ==
  /\ \A g \in Hosts : k[g].id \in 0 .. nextRes - 1
  /\ \A g, h \in Hosts : k[g].id = resource[h].id /\ k[g].id # 0 => g = h

ApartInv == HTTPInv /\ Apart(resource) /\ \A r \in Routes : Apart(job[r].known)

(* Resources that keep their ids, and go, leave what is known true. *)
LEMMA FewerApart ==
  ASSUME ApartInv, UNCHANGED nextRes,
         \A h \in Hosts : resource'[h].id \in {resource[h].id, 0}
  PROVE  Apart(resource)' /\ \A k : Apart(k) => Apart(k)'
<1>1. ASSUME NEW k, Apart(k) PROVE Apart(k)'
  BY <1>1 DEF Apart
<1>2. Apart(resource)'
  <2>1. ASSUME NEW g \in Hosts, NEW h \in Hosts,
               resource'[g].id = resource'[h].id, resource'[g].id # 0
        PROVE  g = h
    <3>1. resource[g].id = resource[h].id /\ resource[g].id # 0
      BY <2>1
    <3>2. QED
      BY <3>1 DEF ApartInv, Apart
  <2>2. \A g \in Hosts : resource'[g].id \in 0 .. nextRes' - 1
    BY DEF ApartInv, Apart, HTTPInv, ResourceOK
  <2>3. QED
    BY <2>1, <2>2 DEF Apart
<1>3. QED
  BY <1>1, <1>2

(* So does a new resource, whose id is new. *)
LEMMA OneMoreApart ==
  ASSUME ApartInv, NEW h \in Hosts, NewResource(h)
  PROVE  Apart(resource)' /\ \A k : Apart(k) => Apart(k)'
<1>1. /\ nextRes \in Nat \ {0} /\ nextRes' = nextRes + 1
      /\ resource \in [Hosts -> [id : 0 .. nextRes - 1, bare : BOOLEAN]]
  BY DEF ApartInv, HTTPInv, ResourceOK, NewResource
<1>2. \A g \in Hosts : resource'[g].id = IF g = h THEN nextRes ELSE resource[g].id
  BY <1>1 DEF NewResource
<1>3. ASSUME NEW k, Apart(k) PROVE Apart(k)'
  <2>1. \A g \in Hosts : k[g].id \in 0 .. nextRes - 1
    BY <1>3 DEF Apart
  <2>2. \A f, g \in Hosts : k[f].id = resource'[g].id /\ k[f].id # 0 => f = g
    BY <1>1, <1>2, <1>3, <2>1 DEF Apart
  <2>3. \A g \in Hosts : k[g].id \in 0 .. nextRes' - 1
    BY <1>1, <2>1
  <2>4. QED
    BY <2>2, <2>3 DEF Apart
<1>4. Apart(resource)'
  <2>1. \A g \in Hosts : resource[g].id \in 0 .. nextRes - 1
    BY DEF ApartInv, Apart
  <2>2. \A f, g \in Hosts : resource[f].id = resource[g].id /\ resource[f].id # 0 => f = g
    BY DEF ApartInv, Apart
  <2>3. \A f, g \in Hosts : resource'[f].id = resource'[g].id /\ resource'[f].id # 0 => f = g
    BY <1>1, <1>2, <2>1, <2>2
  <2>4. \A g \in Hosts : resource'[g].id \in 0 .. nextRes' - 1
    BY <1>1, <1>2, <2>1
  <2>5. QED
    BY <2>3, <2>4 DEF Apart
<1>5. QED
  BY <1>3, <1>4

(* Every step changes the resources in one of these two ways. *)
LEMMA ResourceSteps ==
  ASSUME HTTPInv, [Next]_vars
  PROVE  \/ \E h \in Hosts : NewResource(h)
         \/ UNCHANGED nextRes /\ \A h \in Hosts : resource'[h].id \in {resource[h].id, 0}
<1> DEFINE Fewer == UNCHANGED nextRes /\ \A h \in Hosts : resource'[h].id \in {resource[h].id, 0}
<1>1. ASSUME NEW id, WithoutResource(id), UNCHANGED nextRes PROVE Fewer
  <2>1. None.id = 0
    BY DEF None
  <2>2. QED
    BY <1>1, <2>1 DEF WithoutResource
<1>2. UNCHANGED <<resource, nextRes>> => Fewer
  OBVIOUS
<1> HIDE DEF Fewer
<1>3. ASSUME NEW r \in Routes, CreateResource(r) PROVE Fewer \/ \E h \in Hosts : NewResource(h)
  <2>1. job[r].pc \in WithHost
    BY <1>3 DEF CreateResource, WithHost
  <2>2. Head(job[r].hosts) \in Hosts
    BY <2>1, JobFacts, HeadTailProperties, HostsInOrder DEF JobOK, AtHost, Sound
  <2>3. NewResource(Head(job[r].hosts)) \/ UNCHANGED <<resource, nextRes>>
    BY <1>3 DEF CreateResource
  <2>4. QED
    BY <1>2, <2>2, <2>3
<1>4. ASSUME NEW r \in Routes, Configure(r) PROVE Fewer
  <2>1. UNCHANGED nextRes
    BY <1>4 DEF Configure
  <2>2. ASSUME NEW h \in Hosts PROVE resource'[h].id = resource[h].id
    <3>1. \/ UNCHANGED resource
          \/ resource'[h] = IF resource[h].id = job[r].res
                            THEN [resource[h] EXCEPT !.bare = FALSE] ELSE resource[h]
      BY <1>4 DEF Configure
    <3>2. resource[h] \in [id : 0 .. nextRes - 1, bare : BOOLEAN]
      BY DEF HTTPInv, ResourceOK
    <3>3. [resource[h] EXCEPT !.bare = FALSE].id = resource[h].id
      BY <3>2
    <3>4. QED
      BY <3>1, <3>3
  <2>3. QED
    BY <2>1, <2>2 DEF Fewer
<1>5. ASSUME NEW r \in Routes, DeleteResource(r) PROVE Fewer
  BY <1>1, <1>2, <1>5 DEF DeleteResource
<1>6. ASSUME Outsider PROVE Fewer
  BY <1>1, <1>2, <1>6 DEF Outsider
<1>7. ASSUME NEW r \in Routes, Reconcile(r), ~CreateResource(r), ~Configure(r),
             ~DeleteResource(r)
      PROVE  UNCHANGED <<resource, nextRes>>
  <2>1. CASE Read(r) \/ AddFinalizer(r) \/ Find(r) \/ Adopt(r) \/ ClearLabel(r)
    BY <2>1 DEF Read, AddFinalizer, Find, Adopt, ClearLabel, Refused
  <2>2. CASE ReconcileTargets(r)
    BY <2>2 DEF ReconcileTargets, ListTargets, Match, CreateTarget, Sweep, Refused
  <2>3. CASE FindDoomed(r) \/ ListDoomed(r) \/ DeleteTarget(r) \/ DropFinalizer(r)
    BY <2>3 DEF FindDoomed, ListDoomed, DeleteTarget, DropFinalizer
  <2>4. QED
    BY <1>7, <2>1, <2>2, <2>3 DEF Reconcile, HandleDelete
<1>8. ASSUME NEW r \in Routes, Edit(r) \/ UserDeletes(r) PROVE UNCHANGED <<resource, nextRes>>
  BY <1>8 DEF Edit, UserDeletes
<1>9. ASSUME GatewayReconciles \/ Crash \/ UNCHANGED vars
      PROVE  UNCHANGED <<resource, nextRes>>
  BY <1>9 DEF GatewayReconciles, Crash, vars
<1>10. Fewer \/ \E h \in Hosts : NewResource(h)
  BY <1>2, <1>3, <1>4, <1>5, <1>6, <1>7, <1>8, <1>9 DEF Next
<1>11. QED
  BY <1>10 DEF Fewer

(* Going on with a deletion, and ending it, add nothing to what is known. *)
LEMMA DoomedKnown ==
  ASSUME HTTPInv, NEW r \in Routes, HandleDelete(r)
  PROVE  \E j : Step(r, j) /\ j.known \in {job[r].known, resource, Idle.known}
<1>1. Sound(r, job[r]) /\ Shape(job[r])
  BY JobFacts
<1>2. ASSUME NEW j, Sound(r, j), AtHost(j), j.known = job[r].known,
             StepDoomed(r, NextDoomed(j))
      PROVE  \E k : Step(r, k) /\ k.known \in {job[r].known, Idle.known}
  <2> DEFINE k == NextDoomed(j)
  <2>1. k.known = job[r].known
    BY <1>2, BehindOK, EnterDoomedOK
  <2>2. Step(r, IF k.pc = "idle" THEN Idle ELSE k)
    BY <1>2 DEF StepDoomed
  <2> HIDE DEF k
  <2>3. QED
    BY <2>1, <2>2
<1>3. CASE FindDoomed(r)
  <2> DEFINE names == Hostnames[r]
             next == [job[r] EXCEPT !.known = resource, !.hosts = names]
  <2>1. Step(r, EnterDoomed(next)) \/ Step(r, EnterDoomed(job[r]))
    BY <1>3 DEF FindDoomed
  <2>2. names \in Seq(HostsOf(r))
    BY HostsInOrder
  <2> HIDE DEF names
  <2>3. /\ Shape(next) /\ next.rules = job[r].rules /\ next.hosts = names
        /\ next.known = resource
    BY <1>1 DEF Sound, Shape, JobFields
  <2> HIDE DEF next
  <2>4. EnterDoomed(next).known = resource /\ EnterDoomed(job[r]).known = job[r].known
    BY <1>1, <2>2, <2>3, EnterDoomedOK DEF Sound
  <2>5. QED
    BY <2>1, <2>4
<1>4. CASE ListDoomed(r)
  <2> DEFINE found == TargetsOf(job[r].res)
             next == [job[r] EXCEPT !.pc = "deleteTargets", !.listed = found]
  <2>1. Step(r, next) \/ StepDoomed(r, NextDoomed(job[r]))
    BY <1>4 DEF ListDoomed
  <2>2. AtHost(job[r])
    BY <1>4, JobFacts DEF ListDoomed, JobOK, Doomed, AtDoomed
  <2> HIDE DEF found
  <2>3. next.known = job[r].known
    BY <1>1 DEF Shape, JobFields
  <2> HIDE DEF next
  <2>4. QED
    BY <1>1, <1>2, <2>1, <2>2, <2>3
<1>5. CASE DeleteTarget(r)
  <2>1. PICK t : \/ Step(r, [job[r] EXCEPT !.listed = @ \ {t}])
                 \/ Step(r, [job[r] EXCEPT !.listed = @ \ {t}, !.keep = @ \cup {t.id},
                                           !.failed = TRUE])
    BY <1>5 DEF DeleteTarget
  <2> DEFINE left == job[r].listed \ {t}
             keep == job[r].keep \cup {t.id}
             next == [job[r] EXCEPT !.listed = left]
             error == [job[r] EXCEPT !.listed = left, !.keep = keep, !.failed = TRUE]
  <2>2. Step(r, next) \/ Step(r, error)
    BY <2>1
  <2> HIDE DEF left, keep
  <2>3. next.known = job[r].known /\ error.known = job[r].known
    BY <1>1 DEF Shape, JobFields
  <2> HIDE DEF next, error
  <2>4. QED
    BY <2>2, <2>3
<1>6. CASE DeleteResource(r)
  <2> DEFINE error == [job[r] EXCEPT !.failed = TRUE]
  <2>1. StepDoomed(r, NextDoomed(job[r])) \/ StepDoomed(r, NextDoomed(error))
    BY <1>6 DEF DeleteResource
  <2>2. AtHost(job[r])
    BY <1>6, JobFacts DEF DeleteResource, JobOK, Doomed, AtDoomed
  <2>3. /\ Shape(error) /\ error.rules = job[r].rules /\ error.hosts = job[r].hosts
        /\ error.known = job[r].known
    BY <1>1 DEF Shape, JobFields
  <2> HIDE DEF error
  <2>4. Sound(r, error) /\ AtHost(error)
    BY <1>1, <2>2, <2>3 DEF Sound, AtHost
  <2>5. QED
    BY <1>1, <1>2, <2>1, <2>2, <2>3, <2>4
<1>7. CASE DropFinalizer(r)
  BY <1>7 DEF DropFinalizer, Return
<1>8. QED
  BY <1>3, <1>4, <1>5, <1>6, <1>7 DEF HandleDelete

(* What a job knows of the resources is what it knew, what there is, or    *)
(* nothing.                                                                *)
LEMMA KnownSteps ==
  ASSUME HTTPInv, [Next]_vars, NEW q \in Routes
  PROVE  job'[q].known \in {job[q].known, resource, Idle.known}
<1>1. ASSUME NEW r \in Routes, Reconcile(r)
      PROVE  \E j : Step(r, j) /\ j.known \in {job[r].known, resource, Idle.known}
  <2>1. CASE Read(r)
    <3> DEFINE call == IF route[r].deleting THEN "findDoomed"
                       ELSE IF route[r].finalizer THEN "find" ELSE "addFinalizer"
               rules == route[r].rules
               next == [Idle EXCEPT !.pc = call, !.rules = rules]
    <3>1. Step(r, next)
      BY <2>1 DEF Read
    <3> HIDE DEF call, rules
    <3>2. next.known = Idle.known
      BY DEF Idle
    <3> HIDE DEF next
    <3>3. QED
      BY <3>1, <3>2
  <2>2. CASE AddFinalizer(r)
    <3> DEFINE rules == route[r].rules
               next == [job[r] EXCEPT !.pc = "find", !.rules = rules]
    <3>1. Step(r, next) \/ Step(r, Idle)
      BY <2>2 DEF AddFinalizer, Return
    <3> HIDE DEF rules
    <3>2. next.known = job[r].known
      BY JobFacts DEF Shape, JobFields
    <3> HIDE DEF next
    <3>3. QED
      BY <3>1, <3>2
  <2>3. CASE Filling(r)
    BY <2>3, FillingStep DEF GoesOn
  <2>4. CASE HandleDelete(r)
    BY <2>4, DoomedKnown
  <2>5. QED
    BY <1>1, <2>1, <2>2, <2>3, <2>4 DEF Reconcile, Filling
<1>2. ASSUME NEW r \in Routes, Reconcile(r)
      PROVE  job'[q].known \in {job[q].known, resource, Idle.known}
  <2>1. PICK j : Step(r, j) /\ j.known \in {job[r].known, resource, Idle.known}
    BY <1>1, <1>2
  <2>2. job'[q] = IF q = r THEN j ELSE job[q]
    BY <2>1 DEF Step, HTTPInv, Jobs
  <2>3. QED
    BY <2>1, <2>2
<1>3. CASE Crash
  BY <1>3 DEF Crash
<1>4. CASE \/ \E r \in Routes : Edit(r) \/ UserDeletes(r)
           \/ GatewayReconciles \/ Outsider \/ UNCHANGED vars
  BY <1>4 DEF Edit, UserDeletes, GatewayReconciles, Outsider, vars
<1>5. QED
  BY <1>2, <1>3, <1>4 DEF Next

(* So an id always stands for one hostname. *)
LEMMA ApartSteps == ApartInv /\ [Next]_vars => ApartInv'
<1> SUFFICES ASSUME ApartInv, [Next]_vars PROVE ApartInv'
  OBVIOUS
<1>1. Apart(resource)' /\ \A k : Apart(k) => Apart(k)'
  BY ResourceSteps, FewerApart, OneMoreApart DEF ApartInv
<1>2. Apart(Idle.known)
  <2>1. \A g \in Hosts : Idle.known[g].id = 0
    BY DEF Idle, None
  <2>2. QED
    BY <2>1 DEF Apart, ApartInv, HTTPInv, ResourceOK
<1>3. ASSUME NEW q \in Routes PROVE Apart(job[q].known)'
  <2>1. job'[q].known \in {job[q].known, resource, Idle.known}
    BY KnownSteps DEF ApartInv
  <2>2. Apart(job'[q].known)
    BY <1>2, <2>1 DEF ApartInv
  <2>3. QED
    BY <1>1, <2>2
<1>4. QED
  BY <1>1, <1>3, StepInv DEF ApartInv

(* Deletion takes away targets of the hostnames of the route only. *)
LEMMA DeletionTakesOwn ==
  ASSUME ApartInv, NEW q \in Routes, HandleDelete(q), NEW t \in targets \ targets',
         NEW h \in Hosts, t.res = resource[h].id
  PROVE  h \in HostsOf(q)
<1>1. t.res # 0
  BY DEF ApartInv, HTTPInv, TargetsOK
<1>2. DeleteTarget(q) \/ DeleteResource(q)
  BY DEF HandleDelete, FindDoomed, ListDoomed, DropFinalizer
<1>3. job[q].pc = "deleteTargets" /\ "deleteTargets" \in Doomed
  BY <1>2 DEF DeleteTarget, DeleteResource, Doomed
<1>4. /\ Sound(q, job[q]) /\ AtDoomed(job[q])
      /\ \A u \in job[q].listed : u.res = job[q].res
  BY <1>3, JobFacts DEF ApartInv, JobOK
<1>5. t.res = job[q].res
  <2>1. CASE DeleteTarget(q)
    BY <1>4, <2>1 DEF DeleteTarget
  <2>2. CASE DeleteResource(q)
    BY <2>2 DEF DeleteResource, WithoutResource, TargetsOf
  <2>3. QED
    BY <1>2, <2>1, <2>2
<1>6. Head(job[q].hosts) \in HostsOf(q) /\ Head(job[q].hosts) \in Hosts
  BY <1>4, HeadTailProperties, HostsInOrder DEF Sound, AtDoomed, AtHost
<1>7. Head(job[q].hosts) = h
  BY <1>1, <1>4, <1>5, <1>6 DEF AtDoomed, ApartInv, Apart
<1>8. QED
  BY <1>6, <1>7

(* Routes that share no hostname are not harmed by each other's deletion:  *)
(* it takes no target away that carries another route's traffic, however   *)
(* old the list of resources is that the deletion goes by.                 *)
THEOREM NeighboursSurvive == ASSUME OwnHosts PROVE Spec => NeighbourSurvivesDeletion
<1> DEFINE Unharmed ==
      \A q \in Routes : HandleDelete(q) =>
        \A t \in targets \ targets', r \in Routes \ {q} : ~Carries(t, r)
<1>1. Init => ApartInv
  <2> SUFFICES ASSUME Init PROVE Apart(resource) /\ \A r \in Routes : Apart(job[r].known)
    BY InitInv DEF ApartInv
  <2>1. \A h \in Hosts : resource[h].id = 0 /\ \A r \in Routes : job[r].known[h].id = 0
    BY DEF Init, Idle, None
  <2>2. nextRes = 1
    BY DEF Init
  <2>3. QED
    BY <2>1, <2>2 DEF Apart
<1>2. ApartInv /\ [Next]_vars => [Unharmed]_vars
  <2> SUFFICES ASSUME ApartInv, NEW q \in Routes, HandleDelete(q),
                      NEW t \in targets \ targets', NEW r \in Routes \ {q}, Carries(t, r)
               PROVE  FALSE
    OBVIOUS
  <2>1. PICK h \in HostsOf(r) : t.res = resource[h].id
    BY DEF Carries
  <2>2. h \in Hosts
    BY <2>1, HostsInOrder
  <2>3. h \in HostsOf(q)
    BY <2>1, <2>2, DeletionTakesOwn
  <2>4. QED
    BY <2>1, <2>3 DEF OwnHosts
<1>3. QED
  BY <1>1, <1>2, ApartSteps, PTL DEF Spec, NeighbourSurvivesDeletion
=============================================================================
