----------------------------- MODULE ZoneSearch -----------------------------
(***************************************************************************)
(* WhichVCandDCByZone of pkg/common/connectionmanager/zones.go: the place  *)
(* (vCenter and datacenter) that supports a zone of a region.              *)
(*                                                                         *)
(* One vCenter with one datacenter is answered without a search.           *)
(* Otherwise the tags of the clusters and their ancestors are searched by  *)
(* a producer, a channel and PoolSize workers; when that ends in any       *)
(* error, the same machinery is run over the tags of the hosts.            *)
(***************************************************************************)
EXTENDS Naturals, Sequences, FiniteSets

CONSTANTS VC, DC,
          Inventory,        \* [VC -> SUBSET DC]: the datacenters there are
          Datacenters,      \* [VC -> SUBSET DC]: Cfg.Datacenters, {} for ""
          Cluster, Host,    \* [VC \X DC -> SUBSET Object]
          Object,           \* clusters and hosts
          TagMaps,          \* tag assignments: [Object \cup VC \X DC -> Seq(Tag)]
          InstanceMaps,     \* the VsphereInstanceMaps to start from
          Name,             \* tag names
          Fold,             \* [Name -> Name]: case folding
          ZoneLooking, RegionLooking,
          Worker, QueueSize, NumConnectionAttempts,
          None

Tag == [category : {"zone", "region", "other"}, name : Name]

ASSUME ZoneConfigAssumption ==
    /\ Inventory \in [VC -> SUBSET DC] /\ \A v \in VC : IsFiniteSet(Inventory[v])
    /\ Datacenters \in [VC -> SUBSET DC]
    /\ Cluster \in [VC \X DC -> SUBSET Object]
    /\ Host \in [VC \X DC -> SUBSET Object]
    /\ TagMaps \subseteq [Object \cup (VC \X DC) -> Seq(Tag)]
    /\ InstanceMaps \subseteq SUBSET VC /\ \A m \in InstanceMaps : IsFiniteSet(m)
    /\ Fold \in [Name -> Name] /\ ZoneLooking \in Name /\ RegionLooking \in Name

ASSUME ZonePoolAssumption ==
    /\ Worker # {}
    /\ QueueSize \in Nat /\ QueueSize > 0
    /\ NumConnectionAttempts \in Nat /\ NumConnectionAttempts > 0

ASSUME ZoneNoneAssumption ==
    None \notin VC \cup DC \cup (VC \X DC) \cup ((VC \X DC) \X Object) \cup Name

VARIABLES
    given,      \* are labels, zone and region non-empty
    instances,  \* the keys of VsphereInstanceMap
    tags,       \* environment: the tags attached to each object
    client,     \* does the connection of a single vCenter hold a client
    result,     \* what the call returned
    phase,      \* "single", "count", "only", "cluster", "host" or "done"
    ppc, todo, vc, attempts, pending,   \* the producer, as in module Search
    dc,         \* the datacenter it is at
    objs,       \* the clusters or hosts of dc still to be sent
    queue, wpc, job, found, info, globalErr,
    reached,    \* history: the vCenters connected to in this search
    missed,     \* history: the cluster phase ended in a recorded error
    muted       \* history: what could not be read without leaving an error

callvars == <<given, instances, tags, result, phase>>
prodvars == <<ppc, todo, vc, attempts, pending, dc, objs>>
poolvars == <<queue, wpc, job, found, info>>
errvars  == <<globalErr, missed, muted>>
vars == <<callvars, client, prodvars, poolvars, errvars, reached>>

Wanted(v) == IF Datacenters[v] = {} THEN Inventory[v] ELSE Datacenters[v]
Targets   == {p \in VC \X DC : p[1] \in instances /\ p[2] \in Wanted(p[1])}

Pending  == [kind |-> "pending", place |-> None]
Error    == [kind |-> "error", place |-> None]
NoZone   == [kind |-> "nozone", place |-> None]
Panic    == [kind |-> "panic", place |-> None]
Place(p) == [kind |-> "found", place |-> p]

-----------------------------------------------------------------------------
(* LookupZoneByMoref: the tags of the object and, with checkAncestors, of  *)
(* its ancestors (the datacenter stands for all of them), nearest first.   *)

(* Mutant of ReadTag: the second category is not looked at. *)
ReadZoneOnly(r, t) ==
    IF r.zone # None THEN r
    ELSE IF t.category = "zone" THEN [zone |-> t.name, region |-> RegionLooking] ELSE r

(* A later tag of a category replaces an earlier one until both are known. *)
ReadTag(r, t) ==
    IF r.zone # None /\ r.region # None THEN r
    ELSE IF t.category \in {"zone", "region"} THEN [r EXCEPT ![t.category] = t.name]
    ELSE r

LookupZoneByMoref(chain) ==
    LET read[n \in 0..Len(chain)] ==
          IF n = 0 THEN [zone |-> None, region |-> None]
                   ELSE ReadTag(read[n - 1], chain[n])
    IN  read[Len(chain)]

(* A category without a tag is an error. *)
Known(r) == r.zone # None /\ r.region # None

(* strings.EqualFold on both names. *)
Matches(r) == /\ Known(r)
              /\ Fold[r.zone] = Fold[ZoneLooking]
              /\ Fold[r.region] = Fold[RegionLooking]

ClusterTags(p, c) == tags[c] \o tags[p]
HostTags(h) == tags[h]

ClusterSupports(p, c) == Matches(LookupZoneByMoref(ClusterTags(p, c)))

-----------------------------------------------------------------------------
(* The entry: no vCenter is an error, one is looked at, several are        *)
(* searched.  A search without labels, zone and region is an error.        *)
Init ==
    /\ given \in BOOLEAN /\ instances \in InstanceMaps /\ tags \in TagMaps
    /\ client \in (IF Cardinality(instances) = 1 THEN BOOLEAN ELSE {FALSE})
    /\ LET several == Cardinality(instances) > 1 IN
       /\ result = IF instances = {} \/ (several /\ ~given) THEN Error ELSE Pending
       /\ phase = IF result # Pending THEN "done"
                  ELSE IF several THEN "cluster" ELSE "single"
    /\ ppc = IF phase = "cluster" THEN "range" ELSE "none"
    /\ todo = instances
    /\ vc = None /\ attempts = 0 /\ pending = {} /\ dc = None /\ objs = {}
    /\ queue = <<>>
    /\ wpc = [w \in Worker |-> IF phase = "cluster" THEN "range" ELSE "done"]
    /\ job = [w \in Worker |-> None]
    /\ found = FALSE /\ info = None /\ globalErr = FALSE
    /\ reached = {} /\ missed = FALSE /\ muted = {}

-----------------------------------------------------------------------------
(* getDIFromSingleVC. *)

SingleConnectOK ==
    /\ phase = "single"
    /\ phase' = "count" /\ client' = TRUE /\ reached' = instances
    /\ UNCHANGED <<given, instances, tags, result, prodvars, poolvars, errvars>>

(* A failed login leaves no client.  The error of the last attempt is      *)
(* overwritten by the next call.                                           *)
SingleConnectFail ==
    /\ phase = "single"
    /\ attempts' = attempts + 1
    /\ client' \in {client, FALSE}
    /\ phase' = IF attempts' < NumConnectionAttempts THEN phase ELSE "count"
    /\ UNCHANGED <<given, instances, tags, result, ppc, todo, vc, pending, dc, objs,
                   poolvars, errvars, reached>>

(* The finder of either request dereferences a nil client. *)
ClientPanics ==
    /\ phase \in {"count", "only"} /\ ~client
    /\ result' = Panic /\ phase' = "done"
    /\ UNCHANGED <<given, instances, tags, client, prodvars, poolvars, errvars, reached>>

CountFails ==
    /\ phase = "count" /\ client
    /\ result' = Error /\ phase' = "done"
    /\ UNCHANGED <<given, instances, tags, client, prodvars, poolvars, errvars, reached>>

(* GetNumberOfDatacenters: one datacenter is the answer, several are       *)
(* searched.  No datacenter is an error of the finder (CountFails).        *)
CountOne ==
    /\ phase = "count" /\ client
    /\ \E v \in instances : Cardinality(Inventory[v]) = 1
    /\ phase' = "only"
    /\ UNCHANGED <<given, instances, tags, result, client, prodvars, poolvars,
                   errvars, reached>>

CountSeveral ==
    /\ phase = "count" /\ client
    /\ \E v \in instances : Cardinality(Inventory[v]) > 1
    /\ IF given
         THEN /\ phase' = "cluster" /\ ppc' = "range"
              /\ wpc' = [w \in Worker |-> "range"] /\ UNCHANGED result
         ELSE /\ phase' = "done" /\ result' = Error /\ UNCHANGED <<ppc, wpc>>
    /\ attempts' = 0 /\ reached' = {}
    /\ UNCHANGED <<given, instances, tags, client, todo, vc, pending, dc, objs, queue,
                   job, found, info, errvars>>

(* GetAllDatacenter and its first element, whatever zone is looked for. *)
OnlyOne ==
    /\ phase = "only" /\ client
    /\ \/ result' = Error
       \/ \E v \in instances, d \in DC : d \in Inventory[v] /\ result' = Place(<<v, d>>)
    /\ phase' = "done"
    /\ UNCHANGED <<given, instances, tags, client, prodvars, poolvars, errvars, reached>>

Single == \/ SingleConnectOK \/ SingleConnectFail \/ ClientPanics \/ CountFails
          \/ CountOne \/ CountSeveral \/ OnlyOne

(* The connection is shared: a login of another goroutine, which finds the *)
(* session ended, leaves a client or none.                                 *)
OthersConnect ==
    /\ phase \in {"single", "count", "only"}
    /\ client' = ~client
    /\ UNCHANGED <<callvars, prodvars, poolvars, errvars, reached>>

-----------------------------------------------------------------------------
(* The producer of getDIFromMultiVCorDCNonVM (phase "cluster") and of      *)
(* getDIFromMultiVCorDCVM (phase "host").                                  *)

NextVC ==
    /\ ppc = "range" /\ ~found
    /\ \E v \in todo : vc' = v /\ todo' = todo \ {v}
    /\ attempts' = 0 /\ ppc' = "connect"
    /\ UNCHANGED <<callvars, client, pending, dc, objs, poolvars, errvars, reached>>

(* Mutant of Close: the break out of the loop is a return that skips close. *)
CloseSkipped ==
    /\ ppc = "range" /\ (todo = {} \/ found)
    /\ ppc' = IF found THEN "none" ELSE "closed"
    /\ UNCHANGED <<callvars, client, todo, vc, attempts, pending, dc, objs, poolvars,
                   errvars, reached>>

Close ==
    /\ ppc = "range" /\ (todo = {} \/ found)
    /\ ppc' = "closed"
    /\ UNCHANGED <<callvars, client, todo, vc, attempts, pending, dc, objs, poolvars,
                   errvars, reached>>

ConnectOK ==
    /\ ppc = "connect"
    /\ ppc' = "resolve" /\ reached' = reached \cup {vc}
    /\ UNCHANGED <<callvars, client, todo, vc, attempts, pending, dc, objs, poolvars,
                   errvars>>

ConnectFail ==
    /\ ppc = "connect"
    /\ attempts' = attempts + 1
    /\ IF attempts' < NumConnectionAttempts
         THEN UNCHANGED <<ppc, globalErr>>
         ELSE ppc' = "range" /\ globalErr' = TRUE
    /\ UNCHANGED <<callvars, client, todo, vc, pending, dc, objs, poolvars, missed,
                   muted, reached>>

ResolveAll ==
    /\ ppc = "resolve" /\ Datacenters[vc] = {}
    /\ \/ /\ Inventory[vc] # {} /\ pending' = Inventory[vc]
          /\ ppc' = "dcs" /\ UNCHANGED globalErr
       \/ ppc' = "range" /\ globalErr' = TRUE /\ UNCHANGED pending
    /\ UNCHANGED <<callvars, client, todo, vc, attempts, dc, objs, poolvars, missed,
                   muted, reached>>

ResolveNames ==
    /\ ppc = "resolve" /\ Datacenters[vc] # {}
    /\ pending' \in SUBSET (Datacenters[vc] \cap Inventory[vc])
    /\ globalErr' = (globalErr \/ pending' # Datacenters[vc])
    /\ ppc' = "dcs"
    /\ UNCHANGED <<callvars, client, todo, vc, attempts, dc, objs, poolvars, missed,
                   muted, reached>>

NextDC ==
    /\ ppc = "dcs" /\ ~found
    /\ \E d \in pending : dc' = d /\ pending' = pending \ {d}
    /\ ppc' = "list"
    /\ UNCHANGED <<callvars, client, todo, vc, attempts, objs, poolvars, errvars, reached>>

LastDC ==
    /\ ppc = "dcs" /\ (pending = {} \/ found)
    /\ ppc' = "range" /\ pending' = {}
    /\ UNCHANGED <<callvars, client, todo, vc, attempts, dc, objs, poolvars, errvars,
                   reached>>

(* Mutant of ListClusters: a list that fails is only logged. *)
ListClustersSilent ==
    /\ ppc = "list" /\ phase # "host"
    /\ \/ /\ Cluster[<<vc, dc>>] # {} /\ objs' = Cluster[<<vc, dc>>] /\ ppc' = "send"
       \/ ppc' = "dcs" /\ UNCHANGED objs
    /\ UNCHANGED <<callvars, client, todo, vc, attempts, pending, dc, poolvars, errvars,
                   reached>>

(* ClusterComputeResourceList: a datacenter without a cluster is an error  *)
(* of the finder, and like any other it is recorded ...                    *)
ListClusters ==
    /\ ppc = "list" /\ phase # "host"
    /\ \/ /\ Cluster[<<vc, dc>>] # {} /\ objs' = Cluster[<<vc, dc>>]
          /\ ppc' = "send" /\ UNCHANGED globalErr
       \/ ppc' = "dcs" /\ globalErr' = TRUE /\ UNCHANGED objs
    /\ UNCHANGED <<callvars, client, todo, vc, attempts, pending, dc, poolvars, missed,
                   muted, reached>>

(* ... whereas a failing HostSystemList is only logged. *)
ListHosts ==
    /\ ppc = "list" /\ phase = "host"
    /\ \/ /\ Host[<<vc, dc>>] # {} /\ objs' = Host[<<vc, dc>>]
          /\ ppc' = "send" /\ UNCHANGED muted
       \/ /\ ppc' = "dcs" /\ muted' = muted \cup ({<<vc, dc>>} \X Host[<<vc, dc>>])
          /\ UNCHANGED objs
    /\ UNCHANGED <<callvars, client, todo, vc, attempts, pending, dc, poolvars,
                   globalErr, missed, reached>>

(* Nothing looks at the found flag between the sends of one datacenter. *)
Send ==
    /\ ppc = "send" /\ Len(queue) < QueueSize
    /\ \E o \in objs : /\ queue' = Append(queue, <<<<vc, dc>>, o>>)
                       /\ objs' = objs \ {o}
    /\ UNCHANGED <<callvars, client, ppc, todo, vc, attempts, pending, dc, wpc, job,
                   found, info, errvars, reached>>

LastSend ==
    /\ ppc = "send" /\ objs = {}
    /\ ppc' = "dcs"
    /\ UNCHANGED <<callvars, client, todo, vc, attempts, pending, dc, objs, poolvars,
                   errvars, reached>>

Producer == \/ NextVC \/ Close \/ ConnectOK \/ ConnectFail \/ ResolveAll
            \/ ResolveNames \/ NextDC \/ LastDC \/ ListClusters \/ ListHosts
            \/ Send \/ LastSend

-----------------------------------------------------------------------------
(* A worker. *)

Receive(w) ==
    /\ wpc[w] = "range" /\ queue # <<>>
    /\ job' = [job EXCEPT ![w] = Head(queue)]
    /\ queue' = Tail(queue)
    /\ wpc' = [wpc EXCEPT ![w] = "lookup"]
    /\ UNCHANGED <<callvars, client, prodvars, found, info, errvars, reached>>

(* Mutant of Done: an empty channel is taken for a closed one. *)
DoneEarly(w) ==
    /\ wpc[w] = "range" /\ queue = <<>>
    /\ wpc' = [wpc EXCEPT ![w] = "done"]
    /\ UNCHANGED <<callvars, client, prodvars, queue, job, found, info, errvars, reached>>

Done(w) ==
    /\ wpc[w] = "range" /\ queue = <<>> /\ ppc = "closed"
    /\ wpc' = [wpc EXCEPT ![w] = "done"]
    /\ UNCHANGED <<callvars, client, prodvars, queue, job, found, info, errvars, reached>>

(* A cluster of the zone and region: its place is stored, then the flag is *)
(* set, and the worker leaves its loop.                                    *)
ClusterHit(w) ==
    /\ wpc[w] = "lookup" /\ phase = "cluster"
    /\ ClusterSupports(job[w][1], job[w][2])
    /\ info' = job[w][1] /\ found' = TRUE
    /\ wpc' = [wpc EXCEPT ![w] = "done"]
    /\ UNCHANGED <<callvars, client, prodvars, queue, job, errvars, reached>>

(* Other names, or a category without a tag: continue. *)
ClusterMiss(w) ==
    /\ wpc[w] = "lookup" /\ phase = "cluster"
    /\ ~ClusterSupports(job[w][1], job[w][2])
    /\ wpc' = [wpc EXCEPT ![w] = "range"]
    /\ UNCHANGED <<callvars, client, prodvars, queue, job, found, info, errvars, reached>>

(* A login, ancestor or tag call that fails is logged, never recorded. *)
ClusterMuted(w) ==
    /\ wpc[w] = "lookup" /\ phase = "cluster"
    /\ wpc' = [wpc EXCEPT ![w] = "range"]
    /\ muted' = muted \cup {job[w]}
    /\ UNCHANGED <<callvars, client, prodvars, queue, job, found, info, globalErr,
                   missed, reached>>

(* The test of the error is inverted: a host whose tags were read is       *)
(* skipped, and one that failed has no names, which match nothing.         *)
HostSkipped(w) ==
    /\ wpc[w] = "lookup" /\ phase = "host"
    /\ wpc' = [wpc EXCEPT ![w] = "range"]
    /\ muted' \in {muted, muted \cup {job[w]}}
    /\ UNCHANGED <<callvars, client, prodvars, queue, job, found, info, globalErr,
                   missed, reached>>

WorkerStep(w) == \/ Receive(w) \/ Done(w) \/ ClusterHit(w) \/ ClusterMiss(w)
                 \/ ClusterMuted(w) \/ HostSkipped(w)

-----------------------------------------------------------------------------
(* wg.Wait has returned. *)
Joined == \A w \in Worker : wpc[w] = "done"

EndClustersFound ==
    /\ phase = "cluster" /\ Joined /\ found
    /\ result' = Place(info) /\ phase' = "done"
    /\ UNCHANGED <<given, instances, tags, client, prodvars, poolvars, errvars, reached>>

(* ErrNoZoneRegionFound or a recorded error alike start the search of the  *)
(* hosts, with variables of its own; the error is dropped.                 *)
EndClusters ==
    /\ phase = "cluster" /\ Joined /\ ~found
    /\ phase' = "host" /\ ppc' = "range" /\ todo' = instances
    /\ pending' = {} /\ objs' = {} /\ queue' = <<>>
    /\ wpc' = [w \in Worker |-> "range"]
    /\ globalErr' = FALSE /\ missed' = globalErr /\ reached' = {}
    /\ UNCHANGED <<given, instances, tags, result, client, vc, attempts, dc, job,
                   found, info, muted>>

EndHosts ==
    /\ phase = "host" /\ Joined
    /\ result' = IF found THEN Place(info) ELSE IF globalErr THEN Error ELSE NoZone
    /\ phase' = "done"
    /\ UNCHANGED <<given, instances, tags, client, prodvars, poolvars, errvars, reached>>

Caller == Single \/ EndClustersFound \/ EndClusters \/ EndHosts

Next == Caller \/ Producer \/ (\E w \in Worker : WorkerStep(w)) \/ OthersConnect

(* Fairness: every goroutine that can run does, and remote calls return. *)
Fairness == /\ WF_vars(Caller) /\ WF_vars(Producer)
            /\ \A w \in Worker : WF_vars(WorkerStep(w))

Spec     == Init /\ [][Next]_vars
FairSpec == Spec /\ Fairness

-----------------------------------------------------------------------------
(* Properties. *)

Jobs == (VC \X DC) \X Object

TypeOK ==
    /\ given \in BOOLEAN /\ instances \in SUBSET VC /\ tags \in TagMaps
    /\ client \in BOOLEAN
    /\ result \in {Pending, Error, NoZone, Panic} \cup {Place(p) : p \in VC \X DC}
    /\ phase \in {"single", "count", "only", "cluster", "host", "done"}
    /\ ppc \in {"none", "range", "connect", "resolve", "dcs", "list", "send", "closed"}
    /\ todo \in SUBSET VC /\ vc \in VC \cup {None} /\ dc \in DC \cup {None}
    /\ attempts \in 0..NumConnectionAttempts
    /\ pending \in SUBSET DC /\ objs \in SUBSET Object
    /\ queue \in Seq(Jobs) /\ Len(queue) <= QueueSize
    /\ wpc \in [Worker -> {"range", "lookup", "done"}]
    /\ job \in [Worker -> Jobs \cup {None}]
    /\ found \in BOOLEAN /\ info \in (VC \X DC) \cup {None}
    /\ globalErr \in BOOLEAN /\ missed \in BOOLEAN
    /\ reached \in SUBSET VC /\ muted \in SUBSET Jobs

(* Does a chain of tags say that its object is in the zone and region?  A  *)
(* declarative reference for LookupZoneByMoref: of the shortest prefix     *)
(* that has both categories, the last tag of each counts.                  *)
Says(chain, n, category, name) ==
    \E i \in 1..n : /\ chain[i].category = category /\ Fold[chain[i].name] = Fold[name]
                    /\ \A k \in i+1..n : chain[k].category # category

Both(chain, n) ==
    \A category \in {"zone", "region"} : \E i \in 1..n : chain[i].category = category

Carries(chain) ==
    \E n \in 1..Len(chain) : /\ Both(chain, n) /\ ~Both(chain, n - 1)
                             /\ Says(chain, n, "zone", ZoneLooking)
                             /\ Says(chain, n, "region", RegionLooking)

(* A place that is returned is configured and has a cluster of the zone    *)
(* and region, whichever of several racing workers stored its place last;  *)
(* the only datacenter of the only vCenter needs neither                   *)
(* (zones.go:292-305, 120-125).                                            *)
ZoneFoundJustified ==
    result.kind = "found" =>
       LET p == result.place IN
       \/ Cardinality(instances) = 1 /\ Inventory[p[1]] = {p[2]}
       \/ p \in Targets /\ \E c \in Cluster[p] : Carries(ClusterTags(p, c))

(* "No such zone" is said only if every vCenter was reached by the second  *)
(* search and no cluster of a configured datacenter carries the zone,      *)
(* except for clusters whose tags could not be read and for a first search *)
(* that failed: neither leaves a trace (zones.go:287-290, 140-151).        *)
NoZoneJustified ==
    result.kind = "nozone" =>
       /\ reached = instances
       /\ missed \/ \A p \in Targets : \A c \in Cluster[p] :
                       Carries(ClusterTags(p, c)) => <<p, c>> \in muted

(* The doc of WhichVCandDCByZone, zones.go:50: it gets the VC+DC combo     *)
(* that supports the zone.  So when nothing at all has failed, "no such    *)
(* zone" means that no cluster and no host carries it.                     *)
SupportedZoneFound ==
    result.kind = "nozone" /\ ~missed /\ muted = {} =>
       \A p \in Targets : /\ \A c \in Cluster[p] : ~Carries(ClusterTags(p, c))
                          /\ \A h \in Host[p] : ~Carries(HostTags(h))

(* The call returns, whatever fails (zones.go:310, 475). *)
ZoneLookupReturns == <>(phase = "done")

(* The producers end too, unless as many clusters carry the zone as there  *)
(* are workers: then all workers may leave and strand the first producer   *)
(* in a send (zones.go:268).                                               *)
ZoneProducerEnds ==
    <>(\/ phase = "done" /\ ppc \in {"none", "closed"}
       \/ Cardinality({j \in Jobs : /\ j[1] \in Targets /\ j[2] \in Cluster[j[1]]
                                    /\ Carries(ClusterTags(j[1], j[2]))}) >= Cardinality(Worker))
=============================================================================
