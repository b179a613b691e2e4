-------------------------- MODULE ZoneSearchProofs --------------------------
(***************************************************************************)
(* Machine-checked facts about module ZoneSearch, for every configuration, *)
(* inventory, tag assignment, pool size and channel capacity.              *)
(***************************************************************************)
EXTENDS ZoneTagsProofs, FiniteSetTheorems

-----------------------------------------------------------------------------
(* The inductive invariant. *)

(* Before a search there are no goroutines and one vCenter is configured.  *)
SingleInv ==
    /\ phase \in {"single", "count", "only"} =>
         /\ Cardinality(instances) = 1 /\ ppc = "none"
         /\ \A w \in Worker : wpc[w] = "done"
         /\ ~found /\ queue = <<>>
    /\ phase = "single" => reached = {} /\ attempts < NumConnectionAttempts
    /\ IsFiniteSet(instances)
    /\ phase = "only" => \A v \in instances : \E d \in DC : Inventory[v] = {d}
    /\ phase # "done" => result = Pending
    /\ result = Panic => Cardinality(instances) = 1 /\ ppc = "none"

(* What the producer holds at its control points. *)
ZoneProducerInv ==
    /\ todo \subseteq instances
    /\ ppc \in {"connect", "resolve", "dcs", "list", "send"} => vc \in instances
    /\ ppc = "connect" => attempts < NumConnectionAttempts
    /\ ppc \in {"dcs", "list", "send"} => pending \subseteq Wanted(vc)
    /\ ppc \in {"list", "send"} => dc \in Wanted(vc)
    /\ ppc = "send" /\ phase = "cluster" => objs \subseteq Cluster[<<vc, dc>>]

(* The first search hands only clusters of configured places to workers,   *)
(* and the place that was stored is one of them.                           *)
ClusterJobs  == {j \in Jobs : j[1] \in Targets /\ j[2] \in Cluster[j[1]]}
Supported(p) == p \in Targets /\ \E c \in Cluster[p] : ClusterSupports(p, c)

PlaceInv ==
    /\ phase = "cluster" => queue \in Seq(ClusterJobs)
    /\ \A w \in Worker : wpc[w] = "lookup" => job[w] \in Jobs
    /\ \A w \in Worker : wpc[w] = "lookup" /\ phase = "cluster" => job[w] \in ClusterJobs
    /\ found => Supported(info)
    /\ phase = "host" => ~found

(* A place that is returned is configured and has a cluster whose tags, as *)
(* LookupZoneByMoref reads them, name the zone and region; the only        *)
(* vCenter may be answered with its datacenter whatever the tags           *)
(* (zones.go:292-305, 120-125).                                            *)
PlaceSupported ==
    result.kind = "found" =>
       \/ Cardinality(instances) = 1 /\ Inventory[result.place[1]] = {result.place[2]}
       \/ Supported(result.place)

ZoneInv == TypeOK /\ SingleInv /\ ZoneProducerInv /\ PlaceInv /\ PlaceSupported

-----------------------------------------------------------------------------
(* What a send does to the sequence that stands for the channel. *)
LEMMA ZoneAppendFacts ==
    ASSUME NEW S, NEW s \in Seq(S), NEW e \in S
    PROVE  /\ Append(s, e) \in Seq(S)
           /\ Len(s) \in Nat /\ Len(Append(s, e)) = Len(s) + 1
    OBVIOUS

(* SingleConnectOK preserves every part of the invariant. *)
LEMMA SingleConnectOKKeeps ==
    ASSUME ZoneInv, SingleConnectOK
    PROVE  ZoneInv'
<1> USE DEF SingleConnectOK, callvars, prodvars, poolvars, errvars
<1>1. TypeOK'
    BY ZoneConfigAssumption, ZonePoolAssumption
       DEF ZoneInv, TypeOK, SingleInv, ZoneProducerInv, PlaceInv
<1>2. SingleInv'
    BY ZonePoolAssumption
       DEF ZoneInv, TypeOK, SingleInv, Pending, Error, NoZone, Panic, Place
<1>3. ZoneProducerInv'
    BY ZoneConfigAssumption, ZonePoolAssumption
       DEF ZoneInv, TypeOK, SingleInv, ZoneProducerInv, Wanted
<1>4. PlaceInv'
    BY DEF ZoneInv, TypeOK, SingleInv, PlaceInv, ClusterJobs, Supported, Targets,
       ClusterSupports, ClusterTags
<1>5. PlaceSupported'
    BY DEF ZoneInv, TypeOK, SingleInv, PlaceSupported, Supported, Targets,
       ClusterSupports, ClusterTags, Pending, Error, NoZone, Panic, Place
<1> QED
    BY <1>1, <1>2, <1>3, <1>4, <1>5 DEF ZoneInv

(* SingleConnectFail preserves every part of the invariant. *)
LEMMA SingleConnectFailKeeps ==
    ASSUME ZoneInv, SingleConnectFail
    PROVE  ZoneInv'
<1> USE DEF SingleConnectFail, callvars, prodvars, poolvars, errvars
<1>1. TypeOK'
    <2>1. attempts \in 0..NumConnectionAttempts /\ attempts < NumConnectionAttempts
        BY DEF ZoneInv, TypeOK, SingleInv
    <2>2. attempts' \in 0..NumConnectionAttempts
        BY <2>1, ZonePoolAssumption
    <2>3. client' \in BOOLEAN /\ phase' \in {"single", "count"}
        BY Zenon DEF ZoneInv, TypeOK
    <2> QED
        BY <2>2, <2>3 DEF ZoneInv, TypeOK
<1>2. SingleInv'
    BY ZonePoolAssumption
       DEF ZoneInv, TypeOK, SingleInv, Pending, Error, NoZone, Panic, Place
<1>3. ZoneProducerInv'
    BY ZoneConfigAssumption, ZonePoolAssumption
       DEF ZoneInv, TypeOK, SingleInv, ZoneProducerInv, Wanted
<1>4. PlaceInv'
    BY DEF ZoneInv, TypeOK, SingleInv, PlaceInv, ClusterJobs, Supported, Targets,
       ClusterSupports, ClusterTags
<1>5. PlaceSupported'
    BY DEF ZoneInv, TypeOK, SingleInv, PlaceSupported, Supported, Targets,
       ClusterSupports, ClusterTags, Pending, Error, NoZone, Panic, Place
<1> QED
    BY <1>1, <1>2, <1>3, <1>4, <1>5 DEF ZoneInv

(* ClientPanics preserves every part of the invariant. *)
LEMMA ClientPanicsKeeps ==
    ASSUME ZoneInv, ClientPanics
    PROVE  ZoneInv'
<1> USE DEF ClientPanics, callvars, prodvars, poolvars, errvars
<1>1. TypeOK'
    BY ZoneConfigAssumption, ZonePoolAssumption
       DEF ZoneInv, TypeOK, SingleInv, ZoneProducerInv, PlaceInv
<1>2. SingleInv'
    BY ZonePoolAssumption
       DEF ZoneInv, TypeOK, SingleInv, Pending, Error, NoZone, Panic, Place
<1>3. ZoneProducerInv'
    BY ZoneConfigAssumption, ZonePoolAssumption
       DEF ZoneInv, TypeOK, SingleInv, ZoneProducerInv, Wanted
<1>4. PlaceInv'
    BY DEF ZoneInv, TypeOK, SingleInv, PlaceInv, ClusterJobs, Supported, Targets,
       ClusterSupports, ClusterTags
<1>5. PlaceSupported'
    BY DEF ZoneInv, TypeOK, SingleInv, PlaceSupported, Supported, Targets,
       ClusterSupports, ClusterTags, Pending, Error, NoZone, Panic, Place
<1> QED
    BY <1>1, <1>2, <1>3, <1>4, <1>5 DEF ZoneInv

(* CountFails preserves every part of the invariant. *)
LEMMA CountFailsKeeps ==
    ASSUME ZoneInv, CountFails
    PROVE  ZoneInv'
<1> USE DEF CountFails, callvars, prodvars, poolvars, errvars
<1>1. TypeOK'
    BY ZoneConfigAssumption, ZonePoolAssumption
       DEF ZoneInv, TypeOK, SingleInv, ZoneProducerInv, PlaceInv
<1>2. SingleInv'
    BY ZonePoolAssumption
       DEF ZoneInv, TypeOK, SingleInv, Pending, Error, NoZone, Panic, Place
<1>3. ZoneProducerInv'
    BY ZoneConfigAssumption, ZonePoolAssumption
       DEF ZoneInv, TypeOK, SingleInv, ZoneProducerInv, Wanted
<1>4. PlaceInv'
    BY DEF ZoneInv, TypeOK, SingleInv, PlaceInv, ClusterJobs, Supported, Targets,
       ClusterSupports, ClusterTags
<1>5. PlaceSupported'
    BY DEF ZoneInv, TypeOK, SingleInv, PlaceSupported, Supported, Targets,
       ClusterSupports, ClusterTags, Pending, Error, NoZone, Panic, Place
<1> QED
    BY <1>1, <1>2, <1>3, <1>4, <1>5 DEF ZoneInv

(* CountOne preserves every part of the invariant. *)
LEMMA CountOneKeeps ==
    ASSUME ZoneInv, CountOne
    PROVE  ZoneInv'
<1> USE DEF CountOne, callvars, prodvars, poolvars, errvars
<1>1. TypeOK'
    BY ZoneConfigAssumption, ZonePoolAssumption
       DEF ZoneInv, TypeOK, SingleInv, ZoneProducerInv, PlaceInv
<1>2. SingleInv'
    <2>1. IsFiniteSet(instances) /\ Cardinality(instances) = 1
        BY DEF ZoneInv, SingleInv
    <2>2. PICK v \in instances : Cardinality(Inventory[v]) = 1
        OBVIOUS
    <2>3. instances = {v}
        BY <2>1, <2>2, FS_Singleton
    <2>4. \E d \in DC : Inventory[v] = {d}
        <3>1. v \in VC /\ Inventory[v] \subseteq DC /\ IsFiniteSet(Inventory[v])
            BY ZoneConfigAssumption DEF ZoneInv, TypeOK
        <3> QED
            BY <2>2, <3>1, FS_Singleton
    <2> QED
        BY <2>3, <2>4, ZonePoolAssumption
           DEF ZoneInv, TypeOK, SingleInv, Pending, Error, NoZone, Panic, Place
<1>3. ZoneProducerInv'
    BY ZoneConfigAssumption, ZonePoolAssumption
       DEF ZoneInv, TypeOK, SingleInv, ZoneProducerInv, Wanted
<1>4. PlaceInv'
    BY DEF ZoneInv, TypeOK, SingleInv, PlaceInv, ClusterJobs, Supported, Targets,
       ClusterSupports, ClusterTags
<1>5. PlaceSupported'
    BY DEF ZoneInv, TypeOK, SingleInv, PlaceSupported, Supported, Targets,
       ClusterSupports, ClusterTags, Pending, Error, NoZone, Panic, Place
<1> QED
    BY <1>1, <1>2, <1>3, <1>4, <1>5 DEF ZoneInv

(* CountSeveral preserves every part of the invariant. *)
LEMMA CountSeveralKeeps ==
    ASSUME ZoneInv, CountSeveral
    PROVE  ZoneInv'
<1> USE DEF CountSeveral, callvars, prodvars, poolvars, errvars
<1>1. TypeOK'
    BY ZoneConfigAssumption, ZonePoolAssumption
       DEF ZoneInv, TypeOK, SingleInv, ZoneProducerInv, PlaceInv
<1>2. SingleInv'
    BY ZonePoolAssumption
       DEF ZoneInv, TypeOK, SingleInv, Pending, Error, NoZone, Panic, Place
<1>3. ZoneProducerInv'
    BY ZoneConfigAssumption, ZonePoolAssumption
       DEF ZoneInv, TypeOK, SingleInv, ZoneProducerInv, Wanted
<1>4. PlaceInv'
    BY DEF ZoneInv, TypeOK, SingleInv, PlaceInv, ClusterJobs, Supported, Targets,
       ClusterSupports, ClusterTags
<1>5. PlaceSupported'
    BY DEF ZoneInv, TypeOK, SingleInv, PlaceSupported, Supported, Targets,
       ClusterSupports, ClusterTags, Pending, Error, NoZone, Panic, Place
<1> QED
    BY <1>1, <1>2, <1>3, <1>4, <1>5 DEF ZoneInv

(* OnlyOne preserves every part of the invariant. *)
LEMMA OnlyOneKeeps ==
    ASSUME ZoneInv, OnlyOne
    PROVE  ZoneInv'
<1> USE DEF OnlyOne, callvars, prodvars, poolvars, errvars
<1>1. TypeOK'
    BY ZoneConfigAssumption, ZonePoolAssumption
       DEF ZoneInv, TypeOK, SingleInv, ZoneProducerInv, PlaceInv
<1>2. SingleInv'
    BY ZonePoolAssumption
       DEF ZoneInv, TypeOK, SingleInv, Pending, Error, NoZone, Panic, Place
<1>3. ZoneProducerInv'
    BY ZoneConfigAssumption, ZonePoolAssumption
       DEF ZoneInv, TypeOK, SingleInv, ZoneProducerInv, Wanted
<1>4. PlaceInv'
    BY DEF ZoneInv, TypeOK, SingleInv, PlaceInv, ClusterJobs, Supported, Targets,
       ClusterSupports, ClusterTags
<1>5. PlaceSupported'
    <2>1. CASE result' = Error
        BY <2>1 DEF PlaceSupported, Error
    <2>2. ASSUME NEW v \in instances, NEW d \in DC, d \in Inventory[v],
                 result' = Place(<<v, d>>)
          PROVE  PlaceSupported'
        <3>1. result'.place[1] = v /\ result'.place[2] = d
            BY <2>2 DEF Place
        <3>2. Inventory[v] = {d} /\ Cardinality(instances) = 1
            BY <2>2 DEF ZoneInv, SingleInv
        <3> QED
            BY <3>1, <3>2 DEF PlaceSupported
    <2> QED
        BY <2>1, <2>2
<1> QED
    BY <1>1, <1>2, <1>3, <1>4, <1>5 DEF ZoneInv

(* OthersConnect preserves every part of the invariant. *)
LEMMA OthersConnectKeeps ==
    ASSUME ZoneInv, OthersConnect
    PROVE  ZoneInv'
<1> USE DEF OthersConnect, callvars, prodvars, poolvars, errvars
<1>1. TypeOK'
    BY ZoneConfigAssumption, ZonePoolAssumption
       DEF ZoneInv, TypeOK, SingleInv, ZoneProducerInv, PlaceInv
<1>2. SingleInv'
    BY ZonePoolAssumption
       DEF ZoneInv, TypeOK, SingleInv, Pending, Error, NoZone, Panic, Place
<1>3. ZoneProducerInv'
    BY ZoneConfigAssumption, ZonePoolAssumption
       DEF ZoneInv, TypeOK, SingleInv, ZoneProducerInv, Wanted
<1>4. PlaceInv'
    BY DEF ZoneInv, TypeOK, SingleInv, PlaceInv, ClusterJobs, Supported, Targets,
       ClusterSupports, ClusterTags
<1>5. PlaceSupported'
    BY DEF ZoneInv, TypeOK, SingleInv, PlaceSupported, Supported, Targets,
       ClusterSupports, ClusterTags, Pending, Error, NoZone, Panic, Place
<1> QED
    BY <1>1, <1>2, <1>3, <1>4, <1>5 DEF ZoneInv

(* NextVC preserves every part of the invariant. *)
LEMMA NextVCKeeps ==
    ASSUME ZoneInv, NextVC
    PROVE  ZoneInv'
<1> USE DEF NextVC, callvars, prodvars, poolvars, errvars
<1>1. TypeOK'
    BY ZoneConfigAssumption, ZonePoolAssumption
       DEF ZoneInv, TypeOK, SingleInv, ZoneProducerInv, PlaceInv
<1>2. SingleInv'
    BY ZonePoolAssumption
       DEF ZoneInv, TypeOK, SingleInv, Pending, Error, NoZone, Panic, Place
<1>3. ZoneProducerInv'
    BY ZoneConfigAssumption, ZonePoolAssumption
       DEF ZoneInv, TypeOK, SingleInv, ZoneProducerInv, Wanted
<1>4. PlaceInv'
    BY DEF ZoneInv, TypeOK, SingleInv, PlaceInv, ClusterJobs, Supported, Targets,
       ClusterSupports, ClusterTags
<1>5. PlaceSupported'
    BY DEF ZoneInv, TypeOK, SingleInv, PlaceSupported, Supported, Targets,
       ClusterSupports, ClusterTags, Pending, Error, NoZone, Panic, Place
<1> QED
    BY <1>1, <1>2, <1>3, <1>4, <1>5 DEF ZoneInv

(* Close preserves every part of the invariant. *)
LEMMA CloseKeeps ==
    ASSUME ZoneInv, Close
    PROVE  ZoneInv'
<1> USE DEF Close, callvars, prodvars, poolvars, errvars
<1>1. TypeOK'
    BY ZoneConfigAssumption, ZonePoolAssumption
       DEF ZoneInv, TypeOK, SingleInv, ZoneProducerInv, PlaceInv
<1>2. SingleInv'
    BY ZonePoolAssumption
       DEF ZoneInv, TypeOK, SingleInv, Pending, Error, NoZone, Panic, Place
<1>3. ZoneProducerInv'
    BY ZoneConfigAssumption, ZonePoolAssumption
       DEF ZoneInv, TypeOK, SingleInv, ZoneProducerInv, Wanted
<1>4. PlaceInv'
    BY DEF ZoneInv, TypeOK, SingleInv, PlaceInv, ClusterJobs, Supported, Targets,
       ClusterSupports, ClusterTags
<1>5. PlaceSupported'
    BY DEF ZoneInv, TypeOK, SingleInv, PlaceSupported, Supported, Targets,
       ClusterSupports, ClusterTags, Pending, Error, NoZone, Panic, Place
<1> QED
    BY <1>1, <1>2, <1>3, <1>4, <1>5 DEF ZoneInv

(* ConnectOK preserves every part of the invariant. *)
LEMMA ConnectOKKeeps ==
    ASSUME ZoneInv, ConnectOK
    PROVE  ZoneInv'
<1> USE DEF ConnectOK, callvars, prodvars, poolvars, errvars
<1>1. TypeOK'
    BY ZoneConfigAssumption, ZonePoolAssumption
       DEF ZoneInv, TypeOK, SingleInv, ZoneProducerInv, PlaceInv
<1>2. SingleInv'
    BY ZonePoolAssumption
       DEF ZoneInv, TypeOK, SingleInv, Pending, Error, NoZone, Panic, Place
<1>3. ZoneProducerInv'
    BY ZoneConfigAssumption, ZonePoolAssumption
       DEF ZoneInv, TypeOK, SingleInv, ZoneProducerInv, Wanted
<1>4. PlaceInv'
    BY DEF ZoneInv, TypeOK, SingleInv, PlaceInv, ClusterJobs, Supported, Targets,
       ClusterSupports, ClusterTags
<1>5. PlaceSupported'
    BY DEF ZoneInv, TypeOK, SingleInv, PlaceSupported, Supported, Targets,
       ClusterSupports, ClusterTags, Pending, Error, NoZone, Panic, Place
<1> QED
    BY <1>1, <1>2, <1>3, <1>4, <1>5 DEF ZoneInv

(* ConnectFail preserves every part of the invariant. *)
LEMMA ConnectFailKeeps ==
    ASSUME ZoneInv, ConnectFail
    PROVE  ZoneInv'
<1> USE DEF ConnectFail, callvars, prodvars, poolvars, errvars
<1>1. TypeOK'
    <2>1. attempts \in 0..NumConnectionAttempts /\ attempts < NumConnectionAttempts
        BY DEF ZoneInv, TypeOK, ZoneProducerInv
    <2>2. attempts' \in 0..NumConnectionAttempts
        BY <2>1, ZonePoolAssumption
    <2>3. ppc' \in {"connect", "range"} /\ globalErr' \in BOOLEAN
        BY Zenon DEF ZoneInv, TypeOK
    <2> QED
        BY <2>2, <2>3 DEF ZoneInv, TypeOK
<1>2. SingleInv'
    BY ZonePoolAssumption
       DEF ZoneInv, TypeOK, SingleInv, Pending, Error, NoZone, Panic, Place
<1>3. ZoneProducerInv'
    BY ZoneConfigAssumption, ZonePoolAssumption
       DEF ZoneInv, TypeOK, SingleInv, ZoneProducerInv, Wanted
<1>4. PlaceInv'
    BY DEF ZoneInv, TypeOK, SingleInv, PlaceInv, ClusterJobs, Supported, Targets,
       ClusterSupports, ClusterTags
<1>5. PlaceSupported'
    BY DEF ZoneInv, TypeOK, SingleInv, PlaceSupported, Supported, Targets,
       ClusterSupports, ClusterTags, Pending, Error, NoZone, Panic, Place
<1> QED
    BY <1>1, <1>2, <1>3, <1>4, <1>5 DEF ZoneInv

(* ResolveAll preserves every part of the invariant. *)
LEMMA ResolveAllKeeps ==
    ASSUME ZoneInv, ResolveAll
    PROVE  ZoneInv'
<1> USE DEF ResolveAll, callvars, prodvars, poolvars, errvars
<1>1. TypeOK'
    <2>1. vc \in VC
        BY ZoneConfigAssumption DEF ZoneInv, TypeOK, ZoneProducerInv
    <2>2. Inventory[vc] \subseteq DC
        BY <2>1, ZoneConfigAssumption
    <2>3. pending' \in SUBSET DC /\ ppc' \in {"dcs", "range"} /\ globalErr' \in BOOLEAN
        BY <2>2 DEF ZoneInv, TypeOK
    <2> QED
        BY <2>3 DEF ZoneInv, TypeOK
<1>2. SingleInv'
    BY ZonePoolAssumption
       DEF ZoneInv, TypeOK, SingleInv, Pending, Error, NoZone, Panic, Place
<1>3. ZoneProducerInv'
    BY ZoneConfigAssumption, ZonePoolAssumption
       DEF ZoneInv, TypeOK, SingleInv, ZoneProducerInv, Wanted
<1>4. PlaceInv'
    BY DEF ZoneInv, TypeOK, SingleInv, PlaceInv, ClusterJobs, Supported, Targets,
       ClusterSupports, ClusterTags
<1>5. PlaceSupported'
    BY DEF ZoneInv, TypeOK, SingleInv, PlaceSupported, Supported, Targets,
       ClusterSupports, ClusterTags, Pending, Error, NoZone, Panic, Place
<1> QED
    BY <1>1, <1>2, <1>3, <1>4, <1>5 DEF ZoneInv

(* ResolveNames preserves every part of the invariant. *)
LEMMA ResolveNamesKeeps ==
    ASSUME ZoneInv, ResolveNames
    PROVE  ZoneInv'
<1> USE DEF ResolveNames, callvars, prodvars, poolvars, errvars
<1>1. TypeOK'
    BY ZoneConfigAssumption, ZonePoolAssumption
       DEF ZoneInv, TypeOK, SingleInv, ZoneProducerInv, PlaceInv
<1>2. SingleInv'
    BY ZonePoolAssumption
       DEF ZoneInv, TypeOK, SingleInv, Pending, Error, NoZone, Panic, Place
<1>3. ZoneProducerInv'
    BY ZoneConfigAssumption, ZonePoolAssumption
       DEF ZoneInv, TypeOK, SingleInv, ZoneProducerInv, Wanted
<1>4. PlaceInv'
    BY DEF ZoneInv, TypeOK, SingleInv, PlaceInv, ClusterJobs, Supported, Targets,
       ClusterSupports, ClusterTags
<1>5. PlaceSupported'
    BY DEF ZoneInv, TypeOK, SingleInv, PlaceSupported, Supported, Targets,
       ClusterSupports, ClusterTags, Pending, Error, NoZone, Panic, Place
<1> QED
    BY <1>1, <1>2, <1>3, <1>4, <1>5 DEF ZoneInv

(* NextDC preserves every part of the invariant. *)
LEMMA NextDCKeeps ==
    ASSUME ZoneInv, NextDC
    PROVE  ZoneInv'
<1> USE DEF NextDC, callvars, prodvars, poolvars, errvars
<1>1. TypeOK'
    BY ZoneConfigAssumption, ZonePoolAssumption
       DEF ZoneInv, TypeOK, SingleInv, ZoneProducerInv, PlaceInv
<1>2. SingleInv'
    BY ZonePoolAssumption
       DEF ZoneInv, TypeOK, SingleInv, Pending, Error, NoZone, Panic, Place
<1>3. ZoneProducerInv'
    BY ZoneConfigAssumption, ZonePoolAssumption
       DEF ZoneInv, TypeOK, SingleInv, ZoneProducerInv, Wanted
<1>4. PlaceInv'
    BY DEF ZoneInv, TypeOK, SingleInv, PlaceInv, ClusterJobs, Supported, Targets,
       ClusterSupports, ClusterTags
<1>5. PlaceSupported'
    BY DEF ZoneInv, TypeOK, SingleInv, PlaceSupported, Supported, Targets,
       ClusterSupports, ClusterTags, Pending, Error, NoZone, Panic, Place
<1> QED
    BY <1>1, <1>2, <1>3, <1>4, <1>5 DEF ZoneInv

(* LastDC preserves every part of the invariant. *)
LEMMA LastDCKeeps ==
    ASSUME ZoneInv, LastDC
    PROVE  ZoneInv'
<1> USE DEF LastDC, callvars, prodvars, poolvars, errvars
<1>1. TypeOK'
    BY ZoneConfigAssumption, ZonePoolAssumption
       DEF ZoneInv, TypeOK, SingleInv, ZoneProducerInv, PlaceInv
<1>2. SingleInv'
    BY ZonePoolAssumption
       DEF ZoneInv, TypeOK, SingleInv, Pending, Error, NoZone, Panic, Place
<1>3. ZoneProducerInv'
    BY ZoneConfigAssumption, ZonePoolAssumption
       DEF ZoneInv, TypeOK, SingleInv, ZoneProducerInv, Wanted
<1>4. PlaceInv'
    BY DEF ZoneInv, TypeOK, SingleInv, PlaceInv, ClusterJobs, Supported, Targets,
       ClusterSupports, ClusterTags
<1>5. PlaceSupported'
    BY DEF ZoneInv, TypeOK, SingleInv, PlaceSupported, Supported, Targets,
       ClusterSupports, ClusterTags, Pending, Error, NoZone, Panic, Place
<1> QED
    BY <1>1, <1>2, <1>3, <1>4, <1>5 DEF ZoneInv

(* ListClusters preserves every part of the invariant. *)
LEMMA ListClustersKeeps ==
    ASSUME ZoneInv, ListClusters
    PROVE  ZoneInv'
<1> USE DEF ListClusters, callvars, prodvars, poolvars, errvars
<1>1. TypeOK'
    <2>1. vc \in VC /\ dc \in DC
        BY ZoneConfigAssumption DEF ZoneInv, TypeOK, ZoneProducerInv, Wanted
    <2>2. <<vc, dc>> \in VC \X DC /\ Cluster[<<vc, dc>>] \subseteq Object
        BY <2>1, ZoneConfigAssumption
    <2>3. objs' \in SUBSET Object /\ ppc' \in {"send", "dcs"}
        BY <2>2 DEF ZoneInv, TypeOK
    <2>4. globalErr' \in BOOLEAN
        BY <2>2 DEF ZoneInv, TypeOK, Jobs
    <2> QED
        BY <2>3, <2>4 DEF ZoneInv, TypeOK
<1>2. SingleInv'
    BY ZonePoolAssumption
       DEF ZoneInv, TypeOK, SingleInv, Pending, Error, NoZone, Panic, Place
<1>3. ZoneProducerInv'
    BY ZoneConfigAssumption, ZonePoolAssumption
       DEF ZoneInv, TypeOK, SingleInv, ZoneProducerInv, Wanted
<1>4. PlaceInv'
    BY DEF ZoneInv, TypeOK, SingleInv, PlaceInv, ClusterJobs, Supported, Targets,
       ClusterSupports, ClusterTags
<1>5. PlaceSupported'
    BY DEF ZoneInv, TypeOK, SingleInv, PlaceSupported, Supported, Targets,
       ClusterSupports, ClusterTags, Pending, Error, NoZone, Panic, Place
<1> QED
    BY <1>1, <1>2, <1>3, <1>4, <1>5 DEF ZoneInv

(* ListHosts preserves every part of the invariant. *)
LEMMA ListHostsKeeps ==
    ASSUME ZoneInv, ListHosts
    PROVE  ZoneInv'
<1> USE DEF ListHosts, callvars, prodvars, poolvars, errvars
<1>1. TypeOK'
    <2>1. vc \in VC /\ dc \in DC
        BY ZoneConfigAssumption DEF ZoneInv, TypeOK, ZoneProducerInv, Wanted
    <2>2. <<vc, dc>> \in VC \X DC /\ Host[<<vc, dc>>] \subseteq Object
        BY <2>1, ZoneConfigAssumption
    <2>3. objs' \in SUBSET Object /\ ppc' \in {"send", "dcs"}
        BY <2>2 DEF ZoneInv, TypeOK
    <2>4. muted' \in SUBSET Jobs
        BY <2>2 DEF ZoneInv, TypeOK, Jobs
    <2> QED
        BY <2>3, <2>4 DEF ZoneInv, TypeOK
<1>2. SingleInv'
    BY ZonePoolAssumption
       DEF ZoneInv, TypeOK, SingleInv, Pending, Error, NoZone, Panic, Place
<1>3. ZoneProducerInv'
    BY ZoneConfigAssumption, ZonePoolAssumption
       DEF ZoneInv, TypeOK, SingleInv, ZoneProducerInv, Wanted
<1>4. PlaceInv'
    BY DEF ZoneInv, TypeOK, SingleInv, PlaceInv, ClusterJobs, Supported, Targets,
       ClusterSupports, ClusterTags
<1>5. PlaceSupported'
    BY DEF ZoneInv, TypeOK, SingleInv, PlaceSupported, Supported, Targets,
       ClusterSupports, ClusterTags, Pending, Error, NoZone, Panic, Place
<1> QED
    BY <1>1, <1>2, <1>3, <1>4, <1>5 DEF ZoneInv

(* Send preserves every part of the invariant. *)
LEMMA SendKeeps ==
    ASSUME ZoneInv, Send
    PROVE  ZoneInv'
<1> USE DEF Send, callvars, prodvars, poolvars, errvars
<1>1. TypeOK'
    <2>1. PICK o \in objs : queue' = Append(queue, <<<<vc, dc>>, o>>) /\ objs' = objs \ {o}
        OBVIOUS
    <2>2. vc \in VC /\ dc \in DC /\ vc \in instances /\ dc \in Wanted(vc)
        BY ZoneConfigAssumption DEF ZoneInv, TypeOK, ZoneProducerInv, Wanted
    <2>3. <<<<vc, dc>>, o>> \in Jobs
        BY <2>2 DEF ZoneInv, TypeOK, Jobs
    <2>4. queue' \in Seq(Jobs) /\ Len(queue') = Len(queue) + 1 /\ Len(queue) \in Nat
        BY <2>1, <2>3, ZoneAppendFacts DEF ZoneInv, TypeOK
    <2>5. Len(queue') <= QueueSize
        BY <2>4, ZonePoolAssumption
    <2> QED
        BY <2>1, <2>4, <2>5 DEF ZoneInv, TypeOK
<1>2. SingleInv'
    BY ZonePoolAssumption
       DEF ZoneInv, TypeOK, SingleInv, Pending, Error, NoZone, Panic, Place
<1>3. ZoneProducerInv'
    BY ZoneConfigAssumption, ZonePoolAssumption
       DEF ZoneInv, TypeOK, SingleInv, ZoneProducerInv, Wanted
<1>4. PlaceInv'
    <2>1. PICK o \in objs : queue' = Append(queue, <<<<vc, dc>>, o>>) /\ objs' = objs \ {o}
        OBVIOUS
    <2>2. vc \in VC /\ dc \in DC /\ vc \in instances /\ dc \in Wanted(vc)
        BY ZoneConfigAssumption DEF ZoneInv, TypeOK, ZoneProducerInv, Wanted
    <2>3. <<vc, dc>> \in Targets
        BY <2>2 DEF Targets
    <2>4. ASSUME phase = "cluster" PROVE queue' \in Seq(ClusterJobs)
        <3>1. o \in Cluster[<<vc, dc>>] /\ o \in Object
            BY <2>4 DEF ZoneInv, TypeOK, ZoneProducerInv
        <3>2. <<<<vc, dc>>, o>> \in ClusterJobs
            BY <2>2, <2>3, <3>1 DEF ClusterJobs, Jobs
        <3> QED
            BY <2>1, <2>4, <3>2, ZoneAppendFacts DEF ZoneInv, PlaceInv
    <2> QED
        BY <2>4 DEF ZoneInv, PlaceInv, ClusterJobs, Supported, Targets, ClusterSupports,
           ClusterTags
<1>5. PlaceSupported'
    BY DEF ZoneInv, TypeOK, SingleInv, PlaceSupported, Supported, Targets,
       ClusterSupports, ClusterTags, Pending, Error, NoZone, Panic, Place
<1> QED
    BY <1>1, <1>2, <1>3, <1>4, <1>5 DEF ZoneInv

(* LastSend preserves every part of the invariant. *)
LEMMA LastSendKeeps ==
    ASSUME ZoneInv, LastSend
    PROVE  ZoneInv'
<1> USE DEF LastSend, callvars, prodvars, poolvars, errvars
<1>1. TypeOK'
    BY ZoneConfigAssumption, ZonePoolAssumption
       DEF ZoneInv, TypeOK, SingleInv, ZoneProducerInv, PlaceInv
<1>2. SingleInv'
    BY ZonePoolAssumption
       DEF ZoneInv, TypeOK, SingleInv, Pending, Error, NoZone, Panic, Place
<1>3. ZoneProducerInv'
    BY ZoneConfigAssumption, ZonePoolAssumption
       DEF ZoneInv, TypeOK, SingleInv, ZoneProducerInv, Wanted
<1>4. PlaceInv'
    BY DEF ZoneInv, TypeOK, SingleInv, PlaceInv, ClusterJobs, Supported, Targets,
       ClusterSupports, ClusterTags
<1>5. PlaceSupported'
    BY DEF ZoneInv, TypeOK, SingleInv, PlaceSupported, Supported, Targets,
       ClusterSupports, ClusterTags, Pending, Error, NoZone, Panic, Place
<1> QED
    BY <1>1, <1>2, <1>3, <1>4, <1>5 DEF ZoneInv

(* Receive preserves every part of the invariant. *)
LEMMA ReceiveKeeps ==
    ASSUME ZoneInv, NEW w \in Worker, Receive(w)
    PROVE  ZoneInv'
<1> USE DEF Receive, callvars, prodvars, poolvars, errvars
<1>1. TypeOK'
    BY ZoneConfigAssumption, ZonePoolAssumption
       DEF ZoneInv, TypeOK, SingleInv, ZoneProducerInv, PlaceInv
<1>2. SingleInv'
    BY ZonePoolAssumption
       DEF ZoneInv, TypeOK, SingleInv, Pending, Error, NoZone, Panic, Place
<1>3. ZoneProducerInv'
    BY ZoneConfigAssumption, ZonePoolAssumption
       DEF ZoneInv, TypeOK, SingleInv, ZoneProducerInv, Wanted
<1>4. PlaceInv'
    BY DEF ZoneInv, TypeOK, SingleInv, PlaceInv, ClusterJobs, Supported, Targets,
       ClusterSupports, ClusterTags
<1>5. PlaceSupported'
    BY DEF ZoneInv, TypeOK, SingleInv, PlaceSupported, Supported, Targets,
       ClusterSupports, ClusterTags, Pending, Error, NoZone, Panic, Place
<1> QED
    BY <1>1, <1>2, <1>3, <1>4, <1>5 DEF ZoneInv

(* Done preserves every part of the invariant. *)
LEMMA DoneKeeps ==
    ASSUME ZoneInv, NEW w \in Worker, Done(w)
    PROVE  ZoneInv'
<1> USE DEF Done, callvars, prodvars, poolvars, errvars
<1>1. TypeOK'
    BY ZoneConfigAssumption, ZonePoolAssumption
       DEF ZoneInv, TypeOK, SingleInv, ZoneProducerInv, PlaceInv
<1>2. SingleInv'
    BY ZonePoolAssumption
       DEF ZoneInv, TypeOK, SingleInv, Pending, Error, NoZone, Panic, Place
<1>3. ZoneProducerInv'
    BY ZoneConfigAssumption, ZonePoolAssumption
       DEF ZoneInv, TypeOK, SingleInv, ZoneProducerInv, Wanted
<1>4. PlaceInv'
    BY DEF ZoneInv, TypeOK, SingleInv, PlaceInv, ClusterJobs, Supported, Targets,
       ClusterSupports, ClusterTags
<1>5. PlaceSupported'
    BY DEF ZoneInv, TypeOK, SingleInv, PlaceSupported, Supported, Targets,
       ClusterSupports, ClusterTags, Pending, Error, NoZone, Panic, Place
<1> QED
    BY <1>1, <1>2, <1>3, <1>4, <1>5 DEF ZoneInv

(* ClusterHit preserves every part of the invariant. *)
LEMMA ClusterHitKeeps ==
    ASSUME ZoneInv, NEW w \in Worker, ClusterHit(w)
    PROVE  ZoneInv'
<1> USE DEF ClusterHit, callvars, prodvars, poolvars, errvars
<1>1. TypeOK'
    <2>1. job[w] \in ClusterJobs
        BY DEF ZoneInv, PlaceInv
    <2>2. job[w][1] \in VC \X DC
        BY <2>1 DEF ClusterJobs, Targets
    <2> QED
        BY <2>2 DEF ZoneInv, TypeOK
<1>2. SingleInv'
    BY ZonePoolAssumption
       DEF ZoneInv, TypeOK, SingleInv, Pending, Error, NoZone, Panic, Place
<1>3. ZoneProducerInv'
    BY ZoneConfigAssumption, ZonePoolAssumption
       DEF ZoneInv, TypeOK, SingleInv, ZoneProducerInv, Wanted
<1>4. PlaceInv'
    BY DEF ZoneInv, TypeOK, SingleInv, PlaceInv, ClusterJobs, Supported, Targets,
       ClusterSupports, ClusterTags
<1>5. PlaceSupported'
    BY DEF ZoneInv, TypeOK, SingleInv, PlaceSupported, Supported, Targets,
       ClusterSupports, ClusterTags, Pending, Error, NoZone, Panic, Place
<1> QED
    BY <1>1, <1>2, <1>3, <1>4, <1>5 DEF ZoneInv

(* ClusterMiss preserves every part of the invariant. *)
LEMMA ClusterMissKeeps ==
    ASSUME ZoneInv, NEW w \in Worker, ClusterMiss(w)
    PROVE  ZoneInv'
<1> USE DEF ClusterMiss, callvars, prodvars, poolvars, errvars
<1>1. TypeOK'
    BY ZoneConfigAssumption, ZonePoolAssumption
       DEF ZoneInv, TypeOK, SingleInv, ZoneProducerInv, PlaceInv
<1>2. SingleInv'
    BY ZonePoolAssumption
       DEF ZoneInv, TypeOK, SingleInv, Pending, Error, NoZone, Panic, Place
<1>3. ZoneProducerInv'
    BY ZoneConfigAssumption, ZonePoolAssumption
       DEF ZoneInv, TypeOK, SingleInv, ZoneProducerInv, Wanted
<1>4. PlaceInv'
    BY DEF ZoneInv, TypeOK, SingleInv, PlaceInv, ClusterJobs, Supported, Targets,
       ClusterSupports, ClusterTags
<1>5. PlaceSupported'
    BY DEF ZoneInv, TypeOK, SingleInv, PlaceSupported, Supported, Targets,
       ClusterSupports, ClusterTags, Pending, Error, NoZone, Panic, Place
<1> QED
    BY <1>1, <1>2, <1>3, <1>4, <1>5 DEF ZoneInv

(* ClusterMuted preserves every part of the invariant. *)
LEMMA ClusterMutedKeeps ==
    ASSUME ZoneInv, NEW w \in Worker, ClusterMuted(w)
    PROVE  ZoneInv'
<1> USE DEF ClusterMuted, callvars, prodvars, poolvars, errvars
<1>1. TypeOK'
    BY ZoneConfigAssumption, ZonePoolAssumption
       DEF ZoneInv, TypeOK, SingleInv, ZoneProducerInv, PlaceInv
<1>2. SingleInv'
    BY ZonePoolAssumption
       DEF ZoneInv, TypeOK, SingleInv, Pending, Error, NoZone, Panic, Place
<1>3. ZoneProducerInv'
    BY ZoneConfigAssumption, ZonePoolAssumption
       DEF ZoneInv, TypeOK, SingleInv, ZoneProducerInv, Wanted
<1>4. PlaceInv'
    BY DEF ZoneInv, TypeOK, SingleInv, PlaceInv, ClusterJobs, Supported, Targets,
       ClusterSupports, ClusterTags
<1>5. PlaceSupported'
    BY DEF ZoneInv, TypeOK, SingleInv, PlaceSupported, Supported, Targets,
       ClusterSupports, ClusterTags, Pending, Error, NoZone, Panic, Place
<1> QED
    BY <1>1, <1>2, <1>3, <1>4, <1>5 DEF ZoneInv

(* HostSkipped preserves every part of the invariant. *)
LEMMA HostSkippedKeeps ==
    ASSUME ZoneInv, NEW w \in Worker, HostSkipped(w)
    PROVE  ZoneInv'
<1> USE DEF HostSkipped, callvars, prodvars, poolvars, errvars
<1>1. TypeOK'
    BY ZoneConfigAssumption, ZonePoolAssumption
       DEF ZoneInv, TypeOK, SingleInv, ZoneProducerInv, PlaceInv
<1>2. SingleInv'
    BY ZonePoolAssumption
       DEF ZoneInv, TypeOK, SingleInv, Pending, Error, NoZone, Panic, Place
<1>3. ZoneProducerInv'
    BY ZoneConfigAssumption, ZonePoolAssumption
       DEF ZoneInv, TypeOK, SingleInv, ZoneProducerInv, Wanted
<1>4. PlaceInv'
    BY DEF ZoneInv, TypeOK, SingleInv, PlaceInv, ClusterJobs, Supported, Targets,
       ClusterSupports, ClusterTags
<1>5. PlaceSupported'
    BY DEF ZoneInv, TypeOK, SingleInv, PlaceSupported, Supported, Targets,
       ClusterSupports, ClusterTags, Pending, Error, NoZone, Panic, Place
<1> QED
    BY <1>1, <1>2, <1>3, <1>4, <1>5 DEF ZoneInv

(* EndClustersFound preserves every part of the invariant. *)
LEMMA EndClustersFoundKeeps ==
    ASSUME ZoneInv, EndClustersFound
    PROVE  ZoneInv'
<1> USE DEF EndClustersFound, callvars, prodvars, poolvars, errvars
<1>1. TypeOK'
    <2>1. info \in VC \X DC
        BY DEF ZoneInv, PlaceInv, Supported, Targets
    <2>2. result' \in {Place(p) : p \in VC \X DC}
        BY <2>1
    <2> QED
        BY <2>2 DEF ZoneInv, TypeOK
<1>2. SingleInv'
    BY ZonePoolAssumption
       DEF ZoneInv, TypeOK, SingleInv, Pending, Error, NoZone, Panic, Place
<1>3. ZoneProducerInv'
    BY ZoneConfigAssumption, ZonePoolAssumption
       DEF ZoneInv, TypeOK, SingleInv, ZoneProducerInv, Wanted
<1>4. PlaceInv'
    BY DEF ZoneInv, TypeOK, SingleInv, PlaceInv, ClusterJobs, Supported, Targets,
       ClusterSupports, ClusterTags
<1>5. PlaceSupported'
    <2>1. result'.place = info
        BY DEF Place
    <2>2. Supported(info)
        BY DEF ZoneInv, PlaceInv
    <2>3. Supported(info)'
        BY <2>2 DEF Supported, Targets, ClusterSupports, ClusterTags
    <2> QED
        BY <2>1, <2>3 DEF PlaceSupported
<1> QED
    BY <1>1, <1>2, <1>3, <1>4, <1>5 DEF ZoneInv

(* EndClusters preserves every part of the invariant. *)
LEMMA EndClustersKeeps ==
    ASSUME ZoneInv, EndClusters
    PROVE  ZoneInv'
<1> USE DEF EndClusters, callvars, prodvars, poolvars, errvars
<1>1. TypeOK'
    <2>1. queue' \in Seq(Jobs) /\ Len(queue') <= QueueSize
        BY ZonePoolAssumption
    <2>2. wpc' \in [Worker -> {"range", "lookup", "done"}]
        OBVIOUS
    <2> QED
        BY <2>1, <2>2, ZoneConfigAssumption DEF ZoneInv, TypeOK
<1>2. SingleInv'
    BY ZonePoolAssumption
       DEF ZoneInv, TypeOK, SingleInv, Pending, Error, NoZone, Panic, Place
<1>3. ZoneProducerInv'
    BY ZoneConfigAssumption, ZonePoolAssumption
       DEF ZoneInv, TypeOK, SingleInv, ZoneProducerInv, Wanted
<1>4. PlaceInv'
    BY DEF ZoneInv, TypeOK, SingleInv, PlaceInv, ClusterJobs, Supported, Targets,
       ClusterSupports, ClusterTags
<1>5. PlaceSupported'
    BY DEF ZoneInv, TypeOK, SingleInv, PlaceSupported, Supported, Targets,
       ClusterSupports, ClusterTags, Pending, Error, NoZone, Panic, Place
<1> QED
    BY <1>1, <1>2, <1>3, <1>4, <1>5 DEF ZoneInv

(* EndHosts preserves every part of the invariant. *)
LEMMA EndHostsKeeps ==
    ASSUME ZoneInv, EndHosts
    PROVE  ZoneInv'
<1> USE DEF EndHosts, callvars, prodvars, poolvars, errvars
<1>1. TypeOK'
    BY ZoneConfigAssumption, ZonePoolAssumption
       DEF ZoneInv, TypeOK, SingleInv, ZoneProducerInv, PlaceInv
<1>2. SingleInv'
    BY ZonePoolAssumption
       DEF ZoneInv, TypeOK, SingleInv, Pending, Error, NoZone, Panic, Place
<1>3. ZoneProducerInv'
    BY ZoneConfigAssumption, ZonePoolAssumption
       DEF ZoneInv, TypeOK, SingleInv, ZoneProducerInv, Wanted
<1>4. PlaceInv'
    BY DEF ZoneInv, TypeOK, SingleInv, PlaceInv, ClusterJobs, Supported, Targets,
       ClusterSupports, ClusterTags
<1>5. PlaceSupported'
    <2>1. ~found
        BY DEF ZoneInv, PlaceInv
    <2>2. result' \in {Error, NoZone}
        BY <2>1
    <2>3. result'.kind # "found"
        BY <2>2 DEF Error, NoZone
    <2> QED
        BY <2>3 DEF PlaceSupported
<1> QED
    BY <1>1, <1>2, <1>3, <1>4, <1>5 DEF ZoneInv

(* The invariant holds in the initial states. *)
LEMMA ZoneInitial == Init => ZoneInv
<1> SUFFICES ASSUME Init PROVE ZoneInv
    OBVIOUS
<1> USE DEF Init
<1>1. TypeOK
    <2>1. result \in {Pending, Error} /\ phase \in {"done", "cluster", "single"}
        OBVIOUS
    <2>2. client \in BOOLEAN /\ ppc \in {"range", "none"}
        OBVIOUS
    <2>3. instances \in SUBSET VC /\ todo \in SUBSET VC
        BY ZoneConfigAssumption
    <2>4. queue \in Seq(Jobs) /\ Len(queue) <= QueueSize
          /\ attempts \in 0..NumConnectionAttempts
        BY ZonePoolAssumption
    <2>5. wpc \in [Worker -> {"range", "lookup", "done"}]
        BY <2>1
    <2> QED
        BY <2>1, <2>2, <2>3, <2>4, <2>5 DEF TypeOK
<1>2. SingleInv
    <2>1. IsFiniteSet(instances)
        BY ZoneConfigAssumption
    <2>2. Cardinality(instances) \in Nat
        BY <2>1, FS_CardinalityType
    <2>3. instances # {} => Cardinality(instances) # 0
        BY <2>1, FS_EmptySet
    <2>4. phase = "single" => Cardinality(instances) = 1
        BY <2>2, <2>3 DEF Pending, Error
    <2>5. result # Panic
        BY DEF Pending, Error, Panic
    <2> QED
        BY <2>1, <2>4, <2>5, ZonePoolAssumption DEF SingleInv, Pending, Error
<1>3. ZoneProducerInv
    BY DEF ZoneProducerInv
<1>4. PlaceInv
    BY DEF PlaceInv
<1>5. PlaceSupported
    BY DEF PlaceSupported, Pending, Error
<1> QED
    BY <1>1, <1>2, <1>3, <1>4, <1>5 DEF ZoneInv

(* A step that changes no variable keeps the invariant. *)
LEMMA ZoneStutter ==
    ASSUME ZoneInv, UNCHANGED vars
    PROVE  ZoneInv'
<1> USE DEF vars, callvars, prodvars, poolvars, errvars
<1>1. TypeOK'
    BY DEF ZoneInv, TypeOK
<1>2. SingleInv'
    BY DEF ZoneInv, SingleInv
<1>3. ZoneProducerInv'
    BY DEF ZoneInv, ZoneProducerInv, Wanted
<1>4. PlaceInv'
    BY DEF ZoneInv, PlaceInv, ClusterJobs, Supported, Targets, ClusterSupports,
       ClusterTags
<1>5. PlaceSupported'
    BY DEF ZoneInv, PlaceSupported, Supported, Targets, ClusterSupports, ClusterTags
<1> QED
    BY <1>1, <1>2, <1>3, <1>4, <1>5 DEF ZoneInv

(* Every step keeps the invariant. *)
LEMMA ZoneStep == ZoneInv /\ [Next]_vars => ZoneInv'
<1> SUFFICES ASSUME ZoneInv, [Next]_vars PROVE ZoneInv'
    OBVIOUS
<1>1. CASE Single
    BY <1>1, SingleConnectOKKeeps, SingleConnectFailKeeps, ClientPanicsKeeps,
       CountFailsKeeps, CountOneKeeps, CountSeveralKeeps, OnlyOneKeeps DEF Single
<1>2. CASE EndClustersFound \/ EndClusters \/ EndHosts
    BY <1>2, EndClustersFoundKeeps, EndClustersKeeps, EndHostsKeeps
<1>3. CASE Producer
    BY <1>3, NextVCKeeps, CloseKeeps, ConnectOKKeeps, ConnectFailKeeps,
       ResolveAllKeeps, ResolveNamesKeeps, NextDCKeeps, LastDCKeeps,
       ListClustersKeeps, ListHostsKeeps, SendKeeps, LastSendKeeps DEF Producer
<1>4. CASE \E w \in Worker : WorkerStep(w)
    <2>1. PICK w \in Worker : WorkerStep(w)
        BY <1>4
    <2> QED
        BY <2>1, ReceiveKeeps, DoneKeeps, ClusterHitKeeps, ClusterMissKeeps,
           ClusterMutedKeeps, HostSkippedKeeps DEF WorkerStep
<1>5. CASE UNCHANGED vars
    BY <1>5, ZoneStutter
<1> QED
    BY <1>1, <1>2, <1>3, <1>4, <1>5, OthersConnectKeeps DEF Next, Caller

(* ZoneInv is inductive: it holds of every reachable state. *)
THEOREM ZoneInvariance == Spec => []ZoneInv
    BY ZoneInitial, ZoneStep, PTL DEF Spec

(* Types: the channel of a zone search stays within its capacity and a     *)
(* worker holds an object of a datacenter (zones.go:186-310, 363-475).     *)
THEOREM ZoneTypeCorrect == Spec => []TypeOK
    BY ZoneInvariance, PTL DEF ZoneInv

-----------------------------------------------------------------------------
(* A second invariant, for the answer "no such zone". *)

Searching == phase \in {"cluster", "host"}

(* The channel is closed only after the last vCenter, and a worker leaves  *)
(* without a hit only when it is closed and empty.                         *)
ZoneWorkerInv ==
    /\ phase \in {"single", "count", "only"} => todo = instances
    /\ ppc = "closed" => todo = {} \/ found
    /\ \A w \in Worker : Searching /\ wpc[w] = "done" =>
          found \/ (ppc = "closed" /\ queue = <<>>)

(* Every vCenter is ahead of the producer, was reached, or has left an     *)
(* error.                                                                  *)
ReachInv ==
    /\ reached \subseteq instances
    /\ Searching => \A v \in instances :
          v \in todo \/ (v = vc /\ ppc = "connect") \/ v \in reached \/ globalErr

(* The clusters that carry the zone, as LookupZoneByMoref sees it, and     *)
(* where the first search has one until a worker looks at it: with the     *)
(* producer, in the channel, or with a worker.                             *)
SupportingJobs == {j \in ClusterJobs : ClusterSupports(j[1], j[2])}

WithProducer(j) ==
    \/ j[1][1] \in todo
    \/ j[1][1] = vc /\ ppc \in {"connect", "resolve"}
    \/ j[1][1] = vc /\ ppc \in {"dcs", "list", "send"} /\ j[1][2] \in pending
    \/ j[1] = <<vc, dc>> /\ ppc = "list"
    \/ j[1] = <<vc, dc>> /\ ppc = "send" /\ j[2] \in objs
WithPool(j) ==
    \/ \E k \in 1..Len(queue) : queue[k] = j
    \/ \E w \in Worker : wpc[w] = "lookup" /\ job[w] = j

ZoneAccountInv ==
    phase = "cluster" /\ ~found /\ ~globalErr =>
       \A j \in SupportingJobs : WithProducer(j) \/ WithPool(j) \/ j \in muted

(* What the first search leaves to the second one and to the answer. *)
AllMuted == missed \/ SupportingJobs \subseteq muted

AnswerInv ==
    /\ phase = "host" => AllMuted
    /\ result.kind = "nozone" => instances \subseteq reached /\ AllMuted

NoZoneInv == ZoneWorkerInv /\ ReachInv /\ ZoneAccountInv /\ AnswerInv

(* SingleConnectOK preserves every part of the second invariant. *)
LEMMA SingleConnectOKKeepsNoZone ==
    ASSUME ZoneInv, NoZoneInv, SingleConnectOK
    PROVE  NoZoneInv'
<1> USE DEF SingleConnectOK, callvars, prodvars, poolvars, errvars
<1>0. SupportingJobs' = SupportingJobs
    BY DEF SupportingJobs, ClusterJobs, Jobs, Targets, ClusterSupports, ClusterTags
<1>1. ZoneWorkerInv'
    BY DEF ZoneInv, TypeOK, SingleInv, NoZoneInv, ZoneWorkerInv, Searching
<1>2. ReachInv'
    BY DEF ZoneInv, TypeOK, SingleInv, ZoneProducerInv, NoZoneInv, ReachInv, Searching,
       ZoneWorkerInv
<1>3. ZoneAccountInv'
    BY <1>0 DEF ZoneInv, TypeOK, NoZoneInv, ZoneAccountInv, WithProducer, WithPool
<1>4. AnswerInv'
    BY <1>0 DEF ZoneInv, TypeOK, SingleInv, NoZoneInv, AnswerInv, AllMuted, Pending, Error,
       NoZone, Panic, Place
<1> QED
    BY <1>1, <1>2, <1>3, <1>4 DEF NoZoneInv

(* SingleConnectFail preserves every part of the second invariant. *)
LEMMA SingleConnectFailKeepsNoZone ==
    ASSUME ZoneInv, NoZoneInv, SingleConnectFail
    PROVE  NoZoneInv'
<1> USE DEF SingleConnectFail, callvars, prodvars, poolvars, errvars
<1>0. SupportingJobs' = SupportingJobs
    BY DEF SupportingJobs, ClusterJobs, Jobs, Targets, ClusterSupports, ClusterTags
<1>1. ZoneWorkerInv'
    BY DEF ZoneInv, TypeOK, SingleInv, NoZoneInv, ZoneWorkerInv, Searching
<1>2. ReachInv'
    BY DEF ZoneInv, TypeOK, SingleInv, ZoneProducerInv, NoZoneInv, ReachInv, Searching,
       ZoneWorkerInv
<1>3. ZoneAccountInv'
    BY <1>0 DEF ZoneInv, TypeOK, NoZoneInv, ZoneAccountInv, WithProducer, WithPool
<1>4. AnswerInv'
    BY <1>0 DEF ZoneInv, TypeOK, SingleInv, NoZoneInv, AnswerInv, AllMuted, Pending, Error,
       NoZone, Panic, Place
<1> QED
    BY <1>1, <1>2, <1>3, <1>4 DEF NoZoneInv

(* ClientPanics preserves every part of the second invariant. *)
LEMMA ClientPanicsKeepsNoZone ==
    ASSUME ZoneInv, NoZoneInv, ClientPanics
    PROVE  NoZoneInv'
<1> USE DEF ClientPanics, callvars, prodvars, poolvars, errvars
<1>0. SupportingJobs' = SupportingJobs
    BY DEF SupportingJobs, ClusterJobs, Jobs, Targets, ClusterSupports, ClusterTags
<1>1. ZoneWorkerInv'
    BY DEF ZoneInv, TypeOK, SingleInv, NoZoneInv, ZoneWorkerInv, Searching
<1>2. ReachInv'
    BY DEF ZoneInv, TypeOK, SingleInv, ZoneProducerInv, NoZoneInv, ReachInv, Searching,
       ZoneWorkerInv
<1>3. ZoneAccountInv'
    BY <1>0 DEF ZoneInv, TypeOK, NoZoneInv, ZoneAccountInv, WithProducer, WithPool
<1>4. AnswerInv'
    BY <1>0 DEF ZoneInv, TypeOK, SingleInv, NoZoneInv, AnswerInv, AllMuted, Pending, Error,
       NoZone, Panic, Place
<1> QED
    BY <1>1, <1>2, <1>3, <1>4 DEF NoZoneInv

(* CountFails preserves every part of the second invariant. *)
LEMMA CountFailsKeepsNoZone ==
    ASSUME ZoneInv, NoZoneInv, CountFails
    PROVE  NoZoneInv'
<1> USE DEF CountFails, callvars, prodvars, poolvars, errvars
<1>0. SupportingJobs' = SupportingJobs
    BY DEF SupportingJobs, ClusterJobs, Jobs, Targets, ClusterSupports, ClusterTags
<1>1. ZoneWorkerInv'
    BY DEF ZoneInv, TypeOK, SingleInv, NoZoneInv, ZoneWorkerInv, Searching
<1>2. ReachInv'
    BY DEF ZoneInv, TypeOK, SingleInv, ZoneProducerInv, NoZoneInv, ReachInv, Searching,
       ZoneWorkerInv
<1>3. ZoneAccountInv'
    BY <1>0 DEF ZoneInv, TypeOK, NoZoneInv, ZoneAccountInv, WithProducer, WithPool
<1>4. AnswerInv'
    BY <1>0 DEF ZoneInv, TypeOK, SingleInv, NoZoneInv, AnswerInv, AllMuted, Pending, Error,
       NoZone, Panic, Place
<1> QED
    BY <1>1, <1>2, <1>3, <1>4 DEF NoZoneInv

(* CountOne preserves every part of the second invariant. *)
LEMMA CountOneKeepsNoZone ==
    ASSUME ZoneInv, NoZoneInv, CountOne
    PROVE  NoZoneInv'
<1> USE DEF CountOne, callvars, prodvars, poolvars, errvars
<1>0. SupportingJobs' = SupportingJobs
    BY DEF SupportingJobs, ClusterJobs, Jobs, Targets, ClusterSupports, ClusterTags
<1>1. ZoneWorkerInv'
    BY DEF ZoneInv, TypeOK, SingleInv, NoZoneInv, ZoneWorkerInv, Searching
<1>2. ReachInv'
    BY DEF ZoneInv, TypeOK, SingleInv, ZoneProducerInv, NoZoneInv, ReachInv, Searching,
       ZoneWorkerInv
<1>3. ZoneAccountInv'
    BY <1>0 DEF ZoneInv, TypeOK, NoZoneInv, ZoneAccountInv, WithProducer, WithPool
<1>4. AnswerInv'
    BY <1>0 DEF ZoneInv, TypeOK, SingleInv, NoZoneInv, AnswerInv, AllMuted, Pending, Error,
       NoZone, Panic, Place
<1> QED
    BY <1>1, <1>2, <1>3, <1>4 DEF NoZoneInv

(* CountSeveral preserves every part of the second invariant. *)
LEMMA CountSeveralKeepsNoZone ==
    ASSUME ZoneInv, NoZoneInv, CountSeveral
    PROVE  NoZoneInv'
<1> USE DEF CountSeveral, callvars, prodvars, poolvars, errvars
<1>0. SupportingJobs' = SupportingJobs
    BY DEF SupportingJobs, ClusterJobs, Jobs, Targets, ClusterSupports, ClusterTags
<1>1. ZoneWorkerInv'
    BY DEF ZoneInv, TypeOK, SingleInv, NoZoneInv, ZoneWorkerInv, Searching
<1>2. ReachInv'
    BY DEF ZoneInv, TypeOK, SingleInv, ZoneProducerInv, NoZoneInv, ReachInv, Searching,
       ZoneWorkerInv
<1>3. ZoneAccountInv'
    <2> SUFFICES ASSUME phase' = "cluster", ~found', ~globalErr', NEW j \in SupportingJobs
                 PROVE  (WithProducer(j) \/ WithPool(j) \/ j \in muted)'
        BY <1>0 DEF ZoneAccountInv
    <2>1. j[1][1] \in instances
        BY DEF SupportingJobs, ClusterJobs, Targets
    <2>2. todo' = instances
        BY DEF NoZoneInv, ZoneWorkerInv
    <2> QED
        BY <2>1, <2>2 DEF WithProducer
<1>4. AnswerInv'
    BY <1>0 DEF ZoneInv, TypeOK, SingleInv, NoZoneInv, AnswerInv, AllMuted, Pending, Error,
       NoZone, Panic, Place
<1> QED
    BY <1>1, <1>2, <1>3, <1>4 DEF NoZoneInv

(* OnlyOne preserves every part of the second invariant. *)
LEMMA OnlyOneKeepsNoZone ==
    ASSUME ZoneInv, NoZoneInv, OnlyOne
    PROVE  NoZoneInv'
<1> USE DEF OnlyOne, callvars, prodvars, poolvars, errvars
<1>0. SupportingJobs' = SupportingJobs
    BY DEF SupportingJobs, ClusterJobs, Jobs, Targets, ClusterSupports, ClusterTags
<1>1. ZoneWorkerInv'
    BY DEF ZoneInv, TypeOK, SingleInv, NoZoneInv, ZoneWorkerInv, Searching
<1>2. ReachInv'
    BY DEF ZoneInv, TypeOK, SingleInv, ZoneProducerInv, NoZoneInv, ReachInv, Searching,
       ZoneWorkerInv
<1>3. ZoneAccountInv'
    BY <1>0 DEF ZoneInv, TypeOK, NoZoneInv, ZoneAccountInv, WithProducer, WithPool
<1>4. AnswerInv'
    BY <1>0 DEF ZoneInv, TypeOK, SingleInv, NoZoneInv, AnswerInv, AllMuted, Pending, Error,
       NoZone, Panic, Place
<1> QED
    BY <1>1, <1>2, <1>3, <1>4 DEF NoZoneInv

(* OthersConnect preserves every part of the second invariant. *)
LEMMA OthersConnectKeepsNoZone ==
    ASSUME ZoneInv, NoZoneInv, OthersConnect
    PROVE  NoZoneInv'
<1> USE DEF OthersConnect, callvars, prodvars, poolvars, errvars
<1>0. SupportingJobs' = SupportingJobs
    BY DEF SupportingJobs, ClusterJobs, Jobs, Targets, ClusterSupports, ClusterTags
<1>1. ZoneWorkerInv'
    BY DEF ZoneInv, TypeOK, SingleInv, NoZoneInv, ZoneWorkerInv, Searching
<1>2. ReachInv'
    BY DEF ZoneInv, TypeOK, SingleInv, ZoneProducerInv, NoZoneInv, ReachInv, Searching,
       ZoneWorkerInv
<1>3. ZoneAccountInv'
    BY <1>0 DEF ZoneInv, TypeOK, NoZoneInv, ZoneAccountInv, WithProducer, WithPool
<1>4. AnswerInv'
    BY <1>0 DEF ZoneInv, TypeOK, SingleInv, NoZoneInv, AnswerInv, AllMuted, Pending, Error,
       NoZone, Panic, Place
<1> QED
    BY <1>1, <1>2, <1>3, <1>4 DEF NoZoneInv

(* NextVC preserves every part of the second invariant. *)
LEMMA NextVCKeepsNoZone ==
    ASSUME ZoneInv, NoZoneInv, NextVC
    PROVE  NoZoneInv'
<1> USE DEF NextVC, callvars, prodvars, poolvars, errvars
<1>0. SupportingJobs' = SupportingJobs
    BY DEF SupportingJobs, ClusterJobs, Jobs, Targets, ClusterSupports, ClusterTags
<1>1. ZoneWorkerInv'
    BY DEF ZoneInv, TypeOK, SingleInv, NoZoneInv, ZoneWorkerInv, Searching
<1>2. ReachInv'
    BY DEF ZoneInv, TypeOK, SingleInv, ZoneProducerInv, NoZoneInv, ReachInv, Searching,
       ZoneWorkerInv
<1>3. ZoneAccountInv'
    BY <1>0 DEF ZoneInv, TypeOK, NoZoneInv, ZoneAccountInv, WithProducer, WithPool
<1>4. AnswerInv'
    BY <1>0 DEF ZoneInv, TypeOK, SingleInv, NoZoneInv, AnswerInv, AllMuted, Pending, Error,
       NoZone, Panic, Place
<1> QED
    BY <1>1, <1>2, <1>3, <1>4 DEF NoZoneInv

(* Close preserves every part of the second invariant. *)
LEMMA CloseKeepsNoZone ==
    ASSUME ZoneInv, NoZoneInv, Close
    PROVE  NoZoneInv'
<1> USE DEF Close, callvars, prodvars, poolvars, errvars
<1>0. SupportingJobs' = SupportingJobs
    BY DEF SupportingJobs, ClusterJobs, Jobs, Targets, ClusterSupports, ClusterTags
<1>1. ZoneWorkerInv'
    BY DEF ZoneInv, TypeOK, SingleInv, NoZoneInv, ZoneWorkerInv, Searching
<1>2. ReachInv'
    BY DEF ZoneInv, TypeOK, SingleInv, ZoneProducerInv, NoZoneInv, ReachInv, Searching,
       ZoneWorkerInv
<1>3. ZoneAccountInv'
    BY <1>0 DEF ZoneInv, TypeOK, NoZoneInv, ZoneAccountInv, WithProducer, WithPool
<1>4. AnswerInv'
    BY <1>0 DEF ZoneInv, TypeOK, SingleInv, NoZoneInv, AnswerInv, AllMuted, Pending, Error,
       NoZone, Panic, Place
<1> QED
    BY <1>1, <1>2, <1>3, <1>4 DEF NoZoneInv

(* ConnectOK preserves every part of the second invariant. *)
LEMMA ConnectOKKeepsNoZone ==
    ASSUME ZoneInv, NoZoneInv, ConnectOK
    PROVE  NoZoneInv'
<1> USE DEF ConnectOK, callvars, prodvars, poolvars, errvars
<1>0. SupportingJobs' = SupportingJobs
    BY DEF SupportingJobs, ClusterJobs, Jobs, Targets, ClusterSupports, ClusterTags
<1>1. ZoneWorkerInv'
    BY DEF ZoneInv, TypeOK, SingleInv, NoZoneInv, ZoneWorkerInv, Searching
<1>2. ReachInv'
    BY DEF ZoneInv, TypeOK, SingleInv, ZoneProducerInv, NoZoneInv, ReachInv, Searching,
       ZoneWorkerInv
<1>3. ZoneAccountInv'
    BY <1>0 DEF ZoneInv, TypeOK, NoZoneInv, ZoneAccountInv, WithProducer, WithPool
<1>4. AnswerInv'
    BY <1>0 DEF ZoneInv, TypeOK, SingleInv, NoZoneInv, AnswerInv, AllMuted, Pending, Error,
       NoZone, Panic, Place
<1> QED
    BY <1>1, <1>2, <1>3, <1>4 DEF NoZoneInv

(* ConnectFail preserves every part of the second invariant. *)
LEMMA ConnectFailKeepsNoZone ==
    ASSUME ZoneInv, NoZoneInv, ConnectFail
    PROVE  NoZoneInv'
<1> USE DEF ConnectFail, callvars, prodvars, poolvars, errvars
<1>0. SupportingJobs' = SupportingJobs
    BY DEF SupportingJobs, ClusterJobs, Jobs, Targets, ClusterSupports, ClusterTags
<1>1. ZoneWorkerInv'
    BY DEF ZoneInv, TypeOK, SingleInv, NoZoneInv, ZoneWorkerInv, Searching
<1>2. ReachInv'
    BY DEF ZoneInv, TypeOK, SingleInv, ZoneProducerInv, NoZoneInv, ReachInv, Searching,
       ZoneWorkerInv
<1>3. ZoneAccountInv'
    BY <1>0 DEF ZoneInv, TypeOK, NoZoneInv, ZoneAccountInv, WithProducer, WithPool
<1>4. AnswerInv'
    BY <1>0 DEF ZoneInv, TypeOK, SingleInv, NoZoneInv, AnswerInv, AllMuted, Pending, Error,
       NoZone, Panic, Place
<1> QED
    BY <1>1, <1>2, <1>3, <1>4 DEF NoZoneInv

(* ResolveAll preserves every part of the second invariant. *)
LEMMA ResolveAllKeepsNoZone ==
    ASSUME ZoneInv, NoZoneInv, ResolveAll
    PROVE  NoZoneInv'
<1> USE DEF ResolveAll, callvars, prodvars, poolvars, errvars
<1>0. SupportingJobs' = SupportingJobs
    BY DEF SupportingJobs, ClusterJobs, Jobs, Targets, ClusterSupports, ClusterTags
<1>1. ZoneWorkerInv'
    BY DEF ZoneInv, TypeOK, SingleInv, NoZoneInv, ZoneWorkerInv, Searching
<1>2. ReachInv'
    BY DEF ZoneInv, TypeOK, SingleInv, ZoneProducerInv, NoZoneInv, ReachInv, Searching,
       ZoneWorkerInv
<1>3. ZoneAccountInv'
    <2> SUFFICES ASSUME phase' = "cluster", ~found', ~globalErr', NEW j \in SupportingJobs
                 PROVE  (WithProducer(j) \/ WithPool(j) \/ j \in muted)'
        BY <1>0 DEF ZoneAccountInv
    <2>1. WithProducer(j) \/ WithPool(j) \/ j \in muted
        BY DEF NoZoneInv, ZoneAccountInv
    <2>2. /\ j = <<j[1], j[2]>> /\ j[1] = <<j[1][1], j[1][2]>> /\ j[2] \in Cluster[j[1]]
          /\ j[1][2] \in Wanted(j[1][1])
        BY DEF SupportingJobs, ClusterJobs, Jobs, Targets
    <2> QED
        BY <2>1, <2>2, ZoneConfigAssumption
           DEF ZoneInv, TypeOK, ZoneProducerInv, WithProducer, WithPool, Wanted
<1>4. AnswerInv'
    BY <1>0 DEF ZoneInv, TypeOK, SingleInv, NoZoneInv, AnswerInv, AllMuted, Pending, Error,
       NoZone, Panic, Place
<1> QED
    BY <1>1, <1>2, <1>3, <1>4 DEF NoZoneInv

(* ResolveNames preserves every part of the second invariant. *)
LEMMA ResolveNamesKeepsNoZone ==
    ASSUME ZoneInv, NoZoneInv, ResolveNames
    PROVE  NoZoneInv'
<1> USE DEF ResolveNames, callvars, prodvars, poolvars, errvars
<1>0. SupportingJobs' = SupportingJobs
    BY DEF SupportingJobs, ClusterJobs, Jobs, Targets, ClusterSupports, ClusterTags
<1>1. ZoneWorkerInv'
    BY DEF ZoneInv, TypeOK, SingleInv, NoZoneInv, ZoneWorkerInv, Searching
<1>2. ReachInv'
    BY DEF ZoneInv, TypeOK, SingleInv, ZoneProducerInv, NoZoneInv, ReachInv, Searching,
       ZoneWorkerInv
<1>3. ZoneAccountInv'
    <2> SUFFICES ASSUME phase' = "cluster", ~found', ~globalErr', NEW j \in SupportingJobs
                 PROVE  (WithProducer(j) \/ WithPool(j) \/ j \in muted)'
        BY <1>0 DEF ZoneAccountInv
    <2>1. WithProducer(j) \/ WithPool(j) \/ j \in muted
        BY DEF NoZoneInv, ZoneAccountInv
    <2>2. /\ j = <<j[1], j[2]>> /\ j[1] = <<j[1][1], j[1][2]>> /\ j[2] \in Cluster[j[1]]
          /\ j[1][2] \in Wanted(j[1][1])
        BY DEF SupportingJobs, ClusterJobs, Jobs, Targets
    <2> QED
        BY <2>1, <2>2, ZoneConfigAssumption
           DEF ZoneInv, TypeOK, ZoneProducerInv, WithProducer, WithPool, Wanted
<1>4. AnswerInv'
    BY <1>0 DEF ZoneInv, TypeOK, SingleInv, NoZoneInv, AnswerInv, AllMuted, Pending, Error,
       NoZone, Panic, Place
<1> QED
    BY <1>1, <1>2, <1>3, <1>4 DEF NoZoneInv

(* NextDC preserves every part of the second invariant. *)
LEMMA NextDCKeepsNoZone ==
    ASSUME ZoneInv, NoZoneInv, NextDC
    PROVE  NoZoneInv'
<1> USE DEF NextDC, callvars, prodvars, poolvars, errvars
<1>0. SupportingJobs' = SupportingJobs
    BY DEF SupportingJobs, ClusterJobs, Jobs, Targets, ClusterSupports, ClusterTags
<1>1. ZoneWorkerInv'
    BY DEF ZoneInv, TypeOK, SingleInv, NoZoneInv, ZoneWorkerInv, Searching
<1>2. ReachInv'
    BY DEF ZoneInv, TypeOK, SingleInv, ZoneProducerInv, NoZoneInv, ReachInv, Searching,
       ZoneWorkerInv
<1>3. ZoneAccountInv'
    <2> SUFFICES ASSUME phase' = "cluster", ~found', ~globalErr', NEW j \in SupportingJobs
                 PROVE  (WithProducer(j) \/ WithPool(j) \/ j \in muted)'
        BY <1>0 DEF ZoneAccountInv
    <2>1. WithProducer(j) \/ WithPool(j) \/ j \in muted
        BY DEF NoZoneInv, ZoneAccountInv
    <2>2. /\ j = <<j[1], j[2]>> /\ j[1] = <<j[1][1], j[1][2]>> /\ j[2] \in Cluster[j[1]]
          /\ j[1][2] \in Wanted(j[1][1])
        BY DEF SupportingJobs, ClusterJobs, Jobs, Targets
    <2> QED
        BY <2>1, <2>2, ZoneConfigAssumption
           DEF ZoneInv, TypeOK, ZoneProducerInv, WithProducer, WithPool, Wanted
<1>4. AnswerInv'
    BY <1>0 DEF ZoneInv, TypeOK, SingleInv, NoZoneInv, AnswerInv, AllMuted, Pending, Error,
       NoZone, Panic, Place
<1> QED
    BY <1>1, <1>2, <1>3, <1>4 DEF NoZoneInv

(* LastDC preserves every part of the second invariant. *)
LEMMA LastDCKeepsNoZone ==
    ASSUME ZoneInv, NoZoneInv, LastDC
    PROVE  NoZoneInv'
<1> USE DEF LastDC, callvars, prodvars, poolvars, errvars
<1>0. SupportingJobs' = SupportingJobs
    BY DEF SupportingJobs, ClusterJobs, Jobs, Targets, ClusterSupports, ClusterTags
<1>1. ZoneWorkerInv'
    BY DEF ZoneInv, TypeOK, SingleInv, NoZoneInv, ZoneWorkerInv, Searching
<1>2. ReachInv'
    BY DEF ZoneInv, TypeOK, SingleInv, ZoneProducerInv, NoZoneInv, ReachInv, Searching,
       ZoneWorkerInv
<1>3. ZoneAccountInv'
    BY <1>0 DEF ZoneInv, TypeOK, NoZoneInv, ZoneAccountInv, WithProducer, WithPool
<1>4. AnswerInv'
    BY <1>0 DEF ZoneInv, TypeOK, SingleInv, NoZoneInv, AnswerInv, AllMuted, Pending, Error,
       NoZone, Panic, Place
<1> QED
    BY <1>1, <1>2, <1>3, <1>4 DEF NoZoneInv

(* ListClusters preserves every part of the second invariant. *)
LEMMA ListClustersKeepsNoZone ==
    ASSUME ZoneInv, NoZoneInv, ListClusters
    PROVE  NoZoneInv'
<1> USE DEF ListClusters, callvars, prodvars, poolvars, errvars
<1>0. SupportingJobs' = SupportingJobs
    BY DEF SupportingJobs, ClusterJobs, Jobs, Targets, ClusterSupports, ClusterTags
<1>1. ZoneWorkerInv'
    BY DEF ZoneInv, TypeOK, SingleInv, NoZoneInv, ZoneWorkerInv, Searching
<1>2. ReachInv'
    BY DEF ZoneInv, TypeOK, SingleInv, ZoneProducerInv, NoZoneInv, ReachInv, Searching,
       ZoneWorkerInv
<1>3. ZoneAccountInv'
    <2> SUFFICES ASSUME phase' = "cluster", ~found', ~globalErr', NEW j \in SupportingJobs
                 PROVE  (WithProducer(j) \/ WithPool(j) \/ j \in muted)'
        BY <1>0 DEF ZoneAccountInv
    <2>1. WithProducer(j) \/ WithPool(j) \/ j \in muted
        BY DEF NoZoneInv, ZoneAccountInv
    <2>2. /\ j = <<j[1], j[2]>> /\ j[1] = <<j[1][1], j[1][2]>> /\ j[2] \in Cluster[j[1]]
          /\ j[1][2] \in Wanted(j[1][1])
        BY DEF SupportingJobs, ClusterJobs, Jobs, Targets
    <2> QED
        BY <2>1, <2>2, ZoneConfigAssumption
           DEF ZoneInv, TypeOK, ZoneProducerInv, WithProducer, WithPool, Wanted
<1>4. AnswerInv'
    BY <1>0 DEF ZoneInv, TypeOK, SingleInv, NoZoneInv, AnswerInv, AllMuted, Pending, Error,
       NoZone, Panic, Place
<1> QED
    BY <1>1, <1>2, <1>3, <1>4 DEF NoZoneInv

(* ListHosts preserves every part of the second invariant. *)
LEMMA ListHostsKeepsNoZone ==
    ASSUME ZoneInv, NoZoneInv, ListHosts
    PROVE  NoZoneInv'
<1> USE DEF ListHosts, callvars, prodvars, poolvars, errvars
<1>0. SupportingJobs' = SupportingJobs
    BY DEF SupportingJobs, ClusterJobs, Jobs, Targets, ClusterSupports, ClusterTags
<1>1. ZoneWorkerInv'
    BY DEF ZoneInv, TypeOK, SingleInv, NoZoneInv, ZoneWorkerInv, Searching
<1>2. ReachInv'
    BY DEF ZoneInv, TypeOK, SingleInv, ZoneProducerInv, NoZoneInv, ReachInv, Searching,
       ZoneWorkerInv
<1>3. ZoneAccountInv'
    BY <1>0 DEF ZoneInv, TypeOK, NoZoneInv, ZoneAccountInv, WithProducer, WithPool
<1>4. AnswerInv'
    BY <1>0 DEF ZoneInv, TypeOK, SingleInv, NoZoneInv, AnswerInv, AllMuted, Pending, Error,
       NoZone, Panic, Place
<1> QED
    BY <1>1, <1>2, <1>3, <1>4 DEF NoZoneInv

(* Send preserves every part of the second invariant. *)
LEMMA SendKeepsNoZone ==
    ASSUME ZoneInv, NoZoneInv, Send
    PROVE  NoZoneInv'
<1> USE DEF Send, callvars, prodvars, poolvars, errvars
<1>0. SupportingJobs' = SupportingJobs
    BY DEF SupportingJobs, ClusterJobs, Jobs, Targets, ClusterSupports, ClusterTags
<1>1. ZoneWorkerInv'
    BY DEF ZoneInv, TypeOK, SingleInv, NoZoneInv, ZoneWorkerInv, Searching
<1>2. ReachInv'
    BY DEF ZoneInv, TypeOK, SingleInv, ZoneProducerInv, NoZoneInv, ReachInv, Searching,
       ZoneWorkerInv
<1>3. ZoneAccountInv'
    <2> SUFFICES ASSUME phase' = "cluster", ~found', ~globalErr', NEW j \in SupportingJobs
                 PROVE  (WithProducer(j) \/ WithPool(j) \/ j \in muted)'
        BY <1>0 DEF ZoneAccountInv
    <2>1. WithProducer(j) \/ WithPool(j) \/ j \in muted
        BY DEF NoZoneInv, ZoneAccountInv
    <2>2. /\ j = <<j[1], j[2]>> /\ j[1] = <<j[1][1], j[1][2]>> /\ j[2] \in Cluster[j[1]]
          /\ j[1][2] \in Wanted(j[1][1])
        BY DEF SupportingJobs, ClusterJobs, Jobs, Targets
    <2>3. PICK o \in objs : /\ queue' = Append(queue, <<<<vc, dc>>, o>>)
                             /\ objs' = objs \ {o}
        OBVIOUS
    <2>4. queue \in Seq(Jobs)
        BY DEF ZoneInv, TypeOK
    <2>5. /\ Len(queue) \in Nat /\ Len(queue') = Len(queue) + 1
          /\ \A k \in 1..Len(queue) : queue'[k] = queue[k]
          /\ queue'[Len(queue) + 1] = <<<<vc, dc>>, o>>
        BY <2>3, <2>4
    <2>6. CASE WithPool(j)
        BY <2>5, <2>6 DEF WithPool
    <2>7. CASE j = <<<<vc, dc>>, o>>
        BY <2>5, <2>7 DEF WithPool
    <2>8. CASE WithProducer(j) /\ j # <<<<vc, dc>>, o>>
        BY <2>2, <2>3, <2>8 DEF WithProducer
    <2> QED
        BY <2>1, <2>6, <2>7, <2>8
<1>4. AnswerInv'
    BY <1>0 DEF ZoneInv, TypeOK, SingleInv, NoZoneInv, AnswerInv, AllMuted, Pending, Error,
       NoZone, Panic, Place
<1> QED
    BY <1>1, <1>2, <1>3, <1>4 DEF NoZoneInv

(* LastSend preserves every part of the second invariant. *)
LEMMA LastSendKeepsNoZone ==
    ASSUME ZoneInv, NoZoneInv, LastSend
    PROVE  NoZoneInv'
<1> USE DEF LastSend, callvars, prodvars, poolvars, errvars
<1>0. SupportingJobs' = SupportingJobs
    BY DEF SupportingJobs, ClusterJobs, Jobs, Targets, ClusterSupports, ClusterTags
<1>1. ZoneWorkerInv'
    BY DEF ZoneInv, TypeOK, SingleInv, NoZoneInv, ZoneWorkerInv, Searching
<1>2. ReachInv'
    BY DEF ZoneInv, TypeOK, SingleInv, ZoneProducerInv, NoZoneInv, ReachInv, Searching,
       ZoneWorkerInv
<1>3. ZoneAccountInv'
    BY <1>0 DEF ZoneInv, TypeOK, NoZoneInv, ZoneAccountInv, WithProducer, WithPool
<1>4. AnswerInv'
    BY <1>0 DEF ZoneInv, TypeOK, SingleInv, NoZoneInv, AnswerInv, AllMuted, Pending, Error,
       NoZone, Panic, Place
<1> QED
    BY <1>1, <1>2, <1>3, <1>4 DEF NoZoneInv

(* Receive preserves every part of the second invariant. *)
LEMMA ReceiveKeepsNoZone ==
    ASSUME ZoneInv, NoZoneInv, NEW w \in Worker, Receive(w)
    PROVE  NoZoneInv'
<1> USE DEF Receive, callvars, prodvars, poolvars, errvars
<1>0. SupportingJobs' = SupportingJobs
    BY DEF SupportingJobs, ClusterJobs, Jobs, Targets, ClusterSupports, ClusterTags
<1>1. ZoneWorkerInv'
    BY DEF ZoneInv, TypeOK, SingleInv, NoZoneInv, ZoneWorkerInv, Searching
<1>2. ReachInv'
    BY DEF ZoneInv, TypeOK, SingleInv, ZoneProducerInv, NoZoneInv, ReachInv, Searching,
       ZoneWorkerInv
<1>3. ZoneAccountInv'
    <2> SUFFICES ASSUME phase' = "cluster", ~found', ~globalErr', NEW j \in SupportingJobs
                 PROVE  (WithProducer(j) \/ WithPool(j) \/ j \in muted)'
        BY <1>0 DEF ZoneAccountInv
    <2>1. WithProducer(j) \/ WithPool(j) \/ j \in muted
        BY DEF NoZoneInv, ZoneAccountInv
    <2>2. queue \in Seq(Jobs) /\ queue # <<>>
        BY DEF ZoneInv, TypeOK
    <2>3. /\ Len(queue) \in Nat /\ Len(queue') = Len(queue) - 1
          /\ \A k \in 1..Len(queue') : queue'[k] = queue[k + 1]
        BY <2>2
    <2>4. job'[w] = queue[1] /\ wpc'[w] = "lookup"
        BY <2>2 DEF ZoneInv, TypeOK
    <2>5. ASSUME NEW k \in 1..Len(queue), queue[k] = j
          PROVE  WithPool(j)'
        <3>1. CASE k = 1
            BY <2>4, <2>5, <3>1 DEF WithPool
        <3>2. CASE k # 1
            <4>1. k - 1 \in 1..Len(queue') /\ queue'[k - 1] = j
                BY <2>3, <2>5, <3>2
            <4> QED
                BY <4>1 DEF WithPool
        <3> QED
            BY <3>1, <3>2
    <2>6. ASSUME NEW x \in Worker, wpc[x] = "lookup", job[x] = j
          PROVE  WithPool(j)'
        BY <2>6 DEF WithPool
    <2>7. WithProducer(j) => WithProducer(j)'
        BY DEF WithProducer
    <2> QED
        BY <2>1, <2>5, <2>6, <2>7 DEF WithPool
<1>4. AnswerInv'
    BY <1>0 DEF ZoneInv, TypeOK, SingleInv, NoZoneInv, AnswerInv, AllMuted, Pending, Error,
       NoZone, Panic, Place
<1> QED
    BY <1>1, <1>2, <1>3, <1>4 DEF NoZoneInv

(* Done preserves every part of the second invariant. *)
LEMMA DoneKeepsNoZone ==
    ASSUME ZoneInv, NoZoneInv, NEW w \in Worker, Done(w)
    PROVE  NoZoneInv'
<1> USE DEF Done, callvars, prodvars, poolvars, errvars
<1>0. SupportingJobs' = SupportingJobs
    BY DEF SupportingJobs, ClusterJobs, Jobs, Targets, ClusterSupports, ClusterTags
<1>1. ZoneWorkerInv'
    BY DEF ZoneInv, TypeOK, SingleInv, NoZoneInv, ZoneWorkerInv, Searching
<1>2. ReachInv'
    BY DEF ZoneInv, TypeOK, SingleInv, ZoneProducerInv, NoZoneInv, ReachInv, Searching,
       ZoneWorkerInv
<1>3. ZoneAccountInv'
    BY <1>0 DEF ZoneInv, TypeOK, NoZoneInv, ZoneAccountInv, WithProducer, WithPool
<1>4. AnswerInv'
    BY <1>0 DEF ZoneInv, TypeOK, SingleInv, NoZoneInv, AnswerInv, AllMuted, Pending, Error,
       NoZone, Panic, Place
<1> QED
    BY <1>1, <1>2, <1>3, <1>4 DEF NoZoneInv

(* ClusterHit preserves every part of the second invariant. *)
LEMMA ClusterHitKeepsNoZone ==
    ASSUME ZoneInv, NoZoneInv, NEW w \in Worker, ClusterHit(w)
    PROVE  NoZoneInv'
<1> USE DEF ClusterHit, callvars, prodvars, poolvars, errvars
<1>0. SupportingJobs' = SupportingJobs
    BY DEF SupportingJobs, ClusterJobs, Jobs, Targets, ClusterSupports, ClusterTags
<1>1. ZoneWorkerInv'
    BY DEF ZoneInv, TypeOK, SingleInv, NoZoneInv, ZoneWorkerInv, Searching
<1>2. ReachInv'
    BY DEF ZoneInv, TypeOK, SingleInv, ZoneProducerInv, NoZoneInv, ReachInv, Searching,
       ZoneWorkerInv
<1>3. ZoneAccountInv'
    BY <1>0 DEF ZoneInv, TypeOK, NoZoneInv, ZoneAccountInv, WithProducer, WithPool
<1>4. AnswerInv'
    BY <1>0 DEF ZoneInv, TypeOK, SingleInv, NoZoneInv, AnswerInv, AllMuted, Pending, Error,
       NoZone, Panic, Place
<1> QED
    BY <1>1, <1>2, <1>3, <1>4 DEF NoZoneInv

(* ClusterMiss preserves every part of the second invariant. *)
LEMMA ClusterMissKeepsNoZone ==
    ASSUME ZoneInv, NoZoneInv, NEW w \in Worker, ClusterMiss(w)
    PROVE  NoZoneInv'
<1> USE DEF ClusterMiss, callvars, prodvars, poolvars, errvars
<1>0. SupportingJobs' = SupportingJobs
    BY DEF SupportingJobs, ClusterJobs, Jobs, Targets, ClusterSupports, ClusterTags
<1>1. ZoneWorkerInv'
    BY DEF ZoneInv, TypeOK, SingleInv, NoZoneInv, ZoneWorkerInv, Searching
<1>2. ReachInv'
    BY DEF ZoneInv, TypeOK, SingleInv, ZoneProducerInv, NoZoneInv, ReachInv, Searching,
       ZoneWorkerInv
<1>3. ZoneAccountInv'
    <2> SUFFICES ASSUME phase' = "cluster", ~found', ~globalErr', NEW j \in SupportingJobs
                 PROVE  (WithProducer(j) \/ WithPool(j) \/ j \in muted)'
        BY <1>0 DEF ZoneAccountInv
    <2>1. WithProducer(j) \/ WithPool(j) \/ j \in muted
        BY DEF NoZoneInv, ZoneAccountInv
    <2>2. ClusterSupports(j[1], j[2])
        BY DEF SupportingJobs
    <2>3. job[w] # j
        BY <2>2
    <2>4. wpc' = [wpc EXCEPT ![w] = "range"] /\ wpc \in [Worker -> {"range", "lookup", "done"}]
        BY DEF ZoneInv, TypeOK
    <2> QED
        BY <2>1, <2>3, <2>4 DEF WithProducer, WithPool
<1>4. AnswerInv'
    BY <1>0 DEF ZoneInv, TypeOK, SingleInv, NoZoneInv, AnswerInv, AllMuted, Pending, Error,
       NoZone, Panic, Place
<1> QED
    BY <1>1, <1>2, <1>3, <1>4 DEF NoZoneInv

(* ClusterMuted preserves every part of the second invariant. *)
LEMMA ClusterMutedKeepsNoZone ==
    ASSUME ZoneInv, NoZoneInv, NEW w \in Worker, ClusterMuted(w)
    PROVE  NoZoneInv'
<1> USE DEF ClusterMuted, callvars, prodvars, poolvars, errvars
<1>0. SupportingJobs' = SupportingJobs
    BY DEF SupportingJobs, ClusterJobs, Jobs, Targets, ClusterSupports, ClusterTags
<1>1. ZoneWorkerInv'
    BY DEF ZoneInv, TypeOK, SingleInv, NoZoneInv, ZoneWorkerInv, Searching
<1>2. ReachInv'
    BY DEF ZoneInv, TypeOK, SingleInv, ZoneProducerInv, NoZoneInv, ReachInv, Searching,
       ZoneWorkerInv
<1>3. ZoneAccountInv'
    <2> SUFFICES ASSUME phase' = "cluster", ~found', ~globalErr', NEW j \in SupportingJobs
                 PROVE  (WithProducer(j) \/ WithPool(j) \/ j \in muted)'
        BY <1>0 DEF ZoneAccountInv
    <2>1. WithProducer(j) \/ WithPool(j) \/ j \in muted
        BY DEF NoZoneInv, ZoneAccountInv
    <2>4. wpc' = [wpc EXCEPT ![w] = "range"] /\ wpc \in [Worker -> {"range", "lookup", "done"}]
        BY DEF ZoneInv, TypeOK
    <2> QED
        BY <2>1, <2>4 DEF WithProducer, WithPool
<1>4. AnswerInv'
    BY <1>0 DEF ZoneInv, TypeOK, SingleInv, NoZoneInv, AnswerInv, AllMuted, Pending, Error,
       NoZone, Panic, Place
<1> QED
    BY <1>1, <1>2, <1>3, <1>4 DEF NoZoneInv

(* HostSkipped preserves every part of the second invariant. *)
LEMMA HostSkippedKeepsNoZone ==
    ASSUME ZoneInv, NoZoneInv, NEW w \in Worker, HostSkipped(w)
    PROVE  NoZoneInv'
<1> USE DEF HostSkipped, callvars, prodvars, poolvars, errvars
<1>0. SupportingJobs' = SupportingJobs
    BY DEF SupportingJobs, ClusterJobs, Jobs, Targets, ClusterSupports, ClusterTags
<1>1. ZoneWorkerInv'
    BY DEF ZoneInv, TypeOK, SingleInv, NoZoneInv, ZoneWorkerInv, Searching
<1>2. ReachInv'
    BY DEF ZoneInv, TypeOK, SingleInv, ZoneProducerInv, NoZoneInv, ReachInv, Searching,
       ZoneWorkerInv
<1>3. ZoneAccountInv'
    BY <1>0 DEF ZoneInv, TypeOK, NoZoneInv, ZoneAccountInv, WithProducer, WithPool
<1>4. AnswerInv'
    BY <1>0 DEF ZoneInv, TypeOK, SingleInv, NoZoneInv, AnswerInv, AllMuted, Pending, Error,
       NoZone, Panic, Place
<1> QED
    BY <1>1, <1>2, <1>3, <1>4 DEF NoZoneInv

(* EndClustersFound preserves every part of the second invariant. *)
LEMMA EndClustersFoundKeepsNoZone ==
    ASSUME ZoneInv, NoZoneInv, EndClustersFound
    PROVE  NoZoneInv'
<1> USE DEF EndClustersFound, callvars, prodvars, poolvars, errvars
<1>0. SupportingJobs' = SupportingJobs
    BY DEF SupportingJobs, ClusterJobs, Jobs, Targets, ClusterSupports, ClusterTags
<1>1. ZoneWorkerInv'
    BY DEF ZoneInv, TypeOK, SingleInv, NoZoneInv, ZoneWorkerInv, Searching
<1>2. ReachInv'
    BY DEF ZoneInv, TypeOK, SingleInv, ZoneProducerInv, NoZoneInv, ReachInv, Searching,
       ZoneWorkerInv
<1>3. ZoneAccountInv'
    BY <1>0 DEF ZoneInv, TypeOK, NoZoneInv, ZoneAccountInv, WithProducer, WithPool
<1>4. AnswerInv'
    BY <1>0 DEF ZoneInv, TypeOK, SingleInv, NoZoneInv, AnswerInv, AllMuted, Pending, Error,
       NoZone, Panic, Place
<1> QED
    BY <1>1, <1>2, <1>3, <1>4 DEF NoZoneInv

(* EndClusters preserves every part of the second invariant. *)
LEMMA EndClustersKeepsNoZone ==
    ASSUME ZoneInv, NoZoneInv, EndClusters
    PROVE  NoZoneInv'
<1> USE DEF EndClusters, callvars, prodvars, poolvars, errvars
<1>0. SupportingJobs' = SupportingJobs
    BY DEF SupportingJobs, ClusterJobs, Jobs, Targets, ClusterSupports, ClusterTags
<1>1. ZoneWorkerInv'
    BY DEF ZoneInv, TypeOK, SingleInv, NoZoneInv, ZoneWorkerInv, Searching
<1>2. ReachInv'
    BY DEF ZoneInv, TypeOK, SingleInv, ZoneProducerInv, NoZoneInv, ReachInv, Searching,
       ZoneWorkerInv
<1>3. ZoneAccountInv'
    BY <1>0 DEF ZoneInv, TypeOK, NoZoneInv, ZoneAccountInv, WithProducer, WithPool
<1>4. AnswerInv'
    <2>1. PICK w \in Worker : wpc[w] = "done"
        BY ZonePoolAssumption DEF Joined
    <2>2. ppc = "closed" /\ queue = <<>> /\ todo = {}
        BY <2>1 DEF NoZoneInv, ZoneWorkerInv, Searching
    <2>3. ASSUME NEW j \in SupportingJobs, ~globalErr
          PROVE  j \in muted
        <3>1. WithProducer(j) \/ WithPool(j) \/ j \in muted
            BY <2>3 DEF NoZoneInv, ZoneAccountInv
        <3>2. ~WithProducer(j)
            BY <2>2 DEF WithProducer
        <3>3. ~WithPool(j)
            BY <2>2 DEF WithPool, Joined
        <3> QED
            BY <3>1, <3>2, <3>3
    <2>4. AllMuted'
        BY <1>0, <2>3 DEF AllMuted
    <2>5. result'.kind # "nozone"
        BY DEF ZoneInv, SingleInv, Pending
    <2> QED
        BY <2>4, <2>5 DEF AnswerInv
<1> QED
    BY <1>1, <1>2, <1>3, <1>4 DEF NoZoneInv

(* EndHosts preserves every part of the second invariant. *)
LEMMA EndHostsKeepsNoZone ==
    ASSUME ZoneInv, NoZoneInv, EndHosts
    PROVE  NoZoneInv'
<1> USE DEF EndHosts, callvars, prodvars, poolvars, errvars
<1>0. SupportingJobs' = SupportingJobs
    BY DEF SupportingJobs, ClusterJobs, Jobs, Targets, ClusterSupports, ClusterTags
<1>1. ZoneWorkerInv'
    BY DEF ZoneInv, TypeOK, SingleInv, NoZoneInv, ZoneWorkerInv, Searching
<1>2. ReachInv'
    BY DEF ZoneInv, TypeOK, SingleInv, ZoneProducerInv, NoZoneInv, ReachInv, Searching,
       ZoneWorkerInv
<1>3. ZoneAccountInv'
    BY <1>0 DEF ZoneInv, TypeOK, NoZoneInv, ZoneAccountInv, WithProducer, WithPool
<1>4. AnswerInv'
    <2>1. PICK w \in Worker : wpc[w] = "done"
        BY ZonePoolAssumption DEF Joined
    <2>2. ~found
        BY DEF ZoneInv, PlaceInv
    <2>3. ppc = "closed" /\ todo = {}
        BY <2>1, <2>2 DEF NoZoneInv, ZoneWorkerInv, Searching
    <2>4. ~globalErr => instances \subseteq reached
        BY <2>3 DEF NoZoneInv, ReachInv, Searching
    <2>5. AllMuted'
        BY <1>0 DEF NoZoneInv, AnswerInv, AllMuted
    <2>6. result'.kind = "nozone" => ~globalErr
        BY <2>2 DEF Error
    <2> QED
        BY <2>4, <2>5, <2>6 DEF AnswerInv
<1> QED
    BY <1>1, <1>2, <1>3, <1>4 DEF NoZoneInv

(* The second invariant holds in the initial states. *)
LEMMA NoZoneInitial == Init => NoZoneInv
<1> SUFFICES ASSUME Init PROVE NoZoneInv
    OBVIOUS
<1> USE DEF Init
<1>1. ZoneWorkerInv
    BY DEF ZoneWorkerInv, Searching
<1>2. ReachInv
    BY DEF ReachInv
<1>3. ZoneAccountInv
    BY DEF ZoneAccountInv, SupportingJobs, ClusterJobs, Targets, WithProducer
<1>4. AnswerInv
    BY DEF AnswerInv, Pending, Error
<1> QED
    BY <1>1, <1>2, <1>3, <1>4 DEF NoZoneInv

(* A step that changes no variable keeps the second invariant. *)
LEMMA NoZoneStutter ==
    ASSUME NoZoneInv, UNCHANGED vars
    PROVE  NoZoneInv'
<1> USE DEF vars, callvars, prodvars, poolvars, errvars
<1>0. SupportingJobs' = SupportingJobs
    BY DEF SupportingJobs, ClusterJobs, Jobs, Targets, ClusterSupports, ClusterTags
<1>1. ZoneWorkerInv'
    BY DEF NoZoneInv, ZoneWorkerInv, Searching
<1>2. ReachInv'
    BY DEF NoZoneInv, ReachInv, Searching
<1>3. ZoneAccountInv'
    BY <1>0 DEF NoZoneInv, ZoneAccountInv, WithProducer, WithPool
<1>4. AnswerInv'
    BY <1>0 DEF NoZoneInv, AnswerInv, AllMuted
<1> QED
    BY <1>1, <1>2, <1>3, <1>4 DEF NoZoneInv

(* Every step keeps the second invariant. *)
LEMMA NoZoneStep == ZoneInv /\ NoZoneInv /\ [Next]_vars => NoZoneInv'
<1> SUFFICES ASSUME ZoneInv, NoZoneInv, [Next]_vars PROVE NoZoneInv'
    OBVIOUS
<1>1. CASE Single
    BY <1>1, SingleConnectOKKeepsNoZone, SingleConnectFailKeepsNoZone,
       ClientPanicsKeepsNoZone, CountFailsKeepsNoZone, CountOneKeepsNoZone,
       CountSeveralKeepsNoZone, OnlyOneKeepsNoZone DEF Single
<1>2. CASE EndClustersFound \/ EndClusters \/ EndHosts
    BY <1>2, EndClustersFoundKeepsNoZone, EndClustersKeepsNoZone, EndHostsKeepsNoZone
<1>3. CASE Producer
    BY <1>3, NextVCKeepsNoZone, CloseKeepsNoZone, ConnectOKKeepsNoZone,
       ConnectFailKeepsNoZone, ResolveAllKeepsNoZone, ResolveNamesKeepsNoZone,
       NextDCKeepsNoZone, LastDCKeepsNoZone, ListClustersKeepsNoZone,
       ListHostsKeepsNoZone, SendKeepsNoZone, LastSendKeepsNoZone DEF Producer
<1>4. CASE \E w \in Worker : WorkerStep(w)
    <2>1. PICK w \in Worker : WorkerStep(w)
        BY <1>4
    <2> QED
        BY <2>1, ReceiveKeepsNoZone, DoneKeepsNoZone, ClusterHitKeepsNoZone,
           ClusterMissKeepsNoZone, ClusterMutedKeepsNoZone, HostSkippedKeepsNoZone
           DEF WorkerStep
<1>5. CASE UNCHANGED vars
    BY <1>5, NoZoneStutter
<1> QED
    BY <1>1, <1>2, <1>3, <1>4, <1>5, OthersConnectKeepsNoZone DEF Next, Caller

(* The tags of a cluster and its ancestors are a chain that LookupCarries  *)
(* speaks of.                                                              *)
LEMMA SupportsCarries ==
    ASSUME TypeOK, NEW p \in Targets, NEW c \in Cluster[p]
    PROVE  ClusterSupports(p, c) <=> Carries(ClusterTags(p, c))
<1>1. p \in VC \X DC /\ c \in Object
    BY ZoneConfigAssumption DEF Targets
<1>2. tags[c] \in Seq(Tag) /\ tags[p] \in Seq(Tag)
    BY <1>1, ZoneConfigAssumption DEF TypeOK
<1>3. ClusterTags(p, c) \in Seq(Tag)
    BY <1>2 DEF ClusterTags
<1> QED
    BY <1>3, LookupCarries DEF ClusterSupports

(* A place that is returned carries the zone and region on one of its      *)
(* clusters, read as LookupZoneByMoref should read the tags: no worker     *)
(* that loses the race to store its place, and no leftover of the first    *)
(* search, puts another place into the answer (zones.go:292-305, 120-125). *)
THEOREM PlacesCarryZone == Spec => []ZoneFoundJustified
<1>1. ZoneInv => ZoneFoundJustified
    <2> SUFFICES ASSUME ZoneInv, result.kind = "found",
                        ~(Cardinality(instances) = 1
                            /\ Inventory[result.place[1]] = {result.place[2]})
                 PROVE  /\ result.place \in Targets
                        /\ \E c \in Cluster[result.place] :
                              Carries(ClusterTags(result.place, c))
        BY DEF ZoneFoundJustified
    <2>1. Supported(result.place)
        BY DEF ZoneInv, PlaceSupported
    <2> QED
        BY <2>1, SupportsCarries DEF Supported, ZoneInv
<1> QED
    BY <1>1, ZoneInvariance, PTL

(* "No such zone" is answered only if the second search has reached every  *)
(* vCenter, and every cluster that carries the zone went through the first *)
(* search and could not be read, or that search failed, for any pool and   *)
(* channel (zones.go:140-151, 186-310).                                    *)
THEOREM NoZoneSound == Spec => []NoZoneJustified
<1>1. ZoneInv /\ NoZoneInv => NoZoneJustified
    <2> SUFFICES ASSUME ZoneInv, NoZoneInv, result.kind = "nozone"
                 PROVE  /\ reached = instances
                        /\ missed \/ \A p \in Targets : \A c \in Cluster[p] :
                             Carries(ClusterTags(p, c)) => <<p, c>> \in muted
        BY DEF NoZoneJustified
    <2>1. reached = instances /\ AllMuted
        BY DEF NoZoneInv, AnswerInv, ReachInv
    <2>2. ASSUME NEW p \in Targets, NEW c \in Cluster[p], Carries(ClusterTags(p, c)), ~missed
          PROVE  <<p, c>> \in muted
        <3>1. ClusterSupports(p, c)
            BY <2>2, SupportsCarries DEF ZoneInv
        <3>2. p \in VC \X DC /\ c \in Object
            BY ZoneConfigAssumption DEF Targets
        <3>3. <<p, c>> \in SupportingJobs
            BY <3>1, <3>2 DEF SupportingJobs, ClusterJobs, Jobs
        <3> QED
            BY <2>1, <2>2, <3>3 DEF AllMuted
    <2> QED
        BY <2>1, <2>2
<1>2. Spec => []NoZoneInv
    BY NoZoneInitial, NoZoneStep, ZoneInvariance, PTL DEF Spec
<1> QED
    BY <1>1, <1>2, ZoneInvariance, PTL
=============================================================================
