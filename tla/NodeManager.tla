----------------------------- MODULE NodeManager -----------------------------
(***************************************************************************)
(* The cloud controller manager's view of its nodes:                       *)
(* pkg/cloudprovider/vsphere nodemanager.go, instances.go, zones.go, the   *)
(* node listeners of cloud.go and the listing behind the gRPC server.      *)
(*                                                                         *)
(* Caller goroutines run the Instances and Zones calls, one goroutine runs *)
(* the informer's node events in order.  They share three indexes of       *)
(* NodeInfo records.  A discovery searches vCenter (module Lookup says     *)
(* what a search promises), reads the VM's properties and stores the       *)
(* record under nodeInfoLock; the calls read the indexes without it.       *)
(***************************************************************************)
EXTENDS Naturals, Sequences

CONSTANTS
    Caller, Informer,   \* the goroutines
    VM,                 \* BIOS UUIDs of VMs, as vCenter writes them
    Id,                 \* strings given as a UUID: VM and other spellings
    Malformed,          \* the Ids too short to be a UUID
    Lower,              \* [Id -> Id]: strings.ToLower
    Convert,            \* [Id -> Id]: ConvertK8sUUIDtoNormal (of well-formed Ids)
    Name, Fold,         \* host names, and [Name -> Name]: their lower case
    Loc,                \* places: a vCenter with a datacenter
    Node, SystemUUID,   \* Kubernetes nodes, and [Node -> Id]
    MaxCalls, MaxChanges, MaxNodeEvents, MaxCrashes,   \* bounds
    None

Thread == Caller \cup {Informer}

ASSUME IdAssumption ==
    /\ VM \subseteq Id \ Malformed
    /\ Lower \in [Id -> Id] /\ Convert \in [Id -> Id]
    /\ \A u \in VM : Lower[u] = u
    /\ \A a \in Id : Lower[Convert[a]] = Convert[a]
    /\ Fold \in [Name -> Name]
    /\ SystemUUID \in [Node -> Id]

ASSUME NMBoundAssumption ==
    /\ MaxCalls \in Nat /\ MaxChanges \in Nat
    /\ MaxNodeEvents \in Nat /\ MaxCrashes \in Nat

ASSUME NMNoneAssumption ==
    /\ None \notin Loc \cup Name \cup Id \cup Thread \cup Node
    /\ None \notin [uuid : VM, loc : Loc, name : Name \cup {None}]
    /\ Informer \notin Caller

(* NodeInfo, without the addresses and the instance type.  A discovery has *)
(* gathered part of it: the host name comes after the place.               *)
Info == [uuid : VM, loc : Loc, name : Name]
Partial == [uuid : VM, loc : Loc, name : Name \cup {None}]

ByName == {"NodeAddresses", "InstanceID"}
ById   == {"NodeAddressesByProviderID", "InstanceExistsByProviderID"}

VARIABLES
    vm,             \* environment: [VM -> [loc, name]], loc None when there is no such VM
    nodes,          \* environment: the Kubernetes nodes
    events,         \* [Node -> Seq]: node events the informer has still to deliver
    nodeNameMap, nodeUUIDMap, vcList, nodeRegUUIDMap,
    lock,           \* holder of nodeInfoLock
    pc, op, arg,    \* per goroutine: control point, call and argument
    retry,          \* per goroutine: is the converted UUID being tried
    di,             \* per goroutine: the discovery under way
    ret,            \* per goroutine: the last answer
    handling,       \* the node whose event the informer is handling
    up, fault,      \* is the process up; the panic that brought it down
    calls, changes, nodeEvents, crashes,   \* counters for the bounds
    seenLoc, seenName   \* history: where a VM has been and how it was called

cache    == <<nodeNameMap, nodeUUIDMap, vcList>>
inv      == <<vm, seenLoc, seenName, changes>>           \* vSphere
k8s      == <<nodes, nodeEvents>>                        \* Kubernetes
call     == <<op, arg, calls>>                \* the call being run
process  == <<up, fault, crashes, handling>>
vars == <<inv, k8s, events, cache, nodeRegUUIDMap, lock, pc, call, retry, di, ret, process>>

NoFault  == [op |-> "none", arg |-> None]
NoAnswer == [kind |-> "none", info |-> None]
Got(i)   == [kind |-> "info", info |-> i]
Yes      == [kind |-> "true", info |-> None]
No       == [kind |-> "false", info |-> None]
Err      == [kind |-> "error", info |-> None]
Answers  == {NoAnswer, Yes, No, Err} \cup {Got(i) : i \in Info}

(* The maps of a new process. *)
NoNames == [n \in Name |-> None]
NoIds   == [u \in Id |-> None]
NoTree  == [l \in Loc |-> [u \in VM |-> None]]

(* The VMs a search finds: by DNS name in any case, by UUID in lower case. *)
Matches(byName, a) ==
    IF byName THEN {u \in VM : Fold[vm[u].name] = Fold[a]}
              ELSE {u \in VM : u = Lower[a]}
Exists(u) == vm[u].loc # None

Init ==
    /\ vm \in [VM -> [loc : Loc \cup {None}, name : Name]]
    /\ nodes = {} /\ events = [n \in Node |-> <<>>]
    /\ nodeNameMap = NoNames /\ nodeUUIDMap = NoIds /\ vcList = NoTree
    /\ nodeRegUUIDMap = NoIds
    /\ lock = None
    /\ pc = [t \in Thread |-> "idle"]
    /\ op = [t \in Thread |-> "none"] /\ arg = [t \in Thread |-> None]
    /\ retry = [t \in Thread |-> FALSE]
    /\ di = [t \in Thread |-> None]
    /\ ret = [t \in Thread |-> NoAnswer]
    /\ up = TRUE /\ fault = NoFault /\ handling = None
    /\ calls = 0 /\ changes = 0 /\ nodeEvents = 0 /\ crashes = 0
    /\ seenLoc = [u \in VM |-> {vm[u].loc} \ {None}]
    /\ seenName = [u \in VM |-> {vm[u].name}]

-----------------------------------------------------------------------------
(* The Instances and Zones calls, up to their first unlocked index read. *)

Begin(t, o, a) ==
    /\ up /\ pc[t] = "idle" /\ calls < MaxCalls
    /\ calls' = calls + 1
    /\ op' = [op EXCEPT ![t] = o] /\ arg' = [arg EXCEPT ![t] = a]
    /\ UNCHANGED <<inv, k8s, events, cache, nodeRegUUIDMap, lock, retry, di, crashes, handling>>

Answer(t, r) ==
    /\ ret' = [ret EXCEPT ![t] = r] /\ pc' = [pc EXCEPT ![t] = "idle"]

Goto(t, label) == pc' = [pc EXCEPT ![t] = label] /\ UNCHANGED ret

(* A nil or out-of-range dereference takes the whole process down. *)
Panic(o, a) ==
    /\ up' = FALSE /\ fault' = [op |-> o, arg |-> a]
    /\ UNCHANGED <<pc, ret>>

(* NodeAddresses, InstanceID (and ExternalID, which calls it). *)
CallByName(t, o, n) ==
    /\ Begin(t, o, n)
    /\ IF nodeNameMap[n] # None THEN Answer(t, Got(nodeNameMap[n])) ELSE Goto(t, "lookup")
    /\ UNCHANGED <<up, fault>>

(* NodeAddressesByProviderID, InstanceExistsByProviderID. *)
CallById(t, o, a) ==
    /\ Begin(t, o, a)
    /\ IF nodeUUIDMap[a] = None THEN Goto(t, "lookup")
       ELSE Answer(t, IF o = "InstanceExistsByProviderID" THEN Yes ELSE Got(nodeUUIDMap[a]))
    /\ UNCHANGED <<up, fault>>

(* InstanceType and InstanceTypeByProviderID dereference the entry as it is. *)
InstanceType(t, o, a, entry) ==
    /\ Begin(t, o, a) /\ entry # None
    /\ Answer(t, Got(entry))
    /\ UNCHANGED <<up, fault>>

InstanceTypePanic(t, o, a, entry) ==
    /\ Begin(t, o, a) /\ entry = None
    /\ Panic(o, a)

(* GetZone, GetZoneByNodeName, GetZoneByProviderID: the entry's VM is used *)
(* for remote calls, any of which may fail.                                *)
GetZone(t, o, a, entry) ==
    /\ Begin(t, o, a)
    /\ \/ entry # None /\ Answer(t, Got(entry))
       \/ Answer(t, Err)
    /\ UNCHANGED <<up, fault>>

-----------------------------------------------------------------------------
(* DiscoverNode, run by a call or by the informer. *)

SearchByName(t) == op[t] \in ByName

(* The two places of a goroutine's return from a failed DiscoverNode.      *)
(* RegisterNode ignores the error, InstanceExistsByProviderID says "no".   *)
DiscoverFails(t) ==
    CASE op[t] = "RegisterNode"               -> Goto(t, "addNode")
      [] op[t] = "InstanceExistsByProviderID" -> Answer(t, No)
      [] OTHER                                -> Answer(t, Err)

(* Mutant of LookupHit: the location is published before the host name. *)
LookupHitEarly(t) ==
    /\ up /\ pc[t] = "lookup"
    /\ \E u \in Matches(SearchByName(t), IF retry[t] THEN Convert[arg[t]] ELSE arg[t]) :
          /\ Exists(u)
          /\ di' = [di EXCEPT ![t] = [uuid |-> u, loc |-> vm[u].loc, name |-> None]]
    /\ Goto(t, "properties")
    /\ UNCHANGED <<inv, k8s, events, cache, nodeRegUUIDMap, lock, call, retry, process>>

(* WhichVCandDCByNodeID reaches a datacenter that holds a matching VM ... *)
LookupHit(t) ==
    /\ up /\ pc[t] = "lookup"
    /\ \E u \in Matches(SearchByName(t), IF retry[t] THEN Convert[arg[t]] ELSE arg[t]) :
          /\ Exists(u)
          /\ di' = [di EXCEPT ![t] = [uuid |-> u, loc |-> vm[u].loc, name |-> None]]
    /\ Goto(t, "name")
    /\ UNCHANGED <<inv, k8s, events, cache, nodeRegUUIDMap, lock, call, retry, process>>

(* Mutant of LookupName: the node is stored under the name asked for. *)
LookupNameAsked(t) ==
    /\ up /\ pc[t] = "name" /\ Exists(di[t].uuid)
    /\ di' = [di EXCEPT ![t].name = IF SearchByName(t) THEN arg[t] ELSE vm[di[t].uuid].name]
    /\ retry' = [retry EXCEPT ![t] = FALSE]
    /\ Goto(t, "properties")
    /\ UNCHANGED <<inv, k8s, events, cache, nodeRegUUIDMap, lock, call, process>>

(* ... and then reads its UUID and host name. *)
LookupName(t) ==
    /\ up /\ pc[t] = "name" /\ Exists(di[t].uuid)
    /\ di' = [di EXCEPT ![t].name = vm[di[t].uuid].name]
    /\ retry' = [retry EXCEPT ![t] = FALSE]
    /\ Goto(t, "properties")
    /\ UNCHANGED <<inv, k8s, events, cache, nodeRegUUIDMap, lock, call, process>>

(* The search finds nothing or fails.  shakeOutNodeIDLookup then tries the *)
(* converted form of a UUID, once; converting a short string panics.       *)
LookupMiss(t) ==
    /\ up /\ pc[t] \in {"lookup", "name"}
    /\ SearchByName(t) \/ retry[t]
    /\ DiscoverFails(t)
    /\ di' = [di EXCEPT ![t] = None] /\ retry' = [retry EXCEPT ![t] = FALSE]
    /\ UNCHANGED <<inv, k8s, events, cache, nodeRegUUIDMap, lock, call, process>>

LookupRetry(t) ==
    /\ up /\ pc[t] \in {"lookup", "name"}
    /\ ~SearchByName(t) /\ ~retry[t] /\ arg[t] \notin Malformed
    /\ Goto(t, "lookup")
    /\ di' = [di EXCEPT ![t] = None] /\ retry' = [retry EXCEPT ![t] = TRUE]
    /\ UNCHANGED <<inv, k8s, events, cache, nodeRegUUIDMap, lock, call, process>>

LookupPanic(t) ==
    /\ up /\ pc[t] \in {"lookup", "name"}
    /\ ~SearchByName(t) /\ ~retry[t] /\ arg[t] \in Malformed
    /\ Panic(op[t], arg[t])
    /\ UNCHANGED <<inv, k8s, events, cache, nodeRegUUIDMap, lock, call, retry, di,
                   crashes, handling>>

(* DiscoverNode's own property read, of the addresses and instance type. *)
PropertiesOK(t) ==
    /\ up /\ pc[t] = "properties" /\ Exists(di[t].uuid)
    /\ Goto(t, "store")
    /\ UNCHANGED <<inv, k8s, events, cache, nodeRegUUIDMap, lock, call, retry, di, process>>

PropertiesFail(t) ==
    /\ up /\ pc[t] = "properties"
    /\ di' = [di EXCEPT ![t] = None]
    /\ DiscoverFails(t)
    /\ UNCHANGED <<inv, k8s, events, cache, nodeRegUUIDMap, lock, call, retry, process>>

(* addNodeInfo: under nodeInfoLock, but a reader without the lock can come *)
(* between the writes.                                                     *)
StoreName(t) ==
    /\ up /\ pc[t] = "store" /\ lock = None
    /\ lock' = t
    /\ nodeNameMap' = [nodeNameMap EXCEPT ![di[t].name] = di[t]]
    /\ Goto(t, "storeUUID")
    /\ UNCHANGED <<inv, k8s, events, nodeUUIDMap, vcList, nodeRegUUIDMap, call,
                   retry, di, process>>

(* Mutant of StoreUUID: the record is stored under the ID asked for. *)
StoreUUIDAsked(t) ==
    /\ up /\ pc[t] = "storeUUID"
    /\ nodeUUIDMap' = [nodeUUIDMap EXCEPT ![IF op[t] \in ById THEN arg[t] ELSE di[t].uuid] = di[t]]
    /\ Goto(t, "storeVC")
    /\ UNCHANGED <<inv, k8s, events, nodeNameMap, vcList, nodeRegUUIDMap, lock, call,
                   retry, di, process>>

StoreUUID(t) ==
    /\ up /\ pc[t] = "storeUUID"
    /\ nodeUUIDMap' = [nodeUUIDMap EXCEPT ![di[t].uuid] = di[t]]
    /\ Goto(t, "storeVC")
    /\ UNCHANGED <<inv, k8s, events, nodeNameMap, vcList, nodeRegUUIDMap, lock, call,
                   retry, di, process>>

(* Mutants of StoreVC: an entry is only added where there is none, and the *)
(* unlock is forgotten.                                                    *)
StoreVCOnce(t) ==
    /\ up /\ pc[t] = "storeVC"
    /\ vcList' = [vcList EXCEPT ![di[t].loc][di[t].uuid] = IF @ = None THEN di[t] ELSE @]
    /\ lock' = None
    /\ di' = [di EXCEPT ![t] = None]
    /\ Goto(t, IF op[t] = "RegisterNode" THEN "addNode" ELSE "discovered")
    /\ UNCHANGED <<inv, k8s, events, nodeNameMap, nodeUUIDMap, nodeRegUUIDMap, call,
                   retry, process>>

StoreVCLocked(t) ==
    /\ up /\ pc[t] = "storeVC"
    /\ vcList' = [vcList EXCEPT ![di[t].loc][di[t].uuid] = di[t]]
    /\ di' = [di EXCEPT ![t] = None]
    /\ Goto(t, IF op[t] = "RegisterNode" THEN "addNode" ELSE "discovered")
    /\ UNCHANGED <<inv, k8s, events, nodeNameMap, nodeUUIDMap, nodeRegUUIDMap, lock,
                   call, retry, process>>

(* AddNodeInfoToVCList, and the unlock. *)
StoreVC(t) ==
    /\ up /\ pc[t] = "storeVC"
    /\ vcList' = [vcList EXCEPT ![di[t].loc][di[t].uuid] = di[t]]
    /\ lock' = None
    /\ di' = [di EXCEPT ![t] = None]
    /\ Goto(t, IF op[t] = "RegisterNode" THEN "addNode" ELSE "discovered")
    /\ UNCHANGED <<inv, k8s, events, nodeNameMap, nodeUUIDMap, nodeRegUUIDMap, call,
                   retry, process>>

(* Mutant of Discovered: no call looks for nil. *)
DiscoveredUnchecked(t) ==
    /\ up /\ pc[t] = "discovered"
    /\ CASE op[t] = "InstanceExistsByProviderID" -> Answer(t, Yes)
         [] OTHER                                -> Goto(t, "deref")
    /\ UNCHANGED <<inv, k8s, events, cache, nodeRegUUIDMap, lock, call, retry, di, process>>

(* After a successful discovery: the calls by name look for nil, the calls *)
(* by provider ID do not.                                                  *)
Discovered(t) ==
    /\ up /\ pc[t] = "discovered"
    /\ CASE op[t] \in ByName /\ nodeNameMap[arg[t]] = None -> Answer(t, Err)
         [] op[t] = "InstanceExistsByProviderID"           -> Answer(t, Yes)
         [] OTHER                                          -> Goto(t, "deref")
    /\ UNCHANGED <<inv, k8s, events, cache, nodeRegUUIDMap, lock, call, retry, di, process>>

(* The index is read a second time and the entry dereferenced. *)
Entry(t) == IF op[t] \in ByName THEN nodeNameMap[arg[t]] ELSE nodeUUIDMap[arg[t]]

Deref(t) ==
    /\ up /\ pc[t] = "deref" /\ Entry(t) # None
    /\ Answer(t, Got(Entry(t)))
    /\ UNCHANGED <<inv, k8s, events, cache, nodeRegUUIDMap, lock, call, retry, di, process>>

DerefPanic(t) ==
    /\ up /\ pc[t] = "deref" /\ Entry(t) = None
    /\ Panic(op[t], arg[t])
    /\ UNCHANGED <<inv, k8s, events, cache, nodeRegUUIDMap, lock, call, retry, di,
                   crashes, handling>>

-----------------------------------------------------------------------------
(* The informer's goroutine: nodeAdded / RegisterNode and nodeDeleted /    *)
(* UnregisterNode, one event at a time.                                    *)

Deliver(n, e) ==
    /\ up /\ pc[Informer] = "idle"
    /\ events[n] # <<>> /\ Head(events[n]) = e
    /\ events' = [events EXCEPT ![n] = Tail(@)]

NodeAdded(n) ==
    /\ Deliver(n, "add") /\ SystemUUID[n] \notin Malformed
    /\ op' = [op EXCEPT ![Informer] = "RegisterNode"]
    /\ arg' = [arg EXCEPT ![Informer] = Convert[SystemUUID[n]]]
    /\ handling' = n
    /\ Goto(Informer, "lookup")
    /\ UNCHANGED <<inv, k8s, cache, nodeRegUUIDMap, lock, calls, retry, di, up, fault, crashes>>

(* Mutant of AddNode: the node is registered under its raw UUID. *)
AddNodeRaw ==
    /\ up /\ pc[Informer] = "addNode"
    /\ nodeRegUUIDMap' = [nodeRegUUIDMap EXCEPT ![SystemUUID[handling]] = handling]
    /\ handling' = None
    /\ Goto(Informer, "idle")
    /\ UNCHANGED <<inv, k8s, events, cache, lock, call, retry, di, up, fault, crashes>>

(* addNode, the end of RegisterNode, whether or not the VM was found. *)
AddNode ==
    /\ up /\ pc[Informer] = "addNode"
    /\ nodeRegUUIDMap' = [nodeRegUUIDMap EXCEPT ![arg[Informer]] = handling]
    /\ handling' = None
    /\ Goto(Informer, "idle")
    /\ UNCHANGED <<inv, k8s, events, cache, lock, call, retry, di, up, fault, crashes>>

NodeDeleted(n) ==
    /\ Deliver(n, "delete") /\ SystemUUID[n] \notin Malformed
    /\ nodeRegUUIDMap' = [nodeRegUUIDMap EXCEPT ![Convert[SystemUUID[n]]] = None]
    /\ UNCHANGED <<inv, k8s, cache, lock, pc, call, retry, di, ret, process>>

(* Either handler panics on a node whose system UUID is too short. *)
NodeEventPanic(n, e, handler) ==
    /\ Deliver(n, e) /\ SystemUUID[n] \in Malformed
    /\ Panic(handler, SystemUUID[n])
    /\ UNCHANGED <<inv, k8s, cache, nodeRegUUIDMap, lock, call, retry, di, crashes, handling>>

(* A deletion the watch missed arrives as a DeletedFinalStateUnknown,      *)
(* which nodeDeleted does not recognise.                                   *)
NodeDeletedUnknown(n) ==
    /\ Deliver(n, "tombstone")
    /\ UNCHANGED <<inv, k8s, cache, nodeRegUUIDMap, lock, pc, call, retry, di, ret, process>>

-----------------------------------------------------------------------------
(* The environment. *)

(* A VM is created, moved, renamed or destroyed. *)
VMChange(u, l, n) ==
    /\ changes < MaxChanges
    /\ vm[u] # [loc |-> l, name |-> n]
    /\ vm' = [vm EXCEPT ![u] = [loc |-> l, name |-> n]]
    /\ changes' = changes + 1
    /\ seenLoc' = [seenLoc EXCEPT ![u] = @ \cup ({l} \ {None})]
    /\ seenName' = [seenName EXCEPT ![u] = @ \cup {n}]
    /\ UNCHANGED <<k8s, events, cache, nodeRegUUIDMap, lock, pc, call, retry, di, ret, process>>

K8sAddNode(n) ==
    /\ n \notin nodes /\ nodeEvents < MaxNodeEvents
    /\ nodes' = nodes \cup {n} /\ nodeEvents' = nodeEvents + 1
    /\ events' = [events EXCEPT ![n] = Append(@, "add")]
    /\ UNCHANGED <<inv, cache, nodeRegUUIDMap, lock, pc, call, retry, di, ret, process>>

K8sDeleteNode(n, how) ==
    /\ n \in nodes /\ nodeEvents < MaxNodeEvents
    /\ nodes' = nodes \ {n} /\ nodeEvents' = nodeEvents + 1
    /\ events' = [events EXCEPT ![n] = Append(@, how)]
    /\ UNCHANGED <<inv, cache, nodeRegUUIDMap, lock, pc, call, retry, di, ret, process>>

(* The process is killed, or the Go runtime stops it because an unlocked   *)
(* index read ran into a write of addNodeInfo.                             *)
Crash ==
    /\ up /\ crashes < MaxCrashes
    /\ up' = FALSE /\ crashes' = crashes + 1
    /\ UNCHANGED <<inv, k8s, events, cache, nodeRegUUIDMap, lock, pc, call, retry, di,
                   ret, fault, handling>>

(* Mutant of Restart: the nodes that exist already are not listed. *)
RestartBlind ==
    /\ ~up
    /\ up' = TRUE /\ fault' = NoFault /\ handling' = None
    /\ nodeNameMap' = NoNames /\ nodeUUIDMap' = NoIds /\ vcList' = NoTree
    /\ nodeRegUUIDMap' = NoIds
    /\ lock' = None
    /\ events' = [n \in Node |-> <<>>]
    /\ pc' = [t \in Thread |-> "idle"]
    /\ op' = [t \in Thread |-> "none"] /\ arg' = [t \in Thread |-> None]
    /\ retry' = [t \in Thread |-> FALSE] /\ di' = [t \in Thread |-> None]
    /\ ret' = [t \in Thread |-> NoAnswer]
    /\ UNCHANGED <<inv, k8s, calls, crashes>>

(* A new process starts empty and its informer lists the nodes again. *)
Restart ==
    /\ ~up
    /\ up' = TRUE /\ fault' = NoFault /\ handling' = None
    /\ nodeNameMap' = NoNames /\ nodeUUIDMap' = NoIds /\ vcList' = NoTree
    /\ nodeRegUUIDMap' = NoIds
    /\ lock' = None
    /\ events' = [n \in Node |-> IF n \in nodes THEN <<"add">> ELSE <<>>]
    /\ pc' = [t \in Thread |-> "idle"]
    /\ op' = [t \in Thread |-> "none"] /\ arg' = [t \in Thread |-> None]
    /\ retry' = [t \in Thread |-> FALSE] /\ di' = [t \in Thread |-> None]
    /\ ret' = [t \in Thread |-> NoAnswer]
    /\ UNCHANGED <<inv, k8s, calls, crashes>>

-----------------------------------------------------------------------------
Call(t) ==
    \/ \E o \in ByName, n \in Name : CallByName(t, o, n)
    \/ \E o \in ById, a \in Id : CallById(t, o, a)
    \/ \E n \in Name :
          \/ InstanceType(t, "InstanceType", n, nodeNameMap[n])
          \/ InstanceTypePanic(t, "InstanceType", n, nodeNameMap[n])
          \/ GetZone(t, "GetZoneByNodeName", n, nodeNameMap[n])
    \/ \E a \in Id :
          \/ InstanceType(t, "InstanceTypeByProviderID", a, nodeUUIDMap[a])
          \/ InstanceTypePanic(t, "InstanceTypeByProviderID", a, nodeUUIDMap[a])
          \/ GetZone(t, "GetZoneByProviderID", a, nodeUUIDMap[a])

Step(t) == \/ LookupHit(t) \/ LookupName(t)
           \/ LookupMiss(t) \/ LookupRetry(t) \/ LookupPanic(t)
           \/ PropertiesOK(t) \/ PropertiesFail(t)
           \/ StoreName(t) \/ StoreUUID(t) \/ StoreVC(t)
           \/ Discovered(t) \/ Deref(t) \/ DerefPanic(t)

InformerStep ==
    \/ AddNode
    \/ \E n \in Node : \/ NodeAdded(n) \/ NodeDeleted(n) \/ NodeDeletedUnknown(n)
                       \/ NodeEventPanic(n, "add", "RegisterNode")
                       \/ NodeEventPanic(n, "delete", "UnregisterNode")

Environment ==
    \/ \E u \in VM, l \in Loc \cup {None}, n \in Name : VMChange(u, l, n)
    \/ \E n \in Node : K8sAddNode(n)
    \/ \E n \in Node, how \in {"delete", "tombstone"} : K8sDeleteNode(n, how)
    \/ Crash

Next == \/ \E t \in Caller : Call(t)
        \/ \E t \in Thread : Step(t)
        \/ InformerStep \/ Restart \/ Environment

(* Fairness: every goroutine runs on, every remote call returns, and       *)
(* Kubernetes restarts the process.                                        *)
Fairness == /\ \A t \in Thread : WF_vars(Step(t))
            /\ WF_vars(InformerStep) /\ WF_vars(Restart)

Spec     == Init /\ [][Next]_vars
FairSpec == Spec /\ Fairness

-----------------------------------------------------------------------------
(* ExportNodes over the VC -> DC -> VM tree, as ListNodes calls it with no *)
(* vCenter: every entry of every datacenter, read under nodeInfoLock.      *)
ExportNodes == UNION {{vcList[l][u] : u \in VM} \ {None} : l \in Loc}

(* Properties. *)

Labels == {"idle", "lookup", "name", "properties", "store", "storeUUID", "storeVC",
           "discovered", "deref", "addNode"}
Ops == ByName \cup ById \cup
       {"none", "InstanceType", "InstanceTypeByProviderID", "GetZoneByNodeName",
        "GetZoneByProviderID", "RegisterNode", "UnregisterNode"}

TypeOK ==
    /\ vm \in [VM -> [loc : Loc \cup {None}, name : Name]]
    /\ nodes \in SUBSET Node
    /\ events \in [Node -> Seq({"add", "delete", "tombstone"})]
    /\ nodeNameMap \in [Name -> Info \cup {None}]
    /\ nodeUUIDMap \in [Id -> Info \cup {None}]
    /\ vcList \in [Loc -> [VM -> Info \cup {None}]]
    /\ nodeRegUUIDMap \in [Id -> Node \cup {None}]
    /\ lock \in Thread \cup {None}
    /\ pc \in [Thread -> Labels] /\ op \in [Thread -> Ops]
    /\ arg \in [Thread -> Id \cup Name \cup {None}]
    /\ retry \in [Thread -> BOOLEAN]
    /\ di \in [Thread -> Partial \cup {None}]
    /\ ret \in [Thread -> Answers]
    /\ handling \in Node \cup {None}
    /\ up \in BOOLEAN
    /\ fault \in [op : Ops, arg : Id \cup Name \cup {None}]
    /\ seenLoc \in [VM -> SUBSET Loc] /\ seenName \in [VM -> SUBSET Name]
    /\ calls \in 0..MaxCalls /\ changes \in 0..MaxChanges
    /\ nodeEvents \in 0..MaxNodeEvents /\ crashes \in 0..MaxCrashes

(* The three indexes describe one set of nodes whenever nodeInfoLock is    *)
(* free: an entry sits under its own name, UUID and place, the name index  *)
(* leads to a known UUID, and the entry of a UUID is also the one the tree *)
(* shows (nodemanager.go:78-85, 253-271).                                  *)
IndexAgreement ==
    lock = None =>
        /\ \A n \in Name : nodeNameMap[n] # None =>
              nodeNameMap[n].name = n /\ nodeUUIDMap[nodeNameMap[n].uuid] # None
        /\ \A u \in Id : nodeUUIDMap[u] # None =>
              /\ nodeUUIDMap[u].uuid = u
              /\ vcList[nodeUUIDMap[u].loc][u] = nodeUUIDMap[u]
        /\ \A l \in Loc, u \in VM : vcList[l][u] # None =>
              /\ vcList[l][u].uuid = u /\ vcList[l][u].loc = l
              /\ nodeUUIDMap[u] # None

(* Whatever a discovery raced with, an entry is made of things that were   *)
(* true: its VM has been in that place and has had that host name          *)
(* (nodemanager.go:130-192).                                               *)
EntriesOnceTrue ==
    /\ \A i \in ExportNodes : i.loc \in seenLoc[i.uuid] /\ i.name \in seenName[i.uuid]
    /\ \A t \in Thread : ret[t].kind = "info" =>
          LET i == ret[t].info IN i.loc \in seenLoc[i.uuid] /\ i.name \in seenName[i.uuid]

(* The calls by name never dereference a missing entry, and                *)
(* NodeAddressesByProviderID only does when the ID it was given is not     *)
(* the UUID vCenter writes for the VM it found: it is another spelling, or *)
(* the reversed UUID of another VM (instances.go:56-63, 82-84).            *)
PanicsExplained ==
    /\ fault.op \notin ByName
    /\ fault.op \in ById /\ fault.arg \in VM => Convert[fault.arg] \in VM

(* Once the informer has handled a node's events, a node of the cluster is *)
(* registered under its converted UUID, through deletions, re-creations    *)
(* and restarts, unless another node has the same UUID                     *)
(* (nodemanager.go:62-76, 87-99).                                          *)
SharesUUID(n) == \E m \in Node \ {n} : Convert[SystemUUID[m]] = Convert[SystemUUID[n]]
RegistrationSettled ==
    up /\ pc[Informer] = "idle" =>
        \A n \in nodes : \/ events[n] # <<>>
                         \/ SharesUUID(n)
                         \/ nodeRegUUIDMap[Convert[SystemUUID[n]]] = n

NameOps == ByName \cup {"InstanceType", "GetZoneByNodeName"}
IdOps   == ById \cup {"InstanceTypeByProviderID", "GetZoneByProviderID"}

Known(u) == \/ nodeUUIDMap[u] # None
            \/ \E x \in Thread : pc[x] = "storeUUID" /\ di[x].uuid = u

Existed(a) == \E u \in VM : u \in {Lower[a], Convert[a]} /\ seenLoc[u] # {}

Answered(t) ==
    /\ ret[t].kind = "info" =>
          /\ op[t] \in NameOps => ret[t].info.name = arg[t]
          /\ op[t] \in IdOps => ret[t].info.uuid = arg[t]
          /\ Known(ret[t].info.uuid)
    /\ ret[t] = Yes => Existed(arg[t])

(* What a goroutine is told is about the node it asked for, although it    *)
(* reads the indexes without the lock, between the writes of others and    *)
(* again after its own discovery, which may have found another VM: the     *)
(* record has the name or UUID asked for, and the UUID index knows its VM  *)
(* or is about to; "exists" is only said if a VM of the UUID asked for, or *)
(* of its converted form, existed once (instances.go:36-187,               *)
(* nodemanager.go:78-85).                                                  *)
AnswersAsked == up => \A t \in Caller : pc[t] = "idle" => Answered(t)

(* Every call and every event handler comes to an end: the lock is always  *)
(* released and no lookup is retried for ever (nodemanager.go:101-192).    *)
CallsReturn == \A t \in Thread : (pc[t] # "idle") ~> (pc[t] = "idle")

(* A node of the cluster ends up registered, or leaves the cluster, even   *)
(* when the process dies in between (cloud.go:165-187).                    *)
NodesRegistered ==
    (\A n \in Node : SystemUUID[n] \notin Malformed) =>
        \A n \in Node :
            n \in nodes ~> (n \notin nodes \/ nodeRegUUIDMap[Convert[SystemUUID[n]]] = n)
=============================================================================
