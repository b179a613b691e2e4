------------------------- MODULE NodeManagerProofs -------------------------
(* Proofs of the properties of module NodeManager, for any number of       *)
(* goroutines, VMs, identifiers, names, places and Kubernetes nodes.       *)
EXTENDS NodeManager, SequenceTheorems, TLAPS

(* The control points at which a goroutine has located a VM, has also read *)
(* its host name, and holds nodeInfoLock.                                  *)
Located == {"name", "properties", "store", "storeUUID", "storeVC"}
Named   == {"properties", "store", "storeUUID", "storeVC"}
Locked  == {"storeUUID", "storeVC"}

(* A goroutine in the middle of something is running one of the calls that *)
(* discover nodes, with an argument of the right kind; it holds the lock   *)
(* exactly between its writes.                                             *)
ControlInv ==
    /\ \A t \in Thread :
        /\ op[t] \in ByName => arg[t] \in Name
        /\ op[t] \in ById \cup {"RegisterNode"} => arg[t] \in Id
        /\ pc[t] # "idle" => op[t] \in ByName \cup ById \cup {"RegisterNode"}
        /\ pc[t] # "idle" /\ op[t] = "RegisterNode" => t = Informer
        /\ pc[t] = "addNode" => op[t] = "RegisterNode"
        /\ pc[t] \in {"discovered", "deref"} => op[t] # "RegisterNode"
        /\ pc[t] \in Located => di[t] \in Partial
        /\ pc[t] \in Named => di[t] \in Info
        /\ pc[t] \in Locked <=> lock = t
        /\ retry[t] => pc[t] \in {"lookup", "name"} /\ arg[t] \in Id \ Malformed
    /\ pc[Informer] # "idle" => op[Informer] = "RegisterNode"
    /\ pc[Informer] = "idle" <=> handling = None
    /\ handling # None => arg[Informer] = Convert[SystemUUID[handling]]

(* IndexAgreement, with what is still missing while the lock is held. *)
IndexInv ==
    /\ \A n \in Name : nodeNameMap[n] # None =>
        /\ nodeNameMap[n].name = n
        /\ \/ nodeUUIDMap[nodeNameMap[n].uuid] # None
           \/ \E t \in Thread : pc[t] = "storeUUID" /\ di[t].uuid = nodeNameMap[n].uuid
    /\ \A u \in Id : nodeUUIDMap[u] # None =>
        /\ nodeUUIDMap[u].uuid = u
        /\ \/ vcList[nodeUUIDMap[u].loc][u] = nodeUUIDMap[u]
           \/ \E t \in Thread : pc[t] = "storeVC" /\ di[t] = nodeUUIDMap[u]
    /\ \A l \in Loc, u \in VM : vcList[l][u] # None =>
        /\ vcList[l][u].uuid = u /\ vcList[l][u].loc = l
        /\ nodeUUIDMap[u] # None
    /\ \A t \in Thread : pc[t] = "storeVC" => nodeUUIDMap[di[t].uuid] = di[t]

(* Every record, stored, returned or in the making, was true once. *)
Seen(i) == i.loc \in seenLoc[i.uuid] /\ i.name \in seenName[i.uuid]
TruthInv ==
    /\ \A u \in VM : /\ vm[u].loc \in seenLoc[u] \cup {None}
                     /\ vm[u].name \in seenName[u]
    /\ \A n \in Name : nodeNameMap[n] # None => Seen(nodeNameMap[n])
    /\ \A u \in Id : nodeUUIDMap[u] # None => Seen(nodeUUIDMap[u])
    /\ \A l \in Loc, u \in VM : vcList[l][u] # None => Seen(vcList[l][u])
    /\ \A t \in Thread : pc[t] \in Located => di[t].loc \in seenLoc[di[t].uuid]
    /\ \A t \in Thread : pc[t] \in Named => di[t].name \in seenName[di[t].uuid]
    /\ \A t \in Thread : ret[t].kind = "info" => Seen(ret[t].info)

(* A call by provider ID whose ID can only mean the VM of that UUID. *)
Plain(t) == op[t] \in ById /\ arg[t] \in VM /\ Convert[arg[t]] \notin VM
(* Why a dereference after a discovery finds an entry. *)
FaultInv ==
    /\ \A t \in Thread :
        /\ pc[t] = "deref" /\ op[t] \in ByName => nodeNameMap[arg[t]] # None
        /\ pc[t] \in Located /\ Plain(t) => di[t].uuid = arg[t]
        /\ pc[t] \in {"discovered", "deref"} /\ Plain(t) => nodeUUIDMap[arg[t]] # None
    /\ PanicsExplained

(* Where a node of the cluster is on its way to being registered. *)
LastEvent(n) == events[n][Len(events[n])]
RegInv ==
    /\ \A n \in Node : events[n] # <<>> => (LastEvent(n) = "add" <=> n \in nodes)
    /\ up => \A n \in nodes : \/ events[n] # <<>>
                              \/ SharesUUID(n)
                              \/ handling = n
                              \/ nodeRegUUIDMap[Convert[SystemUUID[n]]] = n

IndInv == TypeOK /\ ControlInv /\ IndexInv /\ TruthInv /\ FaultInv /\ RegInv

-----------------------------------------------------------------------------
(* None is no record, no UUID and no name, and a VM's UUID is an Id. *)
LEMMA NoneFacts ==
    /\ None \notin Info /\ None \notin Partial /\ Info \subseteq Partial
    /\ VM \subseteq Id
    /\ None \notin Thread /\ Informer \in Thread /\ Caller \subseteq Thread
    BY IdAssumption, NMNoneAssumption DEF Info, Partial, Thread

(* Every answer the calls give is one of Answers. *)
LEMMA AnswerFacts ==
    /\ NoAnswer \in Answers /\ Yes \in Answers /\ No \in Answers /\ Err \in Answers
    /\ \A i \in Info : Got(i) \in Answers
    BY DEF Answers

(* Only Got carries a record. *)
LEMMA AnswerKinds ==
    /\ Yes.kind # "info" /\ No.kind # "info" /\ Err.kind # "info" /\ NoAnswer.kind # "info"
    /\ \A i : Got(i).kind = "info" /\ Got(i).info = i
    BY DEF NoAnswer, Yes, No, Err, Got

(* The types of the answers and labels, which every call ends by changing. *)
RetPcOK == ret \in [Thread -> Answers] /\ pc \in [Thread -> Labels]

(* Answering keeps the types of ret and pc. *)
LEMMA AnswerType ==
    ASSUME RetPcOK, NEW t \in Thread, NEW r \in Answers, Answer(t, r)
    PROVE  RetPcOK'
    BY DEF RetPcOK, Answer, Labels

(* Going to a label keeps the types of ret and pc. *)
LEMMA GotoType ==
    ASSUME RetPcOK, NEW t \in Thread, NEW label \in Labels, Goto(t, label)
    PROVE  RetPcOK'
    BY DEF RetPcOK, Goto

(* So does the return from a failed discovery. *)
LEMMA DiscoverFailsType ==
    ASSUME RetPcOK, NEW t \in Thread, DiscoverFails(t)
    PROVE  RetPcOK'
<1>1. CASE Goto(t, "addNode")
    BY <1>1, GotoType, "addNode" \in Labels DEF Labels
<1>2. CASE Answer(t, No)
    BY <1>2, AnswerType, AnswerFacts
<1>3. CASE Answer(t, Err)
    BY <1>3, AnswerType, AnswerFacts
<1>. QED
    BY <1>1, <1>2, <1>3 DEF DiscoverFails

(* An event that is added is the last one. *)
LEMMA LastAppend ==
    ASSUME NEW S, NEW s \in Seq(S), NEW e \in S
    PROVE  /\ Append(s, e) \in Seq(S) /\ Append(s, e) # <<>>
           /\ Append(s, e)[Len(Append(s, e))] = e
    OBVIOUS

(* Taking an event leaves the last event the last one. *)
LEMMA LastTail ==
    ASSUME NEW S, NEW s \in Seq(S), s # <<>>
    PROVE  /\ Tail(s) \in Seq(S) /\ Head(s) \in S
           /\ Tail(s) = <<>> => s[Len(s)] = Head(s)
           /\ Tail(s) # <<>> => Tail(s)[Len(Tail(s))] = s[Len(s)]
<1>1. /\ Head(s) \in S /\ Head(s) = s[1] /\ Tail(s) \in Seq(S) /\ Len(s) \in Nat
      /\ Len(Tail(s)) = Len(s) - 1
      /\ \A i \in 1..(Len(s) - 1) : Tail(s)[i] = s[i + 1]
    OBVIOUS
<1>2. ASSUME Tail(s) = <<>> PROVE Len(s) = 1
    <2>1. Len(Tail(s)) = 0
        BY ONLY <1>2, EmptySeq
    <2>2. \A n \in Nat : n - 1 = 0 => n = 1
        OBVIOUS
    <2>3. Len(s) \in Nat /\ Len(s) - 1 = 0
        BY ONLY <1>1, <2>1, Zenon
    <2>. QED
        BY ONLY <2>2, <2>3, Zenon
<1>3. ASSUME Tail(s) # <<>> PROVE Tail(s)[Len(Tail(s))] = s[Len(s)]
    <2>1. Len(Tail(s)) \in Nat /\ Len(Tail(s)) > 0
        BY <1>1, <1>3
    <2>2. Len(Tail(s)) \in 1..(Len(s) - 1) /\ Len(Tail(s)) + 1 = Len(s)
        BY <1>1, <2>1
    <2>. QED
        BY <1>1, <2>2
<1>. QED
    BY <1>1, <1>2, <1>3

(* A call by node name preserves every part of the invariant. *)
LEMMA CallByNameStep ==
    ASSUME IndInv, NEW t \in Caller, NEW o \in ByName, NEW n \in Name,
           CallByName(t, o, n)
    PROVE  IndInv'
<1> USE DEF inv, k8s, cache, call, process, CallByName, Begin, Answer, Goto
<1>1. TypeOK'
    <2>1. calls' \in 0..MaxCalls
        <3>1. calls \in 0..MaxCalls /\ calls < MaxCalls /\ calls' = calls + 1
            BY DEF IndInv, TypeOK
        <3>. QED
            BY <3>1, NMBoundAssumption
    <2>2. RetPcOK'
        <3>1. RetPcOK
            BY DEF IndInv, TypeOK, RetPcOK
        <3>2. CASE nodeNameMap[n] # None
            <4>1. Got(nodeNameMap[n]) \in Answers
                BY <3>2, AnswerFacts DEF IndInv, TypeOK
            <4>. QED
                BY ONLY <3>1, <3>2, <4>1, NoneFacts, AnswerType, t \in Caller,
                        CallByName(t, o, n)
                   DEF CallByName
        <3>3. CASE nodeNameMap[n] = None
            BY ONLY <3>1, <3>3, NoneFacts, GotoType, "lookup" \in Labels,
                    t \in Caller, CallByName(t, o, n)
               DEF CallByName, Labels
        <3>. QED
            BY <3>2, <3>3
    <2>. QED
        BY NoneFacts, IdAssumption, <2>1, <2>2 DEF IndInv, TypeOK, RetPcOK, ControlInv,
               Located, Named, Ops, ByName, ById, Partial, Info
<1>2. ControlInv'
    BY NoneFacts, IdAssumption, NMNoneAssumption DEF IndInv, TypeOK, ControlInv,
       Located, Named, Locked, ByName, ById, Partial, Info
<1>3. IndexInv'
    BY NoneFacts DEF IndInv, TypeOK, ControlInv, IndexInv, Located, Named, Locked,
       Info
<1>4. TruthInv'
    <2>1. /\ \A s \in Thread \ {t} : ret'[s] = ret[s] /\ pc'[s] = pc[s]
          /\ pc'[t] \notin Located
        BY NoneFacts DEF IndInv, TypeOK, Located
    <2>2. ret'[t] = ret[t] \/ ret'[t].kind # "info" \/ (nodeNameMap[n] # None /\ ret'[t] = Got(nodeNameMap[n]))
        BY NoneFacts, AnswerKinds DEF IndInv, TypeOK
    <2>3. ret'[t].kind = "info" => Seen(ret'[t].info)
        BY <2>2, NoneFacts, AnswerKinds DEF IndInv, TruthInv, ControlInv
    <2>. QED
        BY <2>1, <2>3 DEF IndInv, TruthInv, Seen, Located, Named
<1>5. FaultInv'
    BY NoneFacts, IdAssumption DEF IndInv, TypeOK, ControlInv, FaultInv, Plain,
       PanicsExplained, Located, ByName, ById, NoFault
<1>6. RegInv'
    BY NoneFacts DEF IndInv, TypeOK, ControlInv, RegInv, LastEvent, SharesUUID
<1> QED
    BY <1>1, <1>2, <1>3, <1>4, <1>5, <1>6 DEF IndInv

(* A call by provider ID preserves every part of the invariant. *)
LEMMA CallByIdStep ==
    ASSUME IndInv, NEW t \in Caller, NEW o \in ById, NEW a \in Id, CallById(t, o, a)
    PROVE  IndInv'
<1> USE DEF inv, k8s, cache, call, process, CallById, Begin, Answer, Goto
<1>1. TypeOK'
    <2>1. calls' \in 0..MaxCalls
        <3>1. calls \in 0..MaxCalls /\ calls < MaxCalls /\ calls' = calls + 1
            BY DEF IndInv, TypeOK
        <3>. QED
            BY <3>1, NMBoundAssumption
    <2>2. RetPcOK'
        <3>1. RetPcOK
            BY DEF IndInv, TypeOK, RetPcOK
        <3>2. CASE nodeUUIDMap[a] # None
            <4>1. Got(nodeUUIDMap[a]) \in Answers /\ Yes \in Answers
                BY <3>2, AnswerFacts DEF IndInv, TypeOK
            <4>. QED
                BY ONLY <3>1, <3>2, <4>1, NoneFacts, AnswerType, t \in Caller,
                        CallById(t, o, a)
                   DEF CallById
        <3>3. CASE nodeUUIDMap[a] = None
            BY ONLY <3>1, <3>3, NoneFacts, GotoType, "lookup" \in Labels,
                    t \in Caller, CallById(t, o, a)
               DEF CallById, Labels
        <3>. QED
            BY <3>2, <3>3
    <2>. QED
        BY NoneFacts, IdAssumption, <2>1, <2>2 DEF IndInv, TypeOK, RetPcOK, ControlInv,
               Located, Named, Ops, ByName, ById, Partial, Info
<1>2. ControlInv'
    BY NoneFacts, IdAssumption, NMNoneAssumption DEF IndInv, TypeOK, ControlInv,
       Located, Named, Locked, ByName, ById, Partial, Info
<1>3. IndexInv'
    BY NoneFacts DEF IndInv, TypeOK, ControlInv, IndexInv, Located, Named, Locked,
       Info
<1>4. TruthInv'
    <2>1. /\ \A s \in Thread \ {t} : ret'[s] = ret[s] /\ pc'[s] = pc[s]
          /\ pc'[t] \notin Located
        BY NoneFacts DEF IndInv, TypeOK, Located
    <2>2. ret'[t] = ret[t] \/ ret'[t].kind # "info" \/ (nodeUUIDMap[a] # None /\ ret'[t] = Got(nodeUUIDMap[a]))
        BY NoneFacts, AnswerKinds DEF IndInv, TypeOK
    <2>3. ret'[t].kind = "info" => Seen(ret'[t].info)
        BY <2>2, NoneFacts, AnswerKinds DEF IndInv, TruthInv, ControlInv
    <2>. QED
        BY <2>1, <2>3 DEF IndInv, TruthInv, Seen, Located, Named
<1>5. FaultInv'
    BY NoneFacts, IdAssumption DEF IndInv, TypeOK, ControlInv, FaultInv, Plain,
       PanicsExplained, Located, ByName, ById, NoFault
<1>6. RegInv'
    BY NoneFacts DEF IndInv, TypeOK, ControlInv, RegInv, LastEvent, SharesUUID
<1> QED
    BY <1>1, <1>2, <1>3, <1>4, <1>5, <1>6 DEF IndInv

(* InstanceType of a known node preserves every part of the invariant. *)
LEMMA InstanceTypeByNameStep ==
    ASSUME IndInv, NEW t \in Caller, NEW n \in Name,
           InstanceType(t, "InstanceType", n, nodeNameMap[n])
    PROVE  IndInv'
<1> USE DEF inv, k8s, cache, call, process, InstanceType, Begin, Answer
<1>1. TypeOK'
    BY NoneFacts, AnswerFacts, IdAssumption, NMBoundAssumption DEF IndInv, TypeOK,
       ControlInv, Located, Named, Labels, Ops, ByName, ById, Partial, Info
<1>2. ControlInv'
    BY NoneFacts, IdAssumption, NMNoneAssumption DEF IndInv, TypeOK, ControlInv,
       Located, Named, Locked, ByName, ById, Partial, Info
<1>3. IndexInv'
    BY NoneFacts DEF IndInv, TypeOK, ControlInv, IndexInv, Located, Named, Locked,
       Info
<1>4. TruthInv'
    BY NoneFacts DEF IndInv, TypeOK, ControlInv, TruthInv, Seen, Located, Named,
       Got, Yes, No, Err, NoAnswer, Info, Partial
<1>5. FaultInv'
    BY NoneFacts, IdAssumption DEF IndInv, TypeOK, ControlInv, FaultInv, Plain,
       PanicsExplained, Located, ByName, ById, NoFault
<1>6. RegInv'
    BY NoneFacts DEF IndInv, TypeOK, ControlInv, RegInv, LastEvent, SharesUUID
<1> QED
    BY <1>1, <1>2, <1>3, <1>4, <1>5, <1>6 DEF IndInv

(* InstanceTypeByProviderID of a known node preserves every part of the invariant. *)
LEMMA InstanceTypeByIdStep ==
    ASSUME IndInv, NEW t \in Caller, NEW a \in Id,
           InstanceType(t, "InstanceTypeByProviderID", a, nodeUUIDMap[a])
    PROVE  IndInv'
<1> USE DEF inv, k8s, cache, call, process, InstanceType, Begin, Answer
<1>1. TypeOK'
    BY NoneFacts, AnswerFacts, IdAssumption, NMBoundAssumption DEF IndInv, TypeOK,
       ControlInv, Located, Named, Labels, Ops, ByName, ById, Partial, Info
<1>2. ControlInv'
    BY NoneFacts, IdAssumption, NMNoneAssumption DEF IndInv, TypeOK, ControlInv,
       Located, Named, Locked, ByName, ById, Partial, Info
<1>3. IndexInv'
    BY NoneFacts DEF IndInv, TypeOK, ControlInv, IndexInv, Located, Named, Locked,
       Info
<1>4. TruthInv'
    BY NoneFacts DEF IndInv, TypeOK, ControlInv, TruthInv, Seen, Located, Named,
       Got, Yes, No, Err, NoAnswer, Info, Partial
<1>5. FaultInv'
    BY NoneFacts, IdAssumption DEF IndInv, TypeOK, ControlInv, FaultInv, Plain,
       PanicsExplained, Located, ByName, ById, NoFault
<1>6. RegInv'
    BY NoneFacts DEF IndInv, TypeOK, ControlInv, RegInv, LastEvent, SharesUUID
<1> QED
    BY <1>1, <1>2, <1>3, <1>4, <1>5, <1>6 DEF IndInv

(* InstanceType of an unknown node preserves every part of the invariant. *)
LEMMA InstanceTypePanicByNameStep ==
    ASSUME IndInv, NEW t \in Caller, NEW n \in Name,
           InstanceTypePanic(t, "InstanceType", n, nodeNameMap[n])
    PROVE  IndInv'
<1> USE DEF inv, k8s, cache, call, process, InstanceTypePanic, Begin, Panic
<1>1. TypeOK'
    <2>1. calls' \in 0..MaxCalls
        <3>1. calls \in 0..MaxCalls /\ calls < MaxCalls /\ calls' = calls + 1
            BY DEF IndInv, TypeOK
        <3>. QED
            BY <3>1, NMBoundAssumption
    <2>2. fault' \in [op : Ops, arg : Id \cup Name \cup {None}]
        BY DEF Ops
    <2>. QED
        BY NoneFacts, AnswerFacts, IdAssumption, <2>1, <2>2
           DEF IndInv, TypeOK, ControlInv,
               Located, Named, Labels, Ops, ByName, ById, Partial, Info
<1>2. ControlInv'
    BY NoneFacts, IdAssumption, NMNoneAssumption DEF IndInv, TypeOK, ControlInv,
       Located, Named, Locked, ByName, ById, Partial, Info
<1>3. IndexInv'
    BY NoneFacts DEF IndInv, TypeOK, ControlInv, IndexInv, Located, Named, Locked,
       Info
<1>4. TruthInv'
    BY NoneFacts DEF IndInv, TypeOK, ControlInv, TruthInv, Seen, Located, Named,
       Got, Yes, No, Err, NoAnswer, Info, Partial
<1>5. FaultInv'
    BY NoneFacts, IdAssumption DEF IndInv, TypeOK, ControlInv, FaultInv, Plain,
       PanicsExplained, Located, ByName, ById, NoFault
<1>6. RegInv'
    BY NoneFacts DEF IndInv, TypeOK, ControlInv, RegInv, LastEvent, SharesUUID
<1> QED
    BY <1>1, <1>2, <1>3, <1>4, <1>5, <1>6 DEF IndInv

(* InstanceTypeByProviderID of an unknown node preserves every part of the invariant. *)
LEMMA InstanceTypePanicByIdStep ==
    ASSUME IndInv, NEW t \in Caller, NEW a \in Id,
           InstanceTypePanic(t, "InstanceTypeByProviderID", a, nodeUUIDMap[a])
    PROVE  IndInv'
<1> USE DEF inv, k8s, cache, call, process, InstanceTypePanic, Begin, Panic
<1>1. TypeOK'
    <2>1. calls' \in 0..MaxCalls
        <3>1. calls \in 0..MaxCalls /\ calls < MaxCalls /\ calls' = calls + 1
            BY DEF IndInv, TypeOK
        <3>. QED
            BY <3>1, NMBoundAssumption
    <2>2. fault' \in [op : Ops, arg : Id \cup Name \cup {None}]
        BY DEF Ops
    <2>. QED
        BY NoneFacts, AnswerFacts, IdAssumption, <2>1, <2>2
           DEF IndInv, TypeOK, ControlInv,
               Located, Named, Labels, Ops, ByName, ById, Partial, Info
<1>2. ControlInv'
    BY NoneFacts, IdAssumption, NMNoneAssumption DEF IndInv, TypeOK, ControlInv,
       Located, Named, Locked, ByName, ById, Partial, Info
<1>3. IndexInv'
    BY NoneFacts DEF IndInv, TypeOK, ControlInv, IndexInv, Located, Named, Locked,
       Info
<1>4. TruthInv'
    BY NoneFacts DEF IndInv, TypeOK, ControlInv, TruthInv, Seen, Located, Named,
       Got, Yes, No, Err, NoAnswer, Info, Partial
<1>5. FaultInv'
    BY NoneFacts, IdAssumption DEF IndInv, TypeOK, ControlInv, FaultInv, Plain,
       PanicsExplained, Located, ByName, ById, NoFault
<1>6. RegInv'
    BY NoneFacts DEF IndInv, TypeOK, ControlInv, RegInv, LastEvent, SharesUUID
<1> QED
    BY <1>1, <1>2, <1>3, <1>4, <1>5, <1>6 DEF IndInv

(* GetZoneByNodeName preserves every part of the invariant. *)
LEMMA GetZoneByNameStep ==
    ASSUME IndInv, NEW t \in Caller, NEW n \in Name,
           GetZone(t, "GetZoneByNodeName", n, nodeNameMap[n])
    PROVE  IndInv'
<1> USE DEF inv, k8s, cache, call, process, GetZone, Begin, Answer
<1>1. TypeOK'
    <2>1. calls' \in 0..MaxCalls
        <3>1. calls \in 0..MaxCalls /\ calls < MaxCalls /\ calls' = calls + 1
            BY DEF IndInv, TypeOK
        <3>. QED
            BY <3>1, NMBoundAssumption
    <2>2. RetPcOK'
        <3>1. RetPcOK
            BY DEF IndInv, TypeOK, RetPcOK
        <3>2. nodeNameMap[n] # None => Got(nodeNameMap[n]) \in Answers
            BY AnswerFacts DEF IndInv, TypeOK
        <3>. QED
            BY ONLY <3>1, <3>2, NoneFacts, AnswerFacts, AnswerType, t \in Caller,
                    GetZone(t, "GetZoneByNodeName", n, nodeNameMap[n])
               DEF GetZone
    <2>. QED
        BY NoneFacts, IdAssumption, <2>1, <2>2 DEF IndInv, TypeOK, RetPcOK, ControlInv,
               Located, Named, Ops, ByName, ById, Partial, Info
<1>2. ControlInv'
    BY NoneFacts, IdAssumption, NMNoneAssumption DEF IndInv, TypeOK, ControlInv,
       Located, Named, Locked, ByName, ById, Partial, Info
<1>3. IndexInv'
    BY NoneFacts DEF IndInv, TypeOK, ControlInv, IndexInv, Located, Named, Locked,
       Info
<1>4. TruthInv'
    BY NoneFacts DEF IndInv, TypeOK, ControlInv, TruthInv, Seen, Located, Named,
       Got, Yes, No, Err, NoAnswer, Info, Partial
<1>5. FaultInv'
    BY NoneFacts, IdAssumption DEF IndInv, TypeOK, ControlInv, FaultInv, Plain,
       PanicsExplained, Located, ByName, ById, NoFault
<1>6. RegInv'
    BY NoneFacts DEF IndInv, TypeOK, ControlInv, RegInv, LastEvent, SharesUUID
<1> QED
    BY <1>1, <1>2, <1>3, <1>4, <1>5, <1>6 DEF IndInv

(* GetZoneByProviderID preserves every part of the invariant. *)
LEMMA GetZoneByIdStep ==
    ASSUME IndInv, NEW t \in Caller, NEW a \in Id,
           GetZone(t, "GetZoneByProviderID", a, nodeUUIDMap[a])
    PROVE  IndInv'
<1> USE DEF inv, k8s, cache, call, process, GetZone, Begin, Answer
<1>1. TypeOK'
    <2>1. calls' \in 0..MaxCalls
        <3>1. calls \in 0..MaxCalls /\ calls < MaxCalls /\ calls' = calls + 1
            BY DEF IndInv, TypeOK
        <3>. QED
            BY <3>1, NMBoundAssumption
    <2>2. RetPcOK'
        <3>1. RetPcOK
            BY DEF IndInv, TypeOK, RetPcOK
        <3>2. nodeUUIDMap[a] # None => Got(nodeUUIDMap[a]) \in Answers
            BY AnswerFacts DEF IndInv, TypeOK
        <3>. QED
            BY ONLY <3>1, <3>2, NoneFacts, AnswerFacts, AnswerType, t \in Caller,
                    GetZone(t, "GetZoneByProviderID", a, nodeUUIDMap[a])
               DEF GetZone
    <2>. QED
        BY NoneFacts, IdAssumption, <2>1, <2>2 DEF IndInv, TypeOK, RetPcOK, ControlInv,
               Located, Named, Ops, ByName, ById, Partial, Info
<1>2. ControlInv'
    BY NoneFacts, IdAssumption, NMNoneAssumption DEF IndInv, TypeOK, ControlInv,
       Located, Named, Locked, ByName, ById, Partial, Info
<1>3. IndexInv'
    BY NoneFacts DEF IndInv, TypeOK, ControlInv, IndexInv, Located, Named, Locked,
       Info
<1>4. TruthInv'
    BY NoneFacts DEF IndInv, TypeOK, ControlInv, TruthInv, Seen, Located, Named,
       Got, Yes, No, Err, NoAnswer, Info, Partial
<1>5. FaultInv'
    BY NoneFacts, IdAssumption DEF IndInv, TypeOK, ControlInv, FaultInv, Plain,
       PanicsExplained, Located, ByName, ById, NoFault
<1>6. RegInv'
    BY NoneFacts DEF IndInv, TypeOK, ControlInv, RegInv, LastEvent, SharesUUID
<1> QED
    BY <1>1, <1>2, <1>3, <1>4, <1>5, <1>6 DEF IndInv

(* LookupHit preserves every part of the invariant. *)
LEMMA LookupHitStep ==
    ASSUME IndInv, NEW t \in Thread, LookupHit(t)
    PROVE  IndInv'
<1> USE DEF inv, k8s, cache, call, process, LookupHit, Goto, Matches, SearchByName,
   Exists
<1>1. TypeOK'
    BY NoneFacts, AnswerFacts, IdAssumption, NMBoundAssumption DEF IndInv, TypeOK,
       ControlInv, Located, Named, Labels, Ops, ByName, ById, Partial, Info
<1>2. ControlInv'
    BY NoneFacts, IdAssumption, NMNoneAssumption DEF IndInv, TypeOK, ControlInv,
       Located, Named, Locked, ByName, ById, Partial, Info
<1>3. IndexInv'
    BY NoneFacts DEF IndInv, TypeOK, ControlInv, IndexInv, Located, Named, Locked,
       Info
<1>4. TruthInv'
    BY NoneFacts DEF IndInv, TypeOK, ControlInv, TruthInv, Seen, Located, Named,
       Got, Yes, No, Err, NoAnswer, Info, Partial
<1>5. FaultInv'
    BY NoneFacts, IdAssumption DEF IndInv, TypeOK, ControlInv, FaultInv, Plain,
       PanicsExplained, Located, ByName, ById, NoFault
<1>6. RegInv'
    BY NoneFacts DEF IndInv, TypeOK, ControlInv, RegInv, LastEvent, SharesUUID
<1> QED
    BY <1>1, <1>2, <1>3, <1>4, <1>5, <1>6 DEF IndInv

(* LookupName preserves every part of the invariant. *)
LEMMA LookupNameStep ==
    ASSUME IndInv, NEW t \in Thread, LookupName(t)
    PROVE  IndInv'
<1> USE DEF inv, k8s, cache, call, process, LookupName, Goto, Exists
<1>1. TypeOK'
    <2>1. di[t] \in Partial /\ vm[di[t].uuid].name \in Name
        BY DEF IndInv, TypeOK, ControlInv, Located, Partial
    <2>2. di' \in [Thread -> Partial \cup {None}]
        BY <2>1 DEF IndInv, TypeOK, Partial
    <2>. QED
        BY NoneFacts, AnswerFacts, IdAssumption, <2>1, <2>2
           DEF IndInv, TypeOK, ControlInv,
               Located, Named, Labels, Ops, ByName, ById, Partial, Info
<1>2. ControlInv'
    <2>1. di[t] \in Partial /\ vm[di[t].uuid].name \in Name
        BY DEF IndInv, TypeOK, ControlInv, Located, Partial
    <2>2. di'[t] \in Info
        BY <2>1 DEF IndInv, TypeOK, Partial, Info
    <2>. QED
        BY NoneFacts, IdAssumption, NMNoneAssumption, <2>2
           DEF IndInv, TypeOK, ControlInv, Located,
               Named, Locked, ByName, ById, Partial, Info
<1>3. IndexInv'
    BY NoneFacts DEF IndInv, TypeOK, ControlInv, IndexInv, Located, Named, Locked,
       Info
<1>4. TruthInv'
    BY NoneFacts DEF IndInv, TypeOK, ControlInv, TruthInv, Seen, Located, Named,
       Got, Yes, No, Err, NoAnswer, Info, Partial
<1>5. FaultInv'
    BY NoneFacts, IdAssumption DEF IndInv, TypeOK, ControlInv, FaultInv, Plain,
       PanicsExplained, Located, ByName, ById, NoFault
<1>6. RegInv'
    BY NoneFacts DEF IndInv, TypeOK, ControlInv, RegInv, LastEvent, SharesUUID
<1> QED
    BY <1>1, <1>2, <1>3, <1>4, <1>5, <1>6 DEF IndInv

(* LookupMiss preserves every part of the invariant. *)
LEMMA LookupMissStep ==
    ASSUME IndInv, NEW t \in Thread, LookupMiss(t)
    PROVE  IndInv'
<1> USE DEF inv, k8s, cache, call, process, LookupMiss, DiscoverFails, Goto, Answer,
   SearchByName
<1>1. TypeOK'
    <2>1. RetPcOK'
        <3>1. RetPcOK
            BY DEF IndInv, TypeOK, RetPcOK
        <3>. QED
            BY ONLY <3>1, DiscoverFailsType, t \in Thread, LookupMiss(t) DEF LookupMiss
    <2>2. di' \in [Thread -> Partial \cup {None}]
        BY DEF IndInv, TypeOK
    <2>. QED
        BY NoneFacts, IdAssumption, <2>1, <2>2 DEF IndInv, TypeOK, RetPcOK, ControlInv,
               Located, Named, Ops, ByName, ById, Partial, Info
<1>2. ControlInv'
    BY NoneFacts, IdAssumption, NMNoneAssumption DEF IndInv, TypeOK, ControlInv,
       Located, Named, Locked, ByName, ById, Partial, Info
<1>3. IndexInv'
    BY NoneFacts DEF IndInv, TypeOK, ControlInv, IndexInv, Located, Named, Locked,
       Info
<1>4. TruthInv'
    <2>1. \A s \in Thread : ret'[s] # ret[s] => ret'[s].kind # "info"
        BY AnswerKinds DEF IndInv, TypeOK
    <2>2. \A s \in Thread : pc'[s] \in Located => pc'[s] = pc[s] /\ di'[s] = di[s]
        BY DEF IndInv, TypeOK, Located
    <2>. QED
        BY <2>1, <2>2 DEF IndInv, TruthInv, Seen, Located, Named
<1>5. FaultInv'
    BY NoneFacts, IdAssumption DEF IndInv, TypeOK, ControlInv, FaultInv, Plain,
       PanicsExplained, Located, ByName, ById, NoFault
<1>6. RegInv'
    BY NoneFacts DEF IndInv, TypeOK, ControlInv, RegInv, LastEvent, SharesUUID
<1> QED
    BY <1>1, <1>2, <1>3, <1>4, <1>5, <1>6 DEF IndInv

(* LookupRetry preserves every part of the invariant. *)
LEMMA LookupRetryStep ==
    ASSUME IndInv, NEW t \in Thread, LookupRetry(t)
    PROVE  IndInv'
<1> USE DEF inv, k8s, cache, call, process, LookupRetry, Goto, SearchByName
<1>1. TypeOK'
    BY NoneFacts, AnswerFacts, IdAssumption, NMBoundAssumption DEF IndInv, TypeOK,
       ControlInv, Located, Named, Labels, Ops, ByName, ById, Partial, Info
<1>2. ControlInv'
    BY NoneFacts, IdAssumption, NMNoneAssumption DEF IndInv, TypeOK, ControlInv,
       Located, Named, Locked, ByName, ById, Partial, Info
<1>3. IndexInv'
    BY NoneFacts DEF IndInv, TypeOK, ControlInv, IndexInv, Located, Named, Locked,
       Info
<1>4. TruthInv'
    BY NoneFacts DEF IndInv, TypeOK, ControlInv, TruthInv, Seen, Located, Named,
       Got, Yes, No, Err, NoAnswer, Info, Partial
<1>5. FaultInv'
    BY NoneFacts, IdAssumption DEF IndInv, TypeOK, ControlInv, FaultInv, Plain,
       PanicsExplained, Located, ByName, ById, NoFault
<1>6. RegInv'
    BY NoneFacts DEF IndInv, TypeOK, ControlInv, RegInv, LastEvent, SharesUUID
<1> QED
    BY <1>1, <1>2, <1>3, <1>4, <1>5, <1>6 DEF IndInv

(* LookupPanic preserves every part of the invariant. *)
LEMMA LookupPanicStep ==
    ASSUME IndInv, NEW t \in Thread, LookupPanic(t)
    PROVE  IndInv'
<1> USE DEF inv, k8s, cache, call, process, LookupPanic, Panic, SearchByName
<1>1. TypeOK'
    BY NoneFacts, AnswerFacts, IdAssumption, NMBoundAssumption DEF IndInv, TypeOK,
       ControlInv, Located, Named, Labels, Ops, ByName, ById, Partial, Info
<1>2. ControlInv'
    BY NoneFacts, IdAssumption, NMNoneAssumption DEF IndInv, TypeOK, ControlInv,
       Located, Named, Locked, ByName, ById, Partial, Info
<1>3. IndexInv'
    BY NoneFacts DEF IndInv, TypeOK, ControlInv, IndexInv, Located, Named, Locked,
       Info
<1>4. TruthInv'
    BY NoneFacts DEF IndInv, TypeOK, ControlInv, TruthInv, Seen, Located, Named,
       Got, Yes, No, Err, NoAnswer, Info, Partial
<1>5. FaultInv'
    BY NoneFacts, IdAssumption DEF IndInv, TypeOK, ControlInv, FaultInv, Plain,
       PanicsExplained, Located, ByName, ById, NoFault
<1>6. RegInv'
    BY NoneFacts DEF IndInv, TypeOK, ControlInv, RegInv, LastEvent, SharesUUID
<1> QED
    BY <1>1, <1>2, <1>3, <1>4, <1>5, <1>6 DEF IndInv

(* PropertiesOK preserves every part of the invariant. *)
LEMMA PropertiesOKStep ==
    ASSUME IndInv, NEW t \in Thread, PropertiesOK(t)
    PROVE  IndInv'
<1> USE DEF inv, k8s, cache, call, process, PropertiesOK, Goto
<1>1. TypeOK'
    BY NoneFacts, AnswerFacts, IdAssumption, NMBoundAssumption DEF IndInv, TypeOK,
       ControlInv, Located, Named, Labels, Ops, ByName, ById, Partial, Info
<1>2. ControlInv'
    BY NoneFacts, IdAssumption, NMNoneAssumption DEF IndInv, TypeOK, ControlInv,
       Located, Named, Locked, ByName, ById, Partial, Info
<1>3. IndexInv'
    <2>1. \A s \in Thread : pc'[s] \in Locked => pc[s] = pc'[s]
        BY DEF IndInv, TypeOK, Locked
    <2>2. \A s \in Thread : pc[s] \in Locked => pc[s] = pc'[s]
        BY DEF IndInv, TypeOK, Locked
    <2>. QED
        BY <2>1, <2>2 DEF IndInv, IndexInv, Locked
<1>4. TruthInv'
    BY NoneFacts DEF IndInv, TypeOK, ControlInv, TruthInv, Seen, Located, Named,
       Got, Yes, No, Err, NoAnswer, Info, Partial
<1>5. FaultInv'
    BY NoneFacts, IdAssumption DEF IndInv, TypeOK, ControlInv, FaultInv, Plain,
       PanicsExplained, Located, ByName, ById, NoFault
<1>6. RegInv'
    BY NoneFacts DEF IndInv, TypeOK, ControlInv, RegInv, LastEvent, SharesUUID
<1> QED
    BY <1>1, <1>2, <1>3, <1>4, <1>5, <1>6 DEF IndInv

(* PropertiesFail preserves every part of the invariant. *)
LEMMA PropertiesFailStep ==
    ASSUME IndInv, NEW t \in Thread, PropertiesFail(t)
    PROVE  IndInv'
<1> USE DEF inv, k8s, cache, call, process, PropertiesFail, DiscoverFails, Goto,
   Answer
<1>1. TypeOK'
    <2>1. RetPcOK'
        <3>1. RetPcOK
            BY DEF IndInv, TypeOK, RetPcOK
        <3>. QED
            BY ONLY <3>1, DiscoverFailsType, t \in Thread, PropertiesFail(t)
               DEF PropertiesFail
    <2>2. di' \in [Thread -> Partial \cup {None}]
        BY DEF IndInv, TypeOK
    <2>. QED
        BY NoneFacts, IdAssumption, <2>1, <2>2 DEF IndInv, TypeOK, RetPcOK, ControlInv,
               Located, Named, Ops, ByName, ById, Partial, Info
<1>2. ControlInv'
    BY NoneFacts, IdAssumption, NMNoneAssumption DEF IndInv, TypeOK, ControlInv,
       Located, Named, Locked, ByName, ById, Partial, Info
<1>3. IndexInv'
    BY NoneFacts DEF IndInv, TypeOK, ControlInv, IndexInv, Located, Named, Locked,
       Info
<1>4. TruthInv'
    <2>1. \A s \in Thread : ret'[s] # ret[s] => ret'[s].kind # "info"
        BY AnswerKinds DEF IndInv, TypeOK
    <2>2. \A s \in Thread : pc'[s] \in Located => pc'[s] = pc[s] /\ di'[s] = di[s]
        BY DEF IndInv, TypeOK, Located
    <2>. QED
        BY <2>1, <2>2 DEF IndInv, TruthInv, Seen, Located, Named
<1>5. FaultInv'
    BY NoneFacts, IdAssumption DEF IndInv, TypeOK, ControlInv, FaultInv, Plain,
       PanicsExplained, Located, ByName, ById, NoFault
<1>6. RegInv'
    BY NoneFacts DEF IndInv, TypeOK, ControlInv, RegInv, LastEvent, SharesUUID
<1> QED
    BY <1>1, <1>2, <1>3, <1>4, <1>5, <1>6 DEF IndInv

(* StoreName preserves every part of the invariant. *)
LEMMA StoreNameStep ==
    ASSUME IndInv, NEW t \in Thread, StoreName(t)
    PROVE  IndInv'
<1> USE DEF inv, k8s, cache, call, process, StoreName, Goto
<1>1. TypeOK'
    BY NoneFacts, AnswerFacts, IdAssumption, NMBoundAssumption DEF IndInv, TypeOK,
       ControlInv, Located, Named, Labels, Ops, ByName, ById, Partial, Info
<1>2. ControlInv'
    BY NoneFacts, IdAssumption, NMNoneAssumption DEF IndInv, TypeOK, ControlInv,
       Located, Named, Locked, ByName, ById, Partial, Info
<1>3. IndexInv'
    BY NoneFacts DEF IndInv, TypeOK, ControlInv, IndexInv, Located, Named, Locked,
       Info
<1>4. TruthInv'
    BY NoneFacts DEF IndInv, TypeOK, ControlInv, TruthInv, Seen, Located, Named,
       Got, Yes, No, Err, NoAnswer, Info, Partial
<1>5. FaultInv'
    BY NoneFacts, IdAssumption DEF IndInv, TypeOK, ControlInv, FaultInv, Plain,
       PanicsExplained, Located, ByName, ById, NoFault
<1>6. RegInv'
    BY NoneFacts DEF IndInv, TypeOK, ControlInv, RegInv, LastEvent, SharesUUID
<1> QED
    BY <1>1, <1>2, <1>3, <1>4, <1>5, <1>6 DEF IndInv

(* StoreUUID preserves every part of the invariant. *)
LEMMA StoreUUIDStep ==
    ASSUME IndInv, NEW t \in Thread, StoreUUID(t)
    PROVE  IndInv'
<1> USE DEF inv, k8s, cache, call, process, StoreUUID, Goto
<1>1. TypeOK'
    BY NoneFacts, AnswerFacts, IdAssumption, NMBoundAssumption DEF IndInv, TypeOK,
       ControlInv, Located, Named, Labels, Ops, ByName, ById, Partial, Info
<1>2. ControlInv'
    BY NoneFacts, IdAssumption, NMNoneAssumption DEF IndInv, TypeOK, ControlInv,
       Located, Named, Locked, ByName, ById, Partial, Info
<1>3. IndexInv'
    BY NoneFacts DEF IndInv, TypeOK, ControlInv, IndexInv, Located, Named, Locked,
       Info
<1>4. TruthInv'
    BY NoneFacts DEF IndInv, TypeOK, ControlInv, TruthInv, Seen, Located, Named,
       Got, Yes, No, Err, NoAnswer, Info, Partial
<1>5. FaultInv'
    BY NoneFacts, IdAssumption DEF IndInv, TypeOK, ControlInv, FaultInv, Plain,
       PanicsExplained, Located, ByName, ById, NoFault
<1>6. RegInv'
    BY NoneFacts DEF IndInv, TypeOK, ControlInv, RegInv, LastEvent, SharesUUID
<1> QED
    BY <1>1, <1>2, <1>3, <1>4, <1>5, <1>6 DEF IndInv

(* StoreVC preserves every part of the invariant. *)
LEMMA StoreVCStep ==
    ASSUME IndInv, NEW t \in Thread, StoreVC(t)
    PROVE  IndInv'
<1> USE DEF inv, k8s, cache, call, process, StoreVC, Goto
<1>1. TypeOK'
    BY NoneFacts, AnswerFacts, IdAssumption, NMBoundAssumption DEF IndInv, TypeOK,
       ControlInv, Located, Named, Labels, Ops, ByName, ById, Partial, Info
<1>2. ControlInv'
    BY NoneFacts, IdAssumption, NMNoneAssumption DEF IndInv, TypeOK, ControlInv,
       Located, Named, Locked, ByName, ById, Partial, Info
<1>3. IndexInv'
    BY NoneFacts DEF IndInv, TypeOK, ControlInv, IndexInv, Located, Named, Locked,
       Info
<1>4. TruthInv'
    <2>1. di[t] \in Info /\ Seen(di[t])
        BY DEF IndInv, ControlInv, TruthInv, Seen, Located, Named
    <2>2. \A l \in Loc, u \in VM : vcList'[l][u] = vcList[l][u] \/ vcList'[l][u] = di[t]
        BY <2>1 DEF IndInv, TypeOK, Info
    <2>3. \A s \in Thread : pc'[s] \in Located => pc'[s] = pc[s] /\ di'[s] = di[s]
        BY DEF IndInv, TypeOK, Located
    <2>4. UNCHANGED <<vm, seenLoc, seenName, nodeNameMap, nodeUUIDMap, ret>>
        OBVIOUS
    <2>5. \A l \in Loc, u \in VM : vcList'[l][u] # None => Seen(vcList[l][u])'
        BY ONLY <2>4, <2>1, <2>2, IndInv DEF IndInv, TruthInv, Seen
    <2>6. \A s \in Thread : /\ pc'[s] \in Located => di'[s].loc \in seenLoc'[di'[s].uuid]
                            /\ pc'[s] \in Named => di'[s].name \in seenName'[di'[s].uuid]
        BY ONLY <2>4, <2>3, IndInv DEF IndInv, TruthInv, Located, Named
    <2>. QED
        BY ONLY <2>4, <2>5, <2>6, IndInv DEF IndInv, TruthInv, Seen
<1>5. FaultInv'
    <2>1. op[t] # "RegisterNode" => nodeUUIDMap[di[t].uuid] = di[t] /\ di[t] # None
        BY NoneFacts DEF IndInv, ControlInv, IndexInv, Named
    <2>2. pc[t] \in Located /\ pc'[t] \in {"addNode", "discovered"}
        BY DEF IndInv, TypeOK, Located
    <2>3. \A s \in Thread : s # t => pc'[s] = pc[s] /\ di'[s] = di[s]
        BY DEF IndInv, TypeOK
    <2>4. Plain(t) => nodeUUIDMap[arg[t]] # None
        BY <2>1, <2>2 DEF IndInv, FaultInv, Plain, ById
    <2>. QED
        BY <2>2, <2>3, <2>4
           DEF IndInv, FaultInv, Plain, PanicsExplained, Located, ByName
<1>6. RegInv'
    BY NoneFacts DEF IndInv, TypeOK, ControlInv, RegInv, LastEvent, SharesUUID
<1> QED
    BY <1>1, <1>2, <1>3, <1>4, <1>5, <1>6 DEF IndInv

(* Discovered preserves every part of the invariant. *)
LEMMA DiscoveredStep ==
    ASSUME IndInv, NEW t \in Thread, Discovered(t)
    PROVE  IndInv'
<1> USE DEF inv, k8s, cache, call, process, Discovered, Goto, Answer
<1>1. TypeOK'
    <2>1. RetPcOK'
        <3>1. RetPcOK
            BY DEF IndInv, TypeOK, RetPcOK
        <3>2. Err \in Answers /\ Yes \in Answers /\ "deref" \in Labels
            BY AnswerFacts DEF Labels
        <3>. QED
            BY ONLY <3>1, <3>2, AnswerType, GotoType, t \in Thread, Discovered(t)
               DEF Discovered
    <2>2. di' \in [Thread -> Partial \cup {None}]
        BY DEF IndInv, TypeOK
    <2>. QED
        BY NoneFacts, IdAssumption, <2>1, <2>2 DEF IndInv, TypeOK, RetPcOK, ControlInv,
               Located, Named, Ops, ByName, ById, Partial, Info
<1>2. ControlInv'
    BY NoneFacts, IdAssumption, NMNoneAssumption DEF IndInv, TypeOK, ControlInv,
       Located, Named, Locked, ByName, ById, Partial, Info
<1>3. IndexInv'
    BY NoneFacts DEF IndInv, TypeOK, ControlInv, IndexInv, Located, Named, Locked,
       Info
<1>4. TruthInv'
    <2>1. \A s \in Thread : ret'[s] # ret[s] => ret'[s].kind # "info"
        BY AnswerKinds DEF IndInv, TypeOK
    <2>2. \A s \in Thread : pc'[s] \in Located => pc'[s] = pc[s] /\ di'[s] = di[s]
        BY DEF IndInv, TypeOK, Located
    <2>. QED
        BY <2>1, <2>2 DEF IndInv, TruthInv, Seen, Located, Named
<1>5. FaultInv'
    BY NoneFacts, IdAssumption DEF IndInv, TypeOK, ControlInv, FaultInv, Plain,
       PanicsExplained, Located, ByName, ById, NoFault
<1>6. RegInv'
    BY NoneFacts DEF IndInv, TypeOK, ControlInv, RegInv, LastEvent, SharesUUID
<1> QED
    BY <1>1, <1>2, <1>3, <1>4, <1>5, <1>6 DEF IndInv

(* Deref preserves every part of the invariant. *)
LEMMA DerefStep ==
    ASSUME IndInv, NEW t \in Thread, Deref(t)
    PROVE  IndInv'
<1> USE DEF inv, k8s, cache, call, process, Deref, Answer, Entry
<1>1. TypeOK'
    <2>1. Entry(t) \in Info
        BY NoneFacts DEF IndInv, TypeOK, ControlInv, ByName, ById
    <2>2. ret' \in [Thread -> Answers]
        BY <2>1, AnswerFacts DEF IndInv, TypeOK
    <2>. QED
        BY NoneFacts, AnswerFacts, IdAssumption, <2>1, <2>2
           DEF IndInv, TypeOK, ControlInv,
               Located, Named, Labels, Ops, ByName, ById, Partial, Info
<1>2. ControlInv'
    BY NoneFacts, IdAssumption, NMNoneAssumption DEF IndInv, TypeOK, ControlInv,
       Located, Named, Locked, ByName, ById, Partial, Info
<1>3. IndexInv'
    BY NoneFacts DEF IndInv, TypeOK, ControlInv, IndexInv, Located, Named, Locked,
       Info
<1>4. TruthInv'
    <2>1. /\ \A s \in Thread \ {t} : ret'[s] = ret[s] /\ pc'[s] = pc[s]
          /\ pc'[t] \notin Located
        BY DEF IndInv, TypeOK, Located
    <2>2. ret'[t] = Got(Entry(t))
        BY DEF IndInv, TypeOK
    <2>3. Seen(Entry(t))
        BY NoneFacts DEF IndInv, TruthInv, ControlInv, ByName, ById
    <2>4. UNCHANGED <<vm, seenLoc, seenName, nodeNameMap, nodeUUIDMap, vcList, di>>
        OBVIOUS
    <2>5. Seen(ret[t].info)'
        BY ONLY <2>4, <2>2, <2>3 DEF Seen, Got
    <2>6. \A s \in Thread : ret'[s].kind = "info" => Seen(ret[s].info)'
        BY ONLY <2>4, <2>1, <2>5, IndInv DEF IndInv, TruthInv, Seen
    <2>7. \A s \in Thread : pc'[s] \in Located => pc'[s] = pc[s]
        BY ONLY <2>1
    <2>. QED
        BY ONLY <2>4, <2>6, <2>7, IndInv DEF IndInv, TruthInv, Seen, Located, Named
<1>5. FaultInv'
    BY NoneFacts, IdAssumption DEF IndInv, TypeOK, ControlInv, FaultInv, Plain,
       PanicsExplained, Located, ByName, ById, NoFault
<1>6. RegInv'
    BY NoneFacts DEF IndInv, TypeOK, ControlInv, RegInv, LastEvent, SharesUUID
<1> QED
    BY <1>1, <1>2, <1>3, <1>4, <1>5, <1>6 DEF IndInv

(* DerefPanic preserves every part of the invariant. *)
LEMMA DerefPanicStep ==
    ASSUME IndInv, NEW t \in Thread, DerefPanic(t)
    PROVE  IndInv'
<1> USE DEF inv, k8s, cache, call, process, DerefPanic, Panic, Entry
<1>1. TypeOK'
    BY NoneFacts, AnswerFacts, IdAssumption, NMBoundAssumption DEF IndInv, TypeOK,
       ControlInv, Located, Named, Labels, Ops, ByName, ById, Partial, Info
<1>2. ControlInv'
    BY NoneFacts, IdAssumption, NMNoneAssumption DEF IndInv, TypeOK, ControlInv,
       Located, Named, Locked, ByName, ById, Partial, Info
<1>3. IndexInv'
    BY NoneFacts DEF IndInv, TypeOK, ControlInv, IndexInv, Located, Named, Locked,
       Info
<1>4. TruthInv'
    BY NoneFacts DEF IndInv, TypeOK, ControlInv, TruthInv, Seen, Located, Named,
       Got, Yes, No, Err, NoAnswer, Info, Partial
<1>5. FaultInv'
    BY NoneFacts, IdAssumption DEF IndInv, TypeOK, ControlInv, FaultInv, Plain,
       PanicsExplained, Located, ByName, ById, NoFault
<1>6. RegInv'
    BY NoneFacts DEF IndInv, TypeOK, ControlInv, RegInv, LastEvent, SharesUUID
<1> QED
    BY <1>1, <1>2, <1>3, <1>4, <1>5, <1>6 DEF IndInv

(* AddNode preserves every part of the invariant. *)
LEMMA AddNodeStep ==
    ASSUME IndInv, AddNode
    PROVE  IndInv'
<1> USE DEF inv, k8s, cache, call, process, AddNode, Goto
<1>1. TypeOK'
    BY NoneFacts, AnswerFacts, IdAssumption, NMBoundAssumption DEF IndInv, TypeOK,
       ControlInv, Located, Named, Labels, Ops, ByName, ById, Partial, Info
<1>2. ControlInv'
    BY NoneFacts, IdAssumption, NMNoneAssumption DEF IndInv, TypeOK, ControlInv,
       Located, Named, Locked, ByName, ById, Partial, Info
<1>3. IndexInv'
    BY NoneFacts DEF IndInv, TypeOK, ControlInv, IndexInv, Located, Named, Locked,
       Info
<1>4. TruthInv'
    BY NoneFacts DEF IndInv, TypeOK, ControlInv, TruthInv, Seen, Located, Named,
       Got, Yes, No, Err, NoAnswer, Info, Partial
<1>5. FaultInv'
    BY NoneFacts, IdAssumption DEF IndInv, TypeOK, ControlInv, FaultInv, Plain,
       PanicsExplained, Located, ByName, ById, NoFault
<1>6. RegInv'
    BY NoneFacts DEF IndInv, TypeOK, ControlInv, RegInv, LastEvent, SharesUUID
<1> QED
    BY <1>1, <1>2, <1>3, <1>4, <1>5, <1>6 DEF IndInv

(* NodeAdded preserves every part of the invariant. *)
LEMMA NodeAddedStep ==
    ASSUME IndInv, NEW n \in Node, NodeAdded(n)
    PROVE  IndInv'
<1> USE DEF inv, k8s, cache, call, process, NodeAdded, Deliver, Goto
<1>1. TypeOK'
    <2>1. events' \in [Node -> Seq({"add", "delete", "tombstone"})]
        BY LastTail DEF IndInv, TypeOK
    <2>. QED
        BY NoneFacts, AnswerFacts, IdAssumption, <2>1 DEF IndInv, TypeOK, ControlInv,
               Located, Named, Labels, Ops, ByName, ById, Partial, Info
<1>2. ControlInv'
    <2>1. Convert[SystemUUID[n]] \in Id /\ n # None
        BY IdAssumption, NMNoneAssumption
    <2>. QED
        BY NoneFacts, IdAssumption, NMNoneAssumption, <2>1
           DEF IndInv, TypeOK, ControlInv, Located,
               Named, Locked, ByName, ById, Partial, Info
<1>3. IndexInv'
    BY NoneFacts DEF IndInv, TypeOK, ControlInv, IndexInv, Located, Named, Locked,
       Info
<1>4. TruthInv'
    BY NoneFacts DEF IndInv, TypeOK, ControlInv, TruthInv, Seen, Located, Named,
       Got, Yes, No, Err, NoAnswer, Info, Partial
<1>5. FaultInv'
    BY NoneFacts, IdAssumption DEF IndInv, TypeOK, ControlInv, FaultInv, Plain,
       PanicsExplained, Located, ByName, ById, NoFault
<1>6. RegInv'
    <2>1. /\ events \in [Node -> Seq({"add", "delete", "tombstone"})]
          /\ events[n] # <<>> /\ events'[n] = Tail(events[n])
          /\ \A m \in Node \ {n} : events'[m] = events[m]
        BY DEF IndInv, TypeOK
    <2>2. /\ Tail(events[n]) = <<>> => LastEvent(n) = Head(events[n])
          /\ Tail(events[n]) # <<>> => Tail(events[n])[Len(Tail(events[n]))] = LastEvent(n)
        BY <2>1, LastTail DEF LastEvent
    <2>3. \A m \in Node : events'[m] # <<>> => (LastEvent(m)' = "add" <=> m \in nodes')
        BY <2>1, <2>2 DEF IndInv, RegInv, LastEvent
    <2>4. ASSUME up', NEW m \in nodes'
          PROVE  \/ events'[m] # <<>> \/ SharesUUID(m) \/ handling' = m
                 \/ nodeRegUUIDMap'[Convert[SystemUUID[m]]] = m
        <3>1. handling = None
            BY DEF IndInv, ControlInv
        <3>2. m \in nodes /\ m \in Node /\ up
            BY <2>4 DEF IndInv, TypeOK
        <3>. QED
            BY <2>1, <3>1, <3>2, NMNoneAssumption DEF IndInv, RegInv
    <2>. QED
        BY <2>3, <2>4 DEF RegInv, SharesUUID
<1> QED
    BY <1>1, <1>2, <1>3, <1>4, <1>5, <1>6 DEF IndInv

(* NodeDeleted preserves every part of the invariant. *)
LEMMA NodeDeletedStep ==
    ASSUME IndInv, NEW n \in Node, NodeDeleted(n)
    PROVE  IndInv'
<1> USE DEF inv, k8s, cache, call, process, NodeDeleted, Deliver
<1>1. TypeOK'
    <2>1. events' \in [Node -> Seq({"add", "delete", "tombstone"})]
        BY LastTail DEF IndInv, TypeOK
    <2>2. nodeRegUUIDMap' \in [Id -> Node \cup {None}]
        BY IdAssumption DEF IndInv, TypeOK
    <2>. QED
        BY NoneFacts, AnswerFacts, IdAssumption, <2>1, <2>2
           DEF IndInv, TypeOK, ControlInv,
               Located, Named, Labels, Ops, ByName, ById, Partial, Info
<1>2. ControlInv'
    BY NoneFacts, IdAssumption, NMNoneAssumption DEF IndInv, TypeOK, ControlInv,
       Located, Named, Locked, ByName, ById, Partial, Info
<1>3. IndexInv'
    BY NoneFacts DEF IndInv, TypeOK, ControlInv, IndexInv, Located, Named, Locked,
       Info
<1>4. TruthInv'
    BY NoneFacts DEF IndInv, TypeOK, ControlInv, TruthInv, Seen, Located, Named,
       Got, Yes, No, Err, NoAnswer, Info, Partial
<1>5. FaultInv'
    BY NoneFacts, IdAssumption DEF IndInv, TypeOK, ControlInv, FaultInv, Plain,
       PanicsExplained, Located, ByName, ById, NoFault
<1>6. RegInv'
    <2>1. /\ events \in [Node -> Seq({"add", "delete", "tombstone"})]
          /\ events[n] # <<>> /\ events'[n] = Tail(events[n])
          /\ \A m \in Node \ {n} : events'[m] = events[m]
        BY DEF IndInv, TypeOK
    <2>2. /\ Tail(events[n]) = <<>> => LastEvent(n) = Head(events[n])
          /\ Tail(events[n]) # <<>> => Tail(events[n])[Len(Tail(events[n]))] = LastEvent(n)
        BY <2>1, LastTail DEF LastEvent
    <2>3. \A m \in Node : events'[m] # <<>> => (LastEvent(m)' = "add" <=> m \in nodes')
        BY <2>1, <2>2 DEF IndInv, RegInv, LastEvent
    <2>4. ASSUME up', NEW m \in nodes'
          PROVE  \/ events'[m] # <<>> \/ SharesUUID(m) \/ handling' = m
                 \/ nodeRegUUIDMap'[Convert[SystemUUID[m]]] = m
        <3>1. m \in nodes /\ m \in Node /\ up
            BY <2>4 DEF IndInv, TypeOK
        <3>2. CASE m = n
            BY <2>1, <2>2, <3>1, <3>2 DEF IndInv, RegInv
        <3>3. CASE m # n
            <4>1. SharesUUID(m) \/ Convert[SystemUUID[m]] # Convert[SystemUUID[n]]
                BY <3>3 DEF SharesUUID
            <4>2. \/ SharesUUID(m)
                  \/ nodeRegUUIDMap'[Convert[SystemUUID[m]]] = nodeRegUUIDMap[Convert[SystemUUID[m]]]
                BY <4>1, <3>1, IdAssumption DEF IndInv, TypeOK
            <4>. QED
                BY <2>1, <3>1, <3>3, <4>2 DEF IndInv, RegInv
        <3>. QED
            BY <3>2, <3>3
    <2>. QED
        BY <2>3, <2>4 DEF RegInv, SharesUUID
<1> QED
    BY <1>1, <1>2, <1>3, <1>4, <1>5, <1>6 DEF IndInv

(* NodeDeletedUnknown preserves every part of the invariant. *)
LEMMA NodeDeletedUnknownStep ==
    ASSUME IndInv, NEW n \in Node, NodeDeletedUnknown(n)
    PROVE  IndInv'
<1> USE DEF inv, k8s, cache, call, process, NodeDeletedUnknown, Deliver
<1>1. TypeOK'
    BY NoneFacts, AnswerFacts, IdAssumption, NMBoundAssumption DEF IndInv, TypeOK,
       ControlInv, Located, Named, Labels, Ops, ByName, ById, Partial, Info
<1>2. ControlInv'
    BY NoneFacts, IdAssumption, NMNoneAssumption DEF IndInv, TypeOK, ControlInv,
       Located, Named, Locked, ByName, ById, Partial, Info
<1>3. IndexInv'
    BY NoneFacts DEF IndInv, TypeOK, ControlInv, IndexInv, Located, Named, Locked,
       Info
<1>4. TruthInv'
    BY NoneFacts DEF IndInv, TypeOK, ControlInv, TruthInv, Seen, Located, Named,
       Got, Yes, No, Err, NoAnswer, Info, Partial
<1>5. FaultInv'
    BY NoneFacts, IdAssumption DEF IndInv, TypeOK, ControlInv, FaultInv, Plain,
       PanicsExplained, Located, ByName, ById, NoFault
<1>6. RegInv'
    <2>1. /\ events \in [Node -> Seq({"add", "delete", "tombstone"})]
          /\ events[n] # <<>> /\ events'[n] = Tail(events[n])
          /\ \A m \in Node \ {n} : events'[m] = events[m]
        BY DEF IndInv, TypeOK
    <2>2. /\ Tail(events[n]) = <<>> => LastEvent(n) = Head(events[n])
          /\ Tail(events[n]) # <<>> => Tail(events[n])[Len(Tail(events[n]))] = LastEvent(n)
        BY <2>1, LastTail DEF LastEvent
    <2>3. \A m \in Node : events'[m] # <<>> => (LastEvent(m)' = "add" <=> m \in nodes')
        BY <2>1, <2>2 DEF IndInv, RegInv, LastEvent
    <2>4. ASSUME up', NEW m \in nodes'
          PROVE  \/ events'[m] # <<>> \/ SharesUUID(m) \/ handling' = m
                 \/ nodeRegUUIDMap'[Convert[SystemUUID[m]]] = m
        <3>1. m \in nodes /\ m \in Node /\ up
            BY <2>4 DEF IndInv, TypeOK
        <3>2. m = n => events'[m] # <<>>
            BY <2>1, <2>2, <3>1 DEF IndInv, RegInv
        <3>. QED
            BY <2>1, <3>1, <3>2 DEF IndInv, RegInv
    <2>. QED
        BY <2>3, <2>4 DEF RegInv, SharesUUID
<1> QED
    BY <1>1, <1>2, <1>3, <1>4, <1>5, <1>6 DEF IndInv

(* nodeAdded with a short UUID preserves every part of the invariant. *)
LEMMA NodeAddedPanicStep ==
    ASSUME IndInv, NEW n \in Node, NodeEventPanic(n, "add", "RegisterNode")
    PROVE  IndInv'
<1> USE DEF inv, k8s, cache, call, process, NodeEventPanic, Deliver, Panic
<1>1. TypeOK'
    <2>1. events' \in [Node -> Seq({"add", "delete", "tombstone"})]
        BY LastTail DEF IndInv, TypeOK
    <2>2. fault' \in [op : Ops, arg : Id \cup Name \cup {None}]
        BY IdAssumption DEF Ops
    <2>. QED
        BY NoneFacts, AnswerFacts, IdAssumption, <2>1, <2>2
           DEF IndInv, TypeOK, ControlInv,
               Located, Named, Labels, Ops, ByName, ById, Partial, Info
<1>2. ControlInv'
    BY NoneFacts, IdAssumption, NMNoneAssumption DEF IndInv, TypeOK, ControlInv,
       Located, Named, Locked, ByName, ById, Partial, Info
<1>3. IndexInv'
    BY NoneFacts DEF IndInv, TypeOK, ControlInv, IndexInv, Located, Named, Locked,
       Info
<1>4. TruthInv'
    BY NoneFacts DEF IndInv, TypeOK, ControlInv, TruthInv, Seen, Located, Named,
       Got, Yes, No, Err, NoAnswer, Info, Partial
<1>5. FaultInv'
    BY NoneFacts, IdAssumption DEF IndInv, TypeOK, ControlInv, FaultInv, Plain,
       PanicsExplained, Located, ByName, ById, NoFault
<1>6. RegInv'
    BY NoneFacts DEF IndInv, TypeOK, ControlInv, RegInv, LastEvent, SharesUUID
<1> QED
    BY <1>1, <1>2, <1>3, <1>4, <1>5, <1>6 DEF IndInv

(* nodeDeleted with a short UUID preserves every part of the invariant. *)
LEMMA NodeDeletedPanicStep ==
    ASSUME IndInv, NEW n \in Node, NodeEventPanic(n, "delete", "UnregisterNode")
    PROVE  IndInv'
<1> USE DEF inv, k8s, cache, call, process, NodeEventPanic, Deliver, Panic
<1>1. TypeOK'
    <2>1. events' \in [Node -> Seq({"add", "delete", "tombstone"})]
        BY LastTail DEF IndInv, TypeOK
    <2>2. fault' \in [op : Ops, arg : Id \cup Name \cup {None}]
        BY IdAssumption DEF Ops
    <2>. QED
        BY NoneFacts, AnswerFacts, IdAssumption, <2>1, <2>2
           DEF IndInv, TypeOK, ControlInv,
               Located, Named, Labels, Ops, ByName, ById, Partial, Info
<1>2. ControlInv'
    BY NoneFacts, IdAssumption, NMNoneAssumption DEF IndInv, TypeOK, ControlInv,
       Located, Named, Locked, ByName, ById, Partial, Info
<1>3. IndexInv'
    BY NoneFacts DEF IndInv, TypeOK, ControlInv, IndexInv, Located, Named, Locked,
       Info
<1>4. TruthInv'
    BY NoneFacts DEF IndInv, TypeOK, ControlInv, TruthInv, Seen, Located, Named,
       Got, Yes, No, Err, NoAnswer, Info, Partial
<1>5. FaultInv'
    BY NoneFacts, IdAssumption DEF IndInv, TypeOK, ControlInv, FaultInv, Plain,
       PanicsExplained, Located, ByName, ById, NoFault
<1>6. RegInv'
    BY NoneFacts DEF IndInv, TypeOK, ControlInv, RegInv, LastEvent, SharesUUID
<1> QED
    BY <1>1, <1>2, <1>3, <1>4, <1>5, <1>6 DEF IndInv

(* VMChange preserves every part of the invariant. *)
LEMMA VMChangeStep ==
    ASSUME IndInv, NEW u \in VM, NEW l \in Loc \cup {None}, NEW n \in Name,
           VMChange(u, l, n)
    PROVE  IndInv'
<1> USE DEF inv, k8s, cache, call, process, VMChange
<1>1. TypeOK'
    BY NoneFacts, AnswerFacts, IdAssumption, NMBoundAssumption DEF IndInv, TypeOK,
       ControlInv, Located, Named, Labels, Ops, ByName, ById, Partial, Info
<1>2. ControlInv'
    BY NoneFacts, IdAssumption, NMNoneAssumption DEF IndInv, TypeOK, ControlInv,
       Located, Named, Locked, ByName, ById, Partial, Info
<1>3. IndexInv'
    BY NoneFacts DEF IndInv, TypeOK, ControlInv, IndexInv, Located, Named, Locked,
       Info
<1>4. TruthInv'
    BY NoneFacts DEF IndInv, TypeOK, ControlInv, TruthInv, Seen, Located, Named,
       Got, Yes, No, Err, NoAnswer, Info, Partial
<1>5. FaultInv'
    BY NoneFacts, IdAssumption DEF IndInv, TypeOK, ControlInv, FaultInv, Plain,
       PanicsExplained, Located, ByName, ById, NoFault
<1>6. RegInv'
    BY NoneFacts DEF IndInv, TypeOK, ControlInv, RegInv, LastEvent, SharesUUID
<1> QED
    BY <1>1, <1>2, <1>3, <1>4, <1>5, <1>6 DEF IndInv

(* K8sAddNode preserves every part of the invariant. *)
LEMMA K8sAddNodeStep ==
    ASSUME IndInv, NEW n \in Node, K8sAddNode(n)
    PROVE  IndInv'
<1> USE DEF inv, k8s, cache, call, process, K8sAddNode
<1>1. TypeOK'
    BY NoneFacts, AnswerFacts, IdAssumption, NMBoundAssumption DEF IndInv, TypeOK,
       ControlInv, Located, Named, Labels, Ops, ByName, ById, Partial, Info
<1>2. ControlInv'
    BY NoneFacts, IdAssumption, NMNoneAssumption DEF IndInv, TypeOK, ControlInv,
       Located, Named, Locked, ByName, ById, Partial, Info
<1>3. IndexInv'
    BY NoneFacts DEF IndInv, TypeOK, ControlInv, IndexInv, Located, Named, Locked,
       Info
<1>4. TruthInv'
    BY NoneFacts DEF IndInv, TypeOK, ControlInv, TruthInv, Seen, Located, Named,
       Got, Yes, No, Err, NoAnswer, Info, Partial
<1>5. FaultInv'
    BY NoneFacts, IdAssumption DEF IndInv, TypeOK, ControlInv, FaultInv, Plain,
       PanicsExplained, Located, ByName, ById, NoFault
<1>6. RegInv'
    BY NoneFacts DEF IndInv, TypeOK, ControlInv, RegInv, LastEvent, SharesUUID
<1> QED
    BY <1>1, <1>2, <1>3, <1>4, <1>5, <1>6 DEF IndInv

(* K8sDeleteNode preserves every part of the invariant. *)
LEMMA K8sDeleteNodeStep ==
    ASSUME IndInv, NEW n \in Node, NEW how \in {"delete", "tombstone"},
           K8sDeleteNode(n, how)
    PROVE  IndInv'
<1> USE DEF inv, k8s, cache, call, process, K8sDeleteNode
<1>1. TypeOK'
    BY NoneFacts, AnswerFacts, IdAssumption, NMBoundAssumption DEF IndInv, TypeOK,
       ControlInv, Located, Named, Labels, Ops, ByName, ById, Partial, Info
<1>2. ControlInv'
    BY NoneFacts, IdAssumption, NMNoneAssumption DEF IndInv, TypeOK, ControlInv,
       Located, Named, Locked, ByName, ById, Partial, Info
<1>3. IndexInv'
    BY NoneFacts DEF IndInv, TypeOK, ControlInv, IndexInv, Located, Named, Locked,
       Info
<1>4. TruthInv'
    BY NoneFacts DEF IndInv, TypeOK, ControlInv, TruthInv, Seen, Located, Named,
       Got, Yes, No, Err, NoAnswer, Info, Partial
<1>5. FaultInv'
    BY NoneFacts, IdAssumption DEF IndInv, TypeOK, ControlInv, FaultInv, Plain,
       PanicsExplained, Located, ByName, ById, NoFault
<1>6. RegInv'
    BY NoneFacts DEF IndInv, TypeOK, ControlInv, RegInv, LastEvent, SharesUUID
<1> QED
    BY <1>1, <1>2, <1>3, <1>4, <1>5, <1>6 DEF IndInv

(* Crash preserves every part of the invariant. *)
LEMMA CrashStep ==
    ASSUME IndInv, Crash
    PROVE  IndInv'
<1> USE DEF inv, k8s, cache, call, process, Crash
<1>1. TypeOK'
    <2>1. crashes' \in 0..MaxCrashes
        <3>1. crashes \in 0..MaxCrashes /\ crashes < MaxCrashes /\ crashes' = crashes + 1
            BY DEF IndInv, TypeOK
        <3>. QED
            BY <3>1, NMBoundAssumption
    <2>. QED
        BY NoneFacts, AnswerFacts, IdAssumption, <2>1 DEF IndInv, TypeOK, ControlInv,
               Located, Named, Labels, Ops, ByName, ById, Partial, Info
<1>2. ControlInv'
    BY NoneFacts, IdAssumption, NMNoneAssumption DEF IndInv, TypeOK, ControlInv,
       Located, Named, Locked, ByName, ById, Partial, Info
<1>3. IndexInv'
    BY NoneFacts DEF IndInv, TypeOK, ControlInv, IndexInv, Located, Named, Locked,
       Info
<1>4. TruthInv'
    BY NoneFacts DEF IndInv, TypeOK, ControlInv, TruthInv, Seen, Located, Named,
       Got, Yes, No, Err, NoAnswer, Info, Partial
<1>5. FaultInv'
    BY NoneFacts, IdAssumption DEF IndInv, TypeOK, ControlInv, FaultInv, Plain,
       PanicsExplained, Located, ByName, ById, NoFault
<1>6. RegInv'
    BY NoneFacts DEF IndInv, TypeOK, ControlInv, RegInv, LastEvent, SharesUUID
<1> QED
    BY <1>1, <1>2, <1>3, <1>4, <1>5, <1>6 DEF IndInv

(* Restart preserves every part of the invariant. *)
LEMMA RestartStep ==
    ASSUME IndInv, Restart
    PROVE  IndInv'
<1> USE DEF inv, k8s, cache, call, process, Restart, NoNames, NoIds, NoTree
<1>1. TypeOK'
    <2>1. events' \in [Node -> Seq({"add", "delete", "tombstone"})]
        <3>1. <<"add">> \in Seq({"add", "delete", "tombstone"})
            OBVIOUS
        <3>2. <<>> \in Seq({"add", "delete", "tombstone"})
            OBVIOUS
        <3>. QED
            BY <3>1, <3>2
    <2>2. fault' \in [op : Ops, arg : Id \cup Name \cup {None}]
        BY DEF NoFault, Ops
    <2>. QED
        BY NoneFacts, AnswerFacts, IdAssumption, <2>1, <2>2
           DEF IndInv, TypeOK, ControlInv,
               Located, Named, Labels, Ops, ByName, ById, Partial, Info
<1>2. ControlInv'
    BY NoneFacts, IdAssumption, NMNoneAssumption DEF IndInv, TypeOK, ControlInv,
       Located, Named, Locked, ByName, ById, Partial, Info
<1>3. IndexInv'
    BY NoneFacts DEF IndInv, TypeOK, ControlInv, IndexInv, Located, Named, Locked,
       Info
<1>4. TruthInv'
    BY NoneFacts DEF IndInv, TypeOK, ControlInv, TruthInv, Seen, Located, Named,
       Got, Yes, No, Err, NoAnswer, Info, Partial
<1>5. FaultInv'
    BY NoneFacts, IdAssumption DEF IndInv, TypeOK, ControlInv, FaultInv, Plain,
       PanicsExplained, Located, ByName, ById, NoFault
<1>6. RegInv'
    BY NoneFacts DEF IndInv, TypeOK, ControlInv, RegInv, LastEvent, SharesUUID
<1> QED
    BY <1>1, <1>2, <1>3, <1>4, <1>5, <1>6 DEF IndInv

-----------------------------------------------------------------------------
(* The invariant holds initially. *)
LEMMA InitInv == Init => IndInv
<1> SUFFICES ASSUME Init PROVE IndInv
    OBVIOUS
<1> USE DEF Init
<1>1. TypeOK
    <2>1. /\ calls \in 0..MaxCalls /\ changes \in 0..MaxChanges
          /\ nodeEvents \in 0..MaxNodeEvents /\ crashes \in 0..MaxCrashes
        BY NMBoundAssumption
    <2>2. fault \in [op : Ops, arg : Id \cup Name \cup {None}]
        BY DEF NoFault, Ops
    <2>3. ret \in [Thread -> Answers]
        BY AnswerFacts
    <2>4. events \in [Node -> Seq({"add", "delete", "tombstone"})]
        <3>1. <<>> \in Seq({"add", "delete", "tombstone"})
            OBVIOUS
        <3>. QED
            BY <3>1
    <2>5. /\ nodeNameMap \in [Name -> Info \cup {None}]
          /\ nodeUUIDMap \in [Id -> Info \cup {None}]
          /\ vcList \in [Loc -> [VM -> Info \cup {None}]]
          /\ nodeRegUUIDMap \in [Id -> Node \cup {None}]
        BY DEF NoNames, NoIds, NoTree
    <2>6. seenLoc \in [VM -> SUBSET Loc] /\ seenName \in [VM -> SUBSET Name]
        OBVIOUS
    <2>. QED
        BY <2>1, <2>2, <2>3, <2>4, <2>5, <2>6 DEF TypeOK, Labels, Ops
<1>2. ControlInv
    BY NoneFacts DEF ControlInv, Located, Named, Locked, ByName, ById
<1>3. IndexInv
    BY IdAssumption DEF IndexInv, NoNames, NoIds, NoTree
<1>4. TruthInv
    <2>1. \A u \in VM : vm[u].loc \in seenLoc[u] \cup {None} /\ vm[u].name \in seenName[u]
        OBVIOUS
    <2>2. \A t \in Thread : ret[t].kind # "info" /\ pc[t] \notin Located
        BY AnswerKinds DEF Located
    <2>. QED
        BY <2>1, <2>2 DEF TruthInv, NoNames, NoIds, NoTree, Located, Named
<1>5. FaultInv
    BY DEF FaultInv, PanicsExplained, Located, NoFault, ByName, ById
<1>6. RegInv
    BY DEF RegInv
<1>. QED
    BY <1>1, <1>2, <1>3, <1>4, <1>5, <1>6 DEF IndInv

(* A stuttering step preserves the invariant. *)
LEMMA StutterInv == IndInv /\ UNCHANGED vars => IndInv'
<1> SUFFICES ASSUME IndInv, UNCHANGED vars PROVE IndInv'
    OBVIOUS
<1> USE DEF vars, inv, k8s, cache, call, process
<1>1. TypeOK'
    BY DEF IndInv, TypeOK
<1>2. ControlInv'
    BY DEF IndInv, ControlInv
<1>3. IndexInv'
    BY DEF IndInv, IndexInv
<1>4. TruthInv'
    BY DEF IndInv, TruthInv, Seen
<1>5. FaultInv'
    BY DEF IndInv, FaultInv, Plain, PanicsExplained
<1>6. RegInv'
    BY DEF IndInv, RegInv, LastEvent, SharesUUID
<1>. QED
    BY <1>1, <1>2, <1>3, <1>4, <1>5, <1>6 DEF IndInv

(* Every step preserves the invariant. *)
LEMMA NextInv == IndInv /\ [Next]_vars => IndInv'
<1> SUFFICES ASSUME IndInv, [Next]_vars PROVE IndInv'
    OBVIOUS
<1>1. ASSUME NEW t \in Caller, Call(t) PROVE IndInv'
    BY <1>1, CallByNameStep, CallByIdStep, InstanceTypeByNameStep, InstanceTypeByIdStep,
       InstanceTypePanicByNameStep, InstanceTypePanicByIdStep, GetZoneByNameStep,
       GetZoneByIdStep DEF Call
<1>2. ASSUME NEW t \in Thread, Step(t) PROVE IndInv'
    BY <1>2, LookupHitStep, LookupNameStep, LookupMissStep, LookupRetryStep,
       LookupPanicStep, PropertiesOKStep, PropertiesFailStep, StoreNameStep,
       StoreUUIDStep, StoreVCStep, DiscoveredStep, DerefStep, DerefPanicStep DEF Step
<1>3. ASSUME InformerStep PROVE IndInv'
    BY <1>3, AddNodeStep, NodeAddedStep, NodeDeletedStep, NodeDeletedUnknownStep,
       NodeAddedPanicStep, NodeDeletedPanicStep DEF InformerStep
<1>4. ASSUME Environment PROVE IndInv'
    BY <1>4, VMChangeStep, K8sAddNodeStep, K8sDeleteNodeStep, CrashStep DEF Environment
<1>. QED
    BY <1>1, <1>2, <1>3, <1>4, RestartStep, StutterInv DEF Next

(* The inductive invariant holds in every reachable state. *)
THEOREM NodeInvariance == Spec => []IndInv
<1>. QED
    BY InitInv, NextInv, PTL DEF Spec

(* Every variable of the node manager keeps its type. *)
THEOREM NodeTypeCorrect == Spec => []TypeOK
<1>1. IndInv => TypeOK
    BY DEF IndInv
<1>. QED
    BY <1>1, NodeInvariance, PTL

(* addNodeInfo keeps the three indexes in agreement whenever its lock is   *)
(* free, whatever discoveries run at once.                                 *)
THEOREM IndexesAgree == Spec => []IndexAgreement
<1>1. ASSUME IndInv, lock = None PROVE \A t \in Thread : pc[t] \notin Locked
    BY <1>1, NoneFacts DEF IndInv, ControlInv
<1>2. IndInv => IndexAgreement
    BY <1>1 DEF IndInv, IndexInv, IndexAgreement, Locked
<1>. QED
    BY <1>2, NodeInvariance, PTL

(* What DiscoverNode stores and the calls return was true of the VM at     *)
(* some moment, however the inventory changed during the discovery.        *)
THEOREM EntriesWereTrue == Spec => []EntriesOnceTrue
<1>1. IndInv => EntriesOnceTrue
    BY DEF IndInv, TruthInv, EntriesOnceTrue, ExportNodes, Seen
<1>. QED
    BY <1>1, NodeInvariance, PTL

(* The only dereferences of a missing entry are the ones PanicsExplained   *)
(* names.                                                                  *)
THEOREM PanicsAreExplained == Spec => []PanicsExplained
<1>1. IndInv => PanicsExplained
    BY DEF IndInv, FaultInv
<1>. QED
    BY <1>1, NodeInvariance, PTL

(* RegisterNode and UnregisterNode leave every node of the cluster         *)
(* registered once its events are handled, for any number of nodes,        *)
(* events and restarts.                                                    *)
THEOREM RegistrationHolds == Spec => []RegistrationSettled
<1>1. ASSUME IndInv, up, pc[Informer] = "idle", NEW n \in nodes
      PROVE  events[n] # <<>> \/ SharesUUID(n) \/ nodeRegUUIDMap[Convert[SystemUUID[n]]] = n
    <2>1. handling # n
        BY <1>1, NMNoneAssumption DEF IndInv, TypeOK, ControlInv
    <2>. QED
        BY <1>1, <2>1 DEF IndInv, RegInv
<1>2. IndInv => RegistrationSettled
    BY <1>1 DEF RegistrationSettled
<1>. QED
    BY <1>2, NodeInvariance, PTL

-----------------------------------------------------------------------------
(* What a caller has found under the ID asked for, and what it was told. *)
Asked(t) ==
    /\ pc[t] \in Located /\ op[t] \in ById => di[t].uuid \in {Lower[arg[t]], Convert[arg[t]]}
    /\ pc[t] = "discovered" /\ op[t] \in ById => Existed(arg[t])
    /\ pc[t] = "idle" => Answered(t)

AskedInv == up => \A t \in Caller : Asked(t)

(* While the process lives, a VM stays known, and where it was is not      *)
(* forgotten.                                                              *)
Remembers == /\ \A u \in Id : Known(u) => Known(u)'
             /\ \A u \in VM : seenLoc[u] \subseteq seenLoc'[u]

(* A goroutine that is about to store a UUID goes on to do so. *)
LEMMA KnownStays ==
    ASSUME IndInv, UNCHANGED nodeUUIDMap,
           \A x \in Thread : pc[x] = "storeUUID" => pc'[x] = "storeUUID" /\ di'[x] = di[x]
    PROVE  \A u \in Id : Known(u) => Known(u)'
BY DEF Known

LEMMA StoreUUIDKnown ==
    ASSUME IndInv, NEW t \in Thread, StoreUUID(t)
    PROVE  \A u \in Id : Known(u) => Known(u)'
<1>1. /\ di[t] \in Info /\ di[t] # None /\ di[t].uuid \in Id
      /\ nodeUUIDMap \in [Id -> Info \cup {None}] /\ pc \in [Thread -> Labels]
    BY NoneFacts DEF IndInv, TypeOK, ControlInv, Named, StoreUUID, Info
<1>2. /\ nodeUUIDMap' = [nodeUUIDMap EXCEPT ![di[t].uuid] = di[t]]
      /\ pc' = [pc EXCEPT ![t] = "storeVC"] /\ UNCHANGED di
    BY DEF StoreUUID, Goto
<1>3. /\ \A u \in Id : nodeUUIDMap[u] # None => nodeUUIDMap'[u] # None
      /\ nodeUUIDMap'[di[t].uuid] # None
      /\ \A x \in Thread \ {t} : pc'[x] = pc[x]
    BY <1>1, <1>2
<1>. QED
    BY <1>2, <1>3 DEF Known

LEMMA StepRemembers ==
    ASSUME IndInv, NEW t \in Thread, Step(t), up'
    PROVE  Remembers
<1>1. pc \in [Thread -> Labels] /\ di \in [Thread -> Partial \cup {None}]
    BY DEF IndInv, TypeOK
<1>2. UNCHANGED seenLoc
    BY DEF Step, LookupHit, LookupName, LookupMiss, LookupRetry, LookupPanic, PropertiesOK,
       PropertiesFail, StoreName, StoreUUID, StoreVC, Discovered, Deref, DerefPanic, inv
<1>3. CASE StoreUUID(t)
    BY <1>2, <1>3, StoreUUIDKnown DEF Remembers
<1>4. CASE ~StoreUUID(t)
    <2>1. UNCHANGED nodeUUIDMap /\ pc[t] # "storeUUID"
        BY <1>4
           DEF Step, LookupHit, LookupName, LookupMiss, LookupRetry, LookupPanic, PropertiesOK,
               PropertiesFail, StoreName, StoreVC, Discovered, Deref, DerefPanic, cache
    <2>2. \A x \in Thread \ {t} : pc'[x] = pc[x] /\ di'[x] = di[x]
        BY <1>1, <1>4
           DEF Step, LookupHit, LookupName, LookupMiss, LookupRetry, LookupPanic, PropertiesOK,
               PropertiesFail, StoreName, StoreVC, Discovered, Deref, DerefPanic, Goto, Answer,
               Panic, DiscoverFails
    <2>. QED
        BY <1>2, <2>1, <2>2, KnownStays DEF Remembers
<1>. QED
    BY <1>3, <1>4

LEMMA CallRemembers ==
    ASSUME IndInv, NEW t \in Caller, Call(t)
    PROVE  Remembers
<1>1. pc \in [Thread -> Labels] /\ t \in Thread
    BY NoneFacts DEF IndInv, TypeOK
<1>2. UNCHANGED <<seenLoc, nodeUUIDMap, di>> /\ pc[t] = "idle"
    BY DEF Call, CallByName, CallById, InstanceType, InstanceTypePanic, GetZone, Begin, inv, cache
<1>3. \A x \in Thread \ {t} : pc'[x] = pc[x]
    BY <1>1
       DEF Call, CallByName, CallById, InstanceType, InstanceTypePanic, GetZone, Goto, Answer, Panic
<1>. QED
    BY <1>2, <1>3, KnownStays DEF Remembers

LEMMA OthersRemember ==
    ASSUME IndInv, InformerStep \/ Environment \/ UNCHANGED vars
    PROVE  Remembers /\ \A t \in Caller : UNCHANGED <<pc[t], op[t], arg[t], di[t], ret[t]>>
<1>1. /\ pc \in [Thread -> Labels] /\ op \in [Thread -> Ops]
      /\ arg \in [Thread -> Id \cup Name \cup {None}] /\ Informer \notin Caller
      /\ seenLoc \in [VM -> SUBSET Loc] /\ Caller \subseteq Thread /\ Informer \in Thread
    BY NoneFacts, NMNoneAssumption DEF IndInv, TypeOK
<1>2. UNCHANGED <<nodeUUIDMap, di, ret>>
    BY DEF InformerStep, AddNode, NodeAdded, NodeDeleted, NodeDeletedUnknown, NodeEventPanic,
       Environment, VMChange, K8sAddNode, K8sDeleteNode, Crash, Goto, Panic, cache, vars
<1>3. /\ \A x \in Thread \ {Informer} : pc'[x] = pc[x] /\ op'[x] = op[x] /\ arg'[x] = arg[x]
      /\ pc[Informer] = "storeUUID" => pc'[Informer] = pc[Informer]
    <2>1. CASE AddNode
        BY <1>1, <2>1 DEF AddNode, Goto, call
    <2>2. ASSUME NEW n \in Node, NodeAdded(n)
          PROVE  /\ \A x \in Thread \ {Informer} : pc'[x] = pc[x] /\ op'[x] = op[x] /\ arg'[x] = arg[x]
                 /\ pc[Informer] = "storeUUID" => pc'[Informer] = pc[Informer]
        BY <1>1, <2>2 DEF NodeAdded, Deliver, Goto
    <2>3. ASSUME UNCHANGED <<pc, op, arg>>
          PROVE  /\ \A x \in Thread \ {Informer} : pc'[x] = pc[x] /\ op'[x] = op[x] /\ arg'[x] = arg[x]
                 /\ pc[Informer] = "storeUUID" => pc'[Informer] = pc[Informer]
        BY <2>3
    <2>4. ASSUME NEW n \in Node,
                 \/ NodeDeleted(n) \/ NodeDeletedUnknown(n)
                 \/ NodeEventPanic(n, "add", "RegisterNode")
                 \/ NodeEventPanic(n, "delete", "UnregisterNode")
          PROVE  UNCHANGED <<pc, op, arg>>
        BY <2>4 DEF NodeDeleted, NodeDeletedUnknown, NodeEventPanic, Panic, call
    <2>5. ASSUME Environment \/ UNCHANGED vars PROVE UNCHANGED <<pc, op, arg>>
        BY <2>5 DEF Environment, VMChange, K8sAddNode, K8sDeleteNode, Crash, call, vars
    <2>. QED
        BY <2>1, <2>2, <2>3, <2>4, <2>5 DEF InformerStep
<1>4. \A u \in VM : seenLoc[u] \subseteq seenLoc'[u]
    <2>1. CASE UNCHANGED seenLoc
        BY <2>1
    <2>2. ASSUME NEW u \in VM, NEW l \in Loc \cup {None}, NEW n \in Name, VMChange(u, l, n)
          PROVE  \A v \in VM : seenLoc[v] \subseteq seenLoc'[v]
        BY <1>1, <2>2 DEF VMChange
    <2>3. UNCHANGED seenLoc \/ \E u \in VM, l \in Loc \cup {None}, n \in Name : VMChange(u, l, n)
        BY DEF InformerStep, AddNode, NodeAdded, NodeDeleted, NodeDeletedUnknown, NodeEventPanic,
           Environment, K8sAddNode, K8sDeleteNode, Crash, inv, vars
    <2>. QED
        BY <2>1, <2>2, <2>3
<1>5. Remembers
    BY <1>2, <1>3, <1>4, KnownStays DEF Remembers
<1>. QED
    BY <1>1, <1>2, <1>3, <1>5

-----------------------------------------------------------------------------
(* Answers, given and kept. *)

LEMMA GotAnswer ==
    ASSUME Remembers, NEW t \in Caller, NEW i \in Info, ret'[t] = Got(i), Known(i.uuid),
           op'[t] \in NameOps => i.name = arg'[t], op'[t] \in IdOps => i.uuid = arg'[t]
    PROVE  Answered(t)'
<1>1. i.uuid \in Id
    BY NoneFacts DEF Info
<1>2. ret'[t].kind = "info" /\ ret'[t].info = i /\ ret'[t] # Yes
    BY AnswerKinds
<1>. QED
    BY <1>1, <1>2 DEF Answered, Remembers

LEMMA PlainAnswer ==
    ASSUME NEW t \in Caller, ret'[t] \in {No, Err}
    PROVE  Answered(t)'
<1>1. ret'[t].kind # "info" /\ ret'[t] # Yes
    BY DEF No, Err, Yes
<1>. QED
    BY <1>1 DEF Answered

LEMMA ExistedStays ==
    ASSUME Remembers, NEW a, Existed(a)
    PROVE  Existed(a)'
BY DEF Remembers, Existed

LEMMA YesAnswer ==
    ASSUME Remembers, NEW t \in Caller, NEW a, ret'[t] = Yes, arg'[t] = a, Existed(a)
    PROVE  Answered(t)'
<1>1. ret'[t].kind # "info"
    BY AnswerKinds
<1>2. Existed(a)'
    BY ExistedStays
<1>. QED
    BY <1>1, <1>2 DEF Answered

LEMMA NameEntry ==
    ASSUME IndInv, NEW n \in Name, nodeNameMap[n] # None
    PROVE  nodeNameMap[n] \in Info /\ nodeNameMap[n].name = n /\ Known(nodeNameMap[n].uuid)
BY DEF IndInv, TypeOK, IndexInv, Known

LEMMA IdEntry ==
    ASSUME IndInv, NEW a \in Id, nodeUUIDMap[a] # None
    PROVE  nodeUUIDMap[a] \in Info /\ nodeUUIDMap[a].uuid = a /\ Known(a) /\ Existed(a)
<1>1. nodeUUIDMap[a] \in Info /\ nodeUUIDMap[a].uuid = a
    BY DEF IndInv, TypeOK, IndexInv
<1>2. a \in VM /\ Lower[a] = a /\ nodeUUIDMap[a].loc \in seenLoc[a]
    BY <1>1, IdAssumption DEF IndInv, TruthInv, Seen, Info
<1>. QED
    BY <1>1, <1>2 DEF Known, Existed

LEMMA AskedStays ==
    ASSUME Remembers, IndInv, NEW t \in Caller, Asked(t),
           UNCHANGED <<pc[t], op[t], arg[t], di[t], ret[t]>>
    PROVE  Asked(t)'
<1>1. Existed(arg[t]) => Existed(arg[t])'
    BY DEF Existed, Remembers
<1>2. ASSUME ret[t].kind = "info", Known(ret[t].info.uuid) PROVE Known(ret[t].info.uuid)'
    <2>1. ret[t].info.uuid \in Id
        <3>1. t \in Thread /\ ret \in [Thread -> Answers]
            BY NoneFacts DEF IndInv, TypeOK
        <3>2. ret[t].info \in Info
            BY <1>2, <3>1, AnswerKinds DEF Answers
        <3>. QED
            BY <3>2, NoneFacts DEF Info
    <2>. QED
        BY <1>2, <2>1 DEF Remembers, Known
<1>3. Answered(t) => Answered(t)'
    BY <1>1, <1>2 DEF Answered
<1>. QED
    BY <1>1, <1>3 DEF Asked

(* A caller at its end has only its answer to account for. *)
LEMMA AtEnd ==
    ASSUME NEW t \in Caller, pc'[t] = "idle", Answered(t)'
    PROVE  Asked(t)'
BY DEF Asked, Located

LEMMA CallAsked ==
    ASSUME IndInv, NEW t \in Caller, Call(t), up'
    PROVE  Asked(t)'
<1>1. /\ t \in Thread /\ ret \in [Thread -> Answers] /\ pc \in [Thread -> Labels]
      /\ op \in [Thread -> Ops] /\ arg \in [Thread -> Id \cup Name \cup {None}] /\ Remembers
    BY NoneFacts, CallRemembers DEF IndInv, TypeOK
<1>2. ASSUME NEW r, Answer(t, r) PROVE pc'[t] = "idle" /\ ret'[t] = r
    BY <1>1, <1>2 DEF Answer
<1>3. ASSUME NEW o, NEW a, Begin(t, o, a) PROVE op'[t] = o /\ arg'[t] = a
    BY <1>1, <1>3 DEF Begin
<1>4. ASSUME Goto(t, "lookup") PROVE Asked(t)'
    <2>1. pc'[t] = "lookup"
        BY <1>1, <1>4 DEF Goto
    <2>. QED
        BY <2>1 DEF Asked, Located
<1>5. ASSUME NEW o \in NameOps, NEW n \in Name, Begin(t, o, n), nodeNameMap[n] # None,
             Answer(t, Got(nodeNameMap[n]))
      PROVE  Asked(t)'
    <2>1. o \notin IdOps
        BY DEF NameOps, IdOps, ByName, ById
    <2>. QED
        BY <1>1, <1>2, <1>3, <1>5, <2>1, NameEntry, GotAnswer, AtEnd
<1>6. ASSUME NEW o \in IdOps, NEW a \in Id, Begin(t, o, a), nodeUUIDMap[a] # None,
             Answer(t, Got(nodeUUIDMap[a]))
      PROVE  Asked(t)'
    <2>1. o \notin NameOps
        BY DEF NameOps, IdOps, ByName, ById
    <2>. QED
        BY <1>1, <1>2, <1>3, <1>6, <2>1, IdEntry, GotAnswer, AtEnd
<1>7. ASSUME Answer(t, Err) PROVE Asked(t)'
    BY <1>2, <1>7, PlainAnswer, AtEnd
<1>8. ASSUME NEW o \in ByName, NEW n \in Name, CallByName(t, o, n) PROVE Asked(t)'
    <2>1. o \in NameOps
        BY DEF NameOps
    <2>. QED
        BY <1>8, <1>4, <1>5, <2>1 DEF CallByName
<1>9. ASSUME NEW o \in ById, NEW a \in Id, CallById(t, o, a) PROVE Asked(t)'
    <2>1. o \in IdOps /\ Begin(t, o, a)
        BY <1>9 DEF IdOps, CallById
    <2>2. ASSUME Answer(t, Yes), nodeUUIDMap[a] # None PROVE Asked(t)'
        BY <1>1, <1>2, <1>3, <2>1, <2>2, IdEntry, YesAnswer, AtEnd
    <2>. QED
        BY <1>9, <1>4, <1>6, <2>1, <2>2 DEF CallById
<1>10. ASSUME NEW n \in Name,
             \/ InstanceType(t, "InstanceType", n, nodeNameMap[n])
             \/ GetZone(t, "GetZoneByNodeName", n, nodeNameMap[n])
      PROVE  Asked(t)'
    <2>1. "InstanceType" \in NameOps /\ "GetZoneByNodeName" \in NameOps
        BY DEF NameOps
    <2>. QED
        BY <1>10, <1>5, <1>7, <2>1 DEF InstanceType, GetZone
<1>11. ASSUME NEW a \in Id,
             \/ InstanceType(t, "InstanceTypeByProviderID", a, nodeUUIDMap[a])
             \/ GetZone(t, "GetZoneByProviderID", a, nodeUUIDMap[a])
      PROVE  Asked(t)'
    <2>1. "InstanceTypeByProviderID" \in IdOps /\ "GetZoneByProviderID" \in IdOps
        BY DEF IdOps
    <2>. QED
        BY <1>11, <1>6, <1>7, <2>1 DEF InstanceType, GetZone
<1>12. \A o, a, e : ~InstanceTypePanic(t, o, a, e)
    BY DEF InstanceTypePanic, Panic
<1>. QED
    BY <1>8, <1>9, <1>10, <1>11, <1>12 DEF Call

(* One step of a caller's discovery, or of its return from it. *)
LEMMA StepAsked ==
    ASSUME IndInv, NEW t \in Caller, Asked(t), Step(t), up'
    PROVE  Asked(t)'
<1>1. /\ t \in Thread /\ ret \in [Thread -> Answers] /\ pc \in [Thread -> Labels]
      /\ di \in [Thread -> Partial \cup {None}] /\ Remembers
    BY NoneFacts, StepRemembers DEF IndInv, TypeOK
<1>2. UNCHANGED <<op, arg>>
    BY DEF Step, LookupHit, LookupName, LookupMiss, LookupRetry, LookupPanic, PropertiesOK,
       PropertiesFail, StoreName, StoreUUID, StoreVC, Discovered, Deref, DerefPanic, call
<1>3. ASSUME NEW r, Answer(t, r) PROVE pc'[t] = "idle" /\ ret'[t] = r
    BY <1>1, <1>3 DEF Answer
<1>4. ASSUME NEW label, Goto(t, label) PROVE pc'[t] = label
    BY <1>1, <1>4 DEF Goto
<1>5. ASSUME DiscoverFails(t) PROVE Asked(t)'
    <2>1. CASE Goto(t, "addNode")
        BY <1>4, <2>1 DEF Asked, Located
    <2>2. CASE Answer(t, No) \/ Answer(t, Err)
        BY <1>3, <2>2, PlainAnswer, AtEnd
    <2>. QED
        BY <1>5, <2>1, <2>2 DEF DiscoverFails
<1>6. CASE LookupHit(t)
    <2>1. pc'[t] = "name"
        BY <1>4, <1>6 DEF LookupHit
    <2>2. ASSUME op[t] \in ById PROVE di'[t].uuid \in {Lower[arg[t]], Convert[arg[t]]}
        <3>1. ~SearchByName(t) /\ arg[t] \in Id
            BY <1>1, <2>2 DEF SearchByName, ById, ByName, IndInv, ControlInv
        <3>2. PICK u \in VM : /\ u = Lower[IF retry[t] THEN Convert[arg[t]] ELSE arg[t]]
                              /\ di'[t].uuid = u
            BY <1>1, <1>6, <3>1 DEF LookupHit, Matches
        <3>. QED
            BY <3>1, <3>2, IdAssumption
    <2>. QED
        BY <1>2, <2>1, <2>2 DEF Asked
<1>7. CASE LookupName(t)
    <2>1. pc'[t] = "properties" /\ pc[t] = "name" /\ di[t] \in Partial
        BY <1>1, <1>4, <1>7 DEF LookupName, IndInv, ControlInv, Located
    <2>2. di'[t].uuid = di[t].uuid
        BY <1>1, <1>7, <2>1 DEF LookupName, Partial
    <2>. QED
        BY <1>2, <2>1, <2>2 DEF Asked, Located
<1>8. CASE LookupMiss(t) \/ PropertiesFail(t)
    BY <1>5, <1>8 DEF LookupMiss, PropertiesFail
<1>9. CASE LookupRetry(t)
    BY <1>4, <1>9 DEF LookupRetry, Asked, Located
<1>10. CASE PropertiesOK(t) \/ StoreName(t) \/ StoreUUID(t)
    <2>1. UNCHANGED di /\ pc[t] \in Located /\ pc'[t] \in {"store", "storeUUID", "storeVC"}
        BY <1>4, <1>10 DEF PropertiesOK, StoreName, StoreUUID, Located
    <2>. QED
        BY <1>2, <2>1 DEF Asked, Located
<1>11. CASE StoreVC(t)
    <2>1. pc[t] = "storeVC" /\ pc'[t] \in {"addNode", "discovered"}
        BY <1>4, <1>11 DEF StoreVC
    <2>2. ASSUME op[t] \in ById PROVE Existed(arg[t])
        <3>1. /\ di[t].uuid \in {Lower[arg[t]], Convert[arg[t]]} /\ di[t].uuid \in VM
              /\ di[t].loc \in seenLoc[di[t].uuid]
            BY <1>1, <2>1, <2>2
               DEF Asked, Located, Named, IndInv, ControlInv, TruthInv, Info
        <3>. QED
            BY <3>1 DEF Existed
    <2>3. op[t] \in ById => Existed(arg[t])'
        BY <1>1, <1>2, <2>2 DEF Existed, Remembers
    <2>. QED
        BY <1>2, <2>1, <2>3 DEF Asked, Located
<1>12. CASE Discovered(t)
    <2>1. CASE Answer(t, Err)
        BY <1>3, <2>1, PlainAnswer, AtEnd
    <2>2. CASE op[t] = "InstanceExistsByProviderID" /\ Answer(t, Yes)
        <3>1. Existed(arg[t])
            BY <1>12, <2>2 DEF Asked, Discovered, ById
        <3>. QED
            BY <1>1, <1>2, <1>3, <2>2, <3>1, YesAnswer, AtEnd
    <2>3. CASE Goto(t, "deref")
        BY <1>4, <2>3 DEF Asked, Located
    <2>. QED
        BY <1>12, <2>1, <2>2, <2>3 DEF Discovered
<1>13. CASE Deref(t)
    <2>1. Answer(t, Got(Entry(t))) /\ Entry(t) # None /\ pc[t] = "deref"
        BY <1>13 DEF Deref
    <2>2. /\ op[t] \in ByName \cup ById /\ (op[t] \in ByName => arg[t] \in Name)
          /\ op[t] \in ById => arg[t] \in Id
        BY <1>1, <2>1 DEF IndInv, ControlInv
    <2>3. CASE op[t] \in ByName
        <3>1. op[t] \notin IdOps
            BY <2>3 DEF IdOps, ByName, ById
        <3>. QED
            BY <1>1, <1>2, <1>3, <2>1, <2>2, <2>3, <3>1, NameEntry, GotAnswer, AtEnd DEF Entry
    <2>4. CASE op[t] \in ById
        <3>1. op[t] \notin NameOps /\ op[t] \notin ByName
            BY <2>4 DEF NameOps, ByName, ById
        <3>. QED
            BY <1>1, <1>2, <1>3, <2>1, <2>2, <2>4, <3>1, IdEntry, GotAnswer, AtEnd DEF Entry
    <2>. QED
        BY <2>2, <2>3, <2>4
<1>14. ~LookupPanic(t) /\ ~DerefPanic(t)
    BY DEF LookupPanic, DerefPanic, Panic
<1>. QED
    BY <1>6, <1>7, <1>8, <1>9, <1>10, <1>11, <1>12, <1>13, <1>14 DEF Step

(* The other goroutines are where they were. *)
LEMMA OthersWait ==
    ASSUME IndInv, NEW t \in Thread, Step(t) \/ (t \in Caller /\ Call(t))
    PROVE  \A s \in Caller \ {t} : UNCHANGED <<pc[s], op[s], arg[s], di[s], ret[s]>>
<1>1. /\ pc \in [Thread -> Labels] /\ op \in [Thread -> Ops] /\ Caller \subseteq Thread
      /\ arg \in [Thread -> Id \cup Name \cup {None}] /\ ret \in [Thread -> Answers]
      /\ di \in [Thread -> Partial \cup {None}]
    BY NoneFacts DEF IndInv, TypeOK
<1>2. CASE Call(t)
    BY <1>1, <1>2 DEF Call, CallByName, CallById, InstanceType, InstanceTypePanic, GetZone,
       Begin, Goto, Answer, Panic
<1>3. CASE Step(t)
    <2>1. UNCHANGED <<op, arg>>
        BY <1>3 DEF Step, LookupHit, LookupName, LookupMiss, LookupRetry, LookupPanic,
           PropertiesOK, PropertiesFail, StoreName, StoreUUID, StoreVC, Discovered, Deref,
           DerefPanic, call
    <2>2. \A s \in Thread \ {t} : pc'[s] = pc[s] /\ ret'[s] = ret[s]
        BY <1>1, <1>3 DEF Step, LookupHit, LookupName, LookupMiss, LookupRetry, LookupPanic,
           PropertiesOK, PropertiesFail, StoreName, StoreUUID, StoreVC, Discovered, Deref,
           DerefPanic, Goto, Answer, Panic, DiscoverFails
    <2>3. \A s \in Thread \ {t} : di'[s] = di[s]
        BY <1>1, <1>3 DEF Step, LookupHit, LookupName, LookupMiss, LookupRetry, LookupPanic,
           PropertiesOK, PropertiesFail, StoreName, StoreUUID, StoreVC, Discovered, Deref,
           DerefPanic
    <2>. QED
        BY <1>1, <2>1, <2>2, <2>3
<1>. QED
    BY <1>2, <1>3

LEMMA AskedInit == Init => AskedInv
<1> SUFFICES ASSUME Init, NEW t \in Caller PROVE Asked(t)
    BY DEF AskedInv
<1>1. pc[t] = "idle" /\ ret[t] = NoAnswer
    BY NoneFacts DEF Init
<1>2. NoAnswer.kind # "info" /\ NoAnswer # Yes
    BY DEF NoAnswer, Yes
<1>. QED
    BY <1>1, <1>2 DEF Asked, Answered, Located

LEMMA AskedNext == IndInv /\ AskedInv /\ [Next]_vars => AskedInv'
<1> SUFFICES ASSUME IndInv, AskedInv, [Next]_vars, up', NEW s \in Caller PROVE Asked(s)'
    BY DEF AskedInv
<1>1. CASE Restart
    <2>1. pc'[s] = "idle" /\ ret'[s] = NoAnswer
        BY <1>1, NoneFacts DEF Restart
    <2>2. NoAnswer.kind # "info" /\ NoAnswer # Yes
        BY DEF NoAnswer, Yes
    <2>. QED
        BY <2>1, <2>2 DEF Asked, Answered, Located
<1>2. ASSUME NEW t \in Caller, Call(t) PROVE Asked(s)'
    <2>1. up /\ Remembers /\ t \in Thread
        BY <1>2, CallRemembers, NoneFacts
           DEF Call, CallByName, CallById, InstanceType, InstanceTypePanic, GetZone, Begin
    <2>. QED
        BY <1>2, <2>1, CallAsked, OthersWait, AskedStays DEF AskedInv
<1>3. ASSUME NEW t \in Thread, Step(t) PROVE Asked(s)'
    <2>1. up /\ Remembers
        BY <1>3, StepRemembers
           DEF Step, LookupHit, LookupName, LookupMiss, LookupRetry, LookupPanic,
               PropertiesOK, PropertiesFail, StoreName, StoreUUID, StoreVC, Discovered, Deref,
               DerefPanic
    <2>. QED
        BY <1>3, <2>1, StepAsked, OthersWait, AskedStays DEF AskedInv
<1>4. CASE InformerStep \/ Environment \/ UNCHANGED vars
    <2>1. up
        BY <1>4
           DEF InformerStep, AddNode, NodeAdded, NodeDeleted, NodeDeletedUnknown,
               NodeEventPanic, Deliver, Environment, VMChange, K8sAddNode, K8sDeleteNode, Crash,
               process, vars
    <2>. QED
        BY <1>4, <2>1, OthersRemember, AskedStays DEF AskedInv
<1>. QED
    BY <1>1, <1>2, <1>3, <1>4 DEF Next

(* The Instances and Zones calls answer for the node they were asked for,  *)
(* for any number of goroutines, VMs, names and spellings of UUIDs         *)
(* (instances.go:36-187).                                                  *)
THEOREM AnswersAreAsked == Spec => []AnswersAsked
<1>1. AskedInv => AnswersAsked
    BY DEF AskedInv, Asked, AnswersAsked
<1>. QED
    BY <1>1, AskedInit, AskedNext, NodeInvariance, PTL DEF Spec
=============================================================================
