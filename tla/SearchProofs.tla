---------------------------- MODULE SearchProofs ----------------------------
(***************************************************************************)
(* Machine-checked facts about module Search, for every configuration,     *)
(* pool size, channel capacity and number of connection attempts.          *)
(***************************************************************************)
EXTENDS Search, TLAPS

-----------------------------------------------------------------------------
(* The inductive invariant. *)

(* What the producer's variables mean at its control points. *)
ProducerInv ==
    /\ ppc = "none" <=> nodeID = ""
    /\ ppc \in {"connect", "resolve", "send", "sending"} => vc \in VC
    /\ ppc = "connect" => attempts < NumConnectionAttempts
    /\ ppc \in {"send", "sending"} => pending \subseteq Wanted(vc) \cap Inventory[vc]
    /\ ppc = "sending" => item \in Targets
    /\ ppc = "closed" => todo = {} \/ found

(* What a worker's control point tells of the search it holds; a worker    *)
(* that is done without a find has seen the channel closed and drained.    *)
WorkerInv ==
    \A w \in Worker :
        /\ wpc[w] \in {"lookup", "properties"} => job[w] \in Targets
        /\ wpc[w] = "properties" => job[w] \in held
        /\ nodeID = "" => wpc[w] = "done"
        /\ wpc[w] = "done" => \/ nodeID = ""
                              \/ found
                              \/ ppc = "closed" /\ queue = <<>>

(* The flag, the location and the histories. *)
HistoryInv ==
    /\ found <=> info # None
    /\ info # None => info \in Targets \cap held
    /\ owners \subseteq held
    /\ Targets \ owners \subseteq lacked
    /\ nodeID = "" => ~found /\ ~globalErr /\ muted = {}

(* Where a target is while nothing has been found and nothing has failed:  *)
(* ahead of the producer, in its hands, in the channel, with a worker, or  *)
(* judged.                                                                 *)
Ahead(p)    == p[1] \in todo \/ (ppc \in {"connect", "resolve"} /\ vc = p[1])
InHand(p)   == \/ ppc \in {"send", "sending"} /\ vc = p[1] /\ p[2] \in pending
               \/ ppc = "sending" /\ item = p
Queued(p)   == \E i \in 1..Len(queue) : queue[i] = p
WithWorker(p) == \E w \in Worker : wpc[w] \in {"lookup", "properties"} /\ job[w] = p
Judged(p)   == p \in lacked \cup muted

AccountedInv ==
    nodeID # "" /\ ~found /\ ~globalErr =>
        \A p \in Targets :
            Ahead(p) \/ InHand(p) \/ Queued(p) \/ WithWorker(p) \/ Judged(p)

ResultInv ==
    /\ result # L!Pending => \A w \in Worker : wpc[w] = "done"
    /\ FoundJustified
    /\ NotFoundJustified

IndInv == TypeOK /\ ProducerInv /\ WorkerInv /\ HistoryInv /\ AccountedInv /\ ResultInv

-----------------------------------------------------------------------------
(* None is not a place that can be sent to a worker. *)
LEMMA NoneNotTarget == None \notin Targets
    BY NoneAssumption DEF Targets

(* What the channel operations do to the sequence that stands for it. *)
LEMMA AppendFacts ==
    ASSUME NEW S, NEW s \in Seq(S), NEW e \in S
    PROVE  /\ Append(s, e) \in Seq(S)
           /\ Len(s) \in Nat
           /\ Len(Append(s, e)) = Len(s) + 1
           /\ Append(s, e)[Len(s) + 1] = e
           /\ \A i \in 1..Len(s) : Append(s, e)[i] = s[i]
    OBVIOUS

(* What receiving from the channel does to it. *)
LEMMA HeadTailFacts ==
    ASSUME NEW S, NEW s \in Seq(S), s # <<>>
    PROVE  /\ Head(s) \in S
           /\ Head(s) = s[1]
           /\ Tail(s) \in Seq(S)
           /\ Len(s) \in Nat
           /\ Len(Tail(s)) = Len(s) - 1
           /\ \A i \in 1..(Len(s) - 1) : Tail(s)[i] = s[i + 1]
    OBVIOUS

(* One lemma per action: it preserves every part of the invariant. *)
LEMMA NextVCStep ==
    ASSUME IndInv, NextVC
    PROVE  IndInv'
<1> USE DEF callvars, prodvars, workvars, envvars, NextVC
<1>1. TypeOK'
    <2>1. PICK v \in todo : vc' = v /\ todo' = todo \ {v}
        OBVIOUS
    <2>2. attempts' \in 0..NumConnectionAttempts
        BY PoolAssumption
    <2>. QED
        BY <2>1, <2>2 DEF IndInv, TypeOK
<1>2. ProducerInv'
    <2>1. PICK v \in todo : vc' = v /\ todo' = todo \ {v}
        OBVIOUS
    <2>2. attempts' < NumConnectionAttempts
        BY PoolAssumption
    <2>. QED
        BY <2>1, <2>2 DEF IndInv, TypeOK, ProducerInv
<1>3. WorkerInv'
    BY ConfigAssumption DEF IndInv, TypeOK, WorkerInv
<1>4. HistoryInv'
    BY ConfigAssumption DEF IndInv, TypeOK, HistoryInv
<1>5. AccountedInv'
    BY ConfigAssumption DEF IndInv, TypeOK, AccountedInv, Ahead, InHand, Queued,
       WithWorker, Judged
<1>6. ResultInv'
    BY ConfigAssumption DEF IndInv, TypeOK, ResultInv, FoundJustified,
       NotFoundJustified
<1> QED
    BY <1>1, <1>2, <1>3, <1>4, <1>5, <1>6 DEF IndInv

(* Close preserves every part of the invariant. *)
LEMMA CloseStep ==
    ASSUME IndInv, Close
    PROVE  IndInv'
<1> USE DEF callvars, prodvars, workvars, envvars, Close
<1>1. TypeOK'
    BY ConfigAssumption DEF IndInv, TypeOK
<1>2. ProducerInv'
    BY ConfigAssumption DEF IndInv, TypeOK, ProducerInv, Wanted, Targets
<1>3. WorkerInv'
    BY ConfigAssumption DEF IndInv, TypeOK, WorkerInv
<1>4. HistoryInv'
    BY ConfigAssumption DEF IndInv, TypeOK, HistoryInv
<1>5. AccountedInv'
    BY ConfigAssumption DEF IndInv, TypeOK, AccountedInv, Ahead, InHand, Queued,
       WithWorker, Judged
<1>6. ResultInv'
    BY ConfigAssumption DEF IndInv, TypeOK, ResultInv, FoundJustified,
       NotFoundJustified
<1> QED
    BY <1>1, <1>2, <1>3, <1>4, <1>5, <1>6 DEF IndInv

(* ConnectOK preserves every part of the invariant. *)
LEMMA ConnectOKStep ==
    ASSUME IndInv, ConnectOK
    PROVE  IndInv'
<1> USE DEF callvars, prodvars, workvars, envvars, ConnectOK
<1>1. TypeOK'
    BY ConfigAssumption DEF IndInv, TypeOK
<1>2. ProducerInv'
    BY ConfigAssumption DEF IndInv, TypeOK, ProducerInv, Wanted, Targets
<1>3. WorkerInv'
    BY ConfigAssumption DEF IndInv, TypeOK, WorkerInv
<1>4. HistoryInv'
    BY ConfigAssumption DEF IndInv, TypeOK, HistoryInv
<1>5. AccountedInv'
    BY ConfigAssumption DEF IndInv, TypeOK, AccountedInv, Ahead, InHand, Queued,
       WithWorker, Judged
<1>6. ResultInv'
    BY ConfigAssumption DEF IndInv, TypeOK, ResultInv, FoundJustified,
       NotFoundJustified
<1> QED
    BY <1>1, <1>2, <1>3, <1>4, <1>5, <1>6 DEF IndInv

(* ConnectFail preserves every part of the invariant. *)
LEMMA ConnectFailStep ==
    ASSUME IndInv, ConnectFail
    PROVE  IndInv'
<1> USE DEF callvars, prodvars, workvars, envvars, ConnectFail
<1>1. TypeOK'
    <2>1. attempts \in 0..NumConnectionAttempts /\ attempts < NumConnectionAttempts
        BY DEF IndInv, TypeOK, ProducerInv
    <2>2. attempts' = attempts + 1
        OBVIOUS
    <2>3. attempts' \in 0..NumConnectionAttempts
        BY <2>1, <2>2, PoolAssumption
    <2>. QED
        BY <2>3 DEF IndInv, TypeOK
<1>2. ProducerInv'
    BY ConfigAssumption DEF IndInv, TypeOK, ProducerInv, Wanted, Targets
<1>3. WorkerInv'
    BY ConfigAssumption DEF IndInv, TypeOK, WorkerInv
<1>4. HistoryInv'
    BY ConfigAssumption DEF IndInv, TypeOK, ProducerInv, HistoryInv
<1>5. AccountedInv'
    BY ConfigAssumption DEF IndInv, TypeOK, AccountedInv, Ahead, InHand, Queued,
       WithWorker, Judged
<1>6. ResultInv'
    BY ConfigAssumption DEF IndInv, TypeOK, ResultInv, FoundJustified,
       NotFoundJustified
<1> QED
    BY <1>1, <1>2, <1>3, <1>4, <1>5, <1>6 DEF IndInv

(* ResolveAll preserves every part of the invariant. *)
LEMMA ResolveAllStep ==
    ASSUME IndInv, ResolveAll
    PROVE  IndInv'
<1> USE DEF callvars, prodvars, workvars, envvars, ResolveAll
<1>1. TypeOK'
    BY ConfigAssumption DEF IndInv, TypeOK, ProducerInv
<1>2. ProducerInv'
    BY ConfigAssumption DEF IndInv, TypeOK, ProducerInv, Wanted, Targets
<1>3. WorkerInv'
    BY ConfigAssumption DEF IndInv, TypeOK, WorkerInv
<1>4. HistoryInv'
    BY ConfigAssumption DEF IndInv, TypeOK, ProducerInv, HistoryInv
<1>5. AccountedInv'
    BY ConfigAssumption DEF IndInv, TypeOK, ProducerInv, AccountedInv, Ahead,
       InHand, Queued, WithWorker, Judged, Targets, Places, Wanted
<1>6. ResultInv'
    BY ConfigAssumption DEF IndInv, TypeOK, ResultInv, FoundJustified,
       NotFoundJustified
<1> QED
    BY <1>1, <1>2, <1>3, <1>4, <1>5, <1>6 DEF IndInv

(* ResolveNames preserves every part of the invariant. *)
LEMMA ResolveNamesStep ==
    ASSUME IndInv, ResolveNames
    PROVE  IndInv'
<1> USE DEF callvars, prodvars, workvars, envvars, ResolveNames
<1>1. TypeOK'
    BY ConfigAssumption DEF IndInv, TypeOK, ProducerInv
<1>2. ProducerInv'
    BY ConfigAssumption DEF IndInv, TypeOK, ProducerInv, Wanted, Targets
<1>3. WorkerInv'
    BY ConfigAssumption DEF IndInv, TypeOK, WorkerInv
<1>4. HistoryInv'
    BY ConfigAssumption DEF IndInv, TypeOK, ProducerInv, HistoryInv
<1>5. AccountedInv'
    BY ConfigAssumption DEF IndInv, TypeOK, ProducerInv, AccountedInv, Ahead,
       InHand, Queued, WithWorker, Judged, Targets, Places, Wanted
<1>6. ResultInv'
    BY ConfigAssumption DEF IndInv, TypeOK, ResultInv, FoundJustified,
       NotFoundJustified
<1> QED
    BY <1>1, <1>2, <1>3, <1>4, <1>5, <1>6 DEF IndInv

(* NextDC preserves every part of the invariant. *)
LEMMA NextDCStep ==
    ASSUME IndInv, NextDC
    PROVE  IndInv'
<1> USE DEF callvars, prodvars, workvars, envvars, NextDC
<1>1. TypeOK'
    <2>1. PICK d \in pending : item' = <<vc, d>> /\ pending' = pending \ {d}
        OBVIOUS
    <2>2. <<vc, d>> \in Targets
        BY DEF IndInv, TypeOK, ProducerInv, Targets
    <2>. QED
        BY <2>1, <2>2 DEF IndInv, TypeOK
<1>2. ProducerInv'
    <2>1. PICK d \in pending : item' = <<vc, d>> /\ pending' = pending \ {d}
        OBVIOUS
    <2>2. <<vc, d>> \in Targets
        BY DEF IndInv, TypeOK, ProducerInv, Targets
    <2>. QED
        BY <2>1, <2>2 DEF IndInv, TypeOK, ProducerInv
<1>3. WorkerInv'
    BY ConfigAssumption DEF IndInv, TypeOK, WorkerInv
<1>4. HistoryInv'
    BY ConfigAssumption DEF IndInv, TypeOK, HistoryInv
<1>5. AccountedInv'
    <2>1. PICK d \in pending : item' = <<vc, d>> /\ pending' = pending \ {d}
        OBVIOUS
    <2>2. ASSUME NEW p \in Targets, p[1] = vc, p[2] = d
          PROVE  item' = p
        <3>1. \A q \in VC \X DC : q = <<q[1], q[2]>>
            OBVIOUS
        <3>2. p \in VC \X DC
            BY DEF Targets
        <3>. QED
            BY <2>1, <2>2, <3>1, <3>2
    <2>. QED
        BY <2>1, <2>2 DEF IndInv, AccountedInv, Ahead, InHand, Queued, WithWorker,
           Judged
<1>6. ResultInv'
    BY ConfigAssumption DEF IndInv, TypeOK, ResultInv, FoundJustified,
       NotFoundJustified
<1> QED
    BY <1>1, <1>2, <1>3, <1>4, <1>5, <1>6 DEF IndInv

(* LastDC preserves every part of the invariant. *)
LEMMA LastDCStep ==
    ASSUME IndInv, LastDC
    PROVE  IndInv'
<1> USE DEF callvars, prodvars, workvars, envvars, LastDC
<1>1. TypeOK'
    BY ConfigAssumption DEF IndInv, TypeOK
<1>2. ProducerInv'
    BY ConfigAssumption DEF IndInv, TypeOK, ProducerInv, Wanted, Targets
<1>3. WorkerInv'
    BY ConfigAssumption DEF IndInv, TypeOK, WorkerInv
<1>4. HistoryInv'
    BY ConfigAssumption DEF IndInv, TypeOK, HistoryInv
<1>5. AccountedInv'
    BY ConfigAssumption DEF IndInv, TypeOK, AccountedInv, Ahead, InHand, Queued,
       WithWorker, Judged
<1>6. ResultInv'
    BY ConfigAssumption DEF IndInv, TypeOK, ResultInv, FoundJustified,
       NotFoundJustified
<1> QED
    BY <1>1, <1>2, <1>3, <1>4, <1>5, <1>6 DEF IndInv

(* Send preserves every part of the invariant. *)
LEMMA SendStep ==
    ASSUME IndInv, Send
    PROVE  IndInv'
<1> USE DEF callvars, prodvars, workvars, envvars, Send
<1>1. TypeOK'
    <2>1. item \in Targets /\ queue \in Seq(Targets)
        BY DEF IndInv, TypeOK, ProducerInv
    <2>2. queue' \in Seq(Targets) /\ Len(queue') <= QueueSize
        BY <2>1, AppendFacts, PoolAssumption
    <2>. QED
        BY <2>2 DEF IndInv, TypeOK
<1>2. ProducerInv'
    BY ConfigAssumption DEF IndInv, TypeOK, ProducerInv, Wanted, Targets
<1>3. WorkerInv'
    BY ConfigAssumption DEF IndInv, TypeOK, WorkerInv
<1>4. HistoryInv'
    BY ConfigAssumption DEF IndInv, TypeOK, HistoryInv
<1>5. AccountedInv'
    <2>1. item \in Targets /\ queue \in Seq(Targets)
        BY DEF IndInv, TypeOK, ProducerInv
    <2>2. /\ Len(queue') = Len(queue) + 1 /\ Len(queue) \in Nat
          /\ queue'[Len(queue) + 1] = item
          /\ \A i \in 1..Len(queue) : queue'[i] = queue[i]
        BY <2>1, AppendFacts
    <2>3. ASSUME NEW p, Queued(p) \/ item = p
          PROVE  Queued(p)'
        <3>1. CASE item = p
            <4>1. Len(queue) + 1 \in 1..Len(queue')
                BY <2>2
            <4>. QED
                BY <2>2, <3>1, <4>1 DEF Queued
        <3>2. CASE Queued(p)
            <4>1. PICK i \in 1..Len(queue) : queue[i] = p
                BY <3>2 DEF Queued
            <4>2. i \in 1..Len(queue')
                BY <2>2
            <4>. QED
                BY <2>2, <4>1, <4>2 DEF Queued
        <3>. QED
            BY <2>3, <3>1, <3>2
    <2>4. ASSUME NEW p \in Targets, Ahead(p) \/ InHand(p) \/ WithWorker(p) \/
       Judged(p)
          PROVE  Ahead(p)' \/ InHand(p)' \/ item = p \/ WithWorker(p)' \/ Judged(p)'
        BY <2>4 DEF Ahead, InHand, WithWorker, Judged
    <2>. QED
        BY <2>3, <2>4 DEF IndInv, AccountedInv
<1>6. ResultInv'
    BY ConfigAssumption DEF IndInv, TypeOK, ResultInv, FoundJustified,
       NotFoundJustified
<1> QED
    BY <1>1, <1>2, <1>3, <1>4, <1>5, <1>6 DEF IndInv

(* Return preserves every part of the invariant. *)
LEMMA ReturnStep ==
    ASSUME IndInv, Return
    PROVE  IndInv'
<1> USE DEF callvars, prodvars, workvars, envvars, Return
<1>1. TypeOK'
    <2>1. result' \in L!Answers
        BY DEF IndInv, TypeOK, HistoryInv, L!Answers, L!Pending, L!Error, L!NotFound
    <2>. QED
        BY <2>1 DEF IndInv, TypeOK
<1>2. ProducerInv'
    BY ConfigAssumption DEF IndInv, TypeOK, ProducerInv, Wanted, Targets
<1>3. WorkerInv'
    BY ConfigAssumption DEF IndInv, TypeOK, WorkerInv
<1>4. HistoryInv'
    BY ConfigAssumption DEF IndInv, TypeOK, HistoryInv
<1>5. AccountedInv'
    BY ConfigAssumption DEF IndInv, TypeOK, AccountedInv, Ahead, InHand, Queued,
       WithWorker, Judged
<1>6. ResultInv'
    <2>. USE DEF ResultInv, FoundJustified, NotFoundJustified
    <2>1. CASE found
        <3>1. result' = L!Found(info) /\ info \in Targets \cap held
            BY <2>1 DEF IndInv, HistoryInv
        <3>2. result'.kind = "found" /\ result'.place = info
            BY <3>1 DEF L!Found
        <3>. QED
            BY <3>1, <3>2 DEF IndInv
    <2>2. CASE ~found /\ globalErr
        <3>1. result'.kind = "error"
            BY <2>2 DEF L!Error
        <3>. QED
            BY <3>1 DEF IndInv
    <2>3. CASE ~found /\ ~globalErr
        <3>1. result'.kind = "notfound"
            BY <2>3 DEF L!NotFound
        <3>2. ASSUME nodeID # ""
              PROVE  Targets \subseteq lacked \cup muted
            <4>1. ppc = "closed" /\ queue = <<>> /\ todo = {}
                BY <2>3, <3>2, PoolAssumption DEF IndInv, WorkerInv, ProducerInv
            <4>2. ~Queued(<<>>) /\ \A p \in Targets : ~Queued(p)
                BY <4>1 DEF Queued
            <4>. QED
                BY <2>3, <3>2, <4>1, <4>2
                DEF IndInv, AccountedInv, Ahead, InHand, WithWorker, Judged
        <3>. QED
            BY <3>1, <3>2 DEF IndInv
    <2>. QED
        BY <2>1, <2>2, <2>3
<1> QED
    BY <1>1, <1>2, <1>3, <1>4, <1>5, <1>6 DEF IndInv

(* InventoryChange preserves every part of the invariant. *)
LEMMA InventoryChangeStep ==
    ASSUME IndInv, InventoryChange
    PROVE  IndInv'
<1> USE DEF callvars, prodvars, workvars, envvars, InventoryChange
<1>1. TypeOK'
    <2>1. changes \in 0..MaxChanges
        BY DEF IndInv, TypeOK
    <2>2. changes' \in 0..MaxChanges
        BY <2>1, PoolAssumption
    <2>3. owners' \in SUBSET Places
        BY DEF IndInv, TypeOK
    <2>. QED
        BY <2>2, <2>3 DEF IndInv, TypeOK
<1>2. ProducerInv'
    BY ConfigAssumption DEF IndInv, TypeOK, ProducerInv, Wanted, Targets
<1>3. WorkerInv'
    BY ConfigAssumption DEF IndInv, TypeOK, WorkerInv
<1>4. HistoryInv'
    BY ConfigAssumption DEF IndInv, TypeOK, HistoryInv
<1>5. AccountedInv'
    BY ConfigAssumption DEF IndInv, TypeOK, AccountedInv, Ahead, InHand, Queued,
       WithWorker, Judged
<1>6. ResultInv'
    BY ConfigAssumption DEF IndInv, TypeOK, ResultInv, FoundJustified,
       NotFoundJustified
<1> QED
    BY <1>1, <1>2, <1>3, <1>4, <1>5, <1>6 DEF IndInv

(* Receive preserves every part of the invariant. *)
LEMMA ReceiveStep ==
    ASSUME IndInv, NEW w \in Worker, Receive(w)
    PROVE  IndInv'
<1> USE DEF callvars, prodvars, workvars, envvars, Receive
<1>1. TypeOK'
    <2>1. queue \in Seq(Targets) /\ Len(queue) <= QueueSize
        BY DEF IndInv, TypeOK
    <2>2. Head(queue) \in Targets /\ queue' \in Seq(Targets)
        BY <2>1, HeadTailFacts
    <2>3. Len(queue') <= QueueSize
        BY <2>1, HeadTailFacts, PoolAssumption
    <2>. QED
        BY <2>2, <2>3 DEF IndInv, TypeOK
<1>2. ProducerInv'
    BY ConfigAssumption DEF IndInv, TypeOK, ProducerInv, Wanted, Targets
<1>3. WorkerInv'
    <2>1. Head(queue) \in Targets
        BY HeadTailFacts DEF IndInv, TypeOK
    <2>. QED
        BY <2>1 DEF IndInv, TypeOK, WorkerInv
<1>4. HistoryInv'
    BY ConfigAssumption DEF IndInv, TypeOK, HistoryInv
<1>5. AccountedInv'
    <2>1. /\ Len(queue) \in Nat /\ Len(queue') = Len(queue) - 1
          /\ Head(queue) = queue[1]
          /\ \A j \in 1..(Len(queue) - 1) : queue'[j] = queue[j + 1]
        BY HeadTailFacts DEF IndInv, TypeOK
    <2>2. ASSUME NEW p, Queued(p)
          PROVE  Queued(p)' \/ p = Head(queue)
        <3>1. PICK i \in 1..Len(queue) : queue[i] = p
            BY <2>2 DEF Queued
        <3>2. CASE i = 1
            BY <2>1, <3>1, <3>2
        <3>3. CASE i # 1
            <4>1. i - 1 \in 1..(Len(queue) - 1) /\ (i - 1) + 1 = i
                BY <2>1, <3>3
            <4>. QED
                BY <2>1, <3>1, <4>1 DEF Queued
        <3>. QED
            BY <3>2, <3>3
    <2>3. ASSUME NEW p, WithWorker(p) \/ p = Head(queue)
          PROVE  WithWorker(p)'
        BY <2>3 DEF IndInv, TypeOK, WithWorker
    <2>4. ASSUME NEW p \in Targets, Ahead(p) \/ InHand(p) \/ Judged(p)
          PROVE  Ahead(p)' \/ InHand(p)' \/ Judged(p)'
        BY <2>4 DEF Ahead, InHand, Judged
    <2>. QED
        BY <2>2, <2>3, <2>4 DEF IndInv, AccountedInv
<1>6. ResultInv'
    BY ConfigAssumption DEF IndInv, TypeOK, ResultInv, FoundJustified,
       NotFoundJustified
<1> QED
    BY <1>1, <1>2, <1>3, <1>4, <1>5, <1>6 DEF IndInv

(* Done preserves every part of the invariant. *)
LEMMA DoneStep ==
    ASSUME IndInv, NEW w \in Worker, Done(w)
    PROVE  IndInv'
<1> USE DEF callvars, prodvars, workvars, envvars, Done
<1>1. TypeOK'
    BY ConfigAssumption DEF IndInv, TypeOK
<1>2. ProducerInv'
    BY ConfigAssumption DEF IndInv, TypeOK, ProducerInv, Wanted, Targets
<1>3. WorkerInv'
    BY ConfigAssumption DEF IndInv, TypeOK, WorkerInv
<1>4. HistoryInv'
    BY ConfigAssumption DEF IndInv, TypeOK, HistoryInv
<1>5. AccountedInv'
    BY ConfigAssumption DEF IndInv, TypeOK, AccountedInv, Ahead, InHand, Queued,
       WithWorker, Judged
<1>6. ResultInv'
    BY ConfigAssumption DEF IndInv, TypeOK, ResultInv, FoundJustified,
       NotFoundJustified
<1> QED
    BY <1>1, <1>2, <1>3, <1>4, <1>5, <1>6 DEF IndInv

(* LookupHit preserves every part of the invariant. *)
LEMMA LookupHitStep ==
    ASSUME IndInv, NEW w \in Worker, LookupHit(w)
    PROVE  IndInv'
<1> USE DEF callvars, prodvars, workvars, envvars, LookupHit, Publish
<1>1. TypeOK'
    BY ConfigAssumption DEF IndInv, TypeOK
<1>2. ProducerInv'
    BY ConfigAssumption DEF IndInv, TypeOK, ProducerInv, Wanted, Targets
<1>3. WorkerInv'
    BY ConfigAssumption DEF IndInv, TypeOK, WorkerInv, HistoryInv
<1>4. HistoryInv'
    <2>1. job[w] \in Targets \cap held /\ job[w] # None
        BY NoneNotTarget DEF IndInv, WorkerInv, HistoryInv
    <2>2. CASE Kind = "VM"
        BY <2>2 DEF IndInv, HistoryInv
    <2>3. CASE Kind # "VM"
        BY <2>1, <2>3 DEF IndInv, WorkerInv, HistoryInv
    <2>. QED
        BY <2>2, <2>3
<1>5. AccountedInv'
    BY ConfigAssumption DEF IndInv, TypeOK, AccountedInv, Ahead, InHand, Queued,
       WithWorker, Judged
<1>6. ResultInv'
    BY ConfigAssumption DEF IndInv, TypeOK, ResultInv, FoundJustified,
       NotFoundJustified
<1> QED
    BY <1>1, <1>2, <1>3, <1>4, <1>5, <1>6 DEF IndInv

(* LookupMiss preserves every part of the invariant. *)
LEMMA LookupMissStep ==
    ASSUME IndInv, NEW w \in Worker, LookupMiss(w)
    PROVE  IndInv'
<1> USE DEF callvars, prodvars, workvars, envvars, LookupMiss, Continue
<1>1. TypeOK'
    BY ConfigAssumption DEF IndInv, TypeOK
<1>2. ProducerInv'
    BY ConfigAssumption DEF IndInv, TypeOK, ProducerInv, Wanted, Targets
<1>3. WorkerInv'
    BY ConfigAssumption DEF IndInv, TypeOK, WorkerInv
<1>4. HistoryInv'
    BY ConfigAssumption DEF IndInv, TypeOK, HistoryInv
<1>5. AccountedInv'
    BY ConfigAssumption DEF IndInv, TypeOK, WorkerInv, HistoryInv, AccountedInv,
       Ahead, InHand, Queued, WithWorker, Judged
<1>6. ResultInv'
    BY ConfigAssumption DEF IndInv, TypeOK, ResultInv, FoundJustified,
       NotFoundJustified
<1> QED
    BY <1>1, <1>2, <1>3, <1>4, <1>5, <1>6 DEF IndInv

(* LookupError preserves every part of the invariant. *)
LEMMA LookupErrorStep ==
    ASSUME IndInv, NEW w \in Worker, LookupError(w)
    PROVE  IndInv'
<1> USE DEF callvars, prodvars, workvars, envvars, LookupError, Continue
<1>1. TypeOK'
    BY ConfigAssumption DEF IndInv, TypeOK
<1>2. ProducerInv'
    BY ConfigAssumption DEF IndInv, TypeOK, ProducerInv, Wanted, Targets
<1>3. WorkerInv'
    BY ConfigAssumption DEF IndInv, TypeOK, WorkerInv
<1>4. HistoryInv'
    BY ConfigAssumption DEF IndInv, TypeOK, WorkerInv, HistoryInv, ProducerInv
<1>5. AccountedInv'
    BY ConfigAssumption DEF IndInv, TypeOK, AccountedInv, Ahead, InHand, Queued,
       WithWorker, Judged
<1>6. ResultInv'
    BY ConfigAssumption DEF IndInv, TypeOK, ResultInv, FoundJustified,
       NotFoundJustified
<1> QED
    BY <1>1, <1>2, <1>3, <1>4, <1>5, <1>6 DEF IndInv

(* LookupMuted preserves every part of the invariant. *)
LEMMA LookupMutedStep ==
    ASSUME IndInv, NEW w \in Worker, LookupMuted(w)
    PROVE  IndInv'
<1> USE DEF callvars, prodvars, workvars, envvars, LookupMuted, Continue
<1>1. TypeOK'
    BY ConfigAssumption DEF IndInv, TypeOK
<1>2. ProducerInv'
    BY ConfigAssumption DEF IndInv, TypeOK, ProducerInv, Wanted, Targets
<1>3. WorkerInv'
    BY ConfigAssumption DEF IndInv, TypeOK, WorkerInv
<1>4. HistoryInv'
    BY ConfigAssumption DEF IndInv, TypeOK, WorkerInv, HistoryInv, ProducerInv
<1>5. AccountedInv'
    BY ConfigAssumption DEF IndInv, TypeOK, AccountedInv, Ahead, InHand, Queued,
       WithWorker, Judged
<1>6. ResultInv'
    BY ConfigAssumption DEF IndInv, TypeOK, ResultInv, FoundJustified,
       NotFoundJustified
<1> QED
    BY <1>1, <1>2, <1>3, <1>4, <1>5, <1>6 DEF IndInv

(* PropertiesOK preserves every part of the invariant. *)
LEMMA PropertiesOKStep ==
    ASSUME IndInv, NEW w \in Worker, PropertiesOK(w)
    PROVE  IndInv'
<1> USE DEF callvars, prodvars, workvars, envvars, PropertiesOK, Publish
<1>1. TypeOK'
    BY ConfigAssumption DEF IndInv, TypeOK, WorkerInv
<1>2. ProducerInv'
    BY ConfigAssumption DEF IndInv, TypeOK, ProducerInv, Wanted, Targets
<1>3. WorkerInv'
    BY ConfigAssumption DEF IndInv, TypeOK, WorkerInv
<1>4. HistoryInv'
    BY ConfigAssumption, NoneNotTarget DEF IndInv, TypeOK, WorkerInv, HistoryInv
<1>5. AccountedInv'
    BY ConfigAssumption DEF IndInv, TypeOK, AccountedInv, Ahead, InHand, Queued,
       WithWorker, Judged
<1>6. ResultInv'
    BY ConfigAssumption DEF IndInv, TypeOK, ResultInv, FoundJustified,
       NotFoundJustified
<1> QED
    BY <1>1, <1>2, <1>3, <1>4, <1>5, <1>6 DEF IndInv

(* PropertiesFail preserves every part of the invariant. *)
LEMMA PropertiesFailStep ==
    ASSUME IndInv, NEW w \in Worker, PropertiesFail(w)
    PROVE  IndInv'
<1> USE DEF callvars, prodvars, workvars, envvars, PropertiesFail, Continue
<1>1. TypeOK'
    BY ConfigAssumption DEF IndInv, TypeOK, WorkerInv
<1>2. ProducerInv'
    BY ConfigAssumption DEF IndInv, TypeOK, ProducerInv, Wanted, Targets
<1>3. WorkerInv'
    BY ConfigAssumption DEF IndInv, TypeOK, WorkerInv
<1>4. HistoryInv'
    BY ConfigAssumption DEF IndInv, TypeOK, WorkerInv, HistoryInv
<1>5. AccountedInv'
    BY ConfigAssumption DEF IndInv, TypeOK, AccountedInv, Ahead, InHand, Queued,
       WithWorker, Judged
<1>6. ResultInv'
    BY ConfigAssumption DEF IndInv, TypeOK, ResultInv, FoundJustified,
       NotFoundJustified
<1> QED
    BY <1>1, <1>2, <1>3, <1>4, <1>5, <1>6 DEF IndInv

-----------------------------------------------------------------------------
(* The initial state satisfies the invariant: every target is ahead of     *)
(* the producer.                                                           *)
LEMMA InitInv == Init => IndInv
<1>. SUFFICES ASSUME Init PROVE IndInv
    OBVIOUS
<1>. USE DEF Init
<1>1. TypeOK
    <2>1. attempts = 0 /\ changes = 0 /\ queue = <<>>
        OBVIOUS
    <2>2. /\ attempts \in 0..NumConnectionAttempts /\ changes \in 0..MaxChanges
          /\ queue \in Seq(Targets) /\ Len(queue) <= QueueSize
        BY ONLY <2>1, PoolAssumption
    <2>3. result \in L!Answers
        BY DEF L!Answers
    <2>. QED
        BY <2>1, <2>2, <2>3 DEF TypeOK
<1>2. ProducerInv
    BY DEF ProducerInv
<1>3. WorkerInv
    BY DEF WorkerInv
<1>4. HistoryInv
    BY DEF HistoryInv
<1>5. AccountedInv
    BY DEF AccountedInv, Ahead, Targets
<1>6. ResultInv
    BY DEF ResultInv, FoundJustified, NotFoundJustified, L!Pending
<1>. QED
    BY <1>1, <1>2, <1>3, <1>4, <1>5, <1>6 DEF IndInv

(* Every step preserves the invariant. *)
LEMMA NextInv == IndInv /\ [Next]_vars => IndInv'
<1>. SUFFICES ASSUME IndInv, [Next]_vars PROVE IndInv'
    OBVIOUS
<1>1. CASE Producer
    BY <1>1, NextVCStep, CloseStep, ConnectOKStep, ConnectFailStep, ResolveAllStep,
       ResolveNamesStep, NextDCStep, LastDCStep, SendStep DEF Producer
<1>2. ASSUME NEW w \in Worker, WorkerStep(w)
      PROVE  IndInv'
    BY <1>2, ReceiveStep, DoneStep, LookupHitStep, LookupMissStep, LookupErrorStep,
       LookupMutedStep, PropertiesOKStep, PropertiesFailStep DEF WorkerStep
<1>3. CASE Return
    BY <1>3, ReturnStep
<1>4. CASE InventoryChange
    BY <1>4, InventoryChangeStep
<1>5. CASE UNCHANGED vars
    <2>. USE <1>5 DEF IndInv, vars, callvars, prodvars, workvars, envvars
    <2>1. TypeOK'
        BY DEF TypeOK
    <2>2. ProducerInv' /\ WorkerInv' /\ HistoryInv'
        BY DEF ProducerInv, WorkerInv, HistoryInv
    <2>3. AccountedInv'
        BY DEF AccountedInv, Ahead, InHand, Queued, WithWorker, Judged
    <2>4. ResultInv'
        BY DEF ResultInv, FoundJustified, NotFoundJustified
    <2>. QED
        BY <2>1, <2>2, <2>3, <2>4
<1>. QED
    BY <1>1, <1>2, <1>3, <1>4, <1>5 DEF Next

(* The inductive invariant holds in every reachable state. *)
THEOREM Invariance == Spec => []IndInv
<1>. QED
    BY InitInv, NextInv, PTL DEF Spec

(* Every variable of the search keeps its type, and the channel never      *)
(* holds more than QueueSize searches.                                     *)
THEOREM TypeCorrect == Spec => []TypeOK
<1>1. IndInv => TypeOK
    BY DEF IndInv
<1>. QED
    BY <1>1, Invariance, PTL

(* A returned location was asked for and held the object during the call   *)
(* (search.go:201-203), for any number of racing workers.                  *)
THEOREM FoundSound == Spec => []FoundJustified
<1>1. IndInv => FoundJustified
    BY DEF IndInv, ResultInv
<1>. QED
    BY <1>1, Invariance, PTL

(* "Not found" is said only when every configured datacenter was asked     *)
(* (search.go:201-210), for any number of workers and any channel.         *)
THEOREM NotFoundSound == Spec => []NotFoundJustified
<1>1. IndInv => NotFoundJustified
    BY DEF IndInv, ResultInv
<1>. QED
    BY <1>1, Invariance, PTL

(* Errors, the found flag and the answer are never taken back              *)
(* (search.go:73-83).                                                      *)
THEOREM NeverTakenBack == Spec => Settled
<1>. DEFINE Kept == /\ globalErr => globalErr'
                    /\ found => found' /\ info' # None
                    /\ result # L!Pending => result' = result
<1>1. ASSUME IndInv, IndInv', [Next]_vars
      PROVE  [Kept]_vars
    <2>1. found' => info' # None
        BY <1>1 DEF IndInv, HistoryInv
    <2>2. (globalErr => globalErr') /\ (found => found')
        <3>1. CASE Producer
            <4>1. CASE ResolveNames
                BY <4>1, Zenon DEF ResolveNames
            <4>2. CASE ConnectFail
                BY <4>2 DEF ConnectFail
            <4>3. CASE NextVC \/ Close \/ ConnectOK \/ ResolveAll \/ NextDC \/
               LastDC \/ Send
                BY <4>3 DEF NextVC, Close, ConnectOK, ResolveAll, NextDC, LastDC, Send
            <4>. QED
                BY <3>1, <4>1, <4>2, <4>3 DEF Producer
        <3>2. ASSUME NEW w \in Worker, WorkerStep(w)
              PROVE  (globalErr => globalErr') /\ (found => found')
            BY <3>2 DEF WorkerStep, Receive, Done, Continue, Publish, LookupHit,
               LookupMiss, LookupError, LookupMuted, PropertiesOK, PropertiesFail
        <3>3. CASE Return \/ InventoryChange \/ UNCHANGED vars
            BY <3>3 DEF Return, InventoryChange, vars
        <3>. QED
            BY <1>1, <3>1, <3>2, <3>3 DEF Next
    <2>3. result # L!Pending => result' = result
        BY <1>1 DEF Next, Producer, NextVC, Close, ConnectOK, ConnectFail, ResolveAll,
           ResolveNames, NextDC, LastDC, Send, WorkerStep, Receive, Done, LookupHit,
           LookupMiss, LookupError, LookupMuted, PropertiesOK, PropertiesFail, Return,
           InventoryChange, vars, callvars
    <2>. QED
        BY <2>1, <2>2, <2>3
<1>. QED
    BY <1>1, Invariance, PTL DEF Spec, Settled

-----------------------------------------------------------------------------
(* The search implements the abstract lookup. *)

(* The initial states of a search are those of a lookup. *)
LEMMA InitRefines == Init => L!Init
    BY DEF Init, L!Init

(* A worker that still works belongs to a call that has not returned. *)
LEMMA WorkingMeansPending ==
    ASSUME IndInv, NEW w \in Worker, wpc[w] # "done"
    PROVE  nodeID # "" /\ result = L!Pending
    BY DEF IndInv, WorkerInv, ResultInv

(* A step of the producer is a recorded failure or invisible. *)
LEMMA ProducerRefines ==
    ASSUME IndInv, Producer
    PROVE  L!Fail \/ UNCHANGED L!vars
<1>. USE DEF callvars, workvars, envvars, L!vars
<1>1. ppc # "none" => nodeID # ""
    BY DEF IndInv, ProducerInv
<1>2. globalErr' \in BOOLEAN /\ globalErr \in BOOLEAN
    BY DEF IndInv, TypeOK, Producer, NextVC, Close, ConnectOK, ConnectFail,
       ResolveAll,
           ResolveNames, NextDC, LastDC, Send
<1>3. CASE ConnectFail
    BY <1>1, <1>2, <1>3 DEF ConnectFail, L!Fail
<1>4. CASE ResolveAll
    BY <1>1, <1>2, <1>4 DEF ResolveAll, L!Fail
<1>5. CASE ResolveNames
    BY <1>1, <1>2, <1>5 DEF ResolveNames, L!Fail
<1>6. CASE NextVC \/ Close \/ ConnectOK \/ NextDC \/ LastDC \/ Send
    BY <1>6 DEF NextVC, Close, ConnectOK, NextDC, LastDC, Send
<1>. QED
    BY <1>3, <1>4, <1>5, <1>6 DEF Producer

(* A step of a worker locates the object, fails, loses an answer or is invisible. *)
LEMMA WorkerRefines ==
    ASSUME IndInv, NEW w \in Worker, WorkerStep(w)
    PROVE  L!Locate \/ L!Mute \/ L!Fail \/ UNCHANGED L!vars
<1>. USE DEF callvars, prodvars, envvars, L!vars
<1>1. nodeID # "" /\ result = L!Pending
    BY WorkingMeansPending DEF WorkerStep, Receive, Done, LookupHit, LookupMiss,
       LookupError, LookupMuted, PropertiesOK, PropertiesFail
<1>2. CASE Receive(w) \/ Done(w) \/ LookupMiss(w)
    BY <1>2 DEF Receive, Done, LookupMiss, Continue
<1>3. CASE LookupHit(w)
    <2>1. job[w] \in held
        BY <1>3 DEF IndInv, HistoryInv, LookupHit
    <2>2. CASE Kind = "VM"
        BY <1>3, <2>2 DEF LookupHit
    <2>3. CASE Kind # "VM"
        BY <1>1, <1>3, <2>1, <2>3 DEF LookupHit, Publish, L!Locate
    <2>. QED
        BY <2>2, <2>3
<1>4. CASE LookupError(w)
    BY <1>1, <1>4 DEF LookupError, Continue, L!Fail
<1>5. CASE LookupMuted(w)
    <2>1. job[w] \in held
        BY <1>5 DEF IndInv, HistoryInv, LookupMuted
    <2>. QED
        BY <1>1, <1>5, <2>1 DEF LookupMuted, Continue, L!Mute
<1>6. CASE PropertiesOK(w)
    <2>1. job[w] \in held
        BY <1>6 DEF IndInv, WorkerInv, PropertiesOK
    <2>. QED
        BY <1>1, <1>6, <2>1 DEF PropertiesOK, Publish, L!Locate
<1>7. CASE PropertiesFail(w)
    <2>1. job[w] \in held
        BY <1>7 DEF IndInv, WorkerInv, PropertiesFail
    <2>. QED
        BY <1>1, <1>7, <2>1 DEF PropertiesFail, Continue, L!Mute
<1>. QED
    BY <1>2, <1>3, <1>4, <1>5, <1>6, <1>7 DEF WorkerStep

(* The return of the call is the lookup's answer. *)
LEMMA ReturnRefines ==
    ASSUME IndInv, Return
    PROVE  L!Answer
<1>. USE DEF Return, L!Answer, prodvars, envvars
<1>1. found <=> info # None
    BY DEF IndInv, HistoryInv
<1>2. CASE found
    BY <1>1, <1>2
<1>3. CASE ~found /\ globalErr
    BY <1>1, <1>3
<1>4. CASE ~found /\ ~globalErr
    <2>1. result' = L!NotFound
        BY <1>4
    <2>2. result'.kind = "notfound"
        BY <2>1 DEF L!NotFound
    <2>3. nodeID # "" => Targets \subseteq lacked \cup muted
        BY <2>2, ReturnStep DEF IndInv, ResultInv, NotFoundJustified
    <2>. QED
        BY <1>1, <1>4, <2>1, <2>3
<1>. QED
    BY <1>2, <1>3, <1>4

(* A change of the inventory is one of the lookup's. *)
LEMMA InventoryChangeRefines ==
    ASSUME IndInv, InventoryChange
    PROVE  L!Change
    BY InventoryChangeStep DEF IndInv, TypeOK, InventoryChange, L!Change, callvars

(* Whatever the goroutines do, the caller sees a lookup of module Lookup:  *)
(* a location beats an error, an error beats "not found", and "not found"  *)
(* needs every target (search.go:44-212, 215-360).                         *)
THEOREM Refinement == Spec => ImplementsLookup
<1>1. IndInv /\ [Next]_vars => [L!Next]_(L!vars)
    <2>. SUFFICES ASSUME IndInv, [Next]_vars PROVE [L!Next]_(L!vars)
        OBVIOUS
    <2>1. CASE Producer
        BY <2>1, ProducerRefines DEF L!Next
    <2>2. ASSUME NEW w \in Worker, WorkerStep(w)
          PROVE  [L!Next]_(L!vars)
        BY <2>2, WorkerRefines DEF L!Next
    <2>3. CASE Return
        BY <2>3, ReturnRefines DEF L!Next
    <2>4. CASE InventoryChange
        BY <2>4, InventoryChangeRefines DEF L!Next
    <2>5. CASE UNCHANGED vars
        BY <2>5 DEF vars, callvars, envvars, L!vars
    <2>. QED
        BY <2>1, <2>2, <2>3, <2>4, <2>5 DEF Next
<1>. QED
    BY <1>1, InitRefines, Invariance, PTL DEF Spec, ImplementsLookup, L!Spec
=============================================================================
