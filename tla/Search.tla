------------------------------- MODULE Search -------------------------------
(***************************************************************************)
(* The parallel search of pkg/common/connectionmanager/search.go, shared   *)
(* by WhichVCandDCByNodeID (Kind = "VM") and WhichVCandDCByFCDId (Kind =   *)
(* "FCD"): one producer goroutine walks the configured vCenters and sends  *)
(* their datacenters into a bounded channel, PoolSize workers range over   *)
(* the channel, and the caller waits for the workers (never for the        *)
(* producer).                                                              *)
(***************************************************************************)
EXTENDS Naturals, Sequences, FiniteSets

CONSTANTS Kind,                   \* "VM" or "FCD"
          VC,                     \* the keys of VsphereInstanceMap
          DC,                     \* datacenter names
          Inventory,              \* [VC -> SUBSET DC]: the datacenters there are
          Datacenters,            \* [VC -> SUBSET DC]: Cfg.Datacenters, {} for ""
          Worker,                 \* the PoolSize worker goroutines
          QueueSize,              \* capacity of queueChannel
          NumConnectionAttempts,
          MaxChanges,             \* bound on inventory changes during a lookup
          None

ASSUME ConfigAssumption ==
    /\ Kind \in {"VM", "FCD"}
    /\ Inventory \in [VC -> SUBSET DC]
    /\ Datacenters \in [VC -> SUBSET DC]

ASSUME PoolAssumption ==
    /\ Worker # {}
    /\ QueueSize \in Nat /\ QueueSize > 0
    /\ NumConnectionAttempts \in Nat /\ NumConnectionAttempts > 0
    /\ MaxChanges \in Nat

ASSUME NoneAssumption == None \notin VC \cup (VC \X DC)

(* The datacenters the configuration asks to search in a vCenter. *)
Wanted(v) == IF Datacenters[v] = {} THEN Inventory[v] ELSE Datacenters[v]

Places  == {p \in VC \X DC : p[2] \in Inventory[p[1]]}
Targets == {p \in VC \X DC : p[2] \in Wanted(p[1])}

VARIABLES
    nodeID,     \* "" or "id": the identifier of the call
    result,     \* what the call returned
    ppc,        \* the producer's control point
    todo,       \* the vCenters its range loop has still to visit
    vc,         \* the vCenter it is at
    attempts,   \* connection attempts made for vc
    pending,    \* datacenterObjs still to be sent
    item,       \* the search it is sending
    queue,      \* queueChannel
    wpc,        \* the workers' control points
    job,        \* the search each worker has received
    found,      \* vmFound / fcdFound
    info,       \* vmInfo / fcdInfo
    globalErr,  \* is globalErr set
    owners,     \* environment: the places that hold the object
    changes,    \* environment: inventory changes so far
    held,       \* history: places that held the object since the call
    lacked,     \* history: targets seen without it
    muted       \* history: places whose failure was not recorded

callvars == <<nodeID, result>>
prodvars == <<ppc, todo, vc, attempts, pending, item>>
workvars == <<wpc, job>>
envvars  == <<owners, changes, held, lacked>>
vars == <<callvars, prodvars, queue, workvars, found, info, globalErr, envvars, muted>>

L == INSTANCE Lookup WITH given <- nodeID # "", failed <- globalErr,
                          where <- info, answer <- result

-----------------------------------------------------------------------------
(* The entry of the call: an empty identifier returns at once, otherwise   *)
(* the producer and the workers are started.                               *)
Init ==
    /\ nodeID \in {"", "id"}
    /\ result = L!Pending
    /\ ppc = IF nodeID = "" THEN "none" ELSE "range"
    /\ todo = VC /\ vc = None /\ attempts = 0 /\ pending = {} /\ item = None
    /\ queue = <<>>
    /\ wpc = [w \in Worker |-> IF nodeID = "" THEN "done" ELSE "range"]
    /\ job = [w \in Worker |-> None]
    /\ found = FALSE /\ info = None /\ globalErr = FALSE
    /\ owners \in SUBSET Places /\ changes = 0
    /\ held = owners
    /\ lacked = Targets \ owners
    /\ muted = {}

-----------------------------------------------------------------------------
(* The producer. *)

(* The range loop takes a vCenter in Go's arbitrary map order, unless the  *)
(* object has been found.                                                  *)
NextVC ==
    /\ ppc = "range" /\ ~found
    /\ \E v \in todo : vc' = v /\ todo' = todo \ {v}
    /\ attempts' = 0 /\ ppc' = "connect"
    /\ UNCHANGED <<callvars, pending, item, queue, workvars, found, info,
                   globalErr, envvars, muted>>

(* Mutant of Close: the break out of the loop is a return that skips close. *)
CloseSkipped ==
    /\ ppc = "range" /\ (todo = {} \/ found)
    /\ ppc' = IF found THEN "none" ELSE "closed"
    /\ UNCHANGED <<callvars, todo, vc, attempts, pending, item, queue, workvars,
                   found, info, globalErr, envvars, muted>>

(* The loop is over or broken out of, and the channel is closed. *)
Close ==
    /\ ppc = "range" /\ (todo = {} \/ found)
    /\ ppc' = "closed"
    /\ UNCHANGED <<callvars, todo, vc, attempts, pending, item, queue, workvars,
                   found, info, globalErr, envvars, muted>>

(* Mutant of ConnectOK: a vCenter that answers clears an earlier error. *)
ConnectOKClears ==
    /\ ppc = "connect"
    /\ ppc' = "resolve" /\ globalErr' = FALSE
    /\ UNCHANGED <<callvars, todo, vc, attempts, pending, item, queue, workvars,
                   found, info, envvars, muted>>

(* Mutant of ConnectFail: an unreachable vCenter leaves no error. *)
ConnectFailSilent ==
    /\ ppc = "connect"
    /\ attempts' = attempts + 1
    /\ ppc' = IF attempts' < NumConnectionAttempts THEN ppc ELSE "range"
    /\ UNCHANGED <<callvars, todo, vc, pending, item, queue, workvars, found,
                   info, globalErr, envvars, muted>>

(* One attempt at cm.Connect; after the last failure the vCenter is        *)
(* skipped and its error kept.                                             *)
ConnectOK ==
    /\ ppc = "connect"
    /\ ppc' = "resolve"
    /\ UNCHANGED <<callvars, todo, vc, attempts, pending, item, queue, workvars,
                   found, info, globalErr, envvars, muted>>

ConnectFail ==
    /\ ppc = "connect"
    /\ attempts' = attempts + 1
    /\ IF attempts' < NumConnectionAttempts
         THEN UNCHANGED <<ppc, globalErr>>
         ELSE ppc' = "range" /\ globalErr' = TRUE
    /\ UNCHANGED <<callvars, todo, vc, pending, item, queue, workvars, found,
                   info, envvars, muted>>

(* vsi.Cfg.Datacenters == "": all the vCenter's datacenters, or an error. *)
ResolveAll ==
    /\ ppc = "resolve" /\ Datacenters[vc] = {}
    /\ \/ pending' = Inventory[vc] /\ ppc' = "send" /\ UNCHANGED globalErr
       \/ ppc' = "range" /\ globalErr' = TRUE /\ UNCHANGED pending
    /\ UNCHANGED <<callvars, todo, vc, attempts, item, queue, workvars, found,
                   info, envvars, muted>>

(* Otherwise each listed name is resolved; a name that fails, or that the  *)
(* vCenter does not have, leaves an error and is skipped.                  *)
ResolveNames ==
    /\ ppc = "resolve" /\ Datacenters[vc] # {}
    /\ pending' \in SUBSET (Datacenters[vc] \cap Inventory[vc])
    /\ globalErr' = (globalErr \/ pending' # Datacenters[vc])
    /\ ppc' = "send"
    /\ UNCHANGED <<callvars, todo, vc, attempts, item, queue, workvars, found,
                   info, envvars, muted>>

(* The inner loop checks the flag before every send ... *)
NextDC ==
    /\ ppc = "send" /\ ~found
    /\ \E d \in pending : item' = <<vc, d>> /\ pending' = pending \ {d}
    /\ ppc' = "sending"
    /\ UNCHANGED <<callvars, todo, vc, attempts, queue, workvars, found, info,
                   globalErr, envvars, muted>>

LastDC ==
    /\ ppc = "send" /\ (pending = {} \/ found)
    /\ ppc' = "range" /\ pending' = {}
    /\ UNCHANGED <<callvars, todo, vc, attempts, item, queue, workvars, found,
                   info, globalErr, envvars, muted>>

(* Mutant of Send: the channel has no bound. *)
SendUnbounded ==
    /\ ppc = "sending"
    /\ queue' = Append(queue, item)
    /\ ppc' = "send"
    /\ UNCHANGED <<callvars, todo, vc, attempts, pending, item, workvars, found,
                   info, globalErr, envvars, muted>>

(* ... and blocks in the send while the channel is full. *)
Send ==
    /\ ppc = "sending" /\ Len(queue) < QueueSize
    /\ queue' = Append(queue, item)
    /\ ppc' = "send"
    /\ UNCHANGED <<callvars, todo, vc, attempts, pending, item, workvars, found,
                   info, globalErr, envvars, muted>>

Producer == \/ NextVC \/ Close \/ ConnectOK \/ ConnectFail \/ ResolveAll
            \/ ResolveNames \/ NextDC \/ LastDC \/ Send

-----------------------------------------------------------------------------
(* A worker. *)

Receive(w) ==
    /\ wpc[w] = "range" /\ queue # <<>>
    /\ job' = [job EXCEPT ![w] = Head(queue)]
    /\ queue' = Tail(queue)
    /\ wpc' = [wpc EXCEPT ![w] = "lookup"]
    /\ UNCHANGED <<callvars, prodvars, found, info, globalErr, envvars, muted>>

(* The range over a closed and drained channel ends. *)
Done(w) ==
    /\ wpc[w] = "range" /\ queue = <<>> /\ ppc = "closed"
    /\ wpc' = [wpc EXCEPT ![w] = "done"]
    /\ UNCHANGED <<callvars, prodvars, queue, job, found, info, globalErr,
                   envvars, muted>>

(* continue: back to the range over the channel. *)
Continue(w) == wpc' = [wpc EXCEPT ![w] = "range"] /\ UNCHANGED <<found, info>>

(* Mutant of Publish: the producer's loop variable instead of the job. *)
PublishItem(w) ==
    /\ info' = item /\ found' = TRUE
    /\ wpc' = [wpc EXCEPT ![w] = "done"]

(* The location is stored, then the flag is set under its mutex, and the   *)
(* worker leaves its loop; of two workers the last one's location stays.   *)
Publish(w) ==
    /\ info' = job[w] /\ found' = TRUE
    /\ wpc' = [wpc EXCEPT ![w] = "done"]

(* GetVMByUUID / GetVMByDNSName / DoesFirstClassDiskExist find the object: *)
(* a VM still has to give its properties.                                  *)
LookupHit(w) ==
    /\ wpc[w] = "lookup" /\ job[w] \in owners
    /\ IF Kind = "VM"
         THEN wpc' = [wpc EXCEPT ![w] = "properties"] /\ UNCHANGED <<found, info>>
         ELSE Publish(w)
    /\ UNCHANGED <<callvars, prodvars, queue, job, globalErr, envvars, muted>>

(* Mutant of LookupMiss: break where the code has continue. *)
LookupMissBreaks(w) ==
    /\ wpc[w] = "lookup" /\ job[w] \notin owners
    /\ wpc' = [wpc EXCEPT ![w] = "done"] /\ UNCHANGED <<found, info>>
    /\ UNCHANGED <<callvars, prodvars, queue, job, globalErr, envvars, muted>>

(* ErrNoVMFound / ErrNoDiskIDFound. *)
LookupMiss(w) ==
    /\ wpc[w] = "lookup" /\ job[w] \notin owners
    /\ Continue(w)
    /\ UNCHANGED <<callvars, prodvars, queue, job, globalErr, envvars, muted>>

(* Any other error of the lookup is recorded. *)
LookupError(w) ==
    /\ wpc[w] = "lookup"
    /\ Continue(w) /\ globalErr' = TRUE
    /\ UNCHANGED <<callvars, prodvars, queue, job, envvars, muted>>

(* DoesFirstClassDiskExist drops the error of the datastore that holds the *)
(* disk and answers ErrNoDiskIDFound.                                      *)
LookupMuted(w) ==
    /\ wpc[w] = "lookup" /\ Kind = "FCD" /\ job[w] \in owners
    /\ Continue(w) /\ muted' = muted \cup {job[w]}
    /\ UNCHANGED <<callvars, prodvars, queue, job, globalErr, envvars>>

PropertiesOK(w) ==
    /\ wpc[w] = "properties"
    /\ Publish(w)
    /\ UNCHANGED <<callvars, prodvars, queue, job, globalErr, envvars, muted>>

(* vm.Properties fails: logged, never recorded in globalErr. *)
PropertiesFail(w) ==
    /\ wpc[w] = "properties"
    /\ Continue(w) /\ muted' = muted \cup {job[w]}
    /\ UNCHANGED <<callvars, prodvars, queue, job, globalErr, envvars>>

WorkerStep(w) == \/ Receive(w) \/ Done(w) \/ LookupHit(w) \/ LookupMiss(w)
                 \/ LookupError(w) \/ LookupMuted(w)
                 \/ PropertiesOK(w) \/ PropertiesFail(w)

-----------------------------------------------------------------------------
(* Mutant of Return: an error hides a location. *)
ReturnErrorFirst ==
    /\ result = L!Pending
    /\ \A w \in Worker : wpc[w] = "done"
    /\ result' = IF globalErr THEN L!Error
                 ELSE IF found THEN L!Found(info)
                 ELSE L!NotFound
    /\ UNCHANGED <<nodeID, prodvars, queue, workvars, found, info, globalErr,
                   envvars, muted>>

(* wg.Wait returns once every worker is done, and the answer is picked. *)
Return ==
    /\ result = L!Pending
    /\ \A w \in Worker : wpc[w] = "done"
    /\ result' = IF found THEN L!Found(info)
                 ELSE IF globalErr THEN L!Error
                 ELSE L!NotFound
    /\ UNCHANGED <<nodeID, prodvars, queue, workvars, found, info, globalErr,
                   envvars, muted>>

(* Environment: the object is moved to another place, or deleted. *)
InventoryChange ==
    /\ changes < MaxChanges
    /\ \E p \in owners, Q \in {{}} \cup {{q} : q \in Places} :
          owners' = (owners \ {p}) \cup Q
    /\ changes' = changes + 1
    /\ held' = held \cup owners'
    /\ lacked' = lacked \cup (Targets \ owners')
    /\ UNCHANGED <<callvars, prodvars, queue, workvars, found, info, globalErr, muted>>

Next == Producer \/ (\E w \in Worker : WorkerStep(w)) \/ Return \/ InventoryChange

(* Fairness: the Go scheduler runs every goroutine that can run, and every *)
(* remote call returns, with an answer or with an error.                   *)
Fairness == /\ WF_vars(Producer)
            /\ \A w \in Worker : WF_vars(WorkerStep(w))
            /\ WF_vars(Return)

Spec     == Init /\ [][Next]_vars
FairSpec == Spec /\ Fairness

-----------------------------------------------------------------------------
(* Properties. *)

TypeOK ==
    /\ nodeID \in {"", "id"}
    /\ result \in L!Answers
    /\ ppc \in {"none", "range", "connect", "resolve", "send", "sending", "closed"}
    /\ todo \in SUBSET VC
    /\ vc \in VC \cup {None}
    /\ attempts \in 0..NumConnectionAttempts
    /\ pending \in SUBSET DC
    /\ item \in Targets \cup {None}
    /\ queue \in Seq(Targets) /\ Len(queue) <= QueueSize
    /\ wpc \in [Worker -> {"range", "lookup", "properties", "done"}]
    /\ job \in [Worker -> Targets \cup {None}]
    /\ found \in BOOLEAN /\ globalErr \in BOOLEAN
    /\ info \in (Targets \cap Places) \cup {None}
    /\ owners \in SUBSET Places /\ held \in SUBSET Places
    /\ lacked \in SUBSET Targets /\ muted \in SUBSET Places
    /\ changes \in 0..MaxChanges

(* A location that is returned is one the configuration asks to search and *)
(* held the object at some moment of the call, whichever of several racing *)
(* workers wrote vmInfo last and whatever happened to the object since     *)
(* (search.go:194-196, 201-203).                                           *)
FoundJustified ==
    result.kind = "found" => /\ result.place \in Targets \cap held
                             /\ \A w \in Worker : wpc[w] = "done"

(* "Not found" is only said after every configured datacenter was asked:   *)
(* each was seen without the object at some moment of the call, or found   *)
(* it and lost the answer.  No datacenter is left in the channel, skipped  *)
(* by a loop, or behind an unreachable vCenter (search.go:201-210).        *)
NotFoundJustified ==
    result.kind = "notfound" /\ nodeID # "" => Targets \subseteq lacked \cup muted

(* An error of a vCenter or datacenter outlives every later success: the   *)
(* flag, the found flag and the answer are never taken back, even by a     *)
(* producer that is still running after the call has returned              *)
(* (search.go:73-83, 201-206).                                             *)
Settled ==
    [][/\ globalErr => globalErr'
       /\ found => found' /\ info' # None
       /\ result # L!Pending => result' = result]_vars

(* The call returns, whatever fails, is found or moves meanwhile           *)
(* (search.go:200).                                                        *)
LookupReturns == <>(result # L!Pending)

(* The producer goroutine, which nobody waits for, ends too, unless as     *)
(* many places hold the object as there are workers: then all workers may  *)
(* leave and strand it in a send to a full channel (search.go:145, 197).   *)
ProducerEnds ==
    <>(ppc \in {"none", "closed"} \/ Cardinality(held) >= Cardinality(Worker))

(* The search implements the promise of module Lookup. *)
ImplementsLookup == L!Spec
=============================================================================
