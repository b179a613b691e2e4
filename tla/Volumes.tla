------------------------------- MODULE Volumes ------------------------------
(***************************************************************************)
(* CreateVolume, DeleteVolume and ListVolumes of the CSI controller        *)
(* (pkg/csi/service/fcd/controller.go) over the first class disks of the   *)
(* datastores (pkg/common/vclib/datacenter.go, datastore.go,               *)
(* storagepod.go).  A disk is found by listing the identifiers on a        *)
(* datastore and retrieving them one by one; calls run concurrently, and   *)
(* a caller that gets no answer repeats its call.                          *)
(***************************************************************************)
EXTENDS Naturals, Sequences, FiniteSets, SequencesExt

CONSTANTS Name,
          SizeOf,      \* the size the caller wants of each name
          Old,         \* disks that someone else has made before, by identifier
          MaxDisks,    \* bound on the disks ever created
          Slot,        \* calls, and readers of the list, in flight at once
          Place,       \* a datastore or a datastore cluster of a datacenter
          Children,    \* the datastores of each place, in order
          Requisites,  \* per name: its zones in order, as the places they match
          Listed,      \* the datastores of the datacenters without a cluster
          MaxEntries,  \* page sizes of ListVolumes
          MaxFaults,   \* bound on faults and overlapping calls
          None

Id    == 1..MaxDisks
Store == UNION {Range(Children[p]) : p \in Place}

ASSUME VolumesAssumption ==
    /\ MaxDisks \in Nat /\ MaxFaults \in Nat /\ MaxEntries \subseteq Nat \ {0}
    /\ IsFiniteSet(Slot)
    /\ Children \in [Place -> Seq(Store) \ {<<>>}]
    /\ Requisites \in [Name -> Seq(SUBSET Place) \ {<<>>}]
    /\ Listed \in Seq(Store)
    /\ SizeOf \in [Name -> Nat] /\ DOMAIN Old \subseteq Id
    /\ \A i \in DOMAIN Old : Old[i] # None /\ Old[i].store \in Store
    /\ None \notin Nat \cup Place \cup Name

VARIABLES
    disk,     \* the disks that exist, by identifier
    used,     \* the identifiers vCenter has given
    call,     \* the calls in flight
    got,      \* environment: the final answer the caller got for each name
    leaked,   \* environment: disks it was told last are deleted, and which exist
    walk,     \* environment: a client that reads the pages of ListVolumes
    faults,   \* faults so far
    excused   \* history: names whose disk a create call overlooked, and the
              \* names that others gave to two disks before

vars == <<disk, used, call, got, leaked, walk, faults, excused>>

(* A call: what it is about, its control point, the zone it tries, the     *)
(* place chosen, the child it scans and the identifiers listed there,      *)
(* whether the scan is the one after the creation; history: whether        *)
(* another delete call for a disk on the same datastore was in flight.     *)
Idle == [kind |-> "none", about |-> None, pc |-> "idle", zone |-> 1, place |-> None,
         child |-> 1, ids |-> {}, again |-> FALSE, met |-> FALSE]

(* A walk over the pages: the page size and the start token, the datastore *)
(* that is listed, the disks collected for this page and seen so far;      *)
(* history: the disks that have existed all along, and whether a deletion  *)
(* or a fault has disturbed it.                                            *)
Resting == [pc |-> "idle", max |-> 0, start |-> 0, store |-> 1, ids |-> {}, disks |-> {},
            seen |-> {}, base |-> {}, calm |-> TRUE]

-----------------------------------------------------------------------------
AlreadyExists == 0

Existing    == {i \in Id : disk[i] # None}
On(s)       == {i \in Existing : disk[i].store = s}
Named(n, p) == {i \in Existing : disk[i].name = n /\ disk[i].store \in Range(Children[p])}

(* The datastores of a cluster are visited in order. *)
Child(c) == Children[call[c].place][call[c].child]

(* The disks are sorted in descending order of identifier: the index that  *)
(* a disk gets among others.                                               *)
Index(i, ids) == Cardinality({j \in ids : j > i})

Init ==
    /\ disk = [i \in Id |-> IF i \in DOMAIN Old THEN Old[i] ELSE None]
    /\ used = Existing
    /\ call = [c \in Slot |-> Idle]
    /\ got = [n \in Name |-> None]
    /\ leaked = {}
    /\ walk = Resting
    /\ faults = 0
    /\ excused = {disk[i].name : i \in {x \in Existing : \E y \in Existing \ {x} :
                                                disk[y].name = disk[x].name}}

Is(c, k, pc) == call[c].kind = k /\ call[c].pc = pc
End(c)       == call' = [call EXCEPT ![c] = Idle]
Spend        == faults < MaxFaults /\ faults' = faults + 1
Busy(k, x)   == {c \in Slot : call[c].kind = k /\ call[c].about = x}

Running == Cardinality({c \in Slot : call[c].kind # "none"})
             + (IF walk.pc = "idle" THEN 0 ELSE 1)

(* A call that is repeated while an earlier one is still in flight follows *)
(* a timeout.                                                              *)
Begin(c, k, x) ==
    /\ Running < Cardinality(Slot)
    /\ c = (CHOOSE s \in Slot : call[s].kind = "none")
    /\ IF Busy(k, x) = {} THEN UNCHANGED faults ELSE Spend
    /\ UNCHANGED <<disk, used, got, walk>>

-----------------------------------------------------------------------------
(* CreateVolume. *)

BeginCreate(c, n) ==
    /\ got[n] = None
    /\ Begin(c, "create", n)
    /\ call' = [call EXCEPT ![c] = [Idle EXCEPT !.kind = "create", !.about = n, !.pc = "zone"]]
    /\ excused' = IF Busy("create", n) = {} THEN excused ELSE excused \cup {n}
    /\ UNCHANGED leaked

(* WhichVCandDCByZone for the zones of the request in turn: a match is any *)
(* datacenter of the zone, not the one an earlier call has used.           *)
PickZone(c) ==
    /\ Is(c, "create", "zone")
    /\ \E p \in Requisites[call[c].about][call[c].zone] :
          /\ call' = [call EXCEPT ![c].place = p, ![c].pc = "list"]
          /\ excused' = IF \E q \in Place \ {p} : Named(call[c].about, q) # {}
                          THEN excused \cup {call[c].about} ELSE excused
    /\ UNCHANGED <<disk, used, got, leaked, walk, faults>>

(* A zone that is not found, for whatever reason: the next one, if any. *)
NextZone(c) ==
    IF call[c].zone < Len(Requisites[call[c].about])
      THEN call' = [call EXCEPT ![c].zone = @ + 1] ELSE End(c)

(* Mutant of ListDisks: only the first datastore of a cluster is looked at. *)
ListDisksFirst(c) ==
    /\ Is(c, "create", "list")
    /\ call' = [call EXCEPT ![c].pc = "get", ![c].ids = On(Children[call[c].place][1])]
    /\ UNCHANGED <<disk, used, got, leaked, walk, faults, excused>>

(* GetFirstClassDiskInfo: the identifiers on one datastore are listed ... *)
ListDisks(c) ==
    /\ Is(c, "create", "list")
    /\ call' = [call EXCEPT ![c].pc = "get", ![c].ids = On(Child(c))]
    /\ UNCHANGED <<disk, used, got, leaked, walk, faults, excused>>

(* Mutant of ScanEnds: "no such disk" is an error of the check, too. *)
ScanEndsRefused(c, failed) == End(c) /\ UNCHANGED excused

(* The scan of the place ends without a disk; an error counts as none if   *)
(* it is the check before the creation, and is returned if it is the one   *)
(* after it.                                                               *)
ScanEnds(c, failed) ==
    LET n == call[c].about IN
    IF call[c].again THEN End(c) /\ UNCHANGED excused
    ELSE /\ call' = [call EXCEPT ![c].pc = "create", ![c].ids = {}, ![c].child = 1]
         /\ excused' = IF failed /\ Named(n, call[c].place) # {} THEN excused \cup {n}
                                                                 ELSE excused

(* Mutant of TakeFound: the size of an existing disk is not compared. *)
TakeFoundAnySize(c, i) ==
    /\ End(c) /\ got' = [got EXCEPT ![call[c].about] = i]

(* The disk found: before the creation its size must be the one requested, *)
(* after it is not looked at.                                              *)
TakeFound(c, i) ==
    /\ End(c)
    /\ IF call[c].again \/ disk[i].size = SizeOf[call[c].about]
         THEN got' = [got EXCEPT ![call[c].about] = i]
         ELSE got' = [got EXCEPT ![call[c].about] = AlreadyExists]

(* ... and retrieved one by one, until one has the name; one that has been *)
(* deleted since makes the scan fail unless the match came before it.      *)
RetrieveDisks(c) ==
    LET n     == call[c].about
        match == {i \in call[c].ids \cap Existing : disk[i].name = n}
        gone  == call[c].ids \ Existing
    IN
    /\ Is(c, "create", "get")
    /\ \/ \E i \in match : TakeFound(c, i) /\ UNCHANGED excused
       \/ gone # {} /\ ScanEnds(c, TRUE) /\ UNCHANGED got
       \/ /\ gone = {} /\ match = {}
          /\ IF call[c].child < Len(Children[call[c].place])
               THEN /\ call' = [call EXCEPT ![c].child = @ + 1, ![c].pc = "list", ![c].ids = {}]
                    /\ UNCHANGED excused
               ELSE ScanEnds(c, FALSE)
          /\ UNCHANGED got
    /\ UNCHANGED <<disk, used, walk, leaked, faults>>

(* vCenter makes a disk with a new identifier on a datastore of the place. *)
NewDisk(c) ==
    \E i \in Id \ used, s \in Range(Children[call[c].place]) :
       /\ disk' = [disk EXCEPT ![i] = [name |-> call[c].about, size |-> SizeOf[call[c].about],
                                       store |-> s]]
       /\ used' = used \cup {i}

CreateDisk(c) ==
    /\ Is(c, "create", "create")
    /\ NewDisk(c)
    /\ call' = [call EXCEPT ![c].pc = "list", ![c].again = TRUE]
    /\ UNCHANGED <<got, leaked, walk, faults, excused>>

-----------------------------------------------------------------------------
(* DeleteVolume. *)

(* The delete calls in flight for disks on the datastore of disk i. *)
Near(i) == {c \in Slot : /\ call[c].kind = "delete" /\ disk[i] # None
                         /\ call[c].about \in On(disk[i].store)}

BeginDelete(c, i) ==
    /\ i \in used
    /\ Begin(c, "delete", i)
    /\ call' = [x \in Slot |->
                  IF x = c THEN [Idle EXCEPT !.kind = "delete", !.about = i, !.pc = "list",
                                             !.met = (Near(i) # {})]
                  ELSE [call[x] EXCEPT !.met = @ \/ x \in Near(i)]]
    /\ leaked' = leaked \ {i}
    /\ UNCHANGED excused

(* The call succeeds: the caller takes the disk for deleted. *)
Deleted(c) ==
    /\ End(c)
    /\ leaked' = IF disk'[call[c].about] = None THEN leaked \ {call[c].about}
                                               ELSE leaked \cup {call[c].about}

(* WhichVCandDCByFCDId: only the datastore that holds the disk matters.    *)
(* Not found anywhere is success.                                          *)
FindList(c) ==
    LET i == call[c].about IN
    /\ Is(c, "delete", "list")
    /\ UNCHANGED <<disk, used, got, walk, faults, excused>>
    /\ IF disk[i] = None THEN Deleted(c)
       ELSE /\ call' = [call EXCEPT ![c].pc = "get", ![c].ids = On(disk[i].store)]
            /\ UNCHANGED leaked

(* A datastore whose scan fails is passed over, and the disk not found. *)
Overlook(c) == UNCHANGED disk /\ Deleted(c)

FindGet(c) ==
    LET i == call[c].about IN
    /\ Is(c, "delete", "get")
    /\ \/ /\ disk[i] # None
          /\ call' = [call EXCEPT ![c].pc = "remove", ![c].ids = {}]
          /\ UNCHANGED <<disk, leaked>>
       \/ call[c].ids \ Existing # {} /\ Overlook(c)
    /\ UNCHANGED <<used, got, walk, faults, excused>>

DiskGone(i) ==
    /\ disk' = [disk EXCEPT ![i] = None]
    /\ walk' = [walk EXCEPT !.base = @ \ {i},
                            !.calm = @ /\ (walk.pc = "idle" \/ disk[i].store \notin Range(Listed))]

(* Mutant of RemoveDisk: the deletion task is not waited for. *)
RemoveDiskNoWait(c) ==
    /\ Is(c, "delete", "remove")
    /\ UNCHANGED <<disk, used, got, walk, faults, excused>>
    /\ Deleted(c)

(* A disk that another call has deleted since is an error. *)
RemoveDisk(c) ==
    /\ Is(c, "delete", "remove")
    /\ IF disk[call[c].about] = None THEN End(c) /\ UNCHANGED <<disk, walk, leaked>>
       ELSE DiskGone(call[c].about) /\ Deleted(c)
    /\ UNCHANGED <<used, got, faults, excused>>

-----------------------------------------------------------------------------
(* ListVolumes, read page by page. *)

BeginWalk(m) ==
    /\ walk.pc = "idle" /\ Running < Cardinality(Slot)
    /\ walk' = [Resting EXCEPT !.pc = IF Listed = <<>> THEN "page" ELSE "list", !.max = m,
                               !.base = UNION {On(s) : s \in Range(Listed)}]
    /\ UNCHANGED <<disk, used, call, got, leaked, faults, excused>>

(* getAllFCDs: the datastores one after the other. *)
NextStore(w) == [w EXCEPT !.store = @ + 1, !.ids = {},
                          !.pc = IF walk.store < Len(Listed) THEN "list" ELSE "page"]

WalkList ==
    /\ walk.pc = "list"
    /\ walk' = [walk EXCEPT !.pc = "get", !.ids = On(Listed[walk.store])]
    /\ UNCHANGED <<disk, used, call, got, leaked, faults, excused>>

(* A datastore whose listing fails is left out. *)
WalkGet ==
    /\ walk.pc = "get"
    /\ walk' = NextStore(IF walk.ids \ Existing = {}
                           THEN [walk EXCEPT !.disks = @ \cup walk.ids] ELSE walk)
    /\ UNCHANGED <<disk, used, call, got, leaked, faults, excused>>

(* The index of the last entry of a page, or the total. *)
StopAt(start, max, total) == IF total > max THEN start + max - 1 ELSE total

(* Mutant of PageEnd: the entry at the last index is left out. *)
PageEndExclusive(stop, total) == IF stop < total THEN stop ELSE total

PageEnd(stop, total) == IF stop < total THEN stop + 1 ELSE total

(* A page, and the token of the next one. *)
WalkPage ==
    LET total == Cardinality(walk.disks)
        stop  == StopAt(walk.start, walk.max, total)
        page  == {i \in walk.disks : /\ walk.start <= Index(i, walk.disks)
                                     /\ Index(i, walk.disks) < PageEnd(stop, total)}
        seen  == walk.seen \cup page
    IN
    /\ walk.pc = "page"
    /\ walk' = IF walk.start > total THEN Resting
               ELSE IF stop < total
                 THEN [walk EXCEPT !.pc = "list", !.start = stop + 1, !.store = 1,
                                   !.disks = {}, !.seen = seen]
               ELSE [walk EXCEPT !.pc = "done", !.seen = seen]
    /\ UNCHANGED <<disk, used, call, got, leaked, faults, excused>>

WalkRest ==
    /\ walk.pc = "done"
    /\ walk' = Resting
    /\ UNCHANGED <<disk, used, call, got, leaked, faults, excused>>

-----------------------------------------------------------------------------
(* Faults. *)

(* A request fails before it has changed anything. *)
FaultCreate(c) ==
    /\ call[c].kind = "create" /\ Spend
    /\ CASE call[c].pc = "zone"           -> NextZone(c) /\ UNCHANGED excused
         [] call[c].pc \in {"list", "get"} -> ScanEnds(c, TRUE)
         [] call[c].pc = "create"         -> End(c) /\ UNCHANGED excused
    /\ UNCHANGED <<disk, used, got, leaked, walk>>

(* The search reports an error, or a datacenter without the disk. *)
FaultDelete(c) ==
    /\ call[c].kind = "delete" /\ Spend
    /\ \/ End(c) /\ UNCHANGED <<disk, leaked>>
       \/ call[c].pc \in {"list", "get"} /\ Overlook(c)
    /\ UNCHANGED <<used, got, walk, excused>>

FaultWalk ==
    /\ walk.pc \in {"list", "get"} /\ Spend
    /\ walk' = [NextStore(walk) EXCEPT !.calm = FALSE]
    /\ UNCHANGED <<disk, used, call, got, leaked, excused>>

(* A creation or deletion that is carried out, and its answer lost. *)
LostAnswer(c) ==
    /\ Spend /\ End(c)
    /\ \/ Is(c, "create", "create") /\ NewDisk(c) /\ UNCHANGED walk
       \/ /\ Is(c, "delete", "remove") /\ disk[call[c].about] # None
          /\ DiskGone(call[c].about) /\ UNCHANGED used
    /\ UNCHANGED <<got, leaked, excused>>

(* The controller process dies. *)
Crash ==
    /\ Spend
    /\ call' = [c \in Slot |-> Idle]
    /\ UNCHANGED <<disk, used, got, leaked, walk, excused>>

Step(c) == \/ PickZone(c) \/ ListDisks(c) \/ RetrieveDisks(c) \/ CreateDisk(c)
           \/ FindList(c) \/ FindGet(c) \/ RemoveDisk(c)

Next ==
    \/ \E c \in Slot : \/ Step(c) \/ FaultCreate(c) \/ FaultDelete(c) \/ LostAnswer(c)
                       \/ \E n \in Name : BeginCreate(c, n)
                       \/ \E i \in Id : BeginDelete(c, i)
    \/ \E m \in MaxEntries : BeginWalk(m)
    \/ WalkList \/ WalkGet \/ WalkPage \/ WalkRest \/ FaultWalk \/ Crash

(* Fairness: requests return, and the caller repeats a create call until   *)
(* it has a final answer.                                                  *)
Fairness ==
    /\ \A c \in Slot : WF_vars(Step(c))
    /\ WF_vars(WalkList \/ WalkGet \/ WalkPage)
    /\ \A n \in Name : SF_vars(\E c \in Slot : BeginCreate(c, n))

Spec     == Init /\ [][Next]_vars
FairSpec == Spec /\ Fairness

-----------------------------------------------------------------------------
(* Properties. *)

(* However calls are repeated after lost answers, crashes and failed       *)
(* look-ups of the new disk, a name has one disk only, unless an existing  *)
(* disk escaped the check: calls for the name overlapped, the scan failed  *)
(* (which the deletion of any other disk can cause), or the zone search    *)
(* answered another place (controller.go:164-232).                         *)
NoDuplicate ==
    \A i, j \in Existing : disk[i].name = disk[j].name =>
       i = j \/ disk[i].name \in excused

(* A create call that succeeds answers a disk that has the name and the    *)
(* size requested, except for a name the exceptions above apply to: the    *)
(* look-up after the creation takes any disk of the name                   *)
(* (controller.go:206-232).                                                *)
CreateSound ==
    [][\A n \in Name : got'[n] # got[n] /\ got'[n] # AlreadyExists =>
          LET d == disk[got'[n]] IN
          d.name = n /\ (d.size = SizeOf[n] \/ n \in excused)]_vars

(* A delete call tells its caller that a disk is deleted, while the disk   *)
(* exists, only if one of its own requests fails in that step, or if       *)
(* deletions of disks on the same datastore overlapped: the scan lists the *)
(* identifiers, another call removes one of them, and the retrieval that   *)
(* fails is taken for "no such disk".  Creations, calls for disks          *)
(* elsewhere, lost answers, crashes and repeated calls have no part in it  *)
(* (controller.go:271-297, datacenter.go:600-616, datastore.go:198-229).   *)
DeleteSound ==
    [][\A i \in leaked' \ leaked :
          \/ faults' # faults
          \/ \E c \in Slot : call[c].kind = "delete" /\ call[c].about = i /\ call[c].met]_vars

(* Reading all pages shows every disk that existed all along, also when    *)
(* disks are created between the pages; only deletions and datastores that *)
(* cannot be listed make it miss one (controller.go:413-480).              *)
ListComplete == walk.pc = "done" /\ walk.calm => walk.base \subseteq walk.seen

(* A create call that is repeated gets a final answer (a disk, or that one *)
(* of another size exists), whatever faults and deletions came between     *)
(* (controller.go:206-232).                                                *)
CreateSettles ==
    \A n \in Name : <>(got[n] # None \/ used = Id)
=============================================================================
