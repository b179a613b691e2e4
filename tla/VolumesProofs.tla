---------------------------- MODULE VolumesProofs ---------------------------
(***************************************************************************)
(* Proofs about module Volumes.  Everything rests on one invariant in      *)
(* three parts: the shape of the calls and of the walk (Shape), what a     *)
(* create call knows of the disks of its name (CreateKnows), and what a    *)
(* walk over the pages still has to see (WalkKnows); the answers of delete *)
(* calls rest on a second one, what a delete call knows (DeletesKnow).     *)
(***************************************************************************)
EXTENDS Volumes, FiniteSetTheorems, TLAPS

(* The disks that exist are on datastores of the places, and vCenter gave  *)
(* them their identifiers.                                                 *)
DisksShape ==
    /\ DOMAIN disk = Id /\ disk = [i \in Id |-> disk[i]]
    /\ used \subseteq Id /\ Existing \subseteq used
    /\ \A i \in Existing : disk[i].store \in Store

CallType == [kind : {"none", "create", "delete"}, about : Name \cup Id \cup {None},
             pc : {"idle", "zone", "list", "get", "create", "remove"}, zone : Nat \ {0},
             place : Place \cup {None}, child : Nat \ {0}, ids : SUBSET Id, again : BOOLEAN,
             met : BOOLEAN]

WalkType == [pc : {"idle", "list", "get", "page", "done"}, max : Nat, start : Nat,
             store : Nat \ {0}, ids : SUBSET Id, disks : SUBSET Id, seen : SUBSET Id,
             base : SUBSET Id, calm : BOOLEAN]

(* A create call past the choice of the zone has a place, and a child of   *)
(* it; only the scan after the creation is marked as such.                 *)
CreateShape(r) ==
    /\ r.about \in Name /\ r.pc \in {"zone", "list", "get", "create"}
    /\ r.zone \in 1..Len(Requisites[r.about])
    /\ r.pc # "zone" => r.place \in Place /\ r.child \in 1..Len(Children[r.place])
    /\ r.again => r.pc \in {"list", "get"}
    /\ r.pc \in {"zone", "create"} => r.child = 1

DeleteShape(r) == r.about \in Id /\ r.pc \in {"list", "get", "remove"}

CallShape ==
    \A c \in Slot : /\ call[c].kind = "create" => CreateShape(call[c])
                    /\ call[c].kind = "delete" => DeleteShape(call[c])

(* The types of the variables, for every number of names, disks and calls. *)
TypeInv ==
    /\ call \in [Slot -> CallType]
    /\ got \in [Name -> Id \cup {AlreadyExists, None}]
    /\ leaked \subseteq Id
    /\ walk \in WalkType /\ (walk.pc # "idle" => walk.max > 0)
    /\ faults \in 0..MaxFaults

Shape == DisksShape /\ TypeInv /\ CallShape

-----------------------------------------------------------------------------
(* What a create call r knows of the disks of its name, before and after   *)
(* the creation.                                                           *)
OfName(n) == {i \in Existing : disk[i].name = n}

BeforeCreation(r) ==
    /\ r.pc # "zone" => \A i \in OfName(r.about) :
          disk[i].store \in Range(Children[r.place])
    /\ r.pc \in {"list", "get"} => \A i \in OfName(r.about), k \in 1..r.child - 1 :
          disk[i].store # Children[r.place][k]
    /\ r.pc = "get" => \A i \in OfName(r.about) :
          disk[i].store = Children[r.place][r.child] => i \in r.ids
    /\ r.pc = "create" => OfName(r.about) = {}

AfterCreation(r) == \A i \in OfName(r.about) : disk[i].size = SizeOf[r.about]

Knows(r) == IF r.again THEN AfterCreation(r) ELSE BeforeCreation(r)

Creates(c, n) == call[c].kind = "create" /\ call[c].about = n

KnowsOf(c) ==
    call[c].kind = "create" /\ call[c].about \notin excused =>
       /\ Knows(call[c])
       /\ \A x \in Slot \ {c} : ~Creates(x, call[c].about)

CreateKnows == \A c \in Slot : KnowsOf(c)

(* What a walk that nothing has disturbed has still to see: among the      *)
(* disks X that the last page was cut from, those of base that are not     *)
(* seen come at or after the start token; X still exists, and is collected *)
(* again datastore by datastore.                                           *)
OnListed == UNION {On(s) : s \in Range(Listed)}

Pending(w, X) ==
    /\ w.base \subseteq X /\ X \subseteq OnListed
    /\ \A i \in w.base \ w.seen : w.start <= Index(i, X)
    /\ w.pc \in {"list", "get"} => \A k \in 1..w.store - 1 : X \cap On(Listed[k]) \subseteq w.disks
    /\ w.pc = "get" => X \cap On(Listed[w.store]) \subseteq w.ids
    /\ w.pc = "page" => X \subseteq w.disks

WalkOpen(w) ==
    /\ w.pc \in {"list", "get"} => w.store \in 1..Len(Listed)
    /\ w.pc = "get" => w.ids \subseteq On(Listed[w.store])
    /\ w.pc # "done" => w.disks \subseteq OnListed /\ \E X \in SUBSET Id : Pending(w, X)
    /\ w.pc = "done" => w.base \subseteq w.seen

WalkKnows == walk.pc # "idle" /\ walk.calm => WalkOpen(walk)

VolumesInv == Shape /\ NoDuplicate /\ CreateKnows /\ WalkKnows
-----------------------------------------------------------------------------
(* The operators. *)

LEMMA IdSubsetsFinite ==
    ASSUME NEW S \in SUBSET Id
    PROVE  IsFiniteSet(S) /\ Cardinality(S) \in Nat
<1>1. IsFiniteSet(Id)  BY FS_Interval, VolumesAssumption DEF Id
<1>2. QED  BY <1>1, FS_Subset, FS_CardinalityType

(* The index of a disk grows with the set it is counted in.                *)
LEMMA IndexGrows ==
    ASSUME NEW X \in SUBSET Id, NEW Y \in SUBSET Id, X \subseteq Y, NEW i \in Id
    PROVE  /\ Index(i, X) \in Nat /\ Index(i, Y) \in Nat
           /\ Index(i, X) <= Index(i, Y)
<1> DEFINE A == {j \in X : j > i}
           B == {j \in Y : j > i}
<1>1. A \in SUBSET Id /\ B \in SUBSET Id /\ A \subseteq B  OBVIOUS
<1>2. IsFiniteSet(B) /\ Cardinality(A) \in Nat /\ Cardinality(B) \in Nat
    BY <1>1, IdSubsetsFinite
<1>3. Cardinality(A) <= Cardinality(B)  BY <1>1, <1>2, FS_Subset
<1>4. QED  BY <1>2, <1>3 DEF Index

(* The disk counted last has an index below the number of disks.           *)
LEMMA IndexBelow ==
    ASSUME NEW X \in SUBSET Id, NEW i \in X
    PROVE  Index(i, X) < Cardinality(X)
<1> DEFINE A == {j \in X : j > i}
<1>1. A \in SUBSET Id /\ A \subseteq X /\ i \in Id /\ X \in SUBSET Id  OBVIOUS
<1>2. i \notin A  BY <1>1, VolumesAssumption DEF Id
<1>3. IsFiniteSet(X)  BY IdSubsetsFinite
<1>4. A # X  BY <1>2
<1>5. Cardinality(A) < Cardinality(X)  BY <1>1, <1>3, <1>4, FS_Subset, IdSubsetsFinite
<1>6. QED  BY <1>5 DEF Index

LEMMA ChildrenFacts ==
    ASSUME NEW p \in Place
    PROVE  /\ Children[p] \in Seq(Store) /\ Len(Children[p]) \in Nat \ {0}
           /\ Range(Children[p]) \subseteq Store
           /\ \A s \in Range(Children[p]) : \E k \in 1..Len(Children[p]) : s = Children[p][k]
<1>1. Children[p] \in Seq(Store) /\ Children[p] # <<>>  BY VolumesAssumption
<1>2. DOMAIN Children[p] = 1..Len(Children[p]) /\ Len(Children[p]) \in Nat \ {0}  BY <1>1
<1>3. Range(Children[p]) \subseteq Store  BY DEF Store
<1>4. QED  BY <1>1, <1>2, <1>3 DEF Range

LEMMA ListedFacts == /\ Listed \in Seq(Store) /\ Len(Listed) \in Nat
                     /\ Range(Listed) = {Listed[k] : k \in 1..Len(Listed)}
BY VolumesAssumption DEF Range

-----------------------------------------------------------------------------
(* What steps of others leave true. *)

(* The disks of the last state are all that exists, up to one that c makes. *)
MadeBy(c) == \A i \in Existing' : \/ i \in Existing /\ disk'[i] = disk[i]
                                  \/ Creates(c, disk'[i].name)

(* Other calls do not move, but may learn of a delete call. *)
OthersStay(c) ==
    \A x \in Slot \ {c} : \/ call'[x] = call[x]
                          \/ call[x].kind = "delete" /\ call'[x].kind = "delete"

OnlyMoves(c) ==
    /\ OthersStay(c)
    /\ excused \subseteq excused'
    /\ call'[c].kind = "create" =>
          \/ call'[c].about \in excused' \/ Creates(c, call'[c].about)
          \/ \A x \in Slot : ~Creates(x, call'[c].about)

LEMMA AllOthersStay ==
    ASSUME NEW c \in Slot, \A x \in Slot \ {c} : call'[x] = call[x]
    PROVE  OthersStay(c)
BY Zenon DEF OthersStay

LEMMA OthersKnow ==
    ASSUME CreateKnows, NEW c \in Slot, OnlyMoves(c), MadeBy(c)
    PROVE  \A x \in Slot \ {c} : KnowsOf(x)'
<1> TAKE x \in Slot \ {c}
<1> SUFFICES ASSUME call'[x] = call[x]  PROVE KnowsOf(x)'
    BY DEF OnlyMoves, OthersStay, KnowsOf
<1>1. call'[x] = call[x]  OBVIOUS
<1> SUFFICES ASSUME call[x].kind = "create", call[x].about \notin excused'
             PROVE  Knows(call[x])' /\ \A y \in Slot \ {x} : ~Creates(y, call[x].about)'
    BY <1>1 DEF KnowsOf
<1>2. call[x].about \notin excused  BY DEF OnlyMoves
<1>3. Knows(call[x]) /\ \A y \in Slot \ {x} : ~Creates(y, call[x].about)
    BY <1>2 DEF CreateKnows, KnowsOf
<1>4. ~Creates(c, call[x].about) /\ Creates(x, call[x].about)  BY <1>3 DEF Creates
<1>5. \A i \in OfName(call[x].about)' : i \in OfName(call[x].about) /\ disk'[i] = disk[i]
    BY <1>1, <1>4 DEF MadeBy, OfName
<1>6. Knows(call[x])'
    BY <1>1, <1>3, <1>5 DEF Knows, BeforeCreation, AfterCreation
<1>7. \A y \in Slot \ {x} : ~Creates(y, call[x].about)'
    BY <1>1, <1>3, <1>4 DEF Creates, OnlyMoves, OthersStay
<1>8. QED  BY <1>6, <1>7

LEMMA MoverKnows ==
    ASSUME CreateKnows, NEW c \in Slot, OnlyMoves(c), MadeBy(c), KnowsOf(c)'
    PROVE  CreateKnows'
BY OthersKnow DEF CreateKnows

(* The call that moves is still the only one of its name. *)
LEMMA StaysAlone ==
    ASSUME CreateKnows, NEW c \in Slot, OnlyMoves(c),
           call'[c].kind = "create", call'[c].about \notin excused',
           Knows(call[c])'
    PROVE  KnowsOf(c)'
<1>1. \A x \in Slot \ {c} : ~Creates(x, call'[c].about)
    BY DEF CreateKnows, KnowsOf, OnlyMoves, OthersStay, Creates
<1>2. QED  BY <1>1 DEF KnowsOf, Creates, OnlyMoves, OthersStay

LEMMA IdlerKnows ==
    ASSUME NEW c \in Slot, call'[c].kind # "create"
    PROVE  KnowsOf(c)'
BY DEF KnowsOf

(* A walk is not disturbed while the disks it is about stay.               *)
LEMMA WalkStays ==
    ASSUME WalkKnows,
           walk'.pc = walk.pc, walk'.start = walk.start, walk'.store = walk.store,
           walk'.ids = walk.ids, walk'.disks = walk.disks, walk'.seen = walk.seen,
           walk'.base \subseteq walk.base,
           walk'.calm /\ walk.pc # "idle" =>
              walk.calm /\ \A i \in OnListed : i \in Existing' /\ disk'[i] = disk[i]
    PROVE  WalkKnows'
<1> SUFFICES ASSUME walk'.pc # "idle", walk'.calm  PROVE WalkOpen(walk)'
    BY DEF WalkKnows
<1>1. WalkOpen(walk) /\ \A i \in OnListed : i \in Existing' /\ disk'[i] = disk[i]
    BY DEF WalkKnows
<1>2. \A s \in Range(Listed) : On(s) \subseteq On(s)'  BY <1>1 DEF On, OnListed
<1>3. OnListed \subseteq OnListed'  BY <1>2 DEF OnListed
<1>4. \A k \in 1..Len(Listed) : Listed[k] \in Range(Listed)  BY ListedFacts
<1>5. ASSUME walk.pc # "done"
      PROVE  \E X \in SUBSET Id : Pending(walk, X)'
  <2>1. PICK X \in SUBSET Id : Pending(walk, X)  BY <1>1, <1>5 DEF WalkOpen
  <2>2. \A s : X \cap On(s)' \subseteq On(s)
      BY <1>1, <2>1 DEF Pending, On, OnListed
  <2>3. Pending(walk, X)'  BY <1>3, <2>1, <2>2 DEF Pending
  <2>4. QED  BY <2>3
<1>6. QED  BY <1>1, <1>2, <1>3, <1>4, <1>5 DEF WalkOpen

LEMMA DisksStay ==
    ASSUME NoDuplicate, excused \subseteq excused',
           \A i \in Existing' : i \in Existing /\ disk'[i] = disk[i]
    PROVE  NoDuplicate'
BY DEF NoDuplicate

-----------------------------------------------------------------------------
(* Steps that only read: one call moves, the disks and the walk stay. *)

Reads(c) == /\ UNCHANGED <<disk, used, walk>> /\ OnlyMoves(c)
            /\ TypeInv' /\ CallShape'

LEMMA ReadingKeeps ==
    ASSUME VolumesInv, NEW c \in Slot, Reads(c), KnowsOf(c)'
    PROVE  VolumesInv'
<1>1. Existing' = Existing  BY DEF Existing, Reads
<1>2. Shape'  BY <1>1 DEF VolumesInv, Shape, DisksShape, Reads
<1>3. MadeBy(c)  BY <1>1 DEF MadeBy, Reads
<1>4. CreateKnows'  BY <1>3, MoverKnows DEF VolumesInv, Reads
<1>5. NoDuplicate'  BY <1>1, DisksStay DEF VolumesInv, Reads, OnlyMoves
<1>6. WalkKnows'
  <2>1. \A i \in OnListed : i \in Existing' /\ disk'[i] = disk[i]
      BY <1>1 DEF OnListed, On, Reads
  <2>2. QED  BY <2>1, WalkStays DEF VolumesInv, Reads
<1>7. QED  BY <1>2, <1>4, <1>5, <1>6 DEF VolumesInv

(* The types of a call that is set to a record of the type. *)
LEMMA CallTyped ==
    ASSUME Shape, NEW c \in Slot, NEW r \in CallType, call' = [call EXCEPT ![c] = r],
           r.kind = "create" => CreateShape(r), r.kind = "delete" => DeleteShape(r)
    PROVE  /\ call' \in [Slot -> CallType] /\ CallShape'
           /\ call'[c] = r /\ \A x \in Slot \ {c} : call'[x] = call[x]
<1>1. call \in [Slot -> CallType]  BY DEF Shape, TypeInv
<1>2. /\ call' \in [Slot -> CallType] /\ call'[c] = r
      /\ \A x \in Slot \ {c} : call'[x] = call[x]
    BY <1>1
<1>3. CallShape'  BY <1>2 DEF Shape, CallShape, CreateShape, DeleteShape
<1>4. QED  BY <1>2, <1>3

LEMMA MoveTyped ==
    ASSUME NEW r \in CallType, NEW pc \in {"list", "create"}, NEW ids \in SUBSET Id,
           NEW k \in Nat \ {0}
    PROVE  [r EXCEPT !.pc = pc, !.ids = ids, !.child = k] \in CallType
BY DEF CallType

LEMMA IdleTyped == Idle \in CallType /\ Idle.kind = "none"
BY DEF Idle, CallType

(* A call that ends is of no kind. *)
LEMMA EndFacts ==
    ASSUME Shape, NEW c \in Slot, End(c)
    PROVE  /\ call' \in [Slot -> CallType] /\ CallShape'
           /\ call'[c].kind = "none" /\ \A x \in Slot \ {c} : call'[x] = call[x]
BY IdleTyped, CallTyped DEF End

LEMMA EndKeeps ==
    ASSUME VolumesInv, NEW c \in Slot, End(c),
           UNCHANGED <<disk, used, leaked, walk>>, excused \subseteq excused',
           got' \in [Name -> Id \cup {AlreadyExists, None}], faults' \in 0..MaxFaults
    PROVE  VolumesInv'
<1>1. Shape  BY DEF VolumesInv
<1>2. Reads(c)  BY <1>1, EndFacts, AllOthersStay DEF Reads, OnlyMoves, Shape, TypeInv
<1>3. KnowsOf(c)'  BY <1>1, EndFacts, IdlerKnows
<1>4. QED  BY <1>2, <1>3, ReadingKeeps

(* A call of kind create that moves on, or begins. *)
LEMMA MoveKeeps ==
    ASSUME VolumesInv, NEW c \in Slot, NEW r \in CallType, call' = [call EXCEPT ![c] = r],
           CreateShape(r), r.kind = "create",
           UNCHANGED <<disk, used, leaked, walk, got>>, excused \subseteq excused',
           faults' \in 0..MaxFaults,
           \/ r.about \in excused' \/ Creates(c, r.about)
           \/ \A x \in Slot : ~Creates(x, r.about),
           r.about \notin excused' => Knows(r)
    PROVE  VolumesInv'
<1>1. Shape  BY DEF VolumesInv
<1>2. /\ call' \in [Slot -> CallType] /\ CallShape'
      /\ call'[c] = r /\ \A x \in Slot \ {c} : call'[x] = call[x]
    BY <1>1, CallTyped
<1>3. OnlyMoves(c)  BY <1>2, AllOthersStay DEF OnlyMoves
<1>4. Reads(c)  BY <1>1, <1>2, <1>3 DEF Reads, Shape, TypeInv
<1>5. Existing' = Existing  BY DEF Existing
<1>6. ASSUME r.about \notin excused'  PROVE KnowsOf(c)'
  <2>1. \A n : OfName(n)' = OfName(n)  BY <1>5 DEF OfName
  <2>2. Knows(call[c])'
      BY <1>2, <1>6, <2>1 DEF Knows, BeforeCreation, AfterCreation
  <2>3. QED  BY <1>2, <1>3, <1>6, <2>2, StaysAlone DEF VolumesInv
<1>7. KnowsOf(c)'  BY <1>2, <1>6 DEF KnowsOf
<1>8. QED  BY <1>4, <1>7, ReadingKeeps

-----------------------------------------------------------------------------
(* The steps of CreateVolume. *)

LEMMA BeginCreateKeeps ==
    ASSUME VolumesInv, NEW c \in Slot, NEW n \in Name, BeginCreate(c, n)
    PROVE  VolumesInv'
<1> DEFINE r == [Idle EXCEPT !.kind = "create", !.about = n, !.pc = "zone"]
<1>1. Requisites[n] \in Seq(SUBSET Place) \ {<<>>}  BY VolumesAssumption
<1>2. Len(Requisites[n]) \in Nat \ {0}  BY <1>1
<1>3. r.kind = "create" /\ r.about = n /\ r.pc = "zone" /\ r.zone = 1 /\ ~r.again
    BY DEF Idle
<1>4. r.child = 1  BY DEF Idle
<1>5. r \in CallType  BY IdleTyped DEF CallType
<1>6. CreateShape(r)  BY <1>2, <1>3, <1>4 DEF CreateShape
<1>7. r \in CallType /\ CreateShape(r) /\ r.kind = "create" /\ r.about = n
    BY <1>3, <1>5, <1>6
<1>8. Begin(c, "create", n)  BY DEF BeginCreate
<1>9. /\ UNCHANGED <<disk, used, got, leaked, walk>> /\ faults' \in 0..MaxFaults
      /\ call' = [call EXCEPT ![c] = r]
    BY <1>8, VolumesAssumption DEF BeginCreate, Begin, Spend, VolumesInv, Shape, TypeInv
<1>10. excused \subseteq excused'  BY DEF BeginCreate
<1>11. n \in excused' \/ \A x \in Slot : ~Creates(x, n)
    BY DEF BeginCreate, Busy, Creates
<1>12. Knows(r)  BY DEF Idle, Knows, BeforeCreation
<1>13. QED  BY <1>7, <1>9, <1>10, <1>11, <1>12, MoveKeeps

LEMMA CreateFacts ==
    ASSUME VolumesInv, NEW c \in Slot, call[c].kind = "create"
    PROVE  /\ call[c] \in CallType /\ CreateShape(call[c]) /\ Creates(c, call[c].about)
           /\ faults \in 0..MaxFaults
           /\ call[c].about \notin excused => Knows(call[c])
BY DEF VolumesInv, Shape, TypeInv, CallShape, Creates, CreateKnows, KnowsOf

LEMMA PickZoneKeeps ==
    ASSUME VolumesInv, NEW c \in Slot, PickZone(c)
    PROVE  VolumesInv'
<1> DEFINE n == call[c].about
<1>1. call[c].kind = "create" /\ call[c].pc = "zone"  BY DEF PickZone, Is
<1>2. call[c] \in CallType /\ CreateShape(call[c]) /\ Creates(c, n) /\ faults \in 0..MaxFaults
    BY <1>1, CreateFacts
<1>3. PICK p \in Requisites[n][call[c].zone] :
         /\ call' = [call EXCEPT ![c].place = p, ![c].pc = "list"]
         /\ excused' = IF \E q \in Place \ {p} : Named(n, q) # {}
                         THEN excused \cup {n} ELSE excused
    BY DEF PickZone
<1>4. Requisites[n] \in Seq(SUBSET Place)  BY <1>2, VolumesAssumption DEF CreateShape
<1>5. p \in Place  BY <1>2, <1>3, <1>4 DEF CreateShape
<1> DEFINE r == [call[c] EXCEPT !.place = p, !.pc = "list"]
<1>6. call \in [Slot -> CallType]  BY DEF VolumesInv, Shape, TypeInv
<1>7. call' = [call EXCEPT ![c] = r]  BY <1>3, <1>6
<1>8. Len(Children[p]) \in Nat \ {0}  BY <1>5, ChildrenFacts
<1>9. /\ r.kind = "create" /\ r.about = n /\ ~r.again /\ r.zone = call[c].zone
      /\ r.pc = "list" /\ r.place = p /\ r.child = 1 /\ r \in CallType
    BY <1>1, <1>2, <1>5 DEF CallType, CreateShape
<1>10. CreateShape(r)  BY <1>2, <1>5, <1>8, <1>9 DEF CreateShape
<1>11. r \in CallType /\ CreateShape(r) /\ r.kind = "create" /\ r.about = n /\ ~r.again
      /\ r.pc = "list" /\ r.place = p /\ r.child = 1
    BY <1>9, <1>10
<1>12. ASSUME n \notin excused'  PROVE Knows(r)
  <2>1. \A q \in Place \ {p} : Named(n, q) = {}  BY <1>3, <1>12
  <2>2. \A i \in OfName(n) : disk[i].store \in Range(Children[p])
    <3> TAKE i \in OfName(n)
    <3>1. i \in Existing /\ disk[i].name = n  BY DEF OfName
    <3>2. PICK q \in Place : disk[i].store \in Range(Children[q])
        BY <3>1 DEF VolumesInv, Shape, DisksShape, Store
    <3>3. i \in Named(n, q)  BY <3>1, <3>2 DEF Named
    <3>4. QED  BY <2>1, <3>2, <3>3
  <2>3. QED  BY <1>11, <2>2 DEF Knows, BeforeCreation
<1>13. UNCHANGED <<disk, used, leaked, walk, got, faults>> /\ excused \subseteq excused'
    BY <1>3 DEF PickZone
<1>14. QED  BY <1>2, <1>7, <1>11, <1>12, <1>13, MoveKeeps

LEMMA ListDisksKeeps ==
    ASSUME VolumesInv, NEW c \in Slot, ListDisks(c)
    PROVE  VolumesInv'
<1> DEFINE n == call[c].about
           r == [call[c] EXCEPT !.pc = "get", !.ids = On(Child(c))]
<1>1. call[c].kind = "create" /\ call[c].pc = "list"  BY DEF ListDisks, Is
<1>2. /\ call[c] \in CallType /\ CreateShape(call[c]) /\ Creates(c, n)
      /\ faults \in 0..MaxFaults /\ (n \notin excused => Knows(call[c]))
    BY <1>1, CreateFacts
<1>3. call \in [Slot -> CallType]  BY DEF VolumesInv, Shape, TypeInv
<1>4. call' = [call EXCEPT ![c] = r]  BY <1>3 DEF ListDisks
<1>5. On(Child(c)) \subseteq Id  BY DEF On, Existing
<1>6. /\ r \in CallType /\ CreateShape(r) /\ r.kind = "create" /\ r.about = n
      /\ r.pc = "get" /\ r.again = call[c].again /\ r.place = call[c].place
      /\ r.child = call[c].child /\ r.ids = On(Child(c))
    BY <1>1, <1>2, <1>5 DEF CallType, CreateShape
<1>7. ASSUME n \notin excused'  PROVE Knows(r)
  <2>1. Knows(call[c])  BY <1>2, <1>7 DEF ListDisks
  <2>2. \A i \in OfName(n) : disk[i].store = Children[r.place][r.child] => i \in r.ids
      BY <1>6 DEF OfName, On, Child
  <2>3. QED  BY <1>1, <1>6, <2>1, <2>2 DEF Knows, BeforeCreation, AfterCreation
<1>8. UNCHANGED <<disk, used, leaked, walk, got, faults, excused>>  BY DEF ListDisks
<1>9. QED  BY <1>2, <1>4, <1>6, <1>7, <1>8, MoveKeeps

(* The end of a scan: a create call that is not excused has found no disk. *)
LEMMA ScanEndsKeeps ==
    ASSUME VolumesInv, NEW c \in Slot, NEW failed \in BOOLEAN, ScanEnds(c, failed),
           call[c].kind = "create", call[c].pc \in {"list", "get"},
           UNCHANGED <<disk, used, leaked, walk, got>>, faults' \in 0..MaxFaults,
           ~failed /\ ~call[c].again /\ call[c].about \notin excused =>
              OfName(call[c].about) = {}
    PROVE  VolumesInv'
<1> DEFINE n == call[c].about
           r == [call[c] EXCEPT !.pc = "create", !.ids = {}, !.child = 1]
<1>1. /\ call[c] \in CallType /\ CreateShape(call[c]) /\ Creates(c, n)
      /\ (n \notin excused => Knows(call[c]))
    BY CreateFacts
<1>2. got' \in [Name -> Id \cup {AlreadyExists, None}]
    BY DEF VolumesInv, Shape, TypeInv
<1>3. CASE call[c].again
    BY <1>2, <1>3, EndKeeps DEF ScanEnds
<1>4. CASE ~call[c].again
  <2>1. call \in [Slot -> CallType]  BY DEF VolumesInv, Shape, TypeInv
  <2>2. /\ call' = [call EXCEPT ![c] = r] /\ excused \subseteq excused'
        /\ excused' = IF failed /\ Named(n, call[c].place) # {} THEN excused \cup {n}
                                                                ELSE excused
      BY <1>4, <2>1 DEF ScanEnds
  <2>3. call[c].place \in Place  BY <1>1 DEF CreateShape
  <2>4. Len(Children[call[c].place]) \in Nat \ {0}  BY <2>3, ChildrenFacts
  <2>5. /\ r.kind = "create" /\ r.about = n /\ r.zone = call[c].zone /\ r.child = 1
        /\ r.pc = "create" /\ ~r.again /\ r.place = call[c].place
      BY <1>1, <1>4 DEF CallType
  <2>6. r \in CallType
    <3>1. {} \in SUBSET Id /\ 1 \in Nat \ {0} /\ "create" \in {"list", "create"}  OBVIOUS
    <3>2. QED  BY <1>1, <3>1, MoveTyped, Zenon
  <2>7. CreateShape(r)  BY <1>1, <2>3, <2>4, <2>5 DEF CreateShape
  <2>8. /\ r \in CallType /\ CreateShape(r) /\ r.kind = "create" /\ r.about = n
        /\ r.pc = "create" /\ ~r.again /\ r.place = call[c].place
      BY <2>5, <2>7, <2>6
  <2>9. ASSUME n \notin excused'  PROVE Knows(r)
    <3>1. n \notin excused /\ Knows(call[c])  BY <1>1, <2>2, <2>9
    <3>2. \A i \in OfName(n) : disk[i].store \in Range(Children[call[c].place])
        BY <1>4, <3>1 DEF Knows, BeforeCreation
    <3>3. ASSUME failed  PROVE OfName(n) = {}
        BY <2>2, <2>9, <3>2, <3>3 DEF Named, OfName
    <3>4. OfName(n) = {}  BY <1>4, <3>1, <3>3
    <3>5. QED  BY <2>8, <3>4 DEF Knows, BeforeCreation
  <2>10. QED  BY <1>1, <2>2, <2>8, <2>9, MoveKeeps
<1>5. QED  BY <1>3, <1>4

LEMMA RetrieveDisksKeeps ==
    ASSUME VolumesInv, NEW c \in Slot, RetrieveDisks(c)
    PROVE  VolumesInv'
<1> DEFINE n     == call[c].about
           match == {i \in call[c].ids \cap Existing : disk[i].name = n}
           gone  == call[c].ids \ Existing
<1>1. /\ call[c].kind = "create" /\ call[c].pc = "get"
      /\ UNCHANGED <<disk, used, leaked, walk, faults>>
    BY DEF RetrieveDisks, Is
<1>2. /\ call[c] \in CallType /\ CreateShape(call[c]) /\ Creates(c, n)
      /\ faults \in 0..MaxFaults /\ (n \notin excused => Knows(call[c]))
    BY <1>1, CreateFacts
<1>3. got \in [Name -> Id \cup {AlreadyExists, None}] /\ call \in [Slot -> CallType]
    BY DEF VolumesInv, Shape, TypeInv
<1>4. ASSUME NEW i \in match, TakeFound(c, i), UNCHANGED excused  PROVE VolumesInv'
  <2>1. i \in Id  BY DEF Existing
  <2>2. got' \in [Name -> Id \cup {AlreadyExists, None}]
      BY <1>3, <1>4, <2>1 DEF TakeFound
  <2>3. QED  BY <1>1, <1>2, <1>4, <2>2, EndKeeps DEF TakeFound
<1>5. ASSUME ScanEnds(c, TRUE), UNCHANGED got  PROVE VolumesInv'
    BY <1>1, <1>2, <1>5, ScanEndsKeeps
<1>6. ASSUME gone = {}, match = {}, UNCHANGED <<got, excused>>,
             call[c].child < Len(Children[call[c].place]),
             call' = [call EXCEPT ![c].child = @ + 1, ![c].pc = "list", ![c].ids = {}]
      PROVE  VolumesInv'
  <2> DEFINE r == [call[c] EXCEPT !.child = @ + 1, !.pc = "list", !.ids = {}]
  <2>1. call' = [call EXCEPT ![c] = r]  BY <1>3, <1>6
  <2>2. call[c].place \in Place  BY <1>1, <1>2 DEF CreateShape
  <2>3. Len(Children[call[c].place]) \in Nat \ {0}  BY <2>2, ChildrenFacts
  <2>4. /\ r.kind = "create" /\ r.about = n /\ r.zone = call[c].zone /\ r.pc = "list"
        /\ r.again = call[c].again /\ r.place = call[c].place
        /\ r.child = call[c].child + 1 /\ call[c].child \in Nat
      BY <1>1, <1>2 DEF CallType
  <2>5. r \in CallType
    <3>1. /\ {} \in SUBSET Id /\ call[c].child + 1 \in Nat \ {0}
          /\ "list" \in {"list", "create"}
        BY <2>4
    <3>2. r = [call[c] EXCEPT !.pc = "list", !.ids = {}, !.child = call[c].child + 1]
        BY <1>2 DEF CallType
    <3>3. QED  BY <1>2, <3>1, <3>2, MoveTyped, Zenon
  <2>6. CreateShape(r)  BY <1>1, <1>2, <1>6, <2>2, <2>3, <2>4 DEF CreateShape
  <2>7. /\ r \in CallType /\ CreateShape(r) /\ r.kind = "create" /\ r.about = n
        /\ r.pc = "list" /\ r.again = call[c].again /\ r.place = call[c].place
        /\ r.child = call[c].child + 1 /\ call[c].child \in Nat
      BY <2>4, <2>6, <2>5
  <2>8. ASSUME n \notin excused  PROVE Knows(r)
    <3>1. Knows(call[c])  BY <1>2, <2>8
    <3>2. CASE call[c].again  BY <2>7, <3>1, <3>2 DEF Knows, AfterCreation
    <3>3. CASE ~call[c].again
      <4>1. \A i \in OfName(n) : disk[i].store # Children[r.place][call[c].child]
          BY <1>1, <1>6, <2>7, <3>1, <3>3 DEF Knows, BeforeCreation, OfName
      <4>2. \A i \in OfName(n), k \in 1..call[c].child - 1 :
               disk[i].store # Children[r.place][k]
          BY <1>1, <2>7, <3>1, <3>3 DEF Knows, BeforeCreation
      <4>3. \A i \in OfName(n) : disk[i].store \in Range(Children[r.place])
          BY <1>1, <2>7, <3>1, <3>3 DEF Knows, BeforeCreation
      <4>4. \A k \in 1..r.child - 1 : k = call[c].child \/ k \in 1..call[c].child - 1
          BY <2>7
      <4>5. QED  BY <2>7, <3>3, <4>1, <4>2, <4>3, <4>4 DEF Knows, BeforeCreation
    <3>4. QED  BY <3>2, <3>3
  <2>9. excused \subseteq excused' /\ faults' \in 0..MaxFaults
        /\ (n \notin excused' => Knows(r))
      BY <1>1, <1>2, <1>6, <2>8
  <2> HIDE DEF r, gone, match
  <2>10. QED  BY <1>1, <1>2, <1>6, <2>1, <2>7, <2>9, MoveKeeps
<1>7. ASSUME gone = {}, match = {}, UNCHANGED got, ScanEnds(c, FALSE),
             ~(call[c].child < Len(Children[call[c].place]))
      PROVE  VolumesInv'
  <2>1. ASSUME ~call[c].again, n \notin excused  PROVE OfName(n) = {}
    <3>1. BeforeCreation(call[c])  BY <1>2, <2>1 DEF Knows
    <3>2. call[c].place \in Place /\ call[c].child = Len(Children[call[c].place])
        BY <1>1, <1>2, <1>7, ChildrenFacts DEF CreateShape
    <3>3. \A i \in OfName(n) : disk[i].store # Children[call[c].place][call[c].child]
        BY <1>1, <1>7, <3>1 DEF BeforeCreation, OfName
    <3>4. \A i \in OfName(n), k \in 1..Len(Children[call[c].place]) :
             disk[i].store # Children[call[c].place][k]
        BY <1>1, <3>1, <3>2, <3>3, ChildrenFacts DEF BeforeCreation
    <3>5. \A i \in OfName(n) : disk[i].store \in Range(Children[call[c].place])
        BY <1>1, <3>1 DEF BeforeCreation
    <3>6. \A st \in Range(Children[call[c].place]) :
             \E k \in 1..Len(Children[call[c].place]) : st = Children[call[c].place][k]
        BY <3>2, ChildrenFacts
    <3>7. QED  BY <3>4, <3>5, <3>6
  <2>2. QED  BY <1>1, <1>2, <1>7, <2>1, ScanEndsKeeps
<1>8. QED  BY <1>4, <1>5, <1>6, <1>7 DEF RetrieveDisks

(* vCenter makes a disk: it gets a new identifier, so no other disk is     *)
(* overwritten, and the name had none unless it is excused.                *)
LEMMA NewDiskFacts ==
    ASSUME VolumesInv, NEW c \in Slot, Is(c, "create", "create"), NewDisk(c),
           UNCHANGED excused
    PROVE  /\ DisksShape' /\ MadeBy(c) /\ NoDuplicate'
           /\ \A i \in OnListed : i \in Existing' /\ disk'[i] = disk[i]
           /\ call[c].about \notin excused =>
                 \A i \in Existing' : disk'[i].name = call[c].about =>
                    disk'[i].size = SizeOf[call[c].about]
<1> DEFINE n == call[c].about
<1>1. call[c].kind = "create" /\ call[c].pc = "create"  BY DEF Is
<1>2. /\ CreateShape(call[c]) /\ Creates(c, n)
      /\ n \notin excused => OfName(n) = {}
  <2>1. CreateShape(call[c]) /\ Creates(c, n) /\ (n \notin excused => Knows(call[c]))
      BY <1>1, CreateFacts
  <2>2. ~call[c].again  BY <1>1, <2>1 DEF CreateShape
  <2>3. QED  BY <1>1, <2>1, <2>2 DEF Knows, BeforeCreation
<1>3. PICK i \in Id \ used, s \in Range(Children[call[c].place]) :
         /\ disk' = [disk EXCEPT ![i] = [name |-> n, size |-> SizeOf[n], store |-> s]]
         /\ used' = used \cup {i}
    BY DEF NewDisk
<1>4. DisksShape  BY DEF VolumesInv, Shape
<1>5. s \in Store  BY <1>1, <1>2, <1>3, ChildrenFacts DEF CreateShape
<1>6. /\ i \notin Existing
      /\ disk'[i] = [name |-> n, size |-> SizeOf[n], store |-> s]
      /\ \A j \in Id \ {i} : disk'[j] = disk[j]
    BY <1>3, <1>4 DEF DisksShape
<1>7. disk'[i].name = n /\ disk'[i].size = SizeOf[n] /\ disk'[i].store = s  BY <1>6
<1>8. /\ \A j \in Existing' : j = i \/ (j \in Existing /\ disk'[j] = disk[j])
      /\ \A j \in Existing : j # i /\ j \in Existing' /\ disk'[j] = disk[j]
    BY <1>6 DEF Existing
<1>9. DisksShape'
  <2>1. DOMAIN disk' = Id /\ disk' = [j \in Id |-> disk'[j]]  BY <1>3, <1>4 DEF DisksShape
  <2>2. used' \subseteq Id /\ Existing' \subseteq used'  BY <1>3, <1>4, <1>8 DEF DisksShape
  <2>3. \A j \in Existing' : disk'[j].store \in Store
      BY <1>4, <1>5, <1>7, <1>8 DEF DisksShape
  <2>4. QED  BY <2>1, <2>2, <2>3 DEF DisksShape
<1>10. MadeBy(c)  BY <1>2, <1>7, <1>8 DEF MadeBy
<1>11. ASSUME n \notin excused  PROVE \A j \in Existing' : disk'[j].name = n => j = i
    BY <1>2, <1>8, <1>11 DEF OfName
<1>12. NoDuplicate'
  <2> SUFFICES ASSUME NEW j \in Existing', NEW k \in Existing', disk'[j].name = disk'[k].name,
                      j # k, disk'[j].name \notin excused
               PROVE  FALSE
      BY DEF NoDuplicate
  <2>1. CASE j # i /\ k # i
      BY <1>8, <2>1 DEF VolumesInv, NoDuplicate
  <2>2. CASE j = i \/ k = i  BY <1>7, <1>11, <2>2
  <2>3. QED  BY <2>1, <2>2
<1>13. \A j \in OnListed : j \in Existing' /\ disk'[j] = disk[j]
    BY <1>8 DEF OnListed, On
<1>14. QED  BY <1>7, <1>9, <1>10, <1>11, <1>12, <1>13

LEMMA CreateDiskKeeps ==
    ASSUME VolumesInv, NEW c \in Slot, CreateDisk(c)
    PROVE  VolumesInv'
<1> DEFINE n == call[c].about
           r == [call[c] EXCEPT !.pc = "list", !.again = TRUE]
<1>1. call[c].kind = "create" /\ call[c].pc = "create"  BY DEF CreateDisk, Is
<1>2. call[c] \in CallType /\ CreateShape(call[c]) /\ Creates(c, n) /\ faults \in 0..MaxFaults
    BY <1>1, CreateFacts
<1>3. Shape /\ call \in [Slot -> CallType]  BY DEF VolumesInv, Shape, TypeInv
<1>4. call' = [call EXCEPT ![c] = r]  BY <1>3 DEF CreateDisk
<1>5. /\ r \in CallType /\ r.kind = "create" /\ r.about = n /\ r.pc = "list" /\ r.again
      /\ r.zone = call[c].zone /\ r.place = call[c].place /\ r.child = call[c].child
    BY <1>1, <1>2 DEF CallType
<1>6. CreateShape(r)  BY <1>1, <1>2, <1>5 DEF CreateShape
<1>7. /\ call' \in [Slot -> CallType] /\ CallShape' /\ call'[c] = r
      /\ \A x \in Slot \ {c} : call'[x] = call[x]
    BY <1>3, <1>4, <1>5, <1>6, CallTyped
<1>8. OnlyMoves(c)  BY <1>2, <1>5, <1>7, AllOthersStay DEF OnlyMoves, CreateDisk
<1>9. /\ DisksShape' /\ MadeBy(c) /\ NoDuplicate'
      /\ \A i \in OnListed : i \in Existing' /\ disk'[i] = disk[i]
      /\ n \notin excused => \A i \in Existing' : disk'[i].name = n => disk'[i].size = SizeOf[n]
    BY NewDiskFacts DEF CreateDisk
<1>10. UNCHANGED <<got, leaked, walk, faults, excused>>  BY DEF CreateDisk
<1>11. Shape'  BY <1>3, <1>7, <1>9, <1>10 DEF Shape, TypeInv
<1>12. KnowsOf(c)'
  <2> SUFFICES ASSUME n \notin excused  PROVE KnowsOf(c)'
      BY <1>5, <1>7, <1>10 DEF KnowsOf
  <2>1. Knows(call[c])'  BY <1>5, <1>7, <1>9 DEF Knows, AfterCreation, OfName
  <2>2. QED  BY <1>5, <1>7, <1>8, <1>10, <2>1, StaysAlone DEF VolumesInv
<1>13. CreateKnows'  BY <1>8, <1>9, <1>12, MoverKnows DEF VolumesInv
<1>14. WalkKnows'  BY <1>9, <1>10, WalkStays DEF VolumesInv
<1>15. QED  BY <1>9, <1>11, <1>13, <1>14 DEF VolumesInv

LEMMA SpendTyped ==
    ASSUME VolumesInv, Spend
    PROVE  faults' \in 0..MaxFaults
BY VolumesAssumption DEF VolumesInv, Shape, TypeInv, Spend

LEMMA FaultCreateKeeps ==
    ASSUME VolumesInv, NEW c \in Slot, FaultCreate(c)
    PROVE  VolumesInv'
<1> DEFINE n == call[c].about
<1>1. /\ call[c].kind = "create" /\ UNCHANGED <<disk, used, got, leaked, walk>>
      /\ faults' \in 0..MaxFaults
    BY SpendTyped DEF FaultCreate
<1>2. /\ call[c] \in CallType /\ CreateShape(call[c]) /\ Creates(c, n)
      /\ (n \notin excused => Knows(call[c]))
    BY <1>1, CreateFacts
<1>3. got' \in [Name -> Id \cup {AlreadyExists, None}] /\ call \in [Slot -> CallType]
    BY <1>1 DEF VolumesInv, Shape, TypeInv
<1>4. CASE call[c].pc = "zone"
  <2> DEFINE r == [call[c] EXCEPT !.zone = @ + 1]
  <2>1. NextZone(c) /\ UNCHANGED excused  BY <1>4 DEF FaultCreate
  <2>2. CASE End(c)  BY <1>1, <1>3, <2>1, <2>2, EndKeeps
  <2>3. CASE /\ call' = [call EXCEPT ![c].zone = @ + 1]
             /\ call[c].zone < Len(Requisites[n])
    <3>1. call' = [call EXCEPT ![c] = r]  BY <1>3, <2>3
    <3>2. Requisites[n] \in Seq(SUBSET Place)  BY <1>2, VolumesAssumption DEF CreateShape
    <3>3. Len(Requisites[n]) \in Nat  BY <3>2
    <3>4. /\ r \in CallType /\ r.kind = "create" /\ r.about = n /\ r.pc = "zone"
          /\ r.again = call[c].again /\ r.child = call[c].child /\ r.zone = call[c].zone + 1
        BY <1>1, <1>2, <1>4 DEF CallType
    <3>5. CreateShape(r)  BY <1>2, <1>4, <2>3, <3>3, <3>4 DEF CreateShape
    <3>6. ~call[c].again  BY <1>2, <1>4 DEF CreateShape
    <3>7. Knows(r)  BY <3>4, <3>6 DEF Knows, BeforeCreation
    <3>8. QED  BY <1>1, <1>2, <2>1, <3>1, <3>4, <3>5, <3>7, MoveKeeps
  <2>4. QED  BY <2>1, <2>2, <2>3 DEF NextZone
<1>5. CASE call[c].pc \in {"list", "get"}
  <2>1. ScanEnds(c, TRUE)  BY <1>5 DEF FaultCreate
  <2>2. QED  BY <1>1, <1>5, <2>1, ScanEndsKeeps
<1>6. CASE call[c].pc = "create"
  <2>1. End(c) /\ UNCHANGED excused  BY <1>6 DEF FaultCreate
  <2>2. QED  BY <1>1, <1>3, <2>1, EndKeeps
<1>7. QED  BY <1>2, <1>4, <1>5, <1>6 DEF CreateShape

-----------------------------------------------------------------------------
(* The steps of DeleteVolume. *)

LEMMA DeleteFacts ==
    ASSUME VolumesInv, NEW c \in Slot, call[c].kind = "delete"
    PROVE  call[c] \in CallType /\ DeleteShape(call[c]) /\ faults \in 0..MaxFaults
BY DEF VolumesInv, Shape, TypeInv, CallShape

LEMMA DeleteMoves ==
    ASSUME VolumesInv, NEW c \in Slot, NEW r \in CallType, call' = [call EXCEPT ![c] = r],
           r.kind = "delete", DeleteShape(r), faults' \in 0..MaxFaults,
           UNCHANGED <<disk, used, got, leaked, walk, excused>>
    PROVE  VolumesInv'
<1>1. Shape  BY DEF VolumesInv
<1>2. /\ call' \in [Slot -> CallType] /\ CallShape'
      /\ call'[c] = r /\ \A x \in Slot \ {c} : call'[x] = call[x]
    BY <1>1, CallTyped
<1>3. Reads(c)  BY <1>1, <1>2, AllOthersStay DEF Reads, OnlyMoves, Shape, TypeInv
<1>4. KnowsOf(c)'  BY <1>2, IdlerKnows
<1>5. QED  BY <1>3, <1>4, ReadingKeeps

(* A delete call begins: other delete calls learn of it. *)
LEMMA BeginDeleteFacts ==
    ASSUME VolumesInv, NEW c \in Slot, NEW i \in Id, BeginDelete(c, i)
    PROVE  /\ call' \in [Slot -> CallType] /\ call[c].kind = "none"
           /\ call'[c].kind = "delete" /\ call'[c].about = i /\ call'[c].pc = "list"
           /\ call'[c].met = (Near(i) # {})
           /\ \A x \in Slot \ {c} :
                 /\ call'[x].kind = call[x].kind /\ call'[x].about = call[x].about
                 /\ call'[x].pc = call[x].pc /\ call'[x].ids = call[x].ids
                 /\ call'[x].met = (call[x].met \/ x \in Near(i))
                 /\ call[x].kind # "delete" => call'[x] = call[x]
<1> DEFINE m == (Near(i) # {})
           r == [Idle EXCEPT !.kind = "delete", !.about = i, !.pc = "list", !.met = m]
<1>1. call \in [Slot -> CallType]  BY DEF VolumesInv, Shape, TypeInv
<1>2. call' = [x \in Slot |-> IF x = c THEN r
                              ELSE [call[x] EXCEPT !.met = @ \/ x \in Near(i)]]
    BY DEF BeginDelete
<1>3. m \in BOOLEAN  OBVIOUS
<1>4. m = (Near(i) # {})  OBVIOUS
<1> HIDE DEF m
<1>5. /\ r \in CallType /\ r.kind = "delete" /\ r.about = i /\ r.pc = "list"
    BY <1>3, IdleTyped DEF CallType
<1>6. r.met = m  BY DEF Idle
<1>7. ASSUME NEW x \in Slot \ {c}
      PROVE  /\ call'[x] \in CallType
             /\ call'[x].kind = call[x].kind /\ call'[x].about = call[x].about
             /\ call'[x].pc = call[x].pc /\ call'[x].ids = call[x].ids
             /\ call'[x].met = (call[x].met \/ x \in Near(i))
             /\ call[x].kind # "delete" => call'[x] = call[x]
  <2> DEFINE b == call[x].met \/ x \in Near(i)
  <2>1. call[x] \in CallType  BY <1>1
  <2>2. b \in BOOLEAN  OBVIOUS
  <2>3. call'[x] = [call[x] EXCEPT !.met = b]  BY <1>2, Zenon
  <2>4. call[x].kind # "delete" => (b <=> call[x].met)  BY DEF Near
  <2>5. call[x].met \in BOOLEAN  BY <2>1 DEF CallType
  <2>6. call[x].kind # "delete" => b = call[x].met  BY <2>2, <2>4, <2>5, Zenon
  <2> HIDE DEF b
  <2>7. /\ call'[x] \in CallType
        /\ call'[x].kind = call[x].kind /\ call'[x].about = call[x].about
        /\ call'[x].pc = call[x].pc /\ call'[x].ids = call[x].ids /\ call'[x].met = b
        /\ call[x].kind # "delete" => call'[x] = call[x]
      BY <2>1, <2>2, <2>3, <2>6 DEF CallType
  <2>8. QED  BY <2>7, Zenon DEF b
<1>8. call'[c] = r  BY <1>2, Zenon
<1>9. call' \in [Slot -> CallType]
  <2>1. \A x \in Slot : call'[x] \in CallType  BY <1>5, <1>7, <1>8
  <2>2. QED  BY <1>2, <2>1
<1>10. call[c].kind = "none"
  <2>1. Running < Cardinality(Slot) /\ c = (CHOOSE z \in Slot : call[z].kind = "none")
      BY DEF BeginDelete, Begin
  <2>2. Cardinality(Slot) \in Nat  BY VolumesAssumption, FS_CardinalityType
  <2>3. ASSUME \A z \in Slot : call[z].kind # "none"  PROVE FALSE
    <3>1. {z \in Slot : call[z].kind # "none"} = Slot  BY <2>3
    <3>2. Running = Cardinality(Slot) + (IF walk.pc = "idle" THEN 0 ELSE 1)
        BY <3>1 DEF Running
    <3>3. QED  BY <2>1, <2>2, <3>2
  <2>4. QED  BY <2>1, <2>3, Zenon
<1>11. QED  BY <1>4, <1>5, <1>6, <1>7, <1>8, <1>9, <1>10

LEMMA BeginDeleteKeeps ==
    ASSUME VolumesInv, NEW c \in Slot, NEW i \in Id, BeginDelete(c, i)
    PROVE  VolumesInv'
<1>1. Shape  BY DEF VolumesInv
<1>2. /\ UNCHANGED <<disk, used, got, walk, excused>> /\ faults' \in 0..MaxFaults
      /\ leaked' \subseteq Id
  <2>1. Begin(c, "delete", i) /\ leaked' = leaked \ {i} /\ UNCHANGED excused
      BY DEF BeginDelete
  <2>2. faults \in 0..MaxFaults /\ leaked \subseteq Id  BY DEF VolumesInv, Shape, TypeInv
  <2>3. UNCHANGED <<disk, used, got, walk>> /\ (UNCHANGED faults \/ Spend)
      BY <2>1, Zenon DEF Begin
  <2>4. faults' \in 0..MaxFaults  BY <2>2, <2>3, SpendTyped
  <2>5. QED  BY <2>1, <2>2, <2>3, <2>4
<1>3. CallShape'
  <2>1. DeleteShape(call[c])' /\ call'[c].kind = "delete"
      BY BeginDeleteFacts DEF DeleteShape
  <2>2. ASSUME NEW x \in Slot \ {c}, call'[x].kind = "create"  PROVE CreateShape(call[x])'
      BY <1>1, <2>2, BeginDeleteFacts DEF Shape, CallShape, CreateShape
  <2>3. ASSUME NEW x \in Slot \ {c}, call'[x].kind = "delete"  PROVE DeleteShape(call[x])'
      BY <1>1, <2>3, BeginDeleteFacts DEF Shape, CallShape, DeleteShape
  <2>4. QED  BY <2>1, <2>2, <2>3 DEF CallShape
<1>4. TypeInv'  BY <1>1, <1>2, BeginDeleteFacts DEF Shape, TypeInv
<1>5. OthersStay(c)
  <2>1. \A x \in Slot \ {c} : /\ call'[x].kind = call[x].kind
                              /\ call[x].kind # "delete" => call'[x] = call[x]
      BY BeginDeleteFacts
  <2>2. QED  BY <2>1, Zenon DEF OthersStay
<1>6. OnlyMoves(c)  BY <1>2, <1>5, BeginDeleteFacts DEF OnlyMoves
<1>7. KnowsOf(c)'  BY BeginDeleteFacts, IdlerKnows
<1>8. QED  BY <1>2, <1>3, <1>4, <1>6, <1>7, ReadingKeeps DEF Reads

(* A disk that goes: a walk under way is no longer calm if it showed the   *)
(* datastore.                                                              *)
LEMMA GoneFacts ==
    ASSUME VolumesInv, NEW i \in Id, DiskGone(i), UNCHANGED used
    PROVE  /\ DisksShape' /\ WalkKnows' /\ disk'[i] = None
           /\ \A j \in Existing' : j \in Existing /\ disk'[j] = disk[j]
           /\ walk' \in WalkType /\ (walk'.pc # "idle" => walk'.max > 0)
<1>1. DisksShape /\ walk \in WalkType /\ (walk.pc # "idle" => walk.max > 0)
    BY DEF VolumesInv, Shape, TypeInv
<1>2. /\ disk'[i] = None /\ \A j \in Id \ {i} : disk'[j] = disk[j]
      /\ DOMAIN disk' = Id /\ disk' = [j \in Id |-> disk'[j]]
    BY <1>1 DEF DiskGone, DisksShape
<1>3. \A j \in Existing' : j \in Existing /\ disk'[j] = disk[j]  BY <1>2 DEF Existing
<1>4. DisksShape'  BY <1>1, <1>2, <1>3 DEF DisksShape
<1>5. /\ walk' \in WalkType
      /\ walk'.pc = walk.pc /\ walk'.start = walk.start /\ walk'.store = walk.store
      /\ walk'.ids = walk.ids /\ walk'.disks = walk.disks /\ walk'.seen = walk.seen
      /\ walk'.base = walk.base \ {i} /\ walk'.max = walk.max
    BY <1>1 DEF DiskGone, WalkType
<1>6. walk'.calm /\ walk.pc # "idle" => walk.calm /\ disk[i].store \notin Range(Listed)
    BY <1>1 DEF DiskGone, WalkType
<1>7. WalkKnows'
  <2>1. ASSUME disk[i].store \notin Range(Listed)
        PROVE  \A j \in OnListed : j \in Existing' /\ disk'[j] = disk[j]
      BY <1>2, <2>1 DEF OnListed, On, Existing
  <2>2. QED  BY <1>5, <1>6, <2>1, WalkStays DEF VolumesInv
<1>8. QED  BY <1>1, <1>2, <1>3, <1>4, <1>5, <1>7

(* A call that ends, perhaps with the disk gone. *)
LEMMA GoKeeps ==
    ASSUME VolumesInv, NEW c \in Slot, End(c), UNCHANGED <<used, got>>,
           faults' \in 0..MaxFaults, excused \subseteq excused', leaked' \subseteq Id,
           UNCHANGED <<disk, walk>> \/ \E i \in Id : DiskGone(i)
    PROVE  VolumesInv'
<1>1. Shape /\ CreateKnows /\ NoDuplicate /\ WalkKnows  BY DEF VolumesInv
<1>2. /\ DisksShape' /\ WalkKnows'
      /\ \A j \in Existing' : j \in Existing /\ disk'[j] = disk[j]
      /\ walk' \in WalkType /\ (walk'.pc # "idle" => walk'.max > 0)
  <2>1. CASE UNCHANGED <<disk, walk>>
    <3>1. Existing' = Existing  BY <2>1 DEF Existing
    <3>2. \A j \in OnListed : j \in Existing' /\ disk'[j] = disk[j]
        BY <2>1, <3>1 DEF OnListed, On
    <3>3. WalkKnows'  BY <1>1, <2>1, <3>2, WalkStays
    <3>4. QED  BY <1>1, <2>1, <3>1, <3>3 DEF Shape, DisksShape, TypeInv
  <2>2. CASE \E i \in Id : DiskGone(i)  BY <2>2, GoneFacts
  <2>3. QED  BY <2>1, <2>2
<1>3. /\ call' \in [Slot -> CallType] /\ CallShape'
      /\ call'[c].kind = "none" /\ \A x \in Slot \ {c} : call'[x] = call[x]
    BY <1>1, EndFacts
<1>4. OnlyMoves(c) /\ MadeBy(c)  BY <1>2, <1>3, AllOthersStay DEF OnlyMoves, MadeBy
<1>5. CreateKnows'  BY <1>1, <1>3, <1>4, IdlerKnows, MoverKnows
<1>6. NoDuplicate'  BY <1>1, <1>2, DisksStay
<1>7. Shape'  BY <1>1, <1>2, <1>3 DEF Shape, TypeInv
<1>8. QED  BY <1>2, <1>5, <1>6, <1>7 DEF VolumesInv

LEMMA DeletedFacts ==
    ASSUME VolumesInv, NEW c \in Slot, call[c].kind = "delete", Deleted(c)
    PROVE  End(c) /\ leaked' \subseteq Id
<1>1. call[c].about \in Id  BY DeleteFacts DEF DeleteShape
<1>2. leaked \subseteq Id  BY DEF VolumesInv, Shape, TypeInv
<1>3. QED  BY <1>1, <1>2 DEF Deleted

LEMMA OverlookKeeps ==
    ASSUME VolumesInv, NEW c \in Slot, call[c].kind = "delete", Overlook(c),
           UNCHANGED <<used, got, walk, excused>>, faults' \in 0..MaxFaults
    PROVE  VolumesInv'
BY DeletedFacts, GoKeeps DEF Overlook

LEMMA FindListKeeps ==
    ASSUME VolumesInv, NEW c \in Slot, FindList(c)
    PROVE  VolumesInv'
<1>1. /\ call[c].kind = "delete" /\ call[c].pc = "list"
      /\ UNCHANGED <<disk, used, got, walk, faults, excused>>
    BY DEF FindList, Is
<1>2. call[c] \in CallType /\ DeleteShape(call[c]) /\ faults' \in 0..MaxFaults
    BY <1>1, DeleteFacts
<1>3. CASE disk[call[c].about] = None
  <2>1. Deleted(c)  BY <1>3 DEF FindList
  <2>2. End(c) /\ leaked' \subseteq Id  BY <1>1, <2>1, DeletedFacts
  <2>3. QED  BY <1>1, <1>2, <2>2, GoKeeps
<1>4. CASE disk[call[c].about] # None
  <2> DEFINE st == disk[call[c].about].store
             r  == [call[c] EXCEPT !.pc = "get", !.ids = On(st)]
  <2>1. call' = [call EXCEPT ![c].pc = "get", ![c].ids = On(st)] /\ UNCHANGED leaked
      BY <1>4 DEF FindList
  <2>2. call \in [Slot -> CallType] /\ On(st) \subseteq Id
      BY DEF VolumesInv, Shape, TypeInv, On, Existing
  <2> HIDE DEF st
  <2>3. call' = [call EXCEPT ![c] = r]  BY <2>1, <2>2
  <2>4. r \in CallType /\ r.kind = "delete" /\ r.about = call[c].about /\ r.pc = "get"
      BY <1>1, <1>2, <2>2 DEF CallType
  <2>5. DeleteShape(r)  BY <1>2, <2>4 DEF DeleteShape
  <2>6. QED  BY <1>1, <1>2, <2>1, <2>3, <2>4, <2>5, DeleteMoves
<1>5. QED  BY <1>3, <1>4

LEMMA FindGetKeeps ==
    ASSUME VolumesInv, NEW c \in Slot, FindGet(c)
    PROVE  VolumesInv'
<1>1. /\ call[c].kind = "delete" /\ call[c].pc = "get"
      /\ UNCHANGED <<used, got, walk, faults, excused>>
    BY DEF FindGet, Is
<1>2. call[c] \in CallType /\ DeleteShape(call[c]) /\ faults' \in 0..MaxFaults
    BY <1>1, DeleteFacts
<1>3. CASE Overlook(c)  BY <1>1, <1>2, <1>3, OverlookKeeps
<1>4. CASE /\ call' = [call EXCEPT ![c].pc = "remove", ![c].ids = {}]
           /\ UNCHANGED <<disk, leaked>>
  <2> DEFINE r == [call[c] EXCEPT !.pc = "remove", !.ids = {}]
  <2>1. call \in [Slot -> CallType]  BY DEF VolumesInv, Shape, TypeInv
  <2>2. call' = [call EXCEPT ![c] = r]  BY <1>4, <2>1
  <2>3. r \in CallType /\ r.kind = "delete" /\ r.about = call[c].about /\ r.pc = "remove"
      BY <1>1, <1>2 DEF CallType
  <2>4. DeleteShape(r)  BY <1>2, <2>3 DEF DeleteShape
  <2>5. QED  BY <1>1, <1>2, <1>4, <2>2, <2>3, <2>4, DeleteMoves
<1>5. QED  BY <1>3, <1>4 DEF FindGet

LEMMA RemoveDiskKeeps ==
    ASSUME VolumesInv, NEW c \in Slot, RemoveDisk(c)
    PROVE  VolumesInv'
<1>1. call[c].kind = "delete" /\ UNCHANGED <<used, got, faults, excused>>
    BY DEF RemoveDisk, Is
<1>2. call[c].about \in Id /\ faults' \in 0..MaxFaults
    BY <1>1, DeleteFacts DEF DeleteShape
<1>3. CASE End(c) /\ UNCHANGED <<disk, walk, leaked>>
  <2>1. leaked' \subseteq Id  BY <1>1, <1>3 DEF VolumesInv, Shape, TypeInv
  <2>2. QED  BY <1>1, <1>2, <1>3, <2>1, GoKeeps
<1>4. CASE DiskGone(call[c].about) /\ Deleted(c)
  <2>1. End(c) /\ leaked' \subseteq Id  BY <1>1, <1>4, DeletedFacts
  <2>2. QED  BY <1>1, <1>2, <1>4, <2>1, GoKeeps
<1>5. QED  BY <1>3, <1>4 DEF RemoveDisk

LEMMA FaultDeleteKeeps ==
    ASSUME VolumesInv, NEW c \in Slot, FaultDelete(c)
    PROVE  VolumesInv'
<1>1. /\ call[c].kind = "delete" /\ UNCHANGED <<used, got, walk, excused>>
      /\ faults' \in 0..MaxFaults
    BY SpendTyped DEF FaultDelete
<1>2. CASE End(c) /\ UNCHANGED <<disk, leaked>>
  <2>1. got' \in [Name -> Id \cup {AlreadyExists, None}]
      BY <1>1 DEF VolumesInv, Shape, TypeInv
  <2>2. QED  BY <1>1, <1>2, <2>1, EndKeeps
<1>3. CASE Overlook(c)  BY <1>1, <1>3, OverlookKeeps
<1>4. QED  BY <1>2, <1>3 DEF FaultDelete

LEMMA LostAnswerKeeps ==
    ASSUME VolumesInv, NEW c \in Slot, LostAnswer(c)
    PROVE  VolumesInv'
<1>1. End(c) /\ faults' \in 0..MaxFaults /\ UNCHANGED <<got, leaked, excused>>
    BY SpendTyped DEF LostAnswer
<1>2. leaked' \subseteq Id /\ Shape  BY <1>1 DEF VolumesInv, Shape, TypeInv
<1>3. CASE Is(c, "create", "create") /\ NewDisk(c) /\ UNCHANGED walk
  <2>1. /\ DisksShape' /\ MadeBy(c) /\ NoDuplicate'
        /\ \A i \in OnListed : i \in Existing' /\ disk'[i] = disk[i]
      BY <1>1, <1>3, NewDiskFacts
  <2>2. /\ call' \in [Slot -> CallType] /\ CallShape'
        /\ call'[c].kind = "none" /\ \A x \in Slot \ {c} : call'[x] = call[x]
      BY <1>1, <1>2, EndFacts
  <2>3. Shape'  BY <1>1, <1>2, <1>3, <2>1, <2>2 DEF Shape, TypeInv
  <2>4. OnlyMoves(c)  BY <1>1, <2>2, AllOthersStay DEF OnlyMoves
  <2>5. CreateKnows'  BY <2>1, <2>2, <2>4, IdlerKnows, MoverKnows DEF VolumesInv
  <2>6. WalkKnows'  BY <1>3, <2>1, WalkStays DEF VolumesInv
  <2>7. QED  BY <1>2, <2>1, <2>3, <2>5, <2>6 DEF VolumesInv
<1>4. CASE /\ Is(c, "delete", "remove") /\ DiskGone(call[c].about) /\ UNCHANGED used
  <2>1. call[c].about \in Id  BY <1>4, DeleteFacts DEF Is, DeleteShape
  <2>2. QED  BY <1>1, <1>2, <1>4, <2>1, GoKeeps
<1>5. QED  BY <1>3, <1>4 DEF LostAnswer

LEMMA CrashKeeps ==
    ASSUME VolumesInv, Crash
    PROVE  VolumesInv'
<1>1. /\ faults' \in 0..MaxFaults /\ UNCHANGED <<disk, used, got, leaked, walk, excused>>
      /\ call' = [c \in Slot |-> Idle]
    BY SpendTyped DEF Crash
<1>2. Existing' = Existing  BY <1>1 DEF Existing
<1>3. call' \in [Slot -> CallType] /\ \A c \in Slot : call'[c].kind = "none"
    BY <1>1, IdleTyped
<1>4. CallShape' /\ CreateKnows'  BY <1>3 DEF CallShape, CreateKnows, KnowsOf
<1>5. Shape'
    BY <1>1, <1>2, <1>3, <1>4 DEF VolumesInv, Shape, DisksShape, TypeInv
<1>6. NoDuplicate'  BY <1>1, <1>2 DEF VolumesInv, NoDuplicate
<1>7. WalkKnows'
  <2>1. \A i \in OnListed : i \in Existing' /\ disk'[i] = disk[i]
      BY <1>1, <1>2 DEF OnListed, On
  <2>2. QED  BY <1>1, <2>1, WalkStays DEF VolumesInv
<1>8. QED  BY <1>4, <1>5, <1>6, <1>7 DEF VolumesInv

-----------------------------------------------------------------------------
(* The steps of a client that reads the pages of ListVolumes. *)

LEMMA WalkingKeeps ==
    ASSUME VolumesInv, UNCHANGED <<disk, used, call, got, leaked, excused>>,
           faults' \in 0..MaxFaults, walk' \in WalkType,
           walk'.pc # "idle" => walk'.max > 0,
           walk'.pc # "idle" /\ walk'.calm => WalkOpen(walk')
    PROVE  VolumesInv'
<1>1. Existing' = Existing  BY DEF Existing
<1>2. (\A s : On(s)' = On(s)) /\ OnListed' = OnListed  BY <1>1 DEF On, OnListed
<1>3. Shape'  BY <1>1 DEF VolumesInv, Shape, DisksShape, TypeInv, CallShape
<1>4. NoDuplicate'  BY <1>1 DEF VolumesInv, NoDuplicate
<1>5. CreateKnows'
    BY <1>1 DEF VolumesInv, CreateKnows, KnowsOf, Creates, Knows, BeforeCreation,
                AfterCreation, OfName
<1>6. WalkKnows'  BY <1>2 DEF WalkKnows, WalkOpen, Pending
<1>7. QED  BY <1>3, <1>4, <1>5, <1>6 DEF VolumesInv

LEMMA RestingTyped == Resting \in WalkType /\ Resting.pc = "idle"
BY DEF Resting, WalkType

LEMMA WalkFacts ==
    ASSUME VolumesInv
    PROVE  /\ walk \in WalkType /\ (walk.pc # "idle" => walk.max > 0)
           /\ faults \in 0..MaxFaults
           /\ walk.pc # "idle" /\ walk.calm => WalkOpen(walk)
BY DEF VolumesInv, Shape, TypeInv, WalkKnows

LEMMA OnIds == (\A s : On(s) \subseteq Id) /\ OnListed \subseteq Id
BY DEF On, OnListed, Existing

LEMMA BeginWalkKeeps ==
    ASSUME VolumesInv, NEW m \in MaxEntries, BeginWalk(m)
    PROVE  VolumesInv'
<1> DEFINE pc == IF Listed = <<>> THEN "page" ELSE "list"
<1>1. m \in Nat /\ m > 0  BY VolumesAssumption
<1>2. walk' = [Resting EXCEPT !.pc = pc, !.max = m, !.base = OnListed]
    BY DEF BeginWalk, OnListed
<1>3. pc \in {"page", "list"} /\ (pc = "page" <=> Listed = <<>>)  OBVIOUS
<1> HIDE DEF pc
<1>4. /\ walk'.pc = pc /\ walk'.max = m /\ walk'.base = OnListed /\ walk'.start = 0
      /\ walk'.store = 1
    BY <1>2 DEF Resting
<1>5. walk'.disks = {} /\ walk'.seen = {}  BY <1>2 DEF Resting
<1>6. walk' \in WalkType  BY <1>1, <1>2, <1>3, RestingTyped, OnIds DEF WalkType
<1>7. WalkOpen(walk')
  <2>1. OnListed = {} \/ pc # "page"  BY <1>3, ListedFacts DEF OnListed
  <2>2. Pending(walk', OnListed)
    <3>1. \A i \in OnListed : 0 <= Index(i, OnListed)  BY OnIds, IndexGrows
    <3>2. QED  BY <1>3, <1>4, <1>5, <2>1, <3>1 DEF Pending
  <2>3. Listed # <<>> => 1 \in 1..Len(Listed)  BY ListedFacts
  <2>4. QED  BY <1>3, <1>4, <1>5, <2>2, <2>3, OnIds DEF WalkOpen
<1>8. UNCHANGED <<disk, used, call, got, leaked, faults, excused>>  BY DEF BeginWalk
<1>9. QED  BY <1>1, <1>4, <1>6, <1>7, <1>8, WalkFacts, WalkingKeeps

LEMMA WalkListKeeps ==
    ASSUME VolumesInv, WalkList
    PROVE  VolumesInv'
<1> DEFINE ids == On(Listed[walk.store])
<1>1. walk.pc = "list" /\ walk \in WalkType /\ walk.max > 0
    BY WalkFacts DEF WalkList
<1>2. walk' = [walk EXCEPT !.pc = "get", !.ids = ids]  BY DEF WalkList
<1>3. ids \in SUBSET Id  BY OnIds
<1>4. (\A X : X \cap On(Listed[walk.store]) \subseteq ids) /\ ids \subseteq On(Listed[walk.store])
    OBVIOUS
<1> HIDE DEF ids
<1>5. /\ walk'.pc = "get" /\ walk'.ids = ids /\ walk'.max = walk.max
      /\ walk'.start = walk.start /\ walk'.store = walk.store /\ walk'.disks = walk.disks
      /\ walk'.seen = walk.seen /\ walk'.base = walk.base /\ walk'.calm = walk.calm
      /\ walk' \in WalkType
    BY <1>1, <1>2, <1>3 DEF WalkType
<1>6. ASSUME walk.calm  PROVE WalkOpen(walk')
  <2>1. WalkOpen(walk)  BY <1>1, <1>6, WalkFacts
  <2>2. PICK X \in SUBSET Id : Pending(walk, X)  BY <1>1, <2>1 DEF WalkOpen
  <2>3. Pending(walk', X)  BY <1>1, <1>5, <1>4, <2>2 DEF Pending
  <2>4. QED  BY <1>1, <1>5, <1>4, <2>1, <2>3 DEF WalkOpen
<1>7. UNCHANGED <<disk, used, call, got, leaked, faults, excused>>  BY DEF WalkList
<1>8. QED  BY <1>1, <1>5, <1>6, <1>7, WalkFacts, WalkingKeeps

LEMMA WalkMoves ==
    ASSUME NEW w \in WalkType, NEW st \in Nat \ {0}, NEW ids \in SUBSET Id,
           NEW pc \in {"list", "page"}
    PROVE  /\ [w EXCEPT !.store = st, !.ids = ids, !.pc = pc] \in WalkType
           /\ [w EXCEPT !.store = st, !.disks = ids] \in WalkType
BY DEF WalkType

(* The walk w, with the identifiers of its datastore collected or not,     *)
(* goes on to the next datastore or to the page.                           *)
LEMMA NextStoreTyped ==
    ASSUME walk \in WalkType, NEW w \in WalkType
    PROVE  LET v == NextStore(w) IN
           /\ v \in WalkType /\ v.store = w.store + 1
           /\ v.pc = (IF walk.store < Len(Listed) THEN "list" ELSE "page")
           /\ v.max = w.max /\ v.start = w.start /\ v.disks = w.disks /\ v.seen = w.seen
           /\ v.base = w.base /\ v.calm = w.calm
<1> DEFINE pc == IF walk.store < Len(Listed) THEN "list" ELSE "page"
           v  == NextStore(w)
<1>1. pc \in {"list", "page"}  OBVIOUS
<1>2. v = [w EXCEPT !.store = @ + 1, !.ids = {}, !.pc = pc]  BY DEF NextStore
<1> HIDE DEF pc, v
<1>3. /\ v.store = w.store + 1 /\ v.pc = pc
      /\ v.max = w.max /\ v.start = w.start /\ v.disks = w.disks /\ v.seen = w.seen
      /\ v.base = w.base /\ v.calm = w.calm
    BY <1>2 DEF WalkType
<1>4. v \in WalkType
  <2>1. w.store + 1 \in Nat \ {0} /\ {} \in SUBSET Id  BY DEF WalkType
  <2>2. v = [w EXCEPT !.store = w.store + 1, !.ids = {}, !.pc = pc]  BY <1>2
  <2>3. QED  BY <1>1, <2>1, <2>2, WalkMoves, Zenon
<1>5. QED  BY <1>3, <1>4 DEF pc, v

LEMMA WalkGetKeeps ==
    ASSUME VolumesInv, WalkGet
    PROVE  VolumesInv'
<1> DEFINE w == IF walk.ids \ Existing = {}
                  THEN [walk EXCEPT !.disks = @ \cup walk.ids] ELSE walk
<1>1. walk.pc = "get" /\ walk \in WalkType /\ walk.max > 0
    BY WalkFacts DEF WalkGet
<1>2. /\ w \in WalkType /\ w.store = walk.store /\ w.max = walk.max /\ w.start = walk.start
      /\ w.seen = walk.seen /\ w.base = walk.base /\ w.calm = walk.calm
      /\ w.disks = IF walk.ids \ Existing = {} THEN walk.disks \cup walk.ids ELSE walk.disks
    BY <1>1 DEF WalkType
<1>3. walk' = NextStore(w)  BY DEF WalkGet
<1> HIDE DEF w
<1>4. /\ walk' \in WalkType /\ walk'.store = walk.store + 1
      /\ walk'.pc = (IF walk.store < Len(Listed) THEN "list" ELSE "page")
      /\ walk'.max = walk.max /\ walk'.start = walk.start /\ walk'.seen = walk.seen
      /\ walk'.base = walk.base /\ walk'.calm = walk.calm /\ walk'.disks = w.disks
    BY <1>1, <1>2, <1>3, NextStoreTyped
<1>5. ASSUME walk.calm  PROVE WalkOpen(walk')
  <2>1. WalkOpen(walk)  BY <1>1, <1>5, WalkFacts
  <2>2. PICK X \in SUBSET Id : Pending(walk, X)  BY <1>1, <2>1 DEF WalkOpen
  <2>3. walk.store \in 1..Len(Listed) /\ walk.ids \subseteq On(Listed[walk.store])
      BY <1>1, <2>1 DEF WalkOpen
  <2>4. walk'.disks = walk.disks \cup walk.ids
      BY <1>2, <1>4, <2>3 DEF On
  <2>5. \A k \in 1..walk.store : X \cap On(Listed[k]) \subseteq walk'.disks
    <3>1. \A k \in 1..walk.store - 1 : X \cap On(Listed[k]) \subseteq walk.disks
        BY <1>1, <2>2 DEF Pending
    <3>2. X \cap On(Listed[walk.store]) \subseteq walk.ids  BY <1>1, <2>2 DEF Pending
    <3>3. \A k \in 1..walk.store : k = walk.store \/ k \in 1..walk.store - 1
        BY <2>3, ListedFacts
    <3>4. QED  BY <2>4, <3>1, <3>2, <3>3
  <2>6. walk'.disks \subseteq OnListed
    <3>1. Listed[walk.store] \in Range(Listed)  BY <2>3, ListedFacts
    <3>2. walk.ids \subseteq OnListed  BY <2>3, <3>1 DEF OnListed
    <3>3. QED  BY <1>1, <2>1, <2>4, <3>2 DEF WalkOpen
  <2>7. CASE walk.store < Len(Listed)
    <3>1. walk'.pc = "list" /\ walk'.store \in 1..Len(Listed) /\ walk'.store - 1 = walk.store
        BY <1>4, <2>3, <2>7, ListedFacts
    <3>2. Pending(walk', X)  BY <1>4, <2>2, <2>5, <3>1 DEF Pending
    <3>3. QED  BY <2>6, <3>1, <3>2 DEF WalkOpen
  <2>8. CASE walk.store = Len(Listed)
    <3>1. walk'.pc = "page"  BY <1>4, <2>8, ListedFacts
    <3>2. X \subseteq walk'.disks
      <4>1. \A i \in X : \E k \in 1..walk.store : i \in On(Listed[k])
          BY <2>2, <2>8, ListedFacts DEF Pending, OnListed
      <4>2. QED  BY <2>5, <4>1
    <3>3. Pending(walk', X)  BY <1>4, <2>2, <3>1, <3>2 DEF Pending
    <3>4. QED  BY <2>6, <3>1, <3>3 DEF WalkOpen
  <2>9. QED  BY <2>3, <2>7, <2>8, ListedFacts
<1>6. UNCHANGED <<disk, used, call, got, leaked, faults, excused>>  BY DEF WalkGet
<1>7. QED  BY <1>1, <1>4, <1>5, <1>6, WalkFacts, WalkingKeeps

(* A page is cut at the index stop: what is not on it and was not seen     *)
(* before comes after it.                                                  *)
LEMMA WalkPageKeeps ==
    ASSUME VolumesInv, WalkPage
    PROVE  VolumesInv'
<1> DEFINE D     == walk.disks
           total == Cardinality(D)
           stop  == StopAt(walk.start, walk.max, total)
           page  == {i \in D : /\ walk.start <= Index(i, D) /\ Index(i, D) < PageEnd(stop, total)}
           seen  == walk.seen \cup page
           v     == [walk EXCEPT !.pc = "list", !.start = stop + 1, !.store = 1,
                                 !.disks = {}, !.seen = seen]
           u     == [walk EXCEPT !.pc = "done", !.seen = seen]
<1>1. walk.pc = "page" /\ walk \in WalkType /\ walk.max > 0
    BY WalkFacts DEF WalkPage
<1>2. UNCHANGED <<disk, used, call, got, leaked, faults, excused>>  BY DEF WalkPage
<1>3. D \in SUBSET Id /\ total \in Nat /\ walk.start \in Nat /\ walk.max \in Nat
    BY <1>1, IdSubsetsFinite DEF WalkType
<1>4. stop \in Nat  BY <1>1, <1>3 DEF StopAt
<1>5. seen \in SUBSET Id  BY <1>1, <1>3 DEF WalkType
<1>6. ASSUME walk.calm, NEW i \in walk.base, i \notin seen
      PROVE  stop < total /\ stop + 1 <= Index(i, D)
  <2>1. WalkOpen(walk)  BY <1>1, <1>6, WalkFacts
  <2>2. PICK X \in SUBSET Id : Pending(walk, X)  BY <1>1, <2>1 DEF WalkOpen
  <2>3. X \subseteq D /\ i \in D /\ i \in Id  BY <1>1, <1>3, <1>6, <2>2 DEF Pending
  <2>4. walk.start <= Index(i, X)  BY <1>6, <2>2 DEF Pending
  <2>5. Index(i, X) <= Index(i, D) /\ Index(i, X) \in Nat /\ Index(i, D) \in Nat
      BY <1>3, <2>3, IndexGrows
  <2>6. Index(i, D) < total  BY <1>3, <2>3, IndexBelow
  <2>7. walk.start <= Index(i, D)  BY <1>3, <2>4, <2>5
  <2>8. ~(Index(i, D) < PageEnd(stop, total))  BY <1>6, <2>3, <2>7
  <2>9. QED  BY <1>3, <1>4, <2>5, <2>6, <2>8 DEF PageEnd
<1>7. CASE walk.start > total
  <2>1. walk' = Resting  BY <1>7 DEF WalkPage
  <2>2. QED  BY <1>2, <2>1, RestingTyped, WalkFacts, WalkingKeeps
<1>8. CASE ~(walk.start > total) /\ stop < total
  <2>1. walk' = v  BY <1>8 DEF WalkPage
  <2>2. 1 \in Nat \ {0} /\ stop + 1 \in Nat  BY <1>4
  <2>3. \A i \in walk.base \ seen : walk.calm => stop + 1 <= Index(i, D)  BY <1>6
  <2> HIDE DEF seen, stop
  <2>4. v \in WalkType
    <3>1. [walk EXCEPT !.pc = "list", !.start = stop + 1, !.seen = seen] \in WalkType
        BY <1>1, <1>5, <2>2 DEF WalkType
    <3>2. {} \in SUBSET Id  OBVIOUS
    <3>3. v = [[walk EXCEPT !.pc = "list", !.start = stop + 1, !.seen = seen]
                 EXCEPT !.store = 1, !.disks = {}]
        BY <1>1 DEF WalkType
    <3>4. QED  BY <2>2, <3>1, <3>2, <3>3, WalkMoves, Zenon
  <2>5. /\ v.pc = "list" /\ v.max = walk.max /\ v.start = stop + 1 /\ v.store = 1
        /\ v.seen = seen /\ v.base = walk.base /\ v.calm = walk.calm
      BY <1>1 DEF WalkType
  <2>6. v.disks = {}  BY <1>1 DEF WalkType
  <2> HIDE DEF v
  <2>7. ASSUME walk.calm  PROVE WalkOpen(v)
    <3>1. WalkOpen(walk)  BY <1>1, <2>7, WalkFacts
    <3>2. D \subseteq OnListed /\ walk.base \subseteq D
        BY <1>1, <3>1 DEF WalkOpen, Pending
    <3>3. Pending(v, D)  BY <2>3, <2>5, <2>6, <2>7, <3>2 DEF Pending
    <3>4. D # {}  BY <1>4, <1>8, FS_EmptySet DEF stop
    <3>5. Listed # <<>>  BY <3>2, <3>4, ListedFacts DEF OnListed
    <3>6. 1 \in 1..Len(Listed)  BY <3>5, ListedFacts
    <3>7. QED  BY <1>3, <2>5, <2>6, <3>3, <3>6 DEF WalkOpen
  <2>8. QED  BY <1>1, <1>2, <2>1, <2>4, <2>5, <2>7, WalkFacts, WalkingKeeps
<1>9. CASE ~(walk.start > total) /\ ~(stop < total)
  <2>1. walk' = u  BY <1>9 DEF WalkPage
  <2>2. walk.calm => walk.base \subseteq seen  BY <1>6, <1>9
  <2> HIDE DEF seen
  <2>3. /\ u \in WalkType /\ u.pc = "done" /\ u.max = walk.max /\ u.seen = seen
        /\ u.base = walk.base /\ u.calm = walk.calm
      BY <1>1, <1>5 DEF WalkType
  <2>4. ASSUME walk.calm  PROVE WalkOpen(u)  BY <2>2, <2>3, <2>4 DEF WalkOpen
  <2>5. QED  BY <1>1, <1>2, <2>1, <2>3, <2>4, WalkFacts, WalkingKeeps
<1>10. QED  BY <1>7, <1>8, <1>9

LEMMA WalkRestKeeps ==
    ASSUME VolumesInv, WalkRest
    PROVE  VolumesInv'
BY RestingTyped, WalkFacts, WalkingKeeps DEF WalkRest

LEMMA FaultWalkKeeps ==
    ASSUME VolumesInv, FaultWalk
    PROVE  VolumesInv'
<1>1. walk \in WalkType /\ walk.max > 0 /\ faults' \in 0..MaxFaults
    BY WalkFacts, SpendTyped DEF FaultWalk
<1>2. NextStore(walk) \in WalkType /\ NextStore(walk).max = walk.max
    BY <1>1, NextStoreTyped
<1>3. walk' = [NextStore(walk) EXCEPT !.calm = FALSE]  BY DEF FaultWalk
<1>4. walk' \in WalkType /\ walk'.max = walk.max /\ ~walk'.calm
    BY <1>2, <1>3 DEF WalkType
<1>5. QED  BY <1>1, <1>4, WalkingKeeps DEF FaultWalk

-----------------------------------------------------------------------------
(* The theorems. *)

LEMMA VolumesInit ==
    ASSUME Init
    PROVE  VolumesInv
<1>1. DisksShape
  <2>1. DOMAIN disk = Id /\ disk = [i \in Id |-> disk[i]]  BY DEF Init
  <2>2. used = Existing /\ Existing \subseteq Id  BY DEF Init, Existing
  <2>3. \A i \in Existing : disk[i].store \in Store
      BY VolumesAssumption DEF Init, Existing
  <2>4. QED  BY <2>1, <2>2, <2>3 DEF DisksShape
<1>2. call \in [Slot -> CallType] /\ \A c \in Slot : call[c].kind = "none"
    BY IdleTyped DEF Init
<1>3. walk \in WalkType /\ walk.pc = "idle"  BY RestingTyped DEF Init
<1>4. TypeInv  BY <1>2, <1>3, VolumesAssumption DEF Init, TypeInv
<1>5. CallShape /\ CreateKnows  BY <1>2 DEF CallShape, CreateKnows, KnowsOf
<1>6. NoDuplicate
  <2> SUFFICES ASSUME NEW i \in Existing, NEW j \in Existing, disk[i].name = disk[j].name, i # j
               PROVE  disk[i].name \in excused
      BY DEF NoDuplicate
  <2> DEFINE twins == {x \in Existing : \E y \in Existing \ {x} : disk[y].name = disk[x].name}
  <2>1. i \in twins  OBVIOUS
  <2>2. excused = {disk[x].name : x \in twins}  BY DEF Init
  <2> HIDE DEF twins
  <2>3. QED  BY <2>1, <2>2
<1>7. WalkKnows  BY <1>3 DEF WalkKnows
<1>8. QED  BY <1>1, <1>4, <1>5, <1>6, <1>7 DEF VolumesInv, Shape

LEMMA VolumesNext ==
    ASSUME VolumesInv, [Next]_vars
    PROVE  VolumesInv'
<1>1. ASSUME NEW c \in Slot, Step(c)  PROVE VolumesInv'
    BY <1>1, PickZoneKeeps, ListDisksKeeps, RetrieveDisksKeeps, CreateDiskKeeps,
       FindListKeeps, FindGetKeeps, RemoveDiskKeeps DEF Step
<1>2. ASSUME NEW c \in Slot, FaultCreate(c) \/ FaultDelete(c) \/ LostAnswer(c)
      PROVE  VolumesInv'
    BY <1>2, FaultCreateKeeps, FaultDeleteKeeps, LostAnswerKeeps
<1>3. ASSUME NEW c \in Slot,
             (\E n \in Name : BeginCreate(c, n)) \/ (\E i \in Id : BeginDelete(c, i))
      PROVE  VolumesInv'
    BY <1>3, BeginCreateKeeps, BeginDeleteKeeps
<1>4. ASSUME (\E m \in MaxEntries : BeginWalk(m)) \/ WalkList \/ WalkGet \/ WalkPage
             \/ WalkRest \/ FaultWalk \/ Crash
      PROVE  VolumesInv'
    BY <1>4, BeginWalkKeeps, WalkListKeeps, WalkGetKeeps, WalkPageKeeps, WalkRestKeeps,
       FaultWalkKeeps, CrashKeeps
<1>5. CASE UNCHANGED vars
  <2>1. UNCHANGED <<disk, used, call, got, leaked, walk, faults, excused>>
      BY <1>5 DEF vars
  <2>2. QED  BY <2>1, WalkFacts, WalkingKeeps
<1>6. QED  BY <1>1, <1>2, <1>3, <1>4, <1>5 DEF Next

(* What the controller knows in every state, by induction over the steps   *)
(* of the calls, of the walk and of the faults.                            *)
THEOREM VolumesInvariant == Spec => []VolumesInv
<1>1. Init => VolumesInv  BY VolumesInit
<1>2. VolumesInv /\ [Next]_vars => VolumesInv'  BY VolumesNext
<1>3. QED  BY <1>1, <1>2, PTL DEF Spec

(* The variables of Volumes keep their types, and every call and every     *)
(* walk its shape: a create call past the choice of the zone has a place   *)
(* of the request and a child of that place, a delete call a disk.         *)
THEOREM VolumesTypes == Spec => []Shape
<1>1. VolumesInv => Shape  BY DEF VolumesInv
<1>2. QED  BY <1>1, VolumesInvariant, PTL

(* A name never gets a second disk, however create calls are repeated      *)
(* after lost answers, crashes and failed look-ups, unless an existing     *)
(* disk escaped the check (controller.go:164-232).                         *)
THEOREM NoDuplicates == Spec => []NoDuplicate
<1>1. VolumesInv => NoDuplicate  BY DEF VolumesInv
<1>2. QED  BY <1>1, VolumesInvariant, PTL

(* Reading all pages shows every disk that existed all along, for any      *)
(* number of disks, datastores and page sizes, if nothing was deleted and  *)
(* every datastore could be listed (controller.go:413-480).                *)
THEOREM PagesComplete == Spec => []ListComplete
<1>1. VolumesInv => ListComplete
    BY DEF VolumesInv, WalkKnows, WalkOpen, ListComplete
<1>2. QED  BY <1>1, VolumesInvariant, PTL

(* The disk a create call finds: after the creation every disk of a name   *)
(* that is not excused has the size it was created with.                   *)
LEMMA FoundSound ==
    ASSUME VolumesInv, NEW c \in Slot, RetrieveDisks(c), NEW m \in Name,
           got'[m] # got[m], got'[m] # AlreadyExists
    PROVE  disk[got'[m]].name = m /\ (disk[got'[m]].size = SizeOf[m] \/ m \in excused)
<1> DEFINE n == call[c].about
<1>1. call[c].kind = "create"  BY DEF RetrieveDisks, Is
<1>2. CreateShape(call[c]) /\ (n \notin excused => Knows(call[c]))  BY <1>1, CreateFacts
<1>3. got \in [Name -> Id \cup {AlreadyExists, None}]  BY DEF VolumesInv, Shape, TypeInv
<1>4. PICK i \in {x \in call[c].ids \cap Existing : disk[x].name = n} : TakeFound(c, i)
    BY DEF RetrieveDisks
<1>5. m = n /\ got'[m] = i /\ (call[c].again \/ disk[i].size = SizeOf[n])
    BY <1>2, <1>3, <1>4 DEF TakeFound, CreateShape
<1>6. ASSUME call[c].again, n \notin excused  PROVE disk[i].size = SizeOf[n]
    BY <1>2, <1>4, <1>6 DEF Knows, AfterCreation, OfName
<1>7. QED  BY <1>4, <1>5, <1>6

(* A create call only answers a disk of the name it was asked for, and of  *)
(* its size unless the name is excused (controller.go:206-232).            *)
THEOREM CreatesSound == Spec => CreateSound
<1> DEFINE A == \A n \in Name : got'[n] # got[n] /\ got'[n] # AlreadyExists =>
                   LET d == disk[got'[n]] IN
                   d.name = n /\ (d.size = SizeOf[n] \/ n \in excused)
<1>1. ASSUME VolumesInv, [Next]_vars  PROVE [A]_vars
  <2>1. ASSUME NEW c \in Slot, RetrieveDisks(c)  PROVE A
      BY <1>1, <2>1, FoundSound
  <2>2. UNCHANGED got \/ \E c \in Slot : RetrieveDisks(c)
      BY <1>1 DEF Next, Step, PickZone, ListDisks, CreateDisk, FindList, FindGet, RemoveDisk,
         FaultCreate, FaultDelete, LostAnswer, BeginCreate, BeginDelete, Begin, BeginWalk,
         WalkList, WalkGet, WalkPage, WalkRest, FaultWalk, Crash, vars
  <2>3. UNCHANGED got => A  OBVIOUS
  <2>4. QED  BY <2>1, <2>2, <2>3
<1>2. QED  BY <1>1, VolumesInvariant, PTL DEF Spec, CreateSound
-----------------------------------------------------------------------------
(* What a delete call knows that has met no other one: no other call is    *)
(* about to delete a disk on the datastore of its own disk, so that the    *)
(* identifiers it has listed there still exist.                            *)
DeleteKnows(c) ==
    LET i == call[c].about IN
    call[c].kind = "delete" =>
       /\ i \in used
       /\ ~call[c].met /\ disk[i] # None =>
            /\ \A x \in Slot \ {c} : call[x].kind = "delete" =>
                  call[x].about \notin On(disk[i].store)
            /\ call[c].pc = "get" => call[c].ids \subseteq On(disk[i].store)

DeletesKnow == \A c \in Slot : DeleteKnows(c)

(* Delete calls go on, and list their datastore when they come to "get".   *)
DeletesMove ==
    \A x \in Slot : call'[x].kind = "delete" =>
       /\ call[x].kind = "delete" /\ call'[x].about = call[x].about
       /\ call[x].met => call'[x].met
       /\ call'[x].pc = "get" =>
             \/ call[x].pc = "get" /\ call'[x].ids = call[x].ids
             \/ UNCHANGED disk /\ call'[x].ids = On(disk[call[x].about].store)

(* A disk that goes is deleted by a call about it. *)
DisksGo ==
    /\ used \subseteq used'
    /\ \A i \in used : \/ disk'[i] = disk[i]
                       \/ /\ disk'[i] = None
                          /\ \E x \in Slot : Is(x, "delete", "remove") /\ call[x].about = i

LEMMA DeleteKnowsNext ==
    ASSUME VolumesInv, DeletesKnow, DeletesMove, DisksGo
    PROVE  DeletesKnow'
<1> SUFFICES ASSUME NEW c \in Slot, call'[c].kind = "delete"  PROVE DeleteKnows(c)'
    BY DEF DeletesKnow, DeleteKnows
<1> DEFINE i == call[c].about
           s == disk[i].store
<1>1. /\ call[c].kind = "delete" /\ call'[c].about = i /\ i \in used
      /\ call[c].met => call'[c].met
    BY DEF DeletesMove, DeletesKnow, DeleteKnows
<1>2. i \in used'  BY <1>1 DEF DisksGo
<1>3. Existing \subseteq used /\ used \subseteq Id  BY DEF VolumesInv, Shape, DisksShape
<1>4. ASSUME ~call'[c].met, disk'[i] # None
      PROVE  /\ \A x \in Slot \ {c} : call'[x].kind = "delete" => call'[x].about \notin On(s)'
             /\ call'[c].pc = "get" => call'[c].ids \subseteq On(s)'
             /\ disk'[i] = disk[i]
  <2>1. disk'[i] = disk[i] /\ ~call[c].met  BY <1>1, <1>4 DEF DisksGo
  <2>2. /\ \A x \in Slot \ {c} : call[x].kind = "delete" => call[x].about \notin On(s)
        /\ call[c].pc = "get" => call[c].ids \subseteq On(s)
      BY <1>1, <1>4, <2>1 DEF DeletesKnow, DeleteKnows
  <2>3. ASSUME NEW x \in Slot \ {c}, call'[x].kind = "delete", call'[x].about \in On(s)'
        PROVE  FALSE
    <3> DEFINE j == call[x].about
    <3>1. call[x].kind = "delete" /\ call'[x].about = j /\ j \in used
        BY <2>3 DEF DeletesMove, DeletesKnow, DeleteKnows
    <3>2. disk'[j] # None /\ disk'[j].store = s' /\ j \in Id
        BY <2>3, <3>1 DEF On, Existing
    <3>3. disk'[j] = disk[j]  BY <3>1, <3>2 DEF DisksGo
    <3>4. j \in On(s)  BY <1>1, <2>1, <3>2, <3>3 DEF On, Existing
    <3>5. QED  BY <2>2, <3>1, <3>4
  <2>4. ASSUME call'[c].pc = "get", NEW j \in call'[c].ids  PROVE j \in On(s)'
    <3>1. CASE UNCHANGED disk /\ call'[c].ids = On(s)
        BY <1>1, <2>1, <2>4, <3>1 DEF On, Existing
    <3>2. CASE call[c].pc = "get" /\ call'[c].ids = call[c].ids
      <4>1. j \in On(s) /\ j \in used  BY <1>3, <2>2, <2>4, <3>2 DEF On
      <4>2. \A x \in Slot : ~(Is(x, "delete", "remove") /\ call[x].about = j)
          BY <2>2, <3>2, <4>1 DEF Is
      <4>3. disk'[j] = disk[j]  BY <4>1, <4>2 DEF DisksGo
      <4>4. QED  BY <1>1, <2>1, <4>1, <4>3 DEF On, Existing
    <3>3. QED  BY <1>1, <2>4, <3>1, <3>2 DEF DeletesMove
  <2>5. QED  BY <2>1, <2>3, <2>4
<1>5. QED  BY <1>1, <1>2, <1>4 DEF DeleteKnows

(* One call moves and is no delete call, or ends. *)
LEMMA OtherMoves ==
    ASSUME NEW c \in Slot, call'[c].kind # "delete", \A x \in Slot \ {c} : call'[x] = call[x]
    PROVE  DeletesMove
BY DEF DeletesMove

LEMMA SameDisksGo ==
    ASSUME UNCHANGED <<disk, used>>
    PROVE  DisksGo
BY DEF DisksGo

LEMMA NewDiskGo ==
    ASSUME VolumesInv, NEW c \in Slot, NewDisk(c)
    PROVE  DisksGo
BY DEF NewDisk, DisksGo, VolumesInv, Shape, DisksShape

LEMMA GoneGo ==
    ASSUME VolumesInv, NEW c \in Slot, Is(c, "delete", "remove"), DiskGone(call[c].about),
           UNCHANGED used
    PROVE  DisksGo
<1>1. \A i \in used \ {call[c].about} : disk'[i] = disk[i]
    BY DEF DiskGone, VolumesInv, Shape, DisksShape
<1>2. call[c].about \in used => disk'[call[c].about] = None
    BY DEF DiskGone, VolumesInv, Shape, DisksShape
<1>3. QED  BY <1>1, <1>2 DEF DisksGo

LEMMA CallFieldsMove ==
    ASSUME VolumesInv, NEW c \in Slot, call[c].kind = "create",
           PickZone(c) \/ ListDisks(c) \/ RetrieveDisks(c) \/ CreateDisk(c) \/ FaultCreate(c)
    PROVE  DeletesMove
<1>1. call \in [Slot -> CallType]  BY DEF VolumesInv, Shape, TypeInv
<1>2. call' = [call EXCEPT ![c] = call'[c]] /\ call'[c].kind \in {"none", "create"}
  <2>1. CASE PickZone(c)
    <3>1. PICK p : call' = [call EXCEPT ![c].place = p, ![c].pc = "list"]
        BY <2>1 DEF PickZone
    <3>2. QED  BY <1>1, <3>1 DEF CallType
  <2>2. CASE ListDisks(c)  BY <1>1, <2>2 DEF ListDisks, CallType
  <2>3. ASSUME End(c)  PROVE call' = [call EXCEPT ![c] = call'[c]] /\ call'[c].kind = "none"
      BY <1>1, <2>3, IdleTyped DEF End
  <2>4. ASSUME NEW failed \in BOOLEAN, ScanEnds(c, failed)
        PROVE  call' = [call EXCEPT ![c] = call'[c]] /\ call'[c].kind \in {"none", "create"}
    <3>1. CASE End(c)  BY <2>3, <3>1
    <3>2. CASE call' = [call EXCEPT ![c].pc = "create", ![c].ids = {}, ![c].child = 1]
        BY <1>1, <3>2 DEF CallType
    <3>3. QED  BY <2>4, <3>1, <3>2 DEF ScanEnds
  <2>5. CASE RetrieveDisks(c)
    <3>1. CASE End(c)  BY <2>3, <3>1
    <3>2. CASE call' = [call EXCEPT ![c].child = @ + 1, ![c].pc = "list", ![c].ids = {}]
        BY <1>1, <3>2 DEF CallType
    <3>3. QED  BY <2>4, <2>5, <3>1, <3>2 DEF RetrieveDisks, TakeFound
  <2>6. CASE CreateDisk(c)  BY <1>1, <2>6 DEF CreateDisk, CallType
  <2>7. CASE FaultCreate(c)
    <3>1. CASE call' = [call EXCEPT ![c].zone = @ + 1]  BY <1>1, <3>1 DEF CallType
    <3>2. call[c].pc \in {"zone", "list", "get", "create"}  BY CreateFacts DEF CreateShape
    <3>3. QED  BY <2>3, <2>4, <2>7, <3>1, <3>2 DEF FaultCreate, NextZone
  <2>8. QED  BY <2>1, <2>2, <2>5, <2>6, <2>7
<1>3. \A x \in Slot \ {c} : call'[x] = call[x]  BY <1>1, <1>2
<1>4. QED  BY <1>2, <1>3, OtherMoves

LEMMA FindingMoves ==
    ASSUME VolumesInv, NEW c \in Slot, FindList(c) \/ FindGet(c)
    PROVE  DeletesMove /\ DisksGo
<1>1. call \in [Slot -> CallType] /\ Shape  BY DEF VolumesInv, Shape, TypeInv
<1>2. call[c].kind = "delete"  BY DEF FindList, FindGet, Is
<1>3. UNCHANGED <<disk, used>>  BY DEF FindList, FindGet, Overlook
<1>4. CASE End(c)  BY <1>1, <1>3, <1>4, EndFacts, OtherMoves, SameDisksGo
<1>5. CASE call' = [call EXCEPT ![c].pc = "get", ![c].ids = On(disk[call[c].about].store)]
  <2>1. /\ call'[c].kind = "delete" /\ call'[c].about = call[c].about
        /\ call'[c].met = call[c].met /\ call'[c].ids = On(disk[call[c].about].store)
        /\ \A x \in Slot \ {c} : call'[x] = call[x]
      BY <1>1, <1>2, <1>5 DEF CallType
  <2>2. QED  BY <1>2, <1>3, <2>1, SameDisksGo DEF DeletesMove
<1>6. CASE call' = [call EXCEPT ![c].pc = "remove", ![c].ids = {}]
  <2>1. /\ call'[c].kind = "delete" /\ call'[c].about = call[c].about /\ call'[c].pc = "remove"
        /\ call'[c].met = call[c].met /\ \A x \in Slot \ {c} : call'[x] = call[x]
      BY <1>1, <1>2, <1>6 DEF CallType
  <2>2. QED  BY <1>2, <1>3, <2>1, SameDisksGo DEF DeletesMove
<1>7. QED  BY <1>4, <1>5, <1>6 DEF FindList, FindGet, Overlook, Deleted

LEMMA EndingMoves ==
    ASSUME VolumesInv, NEW c \in Slot, RemoveDisk(c) \/ FaultDelete(c) \/ LostAnswer(c)
    PROVE  DeletesMove /\ DisksGo
<1>1. Shape  BY DEF VolumesInv
<1>2. End(c)  BY DEF RemoveDisk, FaultDelete, LostAnswer, Deleted, Overlook
<1>3. DeletesMove  BY <1>1, <1>2, EndFacts, OtherMoves
<1>4. CASE RemoveDisk(c)  BY <1>3, <1>4, SameDisksGo, GoneGo DEF RemoveDisk
<1>5. CASE FaultDelete(c)  BY <1>3, <1>5, SameDisksGo DEF FaultDelete, Overlook
<1>6. CASE LostAnswer(c)  BY <1>3, <1>6, NewDiskGo, GoneGo DEF LostAnswer
<1>7. QED  BY <1>3, <1>4, <1>5, <1>6

(* A delete call that begins tells, and is told by, every delete call for  *)
(* a disk on its datastore.                                                *)
LEMMA BeginDeleteKnows ==
    ASSUME VolumesInv, DeletesKnow, NEW c \in Slot, NEW i \in Id, BeginDelete(c, i)
    PROVE  DeletesKnow'
<1>1. UNCHANGED <<disk, used>> /\ i \in used  BY DEF BeginDelete, Begin
<1>2. \A s : On(s)' = On(s)  BY <1>1 DEF On, Existing
<1>3. /\ call[c].kind = "none"
      /\ call'[c].kind = "delete" /\ call'[c].about = i /\ call'[c].pc = "list"
      /\ call'[c].met = (Near(i) # {})
      /\ \A x \in Slot \ {c} :
            /\ call'[x].kind = call[x].kind /\ call'[x].about = call[x].about
            /\ call'[x].pc = call[x].pc /\ call'[x].ids = call[x].ids
            /\ call'[x].met = (call[x].met \/ x \in Near(i))
    BY BeginDeleteFacts
<1>4. DeleteKnows(c)'
  <2> SUFFICES ASSUME ~call'[c].met, disk[i] # None, NEW x \in Slot \ {c},
                      call'[x].kind = "delete", call'[x].about \in On(disk[i].store)
               PROVE  FALSE
      BY <1>1, <1>2, <1>3 DEF DeleteKnows
  <2>1. x \in Near(i)  BY <1>3 DEF Near
  <2>2. QED  BY <1>3, <2>1
<1>5. ASSUME NEW x \in Slot \ {c}  PROVE DeleteKnows(x)'
  <2> DEFINE j == call[x].about
  <2> SUFFICES ASSUME call[x].kind = "delete"  PROVE DeleteKnows(x)'
      BY <1>3, <1>5 DEF DeleteKnows
  <2>1. j \in used  BY <1>5 DEF DeletesKnow, DeleteKnows
  <2>2. ASSUME ~call'[x].met, disk[j] # None
        PROVE  /\ \A y \in Slot \ {x} : call'[y].kind = "delete" =>
                     call'[y].about \notin On(disk[j].store)
               /\ call[x].pc = "get" => call[x].ids \subseteq On(disk[j].store)
    <3>1. ~call[x].met /\ x \notin Near(i)  BY <1>3, <1>5, <2>2
    <3>2. /\ \A y \in Slot \ {x} : call[y].kind = "delete" =>
                call[y].about \notin On(disk[j].store)
          /\ call[x].pc = "get" => call[x].ids \subseteq On(disk[j].store)
        BY <1>5, <2>2, <3>1 DEF DeletesKnow, DeleteKnows
    <3>3. j \in Existing  BY <2>1, <2>2 DEF VolumesInv, Shape, DisksShape, Existing
    <3>4. i \notin On(disk[j].store)  BY <1>5, <3>1, <3>3 DEF Near, On, Existing
    <3>5. QED  BY <1>3, <3>2, <3>4
  <2>3. QED  BY <1>1, <1>2, <1>3, <1>5, <2>1, <2>2 DEF DeleteKnows
<1>6. QED  BY <1>4, <1>5 DEF DeletesKnow

LEMMA DeletesKnowNext ==
    ASSUME VolumesInv, DeletesKnow, [Next]_vars
    PROVE  DeletesKnow'
<1>1. Shape  BY DEF VolumesInv
<1>2. ASSUME NEW c \in Slot, FindList(c) \/ FindGet(c)  PROVE DeletesKnow'
    BY <1>2, FindingMoves, DeleteKnowsNext
<1>3. ASSUME NEW c \in Slot, RemoveDisk(c) \/ FaultDelete(c) \/ LostAnswer(c)
      PROVE  DeletesKnow'
    BY <1>3, EndingMoves, DeleteKnowsNext
<1>4. ASSUME NEW c \in Slot, PickZone(c) \/ ListDisks(c) \/ RetrieveDisks(c) \/ FaultCreate(c)
      PROVE  DeletesKnow'
  <2>1. call[c].kind = "create" /\ UNCHANGED <<disk, used>>
      BY <1>4 DEF PickZone, ListDisks, RetrieveDisks, FaultCreate, Is
  <2>2. QED  BY <1>4, <2>1, CallFieldsMove, SameDisksGo, DeleteKnowsNext
<1>5. ASSUME NEW c \in Slot, CreateDisk(c)  PROVE DeletesKnow'
  <2>1. call[c].kind = "create" /\ NewDisk(c)  BY <1>5 DEF CreateDisk, Is
  <2>2. QED  BY <1>5, <2>1, CallFieldsMove, NewDiskGo, DeleteKnowsNext
<1>6. ASSUME NEW c \in Slot, NEW n \in Name, BeginCreate(c, n)  PROVE DeletesKnow'
  <2>1. call \in [Slot -> CallType]  BY <1>1 DEF Shape, TypeInv
  <2>2. /\ call' = [call EXCEPT ![c] = [Idle EXCEPT !.kind = "create", !.about = n, !.pc = "zone"]]
        /\ UNCHANGED <<disk, used>>
      BY <1>6 DEF BeginCreate, Begin
  <2>3. call'[c].kind = "create" /\ \A x \in Slot \ {c} : call'[x] = call[x]
      BY <2>1, <2>2 DEF Idle
  <2>4. QED  BY <2>2, <2>3, OtherMoves, SameDisksGo, DeleteKnowsNext
<1>7. ASSUME NEW c \in Slot, NEW i \in Id, BeginDelete(c, i)  PROVE DeletesKnow'
    BY <1>7, BeginDeleteKnows
<1>8. CASE Crash
  <2>1. \A x \in Slot : call'[x].kind # "delete"  BY <1>8, IdleTyped DEF Crash
  <2>2. QED  BY <2>1 DEF DeletesKnow, DeleteKnows
<1>9. CASE UNCHANGED <<disk, used, call>>
  <2>1. DeletesMove  BY <1>9 DEF DeletesMove
  <2>2. QED  BY <1>9, <2>1, SameDisksGo, DeleteKnowsNext
<1>10. ASSUME (\E m \in MaxEntries : BeginWalk(m)) \/ WalkList \/ WalkGet \/ WalkPage
              \/ WalkRest \/ FaultWalk \/ UNCHANGED vars
       PROVE  UNCHANGED <<disk, used, call>>
    BY <1>10 DEF BeginWalk, WalkList, WalkGet, WalkPage, WalkRest, FaultWalk, vars
<1>11. QED
    BY <1>2, <1>3, <1>4, <1>5, <1>6, <1>7, <1>8, <1>9, <1>10 DEF Next, Step

(* A delete call that succeeds without a fault of its own: it has met      *)
(* another one, or its disk does not exist.                                *)
LEMMA AnswerSound ==
    ASSUME VolumesInv, DeletesKnow, NEW c \in Slot, NEW i \in leaked' \ leaked,
           FindList(c) \/ FindGet(c) \/ RemoveDisk(c)
    PROVE  call[c].kind = "delete" /\ call[c].about = i /\ call[c].met
<1>1. call[c].kind = "delete"  BY DEF FindList, FindGet, RemoveDisk, Is
<1>2. Deleted(c)  BY DEF FindList, FindGet, RemoveDisk, Overlook
<1>3. i = call[c].about /\ disk'[i] # None  BY <1>2 DEF Deleted
<1>4. CASE FindList(c)  BY <1>3, <1>4 DEF FindList
<1>5. CASE RemoveDisk(c)
  <2>1. i \in Id  BY <1>1, <1>3, DeleteFacts DEF DeleteShape
  <2>2. DOMAIN disk = Id  BY DEF VolumesInv, Shape, DisksShape
  <2>3. QED  BY <1>3, <1>5, <2>1, <2>2 DEF RemoveDisk, DiskGone
<1>6. CASE FindGet(c)
  <2>1. call[c].pc = "get" /\ Overlook(c) /\ call[c].ids \ Existing # {}
      BY <1>3, <1>6 DEF FindGet, Is
  <2>2. disk[i] # None  BY <1>3, <2>1 DEF Overlook
  <2>3. ASSUME ~call[c].met  PROVE FALSE
    <3>1. call[c].ids \subseteq On(disk[i].store)
        BY <1>1, <1>3, <2>1, <2>2, <2>3 DEF DeletesKnow, DeleteKnows
    <3>2. QED  BY <2>1, <3>1 DEF On
  <2>4. QED  BY <1>1, <1>3, <2>3
<1>7. QED  BY <1>4, <1>5, <1>6

(* A caller is told of a deletion that has not happened only by a request  *)
(* that failed, or by a call that met another deletion on the same         *)
(* datastore, for any number of disks, datastores and calls                *)
(* (controller.go:271-297, datacenter.go:600-616).                         *)
THEOREM DeletesSound == Spec => DeleteSound
<1> DEFINE A == \A i \in leaked' \ leaked :
                   \/ faults' # faults
                   \/ \E c \in Slot : call[c].kind = "delete" /\ call[c].about = i /\ call[c].met
<1>1. Init => DeletesKnow
  <2> SUFFICES ASSUME Init  PROVE DeletesKnow
      OBVIOUS
  <2>1. \A c \in Slot : call[c].kind = "none"  BY IdleTyped DEF Init
  <2>2. QED  BY <2>1 DEF DeletesKnow, DeleteKnows
<1>2. VolumesInv /\ DeletesKnow /\ [Next]_vars => DeletesKnow'  BY DeletesKnowNext
<1>3. ASSUME VolumesInv, DeletesKnow, [Next]_vars  PROVE [A]_vars
  <2>1. ASSUME NEW c \in Slot, FindList(c) \/ FindGet(c) \/ RemoveDisk(c)  PROVE A
      BY <1>3, <2>1, AnswerSound
  <2>2. ASSUME NEW c \in Slot, FaultDelete(c)  PROVE A
    <3>1. faults \in Nat  BY <1>3 DEF VolumesInv, Shape, TypeInv
    <3>2. faults' # faults  BY <2>2, <3>1 DEF FaultDelete, Spend
    <3>3. QED  BY <3>2
  <2>3. \/ leaked' \subseteq leaked
        \/ \E c \in Slot : FindList(c) \/ FindGet(c) \/ RemoveDisk(c) \/ FaultDelete(c)
      BY <1>3 DEF Next, Step, PickZone, ListDisks, RetrieveDisks, CreateDisk, FaultCreate,
         LostAnswer, BeginCreate, BeginDelete, BeginWalk,
         WalkList, WalkGet, WalkPage, WalkRest, FaultWalk, Crash, vars
  <2>4. leaked' \subseteq leaked => A  OBVIOUS
  <2>5. QED  BY <2>1, <2>2, <2>3, <2>4
<1>4. QED  BY <1>1, <1>2, <1>3, VolumesInvariant, PTL DEF Spec, DeleteSound
=============================================================================
