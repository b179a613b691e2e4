---------------------------- MODULE AttachProofs ----------------------------
(***************************************************************************)
(* Proofs about module Attach.  The invariant has four parts: types and    *)
(* the shape of the calls (Shape); where disks and controllers are         *)
(* (Places); what a call that is alone knows of the device list            *)
(* (AloneKnows); and what a call knows of its own disk while no other call *)
(* for that disk is in flight (DiskKnows).                                 *)
(***************************************************************************)
EXTENDS Attach, FiniteSetTheorems, FunctionTheorems, WellFoundedInduction, TLAPS

FreeSlot == Unit \ {SCSIReservedSlot}

CallType == [kind : {"none", "publish", "unpublish"}, disk : Disk \cup {None},
             pc : {"idle", "ok", "start", "spec", "create", "add", "reread", "list",
                   "reconfigure", "uuid", "undo", "undoRemove", "clean", "remove"},
             bus : Bus \cup {None}, unit : Unit \cup {None}, old : SUBSET Bus,
             made : BOOLEAN, last : (Bus \ {Boot}) \cup {None}, met : BOOLEAN,
             alone : BOOLEAN]

TypeInv ==
    /\ ctrls \in Seq(Bus)
    /\ seat \in [Disk -> Seat \cup {None}]
    /\ call \in [Slot -> CallType]
    /\ faults \in 0..MaxFaults
    /\ stray \subseteq Disk

(* A call in flight has a disk, and what it has computed so far. *)
CallShape(r) ==
    /\ r.kind # "none" => r.disk \in Disk
    /\ r.kind = "none" => r.disk = None
    /\ r.kind = "unpublish" => r.pc \in {"start", "remove"}
    /\ r.kind = "publish" => r.pc \notin {"idle", "ok", "remove"}
    /\ r.pc \in {"add", "reread", "list", "reconfigure", "undoRemove", "remove"} => r.bus \in Bus
    /\ r.pc \in {"list", "reconfigure"} => r.unit \in FreeSlot
    /\ r.pc \in {"undoRemove", "remove"} => r.unit \in Unit

Shape == TypeInv /\ \A c \in Slot : CallShape(call[c])

(* The VM's own devices and the disks are on controllers that are there,   *)
(* and no two disks share a seat.                                          *)
Places ==
    /\ Present(Boot)
    /\ \A s \in Taken : Present(s[1])
    /\ \A d \in Disk : seat[d] # None => Present(seat[d][1])
    /\ \A d, e \in Disk : d # e /\ seat[d] # None => seat[d] # seat[e]

-----------------------------------------------------------------------------
InFlight(c) == call[c].kind # "none"

(* All the controllers of the type are full but the ones in S. *)
FullBut(S) == \A i \in OfType : ctrls[i] \in S \/ i \notin Available

(* What a publish call that is alone knows, by its control point. *)
AloneAt(c) ==
    LET r == call[c] IN
    /\ r.pc \in {"spec", "create", "add", "reread"} => seat[r.disk] = None
    /\ r.pc \in {"create", "add"} => FullBut({})
    /\ r.pc = "add" => ~Present(r.bus)
    /\ r.pc \in {"create", "add"} => \A b \in r.old : Present(b)
    /\ r.pc = "reread" => /\ Present(r.bus) /\ r.bus \notin r.old /\ r.bus # Boot
                          /\ TakenOn(r.bus) = {} /\ FullBut({r.bus})
    /\ r.pc \in {"list", "reconfigure"} => Acceptable(c)

AloneOf(c) ==
    InFlight(c) /\ call[c].alone =>
       /\ \A x \in Slot \ {c} : ~InFlight(x)
       /\ call[c].kind = "publish" => AloneAt(c)

AloneKnows == \A c \in Slot : AloneOf(c)

(* What a call knows of its disk while it has met no other call for it. *)
Removing(r) == r.kind # "none" /\ r.pc \in {"undoRemove", "remove"}

DiskAt(c) ==
    LET r == call[c] IN
    /\ Is(c, "publish", "uuid") => seat[r.disk] # None \/ r.disk \in stray
    /\ Removing(r) => \/ seat[r.disk] = <<r.bus, r.unit>>
                      \/ seat[r.disk] = None /\ r.disk \in stray

DiskOf(c) ==
    InFlight(c) /\ ~call[c].met =>
       /\ \A x \in Slot \ {c} : call[x].disk # call[c].disk
       /\ DiskAt(c)

DiskKnows == \A c \in Slot : DiskOf(c)

AttachInv == Shape /\ Places /\ AloneKnows /\ DiskKnows

-----------------------------------------------------------------------------
(* The device list. *)

(* A non-empty set of numbers has a least element, and a greatest one if   *)
(* it is bounded.                                                          *)
LEMMA LeastElement ==
    ASSUME NEW T \in SUBSET Nat, T # {}
    PROVE  \E n \in T : \A m \in T : n <= m
<1> DEFINE R == {ss \in Nat \X Nat : ss[1] < ss[2]}
<1>1. IsWellFoundedOn(R, Nat)  BY NatLessThanWellFounded DEF OpToRel
<1> HIDE DEF R
<1>2. PICK n \in T : \A m \in T : ~(<<m, n>> \in R)  BY <1>1, WFMin
<1>3. \A m \in T : ~(m < n)  BY <1>2 DEF R
<1>4. QED  BY <1>3

LEMMA GreatestElement ==
    ASSUME NEW N \in Nat, NEW T \in SUBSET (1..N), T # {}
    PROVE  \E n \in T : \A m \in T : m <= n
<1> DEFINE D == {k \in 0..N : N - k \in T}
<1>1. D \in SUBSET Nat /\ D # {}
  <2>1. PICK t \in T : TRUE  OBVIOUS
  <2>2. N - t \in 0..N /\ N - (N - t) = t  OBVIOUS
  <2>3. N - t \in D  BY <2>2
  <2>4. D \in SUBSET Nat  OBVIOUS
  <2> HIDE DEF D
  <2>5. QED  BY <2>3, <2>4
<1>2. PICK k \in D : \A m \in D : k <= m  BY <1>1, LeastElement
<1>3. \A m \in T : N - m \in D
  <2> TAKE m \in T
  <2>1. N - m \in 0..N /\ N - (N - m) = m  OBVIOUS
  <2>2. QED  BY <2>1
<1>4. QED  BY <1>2, <1>3

LEMMA SeatsFinite ==
    ASSUME NEW S \in SUBSET Seat
    PROVE  IsFiniteSet(S) /\ Cardinality(S) \in Nat
<1>1. IsFiniteSet(Bus) /\ IsFiniteSet(Unit)  BY FS_Interval, ScsiAssumption DEF Bus, Unit
<1>2. IsFiniteSet(Seat)  BY <1>1, FS_Product DEF Seat
<1>3. QED  BY <1>2, FS_Subset, FS_CardinalityType

LEMMA TakenOnSeats ==
    ASSUME TypeInv, NEW b
    PROVE  /\ TakenOn(b) \in SUBSET Seat /\ \A s \in TakenOn(b) : s[1] = b
           /\ IsFiniteSet(TakenOn(b)) /\ Cardinality(TakenOn(b)) \in Nat
<1>1. Taken \subseteq Seat  BY ScsiAssumption DEF Seat
<1>2. \A d \in Disk : seat[d] = None \/ seat[d] \in Seat  BY DEF TypeInv
<1>3. TakenOn(b) \in SUBSET Seat /\ \A s \in TakenOn(b) : s[1] = b
    BY <1>1, <1>2 DEF TakenOn
<1>4. QED  BY <1>3, SeatsFinite

(* The units that may be handed out are as many as the limit on devices.   *)
LEMMA FreeSlotCount ==
    /\ IsFiniteSet(FreeSlot) /\ Cardinality(FreeSlot) = SCSIControllerDeviceLimit
    /\ FreeSlot # {} /\ FreeSlot \in SUBSET Nat
<1>1. IsFiniteSet(Unit) /\ Cardinality(Unit) = SCSIDeviceSlots
    BY FS_Interval, ScsiAssumption DEF Unit
<1>2. IsFiniteSet(FreeSlot) /\ Cardinality(FreeSlot) = SCSIControllerDeviceLimit
    BY <1>1, FS_RemoveElement, ScsiAssumption DEF FreeSlot
<1>3. FreeSlot # {}  BY <1>2, FS_EmptySet, ScsiAssumption
<1>4. QED  BY <1>2, <1>3, ScsiAssumption DEF FreeSlot, Unit

(* A controller with less devices than the limit has a free unit.          *)
LEMMA NextUnitFree ==
    ASSUME TypeInv, NEW b \in Bus, Cardinality(TakenOn(b)) < SCSIControllerDeviceLimit
    PROVE  NextUnit(b) \in FreeSlot /\ <<b, NextUnit(b)>> \notin TakenOn(b)
<1> DEFINE T == TakenOn(b)
           U == {s[2] : s \in T}
           f == [s \in T |-> s[2]]
<1>1. T \in SUBSET Seat /\ IsFiniteSet(T) /\ Cardinality(T) \in Nat  BY TakenOnSeats
<1>2. f \in Surjection(T, U)  BY Fun_IsSurj
<1>3. IsFiniteSet(U) /\ Cardinality(U) <= Cardinality(T)  BY <1>1, <1>2, FS_Surjection
<1>4. Cardinality(U) \in Nat  BY <1>3, FS_CardinalityType
<1>5. FreeUnits(b) # {}
  <2> SUFFICES ASSUME FreeUnits(b) = {} PROVE FALSE  OBVIOUS
  <2>1. FreeSlot \subseteq U  BY DEF FreeUnits, FreeSlot
  <2>2. Cardinality(FreeSlot) <= Cardinality(U)  BY <1>3, <2>1, FS_Subset
  <2> HIDE DEF T, U
  <2>3. QED  BY <1>1, <1>3, <1>4, <2>2, FreeSlotCount, ScsiAssumption DEF T
<1>6. FreeUnits(b) \in SUBSET FreeSlot /\ FreeUnits(b) \in SUBSET Nat
    BY FreeSlotCount DEF FreeUnits, FreeSlot
<1>7. \E u \in FreeUnits(b) : \A x \in FreeUnits(b) : u <= x  BY <1>5, <1>6, LeastElement
<1>8. NextUnit(b) \in FreeUnits(b)  BY <1>7 DEF NextUnit
<1>9. NextUnit(b) \notin U  BY <1>8 DEF FreeUnits
<1>10. \A u : <<b, u>>[2] = u  OBVIOUS
<1>11. QED  BY <1>6, <1>8, <1>9, <1>10

LEMMA ListFacts ==
    ASSUME TypeInv
    PROVE  /\ Len(ctrls) \in Nat /\ \A i \in 1..Len(ctrls) : ctrls[i] \in Bus
           /\ OfType \in SUBSET (1..Len(ctrls))
           /\ \A i \in OfType : ctrls[i] \in Bus \ {Boot} /\ Present(ctrls[i])
<1>1. Len(ctrls) \in Nat /\ \A i \in 1..Len(ctrls) : ctrls[i] \in Bus  BY DEF TypeInv
<1>2. QED  BY <1>1 DEF OfType, Present

(* The first controller with room is one of the list, of the type.         *)
LEMMA FirstAvailableFacts ==
    ASSUME TypeInv, Available # {}
    PROVE  /\ \E i \in Available : FirstAvailable = ctrls[i]
           /\ FirstAvailable \in Bus \ {Boot} /\ Present(FirstAvailable)
           /\ Cardinality(TakenOn(FirstAvailable)) < SCSIControllerDeviceLimit
<1>1. Available \in SUBSET OfType  BY DEF Available
<1>2. Available \in SUBSET Nat  BY <1>1, ListFacts
<1>3. \E i \in Available : \A j \in Available : i <= j  BY <1>2, LeastElement
<1>4. PICK i \in Available : FirstAvailable = ctrls[i]  BY <1>3 DEF FirstAvailable
<1>5. i \in OfType /\ Cardinality(TakenOn(ctrls[i])) < SCSIControllerDeviceLimit
    BY DEF Available
<1>6. QED  BY <1>4, <1>5, ListFacts

LEMMA LastOfTypeFacts ==
    ASSUME TypeInv
    PROVE  LastOfType \in (Bus \ {Boot}) \cup {None}
<1> SUFFICES ASSUME OfType # {} PROVE LastOfType \in Bus \ {Boot}
    BY DEF LastOfType
<1>1. \E i \in OfType : \A j \in OfType : j <= i  BY ListFacts, GreatestElement
<1>2. PICK i \in OfType : LastOfType = ctrls[i]  BY <1>1 DEF LastOfType
<1>3. QED  BY <1>2, ListFacts

LEMMA AppendFacts ==
    ASSUME TypeInv, NEW b \in Bus, ctrls' = Append(ctrls, b)
    PROVE  /\ ctrls' \in Seq(Bus) /\ Len(ctrls') = Len(ctrls) + 1
           /\ \A x : Present(x)' <=> Present(x) \/ x = b
           /\ \A i \in 1..Len(ctrls) : ctrls'[i] = ctrls[i]
           /\ ctrls'[Len(ctrls) + 1] = b
<1>1. ctrls \in Seq(Bus) /\ Len(ctrls) \in Nat  BY DEF TypeInv
<1>2. /\ ctrls' \in Seq(Bus) /\ Len(ctrls') = Len(ctrls) + 1
      /\ \A i \in 1..Len(ctrls) : ctrls'[i] = ctrls[i]
      /\ ctrls'[Len(ctrls) + 1] = b
    BY <1>1
<1>3. \A i \in 1..Len(ctrls) + 1 : i \in 1..Len(ctrls) \/ i = Len(ctrls) + 1  BY <1>1
<1>4. \A i \in 1..Len(ctrls) : i \in 1..Len(ctrls) + 1  BY <1>1
<1>5. Len(ctrls) + 1 \in 1..Len(ctrls) + 1  BY <1>1
<1>6. \A x : Present(x)' <=> Present(x) \/ x = b
    BY <1>2, <1>3, <1>4, <1>5 DEF Present
<1>7. QED  BY <1>2, <1>6

(* One controller leaves the list, and the others stay. *)
LEMMA RemoveAtFacts ==
    ASSUME TypeInv, NEW i \in 1..Len(ctrls), ctrls' = RemoveAt(ctrls, i)
    PROVE  /\ ctrls' \in Seq(Bus)
           /\ \A x : Present(x) /\ x # ctrls[i] => Present(x)'
<1> DEFINE n == Len(ctrls)
<1>1. ctrls \in Seq(Bus) /\ n \in Nat /\ i \in 1..n  BY DEF TypeInv
<1>2. SubSeq(ctrls, 1, i - 1) \in Seq(Bus) /\ SubSeq(ctrls, i + 1, n) \in Seq(Bus)
    BY <1>1
<1>3. /\ Len(SubSeq(ctrls, 1, i - 1)) = i - 1
      /\ \A k \in 1..i - 1 : SubSeq(ctrls, 1, i - 1)[k] = ctrls[k]
    BY <1>1
<1>4. /\ Len(SubSeq(ctrls, i + 1, n)) = n - i
      /\ \A k \in 1..n - i : SubSeq(ctrls, i + 1, n)[k] = ctrls[i + k]
    BY <1>1
<1>5. /\ ctrls' \in Seq(Bus) /\ Len(ctrls') = n - 1
      /\ \A k \in 1..i - 1 : ctrls'[k] = ctrls[k]
      /\ \A k \in i + 1..n : ctrls'[k - 1] = ctrls[k]
  <2> DEFINE a == SubSeq(ctrls, 1, i - 1)
             b == SubSeq(ctrls, i + 1, n)
  <2>1. ctrls' = a \o b  BY DEF RemoveAt
  <2> HIDE DEF a, b
  <2>2. a \in Seq(Bus) /\ b \in Seq(Bus) /\ Len(a) = i - 1 /\ Len(b) = n - i
      BY <1>2, <1>3, <1>4 DEF a, b
  <2>3. /\ ctrls' \in Seq(Bus) /\ Len(ctrls') = Len(a) + Len(b)
        /\ \A k \in 1..Len(a) : ctrls'[k] = a[k]
        /\ \A k \in 1..Len(b) : ctrls'[Len(a) + k] = b[k]
    <3>1. /\ a \o b \in Seq(Bus) /\ Len(a \o b) = Len(a) + Len(b)
          /\ \A k \in 1..Len(a) : (a \o b)[k] = a[k]
          /\ \A k \in 1..Len(b) : (a \o b)[Len(a) + k] = b[k]
        BY <2>2
    <3>2. QED  BY <2>1, <3>1, Zenon
  <2>4. \A k \in 1..i - 1 : ctrls'[k] = ctrls[k]  BY <1>3, <2>2, <2>3 DEF a
  <2>5. ASSUME NEW k \in i + 1..n  PROVE ctrls'[k - 1] = ctrls[k]
    <3>1. k - i \in 1..n - i /\ (i - 1) + (k - i) = k - 1 /\ i + (k - i) = k  BY <1>1
    <3>2. ctrls'[(i - 1) + (k - i)] = b[k - i]  BY <2>2, <2>3, <3>1
    <3>3. b[k - i] = ctrls[i + (k - i)]  BY <1>4, <3>1 DEF b
    <3>4. QED  BY <3>1, <3>2, <3>3
  <2>6. QED  BY <1>1, <2>2, <2>3, <2>4, <2>5
<1>6. ASSUME NEW x, Present(x), x # ctrls[i]  PROVE Present(x)'
  <2>1. PICK k \in 1..n : ctrls[k] = x  BY <1>6 DEF Present
  <2>2. k # i  BY <1>6, <2>1
  <2>3. CASE k < i
    <3>1. k \in 1..Len(ctrls') /\ ctrls'[k] = x  BY <1>1, <1>5, <2>1, <2>3
    <3>2. QED  BY <3>1 DEF Present
  <2>4. CASE k > i
    <3>1. k - 1 \in 1..Len(ctrls') /\ ctrls'[k - 1] = x  BY <1>1, <1>5, <2>1, <2>4
    <3>2. QED  BY <3>1 DEF Present
  <2>5. QED  BY <1>1, <2>1, <2>2, <2>3, <2>4
<1>7. QED  BY <1>5, <1>6

(* The initial list has the buses of the VM's own devices. *)
LEMMA InitList ==
    ASSUME ctrls = <<Boot>> \o SetToSeq({s[1] : s \in Taken})
    PROVE  ctrls \in Seq(Bus) /\ Present(Boot) /\ \A s \in Taken : Present(s[1])
<1> DEFINE B == {s[1] : s \in Taken}
           n == Cardinality(B)
           f == SetToSeq(B)
<1>1. B \subseteq Bus  BY ScsiAssumption
<1>2. IsFiniteSet(Bus)  BY FS_Interval, ScsiAssumption DEF Bus
<1>3. IsFiniteSet(B)  BY <1>1, <1>2, FS_Subset
<1> HIDE DEF B
<1>4. n \in Nat /\ ExistsBijection(1..n, B)  BY <1>3, FS_CardinalityType
<1>5. PICK g : g \in Bijection(1..n, B)  BY <1>4, Fun_ExistsBij
<1>6. g \in [1..n -> B] /\ IsInjective(g)  BY <1>5 DEF Bijection, Injection
<1>7. f \in [1..n -> B] /\ IsInjective(f)  BY <1>6 DEF SetToSeq
<1>8. f \in Injection(1..n, B)  BY <1>7 DEF Injection
<1>9. Cardinality(1..n) = n  BY <1>4, FS_Interval
<1>10. f \in Surjection(1..n, B)  BY <1>3, <1>8, <1>9, FS_Injection
<1>11. \A b \in B : \E i \in 1..n : f[i] = b
  <2> HIDE DEF f, n
  <2>1. QED  BY <1>10 DEF Surjection
<1> HIDE DEF f
<1>12. f \in Seq(Bus) /\ Len(f) = n  BY <1>1, <1>4, <1>7
<1>13. Boot \in Bus /\ ctrls = <<Boot>> \o f  BY ScsiAssumption DEF f, B
<1>14. /\ ctrls \in Seq(Bus) /\ Len(ctrls) = n + 1 /\ ctrls[1] = Boot
       /\ \A i \in 1..n : ctrls[i + 1] = f[i]
  <2>1. <<Boot>> \in Seq(Bus) /\ Len(<<Boot>>) = 1 /\ <<Boot>>[1] = Boot  BY <1>13
  <2>2. /\ ctrls \in Seq(Bus) /\ Len(ctrls) = Len(<<Boot>>) + Len(f)
        /\ \A k \in 1..Len(<<Boot>>) : ctrls[k] = <<Boot>>[k]
        /\ \A k \in 1..Len(f) : ctrls[Len(<<Boot>>) + k] = f[k]
    <3>1. /\ <<Boot>> \o f \in Seq(Bus) /\ Len(<<Boot>> \o f) = Len(<<Boot>>) + Len(f)
          /\ \A k \in 1..Len(<<Boot>>) : (<<Boot>> \o f)[k] = <<Boot>>[k]
          /\ \A k \in 1..Len(f) : (<<Boot>> \o f)[Len(<<Boot>>) + k] = f[k]
        BY <1>12, <2>1
    <3>2. QED  BY <1>13, <3>1, Zenon
  <2>3. \A i \in 1..n : 1 + i = i + 1  BY <1>4
  <2> HIDE DEF n
  <2>4. ctrls[1] = Boot  BY <2>1, <2>2
  <2>5. \A i \in 1..n : ctrls[1 + i] = f[i]  BY <1>12, <2>1, <2>2
  <2>6. Len(ctrls) = n + 1  BY <1>4, <1>12, <2>1, <2>2
  <2>7. QED  BY <2>2, <2>3, <2>4, <2>5, <2>6
<1>15. Present(Boot)  BY <1>4, <1>14 DEF Present
<1>16. ASSUME NEW b \in B  PROVE Present(b)
  <2>1. PICK i \in 1..n : f[i] = b  BY <1>11
  <2>2. i + 1 \in 1..Len(ctrls) /\ ctrls[i + 1] = b  BY <1>4, <1>14, <2>1
  <2>3. QED  BY <2>2 DEF Present
<1>17. QED  BY <1>14, <1>15, <1>16 DEF B

-----------------------------------------------------------------------------
(* A step of one call, and what it leaves to the others. *)

(* The call c goes on as the record r: it ends, or stays the same call. *)
GoesOn(c, r) ==
    /\ r \in CallType /\ CallShape(r) /\ call' = [call EXCEPT ![c] = r]
    /\ r.kind # "none" => /\ r.kind = call[c].kind /\ r.disk = call[c].disk
                          /\ r.met = call[c].met /\ r.alone = call[c].alone

(* Other disks stay where they are, or a stale key has taken them off. *)
LeavesOthers(c) ==
    \A d \in Disk : d # call[c].disk =>
       \/ seat'[d] = seat[d] /\ (d \in stray => d \in stray')
       \/ seat'[d] = None /\ d \in stray'

ListTyped == /\ ctrls' \in Seq(Bus) /\ seat' \in [Disk -> Seat \cup {None}]
             /\ faults' \in 0..MaxFaults /\ stray' \subseteq Disk

LEMMA GoesOnFacts ==
    ASSUME Shape, NEW c \in Slot, NEW r, GoesOn(c, r)
    PROVE  /\ call' \in [Slot -> CallType] /\ call'[c] = r
           /\ \A x \in Slot \ {c} : call'[x] = call[x]
           /\ \A x \in Slot : CallShape(call[x])'
<1>1. call \in [Slot -> CallType]  BY DEF Shape, TypeInv
<1>2. /\ call' \in [Slot -> CallType] /\ call'[c] = r
      /\ \A x \in Slot \ {c} : call'[x] = call[x]
    BY <1>1 DEF GoesOn
<1>3. \A x \in Slot : CallShape(call[x])'
    BY <1>2 DEF Shape, CallShape, GoesOn
<1>4. QED  BY <1>2, <1>3

LEMMA StepKeeps ==
    ASSUME AttachInv, NEW c \in Slot, InFlight(c), NEW r, GoesOn(c, r), LeavesOthers(c),
           ListTyped, Places',
           r.kind = "publish" /\ r.alone => AloneAt(c)',
           r.kind # "none" /\ ~r.met => DiskAt(c)'
    PROVE  AttachInv'
<1>1. Shape /\ AloneKnows /\ DiskKnows  BY DEF AttachInv
<1>2. /\ call' \in [Slot -> CallType] /\ call'[c] = r
      /\ \A x \in Slot \ {c} : call'[x] = call[x]
      /\ \A x \in Slot : CallShape(call[x])'
    BY <1>1, GoesOnFacts
<1>3. Shape'  BY <1>2 DEF Shape, TypeInv, ListTyped
<1>4. AloneKnows'
  <2>1. AloneOf(c)'
    <3> SUFFICES ASSUME r.kind # "none", r.alone
                 PROVE  /\ \A x \in Slot \ {c} : ~InFlight(x)'
                        /\ r.kind = "publish" => AloneAt(c)'
        BY <1>2 DEF AloneOf, InFlight
    <3>1. \A x \in Slot \ {c} : ~InFlight(x)
        BY <1>1 DEF AloneKnows, AloneOf, GoesOn
    <3>2. QED  BY <1>2, <3>1 DEF InFlight
  <2>2. ASSUME NEW x \in Slot \ {c}  PROVE AloneOf(x)'
    <3>1. ~(InFlight(x) /\ call[x].alone)  BY <1>1 DEF AloneKnows, AloneOf
    <3>2. QED  BY <1>2, <2>2, <3>1 DEF AloneOf, InFlight
  <2>3. QED  BY <2>1, <2>2 DEF AloneKnows
<1>5. DiskKnows'
  <2>1. DiskOf(c)'
    <3> SUFFICES ASSUME r.kind # "none", ~r.met
                 PROVE  \A x \in Slot \ {c} : call'[x].disk # r.disk
        BY <1>2 DEF DiskOf, InFlight
    <3>1. \A x \in Slot \ {c} : call[x].disk # call[c].disk
        BY <1>1 DEF DiskKnows, DiskOf, GoesOn
    <3>2. QED  BY <1>2, <3>1 DEF GoesOn
  <2>2. ASSUME NEW x \in Slot \ {c}  PROVE DiskOf(x)'
    <3> DEFINE d == call[x].disk
    <3> SUFFICES ASSUME InFlight(x), ~call[x].met
                 PROVE  /\ \A y \in Slot \ {x} : call'[y].disk # d
                        /\ DiskAt(x)'
        BY <1>2, <2>2 DEF DiskOf, InFlight
    <3>1. (\A y \in Slot \ {x} : call[y].disk # d) /\ DiskAt(x)
        BY <1>1 DEF DiskKnows, DiskOf
    <3>2. d \in Disk  BY <1>1 DEF InFlight, Shape, CallShape
    <3>3. call'[c].disk # d
      <4>1. r.kind = "none" => r.disk = None  BY DEF GoesOn, CallShape
      <4>2. None \notin Disk  BY ScsiAssumption
      <4>3. QED  BY <1>2, <3>1, <3>2, <4>1, <4>2 DEF GoesOn
    <3>4. d # call[c].disk  BY <3>1
    <3>5. \/ seat'[d] = seat[d] /\ (d \in stray => d \in stray')
          \/ seat'[d] = None /\ d \in stray'
        BY <3>2, <3>4 DEF LeavesOthers
    <3>6. DiskAt(x)'  BY <1>2, <3>1, <3>5 DEF DiskAt, Is, Removing
    <3>7. QED  BY <1>2, <3>1, <3>3, <3>6
  <2>3. QED  BY <2>1, <2>2 DEF DiskKnows
<1>6. QED  BY <1>3, <1>4, <1>5 DEF AttachInv

(* Steps that change neither the list nor the disks. *)
Quiet == UNCHANGED <<ctrls, seat, stray>>

LEMMA QuietFacts ==
    ASSUME AttachInv, Quiet, faults' \in 0..MaxFaults
    PROVE  /\ ListTyped /\ Places' /\ \A c \in Slot : LeavesOthers(c)
           /\ \A b : (Present(b)' <=> Present(b)) /\ TakenOn(b)' = TakenOn(b)
           /\ OfType' = OfType /\ Available' = Available
<1>1. \A b : (Present(b)' <=> Present(b)) /\ TakenOn(b)' = TakenOn(b)
    BY DEF Quiet, Present, TakenOn
<1>2. OfType' = OfType /\ Available' = Available  BY <1>1 DEF Quiet, OfType, Available
<1>3. ListTyped  BY DEF Quiet, AttachInv, Shape, TypeInv, ListTyped
<1>4. Places'  BY <1>1 DEF Quiet, AttachInv, Places
<1>5. QED  BY <1>1, <1>2, <1>3, <1>4 DEF Quiet, LeavesOthers

(* A call that has nothing more to rely on: it ends, or is to clean up or  *)
(* to undo.                                                                *)
Passive(r) == r.kind = "none" \/ r.pc \in {"clean", "undo"}

LEMMA PassiveKnows ==
    ASSUME NEW c \in Slot, call'[c].kind # "none" => call'[c].pc \in {"start", "clean", "undo"}
    PROVE  /\ call'[c].kind # "none" => AloneAt(c)'
           /\ call'[c].kind # "none" => DiskAt(c)'
BY DEF AloneAt, DiskAt, Is, Removing

LEMMA PassiveKeeps ==
    ASSUME AttachInv, NEW c \in Slot, InFlight(c), NEW r, GoesOn(c, r), Passive(r),
           LeavesOthers(c), ListTyped, Places'
    PROVE  AttachInv'
<1>1. call'[c] = r  BY GoesOnFacts DEF AttachInv
<1>2. r.kind # "none" => AloneAt(c)' /\ DiskAt(c)'  BY <1>1, PassiveKnows DEF Passive
<1>3. QED  BY <1>2, StepKeeps

LEMMA CallFacts ==
    ASSUME AttachInv, NEW c \in Slot, InFlight(c)
    PROVE  /\ call[c] \in CallType /\ CallShape(call[c]) /\ call[c].disk \in Disk
           /\ faults \in 0..MaxFaults /\ call \in [Slot -> CallType] /\ TypeInv
           /\ call[c].kind = "publish" /\ call[c].alone => AloneAt(c)
           /\ ~call[c].met => DiskAt(c)
BY DEF AttachInv, Shape, TypeInv, CallShape, InFlight, AloneKnows, AloneOf, DiskKnows, DiskOf

LEMMA EndsFacts ==
    ASSUME AttachInv, NEW c \in Slot, Refuse(c) \/ Return(c)
    PROVE  \E r : GoesOn(c, r) /\ Passive(r)
<1>1. Idle \in CallType /\ Idle.kind = "none" /\ Idle.pc = "idle" /\ Idle.disk = None
    BY DEF Idle, CallType
<1>2. /\ Finished \in CallType /\ Finished.kind = "none" /\ Finished.pc = "ok"
      /\ Finished.disk = None
    BY DEF Idle, Finished, CallType
<1>3. CallShape(Idle) /\ CallShape(Finished)  BY <1>1, <1>2 DEF CallShape
<1>4. QED  BY <1>1, <1>2, <1>3 DEF GoesOn, Passive, Refuse, Return

(* The next control point pc of a publish call. *)
LEMMA GotoFacts ==
    ASSUME AttachInv, NEW c \in Slot, call[c].kind = "publish",
           NEW pc \in {"spec", "clean", "undo", "uuid"}, Goto(c, pc)
    PROVE  GoesOn(c, [call[c] EXCEPT !.pc = pc]) /\ [call[c] EXCEPT !.pc = pc].pc = pc
<1> DEFINE r == [call[c] EXCEPT !.pc = pc]
<1>1. call[c] \in CallType /\ CallShape(call[c]) /\ call \in [Slot -> CallType]
    BY CallFacts DEF InFlight
<1>2. call' = [call EXCEPT ![c] = r]  BY <1>1 DEF Goto
<1>3. /\ r \in CallType /\ r.kind = call[c].kind /\ r.disk = call[c].disk
      /\ r.met = call[c].met /\ r.alone = call[c].alone /\ r.pc = pc
    BY <1>1 DEF CallType
<1>4. CallShape(r)  BY <1>1, <1>3 DEF CallShape
<1>5. QED  BY <1>2, <1>3, <1>4 DEF GoesOn

LEMMA GiveUpFacts ==
    ASSUME AttachInv, NEW c \in Slot, call[c].kind = "publish", GiveUp(c)
    PROVE  \E r : GoesOn(c, r) /\ Passive(r)
<1>1. CASE Goto(c, "clean")  BY <1>1, GotoFacts DEF Passive
<1>2. CASE Refuse(c)  BY <1>2, EndsFacts
<1>3. QED  BY <1>1, <1>2 DEF GiveUp

LEMMA FailsFacts ==
    ASSUME AttachInv, NEW c \in Slot, InFlight(c), Fails(c)
    PROVE  \E r : GoesOn(c, r) /\ Passive(r)
<1>1. call[c] \in CallType /\ CallShape(call[c])  BY CallFacts
<1>2. call[c].kind = "publish" \/ call[c].pc \in {"start", "remove"}
    BY <1>1 DEF InFlight, CallType, CallShape
<1>3. CASE call[c].pc = "add"  BY <1>2, <1>3, GotoFacts DEF Fails, Passive
<1>4. CASE call[c].pc = "uuid"  BY <1>2, <1>4, GotoFacts DEF Fails, Passive
<1>5. CASE call[c].pc \in {"reconfigure", "undo", "undoRemove"}
    BY <1>2, <1>5, GiveUpFacts DEF Fails
<1>6. CASE call[c].pc \notin {"add", "uuid", "reconfigure", "undo", "undoRemove"}
    BY <1>6, EndsFacts DEF Fails
<1>7. QED  BY <1>3, <1>4, <1>5, <1>6

LEMMA QuietPassive ==
    ASSUME AttachInv, NEW c \in Slot, InFlight(c), Quiet, faults' \in 0..MaxFaults,
           \E r : GoesOn(c, r) /\ Passive(r)
    PROVE  AttachInv'
BY QuietFacts, PassiveKeeps

-----------------------------------------------------------------------------
(* The calls begin. *)

LEMMA BeginKeeps ==
    ASSUME AttachInv, NEW c \in Slot, NEW k \in {"publish", "unpublish"}, NEW d \in Disk,
           Begin(c, k, d)
    PROVE  AttachInv'
<1> DEFINE same == {x \in Slot : call[x].disk = d}
           busy == {x \in Slot : call[x].kind # "none"}
           m    == (same # {})
           a    == (busy = {})
           r    == [Idle EXCEPT !.kind = k, !.disk = d, !.pc = "start", !.met = m, !.alone = a]
<1>1. Shape /\ call \in [Slot -> CallType] /\ TypeInv  BY DEF AttachInv, Shape, TypeInv
<1>2. faults' \in 0..MaxFaults
  <2>1. faults' = faults \/ (faults < MaxFaults /\ faults' = faults + 1)
      BY Zenon DEF Begin
  <2>2. QED  BY <1>1, <2>1, ScsiAssumption DEF TypeInv
<1>3. Quiet  BY DEF Begin, Quiet
<1>4. /\ ListTyped /\ Places'
      /\ \A b : (Present(b)' <=> Present(b)) /\ TakenOn(b)' = TakenOn(b)
      /\ OfType' = OfType /\ Available' = Available
    BY <1>2, <1>3, QuietFacts
<1>5. m \in BOOLEAN /\ a \in BOOLEAN  OBVIOUS
<1>6. call' = [x \in Slot |->
                  IF x = c THEN r
                  ELSE IF x \in busy
                    THEN [call[x] EXCEPT !.met = @ \/ x \in same, !.alone = FALSE]
                  ELSE call[x]]
    BY DEF Begin
<1>7. call'[c] = r  BY <1>6
<1>8. \A x \in Slot \ {c} :
         /\ x \notin busy => call'[x] = call[x]
         /\ x \in busy => call'[x] = [call[x] EXCEPT !.met = @ \/ x \in same, !.alone = FALSE]
    BY <1>6
<1>9. same \in SUBSET Slot /\ busy \in SUBSET Slot
      /\ (\A x \in Slot : x \in same <=> call[x].disk = d)
      /\ (\A x \in Slot : x \in busy <=> InFlight(x))
    BY DEF InFlight
<1>10. m <=> same # {}  OBVIOUS
<1>11. a <=> busy = {}  OBVIOUS
<1> HIDE DEF same, busy, m, a
<1>12. Idle \in CallType  BY DEF Idle, CallType
<1>13. r \in CallType  BY <1>5, <1>12 DEF CallType
<1>14. r.kind = k /\ r.disk = d /\ r.pc = "start"  BY DEF Idle
<1>15. r.met = m /\ r.alone = a  BY DEF Idle
<1> HIDE DEF r
<1>16. CallShape(r)  BY <1>14 DEF CallShape
<1>17. \A x \in busy \ {c} :
         /\ call'[x] \in CallType
         /\ call'[x].kind = call[x].kind /\ call'[x].disk = call[x].disk
         /\ call'[x].pc = call[x].pc /\ call'[x].bus = call[x].bus
         /\ call'[x].unit = call[x].unit /\ call'[x].alone = FALSE
         /\ call'[x].met = (call[x].met \/ x \in same)
  <2> TAKE x \in busy \ {c}
  <2>1. x \in Slot \ {c} /\ call[x] \in CallType  BY <1>1, <1>9
  <2> DEFINE b == call[x].met \/ x \in same
  <2>2. b \in BOOLEAN  OBVIOUS
  <2>3. call'[x] = [call[x] EXCEPT !.met = b, !.alone = FALSE]  BY <1>8, <2>1, Zenon
  <2> HIDE DEF b
  <2>4. /\ call'[x] \in CallType
        /\ call'[x].kind = call[x].kind /\ call'[x].disk = call[x].disk
        /\ call'[x].pc = call[x].pc /\ call'[x].bus = call[x].bus
        /\ call'[x].unit = call[x].unit /\ call'[x].alone = FALSE /\ call'[x].met = b
      BY <2>1, <2>2, <2>3 DEF CallType
  <2>5. QED  BY <2>4, Zenon DEF b
<1>18. \A x \in busy \ {c} : CallShape(call[x])'
    BY <1>1, <1>9, <1>17 DEF CallShape, Shape
<1>19. \A x \in Slot \ {c} : CallShape(call[x])'
    BY <1>1, <1>8, <1>18 DEF CallShape, Shape
<1>20. call' \in [Slot -> CallType]
  <2>1. \A x \in Slot : call'[x] \in CallType  BY <1>1, <1>7, <1>8, <1>13, <1>17
  <2>2. QED  BY <1>6, <2>1
<1>21. Shape'  BY <1>4, <1>7, <1>16, <1>19, <1>20 DEF Shape, TypeInv, ListTyped
<1>22. AloneOf(c)'
  <2> SUFFICES ASSUME a  PROVE (\A x \in Slot \ {c} : ~InFlight(x)') /\ AloneAt(c)'
      BY <1>7, <1>15 DEF AloneOf
  <2>1. \A x \in Slot \ {c} : call'[x] = call[x] /\ ~InFlight(x)  BY <1>8, <1>9, <1>11
  <2>2. QED  BY <1>7, <1>14, <2>1 DEF InFlight, AloneAt
<1>23. DiskOf(c)'
  <2> SUFFICES ASSUME ~m  PROVE (\A x \in Slot \ {c} : call'[x].disk # d) /\ DiskAt(c)'
      BY <1>7, <1>14, <1>15 DEF DiskOf
  <2>1. \A x \in Slot \ {c} : call[x].disk # d  BY <1>9, <1>10
  <2>2. \A x \in Slot \ {c} : call'[x].disk = call[x].disk  BY <1>8, <1>17
  <2>3. QED  BY <1>7, <1>14, <2>1, <2>2 DEF DiskAt, Is, Removing
<1>24. ASSUME NEW x \in Slot \ {c}  PROVE AloneOf(x)' /\ DiskOf(x)'
  <2>1. CASE x \notin busy
      BY <1>8, <1>9, <2>1 DEF AloneOf, DiskOf, InFlight
  <2>2. CASE x \in busy
    <3>1. AloneOf(x)'  BY <1>17, <2>2 DEF AloneOf
    <3>2. ASSUME ~call'[x].met
          PROVE  (\A y \in Slot \ {x} : call'[y].disk # call'[x].disk) /\ DiskAt(x)'
      <4>1. ~call[x].met /\ x \notin same  BY <1>17, <2>2, <3>2
      <4>2. DiskOf(x) /\ InFlight(x)  BY <1>9, <2>2 DEF AttachInv, DiskKnows
      <4>3. (\A y \in Slot \ {x} : call[y].disk # call[x].disk) /\ DiskAt(x)
          BY <4>1, <4>2 DEF DiskOf
      <4>4. call[x].disk # d  BY <1>9, <4>1
      <4>5. \A y \in Slot \ {x} : y # c => call'[y].disk = call[y].disk  BY <1>8, <1>17
      <4>6. DiskAt(x)'  BY <1>3, <1>17, <2>2, <4>3 DEF DiskAt, Is, Removing, Quiet
      <4>7. QED  BY <1>7, <1>14, <1>17, <2>2, <4>3, <4>4, <4>5, <4>6
    <3>3. QED  BY <3>1, <3>2 DEF DiskOf
  <2>3. QED  BY <2>1, <2>2
<1>25. QED  BY <1>4, <1>21, <1>22, <1>23, <1>24 DEF AttachInv, AloneKnows, DiskKnows

-----------------------------------------------------------------------------
(* The steps of ControllerPublishVolume and AttachDisk. *)

LEMMA QuietActive ==
    ASSUME AttachInv, NEW c \in Slot, InFlight(c), Quiet, UNCHANGED faults,
           NEW r, GoesOn(c, r),
           r.kind = "publish" /\ r.alone => AloneAt(c)',
           r.kind # "none" /\ ~r.met => DiskAt(c)'
    PROVE  AttachInv'
<1>1. faults' \in 0..MaxFaults  BY CallFacts
<1>2. QED  BY <1>1, QuietFacts, StepKeeps

(* A call that goes on as r, the same call with other data. *)
LEMMA RecordGoesOn ==
    ASSUME AttachInv, NEW c \in Slot, InFlight(c), NEW r \in CallType,
           call' = [call EXCEPT ![c] = r], CallShape(r),
           r.kind = call[c].kind, r.disk = call[c].disk,
           r.met = call[c].met, r.alone = call[c].alone
    PROVE  GoesOn(c, r) /\ call'[c] = r
<1>1. GoesOn(c, r)  BY DEF GoesOn
<1>2. QED  BY <1>1, GoesOnFacts DEF AttachInv

LEMMA AttachCheckKeeps ==
    ASSUME AttachInv, NEW c \in Slot, AttachCheck(c)
    PROVE  AttachInv'
<1>1. /\ InFlight(c) /\ call[c].kind = "publish" /\ Quiet /\ UNCHANGED faults
    BY DEF AttachCheck, Is, InFlight, Quiet
<1>2. CASE Return(c)  BY <1>1, <1>2, CallFacts, EndsFacts, QuietPassive
<1>3. CASE seat[call[c].disk] = None /\ Goto(c, "spec")
  <2> DEFINE r == [call[c] EXCEPT !.pc = "spec"]
  <2>1. GoesOn(c, r) /\ r.pc = "spec"  BY <1>1, <1>3, GotoFacts
  <2>2. call'[c] = r /\ r.kind = "publish" /\ r.disk = call[c].disk
      BY <1>1, <2>1, GoesOnFacts, CallFacts DEF AttachInv, GoesOn, CallType
  <2> HIDE DEF r
  <2>3. AloneAt(c)' /\ DiskAt(c)'
      BY <1>1, <1>3, <2>1, <2>2 DEF AloneAt, DiskAt, Is, Removing, Quiet
  <2>4. QED  BY <1>1, <2>1, <2>3, QuietActive
<1>4. QED  BY <1>2, <1>3 DEF AttachCheck, DeviceByPath

LEMMA CreateDiskSpecKeeps ==
    ASSUME AttachInv, NEW c \in Slot, CreateDiskSpec(c)
    PROVE  AttachInv'
<1>1. /\ InFlight(c) /\ call[c].kind = "publish" /\ call[c].pc = "spec"
      /\ Quiet /\ UNCHANGED faults
    BY DEF CreateDiskSpec, Is, InFlight, Quiet
<1>2. /\ call[c] \in CallType /\ CallShape(call[c]) /\ call \in [Slot -> CallType] /\ TypeInv
      /\ call[c].disk \in Disk /\ faults' \in 0..MaxFaults
      /\ call[c].alone => seat[call[c].disk] = None
    BY <1>1, CallFacts DEF AloneAt
<1>3. /\ \A b : (Present(b)' <=> Present(b)) /\ TakenOn(b)' = TakenOn(b)
      /\ OfType' = OfType /\ Available' = Available
    BY <1>1, <1>2, QuietFacts
<1>4. CASE Available # {}
  <2> DEFINE b == FirstAvailable
             u == NextUnit(FirstAvailable)
             r == [call[c] EXCEPT !.pc = "reconfigure", !.bus = b, !.unit = u]
  <2>1. b \in Bus /\ Present(b) /\ Cardinality(TakenOn(b)) < SCSIControllerDeviceLimit
      BY <1>2, <1>4, FirstAvailableFacts
  <2>2. u \in FreeSlot /\ <<b, u>> \notin TakenOn(b)  BY <1>2, <2>1, NextUnitFree
  <2>3. call' = [call EXCEPT ![c] = r]  BY <1>2, <1>4 DEF CreateDiskSpec
  <2> HIDE DEF b, u
  <2>4. u \in Unit /\ u # SCSIReservedSlot  BY <2>2 DEF FreeSlot
  <2>5. /\ r \in CallType /\ r.kind = "publish" /\ r.disk = call[c].disk
        /\ r.met = call[c].met /\ r.alone = call[c].alone /\ r.pc = "reconfigure"
        /\ r.bus = b /\ r.unit = u
      BY <1>1, <1>2, <2>1, <2>4 DEF CallType
  <2> HIDE DEF r
  <2>6. CallShape(r)  BY <1>2, <2>1, <2>2, <2>5 DEF CallShape
  <2>7. GoesOn(c, r) /\ call'[c] = r  BY <1>1, <2>3, <2>5, <2>6, RecordGoesOn
  <2>8. DiskAt(c)'  BY <2>5, <2>7 DEF DiskAt, Is, Removing
  <2>9. call[c].alone => AloneAt(c)'
      BY <1>1, <1>2, <1>3, <2>1, <2>2, <2>4, <2>5, <2>7 DEF AloneAt, Acceptable, Quiet
  <2>10. QED  BY <1>1, <2>5, <2>7, <2>8, <2>9, QuietActive
<1>5. CASE Available = {}
  <2> DEFINE o == {ctrls[i] : i \in OfType}
             r == [call[c] EXCEPT !.pc = "create", !.old = o]
  <2>1. call' = [call EXCEPT ![c] = r]  BY <1>2, <1>5 DEF CreateDiskSpec
  <2>2. o \in SUBSET Bus /\ \A x \in o : Present(x)  BY <1>2, ListFacts
  <2> HIDE DEF o
  <2>3. /\ r \in CallType /\ r.kind = "publish" /\ r.disk = call[c].disk
        /\ r.met = call[c].met /\ r.alone = call[c].alone /\ r.pc = "create" /\ r.old = o
      BY <1>1, <1>2, <2>2 DEF CallType
  <2> HIDE DEF r
  <2>4. CallShape(r)  BY <1>2, <2>3 DEF CallShape
  <2>5. GoesOn(c, r) /\ call'[c] = r  BY <1>1, <2>1, <2>3, <2>4, RecordGoesOn
  <2>6. DiskAt(c)'  BY <2>3, <2>5 DEF DiskAt, Is, Removing
  <2>7. FullBut({})'  BY <1>3, <1>5 DEF FullBut
  <2>8. call[c].alone => AloneAt(c)'
      BY <1>1, <1>2, <1>3, <2>2, <2>3, <2>5, <2>7 DEF AloneAt, Quiet
  <2>9. QED  BY <1>1, <2>3, <2>5, <2>6, <2>8, QuietActive
<1>6. QED  BY <1>4, <1>5

LEMMA CreateControllerKeeps ==
    ASSUME AttachInv, NEW c \in Slot, CreateController(c)
    PROVE  AttachInv'
<1>1. /\ InFlight(c) /\ call[c].kind = "publish" /\ call[c].pc = "create"
      /\ Quiet /\ UNCHANGED faults
    BY DEF CreateController, Is, InFlight, Quiet
<1>2. /\ call[c] \in CallType /\ CallShape(call[c]) /\ call \in [Slot -> CallType] /\ TypeInv
      /\ call[c].disk \in Disk /\ faults' \in 0..MaxFaults
    BY <1>1, CallFacts
<1>3. CASE Refuse(c)  BY <1>1, <1>2, <1>3, EndsFacts, QuietPassive
<1>4. ASSUME NEW b \in Bus, ~Present(b),
             call' = [call EXCEPT ![c].pc = "add", ![c].bus = b, ![c].last = LastOfType]
      PROVE  AttachInv'
  <2> DEFINE l == LastOfType
             r == [call[c] EXCEPT !.pc = "add", !.bus = b, !.last = l]
  <2>1. call' = [call EXCEPT ![c] = r]  BY <1>2, <1>4
  <2>2. l \in (Bus \ {Boot}) \cup {None}  BY <1>2, LastOfTypeFacts
  <2> HIDE DEF l
  <2>3. /\ r \in CallType /\ r.kind = "publish" /\ r.disk = call[c].disk
        /\ r.met = call[c].met /\ r.alone = call[c].alone /\ r.pc = "add" /\ r.bus = b
        /\ r.old = call[c].old
      BY <1>1, <1>2, <2>2 DEF CallType
  <2> HIDE DEF r
  <2>4. CallShape(r)  BY <1>2, <2>3 DEF CallShape
  <2>5. GoesOn(c, r) /\ call'[c] = r  BY <1>1, <2>1, <2>3, <2>4, RecordGoesOn
  <2>6. DiskAt(c)'  BY <2>3, <2>5 DEF DiskAt, Is, Removing
  <2>7. ASSUME call[c].alone  PROVE AloneAt(c)'
    <3>1. seat[call[c].disk] = None /\ FullBut({}) /\ \A x \in call[c].old : Present(x)
        BY <1>1, <2>7, CallFacts DEF AloneAt
    <3>2. /\ \A x : (Present(x)' <=> Present(x)) /\ OfType' = OfType /\ Available' = Available
        BY <1>1, <1>2, QuietFacts
    <3>3. FullBut({})'  BY <3>1, <3>2 DEF FullBut
    <3>4. QED  BY <1>1, <1>4, <2>3, <2>5, <3>1, <3>2, <3>3 DEF AloneAt, Quiet
  <2>8. QED  BY <1>1, <2>3, <2>5, <2>6, <2>7, QuietActive
<1>5. QED  BY <1>3, <1>4 DEF CreateController

(* A controller is added where none was: no device is there yet.           *)
LEMMA AddedFacts ==
    ASSUME AttachInv, NEW b \in Bus, ~Present(b), ctrls' = Append(ctrls, b),
           UNCHANGED <<seat, stray>>, faults' \in 0..MaxFaults
    PROVE  /\ ListTyped /\ Places' /\ \A c \in Slot : LeavesOthers(c)
           /\ TakenOn(b)' = {} /\ b # Boot /\ Present(b)'
           /\ FullBut({}) => FullBut({b})'
<1>1. TypeInv /\ Places  BY DEF AttachInv, Shape
<1>2. /\ ctrls' \in Seq(Bus) /\ Len(ctrls') = Len(ctrls) + 1
      /\ \A x : Present(x)' <=> Present(x) \/ x = b
      /\ \A i \in 1..Len(ctrls) : ctrls'[i] = ctrls[i]
      /\ ctrls'[Len(ctrls) + 1] = b
    BY <1>1, AppendFacts
<1>3. \A x : TakenOn(x)' = TakenOn(x)  BY DEF TakenOn
<1>4. TakenOn(b) = {} /\ b # Boot  BY <1>1 DEF Places, TakenOn
<1>5. ASSUME FullBut({})  PROVE FullBut({b})'
  <2> SUFFICES ASSUME NEW i \in OfType', ctrls'[i] # b  PROVE i \notin Available'
      BY DEF FullBut
  <2>1. i \in 1..Len(ctrls) + 1 /\ i # Len(ctrls) + 1 /\ Len(ctrls) \in Nat
      BY <1>1, <1>2, ListFacts DEF OfType
  <2>2. i \in 1..Len(ctrls)  BY <2>1
  <2>3. i \in OfType /\ ctrls'[i] = ctrls[i]  BY <1>2, <2>2 DEF OfType
  <2>4. i \notin Available  BY <1>5, <2>3 DEF FullBut
  <2>5. QED  BY <1>3, <2>3, <2>4 DEF Available
<1>6. ListTyped  BY <1>1, <1>2 DEF ListTyped, TypeInv
<1>7. Places'  BY <1>1, <1>2 DEF Places
<1>8. QED  BY <1>2, <1>3, <1>4, <1>5, <1>6, <1>7 DEF LeavesOthers

LEMMA AddControllerKeeps ==
    ASSUME AttachInv, NEW c \in Slot, AddController(c)
    PROVE  AttachInv'
<1>1. /\ InFlight(c) /\ call[c].kind = "publish" /\ call[c].pc = "add"
      /\ UNCHANGED <<seat, faults, stray>>
    BY DEF AddController, Is, InFlight
<1>2. /\ call[c] \in CallType /\ CallShape(call[c]) /\ call \in [Slot -> CallType] /\ TypeInv
      /\ call[c].disk \in Disk /\ faults' \in 0..MaxFaults /\ call[c].bus \in Bus
    BY <1>1, CallFacts DEF CallShape
<1>3. CASE Goto(c, "clean") /\ UNCHANGED ctrls
  <2>1. \E r : GoesOn(c, r) /\ Passive(r)  BY <1>1, <1>3, GotoFacts DEF Passive
  <2>2. QED  BY <1>1, <1>2, <1>3, <2>1, QuietPassive DEF Quiet
<1>4. CASE /\ ~Present(call[c].bus) /\ ctrls' = Append(ctrls, call[c].bus)
           /\ call' = [call EXCEPT ![c].pc = "reread", ![c].made = TRUE, ![c].last = None]
  <2>1. PICK b : b = call[c].bus  OBVIOUS
  <2> DEFINE r == [call[c] EXCEPT !.pc = "reread", !.made = TRUE, !.last = None]
  <2>2. call' = [call EXCEPT ![c] = r]  BY <1>2, <1>4
  <2>3. /\ r \in CallType /\ r.kind = "publish" /\ r.disk = call[c].disk
        /\ r.met = call[c].met /\ r.alone = call[c].alone /\ r.pc = "reread" /\ r.bus = b
        /\ r.old = call[c].old
      BY <1>1, <1>2, <2>1 DEF CallType
  <2>4. CallShape(r)  BY <1>2, <2>3 DEF CallShape
  <2> HIDE DEF r
  <2>5. GoesOn(c, r) /\ call'[c] = r  BY <1>1, <2>2, <2>3, <2>4, RecordGoesOn
  <2>6. DiskAt(c)'  BY <2>3, <2>5 DEF DiskAt, Is, Removing
  <2>7. /\ ListTyped /\ Places' /\ LeavesOthers(c)
        /\ TakenOn(b)' = {} /\ b # Boot /\ Present(b)'
        /\ FullBut({}) => FullBut({b})'
      BY <1>1, <1>2, <1>4, <2>1, AddedFacts
  <2>8. ASSUME call[c].alone  PROVE AloneAt(c)'
    <3>1. seat[call[c].disk] = None /\ FullBut({}) /\ \A x \in call[c].old : Present(x)
        BY <1>1, <2>8, CallFacts DEF AloneAt
    <3>2. b \notin call[c].old  BY <1>4, <2>1, <3>1
    <3>3. QED  BY <1>1, <2>3, <2>5, <2>7, <3>1, <3>2 DEF AloneAt
  <2>9. QED  BY <1>1, <2>3, <2>5, <2>6, <2>7, <2>8, StepKeeps
<1>5. QED  BY <1>3, <1>4 DEF AddController

(* A call that is alone finds room on the controller it has added, and     *)
(* only there.                                                             *)
LEMMA RereadFinds ==
    ASSUME AttachInv, NEW c \in Slot, Is(c, "publish", "reread"), call[c].alone
    PROVE  /\ Available # {} /\ FirstAvailable = call[c].bus /\ FirstAvailable \notin call[c].old
           /\ TakenOn(call[c].bus) = {} /\ Present(call[c].bus) /\ seat[call[c].disk] = None
<1> DEFINE b == call[c].bus
<1>1. /\ seat[call[c].disk] = None /\ Present(b) /\ b \notin call[c].old /\ b # Boot
      /\ TakenOn(b) = {} /\ FullBut({b}) /\ TypeInv
    BY CallFacts DEF Is, InFlight, AloneAt
<1>2. PICK i \in 1..Len(ctrls) : ctrls[i] = b  BY <1>1 DEF Present
<1>3. Cardinality(TakenOn(b)) = 0  BY <1>1, FS_EmptySet
<1>4. i \in Available
  <2>1. Cardinality(TakenOn(ctrls[i])) = 0  BY <1>2, <1>3
  <2>2. 0 < SCSIControllerDeviceLimit  BY ScsiAssumption
  <2>3. i \in OfType  BY <1>1, <1>2 DEF OfType
  <2>4. QED  BY <2>1, <2>2, <2>3 DEF Available
<1>5. PICK j \in Available : FirstAvailable = ctrls[j]  BY <1>1, <1>4, FirstAvailableFacts
<1>6. j \in OfType  BY DEF Available
<1>7. ctrls[j] = b  BY <1>1, <1>5, <1>6 DEF FullBut
<1>8. QED  BY <1>1, <1>4, <1>5, <1>7

LEMMA RereadKeeps ==
    ASSUME AttachInv, NEW c \in Slot, Reread(c)
    PROVE  AttachInv'
<1>1. /\ InFlight(c) /\ call[c].kind = "publish" /\ call[c].pc = "reread"
      /\ Quiet /\ UNCHANGED faults /\ Is(c, "publish", "reread")
    BY DEF Reread, Is, InFlight, Quiet
<1>2. /\ call[c] \in CallType /\ CallShape(call[c]) /\ call \in [Slot -> CallType] /\ TypeInv
      /\ call[c].disk \in Disk /\ faults' \in 0..MaxFaults
    BY <1>1, CallFacts
<1>3. CASE Available = {}
  <2> DEFINE l == LastOfType
             r == [call[c] EXCEPT !.pc = "clean", !.last = l]
  <2>1. call' = [call EXCEPT ![c] = r]  BY <1>2, <1>3 DEF Reread
  <2>2. l \in (Bus \ {Boot}) \cup {None}  BY <1>2, LastOfTypeFacts
  <2> HIDE DEF l
  <2>3. /\ r \in CallType /\ r.kind = "publish" /\ r.disk = call[c].disk
        /\ r.met = call[c].met /\ r.alone = call[c].alone /\ r.pc = "clean"
      BY <1>1, <1>2, <2>2 DEF CallType
  <2> HIDE DEF r
  <2>4. CallShape(r)  BY <1>2, <2>3 DEF CallShape
  <2>5. GoesOn(c, r) /\ Passive(r)  BY <1>1, <2>1, <2>3, <2>4, RecordGoesOn DEF Passive
  <2>6. QED  BY <1>1, <1>2, <2>5, QuietPassive
<1>4. CASE Refuse(c)  BY <1>1, <1>2, <1>4, EndsFacts, QuietPassive
<1>5. CASE /\ Available # {}
           /\ call' = [call EXCEPT ![c].pc = "list", ![c].bus = FirstAvailable,
                                 ![c].old = {}, ![c].unit = CHOOSE u \in Unit \ {SCSIReservedSlot} :
                                    \A x \in Unit \ {SCSIReservedSlot} : u <= x]
  <2>1. PICK b : b = FirstAvailable  OBVIOUS
  <2> DEFINE v == CHOOSE u \in Unit \ {SCSIReservedSlot} :
                     \A x \in Unit \ {SCSIReservedSlot} : u <= x
             e == {}
             r == [call[c] EXCEPT !.pc = "list", !.bus = b, !.old = e, !.unit = v]
  <2>2. call' = [call EXCEPT ![c].pc = "list", ![c].bus = b, ![c].old = e, ![c].unit = v]
      BY <1>5, <2>1
  <2>3. b \in Bus  BY <1>2, <1>5, <2>1, FirstAvailableFacts
  <2>4. v \in FreeSlot
    <3>1. \E u \in FreeSlot : \A x \in FreeSlot : u <= x  BY FreeSlotCount, LeastElement
    <3>2. QED  BY <3>1 DEF FreeSlot
  <2>5. v \in Unit /\ v # SCSIReservedSlot  BY <2>4 DEF FreeSlot
  <2>6. e \in SUBSET Bus  OBVIOUS
  <2> HIDE DEF v, e
  <2>7. call' = [call EXCEPT ![c] = r]  BY <1>2, <2>2
  <2>8. /\ r \in CallType /\ r.kind = "publish" /\ r.disk = call[c].disk
        /\ r.met = call[c].met /\ r.alone = call[c].alone /\ r.pc = "list"
        /\ r.bus = b /\ r.unit = v
      BY <1>1, <1>2, <2>3, <2>5, <2>6 DEF CallType
  <2> HIDE DEF r
  <2>9. CallShape(r)  BY <1>2, <2>3, <2>4, <2>8 DEF CallShape
  <2>10. GoesOn(c, r) /\ call'[c] = r  BY <1>1, <2>7, <2>8, <2>9, RecordGoesOn
  <2>11. DiskAt(c)'  BY <2>8, <2>10 DEF DiskAt, Is, Removing
  <2>12. ASSUME call[c].alone  PROVE AloneAt(c)'
    <3>1. b = call[c].bus /\ TakenOn(b) = {} /\ Present(b) /\ seat[call[c].disk] = None
        BY <1>1, <2>12, <2>1, RereadFinds
    <3>2. Present(b)' /\ TakenOn(b)' = {}  BY <1>1, <1>2, <3>1, QuietFacts
    <3>3. QED  BY <1>1, <2>5, <2>8, <2>10, <3>1, <3>2 DEF AloneAt, Acceptable, Quiet
  <2>13. QED  BY <1>1, <2>8, <2>10, <2>11, <2>12, QuietActive
<1>6. QED  BY <1>3, <1>4, <1>5 DEF Reread

LEMMA ListDevicesKeeps ==
    ASSUME AttachInv, NEW c \in Slot, ListDevices(c)
    PROVE  AttachInv'
<1> DEFINE l == LastOfType
           r == [call[c] EXCEPT !.pc = "reconfigure", !.last = l]
<1>1. /\ InFlight(c) /\ call[c].kind = "publish" /\ call[c].pc = "list"
      /\ Quiet /\ UNCHANGED faults
    BY DEF ListDevices, Is, InFlight, Quiet
<1>2. /\ call[c] \in CallType /\ CallShape(call[c]) /\ call \in [Slot -> CallType] /\ TypeInv
      /\ call[c].disk \in Disk /\ faults' \in 0..MaxFaults
    BY <1>1, CallFacts
<1>3. call' = [call EXCEPT ![c] = r]  BY <1>2 DEF ListDevices
<1>4. l \in (Bus \ {Boot}) \cup {None}  BY <1>2, LastOfTypeFacts
<1> HIDE DEF l
<1>5. /\ r \in CallType /\ r.kind = "publish" /\ r.disk = call[c].disk
      /\ r.met = call[c].met /\ r.alone = call[c].alone /\ r.pc = "reconfigure"
      /\ r.bus = call[c].bus /\ r.unit = call[c].unit
    BY <1>1, <1>2, <1>4 DEF CallType
<1> HIDE DEF r
<1>6. CallShape(r)  BY <1>1, <1>2, <1>5 DEF CallShape
<1>7. GoesOn(c, r) /\ call'[c] = r  BY <1>1, <1>3, <1>5, <1>6, RecordGoesOn
<1>8. DiskAt(c)'  BY <1>5, <1>7 DEF DiskAt, Is, Removing
<1>9. ASSUME call[c].alone  PROVE AloneAt(c)'
  <2>1. Acceptable(c)  BY <1>1, <1>9, CallFacts DEF AloneAt
  <2>2. \A b : (Present(b)' <=> Present(b)) /\ TakenOn(b)' = TakenOn(b)
      BY <1>1, <1>2, QuietFacts
  <2>3. Acceptable(c)'  BY <1>1, <1>5, <1>7, <2>1, <2>2 DEF Acceptable, Quiet
  <2>4. QED  BY <1>5, <1>7, <2>3 DEF AloneAt
<1>10. QED  BY <1>1, <1>5, <1>7, <1>8, <1>9, QuietActive

(* vCenter attaches the disk: to a seat that was free, on a controller     *)
(* that is there.                                                          *)
LEMMA SeatFacts ==
    ASSUME AttachInv, NEW c \in Slot, Is(c, "publish", "reconfigure"), Acceptable(c),
           SeatDisk(c), UNCHANGED ctrls, faults' \in 0..MaxFaults
    PROVE  /\ ListTyped /\ Places' /\ LeavesOthers(c) /\ seat'[call[c].disk] # None
<1> DEFINE e == call[c].disk
           at == <<call[c].bus, call[c].unit>>
<1>1. /\ TypeInv /\ Places /\ e \in Disk /\ call[c].bus \in Bus /\ call[c].unit \in FreeSlot
    BY CallFacts DEF Is, InFlight, CallShape, AttachInv, Shape
<1>2. at \in Seat /\ at # None /\ at[1] = call[c].bus
    BY <1>1, ScsiAssumption DEF FreeSlot, Seat
<1>3. seat'[e] = at /\ \A d \in Disk \ {e} : seat'[d] = seat[d]
    BY <1>1 DEF SeatDisk, TypeInv
<1>4. seat' \in [Disk -> Seat \cup {None}]  BY <1>1, <1>2 DEF SeatDisk, TypeInv
<1>5. ListTyped  BY <1>1, <1>4 DEF ListTyped, TypeInv, SeatDisk
<1>6. \A d \in Disk : seat[d] # at  BY <1>2 DEF Acceptable, TakenOn
<1> HIDE DEF at
<1>7. Present(at[1])  BY <1>2 DEF Acceptable
<1>8. \A b : Present(b)' <=> Present(b)  BY DEF Present
<1>9. Places'
  <2>1. \A d \in Disk : seat'[d] # None => Present(seat'[d][1])
      BY <1>1, <1>3, <1>7 DEF Places
  <2>2. \A d, x \in Disk : d # x /\ seat'[d] # None => seat'[d] # seat'[x]
      BY <1>1, <1>3, <1>6 DEF Places
  <2>3. QED  BY <1>1, <1>8, <2>1, <2>2 DEF Places
<1>10. LeavesOthers(c)  BY <1>3 DEF LeavesOthers, SeatDisk
<1>11. QED  BY <1>2, <1>3, <1>5, <1>9, <1>10

LEMMA ReconfigureKeeps ==
    ASSUME AttachInv, NEW c \in Slot, Reconfigure(c)
    PROVE  AttachInv'
<1>1. /\ InFlight(c) /\ call[c].kind = "publish" /\ Is(c, "publish", "reconfigure")
      /\ UNCHANGED <<ctrls, faults>>
    BY DEF Reconfigure, Is, InFlight
<1>2. faults' \in 0..MaxFaults  BY <1>1, CallFacts
<1>3. CASE Acceptable(c) /\ SeatDisk(c) /\ Goto(c, "uuid")
  <2> DEFINE r == [call[c] EXCEPT !.pc = "uuid"]
  <2>1. ListTyped /\ Places' /\ LeavesOthers(c) /\ seat'[call[c].disk] # None
      BY <1>1, <1>2, <1>3, SeatFacts
  <2>2. GoesOn(c, r) /\ r.pc = "uuid"  BY <1>1, <1>3, GotoFacts
  <2>3. call'[c] = r /\ r.kind = "publish" /\ r.disk = call[c].disk
      BY <1>1, <2>2, GoesOnFacts, CallFacts DEF AttachInv, GoesOn, CallType
  <2> HIDE DEF r
  <2>4. AloneAt(c)' /\ DiskAt(c)'  BY <2>1, <2>2, <2>3 DEF AloneAt, DiskAt, Is, Removing
  <2>5. QED  BY <1>1, <2>1, <2>2, <2>4, StepKeeps
<1>4. CASE GiveUp(c) /\ UNCHANGED <<seat, stray>>
    BY <1>1, <1>2, <1>4, GiveUpFacts, QuietPassive DEF Quiet
<1>5. QED  BY <1>3, <1>4 DEF Reconfigure

LEMMA ReadUUIDKeeps ==
    ASSUME AttachInv, NEW c \in Slot, ReadUUID(c)
    PROVE  AttachInv'
BY CallFacts, EndsFacts, QuietPassive DEF ReadUUID, Is, InFlight, Quiet

(* The key of the device found is the seat of the disk. *)
LEMMA LookFinds ==
    ASSUME AttachInv, NEW c \in Slot, InFlight(c), NEW pc \in {"undoRemove", "remove"},
           pc = "undoRemove" => call[c].kind = "publish",
           pc = "remove" => call[c].kind = "unpublish",
           NEW at, at = seat[call[c].disk], at # None, Quiet, UNCHANGED faults,
           call' = [call EXCEPT ![c].pc = pc, ![c].bus = at[1], ![c].unit = at[2]]
    PROVE  AttachInv'
<1> DEFINE r == [call[c] EXCEPT !.pc = pc, !.bus = at[1], !.unit = at[2]]
<1>1. /\ call[c] \in CallType /\ CallShape(call[c]) /\ call \in [Slot -> CallType] /\ TypeInv
      /\ call[c].disk \in Disk
    BY CallFacts
<1>2. call' = [call EXCEPT ![c] = r]  BY <1>1
<1>3. at \in Seat  BY <1>1 DEF TypeInv
<1>4. at[1] \in Bus /\ at[2] \in Unit /\ at = <<at[1], at[2]>>  BY <1>3 DEF Seat
<1>5. /\ r \in CallType /\ r.kind = call[c].kind /\ r.disk = call[c].disk
      /\ r.met = call[c].met /\ r.alone = call[c].alone /\ r.pc = pc
      /\ r.bus = at[1] /\ r.unit = at[2]
    BY <1>1, <1>4 DEF CallType
<1> HIDE DEF r
<1>6. CallShape(r)  BY <1>1, <1>4, <1>5 DEF CallShape
<1>7. GoesOn(c, r) /\ call'[c] = r  BY <1>2, <1>5, <1>6, RecordGoesOn
<1>8. AloneAt(c)' /\ DiskAt(c)'
    BY <1>4, <1>5, <1>7 DEF AloneAt, DiskAt, Is, Removing, Quiet
<1>9. QED  BY <1>7, <1>8, QuietActive

LEMMA UndoKeeps ==
    ASSUME AttachInv, NEW c \in Slot, Undo(c)
    PROVE  AttachInv'
<1>1. /\ InFlight(c) /\ call[c].kind = "publish" /\ Quiet /\ UNCHANGED faults
    BY DEF Undo, Is, InFlight, Quiet
<1>2. faults' \in 0..MaxFaults  BY <1>1, CallFacts
<1>3. CASE GiveUp(c)  BY <1>1, <1>2, <1>3, GiveUpFacts, QuietPassive
<1>4. CASE ~GiveUp(c)
  <2> DEFINE at == seat[call[c].disk]
  <2>1. /\ at # None
        /\ call' = [call EXCEPT ![c].pc = "undoRemove", ![c].bus = at[1], ![c].unit = at[2]]
      BY <1>4 DEF Undo, DeviceByPath
  <2>2. QED  BY <1>1, <2>1, LookFinds
<1>5. QED  BY <1>3, <1>4

(* A device is removed by its key. *)
LEMMA RemoveFacts ==
    ASSUME AttachInv, NEW c \in Slot, InFlight(c), RemoveDevice(c), UNCHANGED ctrls,
           faults' \in 0..MaxFaults
    PROVE  ListTyped /\ Places' /\ LeavesOthers(c)
<1> DEFINE gone == {d \in Disk : seat[d] = <<call[c].bus, call[c].unit>>}
<1>1. TypeInv /\ Places  BY DEF AttachInv, Shape
<1>2. /\ seat' = [d \in Disk |-> IF d \in gone THEN None ELSE seat[d]]
      /\ stray' = stray \cup (gone \ {call[c].disk}) /\ gone \subseteq Disk
    BY DEF RemoveDevice
<1> HIDE DEF gone
<1>3. \A d \in Disk : seat'[d] = IF d \in gone THEN None ELSE seat[d]  BY <1>2
<1>4. \A b : Present(b)' <=> Present(b)  BY DEF Present
<1>5. seat' \in [Disk -> Seat \cup {None}]  BY <1>1, <1>2 DEF TypeInv
<1>6. ListTyped  BY <1>1, <1>2, <1>5 DEF ListTyped, TypeInv
<1>7. Places'  BY <1>1, <1>3, <1>4 DEF Places
<1>8. LeavesOthers(c)  BY <1>2, <1>3 DEF LeavesOthers
<1>9. QED  BY <1>6, <1>7, <1>8

LEMMA UndoRemoveKeeps ==
    ASSUME AttachInv, NEW c \in Slot, UndoRemove(c)
    PROVE  AttachInv'
<1>1. InFlight(c) /\ call[c].kind = "publish" /\ RemoveDevice(c) /\ GiveUp(c)
      /\ UNCHANGED <<ctrls, faults>>
    BY DEF UndoRemove, Is, InFlight
<1>2. ListTyped /\ Places' /\ LeavesOthers(c)  BY <1>1, CallFacts, RemoveFacts
<1>3. QED  BY <1>1, <1>2, GiveUpFacts, PassiveKeeps

(* The clean-up never takes away a controller that has devices. *)
LEMMA DeleteControllerKeeps ==
    ASSUME AttachInv, NEW c \in Slot, DeleteController(c)
    PROVE  AttachInv'
<1>1. InFlight(c) /\ Refuse(c) /\ UNCHANGED <<seat, faults, stray>>
    BY DEF DeleteController, Is, InFlight
<1>2. TypeInv /\ Places /\ faults' \in 0..MaxFaults /\ call[c].last # Boot
  <2>1. call[c] \in CallType  BY <1>1, CallFacts
  <2>2. None # Boot  BY ScsiAssumption
  <2>3. call[c].last # Boot  BY <2>1, <2>2 DEF CallType
  <2>4. QED  BY <1>1, <2>3, CallFacts DEF AttachInv, Shape
<1>3. CASE UNCHANGED ctrls
    BY <1>1, <1>2, <1>3, EndsFacts, QuietPassive DEF Quiet
<1>4. ASSUME NEW i \in 1..Len(ctrls), ctrls[i] = call[c].last, ctrls' = RemoveAt(ctrls, i),
             TakenOn(call[c].last) = {}
      PROVE  AttachInv'
  <2>1. ctrls' \in Seq(Bus) /\ \A x : Present(x) /\ x # ctrls[i] => Present(x)'
      BY <1>2, <1>4, RemoveAtFacts
  <2>2. ListTyped  BY <1>1, <1>2, <2>1 DEF ListTyped, TypeInv
  <2>3. \A s \in Taken : s[1] # call[c].last
    <3>1. \A s \in Taken : s # None  BY ScsiAssumption DEF Seat
    <3>2. QED  BY <1>4, <3>1 DEF TakenOn
  <2>4. \A d \in Disk : seat[d] # None => seat[d][1] # call[c].last  BY <1>4 DEF TakenOn
  <2>5. Places'  BY <1>1, <1>2, <1>4, <2>1, <2>3, <2>4 DEF Places
  <2>6. LeavesOthers(c)  BY <1>1 DEF LeavesOthers
  <2>7. QED  BY <1>1, <2>2, <2>5, <2>6, EndsFacts, PassiveKeeps
<1>5. QED  BY <1>3, <1>4 DEF DeleteController

-----------------------------------------------------------------------------
(* ControllerUnpublishVolume and DetachDisk. *)

LEMMA DetachLookKeeps ==
    ASSUME AttachInv, NEW c \in Slot, DetachLook(c)
    PROVE  AttachInv'
<1>1. /\ InFlight(c) /\ call[c].kind = "unpublish" /\ Quiet /\ UNCHANGED faults
    BY DEF DetachLook, Is, InFlight, Quiet
<1>2. faults' \in 0..MaxFaults  BY <1>1, CallFacts
<1>3. CASE Return(c)  BY <1>1, <1>2, <1>3, EndsFacts, QuietPassive
<1>4. CASE ~Return(c)
  <2> DEFINE at == seat[call[c].disk]
  <2>1. /\ at # None
        /\ call' = [call EXCEPT ![c].pc = "remove", ![c].bus = at[1], ![c].unit = at[2]]
      BY <1>4 DEF DetachLook, DeviceByPath
  <2>2. QED  BY <1>1, <2>1, LookFinds
<1>5. QED  BY <1>3, <1>4

LEMMA DetachRemoveKeeps ==
    ASSUME AttachInv, NEW c \in Slot, DetachRemove(c)
    PROVE  AttachInv'
<1>1. InFlight(c) /\ UNCHANGED <<ctrls, faults>>  BY DEF DetachRemove, Is, InFlight
<1>2. faults' \in 0..MaxFaults  BY <1>1, CallFacts
<1>3. CASE RemoveDevice(c) /\ Return(c)
  <2>1. ListTyped /\ Places' /\ LeavesOthers(c)  BY <1>1, <1>2, <1>3, RemoveFacts
  <2>2. QED  BY <1>1, <1>3, <2>1, EndsFacts, PassiveKeeps
<1>4. CASE Refuse(c) /\ UNCHANGED <<seat, stray>>
    BY <1>1, <1>2, <1>4, EndsFacts, QuietPassive DEF Quiet
<1>5. QED  BY <1>3, <1>4 DEF DetachRemove

-----------------------------------------------------------------------------
(* Faults. *)

LEMMA FaultKeeps ==
    ASSUME AttachInv, NEW c \in Slot, Fault(c)
    PROVE  AttachInv'
<1>1. InFlight(c) /\ Fails(c) /\ Quiet /\ faults < MaxFaults /\ faults' = faults + 1
    BY DEF Fault, InFlight, Quiet
<1>2. faults' \in 0..MaxFaults  BY <1>1, CallFacts, ScsiAssumption
<1>3. QED  BY <1>1, <1>2, FailsFacts, QuietPassive

LEMMA LostAnswerKeeps ==
    ASSUME AttachInv, NEW c \in Slot, LostAnswer(c)
    PROVE  AttachInv'
<1>1. /\ Fails(c) /\ faults < MaxFaults /\ faults' = faults + 1
    BY DEF LostAnswer
<1>2. InFlight(c)  BY DEF LostAnswer, Is, InFlight
<1>3. faults' \in 0..MaxFaults  BY <1>1, <1>2, CallFacts, ScsiAssumption
<1>4. ListTyped /\ Places' /\ LeavesOthers(c)
  <2>1. CASE /\ Is(c, "publish", "add") /\ ~Present(call[c].bus)
             /\ ctrls' = Append(ctrls, call[c].bus) /\ UNCHANGED <<seat, stray>>
    <3>1. call[c].bus \in Bus  BY <1>2, <2>1, CallFacts DEF CallShape, Is
    <3>2. QED  BY <1>1, <1>3, <2>1, <3>1, AddedFacts
  <2>2. CASE /\ Is(c, "publish", "reconfigure") /\ Acceptable(c)
             /\ SeatDisk(c) /\ UNCHANGED ctrls
      BY <1>1, <1>3, <2>2, SeatFacts
  <2>3. CASE RemoveDevice(c) /\ UNCHANGED ctrls  BY <1>1, <1>2, <1>3, <2>3, RemoveFacts
  <2>4. QED  BY <2>1, <2>2, <2>3 DEF LostAnswer
<1>5. QED  BY <1>1, <1>2, <1>4, FailsFacts, PassiveKeeps

LEMMA CrashKeeps ==
    ASSUME AttachInv, Crash
    PROVE  AttachInv'
<1>1. /\ Quiet /\ faults < MaxFaults /\ faults' = faults + 1 /\ call' = [c \in Slot |-> Idle]
    BY DEF Crash, Quiet
<1>2. TypeInv  BY DEF AttachInv, Shape
<1>3. faults' \in 0..MaxFaults  BY <1>1, <1>2, ScsiAssumption DEF TypeInv
<1>4. ListTyped /\ Places'  BY <1>1, <1>3, QuietFacts
<1>5. Idle \in CallType /\ Idle.kind = "none" /\ Idle.pc = "idle" /\ Idle.disk = None
    BY DEF Idle, CallType
<1>6. CallShape(Idle)  BY <1>5 DEF CallShape
<1>7. call' \in [Slot -> CallType] /\ \A c \in Slot : call'[c] = Idle  BY <1>1, <1>5
<1>8. Shape'  BY <1>4, <1>6, <1>7 DEF Shape, TypeInv, ListTyped, CallShape
<1>9. AloneKnows' /\ DiskKnows'
    BY <1>5, <1>7 DEF AloneKnows, AloneOf, DiskKnows, DiskOf, InFlight
<1>10. QED  BY <1>4, <1>8, <1>9 DEF AttachInv

(* Steps that leave the calls, the list and the disks alone. *)
LEMMA IdleKeeps ==
    ASSUME AttachInv, UNCHANGED <<ctrls, seat, call, faults, stray>>
    PROVE  AttachInv'
<1>1. \A b : (Present(b)' <=> Present(b)) /\ TakenOn(b)' = TakenOn(b)
    BY DEF Present, TakenOn
<1>2. OfType' = OfType /\ Available' = Available  BY <1>1 DEF OfType, Available
<1>3. Shape'  BY DEF AttachInv, Shape, TypeInv, CallShape
<1>4. Places'  BY <1>1 DEF AttachInv, Places
<1>5. AloneKnows'
  <2>1. \A S : FullBut(S)' <=> FullBut(S)  BY <1>2 DEF FullBut
  <2>2. \A c \in Slot : Acceptable(c)' <=> Acceptable(c)  BY <1>1 DEF Acceptable
  <2>3. \A c \in Slot : AloneAt(c) => AloneAt(c)'  BY <1>1, <2>1, <2>2 DEF AloneAt
  <2>4. QED  BY <2>3 DEF AttachInv, AloneKnows, AloneOf, InFlight
<1>6. DiskKnows'
    BY DEF AttachInv, DiskKnows, DiskOf, DiskAt, InFlight, Is, Removing
<1>7. QED  BY <1>3, <1>4, <1>5, <1>6 DEF AttachInv

LEMMA WishKeeps ==
    ASSUME AttachInv, NEW d \in Disk, Wish(d)
    PROVE  AttachInv'
BY IdleKeeps DEF Wish

-----------------------------------------------------------------------------
(* The theorems. *)

LEMMA AttachInit ==
    ASSUME Init
    PROVE  AttachInv
<1>1. ctrls \in Seq(Bus) /\ Present(Boot) /\ \A s \in Taken : Present(s[1])
    BY InitList DEF Init
<1>2. Idle \in CallType /\ Idle.kind = "none" /\ Idle.pc = "idle" /\ Idle.disk = None
    BY DEF Idle, CallType
<1>3. CallShape(Idle)  BY <1>2 DEF CallShape
<1>4. call \in [Slot -> CallType] /\ \A c \in Slot : call[c] = Idle  BY <1>2 DEF Init
<1>5. Shape  BY <1>1, <1>3, <1>4, ScsiAssumption DEF Init, Shape, TypeInv
<1>6. Places  BY <1>1 DEF Init, Places
<1>7. AloneKnows /\ DiskKnows
    BY <1>2, <1>4 DEF AloneKnows, AloneOf, DiskKnows, DiskOf, InFlight
<1>8. QED  BY <1>5, <1>6, <1>7 DEF AttachInv

LEMMA AttachNext ==
    ASSUME AttachInv, [Next]_vars
    PROVE  AttachInv'
<1>1. ASSUME NEW c \in Slot, Step(c)  PROVE AttachInv'
    BY <1>1, AttachCheckKeeps, CreateDiskSpecKeeps, CreateControllerKeeps, AddControllerKeeps,
       RereadKeeps, ListDevicesKeeps, ReconfigureKeeps, ReadUUIDKeeps, UndoKeeps,
       UndoRemoveKeeps, DeleteControllerKeeps, DetachLookKeeps, DetachRemoveKeeps DEF Step
<1>2. ASSUME NEW c \in Slot, NEW d \in Disk, BeginPublish(c, d) \/ BeginUnpublish(c, d)
      PROVE  AttachInv'
    BY <1>2, BeginKeeps DEF BeginPublish, BeginUnpublish
<1>3. CASE UNCHANGED vars
  <2>1. UNCHANGED <<ctrls, seat, call, faults, stray>>  BY <1>3 DEF vars
  <2>2. QED  BY <2>1, IdleKeeps
<1>4. QED  BY <1>1, <1>2, <1>3, FaultKeeps, LostAnswerKeeps, CrashKeeps, WishKeeps DEF Next

(* What holds in every state, by induction over the steps of the calls and *)
(* the faults.                                                             *)
THEOREM AttachInvariant == Spec => []AttachInv
<1>1. Init => AttachInv  BY AttachInit
<1>2. AttachInv /\ [Next]_vars => AttachInv'  BY AttachNext
<1>3. QED  BY <1>1, <1>2, PTL DEF Spec

(* What the caller wants of a disk, or was told last. *)
Wanted == want \in [Disk -> {"idle", "up", "attached", "down", "detached"}]

LEMMA WantedNext ==
    ASSUME Wanted, [Next]_vars
    PROVE  Wanted'
<1>1. ASSUME UNCHANGED want  PROVE Wanted'  BY <1>1 DEF Wanted
<1>2. ASSUME NEW c \in Slot, Return(c)  PROVE Wanted'  BY <1>2 DEF Return, Wanted
<1>3. ASSUME NEW c \in Slot, Step(c)  PROVE Wanted'
    BY <1>1, <1>2, <1>3
       DEF Step, AttachCheck, CreateDiskSpec, CreateController, AddController, Reread,
           ListDevices, Reconfigure, ReadUUID, Undo, UndoRemove, DeleteController,
           DetachLook, DetachRemove
<1>4. ASSUME NEW d \in Disk, Wish(d)  PROVE Wanted'  BY <1>4 DEF Wish, Wanted
<1>5. ASSUME NEW c \in Slot, NEW d \in Disk, BeginPublish(c, d) \/ BeginUnpublish(c, d)
      PROVE  Wanted'
    BY <1>5 DEF BeginPublish, BeginUnpublish, Wanted
<1>6. QED
    BY <1>1, <1>3, <1>4, <1>5 DEF Next, Fault, LostAnswer, Crash, vars

(* The variables of Attach keep their types, every call has what its       *)
(* control point needs, disks are on controllers that exist and no two of  *)
(* them on one unit, whatever calls race (virtualmachine.go:63-178).       *)
THEOREM AttachTypes == Spec => [](Shape /\ Places /\ Wanted)
<1>1. AttachInv => Shape /\ Places  BY DEF AttachInv
<1>2. Init => Wanted  BY DEF Init, Wanted
<1>3. Wanted /\ [Next]_vars => Wanted'  BY WantedNext
<1>4. QED  BY <1>1, <1>2, <1>3, AttachInvariant, PTL DEF Spec

(* What a call that is alone asks of vCenter is not refused, for every     *)
(* number of controllers, units, disks and calls                           *)
(* (virtualmachine.go:246-284, 326-350).                                   *)
THEOREM NoLoneRefusal == Spec => []RefusedOnlyInRaces
<1>1. ASSUME AttachInv  PROVE RefusedOnlyInRaces
  <2> SUFFICES ASSUME NEW c \in Slot, call[c].alone
               PROVE  /\ Is(c, "publish", "reconfigure") => Acceptable(c)
                      /\ Is(c, "publish", "add") => ~Present(call[c].bus)
                      /\ Is(c, "publish", "reread") =>
                            Available # {} /\ FirstAvailable \notin call[c].old
      BY DEF RefusedOnlyInRaces
  <2>1. Is(c, "publish", "reconfigure") => Acceptable(c)
      BY <1>1, CallFacts DEF Is, InFlight, AloneAt
  <2>2. Is(c, "publish", "add") => ~Present(call[c].bus)
      BY <1>1, CallFacts DEF Is, InFlight, AloneAt
  <2>3. QED  BY <1>1, <2>1, <2>2, RereadFinds
<1>2. QED  BY <1>1, AttachInvariant, PTL

(* The steps of a call. *)
Acts(c) == Step(c) \/ Fault(c) \/ LostAnswer(c)

LEMMA OthersStay ==
    ASSUME AttachInv, NEW x \in Slot, Acts(x), NEW c \in Slot, c # x
    PROVE  call'[c] = call[c]
<1>1. call \in [Slot -> CallType]  BY DEF AttachInv, Shape, TypeInv
<1>2. ASSUME Fails(x)  PROVE call'[c] = call[c]
    BY <1>1, <1>2 DEF Fails, Goto, Refuse, GiveUp
<1>3. ASSUME Refuse(x) \/ Return(x) \/ GiveUp(x) \/ (\E pc : Goto(x, pc))
      PROVE  call'[c] = call[c]
    BY <1>1, <1>3 DEF Goto, Refuse, Return, GiveUp
<1>4. CASE CreateDiskSpec(x)  BY <1>1, <1>4 DEF CreateDiskSpec
<1>5. CASE CreateController(x)  BY <1>1, <1>3, <1>5 DEF CreateController
<1>6. CASE AddController(x)  BY <1>1, <1>3, <1>6 DEF AddController
<1>7. CASE Reread(x)  BY <1>1, <1>3, <1>7 DEF Reread
<1>8. CASE ListDevices(x)  BY <1>1, <1>8 DEF ListDevices
<1>9. CASE Undo(x)
  <2> DEFINE at == DeviceByPath(call[x].disk)
  <2>1. \/ GiveUp(x)
        \/ call' = [call EXCEPT ![x].pc = "undoRemove", ![x].bus = at[1], ![x].unit = at[2]]
      BY <1>9 DEF Undo
  <2>2. QED  BY <1>1, <1>3, <2>1
<1>10. CASE DetachLook(x)
  <2> DEFINE at == DeviceByPath(call[x].disk)
  <2>1. \/ Return(x)
        \/ call' = [call EXCEPT ![x].pc = "remove", ![x].bus = at[1], ![x].unit = at[2]]
      BY <1>10 DEF DetachLook
  <2>2. QED  BY <1>1, <1>3, <2>1
<1>11. CASE AttachCheck(x) \/ Reconfigure(x) \/ ReadUUID(x) \/ UndoRemove(x)
            \/ DeleteController(x) \/ DetachRemove(x)
    BY <1>3, <1>11
       DEF AttachCheck, Reconfigure, ReadUUID, UndoRemove, DeleteController, DetachRemove
<1>12. CASE Fault(x) \/ LostAnswer(x)  BY <1>2, <1>12 DEF Fault, LostAnswer
<1>13. QED
    BY <1>4, <1>5, <1>6, <1>7, <1>8, <1>9, <1>10, <1>11, <1>12 DEF Acts, Step

(* A call in flight is answered only by a step of its own. *)
LEMMA AnswerIsOwn ==
    ASSUME AttachInv, [Next]_vars, NEW c \in Slot, InFlight(c), call'[c] = Finished
    PROVE  Acts(c)
<1>1. Finished.kind = "none" /\ Finished.pc = "ok"  BY DEF Finished, Idle
<1>2. call[c] # Finished  BY <1>1 DEF InFlight
<1>3. ASSUME NEW x \in Slot, Acts(x)  PROVE Acts(c)
    BY <1>2, <1>3, OthersStay
<1>4. ASSUME NEW x \in Slot, NEW d \in Disk, NEW k \in {"publish", "unpublish"}, Begin(x, k, d)
      PROVE  FALSE
  <2>1. x # c  BY <1>4 DEF Begin, InFlight
  <2>2. \E a, b : call'[c] = [call[c] EXCEPT !.met = a, !.alone = b]
      BY <1>4, <2>1 DEF Begin, InFlight
  <2>3. call[c] \in CallType  BY CallFacts
  <2>4. call'[c].kind = call[c].kind  BY <2>2, <2>3 DEF CallType
  <2>5. QED  BY <1>1, <2>4 DEF InFlight
<1>5. ~Crash
  <2>1. Idle.pc = "idle"  BY DEF Idle
  <2>2. QED  BY <1>1, <2>1 DEF Crash
<1>6. ASSUME UNCHANGED call  PROVE FALSE  BY <1>2, <1>6
<1>7. QED
    BY <1>3, <1>4, <1>5, <1>6 DEF Next, Acts, BeginPublish, BeginUnpublish, Wish, vars

(* Where a call answers that it has succeeded. *)
LEMMA AnswerPoints ==
    ASSUME AttachInv, NEW c \in Slot, InFlight(c), Acts(c), call'[c] = Finished
    PROVE  \/ AttachCheck(c) /\ seat[call[c].disk] # None
           \/ ReadUUID(c)
           \/ DetachLook(c) /\ seat[call[c].disk] = None
           \/ DetachRemove(c) /\ RemoveDevice(c)
<1>1. call \in [Slot -> CallType]  BY DEF AttachInv, Shape, TypeInv
<1>2. Finished.pc = "ok" /\ Idle.pc = "idle"  BY DEF Finished, Idle
<1>3. ASSUME Refuse(c)  PROVE FALSE
  <2>1. call'[c] = Idle  BY <1>1, <1>3 DEF Refuse
  <2>2. QED  BY <1>2, <2>1
<1>4. ASSUME NEW pc, Goto(c, pc), pc # "ok"  PROVE FALSE
  <2>1. call'[c].pc = pc  BY <1>1, <1>4 DEF Goto, CallType
  <2>2. QED  BY <1>2, <1>4, <2>1
<1>5. ASSUME GiveUp(c)  PROVE FALSE  BY <1>3, <1>4, <1>5 DEF GiveUp
<1>6. ASSUME Fails(c)  PROVE FALSE
    BY <1>3, <1>4, <1>5, <1>6 DEF Fails
<1>7. ASSUME CreateDiskSpec(c)  PROVE FALSE
  <2>1. call'[c].pc \in {"reconfigure", "create"}
      BY <1>1, <1>7 DEF CreateDiskSpec, CallType
  <2>2. QED  BY <1>2, <2>1
<1>8. ASSUME CreateController(c)  PROVE FALSE
  <2>1. Refuse(c) \/ call'[c].pc = "add"
      BY <1>1, <1>8 DEF CreateController, CallType
  <2>2. QED  BY <1>2, <1>3, <2>1
<1>9. ASSUME AddController(c)  PROVE FALSE
  <2>1. Goto(c, "clean") \/ call'[c].pc = "reread"
      BY <1>1, <1>9 DEF AddController, CallType
  <2>2. QED  BY <1>2, <1>4, <2>1
<1>10. ASSUME Reread(c)  PROVE FALSE
  <2>1. Refuse(c) \/ call'[c].pc \in {"clean", "list"}
      BY <1>1, <1>10 DEF Reread, CallType
  <2>2. QED  BY <1>2, <1>3, <2>1
<1>11. ASSUME ListDevices(c)  PROVE FALSE
  <2>1. call'[c].pc = "reconfigure"  BY <1>1, <1>11 DEF ListDevices, CallType
  <2>2. QED  BY <1>2, <2>1
<1>12. ASSUME Undo(c)  PROVE FALSE
  <2> DEFINE at == DeviceByPath(call[c].disk)
  <2>1. \/ GiveUp(c)
        \/ call' = [call EXCEPT ![c].pc = "undoRemove", ![c].bus = at[1], ![c].unit = at[2]]
      BY <1>12 DEF Undo
  <2>2. GiveUp(c) \/ call'[c].pc = "undoRemove"  BY <1>1, <2>1 DEF CallType
  <2>3. QED  BY <1>2, <1>5, <2>2
<1>13. ASSUME DetachLook(c)  PROVE seat[call[c].disk] = None
  <2> DEFINE at == DeviceByPath(call[c].disk)
  <2>1. \/ at = None
        \/ call' = [call EXCEPT ![c].pc = "remove", ![c].bus = at[1], ![c].unit = at[2]]
      BY <1>13 DEF DetachLook
  <2>2. at = None \/ call'[c].pc = "remove"  BY <1>1, <2>1 DEF CallType
  <2>3. QED  BY <1>2, <2>2 DEF DeviceByPath
<1>14. ASSUME AttachCheck(c)  PROVE seat[call[c].disk] # None
    BY <1>4, <1>14 DEF AttachCheck, DeviceByPath
<1>15. ASSUME Reconfigure(c) \/ UndoRemove(c) \/ DeleteController(c)  PROVE FALSE
    BY <1>3, <1>4, <1>5, <1>15 DEF Reconfigure, UndoRemove, DeleteController
<1>16. ASSUME DetachRemove(c)  PROVE RemoveDevice(c)
    BY <1>3, <1>16 DEF DetachRemove
<1>17. ASSUME Fault(c) \/ LostAnswer(c)  PROVE FALSE
    BY <1>6, <1>17 DEF Fault, LostAnswer
<1>18. QED
    BY <1>7, <1>8, <1>9, <1>10, <1>11, <1>12, <1>13, <1>14, <1>15, <1>16, <1>17 DEF Acts, Step

LEMMA AnswerTrue ==
    ASSUME AttachInv, [Next]_vars, NEW c \in Slot, NEW d \in Disk
    PROVE  /\ Succeeds(c, "publish", d) => call[c].met \/ d \in stray \/ seat'[d] # None
           /\ Succeeds(c, "unpublish", d) => call[c].met \/ seat'[d] = None
<1> SUFFICES ASSUME InFlight(c), call'[c] = Finished, call[c].disk = d, ~call[c].met
             PROVE  /\ call[c].kind = "publish" => d \in stray \/ seat'[d] # None
                    /\ call[c].kind = "unpublish" => seat'[d] = None
    BY DEF Succeeds, Is, InFlight
<1>1. DiskAt(c)  BY CallFacts
<1>2. CASE AttachCheck(c) /\ seat[d] # None
    BY <1>2 DEF AttachCheck, Is
<1>3. CASE ReadUUID(c)  BY <1>1, <1>3 DEF ReadUUID, Is, DiskAt
<1>4. CASE DetachLook(c) /\ seat[d] = None  BY <1>4 DEF DetachLook, Is
<1>5. CASE DetachRemove(c) /\ RemoveDevice(c)
  <2>1. seat[d] = <<call[c].bus, call[c].unit>> \/ seat[d] = None
      BY <1>1, <1>5 DEF DetachRemove, Is, DiskAt, Removing
  <2>2. seat'[d] = None  BY <1>5, <2>1 DEF RemoveDevice
  <2>3. QED  BY <1>5, <2>2 DEF DetachRemove, Is
<1>6. QED  BY <1>2, <1>3, <1>4, <1>5, AnswerIsOwn, AnswerPoints

(* A publish that succeeds leaves the disk attached and an unpublish       *)
(* detached, unless another call for the disk was in flight or a stale key *)
(* has hit it (virtualmachine.go:63-178, controller.go:300-403).           *)
THEOREM AnswersTrue == Spec => AnswersSound
<1> DEFINE A == \A c \in Slot, d \in Disk :
                   /\ Succeeds(c, "publish", d) => call[c].met \/ d \in stray \/ seat'[d] # None
                   /\ Succeeds(c, "unpublish", d) => call[c].met \/ seat'[d] = None
<1>1. ASSUME AttachInv, [Next]_vars  PROVE [A]_vars
    BY <1>1, AnswerTrue
<1>2. QED  BY <1>1, AttachInvariant, PTL DEF Spec, AnswersSound

(* A device removed by a call that has met no other is its own disk. *)
LEMMA RemovesOwn ==
    ASSUME AttachInv, NEW c \in Slot, InFlight(c), call[c].pc \in {"undoRemove", "remove"},
           RemoveDevice(c), NEW d \in Disk, seat[d] # None, seat'[d] = None
    PROVE  call[c].disk = d \/ call[c].met \/ call[c].disk \in stray
<1>1. seat[d] = <<call[c].bus, call[c].unit>>  BY DEF RemoveDevice
<1> SUFFICES ASSUME ~call[c].met, call[c].disk \notin stray  PROVE call[c].disk = d
    OBVIOUS
<1>2. call[c].disk \in Disk /\ DiskAt(c)  BY CallFacts
<1>3. seat[call[c].disk] = seat[d]  BY <1>1, <1>2 DEF DiskAt, Removing, InFlight
<1>4. QED  BY <1>2, <1>3 DEF AttachInv, Places

LEMMA TakenOffBy ==
    ASSUME AttachInv, [Next]_vars, NEW d \in Disk, seat[d] # None, seat'[d] = None
    PROVE  \E c \in Slot : /\ call'[c] # call[c]
                           /\ call[c].disk = d \/ call[c].met \/ call[c].disk \in stray
<1>1. ASSUME NEW c \in Slot, Acts(c), UNCHANGED seat  PROVE FALSE  BY <1>1
<1>2. call \in [Slot -> CallType] /\ seat \in [Disk -> Seat \cup {None}]
    BY DEF AttachInv, Shape, TypeInv
<1>3. /\ Finished.kind = "none" /\ Idle.kind = "none"  BY DEF Finished, Idle
<1>4. ASSUME NEW c \in Slot, SeatDisk(c), Is(c, "publish", "reconfigure")  PROVE FALSE
  <2>1. call[c].bus \in Bus /\ call[c].unit \in Unit
      BY <1>4, CallFacts DEF Is, InFlight, CallShape, FreeSlot
  <2>2. <<call[c].bus, call[c].unit>> # None  BY <2>1, ScsiAssumption DEF Seat
  <2>3. seat'[d] = seat[d] \/ seat'[d] = <<call[c].bus, call[c].unit>>
      BY <1>2, <1>4 DEF SeatDisk
  <2>4. QED  BY <2>2, <2>3
<1>5. ASSUME NEW c \in Slot, Refuse(c) \/ Return(c) \/ (GiveUp(c) /\ call[c].pc # "clean"),
             InFlight(c)
      PROVE  call'[c] # call[c]
  <2>1. CASE Refuse(c) \/ Return(c)
    <3>1. call'[c].kind = "none"  BY <1>2, <1>3, <2>1 DEF Refuse, Return
    <3>2. QED  BY <1>5, <3>1 DEF InFlight
  <2>2. CASE Goto(c, "clean") /\ call[c].pc # "clean"
    <3>1. call'[c].pc = "clean"  BY <1>2, <2>2 DEF Goto, CallType
    <3>2. QED  BY <2>2, <3>1
  <2>3. QED  BY <1>5, <2>1, <2>2 DEF GiveUp
<1>6. ASSUME NEW c \in Slot, InFlight(c), call[c].pc \in {"undoRemove", "remove"},
             RemoveDevice(c), Refuse(c) \/ Return(c) \/ GiveUp(c)
      PROVE  /\ call'[c] # call[c]
             /\ call[c].disk = d \/ call[c].met \/ call[c].disk \in stray
    BY <1>5, <1>6, RemovesOwn
<1>7. ASSUME NEW c \in Slot, UndoRemove(c)
      PROVE  /\ call'[c] # call[c]
             /\ call[c].disk = d \/ call[c].met \/ call[c].disk \in stray
    BY <1>6, <1>7 DEF UndoRemove, Is, InFlight
<1>8. ASSUME NEW c \in Slot, DetachRemove(c)
      PROVE  /\ call'[c] # call[c]
             /\ call[c].disk = d \/ call[c].met \/ call[c].disk \in stray
    BY <1>6, <1>8 DEF DetachRemove, Is, InFlight
<1>9. ASSUME NEW c \in Slot, LostAnswer(c)
      PROVE  /\ call'[c] # call[c]
             /\ call[c].disk = d \/ call[c].met \/ call[c].disk \in stray
  <2>1. Is(c, "unpublish", "remove") /\ RemoveDevice(c) /\ Fails(c)
      BY <1>4, <1>9 DEF LostAnswer
  <2>2. Refuse(c)  BY <2>1 DEF Fails, Is
  <2>3. QED  BY <1>6, <2>1, <2>2 DEF Is, InFlight
<1>10. ASSUME NEW c \in Slot, Reconfigure(c)  PROVE FALSE
    BY <1>4, <1>10 DEF Reconfigure
<1>11. \/ UNCHANGED seat
       \/ \E c \in Slot : UndoRemove(c) \/ DetachRemove(c) \/ LostAnswer(c) \/ Reconfigure(c)
    BY DEF Next, Step, AttachCheck, CreateDiskSpec, CreateController, AddController, Reread,
       ListDevices, ReadUUID, Undo, DeleteController, DetachLook, Fault, Crash, Wish,
       BeginPublish, BeginUnpublish, Begin, vars
<1>12. QED  BY <1>7, <1>8, <1>9, <1>10, <1>11

(* A disk is taken off the VM only by a call for that disk, unless         *)
(* overlapping calls detach one disk twice (virtualmachine.go:158-178,     *)
(* 415-427).                                                               *)
THEOREM DisksUndisturbed == Spec => Undisturbed
<1> DEFINE A == \A d \in Disk : seat[d] # None /\ seat'[d] = None =>
                   \E c \in Slot : /\ call'[c] # call[c]
                                   /\ call[c].disk = d \/ call[c].met \/ call[c].disk \in stray
<1>1. ASSUME AttachInv, [Next]_vars  PROVE [A]_vars
    BY <1>1, TakenOffBy
<1>2. QED  BY <1>1, AttachInvariant, PTL DEF Spec, Undisturbed
=============================================================================
