------------------------------- MODULE Attach -------------------------------
(***************************************************************************)
(* ControllerPublishVolume and ControllerUnpublishVolume of the CSI        *)
(* controller, down to AttachDisk and DetachDisk of                        *)
(* pkg/common/vclib/virtualmachine.go: disks on the SCSI controllers of    *)
(* one VM.  Every call reads the VM's device list, chooses a controller    *)
(* and a unit, perhaps adds a controller, and only then reconfigures the   *)
(* VM; nothing orders the calls for different disks.                       *)
(***************************************************************************)
EXTENDS Naturals, Sequences, FiniteSets, SequencesExt

CONSTANTS Disk,
          Slot,                       \* calls that may be in flight at once
          Boot,                       \* the bus of a controller of another type
          Taken,                      \* seats of devices that are no volumes
          SCSIControllerLimit,        \* 4
          SCSIControllerDeviceLimit,  \* 15
          SCSIDeviceSlots,            \* 16
          SCSIReservedSlot,           \* 7
          MaxFaults,                  \* bound on faults and overlapping calls
          None

Bus  == 0..SCSIControllerLimit - 1
Unit == 0..SCSIDeviceSlots - 1
Seat == Bus \X Unit

ASSUME ScsiAssumption ==
    /\ SCSIControllerLimit \in Nat /\ Boot \in Bus
    /\ SCSIDeviceSlots \in Nat /\ SCSIDeviceSlots > 1 /\ SCSIReservedSlot \in Unit
    /\ SCSIControllerDeviceLimit = SCSIDeviceSlots - 1
    /\ Taken \subseteq (Bus \ {Boot}) \X (Unit \ {SCSIReservedSlot})
    /\ MaxFaults \in Nat
    /\ None \notin Bus \cup Unit \cup Seat \cup Disk

VARIABLES
    ctrls,   \* the buses of the VM's SCSI controllers, in the order of the list
    seat,    \* where each disk is attached, None if it is not
    call,    \* the calls in flight
    want,    \* environment: what the caller wants of each disk, or was told last
    faults,  \* faults so far
    stray    \* history: the disks that a call for another disk took off

vars == <<ctrls, seat, call, want, faults, stray>>

(* A call: its disk, control point, chosen controller and unit, the        *)
(* controllers its first device list had, whether it has added one and the *)
(* one it would remove, whether a call for the same disk, or for any disk, *)
(* was in flight with it.                                                  *)
Idle == [kind |-> "none", disk |-> None, pc |-> "idle", bus |-> None, unit |-> None,
         old |-> {}, made |-> FALSE, last |-> None, met |-> FALSE, alone |-> TRUE]
Finished == [Idle EXCEPT !.pc = "ok"]

-----------------------------------------------------------------------------
(* The device list (utils.go). *)

TakenOn(b) == {s \in Taken \cup {seat[d] : d \in Disk} : s # None /\ s[1] = b}

(* getSCSIControllersOfType: their indices in the list. *)
OfType == {i \in 1..Len(ctrls) : ctrls[i] # Boot}

(* getAvailableSCSIController: the first that has less than 15 devices. *)
Available == {i \in OfType : Cardinality(TakenOn(ctrls[i])) < SCSIControllerDeviceLimit}
FirstAvailable == ctrls[CHOOSE i \in Available : \A j \in Available : i <= j]

(* Mutant of FreeUnits: the reserved unit is handed out. *)
FreeUnitsAll(b) == Unit \ {s[2] : s \in TakenOn(b)}

(* getNextUnitNumber: the least unit that is neither taken nor reserved. *)
FreeUnits(b) == Unit \ ({SCSIReservedSlot} \cup {s[2] : s \in TakenOn(b)})

(* Mutant of NextUnit: the number of devices, as if units had no gaps. *)
NextUnitCounted(b) == Cardinality(TakenOn(b))

NextUnit(b) == CHOOSE u \in FreeUnits(b) : \A x \in FreeUnits(b) : u <= x

(* getVirtualDeviceByPath: the device whose backing is the disk's file. *)
DeviceByPath(d) == seat[d]

Present(b) == \E i \in 1..Len(ctrls) : ctrls[i] = b

(* The device deleteController would remove: the last one of the type. *)
LastOfType == IF OfType = {} THEN None
              ELSE ctrls[CHOOSE i \in OfType : \A j \in OfType : j <= i]

-----------------------------------------------------------------------------
Init ==
    /\ ctrls = <<Boot>> \o SetToSeq({s[1] : s \in Taken})
    /\ seat = [d \in Disk |-> None]
    /\ call = [c \in Slot |-> Idle]
    /\ want = [d \in Disk |-> "idle"]
    /\ faults = 0
    /\ stray = {}

Is(c, k, pc) == call[c].kind = k /\ call[c].pc = pc
Goto(c, pc)  == call' = [call EXCEPT ![c].pc = pc]
Refuse(c)    == call' = [call EXCEPT ![c] = Idle]

(* The call succeeds, and the caller, told what it wants to hear, calls no *)
(* more; it may have given up on a call that it has repeated.              *)
Return(c) ==
    /\ call' = [call EXCEPT ![c] = Finished]
    /\ \/ want' = [want EXCEPT ![call[c].disk] =
                      IF call[c].kind = "publish" /\ @ = "up" THEN "attached"
                      ELSE IF call[c].kind = "unpublish" /\ @ = "down" THEN "detached"
                      ELSE @]
       \/ call[c].met /\ UNCHANGED want

(* The caller publishes a disk it wants and unpublishes one it does not    *)
(* want any more, also when it has been told before that this is done; a   *)
(* call for a disk that has one in flight follows a timeout.               *)
Begin(c, k, d) ==
    LET same == {x \in Slot : call[x].disk = d}
        busy == {x \in Slot : call[x].kind # "none"}
    IN
    /\ call[c].kind = "none"
    /\ IF same = {} THEN UNCHANGED faults ELSE faults < MaxFaults /\ faults' = faults + 1
    /\ call' = [x \in Slot |->
                  IF x = c THEN [Idle EXCEPT !.kind = k, !.disk = d, !.pc = "start",
                                             !.met = (same # {}), !.alone = (busy = {})]
                  ELSE IF x \in busy
                    THEN [call[x] EXCEPT !.met = @ \/ x \in same, !.alone = FALSE]
                  ELSE call[x]]
    /\ UNCHANGED <<ctrls, seat, stray>>

BeginPublish(c, d) ==
    /\ want[d] \in {"up", "attached"} /\ want' = [want EXCEPT ![d] = "up"]
    /\ Begin(c, "publish", d)

BeginUnpublish(c, d) ==
    /\ want[d] \in {"down", "detached"} /\ want' = [want EXCEPT ![d] = "down"]
    /\ Begin(c, "unpublish", d)

-----------------------------------------------------------------------------
(* ControllerPublishVolume and AttachDisk. *)

(* The disk and the VM are found; a disk that is attached already returns  *)
(* at once (whether or not its UUID can be read).                          *)
AttachCheck(c) ==
    /\ Is(c, "publish", "start")
    /\ IF DeviceByPath(call[c].disk) # None THEN Return(c)
                                             ELSE Goto(c, "spec") /\ UNCHANGED want
    /\ UNCHANGED <<ctrls, seat, faults, stray>>

(* CreateDiskSpec: a controller with room and its next unit, or no room.   *)
(* The list read before Reconfigure only matters to a clean-up, which only *)
(* a call that has added a controller makes (ListDevices).                 *)
CreateDiskSpec(c) ==
    /\ Is(c, "publish", "spec")
    /\ call' = IF Available # {}
                 THEN [call EXCEPT ![c].pc = "reconfigure", ![c].bus = FirstAvailable,
                                   ![c].unit = NextUnit(FirstAvailable)]
                 ELSE [call EXCEPT ![c].pc = "create",
                                   ![c].old = {ctrls[i] : i \in OfType}]
    /\ UNCHANGED <<ctrls, seat, want, faults, stray>>

(* createAndAttachSCSIController: a second device list, the limit, and a   *)
(* controller on the first bus that is free.                               *)
CreateController(c) ==
    /\ Is(c, "publish", "create")
    /\ IF Len(ctrls) >= SCSIControllerLimit THEN Refuse(c)
       ELSE \E b \in Bus : /\ ~Present(b) /\ \A x \in 0..b-1 : Present(x)
                           /\ call' = [call EXCEPT ![c].pc = "add", ![c].bus = b,
                                                   ![c].last = LastOfType]
    /\ UNCHANGED <<ctrls, seat, want, faults, stray>>

(* AddDevice.  vCenter refuses a bus that is taken, and the clean-up then  *)
(* removes the last controller of a list that never had the new one.       *)
AddController(c) ==
    /\ Is(c, "publish", "add")
    /\ IF Present(call[c].bus) THEN Goto(c, "clean") /\ UNCHANGED ctrls
       ELSE /\ ctrls' = Append(ctrls, call[c].bus)
            /\ call' = [call EXCEPT ![c].pc = "reread", ![c].made = TRUE, ![c].last = None]
    /\ UNCHANGED <<seat, want, faults, stray>>

(* A third list, from which a controller is chosen.  The unit is the next  *)
(* one in the first list: unit 0 of a controller that list did not have,   *)
(* none of one that was full in it.                                        *)
Reread(c) ==
    /\ Is(c, "publish", "reread")
    /\ IF Available = {}
         THEN call' = [call EXCEPT ![c].pc = "clean", ![c].last = LastOfType]
       ELSE IF FirstAvailable \in call[c].old THEN Refuse(c)
       ELSE call' = [call EXCEPT ![c].pc = "list", ![c].bus = FirstAvailable,
                                 ![c].old = {}, ![c].unit = CHOOSE u \in Unit \ {SCSIReservedSlot} :
                                    \A x \in Unit \ {SCSIReservedSlot} : u <= x]
    /\ UNCHANGED <<ctrls, seat, want, faults, stray>>

(* A last list, for the clean-up. *)
ListDevices(c) ==
    /\ Is(c, "publish", "list")
    /\ call' = [call EXCEPT ![c].pc = "reconfigure", ![c].last = LastOfType]
    /\ UNCHANGED <<ctrls, seat, want, faults, stray>>

(* vCenter takes a disk that is not attached to a free unit of a           *)
(* controller that exists, and never to the reserved unit.                 *)
Acceptable(c) == /\ seat[call[c].disk] = None
                 /\ Present(call[c].bus) /\ call[c].unit # SCSIReservedSlot
                 /\ <<call[c].bus, call[c].unit>> \notin TakenOn(call[c].bus)

SeatDisk(c) == /\ seat' = [seat EXCEPT ![call[c].disk] = <<call[c].bus, call[c].unit>>]
               /\ stray' = stray \ {call[c].disk}

(* The error paths remove a controller only if this call has added one. *)
GiveUp(c) == IF call[c].made THEN Goto(c, "clean") ELSE Refuse(c)

Reconfigure(c) ==
    /\ Is(c, "publish", "reconfigure")
    /\ IF Acceptable(c) THEN SeatDisk(c) /\ Goto(c, "uuid")
                        ELSE GiveUp(c) /\ UNCHANGED <<seat, stray>>
    /\ UNCHANGED <<ctrls, want, faults>>

ReadUUID(c) ==
    /\ Is(c, "publish", "uuid")
    /\ Return(c)
    /\ UNCHANGED <<ctrls, seat, faults, stray>>

(* The UUID cannot be read: the disk is detached again. *)
Undo(c) ==
    /\ Is(c, "publish", "undo")
    /\ LET at == DeviceByPath(call[c].disk) IN
       IF at = None THEN GiveUp(c)
       ELSE call' = [call EXCEPT ![c].pc = "undoRemove", ![c].bus = at[1], ![c].unit = at[2]]
    /\ UNCHANGED <<ctrls, seat, want, faults, stray>>

(* RemoveDevice names a device by its key, which is its place. *)
RemoveDevice(c) ==
    LET gone == {d \in Disk : seat[d] = <<call[c].bus, call[c].unit>>} IN
    /\ seat' = [d \in Disk |-> IF d \in gone THEN None ELSE seat[d]]
    /\ stray' = stray \cup (gone \ {call[c].disk})

UndoRemove(c) ==
    /\ Is(c, "publish", "undoRemove")
    /\ RemoveDevice(c) /\ GiveUp(c)
    /\ UNCHANGED <<ctrls, want, faults>>

(* deleteController.  vCenter refuses to remove a controller with disks. *)
DeleteController(c) ==
    /\ Is(c, "publish", "clean")
    /\ IF Present(call[c].last) /\ TakenOn(call[c].last) = {}
         THEN \E i \in 1..Len(ctrls) : ctrls[i] = call[c].last /\ ctrls' = RemoveAt(ctrls, i)
         ELSE UNCHANGED ctrls
    /\ Refuse(c)
    /\ UNCHANGED <<seat, want, faults, stray>>

-----------------------------------------------------------------------------
(* ControllerUnpublishVolume and DetachDisk. *)

(* Mutant of DetachLook: the paths of the disks are not compared. *)
DetachLookAny(c) ==
    /\ Is(c, "unpublish", "start")
    /\ \E d \in Disk :
          /\ seat[d] # None
          /\ call' = [call EXCEPT ![c].pc = "remove", ![c].bus = seat[d][1],
                                  ![c].unit = seat[d][2]]
    /\ UNCHANGED <<ctrls, seat, want, faults, stray>>

(* getVirtualDeviceByPath: a disk that is not there is detached already. *)
DetachLook(c) ==
    /\ Is(c, "unpublish", "start")
    /\ LET at == DeviceByPath(call[c].disk) IN
       IF at = None THEN Return(c)
       ELSE /\ call' = [call EXCEPT ![c].pc = "remove", ![c].bus = at[1], ![c].unit = at[2]]
            /\ UNCHANGED want
    /\ UNCHANGED <<ctrls, seat, faults, stray>>

(* Mutant of DetachRemove: an error of RemoveDevice is not returned. *)
DetachRemoveLost(c) ==
    /\ Is(c, "unpublish", "remove")
    /\ UNCHANGED <<seat, stray>> /\ Return(c)
    /\ UNCHANGED <<ctrls, faults>>

DetachRemove(c) ==
    /\ Is(c, "unpublish", "remove")
    /\ IF \E d \in Disk : seat[d] = <<call[c].bus, call[c].unit>>
         THEN RemoveDevice(c) /\ Return(c)
         ELSE Refuse(c) /\ UNCHANGED <<seat, stray, want>>
    /\ UNCHANGED <<ctrls, faults>>

Step(c) == \/ AttachCheck(c) \/ CreateDiskSpec(c) \/ CreateController(c)
           \/ AddController(c) \/ Reread(c) \/ ListDevices(c) \/ Reconfigure(c)
           \/ ReadUUID(c) \/ Undo(c) \/ UndoRemove(c) \/ DeleteController(c)
           \/ DetachLook(c) \/ DetachRemove(c)

-----------------------------------------------------------------------------
(* Faults. *)

(* What a call does when a request of its next step fails. *)
Fails(c) ==
    LET pc == call[c].pc IN
    IF pc = "add" THEN Goto(c, "clean")
    ELSE IF pc = "uuid" THEN Goto(c, "undo")
    ELSE IF pc \in {"reconfigure", "undo", "undoRemove"} THEN GiveUp(c)
    ELSE Refuse(c)

(* The request is not carried out, ... *)
Fault(c) ==
    /\ call[c].kind # "none" /\ faults < MaxFaults
    /\ Fails(c) /\ faults' = faults + 1
    /\ UNCHANGED <<ctrls, seat, want, stray>>

(* ... or it is, and the answer is lost. *)
LostAnswer(c) ==
    /\ faults < MaxFaults
    /\ \/ /\ Is(c, "publish", "add") /\ ~Present(call[c].bus)
          /\ ctrls' = Append(ctrls, call[c].bus) /\ UNCHANGED <<seat, stray>>
       \/ /\ Is(c, "publish", "reconfigure") /\ Acceptable(c)
          /\ SeatDisk(c) /\ UNCHANGED ctrls
       \/ Is(c, "unpublish", "remove") /\ RemoveDevice(c) /\ UNCHANGED ctrls
    /\ Fails(c) /\ faults' = faults + 1
    /\ UNCHANGED want

(* The controller process dies. *)
Crash ==
    /\ faults < MaxFaults /\ faults' = faults + 1
    /\ call' = [c \in Slot |-> Idle]
    /\ UNCHANGED <<ctrls, seat, want, stray>>

(* A pod with the disk comes to the node, and goes. *)
Wish(d) ==
    /\ \/ want[d] = "idle" /\ want' = [want EXCEPT ![d] = "up"]
       \/ want[d] \in {"up", "attached"} /\ want' = [want EXCEPT ![d] = "down"]
    /\ UNCHANGED <<ctrls, seat, call, faults, stray>>

Next ==
    \/ \E c \in Slot : Step(c) \/ Fault(c) \/ LostAnswer(c)
    \/ \E c \in Slot, d \in Disk : BeginPublish(c, d) \/ BeginUnpublish(c, d)
    \/ Crash
    \/ \E d \in Disk : Wish(d)

(* Fairness: requests return, and the caller repeats its call until it is  *)
(* told that it has succeeded; where the disk really is, it does not see.  *)
Fairness ==
    /\ \A c \in Slot : WF_vars(Step(c))
    /\ \A d \in Disk :
          /\ SF_vars(want[d] = "up" /\ \E c \in Slot : BeginPublish(c, d))
          /\ SF_vars(want[d] = "down" /\ \E c \in Slot : BeginUnpublish(c, d))

Spec     == Init /\ [][Next]_vars
FairSpec == Spec /\ Fairness

-----------------------------------------------------------------------------
(* Properties. *)

(* What a call asks of vCenter is only refused if another call was in      *)
(* flight: the stale lists the unit and the bus are computed from are      *)
(* right for a call that is alone (virtualmachine.go:246-284, 326-350).    *)
RefusedOnlyInRaces ==
    \A c \in Slot : call[c].alone =>
       /\ Is(c, "publish", "reconfigure") => Acceptable(c)
       /\ Is(c, "publish", "add") => ~Present(call[c].bus)
       /\ Is(c, "publish", "reread") => Available # {} /\ FirstAvailable \notin call[c].old

Succeeds(c, k, d) == Is(c, k, call[c].pc) /\ call[c].disk = d /\ call'[c] = Finished

(* A publish that succeeds leaves the disk attached, an unpublish that     *)
(* succeeds leaves it detached, unless another call for the disk was in    *)
(* flight or a stale key has hit the disk; calls for other disks, their    *)
(* clean-ups and lost answers do not matter (virtualmachine.go:63-178,     *)
(* controller.go:300-403).                                                 *)
AnswersSound ==
    [][\A c \in Slot, d \in Disk :
          /\ Succeeds(c, "publish", d) => call[c].met \/ d \in stray \/ seat'[d] # None
          /\ Succeeds(c, "unpublish", d) => call[c].met \/ seat'[d] = None]_vars

(* A disk is taken off the VM only by a call for that disk: not by the     *)
(* clean-up of another call, which may choose a controller it did not add; *)
(* unless overlapping calls for one disk detach it twice, the second time  *)
(* by a key that another disk has got since (virtualmachine.go:158-178,    *)
(* 415-427).                                                               *)
Undisturbed ==
    [][\A d \in Disk : seat[d] # None /\ seat'[d] = None =>
          \E c \in Slot : /\ call'[c] # call[c]
                          /\ call[c].disk = d \/ call[c].met \/ call[c].disk \in stray]_vars

(* Whatever races and faults leave behind (controllers nobody uses, disks  *)
(* whose answer was lost), once calls no longer overlap every disk that is *)
(* wanted, or no longer wanted, is answered for, and a disk whose calls    *)
(* never overlapped is then where the caller was told, unless a stale key  *)
(* of calls for another disk took it off: nobody puts it back.  While      *)
(* calls overlap they need not succeed: two publishes can remove each      *)
(* other's controllers for ever (virtualmachine.go:63-178, 415-427).       *)
OneAtATime    == \A c, x \in Slot : c # x => "none" \in {call[c].kind, call[x].kind}
OneCallFor(d) == \A c, x \in Slot : call[c].disk = d /\ call[x].disk = d => c = x

AttachConverges ==
    <>[]OneAtATime => \A d \in Disk :
       /\ []<>(want[d] \notin {"up", "down"})
       /\ []OneCallFor(d) =>
             <>[](/\ want[d] = "attached" => seat[d] # None \/ d \in stray
                  /\ want[d] = "detached" => seat[d] = None)
=============================================================================
