----------------------------- MODULE NodeMounts -----------------------------
(***************************************************************************)
(* The CSI node service, pkg/csi/service/node.go: stage, unstage, publish  *)
(* and unpublish of volumes over the node's mount table.  The service      *)
(* keeps no state of its own: every call reads the mount table, decides,   *)
(* and changes it a step later, so calls that overlap (a retry after the   *)
(* caller's timeout, another pod) see each other's half-done work, and the *)
(* plugin or the node may die between two steps.                           *)
(***************************************************************************)
EXTENDS Naturals, Sequences, FiniteSets

CONSTANTS Vol,         \* volumes, each with its device and its staging path
          Target,      \* target paths
          VolOf,       \* [Target -> Vol]: the volume a target is for
          ReadOnly,    \* [Vol \cup Target -> BOOLEAN]: the mode asked for
          Slot,        \* calls that may be in flight at once
          RootFS,      \* the device under a path where nothing is mounted
          MaxFaults,   \* bound on failing calls, timeouts, crashes and reboots
          MaxStack     \* bound on the mounts at one path

ASSUME MountAssumption ==
    /\ VolOf \in [Target -> Vol] /\ RootFS \notin Vol
    /\ ReadOnly \in [Vol \cup Target -> BOOLEAN]
    /\ Vol \cap Target = {} /\ RootFS \notin Target
    /\ IsFiniteSet(Vol) /\ IsFiniteSet(Target)
    /\ MaxFaults \in Nat /\ MaxStack \in Nat

VARIABLES
    attached,   \* environment: the volumes with a device below /dev/disk/by-id
    mnt,        \* the mounts at each path, oldest first; a path is a target,
                \*   or a volume for its staging path
    dirs,       \* the target directories that exist
    call,       \* the calls in flight
    down,       \* the volumes the caller is taking down
    faults,     \* faults so far
    risky       \* history: volumes unstaged while staged or published, and
                \*   targets published twice at once

env  == <<attached, down, faults>>
vars == <<attached, mnt, dirs, call, down, faults, risky>>

Path  == Vol \cup Target
Mount == [dev : Vol \cup {RootFS}, ro : BOOLEAN]

(* A call: what is asked for, the control point, the device and the number *)
(* of mounts it has read, and whether a call that undoes it was in flight. *)
Idle == [kind |-> "none", path |-> RootFS, pc |-> "idle",
         dev |-> RootFS, left |-> 0, crossed |-> FALSE]
Finished == [Idle EXCEPT !.pc = "ok"]

VolumeOf(p) == IF p \in Target THEN VolOf[p] ELSE p

-----------------------------------------------------------------------------
(* The mount table (kernel and gofsutil). *)

(* The mounts of a device at a path, and anywhere. *)
OfAt(d, p) == {i \in 1..Len(mnt[p]) : mnt[p][i].dev = d}
Of(d)      == UNION {{p} \X OfAt(d, p) : p \in Path}
Bare(p)    == mnt[p] = <<>>

(* What a process sees below a path. *)
Top(p) == IF Bare(p) THEN [dev |-> RootFS, ro |-> FALSE] ELSE mnt[p][Len(mnt[p])]

Push(p, m) == mnt' = [mnt EXCEPT ![p] = Append(@, m)]
Unmount(p) == mnt' = [mnt EXCEPT ![p] = SubSeq(@, 1, Len(@) - 1)]

(* The oldest mount of a device at a path. *)
OldestOf(d, p) == mnt[p][CHOOSE i \in OfAt(d, p) : \A j \in OfAt(d, p) : i <= j]

(* getDevFromMount: the device of the first mount at a path. *)
DevFromMount(p) == mnt[p][1].dev

(* verifyVolumeAttached: there is a device of the volume's disk. *)
Attached(v) == v \in attached

(* mkdir: the directory is made unless it is there. *)
MakeDir(p) == dirs' = dirs \cup {p}

-----------------------------------------------------------------------------
Init ==
    /\ attached \in SUBSET Vol
    /\ mnt = [p \in Path |-> <<>>] /\ dirs = {}
    /\ call = [c \in Slot |-> Idle]
    /\ down = {} /\ faults = 0
    /\ risky = {}

(* Nothing of a volume is left: what overlapped before is forgotten. *)
Quiet(v) == /\ \A c \in Slot : call[c].kind # "none" => VolumeOf(call[c].path) # v
            /\ Of(v) = {} /\ \A p \in Path : VolumeOf(p) = v => Bare(p)

(* The calls in flight that a new call undoes, and the ones it repeats. *)
Crosses(k, p) == {c \in Slot :
    \/ {k, call[c].kind} = {"publish", "unpublish"} /\ call[c].path = p
    \/ /\ {k, call[c].kind} \in {{"unstage", "stage"}, {"unstage", "publish"}}
       /\ VolumeOf(call[c].path) = VolumeOf(p)}
Repeats(k, p) == {c \in Slot : call[c].kind = k /\ call[c].path = p}

(* The caller starts a call on a staging or target path, in parallel with  *)
(* calls it does not wait for, or with one that has timed out.             *)
Begin(c, k, p) ==
    LET v == VolumeOf(p)  met == Crosses(k, p)  again == Repeats(k, p) IN
    /\ call[c].kind = "none"
    /\ IF met \cup again = {} THEN UNCHANGED faults
       ELSE faults < MaxFaults /\ faults' = faults + 1
    /\ call' = [x \in Slot |->
                  IF x = c THEN [Idle EXCEPT !.kind = k, !.path = p, !.pc = "start",
                                             !.crossed = (met # {})]
                  ELSE IF x \in met THEN [call[x] EXCEPT !.crossed = TRUE]
                  ELSE call[x]]
    /\ risky' = (IF Quiet(v) THEN {x \in risky : VolumeOf(x) # v} ELSE risky)
                \cup (IF \E x \in met : "unstage" \in {k, call[x].kind} THEN {v} ELSE {})
                \cup (IF k = "publish" /\ again # {} THEN {p} ELSE {})
    /\ UNCHANGED <<attached, mnt, dirs, down>>

BeginStage(c, v)     == v \notin down /\ Begin(c, "stage", v)
BeginUnstage(c, v)   == Begin(c, "unstage", v)
BeginPublish(c, t)   == /\ VolOf[t] \notin down /\ Len(mnt[t]) < MaxStack
                        /\ Begin(c, "publish", t)
BeginUnpublish(c, t) == Begin(c, "unpublish", t)

Is(c, k, pc) == call[c].kind = k /\ call[c].pc = pc

Return(c) == call' = [call EXCEPT ![c] = Finished]
Refuse(c) == call' = [call EXCEPT ![c] = Idle]
Goto(c, pc) == call' = [call EXCEPT ![c].pc = pc]

-----------------------------------------------------------------------------
(* NodeStageVolume. *)

(* The disk must be attached. *)
StageCheck(c) ==
    /\ Is(c, "stage", "start")
    /\ IF Attached(call[c].path) THEN Goto(c, "mounts") ELSE Refuse(c)
    /\ UNCHANGED <<env, mnt, dirs, risky>>

(* The mounts of the device: none, and it is mounted next; one at the      *)
(* staging path, and its mode decides; others, and it is in use elsewhere. *)
StageMounts(c) ==
    /\ Is(c, "stage", "mounts")
    /\ LET v == call[c].path IN
       IF Of(v) = {} THEN Goto(c, "mount")
       ELSE IF OfAt(v, v) # {} /\ OldestOf(v, v).ro = ReadOnly[v] THEN Return(c)
       ELSE Refuse(c)
    /\ UNCHANGED <<env, mnt, dirs, risky>>

(* Mount or FormatAndMount.  The kernel refuses a device that is gone and  *)
(* one that is on the path already.                                        *)
StageMount(c) ==
    /\ Is(c, "stage", "mount")
    /\ LET v == call[c].path IN
       IF v \in attached /\ OfAt(v, v) = {}
         THEN Push(v, [dev |-> v, ro |-> ReadOnly[v]]) /\ Return(c)
         ELSE UNCHANGED mnt /\ Refuse(c)
    /\ UNCHANGED <<env, dirs, risky>>

-----------------------------------------------------------------------------
(* NodeUnstageVolume. *)

UnstageLook(c) ==
    /\ Is(c, "unstage", "start")
    /\ IF Bare(call[c].path) THEN Return(c) ELSE Goto(c, "mounts")
    /\ UNCHANGED <<env, mnt, dirs, risky>>

(* Mutant of UnstageMounts: the number of mounts is not looked at. *)
UnstageMountsBlind(c) ==
    /\ Is(c, "unstage", "mounts")
    /\ Goto(c, "unmount")
    /\ UNCHANGED <<env, mnt, dirs, risky>>

(* Mutant of UnstageMounts: the bound is off by one. *)
UnstageMountsStrict(c) ==
    /\ Is(c, "unstage", "mounts")
    /\ IF Cardinality(Of(call[c].path)) > 0 THEN Refuse(c) ELSE Goto(c, "unmount")
    /\ UNCHANGED <<env, mnt, dirs, risky>>

(* Only a device with a single mount is unmounted. *)
UnstageMounts(c) ==
    /\ Is(c, "unstage", "mounts")
    /\ IF Cardinality(Of(call[c].path)) > 1 THEN Refuse(c) ELSE Goto(c, "unmount")
    /\ UNCHANGED <<env, mnt, dirs, risky>>

UnstageUnmount(c) ==
    /\ Is(c, "unstage", "unmount")
    /\ IF Bare(call[c].path) THEN UNCHANGED mnt /\ Refuse(c)
                             ELSE Unmount(call[c].path) /\ Return(c)
    /\ UNCHANGED <<env, dirs, risky>>

-----------------------------------------------------------------------------
(* NodePublishVolume. *)

(* The disk must be attached; the target directory is made, before         *)
(* anything else can refuse the call.                                      *)
PublishCheck(c) ==
    /\ Is(c, "publish", "start")
    /\ IF Attached(VolOf[call[c].path])
         THEN MakeDir(call[c].path) /\ Goto(c, "mounts")
         ELSE UNCHANGED dirs /\ Refuse(c)
    /\ UNCHANGED <<env, mnt, risky>>

(* Mutant of PublishMounts: an existing mount is taken as it is. *)
PublishMountsAnyMode(c) ==
    /\ Is(c, "publish", "mounts")
    /\ LET t == call[c].path  v == VolOf[t] IN
       IF Of(v) = {} THEN Refuse(c)
       ELSE IF Cardinality(Of(v)) > 1 /\ OfAt(v, t) # {} THEN Return(c)
       ELSE Goto(c, "bind")
    /\ UNCHANGED <<env, mnt, dirs, risky>>

(* No mount: not staged.  Several, one at the target: published already,   *)
(* if the mode is the one asked for.  Otherwise the target is mounted.     *)
PublishMounts(c) ==
    /\ Is(c, "publish", "mounts")
    /\ LET t == call[c].path  v == VolOf[t] IN
       IF Of(v) = {} THEN Refuse(c)
       ELSE IF Cardinality(Of(v)) > 1 /\ OfAt(v, t) # {}
         THEN IF OldestOf(v, t).ro = ReadOnly[t] THEN Return(c) ELSE Refuse(c)
       ELSE Goto(c, "bind")
    /\ UNCHANGED <<env, mnt, dirs, risky>>

(* BindMount: what is seen below the staging path is mounted on the        *)
(* target, on top of what is there; a read-only bind is a remount of it.   *)
PublishBind(c) ==
    /\ Is(c, "publish", "bind")
    /\ LET t == call[c].path IN
       IF t \in dirs
         THEN /\ Push(t, Top(VolOf[t]))
              /\ IF ReadOnly[t] THEN Goto(c, "remount") ELSE Return(c)
         ELSE UNCHANGED mnt /\ Refuse(c)
    /\ UNCHANGED <<env, dirs, risky>>

PublishRemount(c) ==
    /\ Is(c, "publish", "remount")
    /\ LET t == call[c].path IN
       IF Bare(t) THEN UNCHANGED mnt /\ Refuse(c)
       ELSE mnt' = [mnt EXCEPT ![t][Len(mnt[t])].ro = TRUE] /\ Return(c)
    /\ UNCHANGED <<env, dirs, risky>>

-----------------------------------------------------------------------------
(* NodeUnpublishVolume. *)

UnpublishStat(c) ==
    /\ Is(c, "unpublish", "start")
    /\ IF call[c].path \in dirs THEN Goto(c, "look") ELSE Return(c)
    /\ UNCHANGED <<env, mnt, dirs, risky>>

(* The device of the oldest mount at the target; without one the call is   *)
(* done, and the directory stays.                                          *)
UnpublishLook(c) ==
    /\ Is(c, "unpublish", "look")
    /\ LET t == call[c].path IN
       IF Bare(t) THEN Return(c)
       ELSE call' = [call EXCEPT ![c].pc = "mounts", ![c].dev = DevFromMount(t)]
    /\ UNCHANGED <<env, mnt, dirs, risky>>

(* The mounts of that device at the target, as they are now. *)
UnpublishMounts(c) ==
    /\ Is(c, "unpublish", "mounts")
    /\ LET n == Cardinality(OfAt(call[c].dev, call[c].path)) IN
       IF n = 0 THEN Return(c)
       ELSE call' = [call EXCEPT ![c].pc = "unmount", ![c].left = n]
    /\ UNCHANGED <<env, mnt, dirs, risky>>

(* For each of them: unmount ... *)
UnpublishUnmount(c) ==
    /\ Is(c, "unpublish", "unmount")
    /\ IF Bare(call[c].path) THEN UNCHANGED mnt /\ Refuse(c)
                             ELSE Unmount(call[c].path) /\ Goto(c, "remove")
    /\ UNCHANGED <<env, dirs, risky>>

(* Mutant of UnpublishRemove: the result of the removal is ignored. *)
UnpublishRemoveIgnored(c) ==
    /\ Is(c, "unpublish", "remove")
    /\ LET t == call[c].path IN
       /\ dirs' = IF Bare(t) THEN dirs \ {t} ELSE dirs
       /\ Return(c)
    /\ UNCHANGED <<env, mnt, risky>>

(* ... and remove the directory, which fails while something is mounted    *)
(* there or when it is gone.                                               *)
UnpublishRemove(c) ==
    /\ Is(c, "unpublish", "remove")
    /\ LET t == call[c].path IN
       IF t \in dirs /\ Bare(t)
         THEN /\ dirs' = dirs \ {t}
              /\ IF call[c].left = 1 THEN Return(c)
                 ELSE call' = [call EXCEPT ![c].pc = "unmount", ![c].left = @ - 1]
         ELSE UNCHANGED dirs /\ Refuse(c)
    /\ UNCHANGED <<env, mnt, risky>>

Step(c) == \/ StageCheck(c) \/ StageMounts(c) \/ StageMount(c)
           \/ UnstageLook(c) \/ UnstageMounts(c) \/ UnstageUnmount(c)
           \/ PublishCheck(c) \/ PublishMounts(c) \/ PublishBind(c) \/ PublishRemount(c)
           \/ UnpublishStat(c) \/ UnpublishLook(c) \/ UnpublishMounts(c)
           \/ UnpublishUnmount(c) \/ UnpublishRemove(c)

-----------------------------------------------------------------------------
(* Faults and environment. *)

(* The next system call of a call fails: the call ends with its error. *)
Fail(c) ==
    /\ call[c].kind # "none" /\ faults < MaxFaults
    /\ Refuse(c) /\ faults' = faults + 1
    /\ UNCHANGED <<attached, mnt, dirs, down, risky>>

(* The plugin dies: its calls end where they are. *)
Crash ==
    /\ faults < MaxFaults /\ faults' = faults + 1
    /\ call' = [c \in Slot |-> Idle]
    /\ UNCHANGED <<attached, mnt, dirs, down, risky>>

(* The node restarts: no mount survives, directories do. *)
Reboot ==
    /\ faults < MaxFaults /\ faults' = faults + 1
    /\ call' = [c \in Slot |-> Idle] /\ mnt' = [p \in Path |-> <<>>]
    /\ UNCHANGED <<attached, dirs, down, risky>>

(* The controller detaches a disk nothing is mounted of. *)
Detach(v) ==
    /\ v \in attached /\ Of(v) = {}
    /\ attached' = attached \ {v}
    /\ UNCHANGED <<mnt, dirs, call, down, faults, risky>>

(* From now on the caller only unpublishes and unstages the volume. *)
TakeDown(v) ==
    /\ v \notin down /\ down' = down \cup {v}
    /\ UNCHANGED <<attached, mnt, dirs, call, faults, risky>>

Next ==
    \/ \E c \in Slot : Step(c) \/ Fail(c)
    \/ \E c \in Slot, v \in Vol : BeginStage(c, v) \/ BeginUnstage(c, v)
    \/ \E c \in Slot, t \in Target : BeginPublish(c, t) \/ BeginUnpublish(c, t)
    \/ Crash \/ Reboot
    \/ \E v \in Vol : Detach(v) \/ TakeDown(v)

(* Fairness: system calls return, and a caller that takes a volume down    *)
(* repeats its calls until nothing is mounted.                             *)
Fairness ==
    /\ \A c \in Slot : WF_vars(Step(c))
    /\ \A t \in Target : SF_vars(VolOf[t] \in down /\ ~Bare(t)
                                 /\ \E c \in Slot : BeginUnpublish(c, t))
    /\ \A v \in Vol : SF_vars(v \in down /\ ~Bare(v)
                              /\ \E c \in Slot : BeginUnstage(c, v))

Spec     == Init /\ [][Next]_vars
FairSpec == Spec /\ Fairness

-----------------------------------------------------------------------------
(* Properties. *)

Call == [kind : {"none", "stage", "unstage", "publish", "unpublish"},
         path : Path \cup {RootFS},
         pc : {"idle", "ok", "start", "look", "mounts", "mount", "bind", "remount",
               "unmount", "remove"},
         dev : Vol \cup {RootFS}, left : Nat, crossed : BOOLEAN]

TypeOK ==
    /\ attached \in SUBSET Vol /\ down \in SUBSET Vol
    /\ mnt \in [Path -> Seq(Mount)] /\ dirs \in SUBSET Target
    /\ call \in [Slot -> Call]
    /\ faults \in 0..MaxFaults
    /\ risky \in SUBSET (Vol \cup Target)

(* A volume a pod sees is staged, across crashes, reboots, failures and    *)
(* calls for other targets, as long as no unstage has overlapped a stage   *)
(* or publish of the volume (node.go:189-207, 281-313).                    *)
StagedWhilePublished ==
    \A t \in Target : \A i \in 1..Len(mnt[t]) :
       VolOf[t] \in risky \/ (mnt[t][i].dev = VolOf[t] /\ ~Bare(VolOf[t]))

Succeeds(c, k) == call[c].kind = k /\ call'[c] = Finished

(* A publish that succeeds leaves the volume visible at the target, read-  *)
(* only if asked for and otherwise in the mode it was staged in, whatever  *)
(* unpublishes, calls for other targets, failures and crashes came before  *)
(* or overlap; unless another publish of this very target, or an unstage   *)
(* of the volume, has overlapped (node.go:281-319).                        *)
PublishSound ==
    [][\A c \in Slot, t \in Target : Succeeds(c, "publish") /\ call[c].path = t =>
         \/ {t, VolOf[t]} \cap risky # {}
         \/ /\ Top(t)'.dev = VolOf[t]
            /\ Top(t)'.ro = (ReadOnly[t] \/ Top(VolOf[t])'.ro)]_vars

(* An unpublish that succeeds leaves nothing mounted at the target, also   *)
(* when earlier publishes were stacked on it or a second unpublish runs;   *)
(* unless a publish of the target overlapped (node.go:340-379).            *)
UnpublishSound ==
    [][\A c \in Slot, t \in Target : Succeeds(c, "unpublish") /\ call[c].path = t =>
         call[c].crossed \/ Bare(t)']_vars

(* A caller that repeats unpublish and unstage gets rid of every mount,    *)
(* however mounts were stacked or left behind by overlapping calls and     *)
(* crashes (node.go:155-213, 322-380).                                     *)
TeardownConverges ==
    \A v \in Vol : v \in down ~> \A p \in Path : VolumeOf(p) = v => Bare(p)
=============================================================================
