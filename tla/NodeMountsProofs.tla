-------------------------- MODULE NodeMountsProofs --------------------------
(***************************************************************************)
(* Machine-checked facts about module NodeMounts, for all finite sets of   *)
(* volumes and targets and any number of calls in flight.                  *)
(***************************************************************************)
EXTENDS NodeMounts, FiniteSetTheorems, SequenceTheorems, TLAPS

-----------------------------------------------------------------------------
(* The inductive invariant. *)

(* A staging path only ever shows its own volume, and a target its volume  *)
(* or the root file system below an unstaged staging path.                 *)
MountsInv ==
    /\ \A v \in Vol : \A i \in 1..Len(mnt[v]) : mnt[v][i].dev = v
    /\ \A t \in Target : \A i \in 1..Len(mnt[t]) : mnt[t][i].dev \in {VolOf[t], RootFS}

(* The path of a call is of the right kind; a mount to be taken off was    *)
(* counted.                                                                *)
CallsInv ==
    \A c \in Slot :
       /\ call[c].kind \in {"stage", "unstage"} => call[c].path \in Vol
       /\ call[c].kind \in {"publish", "unpublish"} => call[c].path \in Target
       /\ call[c].kind = "unpublish" /\ call[c].pc \in {"unmount", "remove"}
            => call[c].left # 0

(* A publish and an unstage of one volume are in flight together only if   *)
(* the history says so.                                                    *)
OverlapInv ==
    \A c, x \in Slot :
       /\ call[c].kind = "publish" /\ call[x].kind = "unstage"
       /\ VolOf[call[c].path] = call[x].path
       => call[x].path \in risky

(* What a call has read of the mount table and acts upon still holds. *)
LookedInv ==
    \A c \in Slot :
       /\ Is(c, "publish", "bind") =>
             VolOf[call[c].path] \in risky \/ ~Bare(VolOf[call[c].path])
       /\ Is(c, "unstage", "unmount") =>
             \/ call[c].path \in risky
             \/ \A t \in Target : VolOf[t] = call[c].path => Bare(t)

NodeInv == TypeOK /\ MountsInv /\ CallsInv /\ OverlapInv /\ LookedInv /\ StagedWhilePublished

-----------------------------------------------------------------------------
(* Facts about the mount table. *)

(* A mount on top of the mounts at a path. *)
LEMMA PushFacts ==
    ASSUME mnt \in [Path -> Seq(Mount)], NEW p \in Path, NEW m \in Mount, Push(p, m)
    PROVE  /\ mnt' \in [Path -> Seq(Mount)]
           /\ \A q \in Path : q # p => mnt'[q] = mnt[q]
           /\ Len(mnt[p]) \in Nat /\ Len(mnt'[p]) = Len(mnt[p]) + 1
           /\ mnt'[p][Len(mnt[p]) + 1] = m
           /\ \A i \in 1..Len(mnt[p]) : mnt'[p][i] = mnt[p][i]
           /\ mnt'[p] # <<>>
<1>1. mnt[p] \in Seq(Mount) /\ mnt'[p] = Append(mnt[p], m)
    BY DEF Push
<1>2. mnt' \in [Path -> Seq(Mount)] /\ \A q \in Path : q # p => mnt'[q] = mnt[q]
    BY <1>1 DEF Push
<1> QED
    BY <1>1, <1>2

(* The newest mount at a path is taken off. *)
LEMMA UnmountFacts ==
    ASSUME mnt \in [Path -> Seq(Mount)], NEW p \in Path, ~Bare(p), Unmount(p)
    PROVE  /\ mnt' \in [Path -> Seq(Mount)]
           /\ \A q \in Path : q # p => mnt'[q] = mnt[q]
           /\ Len(mnt[p]) \in Nat /\ Len(mnt'[p]) = Len(mnt[p]) - 1
           /\ \A i \in 1..Len(mnt'[p]) : i \in 1..Len(mnt[p]) /\ mnt'[p][i] = mnt[p][i]
<1>1. mnt[p] \in Seq(Mount) /\ Len(mnt[p]) \in Nat /\ Len(mnt[p]) > 0
    BY DEF Bare
<1>2. mnt'[p] = SubSeq(mnt[p], 1, Len(mnt[p]) - 1)
    BY DEF Unmount
<1>3. mnt'[p] \in Seq(Mount) /\ Len(mnt'[p]) = Len(mnt[p]) - 1
    <2>1. \A i \in 1..(Len(mnt[p]) - 1) : mnt[p][i] \in Mount
        BY <1>1
    <2>2. Len(mnt[p]) - 1 \in Int /\ (1 <= Len(mnt[p]) - 1 \/ Len(mnt[p]) - 1 = 0)
        <3>1. \A n \in Nat : n > 0 => n - 1 \in Int /\ (1 <= n - 1 \/ n - 1 = 0)
            OBVIOUS
        <3> QED
            BY <1>1, <3>1
    <2>3. /\ SubSeq(mnt[p], 1, Len(mnt[p]) - 1) \in Seq(Mount)
          /\ Len(SubSeq(mnt[p], 1, Len(mnt[p]) - 1)) =
               IF 1 <= Len(mnt[p]) - 1 THEN (Len(mnt[p]) - 1) - 1 + 1 ELSE 0
        BY <2>1, <2>2, SubSeqProperties
    <2> QED
        BY <1>2, <2>2, <2>3
<1>4. \A i \in 1..Len(mnt'[p]) : i \in 1..Len(mnt[p]) /\ mnt'[p][i] = mnt[p][i]
    BY <1>1, <1>2, <1>3
<1>5. mnt' \in [Path -> Seq(Mount)] /\ \A q \in Path : q # p => mnt'[q] = mnt[q]
    BY <1>2, <1>3 DEF Unmount
<1> QED
    BY <1>1, <1>3, <1>4, <1>5

(* The mounts of a device at a path can be counted. *)
LEMMA OfAtFinite ==
    ASSUME mnt \in [Path -> Seq(Mount)], NEW d, NEW p \in Path
    PROVE  IsFiniteSet(OfAt(d, p)) /\ Cardinality(OfAt(d, p)) \in Nat
<1>1. Len(mnt[p]) \in Int
    OBVIOUS
<1>2. IsFiniteSet(1..Len(mnt[p]))
    BY <1>1, FS_Interval
<1>3. OfAt(d, p) \in SUBSET (1..Len(mnt[p]))
    BY DEF OfAt
<1>4. IsFiniteSet(OfAt(d, p))
    BY <1>2, <1>3, FS_Subset
<1> QED
    BY <1>4, FS_CardinalityType

(* So can those anywhere. *)
LEMMA OfFinite ==
    ASSUME mnt \in [Path -> Seq(Mount)], NEW d
    PROVE  IsFiniteSet(Of(d)) /\ Cardinality(Of(d)) \in Nat
<1> DEFINE f == [p \in Path |-> {p} \X OfAt(d, p)]
           T == {{p} \X OfAt(d, p) : p \in Path}
<1>1. IsFiniteSet(Path)
    BY MountAssumption, FS_Union DEF Path
<1>2. f \in Surjection(Path, T)
    <2>1. f \in [Path -> T]
        OBVIOUS
    <2>2. \A t \in T : \E p \in Path : f[p] = t
        OBVIOUS
    <2> QED
        BY <2>1, <2>2 DEF Surjection
<1>3. IsFiniteSet(T)
    <2> HIDE DEF f, T
    <2> QED
        BY <1>1, <1>2, FS_Surjection
<1>4. ASSUME NEW t \in T PROVE IsFiniteSet(t)
    <2>1. PICK p \in Path : t = {p} \X OfAt(d, p)
        OBVIOUS
    <2> QED
        BY <2>1, OfAtFinite, FS_Singleton, FS_Product
<1>5. IsFiniteSet(UNION T)
    <2> HIDE DEF T
    <2> QED
        BY <1>3, <1>4, FS_UNION
<1>6. Of(d) = UNION T
    BY DEF Of
<1> QED
    BY <1>5, <1>6, FS_CardinalityType

(* A volume with at most one mount, which is published, is not staged. *)
LEMMA TwoMounts ==
    ASSUME NodeInv, NEW v \in Vol, NEW t \in Target, VolOf[t] = v, v \notin risky,
           ~Bare(t)
    PROVE  Cardinality(Of(v)) > 1
<1>1. mnt[t] \in Seq(Mount) /\ mnt[v] \in Seq(Mount)
    BY DEF NodeInv, TypeOK, Path
<1>2. Len(mnt[t]) \in Nat /\ Len(mnt[t]) > 0
    BY <1>1 DEF Bare
<1>3. mnt[t][1].dev = v /\ ~Bare(v)
    BY <1>2 DEF NodeInv, StagedWhilePublished
<1>4. Len(mnt[v]) \in Nat /\ Len(mnt[v]) > 0
    BY <1>1, <1>3 DEF Bare
<1>5. mnt[v][1].dev = v
    BY <1>4 DEF NodeInv, MountsInv
<1>6. 1 \in OfAt(v, t) /\ 1 \in OfAt(v, v)
    BY <1>2, <1>3, <1>4, <1>5 DEF OfAt
<1>7. <<t, 1>> \in Of(v) /\ <<v, 1>> \in Of(v)
    <2>1. t \in Path /\ v \in Path
        BY DEF Path
    <2>2. <<t, 1>> \in {t} \X OfAt(v, t) /\ <<v, 1>> \in {v} \X OfAt(v, v)
        BY <1>6
    <2> QED
        BY <2>1, <2>2 DEF Of
<1>8. t # v
    BY MountAssumption
<1>9. IsFiniteSet(Of(v)) /\ Cardinality(Of(v)) \in Nat
    BY OfFinite DEF NodeInv, TypeOK
<1>10. Cardinality(Of(v)) # 0
    BY <1>7, <1>9, FS_EmptySet
<1>11. Cardinality(Of(v)) # 1
    <2>1. SUFFICES ASSUME Cardinality(Of(v)) = 1 PROVE FALSE
        OBVIOUS
    <2>2. PICK x : Of(v) = {x}
        BY <2>1, <1>9, FS_Singleton
    <2>3. <<t, 1>> = <<v, 1>>
        BY <2>2, <1>7
    <2> QED
        BY <2>3, <1>8
<1> QED
    BY <1>9, <1>10, <1>11

(* A device with a mount of a volume that no unstage has raced is staged. *)
LEMMA MountedIsStaged ==
    ASSUME NodeInv, NEW v \in Vol, Of(v) # {}, v \notin risky
    PROVE  ~Bare(v)
<1>1. PICK p \in Path : OfAt(v, p) # {}
    BY DEF Of
<1>2. PICK i \in 1..Len(mnt[p]) : mnt[p][i].dev = v
    BY <1>1 DEF OfAt
<1>3. CASE p \in Vol
    <2>1. p = v
        BY <1>2, <1>3 DEF NodeInv, MountsInv
    <2> QED
        BY <1>2, <2>1 DEF Bare, NodeInv, TypeOK
<1>4. CASE p \in Target
    <2>1. VolOf[p] = v
        BY <1>2, <1>4, MountAssumption DEF NodeInv, MountsInv
    <2> QED
        BY <1>2, <1>4, <2>1 DEF NodeInv, StagedWhilePublished
<1> QED
    BY <1>3, <1>4 DEF Path

-----------------------------------------------------------------------------
(* The step of a call: the call goes on or ends, and no other call moves. *)
Moved(c) ==
    /\ call' \in [Slot -> Call]
    /\ \A x \in Slot : x # c => call'[x] = call[x]
    /\ call'[c].kind # "none" => /\ call'[c].kind = call[c].kind
                                 /\ call'[c].path = call[c].path
                                 /\ call'[c].crossed = call[c].crossed
    /\ call'[c].kind = "unpublish" /\ call'[c].pc \in {"unmount", "remove"}
         => call'[c].left # 0

(* A call that goes on keeps what is known of calls. *)
LEMMA MovedKeeps ==
    ASSUME NodeInv, NEW c \in Slot, Moved(c), UNCHANGED risky
    PROVE  CallsInv' /\ OverlapInv'
<1>1. ASSUME NEW x \in Slot, call'[x].kind # "none"
      PROVE  call'[x].kind = call[x].kind /\ call'[x].path = call[x].path
    BY <1>1 DEF Moved
<1>2. CallsInv'
    <2> SUFFICES ASSUME NEW x \in Slot
                 PROVE  /\ call'[x].kind \in {"stage", "unstage"} => call'[x].path \in Vol
                        /\ call'[x].kind \in {"publish", "unpublish"} => call'[x].path \in Target
                        /\ call'[x].kind = "unpublish" /\ call'[x].pc \in {"unmount", "remove"}
                             => call'[x].left # 0
        BY DEF CallsInv
    <2>1. CASE x = c
        BY <2>1, <1>1 DEF Moved, NodeInv, CallsInv
    <2>2. CASE x # c
        BY <2>2 DEF Moved, NodeInv, CallsInv
    <2> QED
        BY <2>1, <2>2
<1>3. OverlapInv'
    BY <1>1 DEF NodeInv, OverlapInv
<1> QED
    BY <1>2, <1>3

(* A call that goes on to a control point. *)
LEMMA GotoMoves ==
    ASSUME NodeInv, NEW c \in Slot,
           NEW q \in {"look", "mounts", "mount", "bind", "remount", "unmount", "remove"},
           Goto(c, q),
           call[c].kind = "unpublish" /\ q \in {"unmount", "remove"} => call[c].left # 0
    PROVE  Moved(c) /\ call'[c].kind = call[c].kind /\ call'[c].pc = q
<1>1. call \in [Slot -> Call] /\ call[c] \in Call
    BY DEF NodeInv, TypeOK
<1>2. call' = [call EXCEPT ![c].pc = q]
    BY DEF Goto
<1>3. [call[c] EXCEPT !.pc = q] \in Call
    BY <1>1 DEF Call
<1>4. call'[c] = [call[c] EXCEPT !.pc = q] /\ call' \in [Slot -> Call]
    BY <1>1, <1>2, <1>3
<1>5. /\ call'[c].kind = call[c].kind /\ call'[c].path = call[c].path
      /\ call'[c].pc = q /\ call'[c].left = call[c].left
      /\ call'[c].crossed = call[c].crossed
    BY <1>1, <1>4 DEF Call
<1> QED
    BY <1>1, <1>2, <1>4, <1>5 DEF Moved

(* A call that ends. *)
LEMMA EndMoves ==
    ASSUME NodeInv, NEW c \in Slot, Return(c) \/ Refuse(c)
    PROVE  Moved(c) /\ call'[c].kind = "none"
<1>1. call \in [Slot -> Call]
    BY DEF NodeInv, TypeOK
<1>2. Idle \in Call /\ Finished \in Call /\ Idle.kind = "none" /\ Finished.kind = "none"
    BY DEF Idle, Finished, Call
<1>3. PICK r \in {Idle, Finished} : call' = [call EXCEPT ![c] = r]
    BY DEF Return, Refuse
<1> QED
    BY <1>1, <1>2, <1>3 DEF Moved

(* A step of a call that leaves the mount table alone keeps the invariant  *)
(* if what the call is about to act upon holds.                            *)
LEMMA ReadingKeeps ==
    ASSUME NodeInv, NEW c \in Slot, Moved(c), UNCHANGED <<attached, down, mnt, risky>>,
           dirs' \in SUBSET Target, faults' \in 0..MaxFaults,
           call'[c].kind = "publish" /\ call'[c].pc = "bind" =>
              VolOf[call[c].path] \in risky \/ ~Bare(VolOf[call[c].path]),
           call'[c].kind = "unstage" /\ call'[c].pc = "unmount" =>
              \/ call[c].path \in risky
              \/ \A t \in Target : VolOf[t] = call[c].path => Bare(t)
    PROVE  NodeInv'
<1>1. TypeOK'
    BY DEF NodeInv, TypeOK, Moved
<1>2. MountsInv' /\ StagedWhilePublished'
    BY DEF NodeInv, MountsInv, StagedWhilePublished, Bare
<1>3. CallsInv' /\ OverlapInv'
    BY MovedKeeps
<1>4. LookedInv'
    <2> SUFFICES ASSUME NEW x \in Slot
                 PROVE  /\ call'[x].kind = "publish" /\ call'[x].pc = "bind" =>
                             VolOf[call'[x].path] \in risky \/ ~Bare(VolOf[call'[x].path])
                        /\ call'[x].kind = "unstage" /\ call'[x].pc = "unmount" =>
                             \/ call'[x].path \in risky
                             \/ \A t \in Target : VolOf[t] = call'[x].path => Bare(t)
        BY DEF LookedInv, Is, Bare
    <2>1. CASE x = c
        BY <2>1 DEF Moved
    <2>2. CASE x # c
        BY <2>2 DEF Moved, NodeInv, LookedInv, Is
    <2> QED
        BY <2>1, <2>2
<1> QED
    BY <1>1, <1>2, <1>3, <1>4 DEF NodeInv

(* StageCheck preserves the invariant. *)
LEMMA StageCheckKeeps ==
    ASSUME NodeInv, NEW c \in Slot, StageCheck(c)
    PROVE  NodeInv'
<1>1. call[c].kind = "stage" /\ UNCHANGED <<attached, down, faults, mnt, dirs, risky>>
    BY DEF StageCheck, Is, env
<1>2. Goto(c, "mounts") \/ Return(c) \/ Refuse(c)
    BY DEF StageCheck
<1>4. CASE Goto(c, "mounts")
    <2>1. Moved(c) /\ call'[c].kind = "stage" /\ call'[c].pc = "mounts"
        BY <1>1, <1>4, GotoMoves
    <2> QED
        BY <1>1, <2>1, ReadingKeeps DEF NodeInv, TypeOK
<1>5. CASE Return(c) \/ Refuse(c)
    BY <1>1, <1>5, EndMoves, ReadingKeeps DEF NodeInv, TypeOK
<1> QED
    BY <1>2, <1>4, <1>5

(* StageMounts preserves the invariant. *)
LEMMA StageMountsKeeps ==
    ASSUME NodeInv, NEW c \in Slot, StageMounts(c)
    PROVE  NodeInv'
<1>1. call[c].kind = "stage" /\ UNCHANGED <<attached, down, faults, mnt, dirs, risky>>
    BY DEF StageMounts, Is, env
<1>2. Goto(c, "mount") \/ Return(c) \/ Refuse(c)
    BY DEF StageMounts
<1>4. CASE Goto(c, "mount")
    <2>1. Moved(c) /\ call'[c].kind = "stage" /\ call'[c].pc = "mount"
        BY <1>1, <1>4, GotoMoves
    <2> QED
        BY <1>1, <2>1, ReadingKeeps DEF NodeInv, TypeOK
<1>5. CASE Return(c) \/ Refuse(c)
    BY <1>1, <1>5, EndMoves, ReadingKeeps DEF NodeInv, TypeOK
<1> QED
    BY <1>2, <1>4, <1>5

(* UnstageLook preserves the invariant. *)
LEMMA UnstageLookKeeps ==
    ASSUME NodeInv, NEW c \in Slot, UnstageLook(c)
    PROVE  NodeInv'
<1>1. call[c].kind = "unstage" /\ UNCHANGED <<attached, down, faults, mnt, dirs, risky>>
    BY DEF UnstageLook, Is, env
<1>2. Goto(c, "mounts") \/ Return(c) \/ Refuse(c)
    BY DEF UnstageLook
<1>4. CASE Goto(c, "mounts")
    <2>1. Moved(c) /\ call'[c].kind = "unstage" /\ call'[c].pc = "mounts"
        BY <1>1, <1>4, GotoMoves
    <2> QED
        BY <1>1, <2>1, ReadingKeeps DEF NodeInv, TypeOK
<1>5. CASE Return(c) \/ Refuse(c)
    BY <1>1, <1>5, EndMoves, ReadingKeeps DEF NodeInv, TypeOK
<1> QED
    BY <1>2, <1>4, <1>5

(* UnpublishStat preserves the invariant. *)
LEMMA UnpublishStatKeeps ==
    ASSUME NodeInv, NEW c \in Slot, UnpublishStat(c)
    PROVE  NodeInv'
<1>1. call[c].kind = "unpublish" /\ UNCHANGED <<attached, down, faults, mnt, dirs, risky>>
    BY DEF UnpublishStat, Is, env
<1>2. Goto(c, "look") \/ Return(c) \/ Refuse(c)
    BY DEF UnpublishStat
<1>4. CASE Goto(c, "look")
    <2>1. Moved(c) /\ call'[c].kind = "unpublish" /\ call'[c].pc = "look"
        BY <1>1, <1>4, GotoMoves
    <2> QED
        BY <1>1, <2>1, ReadingKeeps DEF NodeInv, TypeOK
<1>5. CASE Return(c) \/ Refuse(c)
    BY <1>1, <1>5, EndMoves, ReadingKeeps DEF NodeInv, TypeOK
<1> QED
    BY <1>2, <1>4, <1>5

(* PublishCheck preserves the invariant. *)
LEMMA PublishCheckKeeps ==
    ASSUME NodeInv, NEW c \in Slot, PublishCheck(c)
    PROVE  NodeInv'
<1>1. call[c].kind = "publish" /\ UNCHANGED <<attached, down, faults, mnt, risky>>
    BY DEF PublishCheck, Is, env
<1>2. Goto(c, "mounts") \/ Refuse(c)
    BY DEF PublishCheck
<1>3. dirs' \in SUBSET Target
    BY <1>1 DEF PublishCheck, MakeDir, NodeInv, TypeOK, CallsInv
<1>4. CASE Goto(c, "mounts")
    <2>1. Moved(c) /\ call'[c].kind = "publish" /\ call'[c].pc = "mounts"
        BY <1>1, <1>4, GotoMoves
    <2> QED
        BY <1>1, <1>3, <2>1, ReadingKeeps DEF NodeInv, TypeOK
<1>5. CASE Return(c) \/ Refuse(c)
    BY <1>1, <1>3, <1>5, EndMoves, ReadingKeeps DEF NodeInv, TypeOK
<1> QED
    BY <1>2, <1>4, <1>5

(* PublishMounts preserves the invariant. *)
LEMMA PublishMountsKeeps ==
    ASSUME NodeInv, NEW c \in Slot, PublishMounts(c)
    PROVE  NodeInv'
<1>1. call[c].kind = "publish" /\ UNCHANGED <<attached, down, faults, mnt, dirs, risky>>
    BY DEF PublishMounts, Is, env
<1>2. call[c].path \in Target /\ VolOf[call[c].path] \in Vol
    BY <1>1, MountAssumption DEF NodeInv, CallsInv
<1>3. \/ Goto(c, "bind") /\ Of(VolOf[call[c].path]) # {}
      \/ Return(c) \/ Refuse(c)
    BY DEF PublishMounts
<1>4. CASE Goto(c, "bind") /\ Of(VolOf[call[c].path]) # {}
    <2>1. VolOf[call[c].path] \in risky \/ ~Bare(VolOf[call[c].path])
        BY <1>2, <1>4, MountedIsStaged
    <2>2. Moved(c) /\ call'[c].kind = "publish"
        BY <1>1, <1>4, GotoMoves
    <2> QED
        BY <1>1, <2>1, <2>2, ReadingKeeps DEF NodeInv, TypeOK
<1>5. CASE Return(c) \/ Refuse(c)
    BY <1>1, <1>5, EndMoves, ReadingKeeps DEF NodeInv, TypeOK
<1> QED
    BY <1>3, <1>4, <1>5

(* UnstageMounts preserves the invariant. *)
LEMMA UnstageMountsKeeps ==
    ASSUME NodeInv, NEW c \in Slot, UnstageMounts(c)
    PROVE  NodeInv'
<1>1. call[c].kind = "unstage" /\ UNCHANGED <<attached, down, faults, mnt, dirs, risky>>
    BY DEF UnstageMounts, Is, env
<1>2. call[c].path \in Vol
    BY <1>1 DEF NodeInv, CallsInv
<1>3. (Goto(c, "unmount") /\ ~(Cardinality(Of(call[c].path)) > 1)) \/ Refuse(c)
    BY DEF UnstageMounts
<1>4. CASE Goto(c, "unmount") /\ ~(Cardinality(Of(call[c].path)) > 1)
    <2>1. \/ call[c].path \in risky
          \/ \A t \in Target : VolOf[t] = call[c].path => Bare(t)
        BY <1>2, <1>4, TwoMounts
    <2>2. Moved(c) /\ call'[c].kind = "unstage"
        BY <1>1, <1>4, GotoMoves
    <2> QED
        BY <1>1, <2>1, <2>2, ReadingKeeps DEF NodeInv, TypeOK
<1>5. CASE Refuse(c)
    BY <1>1, <1>5, EndMoves, ReadingKeeps DEF NodeInv, TypeOK
<1> QED
    BY <1>3, <1>4, <1>5

(* UnpublishLook preserves the invariant. *)
LEMMA UnpublishLookKeeps ==
    ASSUME NodeInv, NEW c \in Slot, UnpublishLook(c)
    PROVE  NodeInv'
<1>1. call[c].kind = "unpublish" /\ UNCHANGED <<attached, down, faults, mnt, dirs, risky>>
    BY DEF UnpublishLook, Is, env
<1>2. CASE Return(c)
    BY <1>1, <1>2, EndMoves, ReadingKeeps DEF NodeInv, TypeOK
<1>3. CASE ~Return(c)
    <2>1. /\ ~Bare(call[c].path)
          /\ call' = [call EXCEPT ![c].pc = "mounts", ![c].dev = DevFromMount(call[c].path)]
        BY <1>3 DEF UnpublishLook
    <2>2. call[c].path \in Path /\ mnt[call[c].path] \in Seq(Mount)
        BY <1>1 DEF NodeInv, TypeOK, CallsInv, Path
    <2>3. DevFromMount(call[c].path) \in Vol \cup {RootFS}
        <3>1. Len(mnt[call[c].path]) \in Nat /\ Len(mnt[call[c].path]) > 0
            BY <2>1, <2>2 DEF Bare
        <3>2. mnt[call[c].path][1] \in Mount
            BY <2>2, <3>1
        <3> QED
            BY <3>2 DEF DevFromMount, Mount
    <2>4. Moved(c) /\ call'[c].kind = "unpublish"
        BY <1>1, <2>1, <2>3 DEF Moved, NodeInv, TypeOK, Call
    <2> QED
        BY <1>1, <2>4, ReadingKeeps DEF NodeInv, TypeOK
<1> QED
    BY <1>2, <1>3

(* UnpublishMounts preserves the invariant. *)
LEMMA UnpublishMountsKeeps ==
    ASSUME NodeInv, NEW c \in Slot, UnpublishMounts(c)
    PROVE  NodeInv'
<1>1. call[c].kind = "unpublish" /\ UNCHANGED <<attached, down, faults, mnt, dirs, risky>>
    BY DEF UnpublishMounts, Is, env
<1> DEFINE n == Cardinality(OfAt(call[c].dev, call[c].path))
<1>2. CASE Return(c)
    BY <1>1, <1>2, EndMoves, ReadingKeeps DEF NodeInv, TypeOK
<1>3. CASE ~Return(c)
    <2>1. n # 0 /\ call' = [call EXCEPT ![c].pc = "unmount", ![c].left = n]
        BY <1>3 DEF UnpublishMounts
    <2>2. call[c].path \in Path
        BY <1>1 DEF NodeInv, CallsInv, Path
    <2>3. n \in Nat
        BY <2>2, OfAtFinite DEF NodeInv, TypeOK
    <2> HIDE DEF n
    <2>4. Moved(c) /\ call'[c].kind = "unpublish"
        BY <1>1, <2>1, <2>3 DEF Moved, NodeInv, TypeOK, Call
    <2> QED
        BY <1>1, <2>4, ReadingKeeps DEF NodeInv, TypeOK
<1> QED
    BY <1>2, <1>3

(* UnpublishRemove preserves the invariant. *)
LEMMA UnpublishRemoveKeeps ==
    ASSUME NodeInv, NEW c \in Slot, UnpublishRemove(c)
    PROVE  NodeInv'
<1>1. call[c].kind = "unpublish" /\ UNCHANGED <<attached, down, faults, mnt, risky>>
    BY DEF UnpublishRemove, Is, env
<1>2. dirs' \in SUBSET Target
    BY DEF UnpublishRemove, NodeInv, TypeOK
<1>3. CASE Return(c) \/ Refuse(c)
    BY <1>1, <1>2, <1>3, EndMoves, ReadingKeeps DEF NodeInv, TypeOK
<1>4. CASE ~Return(c) /\ ~Refuse(c)
    <2>1. /\ call[c].left # 1
          /\ call' = [call EXCEPT ![c].pc = "unmount", ![c].left = @ - 1]
        BY <1>4 DEF UnpublishRemove
    <2>2. call[c].left \in Nat /\ call[c].left # 0
        BY <1>1 DEF NodeInv, TypeOK, CallsInv, Call, UnpublishRemove, Is
    <2>3. call[c].left - 1 \in Nat /\ call[c].left - 1 # 0
        BY <2>1, <2>2
    <2>4. Moved(c) /\ call'[c].kind = "unpublish"
        BY <1>1, <2>1, <2>3 DEF Moved, NodeInv, TypeOK, Call
    <2> QED
        BY <1>1, <1>2, <2>4, ReadingKeeps DEF NodeInv, TypeOK
<1> QED
    BY <1>3, <1>4

(* Fail preserves the invariant. *)
LEMMA FailKeeps ==
    ASSUME NodeInv, NEW c \in Slot, Fail(c)
    PROVE  NodeInv'
<1>1. UNCHANGED <<attached, mnt, dirs, down, risky>> /\ Refuse(c)
    BY DEF Fail
<1>2. faults' \in 0..MaxFaults
    BY MountAssumption DEF Fail, NodeInv, TypeOK
<1> QED
    BY <1>1, <1>2, EndMoves, ReadingKeeps DEF NodeInv, TypeOK

-----------------------------------------------------------------------------
(* The steps that change the mount table. *)

(* StageMount preserves the invariant. *)
LEMMA StageMountKeeps ==
    ASSUME NodeInv, NEW c \in Slot, StageMount(c)
    PROVE  NodeInv'
<1> DEFINE v == call[c].path
           m == [dev |-> v, ro |-> ReadOnly[v]]
<1>1. call[c].kind = "stage" /\ UNCHANGED <<attached, down, faults, dirs, risky>>
    BY DEF StageMount, Is, env
<1>2. v \in Vol /\ v \in Path /\ m \in Mount
    BY <1>1, MountAssumption DEF NodeInv, CallsInv, Path, Mount
<1>3. Moved(c) /\ call'[c].kind = "none"
    BY EndMoves DEF StageMount
<1>4. CASE UNCHANGED mnt
    BY <1>1, <1>3, <1>4, ReadingKeeps DEF NodeInv, TypeOK
<1>5. CASE Push(v, m)
    <2> HIDE DEF v, m
    <2>0. m.dev = v
        BY DEF m
    <2>1. /\ mnt' \in [Path -> Seq(Mount)]
          /\ \A q \in Path : q # v => mnt'[q] = mnt[q]
          /\ Len(mnt[v]) \in Nat /\ Len(mnt'[v]) = Len(mnt[v]) + 1
          /\ mnt'[v][Len(mnt[v]) + 1] = m
          /\ \A i \in 1..Len(mnt[v]) : mnt'[v][i] = mnt[v][i]
          /\ mnt'[v] # <<>>
        BY <1>2, <1>5, PushFacts DEF NodeInv, TypeOK
    <2>2. \A t \in Target : t \in Path /\ mnt'[t] = mnt[t]
        BY <1>2, <2>1, MountAssumption DEF Path
    <2>3. TypeOK'
        BY <1>1, <1>3, <2>1 DEF NodeInv, TypeOK, Moved
    <2>4. MountsInv'
        <3>1. ASSUME NEW u \in Vol, NEW i \in 1..Len(mnt'[u]) PROVE mnt'[u][i].dev = u
            <4>1. CASE u # v
                BY <4>1, <2>1 DEF NodeInv, MountsInv, Path
            <4>2. CASE u = v
                <5>1. i \in 1..Len(mnt[v]) \/ i = Len(mnt[v]) + 1
                    BY <4>2, <2>1
                <5> QED
                    BY <4>2, <5>1, <2>0, <2>1 DEF NodeInv, MountsInv
            <4> QED
                BY <4>1, <4>2
        <3> QED
            BY <3>1, <2>2 DEF NodeInv, MountsInv
    <2>5. \A u \in Vol : ~Bare(u) => mnt'[u] # <<>>
        BY <2>1 DEF Bare, Path
    <2>6. StagedWhilePublished'
        BY <1>1, <2>2, <2>5, MountAssumption DEF NodeInv, StagedWhilePublished, Bare
    <2>7. CallsInv' /\ OverlapInv'
        BY <1>1, <1>3, MovedKeeps
    <2>8. LookedInv'
        <3> SUFFICES ASSUME NEW x \in Slot
                     PROVE  (/\ Is(x, "publish", "bind") =>
                                  \/ VolOf[call[x].path] \in risky
                                  \/ ~Bare(VolOf[call[x].path])
                             /\ Is(x, "unstage", "unmount") =>
                                  \/ call[x].path \in risky
                                  \/ \A t \in Target : VolOf[t] = call[x].path => Bare(t))'
            BY DEF LookedInv
        <3>1. CASE x = c
            BY <3>1, <1>3 DEF Is
        <3>2. CASE x # c
            <4>1. call'[x] = call[x]
                BY <3>2, <1>3 DEF Moved
            <4>2. call[x].kind = "publish" => VolOf[call[x].path] \in Vol
                BY MountAssumption DEF NodeInv, CallsInv
            <4> QED
                BY <4>1, <4>2, <1>1, <2>2, <2>5 DEF NodeInv, LookedInv, Is, Bare
        <3> QED
            BY <3>1, <3>2
    <2> QED
        BY <2>3, <2>4, <2>6, <2>7, <2>8 DEF NodeInv
<1> QED
    BY <1>4, <1>5 DEF StageMount

(* PublishBind preserves the invariant: what it mounts is the staged       *)
(* volume, and no unstage that has counted the mounts is in flight.        *)
LEMMA PublishBindKeeps ==
    ASSUME NodeInv, NEW c \in Slot, PublishBind(c)
    PROVE  NodeInv'
<1> DEFINE t == call[c].path
           m == Top(VolOf[t])
<1>1. call[c].kind = "publish" /\ UNCHANGED <<attached, down, faults, dirs, risky>>
    BY DEF PublishBind, Is, env
<1>2. t \in Target /\ t \in Path /\ VolOf[t] \in Vol /\ VolOf[t] \in Path
    BY <1>1, MountAssumption DEF NodeInv, CallsInv, Path
<1>3. Moved(c) /\ (call'[c].kind = "none" \/ call'[c].pc = "remount")
    <2>1. CASE Goto(c, "remount")
        BY <1>1, <2>1, GotoMoves
    <2>2. CASE Return(c) \/ Refuse(c)
        BY <2>2, EndMoves
    <2> QED
        BY <2>1, <2>2 DEF PublishBind
<1>4. CASE UNCHANGED mnt
    BY <1>1, <1>3, <1>4, ReadingKeeps DEF NodeInv, TypeOK
<1>5. CASE Push(t, m)
    <2>1. mnt[VolOf[t]] \in Seq(Mount)
        BY <1>2 DEF NodeInv, TypeOK
    <2>2. /\ m \in Mount /\ m.dev \in {VolOf[t], RootFS}
          /\ ~Bare(VolOf[t]) => m.dev = VolOf[t]
        <3>1. CASE Bare(VolOf[t])
            BY <3>1 DEF Top, Mount
        <3>2. CASE ~Bare(VolOf[t])
            <4>1. Len(mnt[VolOf[t]]) \in 1..Len(mnt[VolOf[t]])
                BY <2>1, <3>2 DEF Bare
            <4>2. m = mnt[VolOf[t]][Len(mnt[VolOf[t]])]
                BY <3>2 DEF Top
            <4>3. m.dev = VolOf[t] /\ m \in Mount
                BY <1>2, <2>1, <4>1, <4>2 DEF NodeInv, MountsInv
            <4> QED
                BY <4>3
        <3> QED
            BY <3>1, <3>2
    <2>3. VolOf[t] \in risky \/ ~Bare(VolOf[t])
        BY DEF PublishBind, NodeInv, LookedInv
    <2> HIDE DEF m
    <2>4. /\ mnt' \in [Path -> Seq(Mount)]
          /\ \A q \in Path : q # t => mnt'[q] = mnt[q]
          /\ Len(mnt[t]) \in Nat /\ Len(mnt'[t]) = Len(mnt[t]) + 1
          /\ mnt'[t][Len(mnt[t]) + 1] = m
          /\ \A i \in 1..Len(mnt[t]) : mnt'[t][i] = mnt[t][i]
        BY <1>2, <1>5, <2>2, PushFacts DEF NodeInv, TypeOK
    <2>5. \A u \in Vol : u \in Path /\ mnt'[u] = mnt[u]
        BY <1>2, <2>4, MountAssumption DEF Path
    <2> HIDE DEF t
    <2>6. TypeOK'
        BY <1>1, <1>3, <2>4 DEF NodeInv, TypeOK, Moved
    <2>7. ASSUME NEW s \in Target, NEW i \in 1..Len(mnt'[s])
          PROVE  /\ mnt'[s][i].dev \in {VolOf[s], RootFS}
                 /\ VolOf[s] \in risky \/ (mnt'[s][i].dev = VolOf[s] /\ ~Bare(VolOf[s]))
        <3>1. CASE s # t
            BY <3>1, <2>4 DEF NodeInv, MountsInv, StagedWhilePublished, Path
        <3>2. CASE s = t
            <4>1. i \in 1..Len(mnt[t]) \/ i = Len(mnt[t]) + 1
                BY <3>2, <2>4
            <4> QED
                BY <1>2, <3>2, <4>1, <2>2, <2>3, <2>4
                   DEF NodeInv, MountsInv, StagedWhilePublished
        <3> QED
            BY <3>1, <3>2
    <2>8. MountsInv'
        BY <2>5, <2>7 DEF NodeInv, MountsInv
    <2>9. StagedWhilePublished'
        BY <1>1, <2>5, <2>7, MountAssumption DEF StagedWhilePublished, Bare
    <2>10. CallsInv' /\ OverlapInv'
        BY <1>1, <1>3, MovedKeeps
    <2>11. LookedInv'
        <3> SUFFICES ASSUME NEW x \in Slot
                     PROVE  (/\ Is(x, "publish", "bind") =>
                                  \/ VolOf[call[x].path] \in risky
                                  \/ ~Bare(VolOf[call[x].path])
                             /\ Is(x, "unstage", "unmount") =>
                                  \/ call[x].path \in risky
                                  \/ \A s \in Target : VolOf[s] = call[x].path => Bare(s))'
            BY DEF LookedInv
        <3>1. CASE x = c
            BY <1>1, <3>1, <1>3 DEF Is, Moved
        <3>2. CASE x # c
            <4>1. call'[x] = call[x]
                BY <3>2, <1>3 DEF Moved
            <4>2. call[x].kind = "publish" => VolOf[call[x].path] \in Vol
                BY MountAssumption DEF NodeInv, CallsInv
            <4>3. call[x].kind = "unstage" /\ call[x].path = VolOf[t] => call[x].path \in risky
                BY <1>1 DEF NodeInv, OverlapInv, t
            <4>4. \A s \in Target : VolOf[s] # VolOf[t] => mnt'[s] = mnt[s]
                BY <2>4 DEF Path
            <4> QED
                BY <4>1, <4>2, <4>3, <4>4, <1>1, <2>5 DEF NodeInv, LookedInv, Is, Bare
        <3> QED
            BY <3>1, <3>2
    <2> QED
        BY <2>6, <2>8, <2>9, <2>10, <2>11 DEF NodeInv
<1> QED
    BY <1>4, <1>5 DEF PublishBind

(* UnstageUnmount preserves the invariant: no target shows the volume when *)
(* its staging mount goes, unless a publish has raced with the unstage.    *)
LEMMA UnstageUnmountKeeps ==
    ASSUME NodeInv, NEW c \in Slot, UnstageUnmount(c)
    PROVE  NodeInv'
<1> DEFINE v == call[c].path
<1>1. call[c].kind = "unstage" /\ UNCHANGED <<attached, down, faults, dirs, risky>>
    BY DEF UnstageUnmount, Is, env
<1>2. v \in Vol /\ v \in Path
    BY <1>1 DEF NodeInv, CallsInv, Path
<1>3. Moved(c) /\ call'[c].kind = "none"
    BY EndMoves DEF UnstageUnmount
<1>4. CASE UNCHANGED mnt
    BY <1>1, <1>3, <1>4, ReadingKeeps DEF NodeInv, TypeOK
<1>5. CASE ~Bare(v) /\ Unmount(v)
    <2>1. v \in risky \/ \A t \in Target : VolOf[t] = v => Bare(t)
        BY DEF UnstageUnmount, NodeInv, LookedInv
    <2>2. \A x \in Slot : call[x].kind = "publish" /\ VolOf[call[x].path] = v => v \in risky
        BY <1>1 DEF NodeInv, OverlapInv
    <2> HIDE DEF v
    <2>3. /\ mnt' \in [Path -> Seq(Mount)]
          /\ \A q \in Path : q # v => mnt'[q] = mnt[q]
          /\ \A i \in 1..Len(mnt'[v]) : i \in 1..Len(mnt[v]) /\ mnt'[v][i] = mnt[v][i]
        BY <1>2, <1>5, UnmountFacts DEF NodeInv, TypeOK
    <2>4. \A t \in Target : t \in Path /\ mnt'[t] = mnt[t]
        BY <1>2, <2>3, MountAssumption DEF Path
    <2>5. TypeOK'
        BY <1>1, <1>3, <2>3 DEF NodeInv, TypeOK, Moved
    <2>6. MountsInv'
        <3>1. ASSUME NEW u \in Vol, NEW i \in 1..Len(mnt'[u]) PROVE mnt'[u][i].dev = u
            <4>1. CASE u # v
                BY <4>1, <2>3 DEF NodeInv, MountsInv, Path
            <4>2. CASE u = v
                BY <4>2, <2>3 DEF NodeInv, MountsInv
            <4> QED
                BY <4>1, <4>2
        <3> QED
            BY <3>1, <2>4 DEF NodeInv, MountsInv
    <2>7. StagedWhilePublished'
        <3> SUFFICES ASSUME NEW t \in Target, NEW i \in 1..Len(mnt[t]), VolOf[t] \notin risky
                     PROVE  mnt[t][i].dev = VolOf[t] /\ mnt'[VolOf[t]] # <<>>
            BY <1>1, <2>4 DEF StagedWhilePublished, Bare
        <3>1. ~Bare(t)
            BY DEF Bare
        <3>2. VolOf[t] # v /\ VolOf[t] \in Path
            BY <3>1, <2>1, MountAssumption DEF Path
        <3> QED
            BY <3>2, <2>3 DEF NodeInv, StagedWhilePublished, Bare
    <2>8. CallsInv' /\ OverlapInv'
        BY <1>1, <1>3, MovedKeeps
    <2>9. LookedInv'
        <3> SUFFICES ASSUME NEW x \in Slot
                     PROVE  (/\ Is(x, "publish", "bind") =>
                                  \/ VolOf[call[x].path] \in risky
                                  \/ ~Bare(VolOf[call[x].path])
                             /\ Is(x, "unstage", "unmount") =>
                                  \/ call[x].path \in risky
                                  \/ \A s \in Target : VolOf[s] = call[x].path => Bare(s))'
            BY DEF LookedInv
        <3>1. CASE x = c
            BY <3>1, <1>3 DEF Is
        <3>2. CASE x # c
            <4>1. call'[x] = call[x]
                BY <3>2, <1>3 DEF Moved
            <4>2. call[x].kind = "publish" => VolOf[call[x].path] \in Path
                BY MountAssumption DEF NodeInv, CallsInv, Path
            <4> QED
                BY <4>1, <4>2, <1>1, <2>2, <2>3, <2>4 DEF NodeInv, LookedInv, Is, Bare
        <3> QED
            BY <3>1, <3>2
    <2> QED
        BY <2>5, <2>6, <2>7, <2>8, <2>9 DEF NodeInv
<1> QED
    BY <1>4, <1>5 DEF UnstageUnmount

(* A step of a call that only takes mounts off one target, or changes the  *)
(* mode of one, keeps the invariant.                                       *)
LEMMA TargetKeeps ==
    ASSUME NodeInv, NEW c \in Slot, Moved(c), NEW t \in Target,
           UNCHANGED <<attached, down, faults, dirs, risky>>,
           call'[c].kind \in {"none", "unpublish"},
           mnt' \in [Path -> Seq(Mount)],
           \A q \in Path : q # t => mnt'[q] = mnt[q],
           \A i \in 1..Len(mnt'[t]) : i \in 1..Len(mnt[t]) /\ mnt'[t][i].dev = mnt[t][i].dev,
           Bare(t) => mnt'[t] = <<>>
    PROVE  NodeInv'
<1>1. \A u \in Vol : u \in Path /\ mnt'[u] = mnt[u]
    BY MountAssumption DEF Path
<1>2. TypeOK'
    BY DEF NodeInv, TypeOK, Moved
<1>3. ASSUME NEW s \in Target, NEW i \in 1..Len(mnt'[s])
      PROVE  /\ mnt'[s][i].dev \in {VolOf[s], RootFS}
             /\ VolOf[s] \in risky \/ (mnt'[s][i].dev = VolOf[s] /\ ~Bare(VolOf[s]))
    <2>1. CASE s # t
        BY <2>1 DEF NodeInv, MountsInv, StagedWhilePublished, Path
    <2>2. CASE s = t
        BY <2>2 DEF NodeInv, MountsInv, StagedWhilePublished
    <2> QED
        BY <2>1, <2>2
<1>4. MountsInv'
    BY <1>1, <1>3 DEF NodeInv, MountsInv
<1>5. StagedWhilePublished'
    BY <1>1, <1>3, MountAssumption DEF StagedWhilePublished, Bare
<1>6. CallsInv' /\ OverlapInv'
    BY MovedKeeps
<1>7. LookedInv'
    <2> SUFFICES ASSUME NEW x \in Slot
                 PROVE  (/\ Is(x, "publish", "bind") =>
                              \/ VolOf[call[x].path] \in risky
                              \/ ~Bare(VolOf[call[x].path])
                         /\ Is(x, "unstage", "unmount") =>
                              \/ call[x].path \in risky
                              \/ \A s \in Target : VolOf[s] = call[x].path => Bare(s))'
        BY DEF LookedInv
    <2>1. CASE x = c
        BY <2>1 DEF Is
    <2>2. CASE x # c
        <3>1. call'[x] = call[x]
            BY <2>2 DEF Moved
        <3>2. call[x].kind = "publish" => VolOf[call[x].path] \in Vol
            BY MountAssumption DEF NodeInv, CallsInv
        <3>3. \A s \in Target : Bare(s) => mnt'[s] = <<>>
            BY DEF Bare, Path
        <3> QED
            BY <3>1, <3>2, <3>3, <1>1 DEF NodeInv, LookedInv, Is, Bare
    <2> QED
        BY <2>1, <2>2
<1> QED
    BY <1>2, <1>4, <1>5, <1>6, <1>7 DEF NodeInv

(* UnpublishUnmount preserves the invariant. *)
LEMMA UnpublishUnmountKeeps ==
    ASSUME NodeInv, NEW c \in Slot, UnpublishUnmount(c)
    PROVE  NodeInv'
<1>1. /\ call[c].kind = "unpublish" /\ call[c].left # 0
      /\ UNCHANGED <<attached, down, faults, dirs, risky>>
    BY DEF UnpublishUnmount, Is, env, NodeInv, CallsInv
<1>2. call[c].path \in Target /\ call[c].path \in Path
    BY <1>1 DEF NodeInv, CallsInv, Path
<1>3. CASE UNCHANGED mnt /\ Refuse(c)
    BY <1>1, <1>3, EndMoves, ReadingKeeps DEF NodeInv, TypeOK
<1>4. CASE ~Bare(call[c].path) /\ Unmount(call[c].path) /\ Goto(c, "remove")
    <2>1. Moved(c) /\ call'[c].kind = "unpublish"
        BY <1>1, <1>4, GotoMoves
    <2>2. /\ mnt' \in [Path -> Seq(Mount)]
          /\ \A q \in Path : q # call[c].path => mnt'[q] = mnt[q]
          /\ \A i \in 1..Len(mnt'[call[c].path]) :
               /\ i \in 1..Len(mnt[call[c].path])
               /\ mnt'[call[c].path][i].dev = mnt[call[c].path][i].dev
        BY <1>2, <1>4, UnmountFacts DEF NodeInv, TypeOK
    <2> QED
        BY <1>1, <1>2, <1>4, <2>1, <2>2, TargetKeeps
<1> QED
    BY <1>3, <1>4 DEF UnpublishUnmount

(* PublishRemount preserves the invariant. *)
LEMMA PublishRemountKeeps ==
    ASSUME NodeInv, NEW c \in Slot, PublishRemount(c)
    PROVE  NodeInv'
<1> DEFINE t == call[c].path
<1>1. call[c].kind = "publish" /\ UNCHANGED <<attached, down, faults, dirs, risky>>
    BY DEF PublishRemount, Is, env
<1>2. t \in Target /\ t \in Path /\ mnt[t] \in Seq(Mount) /\ mnt \in [Path -> Seq(Mount)]
    BY <1>1 DEF NodeInv, CallsInv, TypeOK, Path
<1>3. Moved(c) /\ call'[c].kind = "none"
    BY EndMoves DEF PublishRemount
<1>4. CASE UNCHANGED mnt
    BY <1>1, <1>3, <1>4, ReadingKeeps DEF NodeInv, TypeOK
<1>5. CASE ~Bare(t) /\ mnt' = [mnt EXCEPT ![t][Len(mnt[t])].ro = TRUE]
    <2> HIDE DEF t
    <2>1. Len(mnt[t]) \in 1..Len(mnt[t]) /\ mnt[t][Len(mnt[t])] \in Mount
        BY <1>2, <1>5 DEF Bare
    <2>2. mnt'[t] = [mnt[t] EXCEPT ![Len(mnt[t])] = [mnt[t][Len(mnt[t])] EXCEPT !.ro = TRUE]]
        BY <1>2, <1>5
    <2>3. /\ [mnt[t][Len(mnt[t])] EXCEPT !.ro = TRUE] \in Mount
          /\ [mnt[t][Len(mnt[t])] EXCEPT !.ro = TRUE].dev = mnt[t][Len(mnt[t])].dev
        BY <2>1 DEF Mount
    <2>4. mnt'[t] \in Seq(Mount) /\ Len(mnt'[t]) = Len(mnt[t])
        BY <1>2, <2>1, <2>2, <2>3
    <2>5. \A i \in 1..Len(mnt[t]) : mnt'[t][i].dev = mnt[t][i].dev
        BY <1>2, <2>1, <2>2, <2>3
    <2>6. mnt' \in [Path -> Seq(Mount)] /\ \A q \in Path : q # t => mnt'[q] = mnt[q]
        BY <1>2, <1>5, <2>4
    <2>7. \A i \in 1..Len(mnt'[t]) : i \in 1..Len(mnt[t]) /\ mnt'[t][i].dev = mnt[t][i].dev
        BY <2>4, <2>5
    <2>8. call'[c].kind \in {"none", "unpublish"}
        BY <1>3
    <2> QED
        BY <1>1, <1>2, <1>3, <1>5, <2>6, <2>7, <2>8, TargetKeeps
<1> QED
    BY <1>4, <1>5 DEF PublishRemount

-----------------------------------------------------------------------------
(* The environment. *)

(* The steps that end every call preserve the invariant. *)
LEMMA AllEnd ==
    ASSUME NodeInv, call' = [c \in Slot |-> Idle], UNCHANGED <<attached, dirs, down, risky>>,
           faults' \in 0..MaxFaults, UNCHANGED mnt \/ mnt' = [p \in Path |-> <<>>]
    PROVE  NodeInv'
<1>1. Idle \in Call /\ Idle.kind = "none"
    BY DEF Idle, Call
<1>2. call' \in [Slot -> Call] /\ \A c \in Slot : call'[c].kind = "none"
    BY <1>1
<1>3. CallsInv' /\ OverlapInv' /\ LookedInv'
    BY <1>2 DEF CallsInv, OverlapInv, LookedInv, Is
<1>4. CASE UNCHANGED mnt
    <2>1. TypeOK'
        BY <1>2, <1>4 DEF NodeInv, TypeOK
    <2>2. MountsInv' /\ StagedWhilePublished'
        BY <1>4 DEF NodeInv, MountsInv, StagedWhilePublished, Bare
    <2> QED
        BY <1>3, <2>1, <2>2 DEF NodeInv
<1>5. CASE mnt' = [p \in Path |-> <<>>]
    <2>1. mnt' \in [Path -> Seq(Mount)] /\ \A p \in Path : 1..Len(mnt'[p]) = {}
        BY <1>5
    <2>2. TypeOK'
        BY <1>2, <2>1 DEF NodeInv, TypeOK
    <2>3. MountsInv' /\ StagedWhilePublished'
        BY <2>1 DEF MountsInv, StagedWhilePublished, Path
    <2> QED
        BY <1>3, <2>2, <2>3 DEF NodeInv
<1> QED
    BY <1>4, <1>5

(* Crash and Reboot preserve the invariant. *)
LEMMA CrashKeeps ==
    ASSUME NodeInv, Crash \/ Reboot
    PROVE  NodeInv'
<1>1. faults' \in 0..MaxFaults
    BY MountAssumption DEF NodeInv, TypeOK, Crash, Reboot
<1> QED
    BY <1>1, AllEnd DEF Crash, Reboot

(* The steps of the controller and of the caller's plans, and a step that  *)
(* changes nothing, preserve the invariant.                                *)
LEMMA OutsideKeeps ==
    ASSUME NodeInv, (\E v \in Vol : Detach(v) \/ TakeDown(v)) \/ UNCHANGED vars
    PROVE  NodeInv'
<1>1. UNCHANGED <<mnt, dirs, call, faults, risky>>
    BY DEF Detach, TakeDown, vars
<1>2. attached' \in SUBSET Vol /\ down' \in SUBSET Vol
    BY DEF Detach, TakeDown, vars, NodeInv, TypeOK
<1>3. TypeOK'
    BY <1>1, <1>2 DEF NodeInv, TypeOK
<1>4. MountsInv' /\ StagedWhilePublished'
    BY <1>1 DEF NodeInv, MountsInv, StagedWhilePublished, Bare
<1>5. CallsInv' /\ OverlapInv' /\ LookedInv'
    BY <1>1 DEF NodeInv, CallsInv, OverlapInv, LookedInv, Is, Bare
<1> QED
    BY <1>3, <1>4, <1>5 DEF NodeInv

-----------------------------------------------------------------------------
(* A call begins. *)

(* What the start of a call changes: the new call is at its start, other   *)
(* calls are where they were, and a race with an unstage is recorded until *)
(* nothing of the volume is left.                                          *)
LEMMA BeginFacts ==
    ASSUME NodeInv, NEW c \in Slot, NEW k \in {"stage", "unstage", "publish", "unpublish"},
           NEW p \in Path, Begin(c, k, p),
           k \in {"stage", "unstage"} => p \in Vol,
           k \in {"publish", "unpublish"} => p \in Target
    PROVE  /\ call' \in [Slot -> Call] /\ risky' \in SUBSET (Vol \cup Target)
           /\ faults' \in 0..MaxFaults
           /\ call'[c].kind = k /\ call'[c].path = p /\ call'[c].pc = "start"
           /\ \A x \in Slot : x # c => /\ call'[x].kind = call[x].kind
                                       /\ call'[x].path = call[x].path
                                       /\ call'[x].pc = call[x].pc
                                       /\ call'[x].left = call[x].left
           /\ \A u \in Vol : u \in risky => u \in risky' \/ (u = VolumeOf(p) /\ Quiet(u))
           /\ \A x \in Slot : /\ x # c /\ {k, call[x].kind} = {"publish", "unstage"}
                              /\ VolumeOf(call[x].path) = VolumeOf(p)
                              => VolumeOf(p) \in risky'
           /\ \A x \in Slot : /\ x # c /\ {k, call[x].kind} = {"publish", "unpublish"}
                              /\ call[x].path = p
                              => call'[x].crossed /\ call'[c].crossed
           /\ \A x \in Slot : x # c => /\ call[x].crossed => call'[x].crossed
                                       /\ call'[x].dev = call[x].dev
<1> DEFINE met == Crosses(k, p)
           new == [Idle EXCEPT !.kind = k, !.path = p, !.pc = "start",
                               !.crossed = (met # {})]
<1>1. call \in [Slot -> Call] /\ risky \in SUBSET (Vol \cup Target)
    BY DEF NodeInv, TypeOK
<1>2. VolumeOf(p) \in Vol
    BY MountAssumption DEF VolumeOf, Path
<1>3. /\ call' = [x \in Slot |-> IF x = c THEN new
                                 ELSE IF x \in met THEN [call[x] EXCEPT !.crossed = TRUE]
                                 ELSE call[x]]
      /\ risky' = (IF Quiet(VolumeOf(p)) THEN {x \in risky : VolumeOf(x) # VolumeOf(p)}
                   ELSE risky)
                  \cup (IF \E x \in met : "unstage" \in {k, call[x].kind}
                        THEN {VolumeOf(p)} ELSE {})
                  \cup (IF k = "publish" /\ Repeats(k, p) # {} THEN {p} ELSE {})
    BY DEF Begin
<1>4. /\ new \in Call /\ new.kind = k /\ new.path = p /\ new.pc = "start"
      /\ met # {} => new.crossed
    BY DEF Idle, Call, Path
<1>5. ASSUME NEW x \in Slot
      PROVE  /\ [call[x] EXCEPT !.crossed = TRUE] \in Call
             /\ [call[x] EXCEPT !.crossed = TRUE].kind = call[x].kind
             /\ [call[x] EXCEPT !.crossed = TRUE].path = call[x].path
             /\ [call[x] EXCEPT !.crossed = TRUE].pc = call[x].pc
             /\ [call[x] EXCEPT !.crossed = TRUE].left = call[x].left
             /\ [call[x] EXCEPT !.crossed = TRUE].dev = call[x].dev
             /\ [call[x] EXCEPT !.crossed = TRUE].crossed
    BY <1>1 DEF Call
<1>6. faults' \in 0..MaxFaults
    <2>1. faults \in 0..MaxFaults /\ MaxFaults \in Nat
        BY MountAssumption DEF NodeInv, TypeOK
    <2>2. faults' = faults \/ (faults < MaxFaults /\ faults' = faults + 1)
        BY DEF Begin
    <2> QED
        BY <2>1, <2>2
<1>7. risky' \in SUBSET (Vol \cup Target)
    BY <1>1, <1>2, <1>3 DEF Path
<1>8. \A u \in Vol : u \in risky => u \in risky' \/ (u = VolumeOf(p) /\ Quiet(u))
    BY <1>3, MountAssumption DEF VolumeOf
<1>9. ASSUME NEW x \in Slot, {k, call[x].kind} = {"publish", "unstage"},
             VolumeOf(call[x].path) = VolumeOf(p)
      PROVE  VolumeOf(p) \in risky'
    <2>1. {k, call[x].kind} = {"unstage", "publish"} /\ "unstage" \in {k, call[x].kind}
        BY <1>9
    <2>2. x \in met
        BY <1>9, <2>1 DEF Crosses
    <2> QED
        BY <1>3, <2>1, <2>2
<1>10. ASSUME NEW x \in Slot, {k, call[x].kind} = {"publish", "unpublish"}, call[x].path = p
       PROVE  x \in met
    BY <1>10 DEF Crosses
<1> HIDE DEF new, met
<1>11. call' \in [Slot -> Call]
    BY <1>1, <1>3, <1>4, <1>5
<1>12. call'[c].kind = k /\ call'[c].path = p /\ call'[c].pc = "start"
    BY <1>3, <1>4
<1>13. ASSUME NEW x \in Slot, x # c
       PROVE  /\ call'[x].kind = call[x].kind /\ call'[x].path = call[x].path
              /\ call'[x].pc = call[x].pc /\ call'[x].left = call[x].left
              /\ call[x].crossed => call'[x].crossed
              /\ call'[x].dev = call[x].dev
    <2>1. CASE x \in met
        BY <1>3, <1>5, <1>13, <2>1
    <2>2. CASE x \notin met
        BY <1>3, <1>13, <2>2
    <2> QED
        BY <2>1, <2>2
<1>14. ASSUME NEW x \in Slot, x # c, {k, call[x].kind} = {"publish", "unpublish"},
              call[x].path = p
       PROVE  call'[x].crossed /\ call'[c].crossed
    BY <1>3, <1>4, <1>5, <1>10, <1>14
<1> QED
    BY <1>6, <1>7, <1>8, <1>9, <1>11, <1>12, <1>13, <1>14

(* The start of a call preserves the invariant. *)
LEMMA BeginKeeps ==
    ASSUME NodeInv, NEW c \in Slot, NEW k \in {"stage", "unstage", "publish", "unpublish"},
           NEW p \in Path, Begin(c, k, p),
           k \in {"stage", "unstage"} => p \in Vol,
           k \in {"publish", "unpublish"} => p \in Target
    PROVE  NodeInv'
<1>1. UNCHANGED <<attached, mnt, dirs, down>> /\ call[c].kind = "none"
    BY DEF Begin
<1>2. /\ call' \in [Slot -> Call] /\ risky' \in SUBSET (Vol \cup Target)
      /\ faults' \in 0..MaxFaults
      /\ call'[c].kind = k /\ call'[c].path = p /\ call'[c].pc = "start"
      /\ \A x \in Slot : x # c => /\ call'[x].kind = call[x].kind
                                  /\ call'[x].path = call[x].path
                                  /\ call'[x].pc = call[x].pc
                                  /\ call'[x].left = call[x].left
      /\ \A u \in Vol : u \in risky => u \in risky' \/ (u = VolumeOf(p) /\ Quiet(u))
      /\ \A x \in Slot : /\ x # c /\ {k, call[x].kind} = {"publish", "unstage"}
                         /\ VolumeOf(call[x].path) = VolumeOf(p)
                         => VolumeOf(p) \in risky'
    BY BeginFacts
<1>3. \A v \in Vol : VolumeOf(v) = v
    BY MountAssumption DEF VolumeOf
<1>4. \A t \in Target : VolumeOf(t) = VolOf[t] /\ VolOf[t] \in Vol
    BY MountAssumption DEF VolumeOf
<1>5. TypeOK'
    BY <1>1, <1>2 DEF NodeInv, TypeOK
<1>6. MountsInv'
    BY <1>1 DEF NodeInv, MountsInv
<1>7. CallsInv'
    BY <1>2 DEF NodeInv, CallsInv
<1>8. StagedWhilePublished'
    <2> SUFFICES ASSUME NEW t \in Target, NEW i \in 1..Len(mnt[t]), VolOf[t] \notin risky'
                 PROVE  mnt[t][i].dev = VolOf[t] /\ ~Bare(VolOf[t])
        BY <1>1 DEF StagedWhilePublished, Bare
    <2>1. ~Bare(t)
        BY DEF Bare
    <2>2. ~Quiet(VolOf[t])
        BY <2>1, <1>4 DEF Quiet, Path
    <2>3. VolOf[t] \notin risky
        BY <2>2, <1>2, <1>4
    <2> QED
        BY <2>3 DEF NodeInv, StagedWhilePublished
<1>9. ASSUME NEW x \in Slot, x # c, NEW u \in Vol, call[x].kind # "none",
             VolumeOf(call[x].path) = u, u \in risky
      PROVE  u \in risky'
    BY <1>2, <1>9 DEF Quiet
<1>10. OverlapInv'
    <2> SUFFICES ASSUME NEW y \in Slot, NEW x \in Slot,
                        call'[y].kind = "publish", call'[x].kind = "unstage",
                        VolOf[call'[y].path] = call'[x].path
                 PROVE  call'[x].path \in risky'
        BY DEF OverlapInv
    <2>1. call'[y].path \in Target /\ call'[x].path \in Vol
        BY <1>7 DEF CallsInv
    <2>2. CASE x = c
        <3>1. y # c /\ k = "unstage" /\ call[y].kind = "publish" /\ call[y].path = call'[y].path
            BY <2>2, <1>2
        <3> QED
            BY <2>1, <2>2, <3>1, <1>2, <1>3, <1>4
    <2>3. CASE y = c
        <3>1. x # c /\ k = "publish" /\ call[x].kind = "unstage" /\ call[x].path = call'[x].path
            BY <2>3, <1>2
        <3> QED
            BY <2>1, <2>3, <3>1, <1>2, <1>3, <1>4
    <2>4. CASE x # c /\ y # c
        <3>1. /\ call[x].kind = "unstage" /\ call[y].kind = "publish"
              /\ call[x].path = call'[x].path /\ call[y].path = call'[y].path
            BY <2>4, <1>2
        <3>2. call[x].path \in risky
            BY <3>1 DEF NodeInv, OverlapInv
        <3> QED
            BY <2>1, <2>4, <3>1, <3>2, <1>3, <1>9
    <2> QED
        BY <2>2, <2>3, <2>4
<1>11. LookedInv'
    <2> SUFFICES ASSUME NEW x \in Slot
                 PROVE  (/\ Is(x, "publish", "bind") =>
                              \/ VolOf[call[x].path] \in risky
                              \/ ~Bare(VolOf[call[x].path])
                         /\ Is(x, "unstage", "unmount") =>
                              \/ call[x].path \in risky
                              \/ \A s \in Target : VolOf[s] = call[x].path => Bare(s))'
        BY DEF LookedInv
    <2>1. CASE x = c
        BY <2>1, <1>2 DEF Is
    <2>2. CASE x # c
        <3>1. /\ call'[x].kind = call[x].kind /\ call'[x].path = call[x].path
              /\ call'[x].pc = call[x].pc
            BY <2>2, <1>2
        <3>2. call[x].kind = "publish" => call[x].path \in Target
            BY DEF NodeInv, CallsInv
        <3>3. call[x].kind = "unstage" => call[x].path \in Vol
            BY DEF NodeInv, CallsInv
        <3>4. call[x].kind = "publish" /\ VolOf[call[x].path] \in risky
                => VolOf[call[x].path] \in risky'
            BY <2>2, <3>2, <1>4, <1>9
        <3>5. call[x].kind = "unstage" /\ call[x].path \in risky => call[x].path \in risky'
            BY <2>2, <3>3, <1>3, <1>9
        <3> QED
            BY <3>1, <3>4, <3>5, <1>1 DEF NodeInv, LookedInv, Is, Bare
    <2> QED
        BY <2>1, <2>2
<1> QED
    BY <1>5, <1>6, <1>7, <1>8, <1>10, <1>11 DEF NodeInv

-----------------------------------------------------------------------------
(* The invariant holds in the initial states. *)
LEMMA NodeInitial == Init => NodeInv
<1> SUFFICES ASSUME Init PROVE NodeInv
    OBVIOUS
<1>1. Idle \in Call /\ Idle.kind = "none"
    BY DEF Idle, Call
<1>2. call \in [Slot -> Call] /\ \A c \in Slot : call[c].kind = "none"
    BY <1>1 DEF Init
<1>3. mnt \in [Path -> Seq(Mount)] /\ \A p \in Path : 1..Len(mnt[p]) = {}
    BY DEF Init
<1>4. TypeOK
    BY <1>2, <1>3, MountAssumption DEF Init, TypeOK
<1>5. MountsInv /\ StagedWhilePublished
    BY <1>3 DEF MountsInv, StagedWhilePublished, Path
<1>6. CallsInv /\ OverlapInv /\ LookedInv
    BY <1>2 DEF CallsInv, OverlapInv, LookedInv, Is
<1> QED
    BY <1>4, <1>5, <1>6 DEF NodeInv

(* Every step preserves the invariant. *)
LEMMA NodeStep == NodeInv /\ [Next]_vars => NodeInv'
<1> SUFFICES ASSUME NodeInv, [Next]_vars PROVE NodeInv'
    OBVIOUS
<1>1. CASE \E c \in Slot : Step(c) \/ Fail(c)
    <2>1. PICK c \in Slot : Step(c) \/ Fail(c)
        BY <1>1
    <2> QED
        BY <2>1, StageCheckKeeps, StageMountsKeeps, StageMountKeeps, UnstageLookKeeps,
           UnstageMountsKeeps, UnstageUnmountKeeps, PublishCheckKeeps,
           PublishMountsKeeps, PublishBindKeeps, PublishRemountKeeps,
           UnpublishStatKeeps, UnpublishLookKeeps, UnpublishMountsKeeps,
           UnpublishUnmountKeeps, UnpublishRemoveKeeps, FailKeeps DEF Step
<1>2. CASE \E c \in Slot, v \in Vol : BeginStage(c, v) \/ BeginUnstage(c, v)
    <2>1. PICK c \in Slot, v \in Vol : Begin(c, "stage", v) \/ Begin(c, "unstage", v)
        BY <1>2 DEF BeginStage, BeginUnstage
    <2> QED
        BY <2>1, BeginKeeps DEF Path
<1>3. CASE \E c \in Slot, t \in Target : BeginPublish(c, t) \/ BeginUnpublish(c, t)
    <2>1. PICK c \in Slot, t \in Target : Begin(c, "publish", t) \/ Begin(c, "unpublish", t)
        BY <1>3 DEF BeginPublish, BeginUnpublish
    <2> QED
        BY <2>1, BeginKeeps DEF Path
<1>4. CASE Crash \/ Reboot
    BY <1>4, CrashKeeps
<1>5. CASE (\E v \in Vol : Detach(v) \/ TakeDown(v)) \/ UNCHANGED vars
    BY <1>5, OutsideKeeps
<1> QED
    BY <1>1, <1>2, <1>3, <1>4, <1>5 DEF Next

(* NodeInv is inductive: it holds of every reachable state. *)
THEOREM NodeInvariance == Spec => []NodeInv
    BY NodeInitial, NodeStep, PTL DEF Spec

(* Types: a call works on a path of its kind and never counts below zero   *)
(* (node.go:104-380).                                                      *)
THEOREM MountTypeCorrect == Spec => []TypeOK
    BY NodeInvariance, PTL DEF NodeInv

(* A volume a pod sees is staged, whatever calls overlap, fail or are cut  *)
(* short by a crash or a reboot, until an unstage has overlapped a stage   *)
(* or publish of the volume (node.go:189-207, 281-313).                    *)
THEOREM PublishedIsStaged == Spec => []StagedWhilePublished
    BY NodeInvariance, PTL DEF NodeInv

-----------------------------------------------------------------------------
(* The steps and the answers of calls. *)

(* Every step of a call moves that call only. *)
LEMMA StepMoves ==
    ASSUME NodeInv, NodeInv', NEW c \in Slot, Step(c) \/ Fail(c)
    PROVE  Moved(c) /\ UNCHANGED risky
<1>1. call \in [Slot -> Call] /\ call' \in [Slot -> Call]
    BY DEF NodeInv, TypeOK
<1>2. call' = [call EXCEPT ![c] = call'[c]]
    BY <1>1 DEF Step, StageCheck, StageMounts, StageMount, UnstageLook, UnstageMounts,
       UnstageUnmount, PublishCheck, PublishMounts, PublishBind, PublishRemount,
       UnpublishStat, UnpublishLook, UnpublishMounts, UnpublishUnmount, UnpublishRemove,
       Fail, Return, Refuse, Goto
<1>3. \A x \in Slot : x # c => call'[x] = call[x]
    BY <1>1, <1>2
<1>4. \/ Return(c) \/ Refuse(c) \/ \E q : Goto(c, q)
      \/ \E d : call' = [call EXCEPT ![c].pc = "mounts", ![c].dev = d]
      \/ \E n : call' = [call EXCEPT ![c].pc = "unmount", ![c].left = n]
    BY <1>1 DEF Step, StageCheck, StageMounts, StageMount, UnstageLook, UnstageMounts,
       UnstageUnmount, PublishCheck, PublishMounts, PublishBind, PublishRemount,
       UnpublishStat, UnpublishLook, UnpublishMounts, UnpublishUnmount, UnpublishRemove,
       Fail
<1>5. \/ call'[c].kind = "none"
      \/ /\ call'[c].kind = call[c].kind /\ call'[c].path = call[c].path
         /\ call'[c].crossed = call[c].crossed
    <2>1. CASE Return(c) \/ Refuse(c)
        BY <1>1, <2>1 DEF Return, Refuse, Idle, Finished
    <2>2. CASE \E q : Goto(c, q)
        BY <1>1, <2>2 DEF Goto, Call
    <2>3. CASE \E d : call' = [call EXCEPT ![c].pc = "mounts", ![c].dev = d]
        BY <1>1, <2>3 DEF Call
    <2>4. CASE \E n : call' = [call EXCEPT ![c].pc = "unmount", ![c].left = n]
        BY <1>1, <2>4 DEF Call
    <2> QED
        BY <1>4, <2>1, <2>2, <2>3, <2>4
<1>6. UNCHANGED risky
    BY DEF Step, StageCheck, StageMounts, StageMount, UnstageLook, UnstageMounts,
       UnstageUnmount, PublishCheck, PublishMounts, PublishBind, PublishRemount,
       UnpublishStat, UnpublishLook, UnpublishMounts, UnpublishUnmount, UnpublishRemove,
       Fail
<1>7. call'[c].kind = "unpublish" /\ call'[c].pc \in {"unmount", "remove"}
        => call'[c].left # 0
    BY DEF NodeInv, CallsInv
<1> QED
    BY <1>1, <1>3, <1>5, <1>6, <1>7 DEF Moved

(* Only a call's own step answers that all is well. *)
LEMMA OwnAnswer ==
    ASSUME NodeInv, [Next]_vars, NEW c \in Slot, NEW k, k # "none", Succeeds(c, k)
    PROVE  Step(c) /\ ~Refuse(c) /\ \A q : q # "ok" => ~Goto(c, q)
<1>1. call[c].kind # "none" /\ call'[c] = Finished
    BY DEF Succeeds
<1>2. Finished # Idle /\ Finished.kind = "none" /\ Finished.pc = "ok"
    <2>1. Finished.pc = "ok" /\ Idle.pc = "idle" /\ Finished.kind = "none"
        BY DEF Finished, Idle
    <2> QED
        BY <2>1
<1>3. call \in [Slot -> Call] /\ call[c] \in Call
    BY DEF NodeInv, TypeOK
<1>4. ~Refuse(c) /\ \A q : q # "ok" => ~Goto(c, q)
    <2>1. ~Refuse(c)
        BY <1>1, <1>2, <1>3 DEF Refuse
    <2>2. ASSUME NEW q, q # "ok", Goto(c, q)  PROVE FALSE
        <3>1. call'[c].pc = q
            BY <1>3, <2>2 DEF Goto, Call
        <3> QED
            BY <1>1, <1>2, <2>2, <3>1
    <2> QED
        BY <2>1, <2>2
<1>5. ASSUME NEW x \in Slot, Step(x) \/ Fail(x)  PROVE x = c /\ Step(c)
    <2>1. NodeInv'
        BY NodeStep
    <2>2. Moved(x)
        BY <1>5, <2>1, StepMoves
    <2>3. x = c
        BY <1>1, <1>2, <2>2 DEF Moved
    <2> QED
        BY <1>4, <1>5, <2>3 DEF Fail
<1>6. ASSUME NEW x \in Slot, NEW v \in Vol, BeginStage(x, v) \/ BeginUnstage(x, v)
      PROVE  FALSE
    <2>1. Begin(x, "stage", v) \/ Begin(x, "unstage", v)
        BY <1>6 DEF BeginStage, BeginUnstage
    <2>2. call'[c].kind # "none"
        BY <1>1, <2>1, BeginFacts DEF Path
    <2> QED
        BY <1>1, <1>2, <2>2
<1>7. ASSUME NEW x \in Slot, NEW s \in Target, BeginPublish(x, s) \/ BeginUnpublish(x, s)
      PROVE  FALSE
    <2>1. Begin(x, "publish", s) \/ Begin(x, "unpublish", s)
        BY <1>7 DEF BeginPublish, BeginUnpublish
    <2>2. call'[c].kind # "none"
        BY <1>1, <2>1, BeginFacts DEF Path
    <2> QED
        BY <1>1, <1>2, <2>2
<1>8. ~Crash /\ ~Reboot
    BY <1>1, <1>2 DEF Crash, Reboot
<1>9. ~((\E v \in Vol : Detach(v) \/ TakeDown(v)) \/ UNCHANGED vars)
    <2>1. call' # call
        BY <1>1, <1>2
    <2> QED
        BY <2>1 DEF Detach, TakeDown, vars
<1> QED
    BY <1>4, <1>5, <1>6, <1>7, <1>8, <1>9 DEF Next

-----------------------------------------------------------------------------
(* The answer of an unpublish.  On top of NodeInv: a target with a mount   *)
(* has its directory; an unpublish that a publish of its target overlaps   *)
(* is marked; and the device an unpublish has read is that of the oldest   *)
(* mount while there is one.                                               *)
UnpublishInv ==
    /\ \A t \in Target : Bare(t) \/ t \in dirs
    /\ \A c, x \in Slot :
          /\ call[c].kind = "unpublish" /\ call[x].kind = "publish"
          /\ call[c].path = call[x].path
          => call[c].crossed
    /\ \A c \in Slot : Is(c, "unpublish", "mounts") =>
          \/ call[c].crossed \/ Bare(call[c].path)
          \/ mnt[call[c].path][1].dev = call[c].dev

(* A step of a call keeps UnpublishInv if no target loses its oldest mount *)
(* but the last, only a marked target gets one, and the call has not read  *)
(* a device.                                                               *)
LEMMA UnpublishKept ==
    ASSUME NodeInv, UnpublishInv, NEW c \in Slot, Moved(c),
           call'[c].kind = "unpublish" /\ call'[c].pc = "mounts" =>
              \/ mnt'[call[c].path] = <<>>
              \/ mnt'[call[c].path][1].dev = call'[c].dev,
           \A t \in Target : Bare(t)' \/ t \in dirs',
           \A t \in Target : \/ Bare(t)'
                             \/ ~Bare(t) /\ mnt'[t][1].dev = mnt[t][1].dev
                             \/ call[c].kind = "publish" /\ call[c].path = t
    PROVE  UnpublishInv'
<1>1. ASSUME NEW x \in Slot, call'[x].kind # "none"
      PROVE  /\ call'[x].kind = call[x].kind /\ call'[x].path = call[x].path
             /\ call'[x].crossed = call[x].crossed
    BY <1>1 DEF Moved
<1>2. ASSUME NEW x \in Slot, NEW y \in Slot, call'[x].kind = "unpublish",
             call'[y].kind = "publish", call'[x].path = call'[y].path
      PROVE  call'[x].crossed
    BY <1>1, <1>2 DEF UnpublishInv
<1>3. ASSUME NEW x \in Slot, call'[x].kind = "unpublish", call'[x].pc = "mounts"
      PROVE  \/ call'[x].crossed \/ mnt'[call'[x].path] = <<>>
             \/ mnt'[call'[x].path][1].dev = call'[x].dev
    <2>1. CASE x = c
        BY <1>3, <2>1 DEF Moved, Bare
    <2>2. CASE x # c
        <3>1. call'[x] = call[x] /\ call[x].path \in Target
            BY <1>3, <2>2 DEF Moved, NodeInv, CallsInv
        <3>2. CASE call[c].kind = "publish" /\ call[c].path = call[x].path
            BY <1>3, <3>1, <3>2 DEF UnpublishInv
        <3>3. CASE mnt'[call[x].path] = <<>>
            BY <3>1, <3>3 DEF Bare
        <3>4. CASE /\ ~Bare(call[x].path)
                   /\ mnt'[call[x].path][1].dev = mnt[call[x].path][1].dev
            BY <1>3, <3>1, <3>4 DEF UnpublishInv, Is
        <3> QED
            BY <3>1, <3>2, <3>3, <3>4 DEF Bare
    <2> QED
        BY <2>1, <2>2
<1> QED
    BY <1>2, <1>3 DEF UnpublishInv, Is, Bare

(* A step of a call that leaves the mount table alone. *)
LEMMA UnpublishRead ==
    ASSUME NodeInv, UnpublishInv, NEW c \in Slot, Moved(c), UNCHANGED mnt,
           call'[c].kind = "unpublish" => call'[c].pc # "mounts",
           \A t \in Target : t \in dirs \ dirs' => Bare(t)
    PROVE  UnpublishInv'
<1>1. \A t \in Target : Bare(t)' \/ t \in dirs'
    BY DEF UnpublishInv, Bare
<1>2. \A t \in Target : Bare(t)' \/ (~Bare(t) /\ mnt'[t][1].dev = mnt[t][1].dev)
    BY DEF Bare
<1> QED
    BY <1>1, <1>2, UnpublishKept

(* The steps of a call. *)
LEMMA UnpublishStep ==
    ASSUME NodeInv, UnpublishInv, NEW c \in Slot, Step(c) \/ Fail(c)
    PROVE  UnpublishInv'
<1>1. CASE StageCheck(c)
    <2>1. CASE Goto(c, "mounts")
        BY <1>1, <2>1, GotoMoves, UnpublishRead DEF StageCheck, Is
    <2>2. CASE Refuse(c)
        BY <1>1, <2>2, EndMoves, UnpublishRead DEF StageCheck
    <2> QED
        BY <1>1, <2>1, <2>2 DEF StageCheck
<1>2. CASE StageMounts(c)
    <2>1. CASE Goto(c, "mount")
        BY <1>2, <2>1, GotoMoves, UnpublishRead DEF StageMounts, Is
    <2>2. CASE Return(c) \/ Refuse(c)
        BY <1>2, <2>2, EndMoves, UnpublishRead DEF StageMounts
    <2> QED
        BY <1>2, <2>1, <2>2 DEF StageMounts
<1>3. CASE StageMount(c)
    <2>1. Moved(c) /\ call'[c].kind = "none"
        BY <1>3, EndMoves DEF StageMount
    <2>2. call[c].path \in Vol /\ UNCHANGED dirs
        BY <1>3 DEF StageMount, Is, NodeInv, CallsInv
    <2>3. \A t \in Target : mnt'[t] = mnt[t]
        BY <1>3, <2>2, MountAssumption DEF StageMount, Push, NodeInv, TypeOK, Path
    <2> QED
        BY <2>1, <2>2, <2>3, UnpublishKept DEF UnpublishInv, Bare
<1>4. CASE UnstageLook(c)
    <2>1. CASE Goto(c, "mounts")
        BY <1>4, <2>1, GotoMoves, UnpublishRead DEF UnstageLook, Is
    <2>2. CASE Return(c)
        BY <1>4, <2>2, EndMoves, UnpublishRead DEF UnstageLook
    <2> QED
        BY <1>4, <2>1, <2>2 DEF UnstageLook
<1>5. CASE UnstageMounts(c)
    <2>1. CASE Goto(c, "unmount")
        BY <1>5, <2>1, GotoMoves, UnpublishRead DEF UnstageMounts, Is
    <2>2. CASE Refuse(c)
        BY <1>5, <2>2, EndMoves, UnpublishRead DEF UnstageMounts
    <2> QED
        BY <1>5, <2>1, <2>2 DEF UnstageMounts
<1>6. CASE UnstageUnmount(c)
    <2>1. Moved(c) /\ call'[c].kind = "none"
        BY <1>6, EndMoves DEF UnstageUnmount
    <2>2. call[c].path \in Vol /\ UNCHANGED dirs
        BY <1>6 DEF UnstageUnmount, Is, NodeInv, CallsInv
    <2>3. \A t \in Target : mnt'[t] = mnt[t]
        BY <1>6, <2>2, MountAssumption DEF UnstageUnmount, Unmount, NodeInv, TypeOK, Path
    <2> QED
        BY <2>1, <2>2, <2>3, UnpublishKept DEF UnpublishInv, Bare
<1>7. CASE PublishCheck(c)
    <2>1. UNCHANGED mnt /\ dirs \subseteq dirs' /\ call[c].kind = "publish"
        BY <1>7 DEF PublishCheck, MakeDir, Is
    <2>2. CASE Goto(c, "mounts")
        BY <2>1, <2>2, GotoMoves, UnpublishRead
    <2>3. CASE Refuse(c)
        BY <2>1, <2>3, EndMoves, UnpublishRead
    <2> QED
        BY <1>7, <2>2, <2>3 DEF PublishCheck
<1>8. CASE PublishMounts(c)
    <2>1. CASE Goto(c, "bind")
        BY <1>8, <2>1, GotoMoves, UnpublishRead DEF PublishMounts, Is
    <2>2. CASE Return(c) \/ Refuse(c)
        BY <1>8, <2>2, EndMoves, UnpublishRead DEF PublishMounts
    <2> QED
        BY <1>8, <2>1, <2>2 DEF PublishMounts
<1>9. CASE PublishBind(c)
    <2>1. call[c].kind = "publish" /\ call[c].path \in Target /\ UNCHANGED dirs
        BY <1>9 DEF PublishBind, Is, NodeInv, CallsInv
    <2>2. Moved(c) /\ call'[c].kind # "unpublish"
        <3>1. CASE Goto(c, "remount")
            BY <2>1, <3>1, GotoMoves
        <3>2. CASE Return(c) \/ Refuse(c)
            BY <3>2, EndMoves
        <3> QED
            BY <1>9, <3>1, <3>2 DEF PublishBind
    <2>3. \/ UNCHANGED mnt
          \/ /\ call[c].path \in dirs
             /\ \A t \in Target : t # call[c].path => mnt'[t] = mnt[t]
        BY <1>9 DEF PublishBind, Push, NodeInv, TypeOK, Path
    <2>4. \A t \in Target : Bare(t)' \/ t \in dirs'
        BY <2>1, <2>3 DEF UnpublishInv, Bare
    <2>5. \A t \in Target : \/ Bare(t)'
                            \/ ~Bare(t) /\ mnt'[t][1].dev = mnt[t][1].dev
                            \/ call[c].kind = "publish" /\ call[c].path = t
        BY <2>1, <2>3 DEF Bare
    <2> QED
        BY <2>2, <2>4, <2>5, UnpublishKept
<1>10. CASE PublishRemount(c)
    <2>1. call[c].kind = "publish" /\ call[c].path \in Target /\ UNCHANGED dirs
        BY <1>10 DEF PublishRemount, Is, NodeInv, CallsInv
    <2>2. Moved(c) /\ call'[c].kind = "none"
        BY <1>10, EndMoves DEF PublishRemount
    <2>3. \/ UNCHANGED mnt
          \/ /\ ~Bare(call[c].path)
             /\ \A t \in Target : t # call[c].path => mnt'[t] = mnt[t]
        BY <1>10 DEF PublishRemount, NodeInv, TypeOK, Path
    <2>4. \A t \in Target : Bare(t)' \/ t \in dirs'
        BY <2>1, <2>3 DEF UnpublishInv, Bare
    <2>5. \A t \in Target : \/ Bare(t)'
                            \/ ~Bare(t) /\ mnt'[t][1].dev = mnt[t][1].dev
                            \/ call[c].kind = "publish" /\ call[c].path = t
        BY <2>1, <2>3 DEF Bare
    <2> QED
        BY <2>2, <2>4, <2>5, UnpublishKept
<1>11. CASE UnpublishStat(c)
    <2>1. CASE Goto(c, "look")
        BY <1>11, <2>1, GotoMoves, UnpublishRead DEF UnpublishStat, Is
    <2>2. CASE Return(c)
        BY <1>11, <2>2, EndMoves, UnpublishRead DEF UnpublishStat
    <2> QED
        BY <1>11, <2>1, <2>2 DEF UnpublishStat
<1>12. CASE UnpublishLook(c)
    <2>1. UNCHANGED <<mnt, dirs>> /\ call[c].kind = "unpublish"
        BY <1>12 DEF UnpublishLook, Is
    <2>2. CASE Return(c)
        BY <2>1, <2>2, EndMoves, UnpublishRead
    <2>3. CASE ~Return(c)
        <3>1. call' = [call EXCEPT ![c].pc = "mounts", ![c].dev = DevFromMount(call[c].path)]
            BY <1>12, <2>3 DEF UnpublishLook
        <3>2. Moved(c)
            <4>1. NodeInv'
                BY <1>12, UnpublishLookKeeps
            <4>2. call' \in [Slot -> Call]
                BY <4>1 DEF NodeInv, TypeOK
            <4> QED
                BY <2>1, <3>1, <4>2 DEF Moved, NodeInv, TypeOK, Call
        <3>3. call'[c].dev = mnt'[call[c].path][1].dev
            BY <2>1, <3>1 DEF DevFromMount, NodeInv, TypeOK, Call
        <3> QED
            BY <2>1, <3>2, <3>3, UnpublishKept DEF UnpublishInv, Bare
    <2> QED
        BY <2>2, <2>3
<1>13. CASE UnpublishMounts(c)
    <2>1. UNCHANGED <<mnt, dirs>> /\ call[c].kind = "unpublish"
        BY <1>13 DEF UnpublishMounts, Is
    <2>2. CASE Return(c)
        BY <2>1, <2>2, EndMoves, UnpublishRead
    <2>3. CASE ~Return(c)
        <3> DEFINE n == Cardinality(OfAt(call[c].dev, call[c].path))
        <3>1. n # 0 /\ call' = [call EXCEPT ![c].pc = "unmount", ![c].left = n]
            BY <1>13, <2>3 DEF UnpublishMounts
        <3>2. call' \in [Slot -> Call]
            BY <1>13, UnpublishMountsKeeps DEF NodeInv, TypeOK
        <3> HIDE DEF n
        <3>3. Moved(c) /\ call'[c].pc = "unmount"
            BY <2>1, <3>1, <3>2 DEF Moved, NodeInv, TypeOK, Call
        <3> QED
            BY <2>1, <3>3, UnpublishRead
    <2> QED
        BY <2>2, <2>3
<1>14. CASE UnpublishUnmount(c)
    <2>1. /\ call[c].kind = "unpublish" /\ call[c].left # 0 /\ UNCHANGED dirs
          /\ call[c].path \in Target /\ call[c].path \in Path
        BY <1>14 DEF UnpublishUnmount, Is, NodeInv, CallsInv, Path
    <2>2. CASE Refuse(c) /\ UNCHANGED mnt
        BY <2>1, <2>2, EndMoves, UnpublishRead
    <2>3. CASE ~Bare(call[c].path) /\ Unmount(call[c].path) /\ Goto(c, "remove")
        <3>1. Moved(c) /\ call'[c].pc = "remove"
            BY <2>1, <2>3, GotoMoves
        <3>2. /\ mnt' \in [Path -> Seq(Mount)]
              /\ \A q \in Path : q # call[c].path => mnt'[q] = mnt[q]
              /\ \A i \in 1..Len(mnt'[call[c].path]) :
                    mnt'[call[c].path][i] = mnt[call[c].path][i]
            BY <2>1, <2>3, UnmountFacts DEF NodeInv, TypeOK
        <3>3. mnt'[call[c].path] = <<>> \/ mnt'[call[c].path][1] = mnt[call[c].path][1]
            <4>1. mnt'[call[c].path] \in Seq(Mount)
                BY <2>1, <3>2
            <4>2. mnt'[call[c].path] = <<>> \/ 1 \in 1..Len(mnt'[call[c].path])
                BY <4>1
            <4> QED
                BY <3>2, <4>2, <2>1, <3>1 DEF Bare, Moved
        <3>4. \A t \in Target : Bare(t)' \/ (~Bare(t) /\ mnt'[t][1].dev = mnt[t][1].dev)
            BY <2>3, <3>2, <3>3, <3>1, <2>1 DEF Bare, Path, Moved
        <3>5. \A t \in Target : Bare(t)' \/ t \in dirs'
            BY <2>1, <3>4 DEF UnpublishInv
        <3> QED
            BY <3>1, <3>4, <3>5, UnpublishKept
    <2> QED
        BY <1>14, <2>2, <2>3 DEF UnpublishUnmount
<1>15. CASE UnpublishRemove(c)
    <2>1. /\ UNCHANGED mnt /\ call[c].kind = "unpublish"
          /\ \A t \in Target : t \in dirs \ dirs' => Bare(t)
        BY <1>15 DEF UnpublishRemove, Is
    <2>2. CASE Return(c) \/ Refuse(c)
        BY <2>1, <2>2, EndMoves, UnpublishRead
    <2>3. CASE ~Return(c) /\ ~Refuse(c)
        <3>1. call' = [call EXCEPT ![c].pc = "unmount", ![c].left = @ - 1]
            BY <1>15, <2>3 DEF UnpublishRemove
        <3>2. call' \in [Slot -> Call] /\ CallsInv'
            BY <1>15, UnpublishRemoveKeeps DEF NodeInv, TypeOK
        <3>3. /\ call'[c].kind = "unpublish" /\ call'[c].path = call[c].path
              /\ call'[c].crossed = call[c].crossed /\ call'[c].pc = "unmount"
              /\ \A x \in Slot : x # c => call'[x] = call[x]
            BY <2>1, <3>1 DEF NodeInv, TypeOK, Call
        <3>4. Moved(c)
            BY <2>1, <3>2, <3>3 DEF Moved, CallsInv
        <3> QED
            BY <2>1, <3>3, <3>4, UnpublishRead
    <2> QED
        BY <2>2, <2>3
<1>16. CASE Fail(c)
    BY <1>16, EndMoves, UnpublishRead DEF Fail
<1> QED
    BY <1>1, <1>2, <1>3, <1>4, <1>5, <1>6, <1>7, <1>8, <1>9, <1>10, <1>11, <1>12,
       <1>13, <1>14, <1>15, <1>16 DEF Step

(* The start of a call keeps UnpublishInv. *)
LEMMA UnpublishBegin ==
    ASSUME NodeInv, UnpublishInv, NEW c \in Slot,
           NEW k \in {"stage", "unstage", "publish", "unpublish"},
           NEW p \in Path, Begin(c, k, p),
           k \in {"stage", "unstage"} => p \in Vol,
           k \in {"publish", "unpublish"} => p \in Target
    PROVE  UnpublishInv'
<1>1. UNCHANGED <<mnt, dirs>>
    BY DEF Begin
<1>2. /\ call'[c].kind = k /\ call'[c].path = p /\ call'[c].pc = "start"
      /\ \A x \in Slot : x # c => /\ call'[x].kind = call[x].kind
                                  /\ call'[x].path = call[x].path
                                  /\ call'[x].pc = call[x].pc
                                  /\ call[x].crossed => call'[x].crossed
                                  /\ call'[x].dev = call[x].dev
      /\ \A x \in Slot : /\ x # c /\ {k, call[x].kind} = {"publish", "unpublish"}
                         /\ call[x].path = p
                         => call'[x].crossed /\ call'[c].crossed
    <2>1. call'[c].kind = k /\ call'[c].path = p /\ call'[c].pc = "start"
        BY BeginFacts
    <2>2. \A x \in Slot : x # c => /\ call'[x].kind = call[x].kind
                                   /\ call'[x].path = call[x].path
                                   /\ call'[x].pc = call[x].pc
                                   /\ call'[x].left = call[x].left
        BY BeginFacts
    <2>3. \A x \in Slot : x # c => /\ call[x].crossed => call'[x].crossed
                                   /\ call'[x].dev = call[x].dev
        BY BeginFacts
    <2>4. \A x \in Slot : /\ x # c /\ {k, call[x].kind} = {"publish", "unpublish"}
                          /\ call[x].path = p
                          => call'[x].crossed /\ call'[c].crossed
        BY BeginFacts
    <2> QED
        BY <2>1, <2>2, <2>3, <2>4
<1>3. ASSUME NEW x \in Slot, NEW y \in Slot, call'[x].kind = "unpublish",
             call'[y].kind = "publish", call'[x].path = call'[y].path
      PROVE  call'[x].crossed
    <2>1. CASE x # c /\ y # c
        BY <1>2, <1>3, <2>1 DEF UnpublishInv
    <2>2. CASE x = c
        <3>1. y # c /\ {k, call[y].kind} = {"publish", "unpublish"} /\ call[y].path = p
            BY <1>2, <1>3, <2>2
        <3> QED
            BY <1>2, <2>2, <3>1
    <2>3. CASE y = c
        <3>1. x # c /\ {k, call[x].kind} = {"publish", "unpublish"} /\ call[x].path = p
            BY <1>2, <1>3, <2>3
        <3> QED
            BY <1>2, <3>1
    <2> QED
        BY <2>1, <2>2, <2>3
<1>4. ASSUME NEW x \in Slot, call'[x].kind = "unpublish", call'[x].pc = "mounts"
      PROVE  \/ call'[x].crossed \/ Bare(call'[x].path)
             \/ mnt[call'[x].path][1].dev = call'[x].dev
    <2>1. x # c
        BY <1>2, <1>4
    <2> QED
        BY <1>2, <1>4, <2>1 DEF UnpublishInv, Is
<1> QED
    BY <1>1, <1>3, <1>4 DEF UnpublishInv, Is, Bare

(* Every step keeps UnpublishInv. *)
LEMMA UnpublishNext == NodeInv /\ UnpublishInv /\ [Next]_vars => UnpublishInv'
<1> SUFFICES ASSUME NodeInv, UnpublishInv, [Next]_vars PROVE UnpublishInv'
    OBVIOUS
<1>1. CASE \E c \in Slot : Step(c) \/ Fail(c)
    BY <1>1, UnpublishStep
<1>2. CASE \E c \in Slot, v \in Vol : BeginStage(c, v) \/ BeginUnstage(c, v)
    <2>1. PICK c \in Slot, v \in Vol : Begin(c, "stage", v) \/ Begin(c, "unstage", v)
        BY <1>2 DEF BeginStage, BeginUnstage
    <2> QED
        BY <2>1, UnpublishBegin DEF Path
<1>3. CASE \E c \in Slot, t \in Target : BeginPublish(c, t) \/ BeginUnpublish(c, t)
    <2>1. PICK c \in Slot, t \in Target : Begin(c, "publish", t) \/ Begin(c, "unpublish", t)
        BY <1>3 DEF BeginPublish, BeginUnpublish
    <2> QED
        BY <2>1, UnpublishBegin DEF Path
<1>4. CASE Crash \/ Reboot
    <2>1. \A c \in Slot : call'[c].kind = "none"
        BY <1>4 DEF Crash, Reboot, Idle
    <2>2. UNCHANGED dirs /\ \A t \in Target : mnt'[t] = mnt[t] \/ mnt'[t] = <<>>
        BY <1>4 DEF Crash, Reboot, Path
    <2> QED
        BY <2>1, <2>2 DEF UnpublishInv, Is, Bare
<1>5. CASE (\E v \in Vol : Detach(v) \/ TakeDown(v)) \/ UNCHANGED vars
    <2>1. UNCHANGED <<mnt, dirs, call>>
        BY <1>5 DEF Detach, TakeDown, vars
    <2> QED
        BY <2>1 DEF UnpublishInv, Is, Bare
<1> QED
    BY <1>1, <1>2, <1>3, <1>4, <1>5 DEF Next

(* Only three steps of an unpublish answer that all is well, and at each   *)
(* of them nothing is mounted, or a publish has overlapped.                *)
LEMMA AnswersBare ==
    ASSUME NodeInv, UnpublishInv, [Next]_vars, NEW c \in Slot, NEW t \in Target,
           Succeeds(c, "unpublish"), call[c].path = t
    PROVE  call[c].crossed \/ Bare(t)'
<1>1. call[c].kind = "unpublish" /\ call'[c].pc = "ok"
    BY DEF Succeeds, Finished, Idle
<1>2. Step(c) /\ ~Refuse(c) /\ \A q : q # "ok" => ~Goto(c, q)
    BY <1>1, OwnAnswer
<1>3. call \in [Slot -> Call]
    BY DEF NodeInv, TypeOK
<1>4. CASE UnpublishStat(c)
    <2>1. call[c].path \notin dirs /\ UNCHANGED mnt
        BY <1>2, <1>4 DEF UnpublishStat
    <2> QED
        BY <2>1 DEF UnpublishInv, Bare
<1>5. CASE UnpublishLook(c)
    <2>1. Bare(call[c].path) /\ UNCHANGED mnt
        BY <1>1, <1>3, <1>5 DEF UnpublishLook, Call
    <2> QED
        BY <2>1 DEF Bare
<1>6. CASE UnpublishMounts(c)
    <2>1. Cardinality(OfAt(call[c].dev, t)) = 0 /\ UNCHANGED mnt
        BY <1>1, <1>3, <1>6 DEF UnpublishMounts, Call
    <2>2. t \in Path /\ mnt[t] \in Seq(Mount)
        BY DEF NodeInv, TypeOK, Path
    <2>3. OfAt(call[c].dev, t) = {}
        BY <2>1, <2>2, OfAtFinite, FS_EmptySet DEF NodeInv, TypeOK
    <2>4. Bare(t) \/ mnt[t][1].dev # call[c].dev
        <3>1. mnt[t] = <<>> \/ 1 \in 1..Len(mnt[t])
            BY <2>2
        <3> QED
            BY <2>3, <3>1 DEF OfAt, Bare
    <2> QED
        BY <1>6, <2>1, <2>4 DEF UnpublishInv, UnpublishMounts, Is, Bare
<1>7. CASE UnpublishUnmount(c)
    BY <1>2, <1>7 DEF UnpublishUnmount
<1>8. CASE UnpublishRemove(c)
    BY <1>2, <1>8 DEF UnpublishRemove, Bare
<1> QED
    BY <1>1, <1>2, <1>4, <1>5, <1>6, <1>7, <1>8 DEF Step, Is, StageCheck, StageMounts,
       StageMount, UnstageLook, UnstageMounts, UnstageUnmount, PublishCheck,
       PublishMounts, PublishBind, PublishRemount

(* An unpublish that succeeds leaves nothing mounted at its target, for    *)
(* any stack of mounts and any number of unpublishes at once; unless a     *)
(* publish of the target overlapped it (node.go:340-379).                  *)
THEOREM UnpublishLeavesNothing == Spec => UnpublishSound
<1>1. Init => UnpublishInv
    <2> SUFFICES ASSUME Init PROVE UnpublishInv
        OBVIOUS
    <2>1. (\A t \in Target : Bare(t)) /\ \A c \in Slot : call[c].kind = "none"
        BY DEF Init, Bare, Path, Idle
    <2> QED
        BY <2>1 DEF UnpublishInv, Is
<1>2. NodeInv /\ UnpublishInv /\ [Next]_vars =>
        [\A c \in Slot, t \in Target : Succeeds(c, "unpublish") /\ call[c].path = t =>
            call[c].crossed \/ Bare(t)']_vars
    BY AnswersBare
<1> QED
    BY <1>1, <1>2, NodeInvariance, UnpublishNext, PTL DEF Spec, UnpublishSound

-----------------------------------------------------------------------------
(* The answer of a publish.  No second publish of the target and no        *)
(* unstage of its volume has been in flight with a call for the target.    *)
Undisputed(t) == t \notin risky /\ VolOf[t] \notin risky

(* A staging path shows the volume in the mode it was staged in, and what  *)
(* a target shows of a volume that is staged read-only is read-only.       *)
ModeInv ==
    /\ \A v \in Vol : \A i \in 1..Len(mnt[v]) : mnt[v][i].ro = ReadOnly[v]
    /\ \A t \in Target : \A i \in 1..Len(mnt[t]) :
          VolOf[t] \in risky \/ (ReadOnly[VolOf[t]] => mnt[t][i].ro)

(* Mounts are not stacked on an undisputed target. *)
StackInv == \A t \in Target : Undisputed(t) => Len(mnt[t]) <= 1

(* A publish about to bind an undisputed target finds it bare, only a      *)
(* read-only bind is remounted, and two publishes of one target are on     *)
(* record.                                                                 *)
BindInv ==
    /\ \A c \in Slot : Is(c, "publish", "bind") /\ Undisputed(call[c].path)
                       => Bare(call[c].path)
    /\ \A c \in Slot : Is(c, "publish", "remount") => ReadOnly[call[c].path]
    /\ \A c, x \in Slot : /\ c # x /\ call[c].kind = "publish" /\ call[x].kind = "publish"
                          /\ call[c].path = call[x].path
                          => call[c].path \in risky

PublishInv == ModeInv /\ StackInv /\ BindInv

(* What the steps of calls other than publishes do to the mount table. *)
LEMMA OtherMounts ==
    ASSUME NodeInv, NEW c \in Slot, Step(c) \/ Fail(c), call[c].kind # "publish"
    PROVE  \/ UNCHANGED mnt
           \/ \E p \in Path : ~Bare(p) /\ Unmount(p)
           \/ \E v \in Vol : Push(v, [dev |-> v, ro |-> ReadOnly[v]])
<1>1. CASE StageMount(c)
    BY <1>1 DEF StageMount, Is, NodeInv, CallsInv
<1>2. CASE UnstageUnmount(c)
    BY <1>2 DEF UnstageUnmount, Is, NodeInv, CallsInv, Path
<1>3. CASE UnpublishUnmount(c)
    BY <1>3 DEF UnpublishUnmount, Is, NodeInv, CallsInv, Path
<1>4. CASE PublishCheck(c) \/ PublishMounts(c) \/ PublishBind(c) \/ PublishRemount(c)
    BY <1>4 DEF PublishCheck, PublishMounts, PublishBind, PublishRemount, Is
<1> QED
    BY <1>1, <1>2, <1>3, <1>4 DEF Step, StageCheck, StageMounts, UnstageLook, UnstageMounts,
       UnpublishStat, UnpublishLook, UnpublishMounts, UnpublishRemove, Fail

(* What the steps of a call have to keep.  Only the target of a publish    *)
(* gets a mount.                                                           *)
LEMMA PublishKept ==
    ASSUME NodeInv, PublishInv, NEW c \in Slot, Moved(c), UNCHANGED risky, ModeInv', StackInv',
           \A t \in Target : \/ Bare(t) => Bare(t)'
                             \/ call[c].kind = "publish" /\ call[c].path = t,
           call'[c].kind = "publish" /\ call'[c].pc = "bind" /\ Undisputed(call[c].path) =>
              mnt'[call[c].path] = <<>>,
           call'[c].kind = "publish" /\ call'[c].pc = "remount" => ReadOnly[call[c].path]
    PROVE  PublishInv'
<1>1. ASSUME NEW x \in Slot, call'[x].kind # "none"
      PROVE  call'[x].kind = call[x].kind /\ call'[x].path = call[x].path
    BY <1>1 DEF Moved
<1>2. ASSUME NEW x \in Slot, NEW y \in Slot, x # y, call'[x].kind = "publish",
             call'[y].kind = "publish", call'[x].path = call'[y].path
      PROVE  call'[x].path \in risky
    BY <1>1, <1>2 DEF PublishInv, BindInv
<1>3. ASSUME NEW x \in Slot, call'[x].kind = "publish", call'[x].pc = "bind",
             Undisputed(call'[x].path)
      PROVE  mnt'[call'[x].path] = <<>>
    <2>1. CASE x = c
        BY <1>1, <1>3, <2>1
    <2>2. CASE x # c
        <3>1. call'[x] = call[x] /\ call[x].path \in Target
            BY <1>3, <2>2 DEF Moved, NodeInv, CallsInv
        <3>2. mnt[call[x].path] = <<>>
            BY <1>3, <3>1 DEF PublishInv, BindInv, Is, Bare
        <3>3. ~(call[c].kind = "publish" /\ call[c].path = call[x].path)
            BY <1>3, <2>2, <3>1 DEF PublishInv, BindInv, Undisputed
        <3> QED
            BY <3>1, <3>2, <3>3 DEF Bare
    <2> QED
        BY <2>1, <2>2
<1>4. ASSUME NEW x \in Slot, call'[x].kind = "publish", call'[x].pc = "remount"
      PROVE  ReadOnly[call'[x].path]
    <2>1. CASE x = c
        BY <1>1, <1>4, <2>1
    <2>2. CASE x # c
        BY <1>4, <2>2 DEF Moved, PublishInv, BindInv, Is
    <2> QED
        BY <2>1, <2>2
<1>5. BindInv'
    BY <1>2, <1>3, <1>4 DEF BindInv, Is, Bare, Undisputed
<1> QED
    BY <1>5 DEF PublishInv

(* Mounts that are only taken off keep what holds of modes and stacks. *)
LEMMA FewerMounts ==
    ASSUME NodeInv, NodeInv', PublishInv, UNCHANGED risky,
           \A p \in Path : /\ Len(mnt'[p]) <= Len(mnt[p])
                           /\ \A i \in 1..Len(mnt'[p]) : mnt'[p][i] = mnt[p][i]
    PROVE  ModeInv' /\ StackInv' /\ \A t \in Target : Bare(t) => Bare(t)'
<1>1. \A p \in Path : /\ mnt[p] \in Seq(Mount) /\ mnt'[p] \in Seq(Mount)
                      /\ Len(mnt[p]) \in Nat /\ Len(mnt'[p]) \in Nat
    BY DEF NodeInv, TypeOK
<1>2. \A p \in Path : \A i \in 1..Len(mnt'[p]) : i \in 1..Len(mnt[p]) /\ mnt'[p][i] = mnt[p][i]
    BY <1>1
<1>3. ModeInv'
    BY <1>2 DEF PublishInv, ModeInv, Path
<1>4. StackInv'
    BY <1>1 DEF PublishInv, StackInv, Undisputed, Path
<1>5. \A t \in Target : Bare(t) => Bare(t)'
    BY <1>1 DEF Bare, Path
<1> QED
    BY <1>3, <1>4, <1>5

(* The steps of the other calls keep PublishInv. *)
LEMMA PublishOthers ==
    ASSUME NodeInv, NodeInv', PublishInv, NEW c \in Slot, Step(c) \/ Fail(c),
           call[c].kind # "publish" \/ Fail(c)
    PROVE  PublishInv'
<1>1. Moved(c) /\ UNCHANGED risky
    BY StepMoves
<1>2. call'[c].kind # "publish"
    <2>1. CASE Fail(c)
        BY <2>1, EndMoves DEF Fail
    <2>2. CASE call[c].kind # "publish"
        BY <1>1, <2>2 DEF Moved
    <2> QED
        BY <2>1, <2>2
<1>3. mnt \in [Path -> Seq(Mount)]
    BY DEF NodeInv, TypeOK
<1>4. CASE UNCHANGED mnt
    <2>1. ModeInv' /\ StackInv' /\ \A t \in Target : Bare(t) => Bare(t)'
        BY <1>1, <1>3, <1>4, FewerMounts
    <2> QED
        BY <1>1, <1>2, <2>1, PublishKept
<1>5. CASE \E p \in Path : ~Bare(p) /\ Unmount(p)
    <2>1. PICK p \in Path : ~Bare(p) /\ Unmount(p)
        BY <1>5
    <2>2. /\ \A q \in Path : q # p => mnt'[q] = mnt[q]
          /\ Len(mnt[p]) \in Nat /\ Len(mnt'[p]) = Len(mnt[p]) - 1
          /\ \A i \in 1..Len(mnt'[p]) : mnt'[p][i] = mnt[p][i]
        BY <1>3, <2>1, UnmountFacts
    <2>3. \A q \in Path : /\ Len(mnt'[q]) <= Len(mnt[q])
                          /\ \A i \in 1..Len(mnt'[q]) : mnt'[q][i] = mnt[q][i]
        <3>1. \A q \in Path : Len(mnt[q]) \in Nat
            BY <1>3
        <3> QED
            BY <2>2, <3>1
    <2>4. ModeInv' /\ StackInv' /\ \A t \in Target : Bare(t) => Bare(t)'
        BY <1>1, <2>3, FewerMounts
    <2> QED
        BY <1>1, <1>2, <2>4, PublishKept
<1>6. CASE \E v \in Vol : Push(v, [dev |-> v, ro |-> ReadOnly[v]])
    <2>1. PICK v \in Vol : Push(v, [dev |-> v, ro |-> ReadOnly[v]])
        BY <1>6
    <2> DEFINE m == [dev |-> v, ro |-> ReadOnly[v]]
    <2>2. v \in Path /\ m \in Mount /\ m.ro = ReadOnly[v]
        BY MountAssumption DEF Path, Mount
    <2> HIDE DEF m
    <2>3. /\ \A q \in Path : q # v => mnt'[q] = mnt[q]
          /\ Len(mnt[v]) \in Nat /\ Len(mnt'[v]) = Len(mnt[v]) + 1
          /\ mnt'[v][Len(mnt[v]) + 1] = m
          /\ \A i \in 1..Len(mnt[v]) : mnt'[v][i] = mnt[v][i]
        <3>1. Push(v, m)
            BY <2>1 DEF m
        <3> QED
            BY <1>3, <2>2, <3>1, PushFacts
    <2>4. \A t \in Target : mnt'[t] = mnt[t]
        BY <2>3, MountAssumption DEF Path
    <2>5. \A i \in 1..Len(mnt'[v]) : mnt'[v][i].ro = ReadOnly[v]
        <3>1. \A i \in 1..Len(mnt'[v]) : i \in 1..Len(mnt[v]) \/ i = Len(mnt[v]) + 1
            BY <2>3
        <3> QED
            BY <2>2, <2>3, <3>1 DEF PublishInv, ModeInv
    <2>6. ModeInv'
        <3>1. \A u \in Vol : \A i \in 1..Len(mnt'[u]) : mnt'[u][i].ro = ReadOnly[u]
            <4> SUFFICES ASSUME NEW u \in Vol
                         PROVE  \A i \in 1..Len(mnt'[u]) : mnt'[u][i].ro = ReadOnly[u]
                OBVIOUS
            <4>1. u # v => mnt'[u] = mnt[u]
                BY <2>3 DEF Path
            <4> QED
                BY <2>5, <4>1 DEF PublishInv, ModeInv
        <3>2. \A t \in Target : \A i \in 1..Len(mnt'[t]) :
                 VolOf[t] \in risky' \/ (ReadOnly[VolOf[t]] => mnt'[t][i].ro)
            BY <1>1, <2>4 DEF PublishInv, ModeInv
        <3> QED
            BY <3>1, <3>2 DEF ModeInv
    <2>7. StackInv' /\ \A t \in Target : Bare(t) => Bare(t)'
        BY <1>1, <2>4 DEF PublishInv, StackInv, Undisputed, Bare
    <2> QED
        BY <1>1, <1>2, <2>6, <2>7, PublishKept
<1>7. UNCHANGED mnt \/ call[c].kind # "publish"
    BY DEF Fail
<1> QED
    BY <1>4, <1>5, <1>6, <1>7, OtherMounts

(* PublishCheck and PublishMounts keep PublishInv: a target is bound only  *)
(* if it was seen bare, since a volume that is on a target and staged has  *)
(* two mounts.                                                             *)
LEMMA PublishReads ==
    ASSUME NodeInv, NodeInv', PublishInv, NEW c \in Slot, PublishCheck(c) \/ PublishMounts(c)
    PROVE  PublishInv'
<1> DEFINE t == call[c].path
<1>1. Moved(c) /\ UNCHANGED risky
    BY StepMoves DEF Step
<1>2. UNCHANGED mnt
    BY DEF PublishCheck, PublishMounts
<1>3. ModeInv' /\ StackInv' /\ \A s \in Target : Bare(s) => Bare(s)'
    BY <1>1, <1>2 DEF PublishInv, ModeInv, StackInv, Undisputed, Bare
<1>4. t \in Target /\ VolOf[t] \in Vol /\ t # VolOf[t]
    BY MountAssumption DEF PublishCheck, PublishMounts, Is, NodeInv, CallsInv
<1>5. CASE Goto(c, "mounts") \/ Return(c) \/ Refuse(c)
    <2>1. call'[c].kind = "none" \/ call'[c].pc = "mounts"
        BY <1>5, GotoMoves, EndMoves DEF PublishCheck, PublishMounts, Is
    <2> QED
        BY <1>1, <1>3, <2>1, PublishKept
<1>6. CASE Goto(c, "bind") /\ PublishMounts(c)
    <2>1. call'[c].pc = "bind"
        BY <1>6, GotoMoves DEF PublishMounts, Is
    <2>2. ~(Cardinality(Of(VolOf[t])) > 1 /\ OfAt(VolOf[t], t) # {})
        <3>1. ~Return(c) /\ ~Refuse(c)
            BY <1>6, EndMoves, GotoMoves DEF PublishMounts, Is
        <3> QED
            BY <1>6, <3>1 DEF PublishMounts
    <2>3. ASSUME Undisputed(t), mnt[t] # <<>>  PROVE FALSE
        <3>1. mnt[t] \in Seq(Mount)
            BY <1>4 DEF NodeInv, TypeOK, Path
        <3>2. 1 \in 1..Len(mnt[t])
            BY <2>3, <3>1
        <3>3. mnt[t][1].dev = VolOf[t]
            BY <1>4, <2>3, <3>2 DEF NodeInv, StagedWhilePublished, Undisputed
        <3>4. OfAt(VolOf[t], t) # {}
            BY <3>2, <3>3 DEF OfAt
        <3>5. Cardinality(Of(VolOf[t])) > 1
            BY <1>4, <2>3, TwoMounts DEF Undisputed, Bare
        <3> QED
            BY <2>2, <3>4, <3>5
    <2> QED
        BY <1>1, <1>2, <1>3, <2>1, <2>3, PublishKept
<1> QED
    BY <1>5, <1>6 DEF PublishCheck, PublishMounts

(* What a bind mounts: the volume, in the mode it was staged in, unless an *)
(* unstage has overlapped a stage or publish.                              *)
LEMMA TopStaged ==
    ASSUME NodeInv, PublishInv, NEW v \in Vol, ~Bare(v)
    PROVE  Top(v).dev = v /\ Top(v).ro = ReadOnly[v]
<1>1. mnt[v] \in Seq(Mount) /\ mnt[v] # <<>>
    BY DEF NodeInv, TypeOK, Path, Bare
<1>2. Len(mnt[v]) \in 1..Len(mnt[v])
    BY <1>1
<1>3. Top(v) = mnt[v][Len(mnt[v])]
    BY DEF Top
<1> QED
    BY <1>2, <1>3 DEF NodeInv, MountsInv, PublishInv, ModeInv

(* PublishBind keeps PublishInv. *)
LEMMA PublishBinds ==
    ASSUME NodeInv, NodeInv', PublishInv, NEW c \in Slot, PublishBind(c)
    PROVE  PublishInv'
<1> DEFINE t == call[c].path
           m == Top(VolOf[t])
<1>1. Moved(c) /\ UNCHANGED risky
    BY StepMoves DEF Step
<1>2. t \in Target /\ VolOf[t] \in Vol /\ t \in Path
    BY MountAssumption DEF PublishBind, Is, NodeInv, CallsInv, Path
<1>3. call'[c].kind = "none" \/ (call'[c].pc = "remount" /\ ReadOnly[t])
    BY GotoMoves, EndMoves DEF PublishBind, Is
<1>4. CASE UNCHANGED mnt
    <2>1. ModeInv' /\ StackInv' /\ \A s \in Target : Bare(s) => Bare(s)'
        BY <1>1, <1>4 DEF PublishInv, ModeInv, StackInv, Undisputed, Bare
    <2> QED
        BY <1>1, <1>3, <2>1, PublishKept
<1>5. CASE Push(t, m)
    <2>1. VolOf[t] \in risky \/ ~Bare(VolOf[t])
        BY DEF PublishBind, NodeInv, LookedInv
    <2>2. VolOf[t] \in risky \/ m.ro = ReadOnly[VolOf[t]]
        BY <1>2, <2>1, TopStaged
    <2>3. Undisputed(t) => Len(mnt[t]) = 0
        BY DEF PublishBind, PublishInv, BindInv, Bare
    <2>4. m \in Mount
        <3>1. CASE Bare(VolOf[t])
            BY <3>1 DEF Top, Mount
        <3>2. CASE ~Bare(VolOf[t])
            <4>1. mnt[VolOf[t]] \in Seq(Mount) /\ mnt[VolOf[t]] # <<>>
                BY <1>2, <3>2 DEF NodeInv, TypeOK, Path, Bare
            <4> QED
                BY <3>2, <4>1 DEF Top
        <3> QED
            BY <3>1, <3>2
    <2> HIDE DEF m
    <2>5. /\ \A q \in Path : q # t => mnt'[q] = mnt[q]
          /\ Len(mnt[t]) \in Nat /\ Len(mnt'[t]) = Len(mnt[t]) + 1
          /\ mnt'[t][Len(mnt[t]) + 1] = m
          /\ \A i \in 1..Len(mnt[t]) : mnt'[t][i] = mnt[t][i]
        BY <1>2, <1>5, <2>4, PushFacts DEF NodeInv, TypeOK
    <2>6. \A v \in Vol : mnt'[v] = mnt[v]
        BY <1>2, <2>5, MountAssumption DEF Path
    <2> HIDE DEF t
    <2>7. \A s \in Target : \A i \in 1..Len(mnt'[s]) :
             VolOf[s] \in risky \/ (ReadOnly[VolOf[s]] => mnt'[s][i].ro)
        <3> SUFFICES ASSUME NEW s \in Target, NEW i \in 1..Len(mnt'[s]), VolOf[s] \notin risky,
                            ReadOnly[VolOf[s]]
                     PROVE  mnt'[s][i].ro
            OBVIOUS
        <3>1. CASE s # t
            <4>1. mnt'[s] = mnt[s]
                BY <2>5, <3>1 DEF Path
            <4> QED
                BY <4>1 DEF PublishInv, ModeInv
        <3>2. CASE s = t
            <4>1. i \in 1..Len(mnt[t]) \/ i = Len(mnt[t]) + 1
                BY <2>5, <3>2
            <4>2. CASE i \in 1..Len(mnt[t])
                BY <2>5, <3>2, <4>2 DEF PublishInv, ModeInv
            <4>3. CASE i = Len(mnt[t]) + 1
                BY <2>2, <2>5, <3>2, <4>3
            <4> QED
                BY <4>1, <4>2, <4>3
        <3> QED
            BY <3>1, <3>2
    <2>8. ModeInv'
        BY <1>1, <2>6, <2>7 DEF PublishInv, ModeInv
    <2>9. StackInv'
        <3> SUFFICES ASSUME NEW s \in Target, Undisputed(s)
                     PROVE  Len(mnt'[s]) <= 1
            BY <1>1 DEF StackInv, Undisputed
        <3>1. CASE s # t
            <4>1. mnt'[s] = mnt[s]
                BY <2>5, <3>1 DEF Path
            <4> QED
                BY <4>1 DEF PublishInv, StackInv
        <3>2. CASE s = t
            BY <2>3, <2>5, <3>2
        <3> QED
            BY <3>1, <3>2
    <2>10. \A s \in Target : \/ Bare(s) => Bare(s)'
                             \/ call[c].kind = "publish" /\ call[c].path = s
        BY <2>5 DEF PublishBind, Is, Bare, Path, t
    <2> QED
        BY <1>1, <1>3, <2>8, <2>9, <2>10, PublishKept DEF t
<1> QED
    BY <1>4, <1>5 DEF PublishBind

(* What a remount changes: the mode of the newest mount. *)
LEMMA RemountFacts ==
    ASSUME NodeInv, NEW t \in Target, ~Bare(t)
    PROVE  mnt' = [mnt EXCEPT ![t][Len(mnt[t])].ro = TRUE] =>
             /\ \A q \in Path : q # t => mnt'[q] = mnt[q]
             /\ Len(mnt'[t]) = Len(mnt[t]) /\ Len(mnt[t]) \in 1..Len(mnt[t])
             /\ \A i \in 1..Len(mnt[t]) : /\ mnt'[t][i].dev = mnt[t][i].dev
                                          /\ mnt[t][i].ro => mnt'[t][i].ro
             /\ mnt'[t][Len(mnt[t])].ro = TRUE /\ ~Bare(t)'
<1>1. mnt \in [Path -> Seq(Mount)] /\ t \in Path /\ mnt[t] \in Seq(Mount)
    BY DEF NodeInv, TypeOK, Path
<1>2. Len(mnt[t]) \in 1..Len(mnt[t]) /\ mnt[t][Len(mnt[t])] \in Mount
    BY <1>1 DEF Bare
<1>3. ASSUME mnt' = [mnt EXCEPT ![t][Len(mnt[t])].ro = TRUE]
      PROVE  /\ mnt'[t] = [mnt[t] EXCEPT ![Len(mnt[t])] =
                                 [mnt[t][Len(mnt[t])] EXCEPT !.ro = TRUE]]
             /\ \A q \in Path : q # t => mnt'[q] = mnt[q]
    BY <1>1, <1>3
<1>4. ASSUME mnt'[t] = [mnt[t] EXCEPT ![Len(mnt[t])] =
                             [mnt[t][Len(mnt[t])] EXCEPT !.ro = TRUE]]
      PROVE  /\ Len(mnt'[t]) = Len(mnt[t])
             /\ \A i \in 1..Len(mnt[t]) : /\ mnt'[t][i].dev = mnt[t][i].dev
                                          /\ mnt[t][i].ro => mnt'[t][i].ro
             /\ mnt'[t][Len(mnt[t])].ro = TRUE /\ ~Bare(t)'
    <2> DEFINE r == [mnt[t][Len(mnt[t])] EXCEPT !.ro = TRUE]
    <2>1. r \in Mount /\ r.ro = TRUE /\ r.dev = mnt[t][Len(mnt[t])].dev
        BY <1>2 DEF Mount
    <2>2. mnt'[t] \in Seq(Mount) /\ Len(mnt'[t]) = Len(mnt[t])
        BY <1>1, <1>2, <1>4, <2>1
    <2>3. mnt'[t] = [mnt[t] EXCEPT ![Len(mnt[t])] = r] /\ DOMAIN mnt[t] = 1..Len(mnt[t])
        BY <1>1, <1>4
    <2> HIDE DEF r
    <2>4. mnt'[t][Len(mnt[t])] = r
        BY <1>2, <2>3
    <2>5. \A i \in 1..Len(mnt[t]) : i # Len(mnt[t]) => mnt'[t][i] = mnt[t][i]
        BY <2>3
    <2>6. ~Bare(t)'
        BY <1>2, <2>2 DEF Bare
    <2> QED
        BY <1>2, <2>1, <2>2, <2>4, <2>5, <2>6
<1> QED
    BY <1>2, <1>3, <1>4

(* PublishRemount keeps PublishInv. *)
LEMMA PublishRemounts ==
    ASSUME NodeInv, NodeInv', PublishInv, NEW c \in Slot, PublishRemount(c)
    PROVE  PublishInv'
<1> DEFINE t == call[c].path
<1>1. Moved(c) /\ UNCHANGED risky
    BY StepMoves DEF Step
<1>2. t \in Target
    BY DEF PublishRemount, Is, NodeInv, CallsInv
<1>3. call'[c].kind = "none"
    BY EndMoves DEF PublishRemount
<1>4. CASE UNCHANGED mnt
    <2>1. ModeInv' /\ StackInv' /\ \A s \in Target : Bare(s) => Bare(s)'
        BY <1>1, <1>4 DEF PublishInv, ModeInv, StackInv, Undisputed, Bare
    <2> QED
        BY <1>1, <1>3, <2>1, PublishKept
<1>5. CASE ~Bare(t) /\ mnt' = [mnt EXCEPT ![t][Len(mnt[t])].ro = TRUE]
    <2> HIDE DEF t
    <2>1. /\ \A q \in Path : q # t => mnt'[q] = mnt[q]
          /\ Len(mnt'[t]) = Len(mnt[t])
          /\ \A i \in 1..Len(mnt[t]) : mnt[t][i].ro => mnt'[t][i].ro
        BY <1>2, <1>5, RemountFacts
    <2>2. \A v \in Vol : mnt'[v] = mnt[v]
        BY <1>2, <2>1, MountAssumption DEF Path
    <2>3. \A s \in Target : Len(mnt'[s]) = Len(mnt[s])
        BY <2>1 DEF Path
    <2>4. \A s \in Target : \A i \in 1..Len(mnt'[s]) :
             VolOf[s] \in risky \/ (ReadOnly[VolOf[s]] => mnt'[s][i].ro)
        <3> SUFFICES ASSUME NEW s \in Target, NEW i \in 1..Len(mnt[s]), VolOf[s] \notin risky,
                            ReadOnly[VolOf[s]]
                     PROVE  mnt'[s][i].ro
            BY <2>3
        <3>1. mnt[s][i].ro
            BY DEF PublishInv, ModeInv
        <3>2. CASE s = t
            BY <2>1, <3>1, <3>2
        <3>3. CASE s # t
            <4>1. mnt'[s] = mnt[s]
                BY <2>1, <3>3 DEF Path
            <4> QED
                BY <3>1, <4>1
        <3> QED
            BY <3>2, <3>3
    <2>5. ModeInv'
        BY <1>1, <2>2, <2>4 DEF PublishInv, ModeInv
    <2>6. StackInv'
        BY <1>1, <2>3 DEF PublishInv, StackInv, Undisputed
    <2>7. \A s \in Target : Bare(s) => Bare(s)'
        BY <1>5, <2>1 DEF Bare, Path
    <2> QED
        BY <1>1, <1>3, <2>5, <2>6, <2>7, PublishKept
<1> QED
    BY <1>4, <1>5 DEF PublishRemount

(* The start of a call keeps PublishInv: a second publish of a target is   *)
(* put on record, and the record is wiped only when nothing of the volume  *)
(* is left.                                                                *)
LEMMA PublishBegin ==
    ASSUME NodeInv, PublishInv, NEW c \in Slot,
           NEW k \in {"stage", "unstage", "publish", "unpublish"},
           NEW p \in Path, Begin(c, k, p),
           k \in {"stage", "unstage"} => p \in Vol,
           k \in {"publish", "unpublish"} => p \in Target
    PROVE  PublishInv'
<1> DEFINE v == VolumeOf(p)
<1>1. UNCHANGED mnt
    BY DEF Begin
<1>2. /\ call'[c].kind = k /\ call'[c].path = p /\ call'[c].pc = "start"
      /\ \A x \in Slot : x # c => /\ call'[x].kind = call[x].kind
                                  /\ call'[x].path = call[x].path
                                  /\ call'[x].pc = call[x].pc
    BY BeginFacts
<1>3. \A u \in risky : u \in risky' \/ (VolumeOf(u) = v /\ Quiet(v))
    BY DEF Begin
<1>4. ASSUME NEW x \in Slot, k = "publish", call[x].kind = "publish", call[x].path = p
      PROVE  p \in risky'
    <2>1. x \in Repeats(k, p)
        BY <1>4 DEF Repeats
    <2> QED
        BY <1>4, <2>1 DEF Begin
<1>5. /\ \A u \in Vol : VolumeOf(u) = u
      /\ \A t \in Target : VolumeOf(t) = VolOf[t] /\ VolOf[t] \in Vol
    BY MountAssumption DEF VolumeOf
<1> HIDE DEF v
<1>6. \A t \in Target : VolOf[t] = v /\ Quiet(v) => mnt[t] = <<>>
    BY <1>5 DEF Quiet, Bare, Path
<1>7. ASSUME NEW x \in Slot, NEW t \in Target, call[x].kind # "none", call[x].path = t,
             VolOf[t] = v
      PROVE  ~Quiet(v)
    BY <1>5, <1>7 DEF Quiet
<1>8. \A t \in Target : (VolOf[t] # v \/ ~Quiet(v)) =>
         /\ t \in risky => t \in risky'
         /\ VolOf[t] \in risky => VolOf[t] \in risky'
    BY <1>3, <1>5
<1>9. ModeInv'
    <2>1. ASSUME NEW t \in Target, NEW i \in 1..Len(mnt[t])
          PROVE  VolOf[t] \in risky' \/ (ReadOnly[VolOf[t]] => mnt[t][i].ro)
        BY <1>6, <1>8 DEF PublishInv, ModeInv
    <2> QED
        BY <1>1, <2>1 DEF PublishInv, ModeInv
<1>10. StackInv'
    <2>1. ASSUME NEW t \in Target, t \notin risky', VolOf[t] \notin risky'
          PROVE  Len(mnt[t]) <= 1
        BY <1>6, <1>8, <2>1 DEF PublishInv, StackInv, Undisputed
    <2> QED
        BY <1>1, <2>1 DEF StackInv, Undisputed
<1>11. BindInv'
    <2>1. ASSUME NEW x \in Slot, call'[x].kind = "publish", call'[x].pc = "bind",
                 call'[x].path \notin risky', VolOf[call'[x].path] \notin risky'
          PROVE  mnt[call'[x].path] = <<>>
        <3>1. x # c
            BY <1>2, <2>1
        <3>2. call[x].path = call'[x].path /\ call[x].path \in Target /\ Is(x, "publish", "bind")
            BY <1>2, <2>1, <3>1 DEF NodeInv, CallsInv, Is
        <3>3. Undisputed(call[x].path)
            BY <1>7, <1>8, <2>1, <3>2 DEF Undisputed, Is
        <3> QED
            BY <3>2, <3>3 DEF PublishInv, BindInv, Bare
    <2>2. ASSUME NEW x \in Slot, call'[x].kind = "publish", call'[x].pc = "remount"
          PROVE  ReadOnly[call'[x].path]
        BY <1>2, <2>2 DEF PublishInv, BindInv, Is
    <2>3. ASSUME NEW x \in Slot, NEW y \in Slot, x # y, call'[x].kind = "publish",
                 call'[y].kind = "publish", call'[x].path = call'[y].path
          PROVE  call'[x].path \in risky'
        <3>1. CASE x = c
            BY <1>2, <1>4, <2>3, <3>1
        <3>2. CASE y = c
            BY <1>2, <1>4, <2>3, <3>2
        <3>3. CASE x # c /\ y # c
            <4>1. /\ call[x].kind = "publish" /\ call[x].path \in risky
                  /\ call'[x].path = call[x].path
                BY <1>2, <2>3, <3>3 DEF PublishInv, BindInv
            <4>2. call[x].path \in Target
                BY <4>1 DEF NodeInv, CallsInv
            <4> QED
                BY <1>7, <1>8, <4>1, <4>2
        <3> QED
            BY <3>1, <3>2, <3>3
    <2> QED
        BY <1>1, <2>1, <2>2, <2>3 DEF BindInv, Is, Bare, Undisputed
<1> QED
    BY <1>9, <1>10, <1>11 DEF PublishInv

(* Every step keeps PublishInv. *)
LEMMA PublishNext == NodeInv /\ PublishInv /\ [Next]_vars => PublishInv'
<1> SUFFICES ASSUME NodeInv, PublishInv, [Next]_vars PROVE PublishInv'
    OBVIOUS
<1> NodeInv'
    BY NodeStep
<1>1. ASSUME NEW c \in Slot, Step(c) \/ Fail(c)
      PROVE  PublishInv'
    <2>1. CASE PublishCheck(c) \/ PublishMounts(c)
        BY <2>1, PublishReads
    <2>2. CASE PublishBind(c)
        BY <2>2, PublishBinds
    <2>3. CASE PublishRemount(c)
        BY <2>3, PublishRemounts
    <2>4. CASE call[c].kind # "publish" \/ Fail(c)
        BY <1>1, <2>4, PublishOthers
    <2> QED
        BY <1>1, <2>1, <2>2, <2>3, <2>4 DEF Step, Is, StageCheck, StageMounts, StageMount,
           UnstageLook, UnstageMounts, UnstageUnmount, UnpublishStat, UnpublishLook,
           UnpublishMounts, UnpublishUnmount, UnpublishRemove
<1>2. CASE \E c \in Slot, v \in Vol : BeginStage(c, v) \/ BeginUnstage(c, v)
    <2>1. PICK c \in Slot, v \in Vol : Begin(c, "stage", v) \/ Begin(c, "unstage", v)
        BY <1>2 DEF BeginStage, BeginUnstage
    <2> QED
        BY <2>1, PublishBegin DEF Path
<1>3. CASE \E c \in Slot, t \in Target : BeginPublish(c, t) \/ BeginUnpublish(c, t)
    <2>1. PICK c \in Slot, t \in Target : Begin(c, "publish", t) \/ Begin(c, "unpublish", t)
        BY <1>3 DEF BeginPublish, BeginUnpublish
    <2> QED
        BY <2>1, PublishBegin DEF Path
<1>4. CASE Crash \/ Reboot
    <2>1. UNCHANGED risky /\ \A c \in Slot : call'[c].kind = "none"
        BY <1>4 DEF Crash, Reboot, Idle
    <2>2. \A p \in Path : mnt'[p] = mnt[p] \/ mnt'[p] = <<>>
        BY <1>4 DEF Crash, Reboot
    <2>3. \A p \in Path : mnt[p] \in Seq(Mount)
        BY DEF NodeInv, TypeOK
    <2>4. \A p \in Path : /\ Len(mnt'[p]) <= Len(mnt[p])
                          /\ \A i \in 1..Len(mnt'[p]) : mnt'[p][i] = mnt[p][i]
        BY <2>2, <2>3
    <2>5. ModeInv' /\ StackInv'
        BY <2>1, <2>4, FewerMounts
    <2> QED
        BY <2>1, <2>5 DEF PublishInv, BindInv, Is
<1>5. CASE (\E v \in Vol : Detach(v) \/ TakeDown(v)) \/ UNCHANGED vars
    <2>1. UNCHANGED <<mnt, call, risky>>
        BY <1>5 DEF Detach, TakeDown, vars
    <2> QED
        BY <2>1 DEF PublishInv, ModeInv, StackInv, BindInv, Undisputed, Is, Bare
<1> QED
    BY <1>1, <1>2, <1>3, <1>4, <1>5 DEF Next

(* The three steps of a publish that answer that all is well: the mount    *)
(* that is there already, a bind, and the remount after a read-only bind.  *)
LEMMA AnswersVisible ==
    ASSUME NodeInv, PublishInv, [Next]_vars, NEW c \in Slot, NEW t \in Target,
           Succeeds(c, "publish"), call[c].path = t, Undisputed(t)
    PROVE  Top(t)'.dev = VolOf[t] /\ Top(t)'.ro = (ReadOnly[t] \/ Top(VolOf[t])'.ro)
<1> DEFINE v == VolOf[t]
<1>1. /\ v \in Vol /\ t # v /\ v \notin risky /\ t \in Path /\ v \in Path
      /\ ReadOnly[t] \in BOOLEAN /\ ReadOnly[v] \in BOOLEAN
    BY MountAssumption DEF Undisputed, Path
<1>2. call[c].kind = "publish"
    BY DEF Succeeds
<1>3. Step(c) /\ ~Refuse(c) /\ \A q : q # "ok" => ~Goto(c, q)
    BY <1>2, OwnAnswer
<1>4. mnt \in [Path -> Seq(Mount)] /\ mnt[t] \in Seq(Mount)
    BY <1>1 DEF NodeInv, TypeOK
<1>5. CASE PublishMounts(c)
    <2>1. OfAt(v, t) # {} /\ OldestOf(v, t).ro = ReadOnly[t] /\ UNCHANGED mnt
        BY <1>3, <1>5 DEF PublishMounts
    <2>2. Len(mnt[t]) = 1 /\ OfAt(v, t) = {1}
        <3>1. Len(mnt[t]) \in Nat /\ Len(mnt[t]) <= 1
            BY <1>4 DEF PublishInv, StackInv
        <3>2. \A i \in OfAt(v, t) : i \in 1..Len(mnt[t])
            BY DEF OfAt
        <3>3. \A i \in OfAt(v, t) : i = 1 /\ Len(mnt[t]) = 1
            <4>1. \A n \in Nat : n <= 1 => \A i \in 1..n : i = 1 /\ n = 1
                OBVIOUS
            <4> QED
                BY <3>1, <3>2, <4>1
        <3> QED
            BY <2>1, <3>3
    <2>3. OldestOf(v, t) = mnt[t][1]
        BY <2>2 DEF OldestOf
    <2>4. Top(t)' = mnt[t][1] /\ mnt[t][1].dev = v
        <3>1. mnt[t] # <<>>
            <4>1. Len(<<>>) = 0
                OBVIOUS
            <4> QED
                BY <2>2, <4>1
        <3> QED
            BY <2>1, <2>2, <3>1 DEF Top, Bare, OfAt
    <2>5. ~Bare(v) /\ (ReadOnly[v] => mnt[t][1].ro)
        BY <1>1, <2>2 DEF NodeInv, StagedWhilePublished, PublishInv, ModeInv
    <2>6. Top(v)'.ro = ReadOnly[v]
        BY <1>1, <2>1, <2>5, TopStaged DEF Top, Bare
    <2> QED
        BY <1>1, <2>1, <2>3, <2>4, <2>5, <2>6
<1>6. CASE PublishBind(c)
    <2>1. Push(t, Top(v)) /\ ~ReadOnly[t]
        BY <1>3, <1>6 DEF PublishBind
    <2>2. ~Bare(v)
        BY <1>1, <1>6 DEF PublishBind, NodeInv, LookedInv
    <2>3. Top(v).dev = v /\ Top(v) \in Mount
        <3>1. mnt[v] \in Seq(Mount) /\ mnt[v] # <<>>
            BY <1>1, <1>4, <2>2 DEF Bare
        <3>2. Top(v) \in Mount
            BY <2>2, <3>1 DEF Top
        <3> QED
            BY <1>1, <2>2, <3>2, TopStaged
    <2>4. Top(t)' = Top(v)
        <3>1. /\ Len(mnt'[t]) = Len(mnt[t]) + 1 /\ mnt'[t][Len(mnt[t]) + 1] = Top(v)
              /\ mnt'[t] # <<>>
            BY <1>1, <1>4, <2>1, <2>3, PushFacts
        <3> QED
            BY <3>1 DEF Top, Bare
    <2>5. Top(v)' = Top(v)
        <3>1. mnt'[v] = mnt[v]
            BY <1>1, <1>4, <2>1, <2>3, PushFacts
        <3> QED
            BY <3>1 DEF Top, Bare
    <2>6. Top(v).ro \in BOOLEAN
        BY <2>3 DEF Mount
    <2> QED
        BY <2>1, <2>3, <2>4, <2>5, <2>6
<1>7. CASE PublishRemount(c)
    <2>1. ~Bare(t) /\ mnt' = [mnt EXCEPT ![t][Len(mnt[t])].ro = TRUE]
        BY <1>3, <1>7 DEF PublishRemount
    <2>2. /\ Len(mnt'[t]) = Len(mnt[t]) /\ Len(mnt[t]) \in 1..Len(mnt[t])
          /\ mnt'[t][Len(mnt[t])].dev = mnt[t][Len(mnt[t])].dev
          /\ mnt'[t][Len(mnt[t])].ro = TRUE /\ ~Bare(t)'
        BY <2>1, RemountFacts
    <2>3. Top(t)' = mnt'[t][Len(mnt[t])]
        BY <2>2 DEF Top
    <2>4. mnt[t][Len(mnt[t])].dev = v
        BY <1>1, <2>2 DEF NodeInv, StagedWhilePublished
    <2>5. ReadOnly[t]
        BY <1>7 DEF PublishRemount, PublishInv, BindInv
    <2> QED
        BY <2>2, <2>3, <2>4, <2>5
<1>8. ~PublishCheck(c)
    BY <1>3 DEF PublishCheck
<1> QED
    BY <1>2, <1>3, <1>5, <1>6, <1>7, <1>8 DEF Step, Is, StageCheck, StageMounts, StageMount,
       UnstageLook, UnstageMounts, UnstageUnmount, UnpublishStat, UnpublishLook,
       UnpublishMounts, UnpublishUnmount, UnpublishRemove

(* A publish that succeeds leaves the volume visible at its target, in the *)
(* mode asked for, for any number of volumes, targets and calls; unless    *)
(* another publish of the target, or an unstage of the volume, has         *)
(* overlapped (node.go:281-319).                                           *)
THEOREM PublishShowsVolume == Spec => PublishSound
<1>1. Init => PublishInv
    <2> SUFFICES ASSUME Init PROVE PublishInv
        OBVIOUS
    <2>1. (\A p \in Path : mnt[p] = <<>>) /\ \A c \in Slot : call[c].kind = "none"
        BY DEF Init, Idle
    <2> QED
        BY <2>1 DEF PublishInv, ModeInv, StackInv, BindInv, Is, Path
<1>2. NodeInv /\ PublishInv /\ [Next]_vars =>
        [\A c \in Slot, t \in Target : Succeeds(c, "publish") /\ call[c].path = t =>
            \/ {t, VolOf[t]} \cap risky # {}
            \/ /\ Top(t)'.dev = VolOf[t]
               /\ Top(t)'.ro = (ReadOnly[t] \/ Top(VolOf[t])'.ro)]_vars
    BY AnswersVisible DEF Undisputed
<1> QED
    BY <1>1, <1>2, NodeInvariance, PublishNext, PTL DEF Spec, PublishSound
=============================================================================
