--------------------------- MODULE ZoneTagsProofs ---------------------------
(***************************************************************************)
(* What LookupZoneByMoref computes, for a chain of tags of any length: the *)
(* recursive function agrees with the declarative reading of the tags that *)
(* the properties of module ZoneSearch use.  Induction over the length of  *)
(* the chain goes by least counterexamples, for which the library's facts  *)
(* on well-founded relations suffice.                                      *)
(***************************************************************************)
EXTENDS ZoneSearch, WellFoundedInduction, TLAPS

(* A non-empty set of numbers has a least element. *)
LEMMA LeastElement ==
    ASSUME NEW T, T \subseteq Nat, T # {}
    PROVE  \E n \in T : \A m \in T : n <= m
<1> DEFINE R == {ss \in Nat \X Nat : ss[1] < ss[2]}
<1>1. IsWellFoundedOn(R, Nat)
    BY NatLessThanWellFounded DEF OpToRel
<1> HIDE DEF R
<1>2. PICK n \in T : \A m \in T : ~(<<m, n>> \in R)
    BY <1>1, WFMin
<1>3. \A m \in T : ~(m < n)
    BY <1>2 DEF R
<1> QED
    BY <1>3

(* Induction up to a bound, for a property given as the set of numbers     *)
(* that have it.                                                           *)
LEMMA BoundedInduction ==
    ASSUME NEW L \in Nat, NEW S, 0 \in S, \A n \in 0..L : n + 1 \in 0..L /\ n \in S => n + 1 \in S
    PROVE  \A n \in 0..L : n \in S
<1> DEFINE T == {n \in 0..L : n \notin S}
<1> SUFFICES ASSUME T # {} PROVE FALSE
    OBVIOUS
<1>1. PICK n \in T : \A m \in T : n <= m
    <2>1. T \subseteq Nat
        OBVIOUS
    <2> HIDE DEF T
    <2> QED BY <2>1, LeastElement
<1>2. n \in 0..L /\ n # 0 /\ n - 1 \in 0..L /\ n - 1 \notin T
    BY <1>1
<1>3. n - 1 \in S
    BY <1>2
<1> QED
    BY <1>1, <1>2, <1>3

-----------------------------------------------------------------------------
(* What has been read after n tags. *)
Names   == [zone : Name \cup {None}, region : Name \cup {None}]
NoNames == [zone |-> None, region |-> None]

LEMMA ReadTagType ==
    ASSUME NEW r \in Names, NEW t \in Tag
    PROVE  ReadTag(r, t) \in Names
    BY DEF ReadTag, Names, Tag

(* The reading of the tags one by one is well-defined: LookupZoneByMoref   *)
(* returns the last value of a function that satisfies its recursion.      *)
Reads(chain, f) ==
    /\ f \in [0..Len(chain) -> Names]
    /\ f[0] = NoNames
    /\ \A n \in 1..Len(chain) : f[n] = ReadTag(f[n - 1], chain[n])

LEMMA ReadingExists ==
    ASSUME NEW chain \in Seq(Tag)
    PROVE  \E f : Reads(chain, f)
<1> DEFINE L == Len(chain)
           Good(n, f) == /\ f \in [0..n -> Names] /\ f[0] = NoNames
                         /\ \A k \in 1..n : f[k] = ReadTag(f[k - 1], chain[k])
           S == {n \in 0..L : \E f : Good(n, f)}
<1>1. L \in Nat
    OBVIOUS
<1>2. 0 \in S
    <2>1. Good(0, [k \in 0..0 |-> NoNames])
        BY DEF Names, NoNames
    <2> HIDE DEF Good
    <2> QED
        BY <1>1, <2>1
<1>3. ASSUME NEW n \in 0..L, n + 1 \in 0..L, n \in S
      PROVE  n + 1 \in S
    <2>1. PICK f : Good(n, f)
        BY <1>3
    <2> DEFINE g == [k \in 0..n+1 |-> IF k <= n THEN f[k] ELSE ReadTag(f[n], chain[n + 1])]
    <2>2. chain[n + 1] \in Tag /\ f[n] \in Names
        BY <1>1, <1>3, <2>1
    <2>3. ReadTag(f[n], chain[n + 1]) \in Names
        BY <2>2, ReadTagType
    <2>4. g \in [0..n+1 -> Names] /\ g[0] = NoNames
        BY <1>1, <2>1, <2>3
    <2>5. ASSUME NEW k \in 1..n+1 PROVE g[k] = ReadTag(g[k - 1], chain[k])
        <3>1. CASE k <= n
            BY <3>1, <1>1, <2>1
        <3>2. CASE k = n + 1
            BY <3>2, <1>1
        <3> QED
            BY <3>1, <3>2, <1>1
    <2>6. Good(n + 1, g)
        BY <2>4, <2>5
    <2> QED
        BY <1>3, <2>6
<1>4. \A n \in 0..L : n \in S
    <2> HIDE DEF S
    <2> QED BY <1>1, <1>2, <1>3, BoundedInduction
<1>5. PICK f : Good(L, f)
    BY <1>1, <1>4
<1> QED
    BY <1>5 DEF Reads

LEMMA LookupReads ==
    ASSUME NEW chain \in Seq(Tag)
    PROVE  \E f : Reads(chain, f) /\ LookupZoneByMoref(chain) = f[Len(chain)]
<1> DEFINE L == Len(chain)
           Fix(f) == f = [n \in 0..L |-> IF n = 0 THEN [zone |-> None, region |-> None]
                                         ELSE ReadTag(f[n - 1], chain[n])]
           read == CHOOSE f : Fix(f)
<1>1. L \in Nat
    OBVIOUS
<1>2. LookupZoneByMoref(chain) = read[L]
    BY DEF LookupZoneByMoref
<1>3. PICK g : Reads(chain, g)
    BY ReadingExists
<1>4. g = [n \in 0..L |-> g[n]]
    BY <1>3 DEF Reads
<1>5. \A n \in 0..L : g[n] = IF n = 0 THEN [zone |-> None, region |-> None]
                             ELSE ReadTag(g[n - 1], chain[n])
    BY <1>1, <1>3 DEF Reads, NoNames
<1>6. Fix(g)
    BY <1>4, <1>5
<1>7. Fix(read)
    <2> HIDE DEF Fix
    <2> QED BY <1>6
<1> HIDE DEF read
<1>8. read[0] = NoNames /\ \A n \in 1..L : read[n] = ReadTag(read[n - 1], chain[n])
    BY <1>1, <1>7 DEF NoNames
<1> DEFINE S == {n \in 0..L : read[n] \in Names}
<1>9. 0 \in S
    BY <1>1, <1>8 DEF Names, NoNames
<1>10. ASSUME NEW n \in 0..L, n + 1 \in 0..L, n \in S
       PROVE  n + 1 \in S
    <2>1. chain[n + 1] \in Tag /\ read[n] \in Names
        BY <1>1, <1>10
    <2>2. read[n + 1] = ReadTag(read[n], chain[n + 1])
        BY <1>1, <1>8, <1>10
    <2> QED
        BY <1>10, <2>1, <2>2, ReadTagType
<1>11. \A n \in 0..L : n \in S
    <2> HIDE DEF S
    <2> QED BY <1>1, <1>9, <1>10, BoundedInduction
<1>12. read \in [0..L -> Names]
    BY <1>7, <1>11
<1> QED
    BY <1>2, <1>8, <1>12 DEF Reads

-----------------------------------------------------------------------------
(* x is the name of the last tag of a category among the first m, or None. *)
LastIs(chain, m, category, x) ==
    \/ x = None /\ \A i \in 1..m : chain[i].category # category
    \/ \E i \in 1..m : /\ chain[i].category = category /\ chain[i].name = x
                       /\ \A k \in i+1..m : chain[k].category # category

(* What was read after n tags are the last names among the first m, where  *)
(* m is n, or the first number of tags that have both categories.          *)
ReadUpTo(chain, n, m, r) ==
    /\ m \in 0..n /\ (m = n \/ Both(chain, m)) /\ ~Both(chain, m - 1)
    /\ LastIs(chain, m, "zone", r.zone) /\ LastIs(chain, m, "region", r.region)

LEMMA LastStep ==
    ASSUME NEW chain \in Seq(Tag), NEW n \in Nat, n + 1 \in 1..Len(chain),
           NEW category, NEW x, LastIs(chain, n, category, x)
    PROVE  LastIs(chain, n + 1, category,
                  IF chain[n + 1].category = category THEN chain[n + 1].name ELSE x)
<1>1. CASE chain[n + 1].category = category
    BY <1>1 DEF LastIs
<1>2. CASE chain[n + 1].category # category
    BY <1>2 DEF LastIs
<1> QED
    BY <1>1, <1>2

LEMMA KnownIsBoth ==
    ASSUME NEW chain \in Seq(Tag), NEW m \in 0..Len(chain), NEW r \in Names,
           LastIs(chain, m, "zone", r.zone), LastIs(chain, m, "region", r.region)
    PROVE  Known(r) <=> Both(chain, m)
<1>1. \A i \in 1..m : chain[i] \in Tag
    OBVIOUS
<1>2. \A i \in 1..m : chain[i].name # None
    BY <1>1, ZoneNoneAssumption DEF Tag
<1> QED
    BY <1>2 DEF Known, Both, LastIs

LEMMA ReadStep ==
    ASSUME NEW chain \in Seq(Tag), NEW n \in Nat, n + 1 \in 1..Len(chain),
           NEW m, NEW r \in Names, ReadUpTo(chain, n, m, r)
    PROVE  \E k : ReadUpTo(chain, n + 1, k, ReadTag(r, chain[n + 1]))
<1> DEFINE t == chain[n + 1]
<1>1. t \in Tag /\ m \in 0..Len(chain) /\ n \in 0..Len(chain) /\ m \in Nat
    BY DEF ReadUpTo
<1>2. Known(r) <=> Both(chain, m)
    BY <1>1, KnownIsBoth DEF ReadUpTo
<1>3. CASE Known(r)
    <2>1. ReadTag(r, t) = r
        BY <1>3 DEF ReadTag, Known
    <2>2. ReadUpTo(chain, n + 1, m, r)
        BY <1>1, <1>2, <1>3 DEF ReadUpTo
    <2> QED
        BY <2>1, <2>2
<1>4. CASE ~Known(r)
    <2>1. m = n /\ ~Both(chain, n)
        BY <1>2, <1>4 DEF ReadUpTo
    <2>2. /\ ReadTag(r, t).zone = IF t.category = "zone" THEN t.name ELSE r.zone
          /\ ReadTag(r, t).region = IF t.category = "region" THEN t.name ELSE r.region
        <3>1. CASE t.category = "zone"
            BY <1>4, <3>1 DEF ReadTag, Known, Names
        <3>2. CASE t.category = "region"
            BY <1>4, <3>2 DEF ReadTag, Known, Names
        <3>3. CASE t.category \notin {"zone", "region"}
            BY <1>4, <3>3 DEF ReadTag, Known, Names
        <3> QED
            BY <3>1, <3>2, <3>3
    <2>3. LastIs(chain, n + 1, "zone", ReadTag(r, t).zone)
        BY <2>1, <2>2, LastStep DEF ReadUpTo
    <2>4. LastIs(chain, n + 1, "region", ReadTag(r, t).region)
        BY <2>1, <2>2, LastStep DEF ReadUpTo
    <2>5. n + 1 \in 0..n+1 /\ (n + 1) - 1 = n
        OBVIOUS
    <2>6. ReadUpTo(chain, n + 1, n + 1, ReadTag(r, t))
        BY <2>1, <2>3, <2>4, <2>5 DEF ReadUpTo
    <2> QED
        BY <2>6
<1> QED
    BY <1>3, <1>4

LEMMA LookupReadsUpTo ==
    ASSUME NEW chain \in Seq(Tag)
    PROVE  /\ LookupZoneByMoref(chain) \in Names
           /\ \E m : ReadUpTo(chain, Len(chain), m, LookupZoneByMoref(chain))
<1> DEFINE L == Len(chain)
<1>1. L \in Nat
    OBVIOUS
<1>2. PICK f : Reads(chain, f) /\ LookupZoneByMoref(chain) = f[L]
    BY LookupReads
<1> DEFINE S == {n \in 0..L : \E m : ReadUpTo(chain, n, m, f[n])}
<1>3. 0 \in S
    <2>1. ~Both(chain, 0) /\ ~Both(chain, 0 - 1)
        BY DEF Both
    <2>2. f[0].zone = None /\ f[0].region = None
        BY <1>2 DEF Reads, NoNames
    <2>3. LastIs(chain, 0, "zone", None) /\ LastIs(chain, 0, "region", None)
        BY DEF LastIs
    <2>4. ReadUpTo(chain, 0, 0, f[0])
        BY <2>1, <2>2, <2>3 DEF ReadUpTo
    <2> QED
        BY <1>1, <2>4
<1>4. ASSUME NEW n \in 0..L, n + 1 \in 0..L, n \in S
      PROVE  n + 1 \in S
    <2>1. PICK m : ReadUpTo(chain, n, m, f[n])
        BY <1>4
    <2>2. n \in Nat /\ n + 1 \in 1..Len(chain) /\ (n + 1) - 1 = n
        BY <1>1, <1>4
    <2>3. f[n] \in Names /\ f[n + 1] = ReadTag(f[n], chain[n + 1])
        BY <1>2, <2>2 DEF Reads
    <2>4. \E k : ReadUpTo(chain, n + 1, k, f[n + 1])
        BY <2>1, <2>2, <2>3, ReadStep
    <2> QED
        BY <1>4, <2>4
<1>5. \A n \in 0..L : n \in S
    <2> HIDE DEF S
    <2> QED BY <1>1, <1>3, <1>4, BoundedInduction
<1>6. L \in S /\ f[L] \in Names
    BY <1>1, <1>2, <1>5 DEF Reads
<1> QED
    BY <1>2, <1>6

(* A prefix of a chain that has both categories, and whose own prefixes do *)
(* not, is the only one.                                                   *)
LEMMA FirstBothUnique ==
    ASSUME NEW chain, NEW m \in Nat, NEW n \in Nat,
           Both(chain, m), ~Both(chain, m - 1), Both(chain, n), ~Both(chain, n - 1)
    PROVE  m = n
<1>1. ASSUME NEW a \in Nat, NEW b \in Nat, a < b, Both(chain, a)
      PROVE  Both(chain, b - 1)
    BY <1>1 DEF Both
<1>2. ~(m < n) /\ ~(n < m)
    BY <1>1
<1> QED
    BY <1>2

(* The name that was read matches iff the chain says so. *)
LEMMA LastSays ==
    ASSUME NEW chain \in Seq(Tag), NEW m \in 0..Len(chain), NEW category, NEW x, NEW name,
           x # None, LastIs(chain, m, category, x)
    PROVE  Fold[x] = Fold[name] <=> Says(chain, m, category, name)
<1>1. PICK i \in 1..m : /\ chain[i].category = category /\ chain[i].name = x
                        /\ \A k \in i+1..m : chain[k].category # category
    BY DEF LastIs
<1>2. ASSUME NEW j \in 1..m, chain[j].category = category,
             \A k \in j+1..m : chain[k].category # category
      PROVE  j = i
    BY <1>1, <1>2
<1> QED
    BY <1>1, <1>2 DEF Says

(* LookupZoneByMoref and the reference agree on every chain of tags: the   *)
(* tags of an object and its ancestors are read until both categories are  *)
(* known, and the last one of each counts (zones.go:545-580).              *)
THEOREM LookupCarries ==
    ASSUME NEW chain \in Seq(Tag)
    PROVE  Matches(LookupZoneByMoref(chain)) <=> Carries(chain)
<1> DEFINE r == LookupZoneByMoref(chain)
<1>1. r \in Names
    BY LookupReadsUpTo
<1>2. PICK m : ReadUpTo(chain, Len(chain), m, r)
    BY LookupReadsUpTo
<1>3. m \in 0..Len(chain) /\ m \in Nat
    BY <1>2 DEF ReadUpTo
<1> HIDE DEF r
<1>4. Known(r) <=> Both(chain, m)
    BY <1>1, <1>2, <1>3, KnownIsBoth DEF ReadUpTo
<1>5. ASSUME Known(r)
      PROVE  /\ Fold[r.zone] = Fold[ZoneLooking] <=> Says(chain, m, "zone", ZoneLooking)
             /\ Fold[r.region] = Fold[RegionLooking] <=> Says(chain, m, "region", RegionLooking)
    BY <1>2, <1>3, <1>5, LastSays DEF ReadUpTo, Known
<1>6. ~Both(chain, 0)
    BY DEF Both
<1>7. ASSUME Matches(r) PROVE Carries(chain)
    <2>1. Both(chain, m) /\ m # 0
        BY <1>4, <1>6, <1>7 DEF Matches
    <2>2. m \in 1..Len(chain)
        BY <1>3, <2>1
    <2> QED
        BY <1>2, <1>5, <1>7, <2>1, <2>2 DEF Matches, Carries, ReadUpTo
<1>8. ASSUME Carries(chain) PROVE Matches(r)
    <2>1. PICK n \in 1..Len(chain) : /\ Both(chain, n) /\ ~Both(chain, n - 1)
                                     /\ Says(chain, n, "zone", ZoneLooking)
                                     /\ Says(chain, n, "region", RegionLooking)
        BY <1>8 DEF Carries
    <2>2. Both(chain, m)
        <3>1. CASE m = Len(chain)
            BY <2>1, <3>1 DEF Both
        <3> QED
            BY <1>2, <3>1 DEF ReadUpTo
    <2>3. m = n
        BY <1>2, <1>3, <2>1, <2>2, FirstBothUnique DEF ReadUpTo
    <2> QED
        BY <1>4, <1>5, <2>1, <2>2, <2>3 DEF Matches
<1> QED
    BY <1>7, <1>8 DEF r
=============================================================================
