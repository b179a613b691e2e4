---------------------------- MODULE MCZoneSearch ----------------------------
(* Small instances of module ZoneSearch: v1 has two datacenters, searched  *)
(* whole, v2 has one, searched by name.  Clusters c1, c2 and host h1 are   *)
(* in d1 of v1, c3 in d2 of v1, c4 in d1 of v2.                            *)
EXTENDS ZoneSearch, TLC

CONSTANTS v1, v2, d1, d2, c1, c2, c3, c4, h1

MCVC == {v1, v2}
MCDC == {d1, d2}
MCObject == {c1, c2, c3, c4, h1}
MCInventory == (v1 :> {d1, d2}) @@ (v2 :> {d1})
MCDatacenters == (v1 :> {}) @@ (v2 :> {d1})
MCCluster == [p \in VC \X DC |->
                CASE p = <<v1, d1>> -> {c1, c2} [] p = <<v1, d2>> -> {c3}
                  [] p = <<v2, d1>> -> {c4} [] OTHER -> {}]
MCHost == [p \in VC \X DC |-> IF p = <<v1, d1>> THEN {h1} ELSE {}]

MCName == {"a", "A", "b", "r"}
MCFold == [n \in Name |-> IF n = "A" THEN "a" ELSE n]

Zone(n)   == [category |-> "zone", name |-> n]
Region(n) == [category |-> "region", name |-> n]

(* Tags on some objects, none on the others. *)
Only(f) == [o \in Object \cup (VC \X DC) |-> IF o \in DOMAIN f THEN f[o] ELSE <<>>]

MCTagMaps == {
    (* c1 and c4 carry the zone, c4 under its other case *)
    Only((c1 :> <<Zone("a"), Region("r")>>) @@ (c4 :> <<Region("r"), Zone("A")>>)),
    (* the region is on the datacenter, whose own zone replaces that of c3 *)
    Only((c3 :> <<Zone("b")>>) @@ (<<v1, d2>> :> <<Zone("a"), Region("r")>>)),
    (* one host carries the zone; clusters carry it in another region, or
       without a region *)
    Only((c1 :> <<Zone("a")>>) @@ (<<v1, d1>> :> <<Region("b")>>) @@ (c4 :> <<Zone("a")>>)
         @@ (h1 :> <<Zone("a"), Region("r")>>)) }

MCInstanceMaps == SUBSET VC
Symmetry == Permutations(Worker)
=============================================================================
