---------------------------- MODULE MCNodeManager ----------------------------
(* Small instances of module NodeManager.  u1 is a VM's UUID as vCenter    *)
(* writes it, r1 the same UUID in the byte order some guests report, bad   *)
(* a string that is no UUID; N1 is n1 in upper case.                       *)
EXTENDS NodeManager, TLC

CONSTANTS u1, r1, bad, n1, N1, l1, l2, k1, k2

MCId == {u1, r1, bad}
MCLower == [i \in Id |-> i]
MCConvert == (u1 :> r1) @@ (r1 :> u1) @@ (bad :> bad)
MCFold == [n \in Name |-> IF n = N1 THEN n1 ELSE n]
(* k1 reports its UUID in the byte order that has to be converted, k2 one  *)
(* that is none.                                                           *)
MCSystemUUID == [k \in Node |-> IF k = k1 THEN r1 ELSE bad]
MCSymmetry == Permutations(Loc)
=============================================================================
