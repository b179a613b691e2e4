------------------------------ MODULE MCSearch ------------------------------
(* Small instances of module Search: two vCenters with two datacenters     *)
(* each, searched by two workers over a channel of one element.            *)
EXTENDS Search, TLC

CONSTANTS v1, v2, d1, d2

MCVC == {v1, v2}
MCDC == {d1, d2}
MCInventory == [v \in MCVC |-> {d1, d2}]
(* v1 is searched whole, v2 only in d1. *)
MCDatacenters == (v1 :> {}) @@ (v2 :> {d1})
(* Both vCenters list both their datacenters. *)
MCNamedDatacenters == [v \in MCVC |-> {d1, d2}]
=============================================================================
