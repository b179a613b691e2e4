------------------------------ MODULE MCVolumes -----------------------------
(* A small instance of module Volumes: one name is created on a datastore  *)
(* cluster of two datastores, which ListVolumes does not show; the other   *)
(* one in either of two zones with one datastore each.                     *)
EXTENDS Volumes

CONSTANTS n1, n2, other, pod, ds1, ds2,
          podA, podB, zoneA, zoneB

MCChildren   == (pod :> <<podA, podB>>) @@ (ds1 :> <<zoneA>>) @@ (ds2 :> <<zoneB>>)
MCRequisites == (n1 :> <<{pod}>>) @@ (n2 :> <<{ds1}, {ds2}>>)
MCSizeOf     == (n1 :> 1) @@ (n2 :> 1)
MCOld        == (2 :> [name |-> n2, size |-> 2, store |-> zoneA]) @@
                (3 :> [name |-> other, size |-> 1, store |-> podA])
MCListed     == <<zoneA>>
=============================================================================
