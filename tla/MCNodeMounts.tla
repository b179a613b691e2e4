---------------------------- MODULE MCNodeMounts ----------------------------
(* A small instance of module NodeMounts: one volume, staged read-write,   *)
(* published to t1 read-write and to t2 read-only.                         *)
EXTENDS NodeMounts, TLC

CONSTANTS v1, t1, t2

MCVolOf == [t \in Target |-> v1]
MCReadOnly == [p \in Vol \cup Target |-> p = t2]
=============================================================================
