------------------------------- MODULE Lookup -------------------------------
(***************************************************************************)
(* What a lookup of the connection manager promises its caller, without    *)
(* the producer, the channel and the worker pool that compute the answer:  *)
(* the abstract specification of WhichVCandDCByNodeID and                  *)
(* WhichVCandDCByFCDId (pkg/common/connectionmanager/search.go).           *)
(*                                                                         *)
(* One object (a VM or a first class disk) is looked for in a set of       *)
(* places, a place being a vCenter with one of its datacenters.  The       *)
(* inventory may change while the lookup runs, so a place is judged by     *)
(* what it held at some moment of the lookup: held and lacked are the      *)
(* places that, since the call, have and have not held the object.         *)
(***************************************************************************)
CONSTANTS Places,    \* every place of every vCenter's inventory
          Targets,   \* the places the configuration tells to search
          None       \* no place

VARIABLES given,    \* was the caller's identifier non-empty
          owners,   \* the places that hold the object now
          held,     \* history: the places that have held it since the call
          lacked,   \* history: the targets that have not held it at some moment
          muted,    \* the places whose answer was lost without an error
          failed,   \* has an error been recorded
          where,    \* where the object was last located, None before
          answer    \* what the caller was told

vars == <<given, owners, held, lacked, muted, failed, where, answer>>

Pending  == [kind |-> "pending", place |-> None]
Found(p) == [kind |-> "found", place |-> p]
Error    == [kind |-> "error", place |-> None]
NotFound == [kind |-> "notfound", place |-> None]
Answers  == {Pending, Error, NotFound} \cup {Found(p) : p \in Places}

Init ==
    /\ given \in BOOLEAN
    /\ owners \in SUBSET Places
    /\ held = owners
    /\ lacked = Targets \ owners
    /\ muted = {}
    /\ failed = FALSE
    /\ where = None
    /\ answer = Pending

(* The vSphere inventory changes under the lookup. *)
Change ==
    /\ owners' \in SUBSET Places
    /\ held' = held \cup owners'
    /\ lacked' = lacked \cup (Targets \ owners')
    /\ UNCHANGED <<given, muted, failed, where, answer>>

(* A place is asked and holds the object; a later location replaces an     *)
(* earlier one.                                                            *)
Locate ==
    /\ given /\ answer = Pending
    /\ where' \in held
    /\ UNCHANGED <<given, owners, held, lacked, muted, failed, answer>>

(* A place is asked, and its failure is not told apart from a "no". *)
Mute ==
    /\ given /\ answer = Pending
    /\ \E p \in held : muted' = muted \cup {p}
    /\ UNCHANGED <<given, owners, held, lacked, failed, where, answer>>

(* A vCenter, a datacenter or a place fails, and the failure is recorded. *)
Fail ==
    /\ given
    /\ failed' = TRUE
    /\ UNCHANGED <<given, owners, held, lacked, muted, where, answer>>

(* The answer: a location beats an error, an error beats "not found", and  *)
(* "not found" is said only when every target has been seen without the    *)
(* object or had its answer muted.                                         *)
Answer ==
    /\ answer = Pending
    /\ \/ where # None /\ answer' = Found(where)
       \/ where = None /\ failed /\ answer' = Error
       \/ /\ where = None /\ ~failed
          /\ given => Targets \subseteq lacked \cup muted
          /\ answer' = NotFound
    /\ UNCHANGED <<given, owners, held, lacked, muted, failed, where>>

Next == Change \/ Locate \/ Mute \/ Fail \/ Answer

Spec == Init /\ [][Next]_vars
=============================================================================
