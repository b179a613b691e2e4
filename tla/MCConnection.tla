---------------------------- MODULE MCConnection ----------------------------
(* Module Connection with one vCenter, which secrets may spell in capitals. *)
EXTENDS Connection, TLC

MCHost == {"vc", "VC"}
MCLowerHost == [h \in MCHost |-> "vc"]

Pair(h, g) == {<<h, "user">>, <<g, "password">>}
MCRotated == {[keys |-> Pair("vc", "VC"), unknown |-> FALSE],
              [keys |-> Pair("vc", "vc"), unknown |-> TRUE]}
MCPartial == {[keys |-> {<<"vc", "user">>}, unknown |-> FALSE]}
MCContents == {[keys |-> Pair("vc", "VC"), unknown |-> FALSE],
               [keys |-> Pair("vc", "vc"), unknown |-> TRUE],
               [keys |-> {<<"vc", "user">>}, unknown |-> FALSE],
               [keys |-> {}, unknown |-> FALSE]}

MCSymmetry == Permutations(Thread) \cup Permutations(Session)
=============================================================================
