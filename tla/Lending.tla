------------------------------ MODULE Lending ------------------------------
(***************************************************************************)
(* What lending a device means, without requests or a database: a device   *)
(* is with its owner or with one borrower, it is lent only by its owner,   *)
(* and it comes back to its owner.                                         *)
(***************************************************************************)
CONSTANTS Devices, Names, Owner

VARIABLE holder

Init == holder = Owner

Lend(d, n) ==
    /\ holder[d] = Owner[d]
    /\ holder' = [holder EXCEPT ![d] = n]

GiveBack(d) == holder' = [holder EXCEPT ![d] = Owner[d]]

Next == \E d \in Devices : GiveBack(d) \/ \E n \in Names : Lend(d, n)

Spec == Init /\ [][Next]_holder
=============================================================================
