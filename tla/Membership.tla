----------------------------- MODULE Membership -----------------------------
(***************************************************************************)
(* What a pooled device promises: it has a set of users, a user joins it   *)
(* and leaves it, and nobody else's membership changes by that.            *)
(***************************************************************************)
CONSTANT Users

VARIABLE members

Init == members = {}

Join(u) == members' = members \cup {u}

Leave(u) == members' = members \ {u}

Next == \E u \in Users : Join(u) \/ Leave(u)

Spec == Init /\ [][Next]_members
=============================================================================
