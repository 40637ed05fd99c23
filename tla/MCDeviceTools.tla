--------------------------- MODULE MCDeviceTools ---------------------------
EXTENDS DeviceTools, TLC

CONSTANTS alice, bob, carol, c1, r1, r2

\* Firewall "1" is alice's; the name carol occurs in hers (carol, alice_carol).
OneDevice == {<<"DUT", "1">>}
OneOwner == [d \in OneDevice |-> alice]
OneText == [d \in OneDevice |-> {alice, carol}]
OneDistinct == [d \in OneDevice |-> {alice}]

\* The attempts of the calls and the requests of other clients.
FewRequests == Attempts \cup {r1}
AllRequests == Attempts \cup {r1, r2}

Symmetry == Permutations({r1, r2})
=============================================================================
