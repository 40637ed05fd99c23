-------------------------- MODULE MCDeviceLending --------------------------
EXTENDS DeviceLending, TLC

CONSTANTS alice, bob, ghost, r1, r2, r3, r4

Symmetry == Permutations(Requests)

\* Firewall "1" is alice's; access points "1" and "2" are bob's and a former
\* colleague's.  The name alice occurs in bob's (alice, alice_bob).
AllDevices == {<<"DUT", "1">>, <<"SonicPoint", "1">>, <<"SonicPoint", "2">>}
OwnerOf == [d \in AllDevices |->
    CASE d[1] = "DUT" -> alice [] d[2] = "1" -> bob [] OTHER -> ghost]
TextOf == [d \in AllDevices |-> IF OwnerOf[d] = bob THEN {alice, bob} ELSE {OwnerOf[d]}]
\* One firewall.
OneDevice == {<<"DUT", "1">>}
OneOwner == [d \in OneDevice |-> alice]
OneDistinct == [d \in OneDevice |-> {alice}]
=============================================================================
