---------------------------- MODULE MCVlanRanges ----------------------------
EXTENDS VlanRanges

\* All lists of up to five of the VLANs 1 to 6.
ShortLists == UNION {[1..n -> 1..6] : n \in 0..5}
=============================================================================
