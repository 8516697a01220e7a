------------------------- MODULE MCMultiPeerConductor -------------------------
EXTENDS MultiPeerConductor, TLC

AnySlot == 0..SystemCapacity
IceChanges == IceStates \ {"new"}
Alike == Permutations(Ids)
=============================================================================
