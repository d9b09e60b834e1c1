------------------------- MODULE MCChainReplication -------------------------
\* ChainReplication for TLC: appends, racing pushes and a reader.
EXTENDS ChainReplication, TLC

MCPayloads == Manifest
PushSymmetry == Permutations(Runs) \cup Permutations(Pushers)
=============================================================================
