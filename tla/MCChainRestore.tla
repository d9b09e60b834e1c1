--------------------------- MODULE MCChainRestore ---------------------------
\* ChainRestore for TLC: two pushes, one restore, a reader, concurrent appends.
EXTENDS ChainRestore, TLC

MCPayloads == Manifest
RunSymmetry == Permutations(Runs) \cup Permutations(Pushers)
=============================================================================
