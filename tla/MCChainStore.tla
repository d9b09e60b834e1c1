---------------------------- MODULE MCChainStore ----------------------------
\* ChainStore for TLC: two runs, every manifest the bounds allow.
EXTENDS ChainStore

MCPayloads == Manifest
=============================================================================
