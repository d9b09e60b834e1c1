--------------------------- MODULE MCBundleUpdate ---------------------------
\* BundleUpdate for TLC: a publisher that signs its first delegation with three
\* root keys, rotates its online key in a second one with two, and then
\* publishes a bundle by the new key that expires early.
EXTENDS BundleUpdate, TLC

CONSTANTS r1, r2, r3, k1, k2

UpdateSymmetry == Permutations(Updates)

\* Nothing is claimed of a `version` that began before any update had ended.
ReadersFollow == \A v \in Versions : pc[v] = "idle" \/ before[v] # {}

MCRoots == {r1, r2, r3}

Del1 == [serial |-> 1, generation |-> 1, retired |-> FALSE, until |-> 3,
         keys |-> {[key |-> k1, from |-> 0, until |-> 2]}]
Del2 == [serial |-> 2, generation |-> 1, retired |-> FALSE, until |-> 3,
         keys |-> {[key |-> k1, from |-> 0, until |-> 1], [key |-> k2, from |-> 0, until |-> 3]}]

Bundle1 == [version |-> 1, digest |-> "d1", prev |-> GenesisPrev, until |-> 2, indicators |-> 2]
Bundle2 == [version |-> 2, digest |-> "d2", prev |-> "d1", until |-> 1, indicators |-> 1]

MCPublications ==
    << [del |-> Del1, signers |-> <<r1, r2, r3>>, bundle |-> Bundle1, signer |-> k1],
       [del |-> Del2, signers |-> <<r1, r2, r3>>, bundle |-> Bundle1, signer |-> k1],
       [del |-> Del2, signers |-> <<r2, r3>>, bundle |-> Bundle2, signer |-> k2] >>
=============================================================================
