---------------------------- MODULE MCBlockStore ----------------------------
\* Model-checking instances of BlockStore.
EXTENDS BlockStore, TLC

CONSTANTS f1, f2, c1, c2, b1, b2, b3

MCFile == {f1}
MCFiles == {f1, f2}
MCBlocks == {1}
MCTwoBlocks == {1, 2}
MCClients == {c1, c2}
MCBuffers == {b1, b2, b3}

MCSymmetry == Permutations(MCFiles) \cup Permutations(MCClients)
                \cup Permutations(MCBuffers)
MCOneFileSymmetry == Permutations(MCClients) \cup Permutations(MCBuffers)

=============================================================================
