------------------------- MODULE MCMetadataServer -------------------------
\* Model-checking instances of MetadataServer.
EXTENDS MetadataServer, TLC

CONSTANTS k1, c1, c2, c3

MCKeys == {k1}
MCClients == {c1, c2}
MCThreeClients == {c1, c2, c3}
MCWithoutRename == (Gets \cup Sets) \ {"RENAME"}
\* GETDIR and READ change no record; metadata_live has them.
MCChanging == (Gets \cup Sets) \ {"GETDIR", "READ"}
MCCreates == {"READ", "SET", "DELETE"}
MCRename == {"SET", "READ", "RENAME"}

MCSymmetry == Permutations(MCThreeClients)

=============================================================================
