--------------------------- MODULE MCModuleStore ---------------------------
EXTENDS ModuleStore, TLC

CONSTANTS p1, p2, v1, v2, b1, b2, b3, b4

\* One build of each of two versions.
Two == {<<v1, b3>>, <<v2, b4>>}

\* One version, published again with different bytes.
Republished == {<<v1, b1>>, <<v1, b2>>}

MCOne == {Two}
MCEither == {Two, Republished}

MCSymmetry == Permutations(Procs) \cup Permutations({b1, b2})

=============================================================================
