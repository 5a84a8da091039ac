--------------------------- MODULE MCContextChange ---------------------------
EXTENDS ContextChange, TLC

CONSTANTS p1, p2, dev, b1, b2, r1

\* One context with one product session of its own.
MCSubRefs == {<<dev, "product">>}

MCSymmetry == Permutations(Procs) \cup Permutations(Bindings)

=============================================================================
