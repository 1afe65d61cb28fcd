---------------------------- MODULE MCOwnership -----------------------------
EXTENDS Ownership, TLC

\* Objects of one kind are interchangeable.
Symmetry ==
    Permutations(Socks) \cup Permutations(Umuxes) \cup Permutations(Impls)
        \cup Permutations(States) \cup Permutations(Muxes)
        \cup Permutations(Services) \cup Permutations(Endpoints)

=============================================================================
