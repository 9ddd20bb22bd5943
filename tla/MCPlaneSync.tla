------------------------------ MODULE MCPlaneSync ------------------------------
EXTENDS PlaneSync, TLC

\* Items, projects and syncs are interchangeable; used for safety only.
Symmetry == Permutations(Items) \cup Permutations(Projects) \cup Permutations(Syncs)
=============================================================================
