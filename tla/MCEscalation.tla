----------------------------- MODULE MCEscalation -----------------------------
EXTENDS Escalation, TLC

\* Escalations are interchangeable, and so are clicks, and sweeps; used for safety only.
Symmetry == Permutations(Escalations) \cup Permutations(Clicks) \cup Permutations(Sweeps)
=============================================================================
