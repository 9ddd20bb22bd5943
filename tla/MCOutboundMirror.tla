--------------------------- MODULE MCOutboundMirror ---------------------------
EXTENDS OutboundMirror, TLC

\* Changes are interchangeable, and so are drains; used for safety only.
Symmetry == Permutations(Changes) \cup Permutations(Drains)
=============================================================================
