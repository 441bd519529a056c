--------------------------- MODULE MCMemorySlots ---------------------------
(* Model values for checking MemorySlots. *)
EXTENDS MemorySlots, TLC

CONSTANTS u1, u2, v1, v2, v3, e1, e2

\* Users, values and observations are interchangeable; slots are ordered.
Symmetry == Permutations({u1, u2}) \cup Permutations({v1, v2, v3}) \cup Permutations({e1, e2})
=============================================================================
