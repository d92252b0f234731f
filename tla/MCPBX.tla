------------------------------- MODULE MCPBX --------------------------------
(* TLC instances of PBX: the .cfg files give the constants their values.     *)
EXTENDS PBX, TLC

\* Connections are interchangeable; used by the runs without liveness only.
ConnSymmetry == Permutations(Conns)
\* What `connected' holds before its first store: zero, in a fresh chunk of memory and
\* in a recycled one (the allocator clears the word that it lies in).
ZeroMemory == {0}
=============================================================================
