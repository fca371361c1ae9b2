---------------------------- MODULE MCPhysAlloc ----------------------------
(* PhysAlloc for TLC: a small arena and two callers.                       *)
EXTENDS PhysAlloc, TLC

CONSTANTS c1, c2

MCCallers == {c1, c2}

\* The callers are interchangeable: no action or property names one.
CallerSymmetry == Permutations(MCCallers)

=============================================================================
