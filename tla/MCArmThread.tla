---------------------------- MODULE MCArmThread ----------------------------
(* ArmThread for TLC: three thread structures with stacks of sixteen words. *)
EXTENDS ArmThread, TLC

CONSTANTS t1, t2, t3

MCThreads == {t1, t2, t3}

\* No action or property names a thread.
ThreadSymmetry == Permutations(MCThreads)

=============================================================================
