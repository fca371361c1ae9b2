----------------------------- MODULE MCSnapSync -----------------------------
(***************************************************************************)
(* SnapSync for TLC: three threads, a mutex that queues one waiter and a   *)
(* condition and a semaphore that queue two.                               *)
(***************************************************************************)
EXTENDS SnapSync

CONSTANTS t1, t2, t3

MCThreads == {t1, t2, t3}

MCMaxWaiters == [l \in Primitives |-> IF l = "mutex" THEN 1 ELSE 2]

=============================================================================
