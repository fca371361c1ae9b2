----------------------------- MODULE SleepWake -----------------------------
(***************************************************************************)
(* The sleep/wake primitive of the virtual machine: the one code path that *)
(* makes a thread non-runnable.  The bodies of                             *)
(* phantom_thread_put_asleep() and phantom_thread_wake_up() are declared   *)
(* in include/kernel/snap_sync.h and live outside src/; they are modelled  *)
(* from the specification (section 4.4).  The state they work on is the    *)
(* sleep part of struct data_area_4_thread and the VM_SPIN_TYPE locks of   *)
(* include/vm/internal_da.h.                                               *)
(*                                                                         *)
(* The module declares the state and defines the operations; VmSync and    *)
(* SnapSync use them in their actions.                                     *)
(***************************************************************************)
EXTENDS Integers, Sequences, FiniteSets

CONSTANTS
    Threads,    \* the VM threads
    NoThread    \* a null thread pointer

ASSUME Threads # {} /\ IsFiniteSet(Threads) /\ NoThread \notin Threads

\* The structures that carry a spin lock of their own: the three blocking
\* primitives and the snapshot interlock.
Locks == {"mutex", "cond", "sema", "snap"}

\* spin_to_unlock == 0
NoLock == "none"

VARIABLES
    thda,   \* [Threads -> data_area_4_thread], the sleep state of each thread
    spin    \* [Locks -> Threads \cup {NoThread}], who holds each spin lock

\* The fields of the thread context that put_asleep and wake_up touch.  The
\* thread's own spin lock guards them: each operation below is one step.
data_area_4_thread ==
    [sleep_flag : BOOLEAN, timer : BOOLEAN, spin_to_unlock : Locks \cup {NoLock}]

Awake == [sleep_flag |-> FALSE, timer |-> FALSE, spin_to_unlock |-> NoLock]

SleepInit ==
    /\ thda = [t \in Threads |-> Awake]
    /\ spin = [l \in Locks |-> NoThread]

----------------------------------------------------------------------------
(* The spin locks *)

\* VM_SPIN_LOCK() returns once the lock is free
VM_SPIN_LOCK(l) == spin[l] = NoThread

VM_SPIN_UNLOCK(S, l) == IF l = NoLock THEN S ELSE [S EXCEPT ![l] = NoThread]

----------------------------------------------------------------------------
(* put_asleep and wake_up *)

\* phantom_thread_put_asleep( thda, spin_to_unlock ): mark the thread asleep,
\* arm its timer when a timeout was asked for, and only then release the lock
\* the caller handed over.
phantom_thread_put_asleep(t, timeout) ==
    /\ thda' = [thda EXCEPT ![t] = [sleep_flag     |-> TRUE,
                                    timer          |-> timeout,
                                    spin_to_unlock |-> NoLock]]
    /\ spin' = VM_SPIN_UNLOCK(spin, thda[t].spin_to_unlock)

\* phantom_thread_wake_up( thda ) for every thread of S: clear the sleep flag
\* and cancel the timer.  The thread runs again when it is next scheduled.
phantom_thread_wake_up(T, S) ==
    [t \in Threads |->
        IF t \in S THEN [T[t] EXCEPT !.sleep_flag = FALSE, !.timer = FALSE]
                   ELSE T[t]]

=============================================================================
