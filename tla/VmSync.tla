------------------------------- MODULE VmSync -------------------------------
(***************************************************************************)
(* The blocking primitives of the virtual machine: mutex, condition and    *)
(* semaphore objects (struct data_area_4_mutex, data_area_4_cond and       *)
(* data_area_4_sema of include/vm/internal_da.h) and the timed sleep of a  *)
(* thread.  The operations on them are not under src/; they are modelled   *)
(* from the specification (sections 4.2 and 5).                            *)
(*                                                                         *)
(* Every operation takes the primitive's spin lock, inspects and changes   *)
(* the owner and the waiters, and either returns or registers the caller   *)
(* as a waiter and hands the lock, still held, to put_asleep.  An          *)
(* operation that returns is one step: nothing else can touch the          *)
(* primitive while its lock is held.  An operation that blocks is three:   *)
(* register, put_asleep, resume.  A thread is inside an instruction        *)
(* ("instr") from the boundary it passed until the operation returns; the  *)
(* module that uses this one says when a boundary is passed.               *)
(***************************************************************************)
EXTENDS SleepWake, SequencesExt

CONSTANTS
    MaxWaiters,     \* the threads each waiting_threads_array takes: for the
                    \* mutex and the condition the capacity a call fails
                    \* at, for the semaphore a bound of the model
    MaxSem          \* bound of the model on sem_value

Primitives == Locks \ {"snap"}

ASSUME MaxWaiters \in [Primitives -> Nat \ {0}] /\ MaxSem \in Nat

VARIABLES
    pc,     \* [Threads -> ...], where each thread is
    call,   \* [Threads -> ...], the blocking call a thread is inside of
    held,   \* [Threads -> BOOLEAN], the thread returned from acquire
    mutex,  \* struct data_area_4_mutex
    cond,   \* struct data_area_4_cond
    sema    \* struct data_area_4_sema

primitives == <<mutex, cond, sema>>

Waiters(l) == {w \in Seq(Threads) : Len(w) <= MaxWaiters[l]}

\* nwaiting is the length of waiting_threads_array.
data_area_4_mutex == [owner_thread : Threads \cup {NoThread}, waiting : Waiters("mutex")]

\* The owner_thread of a condition is never set.
data_area_4_cond == [waiting : Waiters("cond")]

data_area_4_sema ==
    [sem_value : -MaxWaiters["sema"] .. MaxSem, waiting : Waiters("sema")]

\* "none", one of the Locks, or "sleep": the timed sleep.
Calls == Locks \cup {NoLock, "sleep"}

VmInit ==
    /\ SleepInit
    /\ pc = [t \in Threads |-> "run"]
    /\ call = [t \in Threads |-> NoLock]
    /\ held = [t \in Threads |-> FALSE]
    /\ mutex = [owner_thread |-> NoThread, waiting |-> <<>>]
    /\ cond = [waiting |-> <<>>]
    /\ sema = [sem_value |-> 0, waiting |-> <<>>]

----------------------------------------------------------------------------
(* Helpers of the operations *)

\* The instruction of the thread is an operation on the primitive with lock l.
Enters(t, l) == pc[t] = "instr" /\ VM_SPIN_LOCK(l)

\* What a plausible slip makes of the test: the array is never found full.
Full_unchecked(l, w) == FALSE

\* The waiting_threads_array has no room for one more thread.
Full(l, w) == Len(w) = MaxWaiters[l]

\* What a plausible slip makes of the choice: the newest waiter is taken.
DequeueNewest(w) == [thread |-> Last(w), rest |-> Front(w)]

\* Release, signal and up take the thread that waited longest.
Dequeue(w) == [thread |-> Head(w), rest |-> Tail(w)]

\* What a plausible slip makes of the wake: the thread is taken off the list
\* and left asleep.
wake_next_forgotten(T, w) == T

\* The thread taken off the list w is woken, under the primitive's lock.
wake_next(T, w) == phantom_thread_wake_up(T, {Dequeue(w).thread})

\* The slip put_asleep exists to rule out: the lock is let go when the thread
\* is registered, and put_asleep is given no lock.
wait_on_unlocked(t, l) ==
    /\ spin' = spin
    /\ thda' = thda
    /\ pc' = [pc EXCEPT ![t] = "put_asleep"]
    /\ call' = [call EXCEPT ![t] = l]

\* The caller is on the waiter list: keep the lock and hand it to put_asleep.
wait_on(t, l) ==
    /\ spin' = [spin EXCEPT ![l] = t]
    /\ thda' = [thda EXCEPT ![t].spin_to_unlock = l]
    /\ pc' = [pc EXCEPT ![t] = "put_asleep"]
    /\ call' = [call EXCEPT ![t] = l]

\* The operation returns to its caller with the lock released, and the
\* thread is at the next instruction boundary.
returns(t) == pc' = [pc EXCEPT ![t] = "run"] /\ UNCHANGED <<spin, call>>

----------------------------------------------------------------------------
(* Mutex *)

mutex_acquire(t) ==
    /\ Enters(t, "mutex") /\ ~ held[t]
    /\ \/ /\ mutex.owner_thread = NoThread
          /\ mutex' = [mutex EXCEPT !.owner_thread = t]
          /\ held' = [held EXCEPT ![t] = TRUE]
          /\ returns(t) /\ UNCHANGED thda
       \/ /\ mutex.owner_thread # NoThread /\ ~ Full("mutex", mutex.waiting)
          /\ mutex' = [mutex EXCEPT !.waiting = Append(@, t)]
          /\ wait_on(t, "mutex")
          /\ UNCHANGED held
       \/ \* waiter array full: the call fails
          /\ mutex.owner_thread # NoThread /\ Full("mutex", mutex.waiting)
          /\ returns(t) /\ UNCHANGED <<mutex, held, thda>>
    /\ UNCHANGED <<cond, sema>>

\* What a plausible slip makes of the release: the mutex is freed though a
\* waiter is woken to take it.
hand_over_freed(m) ==
    [owner_thread |-> NoThread, waiting |-> Dequeue(m.waiting).rest]

\* The releaser makes the longest waiter the owner before it wakes it.
hand_over(m) ==
    [owner_thread |-> Dequeue(m.waiting).thread,
     waiting      |-> Dequeue(m.waiting).rest]

mutex_release(t) ==
    /\ Enters(t, "mutex") /\ held[t]
    /\ held' = [held EXCEPT ![t] = FALSE]
    /\ IF mutex.waiting = <<>>
          THEN /\ mutex' = [mutex EXCEPT !.owner_thread = NoThread]
               /\ UNCHANGED thda
          ELSE /\ mutex' = hand_over(mutex)
               /\ thda' = wake_next(thda, mutex.waiting)
    /\ returns(t) /\ UNCHANGED <<cond, sema>>

----------------------------------------------------------------------------
(* Condition *)

cond_wait(t) ==
    /\ Enters(t, "cond") /\ ~ held[t]
    /\ \/ /\ ~ Full("cond", cond.waiting)
          /\ cond' = [cond EXCEPT !.waiting = Append(@, t)]
          /\ wait_on(t, "cond")
       \/ /\ Full("cond", cond.waiting)
          /\ returns(t) /\ UNCHANGED <<cond, thda>>
    /\ UNCHANGED <<held, mutex, sema>>

cond_signal(t) ==
    /\ Enters(t, "cond") /\ cond.waiting # <<>>
    /\ cond' = [cond EXCEPT !.waiting = Dequeue(@).rest]
    /\ thda' = wake_next(thda, cond.waiting)
    /\ returns(t) /\ UNCHANGED <<held, mutex, sema>>

cond_broadcast(t) ==
    /\ Enters(t, "cond") /\ cond.waiting # <<>>
    /\ cond' = [cond EXCEPT !.waiting = <<>>]
    /\ thda' = phantom_thread_wake_up(thda, ToSet(cond.waiting))
    /\ returns(t) /\ UNCHANGED <<held, mutex, sema>>

----------------------------------------------------------------------------
(* Semaphore *)

\* A down takes a unit, or takes the count below zero and queues the caller.
\* The queue is bounded by the model: no down is started on a full one.
sema_down(t) ==
    /\ Enters(t, "sema") /\ ~ held[t]
    /\ \/ /\ sema.sem_value > 0
          /\ sema' = [sema EXCEPT !.sem_value = @ - 1]
          /\ returns(t) /\ UNCHANGED thda
       \/ /\ sema.sem_value <= 0 /\ ~ Full("sema", sema.waiting)
          /\ sema' = [sem_value |-> sema.sem_value - 1,
                      waiting   |-> Append(sema.waiting, t)]
          /\ wait_on(t, "sema")
    /\ UNCHANGED <<held, mutex, cond>>

sema_up(t) ==
    /\ Enters(t, "sema") /\ sema.sem_value < MaxSem
    /\ IF sema.waiting = <<>>
          THEN /\ sema' = [sema EXCEPT !.sem_value = @ + 1]
               /\ UNCHANGED thda
          ELSE /\ sema' = [sem_value |-> sema.sem_value + 1,
                           waiting   |-> Dequeue(sema.waiting).rest]
               /\ thda' = wake_next(thda, sema.waiting)
    /\ returns(t) /\ UNCHANGED <<held, mutex, cond>>

----------------------------------------------------------------------------
(* Sleeping and waking *)

\* A timed sleep: put_asleep with a timeout and no lock to release.
sleep(t) ==
    /\ pc[t] = "instr" /\ ~ held[t]
    /\ phantom_thread_put_asleep(t, TRUE)
    /\ pc' = [pc EXCEPT ![t] = "asleep"]
    /\ call' = [call EXCEPT ![t] = "sleep"]
    /\ UNCHANGED <<held, primitives>>

\* The wake timer of a sleeping thread expires.
timer_expired(t) ==
    /\ thda[t].timer
    /\ thda' = phantom_thread_wake_up(thda, {t})
    /\ UNCHANGED <<spin, pc, call, held, primitives>>

\* The second step of a blocking call.
put_asleep(t) ==
    /\ pc[t] = "put_asleep"
    /\ phantom_thread_put_asleep(t, FALSE)
    /\ pc' = [pc EXCEPT ![t] = "asleep"]
    /\ UNCHANGED <<call, held, primitives>>

\* A thread that was woken is scheduled again.
Woken(t) == pc[t] = "asleep" /\ ~ thda[t].sleep_flag

\* The blocking call returns, and the thread is at the next instruction
\* boundary.  An acquire returns as the owner: the releaser handed the mutex
\* over.
resume(t) ==
    /\ Woken(t)
    /\ pc' = [pc EXCEPT ![t] = "run"]
    /\ call' = [call EXCEPT ![t] = NoLock]
    /\ held' = [held EXCEPT ![t] = @ \/ call[t] = "mutex"]
    /\ UNCHANGED <<thda, spin, primitives>>

\* The bytecode instruction of a thread that passed the boundary: it works
\* on a primitive or sleeps.
Instruction(t) ==
    \/ mutex_acquire(t) \/ mutex_release(t)
    \/ cond_wait(t) \/ cond_signal(t) \/ cond_broadcast(t)
    \/ sema_down(t) \/ sema_up(t)
    \/ sleep(t)

=============================================================================
