------------------------------ MODULE SnapSync ------------------------------
(***************************************************************************)
(* The snapshot synchronisation of the virtual machine, composed with the  *)
(* blocking primitives of VmSync: threads run instructions and look at     *)
(* phantom_virtual_machine_snap_request and                                *)
(* phantom_virtual_machine_stop_request between them; the snapshotter asks *)
(* for a snapshot, waits until every thread is parked or blocked, takes    *)
(* the snapshot and lets the threads go; a shutdown asks them to end.      *)
(* The flags and the functions are declared in include/kernel/snap_sync.h; *)
(* the bodies are not under src/ and are modelled from the specification   *)
(* (section 4.5).                                                          *)
(***************************************************************************)
EXTENDS VmSync

VARIABLES
    phantom_virtual_machine_snap_request,
    phantom_virtual_machine_stop_request,
    snapper,    \* where the snapshotter is
    passed      \* the threads that parked at an instruction boundary

snap_request == phantom_virtual_machine_snap_request
stop_request == phantom_virtual_machine_stop_request

flags == <<phantom_virtual_machine_snap_request,
           phantom_virtual_machine_stop_request>>
snapvars == <<flags, snapper, passed>>
vmvars == <<thda, spin, pc, call, held, primitives>>
vars == <<vmvars, snapvars>>

Init ==
    /\ VmInit
    /\ snap_request = FALSE /\ stop_request = FALSE
    /\ snapper = "running"
    /\ passed = {}

----------------------------------------------------------------------------
(* The threads *)

\* What a plausible slip makes of the test: only a shutdown keeps a thread
\* from its next instruction.
MayRunStopOnly == ~ stop_request

\* The test at an instruction boundary that lets the thread go on.
MayRun == ~ snap_request /\ ~ stop_request

\* A thread at an instruction boundary that finds no request goes into its
\* next instruction.
instr_boundary(t) ==
    /\ MayRun /\ pc[t] = "run"
    /\ pc' = [pc EXCEPT ![t] = "instr"]
    /\ UNCHANGED <<thda, spin, call, held, primitives, snapvars>>

\* The instruction runs, whatever was asked for since the thread looked.
run_instruction(t) == Instruction(t) /\ UNCHANGED snapvars

\* phantom_thread_wait_4_snap(): a snapshot is asked for.  Under the
\* interlock the thread reports that it passed the boundary and goes asleep.
phantom_thread_wait_4_snap(t) ==
    /\ snap_request /\ ~ stop_request
    /\ pc[t] = "run" /\ VM_SPIN_LOCK("snap")
    /\ passed' = passed \cup {t}
    /\ wait_on(t, "snap")
    /\ UNCHANGED <<held, primitives, flags, snapper>>

\* A thread that sees the stop request ends, at an instruction boundary or
\* on its way back from a blocking call.
harakiri(t) ==
    /\ stop_request
    /\ pc[t] = "run" \/ Woken(t)
    /\ pc' = [pc EXCEPT ![t] = "exited"]
    /\ UNCHANGED <<thda, spin, call, held, primitives, snapvars>>

thread_put_asleep(t) == put_asleep(t) /\ UNCHANGED snapvars

\* What a plausible slip makes of the test: a woken thread goes on whatever
\* woke it.
MayResumeAlways == TRUE

\* A woken thread goes back into its call unless the shutdown woke it.
MayResume == ~ stop_request

thread_resume(t) == MayResume /\ resume(t) /\ UNCHANGED snapvars

timer(t) == timer_expired(t) /\ UNCHANGED snapvars

----------------------------------------------------------------------------
(* The snapshotter *)

request_snapshot ==
    /\ snapper = "running"
    /\ phantom_virtual_machine_snap_request' = TRUE
    /\ snapper' = "requested"
    /\ UNCHANGED <<vmvars, phantom_virtual_machine_stop_request, passed>>

\* What a plausible slip makes of the test: a thread that is not at a
\* boundary is taken for one that cannot run.
QuiescentOffBoundary(t) ==
    t \in passed \/ thda[t].sleep_flag \/ pc[t] \in {"exited", "instr"}

\* What a plausible slip makes of the test: only the threads that parked
\* count, and one blocked on a primitive is waited for.
QuiescentParkedOnly(t) == t \in passed \/ pc[t] = "exited"

\* The thread is parked at an instruction boundary, blocked, or gone.
Quiescent(t) == t \in passed \/ thda[t].sleep_flag \/ pc[t] = "exited"

phantom_snapper_wait_4_threads ==
    /\ snapper = "requested"
    /\ \A t \in Threads : Quiescent(t)
    /\ snapper' = "snapshotting"
    /\ UNCHANGED <<vmvars, flags, passed>>

\* What a plausible slip makes of the wake: the threads are woken without
\* the interlock.
InterlockSkipped == TRUE

\* The snapshotter wakes under the lock the parking threads sleep under.
Interlock == VM_SPIN_LOCK("snap")

\* phantom_snapper_reenable_threads(): the snapshot is taken; clear the
\* request and wake every thread that parked.
phantom_snapper_reenable_threads ==
    /\ snapper = "snapshotting"
    /\ Interlock
    /\ phantom_virtual_machine_snap_request' = FALSE
    /\ thda' = phantom_thread_wake_up(thda, passed)
    /\ passed' = {}
    /\ snapper' = "running"
    /\ UNCHANGED <<spin, pc, call, held, primitives,
                   phantom_virtual_machine_stop_request>>

\* phantom_finish_all_threads(): shutdown.  Both flags are set and
\* activate_all_threads() wakes every thread, so that it sees them.
phantom_finish_all_threads ==
    /\ ~ stop_request
    /\ phantom_virtual_machine_snap_request' = TRUE
    /\ phantom_virtual_machine_stop_request' = TRUE
    /\ thda' = phantom_thread_wake_up(thda, Threads)
    /\ snapper' = "stopped"
    /\ UNCHANGED <<spin, pc, call, held, primitives, passed>>

----------------------------------------------------------------------------

Thread(t) ==
    \/ instr_boundary(t)
    \/ run_instruction(t)
    \/ phantom_thread_wait_4_snap(t)
    \/ harakiri(t)
    \/ thread_put_asleep(t)
    \/ thread_resume(t)

Snapper ==
    \/ request_snapshot
    \/ phantom_snapper_wait_4_threads
    \/ phantom_snapper_reenable_threads

Next ==
    \/ \E t \in Threads : Thread(t) \/ timer(t)
    \/ Snapper
    \/ phantom_finish_all_threads

\* A thread that can take a step that is not a new instruction takes it: it
\* ends the instruction it is in, parks, goes asleep, resumes or exits.  So
\* does the snapshotter, and a timer that is armed expires.  An owner of the
\* mutex goes on to its next instruction and, being able to release again
\* and again, does so: critical sections end.  Nothing else is assumed of
\* the instructions the threads run, nor of when a snapshot or the shutdown
\* is asked for.
Fairness ==
    /\ \A t \in Threads :
          /\ WF_vars(run_instruction(t) \/ phantom_thread_wait_4_snap(t)
                        \/ harakiri(t) \/ thread_put_asleep(t)
                        \/ thread_resume(t))
          /\ WF_vars(timer(t))
          /\ WF_vars(held[t] /\ instr_boundary(t))
          /\ SF_vars(mutex_release(t) /\ UNCHANGED snapvars)
    /\ WF_vars(phantom_snapper_wait_4_threads \/ phantom_snapper_reenable_threads)

Spec == Init /\ [][Next]_vars /\ Fairness

----------------------------------------------------------------------------
(* Properties *)

TypeOK ==
    /\ thda \in [Threads -> data_area_4_thread]
    /\ spin \in [Locks -> Threads \cup {NoThread}]
    /\ pc \in [Threads -> {"run", "instr", "put_asleep", "asleep", "exited"}]
    /\ call \in [Threads -> Calls]
    /\ held \in [Threads -> BOOLEAN]
    /\ mutex \in data_area_4_mutex
    /\ cond \in data_area_4_cond
    /\ sema \in data_area_4_sema
    /\ snap_request \in BOOLEAN /\ stop_request \in BOOLEAN
    /\ snapper \in {"running", "requested", "snapshotting", "stopped"}
    /\ passed \subseteq Threads

\* The threads something will wake: those on a waiter list, those that
\* parked for the snapshot, and those whose timer is armed.
Discoverable ==
    ToSet(mutex.waiting) \cup ToSet(cond.waiting) \cup ToSet(sema.waiting)
        \cup passed \cup {t \in Threads : thda[t].timer}

\* No missed wake-up: put_asleep releases the caller's lock only after the
\* thread is marked, so a thread that sleeps is one a release, a signal, the
\* snapshotter or its timer will still find.
SleeperIsDiscoverable ==
    \A t \in Threads : thda[t].sleep_flag => t \in Discoverable

\* Mutual exclusion with hand-over: a thread that returned from acquire is
\* the owner the mutex records, also when mutex_release() passed the mutex to
\* a waiter that has not run yet.
MutexOwnerIsHolder ==
    \A t \in Threads : held[t] => mutex.owner_thread = t

\* Snapshot quiescence: after phantom_snapper_wait_4_threads() saw every
\* thread parked or blocked, no thread changes a mutex, condition or
\* semaphore until phantom_snapper_reenable_threads().  A thread that passed
\* its boundary before the request runs its instruction after it: the wait
\* of the snapshotter is what keeps that instruction out of the snapshot.
SnapshotSeesStillObjects ==
    [][snapper = "snapshotting" => UNCHANGED primitives]_vars

\* Stop is terminal: once phantom_finish_all_threads() set the stop request
\* no thread goes into an instruction and none comes back from a blocking
\* call; a thread that is inside an instruction ends it.  A thread queued on
\* the mutex that the shutdown woke does not take the wake for a hand-over.
StoppedThreadsStay ==
    [][stop_request =>
          \A t \in Threads :
              pc[t] \in {"run", "asleep"} => pc'[t] \in {pc[t], "exited"}]_vars

\* A thread queued on the mutex becomes its holder once snapshots stop
\* interrupting the owner: mutex_release() hands over in the order of arrival
\* and wakes the thread it hands to.
MutexWaiterGetsMutex ==
    <>[](snapper = "running") =>
        \A t \in Threads : t \in ToSet(mutex.waiting) ~> held[t]

\* Waiters are served in the order of arrival: while units keep being
\* given back by sema_up(), no thread stays queued on the semaphore for ever
\* behind threads that came later.
SemaWaiterIsServed ==
    []<><<\E u \in Threads : sema_up(u)>>_vars =>
        \A t \in Threads :
            t \in ToSet(sema.waiting) ~> t \notin ToSet(sema.waiting)

\* A requested snapshot is taken, if the shutdown does not come first:
\* threads that are blocked count as quiescent and are not waited for.
SnapshotIsTaken ==
    snapper = "requested" ~> snapper \in {"snapshotting", "stopped"}

\* A thread that parked for a snapshot runs again, if the shutdown does not
\* come first: phantom_snapper_reenable_threads() wakes it, under the
\* interlock it went asleep under.
ParkedThreadGoesOn ==
    \A t \in Threads : call[t] = "snap" ~> (call[t] # "snap" \/ stop_request)

=============================================================================
