# TLA+ models of the Phantom kernel sources

This directory holds TLA+ specifications of the Phantom OS sources under
`src/`, the TLC configurations that check them, and `PROJECT.json`, which
records for every definition the source lines it was translated from.

## 1. Inventory

`spec.md` describes the persistent-object core (object heap, synchronisation
objects, thread context, sleep/wake, snapshot synchronisation) and names its
collaborators (page allocator, interrupt entry, block I/O requests, Unix
syscall shim, drivers).  Of the core, `src/` holds the data layouts and the
interface declarations only; the executable code under `src/` is that of the
collaborators.

| Component | Source | State | Operations | Hard behaviour |
|---|---|---|---|---|
| Physical page allocator | `oldtree/kernel/phantom/physalloc.c` | bitmap `map`, cursor `alloc_last_pos`, `n_used_pages`, spin lock | init, alloc page, free page, alloc region, free region, stat, check_diff | calls of several threads share the cursor; statistics sampled outside the lock; wrap of the scans; arena size not a multiple of the element width |
| PS/2 mouse driver | `oldtree/kernel/phantom/ps2.c` | ring buffer `ebuf/put_pos/get_pos`, packet position `inbytepos`, accumulated `xpos/ypos/buttons`, counting semaphore | interrupt handler, `put_buf`, `get_buf`, `peek_buf`, event push thread, init, probe | interrupt handler against the push thread on the ring; overflow drops events; resynchronisation of the 3-byte packet; 9-bit sign extension; clamping |
| Unix file calls | `oldtree/kernel/phantom/unix/sys_file.c`, `include/unix/uuprocess.h` | per process `fd[]`, `cwd_file`, `cwd_path`; per file `refcount`, `flags`, `pos`, mutex | open, creat, read, write, close, lseek, fchmod, fchown, ioctl, fcntl, stat, fstat, truncate, ftruncate, chdir, fchdir, getcwd, readdir, pipe, rm, dup, dup2, symlink, mkdir, properties, `uu_find_fd`, `uu_close_all` | descriptor table changed by several threads of a process; reference counts on every error path; one of two steps failing (pipe); close against a call in progress |
| Local APIC and interrupt dispatch | `oldtree/kernel/phantom/i386/apic.c`, `include/kernel/trap.h` | `irq_nest`, APIC registers, `have_apic` | init, setup, EOI, timer/spurious/error handlers, `hal_APIC_interrupt_dispatcher`, broadcast ICI | nested interrupts; the soft-IRQ window opened after EOI |
| BIOS VESA video driver | `phantom/dev/ia32/video_bios_vesa.c`, `oldtree/kernel/phantom/video_drv_bios_vesa.c` | `vesaMode`, `screen`, `n_pages`, mapping | probe, start, stop, set physical address, set mode, map | start before the address was set; 16-bit mode value against the `-1` sentinel |
| ARM thread start | `phantom/threads/arm/t_machdep.c` | thread `cpu.sp/fp/lr/cpsr`, initial stack, `curr_thread_k0_stack_top` | `phantom_thread_state_init`, `arch_adjust_after_thread_switch`, `phantom_thread_c_starter` | stack frame layout the context switch pops; the global stack top of the trap entry is stale from the switch until the starter sets it |
| Snapshot synchronisation | `include/kernel/snap_sync.h` (interface only) | `phantom_virtual_machine_snap_request`, `..._stop_request`, threads parked | `phantom_thread_wait_4_snap`, `phantom_snapper_wait_4_threads`, `phantom_snapper_reenable_threads` | every interpreter thread must be parked before the snapshot is taken; none may stay parked afterwards |
| Sleep/wake primitive | `include/kernel/snap_sync.h` (interface only), `include/vm/internal_da.h` | `sleep_flag`, `timer`, `spin_to_unlock` of the thread; the spin locks | `put_asleep`, `wake_up` | a wake-up between the decision to sleep and the sleep must not be lost |
| VM synchronisation objects | `include/vm/internal_da.h` (layouts only) | mutex owner and waiting queue, cond waiting queue, semaphore count and queue | lock, unlock, wait, signal, acquire, release | mutual exclusion, hand-over of ownership, no lost wake-up |
| Object heap and data areas | `include/vm/internal_da.h`, `include/vm/bulk.h` | object headers, stacks, call frames | allocation, reference counting | out of reach: layouts only, no code under `src/` |
| Pager I/O request | `include/pager_io_req.h` | request flags, `rc`, `chain` | `pager_io_request_init`, `io_request_is_complete` | completion seen by the waiter |

## 2. Plan

Modules are written from the executable sources first, one per component, in
the order in which they matter to the rest of the system; the parts of the
core that exist under `src/` only as layouts are modelled from `spec.md`
afterwards and marked as such in `PROJECT.json`.

1. `PhysAlloc` - the page allocator (done, section 3).
2. `Ps2Mouse` - the mouse driver: interrupt handler and push thread on the
   ring buffer; refinement of a bounded FIFO; delivery liveness (done,
   section 4).
3. `UnixFile` - the descriptor table and file reference counts of one
   process under the calls of `sys_file.c` (done, section 5).
4. `Apic` - the interrupt dispatcher and its nesting counter (done,
   section 6).
5. `VesaDriver` - the driver life cycle (done, section 8).
6. `SleepWake`, `VmSync`, `SnapSync` - the sleep/wake primitive, the mutex,
   condition and semaphore objects and the snapshot protocol, from
   `spec.md`, with their state mapped to the layouts of `internal_da.h` and
   `snap_sync.h` (done, section 7).
7. `ArmThread` - the start of a thread on ARM: the frame of
   `phantom_thread_state_init()` against the pop of the first switch, and
   the interrupt mask against the stack top of the trap entry (done,
   section 9).

Section 10 lists what the modules leave open and what is not modelled.

Each specification `M.tla` has a model `MCM.tla` that fixes the finite sets
and one or more `.cfg` files.  A run that is expected to pass checks the safety
properties of its module and, once per module, its type invariant; a run that is expected to
find a violation checks exactly one statement that the code, a comment or an
assertion makes and the code does not keep.

## 3. PhysAlloc

`PhysAlloc.tla` models one `physalloc_t` arena.

| Model | Code |
|---|---|
| `map` (set of pages whose bit is 1) | `arena->map[]`; element `e` is `map \cap ElemPages(e)` |
| `alloc_last_pos`, `n_used_pages` | the fields of the same name |
| `pc`, `prev_used`, `npages` | where a caller is inside an allocation call, and its locals |
| `result` | return code and `*ret` of the last allocation call |
| `diff_ok` | whether the last `physalloc_check_diff()` found the expected difference |
| `stale` | history: the callers whose `prev_used` sample a call of another caller has made out of date |
| `holders` | environment: how often each page is handed out |

Every routine runs its body under `hal_spin_lock_cli(&arena->lock)`, so a
locked section is one action.  With `TRACE_USED` (set to 1 in the source)
`phantom_phys_alloc_page()` and `phantom_phys_alloc_region()` call
`phantom_phys_stat_arena()` before they take the lock, and the page call
compares after it released it; these are the actions `..._enter`,
`..._locked` and `..._leave`.  The asserts of the code are guards: callers
keep the contract (they free what is allocated, inside the arena).  `Init` is
the state `do_phantom_phys_alloc_init()` leaves: every page marked used.
The walk of `phantom_phys_stat_arena()` outside the lock is one sample of
the map: a walk that another caller's call cuts in two, and counts part of
the map before that call and part after it, is not modelled.

The scan loops are translated as `ScanOrder`/`FirstWithZeroBit` (page) and the
recursive `RegionScan` (region), which keeps the reset of the run counter on
wrap.

### Runs

| Run | Configuration | Result |
|---|---|---|
| `physalloc` | `MCPhysAlloc.cfg`: 7 pages, 2 bits per element, region sizes 1..3, 2 callers (symmetric) | passes, 496 014 states |

* `BitmapIsHeld` - a page is held by exactly one holder when its bit is set
  and by none when it is clear.
* `UsedCountExact` - `n_used_pages` is the number of set bits.
* `PageAllocComplete` - the page call fails only when every scanned element
  is full.
* `RegionIsCountedRun` - the answer of the region call is a free run of the
  wanted length that lies where the scan counts one (from the cursor to the
  element before the last, or below the cursor): the region starts on an
  element boundary, lies inside the arena and was entirely free in the map
  the call found under the lock.  The call answers ENOMEM exactly when there
  is no such run.  This is less
  than the `return ENOMEM; // not found` of the code says: the run counter is
  cleared when the cursor wraps, in the iteration that counted the last
  element, so a run ending at the last element is never taken, and the scan
  stops at the starting cursor, so a run across it is not seen either.  With
  elements 0 and 1 in use, element 2 free and the cursor at 0 a request for
  two pages is refused (five steps from the initial state).  The property
  holds in both directions, so it also says that nothing else is refused.
  The `assert( start + n_pages < total_size )` of
  `phantom_phys_free_region()` refuses a region that ends at the last page;
  on an arena of whole elements the allocator hands none out for the reason
  above.
* `TraceDiffHasCause` - the self-check of `TRACE_USED` does report
  mismatches on correct calls, and the property says exactly when: the
  caller's `prev_used` was sampled before the lock was taken and a call of
  another caller changed the count in between, or the page freed lies in the
  partial last element that `phantom_phys_stat_arena()` never counts.  Any
  other report would be a call that changed the map by something else than
  it was asked for.

Bounds.  Two bits per element make whole-element and partial-element paths
of both region routines reachable with region sizes 1, 2 and 3; seven pages
give three scanned elements (enough for the cursor to wrap with a run before
and after it) plus one page in the partial last element.  Two callers are
enough for every interleaving of one sample with one complete call.  The
callers are a symmetry set: no action or property names a caller, and no
liveness property is checked in these runs.

Not modelled: the byte layout of the map buffer (`map_elem_t` is defined
outside `src/`), the `inited` flag (the model starts after init), the
interrupt flag saved and restored around the lock.

## 4. Ps2Mouse

`Ps2Mouse.tla` models the driver of `ps2.c`; `EventQueue.tla` is the bounded
FIFO queue its ring is meant to be.

| Model | Code |
|---|---|
| `ebuf`, `put_pos`, `get_pos` | the ring of `put_buf()`, `get_buf()`, `peek_buf()` |
| `mouse_sem` | the count of the semaphore the handler releases and the thread acquires |
| `inbytepos`, `xsign`, `ysign`, `xval`, `yval`, `ps2ms_state_*` | the statics of `ps2ms_int_handler()` |
| `seq_number` | devices created by `driver_isa_ps2m_probe()` |
| `probe_pc`, `tries` | where the boot thread is inside the probe, and the counter of the purge loop |
| `obf`, `outq`, `inreg`, `ctl_cmd`, `aux_silent` | environment, the keyboard controller: the byte it holds for the processor (status bit 0), the bytes it has yet to present, the byte written and not yet taken (status bit 1), the control word it took last, and whether the mouse took a command without answering |
| `int_pc`, `thr_pc`, `e` | where the handler and `mouse_push_event_thread()` are, and the event in the thread's hands |
| `npackets`, `nprobes` | counters for the two bounds |
| `acceptedB`, `deliveredB`, `lastAccepted`, `lastDelivered` | history: what `put_buf()` accepted and what was passed to `ev_q_put_any()` |

The three ring routines run under the spin lock `elock` with interrupts off
and are one step each.  The handler is two steps, the byte with `put_buf()`
and then `hal_sem_release()`; the thread is three, `hal_sem_acquire()`,
`get_buf()` and the body with `peek_buf()`.  The handler takes one byte of
`InBytes` per interrupt, so packets that lose their first byte, and data
bytes that look like a first byte, are part of the behaviours.  The
conversions are modelled by what they do: `SignedChar` is the cast to
`signed char`, `insert_bit9` the building of the nine-bit value, `Clamp`
the limits of the screen.

The probe is one step up to the purge loop and then one step for every
test of a spin loop that lets the boot thread on:

| Action | Code |
|---|---|
| `driver_isa_ps2m_probe` | `hal_sem_init()`, `hal_spin_init()`, the test of `seq_number` |
| `ps2ms_purge` | one test of the purge loop with the read of the data port, and `if( tries <= 0 )` when the loop is left |
| `ps2ms_send_cmd`, `ps2ms_send_aux` | `wait_write_ctrl()` and the control word; `wait_write_data()` and the data word |
| `ps2ms_aux_wait_ack` | `ps2ms_get_data()`, the comparison with `PS2_RES_ACK`, and the rest of the probe through `probe_return` (handler, device, thread) |
| `ctl_accept`, `ctl_present` | environment: the controller takes the byte written to it, passes a data byte behind `PS2_CTRL_WRITE_AUX` to the mouse, and presents the next byte it has |

The bytes of the handshake are names (`PS2_RES_ACK`, `Stray`, ...), not
numbers: the probe only compares them.  `Init` leaves up to `PurgeTries`
stray bytes on their way, which the controller presents when it likes, also
after the purge loop is over.

### Runs

| Run | Configuration | Result |
|---|---|---|
| `ps2mouse` | `MCPs2Mouse.cfg`: ring of 3 slots, 4 packets, bytes 0x81, 0x08, 0x09, 0x18, screen 1 x 1, one probe with up to 3 stray bytes | passes, 248 520 states |
| `ps2mouse_reprobe` | `MCPs2MouseReprobe.cfg`: the same with two probes | `NoLostWakeup` violated |

* `RingIsQueue` - refinement: with `RingContents` for the queue, every step
  of the driver is a step of `EventQueue` (append, drop the new event on a
  full queue, remove the oldest, or leave the queue alone).
* `NoLostWakeup` - when the thread is blocked on the semaphore and the
  handler is not about to release it, the ring is empty and the event the
  thread took has been passed on.
* `ButtonChangesDelivered` - the events the thread leaves out never hide a
  change of the buttons.
* `DeliversLatest` - the newest event accepted is passed on in the end.
* `MovementIsNineBit` - after `insert_bit9()` the movement of a packet is
  the data byte the mouse sent, less 256 when the sign flag of the first
  byte is set: the cast to `signed char` in between leaves no trace.
* `ProbeHangHasCause` - the spin loops of the probe have no time limit, and
  the probe does hang: when a byte arrives after the purge loop (nobody
  reads it, and `wait_write_ctrl()` waits for status bit 0 as well), and
  when the mouse takes `PS2_CMD_ENABLE_MOUSE` and does not answer.  The
  property says that these are the only two ways; in particular no command
  is lost on its way to the mouse, because each write waits for the byte
  before it to be taken.
* `NoLostWakeup` with a second probe (violated) - the probe initialises the
  semaphore before it tests `seq_number`; a release made for an event still
  in the ring is forgotten and the thread sleeps on a ring that is not empty.

Bounds.  A ring of three slots holds two events, so four packets fill it,
overflow it and wrap both positions.  The four byte values are one byte
without the first-byte mark, first bytes with the left button up and down,
and a first byte with the sign of x: enough for resynchronisation, a change
of buttons, equal buttons in a row, a data byte that is negative as a
`signed char`, and a negative movement against the lower clamp.
`PurgeTries = 3` with up to three stray bytes lets the purge loop find
nothing, purge one byte and succeed, purge two and fail because the test
that left the loop spent the last try, and run out of tries.

Fairness.  `WF_vars(ps2ms_int_release)`: an interrupt handler that has put
its event runs on to the release, nothing preempts it for ever.
`WF_vars(Thread)`: the scheduler runs the event thread when it can run.
`WF_vars(Probe)`: the boot thread spins in a loop of the probe and goes on
when the test of the loop lets it.  `WF_vars(Controller)`: the controller
takes a byte written to it and presents a byte it holds; this is an
assumption on the hardware, and `ProbeHangHasCause` is stated under it.
Nothing makes the mouse send; `CHECK_DEADLOCK FALSE` because the driver is
idle, as it should be, once the mouse rests and the ring is drained, and
because a probe that failed leaves nothing that could run.

Seen while modelling, without a run of their own:

* `ps2ms_do_init()`: a byte that reaches the controller after the purge
  loop makes `wait_write_ctrl()` spin for ever (line 302); the first
  counterexample to "the probe returns" is one stray byte presented
  between the two writes of `ps2ms_send_cmd()`.
* `ps2ms_do_init()`: the test that leaves the purge loop decrements `tries`
  too, so a purge that ended with the last try is reported as "not found"
  (line 338).
* `ps2ms_aux_wait_ack()`: the first byte the controller holds is taken for
  the answer; a stray byte presented after the last write makes the probe
  fail although the mouse acknowledged (line 322).

Not modelled: a stray byte that has the value of `PS2_RES_ACK`, a keyboard
driver that reads the data port during the probe, the time stamp, type and
focus of an event, and `video_drv == NULL` (the handler reads
`video_drv->xsize` before it tests the pointer).

## 5. UnixFile

`UnixFile.tla` models the file calls of `sys_file.c` on one
`struct uuprocess`, entered by the threads of the process.

| Model | Code |
|---|---|
| `fd` | `u->fd[MAX_UU_FD]`; `NoFile` is the null pointer |
| `cwd_file`, `cwd_path` | the fields of the same name; the path is "root", set by a call, or empty |
| `file[f]` | a `struct uufile`: `kind` (which of `fs`, `fs->open`, `ops` and the callbacks are set, what `getsize()` returns), `flags`, `refcount`, `pos` |
| `fd_find_mutex` | the thread inside `uu_find_fd()` |
| `pc`, `loc` | where a thread is inside a call, and the locals the rest of the call uses |
| `result` | return value and `*err` of the call that returned last |

Steps.  A call that only uses a file (read, write, lseek, ioctl, fcntl, the
stat and property calls, readdir) is one action: it checks the descriptor,
tests the callbacks and runs under `f->mutex`.  A call that changes `u->fd[]`
is split where another thread can act on what the call has read:

| Action | Code |
|---|---|
| `usys_open`, `usys_dup`, `usys_pipe` | the call up to the scan of `uu_find_fd()`: the slot is chosen, `fd_find_mutex` taken |
| `uu_find_fd_store` | the store into the slot, the unlock, and what the caller does with the descriptor |
| `uu_find_fd` | the second `uu_find_fd()` of `usys_pipe()` |
| `usys_close`, `usys_close_locked` | `CHECK_FD` and `GETF`; then `fs->close()` and the clearing of the slot |
| `usys_dup2`, `usys_dup2_store` | the tests and the read of both slots; then (after the close, when there is one) `link_uufile()` and the store |
| `uu_close_all`, `uu_close_all_loop` | entry; one turn of the loop |
| `usys_chdir`, `usys_chdir_store` | the path, `uu_namei()` and the test of the flags, up to the read of `u->cwd_file`; then `unlink_uufile()` of what was read and the store of the new directory and path |
| `usys_fchdir`, `usys_fchdir_store` | `CHECK_FD`, `GETF` and the test of the flags, up to the read of `u->cwd_file`; then the unlink, `copy_uufile()`, the store and `getpath()` |

What a call does before it enters `uu_find_fd()` (`uu_namei()`, `fs->open()`,
`link_uufile()`) is part of the step that takes the mutex.  For `usys_open()`
and `usys_pipe()` it is on a file no other thread has; `usys_dup()` reads
`u->fd[fd]` and links the file in that step, so a close by another thread
between its `GETF` and its `link_uufile()` is not a behaviour of the module
(section 10).  The files come from a pool of `MaxFiles`: a call that needs
a new file is not started while the pool is empty (`FreeFiles # {}`), which
is a bound of the model and no refusal of the code, as are the positions
`0..MaxPos` of `usys_lseek()`.  `usys_lseek()` with `SEEK_SET` tests the
position before it reads `f->ops`, and returns what `*err` held at the call
when the file has no `seek()`; `usys_ioctl()` returns the result and the
errno of the callback as they are.  A null pointer that the code
follows (`f->ops` in `usys_fchmod()`, `usys_lseek()`, `usys_rm()`,
`usys_fchdir()` and the property calls) stops the kernel: `Panic` puts every
thread at "panic", and `CHECK_DEADLOCK FALSE` is set for that state.

Outside `src/`.  `CHECK_FD`, `GETF`, `link_uufile()`, `unlink_uufile()`,
`copy_uufile()`, `uu_namei()`, `pipefs_make_pipe()` and the callbacks of a
file system are not in `src/`.  The module takes the first group as what
their names and their use say (they test the descriptor, count references,
and hand out a file with one reference) and marks them in `PROJECT.json`;
the callbacks are environment and return any of their results (`0` or
`EIO`; a count below, at or above zero; `ENOENT` for the end of a
directory).  `fs->close()` is a callback too: the model does not let it
change `refcount`.  The properties on references are therefore about what
`sys_file.c` itself takes and gives back.  A file leaves the model when
`fs->close()` has had it, or `unlink_uufile()` took its last reference, and
no slot and no call in progress points to it; while something points to it,
it stays, with the count it has.

### Runs

| Run | Configuration | Result |
|---|---|---|
| `unixfile_threads` | `MCUnixFile.cfg`: 2 threads (one of them changes directory), 2 slots, 2 files, kind `Regular` and pipes | passes, 152 321 states |
| `unixfile_calls` | `MCUnixFileCalls.cfg`: 1 thread, 1 slot, 2 files, six kinds and pipes, positions 0..1 | passes, 5 854 states |
| `unixfile_pipe_emfile` | `MCUnixFilePipe.cfg`: as `unixfile_calls` | `DescriptorsAreLive` violated |
| `unixfile_dup2_race` | `MCUnixFileDup2.cfg`: as `unixfile_threads` | `StoreIntoEmptySlot` violated |
| `unixfile_chdir_race` | `MCUnixFileChdir.cfg`: 2 threads that both change directory, 1 slot, 3 files, kinds `Regular` and `Directory` | `CwdIsUnlinkedOnce` violated |

* `DescriptorsOwnReferences` - a file that is not the end of a pipe has at
  least as many references as slots (and `u->cwd_file`) that hold it, in
  every interleaving of open, dup, dup2 and close of two threads with the
  chdir and fchdir of one of them, the EMFILE paths included.
* `ReferenceLostHasCause` - a file is lost when it is allocated and neither
  `u->fd[]`, `u->cwd_file` nor a call in progress points to it.  Calls made
  one after the other, over every kind of file, lose a file in one way only:
  `usys_stat()`, `usys_truncate()` and `usys_rm()` find no callback and
  return ENXIO before the `unlink_uufile()` that ends them on every other
  path (lines 347, 397, 665).  The file `uu_namei()` handed out stays in
  `file` with its one reference, so the pool of `MaxFiles` runs dry after
  two such calls, and the model goes on with the calls that need no new
  file.  The property is checked with one thread; with two, the store of
  `usys_dup2()` into a slot filled meanwhile loses a file as well, which is
  what `StoreIntoEmptySlot` is about.
* `CloseAllEmptiesTable` - when `uu_close_all()` leaves its loop every slot
  is empty.
* `NoCallHangs` - a thread inside a call returns or comes to wait for
  `fd_find_mutex`, and the mutex is given up on both ways out of
  `uu_find_fd()`.
* `DescriptorsAreLive` (violated) - `usys_pipe()` with one free slot stores
  the first end, fails to find a slot for the second, unlinks both and
  returns EMFILE; the slot keeps the pointer to the file it gave up.
* `StoreIntoEmptySlot` (violated) - `usys_dup2()` finds `dst_fd` empty; before
  it stores, `usys_open()` of another thread is given the same slot by
  `uu_find_fd()`; the store of `usys_dup2()` replaces the file just opened.
* `CwdIsUnlinkedOnce` (violated) - `usys_chdir()` and `usys_fchdir()` read,
  unlink and replace `u->cwd_file` without a lock.  Two threads read the
  same old directory; the second `unlink_uufile()` is on a file whose count
  is already zero, and the directory the first thread stored is overwritten
  with its reference still held.

`CwdThreads` is the set of threads that may call `usys_chdir()` and
`usys_fchdir()`.  The code takes no lock there, so the passing runs state the
one condition under which the reference counts are kept, a single thread
that changes directory (`CwdThreads` is one thread), and
`unixfile_chdir_race` shows what happens without it (`CwdThreads` is every
thread).

Bounds.  Two slots and two files let two threads work on one shared file
and on two different ones, fill the table, and meet in one slot; `MaxRefs =
2` stops `usys_dup()` and `usys_dup2()` from being entered on a file with two
references, which bounds the counts (close does not lower them).  One slot
makes the table full after the first descriptor, so the second
`uu_find_fd()` of `usys_pipe()` and the EMFILE paths are reached with two
files.  The race on `u->cwd_file` needs a directory that is the working
directory and one new directory for each of two threads: three files.  The
six kinds (`MCUnixFile.tla`) are a file with every callback, two
directories (with `readdir()`, and read as a file), a device, a name whose
file system cannot open, and a file without `ops`: together they reach every
branch of the calls.  Offsets -1 and 1 with positions 0..1 reach the
negative result, the stored position and the end of file.

`VIEW view` leaves `result` out of what TLC takes for the state: no call
reads it, so two states that differ in it alone have the same future.

Fairness.  `WF_vars(Continue(t))` for every thread: a thread inside a call
is run by the scheduler.  Nothing makes a thread enter a call.  Weak
fairness does not promise a thread at `fd_find_mutex` that it gets the
mutex while others take it again and again; `NoCallHangs` does not ask for
that, because `hal_mutex_lock()` is outside `src/` and its queueing unknown.

Seen while modelling, without a run of their own:

* `usys_lseek()`: `case SEEK_CUR` has no `break` and adds the size of the
  file as well (line 167).
* `usys_fcntl()`: `F_GETFL` tests `f->flags | UU_FILE_FLAG_RDONLY`, which is
  never zero, and answers `O_RDONLY` for every file (line 309).
* `usys_fchdir()`: the test of `UU_FILE_FLAG_DIR` is inverted; a directory
  is refused with ENOTDIR and anything else becomes the working directory
  (line 499).
* `usys_chdir()`: a path that does not normalise returns `ENOENT` as the
  value of the call and leaves `*err` alone (line 439).
* `usys_open()`: without `fs->open` the call returns -1 and leaves `*err`
  alone (line 54).

The model has each of these as the code has it (`SeekPos`, `GetFl`,
`usys_fchdir`, `usys_chdir`, `usys_open`).

## 6. Apic

`Apic.tla` models the compiled part of `i386/apic.c` (lines 37 to 268) on
one processor.  Lines 318 to 1039 of the file are inside `#if 0` and are
not modelled: they are no part of the kernel.

| Model | Code |
|---|---|
| `boot` | whether `phantom_init_apic()` has run, and how it ended |
| `have_apic`, `apic_local_unit` | the statics of the same name; the pointer is `NULL` or the mapped page |
| `apic_base_msr` | `APIC_BASE_MSR`: where the unit is, and the flags in its low bits |
| `unit` | the registers the file uses: `unit_id`, `error_vector`, `spurious_vector`, `error_status`, `int_command[0]` |
| `in_service`, `error_pending` | the unit itself: vectors delivered and not yet ended by an EOI; errors detected since `error_status` was written |
| `irq_nest` | the int of that name as a record: nesting count, `SOFT_IRQ_DISABLED`, `SOFT_IRQ_NOT_PENDING` |
| `stack` | the invocations of `hal_APIC_interrupt_dispatcher()` on the processor's stack, innermost last |

Steps.  The dispatcher is entered with interrupts off.  It calls out of the
file at two places where interrupts can be on again and a further vector
can be delivered: `call_irq_handler()` and `hal_softirq_dispatcher()`.  An
invocation is on `stack` while it stands at one of the two; what lies
between them is one step:

| Action | Code |
|---|---|
| `hal_APIC_interrupt_dispatcher(v)` | delivery of `v` and the `switch`: `spurious` returns at once; `local_vector` runs the handler of the error, ICI or timer vector and goes on to the end (`finish`); `device_vector` counts `irq_nest` up and enters the handler |
| `irq_handler_done` | `irq_nest--` and `finish` |
| `finish` | `apic_eoi()`, the test of `irq_nest`, and either the return or `irq_nest = SOFT_IRQ_DISABLED \| SOFT_IRQ_NOT_PENDING` and the entry into `hal_softirq_dispatcher()` |
| `softirq_done` | `ENABLE_SOFT_IRQ()` and the return |
| `phantom_init_apic`, `phantom_smp_send_broadcast_ici` | the functions of the same name, one step each (boot is sequential; the broadcast runs between `hal_save_cli()` and `hal_sti()`).  The broadcast does not test `have_apic`: it writes through `apic_local_unit`, and where no APIC was found that pointer is null and the kernel stops |

Outside `src/`.  `irq_nest`, its two flags and the macros on them are
declared elsewhere; the module reads them as the dispatcher uses them (a
count with two flag bits, `if(irq_nest)` true when any of the three is set)
and marks them in `PROJECT.json`.  What the unit does (it delivers a vector
only above those in service, an EOI ends the highest one, a spurious vector
is not in service, `error_status` shows the detected errors after a write)
is environment; the unit compares priorities by classes of 16 vectors and
`APIC_INT_BASE` is not in `src/`, so the module compares vectors and has
every nesting the unit allows, and some it does not.  `request_soft_irq`,
`error_detected` and `ici_accepted` are environment too.  `phantom_io_apic_init()`, `phantom_map_page()` and
`check_global_lock_entry_count()` change nothing the module holds.

### Runs

| Run | Configuration | Result |
|---|---|---|
| `apic` | `MCApic.cfg`: device vectors 1 and 2, two error conditions, three unit ids, `MaxNest = 3` | passes, 6 642 states |

* `InServiceMatchesHandlers` - the vectors in service are those of the
  handlers in progress: every delivered vector is ended by one EOI, a
  spurious one by none, also when vectors nest.
* `SoftIrqAtBaseOnly` - `hal_softirq_dispatcher()` is entered from the
  outermost invocation only and not again while it runs.
* `IrqNestDescribesStack` - the count in `irq_nest` is the number of
  handlers in progress, and the disabled flag is set exactly while soft IRQs
  run.
* `PendingSoftIrqRuns` - a soft IRQ that was asked for is dispatched.

Bounds.  Two device vectors are enough for a handler to be interrupted by
another device; the unit's own vectors are above both.  `MaxNest = 3` holds
soft IRQs with two handlers nested into them, the deepest stack two devices
can make.  The unit id 17 * 2^24 is one that the four-bit mask of
`GET_CPU_ID()` cuts.

Fairness.  `SF_vars(Return(d))` for each depth `d`: a handler or a soft IRQ
ends although interrupts keep nesting into it, which holds when interrupts
come at a finite rate.  `WF_vars` on the delivery of a vector other than the
spurious one: devices go on to interrupt.  A soft IRQ asked for while soft
IRQs run waits for the next interrupt; without one it is never dispatched.
`CHECK_DEADLOCK FALSE`: after the panic of `phantom_init_apic()`, or of a
broadcast without an APIC, nothing in this module happens any more.

Left open.  Only one processor is modelled; `irq_nest` is a single global
and `phantom_setup_apic()` is written to run on every processor.  The
thread switch that a soft IRQ may make inside `hal_softirq_dispatcher()` is
outside `src/`.  `call_irq_handler()` is passed the vector with
`APIC_INT_BASE` added, and the comment at line 201 says it fails for
interrupts from 16 on; the table it indexes is outside `src/`.

## 7. SleepWake, VmSync and SnapSync

The core of `spec.md`.  Under `src/` it exists as layouts
(`include/vm/internal_da.h`) and declarations (`include/kernel/snap_sync.h`);
the operations are modelled from sections 4.2, 4.4, 4.5 and 5 of `spec.md`
and are marked `spec_modelled` in `PROJECT.json`.  Three modules, each
extending the one before:

| Module | Part | State |
|---|---|---|
| `SleepWake` | `phantom_thread_put_asleep()`, `phantom_thread_wake_up()`, the spin locks | `thda[t]`: `sleep_flag`, `timer`, `spin_to_unlock` of `struct data_area_4_thread`; `spin[l]`: the holder of the lock of the mutex, the condition, the semaphore and of the snapshot interlock |
| `VmSync` | mutex, condition, semaphore, timed sleep | `mutex`, `cond`, `sema`: `owner_thread`, the `waiting_threads_array` as a sequence (`nwaiting` is its length), `sem_value`; `pc`, `call`, `held`: where a thread is, the blocking call it is inside of, whether it returned from acquire |
| `SnapSync` | the snapshot protocol, composed with the threads of `VmSync` | the two request flags, `snapper` (running, requested, snapshotting, stopped), `passed`: the threads that parked |

Steps.  An operation that returns at once is one step: it runs under the
primitive's spin lock, and nothing else can touch the primitive meanwhile.
An operation that blocks is three steps, and the lock stays held from the
first to the second:

| Action | What it does |
|---|---|
| `mutex_acquire`, `cond_wait`, `sema_down`, `phantom_thread_wait_4_snap` | take the lock, decide; when blocking, append the caller to the waiter list (or to `passed`) and keep the lock in `spin_to_unlock` (`wait_on`); `mutex_acquire` and `cond_wait` fail when the waiter array is full |
| `thread_put_asleep` | `phantom_thread_put_asleep()`: set `sleep_flag`, then release the lock |
| `thread_resume` | a thread whose `sleep_flag` was cleared runs again; an acquire returns as the owner |
| `mutex_release`, `cond_signal`, `cond_broadcast`, `sema_up` | under the lock, take the longest waiter (all, for the broadcast) off the list and wake it; the release makes it the owner |
| `sleep`, `timer` | a timed sleep, and the expiry of the wake timer |
| `instr_boundary` | the test of both flags at an instruction boundary: with neither set the thread goes into its next instruction (`pc = "instr"`) |
| `run_instruction` | the instruction the thread went into: an operation on a primitive or a timed sleep; it looks at no flag |
| `harakiri` | a thread that sees the stop request ends |
| `request_snapshot`, `phantom_snapper_wait_4_threads`, `phantom_snapper_reenable_threads` | the snapshotter: set the flag; go on when every thread is parked, blocked or gone; clear the flag and wake the parked threads, under the interlock |
| `phantom_finish_all_threads` | shutdown: set both flags and wake every thread |

The test of the flags and the instruction are two steps.  A thread that
tested before a request and runs its instruction after it is a behaviour of
the module; what keeps that instruction out of the snapshot is that
`phantom_snapper_wait_4_threads()` goes on only when every thread is
parked, blocked or gone, and a thread inside an instruction is none of
these.

Reading of `spec.md`.  The semaphore count is signed (`int sem_value`): a
down that blocks counts below zero, an up counts up and wakes a waiter, so
the count is the number of free units or minus the number of queued
threads, and every down and every up changes it by one.  Section 8 of
`spec.md` also says that a down never returns while the count is negative;
with two threads queued the first up wakes one of them at a count of -1,
so that sentence and the signed count of section 4.2 with its wake of the
longest waiter cannot both hold.  The module follows section 4.2 and states
no property of the count.  The waiter arrays of `internal_da.h` are VM
objects that grow (`MAX_MUTEX_THREADS` is commented out), and a down has no
refusal: `MaxWaiters["sema"]` is a bound of the model, a guard under which
no down is started on a full queue.  For the mutex and the condition
`MaxWaiters` is the capacity at which section 7 of `spec.md` has the call
fail with an explicit signal.  The shutdown wakes
every thread (`activate_all_threads()`), as scenario 3 of section 8
requires of blocked threads.

### Runs

| Run | Configuration | Result |
|---|---|---|
| `snapsync` | `MCSnapSync.cfg`: 3 threads; the mutex queues 1 waiter, the condition and the semaphore 2; `MaxSem = 1` | passes, 79 850 states |

* `SleeperIsDiscoverable` - no missed wake-up: a thread whose `sleep_flag`
  is set is on a waiter list, in `passed`, or has its timer armed.
* `MutexOwnerIsHolder` - a thread that returned from acquire is the
  `owner_thread`, also across a hand-over to a waiter that has not run yet.
* `SnapshotSeesStillObjects` - while the snapshot is taken no step changes
  the mutex, the condition or the semaphore, although threads that passed
  their boundary before the request run their instruction after it.  A
  snapshotter that counts such a thread as quiescent breaks it.
* `StoppedThreadsStay` - after the stop request a thread at a boundary and
  a thread that sleeps stay where they are or end: none goes into an
  instruction, and none comes back from a blocking call, also not the
  thread queued on the mutex that the shutdown woke.
* `MutexWaiterGetsMutex` - a queued thread becomes the holder, once
  snapshots stop interrupting the owner.
* `SemaWaiterIsServed` - while units keep being given back, no thread stays
  queued on the semaphore behind later ones.
* `SnapshotIsTaken` - a requested snapshot is taken, unless the shutdown
  comes first.
* `ParkedThreadGoesOn` - a parked thread runs again, unless the shutdown
  comes first.

Bounds.  Three threads give an owner, a waiter and a thread that finds the
mutex queue full; two waiters and a third caller on the condition, so that
the full array is met, and two waiters on the semaphore, so that the order
of the queue matters.  The capacities differ because with three threads a mutex cannot have
more than two waiters.  `MaxSem = 1` caps `sem_value`; a larger value adds
units no thread waits for.  Snapshots and timed sleeps repeat without
bound.

Fairness.  Weak fairness on the steps of a thread that are not a new
instruction (the instruction it is inside of, park, end, `put_asleep`,
resume), on the expiry of an armed timer and on the snapshotter's wait and
re-enable: a thread that is runnable is scheduled.  Critical sections end:
the owner of the mutex goes into its next instruction (weak fairness on
its `instr_boundary`), and `mutex_release` is strongly fair, because the
release is possible only while the owner is inside an instruction, which
it is again and again and not continuously.  Nothing is assumed of the
instructions of a thread that holds nothing, nor of when a snapshot or the
shutdown is asked for; that is
why `MutexWaiterGetsMutex` is stated for behaviours in which snapshots
cease: a snapshotter that asks again before the owner has run keeps the
owner parked for ever.  `CHECK_DEADLOCK FALSE`: after the shutdown all
threads are gone.

Left open.  A thread that stands between `wait_on` and `put_asleep` when
`phantom_finish_all_threads()` wakes everybody marks itself asleep
afterwards and is not woken again; `spec.md` gives the shutdown no
interlock, and the liveness properties therefore end at the stop request.
A thread that ends while it owns the mutex leaves the threads queued on it
queued.  The weak reference and the blocking I/O channel of
`internal_da.h` are not modelled (section 10).

## 8. VesaDriver

`VesaDriver.tla` models `phantom/dev/ia32/video_bios_vesa.c`.  The file of
the old tree, `oldtree/kernel/phantom/video_drv_bios_vesa.c`, is the same
driver; it differs in `bios_vesa_stop()`, which restores text mode in every
build (`RestoresTextMode`).  The build flags `VESA_ENFORCE` and `ARCH_ia32`
and the tree are chosen in `Init`, so one run covers all builds.

| Model | Code |
|---|---|
| `vesaMode`, `video_driver_bios_vesa_pa`, `n_pages` | the statics of the same name; `vesaMode` is an `int16_t` |
| `screen` | `video_driver_bios_vesa.screen`, as a virtual page number; 0 is the null pointer |
| `vaddr_next` | environment: what `hal_alloc_vaddress()` has left of `VirtPages` pages |
| `pmap` | environment: the pairs of virtual and physical page `hal_pages_control_etc()` has mapped |
| `card` | environment: the mode `setVesaMode()` and `setTextVideoMode()` left the card in |
| `state` | where the driver is: `boot`, `absent`, `probed`, `started`, `stopped`, `failed`, `panic` |
| `found` | history: what the boot code passed |

| Action | Code |
|---|---|
| `set_video_driver_bios_vesa_pa(pa, size)` | the function: the page count in `size_t`, the allocation, the panic when it fails |
| `set_video_driver_bios_vesa_mode(mode)` | the function: the conversion of the `u_int16_t` to `int16_t` |
| `video_probe` | the video subsystem calls `bios_vesa_probe()` |
| `bios_vesa_start(rc)` | the function with `map_video(1)` and its assert; `rc` is what `setVesaMode()` returns |
| `bios_vesa_stop` | the function with `map_video(0)` |

Environment.  The boot code makes its calls before the video subsystem
probes, in any order and number.  The subsystem starts the driver after a
probe that answered yes, stops a started driver, and may start a stopped
one again.

### Runs

| Run | Configuration | Result |
|---|---|---|
| `vesa` | `MCVesaDriver.cfg`: modes 0x118, 0x4118, 0xC118; pages of 4 bytes; sizes 0, 1, 4, 5, 9; 4 virtual pages | passes, 5 556 states |

* `ProbeMeansVesaFound` - the probe answers yes exactly when a mode was
  set: no mode is taken for the -1 of "no VESA" and -1 for no mode.
* `StartedFrameBufferIsMapped` - while started, every byte of the announced
  frame buffer is mapped to its physical page.
* `StoppedLeavesNothingMapped` - outside `started` nothing is mapped.

Bounds.  The sizes are zero, one byte, one page exactly, one byte more, and
more than two pages; the modes lie on both sides of 2^15.  0xFFFF is left
out: it ends the mode list of the BIOS and is no mode.  Four virtual pages
let a second call of `set_video_driver_bios_vesa_pa()` succeed or exhaust
the address space.  The page size of the model is 4 bytes; the arithmetic
is that of the code.  A size of 0 gives 2^(32 - PageShift) pages, the value
of the 32-bit `size_t` expression, and ends in the panic.
`CHECK_DEADLOCK FALSE`: a panic, a failed start and a driver that is absent
are ends.

Left open.  Under `VESA_ENFORCE` `bios_vesa_start()` does not set the mode
and `bios_vesa_stop()` (old tree, and new tree on `ARCH_ia32`) restores
text mode: after stop and start the frame buffer is mapped while the card
shows text.  The line `//#if !VESA_ENFORCE` in `bios_vesa_stop()` suggests
that the restore was once conditional.  Whether a stopped driver is started
again is decided outside `src/`.

## 9. ArmThread

`ArmThread.tla` models `phantom/threads/arm/t_machdep.c` on one processor
(`HAVE_SMP` is an `#error` in the file).

| Code | Model |
|---|---|
| `t->cpu` (`sp`, `fp`, `lr`, `cpsr`) | `cpu[t]`; `sp` counts words of the stack, `cpsr` is the set of mask bits |
| `t->stack`, `t->stack_size` | `mem[t]`, `StackWords`; `StackTop` is the word behind the last |
| the fourteen `STACK_PUSH` lines | `StartFrame(t)`, written by `Pushed` |
| `my_cpsr\|F_BIT\|I_BIT` | `StartCpsr(cpsr_reg)`: the mask of whoever creates the thread |
| "pop {r4-r12}" (comment of lines 55-57) | `PopR4toR12` |
| `curr_thread_k0_stack_top`, `k0_emergncy_stack` | variable of that name; a stack top is named by its thread |
| `arch_adjust_after_thread_switch()` | operator of that name |
| `phantom_thread_c_starter()` | `starter_unlock`, `starter_adjust`, `starter_sti`, `starter_kill` |

A word of a stack or a register is a pair of what it holds (`zero`, `junk`,
`t`, `start_func_arg`, `start_func`) and the thread it belongs to; addresses
and function pointers have no other value in the model.

The starter stands in the file under `#if 0` with the note "use machundep":
it is the text of the machine independent starter that is compiled in its
place, and it is the only caller of `arch_adjust_after_thread_switch()`
that `src/` shows.  Its steps are separate actions although nothing can
run between them: the states between them are the ones in which the
processor must not take an interrupt.

The environment is the scheduler: `switch_to_new` (the first switch to a
thread: stack pointer from `t->cpu.sp`, the pop, the return to `t->cpu.lr`,
`schedlock` held as line 140 says), `switch_back` (a preempted thread goes
on; its return path adjusts the stack top and turns interrupts on) and
`reuse` (a dead thread's structure and stack are taken for a new thread).
The file does not tell whether the switch loads `t->cpu.cpsr` or keeps its
own mask; `switch_to_new` does either.

### Runs

| Run | Configuration | Result |
|---|---|---|
| `armthread` | `MCArmThread.cfg`: 3 thread structures (symmetric), stacks of 16 words | passes, 258 states |

* `StartFrameIsWhatSwitchPops` - a thread enters the trampoline with
  `start_func`, `start_func_arg` and `t` in r4, r5 and r6, no register of
  r4-r12 holds a word that was in the stack before, and the stack pointer
  stands at five zero words that reach to the top of the stack.
* `InterruptsOnMeansSetUp` - whenever the I bit of the processor is clear,
  `schedlock` is free and `curr_thread_k0_stack_top` is the stack of the
  thread that runs (the emergency stack before the first thread).  Between
  the first switch to a thread and the `arch_adjust_after_thread_switch()` of
  its starter the global is that of the thread before; what keeps interrupts
  out is the `I_BIT` that `phantom_thread_state_init()` ors into the saved
  status register, whatever the mask of the creator, and the `hal_sti()`
  that comes after the adjustment.

Bounds.  Three structures give a thread that is created by the boot code, one
created by a running thread whose interrupts are on, and a switch to a new
thread while another is preempted; with `reuse` every structure is
initialised again over the words of its last use.  Sixteen words hold the
frame of fourteen; a stack of fewer than fourteen words would be written
below its first word, and the callers that choose `stack_size` are outside
`src/`.  The threads are a symmetry set and no liveness property is checked.
Deadlock checking is off: when the only thread that ran has died and none
is ready, nothing is left to run.

No liveness property is stated: whether a ready thread runs is decided by
the scheduler.

Not modelled: `switch_to_user_mode()` (empty body), `dump_thread_stack()`
(prints `t->cpu.ip`, which `phantom_thread_state_init()` never sets, and the
frames from `t->cpu.fp`), the commented-out FXSAVE block.

## 10. Open

* `UnixFile`: the life of a file after `fs->close()` (double close, use
  after close, `dup2(fd, fd)`) needs the file-system side, which is outside
  `src/`.  A file that one thread closes while a call of another still
  points to it stays in `file`: what `fs->close()` leaves of it is not
  known here.
* `UnixFile`: `usys_dup()` against a close of the same descriptor between
  `GETF` and `link_uufile()`: the file whose count the dup raises may be
  gone, which again needs the file-system side.
* `Ps2Mouse`: `put_buf()` ends with `hal_spin_unlock_sti()`, which lets
  interrupts in before the handler calls `hal_sem_release()`; a second
  invocation of the handler nested into the first at that point is not
  modelled, the two steps of the handler are those of one invocation.
* `Ps2Mouse`: the bytes of the mouse reach the handler as any value of
  `InBytes`; they are not taken from the controller of the probe, so an
  answer of the mouse that the probe left behind is not followed into the
  packet stream.
* `VmSync`: the weak reference and the blocking I/O channel.

### Not modelled

* `i386/apic.c`, lines 318 to 1039: inside `#if 0`, with nothing compiled
  in its place.
* `ps2.c`, lines 382 to 603: a second driver inside `#if 0` and a text on
  serial mice in a comment.
* The context switch and the scheduler of the threads library: assembly and
  code outside `src/`.  `ArmThread` has the one step of the switch that
  `t_machdep.c` describes and takes the rest as its environment.
* Object heap and data areas (`internal_da.h`, `bulk.h`): layouts only; the
  allocator and the reference counts are outside `src/`, and `spec.md`
  gives the heap no protocol beyond the typed view.
* Pager I/O request (`pager_io_req.h`): the initialiser and the test
  `io_request_is_complete()`; the queue the requests go through and
  `pager_io_request_done()` are outside `src/`.
