----------------------------- MODULE ArmThread -----------------------------
(* The machine dependent part of thread start on ARM,                      *)
(* phantom/threads/arm/t_machdep.c: phantom_thread_state_init() lays out   *)
(* the stack the first context switch pops, the thread starter sets the    *)
(* kernel stack top of the trap entry code and turns the interrupts on.    *)
(* One processor (HAVE_SMP is an #error).  The context switch itself and   *)
(* the scheduler are not in this file: the switch is what the comment of   *)
(* lines 55-57 says it pops, the scheduler is the environment.             *)
EXTENDS Integers, Sequences, FiniteSets

CONSTANTS
    Threads,        \* the phantom_thread_t structures
    NoThread,       \* no thread yet: the boot code runs
    StackWords      \* t->stack_size in words, of every thread

ASSUME StackWords \in Nat

F_BIT == "F"
I_BIT == "I"
phantom_thread_trampoline == "phantom_thread_trampoline"
k0_emergncy_stack == "k0_emergncy_stack"

\* A word of a stack or a register: what it holds, and of which thread.
Word(kind, t) == <<kind, t>>
Zero == Word("zero", NoThread)
Junk == Word("junk", NoThread)
Words == {Zero, Junk} \cup ({"t", "start_func_arg", "start_func"} \X Threads)

VARIABLES
    pc,             \* where each thread is on its way from structure to death
    cpu,            \* t->cpu: sp, fp, lr, cpsr
    mem,            \* the words of t->stack, word 0 lowest
    curr,           \* GET_CURRENT_THREAD()
    regs,           \* r4 .. r12 of the processor
    sp_reg,         \* its stack pointer, a word of mem[curr]
    cpsr_reg,       \* the mask bits of its status register
    schedlock,      \* taken by the thread switch, given back by the starter
    curr_thread_k0_stack_top

vars == <<pc, cpu, mem, curr, regs, sp_reg, cpsr_reg, schedlock,
          curr_thread_k0_stack_top>>

----------------------------------------------------------------------------
(* Variants of the definitions below, as a slip in the code would make them *)

\* one word of the zero frame is not pushed
StartFrameShort(t) ==
    <<Zero, Zero, Zero, Zero,
      Word("t", t), Word("start_func_arg", t), Word("start_func", t),
      Zero, Zero, Zero,
      Word("t", t), Word("start_func_arg", t), Word("start_func", t)>>

\* the creator's status register is taken as it is
StartCpsrAsIs(my_cpsr) == my_cpsr

\* the stack size is added as bytes to a pointer to words
StackTopScaled == 4 * StackWords

----------------------------------------------------------------------------
\* "t->stack + t->stack_size", as a word of the stack: one past the last.
StackTop == StackWords

\* The words the STACK_PUSH lines push, in their order.
StartFrame(t) ==
    <<Zero, Zero, Zero, Zero, Zero,
      Word("t", t), Word("start_func_arg", t), Word("start_func", t),
      Zero, Zero, Zero,
      Word("t", t), Word("start_func_arg", t), Word("start_func", t)>>

\* "my_cpsr|F_BIT|I_BIT"
StartCpsr(my_cpsr) == my_cpsr \cup {F_BIT, I_BIT}

\* STACK_PUSH of the words of frame from word top downwards: the stack after
\* it.  A word pushed below the stack is written outside of it and lost here.
Pushed(stack, top, frame) ==
    [a \in DOMAIN stack |->
        IF top - a \in 1 .. Len(frame) THEN frame[top - a] ELSE stack[a]]

\* "pop {r4-r12}" of the context switch, 9 registers, lowest word first.
PopR4toR12(stack, sp) == [r \in 4 .. 12 |-> stack[sp + (r - 4)]]

\* The thread structure is filled; the creator, with whatever mask it runs
\* under, makes it ready to switch to.
phantom_thread_state_init(t) ==
    /\ pc[t] = "filled"
    /\ curr \in Threads => pc[curr] = "running"
    /\ cpu' = [cpu EXCEPT ![t] = [sp   |-> StackTop - Len(StartFrame(t)),
                                  fp   |-> 0,
                                  lr   |-> phantom_thread_trampoline,
                                  cpsr |-> StartCpsr(cpsr_reg)]]
    /\ mem' = [mem EXCEPT ![t] = Pushed(@, StackTop, StartFrame(t))]
    /\ pc' = [pc EXCEPT ![t] = "ready"]
    /\ UNCHANGED <<curr, regs, sp_reg, cpsr_reg, schedlock, curr_thread_k0_stack_top>>

\* "curr_thread_k0_stack_top = (addr_t)t->kstack_top"
arch_adjust_after_thread_switch(t) == curr_thread_k0_stack_top' = t

\* phantom_thread_c_starter(), entered from the trampoline: the thread is
\* taken from GET_CURRENT_THREAD(), the arguments in r4-r6 are not used.
starter_unlock(t) ==
    /\ curr = t /\ pc[t] = "trampoline"
    /\ schedlock' = FALSE
    /\ pc' = [pc EXCEPT ![t] = "unlocked"]
    /\ UNCHANGED <<cpu, mem, curr, regs, sp_reg, cpsr_reg, curr_thread_k0_stack_top>>

starter_adjust(t) ==
    /\ curr = t /\ pc[t] = "unlocked"
    /\ arch_adjust_after_thread_switch(t)
    /\ pc' = [pc EXCEPT ![t] = "adjusted"]
    /\ UNCHANGED <<cpu, mem, curr, regs, sp_reg, cpsr_reg, schedlock>>

\* hal_sti(), then func(arg) runs
starter_sti(t) ==
    /\ curr = t /\ pc[t] = "adjusted"
    /\ cpsr_reg' = cpsr_reg \ {I_BIT}
    /\ pc' = [pc EXCEPT ![t] = "running"]
    /\ UNCHANGED <<cpu, mem, curr, regs, sp_reg, schedlock, curr_thread_k0_stack_top>>

\* func(arg) returns: t_kill_thread()
starter_kill(t) ==
    /\ curr = t /\ pc[t] = "running"
    /\ pc' = [pc EXCEPT ![t] = "dead"]
    /\ UNCHANGED <<cpu, mem, curr, regs, sp_reg, cpsr_reg, schedlock, curr_thread_k0_stack_top>>

phantom_thread_c_starter(t) ==
    starter_unlock(t) \/ starter_adjust(t) \/ starter_sti(t) \/ starter_kill(t)

----------------------------------------------------------------------------
(* The environment: the scheduler and the context switch                    *)

\* The scheduler runs in the boot code, in a thread it interrupts and in one
\* that died.
MaySwitch == curr \in Threads => pc[curr] \in {"running", "dead"}

\* Thread t goes on at label to; the thread that ran is left preempted.
SwitchedTo(t, to) ==
    [u \in Threads |-> IF u = t THEN to
                       ELSE IF u = curr /\ pc[u] = "running" THEN "preempted"
                       ELSE pc[u]]

\* The first switch to t, under schedlock: the stack pointer of t->cpu, the
\* pop, the return to t->cpu.lr.  Whether the switch loads t->cpu.cpsr or
\* leaves its own mask is not told by this file: both.
switch_to_new(t) ==
    /\ MaySwitch
    /\ pc[t] = "ready" /\ cpu[t].lr = phantom_thread_trampoline
    /\ schedlock' = TRUE
    /\ curr' = t
    /\ regs' = PopR4toR12(mem[t], cpu[t].sp)
    /\ sp_reg' = cpu[t].sp + 9
    /\ cpsr_reg' \in {cpu[t].cpsr, cpsr_reg \cup {I_BIT}}
    /\ pc' = SwitchedTo(t, "trampoline")
    /\ UNCHANGED <<cpu, mem, curr_thread_k0_stack_top>>

\* The switch back to a thread that ran before: its own return path adjusts
\* the stack top and turns the interrupts on.
switch_back(t) ==
    /\ MaySwitch
    /\ pc[t] = "preempted"
    /\ curr' = t
    /\ arch_adjust_after_thread_switch(t)
    /\ cpsr_reg' = cpsr_reg \ {I_BIT}
    /\ pc' = SwitchedTo(t, "running")
    /\ UNCHANGED <<cpu, mem, regs, sp_reg, schedlock>>

\* The structure of a dead thread is filled for a new one; the stack keeps
\* what the old one left in it.
reuse(t) ==
    /\ pc[t] = "dead" /\ curr # t
    /\ pc' = [pc EXCEPT ![t] = "filled"]
    /\ UNCHANGED <<cpu, mem, curr, regs, sp_reg, cpsr_reg, schedlock,
                   curr_thread_k0_stack_top>>

----------------------------------------------------------------------------
Init ==
    /\ pc = [t \in Threads |-> "filled"]
    /\ cpu = [t \in Threads |-> [sp |-> 0, fp |-> 0, lr |-> "none", cpsr |-> {}]]
    /\ mem = [t \in Threads |-> [a \in 0 .. StackWords - 1 |-> Junk]]
    /\ curr = NoThread
    /\ regs = [r \in 4 .. 12 |-> Junk]
    /\ sp_reg = 0
    /\ cpsr_reg \in SUBSET {F_BIT, I_BIT}
    /\ schedlock = FALSE
    /\ curr_thread_k0_stack_top = k0_emergncy_stack

Next ==
    \E t \in Threads :
        \/ phantom_thread_state_init(t)
        \/ phantom_thread_c_starter(t)
        \/ switch_to_new(t)
        \/ switch_back(t)
        \/ reuse(t)

Spec == Init /\ [][Next]_vars

----------------------------------------------------------------------------
(* Properties *)

TypeOK ==
    /\ pc \in [Threads -> {"filled", "ready", "trampoline", "unlocked", "adjusted",
                           "running", "preempted", "dead"}]
    /\ cpu \in [Threads -> [sp : 0 .. StackWords, fp : {0},
                            lr : {"none", phantom_thread_trampoline},
                            cpsr : SUBSET {F_BIT, I_BIT}]]
    /\ mem \in [Threads -> [0 .. StackWords - 1 -> Words]]
    /\ curr \in Threads \cup {NoThread}
    /\ regs \in [4 .. 12 -> Words]
    /\ sp_reg \in 0 .. StackWords
    /\ cpsr_reg \subseteq {F_BIT, I_BIT}
    /\ schedlock \in BOOLEAN
    /\ curr_thread_k0_stack_top \in Threads \cup {k0_emergncy_stack}

\* The frame phantom_thread_state_init() pushes is the one the first switch
\* pops: a thread enters the trampoline with start_func, start_func_arg and t
\* in r4, r5 and r6 as the STACK_PUSH lines are labelled, no register of
\* r4-r12 holds what was in the stack before, and the stack pointer is left
\* at the five zero words up to the top of the stack that end a stack trace,
\* also when the structure and its stack were used by a thread before.
StartFrameIsWhatSwitchPops ==
    \A t \in Threads :
        pc[t] = "trampoline" =>
            /\ regs[4] = Word("start_func", t)
            /\ regs[5] = Word("start_func_arg", t)
            /\ regs[6] = Word("t", t)
            /\ \A r \in 7 .. 12 : regs[r] # Junk
            /\ sp_reg = StackTop - 5
            /\ \A a \in sp_reg .. StackTop - 1 : mem[t][a] = Zero

\* An interrupt is taken only when the trap entry code finds the kernel stack
\* of the thread that runs and the scheduler lock is free: from the first
\* switch to a thread until phantom_thread_c_starter() has called
\* arch_adjust_after_thread_switch(), curr_thread_k0_stack_top is that of
\* the thread before, and it is the I_BIT phantom_thread_state_init() puts
\* into t->cpu.cpsr, under whatever mask the creator runs, and the hal_sti()
\* after the adjustment that keep interrupts out of these steps.
InterruptsOnMeansSetUp ==
    I_BIT \notin cpsr_reg =>
        /\ ~ schedlock
        /\ curr_thread_k0_stack_top =
               IF curr = NoThread THEN k0_emergncy_stack ELSE curr

=============================================================================
