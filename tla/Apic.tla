-------------------------------- MODULE Apic --------------------------------
(***************************************************************************)
(* The local APIC support of src/oldtree/kernel/phantom/i386/apic.c: the   *)
(* part of the file that is compiled, lines 37 to 268.  What follows in    *)
(* the file is inside "#if 0" and is no part of the kernel.                *)
(*                                                                         *)
(* One processor.  phantom_init_apic() runs once at boot.  After it the    *)
(* unit delivers vectors, and each delivery is one invocation of           *)
(* hal_APIC_interrupt_dispatcher() on the processor's stack.  An           *)
(* invocation is entered with interrupts off.  It can itself be            *)
(* interrupted at two places only, both of them calls out of the file:     *)
(* inside call_irq_handler() and inside hal_softirq_dispatcher().  The     *)
(* variable "stack" holds the invocations that stand at one of these two   *)
(* places, innermost last; everything between them is one step.            *)
(*                                                                         *)
(* Vectors are written relative to APIC_INT_BASE, as the dispatcher        *)
(* receives them.  irq_nest is an int that holds a nesting count and two   *)
(* flag bits; here it is a record of the three.  The flags, the macros on  *)
(* them and the unit's own behaviour (in-service vectors, the error latch, *)
(* the delivery status of the command register) are not code of the file   *)
(* and are written from what the file's use of them says.                  *)
(***************************************************************************)
EXTENDS Integers, Sequences, SequencesExt, FiniteSetsExt

CONSTANTS
    DeviceVectors,  \* vectors the devices raise, all below APIC_ICI_VECTOR
    ErrorBits,      \* the conditions the unit reports in error_status
    UnitIds,        \* contents the register unit_id can have (32 bits)
    MaxNest         \* bound: invocations of the dispatcher on the stack

APIC_SPURIOUS_VECTOR == 31
APIC_TIMER_VECTOR    == 30
APIC_ERROR_VECTOR    == 29
APIC_ICI_VECTOR      == 28

LocalVectors == {APIC_ICI_VECTOR, APIC_ERROR_VECTOR, APIC_TIMER_VECTOR}
Vectors      == DeviceVectors \cup LocalVectors \cup {APIC_SPURIOUS_VECTOR}

ASSUME
    /\ DeviceVectors \subseteq 0 .. APIC_ICI_VECTOR - 1
    /\ \A u \in UnitIds : u \in Nat /\ u \div 2^24 < 2^8
    /\ MaxNest \in Nat \ {0}

VARIABLES
    boot,             \* "cold", then "up", "no_apic" or "panic"
    have_apic,        \* static int have_apic
    apic_local_unit,  \* the pointer: NULL, or the page the unit is mapped at
    apic_base_msr,    \* the register APIC_BASE_MSR
    unit,             \* the registers of the unit the file reads and writes
    in_service,       \* vectors delivered and not yet ended by an EOI
    error_pending,    \* conditions detected since error_status was written
    irq_nest,         \* the nesting count and the two soft IRQ flags
    stack             \* invocations of the dispatcher, innermost last

hardware == <<apic_base_msr, unit, in_service, error_pending>>
statics  == <<have_apic, apic_local_unit>>
vars     == <<boot, statics, hardware, irq_nest, stack>>

NULL      == "NULL"
UnitPage  == "FEE00000"

IrqNest  == [count : 0 .. MaxNest, disabled : BOOLEAN, not_pending : BOOLEAN]
Frame    == [vector : Vectors, pc : {"handler", "softirq"}]
Command  == [vector : {0, APIC_ICI_VECTOR}, dest : {"field", "all_but_self"},
             status : {"idle", "pending"}]
Spurious == [vector : {0, APIC_SPURIOUS_VECTOR}, flags : SUBSET {"SWEN", "FOCUS"}]
Unit     == [unit_id : UnitIds, error_vector : {0, APIC_ERROR_VECTOR},
             spurious_vector : Spurious, error_status : SUBSET ErrorBits,
             int_command : Command]

\* "if(irq_nest)": the count or either flag is set.
Nonzero(n) == n.count # 0 \/ n.disabled \/ n.not_pending

REQUEST_SOFT_IRQ(n) == [n EXCEPT !.not_pending = FALSE]
ENABLE_SOFT_IRQ(n)  == [n EXCEPT !.disabled = FALSE]

\* SOFT_IRQ_DISABLED|SOFT_IRQ_NOT_PENDING
SoftIrqWindow == [count |-> 0, disabled |-> TRUE, not_pending |-> TRUE]

HandlerFrames == {i \in DOMAIN stack : stack[i].pc = "handler"}
SoftIrqFrames == {i \in DOMAIN stack : stack[i].pc = "softirq"}

-----------------------------------------------------------------------------
(* Variants with one slip each; no action uses them.                       *)

\* the four-bit mask is missing
GET_CPU_ID_unmasked ==
    IF have_apic = 1 THEN unit.unit_id \div 2^24 ELSE 0

\* the spurious case leaves the switch with "break" and meets apic_eoi()
spurious_with_eoi(v) ==
    /\ v = APIC_SPURIOUS_VECTOR
    /\ in_service' = in_service \ {Max(in_service \cup {-1})}
    /\ UNCHANGED <<boot, statics, apic_base_msr, unit, error_pending, irq_nest, stack>>

\* soft IRQs are dispatched without irq_nest being set for the time
finish_unmarked(isr, nest, below, v) ==
    /\ in_service' = isr \ {Max(isr \cup {-1})}
    /\ irq_nest' = nest
    /\ stack' = IF Nonzero(nest) THEN below
                                 ELSE Append(below, [vector |-> v, pc |-> "softirq"])

\* irq_nest is not counted down after the handler
irq_nest_after_handler_kept(n) == n

\* ENABLE_SOFT_IRQ() is missing after hal_softirq_dispatcher()
softirq_done_still_disabled ==
    /\ stack # <<>> /\ Last(stack).pc = "softirq"
    /\ stack' = Front(stack)
    /\ UNCHANGED <<boot, statics, hardware, irq_nest>>

-----------------------------------------------------------------------------
Init ==
    /\ boot = "cold"
    /\ have_apic = 0
    /\ apic_local_unit = NULL
    /\ apic_base_msr \in {[base |-> UnitPage, flags |-> {"BSP", "EN"}],
                          [base |-> "moved",  flags |-> {"BSP"}]}
    /\ unit \in {u \in Unit : /\ u.error_vector = 0 /\ u.error_status = {}
                              /\ u.spurious_vector = [vector |-> 0, flags |-> {}]
                              /\ u.int_command =
                                    [vector |-> 0, dest |-> "field", status |-> "idle"]}
    /\ in_service = {}
    /\ error_pending = {}
    /\ irq_nest = [count |-> 0, disabled |-> FALSE, not_pending |-> TRUE]
    /\ stack = <<>>

\* The low twelve bits are kept, the unit is put at 0xFEE00000 and enabled.
relocate_apic(msr) == [base |-> UnitPage, flags |-> msr.flags \cup {"EN"}]

\* The error vector is set, and the unit is enabled by software.
phantom_setup_apic(u) ==
    [u EXCEPT !.error_vector = APIC_ERROR_VECTOR,
              !.spurious_vector = [vector |-> APIC_SPURIOUS_VECTOR,
                                   flags  |-> {"SWEN", "FOCUS"}]]

\* has_flag: ARCH_HAS_FLAG(ARCH_IA32_APIC); rc: what hal_alloc_vaddress() returns.
phantom_init_apic(has_flag, rc) ==
    /\ boot = "cold"
    /\ \/ /\ ~ has_flag
          /\ boot' = "no_apic"
          /\ UNCHANGED <<statics, apic_base_msr, unit>>
       \/ /\ has_flag /\ rc # 0
          /\ boot' = "panic"
          /\ UNCHANGED <<statics, apic_base_msr, unit>>
       \/ /\ has_flag /\ rc = 0
          /\ apic_local_unit' = UnitPage
          /\ apic_base_msr' = relocate_apic(apic_base_msr)
          /\ have_apic' = 1
          /\ unit' = phantom_setup_apic(unit)
          /\ boot' = "up"
    /\ UNCHANGED <<in_service, error_pending, irq_nest, stack>>

GET_CPU_ID ==
    IF have_apic = 1 THEN (unit.unit_id \div 2^24) % 16 ELSE 0

\* The write of 0 ends the highest vector in service, if there is one.
apic_eoi(isr) == isr \ {Max(isr \cup {-1})}

\* phantom_scheduler_time_interrupt() may ask for a soft IRQ.
apic_timer(n, request) == IF request THEN REQUEST_SOFT_IRQ(n) ELSE n

\* The write makes the unit show what it detected; the read fetches it.
apic_err(u) == [u EXCEPT !.error_status = error_pending]

\* The unit is enabled, the processor takes interrupts, and v has priority
\* over what is in service.  A spurious vector is not subject to priority.
Deliverable(v) ==
    /\ boot = "up"
    /\ "EN" \in apic_base_msr.flags /\ "SWEN" \in unit.spurious_vector.flags
    /\ Len(stack) < MaxNest
    /\ v # APIC_SPURIOUS_VECTOR => \A w \in in_service : v > w
    /\ v = APIC_ERROR_VECTOR =>
          unit.error_vector = APIC_ERROR_VECTOR /\ error_pending # {}

\* From apic_eoi() to the end: leave when irq_nest is not 0, else mark the
\* soft IRQ window and enter hal_softirq_dispatcher().
finish(isr, nest, below, v) ==
    /\ in_service' = apic_eoi(isr)
    /\ IF Nonzero(nest)
          THEN irq_nest' = nest /\ stack' = below
          ELSE /\ irq_nest' = SoftIrqWindow
               /\ stack' = Append(below, [vector |-> v, pc |-> "softirq"])

\* "return; // NB! No EOI!"
spurious(v) ==
    /\ v = APIC_SPURIOUS_VECTOR
    /\ UNCHANGED vars

\* The three vectors of the unit itself: their handlers run to the end.
local_vector(v) ==
    /\ \/ /\ v = APIC_ERROR_VECTOR
          /\ unit' = apic_err(unit)
          /\ error_pending' = {}
          /\ finish(in_service \cup {v}, irq_nest, stack, v)
       \/ /\ v = APIC_ICI_VECTOR
          /\ finish(in_service \cup {v}, irq_nest, stack, v)
          /\ UNCHANGED <<unit, error_pending>>
       \/ /\ v = APIC_TIMER_VECTOR
          /\ \E request \in BOOLEAN :
                finish(in_service \cup {v}, apic_timer(irq_nest, request), stack, v)
          /\ UNCHANGED <<unit, error_pending>>
    /\ UNCHANGED <<boot, statics, apic_base_msr>>

\* "default:" up to the call of the handler.
device_vector(v) ==
    /\ v \in DeviceVectors
    /\ irq_nest' = [irq_nest EXCEPT !.count = @ + 1]
    /\ stack' = Append(stack, [vector |-> v, pc |-> "handler"])
    /\ in_service' = in_service \cup {v}
    /\ UNCHANGED <<boot, statics, apic_base_msr, unit, error_pending>>

hal_APIC_interrupt_dispatcher(v) ==
    /\ Deliverable(v)
    /\ spurious(v) \/ local_vector(v) \/ device_vector(v)

irq_nest_after_handler(n) == [n EXCEPT !.count = @ - 1]

\* call_irq_handler() returns: "irq_nest--" and the rest of the dispatcher.
irq_handler_done ==
    /\ stack # <<>> /\ Last(stack).pc = "handler"
    /\ finish(in_service, irq_nest_after_handler(irq_nest), Front(stack),
              Last(stack).vector)
    /\ UNCHANGED <<boot, statics, apic_base_msr, unit, error_pending>>

\* hal_softirq_dispatcher() returns: ENABLE_SOFT_IRQ() and the return.
softirq_done ==
    /\ stack # <<>> /\ Last(stack).pc = "softirq"
    /\ irq_nest' = ENABLE_SOFT_IRQ(irq_nest)
    /\ stack' = Front(stack)
    /\ UNCHANGED <<boot, statics, hardware>>

\* Interrupts are off from hal_save_cli() to the end: one step.  The command
\* is written whether or not the one before it has been accepted, and the
\* pointer is followed whether or not phantom_init_apic() has set it.
phantom_smp_send_broadcast_ici ==
    /\ boot # "panic"
    /\ \/ /\ apic_local_unit = NULL
          /\ boot' = "panic"
          /\ UNCHANGED unit
       \/ /\ apic_local_unit # NULL
          /\ unit' = [unit EXCEPT !.int_command = [vector |-> APIC_ICI_VECTOR,
                                                   dest   |-> "all_but_self",
                                                   status |-> "pending"]]
          /\ UNCHANGED boot
    /\ UNCHANGED <<statics, apic_base_msr, in_service, error_pending,
                   irq_nest, stack>>

-----------------------------------------------------------------------------
(* What the unit and the rest of the kernel do.                            *)

\* The other processors have accepted the interrupt.
ici_accepted ==
    /\ unit.int_command.status = "pending"
    /\ unit' = [unit EXCEPT !.int_command.status = "idle"]
    /\ UNCHANGED <<boot, statics, apic_base_msr, in_service, error_pending,
                   irq_nest, stack>>

\* The unit detects an error condition.
error_detected(e) ==
    /\ boot = "up" /\ e \notin error_pending
    /\ error_pending' = error_pending \cup {e}
    /\ UNCHANGED <<boot, statics, apic_base_msr, unit, in_service, irq_nest, stack>>

\* A handler, a soft IRQ or a thread asks for a soft IRQ.
request_soft_irq ==
    /\ boot = "up" /\ irq_nest.not_pending
    /\ irq_nest' = REQUEST_SOFT_IRQ(irq_nest)
    /\ UNCHANGED <<boot, statics, hardware, stack>>

Next ==
    \/ \E has_flag \in BOOLEAN, rc \in {0, 1} : phantom_init_apic(has_flag, rc)
    \/ \E v \in Vectors : hal_APIC_interrupt_dispatcher(v)
    \/ irq_handler_done
    \/ softirq_done
    \/ phantom_smp_send_broadcast_ici
    \/ ici_accepted
    \/ \E e \in ErrorBits : error_detected(e)
    \/ request_soft_irq

\* The invocation at depth d goes on.
Return(d) == Len(stack) = d /\ (irq_handler_done \/ softirq_done)

(* Handlers and soft IRQs end, also when interrupts keep nesting into them *)
(* (interrupts come at a finite rate), and devices go on to interrupt.     *)
Fairness ==
    /\ \A d \in 1 .. MaxNest : SF_vars(Return(d))
    /\ WF_vars(\E v \in Vectors \ {APIC_SPURIOUS_VECTOR} :
                  hal_APIC_interrupt_dispatcher(v))

Spec == Init /\ [][Next]_vars /\ Fairness

-----------------------------------------------------------------------------
TypeOK ==
    /\ boot \in {"cold", "up", "no_apic", "panic"}
    /\ have_apic \in {0, 1}
    /\ apic_local_unit \in {NULL, UnitPage}
    /\ apic_base_msr \in [base : {UnitPage, "moved"}, flags : SUBSET {"BSP", "EN"}]
    /\ unit \in Unit
    /\ in_service \subseteq Vectors \ {APIC_SPURIOUS_VECTOR}
    /\ error_pending \subseteq ErrorBits
    /\ irq_nest \in IrqNest
    /\ stack \in Seq(Frame) /\ Len(stack) <= MaxNest
    /\ GET_CPU_ID \in 0 .. 15

(* Every vector the unit delivered is ended by exactly one EOI, written    *)
(* when its handler is through, and a spurious vector by none: the vectors *)
(* in service are those whose handlers are running.  An EOI too many in    *)
(* hal_APIC_interrupt_dispatcher() would end the interrupted handler's     *)
(* vector and let its device interrupt its own handler.                    *)
InServiceMatchesHandlers ==
    in_service = {stack[i].vector : i \in HandlerFrames}

(* hal_softirq_dispatcher() is entered from the outermost invocation only  *)
(* and is never entered again while it runs, whatever interrupts nest into *)
(* it or into a handler: the "if(irq_nest) return" of the dispatcher and   *)
(* the value it gives irq_nest before the call see to it.                  *)
SoftIrqAtBaseOnly ==
    SoftIrqFrames \subseteq {1}

(* irq_nest says what is on the stack: its count is the number of handlers *)
(* in progress and its disabled flag is set exactly while soft IRQs run.   *)
(* The dispatcher writes irq_nest as a whole at one place and counts it up *)
(* and down at two others.                                                 *)
IrqNestDescribesStack ==
    /\ irq_nest.count = Cardinality(HandlerFrames)
    /\ irq_nest.disabled <=> SoftIrqFrames # {}

(* A soft IRQ that was asked for is dispatched: from the invocation that   *)
(* is running, or from the next one that ends with irq_nest at 0.          *)
PendingSoftIrqRuns ==
    ~ irq_nest.not_pending ~> SoftIrqFrames # {}

=============================================================================
