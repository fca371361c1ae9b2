------------------------------ MODULE Ps2Mouse ------------------------------
(***************************************************************************)
(* The PS/2 mouse driver of src/oldtree/kernel/phantom/ps2.c.              *)
(*                                                                         *)
(* Three actors share the driver's statics: the probe code of the boot     *)
(* thread, the interrupt handler, which assembles three-byte packets into  *)
(* events and puts them into a ring, and the thread "MouEvents", which     *)
(* sleeps on a counting semaphore, drains the ring and passes events on,   *)
(* leaving out an event when the next one shows the same buttons.          *)
(* put_buf(), get_buf() and peek_buf() each run under the spin lock elock  *)
(* with interrupts off and are one step each; between them the handler     *)
(* and the thread interleave freely.                                       *)
(*                                                                         *)
(* An event is its buttons and its position; time stamp, type and focus    *)
(* play no part in what the driver decides.  video_drv is taken to be set. *)
(***************************************************************************)
EXTENDS Integers, Sequences, SequencesExt, Bitwise

CONSTANTS
    MAX_EVENTS,     \* slots of the ring (64 in the source)
    InBytes,        \* the byte values the controller delivers, in 0 .. 255
    XSize, YSize,   \* video_drv->xsize, video_drv->ysize
    PurgeTries,     \* "int tries" of ps2ms_do_init() (10000 in the source)
    MaxPackets,     \* bound: complete packets the mouse sends
    MaxProbes       \* bound: calls of driver_isa_ps2m_probe()

ASSUME
    /\ MAX_EVENTS \in Nat /\ MAX_EVENTS >= 2
    /\ InBytes \subseteq 0 .. 255
    /\ XSize \in Nat /\ YSize \in Nat
    /\ PurgeTries \in Nat /\ MaxPackets \in Nat /\ MaxProbes \in Nat

VARIABLES
    ebuf, put_pos, get_pos,     \* the ring
    mouse_sem,                  \* count of the semaphore
    inbytepos,                  \* position inside the packet
    ps2ms_state_buttons, ps2ms_state_xpos, ps2ms_state_ypos,
    xsign, ysign, xval, yval,
    seq_number,                 \* devices created by the probe
    probe_pc,                   \* where the boot thread is inside the probe
    tries,                      \* "int tries" of ps2ms_do_init()
    obf,                        \* the controller's byte for the processor
    outq,                       \* the bytes the controller has yet to present
    inreg,                      \* the byte written and not yet taken
    ctl_cmd,                    \* the control word the controller took last
    aux_silent,                 \* the mouse took a command and does not answer
    int_pc,                     \* "release" between put_buf() and hal_sem_release()
    thr_pc,                     \* where the event thread is in its loop
    e,                          \* the event the thread took with get_buf()
    npackets, nprobes,          \* counters for the two bounds
    acceptedB, deliveredB,      \* history: button states put / passed on, changes only
    lastAccepted, lastDelivered \* history: last event put / passed on

ring    == <<ebuf, put_pos, get_pos>>
packet  == <<inbytepos, ps2ms_state_buttons, ps2ms_state_xpos, ps2ms_state_ypos,
             xsign, ysign, xval, yval>>
history == <<acceptedB, deliveredB, lastAccepted, lastDelivered>>
probe   == <<probe_pc, tries>>
ctl     == <<obf, outq, inreg, ctl_cmd, aux_silent>>
vars    == <<ring, mouse_sem, packet, seq_number, int_pc, thr_pc, e,
             npackets, nprobes, history, probe, ctl>>

ENXIO == 6

\* What goes through the two ports: control words, data words, answers, and
\* Stray for any byte that was on its way before the probe.
PS2_CTRL_WRITE_CMD   == "WRITE_CMD"
PS2_CTRL_WRITE_AUX   == "WRITE_AUX"
PS2_CMD_DEV_INIT     == "DEV_INIT"
PS2_CMD_ENABLE_MOUSE == "ENABLE_MOUSE"
PS2_RES_ACK          == "ACK"
PS2_RES_RESEND       == "RESEND"
Stray                == "stray"
NoByte               == "none"
NoWrite              == [port |-> "none", val |-> NoByte]

Event     == [buttons : 0 .. 7, abs_x : 0 .. XSize, abs_y : 0 .. YSize]
ZeroEvent == [buttons |-> 0, abs_x |-> 0, abs_y |-> 0]

\* A sequence without its immediate repetitions.
Compress(s) ==
    FoldLeft(LAMBDA acc, b : IF acc # <<>> /\ Last(acc) = b THEN acc
                                                           ELSE Append(acc, b),
             <<>>, s)

-----------------------------------------------------------------------------
(* Variants with one slip each; no action uses them.                       *)

\* the second clause of the overflow test is missing
RingFullNoWrapCase(put, get) == put = get - 1

\* the upper limit is not applied
ClampLowOnly(v, size) == IF v < 0 THEN 0 ELSE v

\* the buttons are not compared: any next event replaces the current one
ThrowAwayAnyNext(have, e1, cur) == have

\* the current event is passed on only when a different one follows
ThrowAwayUnlessChange(have, e1, cur) == ~ have \/ e1.buttons = cur.buttons

\* the handler returns without hal_sem_release()
SemKept(s) == s

\* the data byte is written without waiting for the control word to be taken
wait_write_data_skipped == TRUE

\* the "#if 0" branch of insert_bit9(): the signed char as it is
insert_bit9_as_is(val, sign) == val

-----------------------------------------------------------------------------
(* Helpers                                                                 *)

\* The overflow test of put_buf().
RingFull(put, get) == put = get - 1 \/ (get = 0 /\ put = MAX_EVENTS - 1)

\* "if( pos >= MAX_EVENTS ) pos = 0;"
Wrap(pos) == IF pos >= MAX_EVENTS THEN 0 ELSE pos

\* "signed char mousedata = inb( PS2_DATA_ADDR )"
SignedChar(b) == IF b > 127 THEN b - 256 ELSE b

\* insert_bit9(): the low eight bits of val, with every higher bit set when
\* sign is not 0.
insert_bit9(val, sign) ==
    LET low == val % 256
    IN  IF sign # 0 THEN low - 256 ELSE low

\* The four limit tests of the handler on one axis.
Clamp(v, size) == IF v < 0 THEN 0 ELSE IF v > size THEN size ELSE v

\* The test of the thread's loop: "we already have one more event and buttons
\* state is the same? Throw away current event".
ThrowAway(have, e1, cur) == have /\ e1.buttons = cur.buttons

\* hal_sem_release( &mouse_sem )
SemReleased(s) == s + 1

\* inb( PS2_CTRL_ADDR ): bit 0 says that the controller holds a byte for the
\* processor, bit 1 that it has not yet taken the byte written last.
Status == (IF obf # NoByte THEN 1 ELSE 0) + (IF inreg # NoWrite THEN 2 ELSE 0)

\* What each of the three spin loops waits for.
ps2ms_get_data  == (Status & 1) # 0
wait_write_data == (Status & 2) = 0
wait_write_ctrl == (Status & 3) = 0

\* "tries-- > 0 && inb( PS2_CTRL_ADDR ) & 0x01" is false: the purge is over.
PurgeOver == tries <= 0 \/ (Status & 1) = 0

\* peek_buf(): whether the ring holds an event, and the oldest one.
peek_buf == [ret |-> get_pos # put_pos, e |-> ebuf[get_pos]]

\* The events between get_pos and put_pos, oldest first.
RingContents ==
    [i \in 1 .. (put_pos - get_pos) % MAX_EVENTS |->
        ebuf[(get_pos + i - 1) % MAX_EVENTS]]

-----------------------------------------------------------------------------
Init ==
    /\ ebuf = [i \in 0 .. MAX_EVENTS - 1 |-> ZeroEvent]
    /\ put_pos = 0 /\ get_pos = 0
    /\ mouse_sem = 0
    /\ inbytepos = 0
    /\ ps2ms_state_buttons = 0 /\ ps2ms_state_xpos = 0 /\ ps2ms_state_ypos = 0
    /\ xsign = 0 /\ ysign = 0 /\ xval = 0 /\ yval = 0
    /\ seq_number = 0
    /\ probe_pc = "idle" /\ tries = 0
    /\ obf = NoByte /\ inreg = NoWrite /\ ctl_cmd = NoByte /\ aux_silent = FALSE
    /\ outq \in {[i \in 1 .. n |-> Stray] : n \in 0 .. PurgeTries}
    /\ int_pc = "idle" /\ thr_pc = "acquire" /\ e = ZeroEvent
    /\ npackets = 0 /\ nprobes = 0
    /\ acceptedB = <<>> /\ deliveredB = <<>>
    /\ lastAccepted = ZeroEvent /\ lastDelivered = ZeroEvent

\* driver_isa_ps2m_probe() up to the purge loop: the semaphore and the lock
\* are initialised before seq_number is looked at, and a call that finds a
\* device returns at once.
driver_isa_ps2m_probe ==
    /\ probe_pc = "idle" /\ nprobes < MaxProbes
    /\ nprobes' = nprobes + 1
    /\ mouse_sem' = 0
    /\ probe_pc' = IF seq_number # 0 THEN "idle" ELSE "purge"
    /\ tries' = IF seq_number # 0 THEN 0 ELSE PurgeTries
    /\ UNCHANGED <<ring, packet, seq_number, int_pc, thr_pc, e, npackets,
                   history, ctl>>

\* The end of ps2ms_do_init() and of the probe: with rc = 0 the handler is
\* installed, the device made and the event thread started.
probe_return(rc) ==
    /\ probe_pc' = "idle" /\ tries' = 0
    /\ seq_number' = IF rc = 0 THEN seq_number + 1 ELSE seq_number

\* One test of the purge loop with its body, and "if( tries <= 0 )" when the
\* loop is left: the test that leaves the loop spends a try as well.
ps2ms_purge ==
    /\ probe_pc = "purge"
    /\ \/ /\ ~ PurgeOver
          /\ obf' = NoByte
          /\ tries' = tries - 1
          /\ UNCHANGED <<probe_pc, seq_number>>
       \/ /\ PurgeOver /\ tries - 1 > 0
          /\ probe_pc' = "cmd_ctrl" /\ tries' = tries - 1
          /\ UNCHANGED <<obf, seq_number>>
       \/ /\ PurgeOver /\ tries - 1 <= 0
          /\ probe_return(ENXIO)
          /\ UNCHANGED obf
    /\ UNCHANGED <<ring, mouse_sem, packet, int_pc, thr_pc, e, npackets, nprobes,
                   history, outq, inreg, ctl_cmd, aux_silent>>

\* outb( port, val ) of the probe at `at`, once the spin loop before it is
\* through.
Send(at, through, port, val, to) ==
    /\ probe_pc = at /\ through
    /\ inreg' = [port |-> port, val |-> val]
    /\ probe_pc' = to
    /\ UNCHANGED <<ring, mouse_sem, packet, seq_number, int_pc, thr_pc, e,
                   npackets, nprobes, history, tries, obf, outq, ctl_cmd,
                   aux_silent>>

ps2ms_send_cmd ==
    \/ Send("cmd_ctrl", wait_write_ctrl, "ctrl", PS2_CTRL_WRITE_CMD, "cmd_data")
    \/ Send("cmd_data", wait_write_data, "data", PS2_CMD_DEV_INIT, "aux_ctrl")

ps2ms_send_aux ==
    \/ Send("aux_ctrl", wait_write_ctrl, "ctrl", PS2_CTRL_WRITE_AUX, "aux_data")
    \/ Send("aux_data", wait_write_data, "data", PS2_CMD_ENABLE_MOUSE, "ack")

\* ps2ms_aux_wait_ack() and what the probe does with the answer: whatever
\* byte the controller holds first is taken for the answer of the mouse.
ps2ms_aux_wait_ack ==
    /\ probe_pc = "ack" /\ ps2ms_get_data
    /\ obf' = NoByte
    /\ probe_return(IF obf = PS2_RES_ACK THEN 0 ELSE ENXIO)
    /\ UNCHANGED <<ring, mouse_sem, packet, int_pc, thr_pc, e, npackets, nprobes,
                   history, outq, inreg, ctl_cmd, aux_silent>>

Probe == ps2ms_purge \/ ps2ms_send_cmd \/ ps2ms_send_aux \/ ps2ms_aux_wait_ack

\* The keyboard controller takes the byte written to it.  A control word
\* says where the next data byte goes; a data byte behind PS2_CTRL_WRITE_AUX
\* goes to the mouse, which acknowledges it, asks for it again, or is silent.
ctl_accept ==
    /\ inreg # NoWrite
    /\ inreg' = NoWrite
    /\ \/ /\ inreg.port = "ctrl"
          /\ ctl_cmd' = inreg.val
          /\ UNCHANGED <<outq, aux_silent>>
       \/ /\ inreg.port = "data" /\ ctl_cmd # PS2_CTRL_WRITE_AUX
          /\ ctl_cmd' = NoByte
          /\ UNCHANGED <<outq, aux_silent>>
       \/ /\ inreg.port = "data" /\ ctl_cmd = PS2_CTRL_WRITE_AUX
          /\ ctl_cmd' = NoByte
          /\ \/ /\ \E answer \in {PS2_RES_ACK, PS2_RES_RESEND} :
                      outq' = Append(outq, answer)
                /\ UNCHANGED aux_silent
             \/ aux_silent' = TRUE /\ UNCHANGED outq
    /\ UNCHANGED <<ring, mouse_sem, packet, seq_number, int_pc, thr_pc, e,
                   npackets, nprobes, history, probe, obf>>

\* The controller presents the next byte it has for the processor.
ctl_present ==
    /\ obf = NoByte /\ outq # <<>>
    /\ obf' = Head(outq) /\ outq' = Tail(outq)
    /\ UNCHANGED <<ring, mouse_sem, packet, seq_number, int_pc, thr_pc, e,
                   npackets, nprobes, history, probe, inreg, ctl_cmd, aux_silent>>

\* put_buf()
put_buf(ev) ==
    \/ /\ RingFull(put_pos, get_pos)
       /\ UNCHANGED <<ebuf, put_pos, acceptedB, lastAccepted>>
    \/ /\ ~ RingFull(put_pos, get_pos)
       /\ ebuf' = [ebuf EXCEPT ![put_pos] = ev]
       /\ put_pos' = Wrap(put_pos + 1)
       /\ acceptedB' = Compress(Append(acceptedB, ev.buttons))
       /\ lastAccepted' = ev

\* case 0 without the mark of a first byte: the byte is skipped
HeaderRejected(b) ==
    /\ inbytepos = 0 /\ (8 & b) = 0
    /\ UNCHANGED <<ring, packet, int_pc, npackets, acceptedB, lastAccepted>>

\* case 0
HeaderByte(b) ==
    /\ inbytepos = 0 /\ (8 & b) # 0
    /\ ps2ms_state_buttons' = (7 & b)
    /\ xsign' = (16 & b) /\ ysign' = (32 & b)
    /\ inbytepos' = 1
    /\ UNCHANGED <<ring, ps2ms_state_xpos, ps2ms_state_ypos, xval, yval,
                   int_pc, npackets, acceptedB, lastAccepted>>

\* case 1
XByte(b) ==
    /\ inbytepos = 1
    /\ xval' = SignedChar(b)
    /\ inbytepos' = 2
    /\ UNCHANGED <<ring, ps2ms_state_buttons, ps2ms_state_xpos, ps2ms_state_ypos,
                   xsign, ysign, yval, int_pc, npackets, acceptedB, lastAccepted>>

\* case 2 and everything behind "if(inbytepos != 0) return;" up to put_buf()
PacketComplete(b) ==
    LET x9 == insert_bit9(xval, xsign)
        y9 == insert_bit9(SignedChar(b), ysign)
        x  == Clamp(ps2ms_state_xpos + x9, XSize)
        y  == Clamp(ps2ms_state_ypos + y9, YSize)
    IN  /\ inbytepos = 2
        /\ inbytepos' = 0
        /\ xval' = x9 /\ yval' = y9
        /\ ps2ms_state_xpos' = x /\ ps2ms_state_ypos' = y
        /\ put_buf([buttons |-> ps2ms_state_buttons, abs_x |-> x, abs_y |-> y])
        /\ int_pc' = "release"
        /\ npackets' = npackets + 1
        /\ UNCHANGED <<get_pos, ps2ms_state_buttons, xsign, ysign>>

\* ps2ms_int_handler() for one byte read from the data port
ps2ms_int_handler(b) ==
    /\ seq_number > 0 /\ int_pc = "idle" /\ npackets < MaxPackets
    /\ \/ HeaderRejected(b)
       \/ HeaderByte(b)
       \/ XByte(b)
       \/ PacketComplete(b)
    /\ UNCHANGED <<mouse_sem, seq_number, thr_pc, e, nprobes, deliveredB,
                   lastDelivered, probe, ctl>>

\* the last statement of the handler
ps2ms_int_release ==
    /\ int_pc = "release"
    /\ mouse_sem' = SemReleased(mouse_sem)
    /\ int_pc' = "idle"
    /\ UNCHANGED <<ring, packet, seq_number, thr_pc, e, npackets, nprobes,
                   history, probe, ctl>>

\* mouse_push_event_thread(): hal_sem_acquire() and the cursor redraw
thread_acquire ==
    /\ seq_number > 0 /\ thr_pc = "acquire"
    /\ mouse_sem > 0
    /\ mouse_sem' = mouse_sem - 1
    /\ thr_pc' = "get"
    /\ UNCHANGED <<ring, packet, seq_number, int_pc, e, npackets, nprobes,
                   history, probe, ctl>>

\* "while( get_buf(&e) )"
thread_get_buf ==
    /\ thr_pc = "get"
    /\ \/ /\ get_pos = put_pos
          /\ thr_pc' = "acquire"
          /\ UNCHANGED <<get_pos, e>>
       \/ /\ get_pos # put_pos
          /\ e' = ebuf[get_pos]
          /\ get_pos' = Wrap(get_pos + 1)
          /\ thr_pc' = "peek"
    /\ UNCHANGED <<ebuf, put_pos, mouse_sem, packet, seq_number, int_pc,
                   npackets, nprobes, history, probe, ctl>>

\* The body of the loop: peek_buf(&e1), the comparison, ev_q_put_any(&e)
thread_peek_buf ==
    /\ thr_pc = "peek"
    /\ \/ /\ ThrowAway(peek_buf.ret, peek_buf.e, e)
          /\ UNCHANGED <<deliveredB, lastDelivered>>
       \/ /\ ~ ThrowAway(peek_buf.ret, peek_buf.e, e)
          /\ deliveredB' = Compress(Append(deliveredB, e.buttons))
          /\ lastDelivered' = e
    /\ thr_pc' = "get"
    /\ e' = ZeroEvent
    /\ UNCHANGED <<ring, mouse_sem, packet, seq_number, int_pc, npackets, nprobes,
                   acceptedB, lastAccepted, probe, ctl>>

Thread == thread_acquire \/ thread_get_buf \/ thread_peek_buf

Controller == ctl_accept \/ ctl_present

Next ==
    \/ driver_isa_ps2m_probe
    \/ Probe
    \/ Controller
    \/ \E b \in InBytes : ps2ms_int_handler(b)
    \/ ps2ms_int_release
    \/ Thread

\* The handler runs to its end once entered, and the scheduler runs the event
\* thread whenever it can run.  Nothing makes the mouse send.  The boot
\* thread spins in the loops of the probe and goes on when a loop is through;
\* the controller takes what is written to it and presents what it holds.
Fairness ==
    /\ WF_vars(ps2ms_int_release) /\ WF_vars(Thread)
    /\ WF_vars(Probe) /\ WF_vars(Controller)

Spec == Init /\ [][Next]_vars /\ Fairness

-----------------------------------------------------------------------------
Queue == INSTANCE EventQueue WITH q <- RingContents, Events <- Event,
                                  Capacity <- MAX_EVENTS - 1

TypeOK ==
    /\ ebuf \in [0 .. MAX_EVENTS - 1 -> Event]
    /\ put_pos \in 0 .. MAX_EVENTS - 1 /\ get_pos \in 0 .. MAX_EVENTS - 1
    /\ mouse_sem \in 0 .. MaxPackets
    /\ inbytepos \in 0 .. 2
    /\ ps2ms_state_buttons \in 0 .. 7
    /\ ps2ms_state_xpos \in 0 .. XSize /\ ps2ms_state_ypos \in 0 .. YSize
    /\ xsign \in {0, 16} /\ ysign \in {0, 32}
    /\ xval \in -256 .. 255 /\ yval \in -256 .. 255
    /\ seq_number \in 0 .. 1
    /\ probe_pc \in {"idle", "purge", "cmd_ctrl", "cmd_data", "aux_ctrl",
                      "aux_data", "ack"}
    /\ tries \in 0 .. PurgeTries
    /\ obf \in {NoByte, Stray, PS2_RES_ACK, PS2_RES_RESEND}
    /\ outq \in Seq({Stray, PS2_RES_ACK, PS2_RES_RESEND})
    /\ inreg \in {NoWrite} \cup
            [port : {"ctrl", "data"},
             val : {PS2_CTRL_WRITE_CMD, PS2_CTRL_WRITE_AUX, PS2_CMD_DEV_INIT,
                    PS2_CMD_ENABLE_MOUSE}]
    /\ ctl_cmd \in {NoByte, PS2_CTRL_WRITE_CMD, PS2_CTRL_WRITE_AUX}
    /\ aux_silent \in BOOLEAN
    /\ int_pc \in {"idle", "release"}
    /\ thr_pc \in {"acquire", "get", "peek"}
    /\ e \in Event /\ lastAccepted \in Event /\ lastDelivered \in Event
    /\ npackets \in 0 .. MaxPackets /\ nprobes \in 0 .. MaxProbes
    /\ acceptedB \in Seq(0 .. 7) /\ deliveredB \in Seq(0 .. 7)

\* The ring of put_buf(), get_buf() and peek_buf() is a bounded FIFO queue of
\* MAX_EVENTS-1 events: whatever the handler and the thread do, and in
\* whatever order, a step appends one event, drops the new event because the
\* queue is full, removes the oldest event, or leaves the queue alone.
RingIsQueue == Queue!Spec

\* No wake-up is lost between ps2ms_int_handler() and mouse_push_event_thread():
\* when the thread is blocked in hal_sem_acquire() and the handler is not
\* about to release the semaphore, the ring is empty and the last event it
\* took has been passed to ev_q_put_any().
NoLostWakeup ==
    (seq_number > 0 /\ thr_pc = "acquire" /\ mouse_sem = 0 /\ int_pc = "idle")
        => /\ get_pos = put_pos
           /\ lastDelivered = lastAccepted

\* Leaving out events in mouse_push_event_thread() never hides a change of the
\* buttons: the button states passed on, followed by those of the event in
\* the thread's hands and of the events in the ring, show the same changes
\* as the button states put_buf() accepted.
ButtonChangesDelivered ==
    LET held    == IF thr_pc = "peek" THEN <<e.buttons>> ELSE <<>>
        waiting == [i \in DOMAIN RingContents |-> RingContents[i].buttons]
    IN  Compress(deliveredB \o held \o waiting) = acceptedB

\* The newest event the ring accepted is passed on in the end: the pointer
\* does not stay behind the mouse once the mouse rests.
DeliversLatest == []<>(lastDelivered = lastAccepted)

\* The spin loops of the probe have no time limit, so the boot thread can
\* hang in driver_isa_ps2m_probe().  It does so for two reasons only: a byte
\* that arrived after the purge loop sits in the controller while
\* wait_write_ctrl() waits for both status bits to clear and nobody reads
\* it, or the mouse took PS2_CMD_ENABLE_MOUSE and gives no answer to
\* ps2ms_get_data().  With a controller that takes every byte the probe
\* waited to write, no command is lost and every other probe returns.
ProbeHangHasCause ==
    (probe_pc # "idle") ~>
        \/ probe_pc = "idle"
        \/ probe_pc \in {"cmd_ctrl", "aux_ctrl"} /\ obf # NoByte
        \/ probe_pc = "ack" /\ aux_silent

\* The movement of a packet is the nine-bit two's complement number whose
\* ninth bit is the sign flag of the first byte and whose low bits are the
\* data byte: after insert_bit9() xval and yval are what the mouse sent,
\* whatever the byte looked like as a signed char in between.
MovementIsNineBit ==
    LET NineBit(b, sign) == b - (IF sign # 0 THEN 256 ELSE 0)
    IN  int_pc = "release"
            => \E bx, by \in InBytes : /\ xval = NineBit(bx, xsign)
                                       /\ yval = NineBit(by, ysign)

=============================================================================
