-------------------------------- MODULE Boot --------------------------------
(***************************************************************************)
(* kmain (arch/x86_64/kmain.c) from its first line to its final loop: it   *)
(* sets up interrupt dispatch, paging with its page fault handler, the     *)
(* timer and the PS/2 controller, and enables interrupts.  Composes        *)
(* Interrupts and Ps2Init; KbdCommands begins where this module ends.      *)
(***************************************************************************)
EXTENDS Ps2Init

CONSTANTS
  Devices,      \* interrupts of other devices, the timer's 0 among them
  MaxRaised     \* bound: interrupts they raise

VARIABLES
  pc,       \* where kmain is
  magic,    \* mb_magic is right
  raised    \* spent of the bound

vars == <<intVars, ps2Vars, pc, magic, raised>>

Init ==
  /\ IntInit /\ Ps2InitState
  /\ pc = "magic" /\ magic \in BOOLEAN /\ raised = 0

KmainRuns == frame = NoFrame

Goto(from, to) ==
  /\ KmainRuns /\ pc = from /\ pc' = to
  /\ UNCHANGED <<magic, raised>>

\* A wrong magic number: kmain returns, and its caller halts.
CheckMagic == Goto("magic", IF magic THEN "idt_init" ELSE "halted") /\ UNCHANGED <<intVars, ps2Vars>>

KmainIdt == Goto("idt_init", "mmu_init") /\ idt_init /\ UNCHANGED ps2Vars

\* mmu_init, for what it does to interrupts: its last call.
KmainMmu ==
  Goto("mmu_init", "pit_init") /\ irq_set_handler(PAGE_FAULT, "page_fault_handler")
    /\ UNCHANGED ps2Vars

KmainPit == Goto("pit_init", "ps2_init") /\ pit_init /\ UNCHANGED ps2Vars

KmainPs2 ==
  /\ pc = "ps2_init" /\ ps2_init
  /\ Goto("ps2_init", IF step' = Finished THEN "sti" ELSE "ps2_init")

KmainSti == Goto("sti", "loop") /\ sti /\ UNCHANGED ps2Vars

Kmain == CheckMagic \/ KmainIdt \/ KmainMmu \/ KmainPit \/ KmainPs2 \/ KmainSti

\* while(1) ;  or the end of abort() and of long_mode_start: cli; hlt
Rest == KmainRuns /\ pc \in {"loop", "halted"} /\ UNCHANGED vars

-----------------------------------------------------------------------------
(* Interrupts and exceptions                                               *)

Kernel == UNCHANGED <<pc, magic, raised>>

\* A request made before "sti" waits in the controller: it makes no difference
\* when it is made.
DeviceRaises ==
  /\ pc \in {"sti", "loop"} /\ raised < MaxRaised /\ raised' = raised + 1
  /\ \E i \in Devices : Raise(i)
  /\ UNCHANGED <<ps2Vars, pc, magic>>

\* Only the keyboard's line is known to stay up until its byte is read.
Interrupt ==
  /\ \E i \in 0..15 : Deliver(i) \/ (Spurious(i) /\ (i = 1 => obuf = NoByte))
  /\ Kernel /\ UNCHANGED ps2Vars

\* pit_interrupt does nothing, and no handler is no error.
IdleHandler ==
  /\ HandlerDue("pit_interrupt") \/ HandlerDue(NoHandler)
  /\ Kernel /\ UNCHANGED <<irr, ps2Vars>>

KbdHandler == kbd_int_handler /\ Kernel

IrqReturns == Return /\ Kernel /\ UNCHANGED ps2Vars

irq_handler == IdleHandler \/ KbdHandler \/ IrqReturns

\* isr_handler on a page fault: page_fault_handler prints and aborts with
\* interrupts off.  An exception without a handler changes nothing.
PageFault ==
  /\ KmainRuns /\ lidt /\ HandlerOf(PAGE_FAULT) = "page_fault_handler"
  /\ pc' = "halted" /\ iflag' = FALSE
  /\ UNCHANGED <<irq_handlers, lidt, base, irr, isr, frame, ps2Vars, magic, raised>>

Hardware == (Controller \/ Keyboard) /\ Kernel
User     == (KeyPressed \/ Port2Receives) /\ Kernel

Next ==
  \/ Rest
  \/ /\ pc # "halted"
     /\ \/ Kmain \/ DeviceRaises \/ Interrupt \/ irq_handler
        \/ PageFault \/ Hardware \/ User

Spec == Init /\ [][Next]_vars

\* Nothing in kmain waits without a bound, handlers return, interrupts that are
\* requested and enabled are taken, and the controller and the keyboard answer.
FairSpec ==
  /\ Spec
  /\ WF_vars(Kmain) /\ WF_vars(Interrupt) /\ WF_vars(irq_handler)
  /\ WF_vars(Controller /\ Kernel) /\ WF_vars(Keyboard /\ Kernel)

-----------------------------------------------------------------------------
(* Properties                                                              *)

\* Outside a handler no interrupt is in service, in a handler at most the one it
\* is for: irq_ack ended the right interrupts on the right controllers, spurious
\* ones and those of the slave included.  One left in service blocks its
\* own line and all below it for ever.
NothingInService ==
  /\ frame = NoFrame => isr = {}
  /\ \A i \in isr : i = 2 \/ Vector(i) = frame.int_no

Undisturbed == timeouts = 0 /\ ~late /\ ~reset

\* When kmain enables interrupts, the controller has the configuration the
\* firmware left, with exactly the three bits of ps2_init changed, whatever keys
\* are pressed at whatever moment: no key byte was taken for the configuration, and
\* the RAM writes missed it.
ConfigRight == pc \in {"sti", "loop"} /\ Undisturbed => ccb = Patched(bios)

Answers == {ACK, RESEND, RESET_OK}

\* ps2_init hands over what KbdCommands begins with: port 1 on, its handler in
\* place, and no answer of the keyboard left that would reach the scan code
\* decoder; unless a key byte got between the reset and its answer.
HandsOver ==
  pc = "sti" /\ Undisturbed /\ ~early /\ tested = CONTROLLER_TEST_OK =>
    /\ HandlerOf(KBD_IRQ) = "kbd_int_handler"
    /\ port1 /\ ibuf = NoCommand /\ toDev = <<>>
    /\ obuf \notin Answers /\ \A i \in DOMAIN fromDev : fromDev[i] \notin Answers

\* kmain gets to its loop, or halts: the reset loop ends, time-outs and
\* misread answers included, with a keyboard that refuses finitely often.
BootFinishes == <>(pc \in {"loop", "halted"})

\* A byte in the output buffer is read by the handler, if it was installed and
\* the controller interrupts for the keyboard: no edge gets lost between the polling
\* of ps2_init, spurious interrupts and those of other devices.  A byte of the
\* pointing device after the flush is excepted: nobody handles IRQ12, and the
\* byte would stay in the buffer for ever.
KeyboardServed ==
  (/\ pc = "loop" /\ HandlerOf(KBD_IRQ) = "kbd_int_handler" /\ Bit(ccb, 0) = 1
   /\ ~late /\ obuf # NoByte) ~> (obuf = NoByte \/ pc = "halted" \/ late)
=============================================================================
