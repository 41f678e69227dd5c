----------------------------- MODULE Interrupts -----------------------------
(***************************************************************************)
(* Interrupt dispatch: arch/x86_64/idt.c, the stubs of irq.asm, pic.c and  *)
(* pit.c, with the two 8259 interrupt controllers as environment.  An      *)
(* interrupt runs in two steps, the handler and its acknowledgement,       *)
(* because devices raise more interrupts meanwhile.                        *)
(***************************************************************************)
EXTENDS Integers, FiniteSets

TIMER_IRQ  == 32    \* 0x20
KBD_IRQ    == 33    \* 0x21
PAGE_FAULT == 14    \* 0x0E
NoHandler  == "NULL"
NoFrame    == [int_no |-> -1, step |-> "none"]

VARIABLES
  irq_handlers,   \* vector |-> handler, for the vectors that have one
  lidt,           \* the IDT is loaded, with the gates of all vectors below 48
  base,           \* vector offsets of the two interrupt controllers
  irr, isr,       \* interrupts requested, interrupts in service
  iflag,          \* interrupts are enabled
  frame           \* the interrupt being handled

intVars == <<irq_handlers, lidt, base, irr, isr, iflag, frame>>

IntInit ==
  /\ irq_handlers = <<>>
  /\ lidt = FALSE
  /\ base = [master |-> 8, slave |-> 112]     \* as the BIOS leaves them
  /\ irr = {} /\ isr = {} /\ iflag = FALSE /\ frame = NoFrame

-----------------------------------------------------------------------------
\* pic_remap: initialisation forgets what was requested, nothing is masked.
pic_remap ==
  /\ base' = [master |-> 32, slave |-> 40]
  /\ irr' = {} /\ isr' = {}

idt_init ==
  /\ pic_remap
  /\ lidt' = TRUE
  /\ UNCHANGED <<irq_handlers, iflag, frame>>

HandlerOf(v) == IF v \in DOMAIN irq_handlers THEN irq_handlers[v] ELSE NoHandler

irq_set_handler(irq, handler) ==
  /\ irq_handlers' = [v \in DOMAIN irq_handlers \union {irq} |->
                        IF v = irq THEN handler ELSE irq_handlers[v]]
  /\ UNCHANGED <<lidt, base, irr, isr, iflag, frame>>

\* pit_init; the divisor only sets the rate of an interrupt that may always come.
pit_init == irq_set_handler(TIMER_IRQ, "pit_interrupt")

\* asm ("sti")
sti == iflag' = TRUE /\ UNCHANGED <<irq_handlers, lidt, base, irr, isr, frame>>

-----------------------------------------------------------------------------
(* The interrupt controllers (external)                                    *)

\* Priority: the slave's eight interrupts take the place of IRQ2.
Rank(i) == IF i < 8 THEN 10 * i ELSE 12 + i

Highest(S) == {i \in S : \A j \in S : Rank(i) <= Rank(j)}

Vector(i) == IF i < 8 THEN base.master + i ELSE base.slave + i - 8

\* A device raises its line.
Raise(i) ==
  /\ i \notin irr /\ irr' = irr \union {i}
  /\ UNCHANGED <<irq_handlers, lidt, base, isr, iflag, frame>>

Interrupted(v) == iflag' = FALSE /\ frame' = [int_no |-> v, step |-> "handler"]

CanDeliver(i) == iflag /\ i \in Highest(irr) /\ \A j \in isr : Rank(i) < Rank(j)

\* The CPU takes interrupt i; the master has the slave's on its IRQ2.
Deliver(i) ==
  /\ CanDeliver(i)
  /\ irr' = irr \ {i} /\ isr' = isr \union (IF i < 8 THEN {i} ELSE {i, 2})
  /\ Interrupted(Vector(i))
  /\ UNCHANGED <<irq_handlers, lidt, base>>

\* The line fell before the CPU asked which one it was: the controller names
\* its last interrupt and has nothing in service.
Spurious(i) ==
  /\ CanDeliver(i)
  /\ irr' = irr \ {i} /\ isr' = isr \union (IF i < 8 THEN {} ELSE {2})
  /\ Interrupted(Vector(IF i < 8 THEN 7 ELSE 15))
  /\ UNCHANGED <<irq_handlers, lidt, base>>

\* A non-specific end of interrupt to one controller
Eoi(inService, lines) == inService \ Highest(inService \intersect lines)

-----------------------------------------------------------------------------
\* The handler irq_handler calls, if any; which one, and what it does to the
\* device, is for the module that composes.
HandlerDue(handler) ==
  /\ frame.step = "handler"
  /\ HandlerOf(frame.int_no) = handler
  /\ frame' = [frame EXCEPT !.step = "ack"]
  /\ UNCHANGED <<irq_handlers, lidt, base, isr, iflag>>

\* Fault: the first interrupt of the slave counts as the master's.
irq_ack_OffByOne(irq_no) ==
  isr' = Eoi(IF irq_no > 8 THEN Eoi(isr, 8..15) ELSE isr, 0..7)

irq_ack(irq_no) ==
  isr' = Eoi(IF irq_no >= 8 THEN Eoi(isr, 8..15) ELSE isr, 0..7)

\* irq_ack(r->int_no - 32), and iretq
Return ==
  /\ frame.step = "ack"
  /\ irq_ack(frame.int_no - 32)
  /\ frame' = NoFrame /\ iflag' = TRUE
  /\ UNCHANGED <<irq_handlers, lidt, base, irr>>
=============================================================================
