----------------------------- MODULE Interrupts -----------------------------
(***************************************************************************)
(* How an interrupt gets from a device to its handler: the descriptor       *)
(* table, the handler table and the two interrupt controllers as idt.c sets *)
(* them up, the stubs of isr.s, and isr_handler and irq_handler.  The       *)
(* controllers and the processor are external; of them the model has what   *)
(* this code relies on: fully nested priorities, the slave on line 2 of the *)
(* master, the non-specific end of interrupt, and gates that turn           *)
(* interrupts off.                                                          *)
(***************************************************************************)
EXTENDS Integers, FiniteSets, FiniteSetsExt

CONSTANTS
    Lines,      \* the lines that devices raise, of 0 .. 15
    Unsteady,   \* those of them that may be lowered before they are acknowledged
    Traps       \* vectors that threads raise: exceptions, and 128 for int 0x80

ASSUME LinesAssumption == Lines \subseteq 0 .. 15 /\ Unsteady \subseteq Lines
ASSUME TrapsAssumption == Traps \subseteq 0 .. 255

VARIABLES
    gates, interrupt_handlers,   \* vectors with a gate; vector to handler
    master, slave,               \* vector of the first line of each controller
    irr, in_service,             \* lines requested, and acknowledged without an end
    iflag,                       \* EFLAGS.IF
    cpu,                         \* what the processor runs, below
    cause, vector                \* what interrupted it last, and the int_no pushed for it

\* "run": thread code; "isr": isr_common; "eoi", "handler", "return": irq_common
\* before the end of interrupt, before the handler call and after it; "panic":
\* the hlt loop of isr_handler; "reset": there was no gate for the fault either
Stages == {"run", "isr", "eoi", "handler", "return", "panic", "reset"}

Cascade == 2
Timer == 0
Keyboard == 1
NoHandler == "none"
NoCause == -1
TrapCause == 16

pics == <<master, slave, irr, in_service>>
idt  == <<gates, interrupt_handlers>>
interrupts == <<idt, pics, iflag, cpu, cause, vector>>

InterruptsInit ==
    /\ gates = {} /\ interrupt_handlers = <<>>
    /\ master = 8 /\ slave = 112           \* as the BIOS leaves them
    /\ irr = {} /\ in_service = {}
    /\ iflag = FALSE /\ cpu = "run" /\ cause = NoCause /\ vector = 0

(* Faulty variants, each of one operator defined further down.  They model no *)
(* code; putting one in the place of its original must break a property.     *)
FromSecondLine(v) == v >= 41
HandledOnly      == vector \in DOMAIN interrupt_handlers

-----------------------------------------------------------------------------
(* Set-up.                                                                  *)

register_interrupt_handler(n, handler) ==
    interrupt_handlers' = [x \in {n} \cup DOMAIN interrupt_handlers |->
                              IF x = n THEN handler ELSE interrupt_handlers[x]]

\* exceptions 0 to 31 and lines 0 to 15; of the other vectors none has a gate
Gated == 0 .. 47

\* the four initialisation words reset both controllers and set their bases
pic_remap ==
    /\ master' = 32 /\ slave' = 40
    /\ irr' = {} /\ in_service' = {}

idt_init ==
    /\ gates' = Gated /\ interrupt_handlers' = <<>>
    /\ pic_remap

-----------------------------------------------------------------------------
(* The controllers.                                                         *)

OnSlave(l)  == l >= 8
Level(l)    == IF OnSlave(l) THEN Cascade ELSE l
Priority(l) == 8 * Level(l) + (l % 8)
VectorOf(l) == IF OnSlave(l) THEN slave + (l - 8) ELSE master + l

Masters == {l \in in_service : ~OnSlave(l)}
Slaves  == {l \in in_service : OnSlave(l)}

\* nothing of the same or a higher priority waits for its end of interrupt
Deliverable(l) ==
    /\ l \in irr
    /\ \A s \in Masters : Level(l) < s
    /\ OnSlave(l) => \A s \in Slaves : l < s

Raise(l) ==
    /\ l \notin irr
    /\ irr' = irr \cup {l}
    /\ UNCHANGED <<idt, master, slave, in_service, iflag, cpu, cause, vector>>

\* through a gate interrupts go off; without one, the processor raises a
\* general protection fault (13) instead, and without a gate for that it resets
Enter(v, stage) ==
    /\ iflag' = FALSE
    /\ IF v \in gates THEN vector' = v /\ cpu' = stage
       ELSE vector' = 13 /\ cpu' = IF 13 \in gates THEN "isr" ELSE "reset"

\* vectors below 32 enter isr_common, the others irq_common
StageOf(v) == IF v < 32 THEN "isr" ELSE "eoi"

\* between two instructions of a thread the most urgent line is acknowledged
Acknowledge(l) ==
    /\ cpu = "run" /\ iflag
    /\ Deliverable(l) /\ \A k \in irr : Deliverable(k) => Priority(l) <= Priority(k)
    /\ irr' = irr \ {l} /\ cause' = l

Interrupt(l) ==
    /\ Acknowledge(l)
    /\ in_service' = in_service \cup {l, Level(l)}
    /\ Enter(VectorOf(l), StageOf(VectorOf(l)))
    /\ UNCHANGED <<idt, master, slave>>

\* the line went down before the acknowledge: the controller answers with its
\* line 7, which it does not put in service
Spurious(l) ==
    /\ l \in Unsteady /\ Acknowledge(l)
    /\ in_service' = in_service \cup (IF OnSlave(l) THEN {Cascade} ELSE {})
    /\ LET v == VectorOf(IF OnSlave(l) THEN 15 ELSE 7) IN Enter(v, StageOf(v))
    /\ UNCHANGED <<idt, master, slave>>

-----------------------------------------------------------------------------
(* The handlers.                                                            *)

\* a thread raises an exception, or executes int v
Trap(v) ==
    /\ cpu = "run" /\ v \in Traps
    /\ cause' = TrapCause
    /\ Enter(v, "isr")
    /\ UNCHANGED <<idt, pics>>

Called == IF vector \in DOMAIN interrupt_handlers THEN interrupt_handlers[vector]
          ELSE NoHandler

\* no handler is ever registered below 32, so that an exception always stops here
isr_handler ==
    /\ cpu = "isr" /\ Called = NoHandler
    /\ cpu' = "panic"
    /\ UNCHANGED <<idt, pics, iflag, cause, vector>>

FromSlave(v) == v >= 40

\* irq_handler ends the interrupt whether or not there is a handler
Ended == TRUE

\* the non-specific end of interrupt: the highest line in service, if any
Highest(s) == IF s = {} THEN {} ELSE {Min(s)}

EndOfInterrupt ==
    /\ cpu = "eoi"
    /\ in_service' = in_service
           \ ((IF Ended /\ FromSlave(vector) THEN Highest(Slaves) ELSE {})
              \cup (IF Ended THEN Highest(Masters) ELSE {}))
    /\ cpu' = "handler"
    /\ UNCHANGED <<idt, master, slave, irr, iflag, cause, vector>>

\* sti and iret: interrupts were on where this one came from
Return ==
    /\ cpu = "return"
    /\ cpu' = "run" /\ iflag' = TRUE
    /\ UNCHANGED <<idt, pics, cause, vector>>
=============================================================================
