------------------------------ MODULE BootProofs ------------------------------
(***************************************************************************)
(* Every interrupt is ended before a thread runs again and reaches its      *)
(* driver, for every set of lines, of tasks and of exceptions.  The         *)
(* invariant has three parts: nothing happens before the sti (Quiet), from  *)
(* the sti on the gates, the controllers and the handlers are the ones that *)
(* kernel_main has set up (Wired), and while irq_handler has not sent its   *)
(* end of interrupt, in_service and vector are those of the line that       *)
(* interrupted (Service).                                                   *)
(***************************************************************************)
EXTENDS Boot, SequenceTheorems, TLAPS

\* sti is the ninth step
Quiet ==
    at <= 9 => /\ cpu = "run" /\ ~iflag /\ in_service = {}
               /\ current = Shell /\ cause = NoCause

Wired ==
    /\ at \in 1 .. 12
    /\ at >= 4 => gates = Gated /\ master = 32 /\ slave = 40
    /\ DOMAIN interrupt_handlers \subseteq {32, 33, 128}
    /\ at >= 7 => /\ 32 \in DOMAIN interrupt_handlers
                  /\ interrupt_handlers[32] = "timer_init"
    /\ at >= 8 => /\ 33 \in DOMAIN interrupt_handlers
                  /\ interrupt_handlers[33] = "keyboard_init"

\* the vectors of a line, and of a spurious interrupt in its place
ProperVector(l)   == IF OnSlave(l) THEN 40 + (l - 8) ELSE 32 + l
SpuriousVector(l) == IF OnSlave(l) THEN 47 ELSE 39

Delivered(l) == vector = ProperVector(l) \/ (l \in Unsteady /\ vector = SpuriousVector(l))

Service ==
    /\ cpu # "eoi" => in_service = {}
    /\ cpu = "eoi" =>
          \/ vector = ProperVector(cause) /\ in_service = {cause, Level(cause)}
          \/ /\ cause \in Unsteady /\ vector = SpuriousVector(cause)
             /\ in_service = IF OnSlave(cause) THEN {Cascade} ELSE {}
    /\ cpu \in {"eoi", "handler"} => cause \in Lines /\ Delivered(cause)
    /\ cpu \in {"isr", "panic", "reset"} => cause \notin Lines

BootInv == Wired /\ Quiet /\ Service

-----------------------------------------------------------------------------

LEMMA LineNumbers == Lines \subseteq 0 .. 15 /\ Unsteady \subseteq Lines
BY LinesAssumption

LEMMA BootStarts == Init => BootInv
BY DEF Init, InterruptsInit, BootInv, Wired, Quiet, Service, Delivered

\* where a step of kernel_main stands
LEMMA Positions ==
    ASSUME at \in 1 .. 12, NEW step, Doing(step)
    PROVE  /\ at \in 1 .. 11 /\ at' = at + 1 /\ cpu = "run"
           /\ UNCHANGED <<cpu, cause, vector, current>>
           /\ step = "klog_init" => at = 1
           /\ step = "gdt_init" => at = 2
           /\ step = "idt_init" => at = 3
           /\ step = "syscall_init" => at = 4
           /\ step = "process_init" => at = 5
           /\ step = "timer_init" => at = 6
           /\ step = "keyboard_init" => at = 7
           /\ step = "fs_init" => at = 8
           /\ step = "sti" => at = 9
           /\ step = "login" => at = 10
           /\ step = "online" => at = 11
<1>1. Len(BootOrder) = 11
  BY DEF BootOrder
<1>2. at \in 1 .. 11 /\ at' = at + 1 /\ cpu = "run" /\ UNCHANGED <<cpu, cause, vector, current>>
  BY <1>1 DEF Doing, threads
<1>3. step = BootOrder[at]
  BY DEF Doing
<1>4. CASE at = 1
  BY <1>2, <1>3, <1>4 DEF BootOrder
<1>5. CASE at = 2
  BY <1>2, <1>3, <1>5 DEF BootOrder
<1>6. CASE at = 3
  BY <1>2, <1>3, <1>6 DEF BootOrder
<1>7. CASE at = 4
  BY <1>2, <1>3, <1>7 DEF BootOrder
<1>8. CASE at = 5
  BY <1>2, <1>3, <1>8 DEF BootOrder
<1>9. CASE at = 6
  BY <1>2, <1>3, <1>9 DEF BootOrder
<1>10. CASE at = 7
  BY <1>2, <1>3, <1>10 DEF BootOrder
<1>11. CASE at = 8
  BY <1>2, <1>3, <1>11 DEF BootOrder
<1>12. CASE at = 9
  BY <1>2, <1>3, <1>12 DEF BootOrder
<1>13. CASE at = 10
  BY <1>2, <1>3, <1>13 DEF BootOrder
<1>14. CASE at = 11
  BY <1>2, <1>3, <1>14 DEF BootOrder
<1> QED
  BY <1>2, <1>4, <1>5, <1>6, <1>7, <1>8, <1>9, <1>10, <1>11, <1>12, <1>13, <1>14

-----------------------------------------------------------------------------
(* kernel_main.                                                             *)

\* a step that only moves on
LEMMA MovesOn ==
    ASSUME BootInv, NEW step, Doing(step), step # "sti", step # "idt_init",
           step # "timer_init", step # "keyboard_init", step # "syscall_init",
           UNCHANGED <<idt, pics, iflag>>
    PROVE  BootInv'
<1>1. at \in 1 .. 11 /\ at' = at + 1 /\ UNCHANGED <<cpu, cause, vector, current>> /\ at \notin {3, 4, 6, 7, 9}
  <2>1. at \in 1 .. 12
    BY DEF BootInv, Wired
  <2>2. step = BootOrder[at] /\ at \in 1 .. 11 /\ at' = at + 1
    BY <2>1, Positions DEF Doing
  <2>3. BootOrder[3] = "idt_init" /\ BootOrder[4] = "syscall_init" /\ BootOrder[6] = "timer_init"
        /\ BootOrder[7] = "keyboard_init" /\ BootOrder[9] = "sti"
    BY DEF BootOrder
  <2> QED
    BY <2>1, <2>2, <2>3, Positions
<1>2. UNCHANGED <<gates, interrupt_handlers, master, slave, in_service, iflag>>
  BY DEF idt, pics
<1>3. Wired'
  BY <1>1, <1>2 DEF BootInv, Wired
<1>4. Quiet'
  BY <1>1, <1>2 DEF BootInv, Quiet
<1>5. Service'
  BY <1>1, <1>2 DEF BootInv, Service, Delivered
<1> QED
  BY <1>3, <1>4, <1>5 DEF BootInv

LEMMA IdtInitKeeps == ASSUME BootInv, IdtInit PROVE BootInv'
<1>1. at = 3 /\ at' = 4 /\ cpu = "run" /\ UNCHANGED <<cpu, cause, vector, current, iflag>>
  BY Positions DEF IdtInit, BootInv, Wired
<1>2. /\ gates' = Gated /\ interrupt_handlers' = <<>> /\ master' = 32 /\ slave' = 40
      /\ in_service' = {}
  BY DEF IdtInit, idt_init, pic_remap
<1>3. DOMAIN interrupt_handlers' = {}
  BY <1>2
<1>4. Wired'
  BY <1>1, <1>2, <1>3 DEF Wired
<1>5. Quiet'
  BY <1>1, <1>2 DEF BootInv, Quiet
<1>6. Service'
  BY <1>1, <1>2 DEF BootInv, Service
<1> QED
  BY <1>4, <1>5, <1>6 DEF BootInv

LEMMA RegisterKeeps ==
    ASSUME BootInv, NEW step \in {"syscall_init", "timer_init", "keyboard_init"}, Register(step)
    PROVE  BootInv'
<1> DEFINE n == Registered(step)
<1>1. /\ at \in {4, 6, 7} /\ at' = at + 1 /\ UNCHANGED <<cpu, cause, vector, current, iflag>>
      /\ at = 4 => step = "syscall_init"
      /\ at = 6 => step = "timer_init"
      /\ at = 7 => step = "keyboard_init"
  BY Positions DEF Register, BootInv, Wired
<1>2. /\ n \in {32, 33, 128}
      /\ step = "timer_init" => n = 32
      /\ step = "keyboard_init" => n = 33
      /\ step = "syscall_init" => n = 128
  BY DEF Registered
<1>3. /\ interrupt_handlers' = [x \in {n} \cup DOMAIN interrupt_handlers |->
                                  IF x = n THEN step ELSE interrupt_handlers[x]]
      /\ UNCHANGED <<gates, master, slave, in_service>>
  BY DEF Register, register_interrupt_handler, pics
<1> HIDE DEF n
<1>4. /\ DOMAIN interrupt_handlers' = {n} \cup DOMAIN interrupt_handlers
      /\ interrupt_handlers'[n] = step
      /\ \A x \in DOMAIN interrupt_handlers \ {n} : interrupt_handlers'[x] = interrupt_handlers[x]
  BY <1>3
<1>5. Wired'
  BY <1>1, <1>2, <1>3, <1>4 DEF BootInv, Wired
<1>6. Quiet'
  BY <1>1, <1>3 DEF BootInv, Quiet
<1>7. Service'
  BY <1>1, <1>3 DEF BootInv, Service, Delivered
<1> QED
  BY <1>5, <1>6, <1>7 DEF BootInv

LEMMA StiKeeps == ASSUME BootInv, Sti PROVE BootInv'
<1>1. at = 9 /\ at' = 10 /\ cpu = "run" /\ UNCHANGED <<cpu, cause, vector, current>>
  BY Positions DEF Sti, BootInv, Wired
<1>2. UNCHANGED <<gates, interrupt_handlers, master, slave, in_service>>
  BY DEF Sti, idt, pics
<1>3. Wired'
  BY <1>1, <1>2 DEF BootInv, Wired
<1>4. Quiet'
  BY <1>1 DEF Quiet
<1>5. Service'
  BY <1>1, <1>2 DEF BootInv, Service, Delivered
<1> QED
  BY <1>3, <1>4, <1>5 DEF BootInv

LEMMA KernelMainKeeps == ASSUME BootInv, kernel_main PROVE BootInv'
<1>1. CASE KlogInitStep
  BY <1>1, MovesOn DEF KlogInitStep
<1>2. CASE \E step \in {"gdt_init", "process_init", "fs_init"} : Elsewhere(step)
  BY <1>2, MovesOn DEF Elsewhere
<1>3. CASE Login
  BY <1>3, MovesOn DEF Login
<1>4. CASE Online
  BY <1>4, MovesOn DEF Online
<1> QED
  BY <1>1, <1>2, <1>3, <1>4, IdtInitKeeps, RegisterKeeps, StiKeeps DEF kernel_main

-----------------------------------------------------------------------------
(* Devices and the processor.                                               *)

\* steps outside kernel_main: at stays, and so do the gates and the handlers
LEMMA WiredKept ==
    ASSUME BootInv, UNCHANGED <<at, gates, interrupt_handlers, master, slave>>
    PROVE  Wired'
BY DEF BootInv, Wired

\* once interrupts are on or a command runs, Quiet asks nothing
LEMMA NotQuiet == ASSUME BootInv, iflag \/ cpu # "run" \/ current # Shell \/ at > 9 PROVE at > 9 /\ at \in 1 .. 12
BY DEF BootInv, Quiet, Wired

LEMMA QuietKept == ASSUME at > 9, at \in 1 .. 12, at' = at PROVE Quiet'
BY DEF Quiet

LEMMA RaiseKeeps == ASSUME BootInv, NEW l \in Lines, Raise(l), Outside PROVE BootInv'
<1>1. UNCHANGED <<at, gates, interrupt_handlers, master, slave, in_service, iflag, cpu, cause, vector, current>>
  BY DEF Raise, Outside, idt, threads
<1>2. Quiet'
  BY <1>1 DEF BootInv, Quiet
<1>3. Service'
  BY <1>1 DEF BootInv, Service, Delivered
<1> QED
  BY <1>1, <1>2, <1>3, WiredKept DEF BootInv

LEMMA TrapKeeps == ASSUME BootInv, at > Len(BootOrder), NEW v \in Traps, Trap(v), Outside PROVE BootInv'
<1>1. Len(BootOrder) = 11
  BY DEF BootOrder
<1>2. UNCHANGED <<at, gates, interrupt_handlers, master, slave, in_service>> /\ at > 9 /\ at \in 1 .. 12
  BY <1>1 DEF Trap, Outside, idt, pics, threads, BootInv, Wired
<1>3. cause' = TrapCause /\ cpu' \in {"isr", "reset"} /\ in_service = {}
  BY DEF Trap, Enter, BootInv, Service
<1>4. cause' \notin Lines
  BY <1>3, LineNumbers DEF TrapCause
<1>5. Service'
  BY <1>2, <1>3, <1>4 DEF Service
<1> QED
  BY <1>2, <1>5, WiredKept, QuietKept DEF BootInv

LEMMA VectorsProper ==
    ASSUME BootInv, at > 9, NEW l \in Lines
    PROVE  /\ VectorOf(l) = ProperVector(l) /\ VectorOf(IF OnSlave(l) THEN 15 ELSE 7) = SpuriousVector(l)
           /\ ProperVector(l) \in 32 .. 47 /\ SpuriousVector(l) \in 32 .. 47
           /\ gates = Gated
<1>1. l \in 0 .. 15 /\ master = 32 /\ slave = 40 /\ gates = Gated
  BY LineNumbers DEF BootInv, Wired
<1> QED
  BY <1>1 DEF VectorOf, ProperVector, SpuriousVector, OnSlave

LEMMA InterruptKeeps == ASSUME BootInv, NEW l \in Lines, Interrupt(l), Outside PROVE BootInv'
<1>1. iflag /\ cpu = "run" /\ cause' = l
  BY DEF Interrupt, Acknowledge
<1>2. UNCHANGED <<at, gates, interrupt_handlers, master, slave>> /\ at > 9 /\ at \in 1 .. 12
  BY <1>1, NotQuiet DEF Interrupt, Outside, idt
<1>3. vector' = ProperVector(l) /\ cpu' = "eoi"
  BY <1>2, VectorsProper DEF Interrupt, Enter, StageOf, Gated
<1>4. in_service = {}
  BY <1>1 DEF BootInv, Service
<1>5. in_service' = {l, Level(l)}
  BY <1>4 DEF Interrupt
<1>6. Service'
  BY <1>1, <1>3, <1>5 DEF Service, Delivered
<1> QED
  BY <1>2, <1>6, WiredKept, QuietKept DEF BootInv

LEMMA SpuriousKeeps == ASSUME BootInv, NEW l \in Lines, Spurious(l), Outside PROVE BootInv'
<1>1. iflag /\ cpu = "run" /\ cause' = l /\ l \in Unsteady
  BY DEF Spurious, Acknowledge
<1>2. UNCHANGED <<at, gates, interrupt_handlers, master, slave>> /\ at > 9 /\ at \in 1 .. 12
  BY <1>1, NotQuiet DEF Spurious, Outside, idt
<1>3. vector' = SpuriousVector(l) /\ cpu' = "eoi"
  BY <1>2, VectorsProper DEF Spurious, Enter, StageOf, Gated
<1>4. in_service = {}
  BY <1>1 DEF BootInv, Service
<1>5. in_service' = IF OnSlave(l) THEN {Cascade} ELSE {}
  BY <1>4 DEF Spurious
<1>6. Service'
  BY <1>1, <1>3, <1>5 DEF Service, Delivered
<1> QED
  BY <1>2, <1>6, WiredKept, QuietKept DEF BootInv

LEMMA HighestOfOne == ASSUME NEW x \in Int PROVE Highest({x}) = {x}
BY DEF Highest, Min

LEMMA HighestOfNone == Highest({}) = {}
BY DEF Highest

(* The end of interrupt goes to the controllers that have something in       *)
(* service, and takes all of it.                                             *)
LEMMA EndKeeps == ASSUME BootInv, EndOfInterrupt, Outside PROVE BootInv'
<1> DEFINE c == cause
<1>1. cpu = "eoi" /\ cpu' = "handler"
  BY DEF EndOfInterrupt
<1>2. /\ UNCHANGED <<at, gates, interrupt_handlers, master, slave, cause, vector>>
      /\ at > 9 /\ at \in 1 .. 12
  BY <1>1, NotQuiet DEF EndOfInterrupt, Outside, idt
<1>3. c \in 0 .. 15 /\ c \in Lines /\ Delivered(c)
  BY <1>1, LineNumbers DEF BootInv, Service
<1>4. in_service' = in_service \ ((IF vector >= 40 THEN Highest(Slaves) ELSE {}) \cup Highest(Masters))
  BY DEF EndOfInterrupt, Ended, FromSlave
<1>5. in_service' = {}
  <2>1. CASE vector = ProperVector(c) /\ in_service = {c, Level(c)} /\ c < 8
    <3>1. in_service = {c} /\ vector < 40
      BY <1>3, <2>1 DEF Level, OnSlave, ProperVector
    <3>2. Masters = {c}
      BY <1>3, <2>1, <3>1 DEF Masters, OnSlave
    <3> QED
      BY <1>3, <1>4, <3>1, <3>2, HighestOfOne
  <2>2. CASE vector = ProperVector(c) /\ in_service = {c, Level(c)} /\ c >= 8
    <3>1. in_service = {c, 2} /\ vector >= 40
      BY <1>3, <2>2 DEF Level, OnSlave, ProperVector, Cascade
    <3>2. Masters = {2} /\ Slaves = {c}
      BY <1>3, <2>2, <3>1 DEF Masters, Slaves, OnSlave
    <3> QED
      BY <1>3, <1>4, <3>1, <3>2, HighestOfOne
  <2>3. CASE vector = SpuriousVector(c) /\ OnSlave(c) /\ in_service = {Cascade}
    <3>1. Masters = {2} /\ in_service = {2}
      BY <2>3 DEF Masters, OnSlave, Cascade
    <3> QED
      BY <1>4, <3>1, HighestOfOne
  <2>4. CASE ~OnSlave(c) /\ in_service = {}
    BY <1>4, <2>4
  <2> QED
    BY <1>1, <1>3, <2>1, <2>2, <2>3, <2>4 DEF BootInv, Service
<1>6. Service'
  BY <1>1, <1>2, <1>3, <1>5 DEF Service, Delivered
<1> QED
  BY <1>2, <1>6, WiredKept, QuietKept DEF BootInv

LEMMA PanicKeeps == ASSUME BootInv, isr_handler, Outside PROVE BootInv'
<1>1. cpu = "isr" /\ cpu' = "panic"
  BY DEF isr_handler
<1>2. /\ UNCHANGED <<at, gates, interrupt_handlers, master, slave, in_service, cause>>
      /\ at > 9 /\ at \in 1 .. 12
  BY <1>1, NotQuiet DEF isr_handler, Outside, idt, pics
<1>3. Service'
  BY <1>1, <1>2 DEF BootInv, Service
<1> QED
  BY <1>2, <1>3, WiredKept, QuietKept DEF BootInv

LEMMA ReturnKeeps == ASSUME BootInv, Return, Outside PROVE BootInv'
<1>1. cpu = "return" /\ cpu' = "run"
  BY DEF Return
<1>2. /\ UNCHANGED <<at, gates, interrupt_handlers, master, slave, in_service>>
      /\ at > 9 /\ at \in 1 .. 12
  BY <1>1, NotQuiet DEF Return, Outside, idt, pics
<1>3. Service'
  BY <1>1, <1>2 DEF BootInv, Service
<1> QED
  BY <1>2, <1>3, WiredKept, QuietKept DEF BootInv

-----------------------------------------------------------------------------
(* Threads.                                                                 *)

\* a step after the sti that ends in thread code or at the end of a handler
LEMMA ThreadStepKeeps ==
    ASSUME BootInv, at > 9, in_service = {}, cpu' \in {"run", "return"},
           UNCHANGED <<idt, pics, at>>
    PROVE  BootInv'
<1>1. UNCHANGED <<gates, interrupt_handlers, master, slave, in_service>> /\ at \in 1 .. 12
  BY DEF idt, pics, BootInv, Wired
<1>2. Service'
  BY <1>1 DEF Service
<1> QED
  BY <1>1, <1>2, WiredKept, QuietKept DEF BootInv

LEMMA ThreadsKeep ==
    ASSUME BootInv, \/ Sleep \/ PagerWait \/ KeyTaken \/ TimerCallback \/ OtherHandler
                    \/ Help \/ \E t \in Tasks : Spawn(t) \/ Kill(t)
    PROVE  BootInv'
<1>1. Len(BootOrder) = 11
  BY DEF BootOrder
<1>2. ASSUME NEW t, NEW p, SwitchTo(t, p) PROVE cpu' \in {"run", "return"}
  BY <1>2 DEF SwitchTo
<1>3. CASE Sleep
  BY <1>2, <1>3, NotQuiet, ThreadStepKeeps DEF Sleep, TaskRuns, BootInv, Service
<1>4. CASE TimerCallback
  <2>1. cpu = "handler" /\ cpu' \in {"run", "return"} /\ UNCHANGED <<idt, pics, at>>
    BY <1>2, <1>4 DEF TimerCallback
  <2> QED
    BY <2>1, NotQuiet, ThreadStepKeeps DEF BootInv, Service
<1>5. CASE OtherHandler
  BY <1>5, NotQuiet, ThreadStepKeeps DEF OtherHandler, BootInv, Service
<1>6. CASE \E t \in Tasks : Spawn(t) \/ Kill(t)
  <2>0. ShellRuns /\ UNCHANGED <<interrupts, at>>
    BY <1>6, Zenon DEF Spawn, Kill
  <2>1. /\ cpu = "run" /\ at > 9 /\ UNCHANGED <<idt, pics, cpu, at>>
    BY <1>1, <2>0 DEF ShellRuns, interrupts, BootInv, Wired
  <2> QED
    BY <2>1, ThreadStepKeeps DEF BootInv, Service
<1>7. CASE Help \/ PagerWait \/ KeyTaken
  <2>1. cpu = "run" /\ UNCHANGED <<interrupts, at, current>>
    BY <1>7 DEF Help, ShellRuns, PagerWait, KeyTaken, TaskRuns
  <2>2. UNCHANGED <<idt, pics, iflag, cpu, cause, vector>>
    BY <2>1 DEF interrupts
  <2> QED
    BY <2>1, <2>2 DEF idt, pics, BootInv, Wired, Quiet, Service, Delivered
<1> QED
  BY <1>3, <1>4, <1>5, <1>6, <1>7

LEMMA BootSteps == BootInv /\ [Next]_vars => BootInv'
<1> SUFFICES ASSUME BootInv, [Next]_vars PROVE BootInv'
  OBVIOUS
<1>1. CASE UNCHANGED vars
  BY <1>1 DEF vars, interrupts, idt, pics, threads, BootInv, Wired, Quiet, Service, Delivered
<1>2. CASE Devices
  BY <1>2, RaiseKeeps DEF Devices
<1>3. CASE Commands
  BY <1>3, TrapKeeps DEF Commands
<1>4. CASE Processor
  BY <1>4, InterruptKeeps, SpuriousKeeps, EndKeeps, PanicKeeps, ReturnKeeps DEF Processor
<1>5. CASE Stopped
  BY <1>1, <1>5 DEF Stopped
<1> QED
  BY <1>1, <1>2, <1>3, <1>4, <1>5, KernelMainKeeps, ThreadsKeep DEF Next

LEMMA BootAlways == Spec => []BootInv
BY BootStarts, BootSteps, PTL DEF Spec

-----------------------------------------------------------------------------
(* Theorems.                                                                *)

(* Whatever lines the devices raise, and in whatever thread the timer's       *)
(* handler returns, no thread runs and no handler is called while a line      *)
(* waits for its end of interrupt.                                            *)
THEOREM InterruptsEnded == Spec => []NothingInService
<1>1. BootInv => NothingInService
  BY DEF BootInv, Service, NothingInService
<1> QED
  BY <1>1, BootAlways, PTL

(* Every line reaches its own driver's handler, or none if it has none, from   *)
(* the sti on, and never arrives as an exception, when the timer and the       *)
(* keyboard hold theirs until they are acknowledged.                           *)
THEOREM DriversReached ==
    ASSUME Unsteady \cap {Timer, Keyboard} = {}
    PROVE  Spec => []LinesReachDrivers
<1>1. ASSUME BootInv PROVE LinesReachDrivers
  <2>1. SUFFICES ASSUME cause \in Lines, cpu = "handler" PROVE Called = Driver(cause)
    BY <1>1 DEF LinesReachDrivers, BootInv, Service
  <2>2. cause \in 0 .. 15 /\ Delivered(cause)
    BY <1>1, <2>1, LineNumbers DEF BootInv, Service
  <2>3. /\ at \in 10 .. 12 /\ DOMAIN interrupt_handlers \subseteq {32, 33, 128}
        /\ 32 \in DOMAIN interrupt_handlers /\ interrupt_handlers[32] = "timer_init"
        /\ 33 \in DOMAIN interrupt_handlers /\ interrupt_handlers[33] = "keyboard_init"
    BY <1>1, <2>1, NotQuiet DEF BootInv, Wired
  <2>4. CASE cause = 0 \/ cause = 1
    <3>1. cause \notin Unsteady
      BY <2>4 DEF Timer, Keyboard
    <3>2. vector = 32 + cause
      BY <2>2, <2>4, <3>1 DEF Delivered, ProperVector, OnSlave
    <3> QED
      BY <2>3, <2>4, <3>2 DEF Called, Driver, Timer, Keyboard
  <2>5. CASE cause >= 2
    <3>1. vector \in 34 .. 47
      BY <2>2, <2>5 DEF Delivered, ProperVector, SpuriousVector, OnSlave
    <3>2. Called = NoHandler
      BY <2>3, <3>1 DEF Called
    <3> QED
      BY <2>2, <2>5, <3>2 DEF Driver, Timer, Keyboard
  <2> QED
    BY <2>2, <2>4, <2>5
<1> QED
  BY <1>1, BootAlways, PTL

-----------------------------------------------------------------------------
(* Types.                                                                   *)

ProcessorTyped ==
    /\ gates \subseteq 0 .. 255 /\ irr \subseteq Lines /\ iflag \in BOOLEAN
    /\ cpu \in Stages /\ vector \in 0 .. 255 /\ cause \in {NoCause, TrapCause} \cup 0 .. 15

LogTyped ==
    /\ klog_buf \in [Entries -> Messages \cup {NoMessage}]
    /\ klog_head \in Entries /\ klog_total \in 0 .. KLOG_MAX_ENTRIES

ThreadsTyped ==
    /\ scheduling_enabled \in BOOLEAN
    /\ current \in Threads /\ where \in [Threads -> Places]
    /\ asleep \subseteq Tasks /\ waiting \subseteq Tasks /\ paging \in BOOLEAN
    /\ \A t \in Threads : where[t] = "here" <=> t = current

Typed == ProcessorTyped /\ LogTyped /\ ThreadsTyped

\* the positions after the last entry start again at the first
LEMMA WrappedAt ==
    ASSUME NEW x \in 0 .. 2 * KLOG_MAX_ENTRIES - 1
    PROVE  Wrapped(x) = IF x < KLOG_MAX_ENTRIES THEN x ELSE x - KLOG_MAX_ENTRIES
<1> DEFINE K == KLOG_MAX_ENTRIES
<1>1. K \in Nat \ {0}
  BY KlogSize
<1>2. CASE x < K
  BY <1>1, <1>2, Z3 DEF Wrapped
<1>3. CASE x >= K
  <2>1. x \div K = 1
    BY <1>1, <1>3, Z3
  <2> QED
    BY <1>1, <1>3, <2>1, Z3 DEF Wrapped
<1> QED
  BY <1>1, <1>2, <1>3

LEMMA LogStepTyped ==
    ASSUME LogTyped, UNCHANGED log \/ klog_init \/ \E m \in Messages : klog(m)
    PROVE  LogTyped'
<1>1. CASE UNCHANGED log
  BY <1>1 DEF log, LogTyped
<1>2. CASE klog_init
  BY <1>2, KlogSize DEF klog_init, LogTyped, Entries
<1>3. ASSUME NEW m \in Messages, klog(m) PROVE LogTyped'
  <2>1. klog_head + 1 \in 0 .. 2 * KLOG_MAX_ENTRIES - 1 /\ klog_head + 1 <= KLOG_MAX_ENTRIES
    BY KlogSize DEF LogTyped, Entries
  <2>2. klog_head' \in Entries
    BY <1>3, <2>1, WrappedAt, KlogSize DEF klog, Entries
  <2>3. klog_buf' \in [Entries -> Messages \cup {NoMessage}]
    BY <1>3 DEF klog, LogTyped
  <2>4. klog_total' \in 0 .. KLOG_MAX_ENTRIES
    BY <1>3, KlogSize DEF klog, LogTyped
  <2> QED
    BY <2>2, <2>3, <2>4 DEF LogTyped
<1> QED
  BY <1>1, <1>2, <1>3

(* What kernel_main and the shell's thread log.                              *)
LEMMA LogSteps == [Next]_vars => UNCHANGED log \/ klog_init \/ \E m \in Messages : klog(m)
<1> SUFFICES ASSUME [Next]_vars
             PROVE  UNCHANGED log \/ klog_init \/ \E m \in Messages : klog(m)
  OBVIOUS
<1>1. CASE kernel_main
  BY <1>1, BootMessages DEF kernel_main, KlogInitStep, IdtInit, Register, Elsewhere, Sti, Login, Online
<1>2. CASE Devices \/ Commands \/ Processor
  BY <1>2 DEF Devices, Commands, Processor, Outside, log
<1>3. CASE Sleep \/ PagerWait \/ KeyTaken \/ TimerCallback \/ OtherHandler \/ Help
  BY <1>3 DEF Sleep, PagerWait, KeyTaken, TimerCallback, OtherHandler, Help, log
<1>4. CASE \E t \in Tasks : Spawn(t) \/ Kill(t)
  BY <1>4, BootMessages DEF Spawn, Kill
<1>5. CASE UNCHANGED vars
  BY <1>5 DEF vars
<1> QED
  BY <1>1, <1>2, <1>3, <1>4, <1>5 DEF Next, Stopped

(* schedule() leaves one thread for another that is ready.                   *)
LEMMA SwitchTyped ==
    ASSUME ThreadsTyped, NEW S, NEW t \in Ready(S), NEW p \in {"call", "irq"}, SwitchTo(t, p)
    PROVE  /\ current' \in Threads /\ where' \in [Threads -> Places]
           /\ \A u \in Threads : where'[u] = "here" <=> u = current'
<1>1. t \in Threads /\ t # current
  BY DEF Ready, ThreadsTyped
<1>2. where' = [where EXCEPT ![current] = p, ![t] = "here"] /\ current' = t
  BY DEF SwitchTo
<1> QED
  BY <1>1, <1>2 DEF ThreadsTyped, Places

LEMMA ThreadsStepTyped == ThreadsTyped /\ [Next]_vars => ThreadsTyped'
<1> SUFFICES ASSUME ThreadsTyped, [Next]_vars PROVE ThreadsTyped'
  OBVIOUS
<1>1. CASE kernel_main
  BY <1>1 DEF kernel_main, KlogInitStep, IdtInit, Register, Elsewhere, Sti, Login, Online,
              Doing, threads, ThreadsTyped
<1>2. CASE UNCHANGED <<scheduling_enabled, threads>>
  BY <1>2 DEF threads, ThreadsTyped
<1>3. CASE Sleep
  <2>1. /\ current # Shell /\ asleep' = asleep \cup {current}
        /\ UNCHANGED <<scheduling_enabled, paging, waiting>>
    BY <1>3 DEF Sleep, TaskRuns
  <2>2. PICK t \in Ready(asleep) : SwitchTo(t, "call")
    BY <1>3 DEF Sleep
  <2>3. asleep' \subseteq Tasks
    BY <2>1 DEF ThreadsTyped, Threads
  <2> QED
    BY <2>1, <2>2, <2>3, SwitchTyped DEF ThreadsTyped
<1>4. CASE TimerCallback
  <2>1. PICK woken \in SUBSET asleep :
          /\ asleep' = asleep \ woken
          /\ \/ UNCHANGED <<current, where>>
             \/ \E t \in Ready(asleep \ woken) : SwitchTo(t, "irq")
    BY <1>4 DEF TimerCallback
  <2>2. UNCHANGED <<scheduling_enabled, paging, waiting>> /\ asleep' \subseteq Tasks
    BY <1>4, <2>1 DEF TimerCallback, ThreadsTyped
  <2> QED
    BY <2>1, <2>2, SwitchTyped DEF ThreadsTyped
<1>5. ASSUME NEW t \in Tasks, Spawn(t) \/ Kill(t) PROVE ThreadsTyped'
  <2>1. t \in Threads /\ t # current
    BY <1>5, ThreadsAssumption DEF Spawn, Kill, ShellRuns, Threads
  <2>2. /\ UNCHANGED <<scheduling_enabled, current, paging>>
        /\ asleep' \subseteq asleep /\ waiting' \subseteq waiting
        /\ \E p \in {"new", "absent"} : where' = [where EXCEPT ![t] = p]
    BY <1>5 DEF Spawn, Kill
  <2> QED
    BY <2>1, <2>2 DEF ThreadsTyped, Places
<1>6. CASE Help \/ PagerWait \/ KeyTaken
  <2>1. UNCHANGED <<scheduling_enabled, current, where, asleep>>
    BY <1>6 DEF Help, PagerWait, KeyTaken
  <2>2. waiting' \subseteq waiting \cup (Tasks \cap {current})
    BY <1>6 DEF Help, PagerWait, KeyTaken, TaskRuns, ThreadsTyped, Threads
  <2>3. paging' \in BOOLEAN
    BY <1>6 DEF Help, PagerWait, KeyTaken, ThreadsTyped
  <2> QED
    BY <2>1, <2>2, <2>3 DEF ThreadsTyped
<1> QED
  BY <1>1, <1>2, <1>3, <1>4, <1>5, <1>6
     DEF Next, Devices, Commands, Processor, Outside, OtherHandler, Stopped, vars

LEMMA ProcessorStepTyped ==
    BootInv /\ ProcessorTyped /\ [Next]_vars => ProcessorTyped'
<1> SUFFICES ASSUME BootInv, ProcessorTyped, [Next]_vars PROVE ProcessorTyped'
  OBVIOUS
<1>0. UNCHANGED <<idt, pics>> => UNCHANGED <<gates, irr>>
  BY DEF idt, pics
<1>1. CASE kernel_main
  <2>1. CASE \E step \in {"syscall_init", "timer_init", "keyboard_init"} : Register(step)
    BY <1>0, <2>1 DEF Register, Doing, pics, ProcessorTyped
  <2>2. CASE \E step \in {"gdt_init", "process_init", "fs_init"} : Elsewhere(step)
    BY <1>0, <2>2 DEF Elsewhere, Doing, ProcessorTyped
  <2>3. CASE IdtInit
    BY <2>3 DEF IdtInit, idt_init, pic_remap, Gated, Doing, ProcessorTyped
  <2>4. CASE KlogInitStep \/ Sti \/ Login \/ Online
    BY <1>0, <2>4 DEF KlogInitStep, Sti, Login, Online, Doing, ProcessorTyped
  <2> QED
    BY <1>1, <2>1, <2>2, <2>3, <2>4 DEF kernel_main
<1>2. CASE Devices
  BY <1>2 DEF Devices, Raise, idt, ProcessorTyped
<1>3. CASE Commands
  <2>1. PICK v \in Traps : Trap(v)
    BY <1>3 DEF Commands
  <2>2. v \in 0 .. 255
    BY TrapsAssumption
  <2>3. cause' = TrapCause /\ iflag' = FALSE /\ UNCHANGED <<gates, irr>>
    BY <1>0, <2>1 DEF Trap, Enter
  <2>4. cpu' \in Stages /\ vector' \in 0 .. 255
    BY <2>1, <2>2 DEF Trap, Enter, Stages
  <2> QED
    BY <2>3, <2>4 DEF ProcessorTyped
<1>4. ASSUME NEW l \in Lines, Interrupt(l) \/ Spurious(l) PROVE ProcessorTyped'
  <2>1. iflag
    BY <1>4 DEF Interrupt, Spurious, Acknowledge
  <2>2. VectorOf(l) \in 32 .. 47 /\ VectorOf(IF OnSlave(l) THEN 15 ELSE 7) \in 32 .. 47
    BY <2>1, NotQuiet, VectorsProper
  <2>3. \E v \in 32 .. 47 : Enter(v, StageOf(v))
    BY <1>4, <2>2 DEF Interrupt, Spurious
  <2>4. irr' = irr \ {l} /\ cause' = l /\ UNCHANGED gates /\ l \in 0 .. 15
    BY <1>4, LineNumbers DEF Interrupt, Spurious, Acknowledge, idt
  <2>5. PICK v \in 32 .. 47 : Enter(v, StageOf(v))
    BY <2>3
  <2>6. iflag' = FALSE /\ cpu' \in Stages /\ vector' \in 0 .. 255
    BY <2>5 DEF Enter, StageOf, Stages
  <2> QED
    BY <2>4, <2>6 DEF ProcessorTyped
<1>5. CASE isr_handler \/ EndOfInterrupt \/ Return
  BY <1>0, <1>5 DEF isr_handler, EndOfInterrupt, Return, idt, ProcessorTyped, Stages
<1>6. ASSUME NEW t, NEW p, SwitchTo(t, p) PROVE cpu' \in Stages /\ iflag' \in BOOLEAN
  BY <1>6 DEF SwitchTo, Stages, ProcessorTyped
<1>7. CASE Sleep
  BY <1>0, <1>6, <1>7 DEF Sleep, ProcessorTyped
<1>8. CASE TimerCallback
  <2>1. cpu' \in Stages /\ iflag' \in BOOLEAN
    BY <1>6, <1>8 DEF TimerCallback, Stages, ProcessorTyped
  <2>2. UNCHANGED <<gates, irr, cause, vector>>
    BY <1>0, <1>8 DEF TimerCallback
  <2> QED
    BY <2>1, <2>2 DEF ProcessorTyped
<1>9. CASE OtherHandler
  BY <1>0, <1>9 DEF OtherHandler, ProcessorTyped, Stages
<1>10. CASE UNCHANGED interrupts
  BY <1>0, <1>10 DEF interrupts, ProcessorTyped
<1> QED
  BY <1>1, <1>2, <1>3, <1>4, <1>5, <1>7, <1>8, <1>9, <1>10
     DEF Next, Processor, Spawn, Kill, Help, PagerWait, KeyTaken, Stopped, vars

LEMMA TypedStarts == Init => Typed
<1> SUFFICES ASSUME Init PROVE Typed
  OBVIOUS
<1>1. ProcessorTyped
  <2>1. /\ gates = {} /\ irr = {} /\ iflag = FALSE
        /\ cpu = "run" /\ vector = 0 /\ cause = NoCause
    BY DEF Init, InterruptsInit
  <2>2. iflag \in BOOLEAN /\ cpu \in Stages
    BY <2>1 DEF Stages
  <2>3. vector \in 0 .. 255 /\ gates \subseteq 0 .. 255 /\ irr \subseteq Lines
    BY <2>1
  <2>4. cause \in {NoCause, TrapCause} \cup 0 .. 15
    BY <2>1
  <2> QED
    BY <2>2, <2>3, <2>4 DEF ProcessorTyped
<1>2. LogTyped
  BY KlogSize DEF Init, KlogInit, LogTyped, Entries
<1>3. ThreadsTyped
  BY ThreadsAssumption DEF Init, ThreadsTyped, Threads, Places
<1> QED
  BY <1>1, <1>2, <1>3 DEF Typed

LEMMA TypedAlways == Spec => []Typed
<1>1. BootInv /\ Typed /\ [Next]_vars => Typed'
  BY LogSteps, LogStepTyped, ThreadsStepTyped, ProcessorStepTyped DEF Typed
<1> QED
  BY <1>1, TypedStarts, BootAlways, PTL DEF Spec

-----------------------------------------------------------------------------
(* The kernel log.  Until the ring has filled, the next entry is the one     *)
(* after the last message; from then on it holds the oldest.                 *)

RingInv == klog_total < KLOG_MAX_ENTRIES => klog_head = klog_total

LEMMA RingSteps ==
    ASSUME LogTyped, RingInv, UNCHANGED log \/ klog_init \/ \E m \in Messages : klog(m)
    PROVE  RingInv'
<1>1. CASE UNCHANGED log
  BY <1>1 DEF log, RingInv
<1>2. CASE klog_init
  BY <1>2 DEF klog_init, RingInv
<1>3. ASSUME NEW m \in Messages, klog(m) PROVE RingInv'
  <2> SUFFICES ASSUME klog_total' < KLOG_MAX_ENTRIES PROVE klog_head' = klog_total'
    BY DEF RingInv
  <2>1. klog_total + 1 < KLOG_MAX_ENTRIES /\ klog_total' = klog_total + 1
    BY <1>3, KlogSize DEF klog, LogTyped
  <2>2. klog_head = klog_total /\ klog_total + 1 \in 0 .. 2 * KLOG_MAX_ENTRIES - 1
    BY <2>1, KlogSize DEF RingInv, LogTyped
  <2> QED
    BY <1>3, <2>1, <2>2, WrappedAt DEF klog
<1> QED
  BY <1>1, <1>2, <1>3

\* what klog_print shows at i
LEMMA Shown ==
    ASSUME LogTyped
    PROVE  /\ klog_count \in Nat /\ klog_count = klog_total
           /\ klog_print = [i \in 1 .. klog_total |-> klog_buf[Wrapped(Start + i - 1)]]
           /\ Start \in Entries
           /\ \A i \in 1 .. klog_total : Start + i - 1 \in 0 .. 2 * KLOG_MAX_ENTRIES - 1
<1>1. klog_total \in 0 .. KLOG_MAX_ENTRIES /\ klog_head \in Entries /\ KLOG_MAX_ENTRIES \in Nat \ {0}
  BY KlogSize DEF LogTyped
<1>2. klog_count = klog_total
  BY <1>1 DEF klog_count
<1>3. Start \in Entries
  BY <1>1 DEF Start, Entries
<1> QED
  BY <1>1, <1>2, <1>3 DEF klog_print, Entries

\* before the ring has filled, a message is appended
LEMMA LogAppends ==
    ASSUME LogTyped, RingInv, klog_total < KLOG_MAX_ENTRIES, NEW m \in Messages, klog(m)
    PROVE  Dmesg!Added(m)
<1> DEFINE K == KLOG_MAX_ENTRIES
<1>0. K \in Nat \ {0} /\ klog_total \in 0 .. K - 1 /\ klog_head = klog_total
  BY KlogSize DEF LogTyped, RingInv
<1>1. /\ klog_buf' = [klog_buf EXCEPT ![klog_head] = m]
      /\ klog_total' = klog_total + 1
      /\ klog_head' = Wrapped(klog_total + 1)
  BY <1>0 DEF klog
<1>2. LogTyped'
  BY LogStepTyped
<1>3. klog_print = [i \in 1 .. klog_total |-> klog_buf[i - 1]]
  <2>1. Start = 0
    BY <1>0 DEF Start
  <2>2. \A i \in 1 .. klog_total : Wrapped(Start + i - 1) = i - 1
    BY <1>0, <2>1, WrappedAt
  <2> QED
    BY <2>2, Shown
<1>4. klog_print' = [i \in 1 .. klog_total + 1 |-> klog_buf'[i - 1]]
  <2>1. Start' = 0
    <3>1. klog_total + 1 = K => klog_head' = 0
      BY <1>0, <1>1, WrappedAt
    <3> QED
      BY <1>0, <1>1, <3>1 DEF Start
  <2>2. \A i \in 1 .. klog_total + 1 : Wrapped(0 + i - 1) = i - 1
    BY <1>0, WrappedAt
  <2>3. (klog_count)' = klog_total + 1
    BY <1>0, <1>1 DEF klog_count
  <2> QED
    BY <2>1, <2>2, <2>3 DEF klog_print, Wrapped
<1>5. klog_print' = Append(klog_print, m)
  <2>1. \A i \in 1 .. klog_total : klog_buf'[i - 1] = klog_buf[i - 1]
    BY <1>0, <1>1 DEF LogTyped, Entries
  <2>2. klog_buf'[klog_total] = m
    BY <1>0, <1>1 DEF LogTyped, Entries
  <2> QED
    BY <1>0, <1>3, <1>4, <2>1, <2>2
<1>6. Len(Append(klog_print, m)) = klog_total + 1
  BY <1>0, <1>3
<1> QED
  BY <1>0, <1>5, <1>6 DEF Dmesg!Added

\* once it has, the message takes the place of the oldest
LEMMA LogReplaces ==
    ASSUME LogTyped, klog_total = KLOG_MAX_ENTRIES, NEW m \in Messages, klog(m)
    PROVE  Dmesg!Added(m)
<1> DEFINE K == KLOG_MAX_ENTRIES
           h == klog_head
<1>0. K \in Nat \ {0} /\ h \in 0 .. K - 1
  BY KlogSize DEF LogTyped, Entries
<1>1. /\ klog_buf' = [klog_buf EXCEPT ![h] = m]
      /\ klog_total' = K
      /\ klog_head' = IF h + 1 < K THEN h + 1 ELSE 0
  BY <1>0, WrappedAt DEF klog
<1>2. klog_print = [i \in 1 .. K |-> klog_buf[Wrapped(h + i - 1)]]
  BY <1>0, Shown DEF Start
<1>3. klog_print' = [i \in 1 .. K |-> klog_buf'[Wrapped(klog_head' + i - 1)]]
  BY <1>0, <1>1 DEF klog_print, klog_count, Start, Wrapped
<1>4. \A i \in 1 .. K - 1 : klog_print'[i] = klog_print[i + 1]
  <2> SUFFICES ASSUME NEW i \in 1 .. K - 1 PROVE klog_print'[i] = klog_print[i + 1]
    OBVIOUS
  <2> DEFINE x == IF h + i < K THEN h + i ELSE h + i - K
  <2>1. Wrapped(h + (i + 1) - 1) = x
    BY <1>0, WrappedAt
  <2>2. Wrapped(klog_head' + i - 1) = x
    BY <1>0, <1>1, WrappedAt
  <2>3. x \in 0 .. K - 1 /\ x # h
    BY <1>0
  <2>4. klog_buf'[x] = klog_buf[x]
    BY <1>1, <2>3 DEF LogTyped, Entries
  <2>5. i \in 1 .. K /\ i + 1 \in 1 .. K
    BY <1>0
  <2> HIDE DEF x, K
  <2>6. klog_print'[i] = klog_buf'[Wrapped(klog_head' + i - 1)]
    BY <1>3, <2>5
  <2>7. klog_print[i + 1] = klog_buf[Wrapped(h + (i + 1) - 1)]
    BY <1>2, <2>5
  <2> QED
    BY <2>1, <2>2, <2>4, <2>6, <2>7
<1>5. klog_print'[K] = m
  <2>1. Wrapped(klog_head' + K - 1) = h
    BY <1>0, <1>1, WrappedAt
  <2>2. klog_buf'[h] = m
    BY <1>0, <1>1 DEF LogTyped, Entries
  <2> QED
    BY <1>0, <1>3, <2>1, <2>2
<1>6. DOMAIN klog_print = 1 .. K /\ DOMAIN klog_print' = 1 .. K
  BY <1>2, <1>3
<1> DEFINE s == klog_print
<1>7. s = [i \in 1 .. K |-> s[i]] /\ klog_print' = [i \in 1 .. K |-> klog_print'[i]]
  BY <1>2, <1>3
<1> HIDE DEF s, K, h
<1>8. Len(Append(s, m)) = K + 1
  BY <1>0, <1>7
<1>9. Tail(Append(s, m)) = [i \in 1 .. K |-> IF i < K THEN s[i + 1] ELSE m]
  BY <1>0, <1>7
<1>10. klog_print' = [i \in 1 .. K |-> IF i < K THEN s[i + 1] ELSE m]
  <2>1. \A i \in 1 .. K : klog_print'[i] = IF i < K THEN s[i + 1] ELSE m
    BY <1>0, <1>4, <1>5 DEF s
  <2> QED
    BY <1>7, <2>1
<1> QED
  BY <1>0, <1>8, <1>9, <1>10 DEF Dmesg!Added, s, K

LEMMA LogKept ==
    ASSUME LogTyped, RingInv, UNCHANGED log \/ klog_init \/ \E m \in Messages : klog(m)
    PROVE  [Dmesg!Next]_klog_print
<1>1. CASE UNCHANGED log
  BY <1>1 DEF log, klog_print, klog_count, Start
<1>2. CASE klog_init
  <2>1. klog_count' = 0
    BY <1>2, KlogSize DEF klog_init, klog_count
  <2>2. klog_print' = <<>>
    BY <2>1 DEF klog_print
  <2> QED
    BY <2>2 DEF Dmesg!Next, Dmesg!Emptied
<1>3. ASSUME NEW m \in Messages, klog(m) PROVE Dmesg!Added(m)
  <2>1. klog_total < KLOG_MAX_ENTRIES \/ klog_total = KLOG_MAX_ENTRIES
    BY KlogSize DEF LogTyped
  <2> QED
    BY <1>3, <2>1, LogAppends, LogReplaces
<1> QED
  BY <1>1, <1>2, <1>3 DEF Dmesg!Next

-----------------------------------------------------------------------------

(* No vector leaves the table of 256 and no message the ring, and the threads *)
(* and the one that runs agree, in every order of interrupts and switches.    *)
THEOREM BootTyped == Spec => []TypeOK
<1>1. ASSUME BootInv, Typed PROVE TypeOK
  <2>1. at \in 1 .. Len(BootOrder) + 1
    BY <1>1 DEF BootInv, Wired, BootOrder
  <2>2. DOMAIN interrupt_handlers \subseteq 0 .. 255
    BY <1>1 DEF BootInv, Wired
  <2>3. in_service \subseteq 0 .. 15
    <3>1. CASE cpu # "eoi"
      BY <1>1, <3>1 DEF BootInv, Service
    <3>2. CASE cpu = "eoi"
      <4>1. cause \in 0 .. 15
        BY <1>1, <3>2, LineNumbers DEF BootInv, Service
      <4>2. in_service \subseteq {cause, Level(cause), Cascade}
        BY <1>1, <3>2 DEF BootInv, Service
      <4> QED
        BY <4>1, <4>2 DEF Level, Cascade
    <3> QED
      BY <3>1, <3>2
  <2> QED
    BY <1>1, <2>1, <2>2, <2>3 DEF Typed, ProcessorTyped, LogTyped, ThreadsTyped, TypeOK
<1> QED
  BY <1>1, BootAlways, TypedAlways, PTL

(* dmesg shows the last messages in their order, for rings of every size and   *)
(* however often they have wrapped.                                           *)
THEOREM LogKeepsOrder == Spec => DmesgInOrder
<1>1. Init => Dmesg!Init /\ RingInv
  <2> SUFFICES ASSUME Init PROVE klog_print = <<>> /\ RingInv
    BY DEF Dmesg!Init
  <2>1. klog_head = 0 /\ klog_total = 0
    BY DEF Init, KlogInit
  <2>2. klog_count = 0
    BY <2>1, KlogSize DEF klog_count
  <2> QED
    BY <2>1, <2>2 DEF klog_print, RingInv
<1>2. Typed /\ RingInv /\ [Next]_vars => RingInv'
  BY LogSteps, RingSteps DEF Typed
<1>3. Typed /\ RingInv /\ [Next]_vars => [Dmesg!Next]_klog_print
  BY LogSteps, LogKept DEF Typed
<1> QED
  BY <1>1, <1>2, <1>3, TypedAlways, PTL DEF Spec, DmesgInOrder, Dmesg!Spec
=============================================================================
