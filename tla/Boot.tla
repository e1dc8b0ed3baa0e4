-------------------------------- MODULE Boot --------------------------------
(***************************************************************************)
(* kernel_main, and the machine it leaves running: the set-up calls in      *)
(* their order, each with its log entry, then the shell's thread and the    *)
(* tasks it spawns and kills, interrupted by the devices.  Which thread a   *)
(* timer interrupt switches to is left open (Scheduler has the table and    *)
(* the races inside schedule(), which is one step here); what matters here  *)
(* is where each thread was suspended, for that decides what happens to the *)
(* interrupt flag, that irq_handler ends the interrupt before it calls a    *)
(* handler that may not come back, and that a task which prints while help  *)
(* pages its output may halt in the pager.                                  *)
(***************************************************************************)
EXTENDS Interrupts, Klog

CONSTANTS Shell, Tasks

ASSUME ThreadsAssumption == Shell \notin Tasks
ASSUME BootMessages ==
    {"gdt_init", "idt_init", "syscall_init", "process_init", "timer_init", "keyboard_init",
     "fs_init", "online", "process spawned", "process terminated"} \subseteq Messages

VARIABLES
    at,       \* position in BootOrder
    scheduling_enabled,
    current,  \* the thread that runs, or was interrupted
    where,    \* how each other thread was suspended
    asleep,   \* tasks in process_sleep
    paging,   \* pager_enabled: help runs
    waiting   \* tasks in the hlt of the pager's keyboard_getchar

Threads == {Shell} \cup Tasks

\* "absent": not spawned yet, or killed; "new": the wrapper will start it;
\* "irq", "call": inside the timer's handler, or its own call of schedule()
Places == {"absent", "new", "irq", "call", "here"}

threads == <<current, where, asleep, paging, waiting>>
vars == <<interrupts, log, at, scheduling_enabled, threads>>

TimerFirst == <<"klog_init", "gdt_init", "timer_init", "idt_init", "syscall_init",
                "process_init", "keyboard_init", "fs_init",
                "sti", "login", "online">>

BootOrder == <<"klog_init", "gdt_init", "idt_init", "syscall_init", "process_init",
               "timer_init", "keyboard_init", "fs_init",
               "sti", "login", "online">>

Init ==
    /\ InterruptsInit /\ KlogInit
    /\ at = 1 /\ scheduling_enabled = FALSE
    /\ current = Shell /\ asleep = {} /\ paging = FALSE /\ waiting = {}
    /\ where = [t \in Threads |-> IF t = Shell THEN "here" ELSE "absent"]

-----------------------------------------------------------------------------
(* kernel_main.                                                             *)

Doing(step) ==
    /\ cpu = "run" /\ at <= Len(BootOrder) /\ BootOrder[at] = step
    /\ at' = at + 1
    /\ UNCHANGED <<threads, cause, vector, cpu>>

KlogInitStep ==
    /\ Doing("klog_init") /\ klog_init
    /\ UNCHANGED <<idt, pics, iflag, scheduling_enabled>>

IdtInit ==
    /\ Doing("idt_init") /\ idt_init /\ klog("idt_init")
    /\ UNCHANGED <<iflag, scheduling_enabled>>

\* syscall_init, timer_init, keyboard_init: a handler is registered
Registered(step) == CASE step = "syscall_init"  -> 128
                      [] step = "timer_init"    -> 32
                      [] step = "keyboard_init" -> 33

Register(step) ==
    /\ Doing(step)
    /\ register_interrupt_handler(Registered(step), step)
    /\ klog(step)
    /\ UNCHANGED <<gates, pics, iflag, scheduling_enabled>>

\* gdt_init, process_init, and pmm_init with fs_init: their state is elsewhere
Elsewhere(step) ==
    /\ Doing(step) /\ klog(step)
    /\ UNCHANGED <<idt, pics, iflag, scheduling_enabled>>

Sti ==
    /\ Doing("sti") /\ iflag' = TRUE
    /\ UNCHANGED <<idt, pics, log, scheduling_enabled>>

\* login_screen returns when the user has logged in
Login ==
    /\ Doing("login")
    /\ UNCHANGED <<idt, pics, iflag, log, scheduling_enabled>>

Online ==
    /\ Doing("online")
    /\ scheduling_enabled' = TRUE /\ klog("online")
    /\ UNCHANGED <<idt, pics, iflag>>

-----------------------------------------------------------------------------
(* Threads.                                                                 *)

\* a new command, or the end of help
ShellRuns == cpu = "run" /\ current = Shell /\ at > Len(BootOrder)

\* process_create_kernel and process_terminate, called by spawn and kill
Spawn(t) ==
    /\ ShellRuns /\ ~paging /\ where[t] = "absent"
    /\ where' = [where EXCEPT ![t] = "new"]
    /\ klog("process spawned")
    /\ UNCHANGED <<interrupts, at, scheduling_enabled, current, asleep, paging, waiting>>

Kill(t) ==
    /\ ShellRuns /\ ~paging /\ where[t] \notin {"absent", "here"}
    /\ where' = [where EXCEPT ![t] = "absent"]
    /\ asleep' = asleep \ {t} /\ waiting' = waiting \ {t}
    /\ klog("process terminated")
    /\ UNCHANGED <<interrupts, at, scheduling_enabled, current, paging>>

\* help turns the pager on, and off when it is done
Help ==
    /\ ShellRuns
    /\ paging' = ~paging
    /\ UNCHANGED <<interrupts, log, at, scheduling_enabled, current, where, asleep, waiting>>

Ready(sleepers) == {t \in Threads : where[t] \notin {"absent", "here"} /\ t \notin sleepers}

(* The current thread is left at place p for t, which goes on as it was        *)
(* suspended: a new one in the wrapper, which executes sti; one that an         *)
(* interrupt suspended at the end of its handler; one that called schedule() in *)
(* its own code, with the interrupt flag as it is.                              *)
SwitchTo(t, p) ==
    /\ current' = t
    /\ where' = [where EXCEPT ![current] = p, ![t] = "here"]
    /\ cpu' = IF where[t] = "irq" THEN "return" ELSE "run"
    /\ iflag' = (iflag \/ where[t] = "new")

TaskRuns == cpu = "run" /\ current # Shell /\ current \notin waiting

\* process_sleep by a task.  The shell's thread never calls schedule().
Sleep ==
    /\ TaskRuns
    /\ asleep' = asleep \cup {current}
    /\ \E t \in Ready(asleep) : SwitchTo(t, "call")
    /\ UNCHANGED <<idt, pics, cause, vector, log, at, scheduling_enabled, paging, waiting>>

\* a task prints the line at which the pager asks for a key, and there is none
PagerWait ==
    /\ TaskRuns /\ paging
    /\ waiting' = waiting \cup {current}
    /\ UNCHANGED <<interrupts, log, at, scheduling_enabled, current, where, asleep, paging>>

\* a key is there: it took an interrupt, or lay in the ring when the pager asked
KeyTaken ==
    /\ \/ TaskRuns /\ paging
       \/ cpu = "run" /\ current \in waiting /\ iflag
    /\ waiting' = waiting \ {current}
    /\ paging' \in {paging, FALSE}
    /\ UNCHANGED <<interrupts, log, at, scheduling_enabled, current, where, asleep>>

\* timer_callback: some sleepers wake, and schedule() may switch
TimerCallback ==
    /\ cpu = "handler" /\ Called = "timer_init"
    /\ \E woken \in SUBSET asleep :
          /\ asleep' = asleep \ woken
          /\ \/ /\ cpu' = "return"
                /\ UNCHANGED <<iflag, current, where>>
             \/ /\ scheduling_enabled
                /\ \E t \in Ready(asleep \ woken) : SwitchTo(t, "irq")
    /\ UNCHANGED <<idt, pics, cause, vector, log, at, scheduling_enabled, paging, waiting>>

\* the keyboard's handler, or none: nothing that is modelled here
OtherHandler ==
    /\ cpu = "handler" /\ Called # "timer_init"
    /\ cpu' = "return"
    /\ UNCHANGED <<idt, pics, iflag, cause, vector, log, at, scheduling_enabled, threads>>

-----------------------------------------------------------------------------

Outside == UNCHANGED <<log, at, scheduling_enabled, threads>>

Devices == \E l \in Lines : Raise(l) /\ Outside

\* exceptions and traps come from commands, which run once the machine is up
Commands ==
    /\ at > Len(BootOrder) /\ current \notin waiting
    /\ \E v \in Traps : Trap(v) /\ Outside

Processor ==
    /\ \/ \E l \in Lines : Interrupt(l) \/ Spurious(l)
       \/ isr_handler
       \/ EndOfInterrupt
       \/ Return
    /\ Outside

kernel_main ==
    \/ KlogInitStep \/ IdtInit \/ Sti \/ Login \/ Online
    \/ \E step \in {"syscall_init", "timer_init", "keyboard_init"} : Register(step)
    \/ \E step \in {"gdt_init", "process_init", "fs_init"} : Elsewhere(step)

\* the pager's hlt with interrupts off, in a task that schedule() resumed
HaltedInPager == cpu = "run" /\ current \in waiting /\ ~iflag

\* for ever: that hlt, the panic's, or the machine's reset
Stopped == (cpu \in {"panic", "reset"} \/ HaltedInPager) /\ UNCHANGED vars

Next ==
    \/ kernel_main \/ Devices \/ Commands \/ Processor
    \/ Sleep \/ PagerWait \/ KeyTaken \/ TimerCallback \/ OtherHandler
    \/ Help \/ \E t \in Tasks : Spawn(t) \/ Kill(t)
    \/ Stopped

Spec == Init /\ [][Next]_vars

(* The processor goes on with what it is at and takes interrupts.  A task gets  *)
(* to its process_sleep, as the demo tasks do in each round of their loops, or   *)
(* on the way, printing, to the pager's hlt.  No key is owed.                    *)
FairSpec ==
    /\ Spec
    /\ WF_vars((EndOfInterrupt \/ Return \/ isr_handler) /\ Outside)
    /\ WF_vars(TimerCallback \/ OtherHandler)
    /\ WF_vars(Sleep \/ PagerWait)
    /\ WF_vars(kernel_main)
    /\ \A l \in Lines : WF_vars(Interrupt(l) /\ Outside)

-----------------------------------------------------------------------------
(* Properties.                                                              *)

TypeOK ==
    /\ gates \subseteq 0 .. 255 /\ DOMAIN interrupt_handlers \subseteq 0 .. 255
    /\ irr \subseteq Lines /\ in_service \subseteq 0 .. 15
    /\ iflag \in BOOLEAN /\ cpu \in Stages /\ vector \in 0 .. 255
    /\ cause \in {NoCause, TrapCause} \cup 0 .. 15
    /\ klog_buf \in [Entries -> Messages \cup {NoMessage}]
    /\ klog_head \in Entries /\ klog_total \in 0 .. KLOG_MAX_ENTRIES
    /\ at \in 1 .. Len(BootOrder) + 1 /\ scheduling_enabled \in BOOLEAN
    /\ current \in Threads /\ where \in [Threads -> Places]
    /\ asleep \subseteq Tasks /\ waiting \subseteq Tasks /\ paging \in BOOLEAN
    /\ \A t \in Threads : where[t] = "here" <=> t = current

Driver(l) == CASE l = Timer -> "timer_init" [] l = Keyboard -> "keyboard_init"
               [] OTHER -> NoHandler

(* A line that a device raises reaches its driver's handler, whatever stage the *)
(* boot has reached when interrupts come on, and never ends in a panic: the     *)
(* controllers' vectors, the gates and the handlers agree (idt.c, kernel.c).    *)
LinesReachDrivers ==
    cause \in Lines =>
        /\ cpu \notin {"isr", "panic", "reset"}
        /\ cpu = "handler" => Called = Driver(cause)

(* No thread runs while a line waits for its end of interrupt, though the       *)
(* timer's handler returns in another thread than the one it interrupted, and   *)
(* a spurious interrupt has nothing to end (irq_handler, idt.c:134).            *)
NothingInService == cpu \in {"run", "handler", "return"} => in_service = {}

(* dmesg shows the last messages in the order in which they were logged, before *)
(* and after the ring has wrapped (klog.c:17, 33).                              *)
DmesgInOrder == Dmesg!Spec

(* A raised line waits only for lines of higher priority, unless the machine    *)
(* stops: no device is lost for want of an end of interrupt, and a task that    *)
(* its own schedule() call resumed, which runs with interrupts off (isr.s,      *)
(* process.c:194), sleeps and lets the timer in again.  It does not if it       *)
(* halts in the pager on the way (vga.c:64): that too stops the machine.        *)
LinesServed ==
    \A l \in Lines : l \in irr ~> \/ l \notin irr
                                 \/ \E k \in irr : Priority(k) < Priority(l)
                                 \/ cpu \in {"panic", "reset"} \/ HaltedInPager

(* README.md:73: the system calls are accessible via int 0x80.  Where 128 is   *)
(* the only trap, every entry that a thread causes is an int 0x80, and the       *)
(* handler for its vector is the one that syscall_init has registered.           *)
SyscallReachesHandler == (Traps = {128} /\ cause = TrapCause) => Called = "syscall_init"
=============================================================================
