------------------------------ MODULE Scheduler ------------------------------
(***************************************************************************)
(* The process table and the round-robin scheduler of the kernel:          *)
(* process.c, timer.c, context_switch.s and the interrupt return path of   *)
(* isr.s, on one CPU, together with the shell commands that create and     *)
(* stop processes.                                                         *)
(*                                                                         *)
(* A thread is a flow of control with a stack of its own: the boot/shell   *)
(* thread (Shell, which is also pid 1) and one thread per spawned task,    *)
(* named by the pid the task was given.  Thread code runs one step at a    *)
(* time; between two steps the timer interrupt may be taken whenever the   *)
(* interrupt flag is set.  The handler runs with interrupts off (the IDT   *)
(* holds interrupt gates), so it is one atomic step.                       *)
(***************************************************************************)
EXTENDS Integers, FiniteSets, FiniteSetsExt

CONSTANTS
    NSlots,       \* MAX_PROCESSES
    SliceTicks,   \* TIME_SLICE_TICKS
    TickMod,      \* number of values of the uint32_t tick counter (2^32)
    SleepTicks,   \* arguments tasks pass to process_sleep
    Pages,        \* page frames pmm_alloc_page can hand out (never frame 0)
    MaxPid,       \* bound: no process is created once next_pid exceeds it
    TasksReturn   \* whether a task's entry function may return

ASSUME SlotsAssumption == NSlots \in Nat /\ NSlots >= 2
ASSUME TimeAssumption  ==
    /\ SliceTicks \in Nat \ {0} /\ TickMod \in Nat /\ TickMod >= 2
    /\ SleepTicks \subseteq Nat \ {0}
ASSUME PagesAssumption == Pages \subseteq Nat \ {0} /\ IsFiniteSet(Pages)
ASSUME BoundAssumption == MaxPid \in Nat /\ MaxPid >= 1 /\ TasksReturn \in BOOLEAN

Slots     == 0 .. NSlots - 1
NoSlot    == -1
Kernel    == 0              \* slot of the "kernel" entry, pid 0
Shell     == 1              \* slot, pid and thread of the shell
Threads   == 1 .. MaxPid
NoContext == 0              \* a saved_esp under which no suspended context lies
NoPage    == 0              \* kstack == 0

ProcStates == {"UNUSED", "RUNNING", "READY", "BLOCKED", "TERMINATED"}

(* Where a thread is.  "entry": process_entry_wrapper about to call entry;  *)
(* "work": task or shell code that leaves the table alone, as all that a      *)
(* task prints; "key": inside such a print, in the hlt loop in which the     *)
(* console's pager waits for a key; "arm": inside process_sleep after state  *)
(* = BLOCKED; "halt": the hlt loop of process_sleep; "scan" to "switch":     *)
(* inside schedule(); "term" to "zombie": the wrapper after the task         *)
(* returned; "stack": inside process_create_kernel after in_use = 1; "free": *)
(* inside process_terminate before pmm_free_page.                            *)
Points == {"entry", "work", "key", "arm", "halt", "scan", "mark", "setcur", "load",
           "switch", "term", "clear", "zombie", "stack", "free"}

\* how a thread's context was left: not suspended, made by
\* process_create_kernel, by its own schedule() call, by the timer interrupt
Frames == {"none", "fresh", "call", "irq"}

VARIABLES
    \* proc_table[], one function per field
    pid, state, in_use, wake_tick, kstack, saved_esp,
    \* the other statics of process.c, timer.c and pmm.c
    current_pid, next_pid, tick, slice_counter, used_pages,
    \* the processor: the thread it runs, EFLAGS.IF, and whether it has
    \* loaded a stack pointer under which no context lies
    cpu, iflag, wild,
    \* the console's pager_enabled
    paging,
    \* each thread: position, how it was suspended, where its schedule()
    \* call returns to, the slot and next_slot locals, the stack pointer
    \* pushed for context_switch, and the p of process_entry_wrapper
    pc, frame, home, slot, next_slot, new_esp, self,
    \* history: a slice ended, and switched, inside one of RaceWindows
    raced

table    == <<pid, state, in_use, wake_tick, kstack, saved_esp>>
clock    == <<tick, slice_counter>>
machine  == <<cpu, iflag, wild, paging, raced>>
locals   == <<pc, frame, home, slot, next_slot, new_esp, self>>
system   == <<table, current_pid, next_pid, clock, used_pages, machine>>
vars     == <<table, current_pid, next_pid, clock, used_pages, machine, locals>>

Init ==
    /\ pid           = [s \in Slots |-> IF s = Shell THEN 1 ELSE 0]
    /\ state         = [s \in Slots |-> IF s <= Shell THEN "RUNNING" ELSE "UNUSED"]
    /\ in_use        = [s \in Slots |-> s <= Shell]
    /\ wake_tick     = [s \in Slots |-> 0]
    /\ kstack        = [s \in Slots |-> NoPage]
    /\ saved_esp     = [s \in Slots |-> NoContext]
    /\ current_pid   = 1
    /\ next_pid      = 2
    /\ tick          = 0
    /\ slice_counter = 0
    /\ used_pages    = {}
    /\ cpu = Shell /\ iflag = TRUE /\ wild = FALSE
    /\ paging = FALSE /\ raced = FALSE
    /\ pc        = [t \in Threads |-> IF t = Shell THEN "work" ELSE "entry"]
    /\ frame     = [t \in Threads |-> "none"]
    /\ home      = [t \in Threads |-> "work"]
    /\ slot      = [t \in Threads |-> NoSlot]
    /\ next_slot = [t \in Threads |-> NoSlot]
    /\ new_esp   = [t \in Threads |-> NoContext]
    /\ self      = [t \in Threads |-> NoSlot]

-----------------------------------------------------------------------------
(* Table lookups and small computations.                                    *)

\* find_slot_by_pid: the first slot in use with that pid
FindSlot(p) ==
    LET S == {s \in Slots : in_use[s] /\ pid[s] = p}
    IN  IF S = {} THEN NoSlot ELSE Min(S)

(* Faulty variants, each of one operator defined further down.  They model no *)
(* code; putting one in the place of its original must break a property.     *)
CurSlotLost == Kernel
NextUnblocked(c, st) ==
    LET D == {i \in 1 .. NSlots : /\ in_use[(c + i) % NSlots]
                                  /\ st[(c + i) % NSlots] # "BLOCKED"}
    IN  IF D = {} THEN NoSlot ELSE (c + Min(D)) % NSlots
NextSkipsOne(c, st) ==
    LET D == {i \in 2 .. NSlots : /\ in_use[(c + i) % NSlots]
                                  /\ st[(c + i) % NSlots] = "READY"}
    IN  IF D = {} THEN NoSlot ELSE (c + Min(D)) % NSlots
MarkedNextOnly(c, n, st) == [st EXCEPT ![n] = "RUNNING"]
KillableOrShell(p) == p > 0 /\ FindSlot(p) # NoSlot
MayBlockAny == FindSlot(current_pid) # NoSlot
DeadlineUnwrapped(n) == tick + n
SamePid  == next_pid
StackKept(s)     == kstack
DueLater(s, now) == /\ in_use[s] /\ state[s] = "BLOCKED"
                    /\ wake_tick[s] # 0 /\ now > wake_tick[s]

\* schedule(): the slot of current_pid, or slot 0 when there is none
CurSlot == IF FindSlot(current_pid) = NoSlot THEN Kernel ELSE FindSlot(current_pid)

\* schedule()'s scan: the first READY slot after c, wrapping round to c itself
NextReady(c, st) ==
    LET D == {i \in 1 .. NSlots : /\ in_use[(c + i) % NSlots]
                                  /\ st[(c + i) % NSlots] = "READY"}
    IN  IF D = {} THEN NoSlot ELSE (c + Min(D)) % NSlots

\* schedule()'s two state stores
Marked(c, n, st) ==
    [st EXCEPT ![c] = IF @ = "RUNNING" THEN "READY" ELSE @, ![n] = "RUNNING"]

\* process_terminate and cmd_kill accept pid p
Killable(p) == p > 1 /\ FindSlot(p) # NoSlot

\* process_sleep blocks the caller; pid 0 and 1 may not be blocked
MayBlock == FindSlot(current_pid) # NoSlot /\ current_pid > 1

\* process_sleep's wake_tick, in uint32_t arithmetic
Deadline(n) == (tick + n) % TickMod

\* next_pid++
AfterPid == next_pid + 1

\* process_terminate's kstack = 0
StackReleased(s) == [kstack EXCEPT ![s] = NoPage]

FreePages == Pages \ used_pages

Running(t, p) == ~wild /\ cpu = t /\ pc[t] = p

(* context_switch(&saved_esp[c], x) executed by thread t, the interrupt flag  *)
(* being f: t's context is now under saved_esp[c], and the thread suspended   *)
(* under x runs.  It has its interrupts on if it left through the timer       *)
(* interrupt (iret) or starts in the wrapper (sti); a thread that left        *)
(* through its own schedule() call keeps the flag it is handed.  Every other  *)
(* copy of x is from now on the address of a frame that has been popped.      *)
ContextSwitch(t, c, x, kind, f) ==
    IF x = NoContext
    THEN /\ wild' = TRUE
         /\ saved_esp' = [saved_esp EXCEPT ![c] = t]
         /\ UNCHANGED <<cpu, iflag, frame, new_esp>>
    ELSE /\ cpu'   = x
         /\ iflag' = (f \/ frame[x] # "call")
         /\ frame' = [frame EXCEPT ![t] = kind, ![x] = "none"]
         /\ saved_esp' = [s \in Slots |-> IF s = c THEN t
                                          ELSE IF saved_esp[s] = x THEN NoContext
                                          ELSE saved_esp[s]]
         /\ new_esp' = [u \in Threads |-> IF u = t \/ new_esp[u] = x
                                          THEN NoContext ELSE new_esp[u]]
         /\ wild'  = FALSE

-----------------------------------------------------------------------------
(* Shell commands: spawn, kill, alloc, help.  While help pages the shell is  *)
(* inside it and runs no other.                                              *)

\* process_create_kernel up to in_use = 1.  The slot is invisible to everyone
\* else until in_use is set, so the stores before it are one step with it.
SpawnPublish ==
    /\ Running(Shell, "work") /\ ~paging
    /\ next_pid <= MaxPid
    /\ FreePages # {}
    /\ \E s \in Slots :
          /\ ~in_use[s] /\ \A r \in Slots : r < s => in_use[r]
          /\ pid'       = [pid EXCEPT ![s] = next_pid]
          /\ state'     = [state EXCEPT ![s] = "READY"]
          /\ wake_tick' = [wake_tick EXCEPT ![s] = 0]
          /\ kstack'    = [kstack EXCEPT ![s] = Min(FreePages)]
          /\ in_use'    = [in_use EXCEPT ![s] = TRUE]
          /\ slot'      = [slot EXCEPT ![Shell] = s]
    /\ used_pages' = used_pages \cup {Min(FreePages)}
    /\ next_pid'   = AfterPid
    /\ pc'         = [pc EXCEPT ![Shell] = "stack"]
    /\ UNCHANGED <<saved_esp, current_pid, clock, machine, frame, home,
                   next_slot, new_esp, self>>

\* the rest of process_create_kernel: the initial frame, then saved_esp
SpawnStack ==
    /\ Running(Shell, "stack")
    /\ saved_esp' = [saved_esp EXCEPT ![slot[Shell]] = pid[slot[Shell]]]
    /\ frame'     = [frame EXCEPT ![pid[slot[Shell]]] = "fresh"]
    /\ slot'      = [slot EXCEPT ![Shell] = NoSlot]
    /\ pc'        = [pc EXCEPT ![Shell] = "work"]
    /\ UNCHANGED <<pid, state, in_use, wake_tick, kstack, current_pid,
                   next_pid, clock, used_pages, machine, home, next_slot,
                   new_esp, self>>

\* process_terminate up to in_use = 0, called by cmd_kill
Kill(p) ==
    /\ Running(Shell, "work") /\ ~paging
    /\ Killable(p)
    /\ state'  = [state EXCEPT ![FindSlot(p)] = "TERMINATED"]
    /\ in_use' = [in_use EXCEPT ![FindSlot(p)] = FALSE]
    /\ slot'   = [slot EXCEPT ![Shell] = FindSlot(p)]
    /\ pc'     = [pc EXCEPT ![Shell] = "free"]
    /\ UNCHANGED <<pid, wake_tick, kstack, saved_esp, current_pid, next_pid,
                   clock, used_pages, machine, frame, home, next_slot, new_esp,
                   self>>

\* the rest of process_terminate: pmm_free_page.  Nothing lies on the freed
\* stack any more, so every stack pointer into it becomes NoContext.
KillFree ==
    LET s == slot[Shell]  dead == pid[slot[Shell]]
    IN  /\ Running(Shell, "free")
        /\ used_pages' = used_pages \ {kstack[s]}
        /\ kstack'     = StackReleased(s)
        /\ saved_esp'  = [r \in Slots |-> IF saved_esp[r] = dead THEN NoContext
                                          ELSE saved_esp[r]]
        /\ new_esp'    = [t \in Threads |-> IF new_esp[t] = dead THEN NoContext
                                            ELSE new_esp[t]]
        /\ frame'      = [frame EXCEPT ![dead] = "none"]
        /\ slot'       = [slot EXCEPT ![Shell] = NoSlot]
        /\ pc'         = [pc EXCEPT ![Shell] = "work"]
        /\ UNCHANGED <<pid, state, in_use, wake_tick, current_pid, next_pid,
                       clock, machine, home, next_slot, self>>

\* the shell's alloc command takes a page and keeps it
ShellAlloc ==
    /\ Running(Shell, "work") /\ ~paging
    /\ FreePages # {}
    /\ used_pages' = used_pages \cup {Min(FreePages)}
    /\ UNCHANGED <<table, current_pid, next_pid, clock, machine, locals>>

\* help switches the pager on, prints, and switches it off; where the shell
\* itself waits for the pager's key it has its interrupts on, and is at work
Help ==
    /\ Running(Shell, "work")
    /\ paging' = ~paging
    /\ UNCHANGED <<table, current_pid, next_pid, clock, used_pages, cpu, iflag,
                   wild, raced, locals>>

-----------------------------------------------------------------------------
(* The wrapper a task runs in.                                              *)

\* process_entry_wrapper: p = process_get_current(), then p->entry() if there
\* is a p and it has an entry, which the kernel and shell slots have not
EnterTask(t) ==
    /\ Running(t, "entry")
    /\ self' = [self EXCEPT ![t] = FindSlot(current_pid)]
    /\ pc'   = [pc EXCEPT ![t] = IF self'[t] = NoSlot THEN "zombie"
                                 ELSE IF self'[t] <= Shell THEN "term" ELSE "work"]
    /\ home' = [home EXCEPT ![t] = IF self'[t] = NoSlot THEN "zombie" ELSE "work"]
    /\ UNCHANGED <<system, frame, slot, next_slot, new_esp>>

\* entry() returned to the wrapper
ReturnFromTask(t) ==
    /\ TasksReturn /\ t # Shell
    /\ Running(t, "work")
    /\ pc' = [pc EXCEPT ![t] = "term"]
    /\ UNCHANGED <<system, frame, home, slot, next_slot, new_esp, self>>

\* p->state = PROC_TERMINATED
MarkTerminated(t) ==
    /\ Running(t, "term")
    /\ state' = [state EXCEPT ![self[t]] = "TERMINATED"]
    /\ pc'    = [pc EXCEPT ![t] = "clear"]
    /\ UNCHANGED <<pid, in_use, wake_tick, kstack, saved_esp, current_pid,
                   next_pid, clock, used_pages, machine, frame, home, slot,
                   next_slot, new_esp, self>>

\* p->in_use = 0, then the loop of process_yield calls
ClearInUse(t) ==
    /\ Running(t, "clear")
    /\ in_use' = [in_use EXCEPT ![self[t]] = FALSE]
    /\ pc'     = [pc EXCEPT ![t] = "zombie"]
    /\ home'   = [home EXCEPT ![t] = "zombie"]
    /\ UNCHANGED <<pid, state, wake_tick, kstack, saved_esp, current_pid,
                   next_pid, clock, used_pages, machine, frame, slot,
                   next_slot, new_esp, self>>

ZombieYield(t) ==
    /\ Running(t, "zombie")
    /\ pc' = [pc EXCEPT ![t] = "scan"]
    /\ UNCHANGED <<system, frame, home, slot, next_slot, new_esp, self>>

-----------------------------------------------------------------------------
(* A task prints while help pages.                                          *)

\* terminal_putchar counts a task's newline too: the task stops in the pager,
\* no key being there, in keyboard_getchar's hlt
PagerWait(t) ==
    /\ paging /\ t # Shell
    /\ Running(t, "work")
    /\ pc' = [pc EXCEPT ![t] = "key"]
    /\ UNCHANGED <<system, frame, home, slot, next_slot, new_esp, self>>

\* a key, 'q' or another: one that is pressed now, which takes an interrupt,
\* or one that lay in the keyboard's ring when the pager asked
KeyTaken(t) ==
    /\ t # Shell
    /\ (Running(t, "key") /\ iflag) \/ (Running(t, "work") /\ paging)
    /\ paging' \in {paging, FALSE}
    /\ pc' = [pc EXCEPT ![t] = "work"]
    /\ UNCHANGED <<table, current_pid, next_pid, clock, used_pages, cpu, iflag,
                   wild, raced, frame, home, slot, next_slot, new_esp, self>>

-----------------------------------------------------------------------------
(* process_sleep.                                                           *)

\* the slot is found and blocked; the deadline is the next step
SleepBlock(t) ==
    /\ Running(t, "work")
    /\ MayBlock
    /\ slot'  = [slot EXCEPT ![t] = FindSlot(current_pid)]
    /\ state' = [state EXCEPT ![FindSlot(current_pid)] = "BLOCKED"]
    /\ pc'    = [pc EXCEPT ![t] = "arm"]
    /\ UNCHANGED <<pid, in_use, wake_tick, kstack, saved_esp, current_pid,
                   next_pid, clock, used_pages, machine, frame, home,
                   next_slot, new_esp, self>>

SleepArm(t) ==
    /\ Running(t, "arm")
    /\ \E n \in SleepTicks :
          wake_tick' = [wake_tick EXCEPT ![slot[t]] = Deadline(n)]
    /\ slot' = [slot EXCEPT ![t] = NoSlot]
    /\ pc'   = [pc EXCEPT ![t] = "scan"]
    /\ UNCHANGED <<pid, state, in_use, kstack, saved_esp, current_pid,
                   next_pid, clock, used_pages, machine, frame, home,
                   next_slot, new_esp, self>>

\* pid 0 and 1, or a pid that is in no slot, wait in a hlt loop instead
SleepBusy(t) ==
    /\ Running(t, "work")
    /\ ~MayBlock
    /\ pc' = [pc EXCEPT ![t] = "halt"]
    /\ UNCHANGED <<system, frame, home, slot, next_slot, new_esp, self>>

\* the loop ends after some ticks, which come only while interrupts are on
HaltDone(t) ==
    /\ Running(t, "halt")
    /\ iflag
    /\ pc' = [pc EXCEPT ![t] = "work"]
    /\ UNCHANGED <<system, frame, home, slot, next_slot, new_esp, self>>

-----------------------------------------------------------------------------
(* schedule() called by a thread: the timer may be taken between any two of *)
(* its steps when the interrupt flag is set.                                *)

\* cur_slot, the scan, and the two early returns
Scan(t) ==
    LET n == NextReady(CurSlot, state)
    IN  /\ Running(t, "scan")
        /\ IF n = NoSlot \/ n = CurSlot
           THEN /\ pc' = [pc EXCEPT ![t] = home[t]]
                /\ UNCHANGED <<slot, next_slot>>
           ELSE /\ pc'        = [pc EXCEPT ![t] = "mark"]
                /\ slot'      = [slot EXCEPT ![t] = CurSlot]
                /\ next_slot' = [next_slot EXCEPT ![t] = n]
        /\ UNCHANGED <<system, frame, home, new_esp, self>>

Mark(t) ==
    /\ Running(t, "mark")
    /\ state' = Marked(slot[t], next_slot[t], state)
    /\ pc'    = [pc EXCEPT ![t] = "setcur"]
    /\ UNCHANGED <<pid, in_use, wake_tick, kstack, saved_esp, current_pid,
                   next_pid, clock, used_pages, machine, frame, home, slot,
                   next_slot, new_esp, self>>

SetCurrent(t) ==
    /\ Running(t, "setcur")
    /\ current_pid' = pid[next_slot[t]]
    /\ pc'          = [pc EXCEPT ![t] = "load"]
    /\ UNCHANGED <<table, next_pid, clock, used_pages, machine, frame, home,
                   slot, next_slot, new_esp, self>>

\* proc_table[next_slot].saved_esp is pushed as context_switch's argument
LoadEsp(t) ==
    /\ Running(t, "load")
    /\ new_esp' = [new_esp EXCEPT ![t] = saved_esp[next_slot[t]]]
    /\ pc'      = [pc EXCEPT ![t] = "switch"]
    /\ UNCHANGED <<system, frame, home, slot, next_slot, self>>

Switch(t) ==
    /\ Running(t, "switch")
    /\ ContextSwitch(t, slot[t], new_esp[t], "call", iflag)
    /\ pc'        = [pc EXCEPT ![t] = home[t]]
    /\ slot'      = [slot EXCEPT ![t] = NoSlot]
    /\ next_slot' = [next_slot EXCEPT ![t] = NoSlot]
    /\ UNCHANGED <<pid, state, in_use, wake_tick, kstack, current_pid,
                   next_pid, clock, used_pages, paging, raced, home,
                   self>>

-----------------------------------------------------------------------------
(* The timer interrupt.                                                     *)

\* process_tick: sleepers whose deadline has come
Due(s, now) == /\ in_use[s] /\ state[s] = "BLOCKED"
               /\ wake_tick[s] # 0 /\ now >= wake_tick[s]

AfterTick(now) == [s \in Slots |-> IF Due(s, now) THEN "READY" ELSE state[s]]

\* points at which a switch by the timer disturbs a table update in progress
RaceWindows == {"arm", "mark", "setcur", "load", "switch", "stack"}

\* timer_callback, and the schedule() call it makes when the slice is over
TimerIrq ==
    LET now == (tick + 1) % TickMod
        st  == AfterTick(now)
        c   == CurSlot
        n   == NextReady(c, st)
    IN  /\ ~wild /\ iflag
        /\ tick' = now
        /\ wake_tick' = [s \in Slots |-> IF Due(s, now) THEN 0 ELSE wake_tick[s]]
        /\ slice_counter' = IF slice_counter + 1 >= SliceTicks THEN 0
                            ELSE slice_counter + 1
        /\ IF slice_counter + 1 < SliceTicks \/ n = NoSlot \/ n = c
           THEN /\ state' = st
                /\ UNCHANGED <<saved_esp, current_pid, machine, frame,
                               new_esp>>
           ELSE /\ state' = Marked(c, n, st)
                /\ current_pid' = pid[n]
                /\ ContextSwitch(cpu, c, saved_esp[n], "irq", FALSE)
                /\ raced' = (raced \/ pc[cpu] \in RaceWindows)
                /\ UNCHANGED paging
        /\ UNCHANGED <<pid, in_use, kstack, next_pid, used_pages, pc, home,
                       slot, next_slot, self>>

-----------------------------------------------------------------------------
ShellCommand ==
    SpawnPublish \/ (\E p \in Threads : Kill(p)) \/ ShellAlloc \/ Help

\* what the running thread t does next of itself
Step(t) ==
    \/ t = Shell /\ (SpawnStack \/ KillFree)
    \/ EnterTask(t) \/ MarkTerminated(t) \/ ClearInUse(t) \/ ZombieYield(t)
    \/ SleepArm(t) \/ HaltDone(t)
    \/ Scan(t) \/ Mark(t) \/ SetCurrent(t) \/ LoadEsp(t) \/ Switch(t)
    \/ t # Shell /\ (SleepBlock(t) \/ SleepBusy(t) \/ PagerWait(t))

Next ==
    \/ ShellCommand
    \/ \E t \in Threads : \/ Step(t) \/ ReturnFromTask(t) \/ KeyTaken(t)
                          \/ SleepBlock(t) \/ SleepBusy(t)
    \/ TimerIrq

Spec == Init /\ [][Next]_vars

(* The 100 Hz clock does not stop, and a thread that gets the processor again *)
(* and again executes its instructions: a slice is ten ticks of 10 ms.  A     *)
(* task at work gets to its process_sleep or, printing, to the pager's hlt.   *)
(* What the user types is not owed, the key the pager waits for included: a   *)
(* task may stay in that hlt for ever.  CanTick is ENABLED TimerIrq and       *)
(* CanStep(t) ENABLED Step(t): the first conjunct is the weak fairness of     *)
(* TimerIrq, the second the strong fairness of Step(t).                       *)
CanTick == ~wild /\ iflag

CanStep(t) == /\ ~wild /\ cpu = t
              /\ pc[t] # "key"
              /\ pc[t] = "work" => t # Shell
              /\ pc[t] = "halt" => iflag

Fairness == /\ <>[]CanTick => []<><<TimerIrq>>_vars
            /\ \A t \in Threads : []<>CanStep(t) => []<><<Step(t)>>_vars

FairSpec == Spec /\ Fairness

-----------------------------------------------------------------------------
TableType ==
    /\ pid       \in [Slots -> 0 .. MaxPid]
    /\ state     \in [Slots -> ProcStates]
    /\ in_use    \in [Slots -> BOOLEAN]
    /\ wake_tick \in [Slots -> 0 .. TickMod - 1]
    /\ kstack    \in [Slots -> Pages \cup {NoPage}]
    /\ saved_esp \in [Slots -> Threads \cup {NoContext}]

StaticsType ==
    /\ current_pid \in 0 .. MaxPid
    /\ next_pid \in 2 .. MaxPid + 1
    /\ tick \in 0 .. TickMod - 1
    /\ slice_counter \in 0 .. SliceTicks - 1
    /\ used_pages \subseteq Pages

MachineType == cpu \in Threads /\ {iflag, wild, paging, raced} \subseteq BOOLEAN

LocalsType ==
    /\ pc        \in [Threads -> Points]
    /\ frame     \in [Threads -> Frames]
    /\ home      \in [Threads -> {"work", "zombie"}]
    /\ slot      \in [Threads -> Slots \cup {NoSlot}]
    /\ next_slot \in [Threads -> Slots \cup {NoSlot}]
    /\ new_esp   \in [Threads -> Threads \cup {NoContext}]
    /\ self      \in [Threads -> Slots \cup {NoSlot}]

(* Every field of process_t, static and local keeps its type: in particular  *)
(* a wake_tick fits uint32_t and no index into proc_table is out of range.   *)
TypeOK == TableType /\ StaticsType /\ MachineType /\ LocalsType

(* find_slot_by_pid names one process: no two slots in use have the same   *)
(* pid, and next_pid is above every pid given out.  This is what makes kill, *)
(* and process_sleep's find_slot_by_pid(current_pid), hit the right slot.    *)
UniquePids ==
    /\ \A s \in Slots : pid[s] < next_pid
    /\ \A r, s \in Slots : in_use[r] /\ in_use[s] /\ pid[r] = pid[s] => r = s

(* process_create_kernel and process_terminate: the page under kstack is     *)
(* allocated, and is the stack of no other slot, at every step of both.      *)
StacksOwned ==
    /\ \A s \in Slots : kstack[s] # NoPage => kstack[s] \in used_pages
    /\ \A r, s \in Slots : kstack[r] = kstack[s] /\ kstack[r] # NoPage => r = s

(* context_switch: as long as no switch hit a race window, the process of   *)
(* slot s, unless it is running or not yet given a stack, is suspended under *)
(* that slot's saved_esp and no other.                                       *)
Suspended(s) ==
    /\ frame[pid[s]] # "none" /\ saved_esp[s] = pid[s]
    /\ \A r \in Slots : saved_esp[r] = pid[s] => r = s

ContextsIntact ==
    ~raced => \A s \in Slots \ {Kernel} :
        in_use[s] /\ pid[s] # cpu /\ ~(pc[Shell] = "stack" /\ slot[Shell] = s)
            => Suspended(s)

(* schedule(): the processor, current_pid and the RUNNING mark tell of the  *)
(* same process, but between its stores and its context switch; a thread     *)
(* without a slot is a task that returned to its wrapper, so a killed one    *)
(* never runs.                                                               *)
Switching(s) == pc[cpu] \in {"setcur", "load", "switch"} /\ next_slot[cpu] = s
HasSlot(t)   == \E s \in Slots : in_use[s] /\ pid[s] = t

CurrentAgrees ==
    ~raced =>
    /\ HasSlot(cpu) => current_pid = cpu \/ pc[cpu] \in {"load", "switch"}
    /\ ~HasSlot(cpu) => self[cpu] # NoSlot /\ home[cpu] = "zombie"
    /\ \A s \in Slots \ {Kernel} :
          in_use[s] /\ state[s] = "RUNNING" => pid[s] = cpu \/ Switching(s)

(* context_switch never loads a stack pointer without a context under it,    *)
(* and of the two hlt loops a thread may reach with its interrupts off, that *)
(* of process_sleep never is: as long as no switch hit a race window, the    *)
(* machine stops nowhere but in a task's print, in the pager's hlt           *)
(* (keyboard_getchar), and only while help pages.                            *)
StoppedInPager == ~iflag /\ pc[cpu] = "key" /\ paging

StopsOnlyInPager ==
    raced \/ (/\ ~wild
              /\ pc[cpu] \in {"halt", "key"} => iflag \/ StoppedInPager)

(* The shell always runs with interrupts on, whatever the tasks did: its     *)
(* hlt loops (keyboard_getchar, process_sleep) are woken by an interrupt.    *)
ShellInterruptible == cpu = Shell => iflag

(* process_terminate refuses pid 0 and 1 and process_sleep does not block    *)
(* them: the shell keeps its slot and stays schedulable, whatever races, and *)
(* until one slot 0 stays the kernel's.                                      *)
ShellSchedulable ==
    /\ in_use[Shell] /\ pid[Shell] = 1 /\ state[Shell] \in {"RUNNING", "READY"}
    /\ ~raced => in_use[Kernel] /\ pid[Kernel] = 0

-----------------------------------------------------------------------------
(* Liveness.                                                                *)

(* process_tick wakes every sleeper that has a deadline (zero means none),   *)
(* unless the machine stops in the pager.                                    *)
SleepersWake ==
    \A s \in Slots : (in_use[s] /\ state[s] = "BLOCKED" /\ wake_tick[s] # 0)
        ~> (~in_use[s] \/ state[s] # "BLOCKED" \/ raced \/ StoppedInPager)

(* schedule() is round-robin: a READY process gets the processor, unless the *)
(* machine stops in the pager.                                               *)
ReadyRuns ==
    \A s \in Slots \ {Kernel} : (in_use[s] /\ state[s] = "READY")
        ~> (~in_use[s] \/ cpu = pid[s] \/ raced \/ StoppedInPager)

-----------------------------------------------------------------------------
(* What the repository says of the scheduler and the code does not do.      *)

(* process.c:97: the first switch to a process lands inside its wrapper.    *)
FreshTaskLandsInWrapper == wild => pc[Shell] # "stack"

(* process.c:12: the wrapper cleans up when its task returns, so a slot that *)
(* is not in use, and that kill is not just emptying, holds no stack.        *)
StacksReclaimed ==
    \A s \in Slots : kstack[s] # NoPage =>
        in_use[s] \/ (pc[Shell] = "free" /\ slot[Shell] = s)
=============================================================================
