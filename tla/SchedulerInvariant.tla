------------------------- MODULE SchedulerInvariant -------------------------
(* The inductive invariants of Scheduler.  Orderly, behind ContextsIntact,   *)
(* CurrentAgrees and StopsOnlyInPager, holds at every step of every thread    *)
(* as long as no switch by the timer hit a race window; ShellApart, behind   *)
(* ShellInterruptible and ShellSchedulable, is what races do not break.      *)
(* Each conjunct is about one part of the state.                             *)
EXTENDS Scheduler

InSwitch == {"mark", "setcur", "load", "switch"}

\* t is a task that returned, idling in its wrapper without a slot
Zombie(t) == home[t] = "zombie" /\ ~HasSlot(t)

\* the shell's thread is between two steps of spawn, of kill
Spawning == pc[Shell] = "stack"
Killing  == pc[Shell] = "free"

(* Only the running thread is inside a race window.                          *)
WindowsInv == ~wild /\ \A t \in Threads : pc[t] \in RaceWindows => t = cpu

(* Slots 0 and 1 belong to pid 0 and 1.                                      *)
ReservedInv == in_use[Kernel] /\ pid[Kernel] = 0 /\ in_use[Shell] /\ pid[Shell] = 1

(* No copy of the running thread's stack pointer is left anywhere, and a     *)
(* pushed argument exists only in a thread about to switch.                  *)
RunningInv ==
    /\ frame[cpu] = "none" /\ cpu < next_pid
    /\ \A r \in Slots : saved_esp[r] # cpu /\ saved_esp[r] < next_pid
    /\ \A t \in Threads : new_esp[t] # NoContext => t = cpu /\ pc[t] = "switch"

(* current_pid names the running thread, or the next one once it is set; a   *)
(* thread without a slot is a zombie, and passes for pid 0 once resumed.     *)
CurrentInv ==
    /\ pc[cpu] \notin {"load", "switch"} =>
          current_pid = cpu \/ (Zombie(cpu) /\ current_pid = 0)
    /\ pc[cpu] \in {"load", "switch"} => current_pid = pid[next_slot[cpu]]
    /\ HasSlot(cpu) \/ Zombie(cpu)

(* The locals of a schedule() call in progress.                              *)
ScheduleInv ==
    pc[cpu] \in InSwitch =>
    /\ in_use[slot[cpu]] /\ in_use[next_slot[cpu]] /\ next_slot[cpu] # slot[cpu]
    /\ IF HasSlot(cpu) THEN pid[slot[cpu]] = cpu ELSE slot[cpu] = Kernel
    /\ state[next_slot[cpu]] = IF pc[cpu] = "mark" THEN "READY" ELSE "RUNNING"
    /\ pc[cpu] # "mark" => state[slot[cpu]] # "RUNNING"
    /\ pc[cpu] = "switch" => new_esp[cpu] = saved_esp[next_slot[cpu]]

(* Every process that is not running is suspended under its saved_esp.       *)
SavedInv ==
    \A s \in Slots \ {Kernel} :
        in_use[s] /\ pid[s] # cpu /\ ~(Spawning /\ slot[Shell] = s) => Suspended(s)

(* Slot 0 is READY, or being switched to, only with a zombie under it.       *)
KernelInv ==
    /\ state[Kernel] \in {"RUNNING", "READY"}
    /\ \/ state[Kernel] = "READY" /\ ~(pc[cpu] \in InSwitch /\ slot[cpu] = Kernel)
       \/ pc[cpu] \in InSwitch /\ next_slot[cpu] = Kernel
       => /\ saved_esp[Kernel] \in Threads
          /\ frame[saved_esp[Kernel]] # "none" /\ Zombie(saved_esp[Kernel])

(* A slot marked RUNNING is the running thread's or the one it switches to.  *)
MarkInv ==
    \A s \in Slots \ {Kernel} :
        in_use[s] /\ state[s] = "RUNNING" => pid[s] = cpu \/ Switching(s)

(* The shell leaves the processor only through the timer interrupt.          *)
ShellInv ==
    /\ pc[Shell] \in {"work", "halt", "stack", "free"}
    /\ cpu = Shell  => iflag /\ state[Shell] = "RUNNING"
    /\ cpu # Shell => /\ frame[Shell] = "irq"
                      /\ state[Shell] = "READY" \/ (state[Shell] = "RUNNING" /\ Switching(Shell))

(* A task past its entry knows its own slot; only the shell waits in hlt; a  *)
(* zombie only calls schedule(); a pid not given out has no thread yet.      *)
TasksInv ==
    \A t \in Threads \ {Shell} :
        /\ pc[t] # "halt"
        /\ HasSlot(t) /\ pc[t] # "entry" => \E s \in Slots : self[t] = s /\ pid[s] = t /\ in_use[s]
        /\ HasSlot(t) => home[t] = "work"
        /\ home[t] = "zombie" => /\ self[t] # NoSlot /\ ~HasSlot(t)
                                 /\ pc[t] \in InSwitch \cup {"scan", "zombie"}
        /\ t >= next_pid \/ (Spawning /\ t = pid[slot[Shell]]) =>
              frame[t] = "none" /\ pc[t] = "entry" /\ home[t] = "work"

(* spawn and kill between their two steps.                                   *)
CommandInv ==
    /\ Spawning => /\ slot[Shell] > Shell /\ in_use[slot[Shell]]
                   /\ \A r \in Slots : saved_esp[r] # pid[slot[Shell]]
    /\ Killing  => /\ slot[Shell] > Shell /\ ~HasSlot(pid[slot[Shell]])
                   /\ pid[slot[Shell]] > 1 /\ home[pid[slot[Shell]]] = "work"

Orderly ==
    /\ WindowsInv /\ ReservedInv /\ RunningInv /\ CurrentInv /\ ScheduleInv
    /\ SavedInv /\ KernelInv /\ MarkInv /\ ShellInv /\ TasksInv /\ CommandInv

RaceFree == ~raced => Orderly

-----------------------------------------------------------------------------
(* Whatever races: the shell's thread, and a thread that is about to switch   *)
(* to it, are all that ever runs as pid 1 or lies under slot 1.               *)

\* t is the shell's thread, or inside a schedule() call that has set
\* current_pid to 1
PidOne(t) == t = Shell \/ (pc[t] \in {"load", "switch"} /\ next_slot[t] = Shell)

ApartInv ==
    /\ PidOne(cpu) <=> current_pid = 1
    /\ \A s \in Slots : saved_esp[s] # NoContext =>
          /\ saved_esp[s] # cpu
          /\ PidOne(saved_esp[s]) <=> s = Shell
    /\ \A t \in Threads : new_esp[t] # NoContext =>
          /\ new_esp[t] # cpu /\ pc[t] = "switch"
          /\ PidOne(new_esp[t]) <=> next_slot[t] = Shell

\* nothing else takes slot 1, or names it in a local
ShellSlotInv ==
    /\ in_use[Shell] /\ state[Shell] \in {"RUNNING", "READY"}
    /\ \A s \in Slots : pid[s] = 1 <=> s = Shell
    /\ \A t \in Threads : slot[t] # Shell /\ self[t] # Shell

\* a thread whose stack process_create_kernel has not filled in yet
Unborn(t) == t >= next_pid \/ (Spawning /\ t = pid[slot[Shell]])

UnbornInv ==
    \A t \in Threads : Unborn(t) =>
        /\ pc[t] = "entry" /\ t # cpu
        /\ \A s \in Slots : saved_esp[s] # t
        /\ \A u \in Threads : new_esp[u] # t

\* it is suspended by the timer only, and so resumed with interrupts on
ShellFlagInv ==
    /\ pc[Shell] \in {"work", "halt", "stack", "free"} /\ frame[Shell] # "call"
    /\ ShellInterruptible

ShellApart == ShellFlagInv /\ ShellSlotInv /\ (~wild => ApartInv /\ UnbornInv)
=============================================================================
