-------------------------- MODULE SchedulerProofs --------------------------
(***************************************************************************)
(* Safety of Scheduler for every number of slots, ticks, pages and tasks.   *)
(* First what holds whatever is interrupted: types, pids, deadlines and     *)
(* stacks.  Then what holds as long as no switch by the timer hits a race   *)
(* window, by the inductive invariant Orderly: intact contexts, the current *)
(* process, a machine that stops only in the pager.  Last, by ShellApart and *)
(* again for every behaviour, the shell, which never leaves the ready set.   *)
(***************************************************************************)
EXTENDS SchedulerInvariant, LeastElement

(* The constants, as far as the steps below need to know them.               *)
LEMMA ConstantFacts ==
    /\ Slots \subseteq Nat /\ Kernel \in Slots /\ Shell \in Slots /\ Kernel # Shell
    /\ NoSlot \notin Slots /\ Kernel # NoSlot /\ Shell # NoSlot
    /\ Threads \subseteq Nat /\ Shell \in Threads
    /\ NoContext \notin Threads /\ 0 .. MaxPid = Threads \cup {NoContext}
    /\ NoPage \notin Pages /\ Pages \subseteq Nat
BY SlotsAssumption, PagesAssumption, BoundAssumption
   DEF Slots, Kernel, Shell, NoSlot, Threads, NoContext, NoPage

-----------------------------------------------------------------------------
(* What the scans return.                                                    *)

(* find_slot_by_pid returns -1 or a slot in use that has the pid.            *)
LEMMA FindSlotResult ==
    ASSUME NEW p
    PROVE  \/ FindSlot(p) = NoSlot /\ \A s \in Slots : ~(in_use[s] /\ pid[s] = p)
           \/ FindSlot(p) \in Slots /\ in_use[FindSlot(p)] /\ pid[FindSlot(p)] = p
<1> DEFINE S == {s \in Slots : in_use[s] /\ pid[s] = p}
<1>1. S \in SUBSET Nat
  BY ConstantFacts
<1>2. CASE S = {}
  BY <1>2 DEF FindSlot
<1>3. CASE S # {}
  <2>1. Min(S) \in S
    BY <1>1, <1>3, MinIsLeast
  <2> QED
    BY <1>3, <2>1 DEF FindSlot
<1> QED
  BY <1>2, <1>3

(* schedule()'s cur_slot is always a slot.                                   *)
LEMMA CurSlotResult == CurSlot \in Slots
BY FindSlotResult, ConstantFacts DEF CurSlot

(* schedule()'s scan returns -1 or a READY slot in use.                      *)
LEMMA NextReadyResult ==
    ASSUME NEW c \in Slots, NEW st
    PROVE  \/ NextReady(c, st) = NoSlot
           \/ /\ NextReady(c, st) \in Slots
              /\ in_use[NextReady(c, st)] /\ st[NextReady(c, st)] = "READY"
<1> DEFINE D == {i \in 1 .. NSlots : in_use[(c + i) % NSlots]
                                     /\ st[(c + i) % NSlots] = "READY"}
<1>1. D \in SUBSET Nat
  OBVIOUS
<1>2. CASE D = {}
  BY <1>2 DEF NextReady
<1>3. CASE D # {}
  <2>1. Min(D) \in D
    BY <1>1, <1>3, MinIsLeast
  <2>2. NextReady(c, st) = (c + Min(D)) % NSlots
    BY <1>3 DEF NextReady
  <2>3. Min(D) \in 1 .. NSlots
    BY <2>1
  <2>4. (c + Min(D)) % NSlots \in Slots
    <3> HIDE DEF D
    <3> QED
      BY <2>3, SlotsAssumption DEF Slots
  <2> QED
    BY <2>1, <2>2, <2>4
<1> QED
  BY <1>2, <1>3

-----------------------------------------------------------------------------
(* Type correctness.  TypeOK is inductive once the locals that index the     *)
(* table are known to be slots at the points that use them.                  *)

LocalsOK ==
    \A t \in Threads :
        /\ pc[t] \in {"arm", "mark", "setcur", "load", "switch", "stack", "free"}
              => slot[t] \in Slots
        /\ pc[t] \in {"mark", "setcur", "load", "switch"} => next_slot[t] \in Slots
        /\ pc[t] \in {"term", "clear"} => self[t] \in Slots
        /\ pc[t] \in {"work", "key", "halt", "arm", "stack", "free"} => home[t] = "work"
        /\ t # Shell /\ pc[t] # "entry" /\ home[t] = "work" => self[t] \in Slots

TypeInv == TypeOK /\ LocalsOK

(* The two stores of schedule() keep every state a process state.            *)
LEMMA MarkedType ==
    ASSUME NEW c, NEW n, NEW st \in [Slots -> ProcStates]
    PROVE  Marked(c, n, st) \in [Slots -> ProcStates]
BY DEF Marked, ProcStates

(* process_tick only turns sleepers into READY processes.                    *)
LEMMA AfterTickType ==
    ASSUME TypeOK, NEW now
    PROVE  AfterTick(now) \in [Slots -> ProcStates]
BY DEF TypeOK, TableType, AfterTick, ProcStates

(* context_switch keeps the types of what it writes.                         *)
SwitchType ==
    /\ cpu \in Threads /\ iflag \in BOOLEAN /\ wild \in BOOLEAN
    /\ frame \in [Threads -> Frames]
    /\ saved_esp \in [Slots -> Threads \cup {NoContext}]
    /\ new_esp \in [Threads -> Threads \cup {NoContext}]

LEMMA ContextSwitchType ==
    ASSUME TypeOK, NEW t \in Threads, NEW c \in Slots,
           NEW x \in Threads \cup {NoContext}, NEW kind \in Frames,
           NEW f \in BOOLEAN, ContextSwitch(t, c, x, kind, f)
    PROVE  SwitchType'
<1> USE DEF TypeOK, TableType, MachineType, LocalsType, SwitchType
<1>1. CASE x = NoContext
  BY <1>1 DEF ContextSwitch
<1>2. CASE x # NoContext
  <2>1. cpu' \in Threads /\ iflag' \in BOOLEAN /\ wild' \in BOOLEAN
    BY <1>2 DEF ContextSwitch
  <2>2. frame' \in [Threads -> Frames]
    BY <1>2 DEF ContextSwitch, Frames
  <2>3. saved_esp' \in [Slots -> Threads \cup {NoContext}]
    BY <1>2 DEF ContextSwitch
  <2>4. new_esp' \in [Threads -> Threads \cup {NoContext}]
    BY <1>2 DEF ContextSwitch
  <2> QED
    BY <2>1, <2>2, <2>3, <2>4
<1> QED
  BY <1>1, <1>2

LEMMA TypeInit == Init => TypeInv
<1> SUFFICES ASSUME Init PROVE TypeInv
  OBVIOUS
<1> USE ConstantFacts
<1>1. TableType
  <2>1. 1 \in 0 .. MaxPid /\ 0 \in 0 .. MaxPid /\ 0 \in 0 .. TickMod - 1
    BY BoundAssumption, TimeAssumption
  <2> QED
    BY <2>1 DEF Init, TableType, ProcStates
<1>2. StaticsType
  BY BoundAssumption, TimeAssumption DEF Init, StaticsType
<1>3. MachineType
  BY DEF Init, MachineType
<1>4. LocalsType
  BY DEF Init, LocalsType, Points, Frames
<1>5. LocalsOK
  BY DEF Init, LocalsOK
<1> QED
  BY <1>1, <1>2, <1>3, <1>4, <1>5 DEF TypeInv, TypeOK
(* Each step keeps the invariant.                                            *)
LEMMA TypeStep == TypeInv /\ [Next]_vars => TypeInv'
<1> SUFFICES ASSUME TypeOK, TableType, StaticsType, MachineType, LocalsType,
                    LocalsOK, [Next]_vars
             PROVE  TypeOK' /\ LocalsOK'
  BY DEF TypeInv, TypeOK
<1> USE ConstantFacts
<1>1. CASE SpawnPublish
  <2>1. Min(FreePages) \in FreePages /\ FreePages \subseteq Pages
    BY <1>1, MinIsLeast DEF SpawnPublish, FreePages
  <2>2. next_pid \in 0 .. MaxPid /\ AfterPid \in 2 .. MaxPid + 1
    BY <1>1, BoundAssumption DEF SpawnPublish, StaticsType, AfterPid
  <2>3. TableType' /\ StaticsType' /\ MachineType'
    <3>1. used_pages' \subseteq Pages /\ next_pid' \in 2 .. MaxPid + 1
      BY <1>1, <2>1, <2>2 DEF SpawnPublish, StaticsType
    <3>2. TableType'
      <4>1. PICK s \in Slots :
              /\ pid' = [pid EXCEPT ![s] = next_pid]
              /\ state' = [state EXCEPT ![s] = "READY"]
              /\ wake_tick' = [wake_tick EXCEPT ![s] = 0]
              /\ kstack' = [kstack EXCEPT ![s] = Min(FreePages)]
              /\ in_use' = [in_use EXCEPT ![s] = TRUE]
              /\ saved_esp' = saved_esp
        BY <1>1 DEF SpawnPublish
      <4>2. 0 \in 0 .. TickMod - 1
        BY TimeAssumption
      <4>3. Min(FreePages) \in Pages
        BY <2>1
      <4> QED
        BY <4>1, <4>2, <4>3, <2>2 DEF ProcStates, TableType
    <3> QED
      BY <1>1, <3>1, <3>2 DEF SpawnPublish, StaticsType, MachineType, clock, machine
  <2>4. LocalsType'
    BY <1>1, <2>1, <2>2
    DEF SpawnPublish, Running, ProcStates, LocalsType, Points, Frames, locals
  <2>5. LocalsOK'
    BY <1>1, <2>1, <2>2
    DEF SpawnPublish, Running, ProcStates, LocalsOK, LocalsType, locals
  <2> QED
    BY <2>3, <2>4, <2>5 DEF TypeOK
<1>2. ASSUME NEW p \in Threads, Kill(p)
      PROVE  TypeOK' /\ LocalsOK'
  <2>1. FindSlot(p) \in Slots
    BY <1>2, FindSlotResult DEF Kill, Killable
  <2>2. TableType' /\ StaticsType' /\ MachineType'
    BY <1>2, <2>1
    DEF Kill, Running, ProcStates, TableType, StaticsType, MachineType, table, clock, machine, system
  <2>3. LocalsType'
    BY <1>2, <2>1
    DEF Kill, Running, ProcStates, LocalsType, Points, Frames, locals
  <2>4. LocalsOK'
    BY <1>2, <2>1
    DEF Kill, Running, ProcStates, LocalsOK, LocalsType, locals
  <2> QED
    BY <2>2, <2>3, <2>4 DEF TypeOK
<1>3. CASE ShellAlloc
  <2>1. Min(FreePages) \in FreePages /\ FreePages \subseteq Pages
    BY <1>3, MinIsLeast DEF ShellAlloc, FreePages
  <2>2. TableType' /\ StaticsType' /\ MachineType'
    BY <1>3, <2>1
    DEF ShellAlloc, Running, TableType, StaticsType, MachineType, table, clock, machine, system
  <2>3. LocalsType'
    BY <1>3, <2>1
    DEF ShellAlloc, Running, LocalsType, Points, Frames, locals
  <2>4. LocalsOK'
    BY <1>3, <2>1
    DEF ShellAlloc, Running, LocalsOK, LocalsType, locals
  <2> QED
    BY <2>2, <2>3, <2>4 DEF TypeOK
<1>4. CASE SpawnStack
  <2>1. TableType' /\ StaticsType' /\ MachineType'
    BY <1>4
    DEF SpawnStack, Running, TableType, StaticsType, MachineType, table, clock, machine, system
  <2>2. LocalsType'
    BY <1>4
    DEF SpawnStack, Running, LocalsType, Points, Frames, locals
  <2>3. LocalsOK'
    BY <1>4
    DEF SpawnStack, Running, LocalsOK, LocalsType, locals
  <2> QED
    BY <2>1, <2>2, <2>3 DEF TypeOK
<1>5. CASE KillFree
  <2>1. TableType' /\ StaticsType' /\ MachineType'
    BY <1>5
    DEF KillFree, Running, StackReleased, TableType, StaticsType, MachineType, table, clock, machine, system
  <2>2. LocalsType'
    BY <1>5
    DEF KillFree, Running, StackReleased, LocalsType, Points, Frames, locals
  <2>3. LocalsOK'
    BY <1>5
    DEF KillFree, Running, StackReleased, LocalsOK, LocalsType, locals
  <2> QED
    BY <2>1, <2>2, <2>3 DEF TypeOK
<1>6. ASSUME NEW t \in Threads, EnterTask(t)
      PROVE  TypeOK' /\ LocalsOK'
  <2>1. FindSlot(current_pid) \in Slots \cup {NoSlot}
    BY FindSlotResult
  <2>2. TableType' /\ StaticsType' /\ MachineType'
    BY <1>6, <2>1
    DEF EnterTask, Running, TableType, StaticsType, MachineType, table, clock, machine, system
  <2>3. LocalsType'
    BY <1>6, <2>1
    DEF EnterTask, Running, LocalsType, Points, Frames, locals
  <2>4. LocalsOK'
    BY <1>6, <2>1
    DEF EnterTask, Running, LocalsOK, LocalsType, locals
  <2> QED
    BY <2>2, <2>3, <2>4 DEF TypeOK
<1>7. ASSUME NEW t \in Threads, ReturnFromTask(t)
      PROVE  TypeOK' /\ LocalsOK'
  <2>1. self[t] \in Slots
    BY <1>7 DEF ReturnFromTask, Running, LocalsOK, LocalsType
  <2>2. TableType' /\ StaticsType' /\ MachineType'
    BY <1>7, <2>1
    DEF ReturnFromTask, Running, TableType, StaticsType, MachineType, table, clock, machine, system
  <2>3. LocalsType'
    BY <1>7, <2>1
    DEF ReturnFromTask, Running, LocalsType, Points, Frames, locals
  <2>4. LocalsOK'
    BY <1>7, <2>1
    DEF ReturnFromTask, Running, LocalsOK, LocalsType, locals
  <2> QED
    BY <2>2, <2>3, <2>4 DEF TypeOK
<1>8. ASSUME NEW t \in Threads, MarkTerminated(t)
      PROVE  TypeOK' /\ LocalsOK'
  <2>1. TableType' /\ StaticsType' /\ MachineType'
    BY <1>8
    DEF MarkTerminated, Running, ProcStates, TableType, StaticsType, MachineType, table, clock, machine, system
  <2>2. LocalsType'
    BY <1>8
    DEF MarkTerminated, Running, ProcStates, LocalsType, Points, Frames, locals
  <2>3. LocalsOK'
    BY <1>8
    DEF MarkTerminated, Running, ProcStates, LocalsOK, LocalsType, locals
  <2> QED
    BY <2>1, <2>2, <2>3 DEF TypeOK
<1>9. ASSUME NEW t \in Threads, ClearInUse(t)
      PROVE  TypeOK' /\ LocalsOK'
  <2>1. TableType' /\ StaticsType' /\ MachineType'
    BY <1>9
    DEF ClearInUse, Running, TableType, StaticsType, MachineType, table, clock, machine, system
  <2>2. LocalsType'
    BY <1>9
    DEF ClearInUse, Running, LocalsType, Points, Frames, locals
  <2>3. LocalsOK'
    BY <1>9
    DEF ClearInUse, Running, LocalsOK, LocalsType, locals
  <2> QED
    BY <2>1, <2>2, <2>3 DEF TypeOK
<1>10. ASSUME NEW t \in Threads,
              ZombieYield(t) \/ SleepBusy(t) \/ HaltDone(t) \/ PagerWait(t)
      PROVE  TypeOK' /\ LocalsOK'
  <2>1. TableType' /\ StaticsType' /\ MachineType'
    BY <1>10
    DEF ZombieYield, Running, SleepBusy, HaltDone, PagerWait, TableType, StaticsType, MachineType, table, clock, machine, system
  <2>2. LocalsType'
    BY <1>10
    DEF ZombieYield, Running, SleepBusy, HaltDone, PagerWait, LocalsType, Points, Frames, locals
  <2>3. LocalsOK'
    BY <1>10
    DEF ZombieYield, Running, SleepBusy, HaltDone, PagerWait, LocalsOK, LocalsType, locals
  <2> QED
    BY <2>1, <2>2, <2>3 DEF TypeOK
<1>11. ASSUME NEW t \in Threads, SleepBlock(t)
      PROVE  TypeOK' /\ LocalsOK'
  <2>1. FindSlot(current_pid) \in Slots
    BY <1>11, FindSlotResult DEF SleepBlock, MayBlock
  <2>2. TableType' /\ StaticsType' /\ MachineType'
    BY <1>11, <2>1
    DEF SleepBlock, Running, ProcStates, TableType, StaticsType, MachineType, table, clock, machine, system
  <2>3. LocalsType'
    BY <1>11, <2>1
    DEF SleepBlock, Running, ProcStates, LocalsType, Points, Frames, locals
  <2>4. LocalsOK'
    BY <1>11, <2>1
    DEF SleepBlock, Running, ProcStates, LocalsOK, LocalsType, locals
  <2> QED
    BY <2>2, <2>3, <2>4 DEF TypeOK
<1>12. ASSUME NEW t \in Threads, SleepArm(t)
      PROVE  TypeOK' /\ LocalsOK'
  <2>1. PICK d \in 0 .. TickMod - 1 : wake_tick' = [wake_tick EXCEPT ![slot[t]] = d]
    <3>1. \A n \in SleepTicks : Deadline(n) \in 0 .. TickMod - 1
      BY TimeAssumption DEF Deadline, StaticsType
    <3> QED
      BY <1>12, <3>1 DEF SleepArm
  <2>2. TableType' /\ StaticsType' /\ MachineType'
    BY <1>12, <2>1
    DEF SleepArm, Running, TableType, StaticsType, MachineType, table, clock, machine, system
  <2>3. LocalsType'
    BY <1>12, <2>1
    DEF SleepArm, Running, LocalsType, Points, Frames, locals
  <2>4. LocalsOK'
    BY <1>12, <2>1
    DEF SleepArm, Running, LocalsOK, LocalsType, locals
  <2> QED
    BY <2>2, <2>3, <2>4 DEF TypeOK
<1>13. ASSUME NEW t \in Threads, Scan(t)
      PROVE  TypeOK' /\ LocalsOK'
  <2>1. CurSlot \in Slots /\ NextReady(CurSlot, state) \in Slots \cup {NoSlot}
    BY CurSlotResult, NextReadyResult
  <2>2. TableType' /\ StaticsType' /\ MachineType'
    BY <1>13, <2>1
    DEF Scan, Running, TableType, StaticsType, MachineType, table, clock, machine, system
  <2>3. LocalsType'
    BY <1>13, <2>1
    DEF Scan, Running, LocalsType, Points, Frames, locals
  <2>4. LocalsOK'
    BY <1>13, <2>1
    DEF Scan, Running, LocalsOK, LocalsType, locals
  <2> QED
    BY <2>2, <2>3, <2>4 DEF TypeOK
<1>14. ASSUME NEW t \in Threads, Mark(t)
      PROVE  TypeOK' /\ LocalsOK'
  <2>1. Marked(slot[t], next_slot[t], state) \in [Slots -> ProcStates]
    BY <1>14, MarkedType DEF Mark, TableType
  <2>2. TableType' /\ StaticsType' /\ MachineType'
    BY <1>14, <2>1
    DEF Mark, Running, TableType, StaticsType, MachineType, table, clock, machine, system
  <2>3. LocalsType'
    BY <1>14, <2>1
    DEF Mark, Running, LocalsType, Points, Frames, locals
  <2>4. LocalsOK'
    BY <1>14, <2>1
    DEF Mark, Running, LocalsOK, LocalsType, locals
  <2> QED
    BY <2>2, <2>3, <2>4 DEF TypeOK
<1>15. ASSUME NEW t \in Threads, SetCurrent(t) \/ LoadEsp(t)
      PROVE  TypeOK' /\ LocalsOK'
  <2>1. next_slot[t] \in Slots
    BY <1>15 DEF SetCurrent, LoadEsp, Running, LocalsOK
  <2>2. CASE SetCurrent(t)
    <3>1. TableType' /\ StaticsType' /\ MachineType'
      BY <2>1, <2>2 DEF SetCurrent, TableType, StaticsType, MachineType, table, clock,
                        machine
    <3>2. LocalsType' /\ LocalsOK'
      BY <2>1, <2>2 DEF SetCurrent, Running, LocalsType, LocalsOK, Points
    <3> QED
      BY <3>1, <3>2 DEF TypeOK
  <2>3. CASE LoadEsp(t)
    <3>1. TableType' /\ StaticsType' /\ MachineType'
      BY <2>3 DEF LoadEsp, TableType, StaticsType, MachineType, system, table, clock,
                  machine
    <3>2. LocalsType' /\ LocalsOK'
      BY <2>1, <2>3 DEF LoadEsp, Running, LocalsType, LocalsOK, TableType, Points,
                        system, table
    <3> QED
      BY <3>1, <3>2 DEF TypeOK
  <2> QED
    BY <1>15, <2>2, <2>3
<1>16. ASSUME NEW t \in Threads, Switch(t)
      PROVE  TypeOK' /\ LocalsOK'
  <2>1. slot[t] \in Slots /\ new_esp[t] \in Threads \cup {NoContext} /\ iflag \in BOOLEAN
    BY <1>16 DEF Switch, Running, LocalsType, LocalsOK, MachineType
  <2>2. SwitchType'
    BY <1>16, <2>1, ContextSwitchType DEF Switch, Frames
  <2>3. TableType' /\ StaticsType' /\ MachineType'
    BY <1>16, <2>1, <2>2
    DEF Switch, Running, SwitchType, TableType, StaticsType, MachineType, table, clock, machine, system
  <2>4. LocalsType'
    BY <1>16, <2>1, <2>2
    DEF Switch, Running, SwitchType, LocalsType, Points, Frames, locals
  <2>5. LocalsOK'
    BY <1>16, <2>1, <2>2
    DEF Switch, Running, SwitchType, LocalsOK, LocalsType, locals
  <2> QED
    BY <2>3, <2>4, <2>5 DEF TypeOK
<1>17. CASE TimerIrq
  <2> DEFINE now == (tick + 1) % TickMod
             st  == AfterTick(now)
             n   == NextReady(CurSlot, st)
  <2>1. st \in [Slots -> ProcStates] /\ CurSlot \in Slots
    BY AfterTickType, CurSlotResult
  <2>2. n \in Slots \cup {NoSlot}
    BY <2>1, NextReadyResult
  <2>3. tick' \in 0 .. TickMod - 1 /\ slice_counter' \in 0 .. SliceTicks - 1
       /\ wake_tick' \in [Slots -> 0 .. TickMod - 1]
    BY <1>17, TimeAssumption DEF TimerIrq, StaticsType, TableType
  <2>4. CASE slice_counter + 1 < SliceTicks \/ n = NoSlot \/ n = CurSlot
    <3>1. state' = st /\ UNCHANGED <<saved_esp, current_pid, machine, frame, new_esp>>
      BY <1>17, <2>4 DEF TimerIrq
    <3> HIDE DEF now, st, n
    <3>2. TableType' /\ StaticsType' /\ MachineType'
      BY <1>17, <2>1, <2>3, <3>1 DEF TimerIrq, TableType, StaticsType, MachineType, machine
    <3>3. LocalsType' /\ LocalsOK'
      BY <1>17, <3>1 DEF TimerIrq, LocalsType, LocalsOK
    <3> QED
      BY <3>2, <3>3 DEF TypeOK
  <2>5. CASE ~(slice_counter + 1 < SliceTicks \/ n = NoSlot \/ n = CurSlot)
    <3>1. /\ state' = Marked(CurSlot, n, st)
          /\ current_pid' = pid[n]
          /\ ContextSwitch(cpu, CurSlot, saved_esp[n], "irq", FALSE)
          /\ raced' \in BOOLEAN /\ paging' = paging
      BY <1>17, <2>5 DEF TimerIrq, MachineType
    <3>2. n \in Slots /\ cpu \in Threads /\ saved_esp[n] \in Threads \cup {NoContext}
      BY <2>2, <2>5 DEF TableType, MachineType
    <3> HIDE DEF now, st, n
    <3>3. state' \in [Slots -> ProcStates]
      BY <2>1, <3>1, MarkedType
    <3>4. SwitchType'
      BY <2>1, <3>1, <3>2, ContextSwitchType DEF Frames
    <3>5. TableType' /\ StaticsType' /\ MachineType'
      BY <1>17, <2>3, <3>1, <3>2, <3>3, <3>4
      DEF TimerIrq, TableType, StaticsType, MachineType, SwitchType
    <3>6. LocalsType' /\ LocalsOK'
      BY <1>17, <3>4 DEF TimerIrq, LocalsType, LocalsOK, SwitchType
    <3> QED
      BY <3>5, <3>6 DEF TypeOK
  <2> QED
    BY <2>4, <2>5
<1>18. CASE UNCHANGED vars
  BY <1>18 DEF vars, table, clock, machine, locals, TypeOK, TableType, StaticsType,
               MachineType, LocalsType, LocalsOK
<1>19. CASE Help
  BY <1>19 DEF Help, table, clock, locals, TypeOK, TableType, StaticsType, MachineType,
               LocalsType, LocalsOK
<1>20. ASSUME NEW t \in Threads, KeyTaken(t)
       PROVE  TypeOK' /\ LocalsOK'
  <2>1. TableType' /\ StaticsType' /\ MachineType'
    BY <1>20 DEF KeyTaken, table, clock, TableType, StaticsType, MachineType
  <2>2. LocalsType'
    BY <1>20 DEF KeyTaken, LocalsType, Points
  <2>3. LocalsOK'
    BY <1>20 DEF KeyTaken, Running, LocalsOK, LocalsType
  <2> QED
    BY <2>1, <2>2, <2>3 DEF TypeOK
<1> QED
  BY <1>1, <1>2, <1>3, <1>4, <1>5, <1>6, <1>7, <1>8, <1>9, <1>10, <1>11, <1>12,
     <1>13, <1>14, <1>15, <1>16, <1>17, <1>18, <1>19, <1>20 DEF Next, Step, ShellCommand

(* Every field, static and local of the scheduler keeps its type, whatever   *)
(* the timer interrupts.                                                     *)
THEOREM TypeCorrect == Spec => []TypeOK
<1>1. TypeInv => TypeOK
  BY DEF TypeInv
<1> QED
  BY TypeInit, TypeStep, <1>1, PTL DEF Spec

-----------------------------------------------------------------------------
(* Pids and stacks.                                                          *)

(* Pids are given out once: only spawn writes one, and it is next_pid.       *)
LEMMA PidStep == TypeInv /\ UniquePids /\ [Next]_vars => UniquePids'
<1> SUFFICES ASSUME TypeInv, UniquePids, [Next]_vars
             PROVE  UniquePids'
  OBVIOUS
<1> USE DEF TypeInv, TypeOK, TableType, StaticsType
<1>1. CASE SpawnPublish
  <2>1. PICK s \in Slots : /\ ~in_use[s]
                           /\ pid'    = [pid EXCEPT ![s] = next_pid]
                           /\ in_use' = [in_use EXCEPT ![s] = TRUE]
    BY <1>1 DEF SpawnPublish
  <2>2. next_pid' = next_pid + 1 /\ next_pid \in Int
    BY <1>1 DEF SpawnPublish, AfterPid
  <2>3. pid'[s] = next_pid /\ \A r \in Slots : r # s => pid'[r] = pid[r] /\ in_use'[r] = in_use[r]
    BY <2>1
  <2>4. \A r \in Slots : pid[r] < next_pid /\ pid[r] \in Int
    BY DEF UniquePids
  <2>5. \A r \in Slots : pid'[r] < next_pid'
    BY <2>2, <2>3, <2>4
  <2>6. \A r \in Slots : r # s => pid'[r] # next_pid
    BY <2>2, <2>3, <2>4
  <2> QED
    BY <2>3, <2>5, <2>6 DEF UniquePids
<1>2. CASE \E p \in Threads : Kill(p)
  BY <1>2 DEF Kill, UniquePids
<1>3. CASE \E t \in Threads : ClearInUse(t)
  BY <1>3 DEF ClearInUse, UniquePids
<1>4. CASE UNCHANGED <<pid, in_use, next_pid>>
  BY <1>4 DEF UniquePids
<1>5. [Next]_vars => \/ SpawnPublish \/ (\E p \in Threads : Kill(p))
                     \/ (\E t \in Threads : ClearInUse(t))
                     \/ UNCHANGED <<pid, in_use, next_pid>>
  <2>1. CASE ShellCommand
    BY <2>1 DEF ShellCommand, ShellAlloc, Help, table
  <2>2. CASE \E t \in Threads : Step(t)
    BY <2>2 DEF Step, SpawnStack, KillFree, EnterTask, MarkTerminated, ZombieYield,
       SleepArm, HaltDone, Scan, Mark, SetCurrent, LoadEsp, Switch, SleepBlock,
       SleepBusy, PagerWait, system, table
  <2>3. CASE \E t \in Threads : ReturnFromTask(t) \/ KeyTaken(t)
    BY <2>3 DEF ReturnFromTask, KeyTaken, system, table
  <2>4. CASE \E t \in Threads : SleepBlock(t) \/ SleepBusy(t)
    BY <2>4 DEF SleepBlock, SleepBusy, system, table
  <2>5. CASE TimerIrq
    BY <2>5 DEF TimerIrq
  <2>6. CASE UNCHANGED vars
    BY <2>6 DEF vars, table
  <2> QED
    BY <2>1, <2>2, <2>3, <2>4, <2>5, <2>6 DEF Next
<1> QED
  BY <1>1, <1>2, <1>3, <1>4, <1>5

(* The boot table holds pids 0 and 1, below next_pid.                        *)
LEMMA PidInit == Init => UniquePids
<1> SUFFICES ASSUME Init
             PROVE  UniquePids
  OBVIOUS
<1>1. \A s \in Slots : s \in Nat /\ pid[s] = IF s = 1 THEN 1 ELSE 0
  BY SlotsAssumption DEF Init, Slots, Shell
<1>2. \A s \in Slots : in_use[s] => s = 0 \/ s = 1
  <2>1. \A s \in Slots : in_use[s] => s <= Shell
    BY Zenon DEF Init
  <2> QED
    BY <1>1, <2>1 DEF Shell
<1>3. next_pid = 2
  BY DEF Init
<1> QED
  BY <1>1, <1>2, <1>3 DEF UniquePids

(* find_slot_by_pid never has two slots to choose from.                      *)
THEOREM PidsUnique == Spec => []UniquePids
BY TypeInit, TypeStep, PidInit, PidStep, PTL DEF Spec

(* The page process_create_kernel takes was free, and process_terminate      *)
(* frees no page but its slot's.                                             *)
LEMMA StackStep == TypeInv /\ StacksOwned /\ [Next]_vars => StacksOwned'
<1> SUFFICES ASSUME TypeInv, StacksOwned, [Next]_vars
             PROVE  StacksOwned'
  OBVIOUS
<1> USE DEF TypeInv, TypeOK, TableType, StaticsType
<1>1. CASE SpawnPublish
  <2>1. Min(FreePages) \in FreePages
    BY <1>1, ConstantFacts, MinIsLeast DEF SpawnPublish, FreePages
  <2>2. PICK s \in Slots : kstack' = [kstack EXCEPT ![s] = Min(FreePages)]
    BY <1>1 DEF SpawnPublish
  <2>3. used_pages' = used_pages \cup {Min(FreePages)} /\ Min(FreePages) \notin used_pages
    BY <1>1, <2>1 DEF SpawnPublish, FreePages
  <2>4. kstack'[s] = Min(FreePages) /\ \A r \in Slots : r # s => kstack'[r] = kstack[r]
    BY <2>2
  <2> QED
    BY <2>3, <2>4 DEF StacksOwned
<1>2. CASE KillFree
  <2>1. slot[Shell] \in Slots
    BY <1>2, ConstantFacts DEF KillFree, Running, LocalsOK
  <2>2. kstack' = [kstack EXCEPT ![slot[Shell]] = NoPage]
    BY <1>2 DEF KillFree, StackReleased
  <2>3. used_pages' = used_pages \ {kstack[slot[Shell]]}
    BY <1>2 DEF KillFree
  <2> QED
    BY <2>1, <2>2, <2>3 DEF StacksOwned
<1>3. CASE kstack' = kstack /\ used_pages \subseteq used_pages'
  BY <1>3 DEF StacksOwned
<1>4. [Next]_vars => \/ SpawnPublish \/ KillFree
                     \/ kstack' = kstack /\ used_pages \subseteq used_pages'
  <2>1. CASE ShellCommand
    BY <2>1 DEF ShellCommand, ShellAlloc, Kill, Help, table
  <2>2. CASE \E t \in Threads : Step(t)
    BY <2>2 DEF Step, SpawnStack, EnterTask, MarkTerminated, ClearInUse, ZombieYield,
       SleepArm, HaltDone, Scan, Mark, SetCurrent, LoadEsp, Switch, SleepBlock,
       SleepBusy, PagerWait, system, table
  <2>3. CASE \E t \in Threads : ReturnFromTask(t) \/ KeyTaken(t)
    BY <2>3 DEF ReturnFromTask, KeyTaken, system, table
  <2>4. CASE \E t \in Threads : SleepBlock(t) \/ SleepBusy(t)
    BY <2>4 DEF SleepBlock, SleepBusy, system, table
  <2>5. CASE TimerIrq
    BY <2>5 DEF TimerIrq
  <2>6. CASE UNCHANGED vars
    BY <2>6 DEF vars, table
  <2> QED
    BY <2>1, <2>2, <2>3, <2>4, <2>5, <2>6 DEF Next
<1> QED
  BY <1>1, <1>2, <1>3, <1>4

(* No process has a stack at boot.                                           *)
LEMMA StackInit == Init => StacksOwned
BY DEF Init, StacksOwned

(* Whatever is interrupted, spawned and killed, no page is the stack of two  *)
(* slots and no stack is a page the allocator may hand out again.            *)
THEOREM StacksDisjoint == Spec => []StacksOwned
BY TypeInit, TypeStep, StackInit, StackStep, PTL DEF Spec

-----------------------------------------------------------------------------
(* Contexts, the current process and the running mark, until a race: each    *)
(* action has a lemma with one step per conjunct of Orderly.                 *)


(* schedule() finds the running thread's own slot, or slot 0 for a zombie.   *)
LEMMA OwnSlot ==
    ASSUME TypeInv, UniquePids, Orderly, pc[cpu] \notin {"load", "switch"}
    PROVE  /\ CurSlot \in Slots
           /\ HasSlot(cpu)  => in_use[CurSlot] /\ pid[CurSlot] = cpu /\ CurSlot # Kernel
           /\ ~HasSlot(cpu) => CurSlot = Kernel
<1> USE ConstantFacts DEF TypeInv, TypeOK, MachineType, TableType, Orderly
<1>1. cpu # 0 /\ cpu \in Threads
  BY DEF NoContext
<1>2. CurSlot \in Slots
  BY CurSlotResult
<1>3. CASE HasSlot(cpu)
  <2>1. current_pid = cpu
    BY <1>3 DEF CurrentInv, Zombie
  <2>2. in_use[CurSlot] /\ pid[CurSlot] = cpu
    BY <1>3, <2>1, FindSlotResult DEF CurSlot, HasSlot
  <2> QED
    BY <1>1, <1>2, <1>3, <2>2 DEF ReservedInv
<1>4. CASE ~HasSlot(cpu)
  <2>1. current_pid = cpu \/ current_pid = 0
    BY <1>4 DEF CurrentInv
  <2>2. CASE current_pid = cpu
    BY <1>4, <2>2, FindSlotResult DEF CurSlot, HasSlot
  <2>3. CASE current_pid = 0
    <3>1. CASE FindSlot(current_pid) = NoSlot
      BY <1>2, <1>4, <3>1 DEF CurSlot
    <3>2. CASE FindSlot(current_pid) # NoSlot
      <4> DEFINE f == FindSlot(current_pid)
      <4>1. f \in Slots /\ in_use[f] /\ pid[f] = 0
        BY <2>3, <3>2, FindSlotResult
      <4>2. f = Kernel
        BY <4>1 DEF ReservedInv, UniquePids
      <4> QED
        BY <1>2, <1>4, <3>2, <4>2 DEF CurSlot
    <3> QED
      BY <3>1, <3>2
  <2> QED
    BY <1>2, <1>4, <2>1, <2>2, <2>3
<1> QED
  BY <1>3, <1>4

-----------------------------------------------------------------------------
(* One lemma per action.                                                     *)

(* process_create_kernel publishes a slot no one can switch to yet. *)
LEMMA SpawnPublishKeeps ==
    ASSUME TypeInv, UniquePids, Orderly, SpawnPublish
    PROVE  Orderly'
<1> USE ConstantFacts DEF TypeInv, TypeOK, TableType, StaticsType, MachineType,
                      LocalsType, Orderly
<1>1. PICK s \in Slots :
        /\ ~in_use[s] /\ slot' = [slot EXCEPT ![Shell] = s]
        /\ pid'    = [pid EXCEPT ![s] = next_pid]
        /\ state'  = [state EXCEPT ![s] = "READY"]
        /\ in_use' = [in_use EXCEPT ![s] = TRUE]
  BY DEF SpawnPublish
<1>2. next_pid \in Threads /\ next_pid > 1 /\ s > Shell /\ next_pid # Shell
  BY <1>1, BoundAssumption DEF SpawnPublish, ReservedInv, Threads, Slots, Kernel, Shell
<1>3. \A t \in Threads : HasSlot(t)' <=> HasSlot(t) \/ t = next_pid
  BY <1>1 DEF HasSlot
<1>4. ~HasSlot(next_pid) /\ \A t \in Threads : HasSlot(t) => t # next_pid
  BY DEF HasSlot, UniquePids
<1>5. WindowsInv'
  BY DEF SpawnPublish, Running, AfterPid, machine, WindowsInv, RaceWindows
<1>6. ReservedInv'
  BY <1>1, <1>2 DEF SpawnPublish, Running, AfterPid, machine, ReservedInv
<1>7. RunningInv'
  BY DEF SpawnPublish, Running, AfterPid, machine, RunningInv, WindowsInv,
     RaceWindows
<1>8. CurrentInv'
  BY <1>1, <1>2, <1>3, <1>4 DEF SpawnPublish, Running, AfterPid, machine,
     CurrentInv, Zombie, HasSlot, WindowsInv, RaceWindows, TasksInv, Spawning,
     InSwitch
<1>9. ScheduleInv'
  BY DEF SpawnPublish, Running, AfterPid, machine, ScheduleInv, InSwitch,
     HasSlot, WindowsInv, RaceWindows, CurrentInv, Zombie
<1>10. SavedInv'
  BY <1>1, <1>2 DEF SpawnPublish, Running, AfterPid, machine, SavedInv,
     Suspended, Spawning, WindowsInv, RaceWindows, RunningInv, UniquePids
<1>11. KernelInv'
  BY <1>1, <1>2, <1>3, <1>4 DEF SpawnPublish, Running, AfterPid, machine,
     KernelInv, InSwitch, Zombie, HasSlot, WindowsInv, RaceWindows, ReservedInv,
     TasksInv, RunningInv
<1>12. MarkInv'
  BY <1>1, <1>2 DEF SpawnPublish, Running, AfterPid, machine, MarkInv,
     Switching, WindowsInv, RaceWindows
<1>13. ShellInv'
  BY DEF SpawnPublish, Running, AfterPid, machine, ShellInv, Switching,
     WindowsInv, RaceWindows, ReservedInv
<1>14. TasksInv'
  BY DEF SpawnPublish, Running, AfterPid, machine, TasksInv, HasSlot, Spawning,
     InSwitch, WindowsInv, RaceWindows
<1>15. CommandInv'
  BY <1>1, <1>2 DEF SpawnPublish, Running, AfterPid, machine, CommandInv,
     Spawning, Killing, HasSlot, WindowsInv, RaceWindows, RunningInv
<1> QED
  BY <1>5, <1>6, <1>7, <1>8, <1>9, <1>10, <1>11, <1>12, <1>13, <1>14, <1>15

(* process_create_kernel gives the new slot its context. *)
LEMMA SpawnStackKeeps ==
    ASSUME TypeInv, UniquePids, Orderly, SpawnStack
    PROVE  Orderly'
<1> USE ConstantFacts DEF TypeInv, TypeOK, TableType, StaticsType, MachineType,
                      LocalsType, Orderly
<1>1. /\ slot[Shell] \in Slots /\ slot[Shell] > Shell /\ in_use[slot[Shell]]
      /\ slot[Shell] # Kernel /\ slot[Shell] # Shell
  BY DEF SpawnStack, Running, CommandInv, Spawning, Kernel, Shell, LocalsOK
<1>2. /\ pid[slot[Shell]] \in Threads /\ pid[slot[Shell]] # Shell
      /\ pid[slot[Shell]] < next_pid /\ HasSlot(pid[slot[Shell]])
  BY <1>1 DEF UniquePids, ReservedInv, HasSlot, NoContext, Kernel, Shell
<1>3. WindowsInv'
  BY DEF SpawnStack, Running, machine, WindowsInv, RaceWindows
<1>4. ReservedInv'
  BY DEF SpawnStack, Running, machine, ReservedInv
<1>5. RunningInv'
  BY <1>1, <1>2 DEF SpawnStack, Running, machine, RunningInv, WindowsInv,
     RaceWindows, CommandInv
<1>6. CurrentInv'
  BY DEF SpawnStack, Running, machine, CurrentInv, Zombie, HasSlot, WindowsInv,
     RaceWindows, TasksInv, Spawning, InSwitch
<1>7. ScheduleInv'
  BY DEF SpawnStack, Running, machine, ScheduleInv, InSwitch, HasSlot,
     WindowsInv, RaceWindows, CurrentInv, Zombie
<1>8. SavedInv'
  BY <1>1, <1>2 DEF SpawnStack, Running, machine, SavedInv, Suspended, Spawning,
     WindowsInv, RaceWindows, RunningInv, CommandInv, UniquePids
<1>9. KernelInv'
  BY <1>1, <1>2 DEF SpawnStack, Running, machine, KernelInv, InSwitch, Zombie,
     HasSlot, WindowsInv, RaceWindows, ReservedInv, TasksInv
<1>10. MarkInv'
  BY DEF SpawnStack, Running, machine, MarkInv, Switching, WindowsInv,
     RaceWindows
<1>11. ShellInv'
  BY DEF SpawnStack, Running, machine, ShellInv, Switching, WindowsInv,
     RaceWindows, ReservedInv
<1>12. TasksInv'
  BY <1>1, <1>2 DEF SpawnStack, Running, machine, TasksInv, HasSlot, Spawning,
     InSwitch, WindowsInv, RaceWindows
<1>13. CommandInv'
  BY DEF SpawnStack, Running, machine, CommandInv, Spawning, Killing, HasSlot,
     WindowsInv, RaceWindows
<1> QED
  BY <1>3, <1>4, <1>5, <1>6, <1>7, <1>8, <1>9, <1>10, <1>11, <1>12, <1>13

(* process_terminate takes a slot from a suspended task. *)
LEMMA KillKeeps ==
    ASSUME TypeInv, UniquePids, Orderly, NEW p \in Threads, Kill(p)
    PROVE  Orderly'
<1> USE ConstantFacts DEF TypeInv, TypeOK, TableType, StaticsType, MachineType,
                      LocalsType, Orderly
<1>1. /\ FindSlot(p) \in Slots /\ in_use[FindSlot(p)] /\ pid[FindSlot(p)] = p
      /\ p > 1 /\ p # Shell
  BY FindSlotResult DEF Kill, Killable, Shell
<1>2. FindSlot(p) # Kernel /\ FindSlot(p) # Shell /\ FindSlot(p) > Shell
  BY <1>1 DEF ReservedInv, Kernel, Shell, Slots
<1>3. HasSlot(p) /\ \A t \in Threads : HasSlot(t)' <=> HasSlot(t) /\ t # p
  BY <1>1 DEF Kill, HasSlot, UniquePids
<1>4. WindowsInv'
  BY DEF Kill, Running, Killable, machine, WindowsInv, RaceWindows
<1>5. ReservedInv'
  BY <1>1, <1>2 DEF Kill, Running, Killable, machine, ReservedInv
<1>6. RunningInv'
  BY DEF Kill, Running, Killable, machine, RunningInv, WindowsInv, RaceWindows
<1>7. CurrentInv'
  BY <1>1, <1>2, <1>3 DEF Kill, Running, Killable, machine, CurrentInv, Zombie,
     HasSlot, WindowsInv, RaceWindows, TasksInv, Spawning, InSwitch
<1>8. ScheduleInv'
  BY DEF Kill, Running, Killable, machine, ScheduleInv, InSwitch, HasSlot,
     WindowsInv, RaceWindows, CurrentInv, Zombie
<1>9. SavedInv'
  BY DEF Kill, Running, Killable, machine, SavedInv, Suspended, Spawning,
     WindowsInv, RaceWindows, RunningInv
<1>10. KernelInv'
  BY <1>1, <1>2, <1>3 DEF Kill, Running, Killable, machine, KernelInv, InSwitch,
     Zombie, HasSlot, WindowsInv, RaceWindows, ReservedInv, TasksInv
<1>11. MarkInv'
  BY DEF Kill, Running, Killable, machine, MarkInv, Switching, WindowsInv,
     RaceWindows
<1>12. ShellInv'
  BY <1>1, <1>2 DEF Kill, Running, Killable, machine, ShellInv, Switching,
     WindowsInv, RaceWindows, ReservedInv
<1>13. TasksInv'
  BY <1>1, <1>2, <1>3 DEF Kill, Running, Killable, machine, TasksInv, HasSlot,
     Spawning, InSwitch, WindowsInv, RaceWindows
<1>14. CommandInv'
  BY <1>1, <1>2, <1>3 DEF Kill, Running, Killable, machine, CommandInv,
     Spawning, Killing, HasSlot, WindowsInv, RaceWindows, TasksInv
<1> QED
  BY <1>4, <1>5, <1>6, <1>7, <1>8, <1>9, <1>10, <1>11, <1>12, <1>13, <1>14

(* process_terminate frees the stack of a task nothing refers to. *)
LEMMA KillFreeKeeps ==
    ASSUME TypeInv, UniquePids, Orderly, KillFree
    PROVE  Orderly'
<1> USE ConstantFacts DEF TypeInv, TypeOK, TableType, StaticsType, MachineType,
                      LocalsType, Orderly
<1>1. /\ slot[Shell] \in Slots /\ cpu = Shell
      /\ slot[Shell] # Kernel /\ slot[Shell] # Shell /\ Killing
  BY DEF KillFree, Running, CommandInv, Killing, Kernel, Shell, LocalsOK
<1>2. /\ pid[slot[Shell]] \in Threads /\ pid[slot[Shell]] # Shell
      /\ ~HasSlot(pid[slot[Shell]]) /\ home[pid[slot[Shell]]] = "work" 
  <2>1. ~HasSlot(pid[slot[Shell]]) /\ pid[slot[Shell]] > 1 /\ home[pid[slot[Shell]]] = "work"
    BY <1>1 DEF CommandInv
  <2>2. pid[slot[Shell]] \in 0 .. MaxPid
    BY <1>1 DEF TypeInv, TypeOK, TableType
  <2>3. pid[slot[Shell]] \in Threads /\ pid[slot[Shell]] # Shell
    BY <2>1, <2>2, BoundAssumption DEF Threads, Shell
  <2> QED
    BY <2>1, <2>3
<1>3. \A s \in Slots : in_use[s] => pid[s] # pid[slot[Shell]]
  BY <1>2 DEF HasSlot
<1>4. WindowsInv'
  BY DEF KillFree, Running, StackReleased, machine, WindowsInv, RaceWindows
<1>5. ReservedInv'
  BY DEF KillFree, Running, StackReleased, machine, ReservedInv
<1>6. RunningInv'
  <2>1. cpu' = cpu /\ next_pid' = next_pid /\ pc[Shell] = "free" /\ cpu # pid[slot[Shell]]
    BY <1>1, <1>2 DEF KillFree, Running, machine
  <2>2. frame'[cpu] = "none" /\ cpu < next_pid
    BY <1>1, <1>2, <2>1 DEF KillFree, RunningInv
  <2>3. \A r \in Slots : saved_esp'[r] # cpu /\ saved_esp'[r] < next_pid
    BY <1>1, <2>1 DEF KillFree, RunningInv, NoContext
  <2>4. \A u \in Threads : new_esp'[u] = NoContext
    BY <1>1, <2>1 DEF KillFree, RunningInv
  <2> QED
    BY <2>1, <2>2, <2>3, <2>4 DEF RunningInv
<1>7. CurrentInv'
  BY DEF KillFree, Running, StackReleased, machine, CurrentInv, Zombie, HasSlot,
     WindowsInv, RaceWindows, TasksInv, Spawning, InSwitch
<1>8. ScheduleInv'
  BY DEF KillFree, Running, StackReleased, machine, ScheduleInv, InSwitch,
     HasSlot, WindowsInv, RaceWindows, CurrentInv, Zombie
<1>9. SavedInv'
  <2> DEFINE d == pid[slot[Shell]]
  <2>1. /\ cpu' = cpu /\ pid' = pid /\ in_use' = in_use /\ ~Spawning
        /\ frame' = [frame EXCEPT ![d] = "none"]
        /\ saved_esp' = [r \in Slots |-> IF saved_esp[r] = d THEN NoContext ELSE saved_esp[r]]
    BY DEF KillFree, Running, machine, Spawning
  <2> SUFFICES ASSUME NEW s \in Slots \ {Kernel}, in_use[s], pid[s] # cpu
               PROVE  Suspended(s)'
    BY <2>1 DEF SavedInv
  <2>2. Suspended(s) /\ pid[s] # d
    BY <1>3, <2>1 DEF SavedInv
  <2>3. pid[s] # NoContext
    BY DEF UniquePids, ReservedInv, NoContext, Kernel
  <2>4. pid[s] \in Threads
    BY <2>3
  <2> QED
    BY <2>1, <2>2, <2>3, <2>4 DEF Suspended
<1>10. KernelInv'
  BY <1>1, <1>2 DEF KillFree, Running, StackReleased, machine, KernelInv,
     InSwitch, Zombie, HasSlot, WindowsInv, RaceWindows, ReservedInv
<1>11. MarkInv'
  BY DEF KillFree, Running, StackReleased, machine, MarkInv, Switching,
     WindowsInv, RaceWindows
<1>12. ShellInv'
  BY DEF KillFree, Running, StackReleased, machine, ShellInv, Switching,
     WindowsInv, RaceWindows, ReservedInv
<1>13. TasksInv'
  BY DEF KillFree, Running, StackReleased, machine, TasksInv, HasSlot, Spawning,
     InSwitch, WindowsInv, RaceWindows
<1>14. CommandInv'
  BY DEF KillFree, Running, StackReleased, machine, CommandInv, Spawning,
     Killing, HasSlot, WindowsInv, RaceWindows
<1> QED
  BY <1>4, <1>5, <1>6, <1>7, <1>8, <1>9, <1>10, <1>11, <1>12, <1>13, <1>14

(* alloc touches the page map alone, help the pager alone.                   *)
LEMMA OrderlyUnchanged ==
    ASSUME Orderly,
           UNCHANGED <<table, current_pid, next_pid, cpu, iflag, wild, locals>>
    PROVE  Orderly'
BY DEF table, locals, Orderly, WindowsInv, ReservedInv, RunningInv, CurrentInv, ScheduleInv,
       SavedInv, KernelInv, MarkInv, ShellInv, TasksInv, CommandInv, Zombie, HasSlot,
       Suspended, Switching, Spawning, Killing

(* The wrapper finds its own slot. *)
LEMMA EnterTaskKeeps ==
    ASSUME TypeInv, UniquePids, Orderly, NEW t \in Threads, EnterTask(t)
    PROVE  Orderly'
<1> USE ConstantFacts DEF TypeInv, TypeOK, TableType, StaticsType, MachineType,
                      LocalsType, Orderly
<1>1. t = cpu /\ t # Shell /\ HasSlot(t) /\ current_pid = t
  BY DEF EnterTask, Running, ShellInv, CurrentInv, Zombie, TasksInv, InSwitch
<1>2. /\ FindSlot(current_pid) \in Slots /\ in_use[FindSlot(current_pid)]
      /\ pid[FindSlot(current_pid)] = t /\ FindSlot(current_pid) > Shell
      /\ FindSlot(current_pid) # NoSlot
  BY <1>1, FindSlotResult DEF HasSlot, ReservedInv, Kernel, Shell, Slots, NoContext
<1>3. pc' = [pc EXCEPT ![t] = "work"] /\ home' = [home EXCEPT ![t] = "work"]
  <2>1. self' = [self EXCEPT ![t] = FindSlot(current_pid)]
    BY DEF EnterTask
  <2>2. self'[t] = FindSlot(current_pid)
    BY <1>1, <2>1 DEF TypeInv, TypeOK, LocalsType
  <2>3. FindSlot(current_pid) \in Nat /\ ~(FindSlot(current_pid) <= Shell)
    BY <1>2, SlotsAssumption DEF Shell, Slots
  <2> QED
    BY <1>2, <2>2, <2>3 DEF EnterTask
<1>4. WindowsInv'
  BY DEF EnterTask, Running, system, table, clock, machine, WindowsInv,
     RaceWindows
<1>5. ReservedInv'
  BY DEF EnterTask, Running, system, table, clock, machine, ReservedInv
<1>6. RunningInv'
  BY DEF EnterTask, Running, system, table, clock, machine, RunningInv,
     WindowsInv, RaceWindows
<1>7. CurrentInv'
  BY <1>1, <1>3 DEF EnterTask, Running, system, table, clock, machine,
     CurrentInv, Zombie, HasSlot, WindowsInv, RaceWindows, TasksInv, Spawning,
     InSwitch
<1>8. ScheduleInv'
  BY DEF EnterTask, Running, system, table, clock, machine, ScheduleInv,
     InSwitch, HasSlot, WindowsInv, RaceWindows, CurrentInv, Zombie
<1>9. SavedInv'
  BY DEF EnterTask, Running, system, table, clock, machine, SavedInv, Suspended,
     Spawning, WindowsInv, RaceWindows, RunningInv
<1>10. KernelInv'
  BY <1>1, <1>3 DEF EnterTask, Running, system, table, clock, machine,
     KernelInv, InSwitch, Zombie, HasSlot, WindowsInv, RaceWindows, ReservedInv,
     RunningInv
<1>11. MarkInv'
  BY DEF EnterTask, Running, system, table, clock, machine, MarkInv, Switching,
     WindowsInv, RaceWindows
<1>12. ShellInv'
  BY DEF EnterTask, Running, system, table, clock, machine, ShellInv, Switching,
     WindowsInv, RaceWindows, ReservedInv
<1>13. TasksInv'
  <2>1. \A u \in Threads : u # t =>
           pc'[u] = pc[u] /\ home'[u] = home[u] /\ self'[u] = self[u]
    BY <1>3 DEF EnterTask
  <2>2. pc'[t] = "work" /\ home'[t] = "work" /\ self'[t] = FindSlot(current_pid)
    BY <1>3 DEF EnterTask
  <2>3. /\ in_use' = in_use /\ pid' = pid /\ next_pid' = next_pid /\ frame' = frame
        /\ slot' = slot /\ (Spawning' <=> Spawning)
    BY <1>1, <2>1 DEF EnterTask, system, table, Spawning, Running, ShellInv
  <2>4. \A u \in Threads : HasSlot(u)' <=> HasSlot(u)
    BY <2>3 DEF HasSlot
  <2>5. ~(t >= next_pid) /\ ~Spawning
    BY <1>1 DEF RunningInv, WindowsInv, RaceWindows, Spawning, Threads
  <2> SUFFICES ASSUME NEW u \in Threads \ {Shell}
               PROVE  /\ pc'[u] # "halt"
                      /\ HasSlot(u)' /\ pc'[u] # "entry" =>
                            \E s \in Slots : self'[u] = s /\ pid[s] = u /\ in_use[s]
                      /\ HasSlot(u)' => home'[u] = "work"
                      /\ home'[u] = "zombie" =>
                            /\ self'[u] # NoSlot /\ ~HasSlot(u)'
                            /\ pc'[u] \in InSwitch \cup {"scan", "zombie"}
                      /\ u >= next_pid \/ (Spawning /\ u = pid[slot[Shell]]) =>
                            frame[u] = "none" /\ pc'[u] = "entry" /\ home'[u] = "work"
    BY <2>3 DEF TasksInv
  <2>6. CASE u = t
    <3>1. \E s \in Slots : self'[t] = s /\ pid[s] = t /\ in_use[s]
      BY <1>2, <2>2
    <3> QED
      BY <2>2, <2>5, <2>6, <3>1
  <2>7. CASE u # t
    BY <2>1, <2>4, <2>7 DEF TasksInv
  <2> QED
    BY <2>6, <2>7
<1>14. CommandInv'
  BY <1>1, <1>2, <1>3 DEF EnterTask, Running, system, table, clock, machine,
     CommandInv, Spawning, Killing, HasSlot, WindowsInv, RaceWindows
<1> QED
  BY <1>4, <1>5, <1>6, <1>7, <1>8, <1>9, <1>10, <1>11, <1>12, <1>13, <1>14

(* The task returns to the wrapper. *)
LEMMA ReturnFromTaskKeeps ==
    ASSUME TypeInv, UniquePids, Orderly, NEW t \in Threads, ReturnFromTask(t)
    PROVE  Orderly'
<1> USE ConstantFacts DEF TypeInv, TypeOK, TableType, StaticsType, MachineType,
                      LocalsType, Orderly
<1>1. WindowsInv'
  BY DEF ReturnFromTask, Running, system, table, clock, machine, WindowsInv,
     RaceWindows
<1>2. ReservedInv'
  BY DEF ReturnFromTask, Running, system, table, clock, machine, ReservedInv
<1>3. RunningInv'
  BY DEF ReturnFromTask, Running, system, table, clock, machine, RunningInv,
     WindowsInv, RaceWindows
<1>4. CurrentInv'
  BY DEF ReturnFromTask, Running, system, table, clock, machine, CurrentInv,
     Zombie, HasSlot, WindowsInv, RaceWindows, TasksInv, Spawning, InSwitch
<1>5. ScheduleInv'
  BY DEF ReturnFromTask, Running, system, table, clock, machine, ScheduleInv,
     InSwitch, HasSlot, WindowsInv, RaceWindows, CurrentInv, Zombie
<1>6. SavedInv'
  BY DEF ReturnFromTask, Running, system, table, clock, machine, SavedInv,
     Suspended, Spawning, WindowsInv, RaceWindows, RunningInv
<1>7. KernelInv'
  BY DEF ReturnFromTask, Running, system, table, clock, machine, KernelInv,
     InSwitch, Zombie, HasSlot, WindowsInv, RaceWindows, ReservedInv
<1>8. MarkInv'
  BY DEF ReturnFromTask, Running, system, table, clock, machine, MarkInv,
     Switching, WindowsInv, RaceWindows
<1>9. ShellInv'
  BY DEF ReturnFromTask, Running, system, table, clock, machine, ShellInv,
     Switching, WindowsInv, RaceWindows, ReservedInv
<1>10. TasksInv'
  BY DEF ReturnFromTask, Running, system, table, clock, machine, TasksInv,
     HasSlot, Spawning, InSwitch, WindowsInv, RaceWindows
<1>11. CommandInv'
  BY DEF ReturnFromTask, Running, system, table, clock, machine, CommandInv,
     Spawning, Killing, HasSlot, WindowsInv, RaceWindows
<1> QED
  BY <1>1, <1>2, <1>3, <1>4, <1>5, <1>6, <1>7, <1>8, <1>9, <1>10, <1>11

(* The wrapper marks its own slot. *)
LEMMA MarkTerminatedKeeps ==
    ASSUME TypeInv, UniquePids, Orderly, NEW t \in Threads, MarkTerminated(t)
    PROVE  Orderly'
<1> USE ConstantFacts DEF TypeInv, TypeOK, TableType, StaticsType, MachineType,
                      LocalsType, Orderly
<1>1. t = cpu /\ t # Shell /\ HasSlot(t)
  BY DEF MarkTerminated, Running, ShellInv, CurrentInv, Zombie, TasksInv, InSwitch
<1>2. self[t] \in Slots /\ in_use[self[t]] /\ pid[self[t]] = t
  BY <1>1 DEF MarkTerminated, Running, TasksInv
<1>3. self[t] # Kernel /\ self[t] # Shell
  BY <1>1, <1>2 DEF ReservedInv, NoContext, Kernel, Shell
<1>4. WindowsInv'
  BY DEF MarkTerminated, Running, machine, WindowsInv, RaceWindows
<1>5. ReservedInv'
  BY DEF MarkTerminated, Running, machine, ReservedInv
<1>6. RunningInv'
  BY DEF MarkTerminated, Running, machine, RunningInv, WindowsInv, RaceWindows
<1>7. CurrentInv'
  BY DEF MarkTerminated, Running, machine, CurrentInv, Zombie, HasSlot,
     WindowsInv, RaceWindows, TasksInv, Spawning, InSwitch
<1>8. ScheduleInv'
  BY DEF MarkTerminated, Running, machine, ScheduleInv, InSwitch, HasSlot,
     WindowsInv, RaceWindows, CurrentInv, Zombie
<1>9. SavedInv'
  BY DEF MarkTerminated, Running, machine, SavedInv, Suspended, Spawning,
     WindowsInv, RaceWindows, RunningInv
<1>10. KernelInv'
  BY <1>1, <1>2, <1>3 DEF MarkTerminated, Running, machine, KernelInv, InSwitch,
     Zombie, HasSlot, WindowsInv, RaceWindows, ReservedInv
<1>11. MarkInv'
  BY DEF MarkTerminated, Running, machine, MarkInv, Switching, WindowsInv,
     RaceWindows
<1>12. ShellInv'
  BY <1>1, <1>2, <1>3 DEF MarkTerminated, Running, machine, ShellInv, Switching,
     WindowsInv, RaceWindows, ReservedInv
<1>13. TasksInv'
  BY DEF MarkTerminated, Running, machine, TasksInv, HasSlot, Spawning,
     InSwitch, WindowsInv, RaceWindows
<1>14. CommandInv'
  BY DEF MarkTerminated, Running, machine, CommandInv, Spawning, Killing,
     HasSlot, WindowsInv, RaceWindows
<1> QED
  BY <1>4, <1>5, <1>6, <1>7, <1>8, <1>9, <1>10, <1>11, <1>12, <1>13, <1>14

(* The wrapper gives its slot up and becomes a zombie. *)
LEMMA ClearInUseKeeps ==
    ASSUME TypeInv, UniquePids, Orderly, NEW t \in Threads, ClearInUse(t)
    PROVE  Orderly'
<1> USE ConstantFacts DEF TypeInv, TypeOK, TableType, StaticsType, MachineType,
                      LocalsType, Orderly
<1>1. t = cpu /\ t # Shell /\ HasSlot(t) /\ current_pid = t
  BY DEF ClearInUse, Running, ShellInv, CurrentInv, Zombie, TasksInv, InSwitch
<1>2. self[t] \in Slots /\ in_use[self[t]] /\ pid[self[t]] = t
  BY <1>1 DEF ClearInUse, Running, TasksInv
<1>3. self[t] # Kernel /\ self[t] # Shell /\ self[t] # NoSlot
  BY <1>1, <1>2 DEF ReservedInv, NoContext, Kernel, Shell
<1>4. \A u \in Threads : HasSlot(u)' <=> HasSlot(u) /\ u # t
  BY <1>2 DEF ClearInUse, HasSlot, UniquePids
<1>5. WindowsInv'
  BY DEF ClearInUse, Running, machine, WindowsInv, RaceWindows
<1>6. ReservedInv'
  BY <1>2, <1>3 DEF ClearInUse, Running, machine, ReservedInv
<1>7. RunningInv'
  BY DEF ClearInUse, Running, machine, RunningInv, WindowsInv, RaceWindows
<1>8. CurrentInv'
  BY <1>1, <1>2, <1>3, <1>4 DEF ClearInUse, Running, machine, CurrentInv,
     Zombie, HasSlot, WindowsInv, RaceWindows, TasksInv, Spawning, InSwitch
<1>9. ScheduleInv'
  BY DEF ClearInUse, Running, machine, ScheduleInv, InSwitch, HasSlot,
     WindowsInv, RaceWindows, CurrentInv, Zombie
<1>10. SavedInv'
  BY DEF ClearInUse, Running, machine, SavedInv, Suspended, Spawning,
     WindowsInv, RaceWindows, RunningInv
<1>11. KernelInv'
  BY <1>1, <1>2, <1>3, <1>4 DEF ClearInUse, Running, machine, KernelInv,
     InSwitch, Zombie, HasSlot, WindowsInv, RaceWindows, ReservedInv, RunningInv
<1>12. MarkInv'
  BY DEF ClearInUse, Running, machine, MarkInv, Switching, WindowsInv,
     RaceWindows
<1>13. ShellInv'
  BY DEF ClearInUse, Running, machine, ShellInv, Switching, WindowsInv,
     RaceWindows, ReservedInv
<1>14. TasksInv'
  BY <1>1, <1>2, <1>3, <1>4 DEF ClearInUse, Running, machine, TasksInv, HasSlot,
     Spawning, InSwitch, WindowsInv, RaceWindows
<1>15. CommandInv'
  BY <1>1, <1>2, <1>3, <1>4 DEF ClearInUse, Running, machine, CommandInv,
     Spawning, Killing, HasSlot, WindowsInv, RaceWindows, TasksInv
<1> QED
  BY <1>5, <1>6, <1>7, <1>8, <1>9, <1>10, <1>11, <1>12, <1>13, <1>14, <1>15

(* A zombie calls schedule(). *)
LEMMA ZombieYieldKeeps ==
    ASSUME TypeInv, UniquePids, Orderly, NEW t \in Threads, ZombieYield(t)
    PROVE  Orderly'
<1> USE ConstantFacts DEF TypeInv, TypeOK, TableType, StaticsType, MachineType,
                      LocalsType, Orderly
<1>1. WindowsInv'
  BY DEF ZombieYield, Running, system, table, clock, machine, WindowsInv,
     RaceWindows
<1>2. ReservedInv'
  BY DEF ZombieYield, Running, system, table, clock, machine, ReservedInv
<1>3. RunningInv'
  BY DEF ZombieYield, Running, system, table, clock, machine, RunningInv,
     WindowsInv, RaceWindows
<1>4. CurrentInv'
  BY DEF ZombieYield, Running, system, table, clock, machine, CurrentInv,
     Zombie, HasSlot, WindowsInv, RaceWindows, TasksInv, Spawning, InSwitch
<1>5. ScheduleInv'
  BY DEF ZombieYield, Running, system, table, clock, machine, ScheduleInv,
     InSwitch, HasSlot, WindowsInv, RaceWindows, CurrentInv, Zombie
<1>6. SavedInv'
  BY DEF ZombieYield, Running, system, table, clock, machine, SavedInv,
     Suspended, Spawning, WindowsInv, RaceWindows, RunningInv
<1>7. KernelInv'
  BY DEF ZombieYield, Running, system, table, clock, machine, KernelInv,
     InSwitch, Zombie, HasSlot, WindowsInv, RaceWindows, ReservedInv
<1>8. MarkInv'
  BY DEF ZombieYield, Running, system, table, clock, machine, MarkInv,
     Switching, WindowsInv, RaceWindows
<1>9. ShellInv'
  BY DEF ZombieYield, Running, system, table, clock, machine, ShellInv,
     Switching, WindowsInv, RaceWindows, ReservedInv
<1>10. TasksInv'
  BY DEF ZombieYield, Running, system, table, clock, machine, TasksInv, HasSlot,
     Spawning, InSwitch, WindowsInv, RaceWindows
<1>11. CommandInv'
  BY DEF ZombieYield, Running, system, table, clock, machine, CommandInv,
     Spawning, Killing, HasSlot, WindowsInv, RaceWindows
<1> QED
  BY <1>1, <1>2, <1>3, <1>4, <1>5, <1>6, <1>7, <1>8, <1>9, <1>10, <1>11

(* A task blocks its own slot. *)
LEMMA SleepBlockKeeps ==
    ASSUME TypeInv, UniquePids, Orderly, NEW t \in Threads, SleepBlock(t)
    PROVE  Orderly'
<1> USE ConstantFacts DEF TypeInv, TypeOK, TableType, StaticsType, MachineType,
                      LocalsType, Orderly
<1>1. t = cpu /\ HasSlot(t) /\ current_pid = t /\ t # Shell
  BY DEF SleepBlock, MayBlock, Running, CurrentInv, Zombie, TasksInv, ShellInv, InSwitch, Shell, NoContext
<1>2. /\ FindSlot(current_pid) \in Slots /\ in_use[FindSlot(current_pid)]
      /\ pid[FindSlot(current_pid)] = t
  BY <1>1, FindSlotResult DEF HasSlot
<1>3. FindSlot(current_pid) # Kernel /\ FindSlot(current_pid) # Shell
  BY <1>1, <1>2 DEF ReservedInv, NoContext, Kernel, Shell
<1>4. WindowsInv'
  BY DEF SleepBlock, Running, MayBlock, machine, WindowsInv, RaceWindows
<1>5. ReservedInv'
  BY DEF SleepBlock, Running, MayBlock, machine, ReservedInv
<1>6. RunningInv'
  BY DEF SleepBlock, Running, MayBlock, machine, RunningInv, WindowsInv,
     RaceWindows
<1>7. CurrentInv'
  BY DEF SleepBlock, Running, MayBlock, machine, CurrentInv, Zombie, HasSlot,
     WindowsInv, RaceWindows, TasksInv, Spawning, InSwitch
<1>8. ScheduleInv'
  BY DEF SleepBlock, Running, MayBlock, machine, ScheduleInv, InSwitch, HasSlot,
     WindowsInv, RaceWindows, CurrentInv, Zombie
<1>9. SavedInv'
  BY DEF SleepBlock, Running, MayBlock, machine, SavedInv, Suspended, Spawning,
     WindowsInv, RaceWindows, RunningInv
<1>10. KernelInv'
  BY <1>1, <1>2, <1>3 DEF SleepBlock, Running, MayBlock, machine, KernelInv,
     InSwitch, Zombie, HasSlot, WindowsInv, RaceWindows, ReservedInv
<1>11. MarkInv'
  BY DEF SleepBlock, Running, MayBlock, machine, MarkInv, Switching, WindowsInv,
     RaceWindows
<1>12. ShellInv'
  BY <1>1, <1>2, <1>3 DEF SleepBlock, Running, MayBlock, machine, ShellInv,
     Switching, WindowsInv, RaceWindows, ReservedInv
<1>13. TasksInv'
  BY DEF SleepBlock, Running, MayBlock, machine, TasksInv, HasSlot, Spawning,
     InSwitch, WindowsInv, RaceWindows
<1>14. CommandInv'
  BY DEF SleepBlock, Running, MayBlock, machine, CommandInv, Spawning, Killing,
     HasSlot, WindowsInv, RaceWindows
<1> QED
  BY <1>4, <1>5, <1>6, <1>7, <1>8, <1>9, <1>10, <1>11, <1>12, <1>13, <1>14

(* A task sets its own deadline. *)
LEMMA SleepArmKeeps ==
    ASSUME TypeInv, UniquePids, Orderly, NEW t \in Threads, SleepArm(t)
    PROVE  Orderly'
<1> USE ConstantFacts DEF TypeInv, TypeOK, TableType, StaticsType, MachineType,
                      LocalsType, Orderly
<1>1. WindowsInv'
  BY DEF SleepArm, Running, machine, WindowsInv, RaceWindows
<1>2. ReservedInv'
  BY DEF SleepArm, Running, machine, ReservedInv
<1>3. RunningInv'
  BY DEF SleepArm, Running, machine, RunningInv, WindowsInv, RaceWindows
<1>4. CurrentInv'
  BY DEF SleepArm, Running, machine, CurrentInv, Zombie, HasSlot, WindowsInv,
     RaceWindows, TasksInv, Spawning, InSwitch
<1>5. ScheduleInv'
  BY DEF SleepArm, Running, machine, ScheduleInv, InSwitch, HasSlot, WindowsInv,
     RaceWindows, CurrentInv, Zombie
<1>6. SavedInv'
  BY DEF SleepArm, Running, machine, SavedInv, Suspended, Spawning, WindowsInv,
     RaceWindows, RunningInv
<1>7. KernelInv'
  BY DEF SleepArm, Running, machine, KernelInv, InSwitch, Zombie, HasSlot,
     WindowsInv, RaceWindows, ReservedInv
<1>8. MarkInv'
  BY DEF SleepArm, Running, machine, MarkInv, Switching, WindowsInv, RaceWindows
<1>9. ShellInv'
  BY DEF SleepArm, Running, machine, ShellInv, Switching, WindowsInv,
     RaceWindows, ReservedInv
<1>10. TasksInv'
  BY DEF SleepArm, Running, machine, TasksInv, HasSlot, Spawning, InSwitch,
     WindowsInv, RaceWindows
<1>11. CommandInv'
  BY DEF SleepArm, Running, machine, CommandInv, Spawning, Killing, HasSlot,
     WindowsInv, RaceWindows
<1> QED
  BY <1>1, <1>2, <1>3, <1>4, <1>5, <1>6, <1>7, <1>8, <1>9, <1>10, <1>11

(* Only the shell waits in the hlt loop. *)
LEMMA SleepBusyKeeps ==
    ASSUME TypeInv, UniquePids, Orderly, NEW t \in Threads, SleepBusy(t)
    PROVE  Orderly'
<1> USE ConstantFacts DEF TypeInv, TypeOK, TableType, StaticsType, MachineType,
                      LocalsType, Orderly
<1>1. t = Shell
  BY FindSlotResult DEF SleepBusy, MayBlock, Running, CurrentInv, Zombie, HasSlot, TasksInv, InSwitch, Shell, Threads
<1>2. WindowsInv'
  BY DEF SleepBusy, Running, MayBlock, system, table, clock, machine,
     WindowsInv, RaceWindows
<1>3. ReservedInv'
  BY DEF SleepBusy, Running, MayBlock, system, table, clock, machine,
     ReservedInv
<1>4. RunningInv'
  BY DEF SleepBusy, Running, MayBlock, system, table, clock, machine,
     RunningInv, WindowsInv, RaceWindows
<1>5. CurrentInv'
  BY DEF SleepBusy, Running, MayBlock, system, table, clock, machine,
     CurrentInv, Zombie, HasSlot, WindowsInv, RaceWindows, TasksInv, Spawning,
     InSwitch
<1>6. ScheduleInv'
  BY DEF SleepBusy, Running, MayBlock, system, table, clock, machine,
     ScheduleInv, InSwitch, HasSlot, WindowsInv, RaceWindows, CurrentInv, Zombie
<1>7. SavedInv'
  BY DEF SleepBusy, Running, MayBlock, system, table, clock, machine, SavedInv,
     Suspended, Spawning, WindowsInv, RaceWindows, RunningInv
<1>8. KernelInv'
  BY DEF SleepBusy, Running, MayBlock, system, table, clock, machine, KernelInv,
     InSwitch, Zombie, HasSlot, WindowsInv, RaceWindows, ReservedInv
<1>9. MarkInv'
  BY DEF SleepBusy, Running, MayBlock, system, table, clock, machine, MarkInv,
     Switching, WindowsInv, RaceWindows
<1>10. ShellInv'
  BY DEF SleepBusy, Running, MayBlock, system, table, clock, machine, ShellInv,
     Switching, WindowsInv, RaceWindows, ReservedInv
<1>11. TasksInv'
  BY <1>1 DEF SleepBusy, Running, MayBlock, system, table, clock, machine,
     TasksInv, HasSlot, Spawning, InSwitch, WindowsInv, RaceWindows
<1>12. CommandInv'
  BY DEF SleepBusy, Running, MayBlock, system, table, clock, machine,
     CommandInv, Spawning, Killing, HasSlot, WindowsInv, RaceWindows
<1> QED
  BY <1>2, <1>3, <1>4, <1>5, <1>6, <1>7, <1>8, <1>9, <1>10, <1>11, <1>12

(* A task stops in the pager, and gets its key. *)
LEMMA PagerKeeps ==
    ASSUME TypeInv, UniquePids, Orderly, NEW t \in Threads, PagerWait(t) \/ KeyTaken(t)
    PROVE  Orderly'
<1> USE ConstantFacts DEF TypeInv, TypeOK, TableType, StaticsType, MachineType,
                      LocalsType, Orderly
<1>1. /\ cpu = t /\ t # Shell /\ pc[t] \in {"work", "key"}
      /\ UNCHANGED <<table, current_pid, next_pid, cpu, iflag, wild, frame, home, slot,
                     next_slot, new_esp, self>>
  BY DEF PagerWait, KeyTaken, Running, system, machine
<1>2. PICK q \in {"work", "key"} : pc' = [pc EXCEPT ![t] = q]
  BY DEF PagerWait, KeyTaken
<1> USE DEF table
<1>3. WindowsInv'
  BY <1>1, <1>2 DEF WindowsInv, RaceWindows
<1>4. ReservedInv' /\ RunningInv'
  BY <1>1, <1>2 DEF ReservedInv, RunningInv
<1>5. CurrentInv'
  BY <1>1, <1>2 DEF CurrentInv, Zombie, HasSlot
<1>6. ScheduleInv'
  BY <1>1, <1>2 DEF ScheduleInv, InSwitch
<1>7. SavedInv'
  BY <1>1, <1>2 DEF SavedInv, Suspended, Spawning
<1>8. KernelInv' /\ MarkInv'
  BY <1>1, <1>2 DEF KernelInv, InSwitch, Zombie, HasSlot, MarkInv, Switching
<1>9. ShellInv'
  BY <1>1, <1>2 DEF ShellInv, Switching
<1>10. TasksInv'
  BY <1>1, <1>2 DEF TasksInv, HasSlot, Spawning, InSwitch
<1>11. CommandInv'
  BY <1>1, <1>2 DEF CommandInv, Spawning, Killing, HasSlot
<1> QED
  BY <1>3, <1>4, <1>5, <1>6, <1>7, <1>8, <1>9, <1>10, <1>11

(* The shell leaves the hlt loop. *)
LEMMA HaltDoneKeeps ==
    ASSUME TypeInv, UniquePids, Orderly, NEW t \in Threads, HaltDone(t)
    PROVE  Orderly'
<1> USE ConstantFacts DEF TypeInv, TypeOK, TableType, StaticsType, MachineType,
                      LocalsType, Orderly
<1>1. WindowsInv'
  BY DEF HaltDone, Running, system, table, clock, machine, WindowsInv,
     RaceWindows
<1>2. ReservedInv'
  BY DEF HaltDone, Running, system, table, clock, machine, ReservedInv
<1>3. RunningInv'
  BY DEF HaltDone, Running, system, table, clock, machine, RunningInv,
     WindowsInv, RaceWindows
<1>4. CurrentInv'
  BY DEF HaltDone, Running, system, table, clock, machine, CurrentInv, Zombie,
     HasSlot, WindowsInv, RaceWindows, TasksInv, Spawning, InSwitch
<1>5. ScheduleInv'
  BY DEF HaltDone, Running, system, table, clock, machine, ScheduleInv,
     InSwitch, HasSlot, WindowsInv, RaceWindows, CurrentInv, Zombie
<1>6. SavedInv'
  BY DEF HaltDone, Running, system, table, clock, machine, SavedInv, Suspended,
     Spawning, WindowsInv, RaceWindows, RunningInv
<1>7. KernelInv'
  BY DEF HaltDone, Running, system, table, clock, machine, KernelInv, InSwitch,
     Zombie, HasSlot, WindowsInv, RaceWindows, ReservedInv
<1>8. MarkInv'
  BY DEF HaltDone, Running, system, table, clock, machine, MarkInv, Switching,
     WindowsInv, RaceWindows
<1>9. ShellInv'
  BY DEF HaltDone, Running, system, table, clock, machine, ShellInv, Switching,
     WindowsInv, RaceWindows, ReservedInv
<1>10. TasksInv'
  BY DEF HaltDone, Running, system, table, clock, machine, TasksInv, HasSlot,
     Spawning, InSwitch, WindowsInv, RaceWindows
<1>11. CommandInv'
  BY DEF HaltDone, Running, system, table, clock, machine, CommandInv, Spawning,
     Killing, HasSlot, WindowsInv, RaceWindows
<1> QED
  BY <1>1, <1>2, <1>3, <1>4, <1>5, <1>6, <1>7, <1>8, <1>9, <1>10, <1>11

(* schedule() picks a READY process other than its own. *)
LEMMA ScanKeeps ==
    ASSUME TypeInv, UniquePids, Orderly, NEW t \in Threads, Scan(t)
    PROVE  Orderly'
<1> USE ConstantFacts DEF TypeInv, TypeOK, TableType, StaticsType, MachineType,
                      LocalsType, Orderly
<1>1. t = cpu /\ pc[cpu] = "scan"
  BY DEF Scan, Running
<1>2. /\ HasSlot(cpu) => in_use[CurSlot] /\ pid[CurSlot] = cpu /\ CurSlot # Kernel
      /\ ~HasSlot(cpu) => CurSlot = Kernel
      /\ CurSlot \in Slots /\ in_use[CurSlot]
  BY <1>1, OwnSlot DEF ReservedInv
<1>3. \/ NextReady(CurSlot, state) = NoSlot
      \/ /\ NextReady(CurSlot, state) \in Slots /\ in_use[NextReady(CurSlot, state)]
         /\ state[NextReady(CurSlot, state)] = "READY"
  BY <1>2, NextReadyResult
<1>4. WindowsInv'
  BY DEF Scan, Running, system, table, clock, machine, WindowsInv, RaceWindows
<1>5. ReservedInv'
  BY DEF Scan, Running, system, table, clock, machine, ReservedInv
<1>6. RunningInv'
  BY DEF Scan, Running, system, table, clock, machine, RunningInv, WindowsInv,
     RaceWindows
<1>7. CurrentInv'
  BY DEF Scan, Running, system, table, clock, machine, CurrentInv, Zombie,
     HasSlot, WindowsInv, RaceWindows, TasksInv, Spawning, InSwitch
<1>8. ScheduleInv'
  BY <1>1, <1>2, <1>3 DEF Scan, Running, system, table, clock, machine,
     ScheduleInv, InSwitch, HasSlot, WindowsInv, RaceWindows, CurrentInv,
     Zombie, Kernel
<1>9. SavedInv'
  BY DEF Scan, Running, system, table, clock, machine, SavedInv, Suspended,
     Spawning, WindowsInv, RaceWindows, RunningInv
<1>10. KernelInv'
  BY <1>1, <1>2, <1>3 DEF Scan, Running, system, table, clock, machine,
     KernelInv, InSwitch, Zombie, HasSlot, WindowsInv, RaceWindows, ReservedInv
<1>11. MarkInv'
  BY DEF Scan, Running, system, table, clock, machine, MarkInv, Switching,
     WindowsInv, RaceWindows
<1>12. ShellInv'
  BY DEF Scan, Running, system, table, clock, machine, ShellInv, Switching,
     WindowsInv, RaceWindows, ReservedInv
<1>13. TasksInv'
  BY DEF Scan, Running, system, table, clock, machine, TasksInv, HasSlot,
     Spawning, InSwitch, WindowsInv, RaceWindows
<1>14. CommandInv'
  BY DEF Scan, Running, system, table, clock, machine, CommandInv, Spawning,
     Killing, HasSlot, WindowsInv, RaceWindows
<1> QED
  BY <1>4, <1>5, <1>6, <1>7, <1>8, <1>9, <1>10, <1>11, <1>12, <1>13, <1>14

(* schedule() marks both slots. *)
LEMMA MarkKeeps ==
    ASSUME TypeInv, UniquePids, Orderly, NEW t \in Threads, Mark(t)
    PROVE  Orderly'
<1> USE ConstantFacts DEF TypeInv, TypeOK, TableType, StaticsType, MachineType,
                      LocalsType, Orderly
<1>1. /\ t = cpu /\ slot[t] \in Slots /\ next_slot[t] \in Slots
      /\ next_slot[t] # slot[t]
  BY DEF Mark, Running, ScheduleInv, InSwitch, LocalsOK
<1>2. WindowsInv'
  BY DEF Mark, Running, Marked, machine, WindowsInv, RaceWindows
<1>3. ReservedInv'
  BY DEF Mark, Running, Marked, machine, ReservedInv
<1>4. RunningInv'
  BY DEF Mark, Running, Marked, machine, RunningInv, WindowsInv, RaceWindows
<1>5. CurrentInv'
  BY DEF Mark, Running, Marked, machine, CurrentInv, Zombie, HasSlot,
     WindowsInv, RaceWindows, TasksInv, Spawning, InSwitch
<1>6. ScheduleInv'
  BY <1>1 DEF Mark, Running, Marked, machine, ScheduleInv, InSwitch, HasSlot,
     WindowsInv, RaceWindows, CurrentInv, Zombie
<1>7. SavedInv'
  BY DEF Mark, Running, Marked, machine, SavedInv, Suspended, Spawning,
     WindowsInv, RaceWindows, RunningInv
<1>8. KernelInv'
  BY DEF Mark, Running, Marked, machine, KernelInv, InSwitch, Zombie, HasSlot,
     WindowsInv, RaceWindows, ReservedInv
<1>9. MarkInv'
  BY DEF Mark, Running, Marked, machine, MarkInv, Switching, WindowsInv,
     RaceWindows
<1>10. ShellInv'
  BY DEF Mark, Running, Marked, machine, ShellInv, Switching, WindowsInv,
     RaceWindows, ReservedInv
<1>11. TasksInv'
  BY DEF Mark, Running, Marked, machine, TasksInv, HasSlot, Spawning, InSwitch,
     WindowsInv, RaceWindows
<1>12. CommandInv'
  BY DEF Mark, Running, Marked, machine, CommandInv, Spawning, Killing, HasSlot,
     WindowsInv, RaceWindows
<1> QED
  BY <1>2, <1>3, <1>4, <1>5, <1>6, <1>7, <1>8, <1>9, <1>10, <1>11, <1>12

(* schedule() stores current_pid. *)
LEMMA SetCurrentKeeps ==
    ASSUME TypeInv, UniquePids, Orderly, NEW t \in Threads, SetCurrent(t)
    PROVE  Orderly'
<1> USE ConstantFacts DEF TypeInv, TypeOK, TableType, StaticsType, MachineType,
                      LocalsType, Orderly
<1>1. WindowsInv'
  BY DEF SetCurrent, Running, table, machine, WindowsInv, RaceWindows
<1>2. ReservedInv'
  BY DEF SetCurrent, Running, table, machine, ReservedInv
<1>3. RunningInv'
  BY DEF SetCurrent, Running, table, machine, RunningInv, WindowsInv,
     RaceWindows
<1>4. CurrentInv'
  BY DEF SetCurrent, Running, table, machine, CurrentInv, Zombie, HasSlot,
     WindowsInv, RaceWindows, TasksInv, Spawning, InSwitch
<1>5. ScheduleInv'
  BY DEF SetCurrent, Running, table, machine, ScheduleInv, InSwitch, HasSlot,
     WindowsInv, RaceWindows, CurrentInv, Zombie
<1>6. SavedInv'
  BY DEF SetCurrent, Running, table, machine, SavedInv, Suspended, Spawning,
     WindowsInv, RaceWindows, RunningInv
<1>7. KernelInv'
  BY DEF SetCurrent, Running, table, machine, KernelInv, InSwitch, Zombie,
     HasSlot, WindowsInv, RaceWindows, ReservedInv
<1>8. MarkInv'
  BY DEF SetCurrent, Running, table, machine, MarkInv, Switching, WindowsInv,
     RaceWindows
<1>9. ShellInv'
  BY DEF SetCurrent, Running, table, machine, ShellInv, Switching, WindowsInv,
     RaceWindows, ReservedInv
<1>10. TasksInv'
  BY DEF SetCurrent, Running, table, machine, TasksInv, HasSlot, Spawning,
     InSwitch, WindowsInv, RaceWindows
<1>11. CommandInv'
  BY DEF SetCurrent, Running, table, machine, CommandInv, Spawning, Killing,
     HasSlot, WindowsInv, RaceWindows
<1> QED
  BY <1>1, <1>2, <1>3, <1>4, <1>5, <1>6, <1>7, <1>8, <1>9, <1>10, <1>11

(* schedule() reads the next process's stack pointer. *)
LEMMA LoadEspKeeps ==
    ASSUME TypeInv, UniquePids, Orderly, NEW t \in Threads, LoadEsp(t)
    PROVE  Orderly'
<1> USE ConstantFacts DEF TypeInv, TypeOK, TableType, StaticsType, MachineType,
                      LocalsType, Orderly
<1>1. WindowsInv'
  BY DEF LoadEsp, Running, system, table, clock, machine, WindowsInv,
     RaceWindows
<1>2. ReservedInv'
  BY DEF LoadEsp, Running, system, table, clock, machine, ReservedInv
<1>3. RunningInv'
  BY DEF LoadEsp, Running, system, table, clock, machine, RunningInv,
     WindowsInv, RaceWindows
<1>4. CurrentInv'
  BY DEF LoadEsp, Running, system, table, clock, machine, CurrentInv, Zombie,
     HasSlot, WindowsInv, RaceWindows, TasksInv, Spawning, InSwitch
<1>5. ScheduleInv'
  BY DEF LoadEsp, Running, system, table, clock, machine, ScheduleInv, InSwitch,
     HasSlot, WindowsInv, RaceWindows, CurrentInv, Zombie
<1>6. SavedInv'
  BY DEF LoadEsp, Running, system, table, clock, machine, SavedInv, Suspended,
     Spawning, WindowsInv, RaceWindows, RunningInv
<1>7. KernelInv'
  BY DEF LoadEsp, Running, system, table, clock, machine, KernelInv, InSwitch,
     Zombie, HasSlot, WindowsInv, RaceWindows, ReservedInv
<1>8. MarkInv'
  BY DEF LoadEsp, Running, system, table, clock, machine, MarkInv, Switching,
     WindowsInv, RaceWindows
<1>9. ShellInv'
  BY DEF LoadEsp, Running, system, table, clock, machine, ShellInv, Switching,
     WindowsInv, RaceWindows, ReservedInv
<1>10. TasksInv'
  BY DEF LoadEsp, Running, system, table, clock, machine, TasksInv, HasSlot,
     Spawning, InSwitch, WindowsInv, RaceWindows
<1>11. CommandInv'
  BY DEF LoadEsp, Running, system, table, clock, machine, CommandInv, Spawning,
     Killing, HasSlot, WindowsInv, RaceWindows
<1> QED
  BY <1>1, <1>2, <1>3, <1>4, <1>5, <1>6, <1>7, <1>8, <1>9, <1>10, <1>11

-----------------------------------------------------------------------------
(* Context switches.                                                         *)

(* The slot schedule() switches to holds the context of a thread that is not *)
(* the running one: its own process's, or a zombie's for slot 0.             *)
LEMMA NextHasContext ==
    ASSUME TypeInv, UniquePids, Orderly, ~Spawning,
           NEW c \in Slots, NEW n \in Slots, in_use[c], in_use[n], n # c,
           IF HasSlot(cpu) THEN pid[c] = cpu ELSE c = Kernel,
           n = Kernel =>
              \/ state[Kernel] = "READY" /\ ~(pc[cpu] \in InSwitch /\ slot[cpu] = Kernel)
              \/ pc[cpu] \in InSwitch /\ next_slot[cpu] = Kernel
    PROVE  /\ saved_esp[n] \in Threads /\ saved_esp[n] # cpu
           /\ saved_esp[n] < next_pid /\ frame[saved_esp[n]] # "none"
           /\ n # Kernel => pid[n] = saved_esp[n] /\ HasSlot(saved_esp[n])
           /\ n = Kernel => Zombie(saved_esp[n])
<1> USE ConstantFacts DEF TypeInv, TypeOK, TableType, StaticsType, MachineType,
                      LocalsType, Orderly
<1>1. saved_esp[n] # cpu /\ saved_esp[n] < next_pid
  BY DEF RunningInv
<1>2. CASE n = Kernel
  BY <1>1, <1>2 DEF KernelInv
<1>3. CASE n # Kernel
  <2>1. pid[n] # cpu
    BY DEF UniquePids, HasSlot
  <2>2. Suspended(n)
    BY <1>3, <2>1 DEF SavedInv
  <2>3. pid[n] # NoContext
    BY <1>3 DEF UniquePids, ReservedInv, NoContext, Kernel
  <2>4. pid[n] \in Threads
    BY <2>3
  <2> QED
    BY <1>1, <1>3, <2>2, <2>4 DEF Suspended, HasSlot
<1> QED
  BY <1>2, <1>3

(* After a context switch out of every race window, Orderly is in order again. *)
LEMMA SwitchedKeeps ==
    ASSUME TypeInv, UniquePids, Orderly, ~Spawning,
           NEW c \in Slots, NEW n \in Slots, NEW f \in BOOLEAN, NEW kind \in {"call", "irq"},
           in_use[c], in_use[n], n # c,
           IF HasSlot(cpu) THEN pid[c] = cpu ELSE c = Kernel,
           n = Kernel =>
              \/ state[Kernel] = "READY" /\ ~(pc[cpu] \in InSwitch /\ slot[cpu] = Kernel)
              \/ pc[cpu] \in InSwitch /\ next_slot[cpu] = Kernel,
           c # Kernel => ~(pc[cpu] \in InSwitch /\ slot[cpu] = Kernel),
           ContextSwitch(cpu, c, saved_esp[n], kind, f),
           pid' = pid, in_use' = in_use, next_pid' = next_pid, home' = home,
           self' = self, current_pid' = pid[n],
           state' \in [Slots -> ProcStates], state'[n] = "RUNNING",
           state'[Kernel] \in {"RUNNING", "READY"},
           c # Kernel /\ state'[Kernel] = "READY" => state[Kernel] = "READY",
           \A s \in Slots : s # n /\ state'[s] = "RUNNING" => s # c /\ state[s] = "RUNNING",
           \A s \in Slots \ {Kernel, n} : ~Switching(s),
           n # Shell /\ (c = Shell \/ state[Shell] = "READY") => state'[Shell] = "READY",
           cpu = Shell => kind = "irq",
           \A t \in Threads : pc'[t] \notin RaceWindows,
           \A t \in Threads : t # cpu => pc'[t] = pc[t] /\ slot'[t] = slot[t],
           \/ pc'[cpu] = pc[cpu] /\ slot'[cpu] = slot[cpu]
           \/ pc'[cpu] = home[cpu] /\ pc[cpu] = "switch" /\ cpu # Shell
    PROVE  Orderly'
<1> USE ConstantFacts DEF TypeInv, TypeOK, TableType, StaticsType, MachineType,
                      LocalsType, Orderly
<1> DEFINE x == saved_esp[n]
<1>1. /\ x \in Threads /\ x # cpu /\ x < next_pid /\ frame[x] # "none"
      /\ n # Kernel => pid[n] = x /\ HasSlot(x)
      /\ n = Kernel => Zombie(x)
  BY NextHasContext
<1>2. x # NoContext /\ cpu # NoContext
  BY <1>1 DEF NoContext
<1>3. /\ cpu' = x /\ wild' = FALSE /\ (iflag' <=> f \/ frame[x] # "call")
      /\ frame' = [frame EXCEPT ![cpu] = kind, ![x] = "none"]
      /\ saved_esp' = [s \in Slots |-> IF s = c THEN cpu
                                       ELSE IF saved_esp[s] = x THEN NoContext
                                       ELSE saved_esp[s]]
      /\ new_esp' = [u \in Threads |-> IF u = cpu \/ new_esp[u] = x
                                       THEN NoContext ELSE new_esp[u]]
  BY <1>2 DEF ContextSwitch
<1>4. /\ frame'[x] = "none" /\ frame'[cpu] = kind
      /\ \A t \in Threads : t # x /\ t # cpu => frame'[t] = frame[t]
  BY <1>1, <1>3
<1>5. \A t \in Threads : HasSlot(t)' <=> HasSlot(t)
  BY DEF HasSlot
<1>6. ~Spawning' /\ \A t \in Threads : pc'[t] \notin InSwitch
  BY DEF Spawning, RaceWindows, InSwitch
<1>7. HasSlot(cpu) => c # Kernel
  BY <1>2 DEF ReservedInv, NoContext
<1> HIDE DEF x
<1>8. WindowsInv'
  BY <1>3 DEF WindowsInv
<1>9. ReservedInv'
  BY DEF ReservedInv
<1>10. RunningInv'
  <2>1. \A t \in Threads : new_esp'[t] = NoContext
    <3>1. \A t \in Threads : t # cpu => new_esp[t] = NoContext
      BY DEF RunningInv
    <3> QED
      BY <1>3, <3>1
  <2>2. \A r \in Slots : saved_esp'[r] # x /\ saved_esp'[r] < next_pid
    BY <1>1, <1>2, <1>3 DEF RunningInv, NoContext
  <2> QED
    BY <1>1, <1>3, <1>4, <2>1, <2>2 DEF RunningInv
<1>11. CurrentInv'
  <2>1. pc'[x] \notin {"load", "switch"}
    BY <1>1, <1>6 DEF InSwitch
  <2>2. CASE n # Kernel
    BY <1>1, <1>3, <1>5, <2>1, <2>2 DEF CurrentInv
  <2>3. CASE n = Kernel
    BY <1>1, <1>3, <1>5, <2>1, <2>3 DEF CurrentInv, Zombie, ReservedInv
  <2> QED
    BY <2>2, <2>3
<1>12. ScheduleInv'
  BY <1>1, <1>3, <1>6 DEF ScheduleInv
<1>13. SavedInv'
  <2> SUFFICES ASSUME NEW s \in Slots \ {Kernel}, in_use[s], pid[s] # x
               PROVE  Suspended(s)'
    BY <1>3 DEF SavedInv
  <2>1. pid[s] # NoContext
    BY DEF UniquePids, ReservedInv, NoContext, Kernel
  <2>2. pid[s] \in Threads
    BY <2>1
  <2>3. CASE pid[s] = cpu
    <3>1. s = c
      BY <2>3 DEF UniquePids, HasSlot
    <3>2. \A r \in Slots : saved_esp'[r] = cpu => r = c
      BY <1>2, <1>3 DEF RunningInv
    <3> QED
      BY <1>3, <1>4, <2>3, <3>1, <3>2 DEF Suspended
  <2>4. CASE pid[s] # cpu
    <3>1. Suspended(s) /\ s # c
      BY <2>4 DEF SavedInv, Kernel
    <3>2. saved_esp'[s] = pid[s] /\ frame'[pid[s]] # "none"
      BY <1>3, <1>4, <2>2, <2>4, <3>1 DEF Suspended
    <3>3. \A r \in Slots : saved_esp'[r] = pid[s] => r = s
      BY <1>3, <2>1, <2>4, <3>1 DEF Suspended
    <3> QED
      BY <3>2, <3>3 DEF Suspended
  <2> QED
    BY <2>3, <2>4
<1>14. KernelInv'
  <2> SUFFICES ASSUME state'[Kernel] = "READY"
               PROVE  /\ saved_esp'[Kernel] \in Threads
                      /\ frame'[saved_esp'[Kernel]] # "none" /\ Zombie(saved_esp[Kernel])'
    <3>1. pc'[cpu'] \notin InSwitch
      BY <1>1, <1>3, <1>6
    <3> QED
      BY <3>1 DEF KernelInv
  <2>1. n # Kernel
    OBVIOUS
  <2>2. CASE c = Kernel
    <3>1. saved_esp'[Kernel] = cpu /\ frame'[cpu] = kind
      BY <1>3, <1>4, <2>2
    <3>2. Zombie(cpu)
      BY <1>7, <2>2 DEF CurrentInv
    <3> QED
      BY <3>1, <3>2 DEF Zombie, HasSlot
  <2>3. CASE c # Kernel
    <3>1. /\ saved_esp[Kernel] \in Threads /\ Zombie(saved_esp[Kernel])
          /\ frame[saved_esp[Kernel]] # "none" /\ saved_esp[Kernel] # cpu
      BY <2>3 DEF KernelInv, RunningInv
    <3>2. saved_esp[Kernel] # x
      BY <1>1, <2>1, <3>1 DEF Zombie
    <3>3. saved_esp'[Kernel] = saved_esp[Kernel]
      BY <1>3, <2>3, <3>2
    <3>4. frame'[saved_esp[Kernel]] # "none"
      BY <1>4, <3>1, <3>2
    <3> QED
      BY <3>1, <3>3, <3>4 DEF Zombie, HasSlot
  <2> QED
    BY <2>2, <2>3
<1>15. MarkInv'
  <2> SUFFICES ASSUME NEW s \in Slots \ {Kernel}, in_use[s], state'[s] = "RUNNING"
               PROVE  pid[s] = x
    BY <1>3 DEF MarkInv
  <2>1. CASE s = n
    BY <1>1, <2>1
  <2>2. CASE s # n
    <3>1. s # c /\ state[s] = "RUNNING" /\ ~Switching(s)
      BY <2>2
    <3>2. pid[s] = cpu
      BY <3>1 DEF MarkInv
    <3> QED
      BY <3>1, <3>2 DEF UniquePids, HasSlot
  <2> QED
    BY <2>1, <2>2
<1>16. ShellInv'
  <2>0. Shell \in Threads /\ HasSlot(Shell) /\ (x = Shell <=> n = Shell)
    <3>1. HasSlot(Shell) /\ (n = Shell => pid[n] = Shell)
      BY DEF ReservedInv, HasSlot, Shell
    <3>2. n = Shell => x = Shell
      BY <1>1, <3>1 DEF Shell, Kernel
    <3>3. x = Shell => n # Kernel
      BY <1>1, <3>1 DEF Zombie
    <3>4. x = Shell => n = Shell
      BY <1>1, <3>1, <3>3 DEF UniquePids, ReservedInv, Shell
    <3> QED
      BY <3>1, <3>2, <3>4, BoundAssumption DEF Threads, Shell
  <2>1. pc'[Shell] \in {"work", "halt", "stack", "free"}
    BY <2>0 DEF ShellInv
  <2>2. CASE x = Shell
    <3>1. frame[Shell] = "irq"
      BY <1>1, <2>2 DEF ShellInv
    <3> QED
      BY <1>3, <2>0, <2>1, <2>2, <3>1 DEF ShellInv
  <2>3. CASE x # Shell /\ cpu = Shell
    <3>1. c = Shell
      BY <2>0, <2>3 DEF UniquePids, ReservedInv, Shell
    <3> QED
      BY <1>3, <1>4, <2>0, <2>1, <2>3, <3>1 DEF ShellInv
  <2>4. CASE x # Shell /\ cpu # Shell
    <3>1. frame'[Shell] = "irq"
      BY <1>4, <2>0, <2>4 DEF ShellInv
    <3>2. state[Shell] = "READY"
      BY <2>0, <2>4 DEF ShellInv, Shell, Kernel
    <3> QED
      BY <1>3, <2>0, <2>1, <2>4, <3>1, <3>2 DEF ShellInv
  <2> QED
    BY <2>2, <2>3, <2>4
<1>17. TasksInv'
  <2> SUFFICES ASSUME NEW u \in Threads \ {Shell}
               PROVE  /\ pc'[u] # "halt"
                      /\ HasSlot(u) /\ pc'[u] # "entry" =>
                            \E s \in Slots : self[u] = s /\ pid[s] = u /\ in_use[s]
                      /\ HasSlot(u) => home[u] = "work"
                      /\ home[u] = "zombie" => /\ self[u] # NoSlot /\ ~HasSlot(u)
                                               /\ pc'[u] \in InSwitch \cup {"scan", "zombie"}
                      /\ u >= next_pid => frame'[u] = "none" /\ pc'[u] = "entry" /\ home[u] = "work"
    BY <1>5, <1>6 DEF TasksInv
  <2>1. u >= next_pid => u # cpu /\ u # x
    <3>1. u \in Int /\ cpu \in Int /\ x \in Int /\ next_pid \in Int
      BY <1>1 DEF Threads
    <3>2. cpu < next_pid /\ x < next_pid
      BY <1>1 DEF RunningInv
    <3> QED
      BY ONLY <3>1, <3>2
  <2>2. CASE pc'[u] = pc[u]
    <3>1. u >= next_pid => frame'[u] = frame[u]
      BY <1>4, <2>1
    <3>2. /\ pc[u] # "halt"
          /\ HasSlot(u) /\ pc[u] # "entry" =>
                \E s \in Slots : self[u] = s /\ pid[s] = u /\ in_use[s]
          /\ HasSlot(u) => home[u] = "work"
          /\ home[u] = "zombie" => /\ self[u] # NoSlot /\ ~HasSlot(u)
                                   /\ pc[u] \in InSwitch \cup {"scan", "zombie"}
          /\ u >= next_pid => frame[u] = "none" /\ pc[u] = "entry" /\ home[u] = "work"
      BY DEF TasksInv
    <3> QED
      BY <2>2, <3>1, <3>2, Zenon
  <2>3. CASE u = cpu /\ pc'[cpu] = home[cpu] /\ pc[cpu] = "switch"
    BY <2>1, <2>3 DEF TasksInv
  <2> QED
    BY <2>2, <2>3
<1>18. CommandInv'
  <2>1. Killing' => Killing /\ slot'[Shell] = slot[Shell]
    BY BoundAssumption DEF Killing, Shell, Threads
  <2> QED
    BY <1>6, <2>1 DEF CommandInv, HasSlot
<1> QED
  BY <1>8, <1>9, <1>10, <1>11, <1>12, <1>13, <1>14, <1>15, <1>16, <1>17, <1>18

(* A thread that called schedule() switches.                                 *)
LEMMA SwitchKeeps ==
    ASSUME TypeInv, UniquePids, Orderly, NEW t \in Threads, Switch(t)
    PROVE  Orderly'
<1> USE ConstantFacts DEF TypeInv, TypeOK, TableType, StaticsType, MachineType,
                      LocalsType, Orderly
<1> DEFINE c == slot[cpu]  n == next_slot[cpu]
<1>1. /\ t = cpu /\ pc[cpu] = "switch" /\ cpu # Shell /\ ~Spawning
  BY DEF Switch, Running, ShellInv, WindowsInv, RaceWindows, Spawning, Shell, Threads
<1>2. /\ c \in Slots /\ n \in Slots /\ in_use[c] /\ in_use[n] /\ n # c
      /\ IF HasSlot(cpu) THEN pid[c] = cpu ELSE c = Kernel
      /\ state[n] = "RUNNING" /\ state[c] # "RUNNING" /\ new_esp[cpu] = saved_esp[n]
      /\ current_pid = pid[n]
  BY <1>1 DEF ScheduleInv, InSwitch, CurrentInv, LocalsOK
<1>3. /\ ContextSwitch(cpu, c, saved_esp[n], "call", iflag)
      /\ iflag \in BOOLEAN
  BY <1>1, <1>2 DEF Switch
<1>4. /\ pid' = pid /\ in_use' = in_use /\ next_pid' = next_pid /\ home' = home
      /\ self' = self /\ state' = state /\ current_pid' = current_pid
  BY DEF Switch
<1>5. /\ pc'[cpu] = home[cpu]
      /\ \A u \in Threads : u # cpu => pc'[u] = pc[u] /\ slot'[u] = slot[u]
  BY <1>1 DEF Switch
<1>6. \A u \in Threads : pc'[u] \notin RaceWindows
  BY <1>1, <1>5 DEF WindowsInv, RaceWindows
<1>7. \A s \in Slots \ {Kernel, n} : ~Switching(s)
  BY DEF Switching
<1>8. pc[cpu] \in InSwitch /\ state[Kernel] \in {"RUNNING", "READY"}
  BY <1>1 DEF InSwitch, KernelInv
<1>9. c # Shell
  BY <1>1, <1>2 DEF ReservedInv, Kernel, Shell
<1>10. n = Kernel => pc[cpu] \in InSwitch /\ next_slot[cpu] = Kernel
  BY <1>8
<1>11. c # Kernel => ~(pc[cpu] \in InSwitch /\ slot[cpu] = Kernel)
  OBVIOUS
<1>12. /\ state' \in [Slots -> ProcStates] /\ state'[n] = "RUNNING"
       /\ state'[Kernel] \in {"RUNNING", "READY"}
       /\ c # Kernel /\ state'[Kernel] = "READY" => state[Kernel] = "READY"
       /\ \A s \in Slots : s # n /\ state'[s] = "RUNNING" => s # c /\ state[s] = "RUNNING"
       /\ n # Shell /\ (c = Shell \/ state[Shell] = "READY") => state'[Shell] = "READY"
  BY <1>2, <1>4, <1>8, <1>9
<1> HIDE DEF TypeInv, TypeOK, TableType, StaticsType, MachineType, LocalsType,
             Orderly, c, n
<1> QED
  BY SwitchedKeeps, <1>1, <1>2, <1>3, <1>4, <1>5, <1>6, <1>7, <1>10, <1>11, <1>12

(* The timer interrupt, when it does not switch inside a race window.        *)
LEMMA TimerKeeps ==
    ASSUME TypeInv, UniquePids, Orderly, TimerIrq, ~raced'
    PROVE  Orderly'
<1> USE ConstantFacts DEF TypeInv, TypeOK, TableType, StaticsType, MachineType,
                      LocalsType, Orderly
<1> DEFINE now == (tick + 1) % TickMod
           st  == AfterTick(now)
           c   == CurSlot
           n   == NextReady(c, st)
<1>1. st \in [Slots -> ProcStates]
  BY AfterTickType
<1>2. \A s \in Slots : /\ st[s] = "RUNNING" <=> state[s] = "RUNNING"
                       /\ state[s] = "READY" => st[s] = "READY"
                       /\ state[s] # "BLOCKED" => st[s] = state[s]
  BY DEF AfterTick, Due
<1>3. /\ pid' = pid /\ in_use' = in_use /\ next_pid' = next_pid /\ home' = home
      /\ self' = self /\ pc' = pc /\ slot' = slot /\ next_slot' = next_slot
  BY DEF TimerIrq
<1>4. st[Kernel] = state[Kernel] /\ state[Kernel] \in {"RUNNING", "READY"}
  BY <1>2 DEF KernelInv
<1>5. CASE slice_counter + 1 < SliceTicks \/ n = NoSlot \/ n = c
  <2>1. /\ state' = st /\ saved_esp' = saved_esp /\ current_pid' = current_pid
        /\ cpu' = cpu /\ iflag' = iflag /\ wild' = wild
        /\ frame' = frame /\ new_esp' = new_esp
    BY <1>5 DEF TimerIrq, machine
  <2> HIDE DEF st, c, n, now
  <2>2. WindowsInv' /\ ReservedInv' /\ RunningInv'
    BY <1>3, <2>1 DEF WindowsInv, ReservedInv, RunningInv
  <2>3. CurrentInv'
    BY <1>3, <2>1 DEF CurrentInv, Zombie, HasSlot
  <2>4. ScheduleInv'
    <3> SUFFICES ASSUME pc[cpu] \in InSwitch
                 PROVE  ScheduleInv'
      BY <1>3, <2>1 DEF ScheduleInv
    <3>1. slot[cpu] \in Slots /\ next_slot[cpu] \in Slots
      BY DEF LocalsOK, InSwitch
    <3> QED
      BY <1>2, <1>3, <2>1, <3>1 DEF ScheduleInv, HasSlot
  <2>5. SavedInv'
    BY <1>3, <2>1 DEF SavedInv, Suspended, Spawning
  <2>6. KernelInv'
    BY <1>3, <1>4, <2>1 DEF KernelInv, Zombie, HasSlot
  <2>7. MarkInv'
    BY <1>2, <1>3, <2>1 DEF MarkInv, Switching
  <2>8. ShellInv'
    BY <1>2, <1>3, <2>1 DEF ShellInv, Switching
  <2>9. TasksInv'
    BY <1>3, <2>1 DEF TasksInv, HasSlot, Spawning
  <2>10. CommandInv'
    BY <1>3, <2>1 DEF CommandInv, HasSlot, Spawning, Killing
  <2> QED
    BY <2>2, <2>3, <2>4, <2>5, <2>6, <2>7, <2>8, <2>9, <2>10
<1>6. CASE ~(slice_counter + 1 < SliceTicks \/ n = NoSlot \/ n = c)
  <2>1. /\ state' = Marked(c, n, st) /\ current_pid' = pid[n]
        /\ ContextSwitch(cpu, c, saved_esp[n], "irq", FALSE)
        /\ raced' = (raced \/ pc[cpu] \in RaceWindows)
    BY <1>6 DEF TimerIrq
  <2>2. pc[cpu] \notin RaceWindows
    BY <2>1
  <2>3. \A t \in Threads : pc'[t] \notin RaceWindows
    BY <1>3, <2>2 DEF WindowsInv
  <2>4. /\ c \in Slots /\ in_use[c]
        /\ IF HasSlot(cpu) THEN pid[c] = cpu ELSE c = Kernel
    BY <2>2, OwnSlot DEF RaceWindows, ReservedInv
  <2>5. n \in Slots /\ in_use[n] /\ st[n] = "READY" /\ n # c
    BY <1>1, <1>6, <2>4, NextReadyResult
  <2> HIDE DEF st, c, n, now
  <2>6. state' = [st EXCEPT ![c] = IF @ = "RUNNING" THEN "READY" ELSE @, ![n] = "RUNNING"]
    BY <2>1 DEF Marked
  <2>7. /\ state' \in [Slots -> ProcStates] /\ state'[n] = "RUNNING"
        /\ state'[c] = IF st[c] = "RUNNING" THEN "READY" ELSE st[c]
        /\ \A s \in Slots : s # n /\ s # c => state'[s] = st[s]
    BY <1>1, <2>4, <2>5, <2>6 DEF ProcStates
  <2>8. /\ state'[Kernel] \in {"RUNNING", "READY"}
        /\ c # Kernel /\ state'[Kernel] = "READY" => state[Kernel] = "READY"
        /\ \A s \in Slots : s # n /\ state'[s] = "RUNNING" => s # c /\ state[s] = "RUNNING"
    BY <1>2, <1>4, <2>4, <2>7
  <2>9. ~Spawning /\ pc[cpu] \notin InSwitch
    BY <2>2, <1>3, <2>3, BoundAssumption DEF RaceWindows, Spawning, InSwitch, Threads, Shell
  <2>10. \A s \in Slots \ {Kernel, n} : ~Switching(s)
    BY <2>9 DEF Switching, InSwitch
  <2>11. n = Kernel => state[Kernel] = "READY"
    BY <1>4, <2>5
  <2>12. c = Shell => st[Shell] = "RUNNING"
    <3> SUFFICES ASSUME c = Shell
                 PROVE  st[Shell] = "RUNNING"
      OBVIOUS
    <3>1. cpu = Shell
      BY <2>4 DEF ReservedInv, Shell, Kernel
    <3> QED
      BY <1>2, <3>1 DEF ShellInv
  <2>13. n # Shell /\ (c = Shell \/ state[Shell] = "READY") => state'[Shell] = "READY"
    BY <1>2, <2>7, <2>12
  <2> HIDE DEF TypeInv, TypeOK, TableType, StaticsType, MachineType, LocalsType, Orderly
  <2> QED
    BY SwitchedKeeps, <1>3, <2>1, <2>3, <2>4, <2>5, <2>7, <2>8, <2>9, <2>10, <2>11, <2>13
<1> QED
  BY <1>5, <1>6

-----------------------------------------------------------------------------
(* The theorems.                                                             *)

(* The boot state, the shell running and no task yet.                        *)
LEMMA OrderlyInit == Init => Orderly
<1> SUFFICES ASSUME Init
             PROVE  Orderly
  OBVIOUS
<1> USE ConstantFacts, BoundAssumption DEF Init
<1>1. \A s \in Slots : s \in Nat /\ (in_use[s] <=> s = Kernel \/ s = Shell)
  <2>1. \A s \in Slots : in_use[s] <=> s <= Shell
    BY Zenon DEF Init
  <2>2. \A s \in Slots : s \in Nat /\ (s <= Shell <=> s = Kernel \/ s = Shell)
    BY SlotsAssumption DEF Slots, Kernel, Shell
  <2> QED
    BY <2>1, <2>2
<1>2. \A t \in Threads : HasSlot(t) <=> t = Shell
  BY <1>1 DEF HasSlot, Kernel, Shell, NoContext
<1>3. WindowsInv /\ ReservedInv /\ ScheduleInv
  BY <1>1 DEF WindowsInv, ReservedInv, ScheduleInv, RaceWindows, InSwitch, Kernel, Shell
<1>4. RunningInv
  BY DEF RunningInv, Shell, NoContext
<1>5. CurrentInv
  BY <1>2 DEF CurrentInv, Shell
<1>6. SavedInv /\ MarkInv
  BY <1>1 DEF SavedInv, MarkInv, Shell, Kernel
<1>7. KernelInv
  BY DEF KernelInv, InSwitch, Kernel, Shell
<1>8. ShellInv
  BY DEF ShellInv, Shell
<1>9. TasksInv
  BY <1>2 DEF TasksInv, Spawning
<1>10. CommandInv
  BY DEF CommandInv, Spawning, Killing
<1> QED
  BY <1>3, <1>4, <1>5, <1>6, <1>7, <1>8, <1>9, <1>10 DEF Orderly

(* Every step that hits no race window keeps the scheduler orderly.          *)
LEMMA OrderlyStep ==
    ASSUME TypeInv, UniquePids, RaceFree, [Next]_vars
    PROVE  RaceFree'
<1> SUFFICES ASSUME ~raced'
             PROVE  Orderly'
  BY DEF RaceFree
<1>1. raced' = raced \/ TimerIrq
  <2>1. CASE ShellCommand
    BY <2>1 DEF ShellCommand, SpawnPublish, Kill, ShellAlloc, Help, machine
  <2>2. CASE \E t \in Threads : Step(t)
    BY <2>2 DEF Step, SpawnStack, KillFree, EnterTask, MarkTerminated, ClearInUse,
       ZombieYield, SleepArm, HaltDone, Scan, Mark, SetCurrent, LoadEsp, Switch,
       SleepBlock, SleepBusy, PagerWait, system, machine
  <2>3. CASE \E t \in Threads : ReturnFromTask(t) \/ KeyTaken(t)
    BY <2>3 DEF ReturnFromTask, KeyTaken, system, machine
  <2>4. CASE \E t \in Threads : SleepBlock(t) \/ SleepBusy(t)
    BY <2>4 DEF SleepBlock, SleepBusy, system, machine
  <2>5. CASE UNCHANGED vars
    BY <2>5 DEF vars, machine
  <2> QED
    BY <2>1, <2>2, <2>3, <2>4, <2>5 DEF Next
<1>2. TimerIrq => (raced => raced')
  BY DEF TimerIrq, machine
<1>3. Orderly
  BY <1>1, <1>2 DEF RaceFree
<1>4. CASE ShellCommand
  <2>1. CASE ShellAlloc \/ Help
    BY <1>3, <2>1, OrderlyUnchanged DEF ShellAlloc, Help, machine
  <2> QED
    BY <1>3, <1>4, <2>1, SpawnPublishKeeps, KillKeeps DEF ShellCommand
<1>5. ASSUME NEW t \in Threads, Step(t)
      PROVE  Orderly'
  BY <1>3, <1>5, SpawnStackKeeps, KillFreeKeeps, EnterTaskKeeps, MarkTerminatedKeeps,
     ClearInUseKeeps, ZombieYieldKeeps, SleepBlockKeeps, SleepArmKeeps, SleepBusyKeeps,
     HaltDoneKeeps, PagerKeeps, ScanKeeps, MarkKeeps, SetCurrentKeeps, LoadEspKeeps,
     SwitchKeeps DEF Step
<1>6. ASSUME NEW t \in Threads, ReturnFromTask(t) \/ KeyTaken(t)
      PROVE  Orderly'
  BY <1>3, <1>6, ReturnFromTaskKeeps, PagerKeeps
<1>7. CASE \E t \in Threads : SleepBlock(t) \/ SleepBusy(t)
  BY <1>3, <1>7, ConstantFacts, SleepBlockKeeps, SleepBusyKeeps
<1>8. CASE TimerIrq
  BY <1>3, <1>8, TimerKeeps
<1>9. CASE UNCHANGED vars
  BY <1>3, <1>9, OrderlyUnchanged DEF vars, machine
<1> QED
  BY <1>4, <1>5, <1>6, <1>7, <1>8, <1>9 DEF Next

(* The scheduler is orderly until a switch by the timer hits a race window.  *)
THEOREM OrderlyUntilRace == Spec => []RaceFree
<1>1. Init => RaceFree
  BY OrderlyInit DEF RaceFree
<1>2. TypeInv /\ UniquePids /\ RaceFree /\ [Next]_vars => RaceFree'
  BY OrderlyStep
<1> QED
  BY <1>1, <1>2, TypeInit, TypeStep, PidInit, PidStep, PTL DEF Spec

(* Every process that is not running is suspended under its own saved_esp    *)
(* and no other, so context_switch returns into the process it is meant for. *)
THEOREM ContextsSafe == Spec => []ContextsIntact
<1>1. RaceFree => ContextsIntact
  BY DEF RaceFree, Orderly, SavedInv, ContextsIntact, Spawning
<1> QED
  BY <1>1, OrderlyUntilRace, PTL

(* The processor, current_pid and the RUNNING mark name the same process.    *)
THEOREM CurrentSafe == Spec => []CurrentAgrees
<1>1. TypeInv /\ RaceFree => CurrentAgrees
  <2> SUFFICES ASSUME TypeInv, Orderly
               PROVE  /\ HasSlot(cpu) => current_pid = cpu \/ pc[cpu] \in {"load", "switch"}
                      /\ ~HasSlot(cpu) => self[cpu] # NoSlot /\ home[cpu] = "zombie"
                      /\ \A s \in Slots \ {Kernel} :
                            in_use[s] /\ state[s] = "RUNNING" => pid[s] = cpu \/ Switching(s)
    BY DEF RaceFree, CurrentAgrees
  <2>1. cpu \in Threads
    BY DEF TypeInv, TypeOK, MachineType
  <2>2. HasSlot(cpu) => current_pid = cpu \/ pc[cpu] \in {"load", "switch"}
    BY DEF Orderly, CurrentInv, Zombie
  <2>3. HasSlot(Shell)
    BY ConstantFacts DEF Orderly, ReservedInv, HasSlot, Shell
  <2>4. ~HasSlot(cpu) => self[cpu] # NoSlot /\ home[cpu] = "zombie"
    BY <2>1, <2>3 DEF Orderly, CurrentInv, Zombie, TasksInv
  <2> QED
    BY <2>2, <2>4 DEF Orderly, MarkInv
<1> QED
  BY <1>1, OrderlyUntilRace, TypeInit, TypeStep, PTL DEF Spec

(* A task in the pager's hlt was suspended, if at all, by the timer, and so  *)
(* gets its interrupts back when it is resumed: it has them off only while   *)
(* it has not been suspended since it got there, and help pages still.       *)
PagerInv ==
    /\ frame[cpu] # "call"
    /\ \A t \in Threads : pc[t] = "key" => frame[t] # "call"
    /\ pc[cpu] = "key" => iflag \/ paging

LEMMA SwitchedPager ==
    ASSUME TypeInv, PagerInv, NEW t, t = cpu, NEW c, NEW x \in Threads \cup {NoContext},
           NEW kind, NEW f, ContextSwitch(t, c, x, kind, f), kind # "call" \/ pc'[t] # "key",
           \A u \in Threads : pc'[u] = "key" => pc[u] = "key", pc'[t] = "key" => kind # "call",
           UNCHANGED paging
    PROVE  PagerInv'
<1> USE ConstantFacts DEF TypeInv, TypeOK, MachineType, LocalsType
<1>1. CASE x = NoContext
  BY <1>1 DEF ContextSwitch, PagerInv
<1>2. CASE x # NoContext
  <2>1. /\ cpu' = x /\ iflag' = (f \/ frame[x] # "call") /\ x \in Threads
        /\ frame' = [frame EXCEPT ![t] = kind, ![x] = "none"]
    BY <1>2 DEF ContextSwitch
  <2>2. frame'[cpu'] # "call"
    BY <2>1
  <2>3. \A u \in Threads : pc'[u] = "key" => frame'[u] # "call"
    BY <2>1 DEF PagerInv
  <2>4. pc'[cpu'] = "key" => iflag'
    BY <2>1 DEF PagerInv
  <2> QED
    BY <2>2, <2>3, <2>4 DEF PagerInv
<1> QED
  BY <1>1, <1>2

LEMMA PagerStep == TypeInv /\ PagerInv /\ [Next]_vars => PagerInv'
<1> SUFFICES ASSUME TypeInv, PagerInv, [Next]_vars
             PROVE  PagerInv'
  OBVIOUS
<1> USE ConstantFacts DEF TypeInv, TypeOK, MachineType, LocalsType
<1>1. CASE \E t \in Threads : Switch(t)
  <2>1. PICK t \in Threads : Switch(t)
    BY <1>1
  <2>2. /\ cpu = t /\ ContextSwitch(t, slot[t], new_esp[t], "call", iflag)
        /\ pc' = [pc EXCEPT ![t] = home[t]] /\ home[t] # "key" /\ UNCHANGED paging
    BY <2>1 DEF Switch, Running
  <2> QED
    BY <2>2, SwitchedPager
<1>2. CASE TimerIrq
  <2>1. PICK n : n = NextReady(CurSlot, AfterTick((tick + 1) % TickMod))
    OBVIOUS
  <2>2. CASE UNCHANGED <<machine, frame>>
    BY <1>2, <2>2 DEF TimerIrq, machine, PagerInv
  <2>3. CASE ~UNCHANGED <<machine, frame>>
    <3>1. n # NoSlot /\ ContextSwitch(cpu, CurSlot, saved_esp[n], "irq", FALSE)
          /\ UNCHANGED <<paging, pc>>
      BY <1>2, <2>1, <2>3 DEF TimerIrq
    <3>2. AfterTick((tick + 1) % TickMod) \in [Slots -> ProcStates] /\ CurSlot \in Slots
      BY AfterTickType, CurSlotResult
    <3>3. saved_esp[n] \in Threads \cup {NoContext}
      BY <2>1, <3>1, <3>2, NextReadyResult DEF TableType
    <3> QED
      BY <3>1, <3>3, SwitchedPager
  <2> QED
    BY <2>2, <2>3
<1>3. CASE SpawnStack
  BY <1>3 DEF SpawnStack, Running, machine, PagerInv
<1>4. CASE KillFree
  BY <1>4 DEF KillFree, Running, machine, PagerInv
<1>5. CASE Help
  BY <1>5 DEF Help, Running, locals, PagerInv
<1>6. ASSUME NEW t \in Threads, KeyTaken(t)
      PROVE  PagerInv'
  BY <1>6 DEF KeyTaken, Running, PagerInv
<1>7. ASSUME NEW t \in Threads, PagerWait(t)
      PROVE  PagerInv'
  BY <1>7 DEF PagerWait, Running, system, machine, PagerInv
<1>8. CASE /\ UNCHANGED <<cpu, iflag, paging, frame>>
           /\ \A u \in Threads : pc'[u] = "key" => pc[u] = "key"
  BY <1>8 DEF PagerInv
<1>9. ASSUME NEW t \in Threads,
             \/ EnterTask(t) \/ ReturnFromTask(t) \/ MarkTerminated(t) \/ ClearInUse(t)
             \/ ZombieYield(t) \/ SleepBlock(t) \/ SleepArm(t) \/ SleepBusy(t) \/ HaltDone(t)
             \/ Scan(t) \/ Mark(t) \/ SetCurrent(t) \/ LoadEsp(t)
      PROVE  PagerInv'
  <2>1. /\ UNCHANGED <<cpu, iflag, paging, frame>>
        /\ \E q \in Points \ {"key"} : pc' = [pc EXCEPT ![t] = q]
    BY <1>9 DEF EnterTask, ReturnFromTask, MarkTerminated, ClearInUse, ZombieYield, SleepBlock,
       SleepArm, SleepBusy, HaltDone, Scan, Mark, SetCurrent, LoadEsp, system, machine, Points
  <2> QED
    BY <1>8, <2>1
<1>10. CASE SpawnPublish \/ (\E p \in Threads : Kill(p)) \/ ShellAlloc \/ UNCHANGED vars
  <2>1. /\ UNCHANGED <<cpu, iflag, paging, frame>>
        /\ \A u \in Threads : pc'[u] = "key" => pc[u] = "key"
    BY <1>10 DEF SpawnPublish, Kill, ShellAlloc, vars, machine, locals
  <2> QED
    BY <1>8, <2>1
<1> QED
  BY <1>1, <1>2, <1>3, <1>4, <1>5, <1>6, <1>7, <1>9, <1>10, Zenon DEF Next, Step, ShellCommand

(* Nothing stops the machine, until a race, but a task's hlt in the pager    *)
(* while help pages: no stack pointer without a context is loaded, and no     *)
(* thread waits in process_sleep's hlt with its interrupts off.              *)
THEOREM MachineStopsOnlyInPager == Spec => []StopsOnlyInPager
<1>1. Init => PagerInv
  BY ConstantFacts DEF Init, PagerInv
<1>2. TypeInv /\ RaceFree /\ PagerInv => StopsOnlyInPager
  BY DEF RaceFree, Orderly, WindowsInv, ShellInv, TasksInv, StopsOnlyInPager, StoppedInPager,
     PagerInv, TypeInv, TypeOK, MachineType
<1> QED
  BY <1>1, <1>2, PagerStep, OrderlyUntilRace, TypeInit, TypeStep, PTL DEF Spec

-----------------------------------------------------------------------------
(* What races do not break: the shell keeps its slot and its interrupt flag.  *)

(* find_slot_by_pid finds slot 1 for pid 1 and for no other pid.             *)
LEMMA ShellSlotFound ==
    ASSUME TypeInv, ShellSlotInv, NEW p
    PROVE  FindSlot(p) = Shell <=> p = 1
<1> USE ConstantFacts DEF ShellSlotInv
<1>1. CASE p = 1
  BY <1>1, FindSlotResult
<1>2. CASE p # 1
  BY <1>2, FindSlotResult
<1> QED
  BY <1>1, <1>2

LEMMA CurSlotShell ==
    ASSUME TypeInv, ShellSlotInv
    PROVE  CurSlot = Shell <=> current_pid = 1
BY ShellSlotFound, ConstantFacts DEF CurSlot

(* A step of the running thread that neither switches nor sets current_pid.  *)
LEMMA LocalApart ==
    ASSUME TypeInv, ApartInv, UnbornInv, NEW t, t = cpu, pc[t] # "switch",
           PidOne(t)' <=> PidOne(t), Spawning' => Spawning /\ slot'[Shell] = slot[Shell],
           UNCHANGED <<pid, saved_esp, new_esp, cpu, current_pid, next_pid>>,
           \A u \in Threads \ {t} : pc'[u] = pc[u] /\ next_slot'[u] = next_slot[u]
    PROVE  ApartInv' /\ UnbornInv'
<1> USE ConstantFacts DEF TypeInv, TypeOK, TableType, StaticsType, MachineType, LocalsType
<1>1. \A u \in Threads : PidOne(u)' <=> PidOne(u)
  BY DEF PidOne
<1>2. \A s \in Slots : saved_esp[s] # NoContext => saved_esp[s] \in Threads
  OBVIOUS
<1>3. \A u \in Threads : new_esp[u] # NoContext => u # t /\ new_esp[u] \in Threads
  BY DEF ApartInv
<1>4. ApartInv'
  <2>1. PidOne(cpu)' <=> current_pid' = 1
    BY <1>1 DEF ApartInv
  <2>2. \A s \in Slots : saved_esp'[s] # NoContext =>
          /\ saved_esp'[s] # cpu'
          /\ PidOne(saved_esp[s])' <=> s = Shell
    BY <1>1, <1>2 DEF ApartInv
  <2>3. \A u \in Threads : new_esp'[u] # NoContext =>
          /\ new_esp'[u] # cpu' /\ pc'[u] = "switch"
          /\ PidOne(new_esp[u])' <=> next_slot'[u] = Shell
    BY <1>1, <1>3 DEF ApartInv
  <2> QED
    BY <2>1, <2>2, <2>3 DEF ApartInv
<1>5. UnbornInv'
  <2>1. \A u \in Threads : Unborn(u)' => Unborn(u)
    BY DEF Unborn
  <2> QED
    BY <2>1 DEF UnbornInv
<1> QED
  BY <1>4, <1>5

(* spawn and kill.                                                           *)
LEMMA SpawnPublishApart ==
    ASSUME TypeInv, ShellApart, SpawnPublish
    PROVE  ShellApart'
<1> USE ConstantFacts DEF TypeInv, TypeOK, TableType, StaticsType, MachineType, LocalsType,
                          ShellApart, Shell, Running
<1>1. /\ cpu = Shell /\ pc[Shell] = "work" /\ pc' = [pc EXCEPT ![Shell] = "stack"]
      /\ next_pid' = next_pid + 1 /\ next_pid <= MaxPid
      /\ UNCHANGED <<saved_esp, current_pid, cpu, iflag, wild, frame, next_slot, new_esp, self>>
  BY DEF SpawnPublish, AfterPid, machine
<1>2. PICK s \in Slots :
        /\ ~in_use[s] /\ slot' = [slot EXCEPT ![Shell] = s]
        /\ pid' = [pid EXCEPT ![s] = next_pid] /\ in_use' = [in_use EXCEPT ![s] = TRUE]
        /\ state' = [state EXCEPT ![s] = "READY"]
  BY DEF SpawnPublish
<1>3. s # Shell
  BY <1>2 DEF ShellSlotInv
<1>4. ShellFlagInv'
  BY <1>1 DEF ShellFlagInv, ShellInterruptible
<1>5. ShellSlotInv'
  BY <1>1, <1>2, <1>3 DEF ShellSlotInv
<1>6. \A u \in Threads : PidOne(u)' <=> PidOne(u)
  BY <1>1 DEF PidOne
<1>7. ~wild
  BY DEF SpawnPublish
<1>8. ApartInv'
  BY <1>1, <1>6, <1>7 DEF ApartInv
<1>9. UnbornInv'
  <2>1. \A u \in Threads : Unborn(u)' => u >= next_pid
    BY <1>1, <1>2 DEF Unborn, Spawning
  <2>2. \A u \in Threads : u >= next_pid => u # Shell
    OBVIOUS
  <2> QED
    BY <1>1, <1>7, <2>1, <2>2 DEF UnbornInv, Unborn
<1> QED
  BY <1>4, <1>5, <1>8, <1>9

LEMMA SpawnStackApart ==
    ASSUME TypeInv, UniquePids, ShellApart, SpawnStack
    PROVE  ShellApart'
<1> USE ConstantFacts DEF TypeInv, TypeOK, TableType, StaticsType, MachineType, LocalsType,
                          ShellApart, Shell, Running
<1>1. PICK x, s : x = pid[slot[Shell]] /\ s = slot[Shell]
  OBVIOUS
<1>2. /\ cpu = Shell /\ ~wild /\ pc[Shell] = "stack" /\ pc' = [pc EXCEPT ![Shell] = "work"]
      /\ saved_esp' = [saved_esp EXCEPT ![s] = x] /\ frame' = [frame EXCEPT ![x] = "fresh"]
      /\ slot' = [slot EXCEPT ![Shell] = NoSlot]
      /\ UNCHANGED <<pid, state, in_use, current_pid, next_pid, cpu, iflag, wild, next_slot,
                     new_esp, self>>
  BY <1>1 DEF SpawnStack, machine
<1>3. s \in Slots /\ s # Shell /\ x # 1
  BY <1>1, <1>2 DEF LocalsOK, ShellSlotInv
<1>4. x \in Threads => pc[x] = "entry" /\ \A u \in Threads : new_esp[u] # x
  BY <1>1, <1>2 DEF UnbornInv, Unborn, Spawning
<1>5. x # NoContext => x \in Threads
  BY <1>1, <1>3
<1>6. ShellFlagInv'
  BY <1>2, <1>3 DEF ShellFlagInv, ShellInterruptible
<1>7. ShellSlotInv'
  BY <1>2 DEF ShellSlotInv
<1>8. \A u \in Threads : PidOne(u)' <=> PidOne(u)
  BY <1>2 DEF PidOne
<1>9. ApartInv'
  <2>1. x # NoContext => ~PidOne(x)'
    BY <1>2, <1>3, <1>4, <1>5, <1>8 DEF PidOne
  <2>2. \A r \in Slots : saved_esp'[r] # NoContext =>
          saved_esp'[r] # cpu' /\ (PidOne(saved_esp[r])' <=> r = Shell)
    <3>1. ASSUME NEW r \in Slots, r # s, saved_esp[r] # NoContext
          PROVE  saved_esp'[r] # cpu' /\ (PidOne(saved_esp[r])' <=> r = Shell)
      BY <1>2, <1>8, <3>1 DEF ApartInv
    <3>2. x # NoContext => x # cpu' /\ saved_esp'[s] = x /\ ~PidOne(saved_esp[s])'
      BY <1>2, <1>3, <2>1 DEF PidOne
    <3> QED
      BY <1>2, <1>3, <3>1, <3>2
  <2>3. PidOne(cpu)' <=> current_pid' = 1
    BY <1>2, <1>8 DEF ApartInv
  <2>4. \A t \in Threads : new_esp'[t] # NoContext =>
          /\ new_esp'[t] # cpu' /\ pc'[t] = "switch"
          /\ PidOne(new_esp[t])' <=> next_slot'[t] = Shell
    BY <1>2, <1>8 DEF ApartInv
  <2> QED
    BY <2>2, <2>3, <2>4 DEF ApartInv
<1>10. UnbornInv'
  <2>1. \A u \in Threads : Unborn(u)' => u >= next_pid
    BY <1>2 DEF Unborn, Spawning
  <2>2. x \in Threads => x < next_pid
    BY <1>1, <1>3 DEF UniquePids
  <2> QED
    BY <1>2, <2>1, <2>2 DEF UnbornInv, Unborn
<1> QED
  BY <1>6, <1>7, <1>9, <1>10

LEMMA KillApart ==
    ASSUME TypeInv, ShellApart, NEW p \in Threads, Kill(p)
    PROVE  ShellApart'
<1> USE ConstantFacts DEF TypeInv, TypeOK, TableType, StaticsType, MachineType, LocalsType,
                          ShellApart, Running
<1>1. /\ cpu = Shell /\ ~wild /\ pc[Shell] = "work" /\ p > 1 /\ FindSlot(p) # NoSlot
      /\ pc' = [pc EXCEPT ![Shell] = "free"] /\ slot' = [slot EXCEPT ![Shell] = FindSlot(p)]
      /\ state' = [state EXCEPT ![FindSlot(p)] = "TERMINATED"]
      /\ in_use' = [in_use EXCEPT ![FindSlot(p)] = FALSE]
      /\ UNCHANGED <<pid, saved_esp, current_pid, next_pid, cpu, iflag, wild, frame, next_slot,
                     new_esp, self>>
  BY DEF Kill, Killable, machine
<1>2. FindSlot(p) \in Slots /\ FindSlot(p) # Shell
  BY <1>1, FindSlotResult, ShellSlotFound
<1>3. ShellFlagInv'
  BY <1>1 DEF ShellFlagInv, ShellInterruptible
<1>4. ShellSlotInv'
  BY <1>1, <1>2 DEF ShellSlotInv
<1>5. (PidOne(cpu)' <=> PidOne(cpu)) /\ ~Spawning'
  BY <1>1 DEF PidOne, Spawning
<1>6. ApartInv' /\ UnbornInv'
  BY <1>1, <1>5, LocalApart
<1> QED
  BY <1>3, <1>4, <1>6

LEMMA KillFreeApart ==
    ASSUME TypeInv, ShellApart, KillFree
    PROVE  ShellApart'
<1> USE ConstantFacts DEF TypeInv, TypeOK, TableType, StaticsType, MachineType, LocalsType,
                          ShellApart, Running
<1>1. PICK dead : dead = pid[slot[Shell]]
  OBVIOUS
<1>2. /\ cpu = Shell /\ ~wild /\ pc[Shell] = "free" /\ pc' = [pc EXCEPT ![Shell] = "work"]
      /\ saved_esp' = [r \in Slots |-> IF saved_esp[r] = dead THEN NoContext ELSE saved_esp[r]]
      /\ new_esp' = [t \in Threads |-> IF new_esp[t] = dead THEN NoContext ELSE new_esp[t]]
      /\ frame' = [frame EXCEPT ![dead] = "none"] /\ slot' = [slot EXCEPT ![Shell] = NoSlot]
      /\ UNCHANGED <<pid, state, in_use, current_pid, next_pid, cpu, iflag, wild, next_slot, self>>
  BY <1>1 DEF KillFree, machine
<1>3. ShellFlagInv'
  BY <1>2 DEF ShellFlagInv, ShellInterruptible
<1>4. ShellSlotInv'
  BY <1>2 DEF ShellSlotInv
<1>5. \A u \in Threads : PidOne(u)' <=> PidOne(u)
  BY <1>2 DEF PidOne
<1>6. ApartInv'
  BY <1>2, <1>5 DEF ApartInv
<1>7. UnbornInv'
  <2>1. \A u \in Threads : Unborn(u)' => Unborn(u)
    BY <1>2 DEF Unborn, Spawning
  <2>2. \A u \in Threads : Unborn(u)' => u # Shell
    BY <1>2, <2>1 DEF UnbornInv
  <2> QED
    BY <1>2, <2>1, <2>2 DEF UnbornInv
<1> QED
  BY <1>3, <1>4, <1>6, <1>7

LEMMA ShellAllocApart ==
    ASSUME TypeInv, ShellApart, ShellAlloc \/ Help
    PROVE  ShellApart'
BY DEF ShellAlloc, Help, table, clock, machine, locals, ShellApart, ShellFlagInv, ShellInterruptible,
       ShellSlotInv, ApartInv, PidOne, UnbornInv, Unborn, Spawning

(* The wrapper and process_sleep; the shell is in neither but for its hlt     *)
(* loop.                                                                     *)
LEMMA WrapperApart ==
    ASSUME TypeInv, ShellApart, NEW t \in Threads,
           \/ EnterTask(t) \/ ReturnFromTask(t) \/ MarkTerminated(t) \/ ClearInUse(t)
           \/ ZombieYield(t)
    PROVE  ShellApart'
<1> USE ConstantFacts DEF TypeInv, TypeOK, TableType, StaticsType, MachineType, LocalsType,
                          ShellApart
<1>1. /\ cpu = t /\ ~wild /\ pc[t] \in {"entry", "work", "term", "clear", "zombie"}
      /\ UNCHANGED <<pid, saved_esp, current_pid, next_pid, cpu, iflag, wild, frame, slot,
                     next_slot, new_esp>>
  BY DEF EnterTask, ReturnFromTask, MarkTerminated, ClearInUse, ZombieYield, Running, system,
         table, machine
<1>2. t # Shell
  BY DEF ReturnFromTask, EnterTask, MarkTerminated, ClearInUse, ZombieYield, Running, ShellFlagInv
<1>3. PICK q \in {"work", "zombie", "term", "clear", "scan"} : pc' = [pc EXCEPT ![t] = q]
  BY DEF EnterTask, ReturnFromTask, MarkTerminated, ClearInUse, ZombieYield
<1>4. current_pid # 1
  BY <1>1, <1>2 DEF ApartInv, PidOne
<1>5. \A u \in Threads : self'[u] # Shell
  <2>1. CASE EnterTask(t)
    BY <1>4, <2>1, ShellSlotFound DEF EnterTask, ShellSlotInv
  <2>2. CASE ~EnterTask(t)
    BY <2>2 DEF ReturnFromTask, MarkTerminated, ClearInUse, ZombieYield, ShellSlotInv
  <2> QED
    BY <2>1, <2>2
<1>6. in_use'[Shell] /\ state'[Shell] = state[Shell]
  <2>1. self[t] # Shell
    BY DEF ShellSlotInv
  <2> QED
    BY <2>1 DEF EnterTask, ReturnFromTask, MarkTerminated, ClearInUse, ZombieYield, ShellSlotInv,
                system, table
<1>7. ShellFlagInv'
  BY <1>1, <1>2, <1>3 DEF ShellFlagInv, ShellInterruptible
<1>8. ShellSlotInv'
  BY <1>1, <1>5, <1>6 DEF ShellSlotInv
<1>9. (PidOne(t)' <=> PidOne(t)) /\ (Spawning' <=> Spawning)
  BY <1>1, <1>2, <1>3 DEF PidOne, Spawning
<1>10. ApartInv' /\ UnbornInv'
  BY <1>1, <1>3, <1>9, LocalApart
<1> QED
  BY <1>7, <1>8, <1>10

LEMMA PagerApart ==
    ASSUME TypeInv, ShellApart, NEW t \in Threads, PagerWait(t) \/ KeyTaken(t)
    PROVE  ShellApart'
<1> USE ConstantFacts DEF TypeInv, TypeOK, TableType, StaticsType, MachineType, LocalsType,
                          ShellApart
<1>1. /\ cpu = t /\ ~wild /\ t # Shell /\ pc[t] \in {"work", "key"}
      /\ UNCHANGED <<pid, in_use, state, saved_esp, current_pid, next_pid, cpu, iflag, wild,
                     frame, slot, next_slot, new_esp, self>>
  BY DEF PagerWait, KeyTaken, Running, system, table, machine
<1>2. PICK q \in {"work", "key"} : pc' = [pc EXCEPT ![t] = q]
  BY DEF PagerWait, KeyTaken
<1>3. ShellFlagInv' /\ ShellSlotInv'
  BY <1>1, <1>2 DEF ShellFlagInv, ShellInterruptible, ShellSlotInv
<1>4. (PidOne(t)' <=> PidOne(t)) /\ (Spawning' <=> Spawning)
  BY <1>1, <1>2 DEF PidOne, Spawning
<1>5. ApartInv' /\ UnbornInv'
  BY <1>1, <1>2, <1>4, LocalApart
<1> QED
  BY <1>3, <1>5

LEMMA SleepApart ==
    ASSUME TypeInv, ShellApart, NEW t \in Threads,
           SleepBlock(t) \/ SleepArm(t) \/ SleepBusy(t) \/ HaltDone(t)
    PROVE  ShellApart'
<1> USE ConstantFacts DEF TypeInv, TypeOK, TableType, StaticsType, MachineType, LocalsType,
                          ShellApart
<1>1. /\ cpu = t /\ ~wild /\ pc[t] \in {"arm", "work", "halt"}
      /\ UNCHANGED <<pid, in_use, saved_esp, current_pid, next_pid, cpu, iflag, wild, frame,
                     next_slot, new_esp, self>>
  BY DEF SleepBlock, SleepArm, SleepBusy, HaltDone, Running, system, table, machine
<1>2. PICK q \in {"arm", "scan", "halt", "work"} : pc' = [pc EXCEPT ![t] = q]
  BY DEF SleepBlock, SleepArm, SleepBusy, HaltDone
<1>3. current_pid = 1 <=> t = Shell
  BY <1>1 DEF ApartInv, PidOne
<1>4. t = Shell => q \in {"halt", "work"} /\ UNCHANGED slot
  <2>1. CASE SleepBlock(t)
    BY <1>3, <2>1 DEF SleepBlock, MayBlock
  <2>2. CASE SleepArm(t)
    BY <2>2 DEF SleepArm, Running, ShellFlagInv
  <2>3. CASE SleepBusy(t) \/ HaltDone(t)
    BY <1>2, <2>3 DEF SleepBusy, HaltDone
  <2> QED
    BY <2>1, <2>2, <2>3
<1>5. (\A u \in Threads : slot'[u] # Shell) /\ state'[Shell] = state[Shell]
  <2>1. CASE SleepBlock(t)
    <3>1. FindSlot(current_pid) # Shell
      BY <2>1, ShellSlotFound DEF SleepBlock, MayBlock
    <3> QED
      BY <2>1, <3>1 DEF SleepBlock, ShellSlotInv
  <2>2. CASE SleepArm(t) \/ SleepBusy(t) \/ HaltDone(t)
    BY <2>2 DEF SleepArm, SleepBusy, HaltDone, ShellSlotInv, system, table
  <2> QED
    BY <2>1, <2>2
<1>6. ShellFlagInv'
  BY <1>1, <1>2, <1>4 DEF ShellFlagInv, ShellInterruptible
<1>7. ShellSlotInv'
  BY <1>1, <1>2, <1>4, <1>5 DEF ShellSlotInv
<1>8. (PidOne(t)' <=> PidOne(t)) /\ (Spawning' => Spawning /\ slot'[Shell] = slot[Shell])
  <2>1. PidOne(t)' <=> PidOne(t)
    BY <1>1, <1>2 DEF PidOne
  <2>2. t # Shell => slot'[Shell] = slot[Shell]
    BY DEF SleepBlock, SleepArm, SleepBusy, HaltDone
  <2> QED
    BY <1>1, <1>2, <2>1, <2>2 DEF Spawning
<1>9. ApartInv' /\ UnbornInv'
  BY <1>1, <1>2, <1>8, LocalApart
<1> QED
  BY <1>6, <1>7, <1>9

(* schedule() called by a task.                                              *)
LEMMA ScanApart ==
    ASSUME TypeInv, ShellApart, NEW t \in Threads, Scan(t) \/ Mark(t)
    PROVE  ShellApart'
<1> USE ConstantFacts DEF TypeInv, TypeOK, TableType, StaticsType, MachineType, LocalsType,
                          ShellApart
<1>1. /\ cpu = t /\ ~wild /\ pc[t] \in {"scan", "mark"} /\ t # Shell
      /\ UNCHANGED <<pid, in_use, saved_esp, current_pid, next_pid, cpu, iflag, wild, frame,
                     new_esp, self>>
  BY DEF Scan, Mark, Running, system, table, machine, ShellFlagInv
<1>2. PICK q \in {"work", "zombie", "mark", "setcur"} : pc' = [pc EXCEPT ![t] = q]
  BY DEF Scan, Mark
<1>3. /\ \A u \in Threads \ {t} : slot'[u] = slot[u] /\ next_slot'[u] = next_slot[u]
      /\ slot'[t] # Shell
  <2>1. CASE Scan(t)
    <3>1. current_pid # 1
      BY <1>1 DEF ApartInv, PidOne
    <3>2. CurSlot # Shell
      BY <3>1, CurSlotShell
    <3> QED
      BY <2>1, <3>2 DEF Scan, ShellSlotInv
  <2>2. CASE Mark(t)
    BY <2>2 DEF Mark, ShellSlotInv
  <2> QED
    BY <2>1, <2>2
<1>4. state'[Shell] \in {"RUNNING", "READY"}
  <2>1. CASE Scan(t)
    BY <2>1 DEF Scan, system, table, ShellSlotInv
  <2>2. CASE Mark(t)
    BY <2>2 DEF Mark, Marked, ShellSlotInv
  <2> QED
    BY <2>1, <2>2
<1>5. ShellFlagInv'
  BY <1>1, <1>2 DEF ShellFlagInv, ShellInterruptible
<1>6. ShellSlotInv'
  BY <1>1, <1>2, <1>3, <1>4 DEF ShellSlotInv
<1>7. (PidOne(t)' <=> PidOne(t)) /\ (Spawning' => Spawning /\ slot'[Shell] = slot[Shell])
  BY <1>1, <1>2, <1>3 DEF PidOne, Spawning
<1>8. ApartInv' /\ UnbornInv'
  BY <1>1, <1>2, <1>3, <1>7, LocalApart
<1> QED
  BY <1>5, <1>6, <1>8

LEMMA SetCurrentApart ==
    ASSUME TypeInv, ShellApart, NEW t \in Threads, SetCurrent(t)
    PROVE  ShellApart'
<1> USE ConstantFacts DEF TypeInv, TypeOK, TableType, StaticsType, MachineType, LocalsType,
                          ShellApart
<1>1. /\ cpu = t /\ ~wild /\ pc[t] = "setcur" /\ t # Shell
      /\ pc' = [pc EXCEPT ![t] = "load"] /\ current_pid' = pid[next_slot[t]]
      /\ UNCHANGED <<pid, in_use, state, saved_esp, next_pid, cpu, iflag, wild, frame,
                     slot, next_slot, new_esp, self>>
  BY DEF SetCurrent, Running, table, machine, ShellFlagInv
<1>2. ShellFlagInv'
  BY <1>1 DEF ShellFlagInv, ShellInterruptible
<1>3. ShellSlotInv'
  BY <1>1 DEF ShellSlotInv
<1>4. next_slot[t] \in Slots
  BY <1>1 DEF LocalsOK
<1>5. PidOne(t)' <=> current_pid' = 1
  BY <1>1, <1>4 DEF PidOne, ShellSlotInv
<1>6. \A u \in Threads \ {t} : PidOne(u)' <=> PidOne(u)
  BY <1>1 DEF PidOne
<1>7. ApartInv'
  <2>1. PidOne(cpu)' <=> current_pid' = 1
    BY <1>1, <1>5 DEF PidOne
  <2>2. \A s \in Slots : saved_esp'[s] # NoContext =>
          saved_esp'[s] # cpu' /\ (PidOne(saved_esp[s])' <=> s = Shell)
    BY <1>1, <1>6 DEF ApartInv
  <2>3. \A u \in Threads : new_esp'[u] # NoContext =>
          /\ new_esp'[u] # cpu' /\ pc'[u] = "switch"
          /\ PidOne(new_esp[u])' <=> next_slot'[u] = Shell
    BY <1>1, <1>6 DEF ApartInv
  <2> QED
    BY <2>1, <2>2, <2>3 DEF ApartInv
<1>8. UnbornInv'
  BY <1>1 DEF UnbornInv, Unborn, Spawning
<1> QED
  BY <1>2, <1>3, <1>7, <1>8

LEMMA LoadEspApart ==
    ASSUME TypeInv, ShellApart, NEW t \in Threads, LoadEsp(t)
    PROVE  ShellApart'
<1> USE ConstantFacts DEF TypeInv, TypeOK, TableType, StaticsType, MachineType, LocalsType,
                          ShellApart
<1>1. /\ cpu = t /\ ~wild /\ pc[t] = "load" /\ t # Shell
      /\ pc' = [pc EXCEPT ![t] = "switch"]
      /\ new_esp' = [new_esp EXCEPT ![t] = saved_esp[next_slot[t]]]
      /\ UNCHANGED <<pid, in_use, state, saved_esp, current_pid, next_pid, cpu, iflag, wild, frame,
                     slot, next_slot, self>>
  BY DEF LoadEsp, Running, table, system, machine, ShellFlagInv
<1>2. ShellFlagInv'
  BY <1>1 DEF ShellFlagInv, ShellInterruptible
<1>3. ShellSlotInv'
  BY <1>1 DEF ShellSlotInv
<1>4. next_slot[t] \in Slots
  BY <1>1 DEF LocalsOK
<1>5. \A u \in Threads : PidOne(u)' <=> PidOne(u)
  BY <1>1 DEF PidOne
<1>6. ApartInv'
  <2>1. PidOne(cpu)' <=> current_pid' = 1
    BY <1>1, <1>5 DEF ApartInv
  <2>2. \A s \in Slots : saved_esp'[s] # NoContext =>
          saved_esp'[s] # cpu' /\ (PidOne(saved_esp[s])' <=> s = Shell)
    BY <1>1, <1>5 DEF ApartInv
  <2>3. ASSUME NEW u \in Threads, new_esp'[u] # NoContext
        PROVE  /\ new_esp'[u] # cpu' /\ pc'[u] = "switch"
               /\ PidOne(new_esp[u])' <=> next_slot'[u] = Shell
    <3>1. CASE u = t
      <4>1. PICK x : x = saved_esp[next_slot[t]]
        OBVIOUS
      <4>2. x \in Threads /\ x # cpu /\ (PidOne(x) <=> next_slot[t] = Shell) /\ new_esp'[t] = x
        BY <1>1, <1>4, <2>3, <3>1, <4>1 DEF ApartInv
      <4>3. PidOne(new_esp[t])' <=> PidOne(x)'
        BY <4>2 DEF PidOne
      <4> QED
        BY <1>1, <1>5, <3>1, <4>2, <4>3
    <3>2. CASE u # t
      BY <1>1, <1>5, <2>3, <3>2 DEF ApartInv
    <3> QED
      BY <3>1, <3>2
  <2> QED
    BY <2>1, <2>2, <2>3 DEF ApartInv
<1>7. UnbornInv'
  BY <1>1, <1>4 DEF UnbornInv, Unborn, Spawning
<1> QED
  BY <1>2, <1>3, <1>6, <1>7

(* context_switch from a thread to another one.                              *)
LEMMA SwitchedApart ==
    ASSUME TypeInv, ApartInv, UnbornInv, NEW t, t = cpu, NEW c \in Slots, NEW x \in Threads,
           NEW kind, NEW f, ContextSwitch(t, c, x, kind, f), x # t, ~Unborn(x),
           PidOne(t)' <=> c = Shell, PidOne(x) <=> current_pid' = 1,
           Spawning' => Spawning /\ slot'[Shell] = slot[Shell],
           UNCHANGED <<pid, next_pid>>,
           \A u \in Threads \ {t} : pc'[u] = pc[u] /\ next_slot'[u] = next_slot[u]
    PROVE  ApartInv' /\ UnbornInv'
<1> USE ConstantFacts DEF TypeInv, TypeOK, TableType, StaticsType, MachineType, LocalsType
<1>1. /\ cpu' = x
      /\ saved_esp' = [s \in Slots |-> IF s = c THEN t
                                       ELSE IF saved_esp[s] = x THEN NoContext ELSE saved_esp[s]]
      /\ new_esp' = [u \in Threads |-> IF u = t \/ new_esp[u] = x THEN NoContext ELSE new_esp[u]]
  BY DEF ContextSwitch
<1>2. \A u \in Threads \ {t} : PidOne(u)' <=> PidOne(u)
  BY DEF PidOne
<1>3. PidOne(cpu)' <=> current_pid' = 1
  <2>1. PidOne(x)' <=> current_pid' = 1
    BY <1>2
  <2> QED
    BY <1>1, <2>1 DEF PidOne
<1>4. ASSUME NEW s \in Slots, saved_esp'[s] # NoContext
      PROVE  saved_esp'[s] # cpu' /\ (PidOne(saved_esp[s])' <=> s = Shell)
  <2>1. CASE s = c
    <3>1. saved_esp'[s] = t
      BY <1>1, <2>1
    <3>2. PidOne(saved_esp[s])' <=> PidOne(t)'
      BY <3>1 DEF PidOne
    <3> QED
      BY <1>1, <2>1, <3>1, <3>2
  <2>2. CASE s # c
    <3>1. saved_esp'[s] = saved_esp[s] /\ saved_esp[s] # x /\ saved_esp[s] \in Threads \ {t}
      BY <1>1, <1>4, <2>2 DEF ApartInv
    <3>2. PidOne(saved_esp[s]) <=> s = Shell
      BY <3>1 DEF ApartInv
    <3>3. PidOne(saved_esp[s])' <=> PidOne(saved_esp[s])
      BY <3>1 DEF PidOne
    <3> QED
      BY <1>1, <3>1, <3>2, <3>3
  <2> QED
    BY <2>1, <2>2
<1>5. ASSUME NEW u \in Threads, new_esp'[u] # NoContext
      PROVE  /\ new_esp'[u] # cpu' /\ pc'[u] = "switch"
             /\ PidOne(new_esp[u])' <=> next_slot'[u] = Shell
  <2>1. u # t /\ new_esp'[u] = new_esp[u] /\ new_esp[u] # x /\ new_esp[u] \in Threads \ {t}
    BY <1>1, <1>5 DEF ApartInv
  <2>2. pc[u] = "switch" /\ (PidOne(new_esp[u]) <=> next_slot[u] = Shell)
    BY <2>1 DEF ApartInv
  <2>3. PidOne(new_esp[u])' <=> PidOne(new_esp[u])
    BY <2>1 DEF PidOne
  <2> QED
    BY <1>1, <2>1, <2>2, <2>3
<1>6. ApartInv'
  BY <1>3, <1>4, <1>5 DEF ApartInv
<1>7. UnbornInv'
  <2>1. \A u \in Threads : Unborn(u)' => Unborn(u) /\ u # t /\ u # x
    BY DEF Unborn, UnbornInv
  <2> QED
    BY <1>1, <2>1 DEF UnbornInv
<1> QED
  BY <1>6, <1>7

(* The shell comes back from the timer interrupt with its flag set.          *)
LEMMA SwitchedFlag ==
    ASSUME TypeInv, ShellFlagInv, NEW t, t = cpu, NEW c, NEW x \in Threads \cup {NoContext},
           NEW kind, NEW f, ContextSwitch(t, c, x, kind, f), t # Shell \/ kind # "call",
           pc'[Shell] \in {"work", "halt", "stack", "free"}
    PROVE  ShellFlagInv'
<1> USE ConstantFacts DEF TypeInv, TypeOK, TableType, StaticsType, MachineType, LocalsType
<1>1. CASE x = NoContext
  BY <1>1 DEF ContextSwitch, ShellFlagInv, ShellInterruptible
<1>2. CASE x # NoContext
  <2>1. cpu' = x /\ iflag' = (f \/ frame[x] # "call")
        /\ frame' = [frame EXCEPT ![t] = kind, ![x] = "none"]
    BY <1>2 DEF ContextSwitch
  <2>2. frame'[Shell] # "call"
    BY <1>2, <2>1 DEF ShellFlagInv
  <2>3. cpu' = Shell => iflag'
    BY <2>1 DEF ShellFlagInv
  <2> QED
    BY <2>2, <2>3 DEF ShellFlagInv, ShellInterruptible
<1> QED
  BY <1>1, <1>2

LEMMA SwitchApart ==
    ASSUME TypeInv, ShellApart, NEW t \in Threads, Switch(t)
    PROVE  ShellApart'
<1> USE ConstantFacts DEF TypeInv, TypeOK, TableType, StaticsType, MachineType, LocalsType,
                          ShellApart
<1>1. /\ cpu = t /\ ~wild /\ pc[t] = "switch" /\ t # Shell
      /\ ContextSwitch(t, slot[t], new_esp[t], "call", iflag)
      /\ pc' = [pc EXCEPT ![t] = home[t]]
      /\ slot' = [slot EXCEPT ![t] = NoSlot] /\ next_slot' = [next_slot EXCEPT ![t] = NoSlot]
      /\ UNCHANGED <<pid, in_use, state, current_pid, next_pid, self>>
  BY DEF Switch, Running, ShellFlagInv
<1>2. slot[t] \in Slots /\ slot[t] # Shell
  BY <1>1 DEF LocalsOK, ShellSlotInv
<1>3. ShellFlagInv'
  <2>1. pc'[Shell] \in {"work", "halt", "stack", "free"}
    BY <1>1 DEF ShellFlagInv
  <2> QED
    BY <1>1, <2>1, SwitchedFlag
<1>4. ShellSlotInv'
  BY <1>1 DEF ShellSlotInv
<1>5. CASE new_esp[t] = NoContext
  BY <1>1, <1>3, <1>4, <1>5 DEF ContextSwitch
<1>6. CASE new_esp[t] # NoContext
  <2>1. PICK x \in Threads, c \in Slots : x = new_esp[t] /\ c = slot[t]
    BY <1>2, <1>6
  <2>2. x # t /\ (PidOne(x) <=> next_slot[t] = Shell) /\ (PidOne(t) <=> current_pid = 1)
    BY <1>1, <1>6, <2>1 DEF ApartInv
  <2>3. PidOne(x) <=> current_pid' = 1
    BY <1>1, <2>2 DEF PidOne
  <2>4. ~PidOne(t)'
    BY <1>1 DEF PidOne
  <2>5. ~Unborn(x)
    BY <1>1, <1>6, <2>1 DEF UnbornInv
  <2>6. Spawning' => Spawning /\ slot'[Shell] = slot[Shell]
    BY <1>1 DEF Spawning
  <2>7. ContextSwitch(t, c, x, "call", iflag) /\ c # Shell
    BY <1>1, <1>2, <2>1
  <2>8. ApartInv' /\ UnbornInv'
    BY <1>1, <2>2, <2>3, <2>4, <2>5, <2>6, <2>7, SwitchedApart
  <2> QED
    BY <1>3, <1>4, <2>8
<1> QED
  BY <1>5, <1>6

LEMMA TimerApart ==
    ASSUME TypeInv, ShellApart, TimerIrq
    PROVE  ShellApart'
<1> USE ConstantFacts DEF TypeInv, TypeOK, TableType, StaticsType, MachineType, LocalsType,
                          ShellApart
<1> DEFINE now == (tick + 1) % TickMod
           st  == AfterTick(now)
<1>1. PICK n : n = NextReady(CurSlot, st)
  OBVIOUS
<1>2. /\ ~wild /\ iflag
      /\ UNCHANGED <<pid, in_use, next_pid, pc, slot, next_slot, self>>
  BY DEF TimerIrq
<1>3. CurSlot \in Slots /\ (CurSlot = Shell <=> current_pid = 1)
  BY CurSlotResult, CurSlotShell
<1>4. st \in [Slots -> ProcStates] /\ st[Shell] \in {"RUNNING", "READY"}
  BY AfterTickType DEF AfterTick, ShellSlotInv
<1> HIDE DEF st, now
<1>5. CASE /\ state' = st
           /\ UNCHANGED <<saved_esp, current_pid, machine, frame, new_esp>>
  <2>1. ShellFlagInv'
    BY <1>2, <1>5 DEF machine, ShellFlagInv, ShellInterruptible
  <2>2. ShellSlotInv'
    BY <1>2, <1>4, <1>5 DEF ShellSlotInv
  <2>3. ApartInv' /\ UnbornInv'
    BY <1>2, <1>5 DEF machine, ApartInv, UnbornInv, PidOne, Unborn, Spawning
  <2> QED
    BY <2>1, <2>2, <2>3
<1>6. CASE /\ n \in Slots /\ state' = Marked(CurSlot, n, st) /\ current_pid' = pid[n]
           /\ ContextSwitch(cpu, CurSlot, saved_esp[n], "irq", FALSE)
  <2>1. ShellFlagInv'
    BY <1>2, <1>6, SwitchedFlag DEF ShellFlagInv
  <2>2. state'[Shell] \in {"RUNNING", "READY"}
    BY <1>3, <1>4, <1>6 DEF Marked
  <2>3. ShellSlotInv'
    BY <1>2, <2>2 DEF ShellSlotInv
  <2>4. CASE saved_esp[n] = NoContext
    BY <1>6, <2>1, <2>3, <2>4 DEF ContextSwitch
  <2>5. CASE saved_esp[n] # NoContext
    <3>1. PICK x \in Threads, c \in Slots, t \in Threads : x = saved_esp[n] /\ c = CurSlot /\ t = cpu
      BY <1>3, <1>6, <2>5
    <3>2. x # t /\ (PidOne(x) <=> n = Shell) /\ (PidOne(t) <=> current_pid = 1)
      BY <1>2, <1>6, <2>5, <3>1 DEF ApartInv
    <3>3. PidOne(x) <=> current_pid' = 1
      BY <1>6, <3>2 DEF ShellSlotInv
    <3>4. PidOne(t)' <=> c = Shell
      BY <1>2, <1>3, <3>1, <3>2 DEF PidOne
    <3>5. ~Unborn(x)
      BY <1>2, <1>6, <2>5, <3>1 DEF UnbornInv
    <3>6. Spawning' => Spawning /\ slot'[Shell] = slot[Shell]
      BY <1>2 DEF Spawning
    <3>7. ContextSwitch(t, c, x, "irq", FALSE)
      BY <1>6, <3>1
    <3>8. ApartInv' /\ UnbornInv'
      BY <1>2, <3>1, <3>2, <3>3, <3>4, <3>5, <3>6, <3>7, SwitchedApart
    <3> QED
      BY <2>1, <2>3, <3>8
  <2> QED
    BY <2>4, <2>5
<1>7. n = NoSlot \/ n \in Slots
  BY <1>1, <1>3, <1>4, NextReadyResult
<1> QED
  BY <1>1, <1>5, <1>6, <1>7 DEF TimerIrq, now, st

LEMMA ApartInit == Init => ShellApart
<1> SUFFICES ASSUME Init PROVE ShellApart
  OBVIOUS
<1> USE ConstantFacts, BoundAssumption DEF Init
<1>1. ShellFlagInv
  BY DEF ShellFlagInv, ShellInterruptible
<1>2. ShellSlotInv
  <2>0. Shell \in Slots /\ Shell <= Shell
    BY DEF Shell
  <2>1. in_use[Shell] /\ state[Shell] = "RUNNING"
    BY <2>0
  <2>2. \A s \in Slots : pid[s] = 1 <=> s = Shell
    OBVIOUS
  <2>3. \A t \in Threads : slot[t] # Shell /\ self[t] # Shell
    OBVIOUS
  <2> QED
    BY <2>1, <2>2, <2>3 DEF ShellSlotInv
<1>3. ApartInv
  BY DEF ApartInv, PidOne, Shell
<1>4. UnbornInv
  BY DEF UnbornInv, Unborn, Spawning, Shell, Threads, NoContext
<1> QED
  BY <1>1, <1>2, <1>3, <1>4 DEF ShellApart

LEMMA ApartStep == TypeInv /\ UniquePids /\ ShellApart /\ [Next]_vars => ShellApart'
<1> SUFFICES ASSUME TypeInv, UniquePids, ShellApart, [Next]_vars
             PROVE  ShellApart'
  OBVIOUS
<1>1. CASE ShellCommand
  BY <1>1, SpawnPublishApart, KillApart, ShellAllocApart DEF ShellCommand
<1>2. ASSUME NEW t \in Threads,
             Step(t) \/ ReturnFromTask(t) \/ KeyTaken(t) \/ SleepBlock(t) \/ SleepBusy(t)
      PROVE  ShellApart'
  BY <1>2, SpawnStackApart, KillFreeApart, WrapperApart, SleepApart, PagerApart, ScanApart,
     SetCurrentApart, LoadEspApart, SwitchApart DEF Step
<1>3. CASE TimerIrq
  BY <1>3, TimerApart
<1>4. CASE UNCHANGED vars
  BY <1>4 DEF vars, table, clock, machine, locals, ShellApart, ShellFlagInv, ShellInterruptible,
     ShellSlotInv, ApartInv, PidOne, UnbornInv, Unborn, Spawning
<1> QED
  BY <1>1, <1>2, <1>3, <1>4 DEF Next

LEMMA ShellStaysApart == Spec => [](TypeInv /\ ShellApart)
<1>1. TypeInv /\ UniquePids /\ ShellApart /\ [Next]_vars => (TypeInv /\ UniquePids /\ ShellApart)'
  BY ApartStep, TypeStep, PidStep
<1> QED
  BY <1>1, ApartInit, TypeInit, PidInit, PTL DEF Spec

(* The shell always runs with interrupts on, after races too.                *)
THEOREM ShellAlwaysInterruptible == Spec => []ShellInterruptible
<1>1. ShellApart => ShellInterruptible
  BY DEF ShellApart, ShellFlagInv
<1> QED
  BY <1>1, ShellStaysApart, PTL

(* The shell keeps its slot and stays schedulable, after races too, and       *)
(* until one slot 0 stays the kernel's.                                      *)
THEOREM ShellStays == Spec => []ShellSchedulable
<1>1. TypeInv /\ ShellApart /\ RaceFree => ShellSchedulable
  BY ConstantFacts DEF ShellApart, ShellSlotInv, RaceFree, Orderly, ReservedInv, ShellSchedulable,
     Shell
<1> QED
  BY <1>1, ShellStaysApart, OrderlyUntilRace, PTL
=============================================================================
