# MyMisu OS: a TLA+ verification project

MyMisu OS is a 32-bit x86 hobby kernel (about 2,600 lines of C and assembly): it
boots through GRUB, runs a shell on the VGA text console, schedules kernel tasks
with a timer-driven round-robin scheduler, and keeps a RAM filesystem with file
descriptors and a set of system-call functions.  This directory models the parts
of it that keep state, checks them with TLC on small instances and proves the
properties that matter most with TLAPS for every instance.

Sources are named `src/src/...` as in the repository (`src/` being its root).

## 1. Inventory

| Component | Sources | State | Operations | Hard behaviour |
|---|---|---|---|---|
| Process table and scheduler | process.c, timer.c, context_switch.s | `proc_table[]`, `current_pid`, `next_pid`, `tick`, `slice_counter`, each thread's stack | spawn, kill, sleep, yield, a task's return, the timer tick, `schedule()` | the timer preempts every one of these between two of its stores, `schedule()` included |
| Physical memory manager | pmm.c | page bitmap, `used_pages`, `total_pages` | boot from the multiboot map, alloc, free | two counters that must agree with a bitmap |
| RAM filesystem | fs.c | `fs_nodes[]`, `fs_fd_table[]`, `current_dir` | mkdir, create, write, read, list, delete, cd, open, close, read/write/lseek on a descriptor, stat, unlink, rmdir, getcwd | tables that refer to each other by index; freed slots used again |
| Keyboard | keyboard.c | ring of 256 characters, shift/caps/extended flags | the interrupt handler pushes, readers pop | producer in an interrupt, several readers, `hlt` |
| VGA console and pager | vga.c | cursor, colour, pager line count | putchar, scroll, pager pause | shared by every task without a lock; the pager reads the keyboard |
| Kernel log | klog.c | ring of entries, counters | clear, write, print | the ring wraps; head, count and start must agree |
| Interrupts | idt.c, isr.s | gates, handler table, the two interrupt controllers | dispatch, end of interrupt | the timer's handler returns in another thread than it interrupted |
| Boot | kernel.c, boot.s, gdt.c | none of its own | the set-up calls in their order | devices interrupt from the `sti` on |
| System calls | syscall.c | none of its own | 20 calls, made by the shell's `syscall` command | descriptors shifted by 3; vector 128 has a handler and no gate |
| Shell | shell.c | line buffer, history, login | line editing, some 50 commands | a line that wraps, scrolls and is recalled; full history; full argument vector |

How they interact: the timer interrupt calls `process_tick` and `schedule()`; the
shell calls spawn, kill, alloc and the filesystem directly; tasks print through
the console, whose pager reads the keyboard; the scheduler takes stacks from the
physical memory manager; every component may be preempted by the timer except
interrupt handlers (the IDT holds interrupt gates, so they run with interrupts off).

What makes each correct:

* scheduler: a suspended process is resumed where it was and nowhere else; one
  process runs and the table says which; stacks are not shared; sleepers wake;
  READY processes run; the shell cannot be lost;
* memory manager: a page is handed out once; the counters tell the truth;
* filesystem: the directories form a tree under `/`; names are unique in a
  directory; sizes and offsets stay inside a node's buffer; a descriptor keeps
  naming the file that was opened;
* keyboard: characters come out once, in order, and are only dropped when the ring is full;
* console: the cursor comes back on the screen whoever interrupts whom; one writer
  gets the screen it should; the pager loses no line;
* interrupts and boot: a line reaches its driver, is ended once and is served, in
  whatever thread the handler returns; the log keeps the last messages in order;
* system calls: a descriptor is the one handed out; the test command always passes;
* shell: the line on the screen is the line executed; the history is the last lines.

PROJECT.json lists the hazards one by one with the properties aimed at them.

## 2. Plan

The order is that of importance: a lost context stops the machine, a page given
out twice corrupts it, a lost file is the user's.

| Step | Module | Abstract specification | Theorems | Status |
|---|---|---|---|---|
| 1 | Scheduler (process table, timer, context switch, spawn, kill, sleep, return) | none: the properties relate its own tables and stacks | types, pids, stacks, the shell; contexts and current process until the first race | done |
| 2 | Pmm | PageAllocator: pages have one owner | types, counter, reserved pages, memory only, refinement | done |
| 3 | Fs | none: the tree property is the specification | types, tree, names, failures | done but for the bytes |
| 4 | Keyboard | KeyQueue: a bounded queue | types, shift, refinement, polling | done |
| 5 | Screen, Console: terminal_putchar access by access with several writers, scrolling and the pager | Screen: the calls of one writer, atomic | types, the row comes back, one writer's screen, the pager | done |
| 6 | Interrupts, Klog, Boot: kernel_main, gates, controllers, the threads' way through the timer's handler, the log | LastEntries: the last N messages | types, end of interrupt, drivers reached, the log's refinement | done |
| 7 | Syscalls: the calls on files and the `syscall` command, over Fs | Fs, whose actions they are | SysSpec implements Spec of Fs; the descriptors; the command's tests | done |
| 8 | Shell: login, line editor, history, argument splitter, over Screen | LastEntries for the history | types, the line on the screen, words, history refinement | done |
| 9 | FsData: bytes of files, holes after seeks, slots used again | files as byte sequences | reads return what was written last | not started |
| 10 | A composition of Pmm and Scheduler through stacks | | stacks and free pages partition memory | not started |

The compositions are Boot over Interrupts and Klog, Syscalls over Fs, Console and
Shell over Screen; Scheduler has the pages of Pmm as a set.

**Runs.** One passing run per component or composition (two for the scheduler, whose
liveness needs a smaller instance) and four that show a statement of the sources
which the code contradicts; other such statements are listed in section 10.

**Writing for proof.** Every module has its parameters as constants with named
assumptions, one action per operation, no recursive operator, and finite-set
scans written with `Min` (LeastElement).

## 3. The scheduler (modules Scheduler, SchedulerInvariant, SchedulerProofs)

**State.** One function per field of `process_t`, the statics of process.c and
timer.c, the set `used_pages` of allocated frames, and the processor: the thread
it runs (`cpu`), the interrupt flag and whether it has jumped through a stack
pointer with no context under it (`wild`).  Of the console it has `paging`
(pager_enabled), which `help` switches on and off.  A *thread* is a flow of control with
its own stack, the shell's or a task's, named by the pid the task was given; its
position is `pc`, and its C locals that outlive a preemption are `slot`,
`next_slot`, `new_esp` and `self` (the wrapper's `p`).  A saved stack pointer is
abstracted to the thread whose context lies under it, `NoContext` if none does:
when a thread is resumed its frame is popped, so every other copy of that
pointer becomes `NoContext`.

**Granularity.** Interrupt handlers are one step.  Thread code is cut where a
preemption matters: between `in_use = 1` and `saved_esp` in spawn, between
BLOCKED and `wake_tick` in sleep, between the two stores of the wrapper, before
`pmm_free_page` in kill, and in `schedule()` after the scan, after the marks,
after `current_pid` and after the argument of `context_switch` is pushed.

**Interrupt flag.** `context_switch` saves no EFLAGS.  A thread that left through
the timer gets its flag back from `iret`, a new task executes `sti`, and a thread
that left through its own `schedule()` keeps the flag it is handed, which is off
when the switch is the timer's.  The model carries this.

**The pager.** A task prints at "work", and while `help` pages, its newline may be
the one at which the pager asks for a key: `PagerWait` takes the task to the
`hlt` of `keyboard_getchar` ("key"), which it leaves by `KeyTaken` when a key is pressed and
interrupts are on.  With interrupts off no key comes and no tick: the machine has stopped
(`StoppedInPager`).  No race window is needed for that.

**Race windows.** `raced` is a history variable: it becomes true when a slice
ends, and switches, while the interrupted thread is in one of six windows
(`RaceWindows`: inside `process_sleep` after BLOCKED, in `schedule()` after the
scan, inside spawn after `in_use`).  After that the kernel may lose contexts,
current_pid and slots: x_fresh_task shows one way.  The safety properties
about contexts say what holds until then; pids, types, stacks and
what is said of the shell hold whatever happens.

**Properties.** `TypeOK`; `UniquePids` (find_slot_by_pid is unambiguous);
`StacksOwned` (no page is two stacks or both a stack and free); `ContextsIntact`;
`CurrentAgrees`; `StopsOnlyInPager` (no jump without a context, no `hlt` with
interrupts off but the pager's, and that one only while `help` pages); `ShellInterruptible` and `ShellSchedulable` (the shell runs with
interrupts on, keeps slot 1 and stays READY or RUNNING, races or not); liveness `SleepersWake`
and `ReadyRuns`, which hold unless the machine stops in the pager.

**Runs.**

| Run | Instance | Shows |
|---|---|---|
| sched | 4 slots, 3 pids, 2 pages, slices of 2 ticks, tick modulo 5, sleeps of 1 and 3, tasks return | all safety properties, 1.9 million states |
| sched_live | 4 slots, 2 tasks, slices of 2 ticks, tasks return, up to the first race | both liveness properties |
| x_fresh_task, x_stacks_reclaimed | as sched or smaller | two comments that the code does not keep (section 10) |

Bounds: `MaxPid` bounds the number of spawns (2 tasks: with a third slot free
for reuse every interplay of a running, a waking and a returning task occurs),
`TickMod` the counter's width (5 values: it wraps within a sleep, and ticks that end no slice occur), `Pages` the
frames (alloc takes some away, so a spawn can also fail).  Slots are one more
than the processes, so that the scan meets an empty slot.  Liveness runs use the
specification up to the first race, since the properties claim nothing after it.
Deadlock checking is off in every run: after a race, or in the pager, the machine can really stop
(a wild jump, `hlt` with interrupts off), which `StopsOnlyInPager` is about.

**Fairness.** The timer interrupt is weakly fair (`CanTick` is its enabling
condition): the PIT is programmed once to 100 Hz and never stopped (timer.c:26).  A thread that has the processor again
and again makes steps: a slice is 100 ms and an interrupt handler takes
microseconds; this is strong fairness of each thread's own step, written with
`CanStep`, which is that step's enabling condition.  A task at work gets to its
`process_sleep` or, printing, to the pager's `hlt`, where it may stay for ever: what
the user types, the pager's key included, is not assumed to happen.

**Proved**, for every number of slots, slice length, counter width, set of pages
and number of tasks, from the four assumptions on the constants:

* `TypeCorrect`: `Spec => []TypeOK`.  `TypeOK` is not inductive alone: a local
  indexes the table at some positions, so the proof carries `LocalsOK` (the
  local is a slot wherever it is used).
* `PidsUnique`: `Spec => []UniquePids`, and `StacksDisjoint`:
  `Spec => []StacksOwned`, inductive with the types.
* `OrderlyUntilRace`: `Spec => []RaceFree`.  `Orderly` is the conjunction of
  eleven named parts of SchedulerInvariant: only the running thread is in a
  window; slots 0 and 1 are reserved; no copy of the running thread's stack
  pointer is left; current_pid is right; the locals of a `schedule()` in progress
  are right; every other process is suspended; slot 0 is READY only with a
  returned task under it; the RUNNING marks; the shell; the tasks; the two
  commands.  `ContextsIntact` alone is not inductive: that a switch resumes
  the right thread needs the locals and current_pid to be right, which needs the
  scan to start at the running thread's slot, which needs a thread without a
  slot to be a returned task.  There is one lemma per action; a context
  switch, the timer's or a thread's, is one lemma (`SwitchedKeeps`).
* `ContextsSafe`, `CurrentSafe`, `MachineStopsOnlyInPager`: the three safety properties
  about contexts, from `RaceFree`.
* `ShellAlwaysInterruptible` and `ShellStays`, for every behaviour, after a race too,
  where `Orderly` no longer holds.  `ShellApart` is their invariant: slot 1 is named
  by no local of spawn or kill and by no other pid; until a jump without a context, only the shell's
  thread, or one inside a `schedule()` that has chosen slot 1, runs while
  current_pid is 1 or lies under slot 1 or a `new_esp` taken from it (`PidOne`); a task that
  is not spawned yet lies under nothing; and the shell is suspended by the timer
  alone, whose `iret` gives it its flag back.  That a race cannot bring another
  thread under slot 1 is what the proof is about: a switch saves under the slot
  whose pid is current_pid, which a race leaves wrong for the tasks but, by `PidOne`, never
  for the shell.

`LeastElement` proves what `Min` returns, which the scans are written with.
The liveness properties are model-checked only: they are outside the prover's
reach.

**Abstracted**: names, priorities, `ticks_used` and the log line of spawn and
kill, on which nothing depends.  **Not modelled**: `process_create` (no caller) and
`process_terminate` of the caller itself through `sys_exit` (no gate reaches it).

## 4. The physical memory manager (modules Pmm, PageAllocator, PmmProofs)

**State.** The bitmap, byte by byte (a byte is the set of its one bits, so that
the byte-then-bit scan of `pmm_alloc_page` is the code's), `total_pages`,
`used_pages`; the boot loader's report (`machine`), the entry of the memory map
`pmm_init` is at and its phase (`pc`); and what the callers hold.  A step is an
entry of the map, a reservation loop, or one call.  The calls do not overlap:
only the shell's `spawn`, `kill` and `alloc` reach them (a task's own
`process_terminate` would, but no gate leads to `sys_exit`).

Addresses are 64-bit in the map and truncated to 32 bits (`% WordMod`), where
the rounding to page boundaries may wrap.  A machine is any value of the
constant `Machines`; MCPmm gives seven maps (all of the bitmap, half, a hole,
entries that begin and end inside a page, overlapping entries, entries above
4 GB, no map) for 16
pages in two bytes, with a page of 2 units, so that allocation exhausts memory
and crosses a byte.

**Properties.** `CounterTrue`: `used_pages` counts the set bits, also half way
through `pmm_init`, if no two usable entries overlap.  `ReservedStay`: page 0,
the first megabyte and the kernel are never free or held.  `RamOnly`: what is
free or held lies wholly in a usable entry, if the map lies below 4 GB.
`ImplementsAllocator`: the module refines `PageAllocator`, in which alloc hands
out some free page and fails only when there is none.

`FreeNeverOverstated`: `pmm_get_free_pages` subtracts a counter that starts at the
size of the bitmap from the size of the machine; the clamp at 0 and the bound on
`total_pages` keep it from promising a page that there is not.  (It may promise
too few: section 10.)

**Proved** (PmmProofs), for every bitmap size, page size, word size and map:
all of them, and `TypeOK`.  The invariant `PmmInv` adds to `CounterTrue` that the
walk has cleared only pages of entries it has seen (`ClearedSeen`: otherwise a
clear page could be counted down twice), that reserved pages are in use from the
moment they are reserved (`Reserved`), and that held pages are in use and not
reserved (`HeldInUse`: otherwise a free could clear a reserved page).  `OnlyMemory`
rests on `FromMap` and on arithmetic of rounding (`RoundDown`, `WholePage`,
`PagesInside`).  The lemmas `SetMarks`, `ClearUnmarks`, `TakenMarks`,
`ReleasedUnmarks` and `ScanFinds` relate bytes and bits to sets of pages.

**Run.** `pmm` checks the six properties on the seven machines (112,000 states).

## 5. The RAM filesystem and the system calls (modules Fs, FsProofs, Syscalls)

**State.** `nodes` and `fds` are `fs_nodes[]` and `fs_fd_table[]` by field, and
`current_dir`; `answer` is what the last call returned ("ok", "EMFILE", or "error"
for every other errno).  A call is one step: only the shell's thread calls the
filesystem, and no call gives up control to another caller.  Each of the
calls that change a table is an action; `fs_mkdir` and `fs_create_file` differ
in the type they write (`Make`), `fs_delete`, `fs_unlink` and `fs_rmdir` in the
types they take (`Remove`).  `fs_list`, `fs_read_file`, `fs_stat` and `fs_getcwd`
change nothing and are left out.

**Data.** The bytes of a file are abstracted away; its size and every offset are
kept, with `MaxData` for `FS_MAX_DATA`, so that the room for the terminating NUL
counts.  A slot that is given up keeps its size, since a descriptor may still read
it; its other fields are read by nobody before they are written.  The empty name
stands for the names that creation refuses, the empty and the too long.  The
boot entries are parameters.

**Properties.** `TypeOK` bounds every size and offset by the data, in every order
of seeks past the end, appends and truncations.  `Tree`: every node in use is in
a directory in use, no set of nodes is cut off from `/`, and the current
directory is one of them; it fails as soon as a directory is removed that is the
current one, an ancestor of it, or not empty.  `NamesUnique`: a directory holds
a name once, although slots, and with them parent indexes, are used again.
`FailureChangesNothing`: a call that fails has changed no file and no directory,
but for an open that finds no descriptor, which has by then created or truncated
the file (fs.c:186-202).

**System calls.** Syscalls has the calls of syscall.c that reach the filesystem, each
with its own test of the descriptor and its shift by three; a null pointer, a
console descriptor where a file's is needed and the stubs are `Refused`.  The shell's
commands `touch`, `write` and `rm` (and `edit` and `note`, which call the same functions)
call the filesystem beside them.  `handed` records the descriptors that `sys_open`
returned and `sys_close` has not taken back.  The `syscall` command is modelled call by
call (`TestCall`), from any state of the filesystem in which its two names, a node and
a descriptor are free (`Prepared`): `passed` becomes false where it prints FAIL.
`DescriptorsShifted`: the descriptors handed out are the slots in use, three higher.
`TestsPass`: the command prints no FAIL, and leaves the files and descriptors that it
found, up to the stale size of a free slot.

**Runs.** `fs` (MCSyscalls): 4 nodes (a root, one made at boot, two more, so that a chain of
three directories and a full table occur), one descriptor, 3 bytes of data (the
last is the NUL's), reads and writes of 2 bytes (which fill a file
from an offset of 0 and more than fill it from 1), seeks back, to the start and past the end; the names of the test command, one of which is taken at
boot; 362,000 states.  `x_descriptor` (MCFs): section 10.

**Proved** (FsProofs), for tables and data of every size and any names: all four
(`FsTyped`, `DirectoriesFormTree`, `NamesFoundOnce`, `FailuresHarmless`).  The
proofs of `Tree` and `NamesUnique` go by what a step does to the table:
`CallShapes` shows that every call keeps names, types and parents (`Still`), moves
the current directory (`Moved`), adds one node (`Added`) or gives one up
(`Dropped`), and each shape preserves the property.  `Tree` is stated with sets
(no set of nodes without a parent outside it) rather than with paths, which makes
it inductive without induction over depth.

They are theorems of `Spec` of Fs, and `SyscallsImplementFs` carries them over: every
step of Syscalls is a step of Fs or changes nothing of it, because a refused call is one
with a descriptor that is not open and the `syscall` command's `fd` is a descriptor
or what a failed `sys_open` returns (`FdKnown`).  `SyscallsSafe` collects them, and
`DescriptorsMatch` proves `DescriptorsShifted` over them: only `sys_open` takes a slot
and only `sys_close` gives one up.

`TestsAlwaysPass` proves `TestsPass`: `Stage` says for each position of the `syscall` command
what it has added to the files and descriptors that it found, a node of its own
(`Mine`), a descriptor on it with the offset it expects (`Held`) or a directory, and with `Clean`
(a free descriptor is as fs_close left it) that taking them away again gives
back the state it started from.  `TestAssumption` has the command's own constants: the bytes it
writes fit a file, and it opens for reading and writing with O_CREAT.

## 6. The keyboard (modules Keyboard, KeyQueue, KeyboardProofs)

**State.** The ring, the three flags of the handler, and for each reader its
place in `keyboard_getchar` with the two values it holds.  The keyboard itself is
part of the model: it sends a key's codes one interrupt at a time (`wire`), an
arrow with its prefix, and, as PS/2 keyboards do, prefixed codes of a shift key
before or after it; `held` are the shift keys that are down.

**Granularity.** The handler is one step, as it runs with interrupts off.
`keyboard_getchar` is cut at each access: the test, `hlt` (an interrupt between the
test and the `hlt` does not prevent it), the fetch of the character, the load and
the store of `kb_read`.  A character is a key and the table it was looked up in.

**Properties.** `ImplementsQueue`: the module refines `KeyQueue`, a bounded
queue: a reader gets each character that was pushed once and in order, and a
character is dropped only when `Size - 1` wait.  `ShiftNeverSticks`: with all codes
handled, shift is on only while a shift key is held.  `PolledNeverHalts`: after
`keyboard_haschar` said yes, `keyboard_getchar` does not halt, which the games'
loops rely on.  `KeyReachesReader`: a reader with a character in the ring gets
it, although the key may have come just before the `hlt`.

**Run.** `kbd`: one reader, a ring of 3 (it holds 2, so order, overflow and
wrapping occur), one letter, one arrow, one dead key, one shift key, caps lock
and escape; 580,000 states.  Fairness: the timer interrupts for ever (timer.c:26)
and the reader gets its turn (shown by `ReadyRuns` of the scheduler, as long as no task
has halted in the pager with interrupts off); nobody need
type.

**Proved** (KeyboardProofs), for rings of every size and all sets of keys:
`KeyboardTyped`, `ShiftFollowsKeys` for any number of readers; `RingIsQueue` and
`PollerReturns` for one reader.  The invariant `Knows` says what the reader's locals
hold at each place and that pushes do not disturb it; `SlotAfter` removes the
remainder, and `PushAppends` and `AdvanceTakes` relate the ring to the sequence.
`ShiftInv` describes what is left of the codes of a key.  `KeyReachesReader` is
liveness and only model-checked.

**Two readers.** The pager (vga.c:64) is a second caller: a demo task that
prints while `help` is paging waits for a key beside the shell.  With two readers
`ImplementsQueue` fails: both see one character, and the second advances `kb_read`
past `kb_write`, after which the ring looks full of old keys.

## 7. The console (modules Screen, Console, ConsoleProofs)

**Screen** is what one writer gets: `Put` for each kind of character, `Cleared`,
scrolling.  It has no state; Console compares itself with it and Shell uses it.

**State.** Console has the statics of vga.c and, for each writer, its place in
`terminal_putchar`, its character and three registers.  `terminal_row++`,
`terminal_column++` and `pager_lines++` are a load and a store each; a test that follows may use the register
or load again, as the compiler pleases (`Reads`); `size_t` has `SizeMod` values, so
that `terminal_column--` at 0 goes to the largest.  A cell outside the screen is
somewhere else in video memory and not recorded.  Loops over cells (scrolling,
clearing a row or the screen) are one step.  `keyboard_getchar` in the pager is one
step that returns "q" or not; Keyboard has its races.

**Properties.** `RowRecovers`: while the row is beyond the screen some writer inside
`terminal_putchar` has a register that says so and will scroll, in every interleaving
of every number of writers.  `SerialIsExact`: as long as no two calls have
overlapped (`met`), the screen between calls is the one that Screen computes,
pager included.  `NothingScrolledAway`: when the pager stops, the lines since its
last stop are on the screen, if none of them wrapped and one writer prints.

**Run.** `console`: three rows of four cells, tabs of two, two writers, four characters
or clearings in all, beginning at either end of the first and the last row; 8.6 million
states.  Four calls are enough for a wrap, a tab and two scrolls, or for two
overlapping pairs.

**Proved** (ConsoleProofs), for any screen, any writers and any characters:

* `ConsoleRecovers`: `RowRecovers`.  Its invariant ties each register to the row: a
  writer between the store and the test holds the row that it stored or a smaller
  row is there.
* `ConsoleTyped` (types and widths, in every interleaving), `SerialExact` and
  `PagerShowsAll`, from `ConsoleInv`, the conjunction of three parts.  `Shape`: the types, and
  what a register holds at each position.  `Exact`: until two calls meet, at most
  one writer is inside `terminal_putchar`, and running the rest of its call without
  interruption (`Finishes`) would give the screen that Screen computes.  `Counted`: the lines
  counted for the pager are rows that the cursor went down, so that they are still
  above it.

## 8. Boot, interrupts and the log (modules Interrupts, Boot, Klog, LastEntries, BootProofs)

**Interrupts** has the gates, the handler table, and of the two interrupt controllers
what idt.c relies on: vector bases, requested and in-service lines with fully
nested priorities, the slave on line 2, the non-specific end of interrupt, and
spurious interrupts of a line that was lowered before it was acknowledged.  They and the
processor (gates turn interrupts off, a missing gate is exception 13) are
external.  `isr_handler`, `EndOfInterrupt`, the handler call and `Return` are
`isr_common`, `irq_common` and the functions they call, in their order.

**Boot** composes it with **Klog**: `kernel_main` is its calls in the order of
`BootOrder`, each with its log line, while devices raise lines at any time; then the
shell's thread spawns and kills tasks, tasks sleep, and `TimerCallback` may return in
another thread.  How a thread was suspended (`where`) decides what happens then: one
that the timer suspended goes on in its handler and restores its flag by `iret`, a
new one executes `sti`, one that called `schedule()` itself goes on with interrupts
as they are, that is off.  While `help` pages, a task may halt in the pager
(`PagerWait`), and with interrupts off stays there for ever (`HaltedInPager`).  `schedule()` is one step and picks any ready thread:
Scheduler has its table and its races.

**Properties.** `LinesReachDrivers`: a line never arrives as an exception, and its
handler is its driver's, from the `sti` on.  `NothingInService`: no thread runs while
a line waits for its end of interrupt, although the timer's handler may come back in
another thread, a slave's line needs two ends, and a spurious one has none.
`LinesServed` (liveness): a raised line is served, or one of higher priority waits,
unless the machine stops, in a panic or in the pager.
`DmesgInOrder`: `klog_print` refines LastEntries, the last messages in order, before and after the ring
wraps.  `SyscallReachesHandler` is section 10's.

**Runs.** `boot`: the timer, the keyboard and line 8, which may be spurious, two tasks, a
log of three entries, which wraps during boot; the exceptions 0 (a division) and 128
(`int 0x80`); 166,000 states.  Two tasks and the shell give every pair of ways in which
the thread that leaves and the one that goes on are suspended.  `x_int80`: the same
instance with `int 0x80` as the only trap, so that every entry that a thread causes is one.

**Fairness.** The processor makes its next step; an interrupt that stays
deliverable is taken; `kernel_main` goes on (for the login this assumes that the user
logs in).  A task that runs gets, sooner or later, to its `process_sleep`, as
the three demo tasks do in each round of their loops (shell.c:280-309), or on the way,
printing, to the pager's `hlt`; no key is owed.  A task that was resumed with interrupts off
gives the processor up only in `process_sleep`, which is what makes `LinesServed` true, and
the pager is where it fails: without `HaltedInPager` TLC finds it violated.

**Proved** (BootProofs), for any lines, spurious or not, any number of tasks, any
exceptions and any capacity of the ring: `BootTyped`; `InterruptsEnded` and `DriversReached`
(`NothingInService` and `LinesReachDrivers`); and `LogKeepsOrder`, that `klog_print` refines
LastEntries.  A message is added at `klog_head` and the list starts there when the ring is
full and at 0 before; `RingInv` says that until then head and total agree, and the
one lemma on the wrap compares the positions after an append with those before.

## 9. The shell (modules Shell, ShellProofs)

**State.** The screen (of Screen), the line being read (`cmd_buffer` with `cmd_len`, or
the login's `user` and `pass`), the history and `history_pos`, and the argument vector.
A key is one step, as are the prompt with what is printed before it and a turn
of `execute_command`'s loop.  `login_screen` is the stages "user" and "pass",
`shell_run` the stage "key"; the banner and all but the last character of a prompt are left out.
The two-second wait after a login is, too.  While a command line is read a demo task may print.

**Properties.** `TypeOK` has the bounds of the buffers and of `history_pos`.
`LineShown`: the cells before the cursor are the prompt and the line, and those after
it hold nothing that was typed or printed, through wrapping, scrolling, recalling and erasing, unless a
backspace met the left margin or a task printed (`astray`).  They need not be blank: `menu` and
`files` return on ESC with their boxes on the screen and the cursor at its top (shell.c:463, 783), which
the commands of the model may do too (`Boxed`).  `HistoryInOrder`: the history
refines LastEntries.  `WordsSplit`: the argument vector is the words of the line,
the first `MAX_ARGS` of them.

**Run.** `shell`: two rows of four cells, lines of up to five characters over one
letter and the space (so a line wraps and scrolls, and three words exceed the two
arguments), two cells of a box in the second row, of which a long line
reaches the first; a history of two lines (full after two, shifted by the third), login
fields of two characters.  `MaxChars` bounds the characters of the history and the typed line
together to 8; recalling is not bounded by it.

**Proved** (ShellProofs), for buffers, a history and a screen of every size, any
accounts and letters and boxes anywhere: all four properties.

* `ShellTyped` and `HistoryKept`, from `LineInv`, which is about the line, the history and the
  words only.  The refinement is the lemma that shifting the oldest entry out before
  adding one is dropping it afterwards (`ShiftedIn`), and that no other step writes to
  the history.
* `LineOnScreen`: `LineShown`.  `ScreenInv` says for every state, and not only while a line
  is edited, that the cells from the cursor on are blank or a box's, and adds the text before the
  cursor while it is.  What one character does to both is proved at every place of
  the cursor (`GlyphShows`, `BackspaceShows`, `NewlineShows`, `ScrolledShows`); strings follow by steps along
  their positions (`StepsReach`, from the least position where the claim would fail, which
  also gives that the recursive function of `PutAll` exists).
* `ArgumentsAreWords`: `WordsSplit`.  `LoopAt(a)` is the invariant of `execute_command`'s loop when a
  characters are behind it: what is left is the line from there on, the place follows a space or is an
  end of the line, and the arguments are the words that start before it, in order.

## 10. Where sources and code disagree

Each has a violation run; PROJECT.json quotes the statement.

| Run | Statement | What the code does |
|---|---|---|
| x_fresh_task | process.c:97, the first switch lands inside process_entry_wrapper | a slot is READY before its stack pointer is stored |
| x_stacks_reclaimed | process.c:12, the wrapper cleans up | the stack page of a task that returns is lost |
| x_descriptor | README.md:87, POSIX-style descriptors | unlink leaves descriptors on a slot that another file takes |
| x_int80 | README.md:73, system calls via int 0x80 | vector 128 has a handler and no gate, so int 0x80 panics |

Seen while modelling, and without a run of their own.

* Pager and scheduler: while `help` pages, a task that prints may end up in the pager's
  `keyboard_getchar` (vga.c:64) and there execute `hlt` with interrupts off, if the timer resumed it
  in its own `schedule()`; no key and no tick can come any more (keyboard.c:88).  For
  example `spawn ticker`, `help`, and three seconds at the pager's prompt.  The
  properties name this stop (`StoppedInPager`, `HaltedInPager`) and show that it is the only one before a race.
* Scheduler: a tick inside a thread's own `schedule()` saves into the wrong slot
  (process.c:198), against process.c:173; a task that the timer resumes in its own
  `schedule()` runs with interrupts off until it sleeps, against "preemptive"
  (kernel.c:76); BLOCKED is stored before the deadline, so a switch in between loses the wake-up
  (process.c:219), against process.h:31; a deadline that wraps to 0 looks like none
  (process.c:220, 162); a kill after a race may leave the thread running; the wrapper
  may give up slots 0 and 1 after a race (process.c:21).
* Memory: `pmm_get_free_pages` counts the pages that the machine lacks as used
  and reports too few, often 0, below 128 MB (pmm.c:106, kernel.c:67); entries above
  4 GB are counted (pmm.c:42).
* Filesystem: an open that fails with EMFILE has created or truncated its file
  (fs.c:186-202); a write of no bytes after a seek past the end extends the file, and bytes
  in the hole are an earlier file's (fs.c:243-245); a file or directory may be
  called `..` or `/`, and cd cannot enter it (fs.c:54, 146).
* System calls: `sys_kill` returns 0 for a pid that it did not kill (syscall.c:88);
  the `syscall` command says "19 syscalls exercised" (shell.c:407) of 17, calls them
  directly and not through int 0x80 (shell.c:366), and removes a user's file `sctest`
  (shell.c:394); the dispatcher knows 20.
* Boot: the log says 5 segments and 256 vectors (kernel.c:22, 24) where there are 3 and 48
  gates.
* Keyboard: two readers (section 6).
* Console: two writers may set the row back over lines that are on the screen, a
  switch between the test and the decrement sends the column to SIZE_MAX (vga.c:82); "Q to stop" (vga.c:54) only
  turns the paging off, and the output goes on; a backspace does not cross the left margin
  (vga.c:82), so the shell's line and the editor's text then differ from the screen.
* Shell: `menu` and `files` leave their boxes on the screen when ESC ends them (shell.c:783, 463);
  `edit` and `note` say "Saved" when `fs_write_file` failed (shell.c:267); `note`
  appends to a full buffer (shell.c:415).

## 11. What is checked and what is proved

Proved for all constants: everything listed under "theorems" in PROJECT.json,
from the assumptions that the modules name (`SlotsAssumption`, `PmmSizes`, `FsSizes`,
`KeyboardKeys`, `ScreenSizes` and the others), which TLC evaluates on every run.  Every
invariant that a run checks is one of them, and so are the refinements and the
action properties.  Only model-checked: liveness (`SleepersWake`, `ReadyRuns`, `KeyReachesReader`,
`LinesServed`), which needs fairness and ENABLED, and the violation runs.  The proofs use no induction over data:
where a string or a table is run through, the claim is about its least element or
the set of positions where it holds.

Not modelled: the bytes of files, what the shell's commands print and its full-screen
editor and menu (but for the boxes it leaves), and, for good, the segment set-up (boot.s, gdt.c) and the
programming of the timer chip, formatting (kprintf.c, string.c), the games, and the scripts and
fragments that are not compiled.

To run one: `tlc -config Boot.cfg MCBoot.tla`; to check a proof: `tlapm PmmProofs.tla`.


