--------------------------------- MODULE Pmm ---------------------------------
(***************************************************************************)
(* The physical memory manager, pmm.c: a bitmap with a bit per page, set   *)
(* when the page is in use, filled at boot from the multiboot memory map,  *)
(* and a counter of the pages in use.  Only the shell allocates and frees  *)
(* (spawn, kill, alloc), so the operations do not overlap.                 *)
(***************************************************************************)
EXTENDS Integers, Sequences, FiniteSets, FiniteSetsExt

CONSTANTS
    NBytes,      \* BITMAP_SIZE
    PageSize,    \* PAGE_SIZE
    WordMod,     \* number of values of uint32_t
    LowPages,    \* pages in the first megabyte
    KernelEnd,   \* kernel_end_page
    Machines     \* what multiboot may report: [lower, upper, mmap]

(* An entry of mmap is [usable, addr, len]: type 1 or not, and the two      *)
(* 64-bit fields.  The machine reports memory sizes in the unit of PageSize. *)
ASSUME PmmSizes ==
    /\ NBytes \in Nat \ {0} /\ PageSize \in Nat \ {0}
    /\ LowPages \in 1 .. 8 * NBytes /\ KernelEnd \in Nat
    /\ WordMod \in Nat /\ WordMod > 8 * NBytes
ASSUME PmmMachines ==
    \A m \in Machines :
        /\ m.lower \in Nat /\ m.upper \in Nat
        /\ m.mmap \in Seq([usable : BOOLEAN, addr : Nat, len : Nat])

MaxPages  == 8 * NBytes
PageNums  == 0 .. MaxPages - 1
Bytes     == 0 .. NBytes - 1
Bits      == 0 .. 7        \* a byte is the set of its one bits
NoPage    == 0             \* the return value 0

VARIABLES
    bitmap, total_pages, used_pages,   \* the statics of pmm.c
    machine,                           \* what the boot loader reported
    entry,                             \* the next entry of the map pmm_init looks at
    pc,                                \* "walk", "low" and "kernel" in pmm_init, then "run"
    held,                              \* pages the callers have and have not freed
    answer                             \* what pmm_alloc_page last returned

vars == <<bitmap, total_pages, used_pages, machine, entry, pc, held, answer>>

\* pmm_test_bit, pmm_set_bit, pmm_clear_bit, the last two for several pages
Test(p)     == p % 8 \in bitmap[p \div 8]
SetAll(S)   == [i \in Bytes |-> bitmap[i] \cup {b \in Bits : 8 * i + b \in S}]
ClearAll(S) == [i \in Bytes |-> bitmap[i] \ {b \in Bits : 8 * i + b \in S}]

Marked   == {p \in PageNums : Test(p)}
Unmarked == PageNums \ Marked

(* Faulty variants of the operators below; they model no code.              *)
TakenUnset(p) == bitmap
PagesOfCeil(e) ==
    LET base == e.addr % WordMod  length == e.len % WordMod
        start == (base \div PageSize) * PageSize
        end   == (((base + length) % WordMod) \div PageSize) * PageSize
    IN  {p \in PageNums : p > 0 /\ start <= p * PageSize /\ p * PageSize < end}
KernelPagesShort == {p \in PageNums : LowPages <= p /\ p < KernelEnd}
CountedAgain(S)  == Cardinality(S)
FreeUnclamped    == (total_pages - used_pages) % WordMod
TotalUnclamped(m) == (m.lower + m.upper + LowPages * PageSize) \div PageSize

-----------------------------------------------------------------------------
\* the memory sizes multiboot reports, and the first megabyte, in pages
TotalPages(m) ==
    LET n == (m.lower + m.upper + LowPages * PageSize) \div PageSize
    IN  IF n > MaxPages THEN MaxPages ELSE n

\* pmm_init before the map: everything in use
Init ==
    /\ machine     \in Machines
    /\ bitmap      = [i \in Bytes |-> Bits]
    /\ used_pages  = MaxPages
    /\ total_pages = TotalPages(machine)
    /\ entry = 1 /\ pc = "walk"
    /\ held = {} /\ answer = NoPage

\* the pages an entry of type 1 clears: whole pages, addresses in 32 bits
PagesOf(e) ==
    LET base   == e.addr % WordMod
        length == e.len % WordMod
        start  == (((base + PageSize - 1) % WordMod) \div PageSize) * PageSize
        end    == (((base + length) % WordMod) \div PageSize) * PageSize
    IN  {p \in PageNums : p > 0 /\ start <= p * PageSize /\ p * PageSize < end}

WalkEntry ==
    LET e == machine.mmap[entry]
    IN  /\ pc = "walk" /\ entry <= Len(machine.mmap)
        /\ IF e.usable
           THEN /\ bitmap'     = ClearAll(PagesOf(e))
                /\ used_pages' = (used_pages - Cardinality(PagesOf(e))) % WordMod
           ELSE UNCHANGED <<bitmap, used_pages>>
        /\ entry' = entry + 1
        /\ UNCHANGED <<total_pages, machine, pc, held, answer>>

WalkEnds ==
    /\ pc = "walk" /\ entry > Len(machine.mmap)
    /\ pc' = "low"
    /\ UNCHANGED <<bitmap, total_pages, used_pages, machine, entry, held, answer>>

\* how many pages of S a reservation counts: those whose bit was clear
Counted(S) == Cardinality(S \ Marked)

Reserve(S) == /\ bitmap'     = SetAll(S)
              /\ used_pages' = (used_pages + Counted(S)) % WordMod
              /\ UNCHANGED <<total_pages, machine, entry, held, answer>>

LowMemory   == 0 .. LowPages - 1
KernelPages == {p \in PageNums : LowPages <= p /\ p <= KernelEnd}

ReserveLow    == pc = "low"    /\ Reserve(LowMemory)   /\ pc' = "kernel"
ReserveKernel == pc = "kernel" /\ Reserve(KernelPages) /\ pc' = "run"

\* the first byte with a clear bit, and its first clear bit
FirstByte  == Min({i \in Bytes : bitmap[i] # Bits})
FirstClear == 8 * FirstByte + Min(Bits \ bitmap[FirstByte])

\* pmm_set_bit on the page found
Taken(p) == [bitmap EXCEPT ![p \div 8] = @ \cup {p % 8}]

AllocPage ==
    /\ pc = "run"
    /\ \E i \in Bytes : bitmap[i] # Bits
    /\ bitmap'     = Taken(FirstClear)
    /\ used_pages' = (used_pages + 1) % WordMod
    /\ answer'     = FirstClear
    /\ held'       = held \cup {FirstClear}
    /\ UNCHANGED <<total_pages, machine, entry, pc>>

OutOfMemory ==
    /\ pc = "run"
    /\ \A i \in Bytes : bitmap[i] = Bits
    /\ answer' = NoPage
    /\ UNCHANGED <<bitmap, total_pages, used_pages, machine, entry, pc, held>>

\* pmm_free_page: a page whose bit is already clear is left alone
FreePage(p) ==
    /\ pc = "run" /\ p \in held
    /\ IF Test(p)
       THEN /\ bitmap'     = [bitmap EXCEPT ![p \div 8] = @ \ {p % 8}]
            /\ used_pages' = (used_pages - 1) % WordMod
       ELSE UNCHANGED <<bitmap, used_pages>>
    /\ held' = held \ {p}
    /\ UNCHANGED <<total_pages, machine, entry, pc, answer>>

Next == \/ WalkEntry \/ WalkEnds \/ ReserveLow \/ ReserveKernel
        \/ AllocPage \/ OutOfMemory \/ (\E p \in PageNums : FreePage(p))

Spec == Init /\ [][Next]_vars

-----------------------------------------------------------------------------
(* The bitmap, the counters and the return value keep their types.          *)
TypeOK ==
    /\ bitmap \in [Bytes -> SUBSET Bits]
    /\ total_pages \in 0 .. MaxPages /\ used_pages \in 0 .. WordMod - 1
    /\ machine \in Machines /\ entry \in Nat \ {0}
    /\ pc \in {"walk", "low", "kernel", "run"}
    /\ held \subseteq PageNums /\ answer \in PageNums

\* no two usable entries cover a page in common
Disjoint(m) ==
    \A i, j \in DOMAIN m : i # j /\ m[i].usable /\ m[j].usable
                               => PagesOf(m[i]) \cap PagesOf(m[j]) = {}

(* pmm_get_used_pages: used_pages counts the set bits at every step of       *)
(* pmm_init and of the operations, if the entries of the map do not overlap  *)
(* (the loop counts a page down each time an entry names it).                *)
CounterTrue == Disjoint(machine.mmap) => used_pages = Cardinality(Marked)

(* pmm_init: page 0, the first megabyte and the kernel are never handed out, *)
(* so that the return value 0 always means out of memory.                    *)
ReservedPages == {p \in PageNums : p < LowPages \/ p <= KernelEnd}
ReservedStay  == pc = "run" => ReservedPages \cap (Unmarked \cup held) = {}

\* page p lies in usable memory of the machine
InRam(p) == \E i \in DOMAIN machine.mmap :
               LET e == machine.mmap[i]
               IN  e.usable /\ e.addr <= p * PageSize /\ (p + 1) * PageSize <= e.addr + e.len

Below4G == \A i \in DOMAIN machine.mmap :
               machine.mmap[i].addr + machine.mmap[i].len < WordMod - PageSize

(* pmm_init: a page that can be handed out, or has been, is memory, when the *)
(* whole map lies below 4 GB.                                                *)
RamOnly == Below4G => \A p \in Unmarked \cup held : InRam(p)

\* pmm_get_free_pages
FreePagesReported == IF total_pages > used_pages THEN total_pages - used_pages ELSE 0

(* pmm.c:106: used_pages starts at the size of the bitmap and total_pages at *)
(* that of the machine, and entries may lie outside either; yet when the map *)
(* does not overlap, the number of free pages never exceeds what             *)
(* pmm_alloc_page can still hand out (it may fall short of it).              *)
FreeNeverOverstated ==
    Disjoint(machine.mmap) => FreePagesReported <= Cardinality(Unmarked)

(* The abstract allocator: it has no free page until pmm_init is done.       *)
Allocator == INSTANCE PageAllocator WITH
                 Frames <- PageNums,
                 booted <- pc = "run",
                 free   <- IF pc = "run" THEN Unmarked ELSE {}

(* pmm_alloc_page and pmm_free_page are an allocator: a page is handed out   *)
(* to one owner at a time, and allocation fails only when no page is free.   *)
ImplementsAllocator == Allocator!Spec

=============================================================================
