------------------------------ MODULE PmmProofs ------------------------------
(* The physical memory manager is an allocator, its counter is right and the *)
(* reserved pages stay reserved, for every size of the bitmap and every      *)
(* memory map.                                                               *)
EXTENDS Pmm, LeastElement, FiniteSetTheorems

-----------------------------------------------------------------------------
(* The bitmap as a set of pages.                                             *)

(* A page number is a byte and a bit, as pmm_set_bit splits it.              *)
LEMMA ByteAndBit ==
    ASSUME NEW p \in PageNums
    PROVE  /\ p \div 8 \in Bytes /\ p % 8 \in Bits
           /\ 8 * (p \div 8) + (p % 8) = p
<1>1. p \in Nat /\ p < 8 * NBytes /\ NBytes \in Nat
  BY PmmSizes DEF PageNums, MaxPages
<1>2. p % 8 = p - 8 * (p \div 8)
  BY <1>1
<1>3. p % 8 \in 0 .. 7 /\ p \div 8 \in Nat
  BY <1>1
<1>4. 8 * (p \div 8) + (p % 8) = p
  BY <1>1, <1>2, <1>3
<1>5. p \div 8 < NBytes
  BY <1>1, <1>2, <1>3
<1> QED
  BY <1>1, <1>3, <1>4, <1>5 DEF Bytes, Bits

(* And every byte and bit make a page.                                       *)
LEMMA BitOfByte ==
    ASSUME NEW i \in Bytes, NEW b \in Bits
    PROVE  /\ 8 * i + b \in PageNums
           /\ (8 * i + b) \div 8 = i /\ (8 * i + b) % 8 = b
BY PmmSizes DEF PageNums, MaxPages, Bytes, Bits

(* The pages are finitely many naturals.                                     *)
LEMMA PagesFinite ==
    /\ IsFiniteSet(PageNums) /\ Cardinality(PageNums) = MaxPages
    /\ MaxPages \in Nat \ {0} /\ MaxPages < WordMod /\ PageNums \subseteq Nat
    /\ NoPage \in PageNums
<1>1. MaxPages \in Nat \ {0} /\ MaxPages < WordMod
  BY PmmSizes DEF MaxPages
<1>2. IsFiniteSet(0 .. MaxPages - 1) /\ Cardinality(0 .. MaxPages - 1) = MaxPages
  BY <1>1, FS_Interval
<1> QED
  BY <1>1, <1>2 DEF PageNums, NoPage

(* Setting the bits of S marks the pages of S, and no other.                 *)
LEMMA SetMarks ==
    ASSUME bitmap \in [Bytes -> SUBSET Bits], NEW S \in SUBSET PageNums,
           bitmap' = SetAll(S)
    PROVE  Marked' = Marked \cup S
<1> SUFFICES ASSUME NEW p \in PageNums
             PROVE  Test(p)' <=> Test(p) \/ p \in S
  BY DEF Marked
<1>0. /\ p \div 8 \in Bytes /\ p % 8 \in Bits
      /\ 8 * (p \div 8) + (p % 8) = p
  BY ByteAndBit
<1> DEFINE i == p \div 8
           n == p % 8
<1>1. i \in Bytes /\ n \in Bits /\ 8 * i + n = p
  BY <1>0, Zenon
<1>2. bitmap'[i] = bitmap[i] \cup {b \in Bits : 8 * i + b \in S}
  BY <1>1 DEF SetAll
<1>3. (Test(p) <=> n \in bitmap[i]) /\ (Test(p)' <=> n \in bitmap'[i])
  BY DEF Test
<1> HIDE DEF i, n
<1> QED
  BY <1>1, <1>2, <1>3

(* Clearing the bits of S leaves the pages outside S as they were.           *)
LEMMA ClearUnmarks ==
    ASSUME bitmap \in [Bytes -> SUBSET Bits], NEW S \in SUBSET PageNums,
           bitmap' = ClearAll(S)
    PROVE  Marked' = Marked \ S
<1> SUFFICES ASSUME NEW p \in PageNums
             PROVE  Test(p)' <=> Test(p) /\ p \notin S
  BY DEF Marked
<1>0. /\ p \div 8 \in Bytes /\ p % 8 \in Bits
      /\ 8 * (p \div 8) + (p % 8) = p
  BY ByteAndBit
<1> DEFINE i == p \div 8
           n == p % 8
<1>1. i \in Bytes /\ n \in Bits /\ 8 * i + n = p
  BY <1>0, Zenon
<1>2. bitmap'[i] = bitmap[i] \ {b \in Bits : 8 * i + b \in S}
  BY <1>1 DEF ClearAll
<1>3. (Test(p) <=> n \in bitmap[i]) /\ (Test(p)' <=> n \in bitmap'[i])
  BY DEF Test
<1> HIDE DEF i, n
<1> QED
  BY <1>1, <1>2, <1>3

(* pmm_set_bit marks one page.                                               *)
LEMMA TakenMarks ==
    ASSUME bitmap \in [Bytes -> SUBSET Bits], NEW p \in PageNums,
           bitmap' = Taken(p)
    PROVE  Marked' = Marked \cup {p}
<1> SUFFICES ASSUME NEW q \in PageNums
             PROVE  Test(q)' <=> Test(q) \/ q = p
  BY DEF Marked
<1>0. /\ p \div 8 \in Bytes /\ p % 8 \in Bits
      /\ 8 * (p \div 8) + (p % 8) = p
      /\ q \div 8 \in Bytes /\ q % 8 \in Bits
      /\ 8 * (q \div 8) + (q % 8) = q
  BY ByteAndBit
<1> DEFINE i == p \div 8
           n == p % 8
           j == q \div 8
           k == q % 8
<1>1. /\ i \in Bytes /\ n \in Bits /\ 8 * i + n = p
      /\ j \in Bytes /\ k \in Bits /\ 8 * j + k = q
  BY <1>0, Zenon
<1>2. bitmap'[j] = IF j = i THEN bitmap[j] \cup {n} ELSE bitmap[j]
  BY <1>1 DEF Taken
<1>3. (Test(q) <=> k \in bitmap[j]) /\ (Test(q)' <=> k \in bitmap'[j])
  BY DEF Test
<1>4. q = p <=> j = i /\ k = n
  BY <1>1
<1> HIDE DEF i, n, j, k
<1> QED
  BY <1>1, <1>2, <1>3, <1>4

(* pmm_clear_bit unmarks one page.                                           *)
LEMMA ReleasedUnmarks ==
    ASSUME bitmap \in [Bytes -> SUBSET Bits], NEW p \in PageNums,
           bitmap' = [bitmap EXCEPT ![p \div 8] = @ \ {p % 8}]
    PROVE  Marked' = Marked \ {p}
<1> SUFFICES ASSUME NEW q \in PageNums
             PROVE  Test(q)' <=> Test(q) /\ q # p
  BY DEF Marked
<1>0. /\ p \div 8 \in Bytes /\ p % 8 \in Bits
      /\ 8 * (p \div 8) + (p % 8) = p
      /\ q \div 8 \in Bytes /\ q % 8 \in Bits
      /\ 8 * (q \div 8) + (q % 8) = q
  BY ByteAndBit
<1> DEFINE i == p \div 8
           n == p % 8
           j == q \div 8
           k == q % 8
<1>1. /\ i \in Bytes /\ n \in Bits /\ 8 * i + n = p
      /\ j \in Bytes /\ k \in Bits /\ 8 * j + k = q
  BY <1>0, Zenon
<1>2. bitmap'[j] = IF j = i THEN bitmap[j] \ {n} ELSE bitmap[j]
  BY <1>1
<1>3. (Test(q) <=> k \in bitmap[j]) /\ (Test(q)' <=> k \in bitmap'[j])
  BY DEF Test
<1>4. q = p <=> j = i /\ k = n
  BY <1>1
<1> HIDE DEF i, n, j, k
<1> QED
  BY <1>1, <1>2, <1>3, <1>4

(* The scan of pmm_alloc_page finds a page that is not in use, if there is   *)
(* one.                                                                      *)
LEMMA ScanFinds ==
    ASSUME bitmap \in [Bytes -> SUBSET Bits]
    PROVE  /\ (\E i \in Bytes : bitmap[i] # Bits) => FirstClear \in Unmarked
           /\ (\A i \in Bytes : bitmap[i] = Bits) => Unmarked = {}
<1>1. ASSUME \E i \in Bytes : bitmap[i] # Bits
      PROVE  FirstClear \in Unmarked
  <2> DEFINE B == {i \in Bytes : bitmap[i] # Bits}
  <2>1. FirstByte \in Bytes /\ bitmap[FirstByte] # Bits
    <3>1. B \in SUBSET Nat /\ B # {}
      BY <1>1, PmmSizes DEF Bytes
    <3>2. Min(B) \in B
      BY <3>1, MinIsLeast
    <3> QED
      BY <3>2 DEF FirstByte
  <2> DEFINE C == Bits \ bitmap[FirstByte]
  <2>2. Min(C) \in C
    <3>1. C \in SUBSET Nat /\ C # {}
      BY <2>1 DEF Bits
    <3> QED
      BY <3>1, MinIsLeast
  <2>3. /\ FirstClear \in PageNums
        /\ FirstClear \div 8 = FirstByte /\ FirstClear % 8 = Min(C)
    BY <2>1, <2>2, BitOfByte DEF FirstClear
  <2> QED
    BY <2>2, <2>3 DEF Unmarked, Marked, Test
<1>2. ASSUME \A i \in Bytes : bitmap[i] = Bits
      PROVE  Unmarked = {}
  BY <1>2, ByteAndBit DEF Unmarked, Marked, Test
<1> QED
  BY <1>1, <1>2

-----------------------------------------------------------------------------
(* The operations on the set of pages in use.                                *)

(* The pages of an entry, the first megabyte and the kernel are pages.       *)
LEMMA PageSets ==
    /\ \A e : PagesOf(e) \subseteq PageNums
    /\ LowMemory \subseteq PageNums /\ KernelPages \subseteq PageNums
<1>1. LowMemory \subseteq PageNums
  BY PmmSizes DEF LowMemory, PageNums, MaxPages
<1> QED
  BY <1>1 DEF PagesOf, KernelPages

(* The bitmap of each byte stays a set of bits.                              *)
LEMMA BitmapTyped ==
    ASSUME bitmap \in [Bytes -> SUBSET Bits], NEW S, NEW p \in PageNums
    PROVE  /\ SetAll(S) \in [Bytes -> SUBSET Bits]
           /\ ClearAll(S) \in [Bytes -> SUBSET Bits]
           /\ Taken(p) \in [Bytes -> SUBSET Bits]
           /\ [bitmap EXCEPT ![p \div 8] = @ \ {p % 8}] \in [Bytes -> SUBSET Bits]
<1>1. p \div 8 \in Bytes /\ p % 8 \in Bits
  BY ByteAndBit
<1>2. SetAll(S) \in [Bytes -> SUBSET Bits]
  BY DEF SetAll
<1>3. ClearAll(S) \in [Bytes -> SUBSET Bits]
  BY DEF ClearAll
<1> QED
  BY <1>1, <1>2, <1>3 DEF Taken

(* The entry that pmm_init looks at is one of a machine's map.               *)
LEMMA EntryOfMap ==
    ASSUME TypeOK
    PROVE  /\ machine.mmap \in Seq([usable : BOOLEAN, addr : Nat, len : Nat])
           /\ Len(machine.mmap) \in Nat /\ entry \in Nat
           /\ entry <= Len(machine.mmap) => entry \in DOMAIN machine.mmap
BY PmmMachines DEF TypeOK

-----------------------------------------------------------------------------
(* Types.                                                                    *)

(* A page counter taken modulo 2^32 is a 32-bit value.                       *)
LEMMA Wraps == ASSUME NEW n \in Int PROVE n % WordMod \in 0 .. WordMod - 1
BY PmmSizes

(* How many pages pmm_init says there are.                                   *)
LEMMA TotalTyped == ASSUME NEW m \in Machines PROVE TotalPages(m) \in 0 .. MaxPages
<1>1. m.lower \in Nat /\ m.upper \in Nat /\ LowPages \in Nat
  BY PmmMachines, PmmSizes
<1>2. m.lower + m.upper + LowPages * PageSize \in Nat
  BY <1>1, PmmSizes
<1>3. (m.lower + m.upper + LowPages * PageSize) \div PageSize \in Nat
  BY <1>2, PmmSizes
<1> QED
  BY <1>3, PagesFinite DEF TotalPages

(* pmm_init starts with typed variables.                                     *)
LEMMA InitTyped == Init => TypeOK
<1> SUFFICES ASSUME Init PROVE TypeOK
  OBVIOUS
<1>1. bitmap \in [Bytes -> SUBSET Bits]
  BY DEF Init
<1>2. used_pages \in 0 .. WordMod - 1
  BY PagesFinite, PmmSizes DEF Init
<1>3. total_pages \in 0 .. MaxPages /\ machine \in Machines
  BY TotalTyped DEF Init
<1> QED
  BY <1>1, <1>2, <1>3, PagesFinite DEF Init, TypeOK

(* pmm_init and the operations keep the types of the module's variables.     *)
THEOREM PmmTyped == Spec => []TypeOK
<1>2. ASSUME TypeOK, [Next]_vars
      PROVE  TypeOK'
  <2> USE <1>2 DEF TypeOK
  <2>1. CASE WalkEntry
    <3>1. bitmap' \in [Bytes -> SUBSET Bits]
      BY <2>1, BitmapTyped, PagesFinite DEF WalkEntry
    <3>2. used_pages' \in 0 .. WordMod - 1
      <4>1. ASSUME NEW e
            PROVE  used_pages - Cardinality(PagesOf(e)) \in Int
        BY PageSets, PagesFinite, FS_Subset, FS_CardinalityType, PmmSizes
      <4> QED
        BY <2>1, <4>1, Wraps DEF WalkEntry
    <3> QED
      BY <2>1, <3>1, <3>2 DEF WalkEntry
  <2>2. CASE WalkEnds
    BY <2>2 DEF WalkEnds
  <2>3. ASSUME NEW S, Reserve(S), S \subseteq PageNums
        PROVE  bitmap' \in [Bytes -> SUBSET Bits] /\ used_pages' \in 0 .. WordMod - 1
    <3>1. used_pages + Counted(S) \in Int
      <4>1. S \ Marked \in SUBSET PageNums
        BY <2>3
      <4>2. Cardinality(S \ Marked) \in Nat
        BY <4>1, PagesFinite, FS_Subset, FS_CardinalityType
      <4> QED
        BY <4>2, PmmSizes DEF Counted
    <3> QED
      BY <2>3, <3>1, Wraps, BitmapTyped, PagesFinite DEF Reserve
  <2>4. CASE ReserveLow
    BY <2>3, <2>4, PageSets DEF ReserveLow, Reserve
  <2>5. CASE ReserveKernel
    BY <2>3, <2>5, PageSets DEF ReserveKernel, Reserve
  <2>6. CASE AllocPage
    <3>1. FirstClear \in PageNums
      BY <2>6, ScanFinds DEF AllocPage, Unmarked
    <3>2. used_pages + 1 \in Int
      BY PmmSizes
    <3> QED
      BY <2>6, <3>1, <3>2, Wraps, BitmapTyped DEF AllocPage
  <2>7. CASE OutOfMemory
    BY <2>7, PagesFinite DEF OutOfMemory
  <2>8. ASSUME NEW p \in PageNums, FreePage(p)
        PROVE  TypeOK'
    <3>1. used_pages - 1 \in Int
      BY PmmSizes
    <3> QED
      BY <2>8, <3>1, Wraps, BitmapTyped DEF FreePage
  <2>9. CASE UNCHANGED vars
    BY <2>9 DEF vars
  <2> QED
    BY <2>1, <2>2, <2>4, <2>5, <2>6, <2>7, <2>8, <2>9 DEF Next
<1> QED
  BY <1>2, InitTyped, PTL DEF Spec

-----------------------------------------------------------------------------
(* What is in use, step by step.                                             *)

\* pmm_init has cleared only pages of the usable entries it has seen
ClearedSeen ==
    pc = "walk" => \A p \in Unmarked :
                      \E i \in DOMAIN machine.mmap :
                         i < entry /\ machine.mmap[i].usable /\ p \in PagesOf(machine.mmap[i])

\* the first megabyte and the kernel are in use from the moment they are reserved
Reserved ==
    /\ pc \in {"kernel", "run"} => LowMemory \subseteq Marked
    /\ pc = "run" => KernelPages \subseteq Marked

\* pages that were handed out are in use, and none of them is reserved
HeldInUse ==
    /\ held \subseteq Marked
    /\ pc # "run" => held = {} /\ answer = NoPage
    /\ held \cap (LowMemory \cup KernelPages) = {}

PmmInv == TypeOK /\ CounterTrue /\ ClearedSeen /\ Reserved /\ HeldInUse

(* The invariant is what ReservedStay says.                                  *)
LEMMA ReservedFollows == Reserved /\ HeldInUse => ReservedStay
<1>1. ReservedPages = LowMemory \cup KernelPages
  BY PageSets, PmmSizes DEF ReservedPages, LowMemory, KernelPages, PageNums, MaxPages
<1> QED
  BY <1>1 DEF Reserved, HeldInUse, ReservedStay, Unmarked

(* Pages in use are finitely many, and fewer than the counter can hold.      *)
LEMMA MarkedFinite ==
    ASSUME NEW S \in SUBSET PageNums
    PROVE  /\ IsFiniteSet(S) /\ Cardinality(S) \in 0 .. MaxPages
           /\ Cardinality(S) % WordMod = Cardinality(S)
<1>1. IsFiniteSet(S) /\ Cardinality(S) \in Nat /\ Cardinality(S) <= MaxPages
  BY PagesFinite, FS_Subset, FS_CardinalityType
<1> QED
  BY <1>1, PagesFinite, PmmSizes

(* The cardinality of a set of pages after some are added or taken away.     *)
LEMMA MoreOrFewer ==
    ASSUME NEW M \in SUBSET PageNums, NEW S \in SUBSET PageNums
    PROVE  /\ Cardinality(M \cup S) = Cardinality(M) + Cardinality(S \ M)
           /\ S \subseteq M => Cardinality(M \ S) = Cardinality(M) - Cardinality(S)
<1>1. ASSUME NEW A \in SUBSET PageNums, NEW B \in SUBSET PageNums, A \cap B = {}
      PROVE  Cardinality(A \cup B) = Cardinality(A) + Cardinality(B)
  <2>1. Cardinality(A \cup B) = Cardinality(A) + Cardinality(B) - Cardinality(A \cap B)
    BY MarkedFinite, FS_Union
  <2> QED
    BY <1>1, <2>1, MarkedFinite, FS_EmptySet
<1>2. M \cup S = M \cup (S \ M) /\ M \cap (S \ M) = {} /\ S \ M \in SUBSET PageNums
  OBVIOUS
<1>3. Cardinality(M \cup S) = Cardinality(M) + Cardinality(S \ M)
  BY <1>1, <1>2
<1>4. ASSUME S \subseteq M
      PROVE  Cardinality(M \ S) = Cardinality(M) - Cardinality(S)
  <2>1. M = (M \ S) \cup S /\ (M \ S) \cap S = {} /\ M \ S \in SUBSET PageNums
    BY <1>4
  <2>2. Cardinality(M) = Cardinality(M \ S) + Cardinality(S)
    BY <1>1, <2>1
  <2> QED
    BY <2>1, <2>2, MarkedFinite
<1> QED
  BY <1>3, <1>4

(* Everything is in use when pmm_init begins.                                *)
LEMMA AllUsed == Init => Marked = PageNums /\ Unmarked = {}
BY ByteAndBit DEF Init, Marked, Unmarked, Test

(* So the invariant holds then.                                              *)
LEMMA PmmStarts == Init => PmmInv
<1> SUFFICES ASSUME Init PROVE PmmInv
  OBVIOUS
<1>1. Marked = PageNums /\ Unmarked = {}
  BY AllUsed
<1>2. CounterTrue
  BY <1>1, PagesFinite DEF Init, CounterTrue
<1>3. ClearedSeen /\ Reserved /\ HeldInUse
  BY <1>1 DEF Init, ClearedSeen, Reserved, HeldInUse
<1>4. TypeOK
  BY InitTyped
<1> QED
  BY <1>2, <1>3, <1>4 DEF PmmInv

(* An entry of the map: with entries that do not overlap its pages were all  *)
(* in use.                                                                   *)
LEMMA WalkKeeps ==
    ASSUME PmmInv, TypeOK', WalkEntry
    PROVE  /\ PmmInv'
           /\ entry \in DOMAIN machine.mmap
           /\ machine.mmap[entry].usable \/ Unmarked' = Unmarked
           /\ Unmarked' \subseteq Unmarked \cup PagesOf(machine.mmap[entry])
<1> DEFINE e == machine.mmap[entry]
<1> USE DEF PmmInv
<1>1. /\ pc = "walk" /\ pc' = "walk" /\ entry \in DOMAIN machine.mmap
      /\ entry \in Nat /\ entry' = entry + 1
      /\ machine' = machine /\ held' = held /\ answer' = answer
  BY EntryOfMap DEF WalkEntry
<1>2. Marked' = IF e.usable THEN Marked \ PagesOf(e) ELSE Marked
  <2>1. CASE e.usable
    BY <2>1, ClearUnmarks, PageSets DEF WalkEntry, TypeOK
  <2>2. CASE ~e.usable
    BY <2>2 DEF WalkEntry, Marked, Test
  <2> QED
    BY <2>1, <2>2
<1>3. Unmarked' = IF e.usable THEN Unmarked \cup PagesOf(e) ELSE Unmarked
  BY <1>2, PageSets DEF Unmarked, Marked
<1>4. ClearedSeen'
  <2> SUFFICES ASSUME NEW p \in Unmarked'
               PROVE  \E i \in DOMAIN machine.mmap :
                         i < entry + 1 /\ machine.mmap[i].usable /\ p \in PagesOf(machine.mmap[i])
    BY <1>1 DEF ClearedSeen
  <2>1. CASE p \in Unmarked
    <3>1. PICK i \in DOMAIN machine.mmap :
              i < entry /\ machine.mmap[i].usable /\ p \in PagesOf(machine.mmap[i])
      BY <1>1, <2>1 DEF ClearedSeen
    <3>2. i \in Nat
      BY EntryOfMap
    <3> QED
      BY <1>1, <3>1, <3>2
  <2>2. CASE e.usable /\ p \in PagesOf(e)
    BY <1>1, <2>2
  <2> QED
    BY <1>3, <2>1, <2>2
<1>5. CounterTrue'
  <2> SUFFICES ASSUME Disjoint(machine.mmap)
               PROVE  used_pages' = Cardinality(Marked')
    BY <1>1 DEF CounterTrue
  <2>1. used_pages = Cardinality(Marked) /\ Marked \in SUBSET PageNums
    BY DEF CounterTrue, Marked
  <2>2. CASE e.usable
    <3>1. PagesOf(e) \subseteq Marked
      <4> SUFFICES ASSUME NEW p \in PagesOf(e), p \notin Marked PROVE FALSE
        OBVIOUS
      <4>1. PICK i \in DOMAIN machine.mmap :
                i < entry /\ machine.mmap[i].usable /\ p \in PagesOf(machine.mmap[i])
        BY <1>1, PageSets DEF ClearedSeen, Unmarked
      <4>2. i # entry
        BY <1>1, <4>1
      <4> QED
        BY <1>1, <2>2, <4>1, <4>2 DEF Disjoint
    <3>2. used_pages - Cardinality(PagesOf(e)) = Cardinality(Marked')
      BY <1>2, <2>1, <2>2, <3>1, MoreOrFewer, PageSets
    <3>3. Marked' \in SUBSET PageNums
      BY <1>2, <2>1
    <3> QED
      BY <2>2, <3>2, <3>3, MarkedFinite DEF WalkEntry
  <2>3. CASE ~e.usable
    BY <1>2, <2>1, <2>3 DEF WalkEntry
  <2> QED
    BY <2>2, <2>3
<1>6. Reserved' /\ HeldInUse'
  BY <1>1 DEF Reserved, HeldInUse
<1> QED
  BY <1>1, <1>3, <1>4, <1>5, <1>6

(* Pages that a reservation marks are counted if they were not in use.       *)
LEMMA ReserveCounts ==
    ASSUME PmmInv, NEW S \in SUBSET PageNums, Reserve(S)
    PROVE  Marked' = Marked \cup S /\ CounterTrue'
<1> USE DEF PmmInv
<1>1. Marked' = Marked \cup S
  BY SetMarks DEF Reserve, TypeOK
<1>2. ASSUME Disjoint(machine.mmap)
      PROVE  used_pages' = Cardinality(Marked')
  <2>1. used_pages = Cardinality(Marked) /\ Marked \in SUBSET PageNums
    BY <1>2 DEF CounterTrue, Marked
  <2>2. used_pages + Counted(S) = Cardinality(Marked')
    BY <1>1, <2>1, MoreOrFewer DEF Counted
  <2>3. Marked' \in SUBSET PageNums
    BY <1>1, <2>1
  <2> QED
    BY <2>2, <2>3, MarkedFinite DEF Reserve
<1> QED
  BY <1>1, <1>2 DEF CounterTrue, Reserve

(* Reserving the first megabyte.                                             *)
LEMMA LowKeeps == ASSUME PmmInv, TypeOK', ReserveLow PROVE PmmInv'
<1>1. Marked' = Marked \cup LowMemory /\ CounterTrue'
  BY ReserveCounts, PageSets DEF ReserveLow
<1> QED
  BY <1>1 DEF PmmInv, ReserveLow, Reserve, ClearedSeen, Reserved, HeldInUse

(* Reserving the kernel.                                                     *)
LEMMA KernelKeeps == ASSUME PmmInv, TypeOK', ReserveKernel PROVE PmmInv'
<1>1. Marked' = Marked \cup KernelPages /\ CounterTrue'
  BY ReserveCounts, PageSets DEF ReserveKernel
<1> QED
  BY <1>1 DEF PmmInv, ReserveKernel, Reserve, ClearedSeen, Reserved, HeldInUse

(* pmm_alloc_page marks a page that was not in use, so neither reserved nor  *)
(* held.                                                                     *)
LEMMA AllocKeeps ==
    ASSUME PmmInv, TypeOK', AllocPage
    PROVE  PmmInv' /\ FirstClear \in Unmarked /\ Marked' = Marked \cup {FirstClear}
<1> USE DEF PmmInv
<1>1. FirstClear \in Unmarked /\ FirstClear \in PageNums
  BY ScanFinds DEF AllocPage, TypeOK, Unmarked
<1>2. Marked' = Marked \cup {FirstClear}
  BY <1>1, TakenMarks DEF AllocPage, TypeOK
<1>3. CounterTrue'
  <2> SUFFICES ASSUME Disjoint(machine.mmap)
               PROVE  used_pages' = Cardinality(Marked')
    BY DEF CounterTrue, AllocPage
  <2>1. used_pages = Cardinality(Marked) /\ Marked \in SUBSET PageNums
    BY DEF CounterTrue, Marked
  <2>2. used_pages + 1 = Cardinality(Marked')
    BY <1>1, <1>2, <2>1, MarkedFinite, FS_AddElement DEF Unmarked
  <2>3. Marked' \in SUBSET PageNums
    BY <1>1, <1>2, <2>1
  <2> QED
    BY <2>2, <2>3, MarkedFinite DEF AllocPage
<1>4. Reserved' /\ HeldInUse' /\ ClearedSeen'
  BY <1>1, <1>2 DEF AllocPage, Reserved, HeldInUse, ClearedSeen, Unmarked
<1> QED
  BY <1>1, <1>2, <1>3, <1>4

(* pmm_free_page on a page that was handed out: its bit is set.              *)
LEMMA FreeKeeps ==
    ASSUME PmmInv, TypeOK', NEW p \in PageNums, FreePage(p)
    PROVE  PmmInv' /\ Marked' = Marked \ {p}
<1> USE DEF PmmInv
<1>1. Test(p) /\ p \in Marked
  BY DEF FreePage, HeldInUse, Marked
<1>2. Marked' = Marked \ {p}
  BY <1>1, ReleasedUnmarks DEF FreePage, TypeOK
<1>3. CounterTrue'
  <2> SUFFICES ASSUME Disjoint(machine.mmap)
               PROVE  used_pages' = Cardinality(Marked')
    BY DEF CounterTrue, FreePage
  <2>1. used_pages = Cardinality(Marked) /\ Marked \in SUBSET PageNums
    BY DEF CounterTrue, Marked
  <2>2. used_pages - 1 = Cardinality(Marked')
    BY <1>1, <1>2, <2>1, MarkedFinite, FS_RemoveElement
  <2>3. Marked' \in SUBSET PageNums
    BY <1>2, <2>1
  <2> QED
    BY <1>1, <2>2, <2>3, MarkedFinite DEF FreePage
<1>4. p \notin LowMemory \cup KernelPages
  BY DEF FreePage, HeldInUse
<1>5. Reserved' /\ HeldInUse' /\ ClearedSeen'
  BY <1>1, <1>2, <1>4 DEF FreePage, Reserved, HeldInUse, ClearedSeen
<1> QED
  BY <1>2, <1>3, <1>5

(* Every step of the module keeps the invariant.                             *)
LEMMA PmmSteps == PmmInv /\ TypeOK' /\ [Next]_vars => PmmInv'
<1> SUFFICES ASSUME PmmInv, TypeOK', [Next]_vars PROVE PmmInv'
  OBVIOUS
<1>1. ASSUME UNCHANGED <<bitmap, used_pages, machine, entry, held>>,
             pc' = pc \/ (pc = "walk" /\ pc' = "low"),
             answer' = answer \/ pc = "run"
      PROVE  PmmInv'
  BY <1>1 DEF PmmInv, CounterTrue, ClearedSeen, Reserved, HeldInUse, Marked, Unmarked, Test
<1>2. CASE WalkEnds
  BY <1>1, <1>2 DEF WalkEnds
<1>3. CASE OutOfMemory
  BY <1>1, <1>3 DEF OutOfMemory
<1>4. CASE UNCHANGED vars
  BY <1>1, <1>4 DEF vars
<1> QED
  BY <1>2, <1>3, <1>4, WalkKeeps, LowKeeps, KernelKeeps, AllocKeeps, FreeKeeps DEF Next

THEOREM PmmAlways == Spec => []PmmInv
BY PmmTyped, PmmStarts, PmmSteps, PTL DEF Spec

(* pmm_get_used_pages counts the pages in use, whatever the size of the      *)
(* bitmap and the memory map, if no two usable entries overlap.              *)
THEOREM CounterRight == Spec => []CounterTrue
<1>1. PmmInv => CounterTrue
  BY DEF PmmInv
<1> QED
  BY <1>1, PmmAlways, PTL

(* pmm_get_free_pages never reports more pages than can be handed out,       *)
(* whatever the sizes of the bitmap and of the machine, if no two usable     *)
(* entries overlap.                                                          *)
THEOREM FreeCountSafe == Spec => []FreeNeverOverstated
<1>1. ASSUME TypeOK, CounterTrue
      PROVE  FreeNeverOverstated
  <2>1. IsFiniteSet(PageNums) /\ Cardinality(PageNums) = MaxPages
    BY PagesFinite
  <2>2. Marked \subseteq PageNums /\ Unmarked = PageNums \ Marked
    BY DEF Marked, Unmarked
  <2>3. IsFiniteSet(Marked) /\ IsFiniteSet(Unmarked)
    BY <2>1, <2>2, FS_Subset
  <2>4. Cardinality(Unmarked) = MaxPages - Cardinality(Marked)
    <3>1. PageNums \cap Marked = Marked
      BY <2>2
    <3> QED
      BY <2>1, <2>2, <3>1, FS_Difference
  <2>5. MaxPages \in Nat /\ Cardinality(Marked) \in Nat /\ Cardinality(Unmarked) \in Nat
    BY <2>1, <2>3, FS_CardinalityType
  <2>6. total_pages \in 0 .. MaxPages
    BY <1>1 DEF TypeOK
  <2>7. SUFFICES ASSUME Disjoint(machine.mmap)
                 PROVE  FreePagesReported <= Cardinality(Unmarked)
    BY DEF FreeNeverOverstated
  <2>8. used_pages = Cardinality(Marked)
    BY <1>1, <2>7 DEF CounterTrue
  <2> QED
    BY <2>4, <2>5, <2>6, <2>8 DEF FreePagesReported
<1> QED
  BY <1>1, PmmTyped, CounterRight, PTL

(* Page 0, the first megabyte and the kernel are never handed out.           *)
THEOREM ReservedSafe == Spec => []ReservedStay
<1>1. PmmInv => ReservedStay
  BY ReservedFollows DEF PmmInv
<1> QED
  BY <1>1, PmmAlways, PTL

-----------------------------------------------------------------------------
(* The bitmap is an allocator.                                               *)

(* Before the end of pmm_init there is nothing to hand out.                  *)
LEMMA AllocatorStarts == Init => Allocator!Init
BY DEF Init, Allocator!Init, Allocator!NoFrame, NoPage

(* Each step is one of the allocator's, or leaves it alone.                  *)
LEMMA AllocatorSteps ==
    PmmInv /\ PmmInv' /\ [Next]_vars => [Allocator!Next]_Allocator!allocator
<1> SUFFICES ASSUME PmmInv, PmmInv', [Next]_vars
             PROVE  [Allocator!Next]_Allocator!allocator
  OBVIOUS
<1> DEFINE F == IF pc = "run" THEN Unmarked ELSE {}
<1>1. ASSUME pc # "run", pc' # "run", UNCHANGED <<held, answer>>
      PROVE  UNCHANGED Allocator!allocator
  BY <1>1 DEF Allocator!allocator
<1>2. CASE WalkEntry \/ WalkEnds \/ ReserveLow
  BY <1>1, <1>2 DEF WalkEntry, WalkEnds, ReserveLow, Reserve
<1>3. CASE ReserveKernel
  <2>1. pc # "run" /\ pc' = "run" /\ UNCHANGED <<held, answer>>
    BY <1>3 DEF ReserveKernel, Reserve
  <2>2. Unmarked' \in SUBSET PageNums
    BY DEF Unmarked, PageNums, MaxPages
  <2> QED
    BY <2>1, <2>2 DEF Allocator!Next, Allocator!Boot
<1>4. CASE AllocPage
  <2>1. /\ pc = "run" /\ pc' = "run" /\ answer' = FirstClear
        /\ held' = held \cup {FirstClear}
    BY <1>4 DEF AllocPage
  <2>2. FirstClear \in Unmarked /\ Marked' = Marked \cup {FirstClear}
    BY <1>4, AllocKeeps DEF PmmInv
  <2>3. Unmarked' = Unmarked \ {FirstClear}
    BY <2>2 DEF Unmarked, PageNums, MaxPages
  <2> QED
    BY <2>1, <2>2, <2>3 DEF Allocator!Next, Allocator!Alloc
<1>5. CASE OutOfMemory
  <2>1. /\ pc = "run" /\ pc' = "run" /\ answer' = NoPage /\ held' = held
        /\ bitmap' = bitmap
    BY <1>5 DEF OutOfMemory
  <2>2. Unmarked = {}
    BY <1>5, ScanFinds DEF OutOfMemory, PmmInv, TypeOK
  <2>3. Unmarked' = Unmarked
    BY <2>1 DEF Unmarked, Marked, Test, PageNums, MaxPages
  <2> QED
    BY <2>1, <2>2, <2>3 DEF Allocator!Next, Allocator!AllocFails, Allocator!NoFrame, NoPage
<1>6. ASSUME NEW p \in PageNums, FreePage(p)
      PROVE  Allocator!Next
  <2>1. /\ pc = "run" /\ pc' = "run" /\ p \in held /\ held' = held \ {p}
        /\ answer' = answer
    BY <1>6 DEF FreePage
  <2>2. Marked' = Marked \ {p}
    BY <1>6, FreeKeeps DEF PmmInv
  <2>3. Unmarked' = Unmarked \cup {p}
    BY <1>6, <2>2 DEF Unmarked, PageNums, MaxPages
  <2> QED
    BY <2>1, <2>3 DEF Allocator!Next, Allocator!Free
<1>7. CASE UNCHANGED vars
  BY <1>7 DEF vars, Allocator!allocator, Unmarked, Marked, Test, PageNums, MaxPages
<1> QED
  BY <1>2, <1>3, <1>4, <1>5, <1>6, <1>7 DEF Next

(* pmm.c implements the allocator the kernel relies on: no page is handed    *)
(* out twice, and allocation fails only when no page is free.                *)
THEOREM AllocatorImplemented == Spec => ImplementsAllocator
BY PmmAlways, AllocatorStarts, AllocatorSteps, PTL
   DEF Spec, ImplementsAllocator, Allocator!Spec

-----------------------------------------------------------------------------
(* What is handed out is memory.                                             *)

(* Rounding down to a multiple of d, as the masks of pmm_init do.            *)
LEMMA RoundDown ==
    ASSUME NEW n \in Nat, NEW d \in Nat \ {0}
    PROVE  n \div d \in Nat /\ (n \div d) * d <= n /\ n < (n \div d) * d + d
<1>1. n % d = n - d * (n \div d)
  OBVIOUS
<1>2. n % d \in 0 .. d - 1 /\ n \div d \in Nat
  OBVIOUS
<1>3. d * (n \div d) = (n \div d) * d
  BY <1>2
<1> QED
  BY <1>1, <1>2, <1>3

(* A multiple of d below another is at least d below it.                     *)
LEMMA WholePage ==
    ASSUME NEW p \in Nat, NEW r \in Nat, NEW d \in Nat \ {0}, p * d < r * d
    PROVE  (p + 1) * d <= r * d
<1>1. p < r
  <2> SUFFICES ASSUME r <= p PROVE FALSE
    OBVIOUS
  <2>1. \E k \in Nat : p = r + k
    <3>1. p - r \in Nat /\ p = r + (p - r)
      OBVIOUS
    <3> QED
      BY <3>1
  <2>2. PICK k \in Nat : p = r + k
    BY <2>1
  <2>3. p * d = r * d + k * d /\ k * d \in Nat
    BY <2>2
  <2> QED
    BY <2>3
<1>2. \E k \in Nat : r = (p + 1) + k
  <2>1. r - (p + 1) \in Nat /\ r = (p + 1) + (r - (p + 1))
    BY <1>1
  <2> QED
    BY <2>1
<1>3. PICK k \in Nat : r = (p + 1) + k
  BY <1>2
<1>4. r * d = (p + 1) * d + k * d /\ k * d \in Nat /\ (p + 1) * d \in Nat
  BY <1>3
<1> QED
  BY <1>4

(* Every page pmm_init clears for an entry lies in it, if the entry ends     *)
(* below 4 GB.                                                               *)
LEMMA PagesInside ==
    ASSUME NEW e \in [usable : BOOLEAN, addr : Nat, len : Nat],
           e.addr + e.len < WordMod - PageSize,
           NEW p \in PagesOf(e)
    PROVE  e.addr <= p * PageSize /\ (p + 1) * PageSize <= e.addr + e.len
<1>1. /\ e.addr \in Nat /\ e.len \in Nat /\ p \in Nat
      /\ PageSize \in Nat \ {0} /\ WordMod \in Nat
  BY PmmSizes, PagesFinite DEF PagesOf
<1> DEFINE up  == e.addr + PageSize - 1
           end == e.addr + e.len
<1>2. /\ up \in Nat /\ up < WordMod /\ end \in Nat /\ end < WordMod
      /\ e.addr < WordMod /\ e.len < WordMod
  BY <1>1
<1>3. ASSUME NEW n \in Nat, n < WordMod PROVE n % WordMod = n
  BY <1>1, <1>3
<1>4. /\ e.addr % WordMod = e.addr /\ e.len % WordMod = e.len
      /\ up % WordMod = up /\ end % WordMod = end
  BY <1>1, <1>2, <1>3
<1>5. (up \div PageSize) * PageSize <= p * PageSize /\ p * PageSize < (end \div PageSize) * PageSize
  BY <1>4 DEF PagesOf
<1>6. up < (up \div PageSize) * PageSize + PageSize /\ up \div PageSize \in Nat
  BY <1>1, <1>2, RoundDown
<1>7. (end \div PageSize) * PageSize <= end /\ end \div PageSize \in Nat
  BY <1>1, <1>2, RoundDown
<1>8. (p + 1) * PageSize <= (end \div PageSize) * PageSize
  BY <1>1, <1>5, <1>7, WholePage
<1>9. e.addr <= p * PageSize
  <2>1. (up \div PageSize) * PageSize \in Nat /\ p * PageSize \in Nat
    BY <1>1, <1>6
  <2>2. up = e.addr + PageSize - 1
    OBVIOUS
  <2> QED
    BY <1>1, <1>5, <1>6, <2>1, <2>2
<1>10. (p + 1) * PageSize <= e.addr + e.len
  <2>1. (end \div PageSize) * PageSize \in Nat /\ (p + 1) * PageSize \in Nat
    BY <1>1, <1>7
  <2> QED
    BY <1>1, <1>7, <1>8, <2>1
<1> QED
  BY <1>9, <1>10

\* pages that are free or held were cleared for a usable entry
FromMap == \A p \in Unmarked \cup held :
              \E i \in DOMAIN machine.mmap :
                 machine.mmap[i].usable /\ p \in PagesOf(machine.mmap[i])

(* A page becomes free only in pmm_init, for an entry, or when freed.        *)
LEMMA FromMapKept == PmmInv /\ FromMap /\ TypeOK' /\ [Next]_vars => FromMap'
<1> SUFFICES ASSUME PmmInv, FromMap, TypeOK', [Next]_vars PROVE FromMap'
  OBVIOUS
<1>1. ASSUME Unmarked' \cup held' \subseteq Unmarked \cup held, machine' = machine
      PROVE  FromMap'
  BY <1>1 DEF FromMap
<1>2. CASE WalkEntry
  BY <1>2, WalkKeeps DEF FromMap, WalkEntry
<1>3. CASE WalkEnds \/ OutOfMemory \/ UNCHANGED vars
  BY <1>1, <1>3 DEF WalkEnds, OutOfMemory, vars, Unmarked, Marked, Test
<1>4. CASE ReserveLow
  <2>1. Marked' = Marked \cup LowMemory /\ UNCHANGED <<machine, held>>
    BY <1>4, ReserveCounts, PageSets DEF ReserveLow, Reserve
  <2> QED
    BY <1>1, <2>1 DEF Unmarked
<1>5. CASE ReserveKernel
  <2>1. Marked' = Marked \cup KernelPages /\ UNCHANGED <<machine, held>>
    BY <1>5, ReserveCounts, PageSets DEF ReserveKernel, Reserve
  <2> QED
    BY <1>1, <2>1 DEF Unmarked
<1>6. CASE AllocPage
  <2>1. /\ FirstClear \in Unmarked /\ Marked' = Marked \cup {FirstClear}
        /\ held' = held \cup {FirstClear} /\ machine' = machine
    BY <1>6, AllocKeeps DEF AllocPage
  <2> QED
    BY <1>1, <2>1 DEF Unmarked
<1>7. ASSUME NEW p \in PageNums, FreePage(p)
      PROVE  FromMap'
  <2>1. /\ p \in held /\ Marked' = Marked \ {p} /\ held' = held \ {p} /\ machine' = machine
    BY <1>7, FreeKeeps DEF FreePage
  <2> QED
    BY <1>1, <2>1 DEF Unmarked
<1> QED
  BY <1>2, <1>3, <1>4, <1>5, <1>6, <1>7 DEF Next

(* On a machine whose map lies below 4 GB, what pmm_alloc_page hands out is  *)
(* usable memory, whatever the alignment of the entries.                     *)
THEOREM OnlyMemory == Spec => []RamOnly
<1>1. Init => FromMap
  BY AllUsed DEF Init, FromMap
<1>2. TypeOK /\ FromMap => RamOnly
  <2> SUFFICES ASSUME TypeOK, FromMap, Below4G, NEW p \in Unmarked \cup held
               PROVE  InRam(p)
    BY DEF RamOnly
  <2>1. PICK i \in DOMAIN machine.mmap :
            machine.mmap[i].usable /\ p \in PagesOf(machine.mmap[i])
    BY DEF FromMap
  <2>2. machine.mmap[i] \in [usable : BOOLEAN, addr : Nat, len : Nat]
    <3> DEFINE E == [usable : BOOLEAN, addr : Nat, len : Nat]
    <3>1. machine.mmap \in Seq(E) /\ i \in DOMAIN machine.mmap
      BY EntryOfMap
    <3> HIDE DEF E
    <3>2. machine.mmap[i] \in E
      BY <3>1
    <3> QED
      BY <3>2 DEF E
  <2>3. machine.mmap[i].addr + machine.mmap[i].len < WordMod - PageSize
    BY DEF Below4G
  <2> QED
    BY <2>1, <2>2, <2>3, PagesInside DEF InRam
<1> QED
  BY <1>1, <1>2, PmmAlways, PmmTyped, FromMapKept, PTL DEF Spec
=============================================================================
