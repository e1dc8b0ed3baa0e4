------------------------------- MODULE MCPmm -------------------------------
(* Machines for the model checker: 16 pages of 2 units, the first megabyte   *)
(* being two pages and a 32-bit address 64 values.                           *)
EXTENDS Pmm

Ram(a, n)  == [usable |-> TRUE,  addr |-> a, len |-> n]
Hole(a, n) == [usable |-> FALSE, addr |-> a, len |-> n]

\* memory up to the last page the bitmap has; half of it; a hole; entries
\* that begin and end inside a page; two that overlap; no map
Full      == [lower |-> 3, upper |-> 28, mmap |-> <<Ram(0, 3), Hole(3, 1), Ram(4, 28)>>]
Half      == [lower |-> 3, upper |-> 12, mmap |-> <<Ram(0, 3), Ram(4, 12)>>]
Holed     == [lower |-> 3, upper |-> 6,  mmap |-> <<Ram(0, 3), Ram(4, 6), Hole(10, 5), Ram(15, 17)>>]
Unaligned == [lower |-> 3, upper |-> 9,  mmap |-> <<Ram(0, 3), Ram(5, 4), Ram(9, 11)>>]
Overlap   == [lower |-> 3, upper |-> 16, mmap |-> <<Ram(4, 12), Ram(8, 12)>>]
NoMap     == [lower |-> 3, upper |-> 28, mmap |-> <<>>]

\* entries above 4 GB, whose truncated addresses name the memory and the
\* hole below
Large     == [lower |-> 3, upper |-> 6,
              mmap |-> <<Ram(0, 3), Ram(4, 6), Hole(10, 4), Ram(14, 18), Ram(64, 24)>>]

Boots     == {Full, Half, Holed, Unaligned, Overlap, NoMap, Large}
=============================================================================
