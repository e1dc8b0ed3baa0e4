----------------------------- MODULE LastEntries -----------------------------
(* What the kernel log promises its reader, and the shell its history: the    *)
(* last entries, oldest first, whatever came before them.                     *)
EXTENDS Integers, Sequences

CONSTANTS Entry, Capacity

VARIABLE kept

Init == kept = <<>>

Added(e) ==
    kept' = LET all == Append(kept, e)
            IN  IF Len(all) > Capacity THEN Tail(all) ELSE all

Emptied == kept' = <<>>

Next == Emptied \/ \E e \in Entry : Added(e)

Spec == Init /\ [][Next]_kept
=============================================================================
