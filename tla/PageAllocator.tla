---------------------------- MODULE PageAllocator ----------------------------
(* What the kernel relies on of the physical memory manager: until it is     *)
(* booted it has no free page; then alloc hands out some free page, or fails *)
(* only when there is none, and free takes back a page that was handed out.  *)
EXTENDS Naturals

CONSTANT Frames   \* the pages there can be

NoFrame == 0      \* what a failed allocation returns

VARIABLES
    booted,       \* whether the free pages have been found
    free,         \* pages that can be handed out
    held,         \* pages their owners have not given back
    answer        \* the page the last allocation returned

allocator == <<booted, free, held, answer>>

Init == booted = FALSE /\ free = {} /\ held = {} /\ answer = NoFrame

Boot == /\ ~booted /\ booted' = TRUE
        /\ free' \in SUBSET Frames
        /\ UNCHANGED <<held, answer>>

Alloc == /\ booted /\ UNCHANGED booted
         /\ \E p \in free :
            /\ free'   = free \ {p}
            /\ held'   = held \cup {p}
            /\ answer' = p

AllocFails == booted /\ free = {} /\ answer' = NoFrame /\ UNCHANGED <<booted, free, held>>

Free == /\ booted /\ UNCHANGED booted
        /\ \E p \in held :
            /\ free' = free \cup {p}
            /\ held' = held \ {p}
            /\ UNCHANGED answer

Next == Boot \/ Alloc \/ AllocFails \/ Free

Spec == Init /\ [][Next]_allocator
=============================================================================
