-------------------------------- MODULE Klog --------------------------------
(***************************************************************************)
(* The kernel log, klog.c: a ring of entries that are overwritten once it   *)
(* is full.  The boot code and the shell's thread log, one after the other, *)
(* and no interrupt handler does, so that a call is one step.               *)
(***************************************************************************)
EXTENDS Integers, Sequences

CONSTANTS
    KLOG_MAX_ENTRIES,
    Messages,
    NoMessage        \* of an entry that memset cleared

ASSUME KlogSize == KLOG_MAX_ENTRIES \in Nat \ {0}
ASSUME KlogMessages == NoMessage \notin Messages

VARIABLES klog_buf, klog_head,
          klog_total   \* capped at KLOG_MAX_ENTRIES, above which all values act alike

log == <<klog_buf, klog_head, klog_total>>

Entries == 0 .. KLOG_MAX_ENTRIES - 1

\* faulty: the position after the last entry is not wrapped with it
NotWrapped(i) == i + 1
FromHead      == klog_head

Wrapped(i) == i % KLOG_MAX_ENTRIES

KlogInit ==
    /\ klog_buf = [i \in Entries |-> NoMessage] /\ klog_head = 0 /\ klog_total = 0

klog_init ==
    /\ klog_buf' = [i \in Entries |-> NoMessage] /\ klog_head' = 0 /\ klog_total' = 0

klog(m) ==
    /\ klog_buf' = [klog_buf EXCEPT ![klog_head] = m]
    /\ klog_head' = Wrapped(klog_head + 1)
    /\ klog_total' = IF klog_total < KLOG_MAX_ENTRIES THEN klog_total + 1 ELSE klog_total

klog_count == IF klog_total < KLOG_MAX_ENTRIES THEN klog_total ELSE KLOG_MAX_ENTRIES

\* where klog_print starts
Start == IF klog_total < KLOG_MAX_ENTRIES THEN 0 ELSE klog_head

\* the messages of klog_print, in its order
klog_print == [i \in 1 .. klog_count |-> klog_buf[Wrapped(Start + i - 1)]]

Dmesg == INSTANCE LastEntries
             WITH kept <- klog_print, Entry <- Messages, Capacity <- KLOG_MAX_ENTRIES
=============================================================================
