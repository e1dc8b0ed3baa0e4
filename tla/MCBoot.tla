------------------------------- MODULE MCBoot -------------------------------
(* Boot for TLC: the timer, the keyboard, and a line of the slave whose device *)
(* may lower it again; two tasks; a log of three entries.                      *)
EXTENDS Boot

AllMessages == {BootOrder[i] : i \in 1 .. Len(BootOrder)}
               \cup {"process spawned", "process terminated"}
=============================================================================
