----------------------------- MODULE MCSyscalls -----------------------------
(* Syscalls over a directory under the root and room for two more nodes.      *)
EXTENDS Syscalls, MCFs

MCTestFlags == Flags("RDWR", TRUE, FALSE, FALSE)

\* to read, to truncate and append, and the test's
SysFlags == {Flags("RDONLY", FALSE, FALSE, FALSE), Flags("WRONLY", TRUE, TRUE, TRUE),
             MCTestFlags}

\* back, and to the last byte or past the end
SysSeeks == {-1, 0, 2}
=============================================================================
