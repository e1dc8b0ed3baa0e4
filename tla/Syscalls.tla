------------------------------ MODULE Syscalls ------------------------------
(***************************************************************************)
(* The system calls of syscall.c over the filesystem, the shell's commands  *)
(* that call the filesystem directly, and the shell's syscall command,      *)
(* which makes the calls one after the other and prints PASS or FAIL for    *)
(* each.  All of them run in the shell's thread.  The calls that do not     *)
(* touch the filesystem only appear with the answer they give.              *)
(***************************************************************************)
EXTENDS Fs

CONSTANTS
    TestDir, TestFile,   \* "t1" and "sctest"
    TestBytes,           \* how many bytes the command writes and reads back
    TestFlags            \* O_CREAT|O_RDWR

ASSUME TestAssumption ==
    /\ TestDir \in Names /\ TestFile \in Names
    /\ TestBytes \in Counts /\ TestBytes < MaxData
    /\ TestFlags \in OpenFlags /\ 0 \in Seeks
    /\ TestFlags = [mode |-> "RDWR", creat |-> TRUE, trunc |-> FALSE, append |-> FALSE]

VARIABLES
    handed,       \* history: descriptors that sys_open returned and sys_close has not taken back
    test,         \* position in cmd_syscall_demo, 0 outside
    fd,           \* its local: what sys_open returned
    passed,       \* no FAIL so far
    before        \* history: the files and descriptors when it began

testing == <<test, fd, passed, before>>
allvars == <<vars, handed, testing>>

(* Faulty variants; they model no code.                                      *)
AfterFirst(d)   == d > 3
Bare(f)         == f

\* descriptors 0, 1 and 2 are the console
FirstFile == 3
IsFile(d) == d >= FirstFile
Slot(d)   == d - FirstFile
DescriptorOf(f) == f + FirstFile

\* a NULL pointer, a console descriptor where a file's is needed, a stub
\* (fork, execve, waitpid), kill of pid 0 or 1: an error and nothing else
Refused == Answer("error") /\ UNCHANGED handed

sys_open(n, flags) ==
    /\ Open(n, flags)
    /\ handed' = IF answer' = "ok" THEN handed \cup {DescriptorOf(FreeFd)} ELSE handed

sys_close(d) ==
    IF ~IsFile(d) THEN Refused
    ELSE /\ Close(Slot(d))
         /\ handed' = IF answer' = "ok" THEN handed \ {d} ELSE handed

\* STDIN reads the keyboard, STDOUT and STDERR print
sys_read(d, n) ==
    IF IsFile(d) THEN ReadFd(Slot(d), n) /\ UNCHANGED handed
    ELSE IF d = 0 THEN UNCHANGED <<vars, handed>> ELSE Refused

sys_write(d, n) ==
    IF IsFile(d) THEN WriteFd(Slot(d), n) /\ UNCHANGED handed
    ELSE IF d \in {1, 2} THEN UNCHANGED <<vars, handed>> ELSE Refused

sys_lseek(d, by, whence) ==
    IF ~IsFile(d) THEN Refused ELSE Lseek(Slot(d), by, whence) /\ UNCHANGED handed

sys_mkdir(n)  == Make(n, "DIR") /\ UNCHANGED handed
sys_rmdir(n)  == Rmdir(n) /\ UNCHANGED handed
sys_unlink(n) == Unlink(n) /\ UNCHANGED handed
sys_chdir(n)  == Cd(n) /\ UNCHANGED handed

\* the console's last, the files', and one too high
AnyDescriptor == FirstFile - 1 .. NFds + FirstFile

syscall_handler ==
    \/ Refused
    \/ \E n \in Names \cup {Empty} :
          \/ sys_mkdir(n) \/ sys_rmdir(n) \/ sys_unlink(n)
          \/ \E flags \in OpenFlags : sys_open(n, flags)
    \/ \E n \in Names \cup {DotDot, Slash, Empty} : sys_chdir(n)
    \/ \E d \in AnyDescriptor :
          \/ sys_close(d)
          \/ \E n \in Counts : sys_read(d, n) \/ sys_write(d, n)
          \/ \E by \in Seeks, whence \in {"SET", "CUR", "END"} : sys_lseek(d, by, whence)

\* touch, edit and note; write, edit and note; rm.  The mkdir and cd commands
\* call what sys_mkdir and sys_chdir call.
Commands ==
    /\ \E n \in Names \cup {Empty} :
          Make(n, "FILE") \/ (\E len \in Counts : WriteFile(n, len)) \/ Delete(n)
    /\ UNCHANGED handed

-----------------------------------------------------------------------------
(* The syscall command.                                                     *)

\* it needs both names, a node and a descriptor
Prepared == /\ FindNode(TestDir) = None /\ FindNode(TestFile) = None
            /\ FreeNode # None /\ FreeFd # None

\* slots not in use differ in their stale sizes only
Kept == <<[i \in Nodes |-> IF nodes[i].used THEN nodes[i] ELSE Unused(0)], fds>>

TestStart ==
    /\ test = 0 /\ Prepared
    /\ test' = 1 /\ passed' = TRUE /\ before' = Kept
    /\ UNCHANGED <<vars, handed, fd>>

\* the check after a call: its own condition, and what r or fd tells
Passes(cond) == passed' = (passed /\ cond) /\ test' = test + 1 /\ UNCHANGED before

\* bytes that the next read through descriptor d returns when it asks for n
Returned(d, n) ==
    LET f == fds[Slot(d)]
    IN  IF f.offset >= nodes[f.node].size THEN 0 ELSE Least(n, nodes[f.node].size - f.offset)

TestCall ==
    \/ test = 1 /\ sys_mkdir(TestDir) /\ Passes(answer' = "ok") /\ UNCHANGED fd
    \/ test = 2 /\ sys_rmdir(TestDir) /\ Passes(answer' = "ok") /\ UNCHANGED fd
    \/ /\ test = 3 /\ sys_open(TestFile, TestFlags)
       /\ fd' = IF answer' = "ok" THEN DescriptorOf(FreeFd) ELSE None
       /\ Passes(fd' >= FirstFile)
    \/ /\ test = 4 /\ sys_write(fd, TestBytes)
       /\ Passes(answer' = "ok" /\ fds'[Slot(fd)].offset = fds[Slot(fd)].offset + TestBytes)
       /\ UNCHANGED fd
    \/ /\ test = 5 /\ sys_lseek(fd, 0, "SET")
       /\ Passes(answer' = "ok" /\ fds'[Slot(fd)].offset = 0) /\ UNCHANGED fd
    \/ /\ test = 6 /\ sys_read(fd, TestBytes)
       /\ Passes(answer' = "ok" /\ Returned(fd, TestBytes) = TestBytes) /\ UNCHANGED fd
    \/ test = 7 /\ sys_close(fd) /\ Passes(answer' = "ok") /\ fd' = None
    \/ /\ test = 8 /\ UNCHANGED <<vars, handed, fd>>          \* sys_stat
       /\ Passes(FindNode(TestFile) # None /\ nodes[FindNode(TestFile)].size = TestBytes)
    \/ test = 9 /\ sys_unlink(TestFile) /\ Passes(answer' = "ok") /\ UNCHANGED fd

TestsDone == 10

TestEnd ==
    /\ test = TestsDone
    /\ test' = 0 /\ passed' = TRUE /\ before' = <<>>
    /\ UNCHANGED <<vars, handed, fd>>

-----------------------------------------------------------------------------

SysInit == Init /\ handed = {} /\ test = 0 /\ fd = None /\ passed = TRUE /\ before = <<>>

SysNext ==
    \/ test = 0 /\ (syscall_handler \/ Commands) /\ UNCHANGED testing
    \/ TestStart \/ TestCall \/ TestEnd

SysSpec == SysInit /\ [][SysNext]_allvars

-----------------------------------------------------------------------------
(* Properties.                                                              *)

(* The descriptors that sys_open handed out and sys_close has not taken back    *)
(* are the slots in use of fs_fd_table, each three higher, so that no file      *)
(* descriptor is ever a console's and none is lost or closed for another        *)
(* (syscall.c:58, 64).                                                          *)
DescriptorsShifted == handed = {f + FirstFile : f \in {g \in Fds : fds[g].used}}

(* From every state of the filesystem in which its two names, a node and a      *)
(* descriptor are free, the syscall command prints no FAIL, and it leaves the   *)
(* files and descriptors that it found (shell.c:384).                           *)
TestsPass == passed /\ (test = TestsDone => before = Kept)
=============================================================================
