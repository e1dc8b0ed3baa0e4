---------------------------------- MODULE Fs ----------------------------------
(***************************************************************************)
(* The RAM filesystem, fs.c: a table of nodes, files and directories,      *)
(* that name their parent by index, and a table of descriptors that name a *)
(* file by index.  One thread, the shell's, calls it, so that a call is a   *)
(* step; the calls come in any order.                                      *)
(***************************************************************************)
EXTENDS Integers, Sequences, FiniteSets, FiniteSetsExt

CONSTANTS
    NNodes,      \* FS_MAX_FILES
    NFds,        \* FS_MAX_FDS
    MaxData,     \* FS_MAX_DATA
    OpenFlags,   \* flags that open is given: mode, O_CREAT, O_TRUNC, O_APPEND
    Counts,      \* numbers of bytes that a caller reads or writes
    Seeks,       \* distances that a caller seeks
    Names,       \* names that callers pass; ".." and "/" may be among them
    DotDot,      \* ".."
    Slash,       \* "/"
    Empty,       \* the empty name; it stands for names too long as well
    InitDirs,    \* the directories and then the files fs_init makes
    InitFiles

ASSUME FsSizes ==
    /\ NNodes \in Nat \ {0} /\ NFds \in Nat \ {0} /\ MaxData \in Nat /\ MaxData > 1
    /\ Counts \subseteq Nat /\ Seeks \subseteq Int
ASSUME FsFlags == OpenFlags \subseteq [mode : {"RDONLY", "WRONLY", "RDWR"}, creat : BOOLEAN,
                                        trunc : BOOLEAN, append : BOOLEAN]
ASSUME FsNames == Empty \notin Names \cup {DotDot, Slash}
ASSUME FsInit ==
    /\ InitDirs \in Seq(Names) /\ InitFiles \in Seq(Names)
    /\ Len(InitDirs) + Len(InitFiles) < NNodes
    /\ \A i, j \in 1 .. Len(InitDirs \o InitFiles) :
          i # j => (InitDirs \o InitFiles)[i] # (InitDirs \o InitFiles)[j]

Nodes   == 0 .. NNodes - 1
Fds     == 0 .. NFds - 1
Root    == 0
None    == -1                     \* no node, and the parent of "/"
Offsets == 0 .. MaxData - 1       \* indices of the data of a node

\* fs_node_t without data and created_tick, which nothing decides on, and fs_fd_t
NodeType == [used : BOOLEAN, type : {"none", "FILE", "DIR"}, name : Names \cup {Slash, Empty},
             parent : Nodes \cup {None}, size : Offsets]
FdType   == [used : BOOLEAN, node : Nodes \cup {None}, offset : Offsets,
             mode : {"RDONLY", "WRONLY", "RDWR"}, append : BOOLEAN]

VARIABLES
    nodes,         \* fs_nodes
    fds,           \* fs_fd_table
    current_dir,
    answer         \* of the last call: "ok", "EMFILE", or "error" for another errno

vars == <<nodes, fds, current_dir, answer>>

Live == {i \in Nodes : nodes[i].used}

-----------------------------------------------------------------------------
(* Faulty variants of the operators below; they model no code.              *)
NoChildren(i) == {}
RoomPast(o)   == MaxData - o
FindInRoot(n) ==
    LET found == {i \in Live : nodes[i].name = n /\ nodes[i].parent = Root}
    IN  IF found = {} THEN None ELSE Min(found)

\* find_node, find_free_node, find_free_fd
FindNode(n) ==
    LET found == {i \in Live : nodes[i].name = n /\ nodes[i].parent = current_dir}
    IN  IF found = {} THEN None ELSE Min(found)

FreeNode == LET free == Nodes \ (Live \cup {Root})
            IN  IF free = {} THEN None ELSE Min(free)

FreeFd == LET free == {f \in Fds : ~fds[f].used}
          IN  IF free = {} THEN None ELSE Min(free)

\* what is in directory i
Children(i) == {j \in Live : nodes[j].parent = i}

\* how many bytes fit after offset o
Room(o) == MaxData - 1 - o

Least(a, b) == IF a < b THEN a ELSE b

-----------------------------------------------------------------------------
\* a node as fs_mkdir and fs_create_file fill it in
Fresh(t, n, dir) == [used |-> TRUE, type |-> t, name |-> n, parent |-> dir, size |-> 0]

\* A slot that is not in use keeps its size, which a descriptor may still read;
\* every reader of the other fields tests in_use first.
Unused(size) == [used |-> FALSE, type |-> "none", name |-> Empty, parent |-> None, size |-> size]
Closed == [used |-> FALSE, node |-> None, offset |-> 0, mode |-> "RDONLY", append |-> FALSE]

\* fs_init: the root, the directories, and the files, which it writes to
Init ==
    LET names == InitDirs \o InitFiles
    IN  /\ nodes = [i \in Nodes |->
              IF i = Root THEN Fresh("DIR", Slash, None)
              ELSE IF i <= Len(InitDirs) THEN Fresh("DIR", names[i], Root)
              ELSE IF i <= Len(names) THEN [Fresh("FILE", names[i], Root) EXCEPT !.size = 1]
              ELSE Unused(0)]
        /\ fds = [f \in Fds |-> Closed]
        /\ current_dir = Root
        /\ answer = "ok"

Answer(a) == answer' = a /\ UNCHANGED <<nodes, fds, current_dir>>

\* fs_mkdir with t = "DIR", fs_create_file with t = "FILE"
CanMake(n) == n \in Names /\ FindNode(n) = None /\ FreeNode # None

Made(n, t) == [nodes EXCEPT ![FreeNode] = Fresh(t, n, current_dir)]

Make(n, t) ==
    IF CanMake(n)
    THEN nodes' = Made(n, t) /\ answer' = "ok" /\ UNCHANGED <<fds, current_dir>>
    ELSE Answer("error")

\* fs_write_file: len bytes, cut to what fits, replace the content
WriteFile(n, len) ==
    LET i == FindNode(n)
    IN  IF i # None /\ nodes[i].type = "FILE"
        THEN /\ nodes' = [nodes EXCEPT ![i].size = Least(len, Room(0))]
             /\ answer' = "ok"
             /\ UNCHANGED <<fds, current_dir>>
        ELSE Answer("error")

\* fs_delete, fs_unlink and fs_rmdir take different types of node
Remove(n, types) ==
    LET i == FindNode(n)
    IN  IF /\ i \notin {None, Root}
           /\ nodes[i].type \in types
           /\ nodes[i].type = "DIR" => Children(i) = {}
        THEN /\ nodes' = [nodes EXCEPT ![i] = Unused(@.size)]
             /\ answer' = "ok"
             /\ UNCHANGED <<fds, current_dir>>
        ELSE Answer("error")

Delete(n) == Remove(n, {"FILE", "DIR"})
Unlink(n) == Remove(n, {"FILE"})
Rmdir(n)  == Remove(n, {"DIR"})

\* fs_cd
Parent == nodes[current_dir].parent

Enter(i) == current_dir' = i /\ answer' = "ok" /\ UNCHANGED <<nodes, fds>>

\* faulty: current_dir is set before the type is checked
CdThenCheck(n) ==
    LET i == FindNode(n)
    IN  IF n \in {DotDot, Slash} \/ i = None THEN Answer("ok")
        ELSE /\ current_dir' = i
             /\ answer' = IF nodes[i].type = "DIR" THEN "ok" ELSE "error"
             /\ UNCHANGED <<nodes, fds>>

Cd(n) ==
    IF n = DotDot THEN Enter(IF Parent >= 0 THEN Parent ELSE current_dir)
    ELSE IF n = Slash THEN Enter(Root)
    ELSE IF FindNode(n) # None /\ nodes[FindNode(n)].type = "DIR" THEN Enter(FindNode(n))
    ELSE Answer("error")

-----------------------------------------------------------------------------
(* The descriptors.                                                         *)

\* fs_open: the file is made and truncated before a descriptor is looked for
Truncated(table, i) == [table EXCEPT ![i].size = 0]

Open(n, flags) ==
    LET makes == FindNode(n) = None /\ flags.creat /\ CanMake(n)
        i     == IF makes THEN FreeNode ELSE FindNode(n)
        made  == IF makes THEN Made(n, "FILE") ELSE nodes
        final == IF flags.trunc THEN Truncated(made, i) ELSE made
    IN  IF i = None \/ made[i].type # "FILE" THEN Answer("error")
        ELSE /\ nodes' = final
             /\ IF FreeFd = None
                THEN answer' = "EMFILE" /\ UNCHANGED fds
                ELSE /\ fds' = [fds EXCEPT ![FreeFd] =
                            [used |-> TRUE, node |-> i,
                             mode |-> flags.mode, append |-> flags.append,
                             offset |-> IF flags.append THEN final[i].size ELSE 0]]
                     /\ answer' = "ok"
             /\ UNCHANGED current_dir

Opened(f) == f \in Fds /\ fds[f].used

Close(f) ==
    IF Opened(f)
    THEN /\ fds' = [fds EXCEPT ![f] = Closed]
         /\ answer' = "ok"
         /\ UNCHANGED <<nodes, current_dir>>
    ELSE Answer("error")

\* fs_read_fd: n bytes, or what the file has left, are read
ReadFd(f, n) ==
    IF ~Opened(f) \/ fds[f].mode = "WRONLY" THEN Answer("error")
    ELSE LET size == nodes[fds[f].node].size
             from == fds[f].offset
         IN  /\ fds' = [fds EXCEPT ![f].offset =
                          IF from >= size THEN from ELSE from + Least(n, size - from)]
             /\ answer' = "ok"
             /\ UNCHANGED <<nodes, current_dir>>

\* fs_write_fd: n bytes, or what fits, are written, and the file grows if the
\* offset passes its end
WriteFd(f, n) ==
    IF ~Opened(f) \/ fds[f].mode = "RDONLY" THEN Answer("error")
    ELSE LET i    == fds[f].node
             from == IF fds[f].append THEN nodes[i].size ELSE fds[f].offset
             to   == from + Least(n, Room(from))
             size == IF to > nodes[i].size THEN to ELSE nodes[i].size
         IN  IF from >= MaxData - 1
             THEN /\ fds' = [fds EXCEPT ![f].offset = from]
                  /\ answer' = "error"
                  /\ UNCHANGED <<nodes, current_dir>>
             ELSE /\ nodes' = [nodes EXCEPT ![i].size = size]
                  /\ fds' = [fds EXCEPT ![f].offset = to]
                  /\ answer' = "ok"
                  /\ UNCHANGED current_dir

\* fs_lseek: whence is SEEK_SET, SEEK_CUR or SEEK_END
Lseek(f, by, whence) ==
    IF ~Opened(f) THEN Answer("error")
    ELSE LET to == by + CASE whence = "SET" -> 0
                          [] whence = "CUR" -> fds[f].offset
                          [] whence = "END" -> nodes[fds[f].node].size
         IN  IF to < 0 \/ to > MaxData - 1 THEN Answer("error")
             ELSE /\ fds' = [fds EXCEPT ![f].offset = to]
                  /\ answer' = "ok"
                  /\ UNCHANGED <<nodes, current_dir>>

AnyFd == 0 .. NFds     \* NFds stands for every number that is no descriptor

Next ==
    \/ \E n \in Names \cup {Empty} :
          \/ Make(n, "DIR") \/ Make(n, "FILE")
          \/ \E len \in Counts : WriteFile(n, len)
          \/ Delete(n) \/ Unlink(n) \/ Rmdir(n)
          \/ \E flags \in OpenFlags : Open(n, flags)
    \/ \E n \in Names \cup {DotDot, Slash, Empty} : Cd(n)
    \/ \E f \in AnyFd :
          \/ Close(f)
          \/ \E n \in Counts : ReadFd(f, n)
          \/ \E n \in Counts : WriteFd(f, n)
          \/ \E by \in Seeks, whence \in {"SET", "CUR", "END"} :
                Lseek(f, by, whence)

Spec == Init /\ [][Next]_vars

-----------------------------------------------------------------------------
(* The tables keep their types: no size and no offset leaves data, so that   *)
(* no write and no terminating NUL does.                                     *)
TypeOK ==
    /\ nodes \in [Nodes -> NodeType] /\ fds \in [Fds -> FdType]
    /\ \A f \in Fds : fds[f].used => fds[f].node # None
    /\ current_dir \in Nodes
    /\ answer \in {"ok", "EMFILE", "error"}

(* fs_delete, fs_rmdir and fs_cd: every node in use is in a directory that    *)
(* is in use, and no set of them is cut off from "/", so that cd .. leads     *)
(* there from everywhere.                                                     *)
Tree ==
    /\ Root \in Live /\ nodes[Root].type = "DIR" /\ nodes[Root].parent = None
    /\ current_dir \in Live /\ nodes[current_dir].type = "DIR"
    /\ \A i \in Live \ {Root} :
          nodes[i].parent \in Live /\ nodes[nodes[i].parent].type = "DIR"
    /\ \A S \in SUBSET (Live \ {Root}) :
          S # {} => \E i \in S : nodes[i].parent \notin S

(* find_node before every creation: a directory holds a name once, so that   *)
(* the first match is the only one.                                          *)
NamesUnique ==
    \A i, j \in Live : nodes[i].parent = nodes[j].parent /\ nodes[i].name = nodes[j].name
                          => i = j

(* A call that returns an error has changed no file and no directory, except *)
(* an open that finds no free descriptor.                                    *)
FailureChangesNothing ==
    [][answer' # "error"]_<<nodes, current_dir>>

(* README.md:87: the interface is POSIX-style, in which an open descriptor   *)
(* names the file it was opened for.                                         *)
DescriptorsNameFiles ==
    \A f \in Fds : fds[f].used => fds[f].node \in Live /\ nodes[fds[f].node].type = "FILE"
=============================================================================
