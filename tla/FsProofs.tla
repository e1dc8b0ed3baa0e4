------------------------------- MODULE FsProofs -------------------------------
(* The filesystem's tables stay typed, its directories stay a tree with a    *)
(* name once in each, and a call that fails leaves them alone, for tables of *)
(* every size and calls in every order; and the system calls are calls of it, *)
(* so that the same holds of them.                                           *)
EXTENDS Syscalls, LeastElement

-----------------------------------------------------------------------------
(* What the three searches find.                                             *)

(* A search returns the index of what it looks for, or -1 if there is none.  *)
LEMMA SearchFinds ==
    ASSUME NEW S \in SUBSET Nat, NEW r, r = IF S = {} THEN None ELSE Min(S)
    PROVE  (r = None /\ S = {}) \/ (r \in S /\ r # None)
<1>1. S # {} => Min(S) \in S
  BY MinIsLeast
<1> QED
  BY <1>1 DEF None

(* find_node.                                                                *)
LEMMA FindNodeFinds ==
    ASSUME NEW n
    PROVE  \/ /\ FindNode(n) = None
              /\ \A i \in Live : ~(nodes[i].name = n /\ nodes[i].parent = current_dir)
           \/ /\ FindNode(n) # None /\ FindNode(n) \in Live
              /\ nodes[FindNode(n)].name = n /\ nodes[FindNode(n)].parent = current_dir
<1> DEFINE S == {i \in Live : nodes[i].name = n /\ nodes[i].parent = current_dir}
<1>1. S \in SUBSET Nat
  BY FsSizes DEF Live, Nodes
<1>2. FindNode(n) = IF S = {} THEN None ELSE Min(S)
  BY DEF FindNode
<1>3. (FindNode(n) = None /\ S = {}) \/ (FindNode(n) \in S /\ FindNode(n) # None)
  BY <1>1, <1>2, SearchFinds
<1> QED
  BY <1>3

(* find_free_node.                                                           *)
LEMMA FreeNodeFinds ==
    FreeNode # None => FreeNode \in Nodes /\ FreeNode \notin Live /\ FreeNode # Root
<1> DEFINE S == Nodes \ (Live \cup {Root})
<1>1. S \in SUBSET Nat
  BY FsSizes DEF Nodes
<1>2. FreeNode = IF S = {} THEN None ELSE Min(S)
  BY DEF FreeNode
<1>3. (FreeNode = None /\ S = {}) \/ (FreeNode \in S /\ FreeNode # None)
  BY <1>1, <1>2, SearchFinds
<1> QED
  BY <1>3

(* find_free_fd.                                                             *)
LEMMA FreeFdFinds == FreeFd # None => FreeFd \in Fds /\ ~fds[FreeFd].used
<1> DEFINE S == {f \in Fds : ~fds[f].used}
<1>1. S \in SUBSET Nat
  BY FsSizes DEF Fds
<1>2. FreeFd = IF S = {} THEN None ELSE Min(S)
  BY DEF FreeFd
<1>3. (FreeFd = None /\ S = {}) \/ (FreeFd \in S /\ FreeFd # None)
  BY <1>1, <1>2, SearchFinds
<1> QED
  BY <1>3

-----------------------------------------------------------------------------
(* Types.                                                                    *)

(* The constants' types.                                                     *)
LEMMA Sizes ==
    /\ NNodes \in Nat \ {0} /\ NFds \in Nat \ {0} /\ MaxData \in Nat /\ MaxData > 1
    /\ Counts \subseteq Nat /\ Seeks \subseteq Int
    /\ 0 \in Offsets /\ 1 \in Offsets /\ Offsets \subseteq Nat
    /\ Root \in Nodes /\ Nodes \subseteq Nat /\ None \notin Nat
BY FsSizes DEF Offsets, Root, Nodes, None

(* A new node, a free one and a closed descriptor have their types.          *)
LEMMA Records ==
    /\ \A t \in {"FILE", "DIR"}, n \in Names \cup {Slash}, d \in Nodes \cup {None} :
          Fresh(t, n, d) \in NodeType
    /\ \A k \in Offsets : Unused(k) \in NodeType
    /\ Closed \in FdType
BY Sizes DEF Fresh, Unused, Closed, NodeType, FdType

(* Replacing a node, or its size, keeps the table typed.                     *)
LEMMA NodeSet ==
    ASSUME nodes \in [Nodes -> NodeType], NEW i \in Nodes
    PROVE  /\ \A x \in NodeType : [nodes EXCEPT ![i] = x] \in [Nodes -> NodeType]
           /\ \A k \in Offsets : [nodes EXCEPT ![i].size = k] \in [Nodes -> NodeType]
           /\ nodes[i].size \in Offsets /\ nodes[i].parent \in Nodes \cup {None}
BY DEF NodeType

(* Replacing a descriptor, or its offset, keeps the table typed.             *)
LEMMA FdSet ==
    ASSUME fds \in [Fds -> FdType], NEW f \in Fds
    PROVE  /\ \A x \in FdType : [fds EXCEPT ![f] = x] \in [Fds -> FdType]
           /\ \A o \in Offsets : [fds EXCEPT ![f].offset = o] \in [Fds -> FdType]
           /\ fds[f].offset \in Offsets /\ fds[f].node \in Nodes \cup {None}
BY DEF FdType

(* What fits after an offset stays inside the data.                          *)
LEMMA Fits ==
    ASSUME NEW o \in Offsets, NEW k \in Nat, NEW s \in Offsets
    PROVE  /\ o + Least(k, Room(o)) \in Offsets /\ Least(k, Room(0)) \in Offsets
           /\ (IF o >= s THEN o ELSE o + Least(k, s - o)) \in Offsets
BY Sizes DEF Least, Room, Offsets

(* fs_init fills typed tables.                                               *)
LEMMA InitTyped == Init => TypeOK
<1> SUFFICES ASSUME Init PROVE TypeOK
  OBVIOUS
<1> DEFINE names == InitDirs \o InitFiles
<1>1. \A i \in 1 .. Len(names) : names[i] \in Names
  <2>1. names \in Seq(Names)
    BY FsInit
  <2> QED
    BY <2>1
<1>2. ASSUME NEW i \in Nodes PROVE nodes[i] \in NodeType
  <2>1. CASE i = Root
    BY <2>1, Records DEF Init
  <2>2. CASE i # Root /\ i <= Len(names)
    <3>1. i \in 1 .. Len(names)
      BY <2>2, Sizes, FsInit DEF Root
    <3>2. names[i] \in Names
      BY <1>1, <3>1
    <3>3. /\ Fresh("DIR", names[i], Root) \in NodeType
          /\ Fresh("FILE", names[i], Root) \in NodeType
      BY <3>2, Records, Sizes
    <3>4. [Fresh("FILE", names[i], Root) EXCEPT !.size = 1] \in NodeType
      BY <3>3, Sizes DEF NodeType
    <3>5. Len(InitDirs) \in Nat /\ Len(names) \in Nat /\ Len(InitDirs) <= Len(names)
      BY FsInit
    <3>6. nodes[i] \in {Fresh("DIR", names[i], Root), [Fresh("FILE", names[i], Root) EXCEPT !.size = 1]}
      BY <2>2 DEF Init
    <3> QED
      BY <3>3, <3>4, <3>6
  <2>3. CASE i # Root /\ ~(i <= Len(names))
    <3>1. Len(InitDirs) \in Nat /\ Len(names) \in Nat /\ Len(InitDirs) <= Len(names)
      BY FsInit
    <3>2. ~(i <= Len(InitDirs)) /\ i \in Nat
      BY <2>3, <3>1, Sizes
    <3>3. nodes[i] = Unused(0)
      BY <2>3, <3>2 DEF Init
    <3> QED
      BY <3>3, Records, Sizes
  <2> QED
    BY <2>1, <2>2, <2>3
<1>3. nodes \in [Nodes -> NodeType]
  <2>1. nodes = [i \in Nodes |-> nodes[i]]
    BY DEF Init
  <2> QED
    BY <1>2, <2>1
<1>4. fds \in [Fds -> FdType] /\ \A f \in Fds : fds[f].used => fds[f].node # None
  BY Records DEF Init, Closed
<1> QED
  BY <1>3, <1>4, Sizes DEF Init, TypeOK

(* A call that only answers keeps the types.                                 *)
LEMMA AnswerTyped ==
    ASSUME TypeOK, NEW a \in {"ok", "EMFILE", "error"}, Answer(a)
    PROVE  TypeOK'
BY DEF TypeOK, Answer

(* A call that changes one node keeps them, if what it stores is typed.      *)
LEMMA MadeTyped ==
    ASSUME TypeOK, NEW n, CanMake(n), NEW t \in {"FILE", "DIR"}
    PROVE  Made(n, t) \in [Nodes -> NodeType] /\ FreeNode \in Nodes
<1>1. FreeNode \in Nodes /\ n \in Names /\ current_dir \in Nodes
  BY FreeNodeFinds DEF CanMake, TypeOK
<1>2. Fresh(t, n, current_dir) \in NodeType
  BY <1>1, Records
<1> QED
  BY <1>1, <1>2, NodeSet DEF Made, TypeOK

(* fs_open.                                                                  *)
LEMMA OpenTyped ==
    ASSUME TypeOK, NEW n, NEW flags \in OpenFlags, Open(n, flags)
    PROVE  TypeOK'
<1> DEFINE makes == FindNode(n) = None /\ flags.creat /\ CanMake(n)
           i     == IF makes THEN FreeNode ELSE FindNode(n)
           made  == IF makes THEN Made(n, "FILE") ELSE nodes
           final == IF flags.trunc THEN Truncated(made, i) ELSE made
           entry == [used |-> TRUE, node |-> i, mode |-> flags.mode, append |-> flags.append,
                     offset |-> IF flags.append THEN final[i].size ELSE 0]
<1>1. made \in [Nodes -> NodeType]
  BY MadeTyped DEF TypeOK
<1>2. CASE i = None \/ made[i].type # "FILE"
  <2>1. Answer("error")
    BY <1>2 DEF Open
  <2> QED
    BY <2>1, AnswerTyped
<1>3. CASE ~(i = None \/ made[i].type # "FILE")
  <2>1. i \in Nodes /\ i # None
    BY <1>3, FreeNodeFinds, FindNodeFinds DEF Live
  <2>2. final \in [Nodes -> NodeType]
    BY <1>1, <2>1, Sizes DEF Truncated, NodeType
  <2>3. final[i].size \in Offsets
    BY <2>1, <2>2 DEF NodeType
  <2>4. /\ nodes' = final /\ current_dir' = current_dir
        /\ \/ answer' = "EMFILE" /\ fds' = fds
           \/ FreeFd # None /\ answer' = "ok" /\ fds' = [fds EXCEPT ![FreeFd] = entry]
    BY <1>3 DEF Open
  <2>5. entry \in FdType /\ entry.node # None
    BY <2>1, <2>3, Sizes, FsFlags DEF FdType
  <2> HIDE DEF entry, final, i, made, makes
  <2>6. fds' \in [Fds -> FdType] /\ \A f \in Fds : fds'[f].used => fds'[f].node # None
    BY <2>4, <2>5, FreeFdFinds DEF TypeOK
  <2> QED
    BY <2>2, <2>4, <2>6 DEF TypeOK
<1> QED
  BY <1>2, <1>3

(* fs_read_fd, fs_write_fd, fs_lseek and fs_close keep offsets and sizes     *)
(* inside the data.                                                          *)
LEMMA FdTyped ==
    ASSUME TypeOK, NEW f \in AnyFd,
           \/ Close(f)
           \/ \E n \in Counts : ReadFd(f, n) \/ WriteFd(f, n)
           \/ \E by \in Seeks, whence \in {"SET", "CUR", "END"} : Lseek(f, by, whence)
    PROVE  TypeOK'
<1>1. CASE Answer("error")
  BY <1>1, AnswerTyped
<1>2. ASSUME f \in Fds, NEW o \in Offsets, fds' = [fds EXCEPT ![f].offset = o],
             nodes' \in [Nodes -> NodeType], answer' \in {"ok", "error"},
             current_dir' = current_dir
      PROVE  TypeOK'
  <2>1. \A g \in Fds : fds'[g].used = fds[g].used /\ fds'[g].node = fds[g].node
    BY <1>2 DEF TypeOK, FdType
  <2> QED
    BY <1>2, <2>1, FdSet DEF TypeOK
<1>3. ASSUME Opened(f)
      PROVE  /\ f \in Fds /\ fds[f].offset \in Offsets /\ fds[f].node \in Nodes
             /\ nodes[fds[f].node].size \in Offsets
  BY <1>3, FdSet, NodeSet DEF Opened, TypeOK
<1>4. CASE Close(f)
  <2>1. CASE Opened(f)
    <3>1. fds' = [fds EXCEPT ![f] = Closed] /\ answer' = "ok" /\ UNCHANGED <<nodes, current_dir>>
      BY <1>4, <2>1 DEF Close
    <3>2. fds' \in [Fds -> FdType] /\ \A g \in Fds : fds'[g].used => fds'[g].node # None
      BY <2>1, <3>1, <1>3, Records DEF TypeOK, Closed
    <3> QED
      BY <3>1, <3>2 DEF TypeOK
  <2> QED
    BY <1>1, <1>4, <2>1 DEF Close
<1>5. ASSUME NEW n \in Counts, ReadFd(f, n)
      PROVE  TypeOK'
  <2> DEFINE size == nodes[fds[f].node].size
             from == fds[f].offset
             to   == IF from >= size THEN from ELSE from + Least(n, size - from)
  <2>1. CASE ~Opened(f) \/ fds[f].mode = "WRONLY"
    BY <1>1, <1>5, <2>1 DEF ReadFd
  <2>2. CASE ~(~Opened(f) \/ fds[f].mode = "WRONLY")
    <3>1. from \in Offsets /\ size \in Offsets /\ n \in Nat
      BY <1>3, <2>2, Sizes
    <3>2. to \in Offsets
      BY <3>1, Fits
    <3> QED
      BY <1>2, <1>3, <1>5, <2>2, <3>2 DEF ReadFd, TypeOK
  <2> QED
    BY <2>1, <2>2
<1>6. ASSUME NEW n \in Counts, WriteFd(f, n)
      PROVE  TypeOK'
  <2> DEFINE i    == fds[f].node
             from == IF fds[f].append THEN nodes[i].size ELSE fds[f].offset
             to   == from + Least(n, Room(from))
             size == IF to > nodes[i].size THEN to ELSE nodes[i].size
  <2>1. CASE ~Opened(f) \/ fds[f].mode = "RDONLY"
    BY <1>1, <1>6, <2>1 DEF WriteFd
  <2>2. CASE ~(~Opened(f) \/ fds[f].mode = "RDONLY")
    <3>1. from \in Offsets /\ i \in Nodes /\ n \in Nat
      BY <1>3, <2>2, Sizes
    <3>2. to \in Offsets /\ size \in Offsets
      BY <3>1, <1>3, <2>2, Fits
    <3>3. \/ /\ fds' = [fds EXCEPT ![f].offset = from] /\ answer' = "error"
             /\ nodes' = nodes /\ current_dir' = current_dir
          \/ /\ fds' = [fds EXCEPT ![f].offset = to] /\ answer' = "ok"
             /\ nodes' = [nodes EXCEPT ![i].size = size] /\ current_dir' = current_dir
      BY <1>6, <2>2 DEF WriteFd
    <3> HIDE DEF from, to, size, i
    <3>4. nodes' \in [Nodes -> NodeType]
      BY <3>1, <3>2, <3>3, NodeSet DEF TypeOK
    <3> QED
      BY <1>2, <1>3, <2>2, <3>1, <3>2, <3>3, <3>4
  <2> QED
    BY <2>1, <2>2
<1>7. ASSUME NEW by \in Seeks, NEW whence \in {"SET", "CUR", "END"}, Lseek(f, by, whence)
      PROVE  TypeOK'
  <2> DEFINE base == CASE whence = "SET" -> 0
                       [] whence = "CUR" -> fds[f].offset
                       [] whence = "END" -> nodes[fds[f].node].size
             to   == by + base
  <2>1. CASE ~Opened(f) \/ to < 0 \/ to > MaxData - 1
    BY <1>1, <1>7, <2>1 DEF Lseek
  <2>2. CASE ~(~Opened(f) \/ to < 0 \/ to > MaxData - 1)
    <3>1. base \in Nat /\ by \in Int
      BY <1>3, <2>2, Sizes
    <3>2. to \in Offsets
      <4>1. ASSUME NEW b \in Nat, ~(by + b < 0), ~(by + b > MaxData - 1)
            PROVE  by + b \in Offsets
        BY <3>1, <4>1, Sizes DEF Offsets
      <4> HIDE DEF base
      <4> QED
        BY <2>2, <3>1, <4>1
    <3> QED
      BY <1>2, <1>3, <1>7, <2>2, <3>2 DEF Lseek, TypeOK
  <2> QED
    BY <2>1, <2>2
<1> QED
  BY <1>4, <1>5, <1>6, <1>7

(* Every call leaves typed tables, so no write leaves a node's data.         *)
THEOREM FsTyped == Spec => []TypeOK
<1>1. ASSUME TypeOK, [Next]_vars
      PROVE  TypeOK'
  <2> USE <1>1
  <2>1. ASSUME NEW n, NEW t \in {"FILE", "DIR"}, Make(n, t)
        PROVE  TypeOK'
    <3>1. CASE CanMake(n)
      BY <2>1, <3>1, MadeTyped DEF Make, TypeOK
    <3> QED
      BY <2>1, <3>1, AnswerTyped DEF Make
  <2>2. ASSUME NEW n, NEW len \in Counts, WriteFile(n, len)
        PROVE  TypeOK'
    <3>1. FindNode(n) # None => FindNode(n) \in Nodes
      BY FindNodeFinds DEF Live
    <3>2. Least(len, Room(0)) \in Offsets
      BY Sizes, Fits
    <3>3. CASE FindNode(n) # None /\ nodes[FindNode(n)].type = "FILE"
      <4>1. /\ nodes' = [nodes EXCEPT ![FindNode(n)].size = Least(len, Room(0))]
            /\ answer' = "ok" /\ UNCHANGED <<fds, current_dir>>
        BY <2>2, <3>3 DEF WriteFile
      <4> QED
        BY <3>1, <3>2, <3>3, <4>1, NodeSet DEF TypeOK
    <3> QED
      BY <2>2, <3>3, AnswerTyped DEF WriteFile
  <2>3. ASSUME NEW n, NEW types, Remove(n, types)
        PROVE  TypeOK'
    <3> DEFINE i == FindNode(n)
    <3>1. CASE nodes' = [nodes EXCEPT ![i] = Unused(@.size)] /\ i \in Nodes
               /\ answer' = "ok" /\ UNCHANGED <<fds, current_dir>>
      <4>1. Unused(nodes[i].size) \in NodeType
        BY <3>1, NodeSet, Records DEF TypeOK
      <4>2. nodes' \in [Nodes -> NodeType]
        BY <3>1, <4>1, NodeSet DEF TypeOK
      <4> QED
        BY <3>1, <4>2 DEF TypeOK
    <3>2. CASE Answer("error")
      BY <3>2, AnswerTyped
    <3> QED
      BY <2>3, <3>1, <3>2, FindNodeFinds DEF Remove, Live
  <2>4. ASSUME NEW n, Cd(n)
        PROVE  TypeOK'
    <3>1. ASSUME NEW i \in Nodes, Enter(i) PROVE TypeOK'
      BY <3>1 DEF Enter, TypeOK
    <3>2. (Parent >= 0 => Parent \in Nodes) /\ Root \in Nodes /\ current_dir \in Nodes
      <4>1. current_dir \in Nodes /\ Parent \in Nodes \cup {None}
        BY NodeSet DEF TypeOK, Parent
      <4> QED
        BY <4>1, Sizes DEF None
    <3>3. FindNode(n) # None => FindNode(n) \in Nodes
      BY FindNodeFinds DEF Live
    <3> QED
      BY <2>4, <3>1, <3>2, <3>3, AnswerTyped DEF Cd
  <2>5. CASE UNCHANGED vars
    BY <2>5 DEF vars, TypeOK
  <2> QED
    BY <2>1, <2>2, <2>3, <2>4, <2>5, OpenTyped, FdTyped DEF Next, Delete, Unlink, Rmdir
<1> QED
  BY <1>1, InitTyped, PTL DEF Spec

-----------------------------------------------------------------------------
(* The four things a call can do to the directories.                         *)

\* it leaves them, or changes the size of a file
Still ==
    /\ nodes' \in [Nodes -> NodeType] /\ current_dir' = current_dir
    /\ \A i \in Nodes : /\ nodes'[i].used = nodes[i].used /\ nodes'[i].type = nodes[i].type
                        /\ nodes'[i].name = nodes[i].name /\ nodes'[i].parent = nodes[i].parent

\* it moves to another directory
Moved ==
    /\ nodes' = nodes
    /\ \/ current_dir' = Root
       \/ current_dir' \in Nodes /\ current_dir' = Parent
       \/ current_dir' \in Live /\ nodes[current_dir'].type = "DIR"

\* it puts a node in a free slot, with a name the directory has not
Added ==
    \E n \in Names, t \in {"FILE", "DIR"} :
       CanMake(n) /\ nodes' = Made(n, t) /\ current_dir' = current_dir

\* it gives up a node in the directory, an empty one if it is a directory
Dropped ==
    \E i \in Live \ {Root} :
       /\ nodes[i].parent = current_dir /\ current_dir' = current_dir
       /\ nodes[i].type = "DIR" => Children(i) = {}
       /\ nodes' = [nodes EXCEPT ![i] = Unused(@.size)]

(* fs_open makes at most one file, and truncating it changes only its size.  *)
LEMMA OpenShapes ==
    ASSUME TypeOK, NEW n, NEW flags \in OpenFlags, Open(n, flags)
    PROVE  Still \/ Added
<1> DEFINE makes == FindNode(n) = None /\ flags.creat /\ CanMake(n)
           i     == IF makes THEN FreeNode ELSE FindNode(n)
           made  == IF makes THEN Made(n, "FILE") ELSE nodes
           final == IF flags.trunc THEN Truncated(made, i) ELSE made
<1>1. CASE i = None \/ made[i].type # "FILE"
  <2>1. Answer("error")
    BY <1>1 DEF Open
  <2> QED
    BY <2>1 DEF Answer, Still, TypeOK
<1>2. CASE ~(i = None \/ made[i].type # "FILE")
  <2>1. nodes' = final /\ current_dir' = current_dir
    BY <1>2 DEF Open
  <2>2. CASE makes
    <3>1. FreeNode \in Nodes /\ Made(n, "FILE") \in [Nodes -> NodeType]
      BY <2>2, MadeTyped
    <3>2. Made(n, "FILE")[FreeNode] = Fresh("FILE", n, current_dir)
      BY <3>1 DEF Made, TypeOK
    <3>3. Made(n, "FILE")[FreeNode].size = 0
      BY <3>2 DEF Fresh
    <3>4. Truncated(Made(n, "FILE"), FreeNode) = Made(n, "FILE")
      BY <3>1, <3>3 DEF Truncated, NodeType
    <3>5. nodes' = Made(n, "FILE")
      BY <2>1, <2>2, <3>4
    <3> QED
      BY <2>1, <2>2, <3>5 DEF Added, CanMake
  <2>3. CASE ~makes
    <3>1. FindNode(n) \in Nodes
      BY <1>2, <2>3, FindNodeFinds DEF Live
    <3>2. nodes' = nodes \/ nodes' = [nodes EXCEPT ![FindNode(n)].size = 0]
      BY <2>1, <2>3 DEF Truncated
    <3>3. nodes' = nodes => Still
      BY <2>1 DEF Still, TypeOK
    <3>4. nodes' = [nodes EXCEPT ![FindNode(n)].size = 0] => Still
      BY <2>1, <3>1, Sizes DEF Still, TypeOK, NodeType
    <3> QED
      BY <3>2, <3>3, <3>4
  <2> QED
    BY <2>2, <2>3
<1> QED
  BY <1>1, <1>2

(* Every call does one of the four.                                          *)
LEMMA CallShapes ==
    TypeOK /\ TypeOK' /\ [Next]_vars => Still \/ Moved \/ Added \/ Dropped
<1> SUFFICES ASSUME TypeOK, TypeOK', [Next]_vars
             PROVE  Still \/ Moved \/ Added \/ Dropped
  OBVIOUS
<1>1. ASSUME UNCHANGED <<nodes, current_dir>> PROVE Still
  BY <1>1 DEF Still, TypeOK
<1>2. ASSUME NEW a, Answer(a) PROVE Still
  BY <1>1, <1>2 DEF Answer
<1>3. ASSUME NEW n, NEW t \in {"FILE", "DIR"}, Make(n, t)
      PROVE  Still \/ Added
  <2>1. CASE CanMake(n)
    <3>1. n \in Names /\ nodes' = Made(n, t) /\ current_dir' = current_dir
      BY <1>3, <2>1 DEF Make, CanMake
    <3> QED
      BY <2>1, <3>1 DEF Added
  <2> QED
    BY <1>2, <1>3, <2>1 DEF Make
<1>4. ASSUME NEW i \in Nodes, NEW k, nodes' = [nodes EXCEPT ![i].size = k],
             current_dir' = current_dir
      PROVE  Still
  BY <1>4 DEF Still, TypeOK, NodeType
<1>5. ASSUME NEW n, NEW len \in Counts, WriteFile(n, len)
      PROVE  Still
  BY <1>2, <1>4, <1>5, FindNodeFinds DEF WriteFile, Live
<1>6. ASSUME NEW n, NEW types, Remove(n, types)
      PROVE  Still \/ Dropped
  BY <1>2, <1>6, FindNodeFinds DEF Remove, Dropped
<1>7. ASSUME NEW n, Cd(n)
      PROVE  Still \/ Moved
  <2>1. Parent >= 0 => Parent \in Nodes
    <3>1. Parent \in Nodes \cup {None}
      BY NodeSet DEF TypeOK, Parent
    <3> QED
      BY <3>1, Sizes DEF None
  <2> QED
    BY <1>1, <1>2, <1>7, <2>1, FindNodeFinds DEF Cd, Enter, Moved
<1>8. ASSUME NEW f \in AnyFd,
             \/ Close(f)
             \/ \E n \in Counts : ReadFd(f, n) \/ WriteFd(f, n)
             \/ \E by \in Seeks, whence \in {"SET", "CUR", "END"} : Lseek(f, by, whence)
      PROVE  Still
  <2>1. ASSUME NEW n \in Counts, WriteFd(f, n)
        PROVE  Still
    <3>1. Opened(f) => fds[f].node \in Nodes
      BY FdSet DEF Opened, TypeOK
    <3> QED
      BY <1>1, <1>2, <1>4, <2>1, <3>1 DEF WriteFd
  <2>2. CASE Close(f)
    BY <1>1, <1>2, <2>2 DEF Close
  <2>3. ASSUME NEW n \in Counts, ReadFd(f, n)
        PROVE  Still
    BY <1>1, <1>2, <2>3 DEF ReadFd
  <2>4. ASSUME NEW by \in Seeks, NEW whence, Lseek(f, by, whence)
        PROVE  Still
    BY <1>1, <1>2, <2>4 DEF Lseek
  <2> QED
    BY <1>8, <2>1, <2>2, <2>3, <2>4
<1>9. CASE UNCHANGED vars
  BY <1>1, <1>9 DEF vars
<1> QED
  BY <1>3, <1>5, <1>6, <1>7, <1>8, <1>9, OpenShapes DEF Next, Delete, Unlink, Rmdir

-----------------------------------------------------------------------------
(* The tree.                                                                 *)

(* fs_init makes a root and its entries.                                     *)
LEMMA InitShape ==
    Init => /\ \A i \in Live \ {Root} : nodes[i].parent = Root
            /\ Root \in Live /\ nodes[Root].type = "DIR" /\ nodes[Root].parent = None
            /\ current_dir = Root
<1> SUFFICES ASSUME Init
             PROVE  /\ \A i \in Live \ {Root} : nodes[i].parent = Root
                    /\ Root \in Live /\ nodes[Root].type = "DIR" /\ nodes[Root].parent = None
                    /\ current_dir = Root
  OBVIOUS
<1> DEFINE names == InitDirs \o InitFiles
<1>1. nodes[Root] = Fresh("DIR", Slash, None) /\ Root \in Nodes
  BY Sizes DEF Init
<1>2. ASSUME NEW i \in Live \ {Root} PROVE nodes[i].parent = Root
  <2>1. /\ i \in Nodes /\ i # Root /\ nodes[i].used
        /\ \/ nodes[i] = Fresh("DIR", names[i], Root)
           \/ nodes[i] = [Fresh("FILE", names[i], Root) EXCEPT !.size = 1]
           \/ nodes[i] = Unused(0)
    BY <1>2 DEF Init, Live
  <2> QED
    BY <2>1 DEF Fresh, Unused
<1> QED
  BY <1>1, <1>2 DEF Fresh, Live, Init

(* A directory that is not moved and not dropped is kept as it is.           *)
LEMMA InitTree == Init => Tree
<1> SUFFICES ASSUME Init PROVE Tree
  OBVIOUS
<1>1. ASSUME NEW S \in SUBSET (Live \ {Root}), S # {}
      PROVE  \E i \in S : nodes[i].parent \notin S
  BY <1>1, InitShape
<1> QED
  BY <1>1, InitShape DEF Tree

(* A call that changes no name, type, parent or use keeps the tree.          *)
LEMMA StillTree == ASSUME Tree, TypeOK, Still PROVE Tree'
<1>1. Live' = Live /\ current_dir' = current_dir
  BY DEF Still, Live
<1>2. \A i \in Live : nodes'[i].parent = nodes[i].parent /\ nodes'[i].type = nodes[i].type
  BY DEF Still, Live
<1>3. Root \in Live /\ current_dir \in Live
  BY DEF Tree
<1>4. ASSUME NEW i \in Live' \ {Root}
      PROVE  nodes'[i].parent \in Live' /\ nodes'[nodes'[i].parent].type = "DIR"
  BY <1>1, <1>2 DEF Tree
<1>5. ASSUME NEW S \in SUBSET (Live' \ {Root}), S # {}
      PROVE  \E i \in S : nodes'[i].parent \notin S
  <2>1. S \in SUBSET (Live \ {Root})
    BY <1>1
  <2>2. PICK i \in S : nodes[i].parent \notin S
    BY <1>5, <2>1 DEF Tree
  <2> QED
    BY <1>2, <2>1, <2>2
<1>6. /\ Root \in Live' /\ nodes'[Root].type = "DIR" /\ nodes'[Root].parent = None
      /\ current_dir' \in Live' /\ nodes'[current_dir'].type = "DIR"
  BY <1>1, <1>2, <1>3 DEF Tree
<1> QED
  BY <1>4, <1>5, <1>6 DEF Tree

(* fs_cd goes to a directory: a child, the parent, or the root.              *)
LEMMA MovedTree == ASSUME Tree, TypeOK, Moved PROVE Tree'
<1>1. Live' = Live /\ nodes' = nodes
  BY DEF Moved, Live
<1>2. current_dir' \in Live /\ nodes[current_dir'].type = "DIR"
  <2>1. CASE current_dir' = Root
    BY <2>1 DEF Tree
  <2>2. CASE current_dir' \in Nodes /\ current_dir' = Parent
    <3>1. current_dir # Root
      BY <2>2, Sizes DEF Tree, Parent
    <3> QED
      BY <2>2, <3>1 DEF Tree, Parent
  <2> QED
    BY <2>1, <2>2 DEF Moved
<1> QED
  BY <1>1, <1>2 DEF Tree

(* The table after a new node.                                               *)
LEMMA AddedShape ==
    ASSUME TypeOK, NEW n, NEW t \in {"FILE", "DIR"}, CanMake(n), nodes' = Made(n, t)
    PROVE  /\ FreeNode \in Nodes /\ FreeNode \notin Live /\ FreeNode # Root
           /\ Live' = Live \cup {FreeNode}
           /\ \A i \in Live : nodes'[i] = nodes[i]
           /\ nodes'[FreeNode].parent = current_dir /\ nodes'[FreeNode].name = n
<1>1. FreeNode \in Nodes /\ FreeNode \notin Live /\ FreeNode # Root
  BY FreeNodeFinds DEF CanMake
<1>2. /\ nodes'[FreeNode] = Fresh(t, n, current_dir)
      /\ \A i \in Nodes : i # FreeNode => nodes'[i] = nodes[i]
  BY <1>1 DEF Made, TypeOK
<1>3. nodes'[FreeNode].used /\ nodes'[FreeNode].parent = current_dir /\ nodes'[FreeNode].name = n
  BY <1>2 DEF Fresh
<1>4. Live' = Live \cup {FreeNode}
  BY <1>1, <1>2, <1>3 DEF Live
<1> QED
  BY <1>1, <1>2, <1>3, <1>4 DEF Live

(* A new node hangs under the current directory, and nothing under it.       *)
LEMMA AddedTree == ASSUME Tree, TypeOK, Added PROVE Tree'
<1>1. PICK n \in Names, t \in {"FILE", "DIR"} :
          CanMake(n) /\ nodes' = Made(n, t) /\ current_dir' = current_dir
  BY DEF Added
<1> DEFINE new == FreeNode
<1>2. /\ new \in Nodes /\ new \notin Live /\ new # Root
      /\ Live' = Live \cup {new}
      /\ \A i \in Live : nodes'[i] = nodes[i]
      /\ nodes'[new].parent = current_dir
  BY <1>1, AddedShape
<1> HIDE DEF new
<1>3. \A i \in Live \ {Root} : nodes[i].parent \in Live /\ nodes[i].parent # new
  BY <1>2 DEF Tree
<1>4. ASSUME NEW i \in Live' \ {Root}
      PROVE  nodes'[i].parent \in Live' /\ nodes'[nodes'[i].parent].type = "DIR"
  BY <1>2, <1>3 DEF Tree
<1>5. ASSUME NEW S \in SUBSET (Live' \ {Root}), S # {}
      PROVE  \E i \in S : nodes'[i].parent \notin S
  <2> DEFINE R == S \ {new}
  <2>1. R \in SUBSET (Live \ {Root})
    BY <1>2
  <2>2. CASE R = {}
    <3>1. new \in S /\ S = {new}
      BY <1>5, <2>2
    <3>2. nodes'[new].parent \notin S
      BY <1>2, <3>1 DEF Tree
    <3> QED
      BY <3>1, <3>2
  <2>3. CASE R # {}
    <3>1. PICK i \in R : nodes[i].parent \notin R
      BY <2>1, <2>3 DEF Tree
    <3>2. i \in S /\ nodes'[i].parent \notin S
      BY <1>2, <1>3, <2>1, <3>1
    <3> QED
      BY <3>2
  <2> QED
    BY <2>2, <2>3
<1>6. /\ Root \in Live' /\ nodes'[Root].type = "DIR" /\ nodes'[Root].parent = None
      /\ current_dir' \in Live' /\ nodes'[current_dir'].type = "DIR"
  BY <1>1, <1>2 DEF Tree
<1> QED
  BY <1>4, <1>5, <1>6 DEF Tree

(* The table after a node is given up.                                       *)
LEMMA DroppedShape ==
    ASSUME TypeOK, NEW i \in Live \ {Root}, nodes' = [nodes EXCEPT ![i] = Unused(@.size)]
    PROVE  Live' = Live \ {i} /\ \A j \in Live \ {i} : nodes'[j] = nodes[j]
<1>1. i \in Nodes /\ nodes'[i] = Unused(nodes[i].size)
  BY DEF Live, TypeOK
<1>2. ~nodes'[i].used
  BY <1>1 DEF Unused
<1>3. \A j \in Nodes \ {i} : nodes'[j] = nodes[j]
  BY <1>1 DEF TypeOK
<1> QED
  BY <1>1, <1>2, <1>3 DEF Live

(* Giving up a node without children, in the current directory, cuts nothing *)
(* off, and is never the current directory itself.                           *)
LEMMA DroppedTree == ASSUME Tree, TypeOK, Dropped PROVE Tree'
<1>1. PICK i \in Live \ {Root} :
          /\ nodes[i].parent = current_dir /\ current_dir' = current_dir
          /\ nodes[i].type = "DIR" => Children(i) = {}
          /\ nodes' = [nodes EXCEPT ![i] = Unused(@.size)]
  BY DEF Dropped
<1>2. Live' = Live \ {i} /\ \A j \in Live \ {i} : nodes'[j] = nodes[j]
  BY <1>1, DroppedShape
<1>3. current_dir # i
  <2>1. PICK j \in {i} : nodes[j].parent \notin {i}
    BY DEF Tree
  <2> QED
    BY <1>1, <2>1
<1>4. \A j \in Live \ {Root} : nodes[j].parent # i
  <2> SUFFICES ASSUME NEW j \in Live \ {Root}, nodes[j].parent = i PROVE FALSE
    OBVIOUS
  <2>1. nodes[i].type = "DIR" /\ j \in Children(i)
    BY DEF Tree, Children
  <2> QED
    BY <1>1, <2>1
<1>5. ASSUME NEW j \in Live' \ {Root}
      PROVE  nodes'[j].parent \in Live' /\ nodes'[nodes'[j].parent].type = "DIR"
  BY <1>2, <1>4 DEF Tree
<1>6. ASSUME NEW S \in SUBSET (Live' \ {Root}), S # {}
      PROVE  \E j \in S : nodes'[j].parent \notin S
  <2>1. S \in SUBSET (Live \ {Root})
    BY <1>2
  <2>2. PICK j \in S : nodes[j].parent \notin S
    BY <1>6, <2>1 DEF Tree
  <2> QED
    BY <1>2, <2>2
<1>7. /\ Root \in Live' /\ nodes'[Root].type = "DIR" /\ nodes'[Root].parent = None
      /\ current_dir' \in Live' /\ nodes'[current_dir'].type = "DIR"
  BY <1>1, <1>2, <1>3 DEF Tree
<1> QED
  BY <1>5, <1>6, <1>7 DEF Tree

(* The directories are a tree under "/", and the current one is in it, for    *)
(* tables of every size.                                                     *)
THEOREM DirectoriesFormTree == Spec => []Tree
<1>1. Tree /\ TypeOK /\ TypeOK' /\ [Next]_vars => Tree'
  BY CallShapes, StillTree, MovedTree, AddedTree, DroppedTree
<1> QED
  BY <1>1, InitTree, FsTyped, PTL DEF Spec

-----------------------------------------------------------------------------
(* The names.                                                                *)

(* fs_init gives its entries different names, and the root is in no          *)
(* directory.                                                                *)
LEMMA InitNames == Init => NamesUnique
<1> SUFFICES ASSUME Init, NEW i \in Live, NEW j \in Live,
                    nodes[i].parent = nodes[j].parent, nodes[i].name = nodes[j].name
             PROVE  i = j
  BY DEF NamesUnique
<1> DEFINE names == InitDirs \o InitFiles
<1>1. ASSUME NEW k \in Live, k # Root
      PROVE  k \in 1 .. Len(names) /\ nodes[k].name = names[k]
  <2>1. k \in Nodes /\ nodes[k].used /\ Len(names) \in Nat
    BY FsInit DEF Live
  <2>2. k <= Len(names)
    <3> SUFFICES ASSUME ~(k <= Len(names)) PROVE FALSE
      OBVIOUS
    <3>1. Len(InitDirs) \in Nat /\ Len(InitDirs) <= Len(names)
      BY FsInit
    <3>2. ~(k <= Len(InitDirs)) /\ k \in Nat
      BY <2>1, <3>1, Sizes
    <3>3. nodes[k] = Unused(0)
      BY <1>1, <2>1, <3>2 DEF Init
    <3> QED
      BY <2>1, <3>3 DEF Unused
  <2>3. \/ nodes[k] = Fresh("DIR", names[k], Root)
        \/ nodes[k] = [Fresh("FILE", names[k], Root) EXCEPT !.size = 1]
    BY <1>1, <2>1, <2>2 DEF Init
  <2>4. nodes[k].name = names[k]
    <3>1. CASE nodes[k] = Fresh("DIR", names[k], Root)
      <4>1. \A n : Fresh("DIR", n, Root).name = n
        BY DEF Fresh
      <4> QED
        BY <3>1, <4>1
    <3>2. CASE nodes[k] = [Fresh("FILE", names[k], Root) EXCEPT !.size = 1]
      BY <3>2 DEF Fresh
    <3> QED
      BY <2>3, <3>1, <3>2
  <2> QED
    BY <1>1, <2>1, <2>2, <2>4, Sizes DEF Root
<1>2. nodes[Root].parent # Root /\ \A k \in Live \ {Root} : nodes[k].parent = Root
  BY InitShape, Sizes
<1>3. CASE i # Root /\ j # Root
  BY <1>1, <1>3, FsInit
<1> QED
  BY <1>2, <1>3

(* find_node looks for the name before a node is made.                       *)
LEMMA AddedNames == ASSUME NamesUnique, TypeOK, Added PROVE NamesUnique'
<1>1. PICK n \in Names, t \in {"FILE", "DIR"} :
          CanMake(n) /\ nodes' = Made(n, t) /\ current_dir' = current_dir
  BY DEF Added
<1> DEFINE new == FreeNode
<1>2. /\ new \notin Live /\ Live' = Live \cup {new}
      /\ \A i \in Live : nodes'[i] = nodes[i]
      /\ nodes'[new].parent = current_dir /\ nodes'[new].name = n
  BY <1>1, AddedShape
<1>3. \A i \in Live : ~(nodes[i].name = n /\ nodes[i].parent = current_dir)
  BY <1>1, FindNodeFinds DEF CanMake
<1> HIDE DEF new
<1> QED
  BY <1>2, <1>3 DEF NamesUnique

(* The other calls add no name.                                              *)
LEMMA OtherNames ==
    ASSUME NamesUnique, TypeOK, Still \/ Moved \/ Dropped
    PROVE  NamesUnique'
<1>1. CASE Still
  <2>1. Live' = Live /\ Live \subseteq Nodes
    BY <1>1 DEF Still, Live
  <2> QED
    BY <1>1, <2>1 DEF Still, NamesUnique
<1>2. CASE Moved
  BY <1>2 DEF Moved, NamesUnique, Live
<1>3. CASE Dropped
  <2>1. PICK i \in Live \ {Root} : nodes' = [nodes EXCEPT ![i] = Unused(@.size)]
    BY <1>3 DEF Dropped
  <2>2. Live' = Live \ {i} /\ \A j \in Live \ {i} : nodes'[j] = nodes[j]
    BY <2>1, DroppedShape
  <2> QED
    BY <2>2 DEF NamesUnique
<1> QED
  BY <1>1, <1>2, <1>3

(* A directory holds a name once, so that find_node's first match is the     *)
(* only one.                                                                 *)
THEOREM NamesFoundOnce == Spec => []NamesUnique
<1>1. NamesUnique /\ TypeOK /\ TypeOK' /\ [Next]_vars => NamesUnique'
  BY CallShapes, AddedNames, OtherNames
<1> QED
  BY <1>1, InitNames, FsTyped, PTL DEF Spec

-----------------------------------------------------------------------------
(* Every call that fails returns before it changes a file or a directory,    *)
(* but for the open that finds no descriptor.                                *)
THEOREM FailuresHarmless == Spec => FailureChangesNothing
<1>1. ASSUME Next, answer' = "error"
      PROVE  UNCHANGED <<nodes, current_dir>>
  <2>1. ASSUME NEW a, Answer(a) PROVE UNCHANGED <<nodes, current_dir>>
    BY <2>1 DEF Answer
  <2>2. ASSUME NEW n, NEW t, Make(n, t) PROVE UNCHANGED <<nodes, current_dir>>
    BY <1>1, <2>1, <2>2 DEF Make
  <2>3. ASSUME NEW n, NEW len, WriteFile(n, len) PROVE UNCHANGED <<nodes, current_dir>>
    BY <1>1, <2>1, <2>3 DEF WriteFile
  <2>4. ASSUME NEW n, NEW types, Remove(n, types) PROVE UNCHANGED <<nodes, current_dir>>
    BY <1>1, <2>1, <2>4 DEF Remove
  <2>5. ASSUME NEW n, Cd(n) PROVE UNCHANGED <<nodes, current_dir>>
    BY <1>1, <2>1, <2>5 DEF Cd, Enter
  <2>6. ASSUME NEW n, NEW flags, Open(n, flags) PROVE UNCHANGED <<nodes, current_dir>>
    BY <1>1, <2>1, <2>6 DEF Open
  <2>7. ASSUME NEW f, Close(f) PROVE UNCHANGED <<nodes, current_dir>>
    BY <1>1, <2>1, <2>7 DEF Close
  <2>8. ASSUME NEW f, NEW n, ReadFd(f, n) PROVE UNCHANGED <<nodes, current_dir>>
    BY <1>1, <2>1, <2>8 DEF ReadFd
  <2>9. ASSUME NEW f, NEW n, WriteFd(f, n) PROVE UNCHANGED <<nodes, current_dir>>
    BY <1>1, <2>1, <2>9 DEF WriteFd
  <2>10. ASSUME NEW f, NEW by, NEW whence, Lseek(f, by, whence)
         PROVE  UNCHANGED <<nodes, current_dir>>
    BY <1>1, <2>1, <2>10 DEF Lseek
  <2> QED
    BY <1>1, <2>2, <2>3, <2>4, <2>5, <2>6, <2>7, <2>8, <2>9, <2>10
       DEF Next, Delete, Unlink, Rmdir
<1>2. [Next]_vars => [answer' # "error"]_<<nodes, current_dir>>
  BY <1>1 DEF vars
<1> QED
  BY <1>2, PTL DEF Spec, FailureChangesNothing

-----------------------------------------------------------------------------
(* The system calls and the syscall command make calls of the filesystem.    *)

LEMMA Descriptors ==
    /\ \A d \in AnyDescriptor : IsFile(d) => Slot(d) \in AnyFd
    /\ \A f \in Fds : /\ IsFile(DescriptorOf(f)) /\ DescriptorOf(f) \in AnyDescriptor
                      /\ Slot(DescriptorOf(f)) = f
    /\ ~IsFile(None)
BY FsSizes DEF AnyDescriptor, AnyFd, IsFile, Slot, DescriptorOf, FirstFile, Fds, None

(* A call that is refused is one with a descriptor that is not open.         *)
LEMMA RefusedIsCall == Answer("error") => Next
<1> SUFFICES ASSUME Answer("error") PROVE Next
  OBVIOUS
<1>1. NFds \in AnyFd /\ ~Opened(NFds)
  BY FsSizes DEF AnyFd, Opened, Fds
<1>2. Close(NFds)
  BY <1>1 DEF Close
<1> QED
  BY <1>1, <1>2 DEF Next

(* The calls with a descriptor.                                              *)
LEMMA DescriptorCalls ==
    ASSUME NEW d, IsFile(d) => Slot(d) \in AnyFd,
           \/ sys_close(d)
           \/ \E n \in Counts : sys_read(d, n) \/ sys_write(d, n)
           \/ \E by \in Seeks, whence \in {"SET", "CUR", "END"} : sys_lseek(d, by, whence)
    PROVE  [Next]_vars
<1>1. CASE IsFile(d)
  <2>1. \/ Close(Slot(d))
        \/ \E n \in Counts : ReadFd(Slot(d), n)
        \/ \E n \in Counts : WriteFd(Slot(d), n)
        \/ \E by \in Seeks, whence \in {"SET", "CUR", "END"} : Lseek(Slot(d), by, whence)
    BY <1>1 DEF sys_close, sys_read, sys_write, sys_lseek
  <2>2. Slot(d) \in AnyFd
    BY <1>1
  <2> QED
    BY <2>1, <2>2, Zenon DEF Next
<1>2. CASE ~IsFile(d)
  <2>1. Refused \/ UNCHANGED vars
    BY <1>2 DEF sys_close, sys_read, sys_write, sys_lseek
  <2> QED
    BY <2>1, RefusedIsCall DEF Refused
<1> QED
  BY <1>1, <1>2

(* The calls with a name.                                                    *)
LEMMA NameCalls ==
    /\ \A n \in Names \cup {Empty} :
          (\/ sys_mkdir(n) \/ sys_rmdir(n) \/ sys_unlink(n)
           \/ \E flags \in OpenFlags : sys_open(n, flags)) => Next
    /\ \A n \in Names \cup {DotDot, Slash, Empty} : sys_chdir(n) => Next
<1>1. ASSUME NEW n \in Names \cup {Empty},
             \/ sys_mkdir(n) \/ sys_rmdir(n) \/ sys_unlink(n)
             \/ \E flags \in OpenFlags : sys_open(n, flags)
      PROVE  Next
  <2>1. \/ Make(n, "DIR") \/ Rmdir(n) \/ Unlink(n)
        \/ \E flags \in OpenFlags : Open(n, flags)
    BY <1>1 DEF sys_mkdir, sys_rmdir, sys_unlink, sys_open
  <2> QED
    BY <2>1, Zenon DEF Next
<1>2. ASSUME NEW n \in Names \cup {DotDot, Slash, Empty}, sys_chdir(n)
      PROVE  Next
  BY <1>2, Zenon DEF sys_chdir, Next
<1> QED
  BY <1>1, <1>2

\* the syscall command's local is a descriptor or what a failed sys_open returns
FdKnown == fd = None \/ fd \in {DescriptorOf(f) : f \in Fds}

LEMMA FdStays == FdKnown /\ [SysNext]_allvars => FdKnown'
<1> SUFFICES ASSUME FdKnown, [SysNext]_allvars PROVE FdKnown'
  OBVIOUS
<1>1. ASSUME UNCHANGED fd PROVE FdKnown'
  BY <1>1 DEF FdKnown, DescriptorOf, Fds
<1>2. CASE sys_open(TestFile, TestFlags)
           /\ fd' = IF answer' = "ok" THEN DescriptorOf(FreeFd) ELSE None
  <2>1. answer' = "ok" => FreeFd # None
    BY <1>2 DEF sys_open, Open, Answer
  <2> QED
    BY <1>2, <2>1, FreeFdFinds DEF FdKnown, DescriptorOf, Fds
<1>3. CASE fd' = None
  BY <1>3 DEF FdKnown
<1>4. UNCHANGED fd \/ fd' = None
      \/ (sys_open(TestFile, TestFlags) /\ fd' = IF answer' = "ok" THEN DescriptorOf(FreeFd) ELSE None)
  BY Zenon DEF SysNext, allvars, testing, TestStart, TestCall, TestEnd
<1> QED
  BY <1>1, <1>2, <1>3, <1>4

(* Every step of the system calls is a step of the filesystem or none.       *)
LEMMA SysStepIsStep == FdKnown /\ [SysNext]_allvars => [Next]_vars
<1> SUFFICES ASSUME FdKnown, [SysNext]_allvars PROVE [Next]_vars
  OBVIOUS
<1>1. CASE syscall_handler
  <2>1. CASE Refused
    BY <2>1, RefusedIsCall DEF Refused
  <2> QED
    BY <1>1, <2>1, DescriptorCalls, NameCalls, Descriptors, Zenon DEF syscall_handler
<1>2. CASE Commands
  BY <1>2, Zenon DEF Commands, Next
<1>3. CASE TestCall
  <2>1. IsFile(fd) => Slot(fd) \in AnyFd
    BY Descriptors DEF FdKnown
  <2>2. /\ TestDir \in Names \cup {Empty} /\ TestFile \in Names \cup {Empty}
        /\ TestFlags \in OpenFlags /\ TestBytes \in Counts /\ 0 \in Seeks
    BY TestAssumption
  <2>3. \/ sys_mkdir(TestDir) \/ sys_rmdir(TestDir) \/ sys_open(TestFile, TestFlags)
        \/ sys_write(fd, TestBytes) \/ sys_lseek(fd, 0, "SET") \/ sys_read(fd, TestBytes)
        \/ sys_close(fd) \/ sys_unlink(TestFile) \/ UNCHANGED vars
    BY <1>3, Zenon DEF TestCall
  <2>4. CASE \/ sys_write(fd, TestBytes) \/ sys_lseek(fd, 0, "SET")
             \/ sys_read(fd, TestBytes) \/ sys_close(fd)
    BY <2>1, <2>2, <2>4, DescriptorCalls
  <2>5. CASE \/ sys_mkdir(TestDir) \/ sys_rmdir(TestDir)
             \/ sys_open(TestFile, TestFlags) \/ sys_unlink(TestFile)
    BY <2>2, <2>5, NameCalls
  <2> QED
    BY <2>3, <2>4, <2>5
<1>4. CASE UNCHANGED vars
  BY <1>4
<1>5. syscall_handler \/ Commands \/ TestCall \/ UNCHANGED vars
  BY Zenon DEF SysNext, allvars, TestStart, TestEnd
<1> QED
  BY <1>1, <1>2, <1>3, <1>4, <1>5

(* The system calls and the shell's commands implement the filesystem, so    *)
(* that what is proved of its Spec holds of them.                            *)
THEOREM SyscallsImplementFs == SysSpec => Spec
<1>1. SysInit => Init /\ FdKnown
  BY DEF SysInit, FdKnown
<1> QED
  BY <1>1, FdStays, SysStepIsStep, PTL DEF SysSpec, Spec

(* And so they keep its tables typed and its directories a tree, in which    *)
(* every name is found once, and a call that fails has changed no file.      *)
THEOREM SyscallsSafe ==
    SysSpec => [](TypeOK /\ Tree /\ NamesUnique) /\ FailureChangesNothing
BY SyscallsImplementFs, FsTyped, DirectoriesFormTree, NamesFoundOnce, FailuresHarmless, PTL

-----------------------------------------------------------------------------
(* The descriptors that callers hold.                                        *)

\* no slot of the descriptor table is taken or given up
SameFds == UNCHANGED handed /\ \A f \in Fds : fds'[f].used = fds[f].used

LEMMA SameFdsShifted == DescriptorsShifted /\ SameFds => DescriptorsShifted'
BY DEF DescriptorsShifted, SameFds

(* A call that only answers, and one that moves an offset, take no slot.     *)
LEMMA AnswerSame == ASSUME NEW a, Answer(a), UNCHANGED handed PROVE SameFds
BY DEF Answer, SameFds

LEMMA OffsetSame ==
    ASSUME TypeOK, NEW f, NEW k, fds' = [fds EXCEPT ![f].offset = k], UNCHANGED handed
    PROVE  SameFds
BY DEF TypeOK, SameFds, FdType

(* sys_open.                                                                 *)
LEMMA OpenShifted ==
    ASSUME TypeOK, DescriptorsShifted, NEW n, NEW flags, sys_open(n, flags)
    PROVE  DescriptorsShifted'
<1>1. CASE answer' = "ok"
  <2>1. /\ FreeFd # None /\ handed' = handed \cup {DescriptorOf(FreeFd)}
        /\ \E r : r.used /\ fds' = [fds EXCEPT ![FreeFd] = r]
    BY <1>1 DEF sys_open, Open, Answer
  <2>2. FreeFd \in Fds
    BY <2>1, FreeFdFinds
  <2>3. \A g \in Fds : fds'[g].used <=> (g = FreeFd \/ fds[g].used)
    BY <2>1, <2>2 DEF TypeOK
  <2> QED
    BY <2>1, <2>2, <2>3 DEF DescriptorsShifted, DescriptorOf
<1>2. CASE answer' # "ok"
  <2>1. UNCHANGED <<fds, handed>>
    BY <1>2 DEF sys_open, Open, Answer
  <2> QED
    BY <2>1, SameFdsShifted DEF SameFds
<1> QED
  BY <1>1, <1>2

(* sys_close.                                                                *)
LEMMA CloseShifted ==
    ASSUME TypeOK, DescriptorsShifted, NEW d, d = None \/ d \in Nat, sys_close(d)
    PROVE  DescriptorsShifted'
<1>1. CASE IsFile(d) /\ Opened(Slot(d))
  <2>1. /\ Slot(d) \in Fds /\ d = Slot(d) + FirstFile
        /\ handed' = handed \ {d} /\ fds' = [fds EXCEPT ![Slot(d)] = Closed]
    BY <1>1 DEF sys_close, Close, Opened, IsFile, Slot, FirstFile, None
  <2>2. \A g \in Fds : fds'[g].used <=> (g # Slot(d) /\ fds[g].used)
    BY <2>1 DEF TypeOK, Closed
  <2>3. \A g \in Fds : g + FirstFile = d <=> g = Slot(d)
    BY <2>1, FsSizes DEF Fds, FirstFile
  <2> QED
    BY <2>1, <2>2, <2>3 DEF DescriptorsShifted
<1>2. CASE ~(IsFile(d) /\ Opened(Slot(d)))
  <2>1. Answer("error") /\ UNCHANGED handed
    BY <1>2 DEF sys_close, Close, Refused, Answer
  <2> QED
    BY <2>1, AnswerSame, SameFdsShifted
<1> QED
  BY <1>1, <1>2

(* The other calls.                                                          *)
LEMMA OthersSame ==
    ASSUME TypeOK, UNCHANGED handed, NEW d, NEW n, NEW t,
           \/ Refused \/ Make(n, t) \/ Remove(n, t) \/ WriteFile(n, t) \/ Cd(n)
           \/ sys_read(d, n) \/ sys_write(d, n) \/ sys_lseek(d, n, t)
           \/ UNCHANGED vars
    PROVE  SameFds
<1>1. CASE Refused
  BY <1>1, AnswerSame DEF Refused
<1>2. CASE Make(n, t) \/ Remove(n, t) \/ WriteFile(n, t) \/ Cd(n) \/ UNCHANGED vars
  <2>1. fds' = fds
    BY <1>2 DEF Make, Remove, WriteFile, Cd, Enter, Answer, vars
  <2> QED
    BY <2>1 DEF SameFds
<1>3. ASSUME NEW f, ReadFd(f, n) \/ WriteFd(f, n) \/ Lseek(f, n, t)
      PROVE  SameFds
  <2>1. fds' = fds \/ \E k : fds' = [fds EXCEPT ![f].offset = k]
    BY <1>3 DEF ReadFd, WriteFd, Lseek, Answer
  <2> QED
    BY <2>1, OffsetSame DEF SameFds
<1>4. CASE sys_read(d, n) \/ sys_write(d, n) \/ sys_lseek(d, n, t)
  BY <1>2, <1>3, <1>4, AnswerSame DEF sys_read, sys_write, sys_lseek, Refused
<1> QED
  BY <1>1, <1>2, <1>4

(* The descriptors that sys_open handed out and sys_close has not taken back *)
(* are the slots in use, three higher.                                       *)
THEOREM DescriptorsMatch == SysSpec => []DescriptorsShifted
<1>1. SysInit => DescriptorsShifted
  BY DEF SysInit, Init, DescriptorsShifted, Closed
<1>2. TypeOK /\ FdKnown /\ DescriptorsShifted /\ [SysNext]_allvars => DescriptorsShifted'
  <2> SUFFICES ASSUME TypeOK, FdKnown, DescriptorsShifted, [SysNext]_allvars
               PROVE  DescriptorsShifted'
    OBVIOUS
  <2>1. CASE syscall_handler
    <3>1. ASSUME NEW d \in AnyDescriptor, sys_close(d) PROVE DescriptorsShifted'
      BY <3>1, CloseShifted, FsSizes DEF AnyDescriptor, FirstFile
    <3>2. CASE \E d \in AnyDescriptor : sys_close(d)
      BY <3>1, <3>2
    <3>3. CASE \E n, flags : sys_open(n, flags)
      BY <3>3, OpenShifted
    <3>4. CASE ~(\E d \in AnyDescriptor : sys_close(d)) /\ ~\E n, flags : sys_open(n, flags)
      <4>1. UNCHANGED handed
        BY <2>1, <3>4 DEF syscall_handler, Refused, sys_read, sys_write, sys_lseek, sys_mkdir,
                          sys_rmdir, sys_unlink, sys_chdir
      <4>2. \E d, n, t : \/ Refused \/ Make(n, t) \/ Remove(n, t) \/ Cd(n)
                         \/ sys_read(d, n) \/ sys_write(d, n) \/ sys_lseek(d, n, t)
        BY <2>1, <3>4, Zenon DEF syscall_handler, sys_mkdir, sys_rmdir, sys_unlink, sys_chdir,
                                 Rmdir, Unlink
      <4> QED
        BY <4>1, <4>2, OthersSame, SameFdsShifted
    <3> QED
      BY <3>2, <3>3, <3>4
  <2>2. CASE Commands
    <3>1. UNCHANGED handed /\ \E n, t : Make(n, t) \/ Remove(n, t) \/ WriteFile(n, t)
      BY <2>2, Zenon DEF Commands, Delete
    <3> QED
      BY <3>1, OthersSame, SameFdsShifted
  <2>3. CASE TestCall
    <3>1. CASE sys_close(fd)
      BY <3>1, CloseShifted, FsSizes DEF FdKnown, DescriptorOf, FirstFile, Fds
    <3>2. CASE sys_open(TestFile, TestFlags)
      BY <3>2, OpenShifted
    <3>3. CASE UNCHANGED handed /\ \E d, n, t : \/ Make(n, t) \/ Remove(n, t)
                 \/ sys_read(d, n) \/ sys_write(d, n) \/ sys_lseek(d, n, t) \/ UNCHANGED vars
      BY <3>3, OthersSame, SameFdsShifted
    <3>4. \/ sys_mkdir(TestDir) \/ sys_rmdir(TestDir) \/ sys_open(TestFile, TestFlags)
          \/ sys_write(fd, TestBytes) \/ sys_lseek(fd, 0, "SET") \/ sys_read(fd, TestBytes)
          \/ sys_close(fd) \/ sys_unlink(TestFile) \/ UNCHANGED <<vars, handed>>
      BY <2>3, Zenon DEF TestCall
    <3>5. CASE sys_mkdir(TestDir) \/ sys_rmdir(TestDir) \/ sys_unlink(TestFile)
               \/ UNCHANGED <<vars, handed>>
      BY <3>3, <3>5, Zenon DEF sys_mkdir, sys_rmdir, sys_unlink, Rmdir, Unlink
    <3>6. CASE sys_write(fd, TestBytes) \/ sys_lseek(fd, 0, "SET") \/ sys_read(fd, TestBytes)
      <4>1. UNCHANGED handed
        BY <3>6 DEF sys_write, sys_lseek, sys_read, Refused
      <4> QED
        BY <3>3, <3>6, <4>1, Zenon
    <3> QED
      BY <3>1, <3>2, <3>4, <3>5, <3>6
  <2>4. CASE UNCHANGED <<vars, handed>>
    BY <2>4, OthersSame, SameFdsShifted
  <2>5. syscall_handler \/ Commands \/ TestCall \/ UNCHANGED <<vars, handed>>
    BY Zenon DEF SysNext, allvars, TestStart, TestEnd
  <2> QED
    BY <2>1, <2>2, <2>3, <2>4, <2>5
<1>3. SysInit => FdKnown
  BY DEF SysInit, FdKnown
<1> QED
  BY <1>1, <1>2, <1>3, FdStays, SyscallsImplementFs, FsTyped, PTL DEF SysSpec

-----------------------------------------------------------------------------
(* The syscall command.  Its invariant says, for each of its positions, what  *)
(* it has added to the files and descriptors that it found.                   *)

\* a slot of the descriptor table that is not in use is as fs_close left it
Clean == \A f \in Fds : ~fds[f].used => fds[f] = Closed

NotNamed(n, others) ==
    \A j \in Live \ others : ~(nodes[j].name = n /\ nodes[j].parent = current_dir)

\* node i is the command's, of size s; the others are those it found
Mine(i, t, n, s) ==
    /\ i \in Nodes /\ i # Root
    /\ nodes[i].used /\ nodes[i].type = t /\ nodes[i].size = s
    /\ nodes[i].name = n /\ nodes[i].parent = current_dir
    /\ NotNamed(n, {i}) /\ Children(i) = {}
    /\ before[1] = [j \in Nodes |-> IF j # i /\ nodes[j].used THEN nodes[j] ELSE Unused(0)]

\* descriptor fd is the command's, for node i at offset o
Held(f, i, o) ==
    /\ f \in Fds /\ fd = DescriptorOf(f)
    /\ fds[f].used /\ fds[f].node = i /\ fds[f].offset = o
    /\ fds[f].mode = "RDWR" /\ fds[f].append = FALSE
    /\ before[2] = [fds EXCEPT ![f] = Closed]

Working(s, o) == \E i \in Nodes, f \in Fds : Mine(i, "FILE", TestFile, s) /\ Held(f, i, o)

Listed == \E i \in Nodes : Mine(i, "DIR", TestDir, 0) /\ NotNamed(TestFile, {i})
Stored == \E i \in Nodes : Mine(i, "FILE", TestFile, TestBytes)

Stage ==
    /\ passed /\ test \in 0 .. TestsDone
    /\ test # 0 => before = <<before[1], before[2]>>
    /\ test = 1 => Prepared /\ before = Kept
    /\ test = 2 => Listed /\ before[2] = fds /\ FreeFd # None
    /\ test = 3 => /\ FindNode(TestFile) = None /\ FreeNode # None /\ FreeFd # None
                   /\ before = Kept
    /\ test = 4 => Working(0, 0)
    /\ test = 5 => Working(TestBytes, TestBytes)
    /\ test = 6 => Working(TestBytes, 0)
    /\ test = 7 => Working(TestBytes, TestBytes)
    /\ test \in {8, 9} => Stored /\ before[2] = fds
    /\ test = 10 => before = Kept

LEMMA FreeNodeThere == ASSUME NEW i \in Nodes, i \notin Live, i # Root PROVE FreeNode # None
<1> DEFINE S == Nodes \ (Live \cup {Root})
<1>1. S \in SUBSET Nat /\ S # {}
  BY FsSizes DEF Nodes
<1>2. FreeNode = IF S = {} THEN None ELSE Min(S)
  BY DEF FreeNode
<1> HIDE DEF S
<1> QED
  BY <1>1, <1>2, SearchFinds

LEMMA MineFound == ASSUME NEW i, NEW t, NEW n, NEW s, Mine(i, t, n, s) PROVE FindNode(n) = i
<1>1. i \in Live /\ nodes[i].name = n /\ nodes[i].parent = current_dir
  BY DEF Mine, Live
<1> QED
  BY <1>1, FindNodeFinds DEF Mine, NotNamed

LEMMA NotFound == ASSUME NEW n PROVE FindNode(n) = None <=> NotNamed(n, {})
BY FindNodeFinds DEF NotNamed

\* the table keeps node i's place free for the command
LEMMA MadeMine ==
    ASSUME TypeOK, Tree, NEW t \in {"FILE", "DIR"}, NEW n \in Names,
           NEW i, i = FreeNode, FreeNode # None, FindNode(n) = None, nodes' = Made(n, t),
           before = Kept, UNCHANGED <<current_dir, before>>
    PROVE  /\ Mine(i, t, n, 0)' /\ i \in Nodes /\ i \notin Live
           /\ \A m : NotNamed(m, {}) => NotNamed(m, {i})'
<1>1. i \in Nodes /\ i \notin Live /\ i # Root /\ nodes \in [Nodes -> NodeType]
  BY FreeNodeFinds DEF TypeOK
<1>2. nodes' = [nodes EXCEPT ![i] = Fresh(t, n, current_dir)]
  BY DEF Made
<1>3. nodes'[i] = [used |-> TRUE, type |-> t, name |-> n, parent |-> current_dir, size |-> 0]
  BY <1>1, <1>2 DEF Fresh
<1>4. Live' = Live \cup {i} /\ \A j \in Nodes \ {i} : nodes'[j] = nodes[j]
  BY <1>1, <1>2, <1>3 DEF Live
<1>5. \A m : NotNamed(m, {}) => NotNamed(m, {i})'
  BY <1>4 DEF NotNamed, Live
<1>6. NotNamed(n, {})
  BY NotFound
<1>7. \A j \in Live' : nodes'[j].parent # i
  <2>1. current_dir \in Live /\ \A j \in Live : nodes[j].parent # i
    BY <1>1, Sizes DEF Tree, None, Root
  <2> QED
    BY <1>1, <1>3, <1>4, <2>1 DEF Live
<1>8. before[1] = [j \in Nodes |-> IF j # i /\ nodes'[j].used THEN nodes'[j] ELSE Unused(0)]
  <2>1. before[1] = [j \in Nodes |-> IF nodes[j].used THEN nodes[j] ELSE Unused(0)]
    BY DEF Kept
  <2>2. ~nodes[i].used
    BY <1>1 DEF Live
  <2> QED
    BY <1>4, <2>1, <2>2
<1>9. Mine(i, t, n, 0)'
  <2>1. NotNamed(n, {i})' /\ Children(i)' = {}
    BY <1>5, <1>6, <1>7 DEF Children
  <2> QED
    BY <1>1, <1>3, <1>8, <2>1 DEF Mine
<1> QED
  BY <1>1, <1>5, <1>9

\* taking its node away leaves what it found
LEMMA MineRemoved ==
    ASSUME TypeOK, NEW i, NEW t, NEW n, NEW s, Mine(i, t, n, s),
           nodes' = [nodes EXCEPT ![i] = Unused(@.size)],
           UNCHANGED <<current_dir, before>>, before[2] = fds', before = <<before[1], before[2]>>
    PROVE  /\ before' = Kept' /\ i \notin Live' /\ i \in Nodes /\ i # Root /\ Live' \subseteq Live \ {i}
           /\ \A j \in Live' : nodes'[j] = nodes[j]
<1>1. i \in Nodes /\ i # Root /\ nodes \in [Nodes -> NodeType]
  BY DEF TypeOK, Mine
<1>2. ~nodes'[i].used /\ \A j \in Nodes \ {i} : nodes'[j] = nodes[j]
  BY <1>1 DEF Unused
<1>3. before[1] = [j \in Nodes |-> IF nodes'[j].used THEN nodes'[j] ELSE Unused(0)]
  BY <1>2 DEF Mine
<1> QED
  BY <1>1, <1>2, <1>3 DEF Kept, Live

\* the calls with its descriptor
LEMMA HeldSlot == ASSUME NEW f, NEW i, NEW o, Held(f, i, o) PROVE IsFile(fd) /\ Slot(fd) = f /\ Opened(f)
BY Descriptors DEF Held, Opened

\* what the searches find after a call
LEMMA NotFoundAfter == ASSUME NEW n PROVE FindNode(n)' = None <=> NotNamed(n, {})'
<1> DEFINE S == {i \in Live' : nodes'[i].name = n /\ nodes'[i].parent = current_dir'}
<1>1. S \in SUBSET Nat
  BY FsSizes DEF Live, Nodes
<1>2. FindNode(n)' = IF S = {} THEN None ELSE Min(S)
  BY DEF FindNode
<1>3. (FindNode(n)' = None /\ S = {}) \/ (FindNode(n)' \in S /\ FindNode(n)' # None)
  BY <1>1, <1>2, SearchFinds
<1>4. NotNamed(n, {})' <=> S = {}
  BY DEF NotNamed
<1> HIDE DEF S
<1> QED
  BY <1>3, <1>4

LEMMA FreeNodeAfter == ASSUME NEW i \in Nodes, i \notin Live', i # Root PROVE FreeNode' # None
<1> DEFINE S == Nodes \ (Live' \cup {Root})
<1>1. S \in SUBSET Nat /\ S # {}
  BY FsSizes DEF Nodes
<1>2. FreeNode' = IF S = {} THEN None ELSE Min(S)
  BY DEF FreeNode
<1> HIDE DEF S
<1> QED
  BY <1>1, <1>2, SearchFinds

LEMMA MineResized ==
    ASSUME TypeOK, NEW i, NEW t, NEW n, NEW s, Mine(i, t, n, s), NEW k,
           nodes' = [nodes EXCEPT ![i].size = k], UNCHANGED <<current_dir, before>>
    PROVE  Mine(i, t, n, k)'
<1>1. i \in Nodes /\ nodes \in [Nodes -> NodeType]
  BY DEF TypeOK, Mine
<1>2. /\ nodes'[i].used /\ nodes'[i].type = t /\ nodes'[i].size = k
      /\ nodes'[i].name = n /\ nodes'[i].parent = current_dir
  <2>1. nodes'[i] = [nodes[i] EXCEPT !.size = k] /\ nodes[i] \in NodeType
    BY <1>1
  <2> QED
    BY <2>1 DEF Mine, NodeType
<1>3. \A j \in Nodes \ {i} : nodes'[j] = nodes[j]
  BY <1>1
<1>4. Live' = Live /\ \A j \in Nodes : nodes'[j].parent = nodes[j].parent
  BY <1>1, <1>2, <1>3 DEF Live, Mine
<1>5. NotNamed(n, {i})' /\ Children(i)' = {}
  BY <1>3, <1>4 DEF Mine, NotNamed, Children, Live
<1>6. before[1] = [j \in Nodes |-> IF j # i /\ nodes'[j].used THEN nodes'[j] ELSE Unused(0)]
  BY <1>3 DEF Mine
<1> QED
  BY <1>1, <1>2, <1>5, <1>6 DEF Mine

LEMMA MineSame ==
    ASSUME NEW i, NEW t, NEW n, NEW s, Mine(i, t, n, s), UNCHANGED <<nodes, current_dir, before>>
    PROVE  Mine(i, t, n, s)'
BY DEF Mine, NotNamed, Children, Live

LEMMA HeldMoved ==
    ASSUME TypeOK, NEW f, NEW i, NEW o, Held(f, i, o), NEW k,
           fds' = [fds EXCEPT ![f].offset = k], UNCHANGED <<fd, before>>
    PROVE  Held(f, i, k)'
<1>1. f \in Fds /\ fds \in [Fds -> FdType]
  BY DEF TypeOK, Held
<1>2. /\ fds'[f].used /\ fds'[f].node = i /\ fds'[f].offset = k
      /\ fds'[f].mode = "RDWR" /\ fds'[f].append = FALSE
  <2>1. fds'[f] = [fds[f] EXCEPT !.offset = k] /\ fds[f] \in FdType
    BY <1>1
  <2> QED
    BY <2>1 DEF Held, FdType
<1>3. [fds' EXCEPT ![f] = Closed] = [fds EXCEPT ![f] = Closed]
  BY <1>1
<1> QED
  BY <1>2, <1>3 DEF Held

Ready == TypeOK /\ Tree /\ Clean /\ Stage

TestSizes == TestBytes \in Nat /\ TestBytes < MaxData /\ MaxData \in Nat /\ MaxData > 1

LEMMA TestValues == TestSizes
BY TestAssumption, FsSizes DEF TestSizes

\* mkdir, and rmdir of it
LEMMA TestMkdir ==
    ASSUME Ready, test = 1, TestCall
    PROVE  Stage'
<1>1. /\ Make(TestDir, "DIR") /\ passed' = (passed /\ answer' = "ok") /\ test' = 2
      /\ UNCHANGED <<before, fd>>
  BY DEF TestCall, sys_mkdir, Passes
<1>2. Prepared /\ before = Kept /\ passed
  BY DEF Ready, Stage
<1>3. CanMake(TestDir)
  BY <1>2, TestAssumption DEF CanMake, Prepared
<1>4. nodes' = Made(TestDir, "DIR") /\ answer' = "ok" /\ UNCHANGED <<fds, current_dir>>
  BY <1>1, <1>3 DEF Make
<1>5. PICK k : k = FreeNode
  OBVIOUS
<1>6. /\ Mine(k, "DIR", TestDir, 0)' /\ k \in Nodes
      /\ \A m : NotNamed(m, {}) => NotNamed(m, {k})'
  BY <1>1, <1>2, <1>4, <1>5, MadeMine, TestAssumption DEF Ready, Prepared
<1>7. NotNamed(TestFile, {k})'
  BY <1>2, <1>6, NotFound DEF Prepared
<1>8. before'[2] = fds' /\ FreeFd' # None /\ before' = <<before'[1], before'[2]>>
  BY <1>1, <1>2, <1>4 DEF Kept, FreeFd, Prepared
<1>9. passed'
  BY <1>1, <1>2, <1>4
<1>10. Listed'
  BY <1>6, <1>7 DEF Listed
<1> QED
  BY <1>1, <1>8, <1>9, <1>10 DEF Stage, TestsDone

LEMMA TestRmdir ==
    ASSUME Ready, test = 2, TestCall
    PROVE  Stage'
<1>1. /\ Remove(TestDir, {"DIR"}) /\ passed' = (passed /\ answer' = "ok") /\ test' = 3
      /\ UNCHANGED <<before, fd>>
  BY DEF TestCall, sys_rmdir, Rmdir, Passes
<1>2. /\ before[2] = fds /\ FreeFd # None /\ before = <<before[1], before[2]>> /\ passed
      /\ Listed
  BY DEF Ready, Stage
<1>3. PICK i \in Nodes : Mine(i, "DIR", TestDir, 0) /\ NotNamed(TestFile, {i})
  BY <1>2 DEF Listed
<1>4. FindNode(TestDir) = i /\ i # Root /\ i # None
  BY <1>3, MineFound, Sizes DEF Mine
<1>5. nodes' = [nodes EXCEPT ![i] = Unused(@.size)] /\ answer' = "ok" /\ UNCHANGED <<fds, current_dir>>
  BY <1>1, <1>3, <1>4 DEF Remove, Mine
<1>6. /\ before' = Kept' /\ i \notin Live' /\ Live' \subseteq Live \ {i}
      /\ \A j \in Live' : nodes'[j] = nodes[j]
  BY <1>1, <1>2, <1>3, <1>5, MineRemoved DEF Ready
<1>7. FindNode(TestFile)' = None
  <2>1. NotNamed(TestFile, {})'
    BY <1>3, <1>5, <1>6 DEF NotNamed
  <2> QED
    BY <2>1, NotFoundAfter
<1>8. FreeNode' # None
  BY <1>4, <1>6, FreeNodeAfter
<1>9. FreeFd' # None
  BY <1>2, <1>5 DEF FreeFd
<1>10. passed' /\ before' = <<before'[1], before'[2]>>
  BY <1>1, <1>2, <1>5
<1> QED
  BY <1>1, <1>6, <1>7, <1>8, <1>9, <1>10 DEF Stage, TestsDone

LEMMA TestOpen ==
    ASSUME Ready, test = 3, TestCall
    PROVE  Stage'
<1>1. /\ Open(TestFile, TestFlags) /\ passed' = (passed /\ fd' >= FirstFile) /\ test' = 4
      /\ UNCHANGED before
      /\ fd' = IF answer' = "ok" THEN DescriptorOf(FreeFd) ELSE None
  BY DEF TestCall, sys_open, Passes
<1>2. /\ FindNode(TestFile) = None /\ FreeNode # None /\ FreeFd # None /\ before = Kept
      /\ passed
  BY DEF Ready, Stage
<1>3. /\ ~TestFlags.trunc /\ TestFlags.creat /\ TestFlags.mode = "RDWR" /\ TestFlags.append = FALSE
      /\ CanMake(TestFile)
  BY <1>2, TestAssumption DEF CanMake
<1>4. PICK i, f : i = FreeNode /\ f = FreeFd
  OBVIOUS
<1>5. f \in Fds /\ ~fds[f].used /\ f \in Nat /\ i \in Nodes /\ i # None
  BY <1>2, <1>4, FreeFdFinds, FreeNodeFinds, FsSizes DEF Fds
<1>6. Made(TestFile, "FILE")[i].type = "FILE"
  BY <1>4, <1>5 DEF Made, Fresh, Ready, TypeOK
<1>7. /\ nodes' = Made(TestFile, "FILE") /\ answer' = "ok" /\ UNCHANGED current_dir
      /\ fds' = [fds EXCEPT ![f] =
           [used |-> TRUE, node |-> i, mode |-> "RDWR", append |-> FALSE, offset |-> 0]]
  BY <1>1, <1>2, <1>3, <1>4, <1>5, <1>6 DEF Open
<1>8. Mine(i, "FILE", TestFile, 0)'
  BY <1>1, <1>2, <1>4, <1>7, MadeMine, TestAssumption DEF Ready
<1>9. fd' = DescriptorOf(f) /\ fd' >= FirstFile
  BY <1>1, <1>4, <1>5, <1>7 DEF DescriptorOf, FirstFile
<1>10. Held(f, i, 0)'
  <2>1. fds \in [Fds -> FdType] /\ fds[f] = Closed
    BY <1>5 DEF Ready, TypeOK, Clean
  <2>2. fds'[f] = [used |-> TRUE, node |-> i, offset |-> 0, mode |-> "RDWR", append |-> FALSE]
    BY <1>5, <1>7, <2>1
  <2>3. [fds' EXCEPT ![f] = Closed] = fds
    BY <1>5, <1>7, <2>1
  <2>4. before'[2] = fds
    BY <1>1, <1>2 DEF Kept
  <2> QED
    BY <1>5, <1>9, <2>2, <2>3, <2>4 DEF Held
<1>11. before' = <<before'[1], before'[2]>>
  BY <1>1, <1>2 DEF Kept
<1>12. passed'
  BY <1>1, <1>2, <1>9
<1>13. Working(0, 0)'
  BY <1>5, <1>8, <1>10 DEF Working
<1> QED
  BY <1>1, <1>11, <1>12, <1>13 DEF Stage, TestsDone

\* write, and back to the start with lseek
LEMMA TestWrite ==
    ASSUME Ready, test = 4, TestCall
    PROVE  Stage'
<1>1. /\ sys_write(fd, TestBytes) /\ test' = 5 /\ UNCHANGED <<before, fd>>
      /\ passed' = (passed /\ (answer' = "ok" /\ fds'[Slot(fd)].offset = fds[Slot(fd)].offset + TestBytes))
  BY DEF TestCall, Passes
<1>2. before = <<before[1], before[2]>> /\ passed /\ Working(0, 0)
  BY DEF Ready, Stage
<1>3. PICK i \in Nodes, f \in Fds : Mine(i, "FILE", TestFile, 0) /\ Held(f, i, 0)
  BY <1>2 DEF Working
<1>4. IsFile(fd) /\ Slot(fd) = f /\ Opened(f)
  BY <1>3, HeldSlot
<1>5. /\ fds[f].node = i /\ fds[f].offset = 0 /\ fds[f].mode = "RDWR" /\ fds[f].append = FALSE
      /\ nodes[i].size = 0
  BY <1>3 DEF Mine, Held
<1>6. /\ 0 + Least(TestBytes, Room(0)) = TestBytes /\ ~(0 >= MaxData - 1)
      /\ (IF TestBytes > 0 THEN TestBytes ELSE 0) = TestBytes /\ 0 + TestBytes = TestBytes
  BY TestValues DEF TestSizes, Least, Room
<1>7. WriteFd(f, TestBytes)
  BY <1>1, <1>4 DEF sys_write
<1>8. /\ nodes' = [nodes EXCEPT ![i].size = TestBytes] /\ fds' = [fds EXCEPT ![f].offset = TestBytes]
      /\ answer' = "ok" /\ UNCHANGED current_dir
  BY <1>4, <1>5, <1>6, <1>7 DEF WriteFd
<1>9. Mine(i, "FILE", TestFile, TestBytes)'
  BY <1>1, <1>3, <1>8, MineResized DEF Ready
<1>10. Held(f, i, TestBytes)'
  BY <1>1, <1>3, <1>8, HeldMoved DEF Ready
<1>11. passed'
  BY <1>1, <1>2, <1>4, <1>5, <1>6, <1>8, <1>10 DEF Held
<1>12. Working(TestBytes, TestBytes)'
  BY <1>3, <1>9, <1>10 DEF Working
<1>13. before' = <<before'[1], before'[2]>>
  BY <1>1, <1>2
<1> QED
  BY <1>1, <1>11, <1>12, <1>13 DEF Stage, TestsDone

LEMMA TestLseek ==
    ASSUME Ready, test = 5, TestCall
    PROVE  Stage'
<1>1. /\ sys_lseek(fd, 0, "SET") /\ test' = 6 /\ UNCHANGED <<before, fd>>
      /\ passed' = (passed /\ (answer' = "ok" /\ fds'[Slot(fd)].offset = 0))
  BY DEF TestCall, Passes
<1>2. before = <<before[1], before[2]>> /\ passed /\ Working(TestBytes, TestBytes)
  BY DEF Ready, Stage
<1>3. PICK i \in Nodes, f \in Fds : /\ Mine(i, "FILE", TestFile, TestBytes)
                                    /\ Held(f, i, TestBytes)
  BY <1>2 DEF Working
<1>4. IsFile(fd) /\ Slot(fd) = f /\ Opened(f)
  BY <1>3, HeldSlot
<1>5. /\ fds' = [fds EXCEPT ![f].offset = 0] /\ answer' = "ok" /\ UNCHANGED <<nodes, current_dir>>
  BY <1>1, <1>4, TestValues DEF sys_lseek, Lseek, TestSizes
<1>6. Mine(i, "FILE", TestFile, TestBytes)'
  BY <1>1, <1>3, <1>5, MineSame
<1>7. Held(f, i, 0)'
  BY <1>1, <1>3, <1>5, HeldMoved DEF Ready
<1>8. passed'
  BY <1>1, <1>2, <1>4, <1>5, <1>7 DEF Held
<1>9. Working(TestBytes, 0)'
  BY <1>3, <1>6, <1>7 DEF Working
<1>10. before' = <<before'[1], before'[2]>>
  BY <1>1, <1>2
<1> QED
  BY <1>1, <1>8, <1>9, <1>10 DEF Stage, TestsDone

\* read of what was written, and close
LEMMA TestRead ==
    ASSUME Ready, test = 6, TestCall
    PROVE  Stage'
<1>1. /\ sys_read(fd, TestBytes) /\ test' = 7 /\ UNCHANGED <<before, fd>>
      /\ passed' = (passed /\ (answer' = "ok" /\ Returned(fd, TestBytes) = TestBytes))
  BY DEF TestCall, Passes
<1>2. before = <<before[1], before[2]>> /\ passed /\ Working(TestBytes, 0)
  BY DEF Ready, Stage
<1>3. PICK i \in Nodes, f \in Fds : Mine(i, "FILE", TestFile, TestBytes) /\ Held(f, i, 0)
  BY <1>2 DEF Working
<1>4. IsFile(fd) /\ Slot(fd) = f /\ Opened(f)
  BY <1>3, HeldSlot
<1>5. /\ fds[f].node = i /\ fds[f].offset = 0 /\ fds[f].mode = "RDWR"
      /\ nodes[i].size = TestBytes
  BY <1>3 DEF Mine, Held
<1>6. /\ (IF 0 >= TestBytes THEN 0 ELSE 0 + Least(TestBytes, TestBytes - 0)) = TestBytes
      /\ (IF 0 >= TestBytes THEN 0 ELSE Least(TestBytes, TestBytes - 0)) = TestBytes
  BY TestValues DEF TestSizes, Least
<1>7. ReadFd(f, TestBytes)
  BY <1>1, <1>4 DEF sys_read
<1>8. /\ fds' = [fds EXCEPT ![f].offset = TestBytes] /\ answer' = "ok"
      /\ UNCHANGED <<nodes, current_dir>>
  BY <1>4, <1>5, <1>6, <1>7 DEF ReadFd
<1>9. Returned(fd, TestBytes) = TestBytes
  BY <1>4, <1>5, <1>6 DEF Returned
<1>10. Mine(i, "FILE", TestFile, TestBytes)'
  BY <1>1, <1>3, <1>8, MineSame
<1>11. Held(f, i, TestBytes)'
  BY <1>1, <1>3, <1>8, HeldMoved DEF Ready
<1>12. passed'
  BY <1>1, <1>2, <1>8, <1>9
<1>13. Working(TestBytes, TestBytes)'
  BY <1>3, <1>10, <1>11 DEF Working
<1>14. before' = <<before'[1], before'[2]>>
  BY <1>1, <1>2
<1> QED
  BY <1>1, <1>12, <1>13, <1>14 DEF Stage, TestsDone

LEMMA TestClose ==
    ASSUME Ready, test = 7, TestCall
    PROVE  Stage'
<1>1. /\ sys_close(fd) /\ test' = 8 /\ UNCHANGED before /\ passed' = (passed /\ answer' = "ok")
  BY DEF TestCall, Passes
<1>2. before = <<before[1], before[2]>> /\ passed /\ Working(TestBytes, TestBytes)
  BY DEF Ready, Stage
<1>3. PICK i \in Nodes, f \in Fds : /\ Mine(i, "FILE", TestFile, TestBytes)
                                    /\ Held(f, i, TestBytes)
  BY <1>2 DEF Working
<1>4. IsFile(fd) /\ Slot(fd) = f /\ Opened(f)
  BY <1>3, HeldSlot
<1>5. /\ fds' = [fds EXCEPT ![f] = Closed] /\ answer' = "ok" /\ UNCHANGED <<nodes, current_dir>>
  BY <1>1, <1>4 DEF sys_close, Close
<1>6. Mine(i, "FILE", TestFile, TestBytes)'
  BY <1>1, <1>3, <1>5, MineSame
<1>7. before'[2] = fds'
  BY <1>1, <1>3, <1>5 DEF Held
<1>8. passed' /\ before' = <<before'[1], before'[2]>>
  BY <1>1, <1>2, <1>5
<1>9. Stored'
  BY <1>3, <1>6 DEF Stored
<1> QED
  BY <1>1, <1>7, <1>8, <1>9 DEF Stage, TestsDone

\* stat of the closed file, and unlink
LEMMA TestStat ==
    ASSUME Ready, test = 8, TestCall
    PROVE  Stage'
<1>1. /\ UNCHANGED vars /\ test' = 9 /\ UNCHANGED before
      /\ passed' = (passed /\ (FindNode(TestFile) # None /\ nodes[FindNode(TestFile)].size = TestBytes))
  BY DEF TestCall, Passes
<1>2. before[2] = fds /\ before = <<before[1], before[2]>> /\ passed /\ Stored
  BY DEF Ready, Stage
<1>3. PICK i \in Nodes : Mine(i, "FILE", TestFile, TestBytes)
  BY <1>2 DEF Stored
<1>4. FindNode(TestFile) = i /\ i # None /\ nodes[i].size = TestBytes
  BY <1>3, MineFound, Sizes DEF Mine
<1>5. Mine(i, "FILE", TestFile, TestBytes)'
  BY <1>1, <1>3, MineSame DEF vars
<1>6. passed'
  BY <1>1, <1>2, <1>4
<1>7. before'[2] = fds' /\ before' = <<before'[1], before'[2]>>
  BY <1>1, <1>2 DEF vars
<1>8. Stored'
  BY <1>3, <1>5 DEF Stored
<1> QED
  BY <1>1, <1>6, <1>7, <1>8 DEF Stage, TestsDone

LEMMA TestUnlink ==
    ASSUME Ready, test = 9, TestCall
    PROVE  Stage'
<1>1. /\ Remove(TestFile, {"FILE"}) /\ passed' = (passed /\ answer' = "ok") /\ test' = 10
      /\ UNCHANGED before
  BY DEF TestCall, sys_unlink, Unlink, Passes
<1>2. before[2] = fds /\ before = <<before[1], before[2]>> /\ passed /\ Stored
  BY DEF Ready, Stage
<1>3. PICK i \in Nodes : Mine(i, "FILE", TestFile, TestBytes)
  BY <1>2 DEF Stored
<1>4. FindNode(TestFile) = i /\ i # Root /\ i # None
  BY <1>3, MineFound, Sizes DEF Mine
<1>5. nodes' = [nodes EXCEPT ![i] = Unused(@.size)] /\ answer' = "ok" /\ UNCHANGED <<fds, current_dir>>
  BY <1>1, <1>3, <1>4 DEF Remove, Mine
<1>6. before' = Kept'
  BY <1>1, <1>2, <1>3, <1>5, MineRemoved DEF Ready
<1>7. passed' /\ before' = <<before'[1], before'[2]>>
  BY <1>1, <1>2, <1>5
<1> QED
  BY <1>1, <1>6, <1>7 DEF Stage, TestsDone

\* every step
LEMMA CleanSteps == TypeOK /\ Clean /\ [Next]_vars => Clean'
<1> SUFFICES ASSUME TypeOK, Clean, [Next]_vars PROVE Clean'
  OBVIOUS
<1> USE DEF TypeOK
<1>1. ASSUME UNCHANGED fds PROVE Clean'
  BY <1>1 DEF Clean
<1>2. ASSUME NEW f, Opened(f), NEW k, fds' = [fds EXCEPT ![f].offset = k] PROVE Clean'
  <2>1. f \in Fds /\ fds[f].used /\ fds[f] \in FdType /\ fds'[f] = [fds[f] EXCEPT !.offset = k]
    BY <1>2 DEF Opened
  <2>2. fds'[f].used /\ \A g \in Fds \ {f} : fds'[g] = fds[g]
    BY <1>2, <2>1 DEF FdType
  <2> QED
    BY <2>2 DEF Clean
<1>3. ASSUME NEW n, NEW flags, Open(n, flags) PROVE Clean'
  <2>1. CASE answer' = "ok"
    <3>1. PICK r : r.used /\ FreeFd # None /\ fds' = [fds EXCEPT ![FreeFd] = r]
      BY <1>3, <2>1 DEF Open, Answer
    <3>2. FreeFd \in Fds
      BY <3>1, FreeFdFinds
    <3> QED
      BY <3>1, <3>2 DEF Clean
  <2>2. CASE answer' # "ok"
    BY <1>1, <1>3, <2>2 DEF Open, Answer
  <2> QED
    BY <2>1, <2>2
<1>4. ASSUME NEW f, Close(f) PROVE Clean'
  <2>1. CASE UNCHANGED fds
    BY <1>1, <2>1
  <2>2. CASE Opened(f) /\ fds' = [fds EXCEPT ![f] = Closed]
    BY <2>2 DEF Clean, Opened
  <2> QED
    BY <1>4, <2>1, <2>2 DEF Close, Answer
<1>5. ASSUME NEW f, NEW n, NEW w, ReadFd(f, n) \/ WriteFd(f, n) \/ Lseek(f, n, w) PROVE Clean'
  <2>1. UNCHANGED fds \/ (Opened(f) /\ \E k : fds' = [fds EXCEPT ![f].offset = k])
    BY <1>5 DEF ReadFd, WriteFd, Lseek, Answer
  <2> QED
    BY <1>1, <1>2, <2>1
<1>6. ASSUME NEW n, NEW t, Make(n, t) \/ WriteFile(n, t) \/ Remove(n, t) \/ Cd(n) PROVE Clean'
  BY <1>1, <1>6 DEF Make, WriteFile, Remove, Cd, Enter, Answer
<1>7. CASE Next
  BY <1>3, <1>4, <1>5, <1>6, <1>7, Zenon DEF Next, Delete, Unlink, Rmdir
<1>8. CASE UNCHANGED vars
  BY <1>1, <1>8 DEF vars
<1> QED
  BY <1>7, <1>8

LEMMA StageSteps == Ready /\ [SysNext]_allvars => Stage'
<1> SUFFICES ASSUME Ready, [SysNext]_allvars PROVE Stage'
  OBVIOUS
<1>1. CASE test = 0 /\ UNCHANGED testing
  BY <1>1 DEF testing, Ready, Stage
<1>2. CASE TestStart
  <2>1. UNCHANGED <<nodes, fds, current_dir>> /\ Prepared /\ test' = 1 /\ passed' /\ before' = Kept
    BY <1>2 DEF TestStart, vars
  <2>2. Prepared'
    BY <2>1 DEF Prepared, FindNode, FreeNode, FreeFd, Live
  <2>3. before' = Kept' /\ before' = <<before'[1], before'[2]>>
    BY <2>1 DEF Kept
  <2> QED
    BY <2>1, <2>2, <2>3 DEF Stage, TestsDone
<1>3. CASE TestCall
  <2>1. test \in 1 .. 9
    BY <1>3 DEF TestCall
  <2> QED
    BY <1>3, <2>1, TestMkdir, TestRmdir, TestOpen, TestWrite, TestLseek, TestRead, TestClose,
       TestStat, TestUnlink
<1>4. CASE TestEnd
  BY <1>4 DEF TestEnd, Stage, TestsDone
<1>5. CASE UNCHANGED allvars
  <2>1. UNCHANGED <<nodes, fds, current_dir, test, fd, passed, before>>
    BY <1>5 DEF allvars, vars, testing
  <2>2. UNCHANGED <<Prepared, Kept, FreeFd, FreeNode, FindNode(TestFile)>>
    BY <2>1 DEF Prepared, FindNode, FreeNode, FreeFd, Live, Kept
  <2>3. UNCHANGED <<Listed, Stored, Working(0, 0), Working(TestBytes, TestBytes), Working(TestBytes, 0)>>
    BY <2>1 DEF Listed, Stored, Working, Mine, Held, NotNamed, Children, Live
  <2> QED
    BY <2>1, <2>2, <2>3 DEF Ready, Stage
<1> QED
  BY <1>1, <1>2, <1>3, <1>4, <1>5, Zenon DEF SysNext

(* The syscall command prints no FAIL, and it leaves the files and            *)
(* descriptors that it found, from every state in which it has what it needs.  *)
THEOREM TestsAlwaysPass == SysSpec => []TestsPass
<1>1. SysInit => Clean /\ Stage
  BY DEF SysInit, Init, Clean, Closed, Stage, TestsDone
<1>2. TypeOK /\ Clean /\ [Next]_vars => Clean'
  BY CleanSteps
<1>3. TypeOK /\ Tree /\ Clean /\ Stage /\ [SysNext]_allvars => Stage'
  BY StageSteps DEF Ready
<1>4. Stage => TestsPass
  BY DEF Stage, TestsPass, TestsDone
<1> QED
  BY <1>1, <1>2, <1>3, <1>4, SyscallsImplementFs, FsTyped, DirectoriesFormTree,
     PTL DEF SysSpec, Spec
=============================================================================
