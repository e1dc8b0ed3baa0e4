-------------------------------- MODULE MCFs --------------------------------
(* A directory under the root and room for one or two more nodes.            *)
EXTENDS Fs
Dirs  == <<"d">>
Files == <<>>

Flags(mode, creat, trunc, append) ==
    [mode |-> mode, creat |-> creat, trunc |-> trunc, append |-> append]

\* to read, to write a new file, to write one anew, to read and append
MCFlags == {Flags("RDONLY", FALSE, FALSE, FALSE), Flags("WRONLY", TRUE, FALSE, FALSE),
            Flags("RDWR", TRUE, TRUE, FALSE), Flags("RDWR", FALSE, FALSE, TRUE)}

\* back, nowhere, and past the end
MCSeeks == {-1, 0, 2}
=============================================================================
