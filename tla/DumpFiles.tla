------------------------------ MODULE DumpFiles ------------------------------
(***************************************************************************)
(* Files as the modem dump of dumpstate/DumpstateDevice.cpp reads and      *)
(* writes them: a file is a sequence of blocks of the tar's block size, a  *)
(* directory a function from the names it holds to files.  Every file the  *)
(* code writes is opened with O_CREAT and without O_TRUNC, so what an      *)
(* older file held behind the new contents stays.                          *)
(*                                                                         *)
(* The name of a log is a record: the place it comes from, and its rank    *)
(* among the logs of that place in the order of their names, which is      *)
(* their age.                                                              *)
(***************************************************************************)
EXTENDS Integers, Sequences, FiniteSets

NoDir == [name \in {} |-> <<>>]

\* The file after new was written at an offset of at blocks.
Overwrite(file, at, new) ==
    SubSeq(file, 1, at) \o new \o SubSeq(file, at + Len(new) + 1, Len(file))

\* copyFile(): the copy starts at the beginning of whatever has that name.
CopyOnto(dir, name, contents) ==
    [n \in DOMAIN dir \cup {name} |->
        IF n # name THEN dir[n]
        ELSE Overwrite(IF name \in DOMAIN dir THEN dir[name] ELSE <<>>, 0, contents)]

\* A block is told apart by its log, the version of it and its place in it.
DataBlock(name, version, i) == [name |-> name, version |-> version, block |-> i]

\* tarHeader() and what createTarFile() writes behind it.
TarHeader(name, size) == [name |-> name, size |-> size]
TarMember(name, contents) == <<TarHeader(name, Len(contents))>> \o contents

\* Reference for dumpLogs(): the maxFileNum newest, or all for -1.
Newest(names, maxFileNum) ==
    {n \in names : \/ maxFileNum = -1
                   \/ Cardinality({m \in names : m.rank > n.rank}) < maxFileNum}
==============================================================================
