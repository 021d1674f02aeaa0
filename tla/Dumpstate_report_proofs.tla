------------------------- MODULE Dumpstate_report_proofs -------------------------
(***************************************************************************)
(* Proofs about what a dump of Dumpstate sends: everything that it has     *)
(* read, and nothing else.                                                 *)
(***************************************************************************)
EXTENDS Dumpstate_proofs
------------------------------------------------------------------------------
(* Files                                                                   *)

\* The blocks of a file that new contents were written over: those before the place they
\* were written at, the new ones, and what is behind them.
LEMMA OverwriteBlocks ==
    ASSUME NEW B, NEW file \in Seq(B), NEW new \in Seq(B), NEW at \in 0..Len(file)
    PROVE  /\ \A i \in 1..at : Overwrite(file, at, new)[i] = file[i]
           /\ \A k \in 1..Len(new) : Overwrite(file, at, new)[at + k] = new[k]
           /\ \A i \in DOMAIN Overwrite(file, at, new) :
                 i > at + Len(new) => i \in DOMAIN file /\ Overwrite(file, at, new)[i] = file[i]
<1> DEFINE front == SubSeq(file, 1, at)
           from == at + Len(new) + 1
           back == SubSeq(file, from, Len(file))
<1>1. /\ Len(file) \in Nat /\ Len(new) \in Nat /\ at \in Nat /\ at <= Len(file)
      /\ DOMAIN file = 1..Len(file)
  BY LenProperties
<1>2. from \in Int
  BY <1>1
<1>3. front \in Seq(B) /\ Len(front) = at /\ \A i \in 1..at : front[i] = file[i]
  <2>1. \A i \in 1..at : file[i] \in B
    BY <1>1, LenProperties
  <2> QED  BY <2>1, <1>1, SubSeqProperties
<1>4. /\ back \in Seq(B) /\ Len(back) \in Nat
      /\ Len(back) = IF from <= Len(file) THEN Len(file) - from + 1 ELSE 0
      /\ \A j \in 1..(Len(file) - from + 1) : back[j] = file[from + j - 1]
  <2>1. \A j \in from .. Len(file) : file[j] \in B
    BY <1>1, LenProperties
  <2> HIDE DEF from, front
  <2>2. /\ back \in Seq(B)
        /\ Len(back) = IF from <= Len(file) THEN Len(file) - from + 1 ELSE 0
        /\ \A j \in 1..(Len(file) - from + 1) : back[j] = file[from + j - 1]
    BY <1>1, <1>2, <2>1, SubSeqProperties
  <2> HIDE DEF back
  <2> QED  BY <2>2, LenProperties
<1>5. Overwrite(file, at, new) = (front \o new) \o back
  BY DEF Overwrite
<1> HIDE DEF front, back
<1> DEFINE first == front \o new
<1>6. /\ first \in Seq(B) /\ Len(first) = at + Len(new)
      /\ \A i \in 1..(at + Len(new)) : first[i] = IF i <= at THEN front[i] ELSE new[i - at]
  BY <1>3, ConcatProperties
<1>7. Overwrite(file, at, new) = first \o back
  BY <1>5
<1> HIDE DEF first, from
<1>8. /\ Len(first \o back) = at + Len(new) + Len(back) /\ first \o back \in Seq(B)
      /\ \A i \in 1..(at + Len(new) + Len(back)) :
            (first \o back)[i] = IF i <= at + Len(new) THEN first[i] ELSE back[i - (at + Len(new))]
  <2>1. /\ Len(first \o back) = Len(first) + Len(back) /\ first \o back \in Seq(B)
        /\ \A i \in 1..(Len(first) + Len(back)) :
              (first \o back)[i] = IF i <= Len(first) THEN first[i] ELSE back[i - Len(first)]
    BY <1>4, <1>6, ConcatProperties
  <2> QED  BY <1>6, <2>1
<1>9. ASSUME NEW i \in 1..at
      PROVE  (first \o back)[i] = file[i]
  <2>1. i \in 1..(at + Len(new)) /\ i \in 1..(at + Len(new) + Len(back)) /\ i <= at /\ i <= at + Len(new)
    BY <1>1, <1>4
  <2> QED  BY <1>3, <1>6, <1>8, <2>1
<1>10. ASSUME NEW k \in 1..Len(new)
      PROVE  (first \o back)[at + k] = new[k]
  <2>1. /\ at + k \in 1..(at + Len(new)) /\ at + k \in 1..(at + Len(new) + Len(back))
        /\ ~(at + k <= at) /\ at + k <= at + Len(new) /\ (at + k) - at = k
    BY <1>1, <1>4
  <2> QED  BY <1>6, <1>8, <2>1
<1>11. ASSUME NEW i \in DOMAIN (first \o back), i > at + Len(new)
       PROVE  i \in DOMAIN file /\ (first \o back)[i] = file[i]
  <2>1. i \in 1..(at + Len(new) + Len(back))
    BY <1>8, LenProperties
  <2>2. i - (at + Len(new)) \in 1..Len(back) /\ ~(i <= at + Len(new))
    BY <1>1, <1>4, <1>11, <2>1
  <2>3. from <= Len(file) /\ Len(back) = Len(file) - from + 1
    BY <1>4, <2>2
  <2>4. i \in 1..Len(file) /\ from + (i - (at + Len(new))) - 1 = i
        /\ i - (at + Len(new)) \in 1..(Len(file) - from + 1)
    BY <1>1, <1>4, <2>1, <2>2, <2>3 DEF from
  <2>5. (first \o back)[i] = back[i - (at + Len(new))]
    BY <1>8, <2>1, <2>2
  <2>6. back[i - (at + Len(new))] = file[i]
    BY <1>4, <2>4
  <2> QED  BY <1>1, <2>4, <2>5, <2>6
<1> QED  BY <1>7, <1>9, <1>10, <1>11

\* What is written at the end of a file is appended to it.
LEMMA OverwriteEnd ==
    ASSUME NEW B, NEW file \in Seq(B), NEW new \in Seq(B)
    PROVE  Overwrite(file, Len(file), new) = file \o new
<1>1. Len(file) \in Nat /\ Len(new) \in Nat
  BY LenProperties
<1>2. SubSeq(file, 1, Len(file)) = file
  BY SubSeqFull
<1>3. SubSeq(file, Len(file) + Len(new) + 1, Len(file)) = <<>>
  BY <1>1, SubSeqEmpty
<1>4. file \o new \in Seq(B)
  BY ConcatProperties
<1> QED  BY <1>2, <1>3, <1>4, ConcatEmptySeq DEF Overwrite

\* The header and the blocks of an entry of the tar file.
LEMMA MemberBlocks ==
    ASSUME NEW name \in Names, NEW file \in Seq(Blocks), Len(file) <= MaxBlocks + 2
    PROVE  \A k \in 1..(Len(file) + 1) :
              TarMember(name, file)[k] = IF k = 1 THEN TarHeader(name, Len(file)) ELSE file[k - 1]
<1> DEFINE header == <<TarHeader(name, Len(file))>>
<1>1. /\ TarHeader(name, Len(file)) \in Blocks /\ Len(file) \in Nat
      /\ header \in Seq(Blocks) /\ Len(header) = 1 /\ header[1] = TarHeader(name, Len(file))
  <2>1. Len(file) \in 0..(MaxBlocks + 2)
    BY LenProperties, LogAssumption
  <2>2. TarHeader(name, Len(file)) \in Blocks
    BY <2>1 DEF TarHeader, Blocks
  <2> QED  BY <2>1, <2>2
<1>2. TarMember(name, file) = header \o file
  BY DEF TarMember
<1> HIDE DEF header
<1>3. \A k \in 1..(Len(header) + Len(file)) :
         (header \o file)[k] = IF k <= Len(header) THEN header[k] ELSE file[k - Len(header)]
  BY <1>1, ConcatProperties
<1>4. ASSUME NEW k \in 1..(Len(file) + 1)
      PROVE  (header \o file)[k] = IF k = 1 THEN TarHeader(name, Len(file)) ELSE file[k - 1]
  <2>1. k \in 1..(Len(header) + Len(file)) /\ (k <= Len(header) <=> k = 1)
    BY <1>1
  <2>2. (header \o file)[k] = IF k = 1 THEN header[k] ELSE file[k - Len(header)]
    BY <1>3, <2>1
  <2> QED  BY <1>1, <2>2
<1> QED  BY <1>2, <1>4
------------------------------------------------------------------------------
(* The inductive invariant, in parts                                       *)

\* A block of a file says whose it is and where it stands, also where a shorter version
\* of the file was written over a longer one.
OwnBlocks(name, file) ==
    \A i \in DOMAIN file :
       /\ DOMAIN file[i] = {"name", "version", "block"}
       /\ file[i].name = name /\ file[i].block = i
FilesInv == \A n \in DOMAIN h.copied : OwnBlocks(n, h.copied[n])

\* The directory holds what this dump has read; nothing is left of it.
SameFiles ==
    /\ DOMAIN dir = DOMAIN h.copied
    /\ \A n \in DOMAIN dir : dir[n] = h.copied[n]
Removed == DOMAIN dir = {} /\ tar = <<>>

\* What is in a report, or in a tar file, is of some of the files, and in it once.
Reported(blocks, names) ==
    \A i \in DOMAIN blocks :
       /\ blocks[i].name \in names
       /\ "size" \in DOMAIN blocks[i] => blocks[i].size = Len(h.copied[blocks[i].name])
       /\ "block" \in DOMAIN blocks[i] =>
             blocks[i] \in {h.copied[blocks[i].name][j] : j \in DOMAIN h.copied[blocks[i].name]}
       /\ \A j \in DOMAIN blocks : blocks[i] = blocks[j] => i = j

\* A dump that has come to its end leaves nothing, whatever it has found.
RemovedInv ==
    "rm" \notin Faulty =>
       /\ mpc = "rmTar" => DOMAIN dir = {}
       /\ mpc = "done" /\ h.pipe # "unused" => Removed

\* A dump that finds nothing of an earlier one packs what it has read, each file once,
\* and the tar file ends where it writes.
CleanInv ==
    "rm" \notin Faulty /\ h.clean =>
       /\ mpc \notin {"rmTar", "done"} => SameFiles
       /\ mpc \notin {"pack", "send", "rmDir", "rmTar", "done"} => tar = <<>>
       /\ mpc = "done" => Removed
       /\ mpc = "pack" => m.tarLen = Len(tar) /\ Reported(tar, DOMAIN h.copied \ m.entries)
       /\ mpc = "send" => Reported(tar, DOMAIN h.copied)
       /\ h.pipe # "unused" => Reported(sent, DOMAIN h.copied)

StaleInv == FilesInv /\ RemovedInv /\ CleanInv

LEMMA StaleInit ==
    Init => StaleInv
BY DEF Init, StaleInv, FilesInv, RemovedInv, CleanInv, SameFiles, Removed, NoHistory, NoDir
------------------------------------------------------------------------------
(* What copyFile() and createTarFile() write                               *)

LEMMA ContentsOwn ==
    ASSUME LoggerType, NEW name \in Names,
           name.place = "diag" => name.rank \in DOMAIN diagLogs
    PROVE  OwnBlocks(name, Contents(name))
<1> USE DEF OwnBlocks, DataBlock
<1>1. CASE name.place = "diag"
  <2>1. Contents(name) = [i \in 1..diagLogs[name.rank] |-> DataBlock(name, 1, i)]
    BY <1>1 DEF Contents
  <2> QED  BY <2>1
<1>2. CASE name.place = "ril"
  <2>1. PICK size \in {1, 2} :
            Contents(name) = [i \in 1..size |-> DataBlock(name, rilVersion, i)]
    BY <1>2 DEF Contents
  <2> QED  BY <2>1
<1>3. CASE name.place \notin {"diag", "ril"}
  <2>1. Contents(name) = <<DataBlock(name, 1, 1)>>
    BY <1>3 DEF Contents
  <2> QED  BY <2>1
<1> QED  BY <1>1, <1>2, <1>3

LEMMA OverwriteOwn ==
    ASSUME NEW B, NEW file \in Seq(B), NEW new \in Seq(B), NEW name,
           OwnBlocks(name, file), OwnBlocks(name, new)
    PROVE  OwnBlocks(name, Overwrite(file, 0, new))
<1> SUFFICES ASSUME NEW i \in DOMAIN Overwrite(file, 0, new)
             PROVE  LET block == Overwrite(file, 0, new)[i] IN
                    /\ DOMAIN block = {"name", "version", "block"}
                    /\ block.name = name /\ block.block = i
  BY DEF OwnBlocks
<1>1. /\ Len(new) \in Nat /\ DOMAIN new = 1..Len(new) /\ 0 \in 0..Len(file)
      /\ i \in Nat /\ i >= 1
  <2>1. 0 \in 0..Len(file)
    BY LenProperties
  <2>2. Overwrite(file, 0, new) \in Seq(B)
    BY <2>1, OverwriteType
  <2> QED  BY <2>1, <2>2, LenProperties
<1>2. CASE i \in 1..Len(new)
  <2>1. Overwrite(file, 0, new)[0 + i] = new[i] /\ 0 + i = i
    BY <1>1, <1>2, OverwriteBlocks
  <2> QED  BY <1>1, <1>2, <2>1 DEF OwnBlocks
<1>3. CASE i > 0 + Len(new)
  <2>1. i \in DOMAIN file /\ Overwrite(file, 0, new)[i] = file[i]
    BY <1>1, <1>3, OverwriteBlocks
  <2> QED  BY <2>1 DEF OwnBlocks
<1> QED  BY <1>1, <1>2, <1>3

\* A copy that the history gets is the one the directory gets.
LEMMA CopyFileOwn ==
    ASSUME TypeInv, FilesInv, NEW name,
           name \in Names /\ name.place = "diag" => name.rank \in DOMAIN diagLogs,
           CopyFile(name)
    PROVE  FilesInv' /\ (SameFiles => SameFiles')
<1> USE DEF TypeInv, StateType
<1>1. CASE UNCHANGED <<dir, h>>
  BY <1>1 DEF FilesInv, OwnBlocks, SameFiles
<1>2. CASE /\ name \in Names
           /\ dir' = CopyOnto(dir, name, Contents(name))
           /\ h' = [h EXCEPT !.copied = CopyOnto(@, name, Contents(name))]
  <2> DEFINE old == IF name \in DOMAIN h.copied THEN h.copied[name] ELSE <<>>
             new == Overwrite(old, 0, Contents(name))
  <2>1. h'.copied = [n \in DOMAIN h.copied \cup {name} |-> IF n # name THEN h.copied[n] ELSE new]
    BY <1>2 DEF CopyOnto, HistoryType, NoHistory
  <2>2. OwnBlocks(name, new)
    <3>1. old \in Seq(Blocks) /\ OwnBlocks(name, old)
      BY EmptySeq DEF HistoryType, IsBoundedDir, IsDir, FilesInv, OwnBlocks
    <3>2. Contents(name) \in Seq(Blocks) /\ OwnBlocks(name, Contents(name))
      BY <1>2, ContentsType, ContentsOwn
    <3> HIDE DEF old
    <3> QED  BY <3>1, <3>2, OverwriteOwn
  <2>3. FilesInv'
    <3> HIDE DEF new
    <3>1. \A n \in DOMAIN h'.copied : OwnBlocks(n, h'.copied[n])
      BY <2>1, <2>2 DEF FilesInv
    <3> QED  BY <3>1 DEF FilesInv, OwnBlocks
  <2>4. ASSUME SameFiles
        PROVE  SameFiles'
    <3>1. dir' = [n \in DOMAIN dir \cup {name} |-> IF n # name THEN dir[n] ELSE new]
      BY <1>2, <2>4 DEF CopyOnto, SameFiles
    <3> HIDE DEF new
    <3> QED  BY <2>1, <2>4, <3>1 DEF SameFiles
  <2> QED  BY <2>3, <2>4
<1> QED  BY <1>1, <1>2 DEF CopyFile

\* One more file in the tar file.
LEMMA ReportedMember ==
    ASSUME TypeInv, FilesInv, NEW blocks \in Seq(Blocks), NEW names, Reported(blocks, names),
           NEW name \in DOMAIN h.copied, name \notin names
    PROVE  Reported(blocks \o TarMember(name, h.copied[name]), names \cup {name})
<1> DEFINE file == h.copied[name]
           member == TarMember(name, file)
           longer == blocks \o member
<1>1. /\ file \in Seq(Blocks) /\ Len(file) <= MaxBlocks + 2
      /\ OwnBlocks(name, file) /\ name \in Names
  BY DEF TypeInv, StateType, HistoryType, IsBoundedDir, IsDir, FilesInv
<1>2. member \in Seq(Blocks) /\ Len(member) = Len(file) + 1
  BY <1>1, TarMemberType
<1>3. Len(blocks) \in Nat /\ Len(file) \in Nat
      /\ DOMAIN blocks = 1..Len(blocks) /\ DOMAIN file = 1..Len(file)
  BY <1>1, LenProperties
<1>4. /\ longer \in Seq(Blocks) /\ Len(longer) = Len(blocks) + (Len(file) + 1)
      /\ \A i \in 1..Len(longer) :
            longer[i] = IF i <= Len(blocks) THEN blocks[i] ELSE member[i - Len(blocks)]
  <2> HIDE DEF member, file
  <2>1. /\ longer \in Seq(Blocks) /\ Len(longer) = Len(blocks) + Len(member)
        /\ \A i \in 1..Len(longer) :
              longer[i] = IF i <= Len(blocks) THEN blocks[i] ELSE member[i - Len(blocks)]
    BY <1>2, ConcatProperties
  <2> HIDE DEF longer
  <2> QED  BY <1>2, <2>1
<1>5. \A k \in 1..(Len(file) + 1) :
         member[k] = IF k = 1 THEN TarHeader(name, Len(file)) ELSE file[k - 1]
  BY <1>1, MemberBlocks
\* Which block is where.
<1> DEFINE place(i) == i - Len(blocks) - 1
<1>6. ASSUME NEW i \in DOMAIN longer
      PROVE  \/ i \in DOMAIN blocks /\ longer[i] = blocks[i]
             \/ i = Len(blocks) + 1 /\ longer[i] = TarHeader(name, Len(file))
             \/ i > Len(blocks) + 1 /\ place(i) \in DOMAIN file /\ longer[i] = file[place(i)]
  <2>1. i \in 1..(Len(blocks) + (Len(file) + 1))
    BY <1>4, LenProperties
  <2> HIDE DEF member, longer, file
  <2>2. CASE i <= Len(blocks)
    BY <1>3, <1>4, <2>1, <2>2
  <2>3. CASE i = Len(blocks) + 1
    <3>1. i - Len(blocks) = 1 /\ 1 \in 1..(Len(file) + 1)
      BY <1>3, <2>1, <2>3
    <3> QED  BY <1>3, <1>4, <1>5, <2>1, <2>3, <3>1
  <2>4. CASE i > Len(blocks) + 1
    <3>1. /\ i - Len(blocks) \in 1..(Len(file) + 1) /\ i - Len(blocks) # 1
          /\ place(i) \in 1..Len(file) /\ (i - Len(blocks)) - 1 = place(i)
      BY <1>3, <2>1, <2>4
    <3>2. longer[i] = member[i - Len(blocks)]
      BY <1>3, <1>4, <2>1, <2>4
    <3> QED  BY <1>3, <1>5, <2>4, <3>1, <3>2
  <2> QED  BY <1>3, <2>1, <2>2, <2>3, <2>4
<1> HIDE DEF member, longer
<1>7. /\ TarHeader(name, Len(file)).name = name
      /\ TarHeader(name, Len(file)).size = Len(file)
      /\ "block" \notin DOMAIN TarHeader(name, Len(file))
  BY DEF TarHeader
<1>8. \A k \in DOMAIN file :
         /\ file[k].name = name /\ file[k].block = k
         /\ "size" \notin DOMAIN file[k] /\ "block" \in DOMAIN file[k]
  BY <1>1 DEF OwnBlocks
<1>9. \A i \in DOMAIN blocks : blocks[i].name # name
  BY DEF Reported
<1>10. ASSUME NEW i \in DOMAIN longer
       PROVE  /\ longer[i].name \in names \cup {name}
              /\ "size" \in DOMAIN longer[i] => longer[i].size = Len(h.copied[longer[i].name])
              /\ "block" \in DOMAIN longer[i] =>
                    longer[i] \in {h.copied[longer[i].name][j] : j \in DOMAIN h.copied[longer[i].name]}
  <2>1. CASE i \in DOMAIN blocks /\ longer[i] = blocks[i]
    BY <2>1 DEF Reported
  <2>2. CASE longer[i] = TarHeader(name, Len(file))
    BY <1>7, <2>2
  <2>3. CASE place(i) \in DOMAIN file /\ longer[i] = file[place(i)]
    BY <1>8, <2>3
  <2> QED  BY <1>6, <2>1, <2>2, <2>3
<1>11. ASSUME NEW i \in DOMAIN longer, NEW j \in DOMAIN longer, longer[i] = longer[j]
       PROVE  i = j
  <2>1. ASSUME NEW k \in DOMAIN longer
        PROVE  /\ k \in Int
               /\ longer[k].name # name => k \in DOMAIN blocks /\ longer[k] = blocks[k]
               /\ longer[k].name = name =>
                     IF "block" \in DOMAIN longer[k] THEN longer[k].block = place(k)
                                                     ELSE k = Len(blocks) + 1
    <3>1. k \in Int
      BY <1>4, LenProperties
    <3>2. CASE k \in DOMAIN blocks /\ longer[k] = blocks[k]
      BY <1>9, <3>1, <3>2
    <3>3. CASE k = Len(blocks) + 1 /\ longer[k] = TarHeader(name, Len(file))
      BY <1>7, <3>1, <3>3
    <3>4. CASE place(k) \in DOMAIN file /\ longer[k] = file[place(k)]
      <4> HIDE DEF place, file
      <4> QED  BY <1>8, <3>1, <3>4
    <3> QED  BY <1>6, <3>2, <3>3, <3>4
  <2>2. CASE longer[i].name # name
    BY <1>11, <2>1, <2>2 DEF Reported
  <2>3. CASE longer[i].name = name /\ "block" \in DOMAIN longer[i]
    <3>1. place(i) = place(j)
      <4> HIDE DEF place
      <4> QED  BY <1>11, <2>1, <2>3
    <3> QED  BY <1>3, <2>1, <3>1
  <2>4. CASE longer[i].name = name /\ "block" \notin DOMAIN longer[i]
    BY <1>11, <2>1, <2>4
  <2> QED  BY <2>2, <2>3, <2>4
<1> QED  BY <1>10, <1>11 DEF Reported, longer, member
------------------------------------------------------------------------------
(* The steps                                                               *)

\* What the parts of the invariant read.
LEMMA StaleFrame ==
    ASSUME StaleInv, UNCHANGED <<dir, tar, sent, mpc>>, m'.tarLen = m.tarLen,
           m'.entries = m.entries, h'.copied = h.copied, h'.clean = h.clean, h'.pipe = h.pipe
    PROVE  StaleInv'
BY DEF StaleInv, FilesInv, OwnBlocks, RemovedInv, CleanInv, SameFiles, Removed, Reported

LEMMA StaleBinder ==
    ASSUME TypeInv, ControlInv, StaleInv,
           \/ \E enable \in BOOLEAN : SetVerboseLoggingEnabled(enable)
           \/ \E c \in Calls : DumpstateBoard(c)
           \/ Binder \/ Crash
    PROVE  StaleInv'
<1> USE DEF TypeInv, StateType
<1>1. UNCHANGED <<dir, tar>>
  BY BinderFrame
<1>2. CASE UNCHANGED <<mpc, m, h, sent>>
  BY <1>1, <1>2, StaleFrame
<1>3. CASE Spawn
  <2>1. mpc = "none" /\ mpc' \in {"none", "props"} /\ UNCHANGED <<m, h, sent>>
    BY <1>3 DEF Spawn, ModemType
  <2>2. FilesInv'
    BY <2>1 DEF StaleInv, FilesInv, OwnBlocks
  <2>3. RemovedInv'
    BY <2>1 DEF RemovedInv
  <2>4. CleanInv'
    <3>1. h.pipe = "unused"
      BY <2>1 DEF ControlInv
    <3> QED  BY <1>1, <2>1, <3>1 DEF StaleInv, CleanInv, SameFiles
  <2> QED  BY <2>2, <2>3, <2>4 DEF StaleInv
<1>4. CASE Exit \/ Crash
  <2>1. mpc' = "none" /\ DOMAIN h'.copied = {} /\ h'.pipe = "unused"
    BY <1>4 DEF Exit, Crash, NewProcess, NoHistory, NoDir
  <2>2. "rm" \notin Faulty /\ h'.clean => Removed
    <3>1. CASE Exit
      <4>1. h'.clean = (h.clean \/ h.pipe # "unused")
        BY <3>1 DEF Exit, NewProcess, NoHistory
      <4>2. mpc \in {"none", "done"}
        BY <3>1 DEF Exit, ControlInv, TouchSteps
      <4>3. mpc = "none" => DOMAIN h.copied = {} /\ h.pipe = "unused"
        BY DEF ControlInv
      <4> QED  BY <4>1, <4>2, <4>3 DEF StaleInv, RemovedInv, CleanInv, SameFiles, Removed
    <3>2. CASE Crash
      <4>1. h'.clean = (h.clean /\ mpc = "none")
        BY <3>2 DEF Crash, NewProcess, NoHistory
      <4>2. mpc = "none" => DOMAIN h.copied = {}
        BY DEF ControlInv
      <4> QED  BY <4>1, <4>2 DEF StaleInv, CleanInv, SameFiles, Removed
    <3> QED  BY <1>4, <3>1, <3>2
  <2>3. CleanInv'
    BY <1>1, <2>1, <2>2 DEF CleanInv, SameFiles, Removed
  <2> QED  BY <2>1, <2>3 DEF StaleInv, FilesInv, RemovedInv
<1> QED  BY <1>2, <1>3, <1>4
         DEF SetVerboseLoggingEnabled, DumpstateBoard, Binder, Touch, ForceActive, SetLandscape,
             SetPortrait, EndActive, TouchCommand, Join, Reply, BinderOnly, modem

\* The steps before the first copy and the restart of the logger.
LEMMA StaleDiag ==
    ASSUME TypeInv, ControlInv, StaleInv, Diag
    PROVE  StaleInv'
<1>1. /\ UNCHANGED <<dir, tar, sent>> /\ h'.copied = h.copied /\ h'.clean = h.clean
      /\ h'.pipe = h.pipe
  BY DEF Diag, ReadProperties, StopLogger, WaitForLogger, WaitTimeout, WaitOnly, RestartLogger,
     files, TypeInv, StateType, HistoryType, NoHistory
<1>2. /\ mpc \notin {"pack", "send", "rmDir", "rmTar", "done"}
      /\ mpc' \notin {"pack", "send", "rmDir", "rmTar"}
      /\ mpc' = "done" => mpc = "props"
  BY DEF Diag, ReadProperties, StopLogger, WaitForLogger, WaitTimeout, RestartLogger, To
<1>3. mpc = "props" => DOMAIN h.copied = {} /\ h.pipe = "unused"
  BY DEF ControlInv
<1>4. FilesInv' /\ RemovedInv'
  BY <1>1, <1>2, <1>3 DEF StaleInv, FilesInv, OwnBlocks, RemovedInv
<1>5. /\ Reported(sent, DOMAIN h.copied) => Reported(sent, DOMAIN h.copied)'
      /\ SameFiles => SameFiles'
  BY <1>1 DEF Reported, SameFiles
<1>6. CleanInv'
  BY <1>1, <1>2, <1>3, <1>5 DEF StaleInv, CleanInv, SameFiles, Removed
<1> QED  BY <1>4, <1>6 DEF StaleInv

LEMMA StaleCopy ==
    ASSUME TypeInv, EfsInv, StaleInv, Copy
    PROVE  StaleInv'
<1> USE DEF TypeInv, StateType
<1>1. UNCHANGED <<tar, sent>> /\ h'.clean = h.clean /\ h'.pipe = h.pipe
  BY CopyFrames
<1>2. /\ mpc \notin {"pack", "send", "rmDir", "rmTar", "done"}
      /\ mpc' \notin {"pack", "send", "rmDir", "rmTar", "done"}
  BY DEF Copy, Mkdir, DumpDiagLogs, DumpTcpdumpLogs, DumpExtendedLogs, Scan, CopyLog, CopiedLogs,
     CopyPoweronLog, CopyRilLogs, CopyOne, EfsDumpOn, EfsDumpOff, SetEfsDump, To, CopySteps
<1>3. FilesInv' /\ (SameFiles => SameFiles')
  <2>1. CASE UNCHANGED dir /\ h'.copied = h.copied
    BY <2>1 DEF StaleInv, FilesInv, OwnBlocks, SameFiles
  <2>2. CASE CopyLog
    <3>1. mpc \in CopySteps
      BY <2>2, CopyLogStep
    <3>2. PICK left \in 1..Found(mpc) : \/ UNCHANGED <<dir, h>>
                                        \/ CopyFile(LogOf(PlaceOf(mpc), left))
      BY <2>2, CopyLogStep
    <3> DEFINE name == LogOf(PlaceOf(mpc), left)
    <3>3. name.place = "diag" => name.rank \in DOMAIN diagLogs
      BY <3>1, LenProperties DEF Found, PlaceOf, CopySteps, LoggerType, LogOf
    <3> HIDE DEF name
    <3>4. CASE CopyFile(name)
      BY <3>3, <3>4, CopyFileOwn DEF StaleInv
    <3> QED  BY <2>1, <3>2, <3>4 DEF name
  <2>3. CASE CopyPoweronLog \/ CopyRilLogs
    <3>1. PICK name \in {PoweronLog, RilLog} : CopyFile(name)
      BY <2>3 DEF CopyPoweronLog, CopyRilLogs, CopyOne
    <3>2. name.place # "diag"
      BY DEF PoweronLog, RilLog
    <3> QED  BY <3>1, <3>2, CopyFileOwn DEF StaleInv
  <2>4. CASE Mkdir \/ EfsDumpOn \/ EfsDumpOff
    BY <2>1, <2>4 DEF Mkdir, EfsDumpOn, EfsDumpOff, SetEfsDump, files
  <2>5. CASE DumpDiagLogs \/ DumpTcpdumpLogs \/ DumpExtendedLogs \/ CopiedLogs
    <3>1. UNCHANGED dir /\ h'.copied = h.copied
      BY <2>5 DEF DumpDiagLogs, DumpTcpdumpLogs, DumpExtendedLogs, Scan, CopiedLogs, files,
         HistoryType, NoHistory
    <3> QED  BY <2>1, <3>1
  <2> QED  BY <2>2, <2>3, <2>4, <2>5 DEF Copy
<1>4. h.pipe = "unused"
  BY <1>2 DEF EfsInv
<1> QED  BY <1>1, <1>2, <1>3, <1>4 DEF StaleInv, RemovedInv, CleanInv

LEMMA StalePack ==
    ASSUME TypeInv, EfsInv, StaleInv, Pack
    PROVE  StaleInv'
<1> USE DEF TypeInv, StateType
<1>1. PICK name \in m.entries :
          /\ tar' = Overwrite(tar, m.tarLen, TarMember(name, dir[name]))
          /\ m' = [m EXCEPT !.entries = @ \ {name}, !.tarLen = @ + Len(dir[name]) + 1]
  BY DEF Pack
<1>2. mpc = "pack" /\ mpc' = "pack" /\ UNCHANGED <<dir, sent, h>>
  BY DEF Pack, PackFrame
<1>3. h.pipe = "unused"
  BY <1>2 DEF EfsInv
<1>4. ASSUME "rm" \notin Faulty, h.clean
      PROVE  m'.tarLen = Len(tar') /\ Reported(tar', DOMAIN h.copied \ m'.entries)
  <2> DEFINE names == DOMAIN h.copied \ m.entries
             member == TarMember(name, h.copied[name])
  <2>1. SameFiles /\ m.tarLen = Len(tar) /\ Reported(tar, names)
    BY <1>2, <1>4 DEF StaleInv, CleanInv
  <2>2. name \in DOMAIN h.copied /\ name \in Names /\ dir[name] = h.copied[name]
    BY <1>2, <2>1 DEF ModemType, SameFiles
  <2>3. /\ member \in Seq(Blocks) /\ Len(member) = Len(h.copied[name]) + 1
        /\ Len(h.copied[name]) \in Nat
    BY <2>2, TarMemberType, LenProperties DEF HistoryType, IsBoundedDir, IsDir
  <2>4. tar \in Seq(Blocks) /\ Len(tar) \in Nat
    BY LenProperties DEF FilesType
  <2>5. tar' = Overwrite(tar, Len(tar), member)
    BY <1>1, <2>1, <2>2
  <2>6. Reported(tar \o member, names \cup {name})
    BY <1>1, <2>1, <2>2, <2>4, ReportedMember DEF StaleInv
  <2>7. m'.tarLen = m.tarLen + Len(h.copied[name]) + 1 /\ m'.entries = m.entries \ {name}
    BY <1>1, <2>2 DEF ModemType
  <2>8. DOMAIN h.copied \ m'.entries = names \cup {name}
    BY <2>2, <2>7
  <2> HIDE DEF member, names
  <2>9. tar' = tar \o member
    BY <2>3, <2>4, <2>5, OverwriteEnd
  <2>10. Len(tar') = Len(tar) + Len(member)
    BY <2>3, <2>4, <2>9, ConcatProperties
  <2>11. m'.tarLen = Len(tar')
    BY <2>1, <2>3, <2>4, <2>7, <2>10
  <2> QED  BY <2>6, <2>8, <2>9, <2>11
<1>5. CleanInv'
  BY <1>2, <1>3, <1>4 DEF StaleInv, CleanInv, SameFiles, Reported
<1> QED  BY <1>2, <1>5 DEF StaleInv, FilesInv, OwnBlocks, RemovedInv

LEMMA StaleReport ==
    ASSUME TypeInv, EfsInv, StaleInv, Report
    PROVE  StaleInv'
<1> USE DEF TypeInv, StateType, To
<1>1. CASE Pack
  BY <1>1, StalePack
<1>2. CASE OpenTar
  <2>1. /\ mpc = "tar" /\ mpc' \in {"pack", "send"} /\ UNCHANGED <<dir, tar, sent, h>>
        /\ m'.tarLen = 0
    BY <1>2 DEF OpenTar, files, ModemType
  <2>2. "rm" \notin Faulty /\ h.clean => tar = <<>> /\ SameFiles
    BY <2>1 DEF StaleInv, CleanInv
  <2>3. h.pipe = "unused"
    BY <2>1 DEF EfsInv
  <2>4. ASSUME NEW names, tar = <<>>
        PROVE  Reported(tar, names)'
    BY <2>1, <2>4 DEF Reported
  <2>5. CleanInv'
    BY <2>1, <2>2, <2>3, <2>4, EmptySeq DEF CleanInv, SameFiles
  <2> QED  BY <2>1, <2>5 DEF StaleInv, FilesInv, OwnBlocks, RemovedInv
<1>3. CASE Packed
  <2>1. /\ mpc = "pack" /\ mpc' = "send" /\ m.entries = {} /\ UNCHANGED <<dir, tar, sent, h>>
    BY <1>3 DEF Packed, PackFrame
  <2>2. h.pipe = "unused"
    BY <2>1 DEF EfsInv
  <2>3. DOMAIN h.copied \ m.entries = DOMAIN h.copied
    BY <2>1
  <2>4. CleanInv'
    BY <2>1, <2>2, <2>3 DEF StaleInv, CleanInv, SameFiles, Reported
  <2> QED  BY <2>1, <2>4 DEF StaleInv, FilesInv, OwnBlocks, RemovedInv
<1>4. CASE Send
  <2>1. /\ mpc = "send" /\ mpc' = "rmDir" /\ UNCHANGED <<dir, tar>>
        /\ h'.copied = h.copied /\ h'.clean = h.clean
    BY <1>4 DEF Send, files, HistoryType, NoHistory
  <2>2. PICK n \in 0..Len(tar) : sent' = SubSeq(tar, 1, n)
    <3>1. Len(tar) \in 0..Len(tar)
      BY LenProperties DEF FilesType
    <3> QED  BY <3>1, <1>4 DEF Send
  <2>3. \A i \in DOMAIN sent' : i \in DOMAIN tar /\ sent'[i] = tar[i]
    <3>1. tar \in Seq(Blocks) /\ Len(tar) \in Nat /\ DOMAIN tar = 1..Len(tar)
      BY LenProperties DEF FilesType
    <3>2. \A i \in 1..n : tar[i] \in Blocks
      BY <3>1, LenProperties
    <3>3. n \in Nat
      BY <3>1
    <3>4. /\ sent' \in Seq(Blocks) /\ Len(sent') = n
          /\ \A i \in 1..n : sent'[i] = tar[i]
      BY <2>2, <3>2, <3>3, SubSeqProperties
    <3>5. DOMAIN sent' = 1..n
      BY <3>4, LenProperties
    <3> QED  BY <3>1, <3>3, <3>4, <3>5
  <2>4. Reported(tar, DOMAIN h.copied) => Reported(sent, DOMAIN h.copied)'
    BY <2>1, <2>3 DEF Reported
  <2>5. CleanInv'
    BY <2>1, <2>4 DEF StaleInv, CleanInv, SameFiles
  <2> QED  BY <2>1, <2>5 DEF StaleInv, FilesInv, OwnBlocks, RemovedInv
<1>5. CASE RemoveDir \/ RemoveTar
  <2>1. UNCHANGED <<sent, h>>
    BY <1>5 DEF RemoveDir, RemoveTar
  <2>2. FilesInv' /\ (Reported(sent, DOMAIN h.copied) => Reported(sent, DOMAIN h.copied)')
    BY <2>1 DEF StaleInv, FilesInv, OwnBlocks, Reported
  <2>3. ASSUME "rm" \notin Faulty
        PROVE  /\ mpc' \in {"rmTar", "done"} /\ DOMAIN dir' = {}
               /\ mpc' = "done" => tar' = <<>>
    <3>1. Outcome("rm") = {TRUE}
      BY <2>3 DEF Outcome
    <3> QED  BY <1>5, <2>3, <3>1 DEF RemoveDir, RemoveTar, NoDir, StaleInv, RemovedInv
  <2> QED  BY <2>1, <2>2, <2>3 DEF StaleInv, RemovedInv, CleanInv, Removed
<1> QED  BY <1>1, <1>2, <1>3, <1>4, <1>5 DEF Report

LEMMA StaleStep ==
    TypeInv /\ SwitchInv /\ StaleInv /\ [Next]_vars => StaleInv'
<1> SUFFICES ASSUME TypeInv, SwitchInv, StaleInv, [Next]_vars
             PROVE  StaleInv'
  OBVIOUS
<1>1. CASE Environment
  BY <1>1, StaleFrame, EnvironmentFrame, EnvironmentTypes
<1>2. CASE UNCHANGED vars
  BY <1>2, StaleFrame DEF vars, files, modem
<1> QED  BY <1>1, <1>2, StaleBinder, StaleDiag, StaleCopy, StaleReport DEF Next, Modem, SwitchInv

\* DumpstateDevice.cpp:70-94, :142-198 and :350-380: unless a dump that died has left
\* something behind, a report holds one header for each file in it and blocks of the
\* files that this dump has read, each once, although every file is opened without
\* O_TRUNC, the radio logs are rewritten shorter, and directory and tar file outlive the
\* process: it rests on the removal at the end of every dump.
THEOREM ReportsOnlyItsOwn ==
    Spec => []NothingStale
<1>1. Init => TypeInv /\ SwitchInv /\ StaleInv
  BY TypeInit, SwitchInit, StaleInit
<1>2. TypeInv /\ SwitchInv /\ StaleInv /\ [Next]_vars => (TypeInv /\ SwitchInv /\ StaleInv)'
  BY TypeStep, SwitchStep, StaleStep
<1>3. StaleInv => NothingStale
  BY DEF StaleInv, CleanInv, Reported, NothingStale
<1> QED  BY <1>1, <1>2, <1>3, PTL DEF Spec
------------------------------------------------------------------------------
(* Where a reader finds the headers                                        *)

\* A reader looks at every place of a set that has the first and, with each header in it,
\* the place behind what that header says.  The places it looks at are in all such sets.
Skips(blocks, places) ==
    /\ 1 \in places
    /\ \A i \in places \cap DOMAIN blocks :
          IsHeader(blocks[i]) => i + blocks[i].size + 1 \in places
Reach(blocks, at) == \A places \in SUBSET Nat : Skips(blocks, places) => at \in places

\* Reach is closed under the recursion of Looks.
LEMMA ReachUnfolds ==
    ASSUME NEW blocks \in Seq(Blocks), NEW i \in Nat
    PROVE  Reach(blocks, i) <=>
              \/ i = 1
              \/ \E j \in DOMAIN blocks : /\ j < i /\ Reach(blocks, j) /\ IsHeader(blocks[j])
                                          /\ j + blocks[j].size + 1 = i
<1> DEFINE From(k) == \/ k = 1
                      \/ \E j \in DOMAIN blocks : /\ j < k /\ Reach(blocks, j) /\ IsHeader(blocks[j])
                                                  /\ j + blocks[j].size + 1 = k
<1>1. \A k \in Nat : From(k) => Reach(blocks, k)
  BY DEF Reach, Skips
<1>2. ASSUME Reach(blocks, i)
      PROVE  From(i)
  <2> DEFINE places == {k \in Nat : From(k)}
  <2>1. ASSUME NEW k \in places, k \in DOMAIN blocks, IsHeader(blocks[k])
        PROVE  k + blocks[k].size + 1 \in places
    <3>1. blocks[k].size \in Nat /\ k \in Nat
      <4>1. blocks[k] \in Blocks
        BY <2>1, LenProperties
      <4> QED  BY <2>1, <4>1, LogAssumption DEF IsHeader, Blocks
    <3>2. Reach(blocks, k)
      BY <1>1
    <3>3. k < k + blocks[k].size + 1 /\ k + blocks[k].size + 1 \in Nat
      BY <3>1
    <3> QED  BY <2>1, <3>2, <3>3
  <2>2. Skips(blocks, places)
    BY <2>1 DEF Skips
  <2> HIDE DEF places
  <2>3. places \in SUBSET Nat
    BY DEF places
  <2>4. i \in places
    BY <1>2, <2>2, <2>3 DEF Reach
  <2> QED  BY <2>4 DEF places
<1> QED  BY <1>1, <1>2

\* So Looks, which is such a function, is what it is said to be.
LEMMA LooksUnfolds ==
    ASSUME sent \in Seq(Blocks), NEW i \in Nat
    PROVE  Looks[i] = (\/ i = 1
                       \/ \E j \in DOMAIN sent : /\ j < i /\ Looks[j] /\ IsHeader(sent[j])
                                                 /\ j + sent[j].size + 1 = i)
<1> DEFINE Step(f) == [k \in Nat |->
                          \/ k = 1
                          \/ \E j \in DOMAIN sent : /\ j < k /\ f[j] /\ IsHeader(sent[j])
                                                    /\ j + sent[j].size + 1 = k]
           reach == [k \in Nat |-> Reach(sent, k)]
<1>1. reach = Step(reach)
  <2>1. DOMAIN sent \subseteq Nat
    BY LenProperties
  <2>2. ASSUME NEW k \in Nat
        PROVE  reach[k] = Step(reach)[k]
    <3>1. \A j \in DOMAIN sent : reach[j] = Reach(sent, j)
      BY <2>1
    <3>2. reach[k] <=> Step(reach)[k]
      BY <3>1, ReachUnfolds
    <3>3. {reach[k], Step(reach)[k]} \subseteq BOOLEAN
      BY DEF Reach
    <3> QED  BY <3>2, <3>3
  <2> QED  BY <2>2
<1>2. Looks = CHOOSE f : f = Step(f)
  BY DEF Looks
<1> HIDE DEF Step, reach
<1>3. Looks = Step(Looks)
  BY <1>1, <1>2
<1> QED  BY <1>3 DEF Step

LEMMA ReachLooks ==
    ASSUME sent \in Seq(Blocks), NEW at \in Nat, Reach(sent, at)
    PROVE  Looks[at]
<1> DEFINE places == {k \in Nat : Looks[k]}
<1>1. Looks[1] /\ 1 \in Nat
  BY LooksUnfolds
<1>2. ASSUME NEW i \in places \cap DOMAIN sent, IsHeader(sent[i])
      PROVE  i + sent[i].size + 1 \in places
  <2>1. i \in Nat /\ Looks[i] /\ i \in DOMAIN sent /\ sent[i].size \in Nat
    <3>1. sent[i] \in Blocks /\ i \in Nat /\ Looks[i]
      BY LenProperties
    <3>2. sent[i] \in [name : Names, size : 0..(MaxBlocks + 2)]
      BY <1>2, <3>1 DEF IsHeader, Blocks
    <3> QED  BY <3>1, <3>2, LogAssumption
  <2>2. i + sent[i].size + 1 \in Nat /\ i < i + sent[i].size + 1
    BY <2>1
  <2>3. Looks[i + sent[i].size + 1]
    BY <1>2, <2>1, <2>2, LooksUnfolds
  <2> QED  BY <2>2, <2>3
<1> HIDE DEF places
<1>3. Skips(sent, places)
  BY <1>1, <1>2 DEF Skips, places
<1>4. places \in SUBSET Nat
  BY DEF places
<1>5. at \in places
  BY <1>3, <1>4 DEF Reach
<1> QED  BY <1>5 DEF places

\* What is written behind the first end blocks does not keep a reader from what is before.
LEMMA ReachKept ==
    ASSUME NEW blocks \in Seq(Blocks), NEW after \in Seq(Blocks), NEW end \in 0..Len(after),
           \A i \in 1..end : after[i] = blocks[i],
           NEW at \in 1..(end + 1), Reach(blocks, at)
    PROVE  Reach(after, at)
<1> SUFFICES ASSUME NEW places \in SUBSET Nat, Skips(after, places)
             PROVE  at \in places
  BY DEF Reach
<1> DEFINE more == places \cup {k \in Nat : k > end + 1}
<1>1. Len(after) \in Nat /\ DOMAIN after = 1..Len(after) /\ end \in Nat
  BY LenProperties
<1>2. ASSUME NEW i \in more \cap DOMAIN blocks, IsHeader(blocks[i])
      PROVE  i + blocks[i].size + 1 \in more
  <2>1. blocks[i].size \in Nat /\ i \in Nat /\ i > 0
    <3>1. blocks[i] \in Blocks /\ i \in Nat /\ i > 0
      BY LenProperties
    <3>2. blocks[i] \in [name : Names, size : 0..(MaxBlocks + 2)]
      BY <1>2, <3>1 DEF IsHeader, Blocks
    <3> QED  BY <3>1, <3>2, LogAssumption
  <2>2. CASE i > end
    <3>1. i + blocks[i].size + 1 \in Nat /\ i + blocks[i].size + 1 > end + 1
      BY <1>1, <2>1, <2>2
    <3> QED  BY <3>1
  <2>3. CASE ~(i > end)
    <3>1. i \in places /\ i \in 1..end /\ i \in DOMAIN after
      BY <1>1, <2>1, <2>3
    <3> QED  BY <1>2, <3>1 DEF Skips
  <2> QED  BY <2>2, <2>3
<1>3. 1 \in more
  BY DEF Skips
<1> HIDE DEF more
<1>4. Skips(blocks, more)
  BY <1>2, <1>3 DEF Skips
<1>5. more \in SUBSET Nat
  BY DEF more
<1>6. at \in more
  BY <1>4, <1>5 DEF Reach
<1> QED  BY <1>1, <1>6 DEF more
------------------------------------------------------------------------------
(* Everything that was copied                                              *)

\* The directory holds what was read, from its beginning on.
StartsWith(file, start) ==
    Len(start) <= Len(file) /\ \A i \in 1..Len(start) : file[i] = start[i]
CopiesInv ==
    mpc \notin {"rmTar", "done"} =>
       \A n \in DOMAIN h.copied : n \in DOMAIN dir /\ StartsWith(dir[n], h.copied[n])

\* Without the directory nothing is copied.
MadeInv ==
    /\ mpc \in {"none", "props", "stop", "wait", "mkdir"} => DOMAIN h.copied = {}
    /\ DOMAIN h.copied # {} => m.made

\* The first end blocks hold a header with the name, where a reader finds it, and behind it
\* the file.
Holds(blocks, end, name, file) ==
    \E at \in 1..end :
       /\ Reach(blocks, at) /\ IsHeader(blocks[at])
       /\ blocks[at].name = name /\ blocks[at].size >= Len(file)
       /\ at + Len(file) <= end
       /\ \A k \in 1..Len(file) : blocks[at + k] = file[k]

\* Every entry is written where a reader will look for it, whatever stands behind it
\* in a tar file that an earlier dump has left.
PackedInv ==
    /\ mpc = "pack" =>
          /\ Reach(tar, m.tarLen + 1)
          /\ \A n \in DOMAIN h.copied \ m.entries : Holds(tar, m.tarLen, n, h.copied[n])
    /\ "open" \notin Faulty /\ mpc = "send" =>
          \A n \in DOMAIN h.copied : Holds(tar, Len(tar), n, h.copied[n])
    /\ "open" \notin Faulty /\ h.pipe = "whole" =>
          \A n \in DOMAIN h.copied : Holds(sent, Len(sent), n, h.copied[n])

CompleteInv == CopiesInv /\ MadeInv /\ PackedInv

LEMMA CompleteInit ==
    Init => CompleteInv
BY DEF Init, CompleteInv, CopiesInv, MadeInv, PackedInv, NoHistory, NoDir

LEMMA CompleteDone ==
    TypeInv /\ CompleteInv => NothingMissing
<1> SUFFICES ASSUME TypeInv, CompleteInv, h.pipe = "whole", "open" \notin Faulty,
                    NEW name \in DOMAIN h.copied
             PROVE  \E i \in Members :
                       /\ sent[i].name = name /\ sent[i].size >= Len(h.copied[name])
                       /\ SubSeq(sent, i + 1, i + Len(h.copied[name])) = h.copied[name]
  BY DEF NothingMissing
<1> DEFINE file == h.copied[name]
<1>1. /\ sent \in Seq(Blocks) /\ Len(sent) \in Nat /\ DOMAIN sent = 1..Len(sent)
      /\ file \in Seq(Blocks) /\ Len(file) \in Nat
  BY LenProperties DEF TypeInv, StateType, FilesType, HistoryType, IsBoundedDir, IsDir
<1>2. PICK at \in 1..Len(sent) :
          /\ Reach(sent, at) /\ IsHeader(sent[at])
          /\ sent[at].name = name /\ sent[at].size >= Len(file)
          /\ at + Len(file) <= Len(sent)
          /\ \A k \in 1..Len(file) : sent[at + k] = file[k]
  BY DEF CompleteInv, PackedInv, Holds
<1> HIDE DEF file
<1>3. at \in Members
  <2>1. Looks[at]
    BY <1>1, <1>2, ReachLooks
  <2> QED  BY <1>1, <1>2, <2>1 DEF Members
<1>4. SubSeq(sent, at + 1, at + Len(file)) = file
  <2> DEFINE part == SubSeq(sent, at + 1, at + Len(file))
  <2>1. /\ at + 1 \in Int /\ at + Len(file) \in Int /\ at \in Nat
        /\ (at + Len(file)) - (at + 1) + 1 = Len(file)
    BY <1>1, <1>2
  <2>2. \A i \in (at + 1)..(at + Len(file)) : sent[i] \in Blocks
    <3>1. \A i \in (at + 1)..(at + Len(file)) : i \in 1..Len(sent)
      BY <1>1, <1>2
    <3> QED  BY <1>1, <3>1, LenProperties
  <2>3. /\ part \in Seq(Blocks)
        /\ Len(part) = IF at + 1 <= at + Len(file) THEN (at + Len(file)) - (at + 1) + 1 ELSE 0
        /\ \A i \in 1..((at + Len(file)) - (at + 1) + 1) : part[i] = sent[at + 1 + i - 1]
    BY <2>1, <2>2, SubSeqProperties
  <2> HIDE DEF part
  <2>4. Len(part) = Len(file)
    BY <1>1, <2>1, <2>3
  <2>5. ASSUME NEW i \in 1..Len(file)
        PROVE  part[i] = file[i]
    <3>1. at + 1 + i - 1 = at + i
      BY <2>1
    <3> QED  BY <1>2, <2>1, <2>3, <3>1
  <2>6. part = file
    BY <1>1, <2>3, <2>4, <2>5, SeqEqual
  <2> QED  BY <2>6 DEF part
<1> QED  BY <1>2, <1>3, <1>4 DEF file
------------------------------------------------------------------------------
(* What is copied and packed is found                                      *)

LEMMA OverwriteStarts ==
    ASSUME NEW B, NEW file \in Seq(B), NEW start \in Seq(B), NEW new \in Seq(B),
           StartsWith(file, start)
    PROVE  StartsWith(Overwrite(file, 0, new), Overwrite(start, 0, new))
<1> DEFINE file2 == Overwrite(file, 0, new)
           start2 == Overwrite(start, 0, new)
<1>1. /\ Len(file) \in Nat /\ Len(start) \in Nat /\ Len(new) \in Nat
      /\ DOMAIN start = 1..Len(start) /\ Len(start) <= Len(file)
      /\ 0 \in 0..Len(file) /\ 0 \in 0..Len(start)
  BY LenProperties DEF StartsWith
<1>2. /\ file2 \in Seq(B)
      /\ Len(file2) = IF 0 + Len(new) <= Len(file) THEN Len(file) ELSE 0 + Len(new)
  BY <1>1, OverwriteType
<1>3. /\ start2 \in Seq(B)
      /\ Len(start2) = IF 0 + Len(new) <= Len(start) THEN Len(start) ELSE 0 + Len(new)
  BY <1>1, OverwriteType
<1>4. /\ \A k \in 1..Len(new) : file2[0 + k] = new[k]
      /\ \A i \in DOMAIN file2 : i > 0 + Len(new) => file2[i] = file[i]
  BY <1>1, OverwriteBlocks
<1>5. /\ \A k \in 1..Len(new) : start2[0 + k] = new[k]
      /\ \A i \in DOMAIN start2 :
            i > 0 + Len(new) => i \in DOMAIN start /\ start2[i] = start[i]
  BY <1>1, OverwriteBlocks
<1> HIDE DEF file2, start2
<1>6. DOMAIN file2 = 1..Len(file2) /\ DOMAIN start2 = 1..Len(start2)
  BY <1>2, <1>3, LenProperties
<1>7. Len(start2) <= Len(file2)
  BY <1>1, <1>2, <1>3
<1>8. ASSUME NEW i \in 1..Len(start2)
      PROVE  file2[i] = start2[i]
  <2>1. i \in DOMAIN file2 /\ i \in DOMAIN start2 /\ i \in Nat /\ i > 0
    BY <1>1, <1>2, <1>3, <1>6, <1>7
  <2>2. CASE i > 0 + Len(new)
    <3>1. i \in 1..Len(start) /\ start2[i] = start[i] /\ file2[i] = file[i]
      BY <1>1, <1>4, <1>5, <2>1, <2>2
    <3> QED  BY <3>1 DEF StartsWith
  <2>3. CASE ~(i > 0 + Len(new))
    <3>1. i \in 1..Len(new) /\ 0 + i = i
      BY <1>1, <2>1, <2>3
    <3>2. file2[0 + i] = new[i] /\ start2[0 + i] = new[i]
      BY <1>4, <1>5, <3>1
    <3> QED  BY <3>1, <3>2
  <2> QED  BY <2>2, <2>3
<1> QED  BY <1>7, <1>8 DEF StartsWith, file2, start2

\* What is written behind what a reader finds does not hide it.
LEMMA HoldsKept ==
    ASSUME NEW blocks \in Seq(Blocks), NEW after \in Seq(Blocks),
           NEW end \in Nat, NEW until \in Nat, end <= until, until <= Len(after),
           \A i \in 1..end : after[i] = blocks[i],
           NEW name, NEW file \in Seq(Blocks), Holds(blocks, end, name, file)
    PROVE  Holds(after, until, name, file)
<1>1. PICK at \in 1..end :
          /\ Reach(blocks, at) /\ IsHeader(blocks[at])
          /\ blocks[at].name = name /\ blocks[at].size >= Len(file)
          /\ at + Len(file) <= end
          /\ \A k \in 1..Len(file) : blocks[at + k] = file[k]
  BY DEF Holds
<1>2. /\ Len(after) \in Nat /\ Len(file) \in Nat
      /\ at \in Nat /\ at \in 1..until /\ at \in 1..(end + 1) /\ end \in 0..Len(after)
      /\ at + Len(file) <= until
  BY <1>1, LenProperties
<1>3. Reach(after, at)
  BY <1>1, <1>2, ReachKept
<1>4. after[at] = blocks[at]
  BY <1>1
<1>5. ASSUME NEW k \in 1..Len(file)
      PROVE  after[at + k] = file[k]
  <2>1. at + k \in 1..end
    BY <1>1, <1>2
  <2> QED  BY <1>1, <2>1
<1> QED  BY <1>1, <1>2, <1>3, <1>4, <1>5 DEF Holds

\* An entry written where a reader looks is found, and the reader looks behind it.
LEMMA MemberHeld ==
    ASSUME NEW blocks \in Seq(Blocks), NEW end \in 0..Len(blocks), Reach(blocks, end + 1),
           NEW name \in Names, NEW file \in Seq(Blocks), Len(file) <= MaxBlocks + 2,
           NEW start \in Seq(Blocks), StartsWith(file, start)
    PROVE  LET after == Overwrite(blocks, end, TarMember(name, file))
               until == end + Len(file) + 1
           IN  /\ after \in Seq(Blocks) /\ until \in Nat /\ until <= Len(after)
               /\ \A i \in 1..end : after[i] = blocks[i]
               /\ Reach(after, until + 1) /\ Holds(after, until, name, start)
<1> DEFINE member == TarMember(name, file)
           after == Overwrite(blocks, end, member)
           until == end + Len(file) + 1
<1>1. /\ Len(blocks) \in Nat /\ Len(file) \in Nat /\ end \in Nat
      /\ Len(start) \in Nat /\ Len(start) <= Len(file)
      /\ \A i \in 1..Len(start) : file[i] = start[i]
  BY LenProperties DEF StartsWith
<1>2. member \in Seq(Blocks) /\ Len(member) = Len(file) + 1
  BY TarMemberType
<1>3. \A k \in 1..(Len(file) + 1) :
         member[k] = IF k = 1 THEN TarHeader(name, Len(file)) ELSE file[k - 1]
  BY MemberBlocks
<1> HIDE DEF member
<1>4. /\ after \in Seq(Blocks)
      /\ Len(after) = IF end + Len(member) <= Len(blocks) THEN Len(blocks) ELSE end + Len(member)
  BY <1>2, OverwriteType
<1>5. /\ \A i \in 1..end : after[i] = blocks[i]
      /\ \A k \in 1..Len(member) : after[end + k] = member[k]
  BY <1>2, OverwriteBlocks
<1> HIDE DEF after
<1>6. /\ DOMAIN after = 1..Len(after) /\ Len(after) \in Nat /\ until <= Len(after)
      /\ until \in Nat
  BY <1>1, <1>2, <1>4, LenProperties
<1> DEFINE at == end + 1
<1>7. after[at] = TarHeader(name, Len(file))
  <2>1. 1 \in 1..Len(member) /\ 1 \in 1..(Len(file) + 1)
    BY <1>1, <1>2
  <2> QED  BY <1>3, <1>5, <2>1
<1>8. at \in DOMAIN after /\ at \in 1..until /\ at \in Nat /\ at + Len(file) = until
  BY <1>1, <1>6
<1>9. Reach(after, at)
  <2>1. end \in 0..Len(after) /\ at \in 1..(end + 1)
    BY <1>1, <1>6
  <2> QED  BY <1>4, <1>5, <2>1, ReachKept
<1>10. IsHeader(after[at]) /\ after[at].name = name /\ after[at].size = Len(file)
  BY <1>7 DEF TarHeader, IsHeader
<1>11. Reach(after, until + 1)
  <2> HIDE DEF at, until
  <2>1. at + Len(file) + 1 = until + 1
    BY <1>1, <1>8
  <2>2. Reach(after, at + after[at].size + 1)
    BY <1>8, <1>9, <1>10 DEF Reach, Skips
  <2> QED  BY <1>10, <2>1, <2>2
<1>12. ASSUME NEW k \in 1..Len(start)
       PROVE  after[at + k] = start[k]
  <2>1. /\ k + 1 \in 1..Len(member) /\ k + 1 \in 1..(Len(file) + 1) /\ k + 1 # 1
        /\ (k + 1) - 1 = k /\ at + k = end + (k + 1)
    BY <1>1, <1>2
  <2>2. after[end + (k + 1)] = member[k + 1] /\ member[k + 1] = file[(k + 1) - 1]
    BY <1>3, <1>5, <2>1
  <2> HIDE DEF at
  <2> QED  BY <1>1, <2>1, <2>2
<1>13. Holds(after, until, name, start)
  <2>1. at + Len(start) <= until /\ Len(file) >= Len(start)
    BY <1>1
  <2> HIDE DEF at, until
  <2> QED  BY <1>8, <1>9, <1>10, <1>12, <2>1 DEF Holds
<1> QED  BY <1>4, <1>5, <1>6, <1>11, <1>13 DEF after, member
------------------------------------------------------------------------------
(* The steps of a dump lose nothing                                        *)

Copies == \A n \in DOMAIN h.copied : n \in DOMAIN dir /\ StartsWith(dir[n], h.copied[n])

\* A copy starts at the beginning of what the directory has by its name.
LEMMA CopyFileStarts ==
    ASSUME TypeInv, NEW name,
           name \in Names /\ name.place = "diag" => name.rank \in DOMAIN diagLogs,
           CopyFile(name), Copies
    PROVE  Copies' /\ (UNCHANGED <<dir, h>> \/ m.made)
<1> USE DEF TypeInv, StateType
<1>1. CASE UNCHANGED <<dir, h>>
  BY <1>1 DEF Copies, StartsWith
<1>2. CASE /\ m.made /\ name \in Names
           /\ dir' = CopyOnto(dir, name, Contents(name))
           /\ h' = [h EXCEPT !.copied = CopyOnto(@, name, Contents(name))]
  <2> DEFINE file == IF name \in DOMAIN dir THEN dir[name] ELSE <<>>
             start == IF name \in DOMAIN h.copied THEN h.copied[name] ELSE <<>>
             file2 == Overwrite(file, 0, Contents(name))
             start2 == Overwrite(start, 0, Contents(name))
  <2>1. h'.copied = [n \in DOMAIN h.copied \cup {name} |-> IF n # name THEN h.copied[n] ELSE start2]
    BY <1>2 DEF CopyOnto, HistoryType, NoHistory
  <2>2. dir' = [n \in DOMAIN dir \cup {name} |-> IF n # name THEN dir[n] ELSE file2]
    BY <1>2 DEF CopyOnto
  <2>3. file \in Seq(Blocks) /\ start \in Seq(Blocks) /\ Len(file) \in Nat
    BY EmptySeq, LenProperties DEF FilesType, HistoryType, IsBoundedDir, IsDir
  <2>4. StartsWith(file, start)
    <3>1. CASE name \in DOMAIN h.copied
      BY <3>1 DEF Copies
    <3>2. CASE name \notin DOMAIN h.copied
      <4>1. start = <<>> /\ Len(start) = 0
        BY <3>2, EmptySeq
      <4> HIDE DEF file, start
      <4> QED  BY <2>3, <4>1 DEF StartsWith
    <3> QED  BY <3>1, <3>2
  <2>5. Contents(name) \in Seq(Blocks)
    BY <1>2, ContentsType
  <2> HIDE DEF file, start
  <2>6. StartsWith(file2, start2)
    BY <2>3, <2>4, <2>5, OverwriteStarts
  <2> HIDE DEF file2, start2
  <2>7. ASSUME NEW n \in DOMAIN h'.copied
        PROVE  n \in DOMAIN dir' /\ StartsWith(dir'[n], h'.copied[n])
    <3>1. CASE n = name
      <4>1. n \in DOMAIN dir' /\ dir'[n] = file2 /\ h'.copied[n] = start2
        BY <2>1, <2>2, <3>1
      <4> QED  BY <2>6, <4>1
    <3>2. CASE n # name
      <4>1. n \in DOMAIN h.copied
        BY <2>1, <3>2
      <4>2. n \in DOMAIN dir /\ StartsWith(dir[n], h.copied[n])
        BY <4>1 DEF Copies
      <4>3. n \in DOMAIN dir' /\ dir'[n] = dir[n] /\ h'.copied[n] = h.copied[n]
        BY <2>1, <2>2, <3>2, <4>1, <4>2
      <4> QED  BY <4>2, <4>3
    <3> QED  BY <3>1, <3>2
  <2> QED  BY <1>2, <2>7 DEF Copies
<1> QED  BY <1>1, <1>2 DEF CopyFile

\* What the parts of the invariant read.
LEMMA CompleteFrame ==
    ASSUME CompleteInv, UNCHANGED <<dir, tar, sent, mpc>>, m'.tarLen = m.tarLen,
           m'.entries = m.entries, m'.made = m.made, h'.copied = h.copied, h'.pipe = h.pipe
    PROVE  CompleteInv'
BY DEF CompleteInv, CopiesInv, MadeInv, PackedInv

LEMMA CompleteBinder ==
    ASSUME TypeInv, ControlInv, CompleteInv,
           \/ \E enable \in BOOLEAN : SetVerboseLoggingEnabled(enable)
           \/ \E c \in Calls : DumpstateBoard(c)
           \/ Binder \/ Crash
    PROVE  CompleteInv'
<1> USE DEF TypeInv, StateType
<1>1. UNCHANGED <<dir, tar>>
  BY BinderFrame
<1>2. CASE UNCHANGED <<mpc, m, h, sent>>
  BY <1>1, <1>2, CompleteFrame
<1>3. CASE Spawn \/ Exit \/ Crash
  <2>1. mpc' \in {"none", "props"} /\ DOMAIN h'.copied = {} /\ h'.pipe = "unused"
    <3>1. CASE Spawn
      <4>1. mpc = "none" /\ mpc' \in {"none", "props"} /\ UNCHANGED h
        BY <3>1 DEF Spawn, ModemType
      <4> QED  BY <4>1 DEF ControlInv
    <3>2. CASE Exit \/ Crash
      BY <3>2 DEF Exit, Crash, NewProcess, NoHistory, NoDir
    <3> QED  BY <1>3, <3>1, <3>2
  <2> QED  BY <2>1 DEF CompleteInv, CopiesInv, MadeInv, PackedInv
<1> QED  BY <1>2, <1>3
         DEF SetVerboseLoggingEnabled, DumpstateBoard, Binder, Touch, ForceActive, SetLandscape,
             SetPortrait, EndActive, TouchCommand, Join, Reply, BinderOnly, modem

LEMMA CompleteDiag ==
    ASSUME TypeInv, ControlInv, EfsInv, CompleteInv, Diag
    PROVE  CompleteInv'
<1>h. {"copied", "pipe"} \subseteq DOMAIN h
  BY DEF TypeInv, StateType, HistoryType, NoHistory
<1>m. "made" \in DOMAIN m
  BY DEF TypeInv, StateType, ModemType
<1>1. /\ UNCHANGED <<dir, tar, sent>> /\ h'.copied = h.copied /\ h'.pipe = h.pipe
      /\ m'.made = m.made
  <2>1. CASE ReadProperties
    <3>1. UNCHANGED <<dir, tar, sent, h>>
      BY <2>1 DEF ReadProperties, files
    <3> QED  BY <2>1, <3>1, <1>m DEF ReadProperties
  <2>2. CASE StopLogger
    <3>1. UNCHANGED <<dir, tar, sent, m>>
      BY <2>2 DEF StopLogger, files
    <3>2. h'.copied = h.copied /\ h'.pipe = h.pipe
      BY <2>2, <1>h DEF StopLogger
    <3> QED  BY <3>1, <3>2
  <2>3. CASE WaitForLogger \/ WaitTimeout
    <3>1. UNCHANGED <<dir, tar, sent, h>>
      BY <2>3 DEF WaitForLogger, WaitTimeout, WaitOnly, files
    <3> QED  BY <2>3, <3>1, <1>m DEF WaitForLogger, WaitTimeout
  <2>4. CASE RestartLogger
    BY <2>4 DEF RestartLogger, files
  <2> QED  BY <2>1, <2>2, <2>3, <2>4 DEF Diag
<1>2. /\ mpc \in {"props", "stop", "wait", "restart"}
      /\ mpc' \in {"done", "stop", "wait", "mkdir", "poweron"}
      /\ mpc' = "done" => mpc = "props"
      /\ mpc = "restart" => mpc' = "poweron"
  BY DEF Diag, ReadProperties, StopLogger, WaitForLogger, WaitTimeout, RestartLogger, To
<1>3. h.pipe = "unused"
  BY <1>2 DEF EfsInv
<1> QED  BY <1>1, <1>2, <1>3 DEF CompleteInv, CopiesInv, MadeInv, PackedInv

LEMMA CompleteCopy ==
    ASSUME TypeInv, EfsInv, CompleteInv, Copy
    PROVE  CompleteInv'
<1> USE DEF TypeInv, StateType
<1>1. UNCHANGED <<tar, sent>> /\ h'.pipe = h.pipe
  BY CopyFrames
<1>2. /\ mpc \notin {"none", "props", "stop", "wait", "pack", "send", "rmDir", "rmTar", "done"}
      /\ mpc' \notin {"none", "props", "stop", "wait", "mkdir", "pack", "send", "rmDir", "rmTar",
                      "done"}
  BY DEF Copy, Mkdir, DumpDiagLogs, DumpTcpdumpLogs, DumpExtendedLogs, Scan, CopyLog, CopiedLogs,
     CopyPoweronLog, CopyRilLogs, CopyOne, EfsDumpOn, EfsDumpOff, SetEfsDump, To, CopySteps
<1>3. h.pipe = "unused"
  BY <1>2 DEF EfsInv
<1>4. Copies
  BY <1>2 DEF CompleteInv, CopiesInv, Copies
<1>5. Copies' /\ (DOMAIN h'.copied # {} => m'.made)
  <2>1. CASE Mkdir
    <3>1. mpc = "mkdir" /\ UNCHANGED <<dir, h>>
      BY <2>1 DEF Mkdir, files
    <3>2. DOMAIN h.copied = {}
      BY <3>1 DEF CompleteInv, MadeInv
    <3> QED  BY <3>1, <3>2 DEF Copies
  <2>2. CASE UNCHANGED dir /\ h'.copied = h.copied /\ m'.made = m.made
    BY <1>4, <2>2 DEF Copies, CompleteInv, MadeInv
  <2>3. ASSUME NEW name, CopyFile(name),
               name \in Names /\ name.place = "diag" => name.rank \in DOMAIN diagLogs,
               m'.made = m.made
        PROVE  Copies' /\ (DOMAIN h'.copied # {} => m'.made)
    <3>1. Copies' /\ (UNCHANGED <<dir, h>> \/ m.made)
      BY <1>4, <2>3, CopyFileStarts
    <3>2. DOMAIN h.copied # {} => m.made
      BY DEF CompleteInv, MadeInv
    <3> QED  BY <2>3, <3>1, <3>2
  <2>4. CASE CopyLog
    <3>1. mpc \in CopySteps
      BY <2>4, CopyLogStep
    <3>2. PICK left \in 1..Found(mpc) :
             LET log == LogOf(PlaceOf(mpc), left) IN
             IF m.copiedFiles >= m.maxFileNum /\ m.maxFileNum # -1
             THEN m' = [m EXCEPT !.list = @ \ {log}] /\ UNCHANGED <<dir, h>>
             ELSE /\ m' = [m EXCEPT !.list = @ \ {log}, !.copiedFiles = @ + 1]
                  /\ CopyFile(log)
      BY <2>4, CopyLogStep
    <3> DEFINE name == LogOf(PlaceOf(mpc), left)
    <3>3. name.place = "diag" => name.rank \in DOMAIN diagLogs
      BY <3>1, LenProperties DEF Found, PlaceOf, CopySteps, LoggerType, LogOf
    <3> HIDE DEF name
    <3>4. m'.made = m.made /\ (UNCHANGED <<dir, h>> \/ CopyFile(name))
      BY <3>2 DEF name, ModemType
    <3> QED  BY <2>2, <2>3, <3>3, <3>4
  <2>5. CASE CopyPoweronLog \/ CopyRilLogs
    <3>1. PICK name \in {PoweronLog, RilLog} : CopyFile(name)
      BY <2>5 DEF CopyPoweronLog, CopyRilLogs, CopyOne
    <3>2. name.place # "diag" /\ m'.made = m.made
      BY <2>5 DEF PoweronLog, RilLog, CopyPoweronLog, CopyRilLogs, CopyOne
    <3> QED  BY <2>3, <3>1, <3>2
  <2>6. CASE EfsDumpOn \/ EfsDumpOff
    BY <2>2, <2>6 DEF EfsDumpOn, EfsDumpOff, SetEfsDump, files
  <2>7. CASE DumpDiagLogs \/ DumpTcpdumpLogs \/ DumpExtendedLogs \/ CopiedLogs
    <3>1. "copied" \in DOMAIN h /\ "made" \in DOMAIN m
      BY DEF HistoryType, NoHistory, ModemType
    <3>2. ASSUME NEW from, NEW to, NEW names, NEW max, Scan(from, to, names, max)
          PROVE  UNCHANGED dir /\ h'.copied = h.copied /\ m'.made = m.made
      BY <3>1, <3>2 DEF Scan, files
    <3>3. CASE CopiedLogs
      BY <2>2, <3>1, <3>3 DEF CopiedLogs, files
    <3> QED  BY <2>2, <2>7, <3>2, <3>3 DEF DumpDiagLogs, DumpTcpdumpLogs, DumpExtendedLogs
  <2> QED  BY <2>1, <2>4, <2>5, <2>6, <2>7 DEF Copy
<1> QED  BY <1>1, <1>2, <1>3, <1>5 DEF CompleteInv, CopiesInv, MadeInv, PackedInv, Copies

LEMMA CompletePack ==
    ASSUME TypeInv, EfsInv, CompleteInv, Pack
    PROVE  CompleteInv'
<1> USE DEF TypeInv, StateType
<1>1. PICK name \in m.entries :
          /\ tar' = Overwrite(tar, m.tarLen, TarMember(name, dir[name]))
          /\ m' = [m EXCEPT !.entries = @ \ {name}, !.tarLen = @ + Len(dir[name]) + 1]
  BY DEF Pack
<1>2. mpc = "pack" /\ mpc' = "pack" /\ UNCHANGED <<dir, sent, h>>
  BY DEF Pack, PackFrame
<1>3. h.pipe = "unused"
  BY <1>2 DEF EfsInv
<1>4. CopiesInv' /\ MadeInv'
  BY <1>1, <1>2 DEF CompleteInv, CopiesInv, MadeInv, ModemType
<1> DEFINE file == dir[name]
           start == IF name \in DOMAIN h.copied THEN h.copied[name] ELSE <<>>
           until == m.tarLen + Len(file) + 1
<1>5. /\ name \in Names /\ file \in Seq(Blocks) /\ Len(file) <= MaxBlocks + 2
      /\ Len(file) \in Nat
      /\ tar \in Seq(Blocks) /\ m.tarLen \in 0..Len(tar) /\ m.tarLen \in Nat
  BY <1>2, LenProperties DEF FilesType, ModemType, IsBoundedDir, IsDir
<1>6. start \in Seq(Blocks) /\ StartsWith(file, start)
  <2>1. CASE name \in DOMAIN h.copied
    BY <1>2, <2>1 DEF CompleteInv, CopiesInv, HistoryType, IsBoundedDir, IsDir
  <2>2. CASE name \notin DOMAIN h.copied
    <3>1. start = <<>> /\ Len(start) = 0 /\ start \in Seq(Blocks)
      BY <2>2, EmptySeq
    <3> HIDE DEF start, file
    <3> QED  BY <1>5, <3>1 DEF StartsWith
  <2> QED  BY <2>1, <2>2
<1>7. Reach(tar, m.tarLen + 1)
  BY <1>2 DEF CompleteInv, PackedInv
<1>8. m'.tarLen = until /\ m'.entries = m.entries \ {name}
  BY <1>1, <1>2 DEF ModemType
<1>9. tar' = Overwrite(tar, m.tarLen, TarMember(name, file))
  BY <1>1
<1> HIDE DEF file, start
<1>10. /\ tar' \in Seq(Blocks) /\ until \in Nat /\ until <= Len(tar')
       /\ \A i \in 1..m.tarLen : tar'[i] = tar[i]
       /\ Reach(tar', until + 1) /\ Holds(tar', until, name, start)
  <2>1. LET after == Overwrite(tar, m.tarLen, TarMember(name, file))
            place == m.tarLen + Len(file) + 1
        IN  /\ after \in Seq(Blocks) /\ place \in Nat /\ place <= Len(after)
            /\ \A i \in 1..m.tarLen : after[i] = tar[i]
            /\ Reach(after, place + 1) /\ Holds(after, place, name, start)
    BY <1>5, <1>6, <1>7, MemberHeld
  <2> QED  BY <1>9, <2>1
<1>11. ASSUME NEW n \in DOMAIN h.copied \ m'.entries
       PROVE  Holds(tar', until, n, h.copied[n])
  <2>1. CASE n = name
    BY <1>10, <2>1 DEF start
  <2>2. CASE n # name
    <3>1. n \in DOMAIN h.copied \ m.entries
      BY <1>8, <2>2
    <3>2. Holds(tar, m.tarLen, n, h.copied[n]) /\ h.copied[n] \in Seq(Blocks)
      BY <1>2, <3>1 DEF CompleteInv, PackedInv, HistoryType, IsBoundedDir, IsDir
    <3>3. m.tarLen <= until
      BY <1>5
    <3> HIDE DEF until
    <3> QED  BY <1>5, <1>10, <3>2, <3>3, HoldsKept
  <2> QED  BY <2>1, <2>2
<1>12. PackedInv'
  <2> HIDE DEF until
  <2>1. Reach(tar', m'.tarLen + 1)
    BY <1>8, <1>10
  <2>2. \A n \in DOMAIN h'.copied \ m'.entries : Holds(tar', m'.tarLen, n, h'.copied[n])
    BY <1>2, <1>8, <1>11
  <2> QED  BY <1>2, <1>3, <2>1, <2>2 DEF PackedInv
<1> QED  BY <1>4, <1>12 DEF CompleteInv

LEMMA CompleteReport ==
    ASSUME TypeInv, EfsInv, CompleteInv, Report
    PROVE  CompleteInv'
<1> USE DEF TypeInv, StateType, To
<1>1. CASE Pack
  BY <1>1, CompletePack
<1>2. CASE OpenTar
  <2>1. /\ mpc = "tar" /\ mpc' \in {"pack", "send"} /\ UNCHANGED <<dir, tar, sent, h>>
        /\ m'.tarLen = 0 /\ m'.made = m.made
        /\ mpc' = "pack" => m'.entries = DOMAIN dir
        /\ "open" \notin Faulty /\ mpc' = "send" => ~m.made
    <3>1. PICK opened \in Outcome("open") :
             IF opened /\ m.made
             THEN mpc' = "pack" /\ m' = [m EXCEPT !.entries = DOMAIN dir]
             ELSE mpc' = "send" /\ UNCHANGED m
      BY <1>2 DEF OpenTar
    <3>2. "open" \notin Faulty => opened
      BY DEF Outcome
    <3>3. mpc = "tar" /\ UNCHANGED <<dir, tar, sent, h>> /\ m.tarLen = 0
      BY <1>2 DEF OpenTar, files, ModemType
    <3> QED  BY <3>1, <3>2, <3>3 DEF ModemType
  <2>2. h.pipe = "unused"
    BY <2>1 DEF EfsInv
  <2>3. CopiesInv' /\ MadeInv'
    BY <2>1 DEF CompleteInv, CopiesInv, MadeInv
  <2>4. mpc' = "pack" => Reach(tar', m'.tarLen + 1) /\ DOMAIN h'.copied \ m'.entries = {}
    BY <2>1 DEF Reach, Skips, CompleteInv, CopiesInv
  <2>5. "open" \notin Faulty /\ mpc' = "send" => DOMAIN h'.copied = {}
    BY <2>1 DEF CompleteInv, MadeInv
  <2> QED  BY <2>1, <2>2, <2>3, <2>4, <2>5 DEF CompleteInv, PackedInv
<1>3. CASE Packed
  <2>1. /\ mpc = "pack" /\ mpc' = "send" /\ m.entries = {} /\ UNCHANGED <<dir, tar, sent, h>>
        /\ m'.made = m.made
    BY <1>3 DEF Packed, PackFrame, ModemType
  <2>2. h.pipe = "unused"
    BY <2>1 DEF EfsInv
  <2>3. CopiesInv' /\ MadeInv'
    BY <2>1 DEF CompleteInv, CopiesInv, MadeInv
  <2>4. ASSUME NEW n \in DOMAIN h.copied
        PROVE  Holds(tar, Len(tar), n, h.copied[n])
    <3>1. Holds(tar, m.tarLen, n, h.copied[n]) /\ h.copied[n] \in Seq(Blocks)
      BY <2>1 DEF CompleteInv, PackedInv, HistoryType, IsBoundedDir, IsDir
    <3>2. tar \in Seq(Blocks) /\ Len(tar) \in Nat /\ m.tarLen \in Nat /\ m.tarLen <= Len(tar)
      BY <2>1, LenProperties DEF FilesType, ModemType
    <3> QED  BY <3>1, <3>2, HoldsKept
  <2> QED  BY <2>1, <2>2, <2>3, <2>4 DEF CompleteInv, PackedInv
<1>4. CASE Send
  <2>1. /\ mpc = "send" /\ mpc' = "rmDir" /\ UNCHANGED <<dir, tar, m>> /\ h'.copied = h.copied
    BY <1>4 DEF Send, files, HistoryType, NoHistory
  <2>2. h'.pipe = "whole" => sent' = tar
    <3>1. ASSUME h'.pipe = "whole"
          PROVE  sent' = SubSeq(tar, 1, Len(tar))
      BY <1>4, <3>1 DEF Send, HistoryType, NoHistory
    <3> QED  BY <3>1, SubSeqFull DEF FilesType
  <2>3. CopiesInv' /\ MadeInv'
    BY <2>1 DEF CompleteInv, CopiesInv, MadeInv
  <2>4. PackedInv'
    BY <2>1, <2>2 DEF CompleteInv, PackedInv
  <2> QED  BY <2>3, <2>4 DEF CompleteInv
<1>5. CASE RemoveDir \/ RemoveTar
  <2>1. /\ mpc \in {"rmDir", "rmTar"} /\ mpc' \in {"rmTar", "done"} /\ UNCHANGED <<sent, m, h>>
    BY <1>5 DEF RemoveDir, RemoveTar
  <2> QED  BY <2>1 DEF CompleteInv, CopiesInv, MadeInv, PackedInv
<1> QED  BY <1>1, <1>2, <1>3, <1>4, <1>5 DEF Report

LEMMA CompleteStep ==
    TypeInv /\ SwitchInv /\ CompleteInv /\ [Next]_vars => CompleteInv'
<1> SUFFICES ASSUME TypeInv, SwitchInv, CompleteInv, [Next]_vars
             PROVE  CompleteInv'
  OBVIOUS
<1>1. CASE Environment
  BY <1>1, CompleteFrame, EnvironmentFrame, EnvironmentTypes
<1>2. CASE UNCHANGED vars
  BY <1>2, CompleteFrame DEF vars, files, modem
<1> QED  BY <1>1, <1>2, CompleteBinder, CompleteDiag, CompleteCopy, CompleteReport
         DEF Next, Modem, SwitchInv

\* DumpstateDevice.cpp:70-94, :142-198 and :350-377: when files can be opened and the pipe
\* takes everything, a reader that starts at the beginning of a report and skips from header
\* to header finds every file the dump has copied, whole, although the tar file and the
\* directory may hold what an earlier dump has left, longer than what is written over it.
THEOREM ReportsEverything ==
    Spec => []NothingMissing
<1>1. Init => TypeInv /\ SwitchInv /\ CompleteInv
  BY TypeInit, SwitchInit, CompleteInit
<1>2. TypeInv /\ SwitchInv /\ CompleteInv /\ [Next]_vars => (TypeInv /\ SwitchInv /\ CompleteInv)'
  BY TypeStep, SwitchStep, CompleteStep
<1>3. TypeInv /\ CompleteInv => NothingMissing
  BY CompleteDone
<1> QED  BY <1>1, <1>2, <1>3, PTL DEF Spec
==============================================================================
