---------------------------- MODULE Dumpstate_proofs ----------------------------
(***************************************************************************)
(* Proofs about Dumpstate for any number of logs of any bounded size, any  *)
(* calls, any crashes and any faults.                                      *)
(***************************************************************************)
EXTENDS Dumpstate, SequenceTheorems, TLAPS

------------------------------------------------------------------------------
(* The inductive invariant, in parts                                       *)

\* The types by the part of the state they are about, with what the steps need to
\* keep them: a modem logger that runs has a log, and no file is longer than the
\* longest that is ever written over it.
LoggerType ==
    /\ verbose \in BOOLEAN /\ userBuild \in BOOLEAN /\ mdlog \in BOOLEAN
    /\ efsdump \in BOOLEAN /\ mdlogOn \in BOOLEAN
    /\ diagLogs \in Seq(1..MaxBlocks) /\ Len(diagLogs) \in 1..MaxLogs
    /\ rilVersion \in {1, 2}
BinderType ==
    /\ touch \in [active : BOOLEAN, landscape : BOOLEAN]
    /\ pc \in Steps /\ call \in Calls \cup {NoCall}
    /\ status \in {"none", "OK", "ILLEGAL_ARGUMENT", "UNSUPPORTED_MODE"}

IsBoundedDir(d) == IsDir(d) /\ \A n \in DOMAIN d : Len(d[n]) <= MaxBlocks + 2
FilesType == IsBoundedDir(dir) /\ tar \in Seq(Blocks) /\ sent \in Seq(Blocks)

HistoryType ==
    /\ DOMAIN h = DOMAIN NoHistory
    /\ h.listed \in SUBSET Names /\ IsBoundedDir(h.copied)
    /\ h.clean \in BOOLEAN /\ h.stopped \in BOOLEAN /\ h.meddled \in BOOLEAN
    /\ h.pipe \in {"unused", "whole", "short"}
    /\ h.crashes \in 0..MaxCrashes

\* A dump begins with no modem thread, and the place in the tar file is one that has
\* been written.
ModemType ==
    /\ mpc \in ModemSteps
    /\ pc \in {"idle", "spawn"} => mpc = "none"
    /\ m \in [diagLogEnabled : BOOLEAN, diagLogStarted : BOOLEAN,
              waited : {"no", "exited", "timeout"}, made : BOOLEAN,
              list : SUBSET Names, copiedFiles : Nat, maxFileNum : MaxFileNums \cup {0, 100},
              entries : SUBSET Names, tarLen : Nat]
    /\ mpc = "pack" => m.entries \subseteq DOMAIN dir
    /\ IF mpc = "pack" THEN m.tarLen <= Len(tar) ELSE m.tarLen = 0

\* The place whose logs a loop of dumpLogs() copies, and the most it may have found.
PlaceOf(step) ==
    CASE step = "diagCopy" -> "diag"
      [] step = "tcpdumpCopy" -> "tcpdump"
      [] step = "extendedCopy" -> "extended"
Found(step) ==
    CASE step = "diagCopy" -> Len(diagLogs)
      [] step = "tcpdumpCopy" -> TcpdumpLogs
      [] step = "extendedCopy" -> ExtendedLogs

\* A list holds the oldest of the logs that the scan before it has found.
ListType ==
    mpc \in CopySteps => \E left \in 0..Found(mpc) : m.list = LogsOf(PlaceOf(mpc), 1..left)

StateType == LoggerType /\ BinderType /\ FilesType /\ HistoryType /\ ModemType
TypeInv == StateType /\ ListType

LEMMA TypeInvType ==
    TypeInv => TypeOK
BY DEF TypeInv, StateType, LoggerType, BinderType, FilesType, HistoryType, ModemType, TypeOK, IsBoundedDir
------------------------------------------------------------------------------
(* Files                                                                   *)

\* A file that is written over keeps what is behind the new contents.
LEMMA OverwriteType ==
    ASSUME NEW B, NEW file \in Seq(B), NEW new \in Seq(B), NEW at \in 0..Len(file)
    PROVE  /\ Overwrite(file, at, new) \in Seq(B)
           /\ Len(Overwrite(file, at, new)) =
                 IF at + Len(new) <= Len(file) THEN Len(file) ELSE at + Len(new)
<1> DEFINE front == SubSeq(file, 1, at)
           back == SubSeq(file, at + Len(new) + 1, Len(file))
<1>1. Len(file) \in Nat /\ Len(new) \in Nat /\ at \in Nat
  BY LenProperties
<1>2. front \in Seq(B) /\ Len(front) = at
  <2>1. \A i \in 1..at : file[i] \in B
    BY <1>1, LenProperties
  <2> QED  BY <2>1, <1>1, SubSeqProperties
<1>3. /\ back \in Seq(B)
      /\ Len(back) = IF at + Len(new) <= Len(file) THEN Len(file) - (at + Len(new)) ELSE 0
  <2>1. \A i \in at + Len(new) + 1 .. Len(file) : file[i] \in B
    BY <1>1, LenProperties
  <2> HIDE DEF front
  <2>2. at + Len(new) + 1 \in Int /\ Len(file) \in Int
    BY <1>1
  <2>3. /\ back \in Seq(B)
        /\ Len(back) = IF at + Len(new) + 1 <= Len(file)
                       THEN Len(file) - (at + Len(new) + 1) + 1 ELSE 0
    BY <2>1, <2>2, SubSeqProperties
  <2> QED  BY <2>3, <1>1
<1>4. front \o new \in Seq(B) /\ Len(front \o new) = at + Len(new)
  BY <1>2, ConcatProperties
<1>5. /\ (front \o new) \o back \in Seq(B)
      /\ Len((front \o new) \o back) = at + Len(new) + Len(back)
  BY <1>3, <1>4, ConcatProperties
<1>6. Overwrite(file, at, new) = (front \o new) \o back
  BY DEF Overwrite
<1> HIDE DEF front, back
<1>7. /\ Overwrite(file, at, new) \in Seq(B)
      /\ Len(Overwrite(file, at, new)) = at + Len(new) + Len(back)
  BY <1>5, <1>6
<1>8. CASE at + Len(new) <= Len(file)
  <2>1. Len(back) = Len(file) - (at + Len(new))
    BY <1>3, <1>8
  <2>2. at + Len(new) + Len(back) = Len(file)
    BY <2>1, <1>1
  <2> QED  BY <2>2, <1>7, <1>8
<1>9. CASE ~(at + Len(new) <= Len(file))
  <2>1. Len(back) = 0
    BY <1>3, <1>9
  <2>2. at + Len(new) + Len(back) = at + Len(new)
    BY <2>1, <1>1
  <2> QED  BY <2>2, <1>7, <1>9
<1> QED  BY <1>8, <1>9

LEMMA CopyOntoType ==
    ASSUME NEW d, IsBoundedDir(d), NEW name \in Names,
           NEW contents \in Seq(Blocks), Len(contents) <= MaxBlocks + 2
    PROVE  IsBoundedDir(CopyOnto(d, name, contents))
<1> DEFINE old == IF name \in DOMAIN d THEN d[name] ELSE <<>>
           new == Overwrite(old, 0, contents)
<1>1. old \in Seq(Blocks) /\ Len(old) \in Nat /\ Len(old) <= MaxBlocks + 2
  <2>1. old \in Seq(Blocks)
    BY EmptySeq DEF IsBoundedDir, IsDir
  <2>2. Len(old) <= MaxBlocks + 2
    BY EmptySeq, LogAssumption DEF IsBoundedDir, IsDir
  <2> QED  BY <2>1, <2>2, LenProperties
<1>2. new \in Seq(Blocks) /\ Len(new) <= MaxBlocks + 2
  <2> HIDE DEF old
  <2>1. Len(contents) \in Nat /\ 0 \in 0..Len(old)
    BY <1>1, LenProperties
  <2>2. /\ new \in Seq(Blocks)
        /\ Len(new) = IF 0 + Len(contents) <= Len(old) THEN Len(old) ELSE 0 + Len(contents)
    BY <1>1, <2>1, OverwriteType
  <2> QED  BY <2>1, <2>2, <1>1
<1>3. CopyOnto(d, name, contents) =
         [n \in DOMAIN d \cup {name} |-> IF n # name THEN d[n] ELSE new]
  BY DEF CopyOnto
<1> HIDE DEF old, new
<1> QED  BY <1>2, <1>3 DEF IsBoundedDir, IsDir

LEMMA ContentsType ==
    ASSUME LoggerType, NEW name \in Names,
           name.place = "diag" => name.rank \in DOMAIN diagLogs
    PROVE  Contents(name) \in Seq(Blocks) /\ Len(Contents(name)) <= MaxBlocks + 2
<1> USE LogAssumption DEF Blocks, DataBlock
<1>1. CASE name.place = "diag"
  <2>1. diagLogs[name.rank] \in 1..MaxBlocks
    BY <1>1, LenProperties, ElementOfSeq DEF LoggerType
  <2>2. Contents(name) = [i \in 1..diagLogs[name.rank] |-> DataBlock(name, 1, i)]
    BY <1>1 DEF Contents
  <2>3. \A i \in 1..diagLogs[name.rank] : DataBlock(name, 1, i) \in Blocks
    BY <2>1
  <2> QED  BY <2>1, <2>2, <2>3
<1>2. CASE name.place = "ril"
  <2>1. PICK size \in {1, 2} :
            Contents(name) = [i \in 1..size |-> DataBlock(name, rilVersion, i)]
    BY <1>2 DEF Contents
  <2>2. \A i \in 1..size : DataBlock(name, rilVersion, i) \in Blocks
    BY <2>1 DEF LoggerType
  <2> QED  BY <2>1, <2>2
<1>3. CASE name.place \notin {"diag", "ril"}
  <2>1. Contents(name) = <<DataBlock(name, 1, 1)>>
    BY <1>3 DEF Contents
  <2>2. DataBlock(name, 1, 1) \in Blocks
    OBVIOUS
  <2> QED  BY <2>1, <2>2
<1> QED  BY <1>1, <1>2, <1>3

LEMMA TarMemberType ==
    ASSUME NEW name \in Names, NEW contents \in Seq(Blocks), Len(contents) <= MaxBlocks + 2
    PROVE  /\ TarMember(name, contents) \in Seq(Blocks)
           /\ Len(TarMember(name, contents)) = Len(contents) + 1
<1>1. Len(contents) \in 0..(MaxBlocks + 2)
  BY LenProperties, LogAssumption
<1>2. TarHeader(name, Len(contents)) \in Blocks
  BY <1>1 DEF TarHeader, Blocks
<1>3. /\ <<TarHeader(name, Len(contents))>> \in Seq(Blocks)
      /\ Len(<<TarHeader(name, Len(contents))>>) = 1
  BY <1>2
<1> QED  BY <1>1, <1>3, ConcatProperties DEF TarMember

\* Every log that there is has a place of its own.
LEMMA NamePlaces ==
    ASSUME NEW name \in Names
    PROVE  /\ name.place = "diag" => name.rank \in 1..MaxLogs
           /\ name.place = "tcpdump" => name.rank \in 1..TcpdumpLogs
           /\ name.place = "extended" => name.rank \in 1..ExtendedLogs
           /\ name.place \in {"poweron", "ril"} => name \in Single
BY LogAssumption DEF Names, LogsOf, PoweronLog, RilLog

LEMMA FoundNames ==
    ASSUME LoggerType, NEW step \in CopySteps
    PROVE  /\ Found(step) \in Nat
           /\ \A left \in 0..Found(step) : LogsOf(PlaceOf(step), 1..left) \subseteq Names
<1>1. Found(step) \in Nat
  BY LogAssumption DEF Found, CopySteps, LoggerType
<1>2. ASSUME NEW left \in 0..Found(step)
      PROVE  LogsOf(PlaceOf(step), 1..left) \subseteq Names
  <2>1. CASE step = "diagCopy"
    BY <1>1, <2>1, LogAssumption DEF Found, PlaceOf, LoggerType, LogsOf, Names
  <2>2. CASE step = "tcpdumpCopy"
    BY <1>1, <2>2, LogAssumption DEF Found, PlaceOf, LogsOf, Names
  <2>3. CASE step = "extendedCopy"
    BY <1>1, <2>3, LogAssumption DEF Found, PlaceOf, LogsOf, Names
  <2> QED  BY <2>1, <2>2, <2>3 DEF CopySteps
<1> QED  BY <1>1, <1>2

\* The newest of the oldest logs of a place, and what is left without it.
LogOf(place, rank) == [place |-> place, rank |-> rank]

LEMMA NewestLeft ==
    ASSUME NEW place, NEW left \in Nat, left > 0
    PROVE  /\ LogsOf(place, 1..left) # {}
           /\ (CHOOSE n \in LogsOf(place, 1..left) :
                  \A o \in LogsOf(place, 1..left) : n.rank >= o.rank) = LogOf(place, left)
           /\ LogsOf(place, 1..left) \ {LogOf(place, left)} = LogsOf(place, 1..(left - 1))
<1> DEFINE names == LogsOf(place, 1..left)
           name == LogOf(place, left)
<1>1. name \in names /\ \A o \in names : name.rank >= o.rank
  BY DEF LogsOf, LogOf
<1>2. \A n \in names : (\A o \in names : n.rank >= o.rank) => n = name
  <2> SUFFICES ASSUME NEW n \in names, \A o \in names : n.rank >= o.rank
               PROVE  n = name
    OBVIOUS
  <2>1. n \in [place : {place}, rank : 1..left] /\ n.rank >= name.rank
    BY <1>1 DEF LogsOf
  <2> QED  BY <2>1 DEF LogOf
<1>3. names \ {name} = LogsOf(place, 1..(left - 1))
  <2>1. ASSUME NEW n \in names, n # name
        PROVE  n \in LogsOf(place, 1..(left - 1))
    <3>1. n \in [place : {place}, rank : 1..left]
      BY DEF LogsOf
    <3>2. n.rank # left
      BY <2>1, <3>1 DEF LogOf
    <3> QED  BY <3>1, <3>2 DEF LogsOf
  <2>2. ASSUME NEW n \in LogsOf(place, 1..(left - 1))
        PROVE  n \in names /\ n # name
    BY DEF LogsOf, LogOf
  <2> QED  BY <2>1, <2>2
<1> HIDE DEF names, name
<1>4. (CHOOSE n \in names : \A o \in names : n.rank >= o.rank) = name
  BY <1>1, <1>2
<1> QED  BY <1>1, <1>3, <1>4 DEF names, name

\* What a step of the loop of dumpLogs() takes from the list.
LEMMA CopyLogStep ==
    ASSUME TypeInv, CopyLog
    PROVE  /\ mpc \in CopySteps /\ mpc' = mpc /\ UNCHANGED <<tar, sent>>
           /\ \E left \in 1..Found(mpc) :
                 LET name == LogOf(PlaceOf(mpc), left) IN
                 /\ m.list = LogsOf(PlaceOf(mpc), 1..left)
                 /\ IF m.copiedFiles >= m.maxFileNum /\ m.maxFileNum # -1
                    THEN m' = [m EXCEPT !.list = @ \ {name}] /\ UNCHANGED <<dir, h>>
                    ELSE /\ m' = [m EXCEPT !.list = @ \ {name}, !.copiedFiles = @ + 1]
                         /\ CopyFile(name)
<1>1. mpc \in CopySteps /\ m.list # {} /\ mpc' = mpc /\ UNCHANGED <<tar, sent>>
  BY DEF CopyLog, CopyFrame
<1>2. PICK left \in 0..Found(mpc) : m.list = LogsOf(PlaceOf(mpc), 1..left)
  BY <1>1 DEF TypeInv, ListType
<1>3. Found(mpc) \in Nat
  BY <1>1, FoundNames DEF TypeInv, StateType
<1>4. left \in 1..Found(mpc) /\ left > 0 /\ left \in Nat
  <2>1. LogsOf(PlaceOf(mpc), 1..0) = {}
    BY DEF LogsOf
  <2> QED  BY <1>1, <1>2, <1>3, <2>1
<1> DEFINE name == LogOf(PlaceOf(mpc), left)
<1>5. (CHOOSE n \in m.list : \A o \in m.list : n.rank >= o.rank) = name
  BY <1>2, <1>4, NewestLeft
<1> HIDE DEF name
<1>6. IF m.copiedFiles >= m.maxFileNum /\ m.maxFileNum # -1
      THEN m' = [m EXCEPT !.list = @ \ {name}] /\ UNCHANGED <<dir, h>>
      ELSE /\ m' = [m EXCEPT !.list = @ \ {name}, !.copiedFiles = @ + 1]
           /\ CopyFile(name)
  BY <1>5 DEF CopyLog
<1> QED  BY <1>1, <1>2, <1>4, <1>6 DEF name

\* What is copied is copied into the directory and, as read, into the history.
LEMMA CopyFileType ==
    ASSUME TypeInv, NEW name,
           name \in Names /\ name.place = "diag" => name.rank \in DOMAIN diagLogs,
           CopyFile(name)
    PROVE  /\ IsBoundedDir(dir') /\ DOMAIN dir \subseteq DOMAIN dir'
           /\ HistoryType' /\ h'.listed = h.listed /\ h'.clean = h.clean
           /\ h'.stopped = h.stopped /\ h'.meddled = h.meddled
           /\ h'.pipe = h.pipe /\ h'.crashes = h.crashes
<1> USE DEF TypeInv, StateType
<1>1. CASE UNCHANGED <<dir, h>>
  BY <1>1 DEF HistoryType, IsBoundedDir, IsDir, FilesType
<1>2. CASE /\ name \in Names
           /\ dir' = CopyOnto(dir, name, Contents(name))
           /\ h' = [h EXCEPT !.copied = CopyOnto(@, name, Contents(name))]
  <2>1. Contents(name) \in Seq(Blocks) /\ Len(Contents(name)) <= MaxBlocks + 2
    BY <1>2, ContentsType
  <2>2. IsBoundedDir(dir')
    BY <2>1, <1>2, CopyOntoType DEF FilesType
  <2>3. IsBoundedDir(CopyOnto(h.copied, name, Contents(name)))
    BY <2>1, <1>2, CopyOntoType DEF HistoryType
  <2>4. DOMAIN dir' = DOMAIN dir \cup {name}
    BY <1>2 DEF CopyOnto
  <2>5. /\ DOMAIN h' = DOMAIN h
        /\ h'.copied = CopyOnto(h.copied, name, Contents(name))
        /\ h'.listed = h.listed /\ h'.clean = h.clean
        /\ h'.stopped = h.stopped /\ h'.meddled = h.meddled
        /\ h'.pipe = h.pipe /\ h'.crashes = h.crashes
    BY <1>2 DEF HistoryType, NoHistory
  <2> QED  BY <2>2, <2>3, <2>4, <2>5 DEF HistoryType
<1> QED  BY <1>1, <1>2 DEF CopyFile
------------------------------------------------------------------------------
(* The types are kept                                                      *)

LEMMA TypeInit ==
    Init => TypeInv
<1> SUFFICES ASSUME Init PROVE TypeInv
  OBVIOUS
<1> USE LogAssumption DEF Init
<1>1. LoggerType
  <2>1. diagLogs \in Seq(1..MaxBlocks) /\ Len(diagLogs) \in 1..MaxLogs
    OBVIOUS
  <2>2. {mdlog, mdlogOn, efsdump} \subseteq BOOLEAN
    OBVIOUS
  <2> QED  BY <2>1, <2>2 DEF LoggerType
<1>2. BinderType
  BY DEF BinderType, Steps
<1>3. FilesType
  BY EmptySeq DEF FilesType, IsBoundedDir, IsDir, NoDir
<1>4. HistoryType
  BY DEF HistoryType, NoHistory, IsBoundedDir, IsDir, NoDir
<1>5. ModemType
  BY DEF ModemType, NoModem, ModemSteps
<1>6. ListType
  BY DEF ListType, CopySteps
<1> QED  BY <1>1, <1>2, <1>3, <1>4, <1>5, <1>6 DEF TypeInv, StateType

\* The frames of the three parties.
LEMMA BinderFrame ==
    ASSUME \/ \E enable \in BOOLEAN : SetVerboseLoggingEnabled(enable)
           \/ \E c \in Calls : DumpstateBoard(c)
           \/ Binder \/ Crash
    PROVE  /\ UNCHANGED <<userBuild, mdlog, efsdump, mdlogOn, diagLogs, rilVersion, dir, tar>>
           /\ UNCHANGED sent \/ sent' = <<>>
           /\ UNCHANGED verbose \/ verbose' \in BOOLEAN
BY DEF SetVerboseLoggingEnabled, DumpstateBoard, Binder, Crash, Spawn, Touch, ForceActive,
   SetLandscape, SetPortrait, EndActive, TouchCommand, Join, Reply, Exit, NewProcess,
   BinderOnly, properties, logger, files, modem

LEMMA ModemFrame ==
    ASSUME Modem
    PROVE  UNCHANGED <<verbose, userBuild, mdlogOn, diagLogs, rilVersion, touch, pc, call, status>>
<1> USE DEF properties, logger, files, binder, CopyFrame, PackFrame, WaitOnly
<1>1. CASE Diag
  BY <1>1 DEF Diag, ReadProperties, StopLogger, WaitForLogger, WaitTimeout, RestartLogger
<1>2. CASE Copy
  BY <1>2 DEF Copy, Mkdir, DumpDiagLogs, DumpTcpdumpLogs, DumpExtendedLogs, Scan, CopyLog,
     CopiedLogs, CopyPoweronLog, CopyRilLogs, CopyOne, EfsDumpOn, EfsDumpOff, SetEfsDump
<1>3. CASE Report
  BY <1>3 DEF Report, OpenTar, Pack, Packed, Send, RemoveDir, RemoveTar
<1> QED  BY <1>1, <1>2, <1>3 DEF Modem

LEMMA EnvironmentFrame ==
    ASSUME Environment
    PROVE  UNCHANGED <<verbose, userBuild, efsdump, dir, tar, touch, pc, call, status, mpc, m,
                       sent>>
BY DEF Environment, LoggerStarts, LoggerWrites, LoggerStops, LoggerSwitched, RilLogRewritten,
   LoggerFrame, files, binder, modem

LEMMA BinderTypes ==
    ASSUME TypeInv,
           \/ \E enable \in BOOLEAN : SetVerboseLoggingEnabled(enable)
           \/ \E c \in Calls : DumpstateBoard(c)
           \/ Binder \/ Crash
    PROVE  StateType'
<1> USE DEF TypeInv, StateType
<1>1. LoggerType'
  BY BinderFrame DEF LoggerType
<1>2. FilesType'
  BY BinderFrame, EmptySeq DEF FilesType, IsBoundedDir, IsDir
<1>3. BinderType'
  <2> USE DEF BinderType, Steps, TouchSteps, Go, Finish, Outcome
  <2>1. CASE \E enable \in BOOLEAN : SetVerboseLoggingEnabled(enable)
    BY <2>1 DEF SetVerboseLoggingEnabled, binder
  <2>2. ASSUME NEW c \in Calls, DumpstateBoard(c)
        PROVE  BinderType'
    BY <2>2, CallAssumption DEF DumpstateBoard, BinderOnly, AllCalls
  <2>3. CASE Spawn
    BY <2>3 DEF Spawn
  <2>4. CASE Touch
    BY <2>4 DEF Touch, ForceActive, SetLandscape, SetPortrait, EndActive, TouchCommand
  <2>5. CASE Join \/ Reply
    BY <2>5 DEF Join, Reply, BinderOnly
  <2>6. CASE Exit \/ Crash
    BY <2>6 DEF Exit, Crash, NewProcess
  <2> QED  BY <2>1, <2>2, <2>3, <2>4, <2>5, <2>6 DEF Binder
<1>4. HistoryType' /\ ModemType'
  <2>1. CASE UNCHANGED <<mpc, m, h>>
    <3>1. pc' \in {"idle", "spawn"} => pc \in {"idle", "spawn"} \/ mpc' = "none"
      BY DEF SetVerboseLoggingEnabled, DumpstateBoard, Binder, Crash, Spawn, Touch,
         ForceActive, SetLandscape, SetPortrait, EndActive, TouchCommand, Join, Reply, Exit,
         NewProcess, Go, Finish, binder
    <3> QED  BY <2>1, <3>1, BinderFrame DEF HistoryType, IsBoundedDir, IsDir, ModemType
  <2>2. CASE Spawn
    BY <2>2, BinderFrame
    DEF Spawn, Go, HistoryType, IsBoundedDir, IsDir, ModemType, ModemSteps, Outcome
  <2>3. ASSUME NEW crashes \in 0..MaxCrashes, NEW clean \in BOOLEAN, NewProcess(crashes, clean)
        PROVE  HistoryType' /\ ModemType'
    <3>1. mpc' = "none" /\ m' = NoModem
      BY <2>3 DEF NewProcess
    <3>2. ModemType'
      BY <3>1 DEF ModemType, NoModem, ModemSteps
    <3>3. h' = [NoHistory EXCEPT !.crashes = crashes, !.clean = clean]
      BY <2>3 DEF NewProcess
    <3> QED  BY <3>2, <3>3, LogAssumption DEF HistoryType, NoHistory, IsBoundedDir, IsDir, NoDir
  <2>4. CASE Exit
    <3>1. h.crashes \in 0..MaxCrashes /\ (h.clean \/ h.pipe # "unused") \in BOOLEAN
      BY DEF HistoryType
    <3> QED  BY <2>3, <2>4, <3>1 DEF Exit
  <2>5. CASE Crash
    <3>1. h.crashes + 1 \in 0..MaxCrashes /\ (h.clean /\ mpc = "none") \in BOOLEAN
      BY <2>5, LogAssumption DEF HistoryType, Crash
    <3> QED  BY <2>3, <2>5, <3>1 DEF Crash
  <2>6. CASE Touch
    BY <2>6, <2>1
    DEF Touch, ForceActive, SetLandscape, SetPortrait, EndActive, TouchCommand, modem
  <2> QED  BY <2>1, <2>2, <2>4, <2>5, <2>6
           DEF Binder, SetVerboseLoggingEnabled, DumpstateBoard, Join, Reply, BinderOnly, modem
<1> QED  BY <1>1, <1>2, <1>3, <1>4

LEMMA EnvironmentTypes ==
    ASSUME TypeInv, Environment
    PROVE  /\ StateType'
           /\ Len(diagLogs) <= Len(diagLogs') /\ h'.listed = h.listed /\ h'.copied = h.copied
           /\ h'.pipe = h.pipe /\ h'.clean = h.clean
<1> USE DEF TypeInv, StateType
<1>0. Len(diagLogs) \in 1..MaxLogs /\ DOMAIN diagLogs = 1..Len(diagLogs)
  BY LenProperties DEF LoggerType
<1>1. LoggerType' /\ Len(diagLogs) <= Len(diagLogs')
  <2> USE DEF LoggerType
  <2>1. CASE LoggerStarts
    <3>1. /\ diagLogs' \in Seq(1..MaxBlocks) /\ Len(diagLogs') = Len(diagLogs) + 1
      BY <2>1, LogAssumption, AppendProperties DEF LoggerStarts
    <3>2. {mdlog', mdlogOn', verbose', userBuild', efsdump'} \subseteq BOOLEAN
      BY <2>1, EnvironmentFrame DEF LoggerStarts, Environment
    <3>3. rilVersion' \in {1, 2} /\ Len(diagLogs) < MaxLogs
      BY <2>1 DEF LoggerStarts
    <3> QED  BY <3>1, <3>2, <3>3, <1>0, LogAssumption
  <2>2. CASE LoggerWrites
    <3> DEFINE last == Len(diagLogs)
    <3>1. last \in 1..Len(diagLogs) /\ diagLogs[last] + 1 \in 1..MaxBlocks
      BY <2>2, <1>0, LogAssumption, ElementOfSeq DEF LoggerWrites
    <3>2. diagLogs' = [diagLogs EXCEPT ![last] = diagLogs[last] + 1]
      BY <2>2 DEF LoggerWrites
    <3> HIDE DEF last
    <3>3. diagLogs' \in Seq(1..MaxBlocks) /\ Len(diagLogs') = Len(diagLogs)
      BY <3>1, <3>2, ExceptSeq
    <3> QED  BY <2>2, <3>3, <1>0, EnvironmentFrame DEF LoggerWrites, Environment
  <2>3. CASE LoggerStops \/ LoggerSwitched \/ RilLogRewritten
    <3>1. {mdlog', mdlogOn', verbose', userBuild', efsdump'} \subseteq BOOLEAN
      BY <2>3, EnvironmentFrame
      DEF LoggerStops, LoggerSwitched, RilLogRewritten, Environment
    <3>2. rilVersion' \in {1, 2} /\ UNCHANGED diagLogs
      BY <2>3 DEF LoggerStops, LoggerSwitched, RilLogRewritten
    <3> QED  BY <3>1, <3>2, <1>0
  <2> QED  BY <2>1, <2>2, <2>3 DEF Environment
<1>2. BinderType' /\ FilesType'
  BY EnvironmentFrame DEF BinderType, FilesType, IsBoundedDir, IsDir
<1>3. ModemType'
  <2>1. DOMAIN diagLogs \subseteq DOMAIN diagLogs'
    <3>1. Len(diagLogs') \in Nat /\ DOMAIN diagLogs' = 1..Len(diagLogs')
      BY <1>1, LenProperties DEF LoggerType
    <3> QED  BY <1>0, <1>1, <3>1
  <2> QED  BY <2>1, EnvironmentFrame DEF ModemType, LogsOf
<1>4. /\ HistoryType' /\ h'.listed = h.listed /\ h'.copied = h.copied
      /\ h'.pipe = h.pipe /\ h'.clean = h.clean
  <2>1. CASE UNCHANGED h
    BY <2>1 DEF HistoryType, IsBoundedDir, IsDir
  <2>2. CASE LoggerSwitched
    <3>1. (pc # "idle") \in BOOLEAN
      OBVIOUS
    <3>2. /\ DOMAIN h' = DOMAIN h
          /\ h'.meddled = (pc # "idle") /\ h'.stopped = FALSE
          /\ h'.listed = h.listed /\ h'.copied = h.copied /\ h'.clean = h.clean
          /\ h'.pipe = h.pipe /\ h'.crashes = h.crashes
      BY <2>2 DEF LoggerSwitched, HistoryType, NoHistory
    <3> QED  BY <3>1, <3>2 DEF HistoryType, IsBoundedDir, IsDir
  <2> QED  BY <2>1, <2>2
           DEF Environment, LoggerStarts, LoggerWrites, LoggerStops, RilLogRewritten
<1> QED  BY <1>1, <1>2, <1>3, <1>4

LEMMA ModemTypes ==
    ASSUME TypeInv, Modem
    PROVE  StateType'
<1> USE LogAssumption DEF TypeInv, StateType
<1>1. BinderType'
  BY ModemFrame DEF BinderType
<1>2. mpc # "none"
  BY DEF Modem, Diag, Copy, Report, ReadProperties, StopLogger, WaitForLogger, WaitTimeout,
     RestartLogger, Mkdir, DumpDiagLogs, DumpTcpdumpLogs, DumpExtendedLogs, Scan, CopyLog,
     CopiedLogs, CopyPoweronLog, CopyRilLogs, CopyOne, EfsDumpOn, EfsDumpOff, SetEfsDump,
     OpenTar, Pack, Packed, Send, RemoveDir, RemoveTar, CopySteps
<1>3. pc' \notin {"idle", "spawn"}
  BY <1>2, ModemFrame DEF ModemType
<1>4. LoggerType'
  <2>1. {mdlog', efsdump'} \subseteq BOOLEAN
    <3> USE DEF LoggerType, properties
    <3>1. CASE Diag
      BY <3>1 DEF Diag, ReadProperties, StopLogger, WaitForLogger, WaitTimeout, WaitOnly,
         RestartLogger
    <3>2. CASE Copy
      BY <3>2 DEF Copy, Mkdir, DumpDiagLogs, DumpTcpdumpLogs, DumpExtendedLogs, Scan, CopyLog,
         CopiedLogs, CopyPoweronLog, CopyRilLogs, CopyOne, CopyFrame, EfsDumpOn, EfsDumpOff,
         SetEfsDump
    <3>3. CASE Report
      BY <3>3 DEF Report, OpenTar, Pack, Packed, PackFrame, Send, RemoveDir, RemoveTar
    <3> QED  BY <3>1, <3>2, <3>3 DEF Modem
  <2> QED  BY <2>1, ModemFrame DEF LoggerType
<1>5. ASSUME UNCHANGED <<dir, tar, sent>>
      PROVE  FilesType'
  BY <1>5 DEF FilesType, IsBoundedDir, IsDir
<1>6. ASSUME UNCHANGED h
      PROVE  HistoryType'
  BY <1>6 DEF HistoryType, IsBoundedDir, IsDir
<1>7. ASSUME mpc' \in ModemSteps \ (CopySteps \cup {"pack"}), UNCHANGED m, mpc # "pack"
      PROVE  ModemType'
  BY <1>3, <1>7 DEF ModemType, CopySteps
<1>8. CASE ReadProperties
  <2>1. ModemType'
    <3>1. PICK enabled \in BOOLEAN :
               /\ mpc = "props" /\ mpc' \in {"done", "stop", "mkdir"}
               /\ m' = [m EXCEPT !.diagLogEnabled = enabled, !.diagLogStarted = mdlogOn]
      BY <1>8 DEF ReadProperties, To
    <3>2. mdlogOn \in BOOLEAN
      BY DEF LoggerType
    <3> QED  BY <1>3, <3>1, <3>2 DEF ModemType, ModemSteps, CopySteps
  <2> QED  BY <2>1, <1>1, <1>4, <1>5, <1>6, <1>8 DEF ReadProperties, files
<1>9. CASE StopLogger
  <2>1. ModemType'
    BY <1>7, <1>9 DEF StopLogger, To, ModemSteps, CopySteps, ScanSteps
  <2>2. HistoryType'
    BY <1>9 DEF StopLogger, HistoryType, NoHistory, IsBoundedDir, IsDir
  <2> QED  BY <2>1, <2>2, <1>1, <1>4, <1>5, <1>9 DEF StopLogger, files
<1>10. CASE WaitForLogger \/ WaitTimeout
  <2>1. ModemType'
    BY <1>3, <1>10 DEF WaitForLogger, WaitTimeout, To, ModemType, ModemSteps, CopySteps
  <2> QED  BY <2>1, <1>1, <1>4, <1>5, <1>6, <1>10 DEF WaitForLogger, WaitTimeout, WaitOnly, files
<1>11. CASE RestartLogger
  <2>1. ModemType'
    BY <1>7, <1>11 DEF RestartLogger, To, ModemSteps, CopySteps, ScanSteps
  <2> QED  BY <2>1, <1>1, <1>4, <1>5, <1>6, <1>11 DEF RestartLogger, files
<1>12. CASE Mkdir
  <2>1. ModemType'
    <3>1. PICK made \in BOOLEAN : m' = [m EXCEPT !.made = made]
      <4>1. PICK made \in Outcome("mkdir") : m' = [m EXCEPT !.made = made \/ dir # NoDir]
        BY <1>12 DEF Mkdir
      <4>2. (made \/ dir # NoDir) \in BOOLEAN
        OBVIOUS
      <4> QED  BY <4>1, <4>2
    <3>2. mpc = "mkdir" /\ mpc' \in {"diagScan", "poweron"}
      BY <1>12 DEF Mkdir, To
    <3> QED  BY <1>3, <3>1, <3>2 DEF ModemType, ModemSteps, CopySteps, ScanSteps
  <2> QED  BY <2>1, <1>1, <1>4, <1>5, <1>6, <1>12 DEF Mkdir, files
<1>13. ASSUME NEW from \in ScanSteps, NEW to \in CopySteps, NEW max \in MaxFileNums \cup {100},
              NEW left \in 0..Found(to), Scan(from, to, LogsOf(PlaceOf(to), 1..left), max)
       PROVE  StateType'
  <2> DEFINE names == LogsOf(PlaceOf(to), 1..left)
  <2>1. names \subseteq Names
    BY <1>13, FoundNames
  <2>2. ModemType'
    <3>1. /\ mpc' = to /\ to \in ModemSteps
          /\ m' = [m EXCEPT !.list = names, !.copiedFiles = 0, !.maxFileNum = max]
      BY <1>13 DEF Scan, To, ModemSteps
    <3>2. mpc # "pack" /\ mpc' # "pack"
      BY <1>13 DEF Scan, To, ScanSteps, CopySteps
    <3> HIDE DEF names
    <3>3. /\ DOMAIN m' = DOMAIN m /\ m'.list = names /\ m'.tarLen = m.tarLen
      BY <3>1 DEF ModemType
    <3>4. /\ mpc' \in ModemSteps
          /\ pc' \in {"idle", "spawn"} => mpc' = "none"
          /\ m'.tarLen = 0
      BY <1>3, <3>1, <3>2, <3>3 DEF ModemType
    <3>5. m' \in [diagLogEnabled : BOOLEAN, diagLogStarted : BOOLEAN,
                  waited : {"no", "exited", "timeout"}, made : BOOLEAN,
                  list : SUBSET Names, copiedFiles : Nat,
                  maxFileNum : MaxFileNums \cup {0, 100},
                  entries : SUBSET Names, tarLen : Nat]
      BY <2>1, <3>1 DEF ModemType
    <3> QED  BY <3>2, <3>4, <3>5 DEF ModemType
  <2>3. HistoryType'
    BY <2>1, <1>13 DEF Scan, HistoryType, NoHistory, IsBoundedDir, IsDir
  <2> QED  BY <2>2, <2>3, <1>1, <1>4, <1>5, <1>13 DEF Scan, files
<1>14. CASE DumpDiagLogs
  <2>1. PICK max \in MaxFileNums :
             Scan("diagScan", "diagCopy", LogsOf("diag", DOMAIN diagLogs), max)
    BY <1>14 DEF DumpDiagLogs
  <2>2. DOMAIN diagLogs = 1..Len(diagLogs) /\ Len(diagLogs) \in 0..Found("diagCopy")
    BY LenProperties DEF LoggerType, Found
  <2> QED  BY <2>1, <2>2, <1>13 DEF ScanSteps, CopySteps, PlaceOf
<1>15. CASE DumpTcpdumpLogs
  <2>1. PICK max \in MaxFileNums, names \in {{}, LogsOf("tcpdump", 1..TcpdumpLogs)} :
             Scan("tcpdumpScan", "tcpdumpCopy", names, max)
    BY <1>15 DEF DumpTcpdumpLogs
  <2>2. PICK left \in 0..TcpdumpLogs : names = LogsOf("tcpdump", 1..left)
    BY <2>1 DEF LogsOf
  <2> QED  BY <2>1, <2>2, <1>13 DEF ScanSteps, CopySteps, PlaceOf, Found
<1>16. CASE DumpExtendedLogs
  <2>1. ExtendedLogs \in 0..Found("extendedCopy")
    BY DEF Found
  <2> QED  BY <2>1, <1>16, <1>13 DEF DumpExtendedLogs, ScanSteps, CopySteps, PlaceOf
<1>17. CASE CopyLog
  <2>1. mpc \in CopySteps /\ mpc' = mpc /\ UNCHANGED <<tar, sent>>
    BY <1>17, CopyLogStep
  <2>2. PICK left \in 1..Found(mpc) :
            /\ m' \in {[m EXCEPT !.list = @ \ {LogOf(PlaceOf(mpc), left)}],
                       [m EXCEPT !.list = @ \ {LogOf(PlaceOf(mpc), left)}, !.copiedFiles = @ + 1]}
            /\ UNCHANGED <<dir, h>> \/ CopyFile(LogOf(PlaceOf(mpc), left))
    BY <1>17, CopyLogStep
  <2> DEFINE name == LogOf(PlaceOf(mpc), left)
  <2>3. name.place = "diag" => name.rank \in DOMAIN diagLogs
    BY <2>1, LenProperties DEF Found, PlaceOf, CopySteps, LoggerType, LogOf
  <2> HIDE DEF name
  <2>4. IsBoundedDir(dir') /\ HistoryType'
    <3>1. CASE UNCHANGED <<dir, h>>
      BY <3>1 DEF FilesType, IsBoundedDir, IsDir, HistoryType
    <3>2. CASE CopyFile(name)
      BY <3>2, <2>3, CopyFileType
    <3> QED  BY <2>2, <3>1, <3>2 DEF name
  <2>5. m' \in {[m EXCEPT !.list = @ \ {name}],
                [m EXCEPT !.list = @ \ {name}, !.copiedFiles = @ + 1]}
    BY <2>2 DEF name
  <2>6. ModemType'
    <3>1. mpc # "pack" /\ mpc' # "pack"
      BY <2>1 DEF CopySteps
    <3>2. CASE m' = [m EXCEPT !.list = @ \ {name}]
      BY <1>3, <2>1, <3>1, <3>2 DEF ModemType
    <3>3. CASE m' = [m EXCEPT !.list = @ \ {name}, !.copiedFiles = @ + 1]
      <4>1. PICK list \in SUBSET Names, count \in Nat :
                m' = [m EXCEPT !.list = list, !.copiedFiles = count]
        <5>1. m.list \ {name} \in SUBSET Names /\ m.copiedFiles + 1 \in Nat
          BY DEF ModemType
        <5> QED  BY <3>3, <5>1
      <4> QED  BY <1>3, <2>1, <3>1, <4>1 DEF ModemType
    <3> QED  BY <2>5, <3>2, <3>3
  <2>7. FilesType'
    BY <2>1, <2>4 DEF FilesType
  <2> QED  BY <2>4, <2>6, <2>7, <1>1, <1>4
<1>18. CASE CopiedLogs
  <2>1. ModemType'
    BY <1>3, <1>18 DEF CopiedLogs, To, ModemType, ModemSteps, CopySteps, ScanSteps
  <2>2. HistoryType'
    BY <1>18 DEF CopiedLogs, HistoryType, NoHistory, IsBoundedDir, IsDir
  <2> QED  BY <2>1, <2>2, <1>1, <1>4, <1>5, <1>18 DEF CopiedLogs, files
<1>19. ASSUME NEW from, from \in {"poweron", "ril"}, NEW to, to \in {"tar", "efsOn", "extendedScan"},
              NEW name \in {PoweronLog, RilLog}, CopyOne(from, to, name)
       PROVE  StateType'
  <2>1. ModemType'
    BY <1>7, <1>19 DEF CopyOne, To, ModemSteps, CopySteps, ScanSteps
  <2>2. CopyFile(name) /\ UNCHANGED <<tar, sent>>
    BY <1>19 DEF CopyOne, CopyFrame
  <2>3. name.place # "diag"
    BY DEF PoweronLog, RilLog
  <2>4. IsBoundedDir(dir') /\ HistoryType'
    BY <2>2, <2>3, CopyFileType
  <2>5. FilesType'
    BY <2>2, <2>4 DEF FilesType
  <2> QED  BY <2>1, <2>4, <2>5, <1>1, <1>4
<1>20. CASE CopyPoweronLog \/ CopyRilLogs
  BY <1>20, <1>19 DEF CopyPoweronLog, CopyRilLogs
<1>21. CASE EfsDumpOn \/ EfsDumpOff
  <2>1. ModemType'
    BY <1>7, <1>21 DEF EfsDumpOn, EfsDumpOff, SetEfsDump, To, ModemSteps, CopySteps, ScanSteps
  <2> QED  BY <2>1, <1>1, <1>4, <1>5, <1>6, <1>21 DEF EfsDumpOn, EfsDumpOff, SetEfsDump, files
<1>22. CASE OpenTar
  <2>1. ModemType'
    <3>1. CASE UNCHANGED m /\ mpc' = "send"
      BY <1>7, <1>22, <3>1 DEF OpenTar, ModemSteps, CopySteps
    <3>2. CASE mpc = "tar" /\ mpc' = "pack" /\ m' = [m EXCEPT !.entries = DOMAIN dir]
      <4>1. DOMAIN dir' \subseteq Names /\ DOMAIN dir' = DOMAIN dir /\ Len(tar') \in Nat
        BY <1>22, LenProperties DEF OpenTar, files, FilesType, IsBoundedDir, IsDir
      <4> QED  BY <1>3, <3>2, <4>1 DEF ModemType, ModemSteps, CopySteps
    <3> QED  BY <1>22, <3>1, <3>2 DEF OpenTar, To
  <2> QED  BY <2>1, <1>1, <1>4, <1>5, <1>6, <1>22 DEF OpenTar, files
<1>23. CASE Pack
  <2>1. PICK name \in m.entries :
            /\ tar' = Overwrite(tar, m.tarLen, TarMember(name, dir[name]))
            /\ m' = [m EXCEPT !.entries = @ \ {name}, !.tarLen = @ + Len(dir[name]) + 1]
    BY <1>23 DEF Pack
  <2>2. mpc = "pack" /\ mpc' = "pack" /\ UNCHANGED <<dir, sent, h>>
    BY <1>23 DEF Pack, PackFrame
  <2>3. name \in Names /\ name \in DOMAIN dir /\ dir[name] \in Seq(Blocks)
        /\ Len(dir[name]) <= MaxBlocks + 2 /\ Len(dir[name]) \in Nat
    BY <2>1, <2>2, LenProperties DEF ModemType, FilesType, IsBoundedDir, IsDir
  <2> DEFINE member == TarMember(name, dir[name])
  <2>4. member \in Seq(Blocks) /\ Len(member) = Len(dir[name]) + 1
    BY <2>3, TarMemberType
  <2>5. m.tarLen \in 0..Len(tar) /\ tar \in Seq(Blocks) /\ Len(tar) \in Nat
    BY <2>2, LenProperties DEF ModemType, FilesType
  <2> HIDE DEF member
  <2>6. /\ tar' = Overwrite(tar, m.tarLen, member)
        /\ tar' \in Seq(Blocks)
        /\ Len(tar') = IF m.tarLen + Len(member) <= Len(tar) THEN Len(tar) ELSE m.tarLen + Len(member)
    BY <2>1, <2>4, <2>5, OverwriteType DEF member
  <2>7. m.tarLen + Len(dir[name]) + 1 \in 0..Len(tar')
    BY <2>3, <2>4, <2>5, <2>6
  <2>8. ModemType'
    <3>1. DOMAIN dir' = DOMAIN dir /\ Len(tar') \in Nat
      BY <2>2, <2>6, LenProperties
    <3>2. m.tarLen + Len(dir[name]) + 1 \in Nat /\ m.tarLen + Len(dir[name]) + 1 <= Len(tar')
      BY <2>7, <3>1
    <3> HIDE DEF member
    <3> QED  BY <2>1, <2>2, <3>1, <3>2, <1>3 DEF ModemType
  <2>9. FilesType'
    BY <2>2, <2>6 DEF FilesType, IsBoundedDir, IsDir
  <2> QED  BY <2>2, <2>8, <2>9, <1>1, <1>4, <1>6
<1>24. CASE Packed
  <2>1. ModemType'
    BY <1>3, <1>24 DEF Packed, To, ModemType, ModemSteps, CopySteps, ScanSteps
  <2> QED  BY <2>1, <1>1, <1>4, <1>5, <1>6, <1>24 DEF Packed, PackFrame
<1>25. CASE Send
  <2>1. ModemType'
    BY <1>7, <1>25 DEF Send, To, ModemSteps, CopySteps, ScanSteps
  <2>2. PICK n \in 0..Len(tar) : sent' = SubSeq(tar, 1, n)
    <3>1. Len(tar) \in 0..Len(tar)
      BY LenProperties DEF FilesType
    <3> QED  BY <3>1, <1>25 DEF Send
  <2>3. sent' \in Seq(Blocks)
    <3>1. \A i \in 1..n : tar[i] \in Blocks
      BY LenProperties DEF FilesType
    <3>2. n \in Int
      BY LenProperties DEF FilesType
    <3> QED  BY <2>2, <3>1, <3>2, SubSeqProperties
  <2>4. UNCHANGED <<dir, tar>>
    BY <1>25 DEF Send, files
  <2>5. FilesType'
    BY <2>3, <2>4 DEF FilesType, IsBoundedDir, IsDir
  <2>6. HistoryType'
    BY <1>25 DEF Send, HistoryType, NoHistory, IsBoundedDir, IsDir
  <2> QED  BY <2>1, <2>5, <2>6, <1>1, <1>4
<1>26. CASE RemoveDir \/ RemoveTar
  <2>1. ModemType'
    BY <1>7, <1>26 DEF RemoveDir, RemoveTar, To, ModemSteps, CopySteps, ScanSteps
  <2>2. (UNCHANGED dir \/ dir' = NoDir) /\ (UNCHANGED tar \/ tar' = <<>>) /\ UNCHANGED <<sent, h>>
    BY <1>26 DEF RemoveDir, RemoveTar
  <2>3. FilesType'
    BY <2>2, EmptySeq DEF FilesType, IsBoundedDir, IsDir, NoDir
  <2> QED  BY <2>1, <2>2, <2>3, <1>1, <1>4, <1>6
<1> QED  BY <1>8, <1>9, <1>10, <1>11, <1>12, <1>14, <1>15, <1>16, <1>17, <1>18, <1>20, <1>21,
            <1>22, <1>23, <1>24, <1>25, <1>26 DEF Modem, Diag, Copy, Report

\* Where the modem thread enters a loop of dumpLogs() and stays in it.
LEMMA LoopSteps ==
    ASSUME TypeInv, [Next]_vars, mpc' \in CopySteps
    PROVE  \/ UNCHANGED <<mpc, m, h, diagLogs>>
           \/ Environment
           \/ CopyLog
           \/ DumpDiagLogs \/ DumpTcpdumpLogs \/ DumpExtendedLogs
<1> USE DEF To, CopySteps
<1>1. CASE UNCHANGED vars
  BY <1>1 DEF vars, modem, logger
<1>2. CASE \/ \E enable \in BOOLEAN : SetVerboseLoggingEnabled(enable)
           \/ \E c \in Calls : DumpstateBoard(c)
           \/ Binder \/ Crash
  <2>1. UNCHANGED diagLogs
    BY <1>2, BinderFrame
  <2> QED  BY <1>2, <2>1
           DEF SetVerboseLoggingEnabled, DumpstateBoard, Binder, Crash, Spawn, Touch,
               ForceActive, SetLandscape, SetPortrait, EndActive, TouchCommand, Join, Reply,
               Exit, NewProcess, BinderOnly, modem
<1>3. CASE Diag
  BY <1>3 DEF Diag, ReadProperties, StopLogger, WaitForLogger, WaitTimeout, RestartLogger
<1>4. CASE Copy
  BY <1>4 DEF Copy, Mkdir, CopiedLogs, CopyPoweronLog, CopyRilLogs, CopyOne, EfsDumpOn,
     EfsDumpOff, SetEfsDump
<1>5. CASE Report
  BY <1>5 DEF Report, OpenTar, Pack, Packed, Send, RemoveDir, RemoveTar
<1> QED  BY <1>1, <1>2, <1>3, <1>4, <1>5 DEF Next, Modem

LEMMA ListTypes ==
    ASSUME TypeInv, [Next]_vars
    PROVE  ListType'
<1> SUFFICES ASSUME mpc' \in CopySteps
             PROVE  \E left \in 0..Found(mpc)' : m'.list = LogsOf(PlaceOf(mpc'), 1..left)
  BY DEF ListType
<1> USE LogAssumption DEF TypeInv, StateType, CopySteps
<1>1. CASE UNCHANGED <<mpc, m, h, diagLogs>>
  BY <1>1 DEF ListType, Found
<1>2. CASE Environment
  <2>1. UNCHANGED <<mpc, m>> /\ Len(diagLogs) <= Len(diagLogs')
    BY <1>2, EnvironmentFrame, EnvironmentTypes
  <2>2. Found(mpc) \in Nat /\ Found(mpc)' \in Nat /\ Found(mpc) <= Found(mpc)'
    <3>1. Len(diagLogs) \in Nat /\ Len(diagLogs') \in Nat
      BY <1>2, EnvironmentTypes DEF LoggerType
    <3> QED  BY <2>1, <3>1 DEF Found
  <2> QED  BY <2>1, <2>2 DEF ListType
<1>3. CASE CopyLog
  <2>1. mpc \in CopySteps /\ mpc' = mpc
    BY <1>3, CopyLogStep
  <2>2. PICK left \in 1..Found(mpc) :
            /\ m.list = LogsOf(PlaceOf(mpc), 1..left)
            /\ m' \in {[m EXCEPT !.list = @ \ {LogOf(PlaceOf(mpc), left)}],
                       [m EXCEPT !.list = @ \ {LogOf(PlaceOf(mpc), left)}, !.copiedFiles = @ + 1]}
    BY <1>3, CopyLogStep
  <2>3. Found(mpc) \in Nat /\ Found(mpc)' = Found(mpc)
    BY <1>3, <2>1, FoundNames, ModemFrame DEF Found, Modem, Copy
  <2>4. m'.list = m.list \ {LogOf(PlaceOf(mpc), left)}
    <3>1. "list" \in DOMAIN m
      BY DEF ModemType
    <3> QED  BY <2>2, <3>1
  <2>5. m'.list = LogsOf(PlaceOf(mpc), 1..(left - 1))
    <3>1. left \in Nat \ {0}
      BY <2>2, <2>3
    <3> HIDE DEF TypeInv, StateType, CopySteps
    <3> QED  BY <2>2, <2>4, <3>1, NewestLeft
  <2>6. left - 1 \in 0..Found(mpc)'
    BY <2>3
  <2> QED  BY <2>1, <2>5, <2>6
<1>4. CASE DumpDiagLogs
  <2>1. mpc' = "diagCopy" /\ m'.list = LogsOf("diag", DOMAIN diagLogs)
    BY <1>4 DEF DumpDiagLogs, Scan, To, ModemType
  <2>2. DOMAIN diagLogs = 1..Len(diagLogs) /\ Len(diagLogs) \in 0..Found(mpc)'
    BY <1>4, <2>1, LenProperties, ModemFrame DEF LoggerType, Found, Modem, Copy
  <2> QED  BY <2>1, <2>2 DEF PlaceOf
<1>5. CASE DumpTcpdumpLogs
  <2>1. mpc' = "tcpdumpCopy" /\ m'.list \in {{}, LogsOf("tcpdump", 1..TcpdumpLogs)}
    BY <1>5 DEF DumpTcpdumpLogs, Scan, To, ModemType
  <2>2. PICK left \in 0..TcpdumpLogs : m'.list = LogsOf("tcpdump", 1..left)
    BY <2>1 DEF LogsOf
  <2>3. Found(mpc)' = TcpdumpLogs
    BY <2>1 DEF Found
  <2> QED  BY <2>1, <2>2, <2>3 DEF PlaceOf
<1>6. CASE DumpExtendedLogs
  <2>1. mpc' = "extendedCopy" /\ m'.list = LogsOf("extended", 1..ExtendedLogs)
    BY <1>6 DEF DumpExtendedLogs, Scan, To, ModemType
  <2>2. Found(mpc)' = ExtendedLogs
    BY <2>1 DEF Found
  <2> QED  BY <2>1, <2>2 DEF PlaceOf
<1> QED  BY <1>1, <1>2, <1>3, <1>4, <1>5, <1>6, LoopSteps

LEMMA TypeStep ==
    TypeInv /\ [Next]_vars => TypeInv'
<1> SUFFICES ASSUME TypeInv, [Next]_vars
             PROVE  StateType'
  BY ListTypes DEF TypeInv
<1>1. CASE Next
  BY <1>1, BinderTypes, ModemTypes, EnvironmentTypes DEF Next
<1>2. CASE UNCHANGED vars
  BY <1>2 DEF TypeInv, StateType, LoggerType, BinderType, FilesType, HistoryType, ModemType,
     IsBoundedDir, IsDir, vars, properties, logger, files, binder, modem
<1> QED  BY <1>1, <1>2

\* DumpstateDevice.cpp:108, :163, :215: the place in the tar file is one that has been
\* written, only names that a scan has found are copied or packed, and every file, in
\* the directory, in the tar file and in the report, is a sequence of blocks.
THEOREM TypeCorrect ==
    Spec => []TypeOK
<1>1. Init => TypeInv
  BY TypeInit
<1>2. TypeInv /\ [Next]_vars => TypeInv'
  BY TypeStep
<1>3. TypeInv => TypeOK
  BY TypeInvType
<1> QED  BY <1>1, <1>2, <1>3, PTL DEF Spec
------------------------------------------------------------------------------
(* What a dump leaves behind                                               *)

\* The modem thread works only while the binder thread waits for it or is busy with the
\* touch controller, and a dump begins with nothing.
ControlInv ==
    /\ mpc \notin {"none", "done"} => pc \in {"join"} \cup TouchSteps
    /\ mpc \in {"none", "props"} =>
          m = NoModem /\ h.pipe = "unused" /\ ~h.stopped /\ DOMAIN h.copied = {}
    /\ status = "OK" => pc \in {"reply", "exit"}

\* A modem logger that is to be started again will be: the thread is on its way to where
\* it does so, and has read that it must.
LoggerInv ==
    /\ h.stopped /\ ~mdlog =>
          /\ mpc \in {"wait", "mkdir", "diagScan", "diagCopy", "restart"}
          /\ m.diagLogEnabled /\ m.diagLogStarted
    /\ mpc = "stop" => m.diagLogEnabled /\ m.diagLogStarted

\* The EFS dump is off on a user build, which never comes to where it is switched, and
\* elsewhere from the packing on.  Before that, a dump that died may have left it on.
EfsSteps == {"efsOn", "tcpdumpScan", "tcpdumpCopy", "ril", "extendedScan", "extendedCopy", "efsOff"}
EfsInv ==
    /\ userBuild => ~efsdump /\ mpc \notin EfsSteps
    /\ mpc \in {"tar", "pack", "send"} => ~efsdump
    /\ h.pipe # "unused" => ~efsdump /\ mpc \in {"rmDir", "rmTar", "done"}

\* The touch controller is switched back in the opposite order, also when an earlier
\* dump has left it switched.
TouchInv ==
    call \in TouchCalls /\ "touch" \notin Faulty =>
       /\ pc = "activeOff" => ~touch.landscape
       /\ pc = "join" \/ status = "OK" => touch = [active |-> FALSE, landscape |-> FALSE]

SwitchInv == ControlInv /\ LoggerInv /\ EfsInv /\ TouchInv

LEMMA SwitchInit ==
    Init => SwitchInv
BY DEF Init, SwitchInv, ControlInv, LoggerInv, EfsInv, EfsSteps, TouchInv, NoHistory, NoDir,
   TouchSteps

LEMMA ControlStep ==
    ASSUME TypeInv, ControlInv, Next
    PROVE  ControlInv'
<1> USE DEF TypeInv, StateType
<1>1. CASE \/ \E enable \in BOOLEAN : SetVerboseLoggingEnabled(enable)
           \/ \E c \in Calls : DumpstateBoard(c)
  BY <1>1 DEF SetVerboseLoggingEnabled, DumpstateBoard, BinderOnly, ControlInv, ModemType,
     binder, modem
<1>2. CASE Spawn
  BY <1>2 DEF Spawn, Go, Outcome, ControlInv, ModemType, TouchSteps
<1>3. CASE Touch
  BY <1>3 DEF Touch, ForceActive, SetLandscape, SetPortrait, EndActive, TouchCommand, Go,
     ControlInv, TouchSteps, modem
<1>4. CASE Join \/ Reply
  BY <1>4 DEF Join, Reply, Go, Finish, BinderOnly, ControlInv, TouchSteps, modem
<1>5. CASE Exit \/ Crash
  <2>1. /\ pc' = "idle" /\ status' = "none" /\ mpc' = "none" /\ m' = NoModem
        /\ h'.pipe = "unused" /\ ~h'.stopped /\ h'.copied = NoDir
    BY <1>5 DEF Exit, Crash, NewProcess, NoHistory
  <2> QED  BY <2>1 DEF ControlInv, NoDir
<1>6. CASE Environment
  <2>1. h'.stopped = h.stopped \/ ~h'.stopped
    BY <1>6 DEF Environment, LoggerStarts, LoggerWrites, LoggerStops, LoggerSwitched,
       RilLogRewritten, HistoryType, NoHistory
  <2> QED  BY <1>6, <2>1, EnvironmentFrame, EnvironmentTypes DEF ControlInv
<1>7. CASE Modem
  <2>1. mpc \notin {"none", "done"} /\ mpc' \notin {"none", "props"}
    <3> USE DEF To, CopySteps, ScanSteps
    <3>1. CASE Diag
      BY <1>7, <3>1
      DEF Diag, ReadProperties, StopLogger, WaitForLogger, WaitTimeout, RestartLogger
    <3>2. CASE Copy
      BY <1>7, <3>2
      DEF Copy, Mkdir, DumpDiagLogs, DumpTcpdumpLogs, DumpExtendedLogs, Scan, CopyLog,
          CopiedLogs, CopyPoweronLog, CopyRilLogs, CopyOne, EfsDumpOn, EfsDumpOff, SetEfsDump
    <3>3. CASE Report
      BY <1>7, <3>3 DEF Report, OpenTar, Pack, Packed, Send, RemoveDir, RemoveTar
    <3> QED  BY <1>7, <3>1, <3>2, <3>3 DEF Modem
  <2> QED  BY <1>7, <2>1, ModemFrame DEF ControlInv
<1> QED  BY <1>1, <1>2, <1>3, <1>4, <1>5, <1>6, <1>7 DEF Next, Binder

\* Copying asks nothing of the modem logger and forgets nothing of what it answered.
LEMMA CopyFrames ==
    ASSUME TypeInv, Copy
    PROVE  /\ UNCHANGED <<mdlog, tar, sent>>
           /\ h'.stopped = h.stopped /\ h'.meddled = h.meddled /\ h'.pipe = h.pipe
           /\ h'.clean = h.clean
           /\ m'.diagLogEnabled = m.diagLogEnabled /\ m'.diagLogStarted = m.diagLogStarted
           /\ m'.waited = m.waited
<1> USE DEF TypeInv, StateType, properties, files
<1>1. CASE DumpDiagLogs \/ DumpTcpdumpLogs \/ DumpExtendedLogs
  <2>1. PICK from, to, names, max : Scan(from, to, names, max)
    BY <1>1 DEF DumpDiagLogs, DumpTcpdumpLogs, DumpExtendedLogs
  <2> QED  BY <2>1 DEF Scan, HistoryType, NoHistory, ModemType
<1>2. CASE CopyLog \/ CopyPoweronLog \/ CopyRilLogs
  <2>1. \/ UNCHANGED h
        \/ \E contents : h' = [h EXCEPT !.copied = contents]
    BY <1>2 DEF CopyLog, CopyPoweronLog, CopyRilLogs, CopyOne, CopyFile
  <2>2. h'.stopped = h.stopped /\ h'.meddled = h.meddled /\ h'.pipe = h.pipe
        /\ h'.clean = h.clean
    BY <2>1 DEF HistoryType, NoHistory
  <2> QED  BY <1>2, <2>2
           DEF CopyLog, CopyPoweronLog, CopyRilLogs, CopyOne, CopyFrame, ModemType
<1>3. CASE CopiedLogs
  BY <1>3 DEF CopiedLogs, HistoryType, NoHistory, ModemType
<1>4. CASE Mkdir \/ EfsDumpOn \/ EfsDumpOff
  BY <1>4 DEF Mkdir, EfsDumpOn, EfsDumpOff, SetEfsDump, ModemType
<1> QED  BY <1>1, <1>2, <1>3, <1>4 DEF Copy

LEMMA LoggerStep ==
    ASSUME TypeInv, ControlInv, LoggerInv, Next
    PROVE  LoggerInv'
<1> USE DEF TypeInv, StateType
<1>1. CASE UNCHANGED <<mdlog, mpc, m, h>>
  BY <1>1 DEF LoggerInv
<1>2. CASE Spawn
  <2>1. ~h.stopped /\ mpc' # "stop" /\ UNCHANGED h
    BY <1>2 DEF Spawn, ModemType, ControlInv
  <2> QED  BY <2>1 DEF LoggerInv
<1>3. CASE Touch
  BY <1>1, <1>3 DEF Touch, ForceActive, SetLandscape, SetPortrait, EndActive, TouchCommand,
     properties, modem
<1>4. CASE Exit \/ Crash
  <2>1. ~h'.stopped /\ mpc' = "none"
    BY <1>4 DEF Exit, Crash, NewProcess, NoHistory
  <2> QED  BY <2>1 DEF LoggerInv
<1>5. CASE Environment
  <2>1. h'.stopped /\ ~mdlog' => h.stopped /\ ~mdlog
    BY <1>5 DEF Environment, LoggerStarts, LoggerWrites, LoggerStops, LoggerSwitched,
       RilLogRewritten, HistoryType, NoHistory
  <2> QED  BY <1>5, <2>1, EnvironmentFrame DEF LoggerInv
<1>6. CASE Diag
  <2> USE DEF To, ModemType, properties
  <2>1. CASE ReadProperties
    <3>1. ~h'.stopped
      BY <2>1 DEF ReadProperties, ControlInv
    <3>2. mpc' = "stop" => m'.diagLogEnabled /\ m'.diagLogStarted
      <4>1. PICK enabled \in BOOLEAN :
               /\ mpc' = "stop" => enabled /\ mdlogOn
               /\ m' = [m EXCEPT !.diagLogEnabled = enabled, !.diagLogStarted = mdlogOn]
        BY <2>1 DEF ReadProperties
      <4>2. {m'.diagLogEnabled, enabled, m'.diagLogStarted, mdlogOn} \subseteq BOOLEAN
        BY <4>1 DEF LoggerType
      <4>3. m'.diagLogEnabled = enabled /\ m'.diagLogStarted = mdlogOn
        BY <4>1
      <4> QED  BY <4>1, <4>2, <4>3
    <3> QED  BY <3>1, <3>2 DEF LoggerInv
  <2>2. CASE StopLogger
    BY <2>2 DEF StopLogger, LoggerInv
  <2>3. CASE WaitForLogger \/ WaitTimeout
    <3>1. /\ mpc = "wait" /\ mpc' = "mkdir" /\ UNCHANGED <<mdlog, h>>
          /\ m'.diagLogEnabled = m.diagLogEnabled /\ m'.diagLogStarted = m.diagLogStarted
      BY <2>3 DEF WaitForLogger, WaitTimeout, WaitOnly
    <3> QED  BY <3>1 DEF LoggerInv
  <2>4. CASE RestartLogger
    BY <2>4 DEF RestartLogger, LoggerInv
  <2> QED  BY <1>6, <2>1, <2>2, <2>3, <2>4 DEF Diag
<1>7. CASE Copy
  <2>1. /\ UNCHANGED mdlog /\ h'.stopped = h.stopped
        /\ m'.diagLogEnabled = m.diagLogEnabled /\ m'.diagLogStarted = m.diagLogStarted
    BY <1>7, CopyFrames
  <2>2. mpc' # "stop"
    BY <1>7 DEF Copy, Mkdir, DumpDiagLogs, DumpTcpdumpLogs, DumpExtendedLogs, Scan, CopyLog,
       CopiedLogs, CopyPoweronLog, CopyRilLogs, CopyOne, EfsDumpOn, EfsDumpOff, SetEfsDump, To,
       CopySteps
  <2>3. ASSUME m.diagLogEnabled, mpc \in {"wait", "mkdir", "diagScan", "diagCopy", "restart"}
        PROVE  mpc' \in {"wait", "mkdir", "diagScan", "diagCopy", "restart"}
    <3> USE <2>3 DEF To
    <3>1. CASE Mkdir \/ CopyPoweronLog \/ CopyRilLogs \/ EfsDumpOn \/ EfsDumpOff
      BY <3>1 DEF Mkdir, CopyPoweronLog, CopyRilLogs, CopyOne, EfsDumpOn, EfsDumpOff, SetEfsDump
    <3>2. CASE DumpDiagLogs \/ DumpTcpdumpLogs \/ DumpExtendedLogs
      BY <3>2 DEF DumpDiagLogs, DumpTcpdumpLogs, DumpExtendedLogs, Scan
    <3>3. CASE CopyLog \/ CopiedLogs
      <4>1. mpc \in CopySteps => mpc = "diagCopy"
        BY DEF CopySteps
      <4> QED  BY <3>3, <4>1 DEF CopyLog, CopiedLogs
    <3> QED  BY <1>7, <3>1, <3>2, <3>3 DEF Copy
  <2> QED  BY <2>1, <2>2, <2>3 DEF LoggerInv
<1>8. CASE Report
  <2>1. UNCHANGED mdlog /\ h'.stopped = h.stopped
    BY <1>8 DEF Report, OpenTar, Pack, Packed, PackFrame, Send, RemoveDir, RemoveTar,
       properties, HistoryType, NoHistory
  <2>2. mpc \in {"tar", "pack", "send", "rmDir", "rmTar"} /\ mpc' # "stop"
    BY <1>8 DEF Report, OpenTar, Pack, Packed, Send, RemoveDir, RemoveTar, To
  <2> QED  BY <2>1, <2>2 DEF LoggerInv
<1> QED  BY <1>1, <1>2, <1>3, <1>4, <1>5, <1>6, <1>7, <1>8
         DEF Next, Binder, Modem, SetVerboseLoggingEnabled, DumpstateBoard, Join, Reply,
             BinderOnly, properties, modem

LEMMA EfsStep ==
    ASSUME TypeInv, ControlInv, EfsInv, Next
    PROVE  EfsInv'
<1> USE DEF TypeInv, StateType
<1>1. CASE \/ \E enable \in BOOLEAN : SetVerboseLoggingEnabled(enable)
           \/ \E c \in Calls : DumpstateBoard(c)
           \/ Binder \/ Crash
  <2>1. UNCHANGED <<userBuild, efsdump>>
    BY <1>1, BinderFrame
  <2>2. \/ UNCHANGED <<mpc, h>>
        \/ mpc' \in {"none", "props"} /\ h'.pipe = "unused"
    BY <1>1
    DEF SetVerboseLoggingEnabled, DumpstateBoard, Binder, Crash, Spawn, Touch, ForceActive,
        SetLandscape, SetPortrait, EndActive, TouchCommand, Join, Reply, Exit, NewProcess,
        BinderOnly, modem, NoHistory, ControlInv, ModemType
  <2> QED  BY <2>1, <2>2 DEF EfsInv, EfsSteps
<1>2. CASE Environment
  BY <1>2, EnvironmentFrame, EnvironmentTypes DEF EfsInv, EfsSteps
<1>3. CASE Diag
  <2>1. UNCHANGED <<userBuild, efsdump>> /\ h'.pipe = h.pipe
    BY <1>3 DEF Diag, ReadProperties, StopLogger, WaitForLogger, WaitTimeout, WaitOnly,
       RestartLogger, properties, HistoryType, NoHistory
  <2>2. /\ mpc \notin {"rmDir", "rmTar", "done"}
        /\ mpc' \notin {"tar", "pack", "send"} \cup EfsSteps
    BY <1>3 DEF Diag, ReadProperties, StopLogger, WaitForLogger, WaitTimeout, RestartLogger, To,
       EfsSteps
  <2> QED  BY <2>1, <2>2 DEF EfsInv, EfsSteps
<1>4. CASE Copy
  <2>1. h'.pipe = h.pipe /\ UNCHANGED userBuild
    BY <1>4, CopyFrames, ModemFrame DEF Modem
  <2>2. mpc \notin {"rmDir", "rmTar", "done"} /\ mpc' \notin {"pack", "send"}
    BY <1>4 DEF Copy, Mkdir, DumpDiagLogs, DumpTcpdumpLogs, DumpExtendedLogs, Scan, CopyLog,
       CopiedLogs, CopyPoweronLog, CopyRilLogs, CopyOne, EfsDumpOn, EfsDumpOff, SetEfsDump, To,
       CopySteps
  <2>3. /\ mpc' \in EfsSteps => mpc \in EfsSteps \/ ~userBuild
        /\ mpc' = "tar" => ~efsdump' \/ (userBuild /\ UNCHANGED efsdump)
        /\ UNCHANGED efsdump \/ mpc \in EfsSteps
    <3> USE DEF To, EfsSteps, properties
    <3>1. CASE EfsDumpOn \/ EfsDumpOff
      BY <3>1 DEF EfsDumpOn, EfsDumpOff, SetEfsDump
    <3>2. CASE Mkdir \/ CopyPoweronLog \/ CopyRilLogs
      BY <3>2 DEF Mkdir, CopyPoweronLog, CopyRilLogs, CopyOne, CopyFrame
    <3>3. CASE DumpDiagLogs
      BY <3>3 DEF DumpDiagLogs, Scan
    <3>4. CASE DumpTcpdumpLogs \/ DumpExtendedLogs
      BY <3>4 DEF DumpTcpdumpLogs, DumpExtendedLogs, Scan
    <3>5. CASE CopyLog \/ CopiedLogs
      BY <3>5 DEF CopyLog, CopiedLogs, CopySteps, CopyFrame
    <3> QED  BY <1>4, <3>1, <3>2, <3>3, <3>4, <3>5 DEF Copy
  <2> QED  BY <2>1, <2>2, <2>3 DEF EfsInv
<1>5. CASE Report
  <2>1. UNCHANGED <<userBuild, efsdump>>
    BY <1>5 DEF Report, OpenTar, Pack, Packed, PackFrame, Send, RemoveDir, RemoveTar,
       properties
  <2>2. /\ mpc \in {"tar", "pack", "send", "rmDir", "rmTar"} /\ mpc' \notin EfsSteps
        /\ mpc' \in {"tar", "pack", "send"} => mpc \in {"tar", "pack", "send"}
    BY <1>5 DEF Report, OpenTar, Pack, Packed, Send, RemoveDir, RemoveTar, To, EfsSteps
  <2>3. CASE Send
    BY <2>1, <2>2, <2>3 DEF Send, To, EfsInv
  <2>4. CASE UNCHANGED h
    BY <1>5, <2>1, <2>2, <2>4
    DEF EfsInv, Report, OpenTar, Pack, Packed, Send, RemoveDir, RemoveTar, To
  <2> QED  BY <1>5, <2>3, <2>4 DEF Report, OpenTar, Pack, Packed, PackFrame, RemoveDir, RemoveTar
<1> QED  BY <1>1, <1>2, <1>3, <1>4, <1>5 DEF Next, Modem

LEMMA TouchStep ==
    ASSUME TypeInv, ControlInv, TouchInv, Next
    PROVE  TouchInv'
<1> USE DEF TypeInv, StateType
<1>1. CASE UNCHANGED <<touch, pc, call, status>>
  BY <1>1 DEF TouchInv
<1>2. CASE \/ \E enable \in BOOLEAN : SetVerboseLoggingEnabled(enable)
           \/ \E c \in Calls : DumpstateBoard(c)
           \/ Exit \/ Crash
  <2>1. UNCHANGED <<touch, pc, call, status>> \/ (pc' \notin {"activeOff", "join"} /\ status' # "OK")
    <3>1. ASSUME NEW c \in Calls, DumpstateBoard(c)
          PROVE  pc' \notin {"activeOff", "join"} /\ status' # "OK"
      BY <3>1, CallAssumption DEF DumpstateBoard, AllCalls
    <3> QED  BY <1>2, <3>1 DEF SetVerboseLoggingEnabled, Exit, Crash, NewProcess, binder
  <2> QED  BY <1>1, <2>1 DEF TouchInv
<1>3. CASE Spawn
  BY <1>3 DEF Spawn, Go, TouchInv, ControlInv
<1>4. CASE Touch
  <2> SUFFICES ASSUME call \in TouchCalls, "touch" \notin Faulty
               PROVE  /\ pc' = "activeOff" => ~touch'.landscape
                      /\ pc' = "join" \/ status' = "OK"
                            => touch' = [active |-> FALSE, landscape |-> FALSE]
    BY <1>4 DEF TouchInv, Touch, ForceActive, SetLandscape, SetPortrait, EndActive,
       TouchCommand, Go
  <2>1. Outcome("touch") = {TRUE} /\ status # "OK"
    BY <1>4 DEF Outcome, ControlInv, Touch, ForceActive, SetLandscape, SetPortrait, EndActive,
       TouchCommand
  <2>2. CASE ForceActive \/ SetLandscape
    BY <2>1, <2>2 DEF ForceActive, SetLandscape, TouchCommand, Go
  <2>3. CASE SetPortrait
    BY <2>1, <2>3 DEF SetPortrait, TouchCommand, Go, BinderType
  <2>4. CASE EndActive
    <3>1. ~touch.landscape /\ touch' = [touch EXCEPT !.active = FALSE]
      BY <2>1, <2>4 DEF EndActive, TouchCommand, TouchInv
    <3>2. touch.landscape = FALSE
      BY <3>1 DEF BinderType
    <3>3. touch' = [active |-> FALSE, landscape |-> FALSE]
      BY <3>1, <3>2 DEF BinderType
    <3> QED  BY <2>1, <2>4, <3>3 DEF EndActive, TouchCommand, Go
  <2> QED  BY <1>4, <2>2, <2>3, <2>4 DEF Touch
<1>5. CASE Join \/ Reply
  BY <1>5 DEF Join, Reply, Finish, Go, BinderOnly, TouchInv, ControlInv
<1>6. CASE Modem \/ Environment
  BY <1>1, <1>6, ModemFrame, EnvironmentFrame
<1> QED  BY <1>2, <1>3, <1>4, <1>5, <1>6 DEF Next, Binder

LEMMA SwitchStep ==
    TypeInv /\ SwitchInv /\ [Next]_vars => SwitchInv'
<1> SUFFICES ASSUME TypeInv, SwitchInv, [Next]_vars
             PROVE  SwitchInv'
  OBVIOUS
<1>1. CASE Next
  BY <1>1, ControlStep, LoggerStep, EfsStep, TouchStep DEF SwitchInv
<1>2. CASE UNCHANGED vars
  BY <1>2 DEF SwitchInv, ControlInv, LoggerInv, EfsInv, TouchInv, vars, properties, binder, modem
<1> QED  BY <1>1, <1>2

\* DumpstateDevice.cpp:267-297, :301-348 and :559-573: whatever a dump switches it has
\* switched back when it answers.  The logger it has stopped is asked to run even after
\* the wait for it timed out, the EFS dump is off once the thread has sent anything, and
\* the touch controller is back in its defaults, however an earlier process died.
THEOREM LeavesNothingSwitched ==
    Spec => []SwitchedBack
<1>1. Init => TypeInv /\ SwitchInv
  BY TypeInit, SwitchInit
<1>2. TypeInv /\ SwitchInv /\ [Next]_vars => (TypeInv /\ SwitchInv)'
  BY TypeStep, SwitchStep
<1>3. TypeInv /\ SwitchInv => SwitchedBack
  BY DEF SwitchInv, ControlInv, LoggerInv, EfsInv, TouchInv, SwitchedBack, TouchSteps
<1> QED  BY <1>1, <1>2, <1>3, PTL DEF Spec
==============================================================================
