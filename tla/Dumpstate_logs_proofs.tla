-------------------------- MODULE Dumpstate_logs_proofs --------------------------
(***************************************************************************)
(* Proofs about what a dump of Dumpstate has read: which of the logs, and  *)
(* whether whole files.                                                    *)
(***************************************************************************)
EXTENDS Dumpstate_proofs, FiniteSetTheorems
------------------------------------------------------------------------------
(* Copying                                                                 *)

\* A new file holds what is written to it and nothing else.
LEMMA OverwriteNothing ==
    ASSUME NEW B, NEW new \in Seq(B)
    PROVE  Overwrite(<<>>, 0, new) = new
<1> DEFINE front == SubSeq(<<>>, 1, 0)
           back == SubSeq(<<>>, 0 + Len(new) + 1, Len(<<>>))
<1>1. front = <<>>
  BY SubSeqEmpty
<1>2. back = <<>>
  <2>1. Len(new) \in Nat /\ Len(<<>>) = 0
    BY LenProperties, EmptySeq
  <2>2. 0 + Len(new) + 1 \in Int /\ Len(<<>>) \in Int /\ Len(<<>>) < 0 + Len(new) + 1
    BY <2>1
  <2> QED  BY <2>2, SubSeqEmpty
<1>3. Overwrite(<<>>, 0, new) = front \o new \o back
  BY DEF Overwrite
<1> HIDE DEF front, back
<1> QED  BY <1>1, <1>2, <1>3, ConcatEmptySeq

\* What copyFile() does to what has been read: a file of another name is as it was,
\* and the first copy of a file is the file.
LEMMA CopyFileEffect ==
    ASSUME TypeInv, NEW name \in Names, name.place = "diag" => name.rank \in DOMAIN diagLogs,
           CopyFile(name)
    PROVE  \/ UNCHANGED <<dir, h>> /\ (~m.made \/ "open" \in Faulty)
           \/ /\ DOMAIN h'.copied = DOMAIN h.copied \cup {name}
              /\ \A n \in DOMAIN h.copied : n # name => h'.copied[n] = h.copied[n]
              /\ name \notin DOMAIN h.copied => h'.copied[name] = Contents(name)
              /\ h'.listed = h.listed /\ m.made
<1>1. CASE UNCHANGED <<dir, h>> /\ (~m.made \/ "open" \in Faulty)
  BY <1>1
<1>2. CASE h' = [h EXCEPT !.copied = CopyOnto(@, name, Contents(name))] /\ m.made
  <2>1. h'.copied = CopyOnto(h.copied, name, Contents(name)) /\ h'.listed = h.listed
    BY <1>2 DEF TypeInv, StateType, HistoryType, NoHistory
  <2>2. ASSUME name \notin DOMAIN h.copied
        PROVE  h'.copied[name] = Contents(name)
    <3>1. Contents(name) \in Seq(Blocks)
      BY ContentsType DEF TypeInv, StateType
    <3>2. Overwrite(<<>>, 0, Contents(name)) = Contents(name)
      BY <3>1, OverwriteNothing
    <3> QED  BY <2>1, <2>2, <3>2 DEF CopyOnto
  <2> QED  BY <1>2, <2>1, <2>2 DEF CopyOnto
<1> QED  BY <1>1, <1>2 DEF CopyFile, Outcome
------------------------------------------------------------------------------
(* Whole files                                                             *)

\* From the moment the modem logger has stopped, the logs copied are whole files, and it
\* writes to none of them when it runs again: it opens a new one.
BeforeCopying == {"none", "props", "stop", "wait", "mkdir", "diagScan"}
WhileStopped == {"mkdir", "diagScan", "diagCopy", "restart"}
IsWhole(name) ==
    /\ name.rank \in DOMAIN diagLogs
    /\ mdlogOn => name.rank < Len(diagLogs)
    /\ h.copied[name] = Contents(name)
Undisturbed == m.waited = "exited" /\ ~h.meddled

WholeInv ==
    /\ mpc \in {"none", "props", "stop", "wait"} => m.waited = "no"
    /\ mpc = "wait" /\ ~h.meddled => ~mdlog
    /\ mpc \in BeforeCopying => DOMAIN h.copied = {}
    /\ mpc = "diagCopy" => m.list \cap DOMAIN h.copied = {}
    /\ Undisturbed /\ mpc \in WhileStopped => ~mdlog /\ ~mdlogOn
    /\ Undisturbed => \A name \in DOMAIN h.copied : name.place = "diag" => IsWhole(name)

LEMMA WholeInit ==
    Init => WholeInv
BY DEF Init, WholeInv, Undisturbed, NoModem, NoHistory, NoDir

\* The steps that neither copy nor scan leave what has been read, and the logs.
LEMMA WholeEnvironment ==
    ASSUME TypeInv, ControlInv, WholeInv, Environment
    PROVE  WholeInv'
<1> USE DEF TypeInv, StateType
<1>1. UNCHANGED <<mpc, m>> /\ h'.copied = h.copied
  BY EnvironmentFrame, EnvironmentTypes
<1>2. CASE LoggerSwitched
  <2>1. h'.meddled = (pc # "idle") /\ UNCHANGED <<mdlogOn, diagLogs, rilVersion>>
    BY <1>2 DEF LoggerSwitched, HistoryType, NoHistory
  <2>2. CASE pc = "idle"
    <3>1. mpc = "none" /\ m.waited = "no" /\ DOMAIN h.copied = {}
      BY <2>2 DEF ModemType, ControlInv, NoModem
    <3> QED  BY <1>1, <3>1 DEF WholeInv, Undisturbed
  <2>3. CASE pc # "idle"
    BY <1>1, <2>1, <2>3 DEF WholeInv, Undisturbed
  <2> QED  BY <2>2, <2>3
<1>3. CASE ~LoggerSwitched
  <2>1. h' = h /\ mdlog' = mdlog
    BY <1>3 DEF Environment, LoggerStarts, LoggerWrites, LoggerStops, RilLogRewritten
  <2>2. ASSUME mpc \in WhileStopped, Undisturbed
        PROVE  ~mdlog' /\ ~mdlogOn'
    <3>1. ~mdlog /\ ~mdlogOn
      BY <2>2 DEF WholeInv
    <3> QED  BY <1>3, <2>1, <3>1
             DEF Environment, LoggerStarts, LoggerWrites, LoggerStops, RilLogRewritten
  <2>3. ASSUME Undisturbed, NEW name \in DOMAIN h.copied, name.place = "diag"
        PROVE  IsWhole(name)'
    <3>1. IsWhole(name)
      BY <2>3 DEF WholeInv
    <3>2. Len(diagLogs) \in Nat /\ DOMAIN diagLogs = 1..Len(diagLogs)
      BY LenProperties DEF LoggerType
    <3>3. name.rank \in 1..Len(diagLogs) /\ (mdlogOn => name.rank < Len(diagLogs))
      BY <3>1, <3>2 DEF IsWhole
    <3>4. /\ name.rank \in DOMAIN diagLogs' /\ diagLogs'[name.rank] = diagLogs[name.rank]
          /\ mdlogOn' => name.rank < Len(diagLogs')
      <4>1. CASE LoggerStarts
        <5>1. diagLogs' = Append(diagLogs, 1)
          BY <4>1 DEF LoggerStarts
        <5>2. /\ Len(diagLogs') = Len(diagLogs) + 1 /\ DOMAIN diagLogs' = 1..Len(diagLogs')
              /\ \A i \in 1..Len(diagLogs) : diagLogs'[i] = diagLogs[i]
          BY <5>1, LogAssumption, AppendProperties, LenProperties DEF LoggerType
        <5> QED  BY <3>2, <3>3, <5>2
      <4>2. CASE LoggerWrites
        <5>1. /\ diagLogs' = [diagLogs EXCEPT ![Len(diagLogs)] = @ + 1]
              /\ mdlogOn /\ name.rank # Len(diagLogs)
          BY <4>2, <3>2, <3>3 DEF LoggerWrites
        <5>2. DOMAIN diagLogs' = DOMAIN diagLogs /\ diagLogs'[name.rank] = diagLogs[name.rank]
          BY <3>2, <3>3, <5>1
        <5>3. Len(diagLogs') = Len(diagLogs)
          <6>1. Len(diagLogs') \in Nat /\ DOMAIN diagLogs' = 1..Len(diagLogs')
            BY EnvironmentTypes, LenProperties DEF LoggerType
          <6> QED  BY <3>2, <5>2, <6>1
        <5> QED  BY <3>2, <3>3, <5>1, <5>2, <5>3
      <4>3. CASE LoggerStops \/ RilLogRewritten
        BY <4>3, <3>2, <3>3 DEF LoggerStops, RilLogRewritten
      <4> QED  BY <1>3, <4>1, <4>2, <4>3 DEF Environment
    <3>5. Contents(name)' = Contents(name)
      BY <2>3, <3>4 DEF Contents
    <3> QED  BY <2>1, <3>1, <3>4, <3>5 DEF IsWhole
  <2> QED  BY <1>1, <2>1, <2>2, <2>3 DEF WholeInv, Undisturbed
<1> QED  BY <1>2, <1>3

LEMMA WholeBinder ==
    ASSUME TypeInv, ControlInv, WholeInv,
           \/ \E enable \in BOOLEAN : SetVerboseLoggingEnabled(enable)
           \/ \E c \in Calls : DumpstateBoard(c)
           \/ Binder \/ Crash
    PROVE  WholeInv'
<1>1. UNCHANGED <<mdlog, mdlogOn, diagLogs, rilVersion>>
  BY BinderFrame
<1>2. CASE UNCHANGED <<mpc, m, h>>
  BY <1>1, <1>2 DEF WholeInv, Undisturbed, IsWhole, Contents
<1>3. CASE Spawn
  <2>1. mpc' \in {"none", "props"} /\ mpc = "none" /\ UNCHANGED <<m, h>>
    BY <1>3 DEF Spawn, TypeInv, StateType, ModemType
  <2>2. m.waited = "no" /\ DOMAIN h.copied = {}
    BY <2>1 DEF ControlInv, NoModem
  <2> QED  BY <2>1, <2>2 DEF WholeInv, Undisturbed, WhileStopped
<1>4. CASE Exit \/ Crash
  <2>1. mpc' = "none" /\ m' = NoModem /\ h'.copied = NoDir
    BY <1>4 DEF Exit, Crash, NewProcess, NoHistory
  <2> QED  BY <2>1 DEF WholeInv, Undisturbed, NoModem, NoDir
<1> QED  BY <1>2, <1>3, <1>4
         DEF SetVerboseLoggingEnabled, DumpstateBoard, Binder, Touch, ForceActive, SetLandscape,
             SetPortrait, EndActive, TouchCommand, Join, Reply, BinderOnly, modem

LEMMA WholeModem ==
    ASSUME TypeInv, ControlInv, LoggerInv, WholeInv, Modem
    PROVE  WholeInv'
<1> USE DEF TypeInv, StateType, To
<1>1. UNCHANGED <<mdlogOn, diagLogs, rilVersion>>
  BY ModemFrame
<1>2. CASE Diag
  <2>1. h'.copied = h.copied /\ h'.meddled = h.meddled
    BY <1>2 DEF Diag, ReadProperties, StopLogger, WaitForLogger, WaitTimeout, WaitOnly,
       RestartLogger, HistoryType, NoHistory
  <2>2. CASE ReadProperties
    <3>1. mpc = "props" /\ mpc' \in {"done", "stop", "mkdir"}
      BY <2>2 DEF ReadProperties
    <3>2. m'.waited = "no" /\ DOMAIN h'.copied = {}
      BY <2>1, <2>2, <3>1 DEF ReadProperties, WholeInv, ModemType, BeforeCopying
    <3> QED  BY <3>1, <3>2 DEF WholeInv, Undisturbed
  <2>3. CASE StopLogger
    BY <2>1, <2>3 DEF StopLogger, WholeInv, Undisturbed, BeforeCopying
  <2>4. CASE WaitForLogger \/ WaitTimeout
    <3>1. /\ mpc = "wait" /\ mpc' = "mkdir" /\ UNCHANGED mdlog
          /\ m'.waited = "exited" => ~mdlogOn
      BY <2>4 DEF WaitForLogger, WaitTimeout, WaitOnly, properties, ModemType
    <3>2. DOMAIN h'.copied = {} /\ (~h.meddled => ~mdlog)
      BY <2>1, <3>1 DEF WholeInv, BeforeCopying
    <3> QED  BY <1>1, <2>1, <3>1, <3>2 DEF WholeInv, Undisturbed
  <2>5. CASE RestartLogger
    <3>1. mpc = "restart" /\ mpc' = "poweron" /\ UNCHANGED <<m, h>>
      BY <2>5 DEF RestartLogger
    <3>2. ASSUME Undisturbed, NEW name \in DOMAIN h.copied, name.place = "diag"
          PROVE  IsWhole(name)'
      <4>1. IsWhole(name)
        BY <3>2 DEF WholeInv
      <4> QED  BY <1>1, <3>1, <4>1 DEF IsWhole, Contents
    <3> QED  BY <3>1, <3>2 DEF WholeInv, Undisturbed, BeforeCopying, WhileStopped
  <2> QED  BY <1>2, <2>2, <2>3, <2>4, <2>5 DEF Diag
<1>3. CASE Report
  <2>1. /\ mpc \in {"tar", "pack", "send", "rmDir", "rmTar"}
        /\ mpc' \in {"pack", "send", "rmDir", "rmTar", "done"}
    BY <1>3 DEF Report, OpenTar, Pack, Packed, Send, RemoveDir, RemoveTar
  <2>2. /\ m'.waited = m.waited /\ h'.copied = h.copied /\ h'.meddled = h.meddled
    <3>1. {"copied", "meddled"} \subseteq DOMAIN h /\ "waited" \in DOMAIN m
      BY DEF HistoryType, NoHistory, ModemType
    <3>2. CASE OpenTar
      BY <3>1, <3>2 DEF OpenTar
    <3>3. CASE Pack
      BY <3>1, <3>3 DEF Pack, PackFrame
    <3>4. CASE Packed
      BY <3>1, <3>4 DEF Packed, PackFrame
    <3>5. CASE Send
      BY <3>1, <3>5 DEF Send
    <3>6. CASE RemoveDir \/ RemoveTar
      BY <3>6 DEF RemoveDir, RemoveTar
    <3> QED  BY <1>3, <3>2, <3>3, <3>4, <3>5, <3>6 DEF Report
  <2> QED  BY <1>1, <2>1, <2>2
           DEF WholeInv, Undisturbed, BeforeCopying, WhileStopped, IsWhole, Contents
<1>4. CASE Copy
  <2>1. UNCHANGED mdlog /\ m'.waited = m.waited /\ h'.meddled = h.meddled
    BY <1>4, CopyFrames
  <2>2. mpc \notin {"none", "props", "stop", "wait"} /\ mpc' \notin {"none", "props", "stop", "wait"}
    BY <1>4 DEF Copy, Mkdir, DumpDiagLogs, DumpTcpdumpLogs, DumpExtendedLogs, Scan, CopyLog,
       CopiedLogs, CopyPoweronLog, CopyRilLogs, CopyOne, EfsDumpOn, EfsDumpOff, SetEfsDump,
       CopySteps
  <2>3. mpc' \in WhileStopped => mpc \in WhileStopped
    <3>1. CASE Mkdir \/ CopyPoweronLog \/ CopyRilLogs \/ EfsDumpOn \/ EfsDumpOff
      BY <3>1 DEF Mkdir, CopyPoweronLog, CopyRilLogs, CopyOne, EfsDumpOn, EfsDumpOff, SetEfsDump,
         WhileStopped
    <3>2. CASE DumpDiagLogs \/ DumpTcpdumpLogs \/ DumpExtendedLogs
      BY <3>2 DEF DumpDiagLogs, DumpTcpdumpLogs, DumpExtendedLogs, Scan, WhileStopped
    <3>3. CASE CopyLog \/ CopiedLogs
      BY <3>3 DEF CopyLog, CopiedLogs, WhileStopped, CopySteps
    <3> QED  BY <1>4, <3>1, <3>2, <3>3 DEF Copy
  <2>4. CASE CopyLog
    <3>1. mpc \in CopySteps /\ mpc' = mpc
      BY <2>4, CopyLogStep
    <3>2. PICK left \in 1..Found(mpc) :
              /\ m.list = LogsOf(PlaceOf(mpc), 1..left)
              /\ m'.list = m.list \ {LogOf(PlaceOf(mpc), left)}
              /\ UNCHANGED <<dir, h>> \/ CopyFile(LogOf(PlaceOf(mpc), left))
      BY <2>4, CopyLogStep DEF ModemType
    <3> DEFINE name == LogOf(PlaceOf(mpc), left)
    <3>3. CASE UNCHANGED <<dir, h>>
      BY <1>1, <2>1, <2>2, <3>1, <3>2, <3>3
      DEF WholeInv, Undisturbed, IsWhole, Contents, BeforeCopying, CopySteps
    <3>4. CASE CopyFile(name)
      <4>1. /\ name \in Names /\ name \in m.list
            /\ name.place = PlaceOf(mpc) /\ name.rank = left
        <5>1. name.place = PlaceOf(mpc) /\ name.rank = left /\ name \in m.list
          BY <3>1, <3>2, FoundNames DEF LogOf, LogsOf
        <5> QED  BY <5>1 DEF ModemType
      <4>2. name.place = "diag" <=> mpc = "diagCopy"
        BY <3>1, <4>1 DEF PlaceOf, CopySteps
      <4>3. name.place = "diag" => name.rank \in DOMAIN diagLogs
        BY <3>2, <4>1, <4>2, LenProperties DEF LoggerType, Found
      <4> HIDE DEF name
      <4>4. \/ UNCHANGED <<dir, h>>
            \/ /\ DOMAIN h'.copied = DOMAIN h.copied \cup {name}
               /\ \A n \in DOMAIN h.copied : n # name => h'.copied[n] = h.copied[n]
               /\ name \notin DOMAIN h.copied => h'.copied[name] = Contents(name)
        BY <3>4, <4>1, <4>3, CopyFileEffect
      <4>5. ASSUME ~UNCHANGED <<dir, h>>, Undisturbed,
                   NEW n \in DOMAIN h'.copied, n.place = "diag"
            PROVE  IsWhole(n)'
        <5>1. CASE n = name
          <6>1. mpc = "diagCopy" /\ name \notin DOMAIN h.copied
            BY <4>1, <4>2, <4>5, <5>1 DEF WholeInv
          <6>2. h'.copied[name] = Contents(name)
            BY <4>4, <4>5, <6>1
          <6>3. ~mdlogOn
            BY <4>5, <6>1 DEF WholeInv, WhileStopped
          <6> QED  BY <1>1, <4>2, <4>3, <5>1, <6>1, <6>2, <6>3 DEF IsWhole, Contents
        <5>2. CASE n # name
          <6>1. n \in DOMAIN h.copied /\ h'.copied[n] = h.copied[n]
            BY <4>4, <4>5, <5>2
          <6>2. IsWhole(n)
            BY <4>5, <6>1 DEF WholeInv
          <6> QED  BY <1>1, <6>1, <6>2 DEF IsWhole, Contents
        <5> QED  BY <5>1, <5>2
      <4>6. mpc = "diagCopy" => m'.list \cap DOMAIN h'.copied = {}
        BY <3>2, <4>4 DEF WholeInv, name
      <4>7. mpc \notin BeforeCopying
        BY <3>1 DEF BeforeCopying, CopySteps
      <4>8. CASE ~UNCHANGED <<dir, h>>
        BY <1>1, <2>1, <2>2, <3>1, <4>5, <4>6, <4>7, <4>8 DEF WholeInv, Undisturbed
      <4> QED  BY <3>3, <4>8
    <3> QED  BY <3>2, <3>3, <3>4
  <2>5. CASE CopyPoweronLog \/ CopyRilLogs
    <3>1. PICK name \in {PoweronLog, RilLog} : CopyFile(name) /\ UNCHANGED m
      BY <2>5 DEF CopyPoweronLog, CopyRilLogs, CopyOne
    <3>2. mpc \in {"poweron", "ril"} /\ mpc' \in {"tar", "efsOn", "extendedScan"}
      BY <2>5 DEF CopyPoweronLog, CopyRilLogs, CopyOne
    <3>3. \/ UNCHANGED h
          \/ /\ DOMAIN h'.copied = DOMAIN h.copied \cup {name}
             /\ \A n \in DOMAIN h.copied : n # name => h'.copied[n] = h.copied[n]
      <4>1. CASE name \in Names
        <5>1. name.place # "diag"
          BY DEF PoweronLog, RilLog
        <5> QED  BY <3>1, <4>1, <5>1, CopyFileEffect
      <4>2. CASE name \notin Names
        BY <3>1, <4>2 DEF CopyFile
      <4> QED  BY <4>1, <4>2
    <3>4. ASSUME Undisturbed, NEW n \in DOMAIN h'.copied, n.place = "diag"
          PROVE  IsWhole(n)'
      <4>1. n \in DOMAIN h.copied /\ h'.copied[n] = h.copied[n]
        BY <3>3, <3>4 DEF PoweronLog, RilLog
      <4>2. IsWhole(n)
        BY <3>4, <4>1 DEF WholeInv
      <4> QED  BY <1>1, <4>1, <4>2 DEF IsWhole, Contents
    <3> QED  BY <2>1, <3>1, <3>2, <3>4 DEF WholeInv, Undisturbed, BeforeCopying, WhileStopped
  <2>6. CASE \/ Mkdir \/ EfsDumpOn \/ EfsDumpOff \/ CopiedLogs
             \/ DumpDiagLogs \/ DumpTcpdumpLogs \/ DumpExtendedLogs
    <3>1. h'.copied = h.copied
      BY <2>6 DEF Mkdir, EfsDumpOn, EfsDumpOff, SetEfsDump, CopiedLogs, DumpDiagLogs,
         DumpTcpdumpLogs, DumpExtendedLogs, Scan, HistoryType, NoHistory
    <3>2. /\ mpc' \in BeforeCopying \cup {"diagCopy"} => mpc \in BeforeCopying
          BY <2>6 DEF Mkdir, EfsDumpOn, EfsDumpOff, SetEfsDump, CopiedLogs, DumpDiagLogs,
             DumpTcpdumpLogs, DumpExtendedLogs, Scan, BeforeCopying, CopySteps
    <3> QED  BY <1>1, <2>1, <2>2, <2>3, <3>1, <3>2
             DEF WholeInv, Undisturbed, IsWhole, Contents
  <2> QED  BY <1>4, <2>4, <2>5, <2>6 DEF Copy
<1> QED  BY <1>2, <1>3, <1>4 DEF Modem

LEMMA WholeStep ==
    TypeInv /\ SwitchInv /\ WholeInv /\ [Next]_vars => WholeInv'
<1> SUFFICES ASSUME TypeInv, SwitchInv, WholeInv, [Next]_vars
             PROVE  WholeInv'
  OBVIOUS
<1>1. CASE Next
  BY <1>1, WholeBinder, WholeModem, WholeEnvironment DEF Next, SwitchInv
<1>2. CASE UNCHANGED vars
  BY <1>2
  DEF WholeInv, Undisturbed, IsWhole, Contents, vars, properties, logger, modem
<1> QED  BY <1>1, <1>2

\* DumpstateDevice.cpp:265-291: a dump that has waited for the modem logger until it
\* had stopped copies whole logs, and they stay what the report says they are: when the
\* logger is started again, before the report is packed and sent, it opens a new log.
\* The user must not switch the logger meanwhile.
THEOREM StoppedLogsAreWhole ==
    Spec => []LogsWhole
<1>1. Init => TypeInv /\ SwitchInv /\ WholeInv
  BY TypeInit, SwitchInit, WholeInit
<1>2. TypeInv /\ SwitchInv /\ WholeInv /\ [Next]_vars => (TypeInv /\ SwitchInv /\ WholeInv)'
  BY TypeStep, SwitchStep, WholeStep
<1>3. WholeInv => LogsWhole
  BY DEF WholeInv, Undisturbed, IsWhole, LogsWhole
<1> QED  BY <1>1, <1>2, <1>3, PTL DEF Spec
------------------------------------------------------------------------------
(* The newest logs                                                         *)

\* Which logs may have been copied before each of the three scans.
PlacesInv ==
    \A name \in DOMAIN h.copied :
       /\ mpc \notin BeforeCopying
       /\ mpc \in {"diagCopy", "restart", "poweron", "efsOn", "tcpdumpScan"}
             => name.place \notin {"tcpdump", "extended"}
       /\ mpc \in {"tcpdumpCopy", "ril", "extendedScan"} => name.place # "extended"

\* dumpLogs() has found size logs and goes from the newest to the oldest; left of them
\* are still to come, and it has copied those it may of the others.
MayCopy(age) == m.maxFileNum = -1 \/ age < m.maxFileNum
Loop(size, left) ==
    /\ h.listed = LogsOf(PlaceOf(mpc), 1..size)
    /\ m.list = LogsOf(PlaceOf(mpc), 1..left)
    /\ IF m.maxFileNum = -1 \/ size - left <= m.maxFileNum
       THEN m.copiedFiles = size - left
       ELSE m.copiedFiles >= m.maxFileNum
    /\ m.made /\ "open" \notin Faulty =>
          DOMAIN h.copied \cap h.listed =
             {n \in h.listed : n.rank > left /\ MayCopy(size - n.rank)}
LoopInv == mpc \in CopySteps => \E size \in Nat : \E left \in 0..size : Loop(size, left)

NewestInv == PlacesInv /\ LoopInv

LEMMA NewestInit ==
    Init => NewestInv
BY DEF Init, NewestInv, PlacesInv, LoopInv, NoHistory, NoDir, CopySteps

\* The steps that copy.
LEMMA CopiedNames ==
    ASSUME TypeInv, Copy
    PROVE  /\ CopyLog \/ CopyPoweronLog \/ CopyRilLogs \/ h'.copied = h.copied
           /\ CopyLog =>
                 DOMAIN h'.copied \subseteq DOMAIN h.copied \cup {n \in Names : n.place = PlaceOf(mpc)}
           /\ CopyPoweronLog \/ CopyRilLogs =>
                 DOMAIN h'.copied \subseteq DOMAIN h.copied \cup {PoweronLog, RilLog}
<1> USE DEF TypeInv, StateType
<1>1. CopyLog \/ CopyPoweronLog \/ CopyRilLogs \/ h'.copied = h.copied
  BY DEF Copy, Mkdir, EfsDumpOn, EfsDumpOff, SetEfsDump, CopiedLogs, DumpDiagLogs,
     DumpTcpdumpLogs, DumpExtendedLogs, Scan, HistoryType, NoHistory
<1>2. ASSUME NEW name, CopyFile(name)
      PROVE  DOMAIN h'.copied \subseteq DOMAIN h.copied \cup {name}
  BY <1>2 DEF CopyFile, CopyOnto, HistoryType, NoHistory
<1>3. ASSUME CopyLog
      PROVE  DOMAIN h'.copied \subseteq DOMAIN h.copied \cup {n \in Names : n.place = PlaceOf(mpc)}
  <2>1. PICK left \in 1..Found(mpc) :
            /\ m.list = LogsOf(PlaceOf(mpc), 1..left)
            /\ UNCHANGED <<dir, h>> \/ CopyFile(LogOf(PlaceOf(mpc), left))
    BY <1>3, CopyLogStep
  <2>2. LogOf(PlaceOf(mpc), left) \in Names /\ LogOf(PlaceOf(mpc), left).place = PlaceOf(mpc)
    <3>1. left \in 1..left
      <4>1. mpc \in CopySteps
        BY <1>3, CopyLogStep
      <4>2. Found(mpc) \in Nat
        BY <4>1, FoundNames
      <4> QED  BY <4>2
    <3>2. LogOf(PlaceOf(mpc), left) \in m.list
      BY <2>1, <3>1 DEF LogOf, LogsOf
    <3> QED  BY <3>2 DEF LogOf, ModemType
  <2> QED  BY <1>2, <2>1, <2>2
<1>4. ASSUME CopyPoweronLog \/ CopyRilLogs
      PROVE  DOMAIN h'.copied \subseteq DOMAIN h.copied \cup {PoweronLog, RilLog}
  <2>1. CopyFile(PoweronLog) \/ CopyFile(RilLog)
    BY <1>4 DEF CopyPoweronLog, CopyRilLogs, CopyOne
  <2> QED  BY <1>2, <2>1
<1> QED  BY <1>1, <1>3, <1>4

LEMMA PlacesStep ==
    ASSUME TypeInv, ControlInv, PlacesInv, WholeInv, Next
    PROVE  PlacesInv'
<1> USE DEF TypeInv, StateType, To
<1>1. CASE \/ \E enable \in BOOLEAN : SetVerboseLoggingEnabled(enable)
           \/ \E c \in Calls : DumpstateBoard(c)
           \/ Binder \/ Crash
  <2>1. CASE UNCHANGED <<mpc, h>>
    BY <2>1 DEF PlacesInv
  <2>2. CASE Spawn
    <3>1. DOMAIN h'.copied = {}
      BY <2>2 DEF Spawn, ModemType, ControlInv
    <3> QED  BY <3>1 DEF PlacesInv
  <2>3. CASE Exit \/ Crash
    <3>1. DOMAIN h'.copied = {}
      BY <2>3 DEF Exit, Crash, NewProcess, NoHistory, NoDir
    <3> QED  BY <3>1 DEF PlacesInv
  <2> QED  BY <1>1, <2>1, <2>2, <2>3
           DEF SetVerboseLoggingEnabled, DumpstateBoard, Binder, Touch, ForceActive,
               SetLandscape, SetPortrait, EndActive, TouchCommand, Join, Reply, BinderOnly, modem
<1>2. CASE Environment
  BY <1>2, EnvironmentFrame, EnvironmentTypes DEF PlacesInv
<1>3. CASE Diag
  <2>1. h'.copied = h.copied
    BY <1>3 DEF Diag, ReadProperties, StopLogger, WaitForLogger, WaitTimeout, WaitOnly,
       RestartLogger, HistoryType, NoHistory
  <2>2. mpc \in BeforeCopying \/ (mpc = "restart" /\ mpc' = "poweron")
    BY <1>3 DEF Diag, ReadProperties, StopLogger, WaitForLogger, WaitTimeout, RestartLogger,
       BeforeCopying
  <2> QED  BY <2>1, <2>2 DEF PlacesInv, BeforeCopying
<1>4. CASE Report
  <2>1. h'.copied = h.copied
    BY <1>4 DEF Report, OpenTar, Pack, Packed, PackFrame, Send, RemoveDir, RemoveTar,
       HistoryType, NoHistory
  <2>2. mpc' \in {"pack", "send", "rmDir", "rmTar", "done"}
    BY <1>4 DEF Report, OpenTar, Pack, Packed, Send, RemoveDir, RemoveTar
  <2> QED  BY <2>1, <2>2 DEF PlacesInv, BeforeCopying
<1>5. CASE Copy
  <2>1. CASE CopyLog
    <3>1. mpc \in CopySteps /\ mpc' = mpc
      BY <2>1, CopyLogStep
    <3>2. \A n \in DOMAIN h'.copied : n \in DOMAIN h.copied \/ n.place = PlaceOf(mpc)
      BY <1>5, <2>1, CopiedNames
    <3> QED  BY <3>1, <3>2 DEF PlacesInv, PlaceOf, CopySteps, BeforeCopying
  <2>2. CASE CopyPoweronLog \/ CopyRilLogs
    <3>1. \A n \in DOMAIN h'.copied : n \in DOMAIN h.copied \/ n.place \in {"poweron", "ril"}
      BY <1>5, <2>2, CopiedNames DEF PoweronLog, RilLog
    <3>2. \/ mpc = "poweron" /\ mpc' \in {"tar", "efsOn"}
          \/ mpc = "ril" /\ mpc' = "extendedScan"
      BY <2>2 DEF CopyPoweronLog, CopyRilLogs, CopyOne
    <3> QED  BY <3>1, <3>2 DEF PlacesInv, BeforeCopying
  <2>3. CASE h'.copied = h.copied /\ ~(CopyLog \/ CopyPoweronLog \/ CopyRilLogs)
    <3>1. CASE Mkdir \/ DumpDiagLogs
      BY <2>3, <3>1 DEF Mkdir, DumpDiagLogs, Scan, PlacesInv, BeforeCopying
    <3>2. CASE EfsDumpOn \/ EfsDumpOff
      BY <2>3, <3>2 DEF EfsDumpOn, EfsDumpOff, SetEfsDump, PlacesInv, BeforeCopying
    <3>3. CASE DumpTcpdumpLogs \/ DumpExtendedLogs
      BY <2>3, <3>3 DEF DumpTcpdumpLogs, DumpExtendedLogs, Scan, PlacesInv, BeforeCopying
    <3>4. CASE CopiedLogs
      BY <2>3, <3>4 DEF CopiedLogs, CopySteps, PlacesInv, BeforeCopying
    <3> QED  BY <1>5, <2>3, <3>1, <3>2, <3>3, <3>4 DEF Copy
  <2> QED  BY <1>5, <2>1, <2>2, <2>3, CopiedNames
<1> QED  BY <1>1, <1>2, <1>3, <1>4, <1>5 DEF Next, Modem

LEMMA SameLeft ==
    ASSUME NEW place, NEW i \in Nat, NEW j \in Nat, LogsOf(place, 1..i) = LogsOf(place, 1..j)
    PROVE  i = j
<1>1. ASSUME NEW a \in Nat, NEW b \in Nat, LogsOf(place, 1..a) = LogsOf(place, 1..b)
      PROVE  a <= b
  <2>1. CASE a = 0
    BY <2>1
  <2>2. CASE a > 0
    <3>1. LogOf(place, a) \in LogsOf(place, 1..a)
      BY <2>2 DEF LogOf, LogsOf
    <3>2. LogOf(place, a).rank \in 1..b
      BY <1>1, <3>1 DEF LogsOf
    <3> QED  BY <3>2 DEF LogOf
  <2> QED  BY <2>1, <2>2
<1>2. i <= j /\ j <= i
  BY <1>1
<1> QED  BY <1>2

\* A scan finds logs of which none has been copied.
LEMMA LoopScan ==
    ASSUME TypeInv, PlacesInv, NEW step \in CopySteps, NEW from \in ScanSteps,
           NEW size \in Nat, NEW max \in MaxFileNums \cup {100},
           from = CASE step = "diagCopy" -> "diagScan"
                    [] step = "tcpdumpCopy" -> "tcpdumpScan"
                    [] step = "extendedCopy" -> "extendedScan",
           Scan(from, step, LogsOf(PlaceOf(step), 1..size), max)
    PROVE  Loop(size, size)'
<1> DEFINE names == LogsOf(PlaceOf(step), 1..size)
<1>1. mpc = from /\ mpc' = step
  BY DEF Scan, To
<1>2. h'.listed = names /\ h'.copied = h.copied
  BY DEF Scan, TypeInv, StateType, HistoryType, NoHistory
<1>3. m'.list = names /\ m'.copiedFiles = 0 /\ m'.maxFileNum = max /\ max \in Int
  BY LogAssumption DEF Scan, TypeInv, StateType, ModemType
<1>4. DOMAIN h'.copied \cap names = {}
  BY <1>1, <1>2 DEF PlacesInv, BeforeCopying, PlaceOf, CopySteps, LogsOf
<1>5. \A n \in names : n.rank <= size
  BY DEF LogsOf
<1> HIDE DEF names
<1>6. {n \in names : n.rank > size /\ MayCopy(size - n.rank)'} = {}
  <2> SUFFICES ASSUME NEW n \in names, n.rank > size
               PROVE  FALSE
    OBVIOUS
  <2>1. n.rank \in Nat
    BY DEF names, LogsOf
  <2> QED  BY <1>5, <2>1
<1>7. IF m'.maxFileNum = -1 \/ size - size <= m'.maxFileNum
      THEN m'.copiedFiles = size - size
      ELSE m'.copiedFiles >= m'.maxFileNum
  BY <1>3
<1>8. DOMAIN h'.copied \cap h'.listed = {n \in h'.listed : n.rank > size /\ MayCopy(size - n.rank)'}
  BY <1>2, <1>4, <1>6
<1>9. h'.listed = LogsOf(PlaceOf(mpc'), 1..size) /\ m'.list = LogsOf(PlaceOf(mpc'), 1..size)
  BY <1>1, <1>2, <1>3 DEF names
<1> QED  BY <1>7, <1>8, <1>9 DEF Loop

LEMMA LoopCopy ==
    ASSUME TypeInv, LoopInv, CopyLog
    PROVE  LoopInv'
<1> USE DEF TypeInv, StateType
<1>1. mpc \in CopySteps /\ mpc' = mpc
  BY CopyLogStep
<1>0. PICK size \in Nat : \E left \in 0..size : Loop(size, left)
  BY <1>1 DEF LoopInv
<1>2. PICK left \in 0..size : Loop(size, left)
  BY <1>0
<1> DEFINE name == LogOf(PlaceOf(mpc), left)
           Skips == m.copiedFiles >= m.maxFileNum /\ m.maxFileNum # -1
<1>3. /\ left \in 1..Found(mpc) /\ left > 0 /\ left \in Nat
      /\ IF Skips
         THEN m' = [m EXCEPT !.list = @ \ {name}] /\ UNCHANGED <<dir, h>>
         ELSE /\ m' = [m EXCEPT !.list = @ \ {name}, !.copiedFiles = @ + 1]
              /\ CopyFile(name)
  <2>1. PICK k \in 1..Found(mpc) :
            /\ m.list = LogsOf(PlaceOf(mpc), 1..k)
            /\ IF Skips
               THEN m' = [m EXCEPT !.list = @ \ {LogOf(PlaceOf(mpc), k)}] /\ UNCHANGED <<dir, h>>
               ELSE /\ m' = [m EXCEPT !.list = @ \ {LogOf(PlaceOf(mpc), k)}, !.copiedFiles = @ + 1]
                    /\ CopyFile(LogOf(PlaceOf(mpc), k))
    BY CopyLogStep
  <2>2. Found(mpc) \in Nat
    BY <1>1, FoundNames
  <2>3. k \in Nat /\ left \in Nat /\ k > 0
    BY <2>2
  <2>4. k = left
    BY <1>2, <2>1, <2>3, SameLeft DEF Loop
  <2> QED  BY <2>1, <2>3, <2>4
<1>4. m.maxFileNum \in Int /\ m.copiedFiles \in Nat
  <2>1. m.maxFileNum \in MaxFileNums \cup {0, 100} /\ m.copiedFiles \in Nat
    BY DEF ModemType
  <2>2. \A max \in MaxFileNums \cup {0, 100} : max \in Int
    BY LogAssumption
  <2> HIDE DEF name, Skips
  <2> QED  BY <2>1, <2>2
<1>5. /\ m'.list = LogsOf(PlaceOf(mpc'), 1..(left - 1)) /\ m'.maxFileNum = m.maxFileNum
      /\ m'.made = m.made /\ m'.copiedFiles = IF Skips THEN m.copiedFiles ELSE m.copiedFiles + 1
  <2>1. m'.list = m.list \ {name}
    BY <1>3 DEF ModemType
  <2>2. m'.list = LogsOf(PlaceOf(mpc), 1..(left - 1))
    BY <1>2, <1>3, <2>1, NewestLeft DEF Loop
  <2> QED  BY <1>1, <1>3, <2>2 DEF ModemType
<1>6. left - 1 \in 0..size
  BY <1>3
<1>7. IF m'.maxFileNum = -1 \/ size - (left - 1) <= m'.maxFileNum
      THEN m'.copiedFiles = size - (left - 1)
      ELSE m'.copiedFiles >= m'.maxFileNum
  BY <1>2, <1>3, <1>4, <1>5 DEF Loop
<1>8. Skips <=> ~MayCopy(size - left)
  BY <1>2, <1>3, <1>4 DEF Loop, MayCopy
<1>9. name \in h.listed /\ name \in Names /\ name.rank = left
  BY <1>2, <1>3 DEF Loop, LogOf, LogsOf, HistoryType
<1>10. ASSUME m'.made, "open" \notin Faulty
       PROVE  DOMAIN h'.copied \cap h'.listed =
                 {n \in h'.listed : n.rank > left - 1 /\ MayCopy(size - n.rank)}
  <2> HIDE DEF name
  <2>1. DOMAIN h.copied \cap h.listed = {n \in h.listed : n.rank > left /\ MayCopy(size - n.rank)}
    BY <1>2, <1>5, <1>10 DEF Loop
  <2>2. \A n \in h.listed : n.rank \in Nat /\ (n.rank = left => n = name)
    BY <1>2 DEF Loop, LogsOf, LogOf, name
  <2>3. \A n \in h.listed : n.rank > left - 1 <=> n.rank > left \/ n = name
    BY <1>3, <1>9, <2>2
  <2>4. CASE Skips
    <3>1. UNCHANGED h
      BY <1>3, <2>4
    <3>2. ~MayCopy(size - name.rank)
      BY <1>8, <1>9, <2>4
    <3> QED  BY <2>1, <2>3, <3>1, <3>2
  <2>5. CASE ~Skips
    <3>1. CopyFile(name)
      BY <1>3, <2>5 DEF name
    <3>2. name.place = "diag" => name.rank \in DOMAIN diagLogs
      BY <1>1, <1>3, LenProperties DEF LoggerType, Found, PlaceOf, CopySteps, LogOf, name
    <3>3. DOMAIN h'.copied = DOMAIN h.copied \cup {name} /\ h'.listed = h.listed
      BY <1>5, <1>9, <1>10, <3>1, <3>2, CopyFileEffect
    <3>4. MayCopy(size - name.rank)
      BY <1>8, <1>9, <2>5
    <3> QED  BY <1>9, <2>1, <2>3, <3>3, <3>4
  <2> QED  BY <2>4, <2>5
<1>11. h'.listed = LogsOf(PlaceOf(mpc'), 1..size)
  <2>1. CASE Skips
    BY <1>1, <1>2, <1>3, <2>1 DEF Loop
  <2>2. CASE ~Skips
    <3>1. name.place = "diag" => name.rank \in DOMAIN diagLogs
      BY <1>1, <1>3, LenProperties DEF LoggerType, Found, PlaceOf, CopySteps, LogOf
    <3>2. h'.listed = h.listed
      BY <1>3, <1>9, <2>2, <3>1, CopyFileEffect
    <3> QED  BY <1>1, <1>2, <3>2 DEF Loop
  <2> QED  BY <2>1, <2>2
<1>12. \A age : MayCopy(age)' <=> MayCopy(age)
  BY <1>5 DEF MayCopy
<1>13. Loop(size, left - 1)'
  BY <1>5, <1>7, <1>10, <1>11, <1>12 DEF Loop
<1> QED  BY <1>6, <1>13 DEF LoopInv

LEMMA LoopStep ==
    ASSUME TypeInv, PlacesInv, LoopInv, [Next]_vars
    PROVE  LoopInv'
<1> SUFFICES ASSUME mpc' \in CopySteps
             PROVE  LoopInv'
  BY DEF LoopInv
<1> USE LogAssumption DEF TypeInv, StateType
<1>1. CASE UNCHANGED <<mpc, m, h, diagLogs>>
  BY <1>1 DEF LoopInv, Loop, MayCopy
<1>2. CASE Environment
  <2>1. UNCHANGED <<mpc, m>> /\ h'.listed = h.listed /\ h'.copied = h.copied
    BY <1>2, EnvironmentFrame, EnvironmentTypes
  <2> QED  BY <2>1 DEF LoopInv, Loop, MayCopy
<1>3. CASE CopyLog
  BY <1>3, LoopCopy
<1>4. ASSUME NEW size \in Nat, Loop(size, size)'
      PROVE  LoopInv'
  <2>1. size \in 0..size
    OBVIOUS
  <2> QED  BY <1>4, <2>1 DEF LoopInv
<1>5. CASE DumpDiagLogs
  <2>1. DOMAIN diagLogs = 1..Len(diagLogs) /\ Len(diagLogs) \in Nat
    BY LenProperties DEF LoggerType
  <2>2. PICK max \in MaxFileNums :
            Scan("diagScan", "diagCopy", LogsOf(PlaceOf("diagCopy"), 1..Len(diagLogs)), max)
    BY <1>5, <2>1 DEF DumpDiagLogs, PlaceOf
  <2> QED  BY <1>4, <2>1, <2>2, LoopScan DEF ScanSteps, CopySteps
<1>6. CASE DumpTcpdumpLogs
  <2>1. PICK max \in MaxFileNums, size \in 0..TcpdumpLogs :
            Scan("tcpdumpScan", "tcpdumpCopy", LogsOf(PlaceOf("tcpdumpCopy"), 1..size), max)
    <3>1. LogsOf("tcpdump", 1..0) = {} /\ 0 \in 0..TcpdumpLogs /\ TcpdumpLogs \in 0..TcpdumpLogs
      BY DEF LogsOf
    <3> QED  BY <1>6, <3>1 DEF DumpTcpdumpLogs, PlaceOf
  <2> QED  BY <1>4, <2>1, LoopScan DEF ScanSteps, CopySteps
<1>7. CASE DumpExtendedLogs
  <2>1. Scan("extendedScan", "extendedCopy", LogsOf(PlaceOf("extendedCopy"), 1..ExtendedLogs), 100)
    BY <1>7 DEF DumpExtendedLogs, PlaceOf
  <2> QED  BY <1>4, <2>1, LoopScan DEF ScanSteps, CopySteps
<1> QED  BY <1>1, <1>2, <1>3, <1>5, <1>6, <1>7, LoopSteps

\* Of the logs of one place, as many are newer than one of them as its rank says.
LEMMA NewerLogs ==
    ASSUME NEW place, NEW size \in Nat, NEW rank \in 1..size
    PROVE  Cardinality({n \in LogsOf(place, 1..size) : n.rank > rank}) = size - rank
<1> DEFINE newer == {n \in LogsOf(place, 1..size) : n.rank > rank}
           ranks == (rank + 1)..size
           log == [r \in ranks |-> LogOf(place, r)]
<1>1. IsFiniteSet(ranks) /\ Cardinality(ranks) = size - rank
  BY FS_Interval
<1>2. log \in Bijection(ranks, newer)
  <2>1. \A r \in ranks : log[r] \in newer
    BY DEF LogsOf, LogOf
  <2>2. \A r, s \in ranks : log[r] = log[s] => r = s
    BY DEF LogOf
  <2>3. \A n \in newer : \E r \in ranks : log[r] = n
    <3> SUFFICES ASSUME NEW n \in newer
                 PROVE  n.rank \in ranks /\ log[n.rank] = n
      OBVIOUS
    <3>1. n \in [place : {place}, rank : 1..size] /\ n.rank > rank
      BY DEF LogsOf
    <3> QED  BY <3>1 DEF LogOf
  <2>4. log \in [ranks -> newer]
    BY <2>1
  <2> HIDE DEF log, ranks, newer
  <2> QED  BY <2>2, <2>3, <2>4 DEF Bijection, Injection, Surjection, IsInjective
<1> HIDE DEF newer, ranks, log
<1>3. ExistsBijection(ranks, newer)
  BY <1>2 DEF ExistsBijection
<1> QED  BY <1>1, <1>3, FS_Bijection DEF newer

LEMMA NewestStep ==
    TypeInv /\ SwitchInv /\ WholeInv /\ NewestInv /\ [Next]_vars => NewestInv'
<1> SUFFICES ASSUME TypeInv, SwitchInv, WholeInv, NewestInv, [Next]_vars
             PROVE  NewestInv'
  OBVIOUS
<1>1. LoopInv'
  BY LoopStep DEF NewestInv
<1>2. CASE Next
  BY <1>1, <1>2, PlacesStep DEF NewestInv, SwitchInv
<1>3. CASE UNCHANGED vars
  BY <1>1, <1>3 DEF NewestInv, PlacesInv, vars, modem
<1> QED  BY <1>2, <1>3

LEMMA NewestDone ==
    TypeInv /\ NewestInv => NewestCopied
<1> SUFFICES ASSUME TypeInv, LoopInv, mpc \in CopySteps, m.list = {}, m.made, "open" \notin Faulty
             PROVE  DOMAIN h.copied \cap h.listed = Newest(h.listed, m.maxFileNum)
  BY DEF NewestInv, NewestCopied
<1>0. PICK size \in Nat : \E left \in 0..size : Loop(size, left)
  BY DEF LoopInv
<1>1. PICK left \in 0..size : Loop(size, left)
  BY <1>0
<1>2. left = 0
  <2>1. left > 0 => m.list # {}
    BY <1>1, NewestLeft DEF Loop
  <2> QED  BY <2>1
<1>3. \A n \in h.listed :
         n.rank \in 1..size
         /\ Cardinality({o \in h.listed : o.rank > n.rank}) = size - n.rank
  <2> SUFFICES ASSUME NEW n \in h.listed
               PROVE  /\ n.rank \in 1..size
                      /\ Cardinality({o \in h.listed : o.rank > n.rank}) = size - n.rank
    OBVIOUS
  <2>1. h.listed = LogsOf(PlaceOf(mpc), 1..size)
    BY <1>1 DEF Loop
  <2>2. n.rank \in 1..size
    BY <2>1 DEF LogsOf
  <2> QED  BY <2>1, <2>2, NewerLogs
<1>4. DOMAIN h.copied \cap h.listed = {n \in h.listed : n.rank > left /\ MayCopy(size - n.rank)}
  BY <1>1 DEF Loop
<1>5. \A n \in h.listed : n.rank > left
  <2>1. \A n \in h.listed : n.rank \in 1..size
    BY <1>3
  <2> QED  BY <1>2, <2>1
<1> QED  BY <1>3, <1>4, <1>5 DEF Newest, MayCopy

\* DumpstateDevice.cpp:200-240: of the logs that the scan before a loop of dumpLogs() has
\* found, the loop copies the newest, as many as the property says and no more, while
\* the modem logger may open another.
THEOREM CopiesTheNewest ==
    Spec => []NewestCopied
<1> DEFINE IInv == TypeInv /\ SwitchInv /\ WholeInv /\ NewestInv
<1>1. Init => IInv
  BY TypeInit, SwitchInit, WholeInit, NewestInit
<1>2. IInv /\ [Next]_vars => IInv'
  BY TypeStep, SwitchStep, WholeStep, NewestStep
<1>3. IInv => NewestCopied
  BY NewestDone
<1> QED  BY <1>1, <1>2, <1>3, PTL DEF Spec
==============================================================================
