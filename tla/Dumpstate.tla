------------------------------ MODULE Dumpstate ------------------------------
(***************************************************************************)
(* The dumpstate HAL, dumpstate/DumpstateDevice.cpp: its one binder thread *)
(* (service.cpp), the modem thread that a dump starts and joins, and the   *)
(* files that thread copies, packs and sends, while the modem logger       *)
(* writes and the process dies.  The sections of a dump that only read     *)
(* nodes into the report are left out.                                     *)
(*                                                                         *)
(* The modem logger (diag_mdlog) and the owners of the other logs are not  *)
(* in the repository; they are modelled by the properties and directories  *)
(* the code uses.                                                          *)
(***************************************************************************)
EXTENDS DumpFiles

CONSTANTS
    Calls,        \* the dumps the framework asks for in this instance
    TouchCalls,   \* those that find the nodes of the touch controller
    MaxFileNums,  \* what the properties of the number of logs may hold
    TcpdumpLogs, ExtendedLogs,   \* the number of logs in these two directories
    Single,       \* which of the logs that are single files there are
    MaxLogs, MaxBlocks,          \* bounds on the modem logger's files
    MaxCrashes,                  \* bound on the deaths of the process in a behaviour
    Faulty                       \* what may fail in this instance

AllCalls == [fds : 0..2, fdValid : BOOLEAN, mode : {"DEFAULT", "WEAR", "invalid"}]
NoCall == [mode |-> "none"]

DiagLog(rank) == [place |-> "diag", rank |-> rank]
PoweronLog == [place |-> "poweron", rank |-> 1]
RilLog == [place |-> "ril", rank |-> 1]     \* rilAndNetmgrLogs
LogsOf(place, ranks) == [place : {place}, rank : ranks]

\* A file that cannot be opened, a command that fails or is killed after its
\* timeout, missing properties, a short write to the pipe, no thread, and the
\* death of the process.
Faults == {"open", "mkdir", "rm", "touch", "log_props", "pipe", "pthread_create", "crash"}
Outcome(fault) == IF fault \in Faulty THEN BOOLEAN ELSE {TRUE}

ASSUME CallAssumption == Calls \subseteq AllCalls /\ TouchCalls \subseteq Calls
ASSUME LogAssumption ==
    /\ MaxFileNums \subseteq Int
    /\ Single \subseteq {PoweronLog, RilLog}
    /\ TcpdumpLogs \in Nat /\ ExtendedLogs \in Nat
    /\ MaxLogs \in Nat \ {0} /\ MaxBlocks \in Nat \ {0}
    /\ MaxCrashes \in Nat
ASSUME FaultAssumption == Faulty \subseteq Faults

VARIABLES
    verbose,          \* the verbose logging property
    userBuild,        \* IsUserBuild()
    mdlog, mdlogOn,   \* the modem logger: asked to run, and its status
    efsdump,          \* the EFS dump property
    diagLogs,         \* the length of each log of the modem logger, by rank
    rilVersion,       \* of the logs of the radio daemons, which are rewritten
    dir, tar,         \* modem_log and the tar file, which outlive the process
    touch,            \* the touch controller: forced active, in landscape
    pc, call, status, \* of the binder thread
    mpc, m,           \* of the modem thread: where it is and its local variables
    sent,             \* what the reader of the pipe has got
    h                 \* history, see below

properties == <<verbose, userBuild, mdlog, efsdump>>
logger == <<mdlogOn, diagLogs, rilVersion>>
files == <<dir, tar>>
binder == <<pc, call, status>>
modem == <<mpc, m>>
vars == <<properties, logger, files, touch, binder, modem, sent, h>>
------------------------------------------------------------------------------
Names ==
    LogsOf("diag", 1..MaxLogs) \cup Single
    \cup LogsOf("tcpdump", 1..TcpdumpLogs) \cup LogsOf("extended", 1..ExtendedLogs)

\* The contents of a log when it is read.  A radio log is rewritten in place, and
\* its second version is shorter.
Contents(name) ==
    CASE name.place = "diag" ->
            [i \in 1..diagLogs[name.rank] |-> DataBlock(name, 1, i)]
      [] name.place = "ril" ->
            [i \in 1..(IF rilVersion = 1 THEN 2 ELSE 1) |-> DataBlock(name, rilVersion, i)]
      [] OTHER -> <<DataBlock(name, 1, 1)>>

NoModem ==
    [diagLogEnabled |-> FALSE, diagLogStarted |-> FALSE, waited |-> "no", made |-> FALSE,
     list |-> {}, copiedFiles |-> 0, maxFileNum |-> 0, entries |-> {}, tarLen |-> 0]

\* listed: what the last scandir() found; copied: the contents of each file as this
\* dump has read them; clean: nothing is left of an earlier dump that died;
\* stopped: this dump has asked the logger to stop, and nobody has switched it since;
\* meddled: somebody has switched it during the dump; pipe: what it has taken.
NoHistory ==
    [listed |-> {}, copied |-> NoDir, clean |-> TRUE, stopped |-> FALSE, meddled |-> FALSE,
     pipe |-> "unused", crashes |-> 0]

ScanSteps == {"diagScan", "tcpdumpScan", "extendedScan"}
CopySteps == {"diagCopy", "tcpdumpCopy", "extendedCopy"}
ModemSteps == {"none", "props", "stop", "wait", "mkdir", "restart", "poweron", "efsOn", "ril",
               "efsOff", "tar", "pack", "send", "rmDir", "rmTar", "done"}
              \cup ScanSteps \cup CopySteps
TouchSteps == {"activeOn", "formatOn", "formatOff", "activeOff"}
Steps == {"idle", "spawn", "join", "reply", "exit"} \cup TouchSteps

Blocks ==
    [name : Names, version : {1, 2}, block : 1..(MaxBlocks + 2)]
    \cup [name : Names, size : 0..(MaxBlocks + 2)]
IsDir(d) == DOMAIN d \subseteq Names /\ \A n \in DOMAIN d : d[n] \in Seq(Blocks)

TypeOK ==
    /\ verbose \in BOOLEAN /\ userBuild \in BOOLEAN /\ mdlog \in BOOLEAN
    /\ efsdump \in BOOLEAN /\ mdlogOn \in BOOLEAN
    /\ diagLogs \in Seq(1..MaxBlocks) /\ Len(diagLogs) \in 0..MaxLogs
    /\ rilVersion \in {1, 2}
    /\ IsDir(dir) /\ tar \in Seq(Blocks)
    /\ touch \in [active : BOOLEAN, landscape : BOOLEAN]
    /\ pc \in Steps /\ call \in Calls \cup {NoCall}
    /\ status \in {"none", "OK", "ILLEGAL_ARGUMENT", "UNSUPPORTED_MODE"}
    /\ mpc \in ModemSteps
    /\ m \in [diagLogEnabled : BOOLEAN, diagLogStarted : BOOLEAN,
              waited : {"no", "exited", "timeout"}, made : BOOLEAN,
              list : SUBSET Names, copiedFiles : Nat, maxFileNum : MaxFileNums \cup {0, 100},
              entries : SUBSET Names, tarLen : Nat]
    /\ mpc = "pack" => m.tarLen <= Len(tar)
    /\ sent \in Seq(Blocks)
    /\ h.listed \in SUBSET Names /\ IsDir(h.copied)
    /\ \A flag \in {"clean", "stopped", "meddled"} : h[flag] \in BOOLEAN
    /\ h.pipe \in {"unused", "whole", "short"}
    /\ h.crashes \in 0..MaxCrashes

\* A modem logger that runs has a log open.
Init ==
    /\ verbose \in BOOLEAN /\ userBuild \in BOOLEAN
    /\ mdlog \in BOOLEAN /\ mdlogOn = mdlog /\ efsdump = FALSE
    /\ diagLogs = <<1>> /\ rilVersion = 1
    /\ dir = NoDir /\ tar = <<>>
    /\ touch = [active |-> FALSE, landscape |-> FALSE]
    /\ pc = "idle" /\ call = NoCall /\ status = "none"
    /\ mpc = "none" /\ m = NoModem
    /\ sent = <<>> /\ h = NoHistory
------------------------------------------------------------------------------
(* The binder thread: setVerboseLoggingEnabled and dumpstateBoard          *)

BinderOnly == UNCHANGED <<properties, logger, files, touch, modem, sent, h>>
Go(step) == pc' = step /\ UNCHANGED <<call, status>>
Finish(result) == pc' = "reply" /\ status' = result /\ UNCHANGED call

SetVerboseLoggingEnabled(enable) ==
    /\ pc = "idle"
    /\ verbose' = enable
    /\ UNCHANGED <<userBuild, mdlog, efsdump, logger, files, touch, binder, modem, sent, h>>

\* dumpstateBoard is dumpstateBoard_1_1 in the default mode.
DumpstateBoard(c) ==
    /\ pc = "idle"
    /\ call' = c
    /\ LET refusal == CASE c.fds = 0 \/ ~c.fdValid -> "ILLEGAL_ARGUMENT"
                        [] c.fds > 0 /\ c.fdValid /\ c.mode = "invalid" -> "ILLEGAL_ARGUMENT"
                        [] c.fds > 0 /\ c.fdValid /\ c.mode = "WEAR" -> "UNSUPPORTED_MODE"
                        [] c.fds > 0 /\ c.fdValid /\ c.mode = "DEFAULT" -> "none" IN
       /\ status' = refusal
       /\ pc' = IF refusal = "none" THEN "spawn" ELSE "reply"
    /\ BinderOnly

\* The modem thread needs verbose logging and a second descriptor; without the
\* thread the dump goes on.  DumpTouch() does nothing when it finds no node.
Spawn ==
    /\ pc = "spawn"
    /\ Go(IF call \in TouchCalls THEN "activeOn" ELSE "join")
    /\ \E created \in Outcome("pthread_create") :
          mpc' = IF verbose /\ call.fds = 2 /\ created THEN "props" ELSE "none"
    /\ UNCHANGED <<properties, logger, files, touch, m, sent, h>>

\* DumpTouch().  The result of a command is not looked at.
TouchCommand(from, to, field, value) ==
    /\ pc = from
    /\ Go(to)
    /\ \E accepted \in Outcome("touch") :
          touch' = IF accepted THEN [touch EXCEPT ![field] = value] ELSE touch
    /\ UNCHANGED <<properties, logger, files, modem, sent, h>>

ForceActive == TouchCommand("activeOn", "formatOn", "active", TRUE)
SetLandscape == TouchCommand("formatOn", "formatOff", "landscape", TRUE)
SetPortrait == TouchCommand("formatOff", "activeOff", "landscape", FALSE)
EndActive == TouchCommand("activeOff", "join", "active", FALSE)

\* Mutant: a thread that was not started is waited for.
JoinAlways ==
    /\ pc = "join"
    /\ mpc = "done"
    /\ Finish("OK")
    /\ BinderOnly

Join ==
    /\ pc = "join"
    /\ mpc \in {"none", "done"}
    /\ Finish("OK")
    /\ BinderOnly

Reply ==
    /\ pc = "reply"
    /\ Go("exit")
    /\ BinderOnly

\* What a new process starts with.
NewProcess(crashes, clean) ==
    /\ pc' = "idle" /\ call' = NoCall /\ status' = "none"
    /\ mpc' = "none" /\ m' = NoModem
    /\ sent' = <<>> /\ h' = [NoHistory EXCEPT !.crashes = crashes, !.clean = clean]
    /\ UNCHANGED <<properties, logger, files, touch>>

\* exit(0), "since this is a lazy HAL"; the next call starts a new process.
Exit == pc = "exit" /\ NewProcess(h.crashes, h.clean \/ h.pipe # "unused")

\* The process is killed at any other moment.
Crash ==
    /\ "crash" \in Faulty /\ h.crashes < MaxCrashes
    /\ pc # "idle"
    /\ NewProcess(h.crashes + 1, h.clean /\ mpc = "none")
------------------------------------------------------------------------------
(* dumpModemThread: the modem logger                                       *)

To(step) == mpc' = step

\* The properties are read once.  Without a place for the logs there is no dump.
ReadProperties ==
    /\ mpc = "props"
    /\ \E present \in Outcome("log_props"), enabled \in BOOLEAN :
          /\ To(IF ~present THEN "done" ELSE IF enabled /\ mdlogOn THEN "stop" ELSE "mkdir")
          /\ m' = [m EXCEPT !.diagLogEnabled = enabled, !.diagLogStarted = mdlogOn]
    /\ UNCHANGED <<properties, logger, files, touch, binder, sent, h>>

StopLogger ==
    /\ mpc = "stop" /\ To("wait")
    /\ mdlog' = FALSE
    /\ h' = [h EXCEPT !.stopped = TRUE]
    /\ UNCHANGED <<verbose, userBuild, efsdump, logger, files, touch, binder, m, sent>>

WaitOnly == UNCHANGED <<properties, logger, files, touch, binder, sent, h>>

\* Mutant: the wait is for the property that has just been written.
WaitForRequest ==
    /\ mpc = "wait" /\ To("mkdir")
    /\ ~mdlog
    /\ m' = [m EXCEPT !.waited = "exited"]
    /\ WaitOnly

\* WaitForProperty() returns when the logger has stopped
WaitForLogger ==
    /\ mpc = "wait" /\ To("mkdir")
    /\ ~mdlogOn
    /\ m' = [m EXCEPT !.waited = "exited"]
    /\ WaitOnly

\* or after ten seconds.
WaitTimeout ==
    /\ mpc = "wait" /\ To("mkdir")
    /\ m' = [m EXCEPT !.waited = "timeout"]
    /\ WaitOnly

\* Without the directory every copy fails, and the packing.
Mkdir ==
    /\ mpc = "mkdir"
    /\ To(IF m.diagLogEnabled THEN "diagScan" ELSE "poweron")
    /\ \E made \in Outcome("mkdir") : m' = [m EXCEPT !.made = made \/ dir # NoDir]
    /\ UNCHANGED <<properties, logger, files, touch, binder, sent, h>>

\* Mutant: only a logger that has stopped in time is started again.
RestartStopped ==
    /\ mpc = "restart" /\ To("poweron")
    /\ mdlog' = (mdlog \/ m.waited = "exited")
    /\ UNCHANGED <<verbose, userBuild, efsdump, logger, files, touch, binder, m, sent, h>>

RestartLogger ==
    /\ mpc = "restart" /\ To("poweron")
    /\ mdlog' = (mdlog \/ m.diagLogStarted)
    /\ UNCHANGED <<verbose, userBuild, efsdump, logger, files, touch, binder, m, sent, h>>
------------------------------------------------------------------------------
(* Copying                                                                 *)

CopyFrame == UNCHANGED <<properties, logger, tar, touch, binder, sent>>

\* Mutant: a file that is already there is not written again.
CopyFileNew(name) ==
    \E opened \in Outcome("open") :
       IF opened /\ m.made /\ name \in Names
       THEN /\ dir' = IF name \in DOMAIN dir THEN dir ELSE CopyOnto(dir, name, Contents(name))
            /\ h' = [h EXCEPT !.copied = CopyOnto(@, name, Contents(name))]
       ELSE UNCHANGED <<dir, h>>

\* copyFile(): a file that cannot be opened is passed over.
CopyFile(name) ==
    \E opened \in Outcome("open") :
       IF opened /\ m.made /\ name \in Names
       THEN /\ dir' = CopyOnto(dir, name, Contents(name))
            /\ h' = [h EXCEPT !.copied = CopyOnto(@, name, Contents(name))]
       ELSE UNCHANGED <<dir, h>>

\* dumpLogs(): scandir(), and then from the newest to the oldest.
Scan(from, to, names, maxFileNum) ==
    /\ mpc = from /\ To(to)
    /\ m' = [m EXCEPT !.list = names, !.copiedFiles = 0, !.maxFileNum = maxFileNum]
    /\ h' = [h EXCEPT !.listed = names]
    /\ UNCHANGED <<properties, logger, files, touch, binder, sent>>

\* Mutant: the oldest are copied.
CopyLogOldest ==
    /\ mpc \in CopySteps /\ m.list # {}
    /\ LET name == CHOOSE n \in m.list : \A o \in m.list : n.rank <= o.rank IN
       IF m.copiedFiles >= m.maxFileNum /\ m.maxFileNum # -1
       THEN m' = [m EXCEPT !.list = @ \ {name}] /\ UNCHANGED <<dir, h>>
       ELSE /\ m' = [m EXCEPT !.list = @ \ {name}, !.copiedFiles = @ + 1]
            /\ CopyFile(name)
    /\ UNCHANGED mpc
    /\ CopyFrame

CopyLog ==
    /\ mpc \in CopySteps /\ m.list # {}
    /\ LET name == CHOOSE n \in m.list : \A o \in m.list : n.rank >= o.rank IN
       IF m.copiedFiles >= m.maxFileNum /\ m.maxFileNum # -1
       THEN m' = [m EXCEPT !.list = @ \ {name}] /\ UNCHANGED <<dir, h>>
       ELSE /\ m' = [m EXCEPT !.list = @ \ {name}, !.copiedFiles = @ + 1]
            /\ CopyFile(name)
    /\ UNCHANGED mpc
    /\ CopyFrame

CopiedLogs ==
    /\ mpc \in CopySteps /\ m.list = {}
    /\ To(CASE mpc = "diagCopy" -> "restart"
            [] mpc = "tcpdumpCopy" -> "ril"
            [] mpc = "extendedCopy" -> "efsOff")
    /\ m' = [m EXCEPT !.copiedFiles = 0, !.maxFileNum = 0]
    /\ h' = [h EXCEPT !.listed = {}]
    /\ UNCHANGED <<properties, logger, files, touch, binder, sent>>

DumpDiagLogs ==
    \E maxFileNum \in MaxFileNums :
       Scan("diagScan", "diagCopy", LogsOf("diag", DOMAIN diagLogs), maxFileNum)

\* "persist.vendor.tcpdump.log.alwayson" decides whether there is anything to copy.
DumpTcpdumpLogs ==
    \E enabled \in BOOLEAN, maxFileNum \in MaxFileNums :
       Scan("tcpdumpScan", "tcpdumpCopy",
            IF enabled THEN LogsOf("tcpdump", 1..TcpdumpLogs) ELSE {}, maxFileNum)

DumpExtendedLogs ==
    Scan("extendedScan", "extendedCopy", LogsOf("extended", 1..ExtendedLogs), 100)

CopyOne(from, to, name) ==
    /\ mpc = from /\ To(to)
    /\ CopyFile(name)
    /\ UNCHANGED m
    /\ CopyFrame

CopyPoweronLog == CopyOne("poweron", IF userBuild THEN "tar" ELSE "efsOn", PoweronLog)
CopyRilLogs == CopyOne("ril", "extendedScan", RilLog)

SetEfsDump(from, to, value) ==
    /\ mpc = from /\ To(to)
    /\ efsdump' = value
    /\ UNCHANGED <<verbose, userBuild, mdlog, logger, files, touch, binder, m, sent, h>>

EfsDumpOn == SetEfsDump("efsOn", "tcpdumpScan", TRUE)
EfsDumpOff == SetEfsDump("efsOff", "tar", FALSE)
------------------------------------------------------------------------------
(* Packing, sending, removing                                              *)

\* createTarFile() opens the directory and the tar file.
OpenTar ==
    /\ mpc = "tar"
    /\ \E opened \in Outcome("open") :
          IF opened /\ m.made
          THEN To("pack") /\ m' = [m EXCEPT !.entries = DOMAIN dir]
          ELSE To("send") /\ UNCHANGED m
    /\ UNCHANGED <<properties, logger, files, touch, binder, sent, h>>

PackFrame == UNCHANGED <<properties, logger, dir, touch, binder, sent, h>>

\* Mutant: the padding is counted twice.
PackCountedTwice ==
    /\ mpc = "pack" /\ m.entries # {}
    /\ \E name \in m.entries :
          /\ tar' = Overwrite(tar, m.tarLen, TarMember(name, dir[name]))
          /\ m' = [m EXCEPT !.entries = @ \ {name}, !.tarLen = @ + Len(dir[name]) + 2]
    /\ UNCHANGED mpc
    /\ PackFrame

\* readdir() returns the entries in any order.
Pack ==
    /\ mpc = "pack" /\ m.entries # {}
    /\ \E name \in m.entries :
          /\ tar' = Overwrite(tar, m.tarLen, TarMember(name, dir[name]))
          /\ m' = [m EXCEPT !.entries = @ \ {name}, !.tarLen = @ + Len(dir[name]) + 1]
    /\ UNCHANGED mpc
    /\ PackFrame

Packed ==
    /\ mpc = "pack" /\ m.entries = {} /\ To("send")
    /\ m' = [m EXCEPT !.tarLen = 0] /\ UNCHANGED tar
    /\ PackFrame

\* The tar file goes into the pipe; a short write ends it.
Send ==
    /\ mpc = "send" /\ To("rmDir")
    /\ \E whole \in Outcome("pipe") :
          /\ \E n \in IF whole THEN {Len(tar)} ELSE 0..Len(tar) : sent' = SubSeq(tar, 1, n)
          /\ h' = [h EXCEPT !.pipe = IF whole THEN "whole" ELSE "short"]
    /\ UNCHANGED <<properties, logger, files, touch, binder, m>>

\* Mutant: the directory is left for the next dump.
RemoveNothing ==
    /\ mpc = "rmDir" /\ To("rmTar")
    /\ UNCHANGED <<properties, logger, files, touch, binder, m, sent, h>>

RemoveDir ==
    /\ mpc = "rmDir" /\ To("rmTar")
    /\ \E removed \in Outcome("rm") : dir' = IF removed THEN NoDir ELSE dir
    /\ UNCHANGED <<properties, logger, tar, touch, binder, m, sent, h>>

RemoveTar ==
    /\ mpc = "rmTar" /\ To("done")
    /\ \E removed \in Outcome("rm") : tar' = IF removed THEN <<>> ELSE tar
    /\ UNCHANGED <<properties, logger, dir, touch, binder, m, sent, h>>
------------------------------------------------------------------------------
(* The modem logger, the radio daemons and the user                        *)

LoggerFrame == UNCHANGED <<verbose, userBuild, efsdump, files, touch, binder, modem, sent>>

\* The modem logger opens a new log whenever it starts.
LoggerStarts ==
    /\ mdlog /\ ~mdlogOn /\ Len(diagLogs) < MaxLogs
    /\ mdlogOn' = TRUE
    /\ diagLogs' = Append(diagLogs, 1)
    /\ UNCHANGED <<mdlog, rilVersion, h>>
    /\ LoggerFrame

LoggerWrites ==
    /\ mdlogOn /\ diagLogs[Len(diagLogs)] < MaxBlocks
    /\ diagLogs' = [diagLogs EXCEPT ![Len(diagLogs)] = @ + 1]
    /\ UNCHANGED <<mdlog, mdlogOn, rilVersion, h>>
    /\ LoggerFrame

LoggerStops ==
    /\ ~mdlog /\ mdlogOn
    /\ mdlogOn' = FALSE
    /\ UNCHANGED <<mdlog, diagLogs, rilVersion, h>>
    /\ LoggerFrame

\* The user switches the modem logger.
LoggerSwitched ==
    /\ mdlog' = ~mdlog
    /\ h' = [h EXCEPT !.stopped = FALSE, !.meddled = (pc # "idle")]
    /\ UNCHANGED <<mdlogOn, diagLogs, rilVersion>>
    /\ LoggerFrame

RilLogRewritten ==
    /\ rilVersion = 1
    /\ rilVersion' = 2
    /\ UNCHANGED <<mdlog, mdlogOn, diagLogs, h>>
    /\ LoggerFrame
------------------------------------------------------------------------------
(* The specification                                                       *)

Touch == ForceActive \/ SetLandscape \/ SetPortrait \/ EndActive
Binder == Spawn \/ Touch \/ Join \/ Reply \/ Exit
Diag == ReadProperties \/ StopLogger \/ WaitForLogger \/ WaitTimeout \/ RestartLogger
Copy ==
    \/ Mkdir \/ DumpDiagLogs \/ CopyLog \/ CopiedLogs \/ CopyPoweronLog
    \/ EfsDumpOn \/ DumpTcpdumpLogs \/ CopyRilLogs \/ DumpExtendedLogs \/ EfsDumpOff
Report == OpenTar \/ Pack \/ Packed \/ Send \/ RemoveDir \/ RemoveTar
Modem == Diag \/ Copy \/ Report
Environment ==
    \/ LoggerStarts \/ LoggerWrites \/ LoggerStops \/ LoggerSwitched \/ RilLogRewritten

Next ==
    \/ \E enable \in BOOLEAN : SetVerboseLoggingEnabled(enable)
    \/ \E c \in Calls : DumpstateBoard(c)
    \/ Binder
    \/ Modem
    \/ Environment
    \/ Crash

Spec == Init /\ [][Next]_vars

\* Both threads run, the commands end, at the latest after their timeouts, and the
\* reader takes what is written to its pipe.  The modem logger owes nothing.
FairSpec == Spec /\ WF_vars(Binder) /\ WF_vars(Modem)
------------------------------------------------------------------------------
(* What a report holds                                                     *)

IsHeader(block) == "size" \in DOMAIN block

\* Where a reader of the report that starts at the beginning, and skips what a header
\* says is behind it, looks for a header; and where it finds one.
Looks[i \in Nat] ==
    \/ i = 1
    \/ \E j \in DOMAIN sent : j < i /\ Looks[j] /\ IsHeader(sent[j]) /\ j + sent[j].size + 1 = i
Members == {i \in DOMAIN sent : Looks[i] /\ IsHeader(sent[i])}

\* Everything a dump has copied is in the report it sends, from the first block of
\* each file on, even when an earlier process died or its files were not removed
\* and the new contents were written over the old.
NothingMissing ==
    pc = "reply" /\ h.pipe = "whole" /\ "open" \notin Faulty =>
    \A name \in DOMAIN h.copied :
       \E i \in Members :
          /\ sent[i].name = name /\ sent[i].size >= Len(h.copied[name])
          /\ SubSeq(sent, i + 1, i + Len(h.copied[name])) = h.copied[name]

\* Nothing else is in it when no dump that died has left anything behind: one header
\* for each file, with its size, and no block of any other file.
NothingStale ==
    pc = "reply" /\ h.pipe # "unused" /\ h.clean /\ "rm" \notin Faulty =>
    \A i \in DOMAIN sent :
       /\ sent[i].name \in DOMAIN h.copied
       /\ "size" \in DOMAIN sent[i] => sent[i].size = Len(h.copied[sent[i].name])
       /\ "block" \in DOMAIN sent[i] =>
             sent[i] \in {h.copied[sent[i].name][j] : j \in DOMAIN h.copied[sent[i].name]}
       /\ \A j \in DOMAIN sent : sent[i] = sent[j] => i = j

\* dumpLogs() copies the newest logs its scan has found, as many as the property
\* says and no more.
NewestCopied ==
    mpc \in CopySteps /\ m.list = {} /\ m.made /\ "open" \notin Faulty =>
    DOMAIN h.copied \cap h.listed = Newest(h.listed, m.maxFileNum)

\* DumpstateDevice.cpp:270, "diag_mdlog exited": once the wait for the modem logger
\* has succeeded, no log is copied that is still being written: the copies are
\* whole files, although the logger runs again before the report is sent.
LogsWhole ==
    m.waited = "exited" /\ ~h.meddled =>
    \A name \in DOMAIN h.copied :
       name.place = "diag" => h.copied[name] = Contents(name)
------------------------------------------------------------------------------
(* What a dump leaves behind                                               *)

\* Whatever a dump switches it has switched back when it answers: the modem logger
\* it has stopped is asked to run, even after a timeout; the EFS dump is off; the
\* touch controller is in its default format and not forced active, also when an
\* earlier process died half way through.
SwitchedBack ==
    pc \in {"reply", "exit"} /\ status = "OK" =>
    /\ h.stopped => mdlog
    /\ h.pipe # "unused" => ~efsdump
    /\ call \in TouchCalls /\ "touch" \notin Faulty =>
          touch = [active |-> FALSE, landscape |-> FALSE]

\* Every dump is answered: the wait for the modem logger times out, and the binder
\* thread does not wait for a thread it has not started.
CallsReturn == pc # "idle" ~> pc = "idle"
==============================================================================
