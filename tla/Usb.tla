--------------------------------- MODULE Usb ---------------------------------
(***************************************************************************)
(* The USB HAL, usb/usb/Usb.cpp: the binder threads that serve the IUsb    *)
(* calls, the worker thread that listens to uevents (work(),               *)
(* uevent_event()), the three mutexes and the condition variable they      *)
(* share, and the sysfs and configfs nodes they read and write.            *)
(*                                                                         *)
(* A step is a stretch of code between two points where another thread or  *)
(* the kernel can be noticed: a lock operation, a read or a write of a     *)
(* node.  A stretch that runs under a lock and touches only what that lock *)
(* protects is one step.                                                   *)
(***************************************************************************)
EXTENDS TypecPort

CONSTANTS
    BinderThreads,  \* service.cpp leaves the process one binder thread
    Worker,         \* the thread mPoll
    NoThread,       \* owner of a free mutex
    Callbacks,      \* the IUsbCallback objects of the framework
    NoCallback,     \* the null callback
    Calls,          \* the IUsb calls the framework makes in this instance
    Faulty          \* what may fail in this instance

Threads == BinderThreads \cup {Worker}

\* PortMode values other than UFP and DFP are written as the word "none".
RoleWords == [dataRole  |-> RolesOf.dataRole \cup {"none"},
              powerRole |-> RolesOf.powerRole \cup {"none"},
              mode      |-> {"source", "sink", "none"}]

AllCalls ==
    [op : {"enableUsbData", "limitPowerTransfer",
           "enableContaminantPresenceDetection"}, on : BOOLEAN]
    \cup [op : {"enableUsbDataWhileDocked", "resetUsbPort", "queryPortStatus"}]
    \cup [op : {"setCallback"}, callback : Callbacks \cup {NoCallback}]
    \cup UNION {[op : {"switchRole"}, tag : {tag}, role : RoleWords[tag]] :
                  tag \in DOMAIN RoleWords}
NoCall == [op |-> "none"]

\* A node whose open, read or write may fail, a system call that may fail, a
\* uevent too long for its buffer, a condition variable that wakes for no
\* reason, and the death of the process.
Faults == {"UDC_read", "UDC_write", "usb_data", "sink_current", "sink_limit",
           "source_limit", "moisture_enabled", "role", "port_type", "pthread_create", "socket",
           "epoll", "overflow", "spurious", "crash", "role_read", "moisture_read",
           "sink_limit_read"}
Outcome(fault) == IF fault \in Faulty THEN BOOLEAN ELSE {TRUE}

ASSUME ThreadAssumption == Worker \notin BinderThreads /\ NoThread \notin Threads
ASSUME CallAssumption == NoCallback \notin Callbacks /\ Calls \subseteq AllCalls
ASSUME FaultAssumption == Faulty \subseteq Faults

VARIABLES
    mCallback, mUsbDataEnabled, mPartnerUp,   \* the members of Usb
    mLock, mRoleSwitchLock, mPartnerLock,     \* owners of the mutexes
    destroyThread, sigPending,                \* flag and signal for the worker
    pullup,           \* UDC: is the gadget bound to the controller
    usbData,          \* usb_data_enabled
    sinkLimit, sourceLimit,                   \* usb_limit_*_enable
    moistureEnabled,  \* moisture_detection_enabled
    pc,               \* where each thread is
    call, ok,         \* of a binder thread: its call and the result so far
    wake,             \* why a thread's pthread_cond_timedwait returns, or not
    status,           \* currentPortStatus of the query that holds mLock
    view              \* history: the last status mCallback was told

settings == <<pullup, usbData, sinkLimit, sourceLimit, moistureEnabled>>
locks == <<mLock, mRoleSwitchLock, mPartnerLock>>
kernel == <<partner, roles, detected, portType, attachedSince, listening, uevents>>
members == <<mCallback, mUsbDataEnabled, mPartnerUp>>
signals == <<destroyThread, sigPending>>
request == <<call, ok, wake>>
reports == <<status, view>>
vars == <<members, locks, signals, settings, pc, request, reports, kernel>>
------------------------------------------------------------------------------
(* Types and the initial state                                             *)

Status == [result : {"none", "SUCCESS", "ERROR"},
           heard : BOOLEAN,       \* history: was the worker listening
           connected : BOOLEAN,
           power : RolesOf.powerRole \cup {"none"},
           data : RolesOf.dataRole \cup {"none"},
           usbData : {"none", "ENABLED", "DISABLED_FORCE"},
           limited : BOOLEAN,
           contaminant : {"DISABLED", "DETECTED", "NOT_DETECTED"}]
NoStatus == [result |-> "none", heard |-> FALSE, connected |-> FALSE,
             power |-> "none", data |-> "none", usbData |-> "none",
             limited |-> FALSE, contaminant |-> "DISABLED"]

QuerySection == {"qScan", "qPower", "qData", "qMode", "qMember", "qMoisture",
                 "qDetected", "qLimit", "qNotify"}
QuerySteps == {"qLock"} \cup QuerySection
ModeSteps == {"smOpen", "smLock", "smWrite", "condwait", "drp"}
RoleSteps == {"rsWrite", "rsRead"} \cup ModeSteps
DataSteps == {"edRead", "edPull", "edData", "edSet"}
BinderSteps == {"idle", "reply", "rsLock", "lpWrite", "ecWrite", "rpWrite",
                "cb", "cbJoin"} \cup QuerySteps \cup RoleSteps \cup DataSteps
WorkerSteps == {"dead", "start", "loop", "enter", "epoll", "partnerUp",
                "tryLock", "drpCheck", "drp"} \cup QuerySteps

MemberTypeOK ==
    /\ mCallback \in Callbacks \cup {NoCallback}
    /\ mUsbDataEnabled \in BOOLEAN
    /\ mPartnerUp \in BOOLEAN

LockTypeOK ==
    /\ mLock \in Threads \cup {NoThread}
    /\ mRoleSwitchLock \in Threads \cup {NoThread}
    /\ mPartnerLock \in Threads \cup {NoThread}

SignalTypeOK == destroyThread \in BOOLEAN /\ sigPending \in BOOLEAN

SettingTypeOK ==
    /\ pullup \in BOOLEAN /\ usbData \in BOOLEAN
    /\ sinkLimit \in BOOLEAN /\ sourceLimit \in BOOLEAN
    /\ moistureEnabled \in BOOLEAN

PcTypeOK ==
    /\ pc \in [Threads -> BinderSteps \cup WorkerSteps]
    /\ \A t \in BinderThreads : pc[t] \in BinderSteps
    /\ pc[Worker] \in WorkerSteps

RequestTypeOK ==
    /\ call \in [BinderThreads -> Calls \cup {NoCall}]
    /\ ok \in [BinderThreads -> BOOLEAN]
    /\ wake \in [BinderThreads -> {"none", "signaled", "timedout"}]

ReportTypeOK == status \in Status /\ view \in Status

TypeOK ==
    /\ KernelTypeOK /\ MemberTypeOK /\ LockTypeOK /\ SignalTypeOK
    /\ SettingTypeOK /\ PcTypeOK /\ RequestTypeOK /\ ReportTypeOK

\* What the constructor and main() set up, also after a restart.
HalInit ==
    /\ mCallback = NoCallback
    /\ mUsbDataEnabled = TRUE
    /\ mPartnerUp = FALSE
    /\ mLock = NoThread /\ mRoleSwitchLock = NoThread /\ mPartnerLock = NoThread
    /\ destroyThread = FALSE /\ sigPending = FALSE
    /\ pc = [t \in Threads |-> IF t = Worker THEN "dead" ELSE "idle"]
    /\ call = [t \in BinderThreads |-> NoCall]
    /\ ok = [t \in BinderThreads |-> TRUE]
    /\ wake = [t \in BinderThreads |-> "none"]
    /\ status = NoStatus
    /\ view = NoStatus

Init ==
    /\ KernelInit
    /\ HalInit
    /\ pullup = TRUE /\ usbData = TRUE
    /\ sinkLimit = FALSE /\ sourceLimit = FALSE
    /\ moistureEnabled = TRUE
------------------------------------------------------------------------------
(* Threads and mutexes                                                     *)

Go(t, step) == pc' = [pc EXCEPT ![t] = step]

Step(t, from, to) == pc[t] = from /\ Go(t, to)

\* The frames that recur below.
PcOnly == UNCHANGED <<members, locks, signals, settings, request, reports, kernel>>
NodeFrame == UNCHANGED <<members, locks, signals, call, wake, reports, kernel>>
StatusOnly == UNCHANGED <<members, locks, signals, settings, request, view, kernel>>
WakeOnly == UNCHANGED <<members, locks, signals, settings, pc, call, ok, reports, kernel>>
RoleLockOnly == UNCHANGED <<members, mLock, mPartnerLock, signals, settings,
                            request, reports, kernel>>
WorkerFrame == UNCHANGED <<members, locks, destroyThread, settings, request, reports>>

\* The call of t returns.
Return(t) ==
    /\ Go(t, "idle")
    /\ call' = [call EXCEPT ![t] = NoCall]
    /\ ok' = [ok EXCEPT ![t] = TRUE]
    /\ wake' = [wake EXCEPT ![t] = "none"]

FirstStep ==
    [enableUsbData |-> "edRead", enableUsbDataWhileDocked |-> "reply",
     resetUsbPort |-> "rpWrite", limitPowerTransfer |-> "lpWrite",
     queryPortStatus |-> "qLock", switchRole |-> "rsLock",
     enableContaminantPresenceDetection |-> "ecWrite", setCallback |-> "cb"]

\* A binder thread takes the next transaction.  The local result starts as
\* success, except in switchRole.
Begin(t) ==
    /\ pc[t] = "idle"
    /\ \E c \in Calls :
          /\ Go(t, FirstStep[c.op])
          /\ call' = [call EXCEPT ![t] = c]
          /\ ok' = [ok EXCEPT ![t] = c.op # "switchRole"]
    /\ UNCHANGED <<members, locks, signals, settings, wake, reports, kernel>>
------------------------------------------------------------------------------
(* enableUsbData                                                           *)

\* The gadget is bound or unbound only if the UDC node says it must; when the
\* node cannot be read nothing is written and nothing is reported.
EdRead(t) ==
    /\ pc[t] = "edRead"
    /\ \E read \in Outcome("UDC_read") :
          Go(t, IF read /\ pullup # call[t].on THEN "edPull" ELSE "edData")
    /\ PcOnly

\* Mutant: a refused write of the UDC node does not clear the result.
EdPullUnreported(t) ==
    /\ Step(t, "edPull", "edData")
    /\ \E written \in Outcome("UDC_write") :
         pullup' = IF written THEN call[t].on ELSE pullup
    /\ UNCHANGED <<members, locks, signals, usbData, sinkLimit, sourceLimit,
                   moistureEnabled, request, reports, kernel>>

\* configfs refuses to bind a bound gadget and to unbind an unbound one.
EdPull(t) ==
    /\ Step(t, "edPull", "edData")
    /\ \E written \in Outcome("UDC_write") :
         LET done == written /\ pullup # call[t].on IN
         /\ pullup' = IF done THEN call[t].on ELSE pullup
         /\ ok' = [ok EXCEPT ![t] = ok[t] /\ done]
    /\ NodeFrame /\ UNCHANGED <<usbData, sinkLimit, sourceLimit,
                                moistureEnabled>>

\* Mutant: a failed write of usb_data_enabled does not clear the result.
EdDataUnreported(t) ==
    /\ Step(t, "edData", "edSet")
    /\ \E written \in Outcome("usb_data") :
         usbData' = IF written THEN call[t].on ELSE usbData
    /\ UNCHANGED <<members, locks, signals, pullup, sinkLimit, sourceLimit,
                   moistureEnabled, request, reports, kernel>>

EdData(t) ==
    /\ Step(t, "edData", "edSet")
    /\ \E written \in Outcome("usb_data") :
         /\ usbData' = IF written THEN call[t].on ELSE usbData
         /\ ok' = [ok EXCEPT ![t] = ok[t] /\ written]
    /\ NodeFrame /\ UNCHANGED <<pullup, sinkLimit, sourceLimit,
                                moistureEnabled>>

\* mUsbDataEnabled is written without a lock.
EdSet(t) ==
    /\ Step(t, "edSet", "reply")
    /\ mUsbDataEnabled' = IF ok[t] THEN call[t].on ELSE mUsbDataEnabled
    /\ UNCHANGED <<mCallback, mPartnerUp, locks, signals, settings, request,
                   reports, kernel>>
------------------------------------------------------------------------------
(* The other calls that write a node and reply                             *)

\* resetUsbPort unbinds the gadget, whatever was bound.
RpWrite(t) ==
    /\ Step(t, "rpWrite", "reply")
    /\ \E written \in Outcome("UDC_write") :
         LET done == written /\ pullup IN
         /\ pullup' = (pullup /\ ~done)
         /\ ok' = [ok EXCEPT ![t] = done]
    /\ NodeFrame /\ UNCHANGED <<usbData, sinkLimit, sourceLimit,
                                moistureEnabled>>

\* limitPowerTransfer writes the current, when it limits, then the two enables,
\* and notifies, under mLock; a failed write does not stop the next.
LpWrite(t) ==
    /\ Step(t, "lpWrite", "qLock")
    /\ mLock = NoThread
    /\ \E sink \in Outcome("sink_limit"), source \in Outcome("source_limit"),
          current \in Outcome("sink_current") :
         /\ sinkLimit' = IF sink THEN call[t].on ELSE sinkLimit
         /\ sourceLimit' = IF source THEN call[t].on ELSE sourceLimit
         /\ ok' = [ok EXCEPT ![t] = sink /\ source /\ (call[t].on => current)]
    /\ NodeFrame /\ UNCHANGED <<pullup, usbData, moistureEnabled>>

\* The write is skipped, as a success, on a device with a running console or
\* with vendor.usb.contaminantdisable set.
EcWrite(t) ==
    /\ Step(t, "ecWrite", "reply")
    /\ \E skip \in BOOLEAN, written \in Outcome("moisture_enabled") :
         /\ moistureEnabled' = IF ~skip /\ written THEN call[t].on
                                                    ELSE moistureEnabled
         /\ ok' = [ok EXCEPT ![t] = skip \/ written]
    /\ NodeFrame /\ UNCHANGED <<pullup, usbData, sinkLimit, sourceLimit>>

\* The notify...Status call of a handler, under mLock.  switchRole then frees
\* mRoleSwitchLock; resetUsbPort, queryPortStatus and switchRole return, the
\* others go on to queryVersionHelper.
Reply(t) ==
    /\ pc[t] = "reply"
    /\ mLock = NoThread
    /\ IF call[t].op \in {"resetUsbPort", "queryPortStatus", "switchRole"}
         THEN Return(t)
         ELSE Go(t, "qLock") /\ UNCHANGED request
    /\ mRoleSwitchLock' = IF call[t].op = "switchRole" THEN NoThread
                                                       ELSE mRoleSwitchLock
    /\ UNCHANGED <<members, mLock, mPartnerLock, signals, settings, reports,
                   kernel>>
------------------------------------------------------------------------------
(* switchRole                                                              *)

\* Mutant: role switches do not exclude each other.
RsLockShared(t) ==
    /\ pc[t] = "rsLock"
    /\ mRoleSwitchLock' = t
    /\ Go(t, IF call[t].tag = "mode" THEN "smOpen" ELSE "rsWrite")
    /\ RoleLockOnly

RsLock(t) ==
    /\ pc[t] = "rsLock"
    /\ mRoleSwitchLock = NoThread
    /\ mRoleSwitchLock' = t
    /\ Go(t, IF call[t].tag = "mode" THEN "smOpen" ELSE "rsWrite")
    /\ RoleLockOnly

\* A data or power role is a request: the kernel swaps or leaves the role, and
\* fputs() on a buffered stream reports neither.
RsWrite(t) ==
    /\ pc[t] = "rsWrite"
    /\ \/ /\ Swap(call[t].tag, call[t].role)
          /\ Go(t, "rsRead")
       \/ Go(t, "rsRead") /\ UNCHANGED <<roles, uevents>>
       \/ "role" \in Faulty /\ Go(t, "reply") /\ UNCHANGED <<roles, uevents>>
    /\ UNCHANGED <<members, locks, signals, settings, request, reports,
                   partner, detected, portType, attachedSince, listening>>

\* The role read back decides.
RsRead(t) ==
    /\ Step(t, "rsRead", "reply")
    /\ \E read \in Outcome("role") :
         ok' = [ok EXCEPT ![t] = read /\ roles[call[t].tag] = call[t].role]
    /\ UNCHANGED <<members, locks, signals, settings, call, wake, reports,
                   kernel>>

\* switchMode: port_type is opened before mPartnerLock is taken.
SmOpen(t) ==
    /\ pc[t] = "smOpen"
    /\ \E opened \in Outcome("port_type") :
          Go(t, IF opened THEN "smLock" ELSE "drp")
    /\ PcOnly

\* Mutant: mPartnerLock is not held while port_type is written.
SmLockDropped(t) ==
    /\ Step(t, "smLock", "smWrite")
    /\ mPartnerLock = NoThread
    /\ mPartnerUp' = FALSE
    /\ UNCHANGED <<mCallback, mUsbDataEnabled, locks, signals, settings,
                   request, reports, kernel>>

SmLock(t) ==
    /\ Step(t, "smLock", "smWrite")
    /\ mPartnerLock = NoThread
    /\ mPartnerLock' = t
    /\ mPartnerUp' = FALSE
    /\ UNCHANGED <<mCallback, mUsbDataEnabled, mLock, mRoleSwitchLock, signals,
                   settings, request, reports, kernel>>

\* Mutant: port_type takes any word.
SmWriteAny(t) ==
    /\ Step(t, "smWrite", "condwait")
    /\ mPartnerLock' = NoThread
    /\ portType' = call[t].role
    /\ attachedSince' = FALSE
    /\ UNCHANGED <<members, mLock, mRoleSwitchLock, signals, settings, request,
                   reports, partner, roles, detected, listening, uevents>>

\* fputs() leaves the word in the buffer of the stream; fclose() hands it to
\* the kernel and its result is ignored.  Then pthread_cond_timedwait()
\* releases mPartnerLock.
SmWrite(t) ==
    /\ Step(t, "smWrite", "condwait")
    /\ mPartnerLock' = NoThread
    /\ \/ PortTypeWritten(call[t].role)
       \/ "port_type" \in Faulty /\ PortTypeWritten(portType)
    /\ UNCHANGED <<members, mLock, mRoleSwitchLock, signals, settings, request,
                   reports, partner, roles, detected, listening, uevents>>

\* PORT_TYPE_TIMEOUT passes without a signal.
CondTimeout(t) ==
    /\ pc[t] = "condwait" /\ wake[t] = "none"
    /\ wake' = [wake EXCEPT ![t] = "timedout"]
    /\ WakeOnly

CondSpurious(t) ==
    /\ "spurious" \in Faulty
    /\ pc[t] = "condwait" /\ wake[t] = "none"
    /\ wake' = [wake EXCEPT ![t] = "signaled"]
    /\ WakeOnly

\* Mutant: only mPartnerUp is looked at, so a timeout waits again.
SmWakePatient(t) ==
    /\ pc[t] = "condwait" /\ wake[t] # "none"
    /\ mPartnerLock = NoThread
    /\ IF mPartnerUp
         THEN Go(t, "reply") /\ ok' = [ok EXCEPT ![t] = TRUE]
         ELSE UNCHANGED <<pc, ok>>
    /\ wake' = [wake EXCEPT ![t] = "none"]
    /\ UNCHANGED <<members, locks, signals, settings, call, reports, kernel>>

\* pthread_cond_timedwait() returns with mPartnerLock held.  A timeout is a
\* failure even if the partner is up by now; otherwise mPartnerUp decides
\* between success and waiting again, with a new deadline.
SmWake(t) ==
    /\ pc[t] = "condwait" /\ wake[t] # "none"
    /\ mPartnerLock = NoThread
    /\ \/ /\ wake[t] = "timedout"
          /\ Go(t, "drp")
          /\ UNCHANGED ok
       \/ /\ wake[t] = "signaled" /\ ~mPartnerUp
          /\ UNCHANGED <<pc, ok>>
       \/ /\ wake[t] = "signaled" /\ mPartnerUp
          /\ Go(t, "reply")
          /\ ok' = [ok EXCEPT ![t] = TRUE]
    /\ wake' = [wake EXCEPT ![t] = "none"]
    /\ UNCHANGED <<members, locks, signals, settings, call, reports, kernel>>

\* switchToDrp, for a failed switch and for the worker, which then frees
\* mRoleSwitchLock.
Drp(t) ==
    /\ Step(t, "drp", IF t = Worker THEN "loop" ELSE "reply")
    /\ \/ PortTypeWritten("dual")
       \/ "port_type" \in Faulty /\ UNCHANGED <<portType, attachedSince>>
    /\ mRoleSwitchLock' = IF t = Worker THEN NoThread ELSE mRoleSwitchLock
    /\ UNCHANGED <<members, mLock, mPartnerLock, signals, settings, request,
                   reports, partner, roles, detected, listening, uevents>>
------------------------------------------------------------------------------
(* queryVersionHelper, by a binder thread or by the worker                 *)

\* Mutant: queries do not exclude each other.
QLockShared(t) ==
    /\ Step(t, "qLock", "qScan")
    /\ mLock' = t
    /\ UNCHANGED <<members, mRoleSwitchLock, mPartnerLock, signals, settings,
                   request, reports, kernel>>

QLock(t) ==
    /\ Step(t, "qLock", "qScan")
    /\ mLock = NoThread
    /\ mLock' = t
    /\ UNCHANGED <<members, mRoleSwitchLock, mPartnerLock, signals, settings,
                   request, reports, kernel>>

\* getTypeCPortNamesHelper: a -partner entry in the directory is a connection.
\* Without one no role is read.
QScan(t) ==
    /\ Step(t, "qScan", IF partner THEN "qPower" ELSE "qMember")
    /\ status' = [NoStatus EXCEPT !.connected = partner, !.heard = listening]
    /\ StatusOnly

\* A role node that cannot be read, or holds no word that is known, ends
\* getPortStatusHelper: the status keeps what it has so far.
NextRole(t, read, next) ==
    Go(t, IF read THEN next ELSE "qMoisture")

QPower(t) ==
    /\ pc[t] = "qPower"
    /\ \E read \in Outcome("role_read") :
          /\ NextRole(t, read, "qData")
          /\ status' = IF read THEN [status EXCEPT !.power = roles.powerRole]
                       ELSE [status EXCEPT !.result = "ERROR"]
    /\ StatusOnly

QData(t) ==
    /\ pc[t] = "qData"
    /\ \E read \in Outcome("role_read") :
          /\ NextRole(t, read, "qMode")
          /\ status' = IF read THEN [status EXCEPT !.data = roles.dataRole]
                       ELSE [status EXCEPT !.result = "ERROR"]
    /\ StatusOnly

\* The mode needs the accessory_mode node of the partner that the scan saw, and
\* the data role, of which it is another name; it is not kept.
QMode(t) ==
    /\ pc[t] = "qMode"
    /\ \E read \in Outcome("role_read") :
          /\ NextRole(t, partner /\ read, "qMember")
          /\ status' = IF partner /\ read THEN status
                       ELSE [status EXCEPT !.result = "ERROR"]
    /\ StatusOnly

QMember(t) ==
    /\ Step(t, "qMember", "qMoisture")
    /\ status' = [status EXCEPT
           !.result = "SUCCESS",
           !.usbData = IF mUsbDataEnabled THEN "ENABLED" ELSE "DISABLED_FORCE"]
    /\ StatusOnly

Contaminant ==
    CASE ~moistureEnabled -> "DISABLED"
      [] moistureEnabled /\ detected -> "DETECTED"
      [] moistureEnabled /\ ~detected -> "NOT_DETECTED"

\* queryMoistureDetectionStatus: moisture_detection_enabled, and if it holds 1
\* moisture_detected.  A failed read of either leaves DISABLED, and its ERROR is
\* dropped.
QMoisture(t) ==
    /\ pc[t] = "qMoisture"
    /\ \E read \in Outcome("moisture_read") :
          Go(t, IF read /\ moistureEnabled THEN "qDetected" ELSE "qLimit")
    /\ PcOnly

\* Mutant: an unreadable moisture_detected is told as dry.
QDetectedDry(t) ==
    /\ Step(t, "qDetected", "qLimit")
    /\ \E read \in Outcome("moisture_read") :
          status' = [status EXCEPT !.contaminant =
                        IF read /\ detected THEN "DETECTED" ELSE "NOT_DETECTED"]
    /\ StatusOnly

QDetected(t) ==
    /\ Step(t, "qDetected", "qLimit")
    /\ \E read \in Outcome("moisture_read") :
          status' = IF ~read THEN status
                    ELSE [status EXCEPT !.contaminant =
                             IF detected THEN "DETECTED" ELSE "NOT_DETECTED"]
    /\ StatusOnly

\* Mutant: an unreadable limit is told as set.
QLimitAssumed(t) ==
    /\ Step(t, "qLimit", "qNotify")
    /\ \E read \in Outcome("sink_limit_read") :
          status' = [status EXCEPT !.limited = read => sinkLimit]
    /\ StatusOnly

\* queryPowerTransferStatus: a failed read leaves "not limited", and its ERROR is
\* dropped.
QLimit(t) ==
    /\ Step(t, "qLimit", "qNotify")
    /\ \E read \in Outcome("sink_limit_read") :
          status' = IF read THEN [status EXCEPT !.limited = sinkLimit] ELSE status
    /\ StatusOnly

\* notifyPortStatusChange, the end of the query, and where its caller goes on.
QNotify(t) ==
    /\ pc[t] = "qNotify"
    /\ mLock' = NoThread
    /\ view' = IF mCallback # NoCallback THEN status ELSE view
    /\ status' = NoStatus
    /\ IF t = Worker
         THEN Go(t, "tryLock") /\ UNCHANGED request
         ELSE IF call[t].op = "queryPortStatus"
         THEN Go(t, "reply") /\ UNCHANGED request
         ELSE Return(t)
    /\ UNCHANGED <<members, mRoleSwitchLock, mPartnerLock, signals, settings,
                   kernel>>
------------------------------------------------------------------------------
(* setCallback                                                             *)

\* A new callback has been told nothing yet.
SetCallback(cb) == mCallback' = cb /\ view' = NoStatus

CbSame(t) ==
    /\ pc[t] = "cb"
    /\ mLock = NoThread
    /\ (mCallback = NoCallback) <=> (call[t].callback = NoCallback)
    /\ SetCallback(call[t].callback)
    /\ Return(t)
    /\ UNCHANGED <<mUsbDataEnabled, mPartnerUp, locks, signals, settings,
                   status, kernel>>

\* pthread_create(): the old worker, if any, was joined or is dead.
CbRegister(t) ==
    /\ pc[t] = "cb"
    /\ mLock = NoThread
    /\ mCallback = NoCallback /\ call[t].callback # NoCallback
    /\ destroyThread' = FALSE
    /\ \E created \in Outcome("pthread_create") :
         /\ SetCallback(IF created THEN call[t].callback ELSE NoCallback)
         /\ pc' = [pc EXCEPT ![t] = "idle",
                            ![Worker] = IF created THEN "start" ELSE @]
    /\ call' = [call EXCEPT ![t] = NoCall]
    /\ UNCHANGED <<mUsbDataEnabled, mPartnerUp, locks, sigPending, settings,
                   ok, wake, status, kernel>>

\* Mutant: setCallback(null) does not wait for the worker.
CbUnregisterDetached(t) ==
    /\ pc[t] = "cb"
    /\ mLock = NoThread
    /\ mCallback # NoCallback /\ call[t].callback = NoCallback
    /\ SetCallback(NoCallback)
    /\ Return(t)
    /\ sigPending' = (pc[Worker] # "dead")
    /\ UNCHANGED <<mUsbDataEnabled, mPartnerUp, locks, destroyThread, settings,
                   status, kernel>>

\* pthread_kill(); a dead worker leaves nothing to wait for.  The join is made
\* with mLock held.
CbUnregister(t) ==
    /\ pc[t] = "cb"
    /\ mLock = NoThread
    /\ mCallback # NoCallback /\ call[t].callback = NoCallback
    /\ SetCallback(NoCallback)
    /\ IF pc[Worker] = "dead"
         THEN Return(t) /\ UNCHANGED <<mLock, sigPending>>
         ELSE /\ Go(t, "cbJoin")
              /\ mLock' = t
              /\ sigPending' = TRUE
              /\ UNCHANGED request
    /\ UNCHANGED <<mUsbDataEnabled, mPartnerUp, mRoleSwitchLock, mPartnerLock,
                   destroyThread, settings, status, kernel>>

CbJoin(t) ==
    /\ pc[t] = "cbJoin"
    /\ pc[Worker] = "dead"
    /\ mLock' = NoThread
    /\ Return(t)
    /\ UNCHANGED <<members, mRoleSwitchLock, mPartnerLock, signals, settings,
                   reports, kernel>>
------------------------------------------------------------------------------
(* The worker: work() and uevent_event()                                   *)

\* A message that waits in the socket is lost when the socket closes, and a
\* signal that is still pending when the thread ends.
WorkerExits ==
    /\ Go(Worker, "dead")
    /\ listening' = FALSE
    /\ uevents' = <<>>
    /\ sigPending' = FALSE
    /\ UNCHANGED <<partner, roles, detected, portType, attachedSince>>

WStart ==
    /\ pc[Worker] = "start"
    /\ \/ /\ Go(Worker, "loop")
          /\ listening' = TRUE
          /\ UNCHANGED <<sigPending, partner, roles, detected, portType,
                         attachedSince, uevents>>
       \/ "socket" \in Faulty /\ WorkerExits
    /\ WorkerFrame

\* while (!destroyThread)
WLoop ==
    /\ pc[Worker] = "loop"
    /\ IF destroyThread
         THEN WorkerExits
         ELSE Go(Worker, "enter") /\ UNCHANGED <<sigPending, kernel>>
    /\ WorkerFrame

\* epoll_wait() blocks, or fails for another reason than a signal.
WEnter ==
    /\ pc[Worker] = "enter"
    /\ \/ Go(Worker, "epoll") /\ UNCHANGED <<sigPending, kernel>>
       \/ "epoll" \in Faulty /\ WorkerExits
    /\ WorkerFrame

\* sighandler(); epoll_wait() then returns EINTR, anything else goes on.
WSignal ==
    /\ sigPending
    /\ sigPending' = FALSE
    /\ destroyThread' = TRUE
    /\ pc' = IF pc[Worker] = "epoll" THEN [pc EXCEPT ![Worker] = "loop"] ELSE pc
    /\ UNCHANGED <<members, locks, settings, request, reports, kernel>>

\* One message is received; one that overflows the buffer is discarded.
WRecv ==
    /\ pc[Worker] = "epoll"
    /\ uevents # <<>>
    /\ uevents' = Tail(uevents)
    /\ \/ Go(Worker, CASE Head(uevents) = "partnerAdd" -> "partnerUp"
                       [] Head(uevents) = "typec" -> "qLock"
                       [] Head(uevents) = "other" -> "loop")
       \/ "overflow" \in Faulty /\ Go(Worker, "loop")
    /\ UNCHANGED <<members, locks, signals, settings, request, reports,
                   partner, roles, detected, portType, attachedSince,
                   listening>>

\* pthread_cond_signal() wakes a waiter, if there is one, and the scan of the
\* message goes on to its DEVTYPE.
Waiters == {t \in BinderThreads : pc[t] = "condwait" /\ wake[t] = "none"}

\* Mutant: the rest of the partner added message is not looked at.
WPartnerUpOnly ==
    /\ Step(Worker, "partnerUp", "loop")
    /\ mPartnerLock = NoThread
    /\ mPartnerUp' = TRUE
    /\ IF Waiters = {}
         THEN UNCHANGED wake
         ELSE \E t \in Waiters : wake' = [wake EXCEPT ![t] = "signaled"]
    /\ UNCHANGED <<mCallback, mUsbDataEnabled, locks, signals, settings, call,
                   ok, reports, kernel>>

WPartnerUp ==
    /\ Step(Worker, "partnerUp", "qLock")
    /\ mPartnerLock = NoThread
    /\ mPartnerUp' = TRUE
    /\ IF Waiters = {}
         THEN UNCHANGED wake
         ELSE \E t \in Waiters : wake' = [wake EXCEPT ![t] = "signaled"]
    /\ UNCHANGED <<mCallback, mUsbDataEnabled, locks, signals, settings, call,
                   ok, reports, kernel>>

\* Mutant: the worker does not try the lock of the role switch.
WTryNothing ==
    /\ Step(Worker, "tryLock", "drpCheck")
    /\ PcOnly

\* pthread_mutex_trylock() gives up at once during a role switch.
WTryLock ==
    /\ pc[Worker] = "tryLock"
    /\ IF mRoleSwitchLock = NoThread
         THEN mRoleSwitchLock' = Worker /\ Go(Worker, "drpCheck")
         ELSE Go(Worker, "loop") /\ UNCHANGED mRoleSwitchLock
    /\ RoleLockOnly

\* opendir() of the -partner entry
WDrpCheck ==
    /\ pc[Worker] = "drpCheck"
    /\ IF partner
         THEN Go(Worker, "loop") /\ mRoleSwitchLock' = NoThread
         ELSE Go(Worker, "drp") /\ UNCHANGED mRoleSwitchLock
    /\ RoleLockOnly
------------------------------------------------------------------------------
(* The service dies and init starts it again: the nodes and the port stay. *)

Crash ==
    /\ "crash" \in Faulty
    /\ mCallback' = NoCallback
    /\ mUsbDataEnabled' = TRUE
    /\ mPartnerUp' = FALSE
    /\ mLock' = NoThread /\ mRoleSwitchLock' = NoThread /\ mPartnerLock' = NoThread
    /\ destroyThread' = FALSE /\ sigPending' = FALSE
    /\ pc' = [t \in Threads |-> IF t = Worker THEN "dead" ELSE "idle"]
    /\ call' = [t \in BinderThreads |-> NoCall]
    /\ ok' = [t \in BinderThreads |-> TRUE]
    /\ wake' = [t \in BinderThreads |-> "none"]
    /\ status' = NoStatus /\ view' = NoStatus
    /\ listening' = FALSE /\ uevents' = <<>>
    /\ UNCHANGED <<settings, partner, roles, detected, portType,
                   attachedSince>>
------------------------------------------------------------------------------
(* The specification                                                       *)

EnableUsbData(t) == EdRead(t) \/ EdPull(t) \/ EdData(t) \/ EdSet(t)
SwitchRole(t) ==
    \/ RsLock(t) \/ RsWrite(t) \/ RsRead(t)
    \/ SmOpen(t) \/ SmLock(t) \/ SmWrite(t)
    \/ CondTimeout(t) \/ CondSpurious(t) \/ SmWake(t)
QueryReads(t) ==
    \/ QScan(t) \/ QPower(t) \/ QData(t) \/ QMode(t) \/ QMember(t)
    \/ QMoisture(t) \/ QDetected(t) \/ QLimit(t)
Query(t) == QLock(t) \/ QueryReads(t) \/ QNotify(t)
SetCallbackCall(t) == CbSame(t) \/ CbRegister(t) \/ CbUnregister(t) \/ CbJoin(t)

Binder(t) ==
    \/ EnableUsbData(t) \/ RpWrite(t) \/ LpWrite(t) \/ EcWrite(t) \/ Reply(t)
    \/ SwitchRole(t) \/ Drp(t) \/ Query(t) \/ SetCallbackCall(t)

WorkerNext ==
    \/ WStart \/ WLoop \/ WEnter \/ WSignal \/ WRecv \/ WPartnerUp
    \/ WTryLock \/ WDrpCheck \/ Drp(Worker) \/ Query(Worker)

Kernel == KernelNext /\ UNCHANGED <<members, locks, signals, settings, pc,
                                    request, reports>>

Next ==
    \/ \E t \in BinderThreads : Begin(t) \/ Binder(t)
    \/ WorkerNext
    \/ Kernel
    \/ Crash

Spec == Init /\ [][Next]_vars

\* The scheduler runs a thread that can run, a mutex freed again and again is
\* in the end taken by a thread that waits for it, and timeouts expire.  The
\* kernel owes no event and the framework no call.
Fairness ==
    /\ \A t \in BinderThreads : SF_vars(Binder(t))
    /\ SF_vars(WorkerNext)
    /\ WF_vars(WSignal)

FairSpec == Spec /\ Fairness
------------------------------------------------------------------------------
(* Mode switches                                                           *)

SwitchingMode(t) == call[t].op = "switchRole" /\ call[t].tag = "mode"

\* Usb.cpp:327: mPartnerLock is taken before port_type is written "to prevent
\* loosing connected signals".  Whoever sleeps in pthread_cond_timedwait() and
\* has not been woken has not missed a partner: mPartnerUp is still false.
NoLostPartnerSignal ==
    \A t \in BinderThreads : pc[t] = "condwait" /\ wake[t] = "none" => ~mPartnerUp

\* "Protects roleSwitch operation" (Usb.h:75): from the moment a mode switch has
\* written port_type until its reply is out, nobody else writes it: neither a
\* second mode switch nor the worker's switch back to DRP.
PortTypeOwned ==
    [][\A t \in BinderThreads :
          /\ SwitchingMode(t)
          /\ pc[t] \in {"condwait", "drp", "reply"}
          /\ pc'[t] = pc[t]
          => portType' = portType]_vars

\* What a mode switch reports is what it left in port_type: the mode asked for
\* on success, dual on failure, whatever timed out, was signalled or was
\* switched by others meanwhile.
SwitchOutcome ==
    \A t \in BinderThreads :
       /\ "port_type" \notin Faulty
       /\ pc[t] = "reply" /\ SwitchingMode(t)
       => IF ok[t] THEN call[t].role \in {portType, "none"} ELSE portType = "dual"

\* Usb.h:81, "partner coming back online after type switch": a mode switch that
\* succeeds saw a partner attach after it wrote port_type.
PartnerCameBack ==
    \A t \in BinderThreads :
       pc[t] = "reply" /\ SwitchingMode(t) /\ ok[t] => attachedSince

\* Usb.cpp:742, "Role switch is not in progress and port is in disconnected
\* state": once the worker has handled every message, a disconnected port that
\* nobody switches is back to dual role.
DisconnectedIsDual ==
    /\ pc[Worker] = "epoll" /\ uevents = <<>>
    /\ mRoleSwitchLock = NoThread
    /\ ~partner
    => portType = "dual"
------------------------------------------------------------------------------
(* What the framework is told                                              *)

\* While the worker waits for messages and none is queued, the last status told
\* to the callback, if its scan was made while the worker listened, is the
\* state of the port: no binder query that scanned earlier was delivered later,
\* and an error met half way through a detach was corrected.  A role node that
\* cannot be read is told as ERROR; moisture nodes that cannot be read are told
\* as DISABLED with SUCCESS, and nothing corrects that (Usb.cpp:653).
PortFresh ==
    /\ pc[Worker] \in {"enter", "epoll"} /\ uevents = <<>>
    /\ "overflow" \notin Faulty
    /\ view.heard
    => /\ view.connected = partner
       /\ IF view.result = "SUCCESS"
            THEN /\ view.power = IF partner THEN roles.powerRole ELSE "none"
                 /\ view.data = IF partner THEN roles.dataRole ELSE "none"
            ELSE "role_read" \in Faulty /\ partner
       /\ \/ view.contaminant = Contaminant
          \/ "moisture_read" \in Faulty /\ view.contaminant = "DISABLED"
          \/ \E t \in BinderThreads :
                 call[t].op = "enableContaminantPresenceDetection"

\* A callback that has been told a status has been told the settings too: only
\* a call that changed one and still has its own query to make is ahead of it.
\* A limit that cannot be read is told as none, and nothing corrects that
\* (Usb.cpp:654).
SettingsFresh ==
    /\ view.result = "SUCCESS"
       => \/ mUsbDataEnabled = (view.usbData = "ENABLED")
          \/ \E t \in BinderThreads : call[t].op = "enableUsbData"
                                   /\ pc[t] \in {"reply"} \cup QuerySteps
    /\ view.result # "none"
       => \/ sinkLimit = view.limited
          \/ "sink_limit_read" \in Faulty /\ ~view.limited
          \/ \E t \in BinderThreads : call[t].op = "limitPowerTransfer"
                                   /\ pc[t] \in QuerySteps

\* enableUsbData reports success only if both nodes are as asked.
EnableOutcome ==
    \A t \in BinderThreads :
       pc[t] = "reply" /\ call[t].op = "enableUsbData" /\ ok[t]
       => usbData = call[t].on /\ pullup = call[t].on
------------------------------------------------------------------------------
(* The life of the worker                                                  *)

\* mPoll is written only when no worker is left: a worker runs for a callback
\* that is set, or for the setCallback(null) that is about to join it.
WorkerServesCallback ==
    pc[Worker] # "dead"
    => mCallback # NoCallback \/ \E t \in BinderThreads : pc[t] = "cbJoin"

\* Usb.cpp:48, "Set by the signal handler to destroy the thread": once the flag
\* is set the worker ends.
FlagDestroysWorker == destroyThread ~> pc[Worker] = "dead"
------------------------------------------------------------------------------
(* Liveness                                                                *)

\* Every call returns, whatever the worker and the kernel do: no deadlock among
\* the three mutexes, and a mode switch without an answer times out.
CallsReturn == \A t \in BinderThreads : pc[t] # "idle" ~> pc[t] = "idle"

\* A partner that comes or goes while the worker listens is reported to the
\* callback, unless it changes again first.
PartnerReported ==
    \A b \in BOOLEAN :
       listening /\ partner = b /\ (\E i \in DOMAIN uevents : uevents[i] # "other")
       ~> partner # b \/ (view.result = "SUCCESS" /\ view.connected = b)
==============================================================================
