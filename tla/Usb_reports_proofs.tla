-------------------------- MODULE Usb_reports_proofs --------------------------
(***************************************************************************)
(* Proofs about what Usb tells the framework: the statuses that reach the  *)
(* callback, and the results of the calls.                                 *)
(***************************************************************************)
EXTENDS Usb_proofs

\* The steps that leave the report under way, and the members and nodes it is made
\* of, alone.
Reported == <<mCallback, mUsbDataEnabled, sinkLimit, status, view>>
------------------------------------------------------------------------------
(* Threads in a query                                                      *)

\* A query is made by one thread at a time, and nobody else holds mLock.
LEMMA OneQuery ==
    ASSUME LInv, NEW t \in Threads, pc[t] \in QuerySection
    PROVE  /\ mLock # NoThread
           /\ \A u \in Threads \ {t} : pc[u] \notin QueryLocked
BY ThreadAssumption DEF LInv, LockInv, QueryLocked, Threads

\* A thread is in a query if and only if its next step is one of a query.
LEMMA QueryStepsOnly ==
    ASSUME LInv, NEW t \in BinderThreads, Begin(t) \/ Binder(t)
    PROVE  Query(t) <=> pc[t] \in QuerySteps
<1> USE DEF Step, QuerySteps, QuerySection
<1>1. Query(t) => pc[t] \in QuerySteps
  BY ReadSteps DEF Query, QLock, QNotify, Threads
<1>2. CASE SwitchRole(t) \/ Drp(t)
  BY <1>2, <1>1 DEF SwitchRole, RsLock, RsWrite, RsRead, SmOpen, SmLock, SmWrite,
     CondTimeout, CondSpurious, SmWake, Drp
<1>3. CASE Begin(t) \/ EnableUsbData(t) \/ RpWrite(t) \/ LpWrite(t) \/ EcWrite(t) \/ Reply(t)
  BY <1>3, <1>1 DEF Begin, EnableUsbData, EdRead, EdPull, EdData, EdSet, RpWrite, LpWrite, EcWrite,
     Reply
<1>4. CASE SetCallbackCall(t)
  BY <1>4, <1>1 DEF SetCallbackCall, CbSame, CbRegister, CbUnregister, CbJoin
<1> QED  BY <1>1, <1>2, <1>3, <1>4 DEF Binder

\* Outside a query a binder thread leaves the report under way alone, enters no
\* query but through mLock, and goes on to its query when it changed a setting.
LEMMA OutsideQuery ==
    ASSUME LInv, NEW t \in BinderThreads, Begin(t) \/ Binder(t), ~Query(t)
    PROVE  /\ status' = status
           /\ pc'[t] \notin QuerySection
           /\ pc[t] = "reply" /\ call[t].op \notin {"resetUsbPort", "queryPortStatus", "switchRole"}
                 => pc'[t] = "qLock" /\ call'[t] = call[t]
<1> USE DEF Step, QuerySteps, QuerySection, Go, Return, reports, request
<1>1. /\ t # Worker /\ t \in Threads
      /\ pc \in [Threads -> BinderSteps \cup WorkerSteps]
      /\ call \in [BinderThreads -> Calls \cup {NoCall}]
  BY ThreadAssumption DEF Threads, LInv, TInv, TypeOK, PcTypeOK, RequestTypeOK
<1>2. CASE SwitchRole(t) \/ Drp(t)
  BY <1>1, <1>2 DEF SwitchRole, RsLock, RsWrite, RsRead, SmOpen, SmLock, SmWrite,
     CondTimeout, CondSpurious, SmWake, Drp, WakeOnly, RoleLockOnly, PcOnly
<1>3. CASE Begin(t)
  <2>1. PICK c \in Calls : pc' = [pc EXCEPT ![t] = FirstStep[c.op]]
    BY <1>3 DEF Begin
  <2>2. FirstStep[c.op] \notin QuerySection
    BY CallFields DEF FirstStep
  <2> QED  BY <1>1, <1>3, <2>1, <2>2 DEF Begin
<1>4. CASE EnableUsbData(t) \/ RpWrite(t) \/ LpWrite(t) \/ EcWrite(t) \/ Reply(t)
  BY <1>1, <1>4 DEF EnableUsbData, EdRead, EdPull, EdData, EdSet, RpWrite, LpWrite, EcWrite,
     Reply, PcOnly, NodeFrame
<1>5. CASE SetCallbackCall(t)
  BY <1>1, <1>5 DEF SetCallbackCall, CbSame, CbRegister, CbUnregister, CbJoin
<1> QED  BY <1>2, <1>3, <1>4, <1>5 DEF Binder

\* The worker outside its query, and the kernel, leave the report and what it says
\* of the settings alone.
LEMMA OthersReport ==
    ASSUME LInv, (WorkerNext /\ ~Query(Worker)) \/ Kernel
    PROVE  /\ UNCHANGED Reported
           /\ pc'[Worker] \notin QuerySection \/ pc' = pc
           /\ \A u \in BinderThreads : pc'[u] = pc[u] /\ call'[u] = call[u]
<1> USE DEF Step, QuerySection, Go, Reported, reports, request, members, settings
<1>1. Worker \in Threads /\ pc \in [Threads -> BinderSteps \cup WorkerSteps]
  BY DEF Threads, LInv, TInv, TypeOK, PcTypeOK
<1>2. CASE WorkerNext /\ ~Query(Worker)
  <2>1. \A u \in BinderThreads : pc'[u] = pc[u] /\ call'[u] = call[u]
    BY <1>2, WorkerSpares DEF LInv
  <2>2. CASE WStart \/ WLoop \/ WEnter \/ WPartnerUp \/ WTryLock \/ WDrpCheck \/ Drp(Worker)
    BY <1>1, <2>1, <2>2 DEF WStart, WLoop, WEnter, WPartnerUp, WTryLock,
       WDrpCheck, WorkerExits, WorkerFrame, RoleLockOnly, Drp
  <2>4. CASE WRecv
    <3>1. Head(uevents) \in Uevents
      BY <2>4 DEF WRecv, LInv, TInv, TypeOK, KernelTypeOK
    <3>2. pc'[Worker] \in {"partnerUp", "qLock", "loop"}
      BY <1>1, <2>4, <3>1 DEF WRecv, Uevents
    <3> QED  BY <1>1, <2>1, <2>4, <3>2 DEF WRecv
  <2>3. CASE WSignal
    BY <1>1, <2>1, <2>3 DEF WSignal
  <2> QED  BY <1>2, <2>2, <2>3, <2>4 DEF WorkerNext
<1>3. CASE Kernel
  BY <1>3 DEF Kernel
<1> QED  BY <1>2, <1>3

\* The calls that write a setting or the callback are the only ones, outside their
\* query, that change what a report is made of.
LEMMA ReportedWriters ==
    ASSUME NEW t \in BinderThreads, Begin(t) \/ Binder(t), ~Query(t),
           ~EdSet(t), ~LpWrite(t), ~SetCallbackCall(t)
    PROVE  UNCHANGED Reported
<1> USE DEF Step, Reported, reports, members, settings
<1>1. CASE SwitchRole(t) \/ Drp(t)
  BY <1>1 DEF SwitchRole, RsLock, RsWrite, RsRead, SmOpen, SmLock, SmWrite, CondTimeout,
     CondSpurious, SmWake, Drp, WakeOnly, RoleLockOnly, PcOnly
<1>2. CASE Begin(t) \/ RpWrite(t) \/ EcWrite(t) \/ Reply(t)
  BY <1>2 DEF Begin, RpWrite, EcWrite, Reply, NodeFrame
<1>3. CASE EdRead(t) \/ EdPull(t) \/ EdData(t)
  BY <1>3 DEF EdRead, EdPull, EdData, PcOnly, NodeFrame
<1> QED  BY <1>1, <1>2, <1>3 DEF Binder, EnableUsbData

\* What each read of a query leaves in the report, and where it leads.
LEMMA ScanReads ==
    ASSUME LInv, NEW t \in Threads, QScan(t)
    PROVE  /\ pc[t] = "qScan" /\ pc'[t] = IF partner THEN "qPower" ELSE "qMember"
           /\ status'.connected = partner /\ status'.heard = listening
           /\ status'.result = "none" /\ status'.power = "none" /\ status'.data = "none"
           /\ ~status'.limited /\ status'.contaminant = "DISABLED"
<1>1. pc \in [Threads -> BinderSteps \cup WorkerSteps]
  BY DEF LInv, TInv, TypeOK, PcTypeOK
<1> QED  BY <1>1 DEF QScan, Step, Go, NoStatus

SameBut(fields) == \A f \in DOMAIN NoStatus \ fields : status'[f] = status[f]

LEMMA RoleReads ==
    ASSUME LInv, NEW t \in Threads
    PROVE  /\ QPower(t) =>
                 /\ pc[t] = "qPower" /\ SameBut({"power", "result"})
                 /\ \/ /\ pc'[t] = "qData"
                       /\ status'.power = roles.powerRole /\ status'.result = status.result
                    \/ pc'[t] = "qMoisture" /\ status'.result = "ERROR" /\ "role_read" \in Faulty
           /\ QData(t) =>
                 /\ pc[t] = "qData" /\ SameBut({"data", "result"})
                 /\ \/ /\ pc'[t] = "qMode"
                       /\ status'.data = roles.dataRole /\ status'.result = status.result
                    \/ pc'[t] = "qMoisture" /\ status'.result = "ERROR" /\ "role_read" \in Faulty
           /\ QMode(t) =>
                 /\ pc[t] = "qMode" /\ SameBut({"result"})
                 /\ \/ pc'[t] = "qMember" /\ status' = status
                    \/ /\ pc'[t] = "qMoisture" /\ status'.result = "ERROR"
                       /\ "role_read" \in Faulty \/ ~partner
<1> USE DEF NextRole, Go, Outcome
<1>1. pc \in [Threads -> BinderSteps \cup WorkerSteps]
  BY DEF LInv, TInv, TypeOK, PcTypeOK
<1>2. DOMAIN status = DOMAIN NoStatus /\ {"power", "data", "result"} \subseteq DOMAIN status
  BY DEF LInv, TInv, TypeOK, ReportTypeOK, Status, NoStatus
<1>4. CASE QPower(t)
  <2>1. PICK read \in Outcome("role_read") :
           /\ NextRole(t, read, "qData")
           /\ status' = IF read THEN [status EXCEPT !.power = roles.powerRole]
                        ELSE [status EXCEPT !.result = "ERROR"]
    BY <1>4 DEF QPower
  <2> QED  BY <1>1, <1>2, <1>4, <2>1 DEF QPower, SameBut, QData, QMode
<1>5. CASE QData(t)
  <2>1. PICK read \in Outcome("role_read") :
           /\ NextRole(t, read, "qMode")
           /\ status' = IF read THEN [status EXCEPT !.data = roles.dataRole]
                        ELSE [status EXCEPT !.result = "ERROR"]
    BY <1>5 DEF QData
  <2> QED  BY <1>1, <1>2, <1>5, <2>1 DEF QData, SameBut, QPower, QMode
<1>6. CASE QMode(t)
  <2>1. PICK read \in Outcome("role_read") :
           /\ NextRole(t, partner /\ read, "qMember")
           /\ status' = IF partner /\ read THEN status ELSE [status EXCEPT !.result = "ERROR"]
    BY <1>6 DEF QMode
  <2> QED  BY <1>1, <1>2, <1>6, <2>1 DEF QMode, SameBut, QPower, QData
<1> QED  BY <1>4, <1>5, <1>6

LEMMA SettingReads ==
    ASSUME LInv, NEW t \in Threads
    PROVE  /\ QMember(t) =>
                 /\ pc[t] = "qMember" /\ pc'[t] = "qMoisture" /\ SameBut({"result", "usbData"})
                 /\ status'.result = "SUCCESS"
                 /\ status'.usbData = IF mUsbDataEnabled THEN "ENABLED" ELSE "DISABLED_FORCE"
           /\ QMoisture(t) =>
                 /\ pc[t] = "qMoisture" /\ status' = status
                 /\ \/ pc'[t] = "qDetected" /\ moistureEnabled
                    \/ pc'[t] = "qLimit" /\ (~moistureEnabled \/ "moisture_read" \in Faulty)
           /\ QDetected(t) =>
                 /\ pc[t] = "qDetected" /\ pc'[t] = "qLimit" /\ SameBut({"contaminant"})
                 /\ \/ status'.contaminant = IF detected THEN "DETECTED" ELSE "NOT_DETECTED"
                    \/ status' = status /\ "moisture_read" \in Faulty
           /\ QLimit(t) =>
                 /\ pc[t] = "qLimit" /\ pc'[t] = "qNotify" /\ SameBut({"limited"})
                 /\ \/ status'.limited = sinkLimit
                    \/ status' = status /\ "sink_limit_read" \in Faulty
<1> USE DEF Step, Go, Outcome
<1>1. pc \in [Threads -> BinderSteps \cup WorkerSteps]
  BY DEF LInv, TInv, TypeOK, PcTypeOK
<1>2. /\ DOMAIN status = DOMAIN NoStatus
      /\ {"result", "usbData", "contaminant", "limited"} \subseteq DOMAIN status
  BY DEF LInv, TInv, TypeOK, ReportTypeOK, Status, NoStatus
<1>3. CASE QMember(t)
  BY <1>1, <1>2, <1>3 DEF QMember, SameBut, QMoisture, QDetected, QLimit
<1>4. CASE QMoisture(t)
  <2>1. PICK read \in Outcome("moisture_read") :
           Go(t, IF read /\ moistureEnabled THEN "qDetected" ELSE "qLimit")
    BY <1>4 DEF QMoisture
  <2> QED  BY <1>1, <1>4, <2>1 DEF QMoisture, PcOnly, reports, QMember, QDetected, QLimit
<1>5. CASE QDetected(t)
  <2>1. PICK read \in Outcome("moisture_read") :
           status' = IF ~read THEN status
                     ELSE [status EXCEPT !.contaminant =
                              IF detected THEN "DETECTED" ELSE "NOT_DETECTED"]
    BY <1>5 DEF QDetected
  <2> QED  BY <1>1, <1>2, <1>5, <2>1 DEF QDetected, SameBut, QMember, QMoisture, QLimit
<1>6. CASE QLimit(t)
  <2>1. PICK read \in Outcome("sink_limit_read") :
           status' = IF read THEN [status EXCEPT !.limited = sinkLimit] ELSE status
    BY <1>6 DEF QLimit
  <2> QED  BY <1>1, <1>2, <1>6, <2>1 DEF QLimit, SameBut, QMember, QMoisture, QDetected
<1> QED  BY <1>3, <1>4, <1>5, <1>6
------------------------------------------------------------------------------
(* What the framework knows of the settings                                *)

\* A thread that has changed a setting and still has to read it for its own query,
\* and one that still has to deliver that query.
DataAhead(t) ==
    /\ call[t].op = "enableUsbData"
    /\ pc[t] \in {"reply", "qLock", "qScan", "qPower", "qData", "qMode", "qMember"}
DataUntold(t) == call[t].op = "enableUsbData" /\ pc[t] \in {"reply"} \cup QuerySteps
LimitUntold(t) == call[t].op = "limitPowerTransfer" /\ pc[t] \in QuerySteps

DataSaid(s) == mUsbDataEnabled = (s.usbData = "ENABLED")
LimitSaid(s) == sinkLimit = s.limited \/ ("sink_limit_read" \in Faulty /\ ~s.limited)

\* The steps of a query before mUsbDataEnabled is read, and those after.
BeforeMember == {"qPower", "qData", "qMode", "qMember"}
AfterMember == {"qMoisture", "qDetected", "qLimit", "qNotify"}

\* Without a callback nothing has been told; what has been told is what is set, or
\* somebody is about to tell it; so is what has been read for the next report.
SettingsInv ==
    /\ mCallback = NoCallback => view = NoStatus
    /\ view.result = "SUCCESS" => DataSaid(view) \/ \E t \in BinderThreads : DataUntold(t)
    /\ view.result # "none" => LimitSaid(view) \/ \E t \in BinderThreads : LimitUntold(t)
    /\ \A u \in Threads :
          /\ pc[u] \in AfterMember /\ status.result = "SUCCESS" =>
                DataSaid(status) \/ \E t \in BinderThreads : DataAhead(t)
          /\ pc[u] \in BeforeMember => status.result = "none"
          /\ pc[u] \in BeforeMember \cup (AfterMember \ {"qNotify"}) => ~status.limited
          /\ pc[u] = "qNotify" => LimitSaid(status)

\* A step that leaves the reports alone and lets nobody forget to tell.
LEMMA KeepSettings ==
    ASSUME SettingsInv, UNCHANGED Reported,
           \A t \in BinderThreads : (DataAhead(t) => DataAhead(t)')
                                    /\ (DataUntold(t) => DataUntold(t)')
                                    /\ (LimitUntold(t) => LimitUntold(t)'),
           \A u \in Threads : pc'[u] \in BeforeMember \cup AfterMember => pc'[u] = pc[u]
    PROVE  SettingsInv'
BY DEF SettingsInv, Reported, DataSaid, LimitSaid, AfterMember

\* The query of a thread, and what the others do not notice of it.
LEMMA QueryMoves ==
    ASSUME LInv, NEW t \in Threads, Query(t)
    PROVE  /\ \A u \in Threads \ {t} : pc'[u] = pc[u] /\ pc[u] \notin QuerySection
           /\ \A u \in BinderThreads \ {t} : call'[u] = call[u]
           /\ UNCHANGED <<mCallback, mUsbDataEnabled, kernel>> /\ UNCHANGED settings
           /\ ~QNotify(t) => view' = view /\ call' = call
           /\ pc[t] \in QuerySteps
           /\ t \in BinderThreads \cup {Worker}
<1> USE DEF reports, request
<1>1. /\ pc \in [Threads -> BinderSteps \cup WorkerSteps]
      /\ call \in [BinderThreads -> Calls \cup {NoCall}] /\ TypeOK
  BY DEF LInv, TInv, TypeOK, PcTypeOK, RequestTypeOK
<1>2. \A u \in Threads \ {t} : pc[u] \notin QuerySection
  <2>1. CASE QLock(t)
    BY <2>1, ThreadAssumption DEF QLock, Step, LInv, LockInv, QueryLocked, Threads
  <2>2. CASE ~QLock(t)
    <3>1. pc[t] \in QuerySection
      BY <2>2, ReadSteps DEF Query, QNotify, QuerySection
    <3> QED  BY <3>1, OneQuery DEF QueryLocked
  <2> QED  BY <2>1, <2>2
<1>3. /\ \A u \in Threads \ {t} : pc'[u] = pc[u]
      /\ UNCHANGED <<mCallback, mUsbDataEnabled, kernel>>
      /\ pc[t] \in QuerySteps
  BY <1>1, QueryFrame
<1>4. /\ UNCHANGED settings
      /\ ~QNotify(t) => view' = view /\ call' = call
  BY ReadSteps DEF Query, QLock, QNotify, StatusOnly
<1>5. \A u \in BinderThreads \ {t} : call'[u] = call[u]
  BY <1>1, <1>4 DEF QNotify, Return
<1> QED  BY <1>2, <1>3, <1>4, <1>5 DEF Threads

LEMMA QuerySettings ==
    ASSUME LInv, SettingsInv, NEW t \in Threads, Query(t)
    PROVE  SettingsInv'
<1> USE DEF QuerySection, QuerySteps, DataAhead, DataUntold, LimitUntold, BeforeMember, AfterMember
<1>1. /\ \A u \in Threads \ {t} : pc'[u] = pc[u] /\ pc[u] \notin QuerySection
      /\ \A u \in BinderThreads \ {t} : call'[u] = call[u]
      /\ UNCHANGED <<mCallback, mUsbDataEnabled, sinkLimit>>
      /\ ~QNotify(t) => view' = view /\ call' = call
  BY QueryMoves DEF settings
<1>2. /\ pc \in [Threads -> BinderSteps \cup WorkerSteps]
      /\ status \in Status /\ BinderThreads \subseteq Threads
      /\ mUsbDataEnabled \in BOOLEAN /\ sinkLimit \in BOOLEAN
  BY DEF LInv, TInv, TypeOK, PcTypeOK, ReportTypeOK, MemberTypeOK, SettingTypeOK, Threads
<1>3. ASSUME pc'[t] \in QuerySection, pc[t] \in QuerySteps, call' = call
      PROVE  /\ \A u \in BinderThreads : DataUntold(u) => DataUntold(u)'
             /\ \A u \in BinderThreads : LimitUntold(u) => LimitUntold(u)'
             /\ (\/ pc[t] # "qMember" /\ pc'[t] \in BeforeMember \cup {"qScan"}
                 \/ pc[t] \in AfterMember)
                => \A u \in BinderThreads : DataAhead(u) => DataAhead(u)'
  BY <1>1, <1>2, <1>3
<1>4. ASSUME NEW step \in QuerySection, pc'[t] = step, pc[t] \in QuerySteps, ~QNotify(t),
             \/ pc[t] # "qMember" /\ step \in BeforeMember \cup {"qScan"}
             \/ pc[t] \in AfterMember
             \/ status'.result # "SUCCESS" \/ DataSaid(status'),
             step \in AfterMember /\ status'.result = "SUCCESS" =>
                \/ pc[t] \in AfterMember /\ status'.usbData = status.usbData
                                         /\ status.result = "SUCCESS"
                \/ mUsbDataEnabled = (status'.usbData = "ENABLED"),
             step \in BeforeMember => status'.result = "none",
             step \in BeforeMember \cup (AfterMember \ {"qNotify"}) => ~status'.limited,
             step = "qNotify" => sinkLimit = status'.limited
                                    \/ ("sink_limit_read" \in Faulty /\ ~status'.limited)
      PROVE  SettingsInv'
  BY <1>1, <1>3, <1>4 DEF SettingsInv, DataSaid, LimitSaid
<1>5. CASE QLock(t)
  <2>1. pc[t] = "qLock" /\ pc'[t] = "qScan" /\ ~QNotify(t)
    BY <1>2, <1>5 DEF QLock, QNotify, Step, Go
  <2> QED  BY <1>4, <2>1
<1>6. CASE QScan(t)
  <2>1. /\ pc[t] = "qScan" /\ pc'[t] \in {"qPower", "qMember"} /\ ~QNotify(t)
        /\ status'.result = "none" /\ ~status'.limited
    BY <1>2, <1>6, ScanReads DEF QNotify
  <2> QED  BY <1>4, <2>1
<1>7. CASE QPower(t) \/ QData(t) \/ QMode(t)
  <2>1. pc[t] \in {"qPower", "qData", "qMode"} /\ SameBut({"power", "data", "result"})
    BY <1>7, RoleReads DEF SameBut
  <2>2. ~QNotify(t) /\ status.result = "none" /\ ~status.limited /\ status'.limited = status.limited
    BY <2>1 DEF QNotify, SettingsInv, SameBut, NoStatus
  <2>3. \/ pc'[t] \in {"qData", "qMode", "qMember"} /\ status'.result = "none"
        \/ pc'[t] = "qMoisture" /\ status'.result = "ERROR"
    BY <1>7, <2>2, RoleReads
  <2> QED  BY <1>4, <2>1, <2>2, <2>3
<1>8. CASE QMember(t)
  <2>1. /\ pc[t] = "qMember" /\ pc'[t] = "qMoisture" /\ ~QNotify(t)
        /\ mUsbDataEnabled = (status'.usbData = "ENABLED") /\ status'.limited = status.limited
    BY <1>2, <1>8, SettingReads DEF QNotify, SameBut, NoStatus
  <2> QED  BY <1>1, <1>4, <2>1 DEF SettingsInv, DataSaid
<1>9. CASE QMoisture(t) \/ QDetected(t) \/ QLimit(t)
  <2>1. /\ pc[t] \in {"qMoisture", "qDetected", "qLimit"} /\ ~QNotify(t)
        /\ SameBut({"contaminant", "limited"})
        /\ pc'[t] \in {"qDetected", "qLimit", "qNotify"}
        /\ pc'[t] = "qNotify" => QLimit(t)
        /\ pc'[t] # "qNotify" => status'.limited = status.limited
    BY <1>9, SettingReads DEF QNotify, SameBut, NoStatus
  <2>2. status'.result = status.result /\ status'.usbData = status.usbData /\ ~status.limited
    BY <2>1 DEF SameBut, NoStatus, SettingsInv
  <2>3. QLimit(t) => sinkLimit = status'.limited
                        \/ ("sink_limit_read" \in Faulty /\ ~status'.limited)
    BY <2>2, SettingReads
  <2> QED  BY <1>4, <2>1, <2>2, <2>3
<1>10. CASE QNotify(t)
  <2>1. /\ pc[t] = "qNotify" /\ pc'[t] \notin QuerySection
        /\ view' = IF mCallback # NoCallback THEN status ELSE view
    BY <1>2, <1>10 DEF QNotify, Return, Go
  <2>2. \A u \in BinderThreads : DataAhead(u) => DataUntold(u)'
    BY <1>1, <1>2, <2>1
  <2>3. CASE mCallback = NoCallback
    <3>1. view' = NoStatus /\ NoStatus.result = "none"
      BY <2>1, <2>3 DEF SettingsInv, NoStatus
    <3> QED  BY <1>1, <2>1, <2>3, <3>1 DEF SettingsInv
  <2>4. CASE mCallback # NoCallback
    BY <1>1, <2>1, <2>2, <2>4 DEF SettingsInv, DataSaid, LimitSaid
  <2> QED  BY <2>3, <2>4
<1> QED  BY <1>5, <1>6, <1>7, <1>8, <1>9, <1>10 DEF Query, QueryReads

LEMMA CallSettings ==
    ASSUME LInv, SettingsInv, NEW t \in BinderThreads, Begin(t) \/ Binder(t), ~Query(t)
    PROVE  SettingsInv'
<1> USE DEF Step, Go, reports, members, settings, request, QuerySection, QuerySteps,
            DataAhead, DataUntold, LimitUntold, BeforeMember, AfterMember
<1>1. \A u \in BinderThreads \ {t} : pc'[u] = pc[u] /\ call'[u] = call[u]
  BY OthersStay DEF LInv
<1>2. /\ pc'[t] \notin QuerySection /\ pc[t] \notin QuerySteps /\ status' = status
      /\ pc[t] = "reply" /\ call[t].op = "enableUsbData" => pc'[t] = "qLock" /\ call'[t] = call[t]
  BY OutsideQuery, QueryStepsOnly
<1>3. /\ \A u \in BinderThreads : DataAhead(u) => DataAhead(u)'
      /\ \A u \in BinderThreads : DataUntold(u) => DataUntold(u)'
      /\ \A u \in BinderThreads : LimitUntold(u) => LimitUntold(u)'
  BY <1>1, <1>2
<1>4. /\ t # Worker /\ t \in Threads
      /\ pc \in [Threads -> BinderSteps \cup WorkerSteps]
  BY ThreadAssumption DEF Threads, LInv, TInv, TypeOK, PcTypeOK
<1>5. \A u \in Threads : pc'[u] \in BeforeMember \cup AfterMember => pc'[u] = pc[u]
  <2>1. CASE SetCallbackCall(t)
    <3>1. pc'[Worker] \in {pc[Worker], "start"}
      BY <1>4, <2>1 DEF SetCallbackCall, CbSame, CbRegister, CbUnregister, CbJoin, Return, Threads
    <3> QED  BY <1>1, <1>2, <3>1 DEF Threads
  <2>2. CASE ~SetCallbackCall(t)
    <3>1. pc'[Worker] = pc[Worker]
      BY <2>2, WorkerStays DEF LInv
    <3> QED  BY <1>1, <1>2, <3>1 DEF Threads
  <2> QED  BY <2>1, <2>2
<1>6. CASE EdSet(t)
  <2>1. /\ UNCHANGED <<mCallback, sinkLimit, view>>
        /\ pc[t] = "edSet" /\ pc'[t] = "reply" /\ call' = call
    BY <1>4, <1>6 DEF EdSet
  <2>2. call[t].op = "enableUsbData"
    BY <2>1 DEF LInv, TInv, CallInv, CallFits, DataSteps
  <2>3. DataAhead(t)' /\ DataUntold(t)'
    BY <2>1, <2>2
  <2> QED  BY <1>2, <1>3, <1>5, <2>1, <2>3 DEF SettingsInv, LimitSaid
<1>7. CASE LpWrite(t)
  <2>1. /\ UNCHANGED <<mCallback, mUsbDataEnabled, view>>
        /\ pc[t] = "lpWrite" /\ pc'[t] = "qLock" /\ call' = call /\ mLock = NoThread
    BY <1>4, <1>7 DEF LpWrite, NodeFrame
  <2>2. call[t].op = "limitPowerTransfer"
    BY <2>1 DEF LInv, TInv, CallInv, CallFits
  <2>3. LimitUntold(t)'
    BY <2>1, <2>2
  <2>4. \A u \in Threads : pc[u] \notin QuerySection
    BY <2>1, OneQuery
  <2> QED  BY <1>2, <1>3, <1>5, <2>1, <2>3, <2>4 DEF SettingsInv, DataSaid, LimitSaid
<1>8. CASE SetCallbackCall(t)
  <2>1. /\ UNCHANGED <<mUsbDataEnabled, sinkLimit>>
        /\ UNCHANGED <<view, mCallback>> \/ view' = NoStatus
    BY <1>8 DEF SetCallbackCall, CbSame, CbRegister, CbUnregister, CbJoin, SetCallback
  <2>2. NoStatus.result = "none"
    BY DEF NoStatus
  <2>3. CASE view' = NoStatus
    BY <1>2, <1>3, <1>5, <2>1, <2>2, <2>3 DEF SettingsInv, DataSaid, LimitSaid
  <2>4. CASE UNCHANGED <<view, mCallback>>
    BY <1>2, <1>3, <1>5, <2>1, <2>4 DEF SettingsInv, DataSaid, LimitSaid
  <2> QED  BY <2>1, <2>3, <2>4
<1>9. CASE ~EdSet(t) /\ ~LpWrite(t) /\ ~SetCallbackCall(t)
  <2>1. UNCHANGED Reported
    BY <1>9, ReportedWriters
  <2> QED  BY <1>3, <1>5, <2>1, KeepSettings
<1> QED  BY <1>6, <1>7, <1>8, <1>9

LEMMA StepSettings ==
    ASSUME LInv, SettingsInv, [Next]_vars
    PROVE  SettingsInv'
<1> USE DEF DataAhead, DataUntold, LimitUntold
<1>1. CASE UNCHANGED vars
  BY <1>1, KeepSettings DEF vars, Reported, members, settings, reports, request
<1>2. CASE (WorkerNext /\ ~Query(Worker)) \/ Kernel
  <2>1. /\ UNCHANGED Reported
        /\ pc'[Worker] \notin QuerySection \/ pc' = pc
        /\ \A u \in BinderThreads : pc'[u] = pc[u] /\ call'[u] = call[u]
    BY <1>2, OthersReport
  <2> QED  BY <2>1, KeepSettings DEF Threads, QuerySection, BeforeMember, AfterMember
<1>3. CASE WorkerNext /\ Query(Worker)
  BY <1>3, QuerySettings DEF Threads
<1>4. CASE Crash
  <2>1. /\ mCallback' = NoCallback /\ view' = NoStatus
        /\ \A u \in Threads : pc'[u] \in {"dead", "idle"}
    BY <1>4 DEF Crash
  <2>2. NoStatus.result = "none"
    BY DEF NoStatus
  <2> QED  BY <2>1, <2>2 DEF SettingsInv, BeforeMember, AfterMember
<1>5. ASSUME NEW t \in BinderThreads, Begin(t) \/ Binder(t)
      PROVE  SettingsInv'
  BY <1>5, QuerySettings, CallSettings DEF Threads
<1> QED  BY <1>1, <1>2, <1>3, <1>4, <1>5 DEF Next

LEMMA InitSettings == Started => SettingsInv
<1>1. NoStatus.result = "none"
  BY DEF NoStatus
<1>2. Started => view = NoStatus /\ \A u \in Threads : pc[u] \in {"dead", "idle"}
  BY DEF Started, HalInit
<1> QED  BY <1>1, <1>2 DEF SettingsInv, BeforeMember, AfterMember

\* A callback that has been told a status knows what mUsbDataEnabled and the sink
\* limit are; only a call that changed them and has its own query under way is
\* ahead of it (Usb.cpp:99, :246), and only a sink limit that could not be read is
\* told as none while it is set (Usb.cpp:636), however many threads serve calls,
\* whatever fails, and across callbacks that are replaced and processes that die.
THEOREM SettingsAreFresh == Spec => []SettingsFresh
<1>1. Init => SettingsInv
  BY InitStarted, InitSettings
<1>2. LInv /\ SettingsInv /\ [Next]_vars => SettingsInv'
  BY StepSettings
<1>3. SettingsInv => SettingsFresh
  BY DEF SettingsInv, SettingsFresh, DataSaid, LimitSaid, DataUntold, LimitUntold
<1> QED  BY <1>1, <1>2, <1>3, AlwaysLInv, PTL DEF Spec
------------------------------------------------------------------------------
(* What the framework knows of the port                                    *)

\* The worker has been told of a change, or is on its way to read what has changed.
Pending ==
    \/ \E i \in DOMAIN uevents : uevents[i] # "other"
    \/ pc[Worker] \in {"partnerUp", "qLock", "qScan"}

Scanned == QuerySection \ {"qScan"}

PowerNow == IF partner THEN roles.powerRole ELSE "none"
DataNow == IF partner THEN roles.dataRole ELSE "none"
Toggled(T) == \E t \in T : call[t].op = "enableContaminantPresenceDetection"

\* What a report says, as far as the nodes could be read; T are the calls that may
\* have switched the detection of moisture since.
RolesTold(s) ==
    IF s.result = "SUCCESS" THEN s.power = PowerNow /\ s.data = DataNow
                            ELSE "role_read" \in Faulty /\ partner
ContaminantTold(s, T) ==
    \/ s.contaminant = Contaminant
    \/ "moisture_read" \in Faulty /\ s.contaminant = "DISABLED"
    \/ Toggled(T)

\* What the query of u has read so far is the state of the port.
StatusFresh(u) ==
    /\ pc[u] \in Scanned => status.connected = partner
    /\ pc[u] \in {"qData", "qMode", "qMember"} => status.power = PowerNow
    /\ pc[u] \in {"qMode", "qMember"} => status.data = DataNow
    /\ pc[u] \in AfterMember => RolesTold(status)
    /\ pc[u] = "qDetected" => moistureEnabled \/ Toggled(BinderThreads \ {u})
    /\ pc[u] \in {"qLimit", "qNotify"} => ContaminantTold(status, BinderThreads \ {u})

\* So is what the callback was told.
ViewFresh ==
    view.connected = partner /\ RolesTold(view) /\ ContaminantTold(view, BinderThreads)

\* A query is up to date, and so is what the callback was told, unless a message
\* that says otherwise waits or has just been received.  The socket is open while
\* the worker runs, and nothing is left of what was scanned before it was opened.
PortInv ==
    /\ listening <=> pc[Worker] \notin {"dead", "start"}
    /\ status.heard => \E u \in Threads : pc[u] \in Scanned
    /\ pc[Worker] = "start" => ~view.heard /\ ~status.heard
    /\ \A u \in Threads :
          /\ pc[u] \in {"qPower", "qData", "qMode"} => status.connected
          /\ pc[u] \in BeforeMember \cup {"qMoisture", "qDetected"} =>
                status.contaminant = "DISABLED"
    /\ listening /\ ~Pending =>
          /\ status.heard => \A u \in Threads : StatusFresh(u)
          /\ view.heard /\ pc[Worker] \notin QuerySteps => ViewFresh

\* The kernel announces every change of the port to an open socket.
LEMMA Announced ==
    ASSUME LInv, Kernel \/ (\E t \in BinderThreads : RsWrite(t)),
           <<partner, roles, detected>>' # <<partner, roles, detected>>
    PROVE  listening' = listening /\ (listening => Pending')
<1>1. listening' = listening
  BY DEF Kernel, KernelNext, PartnerAttach, PartnerDetach, RoleChange, MoistureChange,
     OtherUevent, RsWrite
<1>2. Broadcast("partnerAdd") \/ Broadcast("typec")
  BY DEF Kernel, KernelNext, PartnerAttach, PartnerDetach, RoleChange, MoistureChange,
     OtherUevent, RsWrite, Swap
<1>3. uevents \in Seq(Uevents)
  BY DEF LInv, TInv, TypeOK, KernelTypeOK
<1>4. ASSUME listening
      PROVE  Pending'
  <2>1. PICK u \in {"partnerAdd", "typec"} : uevents' = Append(uevents, u)
    BY <1>2, <1>4 DEF Broadcast
  <2>2. Len(uevents) + 1 \in DOMAIN uevents' /\ uevents'[Len(uevents) + 1] = u
    BY <1>3, <2>1 DEF Uevents
  <2> QED  BY <2>1, <2>2 DEF Pending
<1> QED  BY <1>1, <1>4

\* A message that says the port has changed is not lost while the socket is open:
\* it waits, or it brings the worker to its query.
LEMMA Waits ==
    ASSUME LInv, uevents' = uevents \/ (\E u \in Uevents : Broadcast(u)),
           \E i \in DOMAIN uevents : uevents[i] # "other"
    PROVE  Pending'
<1>1. uevents \in Seq(Uevents)
  BY DEF LInv, TInv, TypeOK, KernelTypeOK
<1>2. PICK i \in DOMAIN uevents : uevents[i] # "other"
  OBVIOUS
<1>3. i \in DOMAIN uevents' /\ uevents'[i] = uevents[i]
  <2>1. CASE uevents' = uevents
    BY <2>1
  <2>2. ASSUME NEW u \in Uevents, Broadcast(u)
        PROVE  i \in DOMAIN uevents' /\ uevents'[i] = uevents[i]
    BY <1>1, <2>2 DEF Broadcast
  <2> QED  BY <2>1, <2>2
<1> QED  BY <1>2, <1>3 DEF Pending

LEMMA Received ==
    ASSUME LInv, "overflow" \notin Faulty, WRecv, Pending
    PROVE  Pending'
<1>1. uevents \in Seq(Uevents) /\ uevents # <<>> /\ pc[Worker] = "epoll" /\ Worker \in DOMAIN pc
  BY DEF WRecv, LInv, TInv, TypeOK, KernelTypeOK, PcTypeOK, Threads
<1>2. PICK i \in DOMAIN uevents : uevents[i] # "other"
  BY <1>1 DEF Pending
<1>3. CASE Head(uevents) # "other"
  <2>1. Head(uevents) \in {"partnerAdd", "typec"}
    BY <1>1, <1>3 DEF Uevents
  <2>2. pc'[Worker] \in {"partnerUp", "qLock"}
    BY <1>1, <2>1 DEF WRecv, Go
  <2> QED  BY <2>2 DEF Pending
<1>4. CASE Head(uevents) = "other"
  <2>1. i - 1 \in DOMAIN uevents' /\ uevents'[i - 1] = uevents[i]
    BY <1>1, <1>2, <1>4 DEF WRecv
  <2> QED  BY <1>2, <2>1 DEF Pending
<1> QED  BY <1>3, <1>4

\* Where the worker is in the life of its socket, before and after a query.
LEMMA QueryOfWorker ==
    ASSUME LInv, NEW t \in Threads, Query(t)
    PROVE  /\ pc'[Worker] \in {"dead", "start"} <=> pc[Worker] \in {"dead", "start"}
           /\ pc'[Worker] = "start" <=> pc[Worker] = "start"
           /\ UNCHANGED <<kernel, moistureEnabled>>
           /\ pc[t] \in QuerySteps
           /\ ~QScan(t) => Pending' = Pending
           /\ ~QNotify(t) => (pc'[Worker] \in QuerySteps <=> pc[Worker] \in QuerySteps)
           /\ t # Worker => pc'[Worker] = pc[Worker]
<1> USE DEF QuerySteps, QuerySection
<1>1. pc \in [Threads -> BinderSteps \cup WorkerSteps] /\ Worker \in Threads /\ TypeOK
  BY DEF LInv, TInv, TypeOK, PcTypeOK, Threads
<1>2. t # Worker => pc'[Worker] = pc[Worker]
  BY <1>1, QueryMoves
<1>3. UNCHANGED <<kernel, moistureEnabled>> /\ pc[t] \in QuerySteps
  BY QueryMoves DEF settings
<1>4. ASSUME t = Worker
      PROVE  /\ pc[t] \in QuerySteps /\ pc'[t] \in QuerySteps \cup {"tryLock"}
             /\ ~QScan(t) => (pc'[t] = "qScan" <=> pc[t] = "qLock") /\ pc[t] # "qScan"
             /\ ~QNotify(t) => pc'[t] \in QuerySteps
             /\ pc'[t] # "qLock"
  <2>1. CASE QLock(t)
    BY <1>1, <2>1 DEF QLock, Step, Go, QScan
  <2>2. CASE QNotify(t)
    BY <1>1, <1>4, <2>2 DEF QNotify, Go
  <2>3. CASE QueryReads(t)
    <3>1. pc[t] \in QuerySection \ {"qNotify"} /\ pc'[t] \in QuerySection \ {"qScan"}
      BY <1>1, <2>3, ReadSteps DEF Go
    <3>2. ~QScan(t) => pc[t] # "qScan"
      BY <2>3 DEF QueryReads, QPower, QData, QMode, QMember, QMoisture, QDetected, QLimit, Step
    <3> QED  BY <3>1, <3>2
  <2> QED  BY <2>1, <2>2, <2>3 DEF Query
<1>5. ~QScan(t) => Pending' = Pending
  BY <1>2, <1>3, <1>4 DEF Pending, kernel
<1> QED  BY <1>2, <1>3, <1>4, <1>5

LEMMA QueryPort ==
    ASSUME LInv, SettingsInv, PortInv, NEW t \in Threads, Query(t)
    PROVE  PortInv'
<1> USE DEF QuerySteps, QuerySection, Scanned, kernel, PowerNow, DataNow, Contaminant, Toggled,
            BeforeMember, AfterMember
<1>1. /\ \A u \in Threads \ {t} : pc'[u] = pc[u] /\ pc[u] \notin QuerySection
      /\ \A u \in BinderThreads \ {t} : call'[u] = call[u]
      /\ ~QNotify(t) => view' = view /\ call' = call
  BY QueryMoves
<1>2. /\ pc \in [Threads -> BinderSteps \cup WorkerSteps]
      /\ status \in Status /\ BinderThreads \subseteq Threads /\ Worker \in Threads
      /\ partner \in BOOLEAN /\ listening \in BOOLEAN
  BY DEF LInv, TInv, TypeOK, PcTypeOK, ReportTypeOK, KernelTypeOK, Threads
<1>3. /\ pc'[Worker] \in {"dead", "start"} <=> pc[Worker] \in {"dead", "start"}
      /\ pc'[Worker] = "start" <=> pc[Worker] = "start"
      /\ UNCHANGED <<kernel, moistureEnabled>>
      /\ ~QScan(t) => Pending' = Pending
      /\ ~QNotify(t) => (pc'[Worker] \in QuerySteps <=> pc[Worker] \in QuerySteps)
      /\ t # Worker => pc'[Worker] = pc[Worker]
  BY QueryOfWorker
<1>4. ASSUME ~QNotify(t)
      PROVE  /\ (listening /\ ~Pending /\ view.heard /\ pc[Worker] \notin QuerySteps => ViewFresh)
                => (listening /\ ~Pending /\ view.heard /\ pc[Worker] \notin QuerySteps => ViewFresh)'
  <2>1. ViewFresh' = ViewFresh
    BY <1>1, <1>3, <1>4 DEF ViewFresh, RolesTold, ContaminantTold
  <2>2. CASE t = Worker
    BY <1>3, <1>4, <2>2, QueryOfWorker
  <2>3. CASE t # Worker
    <3>1. Pending' = Pending
      BY <1>3, <2>3 DEF Pending
    <3> QED  BY <1>1, <1>3, <1>4, <2>1, <3>1
  <2> QED  BY <2>2, <2>3
<1>5. ASSUME ~QNotify(t), ~QScan(t), pc'[t] \in Scanned, pc[t] \in QuerySection,
             status'.heard = status.heard,
             pc[t] = "qScan" \/ pc[t] \in Scanned,
             pc'[t] \in {"qPower", "qData", "qMode"} => status'.connected,
             pc'[t] \in BeforeMember \cup {"qMoisture", "qDetected"} =>
                status'.contaminant = "DISABLED",
             listening /\ ~Pending /\ StatusFresh(t) => StatusFresh(t)'
      PROVE  PortInv'
  <2>1. \A u \in Threads \ {t} : pc'[u] \notin QuerySection
    BY <1>1
  <2>2. listening /\ ~Pending /\ status.heard => \A u \in Threads : StatusFresh(u)'
    BY <1>5, <2>1 DEF PortInv, StatusFresh
  <2>3. pc[Worker] = "start" => ~status.heard
    BY DEF PortInv
  <2> QED  BY <1>1, <1>2, <1>3, <1>4, <1>5, <2>1, <2>2, <2>3 DEF PortInv
<1>6. CASE QLock(t)
  <2>1. pc[t] = "qLock" /\ pc'[t] = "qScan" /\ status' = status /\ ~QNotify(t) /\ ~QScan(t)
    BY <1>2, <1>6 DEF QLock, QNotify, QScan, Step, Go, reports
  <2>2. ~status.heard
    BY <1>1, <2>1 DEF PortInv
  <2> QED  BY <1>1, <1>3, <1>4, <2>1, <2>2 DEF PortInv
<1>7. CASE QScan(t)
  <2>1. /\ pc[t] = "qScan" /\ pc'[t] = IF partner THEN "qPower" ELSE "qMember"
        /\ ~QNotify(t)
        /\ status'.connected = partner /\ status'.heard = listening
        /\ status'.power = "none" /\ status'.data = "none" /\ status'.contaminant = "DISABLED"
    BY <1>2, <1>7, ScanReads DEF QNotify
  <2>2. \A u \in Threads : StatusFresh(u)'
    BY <1>1, <1>3, <2>1 DEF StatusFresh
  <2> QED  BY <1>1, <1>2, <1>3, <1>4, <2>1, <2>2 DEF PortInv
<1>8. CASE QPower(t) \/ QData(t) \/ QMode(t)
  <2>1. /\ pc[t] \in {"qPower", "qData", "qMode"} /\ ~QNotify(t) /\ ~QScan(t)
        /\ pc'[t] \in {"qData", "qMode", "qMember", "qMoisture"}
        /\ SameBut({"power", "data", "result"})
    BY <1>8, RoleReads DEF QNotify, QScan, Step, SameBut
  <2>2. /\ status'.heard = status.heard /\ status'.connected = status.connected
        /\ status'.contaminant = status.contaminant
        /\ status.connected /\ status.contaminant = "DISABLED"
    BY <2>1 DEF SameBut, NoStatus, PortInv
  <2>3. ASSUME StatusFresh(t)
        PROVE  StatusFresh(t)'
    <3>1. partner
      BY <2>1, <2>2, <2>3 DEF StatusFresh
    <3>2. CASE pc'[t] = "qMoisture"
      <4>1. status'.result = "ERROR" /\ "role_read" \in Faulty
        BY <1>8, <3>1, <3>2, RoleReads
      <4> QED  BY <1>3, <2>2, <3>1, <3>2, <4>1 DEF StatusFresh, RolesTold
    <3>3. CASE QPower(t) /\ pc'[t] # "qMoisture"
      <4>1. pc'[t] = "qData" /\ status'.power = roles.powerRole
        BY <3>3, RoleReads
      <4> QED  BY <1>3, <2>2, <3>1, <4>1 DEF StatusFresh
    <3>4. CASE QData(t) /\ pc'[t] # "qMoisture"
      <4>1. /\ pc[t] = "qData" /\ pc'[t] = "qMode" /\ status'.data = roles.dataRole
            /\ status'.power = status.power
        BY <3>4, RoleReads DEF SameBut, NoStatus
      <4> QED  BY <1>3, <2>2, <2>3, <3>1, <4>1 DEF StatusFresh
    <3>5. CASE QMode(t) /\ pc'[t] # "qMoisture"
      <4>1. pc[t] = "qMode" /\ pc'[t] = "qMember" /\ status' = status
        BY <3>5, RoleReads
      <4> QED  BY <1>3, <2>3, <4>1 DEF StatusFresh
    <3> QED  BY <1>8, <3>2, <3>3, <3>4, <3>5
  <2> QED  BY <1>5, <2>1, <2>2, <2>3
<1>9. CASE QMember(t)
  <2>1. /\ pc[t] = "qMember" /\ pc'[t] = "qMoisture" /\ ~QNotify(t) /\ ~QScan(t)
        /\ status'.result = "SUCCESS"
        /\ status'.connected = status.connected /\ status'.heard = status.heard
        /\ status'.power = status.power /\ status'.data = status.data
        /\ status'.contaminant = status.contaminant
    BY <1>9, SettingReads DEF QNotify, QScan, Step, SameBut, NoStatus
  <2>2. StatusFresh(t) => StatusFresh(t)'
    BY <1>3, <2>1 DEF StatusFresh, RolesTold
  <2>3. status.contaminant = "DISABLED"
    BY <2>1 DEF PortInv
  <2> QED  BY <1>5, <2>1, <2>2, <2>3
<1>10. CASE QMoisture(t)
  <2>1. /\ pc[t] = "qMoisture" /\ status' = status /\ ~QNotify(t) /\ ~QScan(t)
        /\ \/ pc'[t] = "qDetected" /\ moistureEnabled
           \/ pc'[t] = "qLimit" /\ (~moistureEnabled \/ "moisture_read" \in Faulty)
    BY <1>10, SettingReads DEF QNotify, QScan, Step
  <2>2. status.contaminant = "DISABLED"
    BY <2>1 DEF PortInv
  <2>3. StatusFresh(t) => StatusFresh(t)'
    BY <1>3, <2>1, <2>2 DEF StatusFresh, RolesTold, ContaminantTold
  <2> QED  BY <1>5, <2>1, <2>2, <2>3
<1>11. CASE QDetected(t)
  <2>1. /\ pc[t] = "qDetected" /\ pc'[t] = "qLimit" /\ ~QNotify(t) /\ ~QScan(t)
        /\ status'.connected = status.connected /\ status'.heard = status.heard
        /\ status'.power = status.power /\ status'.data = status.data
        /\ status'.result = status.result
        /\ \/ status'.contaminant = IF detected THEN "DETECTED" ELSE "NOT_DETECTED"
           \/ status'.contaminant = status.contaminant /\ "moisture_read" \in Faulty
    BY <1>11, SettingReads DEF QNotify, QScan, Step, SameBut, NoStatus
  <2>2. status.contaminant = "DISABLED"
    BY <2>1 DEF PortInv
  <2>3. ASSUME StatusFresh(t)
        PROVE  ContaminantTold(status, BinderThreads \ {t})'
    <3>1. moistureEnabled \/ Toggled(BinderThreads \ {t})
      BY <2>1, <2>3 DEF StatusFresh
    <3>2. Toggled(BinderThreads \ {t}) => Toggled(BinderThreads \ {t})'
      BY <1>1
    <3> QED  BY <1>2, <1>3, <2>1, <2>2, <3>1, <3>2 DEF ContaminantTold
  <2>4. StatusFresh(t) => StatusFresh(t)'
    BY <1>3, <2>1, <2>3 DEF StatusFresh, RolesTold
  <2> QED  BY <1>5, <2>1, <2>2, <2>4
<1>12. CASE QLimit(t)
  <2>1. /\ pc[t] = "qLimit" /\ pc'[t] = "qNotify" /\ ~QNotify(t) /\ ~QScan(t)
        /\ status'.connected = status.connected /\ status'.heard = status.heard
        /\ status'.power = status.power /\ status'.data = status.data
        /\ status'.result = status.result /\ status'.contaminant = status.contaminant
    BY <1>12, SettingReads DEF QNotify, QScan, Step, SameBut, NoStatus
  <2>2. StatusFresh(t) => StatusFresh(t)'
    BY <1>1, <1>3, <2>1 DEF StatusFresh, RolesTold, ContaminantTold
  <2> QED  BY <1>5, <2>1, <2>2
<1>13. CASE QNotify(t)
  <2>1. /\ pc[t] = "qNotify" /\ pc'[t] \notin QuerySection /\ ~QScan(t)
        /\ view' = IF mCallback # NoCallback THEN status ELSE view
        /\ ~status'.heard
    BY <1>2, <1>13 DEF QNotify, Return, QScan, NoStatus, Step, Go
  <2>2. mCallback = NoCallback => ~view'.heard
    BY <2>1 DEF SettingsInv, NoStatus
  <2>3. ASSUME mCallback # NoCallback, listening, ~Pending, view'.heard
        PROVE  ViewFresh'
    <3>1. view' = status /\ StatusFresh(t)
      BY <2>1, <2>3 DEF PortInv
    <3>2. Toggled(BinderThreads \ {t}) => Toggled(BinderThreads)'
      BY <1>1
    <3> QED  BY <1>3, <2>1, <3>1, <3>2 DEF ViewFresh, StatusFresh, RolesTold, ContaminantTold
  <2> QED  BY <1>1, <1>3, <2>1, <2>2, <2>3 DEF PortInv
<1> QED  BY <1>6, <1>7, <1>8, <1>9, <1>10, <1>11, <1>12, <1>13 DEF Query, QueryReads

\* A step outside the queries: the port changes only with an announcement, and the
\* moisture setting only by a call that has its own query to make.
LEMMA KeepPort ==
    ASSUME PortInv, status' = status, view' = view \/ ~view'.heard,
           \A u \in Threads :
              pc'[u] \in QuerySection \/ pc[u] \in QuerySection => pc'[u] = pc[u],
           listening' <=> pc'[Worker] \notin {"dead", "start"},
           pc'[Worker] = "start" => pc[Worker] = "start" \/ (~view'.heard /\ ~status.heard),
           listening' => listening \/ pc[Worker] = "start",
           listening /\ listening' =>
              \/ Pending'
              \/ /\ ~Pending
                 /\ UNCHANGED <<partner, roles, detected>>
                 /\ pc'[Worker] \notin QuerySteps => pc[Worker] \notin QuerySteps,
           \A t \in BinderThreads :
              call[t].op = "enableContaminantPresenceDetection" => call'[t].op = call[t].op,
           \/ moistureEnabled' = moistureEnabled
           \/ \E t \in BinderThreads :
                 /\ call[t].op = "enableContaminantPresenceDetection"
                 /\ t \in Threads /\ pc[t] \notin QuerySection
    PROVE  PortInv'
<1> USE DEF Scanned, PowerNow, DataNow, Toggled, BeforeMember, AfterMember
<1>1. ASSUME NEW T \in {BinderThreads} \cup {BinderThreads \ {u} : u \in Threads}, Toggled(T)
      PROVE  Toggled(T)'
  BY <1>1
<1>2. CASE ~(listening /\ listening') \/ Pending'
  <2>1. listening' /\ ~Pending' => ~view'.heard /\ ~status'.heard
    BY <1>2 DEF PortInv
  <2> QED  BY <2>1 DEF PortInv, QuerySection
<1>3. CASE listening /\ listening' /\ ~Pending'
  <2>1. /\ ~Pending /\ UNCHANGED <<partner, roles, detected>>
        /\ pc'[Worker] \notin QuerySteps => pc[Worker] \notin QuerySteps
    BY <1>3
  <2>2. ASSUME NEW u \in Threads, StatusFresh(u)
        PROVE  StatusFresh(u)'
    <3>1. pc'[u] \in QuerySection => pc[u] = pc'[u]
      OBVIOUS
    <3>2. CASE moistureEnabled' = moistureEnabled
      BY <1>1, <2>1, <2>2, <3>1, <3>2
         DEF StatusFresh, RolesTold, ContaminantTold, Contaminant, QuerySection
    <3>3. CASE moistureEnabled' # moistureEnabled
      <4>1. PICK t \in BinderThreads : /\ call[t].op = "enableContaminantPresenceDetection"
                                       /\ t \in Threads /\ pc[t] \notin QuerySection
        BY <3>3
      <4>2. call'[t].op = "enableContaminantPresenceDetection"
        BY <4>1
      <4>3. pc'[u] \in QuerySection => Toggled(BinderThreads \ {u})'
        BY <3>1, <4>1, <4>2
      <4> QED  BY <2>1, <2>2, <3>1, <4>3 DEF StatusFresh, RolesTold, ContaminantTold, QuerySection
    <3> QED  BY <3>2, <3>3
  <2>3. ASSUME ViewFresh, view' = view
        PROVE  ViewFresh'
    <3>1. CASE moistureEnabled' = moistureEnabled
      BY <1>1, <2>1, <2>3, <3>1 DEF ViewFresh, RolesTold, ContaminantTold, Contaminant
    <3>2. CASE moistureEnabled' # moistureEnabled
      BY <2>1, <2>3, <3>2 DEF ViewFresh, RolesTold, ContaminantTold
    <3> QED  BY <3>1, <3>2
  <2>4. status'.heard => \A u \in Threads : StatusFresh(u)'
    BY <1>3, <2>1, <2>2 DEF PortInv
  <2>5. view'.heard /\ pc'[Worker] \notin QuerySteps => ViewFresh'
    BY <1>3, <2>1, <2>3 DEF PortInv
  <2> QED  BY <1>3, <2>4, <2>5 DEF PortInv, QuerySection
<1> QED  BY <1>2, <1>3

\* A thread that serves no call has none.
IdleInv == \A t \in BinderThreads : pc[t] = "idle" => call[t] = NoCall

LEMMA StepIdle ==
    ASSUME LInv, IdleInv, [Next]_vars
    PROVE  IdleInv'
<1> USE DEF Step, Go, request, Return
<1>1. /\ pc \in [Threads -> BinderSteps \cup WorkerSteps]
      /\ call \in [BinderThreads -> Calls \cup {NoCall}]
      /\ BinderThreads \subseteq Threads /\ Worker \notin BinderThreads
  BY ThreadAssumption DEF LInv, TInv, TypeOK, PcTypeOK, RequestTypeOK, Threads
<1>2. CASE UNCHANGED vars \/ Kernel
  BY <1>2 DEF vars, Kernel, IdleInv
<1>3. CASE Crash
  BY <1>3 DEF Crash, IdleInv
<1>4. CASE WorkerNext
  BY <1>4, WorkerSpares DEF LInv, IdleInv
<1>5. ASSUME NEW t \in BinderThreads, Begin(t) \/ Binder(t)
      PROVE  IdleInv'
  <2>1. \A u \in BinderThreads \ {t} : pc'[u] = pc[u] /\ call'[u] = call[u]
    BY <1>5, OthersStay DEF LInv
  <2>2. t \in DOMAIN pc /\ t \in DOMAIN call /\ t # Worker
    BY <1>1
  <2>3. pc'[t] = "idle" => call'[t] = NoCall
    <3>1. CASE Query(t)
      <4>1. pc'[t] = "idle" => QNotify(t)
        BY <2>2, <3>1, ReadSteps DEF Query, QLock, QuerySection, Threads
      <4> QED  BY <2>2, <4>1 DEF QNotify
    <3>2. CASE SwitchRole(t) \/ Drp(t)
      BY <1>1, <2>2, <3>2 DEF SwitchRole, RsLock, RsWrite, RsRead, SmOpen, SmLock, SmWrite,
         CondTimeout, CondSpurious, SmWake, WakeOnly, Drp
    <3>3. CASE Begin(t)
      <4>1. PICK c \in Calls : pc' = [pc EXCEPT ![t] = FirstStep[c.op]]
        BY <3>3 DEF Begin
      <4>2. FirstStep[c.op] # "idle"
        BY CallFields DEF FirstStep
      <4> QED  BY <2>2, <4>1, <4>2
    <3>4. CASE EnableUsbData(t) \/ RpWrite(t) \/ LpWrite(t) \/ EcWrite(t) \/ Reply(t)
      BY <2>2, <3>4 DEF EnableUsbData, EdRead, EdPull, EdData, EdSet, RpWrite, LpWrite, EcWrite,
         Reply
    <3>5. CASE SetCallbackCall(t)
      BY <2>2, <3>5 DEF SetCallbackCall, CbSame, CbRegister, CbUnregister, CbJoin
    <3> QED  BY <1>5, <3>1, <3>2, <3>3, <3>4, <3>5 DEF Binder
  <2> QED  BY <2>1, <2>3 DEF IdleInv
<1> QED  BY <1>2, <1>3, <1>4, <1>5 DEF Next

\* What a call does to the port and to the socket outside its query.
LEMMA CallTouches ==
    ASSUME LInv, IdleInv, NEW t \in BinderThreads, Begin(t) \/ Binder(t), ~Query(t)
    PROVE  /\ listening' = listening
           /\ uevents' = uevents \/ (RsWrite(t) /\ Broadcast("typec"))
           /\ UNCHANGED <<partner, roles, detected>> \/ RsWrite(t)
           /\ UNCHANGED moistureEnabled \/ EcWrite(t)
           /\ UNCHANGED <<view, mCallback>> \/ (SetCallbackCall(t) /\ view' = NoStatus)
           /\ call[t].op = "enableContaminantPresenceDetection" => call'[t].op = call[t].op
<1> USE DEF Step, Go, reports, request, kernel, settings, members
<1>1. /\ call \in [BinderThreads -> Calls \cup {NoCall}]
      /\ CallFits(call[t], pc[t]) /\ pc[t] \notin QuerySteps
      /\ pc[t] = "idle" => call[t].op = "none"
  BY QueryStepsOnly DEF LInv, TInv, TypeOK, RequestTypeOK, CallInv, IdleInv, NoCall
<1>2. CASE SwitchRole(t) /\ ~RsWrite(t)
  BY <1>2 DEF SwitchRole, RsLock, RsRead, SmOpen, SmLock, SmWrite, CondTimeout,
     CondSpurious, SmWake, WakeOnly, RoleLockOnly, PcOnly
<1>3. CASE RsWrite(t)
  BY <1>3 DEF RsWrite, Swap
<1>4. CASE EnableUsbData(t) \/ RpWrite(t) \/ LpWrite(t) \/ EcWrite(t) \/ Drp(t)
  BY <1>4 DEF EnableUsbData, EdRead, EdPull, EdData, EdSet, RpWrite, LpWrite, EcWrite, PcOnly,
     NodeFrame, Drp
<1>5. CASE Reply(t)
  BY <1>1, <1>5 DEF Reply, Return
<1>6. CASE SetCallbackCall(t)
  <2>1. call[t].op = "setCallback"
    BY <1>1, <1>6 DEF SetCallbackCall, CbSame, CbRegister, CbUnregister, CbJoin, CallFits
  <2> QED
    BY <1>6, <2>1 DEF SetCallbackCall, CbSame, CbRegister, CbUnregister, CbJoin, SetCallback, Return
<1>7. CASE Begin(t)
  BY <1>1, <1>7 DEF Begin
<1> QED  BY <1>2, <1>3, <1>4, <1>5, <1>6, <1>7 DEF Binder

\* setCallback() finds no worker when it starts one.
LEMMA NoWorkerLeft ==
    ASSUME LInv, mCallback = NoCallback, mLock = NoThread
    PROVE  pc[Worker] = "dead"
<1>1. \A u \in BinderThreads : pc[u] # "cbJoin"
  BY ThreadAssumption DEF LInv, LockInv, QueryLocked, Threads
<1> QED  BY <1>1 DEF LInv, WorkerServesCallback

LEMMA CallPort ==
    ASSUME LInv, IdleInv, PortInv, NEW t \in BinderThreads, Begin(t) \/ Binder(t), ~Query(t)
    PROVE  PortInv'
<1>1. /\ pc \in [Threads -> BinderSteps \cup WorkerSteps]
      /\ t \in Threads /\ Worker \in Threads /\ t # Worker
  BY ThreadAssumption DEF LInv, TInv, TypeOK, PcTypeOK, Threads
<1>2. /\ listening' = listening
      /\ uevents' = uevents \/ (RsWrite(t) /\ Broadcast("typec"))
      /\ UNCHANGED <<partner, roles, detected>> \/ RsWrite(t)
      /\ UNCHANGED moistureEnabled \/ EcWrite(t)
      /\ UNCHANGED <<view, mCallback>> \/ (SetCallbackCall(t) /\ view' = NoStatus)
      /\ call[t].op = "enableContaminantPresenceDetection" => call'[t].op = call[t].op
  BY CallTouches
<1>3. /\ status' = status
      /\ pc'[t] \notin QuerySection /\ pc[t] \notin QuerySection
  BY OutsideQuery, QueryStepsOnly DEF QuerySteps
<1>4. \A u \in BinderThreads \ {t} : pc'[u] = pc[u] /\ call'[u] = call[u]
  BY OthersStay DEF LInv
<1>5. pc'[Worker] = pc[Worker] \/ (CbRegister(t) /\ pc'[Worker] = "start")
  <2>1. CASE SetCallbackCall(t)
    BY <1>1, <2>1 DEF SetCallbackCall, CbSame, CbRegister, CbUnregister, CbJoin, Return, Go
  <2>2. CASE ~SetCallbackCall(t)
    BY <2>2, WorkerStays DEF LInv
  <2> QED  BY <2>1, <2>2
<1>6. CbRegister(t) => /\ pc[Worker] = "dead" /\ ~view'.heard /\ ~status.heard
                       /\ \A u \in Threads : pc[u] \notin QuerySection
  <2> SUFFICES ASSUME CbRegister(t)
               PROVE  /\ pc[Worker] = "dead" /\ ~view'.heard /\ ~status.heard
                      /\ \A u \in Threads : pc[u] \notin QuerySection
    OBVIOUS
  <2>1. mLock = NoThread /\ mCallback = NoCallback /\ view' = NoStatus
    BY DEF CbRegister, SetCallback
  <2>2. \A u \in Threads : pc[u] \notin QuerySection
    BY <2>1, OneQuery
  <2> QED  BY <2>1, <2>2, NoWorkerLeft DEF PortInv, Scanned, NoStatus
<1>7. view' = view \/ ~view'.heard
  BY <1>2 DEF NoStatus
<1>8. EcWrite(t) => call[t].op = "enableContaminantPresenceDetection"
  BY DEF EcWrite, Step, LInv, TInv, CallInv, CallFits
<1>9. ASSUME listening
      PROVE  \/ Pending'
             \/ ~Pending /\ UNCHANGED <<partner, roles, detected>>
  <2>1. pc'[Worker] = pc[Worker]
    BY <1>5, <1>6, <1>9 DEF PortInv
  <2>2. uevents' = uevents \/ \E u \in Uevents : Broadcast(u)
    BY <1>2 DEF Uevents
  <2>3. Pending => Pending'
    BY <2>1, <2>2, Waits DEF Pending
  <2>4. <<partner, roles, detected>>' # <<partner, roles, detected>> => Pending'
    BY <1>2, <1>9, Announced
  <2> QED  BY <2>3, <2>4
<1>10. \A u \in Threads :
          pc'[u] \in QuerySection \/ pc[u] \in QuerySection => pc'[u] = pc[u]
  BY <1>3, <1>4, <1>5, <1>6 DEF Threads, QuerySection
<1>11. /\ listening' <=> pc'[Worker] \notin {"dead", "start"}
       /\ pc'[Worker] = "start" => pc[Worker] = "start" \/ (~view'.heard /\ ~status.heard)
       /\ listening => pc'[Worker] = pc[Worker]
  BY <1>2, <1>5, <1>6 DEF PortInv
<1>12. \A u \in BinderThreads :
          call[u].op = "enableContaminantPresenceDetection" => call'[u].op = call[u].op
  BY <1>2, <1>4
<1> QED  BY <1>1, <1>2, <1>3, <1>7, <1>8, <1>9, <1>10, <1>11, <1>12, KeepPort

\* The worker outside its query, and the kernel.
LEMMA WorkerPort ==
    ASSUME LInv, PortInv, "overflow" \notin Faulty, (WorkerNext /\ ~Query(Worker)) \/ Kernel
    PROVE  PortInv'
<1> USE DEF Step, Go, kernel, settings, reports
<1>1. /\ pc \in [Threads -> BinderSteps \cup WorkerSteps] /\ Worker \in Threads
      /\ listening \in BOOLEAN
  BY DEF LInv, TInv, TypeOK, PcTypeOK, KernelTypeOK, Threads
<1>2. /\ status' = status /\ view' = view
      /\ \A u \in BinderThreads : pc'[u] = pc[u] /\ call'[u] = call[u]
  BY OthersReport DEF Reported
<1>3. /\ moistureEnabled' = moistureEnabled
      /\ pc'[Worker] \in QuerySection \/ pc[Worker] \in QuerySection => pc'[Worker] = pc[Worker]
      /\ listening' <=> pc'[Worker] \notin {"dead", "start"}
      /\ pc'[Worker] = "start" => pc[Worker] = "start"
      /\ listening' => listening \/ pc[Worker] = "start"
      /\ listening /\ listening' =>
            \/ Pending'
            \/ /\ ~Pending
               /\ UNCHANGED <<partner, roles, detected>>
               /\ pc'[Worker] \notin QuerySteps => pc[Worker] \notin QuerySteps
  <2>1. CASE Kernel
    <3>1. pc' = pc /\ moistureEnabled' = moistureEnabled
      BY <2>1 DEF Kernel
    <3>2. listening' = listening /\ \E u \in Uevents : Broadcast(u)
      BY <2>1 DEF Kernel, KernelNext, PartnerAttach, PartnerDetach, RoleChange, MoistureChange,
         OtherUevent, Swap, Uevents
    <3>3. Pending => Pending'
      BY <3>1, <3>2, Waits DEF Pending
    <3>4. listening /\ <<partner, roles, detected>>' # <<partner, roles, detected>> => Pending'
      BY <2>1, Announced
    <3> QED  BY <3>1, <3>2, <3>3, <3>4 DEF PortInv
  <2>2. CASE WStart
    BY <1>1, <2>2 DEF WStart, WorkerExits, WorkerFrame, QuerySection, PortInv
  <2>3. CASE WLoop \/ WEnter
    BY <1>1, <2>3 DEF WLoop, WEnter, WorkerExits, WorkerFrame, QuerySection, QuerySteps, PortInv,
       Pending
  <2>4. CASE WSignal
    BY <1>1, <2>4 DEF WSignal, QuerySection, QuerySteps, PortInv, Pending
  <2>5. CASE WRecv
    <3>1. Head(uevents) \in Uevents
      BY <2>5 DEF WRecv, LInv, TInv, TypeOK, KernelTypeOK
    <3>2. /\ pc[Worker] = "epoll" /\ pc'[Worker] \in {"partnerUp", "qLock", "loop"}
          /\ UNCHANGED <<partner, roles, detected, listening, moistureEnabled>>
      BY <1>1, <2>5, <3>1 DEF WRecv, Uevents
    <3>3. Pending => Pending'
      BY <2>5, Received
    <3> QED  BY <3>2, <3>3 DEF QuerySection, QuerySteps, PortInv
  <2>6. CASE WPartnerUp
    BY <1>1, <2>6 DEF WPartnerUp, QuerySection, PortInv, Pending
  <2>7. CASE WTryLock \/ WDrpCheck \/ Drp(Worker)
    BY <1>1, <2>7 DEF WTryLock, WDrpCheck, Drp, RoleLockOnly, QuerySection, QuerySteps, PortInv,
       Pending
  <2> QED  BY <2>1, <2>2, <2>3, <2>4, <2>5, <2>6, <2>7 DEF WorkerNext
<1>4. \A u \in Threads :
         pc'[u] \in QuerySection \/ pc[u] \in QuerySection => pc'[u] = pc[u]
  BY <1>2, <1>3 DEF Threads
<1> QED  BY <1>2, <1>3, <1>4, KeepPort

LEMMA StepPort ==
    ASSUME LInv, SettingsInv, IdleInv, PortInv, "overflow" \notin Faulty, [Next]_vars
    PROVE  PortInv'
<1>1. CASE UNCHANGED vars
  BY <1>1 DEF vars, PortInv, Pending, StatusFresh, ViewFresh, RolesTold, ContaminantTold,
     PowerNow, DataNow, Toggled, Contaminant, reports, kernel, settings, request
<1>2. CASE (WorkerNext /\ ~Query(Worker)) \/ Kernel
  BY <1>2, WorkerPort
<1>3. CASE WorkerNext /\ Query(Worker)
  BY <1>3, QueryPort DEF Threads
<1>4. CASE Crash
  <2>1. /\ ~listening' /\ status' = NoStatus
        /\ \A u \in Threads : pc'[u] \in {"dead", "idle"}
        /\ pc'[Worker] = "dead"
    BY <1>4 DEF Crash, Threads
  <2> QED  BY <2>1 DEF PortInv, NoStatus, BeforeMember
<1>5. ASSUME NEW t \in BinderThreads, Begin(t) \/ Binder(t)
      PROVE  PortInv'
  BY <1>5, QueryPort, CallPort DEF Threads
<1> QED  BY <1>1, <1>2, <1>3, <1>4, <1>5 DEF Next

LEMMA InitPort == Started => IdleInv /\ PortInv
<1>1. Started => /\ view = NoStatus /\ status = NoStatus /\ ~listening
                 /\ call = [t \in BinderThreads |-> NoCall]
                 /\ pc[Worker] = "dead"
                 /\ \A u \in Threads : pc[u] \in {"dead", "idle"}
  BY DEF Started, HalInit, KernelInit, Threads
<1> QED  BY <1>1 DEF IdleInv, PortInv, NoStatus, BeforeMember

LEMMA PortInvFresh == PortInv => PortFresh
  BY DEF PortInv, PortFresh, ViewFresh, RolesTold, ContaminantTold, Pending, PowerNow, DataNow, Toggled, QuerySteps,
     QuerySection

\* Whenever the worker has handled every message and waits for the next, what the
\* callback was last told, if it was scanned while the worker listened, is the
\* state of the port: no query of a binder thread that scanned earlier is delivered
\* later (Usb.cpp:513), and an error met in the middle of a detach is corrected.
\* Nodes that cannot be read leave ERROR, for a role (Usb.cpp:493), or DISABLED, for
\* moisture (Usb.cpp:219), and nothing older.
THEOREM PortIsFresh == Spec => []PortFresh
<1>1. CASE "overflow" \in Faulty
  <2>1. PortFresh
    BY <1>1 DEF PortFresh
  <2> QED  BY <2>1, PTL
<1>2. CASE "overflow" \notin Faulty
  <2>1. Init => IdleInv /\ SettingsInv /\ PortInv
    BY InitStarted, InitSettings, InitPort
  <2>2. LInv /\ IdleInv /\ SettingsInv /\ PortInv /\ [Next]_vars
           => (IdleInv /\ SettingsInv /\ PortInv)'
    BY <1>2, StepIdle, StepSettings, StepPort
  <2>3. PortInv => PortFresh
    BY PortInvFresh
  <2> QED  BY <2>1, <2>2, <2>3, AlwaysLInv, PTL DEF Spec
<1> QED  BY <1>1, <1>2
------------------------------------------------------------------------------
(* What does not depend on the UDC node                                    *)

\* The invariants above.  None of them speaks of pullup, so that they also hold
\* where the gadget HAL writes it (UsbStack).
HalInv ==
    /\ LInv /\ WaitInv /\ SettingsInv /\ IdleInv
    /\ "port_type" \notin Faulty => ModeInv
    /\ "overflow" \notin Faulty => PortInv

LEMMA InitHal == Started => HalInv
  BY InitLInv, InitWaits, InitModes, InitSettings, InitPort DEF HalInv

LEMMA StepHal == HalInv /\ [Next]_vars => HalInv'
  BY StepLInv, StepWaits, StepModes, StepSettings, StepIdle, StepPort DEF HalInv

\* Somebody else binds or unbinds the gadget.
LEMMA NodeHal ==
    ASSUME HalInv, pullup' \in BOOLEAN,
           UNCHANGED <<members, locks, signals, usbData, sinkLimit, sourceLimit,
                       moistureEnabled, pc, request, reports, kernel>>
    PROVE  HalInv'
<1> USE DEF members, locks, signals, request, reports, kernel
<1>1. LInv'
  BY DEF HalInv, LInv, TInv, TypeOK, KernelTypeOK, MemberTypeOK, LockTypeOK, SignalTypeOK,
     SettingTypeOK, PcTypeOK, RequestTypeOK, ReportTypeOK, CallInv, LockInv,
     WorkerServesCallback
<1>2. WaitInv' /\ IdleInv' /\ SettingsInv'
  BY DEF HalInv, WaitInv, IdleInv, SettingsInv, DataSaid, LimitSaid, DataUntold, DataAhead,
     LimitUntold
<1>3. "port_type" \notin Faulty => ModeInv'
  BY DEF HalInv, ModeInv, SwitchingMode
<1>4. "overflow" \notin Faulty => PortInv'
  BY DEF HalInv, PortInv, Pending, StatusFresh, ViewFresh, RolesTold, ContaminantTold,
     PowerNow, DataNow, Toggled, Contaminant
<1> QED  BY <1>1, <1>2, <1>3, <1>4 DEF HalInv

LEMMA HalSafe ==
    ASSUME HalInv
    PROVE  /\ TypeOK /\ WorkerServesCallback /\ NoLostPartnerSignal
           /\ SwitchOutcome /\ SettingsFresh /\ PortFresh
<1>1. TypeOK /\ WorkerServesCallback /\ NoLostPartnerSignal
  BY DEF HalInv, LInv, TInv, WaitInv, NoLostPartnerSignal
<1>2. SwitchOutcome
  BY DEF HalInv, ModeInv, SwitchOutcome
<1>3. SettingsFresh
  BY DEF HalInv, SettingsInv, SettingsFresh, DataSaid, LimitSaid, DataUntold, LimitUntold
<1>4. PortFresh
  BY PortInvFresh DEF HalInv, PortFresh
<1> QED  BY <1>1, <1>2, <1>3, <1>4
------------------------------------------------------------------------------
(* enableUsbData                                                           *)

\* The process has one thread for the calls (usb/usb/service.cpp:27).
OneThread == \A t, u \in BinderThreads : t = u

\* Outside enableUsbData its result and its nodes are not touched, but for the
\* pullup, which resetUsbPort writes.
LEMMA OutsideEnable ==
    ASSUME LInv, NEW t \in BinderThreads, Begin(t) \/ Binder(t), ~EnableUsbData(t)
    PROVE  /\ UNCHANGED <<usbData, mUsbDataEnabled>>
           /\ pc'[t] \in DataSteps => pc'[t] = "edRead" /\ ok'[t]
           /\ pc'[t] = "reply" => call'[t].op # "enableUsbData"
<1> USE DEF Step, Go, DataSteps, settings, members, request, Return
<1>1. /\ t \in Threads /\ t # Worker /\ CallFits(call[t], pc[t])
      /\ pc \in [Threads -> BinderSteps \cup WorkerSteps]
      /\ call \in [BinderThreads -> Calls \cup {NoCall}]
      /\ ok \in [BinderThreads -> BOOLEAN]
  BY ThreadAssumption DEF LInv, TInv, TypeOK, PcTypeOK, RequestTypeOK, CallInv, Threads
<1>2. CASE Query(t)
  <2>1. UNCHANGED <<usbData, mUsbDataEnabled>>
    BY <1>1, <1>2, QueryMoves
  <2>2. pc'[t] \notin DataSteps /\ (pc'[t] = "reply" => call'[t].op = "queryPortStatus")
    <3>1. CASE QNotify(t)
      BY <1>1, <3>1 DEF QNotify
    <3>2. CASE ~QNotify(t)
      <4>1. pc'[t] \in QuerySection
        BY <1>1, <1>2, <3>2, ReadSteps DEF Query, QLock, QuerySection
      <4> QED  BY <4>1 DEF QuerySection
    <3> QED  BY <3>1, <3>2
  <2> QED  BY <2>1, <2>2
<1>3. CASE SwitchRole(t) \/ Drp(t)
  <2>1. pc[t] # "idle" /\ pc'[t] = "reply" => call[t].op = "switchRole" /\ call'[t] = call[t]
    BY <1>1, <1>3 DEF SwitchRole, RsLock, RsWrite, RsRead, SmOpen, SmLock, SmWrite, CondTimeout,
       CondSpurious, SmWake, Drp, WakeOnly, RoleLockOnly, PcOnly, CallFits, ModeSteps
  <2> QED
    BY <1>1, <1>3, <2>1 DEF SwitchRole, RsLock, RsWrite, RsRead, SmOpen, SmLock, SmWrite,
       CondTimeout, CondSpurious, SmWake, Drp, WakeOnly, RoleLockOnly, PcOnly
<1>4. CASE Begin(t)
  <2>1. PICK c \in Calls : /\ pc'[t] = FirstStep[c.op] /\ call'[t] = c
                           /\ ok'[t] = (c.op # "switchRole")
    BY <1>1, <1>4 DEF Begin
  <2>2. /\ FirstStep[c.op] \in DataSteps => c.op = "enableUsbData"
        /\ FirstStep[c.op] = "reply" => c.op # "enableUsbData"
        /\ c.op = "enableUsbData" => FirstStep[c.op] = "edRead"
    BY CallFields DEF FirstStep
  <2> QED  BY <1>4, <2>1, <2>2 DEF Begin
<1>5. CASE RpWrite(t) \/ LpWrite(t) \/ EcWrite(t) \/ Reply(t)
  BY <1>1, <1>5 DEF RpWrite, LpWrite, EcWrite, Reply, NodeFrame, CallFits
<1>6. CASE SetCallbackCall(t)
  BY <1>1, <1>6 DEF SetCallbackCall, CbSame, CbRegister, CbUnregister, CbJoin
<1> QED  BY <1>2, <1>3, <1>4, <1>5, <1>6 DEF Binder

\* A thread between the writes of enableUsbData goes on with enableUsbData.
LEMMA EnableOnly ==
    ASSUME NEW t \in BinderThreads, Begin(t) \/ Binder(t), pc[t] \in DataSteps
    PROVE  EnableUsbData(t)
<1> USE DEF Step, DataSteps
<1>1. ~Query(t)
  BY ReadSteps DEF Query, QLock, QNotify, QuerySection, Threads
<1>2. ~(SwitchRole(t) \/ Drp(t))
  BY DEF SwitchRole, RsLock, RsWrite, RsRead, SmOpen, SmLock, SmWrite, CondTimeout,
     CondSpurious, SmWake, Drp
<1>3. ~(Begin(t) \/ RpWrite(t) \/ LpWrite(t) \/ EcWrite(t) \/ Reply(t) \/ SetCallbackCall(t))
  BY DEF Begin, RpWrite, LpWrite, EcWrite, Reply, SetCallbackCall, CbSame, CbRegister,
     CbUnregister, CbJoin
<1> QED  BY <1>1, <1>2, <1>3 DEF Binder

\* The worker and the kernel touch none of it.
LEMMA OthersEnable ==
    ASSUME LInv, WorkerNext \/ Kernel
    PROVE  /\ UNCHANGED <<pullup, usbData, mUsbDataEnabled>>
           /\ \A u \in BinderThreads : pc'[u] = pc[u] /\ call'[u] = call[u] /\ ok'[u] = ok[u]
<1> USE DEF Step, settings, members, request
<1>1. CASE Kernel
  BY <1>1 DEF Kernel
<1>2. CASE WorkerNext
  <2>1. UNCHANGED <<pullup, usbData, mUsbDataEnabled>>
    BY <1>2, QueryMoves DEF WorkerNext, WStart, WLoop, WEnter, WSignal, WRecv, WPartnerUp,
       WTryLock, WDrpCheck, Drp, WorkerFrame, RoleLockOnly, Threads
  <2> QED  BY <1>2, <2>1, WorkerSpares DEF LInv
<1> QED  BY <1>1, <1>2

\* What enableUsbData has done so far, as far as its result says so.
OutcomeInv ==
    \A t \in BinderThreads :
       /\ pc[t] = "edPull" => pullup # call[t].on
       /\ pc[t] = "edData" /\ ok[t] => pullup = call[t].on
       /\ pc[t] \in {"edSet", "reply"} /\ call[t].op = "enableUsbData" /\ ok[t] =>
             usbData = call[t].on /\ pullup = call[t].on

LEMMA StepOutcome ==
    ASSUME LInv, OutcomeInv, OneThread, "UDC_read" \notin Faulty, [Next]_vars
    PROVE  OutcomeInv'
<1> USE DEF Step, Go, settings, members, request
<1>1. CASE UNCHANGED vars
  BY <1>1 DEF vars, OutcomeInv
<1>2. CASE Crash
  BY <1>2 DEF Crash, OutcomeInv, Threads
<1>3. CASE WorkerNext \/ Kernel
  BY <1>3, OthersEnable DEF OutcomeInv
<1>4. ASSUME NEW t \in BinderThreads, Begin(t) \/ Binder(t)
      PROVE  OutcomeInv'
  <2>1. /\ t \in Threads /\ t # Worker /\ BinderThreads = {t}
        /\ CallFits(call[t], pc[t])
        /\ pc \in [Threads -> BinderSteps \cup WorkerSteps]
        /\ call \in [BinderThreads -> Calls \cup {NoCall}]
        /\ ok \in [BinderThreads -> BOOLEAN]
        /\ pullup \in BOOLEAN /\ usbData \in BOOLEAN
    BY ThreadAssumption DEF LInv, TInv, TypeOK, PcTypeOK, RequestTypeOK, SettingTypeOK, CallInv,
       Threads, OneThread
  <2>2. CASE ~EnableUsbData(t)
    BY <1>4, <2>1, <2>2, OutsideEnable DEF OutcomeInv, DataSteps
  <2>3. pc[t] \in DataSteps => call[t].op = "enableUsbData" /\ call[t].on \in BOOLEAN
    BY <2>1, CallFields DEF CallFits, DataSteps
  <2>4. CASE EdRead(t)
    <3>1. pc'[t] = IF pullup # call[t].on THEN "edPull" ELSE "edData"
      BY <2>1, <2>4 DEF EdRead, Outcome
    <3> QED  BY <2>1, <2>4, <3>1 DEF OutcomeInv, EdRead, PcOnly
  <2>5. CASE EdPull(t)
    BY <2>1, <2>3, <2>5 DEF OutcomeInv, EdPull, NodeFrame, DataSteps
  <2>6. CASE EdData(t)
    BY <2>1, <2>3, <2>6 DEF OutcomeInv, EdData, NodeFrame, DataSteps
  <2>7. CASE EdSet(t)
    BY <2>1, <2>3, <2>7 DEF OutcomeInv, EdSet, DataSteps
  <2> QED  BY <2>2, <2>4, <2>5, <2>6, <2>7 DEF EnableUsbData
<1> QED  BY <1>1, <1>2, <1>3, <1>4 DEF Next

\* With one thread for the calls and a UDC node that can be read, enableUsbData
\* reports success only when the gadget is bound, or not, and usb_data_enabled is
\* set as asked (Usb.cpp:60), whatever write fails and whenever the process dies.
THEOREM EnableReportsOutcome ==
    ASSUME OneThread, "UDC_read" \notin Faulty
    PROVE  Spec => []EnableOutcome
<1>1. Init => OutcomeInv
  <2>1. Init => \A t \in BinderThreads : pc[t] = "idle"
    BY ThreadAssumption DEF Init, HalInit, Threads
  <2> QED  BY <2>1 DEF OutcomeInv
<1>2. LInv /\ OutcomeInv /\ [Next]_vars => OutcomeInv'
  BY StepOutcome
<1>3. OutcomeInv => EnableOutcome
  BY DEF OutcomeInv, EnableOutcome
<1> QED  BY <1>1, <1>2, <1>3, AlwaysLInv, PTL DEF Spec
==============================================================================
