------------------------------ MODULE Usb_proofs ------------------------------
(***************************************************************************)
(* Proofs about Usb for any number of binder threads, any callbacks, any   *)
(* set of calls, kernel events and faults.                                 *)
(***************************************************************************)
EXTENDS Usb, TLAPS

\* A thread that is on its way through a handler is there for a call of the
\* kind the handler serves.
CallFits(c, step) ==
    /\ step # "idle" => c \in Calls
    /\ step \in DataSteps => c.op = "enableUsbData"
    /\ step = "rpWrite" => c.op = "resetUsbPort"
    /\ step = "lpWrite" => c.op = "limitPowerTransfer"
    /\ step = "ecWrite" => c.op = "enableContaminantPresenceDetection"
    /\ step = "rsLock" => c.op = "switchRole"
    /\ step \in {"rsWrite", "rsRead"} => c.op = "switchRole" /\ c.tag # "mode"
    /\ step \in ModeSteps => c.op = "switchRole" /\ c.tag = "mode"
    /\ step \in {"cb", "cbJoin"} => c.op = "setCallback"

CallInv == \A t \in BinderThreads : CallFits(call[t], pc[t])

TInv == TypeOK /\ CallInv

\* What is needed of an initial state: the settings may have any value.
Started == KernelInit /\ HalInit /\ SettingTypeOK

LEMMA InitStarted == Init => Started
  BY DEF Init, Started, SettingTypeOK

\* What a call of each kind carries.
LEMMA CallFields ==
    ASSUME NEW c \in Calls
    PROVE  /\ c.op \in DOMAIN FirstStep
           /\ c.op \in {"enableUsbData", "limitPowerTransfer",
                        "enableContaminantPresenceDetection"} => c.on \in BOOLEAN
           /\ c.op = "switchRole" =>
                 c.tag \in {"dataRole", "powerRole", "mode"}
           /\ c.op = "setCallback" => c.callback \in Callbacks \cup {NoCallback}
<1>1. c \in AllCalls
  BY CallAssumption
<1>2. CASE c \in [op : {"enableUsbData", "limitPowerTransfer",
                        "enableContaminantPresenceDetection"}, on : BOOLEAN]
  BY <1>2 DEF FirstStep
<1>3. CASE c \in [op : {"enableUsbDataWhileDocked", "resetUsbPort", "queryPortStatus"}]
  BY <1>3 DEF FirstStep
<1>4. CASE c \in [op : {"setCallback"}, callback : Callbacks \cup {NoCallback}]
  BY <1>4 DEF FirstStep
<1>5. CASE c \in UNION {[op : {"switchRole"}, tag : {tag}, role : RoleWords[tag]] :
                         tag \in DOMAIN RoleWords}
  <2>1. PICK tag \in {"dataRole", "powerRole", "mode"} :
             c \in [op : {"switchRole"}, tag : {tag}, role : RoleWords[tag]]
    BY <1>5 DEF RoleWords
  <2>2. QED
    BY <2>1 DEF FirstStep
<1>6. QED
  BY <1>1, <1>2, <1>3, <1>4, <1>5 DEF AllCalls

LEMMA SwitchModeRole ==
    ASSUME NEW c \in AllCalls, c.op = "switchRole", c.tag = "mode"
    PROVE  c.role \in {"source", "sink", "none"}
<1>1. c \in UNION {[op : {"switchRole"}, tag : {tag}, role : RoleWords[tag]] :
                     tag \in DOMAIN RoleWords}
  BY DEF AllCalls
<1>2. PICK tag \in DOMAIN RoleWords :
           c \in [op : {"switchRole"}, tag : {tag}, role : RoleWords[tag]]
  BY <1>1
<1>3. tag = "mode" /\ c.role \in RoleWords[tag]
  BY <1>2
<1>4. QED
  BY <1>3 DEF RoleWords

LEMMA FirstSteps ==
    ASSUME NEW c \in Calls
    PROVE  FirstStep[c.op] \in BinderSteps /\ CallFits(c, FirstStep[c.op])
  BY CallFields DEF FirstStep, CallFits, BinderSteps, ModeSteps, DataSteps, QuerySteps

\* The steps from which nothing is owed about the call.
LEMMA CommonSteps ==
    ASSUME NEW step \in {"reply"} \cup QuerySteps
    PROVE  /\ step \in BinderSteps
           /\ \A c \in Calls : CallFits(c, step)
  BY DEF BinderSteps, CallFits, QuerySteps, QuerySection, DataSteps, ModeSteps

LEMMA IdleStep == "idle" \in BinderSteps /\ \A c : CallFits(c, "idle")
  BY DEF BinderSteps, CallFits, DataSteps, ModeSteps

\* A binder thread moves to a step its call fits.
LEMMA Move ==
    ASSUME TInv, NEW t \in BinderThreads, NEW step \in BinderSteps,
           Go(t, step), UNCHANGED call, CallFits(call[t], step)
    PROVE  PcTypeOK' /\ CallInv'
  BY ThreadAssumption DEF TInv, TypeOK, PcTypeOK, CallInv, Go, Threads

\* The worker moves.
LEMMA MoveWorker ==
    ASSUME TInv, NEW step \in WorkerSteps, Go(Worker, step), UNCHANGED call
    PROVE  PcTypeOK' /\ CallInv'
  BY ThreadAssumption DEF TInv, TypeOK, PcTypeOK, CallInv, Go, Threads

LEMMA Returns ==
    ASSUME TInv, NEW t \in BinderThreads, Return(t)
    PROVE  PcTypeOK' /\ RequestTypeOK' /\ CallInv'
  BY ThreadAssumption, IdleStep
     DEF TInv, TypeOK, PcTypeOK, RequestTypeOK, CallInv, Return, Go, Threads

\* A part of the state that does not change keeps its type.
LEMMA Frames ==
    ASSUME TInv
    PROVE  /\ UNCHANGED kernel => KernelTypeOK'
           /\ UNCHANGED members => MemberTypeOK'
           /\ UNCHANGED locks => LockTypeOK'
           /\ UNCHANGED signals => SignalTypeOK'
           /\ UNCHANGED settings => SettingTypeOK'
           /\ UNCHANGED request => RequestTypeOK'
           /\ UNCHANGED reports => ReportTypeOK'
           /\ UNCHANGED <<pc, call>> => PcTypeOK' /\ CallInv'
<1> USE DEF TInv, TypeOK
<1>1. UNCHANGED kernel => KernelTypeOK'
  BY DEF kernel, KernelTypeOK
<1>2. UNCHANGED members => MemberTypeOK'
  BY DEF members, MemberTypeOK
<1>3. UNCHANGED locks => LockTypeOK'
  BY DEF locks, LockTypeOK
<1>4. UNCHANGED signals => SignalTypeOK'
  BY DEF signals, SignalTypeOK
<1>5. UNCHANGED settings => SettingTypeOK'
  BY DEF settings, SettingTypeOK
<1>6. UNCHANGED request => RequestTypeOK'
  BY DEF request, RequestTypeOK
<1>7. UNCHANGED reports => ReportTypeOK'
  BY DEF reports, ReportTypeOK
<1>8. UNCHANGED <<pc, call>> => PcTypeOK' /\ CallInv'
  BY DEF PcTypeOK, CallInv
<1>9. QED
  BY <1>1, <1>2, <1>3, <1>4, <1>5, <1>6, <1>7, <1>8

LEMMA InitTInv == Started => TInv
<1>1. NoStatus \in Status
  BY DEF NoStatus, Status
<1>2. "idle" \in BinderSteps /\ "dead" \in WorkerSteps
  BY DEF BinderSteps, WorkerSteps
<1>3. KernelInit => KernelTypeOK
  <2>1. [dataRole |-> "device", powerRole |-> "sink"]
           \in [dataRole : RolesOf.dataRole, powerRole : RolesOf.powerRole]
    BY DEF RolesOf
  <2>2. <<>> \in Seq(Uevents) /\ "dual" \in PortTypes
    BY DEF PortTypes
  <2>3. QED
    BY <2>1, <2>2 DEF KernelInit, KernelTypeOK
<1>4. HalInit => /\ MemberTypeOK /\ LockTypeOK /\ SignalTypeOK /\ PcTypeOK
                 /\ RequestTypeOK /\ ReportTypeOK /\ CallInv
  <2> SUFFICES ASSUME HalInit
               PROVE  /\ MemberTypeOK /\ LockTypeOK /\ SignalTypeOK /\ PcTypeOK
                      /\ RequestTypeOK /\ ReportTypeOK /\ CallInv
    OBVIOUS
  <2>1. MemberTypeOK /\ LockTypeOK /\ SignalTypeOK /\ ReportTypeOK
    BY <1>1 DEF HalInit, MemberTypeOK, LockTypeOK, SignalTypeOK, ReportTypeOK
  <2>2. PcTypeOK
    BY <1>2, ThreadAssumption DEF HalInit, PcTypeOK, Threads
  <2>3. RequestTypeOK
    BY DEF HalInit, RequestTypeOK
  <2>4. CallInv
    BY IdleStep, ThreadAssumption DEF HalInit, CallInv, Threads
  <2>5. QED
    BY <2>1, <2>2, <2>3, <2>4
<1>5. QED
  BY <1>3, <1>4 DEF Started, TInv, TypeOK

LEMMA SettingsTInv ==
    ASSUME TInv, NEW t \in BinderThreads,
           Begin(t) \/ EnableUsbData(t) \/ RpWrite(t) \/ LpWrite(t) \/ EcWrite(t)
           \/ Reply(t)
    PROVE  TInv'
<1> USE Frames DEF TInv, TypeOK, Step, request
<1>1. /\ CallFits(call[t], pc[t])
      /\ pc[t] # "idle" => call[t] \in Calls
  BY DEF CallInv, CallFits
<1>2. {"edPull", "edData", "edSet"} \subseteq BinderSteps \cap DataSteps
  BY DEF BinderSteps, DataSteps
<1>3. ASSUME pc[t] \in DataSteps
      PROVE  /\ call[t] \in Calls /\ call[t].on \in BOOLEAN
             /\ \A step \in {"edPull", "edData", "edSet"} : CallFits(call[t], step)
  BY <1>1, <1>3, CallFields DEF CallFits, DataSteps, ModeSteps
<1>4. CASE Begin(t)
  BY <1>4, FirstSteps, ThreadAssumption
     DEF Begin, Go, PcTypeOK, RequestTypeOK, CallInv, Threads
<1>5. CASE EdRead(t)
  <2>1. PcTypeOK' /\ CallInv'
    BY <1>2, <1>3, <1>5, Move DEF EdRead, PcOnly, DataSteps
  <2>2. QED
    BY <1>5, <2>1 DEF EdRead, PcOnly
<1>6. CASE EdPull(t)
  <2>1. PcTypeOK' /\ CallInv'
    BY <1>2, <1>3, <1>6, Move DEF EdPull, NodeFrame, DataSteps
  <2>2. SettingTypeOK' /\ RequestTypeOK'
    BY <1>3, <1>6 DEF EdPull, NodeFrame, DataSteps, SettingTypeOK, RequestTypeOK
  <2>3. QED
    BY <1>6, <2>1, <2>2 DEF EdPull, NodeFrame
<1>7. CASE EdData(t)
  <2>1. PcTypeOK' /\ CallInv'
    BY <1>2, <1>3, <1>7, Move DEF EdData, NodeFrame, DataSteps
  <2>2. SettingTypeOK' /\ RequestTypeOK'
    BY <1>3, <1>7 DEF EdData, NodeFrame, DataSteps, SettingTypeOK, RequestTypeOK
  <2>3. QED
    BY <1>7, <2>1, <2>2 DEF EdData, NodeFrame
<1>8. CASE EdSet(t)
  <2>1. PcTypeOK' /\ CallInv'
    BY <1>3, <1>8, Move, CommonSteps DEF EdSet, DataSteps
  <2>2. MemberTypeOK'
    BY <1>3, <1>8 DEF EdSet, DataSteps, MemberTypeOK
  <2>3. QED
    BY <1>8, <2>1, <2>2 DEF EdSet
<1>9. CASE RpWrite(t)
  <2>1. PcTypeOK' /\ CallInv'
    BY <1>1, <1>9, Move, CommonSteps DEF RpWrite, NodeFrame
  <2>2. SettingTypeOK' /\ RequestTypeOK'
    BY <1>9 DEF RpWrite, NodeFrame, SettingTypeOK, RequestTypeOK
  <2>3. QED
    BY <1>9, <2>1, <2>2 DEF RpWrite, NodeFrame
<1>10. CASE LpWrite(t)
  <2>1. call[t] \in Calls /\ call[t].on \in BOOLEAN
    BY <1>1, <1>10, CallFields DEF LpWrite, CallFits
  <2>2. PcTypeOK' /\ CallInv'
    BY <1>10, <2>1, Move, CommonSteps DEF LpWrite, NodeFrame, QuerySteps
  <2>3. SettingTypeOK' /\ RequestTypeOK'
    BY <1>10, <2>1 DEF LpWrite, NodeFrame, Outcome, SettingTypeOK, RequestTypeOK
  <2>4. QED
    BY <1>10, <2>2, <2>3 DEF LpWrite, NodeFrame
<1>11. CASE EcWrite(t)
  <2>1. call[t] \in Calls /\ call[t].on \in BOOLEAN
    BY <1>1, <1>11, CallFields DEF EcWrite, CallFits
  <2>2. PcTypeOK' /\ CallInv'
    BY <1>11, <2>1, Move, CommonSteps DEF EcWrite, NodeFrame
  <2>3. SettingTypeOK' /\ RequestTypeOK'
    BY <1>11, <2>1 DEF EcWrite, NodeFrame, Outcome, SettingTypeOK, RequestTypeOK
  <2>4. QED
    BY <1>11, <2>2, <2>3 DEF EcWrite, NodeFrame
<1>12. CASE Reply(t)
  <2>1. PcTypeOK' /\ RequestTypeOK' /\ CallInv'
    BY <1>1, <1>12, Move, CommonSteps, Returns DEF Reply, QuerySteps
  <2>2. LockTypeOK'
    BY <1>12 DEF Reply, LockTypeOK
  <2>3. QED
    BY <1>12, <2>1, <2>2 DEF Reply
<1>13. QED
  BY <1>4, <1>5, <1>6, <1>7, <1>8, <1>9, <1>10, <1>11, <1>12 DEF EnableUsbData

LEMMA SwitchTInv ==
    ASSUME TInv, NEW t \in BinderThreads, SwitchRole(t)
    PROVE  TInv'
<1> USE Frames DEF TInv, TypeOK, Step, request
<1>1. /\ CallFits(call[t], pc[t])
      /\ pc[t] # "idle" => call[t] \in Calls
  BY DEF CallInv, CallFits
<1>2. ModeSteps \cup {"rsWrite", "rsRead", "reply"} \subseteq BinderSteps
  BY DEF BinderSteps, RoleSteps
<1>3. ASSUME pc[t] \in ModeSteps \cup {"rsWrite", "rsRead"}
      PROVE  call[t] \in Calls /\ CallFits(call[t], "reply")
  BY <1>1, <1>3, CommonSteps DEF ModeSteps
<1>4. ASSUME pc[t] \in ModeSteps, NEW step \in ModeSteps
      PROVE  CallFits(call[t], step)
  BY <1>1, <1>4 DEF CallFits, ModeSteps, DataSteps
<1>5. CASE RsLock(t)
  <2>1. CallFits(call[t], IF call[t].tag = "mode" THEN "smOpen" ELSE "rsWrite")
    BY <1>1, <1>5 DEF RsLock, CallFits, ModeSteps, DataSteps
  <2>2. PcTypeOK' /\ CallInv'
    BY <1>2, <1>5, <2>1, Move DEF RsLock, RoleLockOnly, ModeSteps
  <2>3. LockTypeOK'
    BY <1>5 DEF RsLock, RoleLockOnly, LockTypeOK, Threads
  <2>4. QED
    BY <1>5, <2>2, <2>3 DEF RsLock, RoleLockOnly
<1>6. CASE RsWrite(t)
  <2>1. CallFits(call[t], "rsRead")
    BY <1>1, <1>6 DEF RsWrite, CallFits, ModeSteps, DataSteps
  <2>2. PcTypeOK' /\ CallInv'
    BY <1>2, <1>3, <1>6, <2>1, Move DEF RsWrite
  <2>3. KernelTypeOK'
    <3>1. /\ call[t] \in Calls
          /\ call[t].tag \in {"dataRole", "powerRole"}
      BY <1>1, <1>6, CallFields DEF RsWrite, CallFits
    <3>2. CASE UNCHANGED <<roles, uevents>>
      BY <1>6, <3>2 DEF RsWrite, KernelTypeOK
    <3>3. CASE Swap(call[t].tag, call[t].role)
      <4>1. roles' \in [dataRole : RolesOf.dataRole, powerRole : RolesOf.powerRole]
        BY <3>1, <3>3 DEF Swap, KernelTypeOK, RolesOf
      <4>2. uevents' \in Seq(Uevents)
        BY <3>3 DEF Swap, Broadcast, KernelTypeOK, Uevents
      <4>3. QED
        BY <1>6, <4>1, <4>2 DEF RsWrite, KernelTypeOK
    <3>4. QED
      BY <1>6, <3>2, <3>3 DEF RsWrite
  <2>4. QED
    BY <1>6, <2>2, <2>3 DEF RsWrite
<1>7. CASE RsRead(t)
  <2>1. PcTypeOK' /\ CallInv'
    BY <1>2, <1>3, <1>7, Move DEF RsRead
  <2>2. RequestTypeOK'
    BY <1>7 DEF RsRead, RequestTypeOK
  <2>3. QED
    BY <1>7, <2>1, <2>2 DEF RsRead
<1>8. CASE SmOpen(t)
  <2>1. PcTypeOK' /\ CallInv'
    BY <1>2, <1>4, <1>8, Move DEF SmOpen, PcOnly, ModeSteps
  <2>2. QED
    BY <1>8, <2>1 DEF SmOpen, PcOnly
<1>9. CASE SmLock(t)
  <2>1. PcTypeOK' /\ CallInv'
    BY <1>2, <1>4, <1>9, Move DEF SmLock, ModeSteps
  <2>2. LockTypeOK' /\ MemberTypeOK'
    BY <1>9 DEF SmLock, LockTypeOK, MemberTypeOK, Threads
  <2>3. QED
    BY <1>9, <2>1, <2>2 DEF SmLock
<1>10. CASE SmWrite(t)
  <2>1. PcTypeOK' /\ CallInv'
    BY <1>2, <1>4, <1>10, Move DEF SmWrite, ModeSteps
  <2>2. LockTypeOK' /\ KernelTypeOK'
    BY <1>10 DEF SmWrite, PortTypeWritten, LockTypeOK, KernelTypeOK
  <2>3. QED
    BY <1>10, <2>1, <2>2 DEF SmWrite
<1>11. CASE CondTimeout(t) \/ CondSpurious(t)
  <2>1. RequestTypeOK'
    BY <1>11 DEF CondTimeout, CondSpurious, WakeOnly, RequestTypeOK
  <2>2. QED
    BY <1>11, <2>1 DEF CondTimeout, CondSpurious, WakeOnly
<1>12. CASE SmWake(t)
  <2>1. PcTypeOK' /\ CallInv'
    BY <1>2, <1>3, <1>4, <1>12, Move DEF SmWake, ModeSteps
  <2>2. RequestTypeOK'
    BY <1>12 DEF SmWake, RequestTypeOK
  <2>3. QED
    BY <1>12, <2>1, <2>2 DEF SmWake
<1>13. QED
  BY <1>5, <1>6, <1>7, <1>8, <1>9, <1>10, <1>11, <1>12 DEF SwitchRole

LEMMA DrpTInv ==
    ASSUME TInv, NEW t \in Threads, Drp(t)
    PROVE  TInv'
<1> USE Frames DEF TInv, TypeOK, Step
<1>1. LockTypeOK' /\ KernelTypeOK'
  BY DEF Drp, PortTypeWritten, LockTypeOK, KernelTypeOK
<1>2. CASE t = Worker
  <2>1. PcTypeOK' /\ CallInv'
    BY <1>2, MoveWorker DEF Drp, WorkerSteps, request
  <2>2. QED
    BY <1>1, <2>1 DEF Drp
<1>3. CASE t \in BinderThreads
  <2>1. call[t] \in Calls
    BY <1>3 DEF Drp, CallInv, CallFits
  <2>2. PcTypeOK' /\ CallInv'
    BY <1>3, <2>1, Move, CommonSteps, ThreadAssumption DEF Drp, request
  <2>3. QED
    BY <1>1, <2>2 DEF Drp
<1>4. QED
  BY <1>2, <1>3 DEF Threads

\* A query fills its status in field by field.
LEMMA StatusFields ==
    ASSUME NEW s \in Status
    PROVE  /\ \A a, b \in BOOLEAN : [s EXCEPT !.connected = a, !.heard = b] \in Status
           /\ \A a \in RolesOf.powerRole : [s EXCEPT !.power = a] \in Status
           /\ \A a \in RolesOf.dataRole : [s EXCEPT !.data = a] \in Status
           /\ \A a \in {"ENABLED", "DISABLED_FORCE"} :
                 [s EXCEPT !.result = "SUCCESS", !.usbData = a] \in Status
           /\ \A a \in {"DETECTED", "NOT_DETECTED"} : [s EXCEPT !.contaminant = a] \in Status
           /\ \A a \in BOOLEAN : [s EXCEPT !.limited = a] \in Status
  BY DEF Status

\* What the steps of a query between the lock and the notification touch.
LEMMA ReadSteps ==
    ASSUME NEW t \in Threads, QueryReads(t)
    PROVE  /\ pc[t] \in QuerySection \ {"qNotify"}
           /\ \E step \in QuerySection \ {"qScan"} : Go(t, step)
           /\ StatusOnly
<1> USE DEF Step, NextRole, QuerySection
<1>1. CASE QScan(t) \/ QMember(t) \/ QDetected(t) \/ QLimit(t)
  BY <1>1 DEF QScan, QMember, QDetected, QLimit
<1>2. CASE QPower(t)
  BY <1>2 DEF QPower
<1>3. CASE QData(t)
  BY <1>3 DEF QData
<1>4. CASE QMode(t)
  BY <1>4 DEF QMode
<1>5. CASE QMoisture(t)
  BY <1>5 DEF QMoisture, PcOnly, StatusOnly, reports
<1> QED  BY <1>1, <1>2, <1>3, <1>4, <1>5 DEF QueryReads

\* What a query leaves alone, and where it leads.
LEMMA QueryFrame ==
    ASSUME TypeOK, NEW t \in Threads, Query(t)
    PROVE  /\ pc[t] \in QuerySteps
           /\ pc'[t] \in QuerySteps
                        \cup (IF t = Worker THEN {"tryLock"} ELSE {"reply", "idle"})
           /\ \A u \in Threads \ {t} : pc'[u] = pc[u]
           /\ UNCHANGED <<mCallback, mUsbDataEnabled, mPartnerUp, kernel>>
           /\ UNCHANGED request \/ (t \in BinderThreads /\ pc[t] = "qNotify" /\ Return(t))
           /\ pc'[t] = "reply" => call[t].op = "queryPortStatus"
<1> USE DEF QuerySteps, QuerySection, Go
<1>1. pc \in [Threads -> BinderSteps \cup WorkerSteps]
  BY DEF TypeOK, PcTypeOK
<1>2. CASE QLock(t)
  BY <1>1, <1>2 DEF QLock, Step, members
<1>3. CASE QueryReads(t)
  <2>1. PICK step \in QuerySection : Go(t, step)
    BY <1>3, ReadSteps
  <2>2. pc[t] \in QuerySection /\ StatusOnly
    BY <1>3, ReadSteps
  <2> QED  BY <1>1, <2>1, <2>2 DEF StatusOnly, members
<1>4. CASE QNotify(t)
  <2>1. pc[t] = "qNotify" /\ UNCHANGED <<members, kernel>>
    BY <1>4 DEF QNotify
  <2>2. CASE Go(t, "tryLock") /\ t = Worker /\ UNCHANGED request
    BY <1>1, <2>1, <2>2 DEF members
  <2>3. CASE Go(t, "reply") /\ t # Worker /\ UNCHANGED request /\ call[t].op = "queryPortStatus"
    BY <1>1, <2>1, <2>3 DEF members
  <2>4. CASE Return(t) /\ t # Worker
    BY <1>1, <2>1, <2>4 DEF Return, members, Threads
  <2> QED  BY <1>4, <2>2, <2>3, <2>4 DEF QNotify
<1> QED  BY <1>2, <1>3, <1>4 DEF Query

LEMMA ReadStatus ==
    ASSUME TypeOK, NEW t \in Threads, QueryReads(t)
    PROVE  status' \in Status
<1>1. /\ status \in Status /\ NoStatus \in Status
      /\ partner \in BOOLEAN /\ listening \in BOOLEAN /\ sinkLimit \in BOOLEAN
      /\ roles.dataRole \in RolesOf.dataRole /\ roles.powerRole \in RolesOf.powerRole
  BY DEF TypeOK, ReportTypeOK, KernelTypeOK, SettingTypeOK, NoStatus, Status
<1>2. [status EXCEPT !.result = "ERROR"] \in Status
  BY <1>1 DEF Status
<1>3. CASE QScan(t)
  BY <1>1, <1>3, StatusFields DEF QScan
<1>4. CASE QPower(t)
  BY <1>1, <1>2, <1>4, StatusFields DEF QPower
<1>5. CASE QData(t)
  BY <1>1, <1>2, <1>5, StatusFields DEF QData
<1>6. CASE QMode(t)
  BY <1>1, <1>2, <1>6 DEF QMode
<1>7. CASE QMember(t)
  BY <1>1, <1>7, StatusFields DEF QMember
<1>8. CASE QMoisture(t)
  BY <1>1, <1>8 DEF QMoisture, PcOnly, reports
<1>9. CASE QDetected(t)
  BY <1>1, <1>9, StatusFields DEF QDetected
<1>10. CASE QLimit(t)
  BY <1>1, <1>10, StatusFields DEF QLimit, Outcome
<1> QED  BY <1>3, <1>4, <1>5, <1>6, <1>7, <1>8, <1>9, <1>10 DEF QueryReads

LEMMA QueryTInv ==
    ASSUME TInv, NEW t \in Threads, Query(t)
    PROVE  TInv'
<1> USE Frames DEF TInv, TypeOK, Step
<1>1. ASSUME NEW step \in QuerySteps, pc[t] \in QuerySteps, Go(t, step),
             UNCHANGED call
      PROVE  PcTypeOK' /\ CallInv'
  <2>1. CASE t = Worker
    BY <1>1, <2>1, MoveWorker DEF WorkerSteps
  <2>2. CASE t \in BinderThreads
    <3>1. call[t] \in Calls
      BY <1>1, <2>2 DEF CallInv, CallFits, QuerySteps, QuerySection
    <3>2. QED
      BY <1>1, <2>2, <3>1, Move, CommonSteps
  <2>3. QED
    BY <2>1, <2>2 DEF Threads
<1>2. {"qLock", "qScan", "qNotify"} \subseteq QuerySteps /\ QuerySection \subseteq QuerySteps
  BY DEF QuerySteps, QuerySection
<1>3. NoStatus \in Status
  BY DEF NoStatus, Status
<1>4. CASE QLock(t)
  <2>1. PcTypeOK' /\ CallInv'
    BY <1>1, <1>2, <1>4 DEF QLock, request
  <2>2. LockTypeOK'
    BY <1>4 DEF QLock, LockTypeOK
  <2>3. QED
    BY <1>4, <2>1, <2>2 DEF QLock
<1>5. CASE QueryReads(t)
  <2>1. PICK step \in QuerySection : Go(t, step)
    BY <1>5, ReadSteps
  <2>2. PcTypeOK' /\ CallInv'
    BY <1>1, <1>2, <1>5, <2>1, ReadSteps DEF StatusOnly, request
  <2>3. ReportTypeOK'
    BY <1>5, ReadSteps, ReadStatus DEF StatusOnly, ReportTypeOK
  <2>4. QED
    BY <1>5, <2>2, <2>3, ReadSteps DEF StatusOnly
<1>9. CASE QNotify(t)
  <2>1. PcTypeOK' /\ RequestTypeOK' /\ CallInv'
    <3>1. CASE t = Worker
      BY <1>9, <3>1, MoveWorker DEF QNotify, WorkerSteps, request
    <3>2. CASE t \in BinderThreads
      <4>1. call[t] \in Calls
        BY <1>9, <3>2 DEF QNotify, CallInv, CallFits
      <4>2. QED
        BY <1>9, <3>2, <4>1, Move, CommonSteps, Returns, ThreadAssumption
           DEF QNotify, request
    <3>3. QED
      BY <3>1, <3>2 DEF Threads
  <2>2. LockTypeOK' /\ ReportTypeOK'
    BY <1>3, <1>9 DEF QNotify, LockTypeOK, ReportTypeOK
  <2>3. QED
    BY <1>9, <2>1, <2>2 DEF QNotify
<1>10. QED
  BY <1>4, <1>5, <1>9 DEF Query

LEMMA CallbackTInv ==
    ASSUME TInv, NEW t \in BinderThreads, SetCallbackCall(t)
    PROVE  TInv'
<1> USE Frames, Returns DEF TInv, TypeOK
<1>1. NoStatus \in Status
  BY DEF NoStatus, Status
<1>2. ASSUME pc[t] = "cb"
      PROVE  /\ call[t].callback \in Callbacks \cup {NoCallback}
             /\ CallFits(call[t], "cbJoin")
  BY <1>2, CallFields DEF CallInv, CallFits, DataSteps, ModeSteps
<1>3. CASE CbSame(t)
  <2>1. MemberTypeOK' /\ ReportTypeOK'
    BY <1>1, <1>2, <1>3 DEF CbSame, SetCallback, MemberTypeOK, ReportTypeOK
  <2>2. QED
    BY <1>3, <2>1 DEF CbSame
<1>4. CASE CbRegister(t)
  <2>1. MemberTypeOK' /\ ReportTypeOK' /\ SignalTypeOK'
    BY <1>1, <1>2, <1>4
       DEF CbRegister, SetCallback, MemberTypeOK, ReportTypeOK, SignalTypeOK
  <2>2. PcTypeOK'
    BY <1>4, IdleStep, ThreadAssumption DEF CbRegister, PcTypeOK, Threads, WorkerSteps
  <2>3. RequestTypeOK'
    BY <1>4 DEF CbRegister, RequestTypeOK
  <2>4. CallInv'
    BY <1>4, IdleStep, ThreadAssumption
       DEF CbRegister, CallInv, PcTypeOK, RequestTypeOK, Threads
  <2>5. QED
    BY <1>4, <2>1, <2>2, <2>3, <2>4 DEF CbRegister
<1>5. CASE CbUnregister(t)
  <2>1. MemberTypeOK' /\ ReportTypeOK'
    BY <1>1, <1>5 DEF CbUnregister, SetCallback, MemberTypeOK, ReportTypeOK
  <2>2. LockTypeOK' /\ SignalTypeOK'
    BY <1>5 DEF CbUnregister, LockTypeOK, SignalTypeOK, Threads
  <2>3. PcTypeOK' /\ RequestTypeOK' /\ CallInv'
    BY <1>2, <1>5, Move DEF CbUnregister, BinderSteps, request
  <2>4. QED
    BY <1>5, <2>1, <2>2, <2>3 DEF CbUnregister
<1>6. CASE CbJoin(t)
  <2>1. LockTypeOK'
    BY <1>6 DEF CbJoin, LockTypeOK
  <2>2. QED
    BY <1>6, <2>1 DEF CbJoin
<1>7. QED
  BY <1>3, <1>4, <1>5, <1>6 DEF SetCallbackCall

LEMMA WorkerTInv ==
    ASSUME TInv, WorkerNext
    PROVE  TInv'
<1> USE Frames, MoveWorker DEF TInv, TypeOK, Step
<1>1. {"dead", "loop", "enter", "epoll", "partnerUp", "qLock", "drpCheck", "drp"}
        \subseteq WorkerSteps
  BY DEF WorkerSteps, QuerySteps
<1>2. ASSUME WorkerExits, UNCHANGED <<destroyThread, request>>
      PROVE  PcTypeOK' /\ CallInv' /\ KernelTypeOK' /\ SignalTypeOK'
  <2>1. PcTypeOK' /\ CallInv'
    BY <1>1, <1>2 DEF WorkerExits, request
  <2>2. <<>> \in Seq(Uevents)
    OBVIOUS
  <2>3. QED
    BY <1>2, <2>1, <2>2 DEF WorkerExits, KernelTypeOK, SignalTypeOK
<1>3. CASE WStart
  <2>1. PcTypeOK' /\ CallInv' /\ KernelTypeOK' /\ SignalTypeOK'
    BY <1>1, <1>2, <1>3 DEF WStart, WorkerFrame, KernelTypeOK, SignalTypeOK, request
  <2>2. QED
    BY <1>3, <2>1 DEF WStart, WorkerFrame
<1>4. CASE WLoop
  <2>1. PcTypeOK' /\ CallInv' /\ KernelTypeOK' /\ SignalTypeOK'
    BY <1>1, <1>2, <1>4 DEF WLoop, WorkerFrame, SignalTypeOK, request
  <2>2. QED
    BY <1>4, <2>1 DEF WLoop, WorkerFrame
<1>5. CASE WEnter
  <2>1. PcTypeOK' /\ CallInv' /\ KernelTypeOK' /\ SignalTypeOK'
    BY <1>1, <1>2, <1>5 DEF WEnter, WorkerFrame, SignalTypeOK, request
  <2>2. QED
    BY <1>5, <2>1 DEF WEnter, WorkerFrame
<1>6. CASE WSignal
  <2>1. PcTypeOK' /\ CallInv'
    BY <1>1, <1>6 DEF WSignal, Go, request
  <2>2. SignalTypeOK'
    BY <1>6 DEF WSignal, SignalTypeOK
  <2>3. QED
    BY <1>6, <2>1, <2>2 DEF WSignal
<1>7. CASE WRecv
  <2>1. Head(uevents) \in Uevents /\ Tail(uevents) \in Seq(Uevents)
    BY <1>7 DEF WRecv, KernelTypeOK
  <2>2. PcTypeOK' /\ CallInv'
    BY <1>1, <1>7, <2>1 DEF WRecv, Uevents, request
  <2>3. KernelTypeOK'
    BY <1>7, <2>1 DEF WRecv, KernelTypeOK
  <2>4. QED
    BY <1>7, <2>2, <2>3 DEF WRecv
<1>8. CASE WPartnerUp
  <2>1. PcTypeOK' /\ CallInv'
    BY <1>1, <1>8 DEF WPartnerUp
  <2>2. MemberTypeOK' /\ RequestTypeOK'
    BY <1>8 DEF WPartnerUp, Waiters, MemberTypeOK, RequestTypeOK
  <2>3. QED
    BY <1>8, <2>1, <2>2 DEF WPartnerUp
<1>9. CASE WTryLock \/ WDrpCheck
  <2>1. PcTypeOK' /\ CallInv'
    BY <1>1, <1>9 DEF WTryLock, WDrpCheck, RoleLockOnly, request
  <2>2. LockTypeOK'
    BY <1>9 DEF WTryLock, WDrpCheck, RoleLockOnly, LockTypeOK, Threads
  <2>3. QED
    BY <1>9, <2>1, <2>2 DEF WTryLock, WDrpCheck, RoleLockOnly
<1>10. CASE Drp(Worker) \/ Query(Worker)
  BY <1>10, DrpTInv, QueryTInv DEF Threads
<1>11. QED
  BY <1>3, <1>4, <1>5, <1>6, <1>7, <1>8, <1>9, <1>10 DEF WorkerNext

LEMMA KernelTInv ==
    ASSUME TInv, Kernel
    PROVE  TInv'
<1>1. KernelTypeOK'
  <2> USE DEF TInv, TypeOK, KernelTypeOK
  <2>0. ASSUME NEW u \in Uevents, Broadcast(u)
        PROVE  uevents' \in Seq(Uevents)
    BY <2>0 DEF Broadcast
  <2>1. CASE PartnerAttach
    BY <2>0, <2>1 DEF PartnerAttach, Uevents
  <2>2. CASE PartnerDetach
    BY <2>0, <2>2 DEF PartnerDetach, Uevents
  <2>3. CASE RoleChange
    <3>1. PICK tag \in {"dataRole", "powerRole"}, r \in {"host", "device", "source", "sink"} :
              Swap(tag, r)
      BY <2>3 DEF RoleChange, RoleTags, RolesOf
    <3>2. roles' \in [dataRole : RolesOf.dataRole, powerRole : RolesOf.powerRole]
      BY <3>1 DEF Swap, RolesOf
    <3>3. QED
      BY <2>0, <2>3, <3>1, <3>2 DEF RoleChange, Swap, Uevents
  <2>4. CASE MoistureChange
    BY <2>0, <2>4 DEF MoistureChange, Uevents
  <2>5. CASE OtherUevent
    BY <2>0, <2>5 DEF OtherUevent, Uevents
  <2>6. QED
    BY <2>1, <2>2, <2>3, <2>4, <2>5 DEF Kernel, KernelNext
<1>2. QED
  BY <1>1, Frames DEF TInv, TypeOK, Kernel, request

LEMMA CrashTInv ==
    ASSUME TInv, Crash
    PROVE  TInv'
<1>1. NoStatus \in Status
  BY DEF NoStatus, Status
<1>2. MemberTypeOK' /\ LockTypeOK' /\ SignalTypeOK' /\ ReportTypeOK'
  BY <1>1 DEF Crash, MemberTypeOK, LockTypeOK, SignalTypeOK, ReportTypeOK
<1>3. PcTypeOK'
  BY IdleStep, ThreadAssumption DEF Crash, PcTypeOK, Threads, WorkerSteps
<1>4. RequestTypeOK'
  BY DEF Crash, RequestTypeOK
<1>5. CallInv'
  BY IdleStep, ThreadAssumption DEF Crash, CallInv, Threads
<1>6. KernelTypeOK'
  <2>1. <<>> \in Seq(Uevents)
    OBVIOUS
  <2>2. QED
    BY <2>1 DEF Crash, TInv, TypeOK, KernelTypeOK
<1>7. QED
  BY <1>2, <1>3, <1>4, <1>5, <1>6, Frames DEF Crash, TInv, TypeOK

LEMMA StepTInv == TInv /\ [Next]_vars => TInv'
<1> SUFFICES ASSUME TInv, [Next]_vars
             PROVE  TInv'
  OBVIOUS
<1>1. ASSUME NEW t \in BinderThreads, Begin(t) \/ Binder(t)
      PROVE  TInv'
  BY <1>1, SettingsTInv, SwitchTInv, DrpTInv, QueryTInv, CallbackTInv
     DEF Binder, Threads
<1>2. CASE UNCHANGED vars
  BY <1>2, Frames DEF vars, TInv, TypeOK, request
<1>3. QED
  BY <1>1, <1>2, WorkerTInv, KernelTInv, CrashTInv DEF Next

\* Every variable has its type, and every thread in a handler carries a call of
\* that handler, in every reachable state.
THEOREM TypeCorrect == Spec => []TypeOK
<1>1. Spec => []TInv
  BY InitStarted, InitTInv, StepTInv, PTL DEF Spec
<1>2. TInv => TypeOK
  BY DEF TInv
<1>3. QED
  BY <1>1, <1>2, PTL
------------------------------------------------------------------------------
(* Who owns which mutex                                                    *)

QueryLocked == QuerySection \cup {"cbJoin"}
RoleLocked == RoleSteps \cup {"drpCheck"}

\* A mutex is owned by exactly the thread that is between its lock and unlock.
LockInv ==
    \A t \in Threads :
       /\ mLock = t <=> pc[t] \in QueryLocked
       /\ mRoleSwitchLock = t <=>
             \/ pc[t] \in RoleLocked
             \/ t \in BinderThreads /\ pc[t] = "reply" /\ call[t].op = "switchRole"
       /\ mPartnerLock = t <=> pc[t] = "smWrite"

\* setCallback() starts a worker only when none is left, or the mutexes of the
\* old one would have two owners at once.
LInv == TInv /\ LockInv /\ WorkerServesCallback

LEMMA InitLInv == Started => LInv
<1>1. Started => LockInv /\ WorkerServesCallback
  BY ThreadAssumption DEF Started, HalInit, LockInv, WorkerServesCallback, Threads,
     QueryLocked, RoleLocked, QuerySection, RoleSteps, ModeSteps
<1>2. QED
  BY <1>1, InitTInv DEF LInv

\* A step of t, seen by the mutexes: those of other threads are untouched, and
\* t owns what the step it goes to says.
LEMMA MoveLocks ==
    ASSUME TInv, LockInv, NEW t \in Threads, NEW step, Go(t, step),
           \A u \in BinderThreads \ {t} : call'[u] = call[u],
           \A u \in Threads \ {t} :
              /\ mLock' = u <=> mLock = u
              /\ mRoleSwitchLock' = u <=> mRoleSwitchLock = u
              /\ mPartnerLock' = u <=> mPartnerLock = u,
           mLock' = t <=> step \in QueryLocked,
           mRoleSwitchLock' = t <=>
              \/ step \in RoleLocked
              \/ t \in BinderThreads /\ step = "reply" /\ call'[t].op = "switchRole",
           mPartnerLock' = t <=> step = "smWrite"
    PROVE  LockInv'
<1>1. pc'[t] = step /\ \A u \in Threads \ {t} : pc'[u] = pc[u]
  BY DEF TInv, TypeOK, PcTypeOK, Go
<1>2. QED
  BY <1>1 DEF LockInv

\* A step of t that leaves the mutexes alone.
LEMMA KeepLocks ==
    ASSUME TInv, LockInv, NEW t \in Threads, NEW step, Go(t, step),
           UNCHANGED <<locks, call>>,
           step \in QueryLocked <=> pc[t] \in QueryLocked,
           step \in RoleLocked <=> pc[t] \in RoleLocked,
           step = "reply" /\ t \in BinderThreads => call[t].op # "switchRole",
           pc[t] = "reply" /\ t \in BinderThreads => call[t].op # "switchRole",
           step = "smWrite" <=> pc[t] = "smWrite"
    PROVE  LockInv'
<1>1. /\ mLock' = t <=> step \in QueryLocked
      /\ mRoleSwitchLock' = t <=>
              \/ step \in RoleLocked
              \/ t \in BinderThreads /\ step = "reply" /\ call'[t].op = "switchRole"
      /\ mPartnerLock' = t <=> step = "smWrite"
  BY DEF LockInv, locks
<1>2. QED
  BY <1>1, MoveLocks DEF locks

LEMMA BinderLocks ==
    ASSUME LInv, NEW t \in BinderThreads,
           Begin(t) \/ EnableUsbData(t) \/ RpWrite(t) \/ LpWrite(t) \/ EcWrite(t)
           \/ Reply(t)
    PROVE  LockInv'
<1> USE DEF LInv, Step
<1>1. t \in Threads /\ \A u \in Threads : u # NoThread
  BY ThreadAssumption DEF Threads
<1>2. CallFits(call[t], pc[t])
  BY DEF TInv, CallInv
<1>3. \A step \in DataSteps \cup {"idle", "reply", "qLock", "rpWrite", "lpWrite",
                                "ecWrite"} :
         step \notin QueryLocked /\ step \notin RoleLocked /\ step # "smWrite"
  BY DEF DataSteps, QueryLocked, RoleLocked, QuerySection, RoleSteps, ModeSteps
<1>4. CASE Begin(t)
  <2>1. PICK c \in Calls : Go(t, FirstStep[c.op]) /\ call' = [call EXCEPT ![t] = c]
    BY <1>4 DEF Begin
  <2>2. /\ FirstStep[c.op] \notin QueryLocked \cup RoleLocked \cup {"smWrite"}
        /\ FirstStep[c.op] = "reply" => c.op # "switchRole"
    BY CallFields DEF FirstStep, QueryLocked, RoleLocked, QuerySection, RoleSteps,
       ModeSteps
  <2>3. call'[t] = c /\ \A u \in BinderThreads \ {t} : call'[u] = call[u]
    BY <2>1 DEF TInv, TypeOK, RequestTypeOK
  <2>4. /\ mLock # t /\ mRoleSwitchLock # t /\ mPartnerLock # t
        /\ UNCHANGED locks
    BY <1>1, <1>3, <1>4 DEF Begin, LockInv
  <2>5. QED
    BY <1>1, <2>1, <2>2, <2>3, <2>4, MoveLocks DEF locks
<1>5. CASE EnableUsbData(t)
  <2>1. PICK step \in DataSteps \cup {"reply"} : Go(t, step)
    BY <1>5 DEF EnableUsbData, EdRead, EdPull, EdData, EdSet, DataSteps
  <2>2. pc[t] \in DataSteps /\ UNCHANGED <<locks, call>>
    BY <1>5 DEF EnableUsbData, EdRead, EdPull, EdData, EdSet, DataSteps, PcOnly,
       NodeFrame, request
  <2>3. call[t].op # "switchRole" /\ pc[t] # "reply"
    BY <1>2, <2>2 DEF CallFits, DataSteps
  <2>4. QED
    BY <1>1, <1>3, <2>1, <2>2, <2>3, KeepLocks
<1>6. CASE RpWrite(t) \/ EcWrite(t) \/ LpWrite(t)
  <2>1. PICK step \in {"reply", "qLock"} : Go(t, step)
    BY <1>6 DEF RpWrite, EcWrite, LpWrite
  <2>2. pc[t] \in {"rpWrite", "ecWrite", "lpWrite"} /\ UNCHANGED <<locks, call>>
    BY <1>6 DEF RpWrite, EcWrite, LpWrite, NodeFrame
  <2>3. call[t].op # "switchRole"
    BY <1>2, <2>2 DEF CallFits
  <2>4. QED
    BY <1>1, <1>3, <2>1, <2>2, <2>3, KeepLocks
<1>7. CASE Reply(t)
  <2>1. PICK step \in {"idle", "qLock"} : Go(t, step)
    BY <1>7 DEF Reply, Return
  <2>2. \A u \in BinderThreads \ {t} : call'[u] = call[u]
    BY <1>7 DEF Reply, Return, request, TInv, TypeOK, RequestTypeOK
  <2>3. /\ mLock # t /\ mPartnerLock # t
        /\ mRoleSwitchLock = t <=> call[t].op = "switchRole"
    BY <1>1, <1>3, <1>7 DEF Reply, LockInv
  <2>4. /\ mRoleSwitchLock' # t
        /\ \A u \in Threads \ {t} : mRoleSwitchLock' = u <=> mRoleSwitchLock = u
    BY <1>1, <1>7, <2>3 DEF Reply
  <2>5. mLock' = mLock /\ mPartnerLock' = mPartnerLock
    BY <1>7 DEF Reply
  <2>6. QED
    BY <1>1, <1>3, <2>1, <2>2, <2>3, <2>4, <2>5, MoveLocks
<1>8. QED
  BY <1>4, <1>5, <1>6, <1>7

LEMMA SwitchLocks ==
    ASSUME LInv, NEW t \in BinderThreads, SwitchRole(t)
    PROVE  LockInv'
<1> USE DEF LInv, Step
<1>1. t \in Threads /\ \A u \in Threads : u # NoThread
  BY ThreadAssumption DEF Threads
<1>2. CallFits(call[t], pc[t])
  BY DEF TInv, CallInv
<1>3. /\ \A step \in RoleSteps \cup {"reply", "rsLock"} : step \notin QueryLocked
      /\ \A step \in RoleSteps : step \in RoleLocked
      /\ \A step \in {"reply", "rsLock"} : step \notin RoleLocked
      /\ RoleSteps = {"rsWrite", "rsRead", "smOpen", "smLock", "smWrite", "condwait", "drp"}
  BY DEF QueryLocked, RoleLocked, QuerySection, RoleSteps, ModeSteps
<1>4. pc[t] \in RoleSteps \cup {"rsLock"} => call[t].op = "switchRole"
  BY <1>2, <1>3 DEF CallFits, ModeSteps
\* A step of a thread that holds mRoleSwitchLock and goes on holding it.
<1>5. ASSUME pc[t] \in RoleSteps, NEW step \in RoleSteps \cup {"reply"},
             Go(t, step), UNCHANGED <<mLock, mRoleSwitchLock, call>>,
             \/ /\ UNCHANGED mPartnerLock
                /\ pc[t] # "smWrite" /\ step # "smWrite"
             \/ /\ mPartnerLock' = t /\ mPartnerLock = NoThread
                /\ step = "smWrite"
             \/ /\ mPartnerLock' = NoThread /\ pc[t] = "smWrite"
                /\ step # "smWrite"
      PROVE  LockInv'
  <2>1. mLock # t /\ mRoleSwitchLock = t /\ (mPartnerLock = t <=> pc[t] = "smWrite")
    BY <1>1, <1>3, <1>5 DEF LockInv
  <2>2. step \notin QueryLocked /\ (step \in RoleLocked \/ step = "reply")
    BY <1>3, <1>5
  <2>3. \A u \in Threads \ {t} : mPartnerLock' = u <=> mPartnerLock = u
    BY <1>1, <1>5, <2>1
  <2>4. mPartnerLock' = t <=> step = "smWrite"
    BY <1>1, <1>5, <2>1
  <2>5. QED
    BY <1>1, <1>4, <1>5, <2>1, <2>2, <2>3, <2>4, MoveLocks
<1>6. CASE RsLock(t)
  <2>1. PICK step \in {"smOpen", "rsWrite"} : Go(t, step)
    BY <1>6 DEF RsLock
  <2>2. mLock # t /\ mPartnerLock # t
    BY <1>1, <1>3, <1>6 DEF RsLock, LockInv
  <2>3. /\ mLock' = mLock /\ mPartnerLock' = mPartnerLock /\ call' = call
        /\ mRoleSwitchLock = NoThread /\ mRoleSwitchLock' = t
    BY <1>6 DEF RsLock, RoleLockOnly, request
  <2>4. step \notin QueryLocked /\ step \in RoleLocked /\ step # "smWrite"
    BY <1>3, <2>1
  <2>5. QED
    BY <1>1, <2>1, <2>2, <2>3, <2>4, MoveLocks
<1>7. CASE RsWrite(t) \/ RsRead(t) \/ SmOpen(t)
  BY <1>3, <1>5, <1>7 DEF RsWrite, RsRead, SmOpen, PcOnly, locks, request
<1>8. CASE SmLock(t) \/ SmWrite(t)
  BY <1>3, <1>5, <1>8 DEF SmLock, SmWrite, request
<1>9. CASE CondTimeout(t) \/ CondSpurious(t)
  BY <1>9 DEF CondTimeout, CondSpurious, WakeOnly, locks, LockInv
<1>10. CASE SmWake(t)
  <2>1. CASE UNCHANGED pc
    BY <1>10, <2>1 DEF SmWake, locks, LockInv
  <2>2. CASE Go(t, "drp") \/ Go(t, "reply")
    BY <1>3, <1>5, <1>10, <2>2 DEF SmWake, locks
  <2>3. QED
    BY <1>10, <2>1, <2>2 DEF SmWake
<1>11. QED
  BY <1>6, <1>7, <1>8, <1>9, <1>10 DEF SwitchRole

LEMMA DrpLocks ==
    ASSUME LInv, NEW t \in Threads, Drp(t)
    PROVE  LockInv'
<1> USE DEF LInv, Step
<1>1. \A u \in Threads : u # NoThread
  BY ThreadAssumption
<1>2. /\ \A step \in {"drp", "reply", "loop"} : step \notin QueryLocked
      /\ "drp" \in RoleLocked /\ "reply" \notin RoleLocked /\ "loop" \notin RoleLocked
  BY DEF QueryLocked, RoleLocked, QuerySection, RoleSteps, ModeSteps
<1>3. mLock # t /\ mRoleSwitchLock = t /\ mPartnerLock # t
  BY <1>2 DEF Drp, LockInv
<1>4. mLock' = mLock /\ mPartnerLock' = mPartnerLock /\ call' = call
  BY DEF Drp, request
<1>5. CASE t = Worker
  <2>1. Go(t, "loop") /\ mRoleSwitchLock' = NoThread
    BY <1>5 DEF Drp
  <2>2. QED
    BY <1>1, <1>2, <1>3, <1>4, <1>5, <2>1, ThreadAssumption, MoveLocks
<1>6. CASE t \in BinderThreads
  <2>1. Go(t, "reply") /\ mRoleSwitchLock' = mRoleSwitchLock
    BY <1>6, ThreadAssumption DEF Drp
  <2>2. call[t].op = "switchRole"
    BY <1>6 DEF Drp, TInv, CallInv, CallFits, ModeSteps
  <2>3. QED
    BY <1>1, <1>2, <1>3, <1>4, <1>6, <2>1, <2>2, MoveLocks
<1>7. QED
  BY <1>5, <1>6 DEF Threads

LEMMA QueryLocks ==
    ASSUME LInv, NEW t \in Threads, Query(t)
    PROVE  LockInv'
<1> USE DEF LInv, Step
<1>1. \A u \in Threads : u # NoThread
  BY ThreadAssumption
<1>2. /\ \A step \in QuerySection : step \in QueryLocked
      /\ \A step \in {"qLock", "tryLock", "reply", "idle"} : step \notin QueryLocked
      /\ \A step \in QuerySteps \cup {"tryLock", "reply", "idle"} :
            step \notin RoleLocked /\ step # "smWrite"
      /\ \A step \in QuerySteps : step # "reply"
      /\ {"qScan", "qNotify"} \subseteq QuerySection
  BY DEF QueryLocked, RoleLocked, QuerySteps, QuerySection, RoleSteps, ModeSteps
<1>3. CASE QLock(t)
  <2>1. mPartnerLock # t /\ mRoleSwitchLock # t /\ Go(t, "qScan")
    BY <1>2, <1>3 DEF QLock, LockInv, QuerySteps
  <2>2. /\ mLock = NoThread /\ mLock' = t
        /\ UNCHANGED <<mRoleSwitchLock, mPartnerLock, call>>
    BY <1>3 DEF QLock, request
  <2>3. QED
    BY <1>1, <1>2, <2>1, <2>2, MoveLocks DEF QuerySteps
<1>4. CASE QueryReads(t)
  <2>1. PICK step \in QuerySection : Go(t, step)
    BY <1>4, ReadSteps
  <2>2. pc[t] \in QuerySection /\ UNCHANGED <<locks, call>>
    BY <1>4, ReadSteps DEF StatusOnly, request
  <2>3. QED
    BY <1>2, <2>1, <2>2, KeepLocks DEF QuerySteps
<1>5. CASE QNotify(t)
  <2>1. PICK step \in {"tryLock", "reply", "idle"} :
          /\ Go(t, step)
          /\ step = "reply" /\ t \in BinderThreads => call'[t].op # "switchRole"
    BY <1>5 DEF QNotify, Return, request
  <2>2. \A u \in BinderThreads \ {t} : call'[u] = call[u]
    BY <1>5 DEF QNotify, Return, request, TInv, TypeOK, RequestTypeOK
  <2>3. mLock = t /\ mPartnerLock # t /\ mRoleSwitchLock # t
    BY <1>2, <1>5 DEF QNotify, LockInv, QuerySteps
  <2>4. mLock' = NoThread /\ UNCHANGED <<mRoleSwitchLock, mPartnerLock>>
    BY <1>5 DEF QNotify
  <2>5. QED
    BY <1>1, <1>2, <2>1, <2>2, <2>3, <2>4, MoveLocks
<1>6. QED
  BY <1>3, <1>4, <1>5 DEF Query

LEMMA CallbackLocks ==
    ASSUME LInv, NEW t \in BinderThreads, SetCallbackCall(t)
    PROVE  LockInv'
<1> USE DEF LInv, Step
<1>1. t \in Threads /\ t # Worker /\ Worker \in Threads /\ \A u \in Threads : u # NoThread
  BY ThreadAssumption DEF Threads
<1>2. /\ \A step \in {"cb", "cbJoin", "idle", "dead", "start"} :
            step \notin RoleLocked /\ step # "smWrite" /\ step # "reply"
      /\ \A step \in {"cb", "idle", "dead", "start"} : step \notin QueryLocked
      /\ "cbJoin" \in QueryLocked
  BY DEF QueryLocked, RoleLocked, QuerySection, RoleSteps, ModeSteps
<1>3. /\ mPartnerLock # t /\ mRoleSwitchLock # t
      /\ pc[t] \in {"cb", "cbJoin"}
      /\ UNCHANGED <<mPartnerLock, mRoleSwitchLock>>
  BY <1>1, <1>2 DEF SetCallbackCall, CbSame, CbRegister, CbUnregister, CbJoin, locks,
     LockInv
<1>4. \A u \in BinderThreads \ {t} : call'[u] = call[u]
  BY DEF SetCallbackCall, CbSame, CbRegister, CbUnregister, CbJoin, Return, request,
     TInv, TypeOK, RequestTypeOK
<1>5. CASE CbSame(t)
  <2>1. Go(t, "idle") /\ mLock' = mLock /\ mLock # t
    BY <1>1, <1>5 DEF CbSame, Return, locks
  <2>2. QED
    BY <1>1, <1>2, <1>3, <1>4, <2>1, MoveLocks
<1>6. CASE CbRegister(t)
  <2>1. pc[Worker] = "dead"
    BY <1>1, <1>2, <1>6 DEF CbRegister, WorkerServesCallback, LockInv, Threads
  <2>2. /\ pc'[t] = "idle" /\ pc'[Worker] \in {"dead", "start"}
        /\ \A u \in Threads \ {t, Worker} : pc'[u] = pc[u]
    BY <1>1, <1>6, <2>1 DEF CbRegister, TInv, TypeOK, PcTypeOK
  <2>3. mLock = NoThread /\ mLock' = mLock
    BY <1>6 DEF CbRegister, locks
  <2>4. QED
    BY <1>1, <1>2, <1>3, <1>4, <2>1, <2>2, <2>3, ThreadAssumption DEF LockInv
<1>7. CASE CbUnregister(t)
  <2>1. /\ mLock = NoThread
        /\ \/ Go(t, "idle") /\ mLock' = mLock
           \/ Go(t, "cbJoin") /\ mLock' = t
    BY <1>7 DEF CbUnregister, Return
  <2>2. QED
    BY <1>1, <1>2, <1>3, <1>4, <2>1, MoveLocks
<1>8. CASE CbJoin(t)
  <2>1. Go(t, "idle") /\ mLock' = NoThread /\ mLock = t
    BY <1>1, <1>2, <1>8 DEF CbJoin, Return, LockInv
  <2>2. QED
    BY <1>1, <1>2, <1>3, <1>4, <2>1, MoveLocks
<1>9. QED
  BY <1>5, <1>6, <1>7, <1>8 DEF SetCallbackCall

LEMMA WorkerLocks ==
    ASSUME LInv, WorkerNext
    PROVE  LockInv'
<1> USE DEF LInv, Step
<1>1. /\ Worker \in Threads /\ Worker \notin BinderThreads
      /\ \A u \in Threads : u # NoThread
  BY ThreadAssumption DEF Threads
<1>2. /\ \A step \in {"dead", "start", "loop", "enter", "epoll", "partnerUp", "qLock",
                      "tryLock", "drpCheck", "drp"} :
            step \notin QueryLocked /\ step # "smWrite"
      /\ \A step \in {"dead", "start", "loop", "enter", "epoll", "partnerUp", "qLock",
                      "tryLock"} : step \notin RoleLocked
      /\ "drpCheck" \in RoleLocked /\ "drp" \in RoleLocked
  BY DEF QueryLocked, RoleLocked, QuerySection, RoleSteps, ModeSteps
<1>3. CASE WStart \/ WLoop \/ WEnter
  <2>1. PICK step \in {"dead", "loop", "enter", "epoll"} : Go(Worker, step)
    BY <1>3 DEF WStart, WLoop, WEnter, WorkerExits
  <2>2. pc[Worker] \in {"start", "loop", "enter"} /\ UNCHANGED <<locks, call>>
    BY <1>3 DEF WStart, WLoop, WEnter, WorkerFrame, request
  <2>3. QED
    BY <1>1, <1>2, <2>1, <2>2, KeepLocks
<1>4. CASE WSignal
  <2>1. CASE pc' = pc
    BY <1>4, <2>1 DEF WSignal, LockInv, locks, request
  <2>2. CASE pc[Worker] = "epoll" /\ Go(Worker, "loop")
    BY <1>1, <1>2, <1>4, <2>2, KeepLocks DEF WSignal, request
  <2>3. QED
    BY <1>4, <2>1, <2>2 DEF WSignal, Go
<1>5. CASE WRecv
  <2>1. PICK step \in {"partnerUp", "qLock", "loop"} : Go(Worker, step)
    <3>1. Head(uevents) \in Uevents
      BY <1>5 DEF WRecv, TInv, TypeOK, KernelTypeOK
    <3>2. QED
      BY <1>5, <3>1 DEF WRecv, Uevents
  <2>2. pc[Worker] = "epoll" /\ UNCHANGED <<locks, call>>
    BY <1>5 DEF WRecv, request
  <2>3. QED
    BY <1>1, <1>2, <2>1, <2>2, KeepLocks
<1>6. CASE WPartnerUp
  BY <1>1, <1>2, <1>6, KeepLocks DEF WPartnerUp
<1>7. CASE WTryLock
  <2>1. /\ pc[Worker] = "tryLock"
        /\ UNCHANGED <<mLock, mPartnerLock, call>>
        /\ \/ /\ Go(Worker, "drpCheck")
              /\ mRoleSwitchLock = NoThread /\ mRoleSwitchLock' = Worker
           \/ Go(Worker, "loop") /\ UNCHANGED mRoleSwitchLock
    BY <1>7 DEF WTryLock, RoleLockOnly, request
  <2>2. mLock # Worker /\ mPartnerLock # Worker /\ mRoleSwitchLock # Worker
    BY <1>1, <1>2, <2>1 DEF LockInv
  <2>3. QED
    BY <1>1, <1>2, <2>1, <2>2, MoveLocks
<1>8. CASE WDrpCheck
  <2>1. /\ pc[Worker] = "drpCheck"
        /\ UNCHANGED <<mLock, mPartnerLock, call>>
        /\ \/ Go(Worker, "loop") /\ mRoleSwitchLock' = NoThread
           \/ Go(Worker, "drp") /\ UNCHANGED mRoleSwitchLock
    BY <1>8 DEF WDrpCheck, RoleLockOnly, request
  <2>2. mLock # Worker /\ mPartnerLock # Worker /\ mRoleSwitchLock = Worker
    BY <1>1, <1>2, <2>1 DEF LockInv
  <2>3. QED
    BY <1>1, <1>2, <2>1, <2>2, MoveLocks
<1>9. QED
  BY <1>1, <1>3, <1>4, <1>5, <1>6, <1>7, <1>8, DrpLocks, QueryLocks DEF WorkerNext

LEMMA StepLocks ==
    ASSUME LInv, [Next]_vars
    PROVE  LockInv'
<1>1. CASE UNCHANGED vars \/ Kernel
  BY <1>1 DEF vars, Kernel, LInv, LockInv, locks, request
<1>2. CASE Crash
  BY <1>2, ThreadAssumption
     DEF Crash, LockInv, Threads, QueryLocked, RoleLocked, QuerySection, RoleSteps,
         ModeSteps
<1>3. ASSUME NEW t \in BinderThreads, Begin(t) \/ Binder(t)
      PROVE  LockInv'
  BY <1>3, BinderLocks, SwitchLocks, DrpLocks, QueryLocks, CallbackLocks
     DEF Binder, Threads
<1>4. QED
  BY <1>1, <1>2, <1>3, WorkerLocks DEF Next


\* A step of one binder thread is not seen in the place, the call, the result or
\* the wakeup of another thread.
LEMMA OthersStay ==
    ASSUME TInv, NEW t \in BinderThreads, Begin(t) \/ Binder(t),
           NEW u \in BinderThreads \ {t}
    PROVE  pc'[u] = pc[u] /\ call'[u] = call[u] /\ ok'[u] = ok[u] /\ wake'[u] = wake[u]
<1> USE DEF Step, request
<1>1. /\ u # t /\ u # Worker /\ u \in BinderThreads /\ u \in Threads
      /\ pc \in [Threads -> BinderSteps \cup WorkerSteps]
      /\ call \in [BinderThreads -> Calls \cup {NoCall}]
      /\ ok \in [BinderThreads -> BOOLEAN]
      /\ wake \in [BinderThreads -> {"none", "signaled", "timedout"}]
  BY ThreadAssumption DEF Threads, TInv, TypeOK, PcTypeOK, RequestTypeOK
<1>2. CASE Query(t) \/ Drp(t)
  <2>1. CASE Query(t)
    BY <1>1, <2>1, QueryFrame DEF Return, TInv, Threads
  <2>2. CASE Drp(t)
    BY <1>1, <2>2 DEF Drp, Go
  <2> QED  BY <1>2, <2>1, <2>2
<1>3. CASE SwitchRole(t)
  BY <1>1, <1>3 DEF SwitchRole, RsLock, RsWrite, RsRead, SmOpen, SmLock, SmWrite,
     CondTimeout, CondSpurious, SmWake, WakeOnly, RoleLockOnly, PcOnly, Go
<1>4. CASE Begin(t)
  BY <1>1, <1>4 DEF Begin, Go
<1>5. CASE EnableUsbData(t) \/ RpWrite(t) \/ LpWrite(t) \/ EcWrite(t) \/ Reply(t)
  BY <1>1, <1>5 DEF EnableUsbData, EdRead, EdPull, EdData, EdSet, RpWrite, LpWrite,
     EcWrite, Reply, Return, PcOnly, NodeFrame, Go
<1>6. CASE SetCallbackCall(t)
  BY <1>1, <1>6 DEF SetCallbackCall, CbSame, CbRegister, CbUnregister, CbJoin, Return, Go
<1>7. QED
  BY <1>2, <1>3, <1>4, <1>5, <1>6 DEF Binder

\* Only setCallback moves the worker.
LEMMA WorkerStays ==
    ASSUME TInv, NEW t \in BinderThreads, Begin(t) \/ Binder(t), ~SetCallbackCall(t)
    PROVE  pc'[Worker] = pc[Worker]
<1> USE DEF Step, Go, Return
<1>1. Worker # t /\ Worker \in Threads /\ pc \in [Threads -> BinderSteps \cup WorkerSteps]
  BY ThreadAssumption DEF Threads, TInv, TypeOK, PcTypeOK
<1>2. CASE Query(t) \/ Drp(t)
  <2>1. CASE Query(t)
    BY <1>1, <2>1, QueryFrame DEF TInv, Threads
  <2>2. CASE Drp(t)
    BY <1>1, <2>2 DEF Drp
  <2> QED  BY <1>2, <2>1, <2>2
<1>3. CASE SwitchRole(t)
  BY <1>1, <1>3 DEF SwitchRole, RsLock, RsWrite, RsRead, SmOpen, SmLock, SmWrite,
     CondTimeout, CondSpurious, SmWake, WakeOnly
<1>4. CASE Begin(t)
  BY <1>1, <1>4 DEF Begin
<1>5. CASE EnableUsbData(t) \/ RpWrite(t) \/ LpWrite(t) \/ EcWrite(t) \/ Reply(t)
  BY <1>1, <1>5 DEF EnableUsbData, EdRead, EdPull, EdData, EdSet, RpWrite, LpWrite,
     EcWrite, Reply
<1> QED  BY <1>2, <1>3, <1>4, <1>5 DEF Binder

LEMMA WorkerSpares ==
    ASSUME TInv, WorkerNext, NEW u \in BinderThreads
    PROVE  pc'[u] = pc[u] /\ call'[u] = call[u] /\ ok'[u] = ok[u]
<1> USE DEF Step, request
<1>1. u # Worker /\ u \in Threads /\ pc \in [Threads -> BinderSteps \cup WorkerSteps]
  BY ThreadAssumption DEF Threads, TInv, TypeOK, PcTypeOK
<1>2. CASE Query(Worker)
  <2>1. Worker \in Threads /\ Worker \notin BinderThreads /\ TypeOK
    BY ThreadAssumption DEF Threads, TInv
  <2>2. pc'[u] = pc[u] /\ UNCHANGED <<call, ok, wake>>
    BY <1>1, <1>2, <2>1, QueryFrame
  <2> QED  BY <2>2
<1>3. CASE ~Query(Worker)
  BY <1>1, <1>3
     DEF WorkerNext, WStart, WLoop, WEnter, WSignal, WRecv, WPartnerUp, WTryLock,
         WDrpCheck, WorkerExits, WorkerFrame, RoleLockOnly, Drp, Go
<1>4. QED
  BY <1>2, <1>3

\* A step that neither starts the worker, nor drops the callback, nor ends a
\* join leaves the worker with what it serves.
LEMMA KeepServing ==
    ASSUME WorkerServesCallback,
           pc'[Worker] # "dead" => pc[Worker] # "dead",
           mCallback # NoCallback => mCallback' # NoCallback,
           \A u \in BinderThreads : pc[u] = "cbJoin" => pc'[u] = "cbJoin"
    PROVE  WorkerServesCallback'
  BY DEF WorkerServesCallback

LEMMA StepServes ==
    ASSUME LInv, [Next]_vars
    PROVE  WorkerServesCallback'
<1> USE ThreadAssumption DEF LInv, Step
<1>1. CASE UNCHANGED vars \/ Kernel
  BY <1>1 DEF vars, Kernel, WorkerServesCallback, members
<1>2. CASE Crash
  BY <1>2 DEF Crash, WorkerServesCallback, Threads
<1>3. CASE WorkerNext
  <2>1. UNCHANGED mCallback
    BY <1>3, QueryFrame
       DEF WorkerNext, WStart, WLoop, WEnter, WSignal, WRecv, WPartnerUp, WTryLock,
           WDrpCheck, WorkerFrame, RoleLockOnly, Drp, members, TInv, Threads
  <2>3. pc'[Worker] # "dead" => pc[Worker] # "dead"
    BY <1>3, QueryFrame
       DEF WorkerNext, WStart, WLoop, WEnter, WSignal, WRecv, WPartnerUp, WTryLock,
           WDrpCheck, WorkerExits, Drp, QuerySteps, QuerySection, Go, TInv, TypeOK,
           PcTypeOK, Threads
  <2>4. QED
    BY <1>3, <2>1, <2>3, KeepServing, WorkerSpares
<1>4. ASSUME NEW t \in BinderThreads, SetCallbackCall(t)
      PROVE  WorkerServesCallback'
  <2>1. CASE CbSame(t)
    BY <1>4, <2>1, KeepServing DEF CbSame, SetCallback, Return, Go, TInv, TypeOK, PcTypeOK
  <2>2. CASE CbRegister(t)
    BY <1>4, <2>2
       DEF CbRegister, SetCallback, WorkerServesCallback, TInv, TypeOK, PcTypeOK, Threads
  <2>3. CASE CbUnregister(t)
    BY <1>4, <2>3
       DEF CbUnregister, SetCallback, Return, Go, WorkerServesCallback, TInv, TypeOK,
           PcTypeOK, Threads
  <2>4. CASE CbJoin(t)
    BY <1>4, <2>4
       DEF CbJoin, Return, Go, WorkerServesCallback, TInv, TypeOK, PcTypeOK, Threads
  <2>5. QED
    BY <1>4, <2>1, <2>2, <2>3, <2>4 DEF SetCallbackCall
<1>5. ASSUME NEW t \in BinderThreads, Begin(t) \/ Binder(t), ~SetCallbackCall(t)
      PROVE  WorkerServesCallback'
  <2>1. UNCHANGED mCallback
    BY <1>5, QueryFrame
       DEF Begin, Binder, EnableUsbData, EdRead, EdPull, EdData, EdSet, RpWrite,
           LpWrite, EcWrite, Reply, SwitchRole, RsLock, RsWrite, RsRead, SmOpen,
           SmLock, SmWrite, CondTimeout, CondSpurious, SmWake, PcOnly, NodeFrame,
           WakeOnly, RoleLockOnly, Drp, members, TInv, Threads
  <2>2. pc[t] # "cbJoin"
    BY <1>5, QueryFrame
       DEF Begin, Binder, EnableUsbData, EdRead, EdPull, EdData, EdSet, RpWrite,
           LpWrite, EcWrite, Reply, SwitchRole, RsLock, RsWrite, RsRead, SmOpen,
           SmLock, SmWrite, CondTimeout, CondSpurious, SmWake, Drp, QuerySteps,
           QuerySection, TInv, Threads
  <2>3. pc'[Worker] = pc[Worker]
    BY <1>5, WorkerStays
  <2>5. QED
    BY <1>5, <2>1, <2>2, <2>3, KeepServing, OthersStay
<1>6. QED
  BY <1>1, <1>2, <1>3, <1>4, <1>5 DEF Next

LEMMA StepLInv == LInv /\ [Next]_vars => LInv'
  BY StepTInv, StepLocks, StepServes DEF LInv

LEMMA AlwaysLInv == Spec => []LInv
  BY InitStarted, InitLInv, StepLInv, PTL DEF Spec

\* A worker thread runs for a callback that is set, or for the
\* setCallback(null) that is about to join it, so mPoll is never overwritten
\* while it names a running thread.
THEOREM WorkerServed == Spec => []WorkerServesCallback
<1>1. LInv => WorkerServesCallback
  BY DEF LInv
<1>2. QED
  BY <1>1, AlwaysLInv, PTL
------------------------------------------------------------------------------
(* Mode switches                                                           *)

\* One thread at a time is in a role switch.
LEMMA OneRoleSwitch ==
    ASSUME LInv, NEW t \in Threads, NEW u \in Threads,
           pc[t] \in ModeSteps \/ (t \in BinderThreads /\ pc[t] = "reply" /\ SwitchingMode(t)),
           pc[u] \in ModeSteps \/ (u \in BinderThreads /\ pc[u] = "reply" /\ SwitchingMode(u))
    PROVE  t = u
  BY DEF LInv, LockInv, RoleLocked, RoleSteps, SwitchingMode

\* port_type is written by a thread that leaves smWrite or drp.
LEMMA PortTypeWriter ==
    ASSUME TInv, Next, portType' # portType
    PROVE  \E u \in Threads : pc[u] \in {"smWrite", "drp"} /\ pc'[u] # pc[u]
<1> USE ThreadAssumption DEF Step, Threads
<1>1. pc \in [Threads -> BinderSteps \cup WorkerSteps]
  BY DEF TInv, TypeOK, PcTypeOK
<1>2. ASSUME NEW t \in Threads, Drp(t)
      PROVE  pc[t] \in {"smWrite", "drp"} /\ pc'[t] # pc[t]
  BY <1>1, <1>2 DEF Drp, Go
<1>3. ASSUME NEW t \in BinderThreads, SwitchRole(t)
      PROVE  pc[t] \in {"smWrite", "drp"} /\ pc'[t] # pc[t]
  BY <1>1, <1>3 DEF SwitchRole, RsLock, RsWrite, RsRead, SmOpen, SmLock, SmWrite,
     CondTimeout, CondSpurious, SmWake, WakeOnly, RoleLockOnly, PcOnly, Go, kernel
<1>4. ~\E t \in Threads : Query(t)
  BY QueryFrame DEF TInv, kernel
<1>5. ~\E t \in BinderThreads :
          Begin(t) \/ EnableUsbData(t) \/ RpWrite(t) \/ LpWrite(t) \/ EcWrite(t)
          \/ Reply(t) \/ SetCallbackCall(t)
  BY DEF Begin, EnableUsbData, EdRead, EdPull, EdData, EdSet, RpWrite, LpWrite, EcWrite,
     Reply, PcOnly, NodeFrame, SetCallbackCall, CbSame, CbRegister, CbUnregister, CbJoin,
     kernel
<1>6. ~(WStart \/ WLoop \/ WEnter \/ WSignal \/ WRecv \/ WPartnerUp \/ WTryLock
        \/ WDrpCheck \/ Kernel \/ Crash)
  BY DEF WStart, WLoop, WEnter, WSignal, WRecv, WPartnerUp, WTryLock, WDrpCheck,
     WorkerExits, RoleLockOnly, Kernel, KernelNext, PartnerAttach, PartnerDetach,
     RoleChange, MoistureChange, OtherUevent, Crash, kernel
<1>7. QED
  BY <1>2, <1>3, <1>4, <1>5, <1>6 DEF Next, Binder, WorkerNext

\* A mode switch that has written port_type is the only one to write it again.
LEMMA OnlyOwnerWrites ==
    ASSUME LInv, Next, NEW t \in BinderThreads,
           SwitchingMode(t), pc[t] \in {"condwait", "drp", "reply"}, pc'[t] = pc[t]
    PROVE  portType' = portType
<1> SUFFICES ASSUME portType' # portType
             PROVE  FALSE
  OBVIOUS
<1>1. PICK u \in Threads : pc[u] \in {"smWrite", "drp"} /\ pc'[u] # pc[u]
  BY PortTypeWriter DEF LInv
<1>2. t = u
  BY <1>1, OneRoleSwitch DEF Threads, ModeSteps
<1> QED  BY <1>1, <1>2

\* From the moment a mode switch has written port_type until its reply is out,
\* nobody else writes it.
THEOREM PortTypeIsOwned == Spec => PortTypeOwned
<1> DEFINE Owned == \A t \in BinderThreads :
                       /\ SwitchingMode(t)
                       /\ pc[t] \in {"condwait", "drp", "reply"}
                       /\ pc'[t] = pc[t]
                       => portType' = portType
<1>1. LInv /\ [Next]_vars => [Owned]_vars
  BY OnlyOwnerWrites
<1>2. QED
  BY <1>1, AlwaysLInv, PTL DEF Spec, PortTypeOwned

\* What a waiter relies on: mPartnerUp stays false from its reset under
\* mPartnerLock to the wait, and a wakeup reaches only a thread that waits.
WaitInv ==
    \A t \in BinderThreads :
       /\ pc[t] = "condwait" /\ wake[t] = "none" => ~mPartnerUp
       /\ pc[t] = "smWrite" => ~mPartnerUp
       /\ pc[t] # "condwait" => wake[t] = "none"

\* A step outside switchMode reaches no step of it but the first, sets nothing
\* a waiter looks at, and leaves port_type alone.
LEMMA OutsideMode ==
    ASSUME TInv, NEW t \in BinderThreads, Begin(t) \/ Binder(t), pc[t] \notin ModeSteps
    PROVE  /\ mPartnerUp' = mPartnerUp
           /\ pc'[t] \notin ModeSteps \ {"smOpen"}
           /\ wake'[t] \in {wake[t], "none"}
           /\ portType' = portType
<1> USE DEF Step, Go, request
<1>1. /\ t # Worker /\ t \in Threads /\ Worker \in Threads
      /\ pc \in [Threads -> BinderSteps \cup WorkerSteps]
      /\ wake \in [BinderThreads -> {"none", "signaled", "timedout"}]
  BY ThreadAssumption DEF Threads, TInv, TypeOK, PcTypeOK, RequestTypeOK
<1>2. ModeSteps = {"smOpen", "smLock", "smWrite", "condwait", "drp"}
  BY DEF ModeSteps
<1>3. CASE Query(t)
  BY <1>1, <1>2, <1>3, QueryFrame DEF Return, QuerySteps, QuerySection, TInv, kernel
<1>4. CASE Begin(t)
  <2>1. PICK c \in Calls : pc' = [pc EXCEPT ![t] = FirstStep[c.op]]
    BY <1>4 DEF Begin
  <2>2. FirstStep[c.op] \notin ModeSteps
    BY <1>2, CallFields DEF FirstStep
  <2>3. QED
    BY <1>1, <1>4, <2>1, <2>2 DEF Begin, members, kernel
<1>5. CASE EnableUsbData(t) \/ RpWrite(t) \/ LpWrite(t) \/ EcWrite(t) \/ Reply(t)
  BY <1>1, <1>2, <1>5 DEF EnableUsbData, EdRead, EdPull, EdData, EdSet, RpWrite,
     LpWrite, EcWrite, Reply, Return, PcOnly, NodeFrame, members, kernel
<1>6. CASE SetCallbackCall(t)
  BY <1>1, <1>2, <1>6 DEF SetCallbackCall, CbSame, CbRegister, CbUnregister, CbJoin,
     Return, members, kernel
<1>7. CASE RsLock(t) \/ RsWrite(t) \/ RsRead(t)
  BY <1>1, <1>2, <1>7 DEF RsLock, RsWrite, RsRead, RoleLockOnly, members, kernel
<1>8. ~(SmOpen(t) \/ SmLock(t) \/ SmWrite(t) \/ CondTimeout(t) \/ CondSpurious(t)
        \/ SmWake(t) \/ Drp(t))
  BY <1>2 DEF SmOpen, SmLock, SmWrite, CondTimeout, CondSpurious, SmWake, Drp
<1>9. QED
  BY <1>3, <1>4, <1>5, <1>6, <1>7, <1>8 DEF Binder, SwitchRole

LEMMA BinderWaits ==
    ASSUME LInv, WaitInv, NEW t \in BinderThreads, Begin(t) \/ Binder(t)
    PROVE  WaitInv'
<1> USE DEF Step, Go, request
<1>1. /\ t # Worker /\ t \in Threads
      /\ pc \in [Threads -> BinderSteps \cup WorkerSteps]
      /\ wake \in [BinderThreads -> {"none", "signaled", "timedout"}]
      /\ TInv
  BY ThreadAssumption DEF Threads, LInv, TInv, TypeOK, PcTypeOK, RequestTypeOK
<1>2. ModeSteps = {"smOpen", "smLock", "smWrite", "condwait", "drp"}
  BY DEF ModeSteps
<1>3. mPartnerUp' => mPartnerUp
  <2>1. CASE pc[t] \notin ModeSteps
    BY <1>1, <2>1, OutsideMode
  <2>2. CASE pc[t] \in ModeSteps
    <3>1. SwitchRole(t) \/ Drp(t)
      BY <1>1, <1>2, <2>2, QueryFrame
         DEF Begin, Binder, EnableUsbData, EdRead, EdPull, EdData, EdSet,
             RpWrite, LpWrite, EcWrite, Reply, QuerySteps, QuerySection, TInv,
             SetCallbackCall, CbSame, CbRegister, CbUnregister, CbJoin
    <3>2. QED
      BY <3>1 DEF SwitchRole, RsLock, RsWrite, RsRead, SmOpen, SmLock, SmWrite,
         CondTimeout, CondSpurious, SmWake, WakeOnly, RoleLockOnly, PcOnly, Drp, members
  <2>3. QED
    BY <2>1, <2>2
<1>4. \A u \in BinderThreads \ {t} : pc'[u] = pc[u] /\ wake'[u] = wake[u]
  BY <1>1, OthersStay
<1>5. /\ pc'[t] = "condwait" /\ wake'[t] = "none" => ~mPartnerUp'
      /\ pc'[t] = "smWrite" => ~mPartnerUp'
      /\ pc'[t] # "condwait" => wake'[t] = "none"
  <2>1. CASE pc[t] \notin ModeSteps
    BY <1>1, <1>2, <2>1, OutsideMode DEF WaitInv
  <2>2. CASE pc[t] \in ModeSteps
    <3>1. SwitchRole(t) \/ Drp(t)
      BY <1>1, <1>2, <2>2, QueryFrame
         DEF Begin, Binder, EnableUsbData, EdRead, EdPull, EdData, EdSet,
             RpWrite, LpWrite, EcWrite, Reply, QuerySteps, QuerySection, TInv,
             SetCallbackCall, CbSame, CbRegister, CbUnregister, CbJoin
    <3>2. SmOpen(t) \/ SmLock(t) \/ SmWrite(t) \/ CondTimeout(t) \/ CondSpurious(t)
          \/ SmWake(t) \/ Drp(t)
      BY <1>2, <2>2, <3>1 DEF SwitchRole, RsLock, RsWrite, RsRead
    <3>3. QED
      BY <1>1, <1>3, <3>2
         DEF WaitInv, SmOpen, SmLock, SmWrite, CondTimeout, CondSpurious, SmWake, Drp,
             PcOnly, WakeOnly, members
  <2>3. QED
    BY <2>1, <2>2
<1>6. QED
  BY <1>3, <1>4, <1>5 DEF WaitInv

LEMMA WorkerWaits ==
    ASSUME LInv, WaitInv, WorkerNext
    PROVE  WaitInv'
<1> USE DEF Step, request
<1>1. /\ wake \in [BinderThreads -> {"none", "signaled", "timedout"}]
      /\ \A u \in BinderThreads : pc'[u] = pc[u]
  BY WorkerSpares DEF LInv, TInv, TypeOK, RequestTypeOK
<1>2. CASE WPartnerUp
\* The one waiter there can be is signalled, and nobody is between the reset of
\* mPartnerUp and its wait.
  <2>1. \A u \in BinderThreads : pc[u] # "smWrite"
    BY <1>2, ThreadAssumption DEF WPartnerUp, LInv, LockInv, Threads
  <2>2. \A u, v \in Waiters : u = v
    BY OneRoleSwitch DEF Waiters, Threads, ModeSteps
  <2>3. \A u \in BinderThreads :
           /\ pc[u] = "condwait" => wake'[u] # "none"
           /\ pc[u] # "condwait" => wake'[u] = "none"
    BY <1>1, <1>2, <2>2 DEF WPartnerUp, Waiters, WaitInv
  <2>4. QED
    BY <1>1, <2>1, <2>3 DEF WaitInv
<1>3. CASE ~WPartnerUp
  <2>1. wake' = wake /\ mPartnerUp' = mPartnerUp
    BY <1>3, QueryFrame, ThreadAssumption
       DEF WorkerNext, WStart, WLoop, WEnter, WSignal, WRecv, WTryLock, WDrpCheck,
           WorkerFrame, RoleLockOnly, Drp, members, LInv, TInv, Threads
  <2>2. QED
    BY <1>1, <2>1 DEF WaitInv
<1>4. QED
  BY <1>2, <1>3

LEMMA StepWaits == LInv /\ WaitInv /\ [Next]_vars => WaitInv'
<1> SUFFICES ASSUME LInv, WaitInv, [Next]_vars
             PROVE  WaitInv'
  OBVIOUS
<1>1. CASE UNCHANGED vars \/ Kernel
  BY <1>1 DEF vars, Kernel, WaitInv, members, request
<1>2. CASE Crash
  BY <1>2, ThreadAssumption DEF Crash, WaitInv, Threads
<1>3. QED
  BY <1>1, <1>2, BinderWaits, WorkerWaits DEF Next

LEMMA InitWaits == Started => WaitInv
  BY ThreadAssumption DEF Started, HalInit, WaitInv, Threads

\* A thread that sleeps in pthread_cond_timedwait() has not missed a partner.
THEOREM NoPartnerSignalLost == Spec => []NoLostPartnerSignal
<1>1. Init => WaitInv
  BY InitStarted, InitWaits
<1>2. Spec => []WaitInv
  BY <1>1, StepWaits, AlwaysLInv, PTL DEF Spec
<1>3. WaitInv => NoLostPartnerSignal
  BY DEF WaitInv, NoLostPartnerSignal
<1>4. QED
  BY <1>2, <1>3, PTL

\* A mode switch that waits has written the mode asked for, unless it is no
\* mode at all, and no mode switch is successful before it is signalled.
ModeInv ==
    \A t \in BinderThreads :
       /\ pc[t] = "condwait" => call[t].role \in {portType, "none"}
       /\ pc[t] \in {"rsLock"} \cup ModeSteps => ~ok[t]
       /\ pc[t] = "reply" /\ SwitchingMode(t)
             => IF ok[t] THEN call[t].role \in {portType, "none"}
                         ELSE portType = "dual"

\* What switchMode and switchToDrp leave behind, step by step.
LEMMA ModeSteping ==
    ASSUME LInv, ModeInv, "port_type" \notin Faulty, NEW t \in BinderThreads,
           Begin(t) \/ Binder(t), pc[t] \in ModeSteps
    PROVE  /\ pc'[t] = "condwait" => call'[t].role \in {portType', "none"}
           /\ pc'[t] \in {"rsLock"} \cup ModeSteps => ~ok'[t]
           /\ pc'[t] = "reply" =>
                IF ok'[t] THEN call'[t].role \in {portType', "none"}
                          ELSE portType' = "dual"
<1> USE DEF Step, Go, request
<1>1. /\ t # Worker /\ t \in Threads
      /\ pc \in [Threads -> BinderSteps \cup WorkerSteps]
      /\ ok \in [BinderThreads -> BOOLEAN]
  BY ThreadAssumption DEF Threads, LInv, TInv, TypeOK, PcTypeOK, RequestTypeOK
<1>2. ModeSteps = {"smOpen", "smLock", "smWrite", "condwait", "drp"}
  BY DEF ModeSteps
<1>3. /\ ~ok[t]
      /\ pc[t] = "condwait" => call[t].role \in {portType, "none"}
  BY DEF ModeInv
<1>4. SwitchRole(t) \/ Drp(t)
  BY <1>1, <1>2, QueryFrame
     DEF Begin, Binder, EnableUsbData, EdRead, EdPull, EdData, EdSet, RpWrite,
         LpWrite, EcWrite, Reply, QuerySteps, QuerySection, SetCallbackCall, CbSame,
         CbRegister, CbUnregister, CbJoin, LInv, TInv
<1>5. CASE SmOpen(t) \/ SmLock(t)
  BY <1>1, <1>2, <1>3, <1>5 DEF SmOpen, SmLock, PcOnly
<1>6. CASE SmWrite(t)
  <2>1. call[t].role \in PortTypes \cup {"none"}
    <3>1. call[t] \in AllCalls /\ call[t].op = "switchRole" /\ call[t].tag = "mode"
      BY <1>6, CallAssumption DEF SmWrite, LInv, TInv, CallInv, CallFits, ModeSteps
    <3>2. QED
      BY <3>1, SwitchModeRole DEF PortTypes
  <2>2. portType' = IF call[t].role \in PortTypes THEN call[t].role ELSE portType
    BY <1>6 DEF SmWrite, PortTypeWritten
  <2>3. QED
    BY <1>1, <1>2, <1>3, <1>6, <2>1, <2>2 DEF SmWrite
<1>7. CASE CondTimeout(t) \/ CondSpurious(t) \/ SmWake(t)
  BY <1>1, <1>2, <1>3, <1>7 DEF CondTimeout, CondSpurious, SmWake, WakeOnly, kernel
<1>8. CASE Drp(t)
  BY <1>1, <1>2, <1>3, <1>8 DEF Drp, PortTypeWritten, PortTypes
<1>9. ~(RsLock(t) \/ RsWrite(t) \/ RsRead(t))
  BY <1>2 DEF RsLock, RsWrite, RsRead
<1>10. QED
  BY <1>4, <1>5, <1>6, <1>7, <1>8, <1>9 DEF SwitchRole

LEMMA BinderModes ==
    ASSUME LInv, ModeInv, "port_type" \notin Faulty, NEW t \in BinderThreads,
           Begin(t) \/ Binder(t)
    PROVE  ModeInv'
<1> USE DEF Step
<1>1. ASSUME pc[t] \notin ModeSteps
      PROVE  /\ pc'[t] \in {"rsLock"} \cup ModeSteps => ~ok'[t]
             /\ pc'[t] # "condwait"
             /\ pc'[t] = "reply" => call'[t].op # "switchRole" \/ call'[t].tag # "mode"
  <2> USE DEF Go, request
  <2>1. /\ t # Worker /\ t \in Threads
        /\ pc \in [Threads -> BinderSteps \cup WorkerSteps]
        /\ call \in [BinderThreads -> Calls \cup {NoCall}]
        /\ ok \in [BinderThreads -> BOOLEAN]
        /\ CallFits(call[t], pc[t])
        /\ pc[t] = "rsLock" => ~ok[t]
    BY ThreadAssumption
       DEF Threads, LInv, TInv, TypeOK, PcTypeOK, RequestTypeOK, CallInv, ModeInv
  <2>2. ModeSteps = {"smOpen", "smLock", "smWrite", "condwait", "drp"}
    BY DEF ModeSteps
  <2>3. CASE Begin(t)
    <3>1. PICK c \in Calls : /\ pc' = [pc EXCEPT ![t] = FirstStep[c.op]]
                             /\ call' = [call EXCEPT ![t] = c]
                             /\ ok' = [ok EXCEPT ![t] = c.op # "switchRole"]
      BY <2>3 DEF Begin
    <3>2. /\ FirstStep[c.op] = "rsLock" => c.op = "switchRole"
          /\ FirstStep[c.op] \notin ModeSteps
          /\ FirstStep[c.op] = "reply" => c.op # "switchRole"
      BY <2>2, CallFields DEF FirstStep
    <3>3. QED
      BY <2>1, <2>2, <3>1, <3>2
  <2>4. CASE EnableUsbData(t) \/ RpWrite(t) \/ LpWrite(t) \/ EcWrite(t) \/ Reply(t)
    BY <2>1, <2>2, <2>4 DEF CallFits, DataSteps, EnableUsbData, EdRead, EdPull, EdData,
       EdSet, RpWrite, LpWrite, EcWrite, Reply, Return, PcOnly, NodeFrame
  <2>5. CASE RsLock(t) \/ RsWrite(t) \/ RsRead(t)
    BY <2>1, <2>2, <2>5 DEF CallFits, RsLock, RsWrite, RsRead, RoleLockOnly
  <2>6. CASE Query(t)
    BY <2>1, <2>2, <2>6, QueryFrame DEF Return, QuerySteps, QuerySection, LInv, TInv, kernel
  <2>7. CASE SetCallbackCall(t)
    BY <2>1, <2>2, <2>7 DEF SetCallbackCall, CbSame, CbRegister, CbUnregister, CbJoin,
       Return
  <2>8. ~(SmOpen(t) \/ SmLock(t) \/ SmWrite(t) \/ CondTimeout(t) \/ CondSpurious(t)
          \/ SmWake(t) \/ Drp(t))
    BY <1>1, <2>2 DEF SmOpen, SmLock, SmWrite, CondTimeout, CondSpurious, SmWake, Drp
  <2>9. QED
    BY <2>3, <2>4, <2>5, <2>6, <2>7, <2>8 DEF Binder, SwitchRole
<1>2. ASSUME NEW u \in BinderThreads \ {t},
             pc[u] = "condwait" \/ (pc[u] = "reply" /\ SwitchingMode(u))
      PROVE  portType' = portType
  <2>1. CASE pc[t] \notin ModeSteps
    BY <2>1, OutsideMode DEF LInv
  <2>2. CASE pc[t] \in ModeSteps
    BY <1>2, <2>2, OneRoleSwitch DEF Threads, ModeSteps
  <2>3. QED
    BY <2>1, <2>2
<1>3. ASSUME NEW u \in BinderThreads \ {t}
      PROVE  pc'[u] = pc[u] /\ call'[u] = call[u] /\ ok'[u] = ok[u]
  BY OthersStay DEF LInv
<1>4. QED
  BY <1>1, <1>2, <1>3, ModeSteping DEF ModeInv, SwitchingMode

LEMMA StepModes ==
    ASSUME LInv, ModeInv, "port_type" \notin Faulty, [Next]_vars
    PROVE  ModeInv'
<1>1. CASE UNCHANGED vars
  BY <1>1 DEF vars, ModeInv, SwitchingMode, request, kernel
<1>2. CASE Kernel
  BY <1>2 DEF Kernel, KernelNext, PartnerAttach, PartnerDetach, RoleChange,
     MoistureChange, OtherUevent, ModeInv, SwitchingMode, request
<1>3. CASE Crash
  BY <1>3, ThreadAssumption DEF Crash, ModeInv, SwitchingMode, ModeSteps, Threads
<1>4. CASE WorkerNext
  <2>1. \A u \in BinderThreads : pc'[u] = pc[u] /\ call'[u] = call[u] /\ ok'[u] = ok[u]
    BY <1>4, WorkerSpares DEF LInv
  <2>2. ASSUME NEW u \in BinderThreads,
               pc[u] = "condwait" \/ (pc[u] = "reply" /\ SwitchingMode(u))
        PROVE  portType' = portType
    <3>1. SUFFICES ASSUME portType' # portType
                   PROVE  FALSE
      OBVIOUS
    <3>2. PICK w \in Threads : pc[w] \in {"smWrite", "drp"} /\ pc'[w] # pc[w]
      BY <1>4, <3>1, PortTypeWriter DEF LInv, Next
    <3>3. w = u
      BY <2>2, <3>2, OneRoleSwitch DEF Threads, ModeSteps
    <3>4. QED
      BY <2>1, <3>2, <3>3
  <2>3. QED
    BY <2>1, <2>2 DEF ModeInv, SwitchingMode
<1>5. QED
  BY <1>1, <1>2, <1>3, <1>4, BinderModes DEF Next

LEMMA InitModes == Started => ModeInv
  BY ThreadAssumption DEF Started, HalInit, ModeInv, SwitchingMode, ModeSteps, Threads

\* What a mode switch reports is what it left in port_type.
THEOREM SwitchReportsOutcome == Spec => []SwitchOutcome
<1>1. CASE "port_type" \in Faulty
  <2>1. SwitchOutcome
    BY <1>1 DEF SwitchOutcome
  <2>2. QED
    BY <2>1, PTL
<1>2. CASE "port_type" \notin Faulty
  <2>1. Init => ModeInv
    BY InitStarted, InitModes
  <2>2. LInv /\ ModeInv /\ [Next]_vars => ModeInv'
    BY <1>2, StepModes
  <2>3. Spec => []ModeInv
    BY <2>1, <2>2, AlwaysLInv, PTL DEF Spec
  <2>4. ModeInv => SwitchOutcome
    BY DEF ModeInv, SwitchOutcome
  <2>5. QED
    BY <2>3, <2>4, PTL
<1>3. QED
  BY <1>1, <1>2
==============================================================================
