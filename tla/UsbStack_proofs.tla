---------------------------- MODULE UsbStack_proofs ----------------------------
(***************************************************************************)
(* Proofs about UsbStack: what the gadget HAL and the USB HAL still        *)
(* guarantee when they write the same UDC node.  The invariants of the     *)
(* gadget HAL alone (Gadget_proofs) are kept: the other process changes    *)
(* only pullup, of which they know no more than that it is a Boolean.  So  *)
(* are those of the USB HAL that say nothing of pullup.                    *)
(***************************************************************************)
EXTENDS UsbStack, Gadget_proofs

\* The places of a thread in role switches and in the calls that write one node.
OtherSteps == UsbHal!RoleSteps \cup {"rsLock", "rpWrite", "ecWrite"}

\* Whoever is between the writes of enableUsbData serves that call, and whoever is
\* about to reply to another call does not.
UsbControl(t) ==
    /\ usbPc[t] \in UsbHal!DataSteps => call[t] \in Calls /\ call[t].op = "enableUsbData"
    /\ usbPc[t] \in OtherSteps => call[t].op # "enableUsbData"

UsbInv ==
    /\ DOMAIN usbPc = UsbThreads \cup {Worker}
    /\ DOMAIN call = UsbThreads /\ DOMAIN ok = UsbThreads
    /\ \A t \in UsbThreads : UsbControl(t)
------------------------------------------------------------------------------
(* The steps of the USB HAL, as the UDC node sees them                     *)

LEMMA UsbCalls ==
    ASSUME NEW c \in Calls
    PROVE  /\ c.op = "enableUsbData" => c.on \in BOOLEAN
           /\ c.op \in DOMAIN UsbHal!FirstStep
<1>1. c \in UsbHal!AllCalls
  BY UsbAssumption
<1>2. CASE c \in [op : {"enableUsbData", "limitPowerTransfer",
                        "enableContaminantPresenceDetection"}, on : BOOLEAN]
  BY <1>2 DEF UsbHal!FirstStep
<1>3. CASE c \in [op : {"enableUsbDataWhileDocked", "resetUsbPort", "queryPortStatus"}]
  BY <1>3 DEF UsbHal!FirstStep
<1>4. CASE c \in [op : {"setCallback"}, callback : Callbacks \cup {NoCallback}]
  BY <1>4 DEF UsbHal!FirstStep
<1>5. CASE c \in UNION {[op : {"switchRole"}, tag : {tag}, role : UsbHal!RoleWords[tag]] :
                         tag \in DOMAIN UsbHal!RoleWords}
  <2>1. PICK tag \in DOMAIN UsbHal!RoleWords :
             c \in [op : {"switchRole"}, tag : {tag}, role : UsbHal!RoleWords[tag]]
    BY <1>5
  <2> QED  BY <2>1 DEF UsbHal!FirstStep
<1> QED  BY <1>1, <1>2, <1>3, <1>4, <1>5 DEF UsbHal!AllCalls

\* A query reads nodes, one at a time.
LEMMA UsbReads ==
    ASSUME NEW t, UsbHal!QueryReads(t)
    PROVE  /\ UNCHANGED <<pullup, usbData, call, ok>>
           /\ \E step \in UsbHal!QuerySection : UsbHal!Go(t, step)
<1> USE DEF UsbHal!Step, UsbHal!NextRole, UsbHal!QuerySection, UsbHal!StatusOnly,
            UsbHal!settings, UsbHal!request
<1>1. CASE UsbHal!QScan(t) \/ UsbHal!QMember(t) \/ UsbHal!QDetected(t) \/ UsbHal!QLimit(t)
  BY <1>1 DEF UsbHal!QScan, UsbHal!QMember, UsbHal!QDetected, UsbHal!QLimit
<1>2. CASE UsbHal!QPower(t)
  BY <1>2 DEF UsbHal!QPower
<1>3. CASE UsbHal!QData(t)
  BY <1>3 DEF UsbHal!QData
<1>4. CASE UsbHal!QMode(t)
  BY <1>4 DEF UsbHal!QMode
<1>5. CASE UsbHal!QMoisture(t)
  BY <1>5 DEF UsbHal!QMoisture, UsbHal!PcOnly
<1> QED  BY <1>1, <1>2, <1>3, <1>4, <1>5 DEF UsbHal!QueryReads

\* The worker and the kernel: neither the node nor the calls.
LEMMA WorkerSteps ==
    ASSUME UsbInv, UsbHal!WorkerNext \/ UsbHal!Kernel
    PROVE  /\ UNCHANGED <<pullup, usbData, call, ok>>
           /\ DOMAIN usbPc' = DOMAIN usbPc
           /\ \A u \in UsbThreads : usbPc'[u] = usbPc[u]
<1> USE DEF UsbHal!Step, UsbHal!Go, UsbHal!settings, UsbHal!request, UsbInv
<1>1. CASE UsbHal!Kernel
  BY <1>1 DEF UsbHal!Kernel
<1>2. CASE UsbHal!Query(Worker)
  <2>1. CASE UsbHal!QueryReads(Worker)
    <3>1. PICK step \in UsbHal!QuerySection : UsbHal!Go(Worker, step)
      BY <2>1, UsbReads
    <3>2. UNCHANGED <<pullup, usbData, call, ok>>
      BY <2>1, UsbReads
    <3> QED  BY <3>1, <3>2, UsbAssumption
  <2>2. CASE UsbHal!QLock(Worker) \/ UsbHal!QNotify(Worker)
    BY <2>2, UsbAssumption DEF UsbHal!QLock, UsbHal!QNotify
  <2> QED  BY <1>2, <2>1, <2>2 DEF UsbHal!Query
<1>3. CASE UsbHal!WorkerNext /\ ~UsbHal!Query(Worker)
  BY <1>3, UsbAssumption DEF UsbHal!WorkerNext, UsbHal!WStart, UsbHal!WLoop, UsbHal!WEnter,
     UsbHal!WSignal, UsbHal!WRecv, UsbHal!WPartnerUp, UsbHal!WTryLock, UsbHal!WDrpCheck,
     UsbHal!Drp, UsbHal!WorkerExits, UsbHal!WorkerFrame, UsbHal!RoleLockOnly
<1> QED  BY <1>1, <1>2, <1>3

\* A step of one thread is not one of another.
LEMMA UsbOthersStay ==
    ASSUME UsbInv, NEW t \in UsbThreads, UsbHal!Begin(t) \/ UsbHal!Binder(t)
    PROVE  /\ DOMAIN usbPc' = DOMAIN usbPc /\ DOMAIN call' = DOMAIN call
           /\ DOMAIN ok' = DOMAIN ok
           /\ \A u \in UsbThreads \ {t} :
                 usbPc'[u] = usbPc[u] /\ call'[u] = call[u] /\ ok'[u] = ok[u]
<1> USE DEF UsbHal!Step, UsbHal!Go, UsbHal!request, UsbHal!Return, UsbInv
<1>1. CASE UsbHal!Query(t) \/ UsbHal!Drp(t)
  <2>1. CASE UsbHal!QueryReads(t)
    <3>1. PICK step \in UsbHal!QuerySection : UsbHal!Go(t, step)
      BY <2>1, UsbReads
    <3>2. UNCHANGED <<call, ok>>
      BY <2>1, UsbReads
    <3> QED  BY <3>1, <3>2
  <2>2. CASE UsbHal!QLock(t) \/ UsbHal!QNotify(t) \/ UsbHal!Drp(t)
    BY <2>2 DEF UsbHal!QLock, UsbHal!QNotify, UsbHal!Drp
  <2> QED  BY <1>1, <2>1, <2>2 DEF UsbHal!Query
<1>2. CASE UsbHal!SwitchRole(t)
  BY <1>2 DEF UsbHal!SwitchRole, UsbHal!RsLock, UsbHal!RsWrite, UsbHal!RsRead, UsbHal!SmOpen,
     UsbHal!SmLock, UsbHal!SmWrite, UsbHal!CondTimeout, UsbHal!CondSpurious, UsbHal!SmWake,
     UsbHal!WakeOnly, UsbHal!RoleLockOnly, UsbHal!PcOnly
<1>3. CASE UsbHal!Begin(t) \/ UsbHal!SetCallbackCall(t)
  BY <1>3, UsbAssumption DEF UsbHal!Begin, UsbHal!SetCallbackCall, UsbHal!CbSame,
     UsbHal!CbRegister, UsbHal!CbUnregister, UsbHal!CbJoin
<1>4. CASE UsbHal!EnableUsbData(t) \/ UsbHal!RpWrite(t) \/ UsbHal!LpWrite(t)
           \/ UsbHal!EcWrite(t) \/ UsbHal!Reply(t)
  BY <1>4 DEF UsbHal!EnableUsbData, UsbHal!EdRead, UsbHal!EdPull, UsbHal!EdData, UsbHal!EdSet,
     UsbHal!RpWrite, UsbHal!LpWrite, UsbHal!EcWrite, UsbHal!Reply, UsbHal!PcOnly,
     UsbHal!NodeFrame
<1> QED  BY <1>1, <1>2, <1>3, <1>4 DEF UsbHal!Binder

\* Outside enableUsbData a thread binds nothing and leaves usb_data_enabled alone; it
\* gets to enableUsbData at its beginning, and to no reply of it.
LEMMA OutsideEnable ==
    ASSUME UsbInv, NEW t \in UsbThreads, UsbHal!Begin(t) \/ UsbHal!Binder(t),
           ~UsbHal!EnableUsbData(t)
    PROVE  /\ usbData' = usbData
           /\ pullup' = pullup \/ pullup' = FALSE
           /\ usbPc'[t] \in UsbHal!DataSteps =>
                 usbPc'[t] = "edRead" /\ call'[t] \in Calls /\ call'[t].op = "enableUsbData"
           /\ usbPc'[t] \in OtherSteps \cup {"reply"} => call'[t].op # "enableUsbData"
<1> USE DEF UsbHal!Step, UsbHal!Go, UsbHal!settings, UsbHal!request, UsbHal!Return, UsbInv,
            UsbHal!DataSteps, OtherSteps, UsbHal!RoleSteps, UsbHal!ModeSteps
<1>1. UsbControl(t) /\ t # Worker
  BY UsbAssumption
<1>2. CASE UsbHal!Query(t)
  <2>1. CASE UsbHal!QueryReads(t)
    <3>1. PICK step \in UsbHal!QuerySection : UsbHal!Go(t, step)
      BY <2>1, UsbReads
    <3>2. UNCHANGED <<pullup, usbData>> /\ usbPc'[t] \in UsbHal!QuerySection
      BY <2>1, <3>1, UsbReads
    <3> QED  BY <3>2 DEF UsbHal!QuerySection
  <2>2. CASE UsbHal!QLock(t) \/ UsbHal!QNotify(t)
    BY <1>1, <2>2 DEF UsbHal!QLock, UsbHal!QNotify
  <2> QED  BY <1>2, <2>1, <2>2 DEF UsbHal!Query
<1>3. CASE UsbHal!SwitchRole(t) \/ UsbHal!Drp(t)
  <2>1. UNCHANGED <<usbData, pullup, call>> /\ usbPc[t] \in OtherSteps
    BY <1>3 DEF UsbHal!SwitchRole, UsbHal!RsLock, UsbHal!RsWrite, UsbHal!RsRead, UsbHal!SmOpen,
       UsbHal!SmLock, UsbHal!SmWrite, UsbHal!CondTimeout, UsbHal!CondSpurious, UsbHal!SmWake,
       UsbHal!WakeOnly, UsbHal!RoleLockOnly, UsbHal!PcOnly, UsbHal!Drp
  <2>2. usbPc'[t] \in OtherSteps \cup {"reply"}
    BY <1>1, <1>3 DEF UsbHal!SwitchRole, UsbHal!RsLock, UsbHal!RsWrite, UsbHal!RsRead,
       UsbHal!SmOpen, UsbHal!SmLock, UsbHal!SmWrite, UsbHal!CondTimeout, UsbHal!CondSpurious,
       UsbHal!SmWake, UsbHal!WakeOnly, UsbHal!Drp
  <2> QED  BY <1>1, <2>1, <2>2 DEF UsbControl
<1>4. CASE UsbHal!Begin(t)
  <2>1. PICK c \in Calls : usbPc'[t] = UsbHal!FirstStep[c.op] /\ call'[t] = c
    BY <1>4 DEF UsbHal!Begin
  <2>2. /\ UsbHal!FirstStep[c.op] \in UsbHal!DataSteps =>
              c.op = "enableUsbData" /\ UsbHal!FirstStep[c.op] = "edRead"
        /\ UsbHal!FirstStep[c.op] \in OtherSteps \cup {"reply"} => c.op # "enableUsbData"
    BY UsbCalls DEF UsbHal!FirstStep
  <2> QED  BY <1>4, <2>1, <2>2 DEF UsbHal!Begin
<1>5. CASE UsbHal!RpWrite(t) \/ UsbHal!LpWrite(t) \/ UsbHal!EcWrite(t) \/ UsbHal!Reply(t)
  BY <1>1, <1>5 DEF UsbHal!RpWrite, UsbHal!LpWrite, UsbHal!EcWrite, UsbHal!Reply,
     UsbHal!NodeFrame, UsbControl
<1>6. CASE UsbHal!SetCallbackCall(t)
  BY <1>1, <1>6 DEF UsbHal!SetCallbackCall, UsbHal!CbSame, UsbHal!CbRegister,
     UsbHal!CbUnregister, UsbHal!CbJoin
<1> QED  BY <1>2, <1>3, <1>4, <1>5, <1>6 DEF UsbHal!Binder

\* enableUsbData goes on with the call it serves.
LEMMA InsideEnable ==
    ASSUME UsbInv, NEW t \in UsbThreads, UsbHal!EnableUsbData(t)
    PROVE  /\ call[t] \in Calls /\ call[t].op = "enableUsbData" /\ call[t].on \in BOOLEAN
           /\ call'[t] = call[t]
           /\ usbPc'[t] \in UsbHal!DataSteps \cup {"reply"}
           /\ pullup' = pullup \/ pullup' = call[t].on
<1> USE DEF UsbHal!Step, UsbHal!Go, UsbHal!settings, UsbHal!request, UsbInv, UsbHal!DataSteps,
            UsbHal!PcOnly, UsbHal!NodeFrame
<1>1. call[t] \in Calls /\ call[t].op = "enableUsbData"
  BY DEF UsbControl, UsbHal!EnableUsbData, UsbHal!EdRead, UsbHal!EdPull, UsbHal!EdData,
     UsbHal!EdSet
<1> QED  BY <1>1, UsbCalls DEF UsbHal!EnableUsbData, UsbHal!EdRead, UsbHal!EdPull,
            UsbHal!EdData, UsbHal!EdSet

LEMMA StepUsbInv ==
    ASSUME UsbInv, pullup \in BOOLEAN, [UsbHal!Next]_<<usbVars, pullup>>
    PROVE  UsbInv' /\ pullup' \in BOOLEAN
<1>1. CASE UNCHANGED <<usbVars, pullup>>
  BY <1>1 DEF usbVars, UsbInv, UsbControl
<1>2. CASE UsbHal!WorkerNext \/ UsbHal!Kernel
  BY <1>2, WorkerSteps DEF UsbInv, UsbControl
<1>3. CASE UsbHal!Crash
  BY <1>3 DEF UsbHal!Crash, UsbInv, UsbControl, UsbHal!Threads, UsbHal!settings,
     UsbHal!DataSteps, OtherSteps, UsbHal!RoleSteps, UsbHal!ModeSteps
<1>4. ASSUME NEW t \in UsbThreads, UsbHal!Begin(t) \/ UsbHal!Binder(t)
      PROVE  UsbInv' /\ pullup' \in BOOLEAN
  <2>1. UsbControl(t)' /\ pullup' \in BOOLEAN
    <3>1. CASE UsbHal!EnableUsbData(t)
      BY <3>1, InsideEnable DEF UsbControl, UsbHal!DataSteps, OtherSteps, UsbHal!RoleSteps,
         UsbHal!ModeSteps
    <3>2. CASE ~UsbHal!EnableUsbData(t)
      BY <1>4, <3>2, OutsideEnable DEF UsbControl
    <3> QED  BY <3>1, <3>2
  <2> QED  BY <1>4, <2>1, UsbOthersStay DEF UsbInv, UsbControl
<1> QED  BY <1>1, <1>2, <1>3, <1>4 DEF UsbHal!Next
------------------------------------------------------------------------------
(* The steps of the stack                                                  *)

\* The invariant of the gadget HAL alone, and that of the USB HAL.
StackInv == GInv /\ UsbInv

LEMMA InitStackInv == StackInit => StackInv
<1>1. StackInit => GInv
  BY InitGInv DEF StackInit
<1>2. StackInit => UsbInv
  <2> SUFFICES ASSUME StackInit PROVE UsbInv
    OBVIOUS
  <2>1. /\ usbPc = [t \in UsbThreads \cup {Worker} |-> IF t = Worker THEN "dead" ELSE "idle"]
        /\ call = [t \in UsbThreads |-> UsbHal!NoCall]
        /\ ok = [t \in UsbThreads |-> TRUE]
    BY DEF StackInit, UsbHal!HalInit, UsbHal!Threads
  <2> QED
    BY <2>1 DEF UsbInv, UsbControl, UsbHal!DataSteps, OtherSteps, UsbHal!RoleSteps,
       UsbHal!ModeSteps
<1> QED  BY <1>1, <1>2 DEF StackInv

\* The gadget HAL knows no more of the UDC node than that it is written.
LEMMA GadgetUnseen ==
    ASSUME GInv, pullup' \in BOOLEAN, UNCHANGED gadgetVars
    PROVE  GInv'
<1> USE DEF gadgetVars, members, monitorVars, environment, threads
<1>1. TypeOK'
  BY DEF GInv, TypeOK
<1>2. ControlInv' /\ AloneInv' /\ MonitorInv'
  BY DEF GInv, ControlInv, Control, AloneInv, MonitorInv, Holds, Setting, Asked, Ffs
<1>3. BuildInv'
  BY DEF GInv, BuildInv, Built, Succeeded, Setting, Asked
<1> QED  BY <1>1, <1>2, <1>3 DEF GInv

LEMMA StepStackInv ==
    ASSUME StackInv, [StackNext]_stackVars
    PROVE  StackInv'
<1>1. pullup \in BOOLEAN
  BY DEF StackInv, GInv, TypeOK
<1>2. CASE GadgetStep
  <2>1. GInv'
    BY <1>2, StepGInv DEF GadgetStep, StackInv
  <2>2. UsbInv'
    BY <1>2 DEF GadgetStep, usbVars, StackInv, UsbInv, UsbControl
  <2> QED  BY <2>1, <2>2 DEF StackInv
<1>3. CASE UsbStep
  <2>1. UsbInv' /\ pullup' \in BOOLEAN
    BY <1>1, <1>3, StepUsbInv DEF UsbStep, StackInv
  <2> QED  BY <1>3, <2>1, GadgetUnseen DEF UsbStep, StackInv
<1>4. CASE UNCHANGED stackVars
  <2>1. UNCHANGED vars /\ UNCHANGED usbVars
    BY <1>4 DEF stackVars
  <2> QED  BY <2>1, StepGInv DEF usbVars, StackInv, UsbInv, UsbControl
<1> QED  BY <1>2, <1>3, <1>4 DEF StackNext

LEMMA AlwaysStackInv == StackSpec => []StackInv
  BY InitStackInv, StepStackInv, PTL DEF StackSpec

\* What the history of the UDC node says of a step.
LEMMA Observed ==
    ASSUME NEW who, Observe(who)
    PROVE  /\ pullup' = pullup => writer' = writer
           /\ pullup' # pullup => writer' = who
           /\ \A t \in UsbThreads :
                 /\ pullup' \in seen'[t]
                 /\ usbPc[t] # "idle" => seen[t] \subseteq seen'[t]
BY DEF Observe
------------------------------------------------------------------------------
(* enableUsbData while the gadget HAL rebinds                              *)

\* The node was as asked at some moment of the call, once the call has found it so
\* or has written it.
SeenInv ==
    \A t \in UsbThreads :
       /\ usbPc[t] = "edData" /\ ok[t] => call[t].on \in seen[t]
       /\ usbPc[t] = "edSet" \/ (usbPc[t] = "reply" /\ call[t].op = "enableUsbData") =>
             (ok[t] => call[t].on \in seen[t] /\ usbData = call[t].on)

\* A step that leaves a call alone, whatever it does to the node.
LEMMA KeepSeen ==
    ASSUME SeenInv, NEW who, Observe(who), usbData' = usbData,
           \A t \in UsbThreads : usbPc'[t] = usbPc[t] /\ call'[t] = call[t] /\ ok'[t] = ok[t]
    PROVE  SeenInv'
BY Observed DEF SeenInv

LEMMA EnableSeen ==
    ASSUME StackInv, SeenInv, \A t, u \in UsbThreads : t = u, "UDC_read" \notin UsbFaulty,
           NEW t \in UsbThreads, UsbHal!EnableUsbData(t), Observe("usb")
    PROVE  SeenInv'
<1> USE DEF UsbHal!Step, UsbHal!Go, UsbHal!settings, UsbHal!request, UsbHal!PcOnly,
            UsbHal!NodeFrame
<1>1. /\ call[t].on \in BOOLEAN /\ call'[t] = call[t]
      /\ t \in DOMAIN usbPc /\ t \in DOMAIN ok /\ pullup \in BOOLEAN
      /\ \A u \in UsbThreads : u = t
  BY InsideEnable DEF StackInv, UsbInv, GInv, TypeOK
<1>2. /\ pullup' \in seen'[t]
      /\ usbPc[t] # "idle" => seen[t] \subseteq seen'[t]
  BY Observed
<1>3. CASE UsbHal!EdRead(t)
  <2>1. /\ usbPc'[t] = IF pullup # call[t].on THEN "edPull" ELSE "edData"
        /\ pullup' = pullup
    BY <1>1, <1>3 DEF UsbHal!EdRead, UsbHal!Outcome
  <2> QED  BY <1>1, <1>2, <2>1 DEF SeenInv
<1>4. CASE UsbHal!EdPull(t)
  <2>1. usbPc'[t] = "edData" /\ (ok'[t] => pullup' = call[t].on)
    BY <1>1, <1>4 DEF UsbHal!EdPull
  <2> QED  BY <1>1, <1>2, <2>1 DEF SeenInv
<1>5. CASE UsbHal!EdData(t)
  <2>1. /\ usbPc[t] = "edData" /\ usbPc'[t] = "edSet"
        /\ ok'[t] => ok[t] /\ usbData' = call[t].on
    BY <1>1, <1>5 DEF UsbHal!EdData
  <2> QED  BY <1>1, <1>2, <2>1 DEF SeenInv
<1>6. CASE UsbHal!EdSet(t)
  <2>1. /\ usbPc[t] = "edSet" /\ usbPc'[t] = "reply"
        /\ ok' = ok /\ usbData' = usbData
    BY <1>1, <1>6 DEF UsbHal!EdSet
  <2> QED  BY <1>1, <1>2, <2>1 DEF SeenInv
<1> QED  BY <1>3, <1>4, <1>5, <1>6 DEF UsbHal!EnableUsbData

LEMMA StepSeen ==
    ASSUME StackInv, SeenInv, \A t, u \in UsbThreads : t = u, "UDC_read" \notin UsbFaulty,
           [StackNext]_stackVars
    PROVE  SeenInv'
<1>1. CASE UNCHANGED stackVars
  BY <1>1 DEF stackVars, usbVars, history, SeenInv
<1>2. CASE GadgetStep
  BY <1>2, KeepSeen DEF GadgetStep, usbVars
<1>3. CASE UsbStep
  <2>1. CASE UsbHal!WorkerNext \/ UsbHal!Kernel
    <3>1. /\ UNCHANGED <<usbData, call, ok>>
          /\ \A u \in UsbThreads : usbPc'[u] = usbPc[u]
      BY <2>1, WorkerSteps DEF StackInv
    <3> QED  BY <1>3, <3>1, KeepSeen DEF UsbStep
  <2>2. CASE UsbHal!Crash
    BY <2>2, UsbAssumption DEF UsbHal!Crash, UsbHal!Threads, SeenInv
  <2>3. ASSUME NEW t \in UsbThreads, UsbHal!Begin(t) \/ UsbHal!Binder(t)
        PROVE  SeenInv'
    <3>1. CASE UsbHal!EnableUsbData(t)
      BY <1>3, <3>1, EnableSeen DEF UsbStep
    <3>2. CASE ~UsbHal!EnableUsbData(t)
      <4>1. /\ usbPc'[t] \notin {"edData", "edSet"}
            /\ usbPc'[t] = "reply" => call'[t].op # "enableUsbData"
        BY <2>3, <3>2, OutsideEnable DEF StackInv, UsbHal!DataSteps
      <4> QED  BY <4>1 DEF SeenInv
    <3> QED  BY <3>1, <3>2
  <2> QED  BY <1>3, <2>1, <2>2, <2>3 DEF UsbStep, UsbHal!Next
<1> QED  BY <1>1, <1>2, <1>3 DEF StackNext

\* Usb.cpp:69: with one thread for the calls and a UDC node that can be read, an
\* enableUsbData that reports success found the node as asked at some moment of the
\* call, and usb_data_enabled is as asked, whatever the gadget HAL does in between,
\* whatever fails and whichever process dies.
THEOREM EnabledIsSeen ==
    ASSUME \A t, u \in UsbThreads : t = u, "UDC_read" \notin UsbFaulty
    PROVE  StackSpec => []EnabledDuringCall
<1>1. StackInit => SeenInv
  <2>1. StackInit => \A t \in UsbThreads : usbPc[t] = "idle"
    BY UsbAssumption DEF StackInit, UsbHal!HalInit, UsbHal!Threads
  <2> QED  BY <2>1 DEF SeenInv
<1>2. StackInv /\ SeenInv /\ [StackNext]_stackVars => SeenInv'
  BY StepSeen
<1>3. SeenInv => EnabledDuringCall
  BY DEF SeenInv, EnabledDuringCall
<1> QED  BY <1>1, <1>2, <1>3, AlwaysStackInv, PTL DEF StackSpec
------------------------------------------------------------------------------
(* What the gadget HAL binds while the USB HAL binds and unbinds           *)

ResetMade == \E r \in Requests : r.op = "reset"

\* A set tears down and builds a gadget that is unbound, or that the USB HAL has
\* bound behind its back.
Dark == {"stop", "join", "ids", "generic", "vendor", "adb", "pullUp", "start"}

\* Whoever can bind the gadget, but for the USB HAL, can bind nothing but a whole
\* configuration.  A reset finds one, or nothing, when no set is half way.
BindInv ==
    /\ pullup => links # {}
    /\ pullup /\ ~Whole => writer = "usb"
    /\ monitor # "off" => Whole \/ links = {}
    /\ \A t \in BinderThreads : pc[t] \in Dark /\ pullup => writer = "usb"
    /\ ResetMade /\ (\A t \in BinderThreads : pc[t] \notin {"vendor", "adb"}) =>
          Whole \/ links = {}

\* A link or a process that fails in the middle leaves a half, which a later reset
\* would bind.
NoHalves ==
    /\ "unlink" \notin Faulty
    /\ ResetMade => ResetsAlone /\ "link" \notin Faulty /\ "crash" \notin Faulty

LEMMA UsbBinds ==
    ASSUME StackInv, BindInv, UsbStep
    PROVE  BindInv'
<1>1. {pullup, pullup'} \subseteq BOOLEAN
  BY StepStackInv DEF StackInv, GInv, TypeOK, StackNext
<1>2. /\ pullup' # pullup => writer' = "usb"
      /\ pullup' = pullup => writer' = writer
      /\ pullup' /\ ~pullup => links # {}
  BY Observed DEF UsbStep
<1>3. UNCHANGED <<links, ids, monitor, pc>>
  BY DEF UsbStep, gadgetVars, monitorVars, threads
<1> QED  BY <1>1, <1>2, <1>3 DEF BindInv, Whole

\* The monitor, the daemons and the death of the process.
LEMMA OthersBind ==
    ASSUME StackInv, BindInv, NoHalves, Others, Observe("gadget")
    PROVE  BindInv'
<1> USE DEF threads, configfs
<1>1. /\ {pullup, pullup'} \subseteq BOOLEAN
      /\ \A t \in BinderThreads :
            /\ pc[t] \in {"stop", "join", "ids"} => links = {}
            /\ pc[t] \in BuildSteps => monitor = "off"
  <2>1. TypeOK'
    BY OtherTypes DEF StackInv, GInv
  <2> QED  BY <2>1 DEF StackInv, GInv, TypeOK, BuildInv, Built, MonitorInv
<1>2. pullup' = pullup => writer' = writer
  BY Observed
<1>3. UNCHANGED <<links, ids>>
  BY DEF Others, MonitorNext, MonitorLook, MonitorApply, MonitorEnds, MonitorFrame,
     VendorChange, Crash, DaemonUp, DaemonDown, EnvironmentFrame
<1>4. CASE MonitorLook
  <2>1. UNCHANGED threads /\ monitor # "off" /\ (pullup' = pullup \/ CanBind)
    BY <1>4 DEF MonitorLook, MonitorFrame
  <2>2. CASE pullup' = pullup
    BY <1>2, <1>3, <2>1, <2>2 DEF BindInv, Whole
  <2>3. CASE CanBind
    <3>1. Whole /\ links # {}
      BY <2>1, <2>3 DEF BindInv, CanBind
    <3>2. \A t \in BinderThreads : pc[t] \notin Dark
      BY <1>1, <2>1, <3>1 DEF Dark, BuildSteps
    <3> QED  BY <1>3, <2>1, <3>1, <3>2 DEF BindInv, Whole
  <2> QED  BY <2>1, <2>2, <2>3
<1>5. CASE Crash
  <2>1. /\ \A t \in BinderThreads : pc'[t] = "idle"
        /\ monitor' = "off" /\ pullup' = pullup /\ ~ResetMade
    BY <1>5 DEF Crash, NoHalves
  <2> QED  BY <1>2, <1>3, <2>1 DEF BindInv, Whole, Dark
<1>6. CASE ~MonitorLook /\ ~Crash
  <2>1. UNCHANGED pc /\ (monitor' # "off" => monitor # "off")
    BY <1>6 DEF Others, MonitorNext, MonitorApply, MonitorEnds, MonitorFrame, VendorChange,
       DaemonUp, DaemonDown, EnvironmentFrame
  <2>2. pullup' = pullup \/ \E f \in Daemons : pullup' = (pullup /\ f \notin links)
    BY <1>6 DEF Others, MonitorNext, MonitorApply, MonitorEnds, VendorChange, DaemonUp,
       DaemonDown
  <2>3. pullup' => pullup' = pullup
    BY <1>1, <2>2
  <2> QED  BY <1>2, <1>3, <2>1, <2>3 DEF BindInv, Whole
<1> QED  BY <1>4, <1>5, <1>6

\* A step of a set.
LEMMA SetBinds ==
    ASSUME StackInv, StackInv', BindInv, NoHalves, NEW t \in BinderThreads, Set(t),
           Observe("gadget"),
           \A u \in BinderThreads \ {t} : pc'[u] = pc[u] /\ ~Holds(u)
    PROVE  BindInv'
<1> USE DEF Step, Go, Finish, ThreadOnly, MembersOnly, ConfigfsOnly, MonitorOnly, members,
            monitorVars, configfs, environment
<1>1. /\ Built(t) /\ t \in DOMAIN pc
      /\ pc[t] \in BuildSteps => monitor = "off"
      /\ {pullup, pullup'} \subseteq BOOLEAN
      /\ BuildInv'
  BY DEF StackInv, GInv, BuildInv, TypeOK, MonitorInv
<1>2. \A u \in BinderThreads \ {t} :
         pc'[u] = pc[u] /\ pc[u] \notin Dark /\ pc[u] \notin {"vendor", "adb"}
  BY DEF Holds, LockedSteps, SetSteps, Dark
<1>3. /\ pullup' = pullup => writer' = writer
      /\ pullup' # pullup => writer' = "gadget"
  BY Observed
<1>4. ASSUME /\ pullup' => links' # {}
             /\ pullup' /\ ~Whole' => writer' = "usb"
             /\ monitor' # "off" => Whole' \/ links' = {}
             /\ pc'[t] \in Dark /\ pullup' => writer' = "usb"
             /\ ResetMade /\ pc'[t] \notin {"vendor", "adb"} => Whole' \/ links' = {}
      PROVE  BindInv'
  BY <1>2, <1>4 DEF BindInv
<1>5. ResetMade /\ pc[t] \notin {"vendor", "adb"} => Whole \/ links = {}
  BY <1>2 DEF BindInv
<1>6. CASE SetFunctions(t) \/ SetNotApplied(t) \/ PullDown(t) \/ WaitForPullUp(t)
           \/ StopMonitor(t) \/ JoinMonitor(t) \/ SetApplied(t)
  <2>1. /\ UNCHANGED <<links, ids, monitor>>
        /\ pullup' = pullup \/ pullup' = FALSE
        /\ pc'[t] \in Dark => pc[t] \in Dark
        /\ pc[t] \notin {"vendor", "adb"}
    BY <1>1, <1>6 DEF SetFunctions, SetNotApplied, PullDown, WaitForPullUp, StopMonitor,
       JoinMonitor, SetApplied, TornDown, Dark
  <2> QED  BY <1>3, <1>4, <1>5, <2>1 DEF BindInv, Whole
<1>7. CASE Unlink(t)
  <2>1. links' = {} /\ ids' = {} /\ pullup' = (pullup /\ links' = links)
    BY <1>7 DEF Unlink, NoHalves
  <2>2. ~pullup'
    BY <2>1 DEF BindInv
  <2> QED  BY <1>4, <2>1, <2>2
<1>8. CASE SetIds(t) \/ AddGeneric(t) \/ AddVendor(t) \/ AddAdb(t)
  <2>1. /\ pc[t] \in Dark /\ pc[t] \in BuildSteps /\ UNCHANGED <<pullup, monitor>>
        /\ links \subseteq links'
    BY <1>8 DEF SetIds, AddGeneric, AddVendor, AddAdb, BuildSteps, Link, Dark
  <2>2. ASSUME ResetMade, pc'[t] \notin {"vendor", "adb"}
        PROVE  Whole' \/ links' = {}
    <3>1. "link" \notin Faulty
      BY <2>2 DEF NoHalves
    <3>2. CASE SetIds(t)
      BY <1>1, <3>2 DEF SetIds, Built
    <3>3. CASE AddGeneric(t) \/ AddVendor(t)
      BY <1>1, <2>2, <3>1, <3>3 DEF AddGeneric, AddVendor, Link
    <3>4. CASE AddAdb(t)
      <4>1. pc'[t] \in {"start", "pullUp"}
        BY <1>1, <3>1, <3>4 DEF AddAdb, Link
      <4> QED  BY <1>1, <4>1 DEF BuildInv, Built, Whole, BuildSteps
    <3> QED  BY <1>8, <3>2, <3>3, <3>4
  <2> QED  BY <1>1, <1>3, <1>4, <2>1, <2>2 DEF BindInv
<1>9. CASE PullUp(t)
  <2>1. /\ UNCHANGED <<links, ids, monitor>> /\ pc[t] = "pullUp" /\ pc'[t] \notin Dark
        /\ pullup' = pullup \/ links # {}
    BY <1>1, <1>9 DEF PullUp, CanBind, Dark
  <2>2. Whole'
    BY <2>1, BuiltIsWhole DEF StackInv, GInv, Whole
  <2> QED  BY <1>4, <2>1, <2>2 DEF BindInv
<1>10. CASE StartMonitor(t)
  <2>1. UNCHANGED <<links, ids, pullup>> /\ pc[t] = "start" /\ pc'[t] \notin Dark
    BY <1>1, <1>10 DEF StartMonitor, Dark
  <2>2. Whole'
    BY <2>1, BuiltIsWhole DEF StackInv, GInv, Whole
  <2> QED  BY <1>4, <2>1, <2>2 DEF BindInv
<1> QED  BY <1>6, <1>7, <1>8, <1>9, <1>10 DEF Set

LEMMA GadgetBinds ==
    ASSUME StackInv, StackInv', BindInv, NoHalves, GadgetStep
    PROVE  BindInv'
<1> USE DEF Step, Go, Finish, ThreadOnly, ConfigfsOnly, monitorVars, configfs
<1>1. CASE Others
  BY <1>1, OthersBind DEF GadgetStep
<1>2. ASSUME NEW t \in BinderThreads, Begin(t) \/ Binder(t)
      PROVE  BindInv'
  <2>1. \A u \in BinderThreads \ {t} : pc'[u] = pc[u] /\ (Holds(t) => ~Holds(u))
    BY <1>2, OtherHolders DEF StackInv, GInv
  <2>2. /\ t \in DOMAIN pc /\ {pullup, pullup'} \subseteq BOOLEAN
        /\ pullup' = pullup => writer' = writer
    BY Observed DEF StackInv, GInv, TypeOK, GadgetStep
  <2>3. CASE Set(t)
    BY <2>1, <2>3, SetMoves, SetBinds DEF StackInv, GInv, GadgetStep
  <2>4. CASE Begin(t) \/ SetLock(t) \/ Reply(t)
    <3>1. /\ UNCHANGED <<links, ids, pullup, monitor>> /\ pc'[t] \notin Dark
          /\ pc[t] \notin {"vendor", "adb"}
      BY <2>2, <2>4 DEF Begin, SetLock, Reply, Dark
    <3> QED  BY <2>1, <2>2, <3>1 DEF BindInv, Whole
  <2>5. CASE Reset(t)
    <3>1. /\ UNCHANGED <<links, ids, monitor>> /\ pc[t] \in {"resetDown", "resetUp"}
          /\ pc'[t] \notin Dark
          /\ pullup' => pullup \/ links # {}
      BY <2>2, <2>5 DEF Reset, ResetDown, ResetUp, CanBind, Dark
    <3>2. request[t] \in Requests /\ ~Setting(t)
      BY <3>1 DEF StackInv, GInv, ControlInv, Control
    <3>3. ResetMade
      BY <3>2, RequestFields DEF ResetMade, Setting
    <3>4. \A u \in BinderThreads \ {t} : pc[u] = "idle"
      BY <3>1, <3>3, ResetIsAlone DEF NoHalves, StackInv
    <3>5. Whole \/ links = {}
      BY <3>1, <3>3, <3>4 DEF BindInv
    <3>6. \A u \in BinderThreads : pc'[u] \notin Dark
      BY <2>1, <3>1, <3>4 DEF Dark
    <3> QED  BY <3>1, <3>5, <3>6 DEF BindInv, Whole
  <2> QED  BY <1>2, <2>3, <2>4, <2>5 DEF Binder
<1> QED  BY <1>1, <1>2 DEF GadgetStep, Next, Others

\* UsbGadget.cpp:324, "Leave the gadget pulled down": where no half of a gadget can be
\* left for a reset to bind, the gadget HAL binds nothing but whole configurations,
\* also while the USB HAL binds and unbinds between its steps.
THEOREM GadgetBindsNoHalf ==
    ASSUME NoHalves
    PROVE  StackSpec => []GadgetBindsWhole
<1>1. StackInit => BindInv
  BY DEF StackInit, Init, BindInv, Dark
<1>2. StackInv /\ StackInv' /\ BindInv /\ [StackNext]_stackVars => BindInv'
  <2>1. CASE UNCHANGED stackVars
    BY <2>1 DEF stackVars, vars, monitorVars, configfs, threads, history, BindInv, Whole
  <2> QED  BY <2>1, UsbBinds, GadgetBinds DEF StackNext
<1>3. BindInv => GadgetBindsWhole
  BY DEF BindInv, GadgetBindsWhole, Whole, Shown
<1> QED  BY <1>1, <1>2, <1>3, AlwaysStackInv, PTL DEF StackSpec

\* UsbGadget.cpp:316: what the monitor waits for does not depend on the UDC node, so
\* the USB HAL does not disturb it.
THEOREM MonitorStaysCurrent ==
    ASSUME "link" \notin Faulty, "unlink" \notin Faulty
    PROVE  StackSpec => []MonitorServesCurrent
<1>1. StackInit => ServedInv
  BY ServedStart DEF StackInit
<1>2. StackInv /\ ServedInv /\ [StackNext]_stackVars => ServedInv'
  <2>1. CASE GadgetStep
    BY <2>1, StepServed DEF GadgetStep, StackInv
  <2>2. CASE UsbStep
    BY <2>2 DEF UsbStep, gadgetVars, members, monitorVars, threads, ServedInv, Served,
       MonitorServesCurrent, Setting, Asked, Ffs
  <2>3. CASE UNCHANGED stackVars
    BY <2>3, StepServed DEF stackVars, StackInv
  <2> QED  BY <2>1, <2>2, <2>3 DEF StackNext
<1>3. ServedInv => MonitorServesCurrent
  BY DEF ServedInv
<1> QED  BY <1>1, <1>2, <1>3, AlwaysStackInv, PTL DEF StackSpec
------------------------------------------------------------------------------
(* What the USB HAL keeps inside the stack                                 *)

\* The proofs about Usb alone, for the USB HAL of the stack.
UsbProofs == INSTANCE Usb_reports_proofs
                 WITH BinderThreads <- UsbThreads, Faulty <- UsbFaulty, pc <- usbPc

LEMMA UsbAssumptions ==
    UsbProofs!ThreadAssumption /\ UsbProofs!CallAssumption /\ UsbProofs!FaultAssumption
    /\ UsbProofs!KernelAssumption
BY UsbAssumption DEF UsbProofs!ThreadAssumption, UsbProofs!CallAssumption,
     UsbProofs!FaultAssumption, UsbProofs!KernelAssumption,
     UsbHal!AllKernelEvents, UsbProofs!AllKernelEvents, UsbHal!RolesOf,
     UsbProofs!RolesOf, UsbHal!Threads, UsbProofs!Threads, UsbHal!RoleWords,
     UsbProofs!RoleWords, UsbHal!AllCalls, UsbProofs!AllCalls, UsbHal!Faults,
     UsbProofs!Faults

\* Both are instances of the same module: the definitions of the one are those of the
\* other.
LEMMA SameNext ==
    /\ UsbHal!Next <=> UsbProofs!Next
    /\ UsbHal!vars = UsbProofs!vars
BY DEF UsbHal!PortTypes, UsbProofs!PortTypes, UsbHal!RolesOf, UsbProofs!RolesOf,
     UsbHal!RoleTags, UsbProofs!RoleTags, UsbHal!Broadcast, UsbProofs!Broadcast,
     UsbHal!PortTypeWritten, UsbProofs!PortTypeWritten, UsbHal!PartnerAttach,
     UsbProofs!PartnerAttach, UsbHal!PartnerDetach, UsbProofs!PartnerDetach,
     UsbHal!Swap, UsbProofs!Swap, UsbHal!RoleChange, UsbProofs!RoleChange,
     UsbHal!MoistureChange, UsbProofs!MoistureChange, UsbHal!OtherUevent,
     UsbProofs!OtherUevent, UsbHal!KernelNext, UsbProofs!KernelNext, UsbHal!Threads,
     UsbProofs!Threads, UsbHal!NoCall, UsbProofs!NoCall, UsbHal!Outcome,
     UsbProofs!Outcome, UsbHal!settings, UsbProofs!settings, UsbHal!locks,
     UsbProofs!locks, UsbHal!kernel, UsbProofs!kernel, UsbHal!members,
     UsbProofs!members, UsbHal!signals, UsbProofs!signals, UsbHal!request,
     UsbProofs!request, UsbHal!reports, UsbProofs!reports, UsbHal!vars, UsbProofs!vars,
     UsbHal!NoStatus, UsbProofs!NoStatus, UsbHal!Go, UsbProofs!Go, UsbHal!Step,
     UsbProofs!Step, UsbHal!PcOnly, UsbProofs!PcOnly, UsbHal!NodeFrame,
     UsbProofs!NodeFrame, UsbHal!StatusOnly, UsbProofs!StatusOnly, UsbHal!WakeOnly,
     UsbProofs!WakeOnly, UsbHal!RoleLockOnly, UsbProofs!RoleLockOnly,
     UsbHal!WorkerFrame, UsbProofs!WorkerFrame, UsbHal!Return, UsbProofs!Return,
     UsbHal!FirstStep, UsbProofs!FirstStep, UsbHal!Begin, UsbProofs!Begin,
     UsbHal!EdRead, UsbProofs!EdRead, UsbHal!EdPull, UsbProofs!EdPull, UsbHal!EdData,
     UsbProofs!EdData, UsbHal!EdSet, UsbProofs!EdSet, UsbHal!RpWrite, UsbProofs!RpWrite,
     UsbHal!LpWrite, UsbProofs!LpWrite, UsbHal!EcWrite, UsbProofs!EcWrite, UsbHal!Reply,
     UsbProofs!Reply, UsbHal!RsLock, UsbProofs!RsLock, UsbHal!RsWrite,
     UsbProofs!RsWrite, UsbHal!RsRead, UsbProofs!RsRead, UsbHal!SmOpen,
     UsbProofs!SmOpen, UsbHal!SmLock, UsbProofs!SmLock, UsbHal!SmWrite,
     UsbProofs!SmWrite, UsbHal!CondTimeout, UsbProofs!CondTimeout, UsbHal!CondSpurious,
     UsbProofs!CondSpurious, UsbHal!SmWake, UsbProofs!SmWake, UsbHal!Drp, UsbProofs!Drp,
     UsbHal!QLock, UsbProofs!QLock, UsbHal!QScan, UsbProofs!QScan, UsbHal!NextRole,
     UsbProofs!NextRole, UsbHal!QPower, UsbProofs!QPower, UsbHal!QData, UsbProofs!QData,
     UsbHal!QMode, UsbProofs!QMode, UsbHal!QMember, UsbProofs!QMember, UsbHal!QMoisture,
     UsbProofs!QMoisture, UsbHal!QDetected, UsbProofs!QDetected, UsbHal!QLimit,
     UsbProofs!QLimit, UsbHal!QNotify, UsbProofs!QNotify, UsbHal!SetCallback,
     UsbProofs!SetCallback, UsbHal!CbSame, UsbProofs!CbSame, UsbHal!CbRegister,
     UsbProofs!CbRegister, UsbHal!CbUnregister, UsbProofs!CbUnregister, UsbHal!CbJoin,
     UsbProofs!CbJoin, UsbHal!WorkerExits, UsbProofs!WorkerExits, UsbHal!WStart,
     UsbProofs!WStart, UsbHal!WLoop, UsbProofs!WLoop, UsbHal!WEnter, UsbProofs!WEnter,
     UsbHal!WSignal, UsbProofs!WSignal, UsbHal!WRecv, UsbProofs!WRecv, UsbHal!Waiters,
     UsbProofs!Waiters, UsbHal!WPartnerUp, UsbProofs!WPartnerUp, UsbHal!WTryLock,
     UsbProofs!WTryLock, UsbHal!WDrpCheck, UsbProofs!WDrpCheck, UsbHal!Crash,
     UsbProofs!Crash, UsbHal!EnableUsbData, UsbProofs!EnableUsbData, UsbHal!SwitchRole,
     UsbProofs!SwitchRole, UsbHal!QueryReads, UsbProofs!QueryReads, UsbHal!Query,
     UsbProofs!Query, UsbHal!SetCallbackCall, UsbProofs!SetCallbackCall, UsbHal!Binder,
     UsbProofs!Binder, UsbHal!WorkerNext, UsbProofs!WorkerNext, UsbHal!Kernel,
     UsbProofs!Kernel, UsbHal!Next, UsbProofs!Next

LEMMA SameInit ==
    /\ UsbHal!KernelInit <=> UsbProofs!KernelInit
    /\ UsbHal!HalInit <=> UsbProofs!HalInit
BY DEF UsbHal!KernelInit, UsbProofs!KernelInit, UsbHal!Threads, UsbProofs!Threads,
     UsbHal!NoCall, UsbProofs!NoCall, UsbHal!NoStatus, UsbProofs!NoStatus,
     UsbHal!SettingTypeOK, UsbProofs!SettingTypeOK, UsbHal!HalInit, UsbProofs!HalInit

LEMMA SameType == UsbHal!TypeOK <=> UsbProofs!TypeOK
BY DEF UsbHal!PortTypes, UsbProofs!PortTypes, UsbHal!RolesOf, UsbProofs!RolesOf,
     UsbHal!Uevents, UsbProofs!Uevents, UsbHal!KernelTypeOK, UsbProofs!KernelTypeOK,
     UsbHal!Threads, UsbProofs!Threads, UsbHal!NoCall, UsbProofs!NoCall, UsbHal!Status,
     UsbProofs!Status, UsbHal!QuerySection, UsbProofs!QuerySection, UsbHal!QuerySteps,
     UsbProofs!QuerySteps, UsbHal!ModeSteps, UsbProofs!ModeSteps, UsbHal!RoleSteps,
     UsbProofs!RoleSteps, UsbHal!DataSteps, UsbProofs!DataSteps, UsbHal!BinderSteps,
     UsbProofs!BinderSteps, UsbHal!WorkerSteps, UsbProofs!WorkerSteps,
     UsbHal!MemberTypeOK, UsbProofs!MemberTypeOK, UsbHal!LockTypeOK,
     UsbProofs!LockTypeOK, UsbHal!SignalTypeOK, UsbProofs!SignalTypeOK,
     UsbHal!SettingTypeOK, UsbProofs!SettingTypeOK, UsbHal!PcTypeOK, UsbProofs!PcTypeOK,
     UsbHal!RequestTypeOK, UsbProofs!RequestTypeOK, UsbHal!ReportTypeOK,
     UsbProofs!ReportTypeOK, UsbHal!TypeOK, UsbProofs!TypeOK

LEMMA SameProperties ==
    /\ UsbHal!WorkerServesCallback <=> UsbProofs!WorkerServesCallback
    /\ UsbHal!NoLostPartnerSignal <=> UsbProofs!NoLostPartnerSignal
    /\ UsbHal!SwitchOutcome <=> UsbProofs!SwitchOutcome
    /\ UsbHal!SettingsFresh <=> UsbProofs!SettingsFresh
    /\ UsbHal!PortFresh <=> UsbProofs!PortFresh
    /\ \A t \in UsbThreads : UsbHal!SwitchingMode(t) <=> UsbProofs!SwitchingMode(t)
BY DEF UsbHal!WorkerServesCallback, UsbProofs!WorkerServesCallback,
     UsbHal!NoLostPartnerSignal, UsbProofs!NoLostPartnerSignal,
     UsbHal!SwitchOutcome, UsbProofs!SwitchOutcome,
     UsbHal!SettingsFresh, UsbProofs!SettingsFresh, UsbHal!PortFresh, UsbProofs!PortFresh,
     UsbHal!SwitchingMode, UsbProofs!SwitchingMode, UsbHal!QuerySteps, UsbProofs!QuerySteps,
     UsbHal!QuerySection, UsbProofs!QuerySection, UsbHal!Contaminant, UsbProofs!Contaminant

\* What the gadget HAL does to the USB HAL is a step of somebody else who binds or
\* unbinds the gadget.
LEMMA StepUsbHal ==
    ASSUME StackInv, StackInv', UsbProofs!HalInv, [StackNext]_stackVars
    PROVE  UsbProofs!HalInv'
<1>1. pullup' \in BOOLEAN
  BY DEF StackInv, GInv, TypeOK
<1>2. CASE UNCHANGED usbVars
  <2>1. UNCHANGED <<UsbProofs!members, UsbProofs!locks, UsbProofs!signals, usbData, sinkLimit,
                    sourceLimit, moistureEnabled, usbPc, UsbProofs!request,
                    UsbProofs!reports, UsbProofs!kernel>>
    BY <1>2 DEF usbVars, UsbProofs!members, UsbProofs!locks, UsbProofs!signals,
       UsbProofs!request, UsbProofs!reports, UsbProofs!kernel
  <2> QED  BY <1>1, <2>1, UsbAssumptions, UsbProofs!NodeHal
<1>3. CASE UsbStep
  <2>1. UsbProofs!Next
    BY <1>3, SameNext DEF UsbStep
  <2> QED  BY <2>1, UsbAssumptions, UsbProofs!StepHal
<1> QED  BY <1>2, <1>3 DEF StackNext, GadgetStep, stackVars

LEMMA AlwaysUsbHal == StackSpec => []UsbProofs!HalInv
<1>1. StackInit => UsbProofs!HalInv
  <2> SUFFICES ASSUME StackInit
               PROVE  UsbProofs!HalInv
    OBVIOUS
  <2>1. UsbProofs!KernelInit /\ UsbProofs!HalInit
    BY SameInit DEF StackInit
  <2>2. UsbProofs!SettingTypeOK
    BY DEF StackInit, Init, UsbProofs!SettingTypeOK
  <2>3. UsbProofs!Started
    BY <2>1, <2>2 DEF UsbProofs!Started
  <2> QED  BY <2>3, UsbAssumptions, UsbProofs!InitHal
<1>2. StackInv /\ StackInv' /\ UsbProofs!HalInv /\ [StackNext]_stackVars
         => UsbProofs!HalInv'
  BY StepUsbHal
<1> QED  BY <1>1, <1>2, AlwaysStackInv, PTL DEF StackSpec

LEMMA UsbHalSafe ==
    ASSUME UsbProofs!HalInv
    PROVE  /\ UsbHal!TypeOK /\ UsbHal!WorkerServesCallback /\ UsbHal!NoLostPartnerSignal
           /\ UsbHal!SwitchOutcome /\ UsbHal!SettingsFresh /\ UsbHal!PortFresh
<1>1. /\ UsbProofs!TypeOK /\ UsbProofs!WorkerServesCallback
      /\ UsbProofs!NoLostPartnerSignal /\ UsbProofs!SwitchOutcome
      /\ UsbProofs!SettingsFresh /\ UsbProofs!PortFresh
  BY UsbAssumptions, UsbProofs!HalSafe
<1> QED  BY <1>1, SameType, SameProperties

\* usb/gadget/service_gadget.cpp and usb/usb/service.cpp are processes of their own:
\* every variable of the USB HAL keeps its type beside a gadget HAL that writes its
\* UDC node at any time and dies at any time.
THEOREM UsbHalTypeCorrect == StackSpec => []UsbHal!TypeOK
BY AlwaysUsbHal, UsbHalSafe, PTL

\* So does what Usb.cpp:327 and :540 promise of the threads: nobody who waits for a
\* partner has missed one, and a worker runs only for a callback.
THEOREM UsbHalServed ==
    StackSpec => [](UsbHal!NoLostPartnerSignal /\ UsbHal!WorkerServesCallback)
BY AlwaysUsbHal, UsbHalSafe, PTL

\* So does what a mode switch reports (Usb.cpp:311).
THEOREM UsbHalSwitches == StackSpec => []UsbHal!SwitchOutcome
BY AlwaysUsbHal, UsbHalSafe, PTL

\* So does what the callback is told, of the settings and of the port, as far as the
\* nodes can be read: the data status that the USB HAL reports does not depend on who
\* has bound the gadget.
THEOREM UsbHalReports == StackSpec => [](UsbHal!SettingsFresh /\ UsbHal!PortFresh)
BY AlwaysUsbHal, UsbHalSafe, PTL

\* And nobody else writes port_type between a mode switch and its reply.
THEOREM UsbHalOwnsPortType == StackSpec => UsbHal!PortTypeOwned
<1> DEFINE Owned == \A t \in UsbThreads :
                       /\ UsbHal!SwitchingMode(t)
                       /\ usbPc[t] \in {"condwait", "drp", "reply"}
                       /\ usbPc'[t] = usbPc[t]
                       => portType' = portType
<1>1. UsbProofs!HalInv /\ [StackNext]_stackVars => [Owned]_(UsbHal!vars)
  <2> SUFFICES ASSUME UsbProofs!HalInv, [StackNext]_stackVars, NEW t \in UsbThreads,
                      UsbHal!SwitchingMode(t), usbPc[t] \in {"condwait", "drp", "reply"},
                      usbPc'[t] = usbPc[t]
               PROVE  portType' = portType
    OBVIOUS
  <2>1. CASE UNCHANGED usbVars
    BY <2>1 DEF usbVars
  <2>2. CASE UsbStep
    <3>1. UsbProofs!Next /\ UsbProofs!SwitchingMode(t)
      BY <2>2, SameNext, SameProperties DEF UsbStep
    <3>2. UsbProofs!LInv
      BY DEF UsbProofs!HalInv
    <3> QED  BY <3>1, <3>2, UsbAssumptions, UsbProofs!OnlyOwnerWrites
  <2> QED  BY <2>1, <2>2 DEF StackNext, GadgetStep, stackVars
<1> QED  BY <1>1, AlwaysUsbHal, PTL DEF StackSpec, UsbHal!PortTypeOwned
==============================================================================
