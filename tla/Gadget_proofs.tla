---------------------------- MODULE Gadget_proofs ----------------------------
(***************************************************************************)
(* Proofs about Gadget for any number of binder threads, any requests, any *)
(* vendor properties, daemons and faults.                                  *)
(***************************************************************************)
EXTENDS Gadget, TLAPS

\* The steps of a set that holds the mutex, and those that change the gadget once
\* the old monitor is gone.
LockedSteps == SetSteps \ {"lock"}
BuildSteps == {"ids", "generic", "vendor", "adb", "pullUp", "applied", "start"}

\* The functions a thread sets, and those of them that a daemon serves.
Asked(t) == request[t].functions
Ffs(t) == Asked(t) \cap FfsFunctions

Holds(t) == pc[t] \in LockedSteps \/ (pc[t] = "reply" /\ Setting(t))
Succeeded(t) ==
    pc[t] = "reply" /\ Setting(t) /\ outcome[t] = "SUCCESS" /\ Asked(t) # {}
------------------------------------------------------------------------------
(* The inductive invariant, in parts                                       *)

\* What a thread at each step is there for, and which threads own the mutex.
Control(t) ==
    /\ mLockSetCurrentFunction = t <=> Holds(t)
    /\ pc[t] # "idle" => request[t] \in Requests
    /\ pc[t] = "idle" => request[t] = NoRequest
    /\ pc[t] \in SetSteps => Setting(t)
    /\ pc[t] \in {"resetDown", "resetUp"} => ~Setting(t)
    /\ pc[t] \in BuildSteps \cup {"wait"} => Asked(t) # {}
    /\ pc[t] \in {"pullUp", "applied"} => Ffs(t) = {}
    /\ pc[t] \in {"start", "wait"} => Ffs(t) # {}
ControlInv == \A t \in BinderThreads : Control(t)

\* A request that is made alone stays alone.
AloneInv ==
    \A t, u \in BinderThreads :
       t # u /\ pc[t] # "idle" /\ pc[u] # "idle" => request[t] \notin Alone

\* The monitor ends only for a thread that joins it, and is gone while the next
\* gadget is built.
MonitorInv ==
    /\ stopMonitor => \E t \in BinderThreads : pc[t] = "join"
    /\ \A t \in BinderThreads :
          /\ pc[t] \in BuildSteps => monitor = "off"
          /\ pc[t] = "wait" => monitor # "off"

\* What a set has made of configfs at each of its steps.
Built(t) ==
    /\ pc[t] \in {"stop", "join", "ids"} => links = {} /\ ids = {}
    /\ pc[t] = "generic" => links = {}
    /\ pc[t] \in {"vendor", "adb"} => links \cap Functions = Asked(t) \ {"ADB"}
    /\ pc[t] \in {"pullUp", "applied", "start", "wait"} \/ Succeeded(t)
          => links \cap Functions = Asked(t)
    /\ pc[t] \in (BuildSteps \cup {"wait"}) \ {"ids"} \/ Succeeded(t)
          => [functions |-> Asked(t), ids |-> ids] \in Configurations
BuildInv == \A t \in BinderThreads : Built(t)

GInv == TypeOK /\ ControlInv /\ AloneInv /\ MonitorInv /\ BuildInv
------------------------------------------------------------------------------
(* Under the assumption that a reset overlaps no other call                *)

\* A reset overlaps no other call: the framework makes it alone, or there is one
\* thread to serve both.
ResetsAlone ==
    \/ \A r \in Requests : r.op = "reset" => r \in Alone
    \/ \A t, u \in BinderThreads : t = u

\* What a set has been bound to stays bound, or the monitor will bind it.
Kept(t) ==
    /\ pc[t] \in {"vendor", "adb"} => Ffs(t) \ {"ADB"} \subseteq watched
    /\ pc[t] \in {"start", "wait"} \/ Succeeded(t) => Ffs(t) \subseteq watched
    /\ pc[t] \in {"applied", "wait"} \/ Succeeded(t)
          => pullup \/ (Ffs(t) # {} /\ (armed \/ changed = "went"))
KeptInv == \A t \in BinderThreads : Kept(t)

\* Whoever can bind the gadget can bind nothing but a whole configuration.
Whole == [functions |-> links \cap Functions, ids |-> ids] \in Configurations
WholeInv ==
    /\ pullup => Whole /\ links # {}
    /\ monitor # "off" => Whole \/ links = {}
    /\ \A t \in BinderThreads :
          /\ pc[t] = "resetUp" => Whole
          /\ pc[t] \in {"stop", "join", "ids", "generic", "vendor", "adb", "pullUp", "start"}
                => ~pullup

\* While no set tears down or builds, the monitor is there for the functions of
\* the last one, or it is not there and has no endpoints left.
Served(t) ==
    /\ pc[t] \in LockedSteps \ {"functions"} \/ (pc[t] = "reply" /\ Setting(t))
          => mCurrentUsbFunctions = Asked(t)
    /\ pc[t] \in {"ids", "generic", "pullUp", "applied"} => watched = {}
    /\ pc[t] \in {"vendor", "adb"} => watched = Ffs(t) \ {"ADB"}
    /\ pc[t] \in {"start", "wait"} => watched = Ffs(t)
    /\ pc[t] \in {"functions", "reply"} /\ Setting(t) /\ monitor # "off"
          => watched = mCurrentUsbFunctions \cap FfsFunctions
ServedInv ==
    /\ MonitorServesCurrent
    /\ \A t \in BinderThreads : Served(t)
    /\ monitor = "off" /\ watched # {}
          => \E t \in BinderThreads : pc[t] \in {"join", "vendor", "adb", "start"}
------------------------------------------------------------------------------
(* Requests and threads                                                    *)

LEMMA RequestFields ==
    ASSUME NEW r \in Requests
    PROVE  /\ r.op \in {"setCurrentUsbFunctions", "reset"} /\ r # NoRequest
           /\ r.op = "setCurrentUsbFunctions" =>
                 r.functions \in SUBSET Functions /\ r.callback \in BOOLEAN
<1>1. r \in AllRequests
  BY RequestAssumption
<1> QED  BY <1>1 DEF AllRequests, NoRequest

\* The mutex has one owner.
LEMMA OneHolder ==
    ASSUME ControlInv, NEW t \in BinderThreads, NEW u \in BinderThreads,
           Holds(t), Holds(u)
    PROVE  t = u
BY DEF ControlInv, Control

\* A thread that sets functions has a request that says which.
LEMMA SetRequest ==
    ASSUME ControlInv, NEW t \in BinderThreads, Holds(t) \/ pc[t] = "lock"
    PROVE  /\ request[t] \in Requests /\ Setting(t)
           /\ Asked(t) \in SUBSET Functions /\ request[t].callback \in BOOLEAN
<1>1. Setting(t) /\ request[t] \in Requests
  BY DEF ControlInv, Control, Holds, LockedSteps, SetSteps
<1> QED  BY <1>1, RequestFields DEF Setting, Asked

\* No row of the tables is for a gadget without functions.
LEMMA NoIdsForNothing ==
    ASSUME NEW v
    PROVE  ProductIds({}, v) = {}
<1>1. \A r \in DebugIds : r[1] # {}
  <2> SUFFICES ASSUME NEW r \in DebugIds PROVE r[1] # {}
    OBVIOUS
  <2>1. \E words, id : \/ r = <<{"MTP"}, words, id>> \/ r = <<{"MTP", "ADB"}, words, id>>
                       \/ r = <<{"RNDIS"}, words, id>> \/ r = <<{"RNDIS", "ADB"}, words, id>>
                       \/ r = <<{"ADB"}, words, id>>
    BY SMTT(30) DEF DebugIds
  <2> QED  BY <2>1
<1>2. \A r \in UserIds : r[1] # {}
  BY DEF UserIds
<1>3. \A r \in AccessoryIds : r[1] # {}
  BY DEF AccessoryIds
<1> QED  BY <1>1, <1>2, <1>3 DEF ProductIds
------------------------------------------------------------------------------
(* Types                                                                   *)

TypesOfThreads ==
    /\ pc \in [BinderThreads -> Steps]
    /\ request \in [BinderThreads -> Requests \cup {NoRequest}]
    /\ outcome \in [BinderThreads -> {"none", "SUCCESS", "ERROR",
                                      "CONFIGURATION_NOT_SUPPORTED"}]

LEMMA InitTypes == Init => TypeOK
<1> SUFFICES ASSUME Init PROVE TypeOK
  OBVIOUS
<1>1. {} \in AllProductIds
  BY NoIdsForNothing DEF Init, AllProductIds
<1>2. TypesOfThreads
  BY DEF Init, TypesOfThreads, Steps
<1> QED  BY <1>1, <1>2, FunctionAssumption DEF Init, TypeOK, TypesOfThreads

\* Where a thread moves to and what it has to report.
LEMMA MoveTypes ==
    ASSUME TypesOfThreads, NEW t \in BinderThreads,
           \/ \E step \in Steps : Go(t, step)
           \/ \E status \in {"SUCCESS", "ERROR", "CONFIGURATION_NOT_SUPPORTED"} :
                 Finish(t, status)
    PROVE  TypesOfThreads'
BY DEF TypesOfThreads, Go, Finish, Steps

LEMMA BinderTypes ==
    ASSUME TypeOK, ControlInv, NEW t \in BinderThreads, Begin(t) \/ Binder(t)
    PROVE  TypeOK'
<1> USE DEF Step, MembersOnly, ConfigfsOnly, MonitorOnly, ThreadOnly, members, monitorVars,
            configfs, environment, threads
<1>1. TypesOfThreads /\ SetSteps \subseteq Steps /\ {"reply", "resetUp"} \subseteq Steps
  BY DEF TypeOK, TypesOfThreads, Steps
<1>2. Holds(t) \/ pc[t] = "lock" => Asked(t) \in SUBSET Functions
  BY SetRequest
<1>3. CASE Begin(t)
  <2>1. TypesOfThreads'
    BY <1>1, <1>3 DEF Begin, TypesOfThreads, Steps, SetSteps
  <2> QED  BY <1>3, <2>1 DEF Begin, TypeOK, TypesOfThreads
<1>4. CASE SetLock(t) \/ SetNotApplied(t) \/ PullDown(t)
  <2>1. TypesOfThreads'
    BY <1>1, <1>4, MoveTypes DEF SetLock, SetNotApplied, PullDown, SetSteps
  <2>2. CASE SetLock(t)
    BY <2>1, <2>2 DEF SetLock, TypeOK, TypesOfThreads
  <2>3. CASE SetNotApplied(t)
    BY <2>1, <2>3 DEF SetNotApplied, TypeOK, TypesOfThreads
  <2>4. CASE PullDown(t)
    BY <2>1, <2>4 DEF PullDown, TypeOK, TypesOfThreads
  <2> QED  BY <1>4, <2>2, <2>3, <2>4
<1>5. CASE SetFunctions(t)
  <2>1. TypesOfThreads'
    BY <1>1, <1>5, MoveTypes DEF SetFunctions, SetSteps
  <2>2. mCurrentUsbFunctions' \in SUBSET Functions
    BY <1>2, <1>5 DEF SetFunctions, Holds, LockedSteps, SetSteps, Asked
  <2> QED  BY <1>5, <2>1, <2>2 DEF SetFunctions, TypeOK, TypesOfThreads
<1>6. CASE Unlink(t)
  <2>1. TypesOfThreads'
    BY <1>1, <1>6, MoveTypes DEF Unlink, SetSteps
  <2>2. {} \in AllProductIds
    BY NoIdsForNothing DEF AllProductIds, TypeOK
  <2> QED  BY <1>6, <2>1, <2>2 DEF Unlink, TypeOK, TypesOfThreads
<1>7. CASE StopMonitor(t) \/ JoinMonitor(t)
  <2>1. TypesOfThreads'
    BY <1>1, <1>7, MoveTypes DEF StopMonitor, JoinMonitor, TornDown, SetSteps
  <2>2. CASE StopMonitor(t)
    BY <2>1, <2>2 DEF StopMonitor, TypeOK, TypesOfThreads
  <2>3. CASE JoinMonitor(t)
    BY <2>1, <2>3 DEF JoinMonitor, TypeOK, TypesOfThreads
  <2> QED  BY <1>7, <2>2, <2>3
<1>8. CASE SetIds(t)
  <2>1. TypesOfThreads'
    BY <1>1, <1>8, MoveTypes DEF SetIds, SetSteps
  <2>2. Asked(t) \in SUBSET Functions
    BY <1>2, <1>8 DEF SetIds, Holds, LockedSteps, SetSteps
  <2>3. ids' \in AllProductIds
    BY <1>8, <2>2 DEF SetIds, AllProductIds, TypeOK, Asked
  <2> QED  BY <1>8, <2>1, <2>3 DEF SetIds, TypeOK, TypesOfThreads
<1>9. ASSUME NEW functions \in SUBSET (Functions \cup VendorFunctions), NEW next \in SetSteps,
             Link(t, functions, next)
      PROVE  TypesOfThreads' /\ links' \in SUBSET (Functions \cup VendorFunctions)
  <2>1. TypesOfThreads'
    BY <1>1, <1>9, MoveTypes DEF Link
  <2>2. links' \in SUBSET (Functions \cup VendorFunctions)
    BY <1>9 DEF Link, TypeOK
  <2> QED  BY <2>1, <2>2
<1>10. CASE AddGeneric(t)
  <2>1. Asked(t) \in SUBSET Functions
    BY <1>2, <1>10 DEF AddGeneric, Holds, LockedSteps, SetSteps
  <2>2. TypesOfThreads' /\ links' \in SUBSET (Functions \cup VendorFunctions)
    BY <1>9, <1>10, <2>1 DEF AddGeneric, SetSteps, Asked
  <2> QED  BY <1>10, <2>1, <2>2 DEF AddGeneric, TypeOK, TypesOfThreads, Asked
<1>11. CASE AddVendor(t)
  <2>1. TypesOfThreads' /\ links' \in SUBSET (Functions \cup VendorFunctions)
    BY <1>9, <1>11 DEF AddVendor, SetSteps
  <2> QED  BY <1>11, <2>1 DEF AddVendor, TypeOK, TypesOfThreads
<1>12. CASE AddAdb(t)
  <2>1. Asked(t) \in SUBSET Functions
    BY <1>2, <1>12 DEF AddAdb, Holds, LockedSteps, SetSteps
  <2>2. TypesOfThreads' /\ links' \in SUBSET (Functions \cup VendorFunctions)
    BY <1>9, <1>12, <2>1 DEF AddAdb, SetSteps, Asked
  <2>3. {"ADB"} \subseteq FfsFunctions
    BY DEF FfsFunctions
  <2> QED  BY <1>12, <2>1, <2>2, <2>3 DEF AddAdb, TypeOK, TypesOfThreads, Asked
<1>13. CASE PullUp(t) \/ ResetDown(t) \/ ResetUp(t)
  <2>1. TypesOfThreads'
    BY <1>1, <1>13, MoveTypes DEF PullUp, ResetDown, ResetUp, SetSteps
  <2>2. CASE PullUp(t)
    BY <2>1, <2>2 DEF PullUp, TypeOK, TypesOfThreads
  <2>3. CASE ResetDown(t)
    BY <2>1, <2>3 DEF ResetDown, TypeOK, TypesOfThreads
  <2>4. CASE ResetUp(t)
    BY <2>1, <2>4 DEF ResetUp, TypeOK, TypesOfThreads
  <2> QED  BY <1>13, <2>2, <2>3, <2>4
<1>14. CASE SetApplied(t) \/ StartMonitor(t) \/ WaitForPullUp(t)
  <2>1. TypesOfThreads'
    BY <1>1, <1>14, MoveTypes DEF SetApplied, StartMonitor, WaitForPullUp, SetSteps
  <2>2. CASE SetApplied(t)
    BY <2>1, <2>2 DEF SetApplied, TypeOK, TypesOfThreads
  <2>3. CASE StartMonitor(t)
    BY <2>1, <2>3 DEF StartMonitor, TypeOK, TypesOfThreads
  <2>4. CASE WaitForPullUp(t)
    BY <2>1, <2>4 DEF WaitForPullUp, TypeOK, TypesOfThreads
  <2> QED  BY <1>14, <2>2, <2>3, <2>4
<1>15. CASE Reply(t)
  <2>1. TypesOfThreads'
    BY <1>1, <1>15 DEF Reply, TypesOfThreads, Steps
  <2> QED  BY <1>15, <2>1 DEF Reply, TypeOK, TypesOfThreads
<1> QED
  BY <1>3, <1>4, <1>5, <1>6, <1>7, <1>8, <1>10, <1>11, <1>12, <1>13, <1>14, <1>15
     DEF Binder, Set, Reset

\* The steps of the monitor, the daemons and the property, and the death of the
\* process.
Others ==
    \/ MonitorNext \/ VendorChange \/ Crash
    \/ \E f \in Daemons : DaemonUp(f) \/ DaemonDown(f)

LEMMA OtherTypes ==
    ASSUME TypeOK, Others
    PROVE  TypeOK'
<1> USE DEF MonitorFrame, EnvironmentFrame, members, configfs, environment, threads
<1>1. CASE MonitorNext
  BY <1>1 DEF MonitorNext, MonitorLook, MonitorApply, MonitorEnds, TypeOK
<1>2. CASE VendorChange
  BY <1>2 DEF VendorChange, TypeOK
<1>3. CASE Crash
  <2>1. TypesOfThreads'
    BY <1>3 DEF Crash, TypesOfThreads, Steps
  <2> QED  BY <1>3, <2>1, FunctionAssumption DEF Crash, TypeOK, TypesOfThreads
<1>4. CASE \E f \in Daemons : DaemonUp(f) \/ DaemonDown(f)
  <2>1. PICK f \in Daemons : DaemonUp(f) \/ DaemonDown(f)
    BY <1>4
  <2>2. CASE DaemonUp(f)
    BY <2>2 DEF DaemonUp, TypeOK
  <2>3. CASE DaemonDown(f)
    BY <2>3 DEF DaemonDown, TypeOK
  <2> QED  BY <2>1, <2>2, <2>3
<1> QED  BY <1>1, <1>2, <1>3, <1>4 DEF Others

\* A step is one of a binder thread, one of the others, or none.
LEMMA Cases ==
    ASSUME [Next]_vars
    PROVE  \/ \E t \in BinderThreads : Begin(t) \/ Binder(t)
           \/ Others
           \/ UNCHANGED vars
BY DEF Next, Others

LEMMA StepTypes ==
    ASSUME TypeOK, ControlInv, [Next]_vars
    PROVE  TypeOK'
<1>1. CASE UNCHANGED vars
  BY <1>1 DEF vars, members, monitorVars, configfs, environment, threads, TypeOK
<1> QED  BY <1>1, Cases, BinderTypes, OtherTypes
------------------------------------------------------------------------------
(* Control                                                                 *)

\* A step of one thread does not move another.
LEMMA OthersStay ==
    ASSUME TypeOK, NEW t \in BinderThreads, Begin(t) \/ Binder(t),
           NEW u \in BinderThreads \ {t}
    PROVE  pc'[u] = pc[u] /\ request'[u] = request[u] /\ outcome'[u] = outcome[u]
<1> USE DEF TypeOK, Step, Go, Finish, ThreadOnly, MembersOnly, ConfigfsOnly, MonitorOnly, Link,
            TornDown
<1>1. CASE Begin(t) \/ SetLock(t) \/ Reply(t) \/ Reset(t)
  BY <1>1 DEF Begin, SetLock, Reply, Reset, ResetDown, ResetUp
<1>2. CASE Set(t)
  BY <1>2 DEF Set, SetFunctions, SetNotApplied, PullDown, Unlink, StopMonitor, JoinMonitor,
     SetIds, AddGeneric, AddVendor, AddAdb, PullUp, SetApplied, StartMonitor, WaitForPullUp
<1> QED  BY <1>1, <1>2 DEF Binder

\* Nobody but the owner of the mutex and the thread that takes it change its owner.
LEMMA OwnerStays ==
    ASSUME NEW t \in BinderThreads, Set(t) \/ Reset(t) \/ Begin(t)
    PROVE  mLockSetCurrentFunction' = mLockSetCurrentFunction
BY DEF Set, Reset, Begin, SetFunctions, SetNotApplied, PullDown, Unlink, StopMonitor,
   JoinMonitor, SetIds, AddGeneric, AddVendor, AddAdb, PullUp, SetApplied, StartMonitor,
   WaitForPullUp, ResetDown, ResetUp, ThreadOnly, MembersOnly, ConfigfsOnly, MonitorOnly

\* A step of a set goes to the next one or to the reply, with the request it has.
LEMMA SetMoves ==
    ASSUME TypeOK, ControlInv, NEW t \in BinderThreads, Set(t)
    PROVE  /\ Holds(t) /\ pc[t] \in LockedSteps
           /\ request' = request
           /\ pc'[t] \in LockedSteps \cup {"reply"}
           /\ pc'[t] \in BuildSteps \cup {"wait"} => Asked(t) # {}
           /\ pc'[t] \in {"pullUp", "applied"} => Ffs(t) = {}
           /\ pc'[t] \in {"start", "wait"} => Ffs(t) # {}
<1> USE DEF TypeOK, Step, Go, Finish, ThreadOnly, MembersOnly, ConfigfsOnly, MonitorOnly, Link,
            TornDown, LockedSteps, SetSteps, Holds, BuildSteps
<1>1. /\ pc[t] \in BuildSteps \cup {"wait"} => Asked(t) # {}
      /\ pc[t] \in {"pullUp", "applied"} => Ffs(t) = {}
      /\ pc[t] \in {"start", "wait"} => Ffs(t) # {}
  BY DEF ControlInv, Control
<1>2. CASE SetFunctions(t) \/ SetNotApplied(t) \/ PullDown(t) \/ Unlink(t)
  BY <1>2 DEF SetFunctions, SetNotApplied, PullDown, Unlink
<1>3. CASE StopMonitor(t) \/ JoinMonitor(t)
  BY <1>3 DEF StopMonitor, JoinMonitor, Asked
<1>4. CASE SetIds(t)
  BY <1>1, <1>4 DEF SetIds
<1>5. CASE AddGeneric(t) \/ AddVendor(t)
  BY <1>1, <1>5 DEF AddGeneric, AddVendor
<1>6. CASE AddAdb(t)
  BY <1>1, <1>6 DEF AddAdb, Ffs, Asked
<1>7. CASE PullUp(t) \/ SetApplied(t) \/ StartMonitor(t) \/ WaitForPullUp(t)
  BY <1>1, <1>7 DEF PullUp, SetApplied, StartMonitor, WaitForPullUp
<1> QED  BY <1>2, <1>3, <1>4, <1>5, <1>6, <1>7 DEF Set

LEMMA BinderControl ==
    ASSUME TypeOK, ControlInv, NEW t \in BinderThreads, Begin(t) \/ Binder(t)
    PROVE  ControlInv'
<1> USE DEF TypeOK, Step, Go, Finish, ThreadOnly, MembersOnly, ConfigfsOnly, MonitorOnly,
            LockedSteps, SetSteps, Holds, BuildSteps, Setting, Ffs, Asked
<1>1. Control(t) /\ mLockSetCurrentFunction \in BinderThreads \cup {NoThread}
  BY DEF ControlInv
<1>2. ASSUME NEW u \in BinderThreads \ {t}
      PROVE  pc'[u] = pc[u] /\ request'[u] = request[u]
  BY <1>2, OthersStay
<1>3. ASSUME Control(t)', NEW u \in BinderThreads \ {t},
             mLockSetCurrentFunction' = u <=> mLockSetCurrentFunction = u
      PROVE  Control(u)'
  BY <1>2, <1>3 DEF ControlInv, Control
<1>4. CASE Begin(t)
  <2>1. Control(t)'
    BY <1>1, <1>4, RequestFields, ThreadAssumption DEF Begin, Control
  <2> QED  BY <1>3, <1>4, <2>1, OwnerStays DEF ControlInv
<1>5. CASE SetLock(t)
  <2>1. Control(t)'
    BY <1>1, <1>5, ThreadAssumption DEF SetLock, Control
  <2>2. \A u \in BinderThreads \ {t} : mLockSetCurrentFunction' # u /\ mLockSetCurrentFunction # u
    BY <1>5, ThreadAssumption DEF SetLock
  <2> QED  BY <1>3, <2>1, <2>2 DEF ControlInv
<1>6. CASE Set(t)
  <2>1. Control(t)'
    BY <1>1, <1>6, SetMoves, OwnerStays DEF Control
  <2> QED  BY <1>3, <1>6, <2>1, OwnerStays DEF ControlInv
<1>7. CASE Reset(t)
  <2>1. Control(t)'
    BY <1>1, <1>7, OwnerStays DEF Control, Reset, ResetDown, ResetUp
  <2> QED  BY <1>3, <1>7, <2>1, OwnerStays DEF ControlInv
<1>8. CASE Reply(t)
  <2>1. Control(t)'
    BY <1>1, <1>8, ThreadAssumption DEF Reply, Control, NoRequest
  <2>2. \A u \in BinderThreads \ {t} : mLockSetCurrentFunction' = u <=> mLockSetCurrentFunction = u
    BY <1>8, ThreadAssumption DEF Reply
  <2> QED  BY <1>3, <2>1, <2>2 DEF ControlInv
<1> QED  BY <1>4, <1>5, <1>6, <1>7, <1>8 DEF Binder

\* A crash leaves no call behind; the monitor and the daemons touch none.
LEMMA OtherThreads ==
    ASSUME TypeOK, Others
    PROVE  \/ UNCHANGED <<threads, mLockSetCurrentFunction>>
           \/ /\ Crash
              /\ \A t \in BinderThreads : pc'[t] = "idle" /\ request'[t] = NoRequest
              /\ mLockSetCurrentFunction' = NoThread
BY DEF Others, MonitorNext, MonitorLook, MonitorApply, MonitorEnds, VendorChange, Crash,
   DaemonUp, DaemonDown, MonitorFrame, EnvironmentFrame, threads

LEMMA StepControl ==
    ASSUME TypeOK, ControlInv, [Next]_vars
    PROVE  ControlInv'
<1> USE DEF LockedSteps, SetSteps, Holds, BuildSteps, Setting, Ffs, Asked
<1>1. CASE UNCHANGED <<threads, mLockSetCurrentFunction>>
  BY <1>1 DEF threads, ControlInv, Control
<1>2. CASE \A t \in BinderThreads : pc'[t] = "idle" /\ request'[t] = NoRequest
                                 /\ mLockSetCurrentFunction' = NoThread
  BY <1>2, ThreadAssumption DEF ControlInv, Control
<1>3. CASE UNCHANGED vars
  BY <1>1, <1>3 DEF vars
<1> QED  BY <1>1, <1>2, <1>3, Cases, BinderControl, OtherThreads

LEMMA StepAlone ==
    ASSUME TypeOK, ControlInv, AloneInv, [Next]_vars
    PROVE  AloneInv'
<1>1. CASE UNCHANGED <<threads, mLockSetCurrentFunction>>
  BY <1>1 DEF threads, AloneInv
<1>2. CASE \A t \in BinderThreads : pc'[t] = "idle" /\ request'[t] = NoRequest
                                 /\ mLockSetCurrentFunction' = NoThread
  BY <1>2 DEF AloneInv
<1>3. CASE UNCHANGED vars
  BY <1>1, <1>3 DEF vars
<1>4. ASSUME NEW t \in BinderThreads, Begin(t)
      PROVE  AloneInv'
  <2>1. /\ \A u \in BinderThreads \ {t} : pc[u] # "idle" =>
                request'[t] \notin Alone /\ request[u] \notin Alone
        /\ \A u \in BinderThreads \ {t} : pc'[u] = pc[u] /\ request'[u] = request[u]
    BY <1>4, OthersStay DEF Begin, MayCall, TypeOK
  <2> QED  BY <2>1 DEF AloneInv
<1>5. ASSUME NEW t \in BinderThreads, Binder(t)
      PROVE  AloneInv'
  <2>1. \A u \in BinderThreads : pc'[u] # "idle" => pc[u] # "idle" /\ request'[u] = request[u]
    <3>1. pc'[t] # "idle" => pc[t] # "idle" /\ request'[t] = request[t]
      <4>1. CASE Set(t)
        BY <4>1, SetMoves DEF LockedSteps, SetSteps
      <4>2. CASE SetLock(t) \/ Reset(t) \/ Reply(t)
        BY <4>2 DEF SetLock, Reset, ResetDown, ResetUp, Reply, Step, Go, Finish, TypeOK
      <4> QED  BY <1>5, <4>1, <4>2 DEF Binder
    <3> QED  BY <1>5, <3>1, OthersStay
  <2> QED  BY <2>1 DEF AloneInv
<1> QED  BY <1>1, <1>2, <1>3, <1>4, <1>5, Cases, OtherThreads
------------------------------------------------------------------------------
(* The monitor and the making of the gadget                                *)

\* Where another thread is does not change, and it is not one that holds the mutex
\* when t does.
LEMMA OtherHolders ==
    ASSUME TypeOK, ControlInv, NEW t \in BinderThreads, Begin(t) \/ Binder(t),
           NEW u \in BinderThreads \ {t}
    PROVE  /\ pc'[u] = pc[u] /\ request'[u] = request[u] /\ outcome'[u] = outcome[u]
           /\ Holds(t) => ~Holds(u)
BY OthersStay, OneHolder

LEMMA StepMonitor ==
    ASSUME TypeOK, ControlInv, MonitorInv, [Next]_vars
    PROVE  MonitorInv'
<1> USE DEF TypeOK, Step, Go, Finish, ThreadOnly, MembersOnly, ConfigfsOnly, MonitorOnly,
            monitorVars, members, configfs, environment, threads, TornDown
<1>1. CASE UNCHANGED <<threads, monitor, stopMonitor>>
  BY <1>1 DEF MonitorInv
<1>2. CASE Others
  <2>1. CASE MonitorNext
    <3>1. /\ UNCHANGED <<threads, stopMonitor>>
          /\ monitor = "off" => monitor' = "off"
          /\ monitor # "off" => monitor' # "off" \/ stopMonitor
      BY <2>1 DEF MonitorNext, MonitorLook, MonitorApply, MonitorEnds, MonitorFrame
    <3>2. ASSUME stopMonitor, NEW t \in BinderThreads
          PROVE  pc[t] # "wait"
      BY <3>2, OneHolder DEF MonitorInv, Holds, LockedSteps, SetSteps
    <3> QED  BY <3>1, <3>2 DEF MonitorInv
  <2>2. CASE Crash
    BY <2>2 DEF Crash, MonitorInv, BuildSteps
  <2>3. CASE VendorChange \/ \E f \in Daemons : DaemonUp(f) \/ DaemonDown(f)
    BY <1>1, <2>3 DEF VendorChange, DaemonUp, DaemonDown, EnvironmentFrame
  <2> QED  BY <1>2, <2>1, <2>2, <2>3 DEF Others
<1>3. ASSUME NEW t \in BinderThreads, Begin(t) \/ Binder(t)
      PROVE  MonitorInv'
  <2>1. \A u \in BinderThreads \ {t} : pc'[u] = pc[u] /\ (Holds(t) => ~Holds(u))
    BY <1>3, OtherHolders
  <2>2. CASE StopMonitor(t)
    BY <2>1, <2>2 DEF StopMonitor, MonitorInv, BuildSteps, Holds, LockedSteps, SetSteps
  <2>3. CASE JoinMonitor(t)
    BY <2>1, <2>3 DEF JoinMonitor, MonitorInv, BuildSteps, Holds, LockedSteps, SetSteps
  <2>4. CASE StartMonitor(t)
    BY <2>1, <2>4 DEF StartMonitor, MonitorInv, BuildSteps, Holds, LockedSteps, SetSteps
  <2>5. ASSUME UNCHANGED <<monitor, stopMonitor>>, pc[t] # "join",
               pc'[t] \in BuildSteps \cup {"wait"} => pc[t] \in BuildSteps,
               pc'[t] # "wait"
        PROVE  MonitorInv'
    BY <2>1, <2>5 DEF MonitorInv
  <2>6. CASE SetFunctions(t) \/ SetNotApplied(t) \/ PullDown(t) \/ Unlink(t)
    BY <2>5, <2>6 DEF SetFunctions, SetNotApplied, PullDown, Unlink, BuildSteps
  <2>7. CASE SetIds(t) \/ AddGeneric(t) \/ AddVendor(t) \/ AddAdb(t)
    BY <2>5, <2>7 DEF SetIds, AddGeneric, AddVendor, AddAdb, Link, BuildSteps
  <2>8. CASE PullUp(t) \/ SetApplied(t) \/ WaitForPullUp(t)
    BY <2>5, <2>8 DEF PullUp, SetApplied, WaitForPullUp, BuildSteps
  <2>9. CASE Begin(t) \/ SetLock(t) \/ Reset(t) \/ Reply(t)
    BY <2>5, <2>9 DEF Begin, SetLock, Reset, ResetDown, ResetUp, Reply, BuildSteps
  <2> QED  BY <1>3, <2>2, <2>3, <2>4, <2>6, <2>7, <2>8, <2>9 DEF Binder, Set
<1>4. CASE UNCHANGED vars
  BY <1>1, <1>4 DEF vars
<1> QED  BY <1>2, <1>3, <1>4, Cases

\* The functions a set links are not those of the vendor property.
LEMMA VendorLinks ==
    ASSUME NEW S
    PROVE  (VendorFunctions \cap S) \cap Functions = {}
BY DEF VendorFunctions, Functions

\* The ids a set writes go with the functions it was asked for.
LEMMA NewConfiguration ==
    ASSUME TypeOK, NEW functions \in SUBSET Functions, ProductIds(functions, vendor) # {}
    PROVE  [functions |-> functions, ids |-> ProductIds(functions, vendor)] \in Configurations
<1>1. ProductIds(functions, vendor) \in AllProductIds
  BY DEF AllProductIds, TypeOK
<1> QED  BY <1>1 DEF Configurations, TypeOK

\* Only a set that holds the mutex changes configfs; the rest leaves it alone.
LEMMA ConfigfsWriters ==
    ASSUME [Next]_vars, links' # links \/ ids' # ids
    PROVE  \E t \in BinderThreads : Unlink(t) \/ SetIds(t) \/ AddGeneric(t) \/ AddVendor(t)
                                    \/ AddAdb(t)
<1> USE DEF Step, Go, Finish, ThreadOnly, MembersOnly, ConfigfsOnly, MonitorOnly,
            monitorVars, members, configfs, environment, threads
<1>1. ~Others
  BY DEF Others, MonitorNext, MonitorLook, MonitorApply, MonitorEnds, MonitorFrame, VendorChange,
     Crash, DaemonUp, DaemonDown, EnvironmentFrame
<1>2. PICK t \in BinderThreads : Begin(t) \/ Binder(t)
  BY <1>1, Cases DEF vars
<1>3. ~(Begin(t) \/ SetLock(t) \/ Reset(t) \/ Reply(t))
  BY DEF Begin, SetLock, Reset, ResetDown, ResetUp, Reply
<1>4. ~(SetFunctions(t) \/ SetNotApplied(t) \/ PullDown(t) \/ StopMonitor(t) \/ JoinMonitor(t)
        \/ PullUp(t) \/ SetApplied(t) \/ StartMonitor(t) \/ WaitForPullUp(t))
  BY DEF SetFunctions, SetNotApplied, PullDown, StopMonitor, JoinMonitor, PullUp, SetApplied,
     StartMonitor, WaitForPullUp
<1> QED  BY <1>2, <1>3, <1>4 DEF Binder, Set

\* The steps of a set that make the gadget.
LEMMA SetBuilds ==
    ASSUME TypeOK, ControlInv, BuildInv, NEW t \in BinderThreads, Set(t)
    PROVE  Built(t)'
<1> USE DEF Step, Go, Finish, ThreadOnly, MembersOnly, ConfigfsOnly, MonitorOnly, members,
            monitorVars, configfs, environment, LockedSteps, SetSteps, BuildSteps, Setting,
            Succeeded, Asked, Ffs
<1>1. /\ Built(t) /\ Control(t) /\ t \in DOMAIN pc /\ t \in DOMAIN outcome /\ request' = request
      /\ Asked(t) \in SUBSET Functions
  BY SetMoves, SetRequest DEF BuildInv, ControlInv, TypeOK
<1>2. CASE SetFunctions(t) \/ SetNotApplied(t) \/ PullDown(t)
  BY <1>1, <1>2 DEF SetFunctions, SetNotApplied, PullDown, Built
<1>3. CASE Unlink(t)
  BY <1>1, <1>3 DEF Unlink, Built
<1>4. CASE StopMonitor(t) \/ JoinMonitor(t)
  BY <1>1, <1>4 DEF StopMonitor, JoinMonitor, TornDown, Built
<1>5. CASE SetIds(t)
  BY <1>1, <1>5, NewConfiguration DEF SetIds, Built
<1>6. CASE AddGeneric(t)
  BY <1>1, <1>6 DEF AddGeneric, Link, Built
<1>7. CASE AddVendor(t)
  <2>1. links' \cap Functions = links \cap Functions
    BY <1>7, VendorLinks DEF AddVendor, Link
  <2> QED  BY <1>1, <1>7, <2>1 DEF AddVendor, Link, Built
<1>8. CASE AddAdb(t)
  BY <1>1, <1>8 DEF AddAdb, Link, Built
<1>9. CASE PullUp(t) \/ SetApplied(t) \/ WaitForPullUp(t)
  BY <1>1, <1>9 DEF PullUp, SetApplied, WaitForPullUp, Built
<1>10. CASE StartMonitor(t)
  BY <1>1, <1>10 DEF StartMonitor, Built
<1> QED  BY <1>2, <1>3, <1>4, <1>5, <1>6, <1>7, <1>8, <1>9, <1>10, SetMoves DEF Set

LEMMA StepBuild ==
    ASSUME TypeOK, ControlInv, BuildInv, [Next]_vars
    PROVE  BuildInv'
<1> USE DEF Holds, LockedSteps, SetSteps, BuildSteps, Setting, Succeeded, Asked, Ffs
<1>1. CASE UNCHANGED <<threads, links, ids>>
  BY <1>1 DEF threads, BuildInv, Built
<1>2. CASE Others
  <2>1. UNCHANGED <<links, ids>>
    BY <1>2 DEF Others, MonitorNext, MonitorLook, MonitorApply, MonitorEnds, MonitorFrame,
       VendorChange, Crash, DaemonUp, DaemonDown, EnvironmentFrame, configfs
  <2> QED  BY <1>1, <1>2, <2>1, OtherThreads DEF BuildInv, Built
<1>3. ASSUME NEW t \in BinderThreads, Begin(t) \/ Binder(t)
      PROVE  BuildInv'
  <2>1. \A u \in BinderThreads \ {t} :
           /\ pc'[u] = pc[u] /\ request'[u] = request[u] /\ outcome'[u] = outcome[u]
           /\ Holds(t) => ~Holds(u)
    BY <1>3, OtherHolders
  <2>2. CASE Set(t)
    <3>1. Built(t)' /\ Holds(t)
      BY <2>2, SetBuilds, SetMoves
    <3> QED  BY <2>1, <3>1 DEF BuildInv, Built
  <2>3. CASE Begin(t) \/ SetLock(t) \/ Reset(t) \/ Reply(t)
    <3>1. UNCHANGED <<links, ids>>
      BY <2>3, ConfigfsWriters DEF Begin, SetLock, Reset, ResetDown, ResetUp, Reply,
         ThreadOnly, ConfigfsOnly, configfs
    <3>2. Control(t) /\ t \in DOMAIN pc
      BY DEF ControlInv, TypeOK
    <3>3. Built(t)'
      BY <2>3, <3>2 DEF Control, Built, Begin, SetLock, Reset, ResetDown, ResetUp, Reply, Step, Go,
         Finish
    <3> QED  BY <2>1, <3>1, <3>3 DEF BuildInv, Built
  <2> QED  BY <1>3, <2>2, <2>3 DEF Binder
<1>4. CASE UNCHANGED vars
  BY <1>1, <1>4 DEF vars, configfs
<1> QED  BY <1>2, <1>3, <1>4, Cases
------------------------------------------------------------------------------
(* The gadget HAL as it is, whatever overlaps and whatever fails           *)

LEMMA InitGInv == Init => GInv
<1> SUFFICES ASSUME Init PROVE GInv
  OBVIOUS
<1>1. TypeOK
  BY InitTypes
<1>2. \A t \in BinderThreads : pc[t] = "idle" /\ request[t] = NoRequest
                               /\ mLockSetCurrentFunction # t
  BY ThreadAssumption DEF Init
<1>3. ControlInv /\ AloneInv
  BY <1>2 DEF ControlInv, Control, AloneInv, Holds, LockedSteps, SetSteps, BuildSteps
<1>4. MonitorInv
  BY <1>2 DEF Init, MonitorInv
<1>5. BuildInv
  BY <1>2 DEF BuildInv, Built, BuildSteps, Succeeded
<1> QED  BY <1>1, <1>3, <1>4, <1>5 DEF GInv

LEMMA StepGInv ==
    ASSUME GInv, [Next]_vars
    PROVE  GInv'
BY StepTypes, StepControl, StepAlone, StepMonitor, StepBuild DEF GInv

LEMMA AlwaysGInv == Spec => []GInv
<1>1. GInv /\ [Next]_vars => GInv'
  BY StepGInv
<1> QED  BY <1>1, InitGInv, PTL DEF Spec

\* The members, the mutex, the monitor and configfs hold what their types say; in
\* particular the ids in configfs are always those of some row of the tables or
\* none, and only functions that exist are linked (UsbGadget.cpp:72 to 237).
THEOREM TypeCorrect == Spec => []TypeOK
<1>1. GInv => TypeOK
  BY DEF GInv
<1> QED  BY <1>1, AlwaysGInv, PTL
------------------------------------------------------------------------------
(* A set that succeeds                                                     *)

\* A reset that overlaps no other call finds the other threads idle.
LEMMA ResetIsAlone ==
    ASSUME GInv, ResetsAlone, NEW t \in BinderThreads, pc[t] \in {"resetDown", "resetUp"},
           NEW u \in BinderThreads \ {t}
    PROVE  pc[u] = "idle"
<1>1. request[t] \in Requests /\ ~Setting(t)
  BY DEF GInv, ControlInv, Control
<1>2. request[t] \in Alone
  BY <1>1, RequestFields DEF Setting, ResetsAlone
<1> QED  BY <1>2 DEF GInv, AloneInv

\* What the steps of a set do for its own promise.
LEMMA SetKeeps ==
    ASSUME GInv, KeptInv, NEW t \in BinderThreads, Set(t)
    PROVE  Kept(t)'
<1> USE DEF Step, Go, Finish, ThreadOnly, MembersOnly, ConfigfsOnly, MonitorOnly, members,
            monitorVars, configfs, environment, LockedSteps, SetSteps, BuildSteps, Setting,
            Succeeded, Asked, Ffs
<1>1. /\ Kept(t) /\ Control(t) /\ t \in DOMAIN pc /\ t \in DOMAIN outcome /\ request' = request
      /\ Asked(t) \in SUBSET Functions
  BY SetMoves, SetRequest DEF KeptInv, GInv, ControlInv, TypeOK
<1>2. CASE SetFunctions(t) \/ SetNotApplied(t) \/ PullDown(t)
  BY <1>1, <1>2 DEF SetFunctions, SetNotApplied, PullDown, Kept
<1>3. CASE Unlink(t)
  BY <1>1, <1>3 DEF Unlink, Kept
<1>4. CASE StopMonitor(t) \/ JoinMonitor(t)
  BY <1>1, <1>4 DEF StopMonitor, JoinMonitor, TornDown, Kept
<1>5. CASE SetIds(t)
  BY <1>1, <1>5 DEF SetIds, Kept
<1>6. CASE AddGeneric(t)
  BY <1>1, <1>6 DEF AddGeneric, Link, Kept
<1>7. CASE AddVendor(t)
  BY <1>1, <1>7 DEF AddVendor, Link, Kept
<1>8. CASE AddAdb(t)
  BY <1>1, <1>8 DEF AddAdb, Link, Kept
<1>9. CASE PullUp(t) \/ SetApplied(t)
  <2>1. CASE PullUp(t)
    <3>1. \/ pc'[t] = "applied" /\ pullup' = TRUE
          \/ pc'[t] = "reply" /\ outcome'[t] = "ERROR"
      BY <1>1, <2>1 DEF PullUp
    <3> QED  BY <1>1, <3>1 DEF Kept
  <2>2. CASE SetApplied(t)
    <3>1. pc[t] = "applied" /\ pc'[t] = "reply" /\ UNCHANGED <<watched, armed, changed, pullup>>
      BY <1>1, <2>2 DEF SetApplied
    <3> QED  BY <1>1, <3>1 DEF Kept, Control
  <2> QED  BY <1>9, <2>1, <2>2
<1>10. CASE StartMonitor(t)
  <2>1. pc[t] = "start" /\ armed' = TRUE /\ watched' = watched /\ pc'[t] \in {"wait", "reply"}
    BY <1>1, <1>10 DEF StartMonitor
  <2>2. Ffs(t) # {} /\ Ffs(t) \subseteq watched
    BY <1>1, <2>1 DEF Control, Kept
  <2> QED  BY <1>1, <2>1, <2>2 DEF Kept
<1>11. CASE WaitForPullUp(t)
  <2>1. pc[t] = "wait" /\ UNCHANGED <<watched, armed, changed, pullup>> /\ pc'[t] = "reply"
    BY <1>1, <1>11 DEF WaitForPullUp
  <2> QED  BY <1>1, <2>1 DEF Kept
<1> QED  BY <1>2, <1>3, <1>4, <1>5, <1>6, <1>7, <1>8, <1>9, <1>10, <1>11, SetMoves DEF Set

\* A daemon that dies takes with it only a gadget the monitor will bind again.
LEMMA DaemonsKeep ==
    ASSUME GInv, KeptInv, NEW f \in Daemons, DaemonUp(f) \/ DaemonDown(f)
    PROVE  KeptInv'
<1> SUFFICES ASSUME NEW t \in BinderThreads PROVE Kept(t)'
  BY DEF KeptInv
<1> USE DEF EnvironmentFrame, threads, Succeeded, Setting, Asked, Ffs
<1>1. Kept(t) /\ Built(t)
  BY DEF KeptInv, GInv, BuildInv
<1>2. UNCHANGED <<threads, watched, armed, links>>
  BY DEF DaemonUp, DaemonDown
<1>3. f \in FfsFunctions /\ f \in Functions
  BY FunctionAssumption DEF FfsFunctions, Functions
<1>4. changed = "went" => changed' = "went"
  BY DEF DaemonUp, DaemonDown
<1>5. ASSUME pullup, pc[t] \in {"applied", "wait"} \/ Succeeded(t)
      PROVE  pullup' \/ (Ffs(t) # {} /\ changed' = "went")
  <2>1. links \cap Functions = Asked(t)
    BY <1>1, <1>5 DEF Built
  <2>2. f \in links => f \in Ffs(t) /\ f \in watched
    BY <1>1, <1>3, <1>5, <2>1 DEF Kept, GInv, ControlInv, Control
  <2> QED  BY <1>5, <2>2 DEF DaemonUp, DaemonDown
<1>6. /\ pc' = pc /\ Succeeded(t)' = Succeeded(t) /\ Ffs(t)' = Ffs(t)
      /\ watched' = watched /\ armed' = armed
  BY <1>2
<1>7. CASE pullup
  BY <1>1, <1>5, <1>6, <1>7 DEF Kept
<1>8. CASE ~pullup
  BY <1>1, <1>4, <1>6, <1>8 DEF Kept
<1> QED  BY <1>7, <1>8

LEMMA StepKept ==
    ASSUME ResetsAlone, GInv, KeptInv, [Next]_vars
    PROVE  KeptInv'
<1> USE DEF Holds, LockedSteps, SetSteps, Setting, Succeeded, Asked, Ffs
<1>1. ASSUME UNCHANGED <<threads, watched, armed, changed, pullup>>
      PROVE  KeptInv'
  BY <1>1 DEF threads, KeptInv, Kept
<1>2. CASE Others
  <2>1. CASE MonitorNext
    <3>1. UNCHANGED <<threads, watched>>
      BY <2>1 DEF MonitorNext, MonitorLook, MonitorApply, MonitorEnds, MonitorFrame
    <3>2. CASE MonitorLook
      <4>1. \/ pullup' = TRUE
            \/ pullup' = pullup /\ armed' = (armed \/ changed = "went")
        BY <3>2 DEF MonitorLook
      <4>2. /\ pullup => pullup'
            /\ armed \/ changed = "went" => pullup' \/ armed'
        <5>1. {pullup, pullup', armed, armed'} \subseteq BOOLEAN
          BY StepTypes DEF GInv, TypeOK
        <5> QED  BY <4>1, <5>1
      <4> HIDE DEF Succeeded, Asked, Ffs
      <4>3. \A t \in BinderThreads : Succeeded(t)' = Succeeded(t) /\ Ffs(t)' = Ffs(t)
        BY <3>1 DEF Succeeded, Ffs, threads, Asked
      <4> QED  BY <3>1, <4>2, <4>3 DEF threads, KeptInv, Kept
    <3>3. CASE MonitorApply \/ MonitorEnds
      BY <1>1, <3>1, <3>3 DEF MonitorApply, MonitorEnds
    <3> QED  BY <2>1, <3>2, <3>3 DEF MonitorNext
  <2>2. CASE Crash
    BY <2>2 DEF Crash, KeptInv, Kept
  <2>3. CASE VendorChange
    BY <1>1, <2>3 DEF VendorChange, EnvironmentFrame
  <2> QED  BY <1>2, <2>1, <2>2, <2>3, DaemonsKeep DEF Others
<1>3. ASSUME NEW t \in BinderThreads, Begin(t) \/ Binder(t)
      PROVE  KeptInv'
  <2>1. \A u \in BinderThreads \ {t} :
           /\ pc'[u] = pc[u] /\ request'[u] = request[u] /\ outcome'[u] = outcome[u]
           /\ Holds(t) => ~Holds(u)
    BY <1>3, OtherHolders DEF GInv
  <2>2. CASE Set(t)
    <3>1. Kept(t)' /\ Holds(t)
      BY <2>2, SetKeeps, SetMoves DEF GInv
    <3> QED  BY <2>1, <3>1 DEF KeptInv, Kept
  <2>3. Control(t) /\ t \in DOMAIN pc
    BY DEF GInv, ControlInv, TypeOK
  <2>4. CASE Reset(t)
    <3>1. \A u \in BinderThreads \ {t} : pc[u] = "idle"
      BY <2>4, ResetIsAlone DEF Reset, ResetDown, ResetUp
    <3>2. Kept(t)'
      BY <2>3, <2>4 DEF Control, Kept, Reset, ResetDown, ResetUp, Go, Finish
    <3> QED  BY <2>1, <3>1, <3>2 DEF KeptInv, Kept
  <2>5. CASE Begin(t) \/ SetLock(t) \/ Reply(t)
    <3>1. UNCHANGED <<watched, armed, changed, pullup>>
      BY <2>5 DEF Begin, SetLock, Reply, ThreadOnly, monitorVars, configfs
    <3>2. Kept(t)'
      BY <2>3, <2>5 DEF Control, Kept, Begin, SetLock, Reply, Step, Go
    <3> QED  BY <2>1, <3>1, <3>2 DEF KeptInv, Kept
  <2> QED  BY <1>3, <2>2, <2>4, <2>5 DEF Binder
<1>4. CASE UNCHANGED vars
  BY <1>1, <1>4 DEF vars, configfs, monitorVars
<1> QED  BY <1>2, <1>3, <1>4, Cases

\* A set that reports SUCCESS to a callback has the functions it was asked for
\* linked, with ids that go with them, and they are bound, or the monitor is about
\* to see that a daemon has died (UsbGadget.cpp:362 to 402): for any requests, any
\* daemons and whatever fails, as long as a reset does not overlap another call.
THEOREM SuccessIsShown ==
    ASSUME ResetsAlone
    PROVE  Spec => []SuccessMeansShown
<1>1. Init => KeptInv
  BY DEF Init, KeptInv, Kept, Succeeded
<1>2. GInv /\ KeptInv /\ [Next]_vars => KeptInv'
  BY StepKept
<1>3. ASSUME GInv, KeptInv
      PROVE  SuccessMeansShown
  BY <1>3 DEF GInv, BuildInv, Built, KeptInv, Kept, SuccessMeansShown, Succeeded, Asked
<1> QED  BY <1>1, <1>2, <1>3, AlwaysGInv, PTL DEF Spec
------------------------------------------------------------------------------
(* What a host sees                                                        *)

\* What has been built for a request can be shown.
LEMMA BuiltIsWhole ==
    ASSUME BuildInv, NEW t \in BinderThreads,
           pc[t] \in {"pullUp", "applied", "start", "wait"} \/ Succeeded(t)
    PROVE  Whole
BY DEF BuildInv, Built, Whole, BuildSteps

LEMMA SetShowsWhole ==
    ASSUME GInv, WholeInv, "unlink" \notin Faulty, NEW t \in BinderThreads, Set(t),
           \A u \in BinderThreads \ {t} : pc[u] # "resetUp" /\ pc'[u] = pc[u] /\ ~Holds(u)
    PROVE  WholeInv'
<1> USE DEF Step, Go, Finish, ThreadOnly, MembersOnly, ConfigfsOnly, MonitorOnly, members,
            monitorVars, configfs, environment
<1> DEFINE Dark == {"stop", "join", "ids", "generic", "vendor", "adb", "pullUp", "start"}
<1>1. /\ Built(t) /\ Control(t) /\ t \in DOMAIN pc
      /\ pc[t] \in Dark => ~pullup
      /\ pc[t] \in BuildSteps => monitor = "off"
      /\ TypeOK
  BY DEF GInv, BuildInv, ControlInv, TypeOK, WholeInv, MonitorInv
<1>2. \A u \in BinderThreads \ {t} : pc'[u] # "resetUp" /\ pc'[u] \notin Dark
  BY DEF Holds, LockedSteps, SetSteps
<1>3. pc'[t] # "resetUp"
  BY SetMoves DEF GInv, LockedSteps, SetSteps
<1>4. ASSUME /\ pullup' => Whole' /\ links' # {}
             /\ monitor' # "off" => Whole' \/ links' = {}
             /\ pc'[t] \in Dark => ~pullup'
      PROVE  WholeInv'
  BY <1>2, <1>3, <1>4 DEF WholeInv
<1>5. CASE SetFunctions(t) \/ SetNotApplied(t) \/ PullDown(t) \/ WaitForPullUp(t)
  <2>1. /\ UNCHANGED <<links, ids, monitor>> /\ pc'[t] \notin Dark
        /\ pullup' = pullup \/ pullup' = FALSE
    BY <1>1, <1>5 DEF SetFunctions, SetNotApplied, PullDown, WaitForPullUp
  <2> QED  BY <1>4, <2>1 DEF WholeInv, Whole
<1>6. CASE Unlink(t)
  <2>1. links' = {} /\ ids' = {} /\ pullup' = (pullup /\ links' = links)
    BY <1>6 DEF Unlink
  <2>2. ~pullup'
    BY <2>1 DEF WholeInv
  <2> QED  BY <1>4, <2>1, <2>2
<1>7. CASE StopMonitor(t) \/ JoinMonitor(t) \/ SetApplied(t)
  <2>1. UNCHANGED <<links, ids, pullup, monitor>>
    BY <1>7 DEF StopMonitor, JoinMonitor, SetApplied
  <2>2. pc'[t] \in Dark => ~pullup
    BY <1>1, <1>7 DEF StopMonitor, JoinMonitor, SetApplied, TornDown
  <2> QED  BY <1>4, <2>1, <2>2 DEF WholeInv, Whole
<1>8. CASE SetIds(t) \/ AddGeneric(t) \/ AddVendor(t) \/ AddAdb(t)
  <2>1. pc[t] \in Dark /\ pc[t] \in BuildSteps /\ UNCHANGED <<pullup, monitor>>
    BY <1>8 DEF SetIds, AddGeneric, AddVendor, AddAdb, BuildSteps
  <2> QED  BY <1>1, <1>4, <2>1
<1>9. CASE PullUp(t)
  <2>1. UNCHANGED <<links, ids, monitor>> /\ pc[t] = "pullUp" /\ pc'[t] \notin Dark
    BY <1>1, <1>9 DEF PullUp
  <2>2. Whole'
    BY <2>1, BuiltIsWhole DEF GInv, Whole
  <2>3. pullup' => links # {}
    BY <1>1, <1>9, <2>1 DEF PullUp, CanBind
  <2> QED  BY <1>4, <2>1, <2>2, <2>3
<1>10. CASE StartMonitor(t)
  <2>1. UNCHANGED <<links, ids, pullup>> /\ pc[t] = "start"
    BY <1>10 DEF StartMonitor
  <2>2. Whole'
    BY <2>1, BuiltIsWhole DEF GInv, Whole
  <2> QED  BY <1>1, <1>4, <2>1, <2>2
<1> QED  BY <1>5, <1>6, <1>7, <1>8, <1>9, <1>10 DEF Set

LEMMA StepWhole ==
    ASSUME ResetsAlone, "unlink" \notin Faulty, GInv, WholeInv, [Next]_vars
    PROVE  WholeInv'
<1> DEFINE Dark == {"stop", "join", "ids", "generic", "vendor", "adb", "pullUp", "start"}
<1> USE DEF Step, Go, Finish, ThreadOnly, MembersOnly, ConfigfsOnly, MonitorOnly, members,
            monitorVars, configfs, environment, threads
<1>1. CASE Others
  <2>1. UNCHANGED <<links, ids>>
    BY <1>1 DEF Others, MonitorNext, MonitorLook, MonitorApply, MonitorEnds, MonitorFrame,
       VendorChange, Crash, DaemonUp, DaemonDown, EnvironmentFrame
  <2>2. CASE UNCHANGED threads /\ ~MonitorLook
    <3>1. monitor' # "off" => monitor # "off"
      BY <1>1, <2>2 DEF Others, MonitorNext, MonitorApply, MonitorEnds, VendorChange, Crash,
         DaemonUp, DaemonDown, EnvironmentFrame
    <3>2. pullup' = pullup \/ \E f \in Daemons : pullup' = (pullup /\ f \notin links)
      BY <1>1, <2>2 DEF Others, MonitorNext, MonitorApply, MonitorEnds, VendorChange, Crash,
         DaemonUp, DaemonDown
    <3>3. pullup' => pullup
      BY <3>2
    <3> QED  BY <2>1, <2>2, <3>1, <3>3 DEF WholeInv, Whole
  <2>3. CASE MonitorLook
    <3>1. UNCHANGED threads /\ monitor # "off" /\ (pullup' => pullup \/ links # {})
      BY <2>3 DEF MonitorLook, MonitorFrame, CanBind
    <3>2. \A t \in BinderThreads : pc[t] \in Dark => ~pullup'
      <4> SUFFICES ASSUME NEW t \in BinderThreads, pc[t] \in Dark PROVE ~pullup'
        OBVIOUS
      <4>1. ~pullup /\ links = {}
        BY <3>1 DEF GInv, BuildInv, Built, MonitorInv, WholeInv, BuildSteps
      <4> QED  BY <3>1, <4>1
    <3> QED  BY <2>1, <3>1, <3>2 DEF WholeInv, Whole
  <2>4. CASE Crash
    <3>1. /\ \A t \in BinderThreads : pc'[t] = "idle"
          /\ monitor' = "off" /\ pullup' = pullup
      BY <2>4 DEF Crash
    <3> QED  BY <2>1, <3>1 DEF WholeInv, Whole
  <2> QED  BY <1>1, <2>2, <2>3, <2>4, OtherThreads DEF GInv
<1>2. ASSUME NEW t \in BinderThreads, Begin(t) \/ Binder(t)
      PROVE  WholeInv'
  <2>1. \A u \in BinderThreads \ {t} :
           /\ pc'[u] = pc[u] /\ (Holds(t) => ~Holds(u))
           /\ pc[t] # "idle" => pc[u] # "resetUp"
           /\ pc[t] \in {"resetDown", "resetUp"} => pc[u] = "idle"
    BY <1>2, OtherHolders, ResetIsAlone DEF GInv
  <2>2. CASE Set(t)
    <3>1. Holds(t) /\ pc[t] # "idle"
      BY <2>2, SetMoves DEF GInv, LockedSteps, SetSteps
    <3> QED  BY <2>1, <2>2, <3>1, SetShowsWhole
  <2>3. t \in DOMAIN pc
    BY DEF GInv, TypeOK
  <2>4. CASE Reset(t)
    <3>1. /\ \A u \in BinderThreads \ {t} : pc[u] = "idle" /\ pc'[u] = "idle"
          /\ pc'[t] \notin Dark
          /\ UNCHANGED <<links, ids, monitor>>
      BY <2>1, <2>3, <2>4 DEF Reset, ResetDown, ResetUp
    <3>2. pullup' => Whole /\ links # {}
      <4>1. CASE ResetDown(t)
        <5>1. pullup' => pullup
          BY <4>1 DEF ResetDown
        <5> QED  BY <5>1 DEF WholeInv
      <4>2. CASE ResetUp(t)
        <5>1. pc[t] = "resetUp" /\ (pullup' = pullup \/ links # {})
          BY <4>2 DEF ResetUp, CanBind
        <5> QED  BY <5>1 DEF WholeInv
      <4> QED  BY <2>4, <4>1, <4>2 DEF Reset
    <3>3. pc'[t] = "resetUp" => Whole
      BY <2>3, <2>4 DEF Reset, ResetDown, ResetUp, WholeInv
    <3> QED  BY <3>1, <3>2, <3>3 DEF WholeInv, Whole
  <2>5. CASE Begin(t) \/ SetLock(t) \/ Reply(t)
    <3>1. UNCHANGED <<links, ids, pullup, monitor>> /\ pc'[t] \notin Dark \cup {"resetUp"}
      BY <2>3, <2>5 DEF Begin, SetLock, Reply
    <3> QED  BY <2>1, <3>1 DEF WholeInv, Whole
  <2> QED  BY <1>2, <2>2, <2>4, <2>5 DEF Binder
<1>3. CASE UNCHANGED vars
  BY <1>3 DEF vars, WholeInv, Whole
<1> QED  BY <1>1, <1>2, <1>3, Cases

LEMMA WholeStart == Init => WholeInv
BY DEF Init, WholeInv

\* Every step shows the host nothing, or a whole configuration after nothing, or
\* what it showed before.
LEMMA ShownStep ==
    ASSUME ResetsAlone, "unlink" \notin Faulty, GInv, WholeInv, [Next]_vars
    PROVE  [HostView!Disconnect \/ HostView!Connect]_Shown
<1>1. WholeInv'
  BY StepWhole
<1>2. CASE ~pullup'
  BY <1>2 DEF Shown, HostView!Disconnect
<1>3. CASE pullup' /\ ~pullup
  BY <1>1, <1>3 DEF Shown, HostView!Connect, WholeInv, Whole
<1>4. CASE pullup' /\ pullup
  <2>1. SUFFICES ASSUME links' # links \/ ids' # ids PROVE FALSE
    BY <1>4 DEF Shown
  <2>2. PICK t \in BinderThreads : Unlink(t) \/ SetIds(t) \/ AddGeneric(t) \/ AddVendor(t)
                                   \/ AddAdb(t)
    BY <2>1, ConfigfsWriters
  <2>3. CASE Unlink(t)
    BY <1>4, <2>3 DEF Unlink, WholeInv
  <2>4. CASE SetIds(t) \/ AddGeneric(t) \/ AddVendor(t) \/ AddAdb(t)
    BY <1>4, <2>4 DEF SetIds, AddGeneric, AddVendor, AddAdb, WholeInv
  <2> QED  BY <2>2, <2>3, <2>4
<1> QED  BY <1>2, <1>3, <1>4

\* UsbGadget.cpp:324, "Leave the gadget pulled down to give time for the host to
\* sense disconnect", as a refinement of GadgetState: unless a reset overlaps a
\* set, or an unlink fails half way, a host sees nothing or whole configurations
\* with ids that go with their functions, and nothing between two of them.
THEOREM HostIsDisconnected ==
    ASSUME ResetsAlone, "unlink" \notin Faulty
    PROVE  Spec => HostSeesDisconnect
<1>1. Init => HostView!Init
  BY DEF Init, HostView!Init, Shown
<1>2. GInv /\ WholeInv /\ [Next]_vars => WholeInv'
  BY StepWhole
<1>3. GInv /\ WholeInv /\ [Next]_vars => [HostView!Disconnect \/ HostView!Connect]_Shown
  BY ShownStep
<1> QED
  BY <1>1, <1>2, <1>3, WholeStart, AlwaysGInv, PTL
     DEF Spec, HostSeesDisconnect, HostView!Spec

\* UsbGadget.h:74, "Makes sure that only one request is processed at a time": what
\* that is meant to guarantee does hold as long as a reset overlaps nothing.
COROLLARY WholeIsShown ==
    ASSUME ResetsAlone, "unlink" \notin Faulty
    PROVE  Spec => []OnlyWholeShown
<1>1. GInv /\ WholeInv /\ [Next]_vars => WholeInv'
  BY StepWhole
<1>2. WholeInv => OnlyWholeShown
  BY DEF WholeInv, Whole, OnlyWholeShown, Shown
<1> QED  BY <1>1, <1>2, WholeStart, AlwaysGInv, PTL DEF Spec
------------------------------------------------------------------------------
(* Whom the monitor serves                                                 *)

\* What the next step of a set finds and leaves in the list of endpoints.
LEMMA SetServes ==
    ASSUME GInv, ServedInv, "link" \notin Faulty, "unlink" \notin Faulty,
           NEW t \in BinderThreads, Set(t)
    PROVE  /\ Served(t)'
           /\ monitor' = "off" /\ watched' # {} => pc'[t] \in {"join", "vendor", "adb", "start"}
<1> USE DEF Step, Go, Finish, ThreadOnly, MembersOnly, ConfigfsOnly, MonitorOnly, members,
            monitorVars, configfs, environment, LockedSteps, SetSteps, BuildSteps, Setting,
            Asked, Ffs
<1>1. /\ Served(t) /\ Control(t) /\ t \in DOMAIN pc /\ request' = request
      /\ Asked(t) \in SUBSET Functions
      /\ pc[t] \in BuildSteps => monitor = "off"
      /\ pc[t] = "wait" => monitor # "off"
      /\ TypeOK
  BY SetMoves, SetRequest DEF ServedInv, GInv, ControlInv, TypeOK, MonitorInv
<1>2. monitor = "off" /\ watched # {} => pc[t] \in {"join", "vendor", "adb", "start"}
  <2>1. ASSUME NEW u \in BinderThreads, pc[u] \in {"join", "vendor", "adb", "start"}
        PROVE  u = t
    BY <2>1, OneHolder, SetMoves DEF GInv, Holds
  <2> QED  BY <2>1 DEF ServedInv
<1>3. CASE SetFunctions(t) \/ SetNotApplied(t) \/ PullDown(t)
  BY <1>1, <1>2, <1>3 DEF SetFunctions, SetNotApplied, PullDown, Served
<1>4. CASE Unlink(t)
  BY <1>1, <1>2, <1>4 DEF Unlink, Served
<1>5. CASE StopMonitor(t)
  BY <1>1, <1>2, <1>5 DEF StopMonitor, TornDown, Served
<1>6. CASE JoinMonitor(t)
  BY <1>1, <1>2, <1>6 DEF JoinMonitor, TornDown, Served
<1>7. CASE SetIds(t)
  BY <1>1, <1>2, <1>7 DEF SetIds, Served
<1>8. CASE AddGeneric(t)
  BY <1>1, <1>2, <1>8 DEF AddGeneric, Link, Served
<1>9. CASE AddVendor(t)
  BY <1>1, <1>2, <1>9 DEF AddVendor, Link, Served
<1>10. CASE AddAdb(t)
  <2>1. /\ pc[t] = "adb" /\ monitor' = monitor /\ mCurrentUsbFunctions' = mCurrentUsbFunctions
        /\ watched' = watched \cup (Asked(t) \cap {"ADB"})
        /\ pc'[t] = IF Ffs(t) # {} THEN "start" ELSE "pullUp"
    BY <1>1, <1>10 DEF AddAdb, Link
  <2>2. watched = Ffs(t) \ {"ADB"} /\ mCurrentUsbFunctions = Asked(t) /\ monitor = "off"
    BY <1>1, <2>1 DEF Served
  <2>3. watched' = Ffs(t)
    BY <2>1, <2>2 DEF FfsFunctions
  <2> QED  BY <1>1, <2>1, <2>2, <2>3 DEF Served
<1>11. CASE PullUp(t) \/ SetApplied(t)
  BY <1>1, <1>2, <1>11 DEF PullUp, SetApplied, Served
<1>12. CASE StartMonitor(t)
  BY <1>1, <1>2, <1>12 DEF StartMonitor, Served
<1>13. CASE WaitForPullUp(t)
  BY <1>1, <1>2, <1>13 DEF WaitForPullUp, Served
<1> QED  BY <1>3, <1>4, <1>5, <1>6, <1>7, <1>8, <1>9, <1>10, <1>11, <1>12, <1>13 DEF Set

LEMMA StepServed ==
    ASSUME GInv, ServedInv, "link" \notin Faulty, "unlink" \notin Faulty, [Next]_vars
    PROVE  ServedInv'
<1> USE DEF Holds, LockedSteps, SetSteps, Setting, Asked, Ffs
<1>1. CASE UNCHANGED <<threads, watched, monitor, mCurrentUsbFunctions, mLockSetCurrentFunction>>
  BY <1>1 DEF threads, ServedInv, Served, MonitorServesCurrent
<1>2. CASE Others
  <2>1. CASE MonitorNext
    <3>1. UNCHANGED <<threads, watched, mCurrentUsbFunctions, mLockSetCurrentFunction>>
      BY <2>1 DEF MonitorNext, MonitorLook, MonitorApply, MonitorEnds, MonitorFrame, members
    <3>2. /\ monitor' # "off" => monitor # "off"
          /\ monitor' = "off" => monitor = "off" \/ stopMonitor
      BY <2>1 DEF MonitorNext, MonitorLook, MonitorApply, MonitorEnds
    <3>3. stopMonitor => \E t \in BinderThreads : pc[t] = "join"
      BY DEF GInv, MonitorInv
    <3> QED  BY <3>1, <3>2, <3>3 DEF threads, ServedInv, Served, MonitorServesCurrent
  <2>2. CASE Crash
    BY <2>2 DEF Crash, ServedInv, Served, MonitorServesCurrent
  <2>3. CASE VendorChange \/ \E f \in Daemons : DaemonUp(f) \/ DaemonDown(f)
    BY <1>1, <2>3 DEF VendorChange, DaemonUp, DaemonDown, EnvironmentFrame, members
  <2> QED  BY <1>2, <2>1, <2>2, <2>3 DEF Others
<1>3. ASSUME NEW t \in BinderThreads, Begin(t) \/ Binder(t)
      PROVE  ServedInv'
  <2>1. \A u \in BinderThreads \ {t} :
           /\ pc'[u] = pc[u] /\ request'[u] = request[u]
           /\ Holds(t) => ~Holds(u)
    BY <1>3, OtherHolders DEF GInv
  <2>2. Control(t) /\ t \in DOMAIN pc /\ t \in DOMAIN request
    BY DEF GInv, ControlInv, TypeOK
  <2>3. CASE Set(t)
    <3>1. /\ Holds(t) /\ Served(t)'
          /\ monitor' = "off" /\ watched' # {} => pc'[t] \in {"join", "vendor", "adb", "start"}
      BY <2>3, SetServes, SetMoves DEF GInv
    <3>2. mLockSetCurrentFunction' # NoThread
      BY <2>2, <2>3, <3>1, OwnerStays, ThreadAssumption DEF Control
    <3> QED  BY <2>1, <3>1, <3>2 DEF ServedInv, Served, MonitorServesCurrent
  <2>4. ASSUME UNCHANGED <<watched, monitor, mCurrentUsbFunctions>>,
               pc[t] \notin {"join", "vendor", "adb", "start"},
               Served(t)', MonitorServesCurrent'
        PROVE  ServedInv'
    BY <2>1, <2>4 DEF ServedInv, Served
  <2>5. CASE Begin(t) \/ Reset(t)
    <3>1. UNCHANGED <<watched, monitor, mCurrentUsbFunctions, mLockSetCurrentFunction>>
      BY <2>5, OwnerStays DEF Begin, Reset, ResetDown, ResetUp, ThreadOnly, ConfigfsOnly,
         monitorVars, members
    <3>2. Served(t)' /\ pc[t] \notin {"join", "vendor", "adb", "start"}
      BY <2>2, <2>5 DEF Begin, Reset, ResetDown, ResetUp, Go, Finish, Control, Served
    <3> QED  BY <2>4, <3>1, <3>2 DEF ServedInv, MonitorServesCurrent
  <2>6. CASE SetLock(t)
    <3>1. UNCHANGED <<watched, monitor, mCurrentUsbFunctions>> /\ pc[t] = "lock"
          /\ pc'[t] = "functions" /\ mLockSetCurrentFunction = NoThread
          /\ mLockSetCurrentFunction' # NoThread
      BY <2>2, <2>6, ThreadAssumption DEF SetLock, Step, Go, monitorVars, members
    <3>2. Served(t)'
      BY <3>1 DEF ServedInv, MonitorServesCurrent, Served
    <3> QED  BY <2>4, <3>1, <3>2 DEF MonitorServesCurrent
  <2>7. CASE Reply(t)
    <3>1. /\ UNCHANGED <<watched, monitor, mCurrentUsbFunctions>>
          /\ pc[t] = "reply" /\ pc'[t] = "idle"
      BY <2>2, <2>7 DEF Reply, monitorVars, members
    <3>2. /\ mLockSetCurrentFunction = t => Setting(t)
          /\ mLockSetCurrentFunction # t =>
                mLockSetCurrentFunction' = mLockSetCurrentFunction
      BY <2>2, <2>7, <3>1 DEF Control, Reply
    <3>3. MonitorServesCurrent'
      BY <3>1, <3>2 DEF ServedInv, MonitorServesCurrent, Served
    <3> QED  BY <2>4, <3>1, <3>3 DEF Served
  <2> QED  BY <1>3, <2>3, <2>5, <2>6, <2>7 DEF Binder
<1>4. CASE UNCHANGED vars
  BY <1>1, <1>4 DEF vars, monitorVars, members
<1> QED  BY <1>2, <1>3, <1>4, Cases

LEMMA ServedStart == Init => ServedInv
BY DEF Init, ServedInv, MonitorServesCurrent, Served, LockedSteps, SetSteps

\* UsbGadget.cpp:316, "stop the monitor if running": when nothing fails half way in
\* configfs, a monitor that runs between two requests waits for the endpoints of
\* mCurrentUsbFunctions and no others, whatever overlaps and even if the process has
\* died in between.
THEOREM MonitorIsCurrent ==
    ASSUME "link" \notin Faulty, "unlink" \notin Faulty
    PROVE  Spec => []MonitorServesCurrent
<1>1. GInv /\ ServedInv /\ [Next]_vars => ServedInv'
  BY StepServed
<1>2. ServedInv => MonitorServesCurrent
  BY DEF ServedInv
<1> QED  BY <1>1, <1>2, ServedStart, AlwaysGInv, PTL DEF Spec
==============================================================================
