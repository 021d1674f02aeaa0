-------------------------------- MODULE Gadget --------------------------------
(***************************************************************************)
(* The USB gadget HAL, usb/gadget/UsbGadget.cpp: the hwbinder threads that *)
(* serve setCurrentUsbFunctions and reset, and the FunctionFS monitor of   *)
(* the vendor library with its own thread, over the configfs nodes of the  *)
(* gadget.  getCurrentUsbFunctions only reads the two members.             *)
(*                                                                         *)
(* The library (pixelusb) and configfs are not in the repository; they are *)
(* modelled by what UsbGadget.cpp and its comments expect of them.         *)
(***************************************************************************)
EXTENDS GadgetIds, FiniteSets

CONSTANTS
    BinderThreads,    \* service_gadget.cpp configures two
    NoThread,         \* owner of the free mutex
    Requests,         \* the calls the framework makes in this instance
    Alone,            \* those it makes only when no other call is being served
    Vendors,          \* the values the vendor property takes
    Daemons,          \* the functions whose daemon comes and goes
    InitialFunctions, \* what an uninitialised mCurrentUsbFunctions may hold
    Faulty            \* what may fail in this instance

\* The functions whose descriptors a daemon writes to FunctionFS.
FfsFunctions == {"ADB", "MTP", "PTP"}
VendorFunctions == {"diag", "diag_mdm", "qdss", "qdss_mdm", "serial_cdev", "dpl_gsi",
                    "rmnet_gsi"}

AllRequests ==
    [op : {"setCurrentUsbFunctions"}, functions : SUBSET Functions, callback : BOOLEAN]
    \cup [op : {"reset"}]
NoRequest == [op |-> "none"]

\* An unlink, a write of an id, a link, a write of the UDC node, and the death
\* of the process.
Faults == {"unlink", "ids", "link", "UDC", "crash"}
Outcome(fault) == IF fault \in Faulty THEN BOOLEAN ELSE {TRUE}

ASSUME ThreadAssumption == NoThread \notin BinderThreads
ASSUME RequestAssumption == Requests \subseteq AllRequests /\ Alone \subseteq Requests
ASSUME FunctionAssumption ==
    Daemons \subseteq FfsFunctions /\ InitialFunctions \subseteq SUBSET Functions
ASSUME FaultAssumption == Faulty \subseteq Faults

VARIABLES
    mCurrentUsbFunctions, mCurrentUsbFunctionsApplied,
    mLockSetCurrentFunction,   \* its owner
    monitor,        \* where the monitor's thread is
    stopMonitor,    \* it was asked to end
    watched,        \* the functions whose endpoints it waits for
    armed,          \* it pulls up the gadget when they are all there
    gadgetPullup,   \* what waitForPullUp() waits for
    changed,        \* what endpoints did since it last looked
    ready,          \* the functions whose daemon has written its descriptors
    vendor,         \* the vendor property
    links, ids,     \* configfs: linked functions, product ids (one or none)
    pullup,         \* configfs: the UDC node holds kGadgetName
    pc, request, outcome   \* of each binder thread

members == <<mCurrentUsbFunctions, mCurrentUsbFunctionsApplied>>
monitorVars == <<monitor, stopMonitor, watched, armed, gadgetPullup, changed>>
configfs == <<links, ids, pullup>>
environment == <<ready, vendor>>
threads == <<pc, request, outcome>>
vars == <<members, mLockSetCurrentFunction, monitorVars, environment, configfs, threads>>
------------------------------------------------------------------------------
SetSteps == {"lock", "functions", "notApplied", "pullDown", "unlink", "stop", "join",
             "ids", "generic", "vendor", "adb", "pullUp", "applied", "start", "wait"}
Steps == SetSteps \cup {"idle", "reply", "resetDown", "resetUp"}

AllProductIds == {ProductIds(f, v) : f \in SUBSET Functions, v \in Vendors}

TypeOK ==
    /\ mCurrentUsbFunctions \in SUBSET Functions
    /\ mCurrentUsbFunctionsApplied \in BOOLEAN
    /\ mLockSetCurrentFunction \in BinderThreads \cup {NoThread}
    /\ monitor \in {"off", "look", "wait", "apply"}
    /\ stopMonitor \in BOOLEAN /\ armed \in BOOLEAN /\ gadgetPullup \in BOOLEAN
    /\ changed \in {"no", "came", "went"}
    /\ watched \in SUBSET FfsFunctions /\ ready \in SUBSET Daemons
    /\ vendor \in Vendors
    /\ links \in SUBSET (Functions \cup VendorFunctions)
    /\ ids \in AllProductIds
    /\ pullup \in BOOLEAN
    /\ pc \in [BinderThreads -> Steps]
    /\ request \in [BinderThreads -> Requests \cup {NoRequest}]
    /\ outcome \in [BinderThreads -> {"none", "SUCCESS", "ERROR",
                                      "CONFIGURATION_NOT_SUPPORTED"}]

\* new UsbGadget() leaves the two members uninitialised.
Init ==
    /\ mCurrentUsbFunctions \in InitialFunctions
    /\ mCurrentUsbFunctionsApplied \in BOOLEAN
    /\ mLockSetCurrentFunction = NoThread
    /\ monitor = "off" /\ stopMonitor = FALSE /\ watched = {}
    /\ armed = FALSE /\ gadgetPullup = FALSE /\ changed = "no"
    /\ ready = {} /\ vendor \in Vendors
    /\ links = {} /\ ids = {} /\ pullup = FALSE
    /\ pc = [t \in BinderThreads |-> "idle"]
    /\ request = [t \in BinderThreads |-> NoRequest]
    /\ outcome = [t \in BinderThreads |-> "none"]
------------------------------------------------------------------------------
(* Steps of a binder thread                                                *)

Go(t, step) == pc' = [pc EXCEPT ![t] = step] /\ UNCHANGED <<request, outcome>>
Step(t, from, to) == pc[t] = from /\ Go(t, to)

\* The call is about to report status.
Finish(t, status) ==
    /\ pc' = [pc EXCEPT ![t] = "reply"]
    /\ outcome' = [outcome EXCEPT ![t] = status]
    /\ UNCHANGED request

MembersOnly == UNCHANGED <<mLockSetCurrentFunction, monitorVars, environment, configfs>>
ConfigfsOnly == UNCHANGED <<members, mLockSetCurrentFunction, monitorVars, environment>>
MonitorOnly == UNCHANGED <<members, mLockSetCurrentFunction, environment, configfs>>
ThreadOnly == UNCHANGED <<members, mLockSetCurrentFunction, monitorVars, environment,
                          configfs>>

MayCall(t, r) ==
    \A u \in BinderThreads \ {t} : pc[u] # "idle" => {r, request[u]} \cap Alone = {}

Begin(t) ==
    /\ pc[t] = "idle"
    /\ \E r \in Requests :
          /\ MayCall(t, r)
          /\ pc' = [pc EXCEPT ![t] = IF r.op = "reset" THEN "resetDown" ELSE "lock"]
          /\ request' = [request EXCEPT ![t] = r]
    /\ UNCHANGED outcome
    /\ ThreadOnly

\* Mutant: setCurrentUsbFunctions does not wait for its mutex.
SetLockShared(t) ==
    /\ Step(t, "lock", "functions")
    /\ mLockSetCurrentFunction' = t
    /\ UNCHANGED <<members, monitorVars, environment, configfs>>

SetLock(t) ==
    /\ Step(t, "lock", "functions")
    /\ mLockSetCurrentFunction = NoThread
    /\ mLockSetCurrentFunction' = t
    /\ UNCHANGED <<members, monitorVars, environment, configfs>>

SetFunctions(t) ==
    /\ Step(t, "functions", "notApplied")
    /\ mCurrentUsbFunctions' = request[t].functions
    /\ UNCHANGED mCurrentUsbFunctionsApplied
    /\ MembersOnly

SetNotApplied(t) ==
    /\ Step(t, "notApplied", "pullDown")
    /\ mCurrentUsbFunctionsApplied' = FALSE
    /\ UNCHANGED mCurrentUsbFunctions
    /\ MembersOnly
------------------------------------------------------------------------------
(* tearDownGadget                                                          *)

\* resetGadget() pulls the gadget down; that nothing was bound is no error.
PullDown(t) ==
    /\ Step(t, "pullDown", "unlink")
    /\ pullup' = FALSE
    /\ ConfigfsOnly /\ UNCHANGED <<links, ids>>

\* It then clears the ids and removes the links, which unbinds a gadget that
\* was bound meanwhile.  When that fails the monitor is left running.
Unlink(t) ==
    /\ pc[t] = "unlink"
    /\ \/ links' = {} /\ ids' = {} /\ Go(t, "stop")
       \/ /\ "unlink" \in Faulty
          /\ links' \in SUBSET links /\ ids' = {}
          /\ Finish(t, "ERROR")
    /\ pullup' = (pullup /\ links' = links)
    /\ ConfigfsOnly

\* With the old gadget gone an empty request is done.
TornDown(t) ==
    IF request[t].functions = {} THEN Finish(t, "SUCCESS") ELSE Go(t, "ids")

\* Mutant: the monitor is waited for without having been told to stop.
StopUnasked(t) ==
    /\ pc[t] = "stop"
    /\ IF monitor = "off" THEN TornDown(t) ELSE Go(t, "join")
    /\ MonitorOnly /\ UNCHANGED monitorVars

\* isMonitorRunning(), and the first half of monitorFfs.reset()
StopMonitor(t) ==
    /\ pc[t] = "stop"
    /\ IF monitor = "off" THEN TornDown(t) ELSE Go(t, "join")
    /\ stopMonitor' = (monitor # "off")
    /\ MonitorOnly /\ UNCHANGED <<monitor, watched, armed, gadgetPullup, changed>>

\* Mutant: the monitor is told to stop and not waited for.
JoinNothing(t) ==
    /\ pc[t] = "join"
    /\ watched' = {} /\ gadgetPullup' = FALSE /\ changed' = "no"
    /\ TornDown(t)
    /\ MonitorOnly /\ UNCHANGED <<monitor, stopMonitor, armed>>

\* Mutant: the endpoints of the old request are not forgotten.
JoinKeepsEndpoints(t) ==
    /\ pc[t] = "join"
    /\ monitor = "off"
    /\ stopMonitor' = FALSE
    /\ gadgetPullup' = FALSE /\ changed' = "no"
    /\ TornDown(t)
    /\ MonitorOnly /\ UNCHANGED <<monitor, watched, armed>>

\* The second half: the thread has ended and its endpoints are forgotten.
JoinMonitor(t) ==
    /\ pc[t] = "join"
    /\ monitor = "off"
    /\ stopMonitor' = FALSE
    /\ watched' = {} /\ gadgetPullup' = FALSE /\ changed' = "no"
    /\ TornDown(t)
    /\ MonitorOnly /\ UNCHANGED <<monitor, armed>>
------------------------------------------------------------------------------
(* validateAndSetVidPid and setupFunctions                                 *)

SetIds(t) ==
    /\ pc[t] = "ids"
    /\ LET product == ProductIds(request[t].functions, vendor) IN
       \/ product = {} /\ Finish(t, "CONFIGURATION_NOT_SUPPORTED") /\ UNCHANGED ids
       \/ product # {} /\ ids' = product /\ Go(t, "generic")
       \/ "ids" \in Faulty /\ Finish(t, "ERROR") /\ UNCHANGED ids
    /\ ConfigfsOnly /\ UNCHANGED <<links, pullup>>

\* Links are made one by one; when one fails the earlier ones stay.
Link(t, functions, next) ==
    \/ links' = links \cup functions /\ Go(t, next)
    \/ /\ "link" \in Faulty
       /\ \E made \in SUBSET functions : made # functions /\ links' = links \cup made
       /\ Finish(t, "ERROR")

\* addGenericAndroidFunctions() links all but adb and registers the endpoints of
\* mtp and ptp with the monitor.
AddGeneric(t) ==
    LET functions == request[t].functions \ {"ADB"} IN
    /\ pc[t] = "generic"
    /\ Link(t, functions, "vendor")
    /\ watched' = watched \cup (functions \cap FfsFunctions)
    /\ UNCHANGED <<members, mLockSetCurrentFunction, monitor, stopMonitor, armed,
                   gadgetPullup, changed, environment, ids, pullup>>

\* Mutant: every word of the property is taken for a function.
AddVendorAnyWord(t) ==
    /\ pc[t] = "vendor"
    /\ Link(t, {vendor[i] : i \in DOMAIN vendor}, "adb")
    /\ ConfigfsOnly /\ UNCHANGED <<ids, pullup>>

\* The vendor property is read a second time; words without a function are
\* passed over.
AddVendor(t) ==
    /\ pc[t] = "vendor"
    /\ Link(t, VendorFunctions \cap {vendor[i] : i \in DOMAIN vendor}, "adb")
    /\ ConfigfsOnly /\ UNCHANGED <<ids, pullup>>

\* addAdb(), and the test of ffsEnabled
AddAdb(t) ==
    LET functions == request[t].functions \cap {"ADB"}
        ffsEnabled == request[t].functions \cap FfsFunctions # {} IN
    /\ pc[t] = "adb"
    /\ Link(t, functions, IF ffsEnabled THEN "start" ELSE "pullUp")
    /\ watched' = watched \cup functions
    /\ UNCHANGED <<members, mLockSetCurrentFunction, monitor, stopMonitor, armed,
                   gadgetPullup, changed, environment, ids, pullup>>

\* configfs binds a gadget that is not bound and has a function.
CanBind == ~pullup /\ links # {}

PullUp(t) ==
    /\ pc[t] = "pullUp"
    /\ \E written \in Outcome("UDC") :
         IF written /\ CanBind
         THEN pullup' = TRUE /\ Go(t, "applied")
         ELSE Finish(t, "ERROR") /\ UNCHANGED pullup
    /\ ConfigfsOnly /\ UNCHANGED <<links, ids>>

SetApplied(t) ==
    /\ pc[t] = "applied"
    /\ mCurrentUsbFunctionsApplied' = TRUE
    /\ Finish(t, "SUCCESS")
    /\ UNCHANGED mCurrentUsbFunctions
    /\ MembersOnly

\* registerFunctionsAppliedCallback() and startMonitor(); only a caller with a
\* callback waits.
StartMonitor(t) ==
    /\ pc[t] = "start"
    /\ monitor' = "look" /\ armed' = TRUE
    /\ IF request[t].callback THEN Go(t, "wait") ELSE Finish(t, "SUCCESS")
    /\ MonitorOnly /\ UNCHANGED <<stopMonitor, watched, gadgetPullup, changed>>

\* waitForPullUp() returns when the monitor has pulled up, or after timeout.
WaitForPullUp(t) ==
    /\ pc[t] = "wait"
    /\ Finish(t, IF gadgetPullup THEN "SUCCESS" ELSE "ERROR")
    /\ ThreadOnly

\* The callback of the framework is called, and a set lets go of the mutex.
Reply(t) ==
    /\ pc[t] = "reply"
    /\ pc' = [pc EXCEPT ![t] = "idle"]
    /\ request' = [request EXCEPT ![t] = NoRequest]
    /\ outcome' = [outcome EXCEPT ![t] = "none"]
    /\ mLockSetCurrentFunction' = IF mLockSetCurrentFunction = t THEN NoThread
                                  ELSE mLockSetCurrentFunction
    /\ UNCHANGED <<members, monitorVars, environment, configfs>>
------------------------------------------------------------------------------
(* reset, which takes no mutex                                             *)

ResetDown(t) ==
    /\ pc[t] = "resetDown"
    /\ \E written \in Outcome("UDC") :
         IF written /\ pullup
         THEN pullup' = FALSE /\ Go(t, "resetUp")
         ELSE Finish(t, "ERROR") /\ UNCHANGED pullup
    /\ ConfigfsOnly /\ UNCHANGED <<links, ids>>

ResetUp(t) ==
    /\ pc[t] = "resetUp"
    /\ \E written \in Outcome("UDC") :
         IF written /\ CanBind
         THEN pullup' = TRUE /\ Finish(t, "SUCCESS")
         ELSE Finish(t, "ERROR") /\ UNCHANGED pullup
    /\ ConfigfsOnly /\ UNCHANGED <<links, ids>>
------------------------------------------------------------------------------
(* The monitor: "Monitors the ffs paths to pull up the gadget when         *)
(* descriptors are written.  Also takes of the pulling up the gadget again *)
(* if the userspace process dies and restarts."                            *)

MonitorFrame == UNCHANGED <<mLockSetCurrentFunction, stopMonitor, watched, environment,
                            links, ids, threads>>

\* Mutant: the monitor pulls up once and never again.
MonitorLookOnce ==
    /\ monitor = "look" \/ (monitor = "wait" /\ changed # "no")
    /\ changed' = "no"
    /\ IF armed /\ watched \subseteq ready /\ CanBind
         THEN pullup' = TRUE /\ armed' = FALSE /\ monitor' = "apply"
         ELSE UNCHANGED <<pullup, armed>> /\ monitor' = "wait"
    /\ UNCHANGED <<members, gadgetPullup>>
    /\ MonitorFrame

MonitorLook ==
    /\ monitor = "look" \/ (monitor = "wait" /\ changed # "no")
    /\ changed' = "no"
    /\ LET rearmed == armed \/ changed = "went" IN
       \E written \in Outcome("UDC") :
         IF rearmed /\ watched \subseteq ready /\ written /\ CanBind
         THEN pullup' = TRUE /\ armed' = FALSE /\ monitor' = "apply"
         ELSE pullup' = pullup /\ armed' = rearmed /\ monitor' = "wait"
    /\ UNCHANGED <<members, gadgetPullup>>
    /\ MonitorFrame

\* currentFunctionsAppliedCallback(true), and whoever waits is notified
MonitorApply ==
    /\ monitor = "apply"
    /\ monitor' = "wait"
    /\ mCurrentUsbFunctionsApplied' = TRUE
    /\ gadgetPullup' = TRUE
    /\ UNCHANGED <<mCurrentUsbFunctions, armed, changed, pullup>>
    /\ MonitorFrame

MonitorEnds ==
    /\ monitor = "wait" /\ stopMonitor
    /\ monitor' = "off"
    /\ UNCHANGED <<members, armed, gadgetPullup, changed, pullup>>
    /\ MonitorFrame
------------------------------------------------------------------------------
(* Daemons, the vendor property, and the death of the process              *)

EnvironmentFrame == UNCHANGED <<members, mLockSetCurrentFunction, monitor, stopMonitor,
                                watched, armed, gadgetPullup, ids, links, threads>>

\* adbd or the MTP server has written its descriptors.
DaemonUp(f) ==
    /\ f \notin ready
    /\ ready' = ready \cup {f}
    /\ changed' = IF f \in watched /\ changed = "no" THEN "came" ELSE changed
    /\ UNCHANGED <<vendor, pullup>>
    /\ EnvironmentFrame

\* It dies; a bound gadget with its function is unbound by the kernel.
DaemonDown(f) ==
    /\ f \in ready
    /\ ready' = ready \ {f}
    /\ changed' = IF f \in watched THEN "went" ELSE changed
    /\ pullup' = (pullup /\ f \notin links)
    /\ UNCHANGED vendor
    /\ EnvironmentFrame

VendorChange ==
    /\ vendor' \in Vendors
    /\ UNCHANGED <<ready, changed, pullup>>
    /\ EnvironmentFrame

\* A new process finds the nodes as they are.
Crash ==
    /\ "crash" \in Faulty
    /\ mCurrentUsbFunctions' \in InitialFunctions
    /\ mCurrentUsbFunctionsApplied' \in BOOLEAN
    /\ mLockSetCurrentFunction' = NoThread
    /\ monitor' = "off" /\ stopMonitor' = FALSE /\ watched' = {}
    /\ armed' = FALSE /\ gadgetPullup' = FALSE /\ changed' = "no"
    /\ pc' = [t \in BinderThreads |-> "idle"]
    /\ request' = [t \in BinderThreads |-> NoRequest]
    /\ outcome' = [t \in BinderThreads |-> "none"]
    /\ UNCHANGED <<environment, configfs>>
------------------------------------------------------------------------------
(* The specification                                                       *)

Set(t) ==
    \/ SetFunctions(t) \/ SetNotApplied(t) \/ PullDown(t) \/ Unlink(t)
    \/ StopMonitor(t) \/ JoinMonitor(t) \/ SetIds(t)
    \/ AddGeneric(t) \/ AddVendor(t) \/ AddAdb(t)
    \/ PullUp(t) \/ SetApplied(t) \/ StartMonitor(t) \/ WaitForPullUp(t)
Reset(t) == ResetDown(t) \/ ResetUp(t)
Binder(t) == SetLock(t) \/ Set(t) \/ Reset(t) \/ Reply(t)
MonitorNext == MonitorLook \/ MonitorApply \/ MonitorEnds

Next ==
    \/ \E t \in BinderThreads : Begin(t) \/ Binder(t)
    \/ MonitorNext
    \/ \E f \in Daemons : DaemonUp(f) \/ DaemonDown(f)
    \/ VendorChange
    \/ Crash

Spec == Init /\ [][Next]_vars

\* Threads that can run do, a mutex freed again and again is taken in the end,
\* and the monitor sees the events it waits for.  Neither the framework nor the
\* daemons owe anything.
FairSpec ==
    /\ Spec
    /\ \A t \in BinderThreads : SF_vars(Binder(t))
    /\ WF_vars(MonitorLook \/ MonitorApply)
    /\ SF_vars(MonitorEnds)
------------------------------------------------------------------------------
(* What the host sees                                                      *)

Setting(t) == request[t].op = "setCurrentUsbFunctions"

Configurations ==
    {c \in [functions : SUBSET Functions, ids : AllProductIds] :
        c.ids # {} /\ \E v \in Vendors : c.ids = ProductIds(c.functions, v)}
NoConfiguration == [functions |-> {}, ids |-> {}]
Shown == IF pullup THEN [functions |-> links \cap Functions, ids |-> ids]
                   ELSE NoConfiguration

HostView == INSTANCE GadgetState WITH shown <- Shown

\* UsbGadget.cpp:324, "Leave the gadget pulled down to give time for the host to
\* sense disconnect": unless a reset() overlaps a set, or an unlink fails and leaves
\* the old monitor running, a host sees whole configurations, with the ids of their
\* functions, and a disconnect between two of them, whichever link, id or pull up
\* fails and whenever daemons and the monitor act.
HostSeesDisconnect == HostView!Spec

\* UsbGadget.h:74, "Makes sure that only one request is processed at a time": a
\* configuration under construction is never bound.
OnlyWholeShown == pullup => Shown \in Configurations

\* A set that reports SUCCESS to a callback has made the gadget it was asked for:
\* the functions, their ids, and the pull up, unless a daemon has died since and
\* the monitor is about to see it.
SuccessMeansShown ==
    \A t \in BinderThreads :
       /\ pc[t] = "reply" /\ Setting(t) /\ outcome[t] = "SUCCESS"
       /\ request[t].functions # {}
       => /\ links \cap Functions = request[t].functions
          /\ [functions |-> request[t].functions, ids |-> ids] \in Configurations
          /\ request[t].callback => pullup \/ armed \/ changed = "went"
------------------------------------------------------------------------------
(* What the members say                                                    *)

\* UsbGadget.cpp:51, "FUNCTIONS_APPLIED": what getCurrentUsbFunctions reports as
\* applied when no request is being processed is linked.
AppliedIsLinked ==
    /\ \A t \in BinderThreads : ~Setting(t)
    /\ mCurrentUsbFunctionsApplied
    => links \cap Functions = mCurrentUsbFunctions

\* UsbGadget.cpp:316, "stop the monitor if running": between two requests the
\* monitor that runs, if any, was started for mCurrentUsbFunctions and waits for
\* their endpoints, no more and no less.
MonitorServesCurrent ==
    /\ mLockSetCurrentFunction = NoThread
    /\ monitor # "off"
    => watched = mCurrentUsbFunctions \cap FfsFunctions
------------------------------------------------------------------------------
(* Liveness                                                                *)

\* Every call returns: the monitor never waits for the mutex of the thread that
\* joins it, and waitForPullUp() times out.
CallsReturn == \A t \in BinderThreads : pc[t] # "idle" ~> pc[t] = "idle"
==============================================================================
