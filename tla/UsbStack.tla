------------------------------ MODULE UsbStack ------------------------------
(***************************************************************************)
(* The two processes that write the UDC node of the gadget: the gadget HAL *)
(* (Gadget) and the USB HAL (Usb), whose enableUsbData and resetUsbPort    *)
(* bind and unbind what the other one builds.  They share the node and     *)
(* nothing else, neither a mutex nor a call.                               *)
(***************************************************************************)
EXTENDS Gadget, Naturals, Sequences

CONSTANTS
    UsbThreads, Worker, Callbacks, NoCallback, Calls,   \* of Usb
    KernelEvents, MaxUevents, UsbFaulty

VARIABLES
    mCallback, mUsbDataEnabled, mPartnerUp, mLock, mRoleSwitchLock, mPartnerLock,
    destroyThread, sigPending, usbData, sinkLimit, sourceLimit, moistureEnabled,
    usbPc, call, ok, wake, status, view,
    partner, roles, detected, portType, attachedSince, listening, uevents,
    writer,    \* history: who has changed the UDC node last
    seen       \* history: what it has held during the call of each USB HAL thread

UsbHal == INSTANCE Usb WITH BinderThreads <- UsbThreads, Faulty <- UsbFaulty, pc <- usbPc

\* What the USB HAL keeps for itself, and what the gadget HAL does.
usbVars == <<mCallback, mUsbDataEnabled, mPartnerUp, mLock, mRoleSwitchLock, mPartnerLock,
             destroyThread, sigPending, usbData, sinkLimit, sourceLimit, moistureEnabled,
             usbPc, call, ok, wake, status, view,
             partner, roles, detected, portType, attachedSince, listening, uevents>>
gadgetVars == <<members, mLockSetCurrentFunction, monitorVars, environment, links, ids,
                threads>>
history == <<writer, seen>>
stackVars == <<vars, usbVars, history>>

\* A bind may be refused at any time: the gadget has no function yet.
ASSUME RefusalAssumption == "UDC_write" \in UsbFaulty
ASSUME ProcessAssumption == UsbThreads \cap BinderThreads = {}
ASSUME UsbAssumption ==
    /\ Worker \notin UsbThreads /\ NoThread \notin UsbThreads \cup {Worker}
    /\ NoCallback \notin Callbacks /\ Calls \subseteq UsbHal!AllCalls
    /\ MaxUevents \in Nat \ {0} /\ KernelEvents \subseteq UsbHal!AllKernelEvents
    /\ UsbFaulty \subseteq UsbHal!Faults
------------------------------------------------------------------------------
\* Both services have just started and the gadget is as init left it, unbound.
StackInit ==
    /\ Init
    /\ UsbHal!KernelInit /\ UsbHal!HalInit
    /\ usbData = TRUE /\ sinkLimit = FALSE /\ sourceLimit = FALSE /\ moistureEnabled = TRUE
    /\ writer = "nobody"
    /\ seen = [t \in UsbThreads |-> {}]

Observe(who) ==
    /\ writer' = IF pullup' = pullup THEN writer ELSE who
    /\ seen' = [t \in UsbThreads |->
                   IF usbPc[t] = "idle" THEN {pullup'} ELSE seen[t] \cup {pullup'}]

GadgetStep ==
    /\ Next
    /\ Observe("gadget")
    /\ UNCHANGED usbVars

\* configfs refuses to bind a gadget without a function.
UsbStep ==
    /\ UsbHal!Next
    /\ pullup' /\ ~pullup => links # {}
    /\ Observe("usb")
    /\ UNCHANGED gadgetVars

StackNext == GadgetStep \/ UsbStep

StackSpec == StackInit /\ [][StackNext]_stackVars

\* The threads of both processes are scheduled.  The one binder thread of the USB HAL
\* competes for no mutex here.
StackFairSpec ==
    /\ StackSpec
    /\ \A t \in BinderThreads : SF_vars(Binder(t))
    /\ WF_vars(MonitorLook \/ MonitorApply)
    /\ SF_vars(MonitorEnds)
    /\ \A t \in UsbThreads : WF_<<usbVars, pullup>>(UsbHal!Binder(t))
------------------------------------------------------------------------------
\* Usb.cpp:69: UDC is read, compared and written while the gadget HAL rebinds.  An
\* enableUsbData that reports success found the node as asked at some moment
\* during the call, whatever the other process did before and after.
EnabledDuringCall ==
    \A t \in UsbThreads :
       usbPc[t] = "reply" /\ call[t].op = "enableUsbData" /\ ok[t]
       => call[t].on \in seen[t] /\ usbData = call[t].on

\* UsbGadget.cpp:324, "Leave the gadget pulled down": the gadget HAL, when nothing of
\* it fails, binds nothing but whole configurations, also while the USB HAL binds and
\* unbinds between its steps: a half that shows was bound by enableUsbData.
GadgetBindsWhole == pullup /\ Shown \notin Configurations => writer = "usb"

\* UsbGadget.cpp:289, "Monitors the ffs paths to pull up the gadget when
\* descriptors are written" and again after the process has died and restarted:
\* while the daemons are there the gadget gets bound, unless a new request comes
\* or it was the USB HAL that has unbound it.
PulledUpWhenReady ==
    monitor = "wait" /\ watched \subseteq ready
    ~> \/ pullup \/ writer = "usb"
       \/ ~(watched \subseteq ready) \/ monitor = "off" \/ stopMonitor
==============================================================================
