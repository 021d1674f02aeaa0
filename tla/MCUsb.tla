-------------------------------- MODULE MCUsb --------------------------------
(***************************************************************************)
(* Values for the model checking of Usb: the calls a framework makes in    *)
(* each of the small instances, and the symmetry of the binder threads.    *)
(***************************************************************************)
EXTENDS Usb, TLC

CONSTANT cb1

SetCallbackTo(cbs) == [op : {"setCallback"}, callback : cbs]
SwitchMode(roleSet) == [op : {"switchRole"}, tag : {"mode"}, role : roleSet]
SwitchPower == [op : {"switchRole"}, tag : {"powerRole"}, role : {"sink"}]
SetOn(ops) == [op : ops, on : BOOLEAN]
Bare(ops) == [op : ops]

\* Two binder threads that register, unregister, switch modes and query.
ThreadCalls == SetCallbackTo({cb1, NoCallback}) \cup
               SwitchMode({"source", "none"}) \cup Bare({"queryPortStatus"})

\* A callback, set again and again, and every call that changes a setting.
ReportCalls == SetCallbackTo({cb1}) \cup
               SetOn({"enableUsbData", "limitPowerTransfer",
                      "enableContaminantPresenceDetection"}) \cup
               Bare({"enableUsbDataWhileDocked", "resetUsbPort"})

\* Nobody unregisters; both kinds of role switch.
LiveCalls == SetCallbackTo({cb1}) \cup SwitchMode({"source"}) \cup SwitchPower
ModeCalls == SetCallbackTo({cb1}) \cup SwitchMode({"source", "sink"})
RegisterCalls == SetCallbackTo({cb1, NoCallback})

ThreadSymmetry == Permutations(BinderThreads)
==============================================================================
