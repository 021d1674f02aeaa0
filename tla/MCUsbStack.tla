----------------------------- MODULE MCUsbStack -----------------------------
(***************************************************************************)
(* Values for the model checking of UsbStack: the calls of the USB HAL     *)
(* that write the UDC node, and requests of each kind for the gadget HAL.  *)
(***************************************************************************)
EXTENDS UsbStack

NodeCalls == [op : {"enableUsbData"}, on : BOOLEAN] \cup [op : {"resetUsbPort"}]
StackRequests ==
    [op : {"setCurrentUsbFunctions"}, functions : {{"RNDIS", "ADB"}}, callback : {TRUE}]
    \cup [op : {"setCurrentUsbFunctions"}, functions : {{"MTP"}}, callback : {FALSE}]
    \cup [op : {"reset"}]

UserBuild == {<<>>}
OneDaemon == {"ADB"}
NoFunctions == {{}}
==============================================================================
