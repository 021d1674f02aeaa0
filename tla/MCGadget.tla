------------------------------- MODULE MCGadget -------------------------------
(***************************************************************************)
(* Values for the model checking of Gadget: requests of every kind the     *)
(* code tells apart, the vendor properties, and the symmetry of threads.   *)
(***************************************************************************)
EXTENDS Gadget, TLC

SetTo(functions, callback) ==
    [op : {"setCurrentUsbFunctions"}, functions : functions, callback : callback]
Resets == [op : {"reset"}]

\* Nothing, a kernel function, those of two daemons, and a refused mix.
SetRequests == SetTo({{}, {"RNDIS"}, {"MTP", "ADB"}, {"RNDIS", "MTP"}}, {TRUE})
SetAndResetRequests == SetRequests \cup Resets
ResetRequests == SetTo({{"RNDIS", "ADB"}}, {TRUE}) \cup Resets
AppliedRequests == SetTo({{"ADB"}, {"RNDIS", "MTP"}}, {TRUE})

UserBuild == {<<>>}
DebugBuild == {<<"user">>, <<"diag">>}
TwoDaemons == {"MTP", "ADB"}
OneDaemon == {"ADB"}
NoFunctions == {{}}

ThreadSymmetry == Permutations(BinderThreads)
==============================================================================
