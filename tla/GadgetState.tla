----------------------------- MODULE GadgetState -----------------------------
(***************************************************************************)
(* What a USB host may see of the phone as a gadget, whatever the threads  *)
(* of the gadget HAL do: nothing, or one whole configuration, and between  *)
(* two configurations always nothing, so that the host senses the          *)
(* disconnect and reads the descriptors again.                             *)
(***************************************************************************)
CONSTANTS Configurations, NoConfiguration

VARIABLE shown

Init == shown \in Configurations \cup {NoConfiguration}

Disconnect == shown' = NoConfiguration

Connect ==
    /\ shown = NoConfiguration
    /\ shown' \in Configurations

Spec == Init /\ [][Disconnect \/ Connect]_shown
==============================================================================
