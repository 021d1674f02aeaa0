------------------------------ MODULE GadgetIds ------------------------------
(***************************************************************************)
(* validateAndSetVidPid() of usb/gadget/UsbGadget.cpp: which product id a  *)
(* set of functions gets, given the debug functions the vendor property    *)
(* asks for.  A function mask is a set of functions; the vendor property,  *)
(* a comma separated list, is the sequence of its words.                   *)
(***************************************************************************)
EXTENDS Sequences

Functions == {"MTP", "PTP", "RNDIS", "MIDI", "ADB", "ACCESSORY", "AUDIO_SOURCE"}

\* "" and "user"
NoDebug == {<<>>, <<"user">>}

RndisModem == <<"diag", "diag_mdm", "qdss", "qdss_mdm", "serial_cdev", "dpl_gsi">>
DebugIds == {
    <<{"MTP"}, <<"diag">>, "901B">>,
    <<{"MTP", "ADB"}, <<"diag">>, "903A">>,
    <<{"RNDIS"}, <<"diag">>, "902C">>,
    <<{"RNDIS"}, <<"serial_cdev", "diag">>, "90B5">>,
    <<{"RNDIS"}, RndisModem, "90E6">>,
    <<{"RNDIS", "ADB"}, <<"diag">>, "902D">>,
    <<{"RNDIS", "ADB"}, <<"serial_cdev", "diag">>, "90B6">>,
    <<{"RNDIS", "ADB"}, RndisModem, "90E7">>,
    <<{"ADB"}, <<"diag">>, "901D">>,
    <<{"ADB"}, <<"diag", "serial_cdev", "rmnet_gsi">>, "9091">>,
    <<{"ADB"}, <<"diag", "serial_cdev">>, "901F">>,
    <<{"ADB"}, <<"diag", "serial_cdev", "rmnet_gsi", "dpl_gsi", "qdss">>, "90DB">>,
    <<{"ADB"}, Append(RndisModem, "rmnet_gsi"), "90E5">>}

UserIds == {
    <<{"MTP"}, "4ee1">>, <<{"MTP", "ADB"}, "4ee2">>,
    <<{"RNDIS"}, "4ee3">>, <<{"RNDIS", "ADB"}, "4ee4">>,
    <<{"PTP"}, "4ee5">>, <<{"PTP", "ADB"}, "4ee6">>,
    <<{"ADB"}, "4ee7">>,
    <<{"MIDI"}, "4ee8">>, <<{"MIDI", "ADB"}, "4ee9">>}

\* For an accessory a debug function that has no id of its own is only logged.
AccessoryIds == {
    <<{"ACCESSORY"}, "2d00">>, <<{"ACCESSORY", "ADB"}, "2d01">>,
    <<{"AUDIO_SOURCE"}, "2d02">>, <<{"AUDIO_SOURCE", "ADB"}, "2d03">>,
    <<{"ACCESSORY", "AUDIO_SOURCE"}, "2d04">>,
    <<{"ACCESSORY", "AUDIO_SOURCE", "ADB"}, "2d05">>}

\* The ids a request may be given: one, or none when it is refused.
ProductIds(functions, vendor) ==
    {row[3] : row \in {r \in DebugIds : r[1] = functions /\ r[2] = vendor}}
    \cup {row[2] : row \in {r \in UserIds : r[1] = functions /\ vendor \in NoDebug}}
    \cup {row[2] : row \in {r \in AccessoryIds : r[1] = functions}}
==============================================================================
