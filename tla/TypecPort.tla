------------------------------ MODULE TypecPort ------------------------------
(***************************************************************************)
(* The kernel side of the USB Type-C port, as the USB HAL sees it: the     *)
(* directory /sys/class/typec/port0, its optional port0-partner entry, the *)
(* role nodes, the moisture nodes of the charger and the uevents that      *)
(* announce their changes.  None of this code is in the repository; it is  *)
(* modelled from what usb/usb/Usb.cpp reads, writes and listens to.        *)
(*                                                                         *)
(* A uevent message is abstracted to what uevent_event() tells apart:      *)
(*   "partnerAdd"  an add@...-partner message (it carries DEVTYPE=typec_   *)
(*                 further on),                                            *)
(*   "typec"       any other message with DEVTYPE=typec_ or a moisture     *)
(*                 property (partner removed, role changed, moisture),     *)
(*   "other"       a message none of whose strings is of interest.         *)
(***************************************************************************)
EXTENDS Naturals, Sequences

CONSTANTS
    MaxUevents,   \* bound on the messages queued in the uevent socket
    KernelEvents  \* which of AllKernelEvents happen in this instance

AllKernelEvents == {"partner", "role", "moisture", "other"}
PortTypes == {"dual", "source", "sink"}
RolesOf == [dataRole |-> {"host", "device"}, powerRole |-> {"source", "sink"}]
RoleTags == DOMAIN RolesOf
Uevents == {"partnerAdd", "typec", "other"}

ASSUME KernelAssumption ==
    /\ MaxUevents \in Nat \ {0}
    /\ KernelEvents \subseteq AllKernelEvents

VARIABLES
    partner,      \* does port0-partner exist
    roles,        \* contents of data_role and power_role
    detected,     \* moisture_detected
    portType,     \* contents of port_type
    attachedSince,\* history: did a partner attach since port_type was written
    listening,    \* is a uevent socket open
    uevents       \* messages queued in that socket

KernelTypeOK ==
    /\ partner \in BOOLEAN
    /\ roles \in [dataRole : RolesOf.dataRole, powerRole : RolesOf.powerRole]
    /\ detected \in BOOLEAN
    /\ portType \in PortTypes
    /\ attachedSince \in BOOLEAN
    /\ listening \in BOOLEAN
    /\ uevents \in Seq(Uevents)

\* A cold boot: nothing attached, dual role port, nobody listening yet.
KernelInit ==
    /\ partner = FALSE
    /\ roles = [dataRole |-> "device", powerRole |-> "sink"]
    /\ detected = FALSE
    /\ portType = "dual"
    /\ attachedSince = FALSE
    /\ listening = FALSE
    /\ uevents = <<>>

\* A multicast message reaches the sockets that are open when it is sent.
Broadcast(u) ==
    /\ Len(uevents) < MaxUevents
    /\ uevents' = IF listening THEN Append(uevents, u) ELSE uevents

\* The effect of writing r to port_type: an unknown word is refused.
PortTypeWritten(r) ==
    /\ portType' = IF r \in PortTypes THEN r ELSE portType
    /\ attachedSince' = FALSE

PartnerAttach ==
    /\ "partner" \in KernelEvents
    /\ ~partner
    /\ partner' = TRUE
    /\ attachedSince' = TRUE
    /\ Broadcast("partnerAdd")
    /\ UNCHANGED <<roles, detected, portType, listening>>

PartnerDetach ==
    /\ "partner" \in KernelEvents
    /\ partner
    /\ partner' = FALSE
    /\ Broadcast("typec")
    /\ UNCHANGED <<roles, detected, portType, attachedSince, listening>>

\* A role swap, which needs a partner to agree and is announced.
Swap(tag, r) ==
    /\ partner
    /\ r \in RolesOf[tag] \ {roles[tag]}
    /\ roles' = [roles EXCEPT ![tag] = r]
    /\ Broadcast("typec")

\* The partner asks for a swap.
RoleChange ==
    /\ "role" \in KernelEvents
    /\ \E tag \in RoleTags : \E r \in RolesOf[tag] : Swap(tag, r)
    /\ UNCHANGED <<partner, detected, portType, attachedSince, listening>>

MoistureChange ==
    /\ "moisture" \in KernelEvents
    /\ detected' = ~detected
    /\ Broadcast("typec")
    /\ UNCHANGED <<partner, roles, portType, attachedSince, listening>>

OtherUevent ==
    /\ "other" \in KernelEvents
    /\ listening
    /\ Broadcast("other")
    /\ UNCHANGED <<partner, roles, detected, portType, attachedSince, listening>>

KernelNext ==
    \/ PartnerAttach
    \/ PartnerDetach
    \/ RoleChange
    \/ MoistureChange
    \/ OtherUevent
==============================================================================
