------------------------------- MODULE TunLink -------------------------------
(***************************************************************************)
(* tun-gateway composed with the link layer of the kernel's X.25 stack:    *)
(* the control frames and restart packets that handleTunRead exchanges     *)
(* with it across the TUN device.                                          *)
(*                                                                         *)
(* A frame the gateway writes is processed by the kernel at once.  A frame *)
(* the kernel sends waits in the device until the gateway reads it.  Only  *)
(* link-layer frames are kept in the device: reading a packet of a circuit *)
(* commutes with everything the kernel does here, so the packets are read  *)
(* between the link-layer frames.  No signal arrives, and the device works.*)
(***************************************************************************)
EXTENDS TunGateway, Sequences

CONSTANTS MaxQueue,   \* bound on the frames waiting in the device
          Hasty       \* may a call arrive, or the link be terminated, while
                      \* the gateway is behind with frames of the link layer

ASSUME BoundAssumption == MaxQueue \in Nat \ {0} /\ Hasty \in BOOLEAN

VARIABLES
    kernelLink,   \* X25_LINK_STATE_0 to _3
    device        \* frames of the kernel that the gateway has not read

linkVars == <<vars, kernelLink, device>>

\* main has written Connect; the kernel has answered with RESTART_REQ.
LinkInit == Init /\ kernelLink = 2 /\ device = <<"restart">>

-----------------------------------------------------------------------------
(***************************************************************************)
(* The kernel.                                                             *)
(***************************************************************************)
KernelSends(frame, link) == /\ Len(device) < MaxQueue
                            /\ device' = Append(device, frame)
                            /\ kernelLink' = link
                            /\ UNCHANGED vars

\* A socket transmits on a link that is down.
KernelTransmit == kernelLink = 0 /\ KernelSends("connect", 1)

\* T20 expires before the RESTART_CONF has come.
KernelT20 == kernelLink = 2 /\ KernelSends("restart", 2)

\* The link is terminated.
KernelTerminate == /\ kernelLink # 0
                   /\ Hasty \/ device = << >>
                   /\ KernelSends("disconnect", 0)

\* The kernel gets a frame of the gateway, where rest is what the device
\* holds: Connect establishes the link; RESTART_CONF completes it, or starts
\* it over when it was complete.
KernelGets(frame, rest) ==
    LET restarts == \/ frame = "connect" /\ kernelLink \in {0, 1}
                    \/ frame = "confirm" /\ kernelLink = 3
        completes == frame = "confirm" /\ kernelLink = 2
    IN  /\ kernelLink' = IF restarts THEN 2 ELSE IF completes THEN 3 ELSE kernelLink
        /\ device' = IF restarts THEN Append(rest, "restart") ELSE rest

-----------------------------------------------------------------------------
(***************************************************************************)
(* handleTunRead with its device.                                          *)
(***************************************************************************)
Reads(frame) == At(Tun, "read") /\ device # << >> /\ Head(device) = frame

\* Connect is echoed unless the link is taken for operational.
ReadConnect ==
    /\ Reads("connect")
    /\ \/ /\ linkState # "Operational"
          /\ KernelGets("connect", Tail(device))
          /\ TunConnect \/ (linkState = "Connecting" /\ UNCHANGED vars)
       \/ /\ linkState = "Operational"
          /\ device' = Tail(device)
          /\ UNCHANGED <<vars, kernelLink>>

\* Mutant: the sessions are closed but the link state is not reset.
ReadDisconnectKeepsState ==
    /\ Reads("disconnect")
    /\ Goto(Tun, "closeAll")
    /\ device' = Tail(device)
    /\ UNCHANGED <<smVars, Shared, loc, kernelLink>>

ReadDisconnect ==
    /\ Reads("disconnect")
    /\ TunDisconnect
    /\ device' = Tail(device)
    /\ UNCHANGED kernelLink

\* Mutant: every RESTART_REQ is answered.
ReadRestartAlways ==
    /\ Reads("restart")
    /\ Goto(Tun, "confirm")
    /\ device' = Tail(device)
    /\ UNCHANGED <<smVars, Shared, loc, kernelLink>>

\* A duplicate is ignored.
ReadRestart ==
    /\ Reads("restart")
    /\ \/ TunRestart
       \/ linkState = "Operational" /\ GetAllSessions = {} /\ UNCHANGED vars
    /\ device' = Tail(device)
    /\ UNCHANGED kernelLink

\* Mutant: the RESTART_CONF is written, the link state is not updated.
ConfirmKeepsState == /\ At(Tun, "confirm")
                     /\ Goto(Tun, "read")
                     /\ KernelGets("confirm", device)
                     /\ UNCHANGED <<smVars, Shared, loc>>

Confirm == TunRestartConfirm /\ KernelGets("confirm", device)

\* Packets of circuits; the kernel puts none behind a Disconnect header.
Packets == /\ TunContinue \/ (device = << >> /\ TunReadPacket)
           /\ UNCHANGED <<linkState, kernelLink, device>>

Reader == \/ ReadConnect \/ ReadDisconnect \/ ReadRestart \/ Confirm
          \/ TunContinue /\ UNCHANGED <<linkState, kernelLink, device>>

\* No frame of the link layer is waiting, and the gateway takes the link for
\* operational.
LinkSettled == device = << >> /\ linkState = "Operational"

NewSession == \E id \in ID : sessions[id] = NoSession /\ sessions'[id] # NoSession

Servers == /\ \/ \E c \in SvrConn : ServerStep(c)
              \/ \E c \in GwyConn : GatewayStep(c)
              \/ \E c \in Conn : CleanupStep(c)
              \/ \E r \in Ref : Collect(r)
           /\ NewSession => Hasty \/ LinkSettled
           /\ UNCHANGED <<kernelLink, device>>

LinkNext == \/ KernelTransmit \/ KernelT20 \/ KernelTerminate
            \/ ReadConnect \/ ReadDisconnect \/ ReadRestart \/ Confirm
            \/ Packets
            \/ Servers

(***************************************************************************)
(* The reader is a goroutine of its own that takes no lock for longer than *)
(* one call of the session manager; that its writes to the peers return is *)
(* assumed.  T20 is armed as long as the kernel waits for the RESTART_CONF.*)
(***************************************************************************)
Fairness == WF_linkVars(Reader) /\ WF_linkVars(KernelT20)

LinkSpec == LinkInit /\ [][LinkNext]_linkVars /\ Fairness

-----------------------------------------------------------------------------
\* The variables of the composition have their types.
LinkTypeOK == /\ TypeOK
              /\ kernelLink \in 0..3
              /\ device \in Seq({"connect", "disconnect", "restart"})
              /\ Len(device) <= MaxQueue + 1

(***************************************************************************)
(* COMPAT004: the gateway never sends a RESTART_CONF to a kernel whose     *)
(* link is up: that kernel would kill every socket of the interface and    *)
(* start over.                                                             *)
(***************************************************************************)
NoDuplicateConfirm == [][~(kernelLink = 3 /\ kernelLink' = 2)]_linkVars

(***************************************************************************)
(* A kernel that is establishing its link gets there, or is taken down:    *)
(* the gateway answers its Connect and its RESTART_REQ.                    *)
(***************************************************************************)
LinkComesUp == kernelLink \in {1, 2} ~> kernelLink \in {0, 3}

(***************************************************************************)
(* Once everything the kernel sent has been handled, both sides agree      *)
(* whether the link is up: server calls are neither refused on a link that *)
(* works nor written to one that does not.                                 *)
(***************************************************************************)
SettledViewsAgree ==
    (device = << >> /\ pc[Tun] = "read") =>
        /\ linkState = "Operational" <=> kernelLink = 3
        /\ linkState = "Down" <=> kernelLink = 0
=============================================================================
