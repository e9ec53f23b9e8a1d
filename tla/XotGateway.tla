----------------------------- MODULE XotGateway -----------------------------
(***************************************************************************)
(* xot-gateway (src/cmd/xot-gateway/main.go): the near side is the local   *)
(* socket of xot-server or tun-gateway, the far side the TCP connection to *)
(* the remote XOT server.  Nothing is locked.  While a call is up, a       *)
(* keepalive goroutine probes an idle circuit with an INTERRUPT and gives  *)
(* the relay up when the probe is still unanswered one interval later.     *)
(*                                                                         *)
(* Interrupts are counted to their confirmation: the remote end answers    *)
(* each one it receives once, in order, but may take any time to do so.    *)
(***************************************************************************)
EXTENDS XotRelay

CONSTANTS PeerPackets,    \* the packets that occur
          MaxInterrupts,  \* bound on the interrupts the local end sends
          Keepalive       \* is a keepalive interval configured

ASSUME InterruptAssumption == /\ PeerPackets \subseteq Packet /\ MaxInterrupts \in Nat
                              /\ Keepalive \in BOOLEAN

VARIABLES
    keeper,        \* where the keepalive goroutine is
    idle,          \* has lastActivity been an interval ago
    probe,         \* atomic: interruptProbeInFlight
    established,   \* channel: callEstablished
    interrupts,    \* interrupts the local end has sent
    outstanding,   \* interrupts that the remote end has not confirmed
    owed           \* confirmations the local end is waiting for

keepVars == <<keeper, idle, probe, established, interrupts, outstanding, owed>>
vars == <<relayVars, keepVars>>

Init == /\ RelayInit
        /\ keeper = "off"
        /\ idle = FALSE /\ probe = FALSE /\ established = FALSE
        /\ interrupts = 0 /\ outstanding = 0 /\ owed = 0

-----------------------------------------------------------------------------
\* The relay starts, and with it the keepalive goroutine.
StartRelay == /\ Forward
              /\ keeper' = IF Keepalive THEN "wait" ELSE "ended"
              /\ UNCHANGED <<idle, probe, established, interrupts, outstanding, owed>>

\* Remote to local: every packet counts as activity, CALL_CONN as the
\* establishment of the call.
RemoteToLocal(p) == /\ Read("far", p)
                    /\ idle' = FALSE
                    /\ established' = (established \/ p = "CALL_CONN")
                    /\ UNCHANGED <<keeper, probe, interrupts, outstanding, owed>>

\* Mutant: the confirmation does not end the probe (a load, not a swap).
InterruptConfirmedKeepsProbe ==
    /\ ReaderAt("far", "read") /\ ~Gone("far") /\ outstanding > 0
    /\ outstanding' = outstanding - 1
    /\ idle' = FALSE
    /\ owed' = IF probe THEN owed ELSE owed - 1
    /\ UNCHANGED <<relayVars, keeper, probe, established, interrupts>>

\* An INTERRUPT_CONF: swallowed while a probe is in flight, else relayed.
InterruptConfirmed ==
    /\ ReaderAt("far", "read") /\ ~Gone("far") /\ outstanding > 0
    /\ outstanding' = outstanding - 1
    /\ idle' = FALSE
    /\ IF probe THEN probe' = FALSE /\ UNCHANGED owed
                ELSE owed' = owed - 1 /\ UNCHANGED probe
    /\ UNCHANGED <<relayVars, keeper, established, interrupts>>

LocalToRemote(p) == /\ Read("near", p)
                    /\ idle' = FALSE
                    /\ UNCHANGED <<keeper, probe, established, interrupts, outstanding, owed>>

\* On a call that is up the local end sends an INTERRUPT, one at a time; it is relayed.
LocalInterrupt ==
    /\ ReaderAt("near", "read") /\ ~Gone("near") /\ ~Gone("far")
    /\ established /\ interrupts < MaxInterrupts /\ owed = 0
    /\ interrupts' = interrupts + 1
    /\ outstanding' = outstanding + 1
    /\ owed' = owed + 1
    /\ idle' = FALSE
    /\ UNCHANGED <<relayVars, keeper, probe, established>>

-----------------------------------------------------------------------------
(***************************************************************************)
(* The keepalive goroutine.                                                *)
(***************************************************************************)
KeeperAt(label) == Running /\ keeper = label

KeeperStarts == /\ KeeperAt("wait") /\ established
                /\ keeper' = "tick"
                /\ UNCHANGED <<relayVars, idle, probe, established, interrupts, outstanding, owed>>

\* Mutant: only the shutdown handler ends the goroutine.
KeeperEndsOnStop ==
    /\ KeeperAt("wait") \/ KeeperAt("tick")
    /\ stop
    /\ keeper' = "ended"
    /\ UNCHANGED <<relayVars, idle, probe, established, interrupts, outstanding, owed>>

\* relayQuit or stop ends the goroutine wherever it waits.
KeeperEnds == /\ KeeperAt("wait") \/ KeeperAt("tick")
              /\ relayQuit \/ stop
              /\ keeper' = "ended"
              /\ UNCHANGED <<relayVars, idle, probe, established, interrupts, outstanding, owed>>

\* Mutant: the probe is sent but not noted.
TickProbesUnnoted == /\ KeeperAt("tick") /\ idle /\ ~probe
                     /\ keeper' = "probe"
                     /\ UNCHANGED <<relayVars, idle, probe, established, interrupts,
                                    outstanding, owed>>

\* The ticker fires on an idle circuit: the probe is noted, then sent.
TickProbes == /\ KeeperAt("tick") /\ idle /\ ~probe
              /\ keeper' = "probe"
              /\ probe' = TRUE
              /\ UNCHANGED <<relayVars, idle, established, interrupts, outstanding, owed>>

SendProbe == /\ KeeperAt("probe")
             /\ keeper' = "tick"
             /\ outstanding' = outstanding + (IF Gone("far") THEN 0 ELSE 1)
             /\ UNCHANGED <<relayVars, idle, probe, established, interrupts, owed>>

\* Mutant: an unanswered probe is sent again.
TickProbesAgain == /\ KeeperAt("tick") /\ idle /\ probe
                   /\ keeper' = "probe"
                   /\ outstanding < 2
                   /\ UNCHANGED <<relayVars, idle, probe, established, interrupts,
                                  outstanding, owed>>

\* Still idle, and the probe is still in flight: closeRelay.
TickTimesOut == /\ KeeperAt("tick") /\ idle /\ probe
                /\ keeper' = "ended"
                /\ relayQuit' = TRUE
                /\ UNCHANGED <<handler, reader, pkt, sock, peer, connMu, stop, registered,
                               signal>>
                /\ UNCHANGED <<idle, probe, established, interrupts, outstanding, owed>>

\* An interval passes without activity, while somebody looks at it.
TimePasses == /\ KeeperAt("tick") /\ ~idle
              /\ idle' = TRUE
              /\ UNCHANGED <<relayVars, keeper, probe, established, interrupts, outstanding, owed>>

KeeperStep == KeeperStarts \/ KeeperEnds \/ TickProbes \/ SendProbe \/ TickTimesOut

-----------------------------------------------------------------------------
\* relayWg counts the keepalive goroutine too; relayDataWg does not.
WaitAll == WaitReaders /\ keeper = "ended" /\ UNCHANGED keepVars

\* Mutant: the waiter waits for the keepalive goroutine as well.
DataWaiterWaitsForAll == WaiterQuits /\ keeper = "ended" /\ UNCHANGED keepVars

DataWaiterQuits == WaiterQuits /\ UNCHANGED keepVars

HandlerRest == \/ Accept \/ Start \/ Call \/ CallReadFails \/ Refuse
               \/ RelayOver \/ RelayStopped \/ SendClear \/ CloseBoth \/ Return

ShutdownStep == SignalStep /\ UNCHANGED keepVars

Next == \/ HandlerRest /\ UNCHANGED keepVars
        \/ StartRelay \/ WaitAll \/ DataWaiterQuits
        \/ \E p \in PeerPackets : RemoteToLocal(p) \/ LocalToRemote(p)
        \/ InterruptConfirmed \/ LocalInterrupt
        \/ \E side \in Side : SendStep(side) /\ UNCHANGED keepVars
        \/ KeeperStep \/ TimePasses
        \/ ShutdownStep
        \/ \E side \in Side : PeerLeaves(side) /\ UNCHANGED keepVars

(***************************************************************************)
(* As for the relay; the ticker keeps firing, time passes, and a probe is  *)
(* too short to block.                                                     *)
(***************************************************************************)
HandlerRestProgress == \/ Start \/ (Gone("near") /\ (CallReadFails \/ Refuse))
                       \/ RelayOver \/ RelayStopped
                       \/ Gone("near") /\ SendClear
                       \/ CloseBoth \/ Return

Fairness ==
    /\ \A side \in Side : WF_vars(ReaderProgress(side) /\ UNCHANGED keepVars)
    /\ WF_vars(\/ HandlerRestProgress /\ UNCHANGED keepVars
               \/ Gone("far") /\ StartRelay
               \/ WaitAll)
    /\ WF_vars(DataWaiterQuits)
    /\ WF_vars(KeeperStep)
    /\ WF_vars(TimePasses)
    /\ WF_vars(ShutdownProgress /\ UNCHANGED keepVars)

Spec == Init /\ [][Next]_vars /\ Fairness

-----------------------------------------------------------------------------
(***************************************************************************)
(* The probe is invisible to the local end: it never gets a confirmation   *)
(* of an interrupt it has not sent, however probe, local interrupt and the *)
(* two confirmations cross.                                                *)
(***************************************************************************)
NoUnaskedConfirmation == owed >= 0

(***************************************************************************)
(* No confirmation gets lost either: what the local end waits for and what *)
(* the probe waits for is what the remote end still has to send, or what   *)
(* the keepalive goroutine is about to send.                               *)
(***************************************************************************)
ConfirmationsBalance ==
    (keeper = "tick" /\ ~Gone("far")) => outstanding = owed + (IF probe THEN 1 ELSE 0)

(***************************************************************************)
(* Once the relay is over the handler returns, with all three goroutines   *)
(* ended.                                                                  *)
(***************************************************************************)
KeeperUnwinds == relayQuit ~> ((handler = "done" /\ keeper = "ended") \/ signal = "exited")

(***************************************************************************)
(* Crossing clears end the relay: when each side has sent CLR_REQ, nobody  *)
(* waits for a further packet.                                             *)
(***************************************************************************)
CrossingClearsEnd == (handler = "relay" /\ ReadersEnded) ~> (handler # "relay" \/ ~Running)

(***************************************************************************)
(* No call is silent for ever: an established call on which nothing is     *)
(* read any more from either side is given up, although neither connection *)
(* was ever closed.                                                        *)
(***************************************************************************)
Silent == /\ handler = "relay" /\ established
          /\ \A side \in Side : reader[side] = "read"
SilentCallEnds == []<>(~Silent \/ ~idle \/ ~Running)
=============================================================================
