----------------------------- MODULE XotServer ------------------------------
(***************************************************************************)
(* xot-server (src/cmd/xot-server/main.go): the near side is the TCP       *)
(* connection of an XOT peer, the far side the local socket of tun-gateway *)
(* or xot-gateway.  Writes to the near side go through sendToSource.       *)
(***************************************************************************)
EXTENDS XotRelay

ServerNext == \/ HandlerStep
              \/ \E side \in Side, p \in Packet : Read(side, p)
              \/ \E side \in Side : SendStep(side)
              \/ WaiterQuits
              \/ SignalStep
              \/ \E side \in Side : PeerLeaves(side)

ServerFairness == /\ \A side \in Side : WF_relayVars(ReaderProgress(side))
                  /\ WF_relayVars(HandlerProgress)
                  /\ WF_relayVars(WaiterQuits)
                  /\ WF_relayVars(ShutdownProgress)

ServerSpec == RelayInit /\ [][ServerNext]_relayVars /\ ServerFairness

-----------------------------------------------------------------------------
(***************************************************************************)
(* A handler that has returned leaves nothing behind: both readers have    *)
(* returned their buffers, both connections are closed and the write lock  *)
(* is free, whichever of the ways to end the relay came first.             *)
(***************************************************************************)
NothingLeftBehind ==
    handler = "done" => /\ \A side \in Side : reader[side] \in {"off", "ended"}
                        /\ \A side \in Side : sock[side] # "open"
                        /\ connMu = "free"

(***************************************************************************)
(* Once the relay is over or told to stop, the handler returns, although a *)
(* peer may have stopped reading and a reader may be blocked in a write    *)
(* while it holds the write lock.                                          *)
(***************************************************************************)
RelayUnwinds == (relayQuit \/ stop) ~> (handler = "done" \/ signal = "exited")

(***************************************************************************)
(* A relay both peers have left comes to an end, whichever clears have     *)
(* been exchanged before: it never waits for a packet nobody can send.     *)
(***************************************************************************)
AbandonedRelayEnds ==
    (handler = "relay" /\ Gone("near") /\ Gone("far")) ~> (handler # "relay" \/ ~Running)

(***************************************************************************)
(* A clear request does not cut the call off: unless a connection breaks,  *)
(* a packet is malformed or the process stops, the relay goes on until it  *)
(* has seen a CLR_CONF or a CLR_REQ from either side, so that the          *)
(* confirmation of the other peer gets through.                            *)
(***************************************************************************)
ClearIsAnswered ==
    [][(/\ ~relayQuit /\ relayQuit'
        /\ \A side \in Side : pkt[side] # "TOO_LONG" /\ ~Gone(side))
       => \/ \E side \in Side : reader[side] = "quit" /\ pkt[side] # "CLR_REQ"
          \/ \A side \in Side : pkt[side] = "CLR_REQ"]_relayVars

(***************************************************************************)
(* RACE-D: the clear packet of the shutdown path is never written between  *)
(* the header and the data of a packet relayed to the TCP stream.          *)
(***************************************************************************)
PacketsStayWhole ==
    [][(reader["far"] = "second" /\ sock["near"] = "open")
          => ~(handler = "clear" /\ handler' # "clear")]_relayVars

(***************************************************************************)
(* SIGHUP: the process waits for active connections to finish or for the   *)
(* grace period to expire before it exits.                                 *)
(***************************************************************************)
GraceIsGranted == [][signal = "grace" /\ registered => signal' # "exited"]_relayVars
=============================================================================
