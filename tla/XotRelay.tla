------------------------------ MODULE XotRelay ------------------------------
(***************************************************************************)
(* The relay of one call between two connections, as xot-server and        *)
(* xot-gateway run it: a handler that accepts the near connection, dials   *)
(* the far one and waits, one reader goroutine per direction, a goroutine  *)
(* that waits for both readers, and the shutdown handler of the process.   *)
(*                                                                         *)
(* Connections share nothing but the shutdown handler, so one of them is   *)
(* modelled.  Peers are unconstrained: they send any packet, stop reading  *)
(* for good (a write to them then blocks), or go away.  Packets for other  *)
(* channels are ignored by the code and left out.                          *)
(***************************************************************************)
EXTENDS Naturals

CONSTANTS Stream,   \* the side whose connection is a byte stream (TCP)
          Locked    \* are writes to the near side made under connMu

Side == {"near", "far"}
Other(side) == IF side = "near" THEN "far" ELSE "near"

ASSUME RelayAssumption == Stream \in Side /\ Locked \in BOOLEAN

VARIABLES
    handler,       \* where the connection's handler is
    reader,        \* where the reader of each side is
    pkt,           \* the packet each reader is relaying, or ended with
    sock,          \* this process's end of each connection
    peer,          \* is the other end still there
    connMu,        \* who holds the write lock of the near connection
    relayQuit,     \* channel: the relay is over
    stop,          \* channel: the shutdown handler wants this relay to end
    registered,    \* is the connection in activeConns and counted in wg
    signal         \* where the shutdown handler is

relayVars == <<handler, reader, pkt, sock, peer, connMu, relayQuit, stop,
               registered, signal>>

\* What a read ends in, unless it fails: a packet that fits one write, one
\* that takes two, the packets the relay looks at, or one too long.
Packet == {"DATA", "LARGE", "CALL_CONN", "CLR_REQ", "CLR_CONF", "TOO_LONG"}

RelayInit == /\ handler = "none"
             /\ reader = [side \in Side |-> "off"]
             /\ pkt = [side \in Side |-> "none"]
             /\ sock = [side \in Side |-> "none"]
             /\ peer = [side \in Side |-> FALSE]
             /\ connMu = "free"
             /\ relayQuit = FALSE /\ stop = FALSE
             /\ registered = FALSE
             /\ signal = "waiting"

Running == signal # "exited"
shuttingDown == signal # "waiting"

\* A connection that no longer works: reads and writes return an error.
Gone(side) == sock[side] = "closed" \/ ~peer[side]

HandlerAt(label) == Running /\ handler = label
ReaderAt(side, label) == Running /\ reader[side] = label

-----------------------------------------------------------------------------
(***************************************************************************)
(* The accept loop and the handler up to the relay.                        *)
(***************************************************************************)
Accept == /\ HandlerAt("none") /\ signal \in {"waiting", "flagged"}
          /\ handler' = "accepted"
          /\ sock' = [sock EXCEPT !["near"] = "open"]
          /\ peer' = [peer EXCEPT !["near"] = TRUE]
          /\ UNCHANGED <<reader, pkt, connMu, relayQuit, stop, registered, signal>>

\* wg.Add, activeConns.Store, and the handler's goroutine starts.
Start == /\ HandlerAt("accepted")
         /\ handler' = "read"
         /\ registered' = TRUE
         /\ UNCHANGED <<reader, pkt, sock, peer, connMu, relayQuit, stop, signal>>

\* A CALL_REQ: parsed, routed and dialled, or refused with a clear packet.
Call == /\ HandlerAt("read") /\ ~Gone("near")
        /\ \/ /\ handler' = "forward"
              /\ sock' = [sock EXCEPT !["far"] = "open"]
              /\ peer' = [peer EXCEPT !["far"] = TRUE]
           \/ /\ handler' = "refuse"
              /\ UNCHANGED <<sock, peer>>
        /\ UNCHANGED <<reader, pkt, connMu, relayQuit, stop, registered, signal>>

\* No CALL_REQ can be read.  Before the first call the reader may see any
\* malformed packet; afterwards the connection is closed.
CallReadFails == /\ HandlerAt("read")
                 /\ handler' = "return"
                 /\ UNCHANGED <<reader, pkt, sock, peer, connMu, relayQuit, stop,
                                registered, signal>>

Refuse == /\ HandlerAt("refuse")
          /\ handler' = "return"
          /\ UNCHANGED <<reader, pkt, sock, peer, connMu, relayQuit, stop, registered, signal>>

\* The CALL_REQ is written to the far side and both readers start.
Forward == /\ HandlerAt("forward")
           /\ handler' = "relay"
           /\ reader' = [side \in Side |-> "read"]
           /\ UNCHANGED <<pkt, sock, peer, connMu, relayQuit, stop, registered, signal>>

-----------------------------------------------------------------------------
(***************************************************************************)
(* The readers.                                                            *)
(***************************************************************************)
Clears == {"CLR_REQ", "CLR_CONF", "TOO_LONG"}

\* A packet too long is answered with a clear packet to the near side.
Target(side) == IF pkt[side] = "TOO_LONG" THEN "near" ELSE Other(side)

\* SendXot writes header and data separately on a stream.
TwoWrites(side) == pkt[side] = "LARGE" /\ Target(side) = Stream

\* Mutant: a packet is relayed to the near side without sendToSource.
UsesLockNever(side) == FALSE

\* sendToSource; the near reader's answer to a packet too long does not use it.
UsesLock(side) == Locked /\ side = "far"

Read(side, p) ==
    /\ ReaderAt(side, "read") /\ ~Gone(side)
    /\ pkt' = [pkt EXCEPT ![side] = p]
    /\ reader' = [reader EXCEPT ![side] = IF UsesLock(side) THEN "lock" ELSE "write"]
    /\ UNCHANGED <<handler, sock, peer, connMu, relayQuit, stop, registered, signal>>

ReadFails(side) ==
    /\ ReaderAt(side, "read")
    /\ reader' = [reader EXCEPT ![side] = "quit"]
    /\ UNCHANGED <<handler, pkt, sock, peer, connMu, relayQuit, stop, registered, signal>>

Lock(side) ==
    /\ ReaderAt(side, "lock") /\ connMu = "free"
    /\ connMu' = side
    /\ reader' = [reader EXCEPT ![side] = "write"]
    /\ UNCHANGED <<handler, pkt, sock, peer, relayQuit, stop, registered, signal>>

\* Mutant: a CLR_REQ ends the relay like a CLR_CONF does.
AfterSendQuits(p) == IF p \in Clears THEN "quit" ELSE "read"

\* SendXot has returned: a CLR_REQ ends this direction, a CLR_CONF the relay.
AfterSend(p) == CASE p = "CLR_REQ" -> "ended"
                  [] p \in {"CLR_CONF", "TOO_LONG"} -> "quit"
                  [] OTHER -> "read"

\* Mutant: the lock is not released.
SentKeepsLock(side) ==
    /\ reader' = [reader EXCEPT ![side] = AfterSend(pkt[side])]
    /\ pkt' = [pkt EXCEPT ![side] = IF AfterSend(@) = "read" THEN "none" ELSE @]
    /\ UNCHANGED connMu

Sent(side) == /\ reader' = [reader EXCEPT ![side] = AfterSend(pkt[side])]
              /\ pkt' = [pkt EXCEPT ![side] = IF AfterSend(@) = "read" THEN "none" ELSE @]
              /\ connMu' = IF connMu = side THEN "free" ELSE connMu

\* The only write, or the first of two; when it fails there is no second.
Write(side) ==
    /\ ReaderAt(side, "write")
    /\ \/ /\ TwoWrites(side) /\ ~Gone(Target(side))
          /\ reader' = [reader EXCEPT ![side] = "second"]
          /\ UNCHANGED <<pkt, connMu>>
       \/ ~(TwoWrites(side) /\ ~Gone(Target(side))) /\ Sent(side)
    /\ UNCHANGED <<handler, sock, peer, relayQuit, stop, registered, signal>>

WriteData(side) ==
    /\ ReaderAt(side, "second")
    /\ Sent(side)
    /\ UNCHANGED <<handler, sock, peer, relayQuit, stop, registered, signal>>

\* closeRelay, and the reader returns.
Quit(side) ==
    /\ ReaderAt(side, "quit")
    /\ relayQuit' = TRUE
    /\ reader' = [reader EXCEPT ![side] = "ended"]
    /\ UNCHANGED <<handler, pkt, sock, peer, connMu, stop, registered, signal>>

ReadersEnded == \A side \in Side : reader[side] = "ended"

\* Mutant: the wait for both readers begins only when the handler waits too.
WaiterQuitsLate == /\ Running /\ ReadersEnded /\ ~relayQuit /\ handler = "wait"
                   /\ relayQuit' = TRUE
                   /\ UNCHANGED <<handler, reader, pkt, sock, peer, connMu, stop, registered,
                                  signal>>

\* Both directions have ended, each with a CLR_REQ.
WaiterQuits == /\ Running /\ ReadersEnded /\ ~relayQuit
               /\ relayQuit' = TRUE
               /\ UNCHANGED <<handler, reader, pkt, sock, peer, connMu, stop, registered,
                              signal>>

-----------------------------------------------------------------------------
(***************************************************************************)
(* The handler from the relay on.                                          *)
(***************************************************************************)
RelayOver == /\ HandlerAt("relay") /\ relayQuit
             /\ handler' = "close"
             /\ UNCHANGED <<reader, pkt, sock, peer, connMu, relayQuit, stop, registered,
                            signal>>

RelayStopped == /\ HandlerAt("relay") /\ stop
                /\ handler' = "clear"
                /\ UNCHANGED <<reader, pkt, sock, peer, connMu, relayQuit, stop, registered,
                               signal>>

\* A clear packet for the near peer; a small one, so lock and write are one
\* step.
SendClear == /\ HandlerAt("clear")
             /\ ~Locked \/ connMu = "free"
             /\ handler' = "close"
             /\ UNCHANGED <<reader, pkt, sock, peer, connMu, relayQuit, stop, registered, signal>>

\* Mutant: only the far connection is closed.
CloseBothForgetsNear ==
    /\ HandlerAt("close")
    /\ sock' = [sock EXCEPT !["far"] = "closed"]
    /\ handler' = "wait"
    /\ UNCHANGED <<reader, pkt, peer, connMu, relayQuit, stop, registered, signal>>

CloseBoth == /\ HandlerAt("close")
             /\ sock' = [side \in Side |-> "closed"]
             /\ handler' = "wait"
             /\ UNCHANGED <<reader, pkt, peer, connMu, relayQuit, stop, registered, signal>>

\* Mutant: the handler does not wait for its readers.
WaitReadersSkips ==
    /\ HandlerAt("wait")
    /\ handler' = IF shuttingDown THEN "return" ELSE "read"
    /\ UNCHANGED <<reader, pkt, sock, peer, connMu, relayQuit, stop, registered,
                   signal>>

\* relayWg.Wait; then the next call is read, unless the process shuts down.
WaitReaders == /\ HandlerAt("wait") /\ ReadersEnded
               /\ handler' = IF shuttingDown THEN "return" ELSE "read"
               /\ UNCHANGED <<reader, pkt, sock, peer, connMu, relayQuit, stop, registered,
                              signal>>

\* The near connection is closed, then activeConns.Delete and wg.Done.
Return == /\ HandlerAt("return")
          /\ handler' = "done"
          /\ sock' = [sock EXCEPT !["near"] = "closed"]
          /\ registered' = FALSE
          /\ UNCHANGED <<reader, pkt, peer, connMu, relayQuit, stop, signal>>

-----------------------------------------------------------------------------
(***************************************************************************)
(* The shutdown handler.                                                   *)
(***************************************************************************)
handlerVars == <<handler, reader, pkt, peer, connMu, relayQuit, registered>>

SignalFlag == /\ signal = "waiting"
              /\ signal' = "flagged"
              /\ UNCHANGED <<handlerVars, sock, stop>>

\* The listener is closed; SIGHUP grants a grace period.
SignalCloseListener == /\ signal = "flagged"
                       /\ signal' \in {"grace", "range"}
                       /\ UNCHANGED <<handlerVars, sock, stop>>

GraceDrained == /\ signal = "grace" /\ ~registered
                /\ signal' = "drained"
                /\ UNCHANGED <<handlerVars, sock, stop>>

GraceExpires == /\ signal = "grace"
                /\ signal' = "range"
                /\ UNCHANGED <<handlerVars, sock, stop>>

\* Range over activeConns: close the stop channel, then the connection.
SignalStop == /\ signal \in {"range", "drained"}
              /\ \/ registered /\ stop' = TRUE /\ signal' = "closing"
                 \/ ~registered /\ signal' = "exiting" /\ UNCHANGED stop
              /\ UNCHANGED <<handlerVars, sock>>

SignalCloseConn == /\ signal = "closing"
                   /\ sock' = [sock EXCEPT !["near"] = "closed"]
                   /\ signal' = "exiting"
                   /\ UNCHANGED <<handlerVars, stop>>

SignalExit == /\ signal = "exiting"
              /\ signal' = "exited"
              /\ UNCHANGED <<handlerVars, sock, stop>>

\* The accept loop meets the closed listener: main returns, and that ends the
\* process wherever the shutdown handler is.
MainReturns == /\ signal \in {"grace", "drained", "range", "closing", "exiting"}
               /\ handler # "accepted"
               /\ signal' = "exited"
               /\ UNCHANGED <<handlerVars, sock, stop>>

-----------------------------------------------------------------------------
PeerLeaves(side) == /\ Running /\ peer[side]
                    /\ peer' = [peer EXCEPT ![side] = FALSE]
                    /\ UNCHANGED <<handler, reader, pkt, sock, connMu, relayQuit, stop,
                                   registered, signal>>

HandlerStep == \/ Accept \/ Start \/ Call \/ CallReadFails \/ Refuse \/ Forward
               \/ RelayOver \/ RelayStopped \/ SendClear \/ CloseBoth \/ WaitReaders \/ Return

SendStep(side) == \/ ReadFails(side) \/ Lock(side) \/ Write(side) \/ WriteData(side)
                  \/ Quit(side)

SignalStep == \/ SignalFlag \/ SignalCloseListener \/ GraceDrained \/ GraceExpires
              \/ SignalStop \/ SignalCloseConn \/ SignalExit \/ MainReturns

(***************************************************************************)
(* What happens without the help of a peer.  A read returns when the       *)
(* connection is gone, and so does a blocked write; nothing else can be    *)
(* expected of a peer.  The grace period ends.                             *)
(***************************************************************************)
ReaderProgress(side) ==
    \/ Gone(side) /\ ReadFails(side)
    \/ Lock(side) \/ Quit(side)
    \/ Gone(Target(side)) /\ (Write(side) \/ WriteData(side))

HandlerProgress == \/ Start \/ (Gone("near") /\ (CallReadFails \/ Refuse))
                   \/ Gone("far") /\ Forward
                   \/ RelayOver \/ RelayStopped
                   \/ Gone("near") /\ SendClear
                   \/ CloseBoth \/ WaitReaders \/ Return

ShutdownProgress == \/ SignalCloseListener \/ GraceExpires \/ SignalStop \/ SignalCloseConn
                    \/ SignalExit \/ MainReturns

-----------------------------------------------------------------------------
\* Every variable has its type, and the lock is held only by a writer.
RelayTypeOK ==
    /\ handler \in {"none", "accepted", "read", "refuse", "forward", "relay", "clear",
                    "close", "wait", "return", "done"}
    /\ reader \in [Side -> {"off", "read", "lock", "write", "second", "quit", "ended"}]
    /\ pkt \in [Side -> Packet \union {"none"}]
    /\ sock \in [Side -> {"none", "open", "closed"}]
    /\ peer \in [Side -> BOOLEAN]
    /\ connMu \in {"free"} \union {side \in Side : reader[side] \in {"write", "second"}}
    /\ relayQuit \in BOOLEAN /\ stop \in BOOLEAN /\ registered \in BOOLEAN
    /\ signal \in {"waiting", "flagged", "grace", "range", "drained", "closing", "exiting",
                   "exited"}
=============================================================================
