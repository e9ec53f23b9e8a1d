--------------------------- MODULE XotRelayProofs ---------------------------
(***************************************************************************)
(* Proofs about xot-server and xot-gateway, whichever side the byte stream *)
(* is on.  First the relay they have in common: RelayInv is an invariant   *)
(* of each step of it, with and without the lock.  Then what follows for   *)
(* xot-server; and xot-gateway, whose keepalive goroutine adds one more    *)
(* way to end the relay, for every bound on the interrupts, every set of   *)
(* packets and with or without a keepalive interval.                       *)
(***************************************************************************)
EXTENDS XotServer, XotGateway, Integers, TLAPS

\* The readers run from Forward to the wait for them.
AtWork == handler \in {"relay", "clear", "close", "wait"}
IdleReaders == ~AtWork => \A side \in Side : reader[side] \in {"off", "ended"}

\* A connection carries one call: when the wait is over the near connection
\* has been closed, and no second CALL_REQ is read from it.
BeforeRelay == \/ handler \in {"none", "forward"}
               \/ handler \in {"accepted", "read"} /\ sock["near"] # "closed"
OneCall == /\ BeforeRelay => \A side \in Side : reader[side] = "off"
           /\ handler = "wait" => sock["near"] = "closed"

\* Outside a call the far connection is not open, and in the end neither is
\* the near one.
ClosedAfterwards ==
    /\ handler \notin {"forward", "relay", "clear", "close"} => sock["far"] # "open"
    /\ handler = "done" => sock["near"] # "open"

\* What a reader holds: it quits without having relayed a CLR_REQ, and has
\* ended because of one, or because the relay is over.
Holds(label, p, over) ==
    /\ label \in {"off", "read"} => p = "none"
    /\ label \in {"lock", "write", "second"} => p \in Packet
    /\ label = "quit" => p # "CLR_REQ"
    /\ label = "ended" => p = "CLR_REQ" \/ over
ReadersHold == \A side \in Side : Holds(reader[side], pkt[side], relayQuit)

\* The writer that uses the lock holds it.
LockHeld == \A side \in Side :
                UsesLock(side) /\ reader[side] \in {"write", "second"} => connMu = side

\* The inductive invariant.
RelayInv == RelayTypeOK /\ IdleReaders /\ OneCall /\ ClosedAfterwards /\ ReadersHold /\ LockHeld

-----------------------------------------------------------------------------
\* The invariant holds at the start,
LEMMA InitRelay == RelayInit => RelayInv
<1> SUFFICES ASSUME RelayInit PROVE RelayInv
  OBVIOUS
<1> USE DEF RelayInit, Side
<1>1. RelayTypeOK
  BY DEF RelayTypeOK
<1>2. IdleReaders /\ OneCall /\ ClosedAfterwards
  BY DEF IdleReaders, OneCall, ClosedAfterwards
<1>3. ReadersHold /\ LockHeld
  BY DEF ReadersHold, Holds, LockHeld
<1> QED
  BY <1>1, <1>2, <1>3 DEF RelayInv

(***************************************************************************)
(* The readers.                                                            *)
(***************************************************************************)
\* A step of one reader: it was at work, hence the handler is in the relay.
LEMMA ReaderFrame ==
    ASSUME RelayInv, NEW side \in Side, reader[side] \notin {"off", "ended"},
           UNCHANGED <<handler, sock>>,
           reader' \in [Side -> {"off", "read", "lock", "write", "second", "quit", "ended"}]
    PROVE  IdleReaders' /\ OneCall' /\ ClosedAfterwards'
<1>1. AtWork /\ ~BeforeRelay
  BY DEF RelayInv, IdleReaders, AtWork, BeforeRelay
<1> QED
  BY <1>1 DEF RelayInv, AtWork, IdleReaders, OneCall, BeforeRelay, ClosedAfterwards

\* when a reader reads,
LEMMA ReadInv ==
    ASSUME RelayInv, NEW side \in Side, NEW p \in Packet, Read(side, p)
    PROVE  RelayInv'
<1> USE DEF Read, ReaderAt
<1>1. RelayTypeOK'
  BY DEF RelayInv, RelayTypeOK, UsesLock, Side
<1>2. IdleReaders' /\ OneCall' /\ ClosedAfterwards'
  BY <1>1, ReaderFrame DEF RelayTypeOK
<1>3. ReadersHold'
  BY DEF RelayInv, RelayTypeOK, ReadersHold, Holds, UsesLock
<1>4. LockHeld'
  BY DEF RelayInv, RelayTypeOK, LockHeld, UsesLock
<1> QED
  BY <1>1, <1>2, <1>3, <1>4 DEF RelayInv

\* A packet has been written: the lock is released by the one who held it.
LEMMA SentInv ==
    ASSUME RelayInv, NEW side \in Side, reader[side] \in {"write", "second"}, Sent(side),
           UNCHANGED <<handler, sock, peer, relayQuit, stop, registered, signal>>
    PROVE  RelayInv'
<1> DEFINE q == AfterSend(pkt[side])
<1>1. q \in {"read", "quit", "ended"} /\ (q = "quit" => pkt[side] # "CLR_REQ")
      /\ (q = "ended" => pkt[side] = "CLR_REQ")
  BY DEF AfterSend
<1>2. /\ reader' = [reader EXCEPT ![side] = q]
      /\ pkt' = [pkt EXCEPT ![side] = IF q = "read" THEN "none" ELSE @]
      /\ connMu' = IF connMu = side THEN "free" ELSE connMu
  BY DEF Sent, RelayInv, RelayTypeOK
<1> HIDE DEF q
<1>3. RelayTypeOK'
  BY <1>1, <1>2 DEF RelayInv, RelayTypeOK, Side
<1>4. IdleReaders' /\ OneCall' /\ ClosedAfterwards'
  BY <1>3, ReaderFrame DEF RelayTypeOK
<1>5. ReadersHold'
  BY <1>1, <1>2 DEF RelayInv, RelayTypeOK, ReadersHold, Holds
<1>6. LockHeld'
  BY <1>1, <1>2 DEF RelayInv, RelayTypeOK, LockHeld, UsesLock
<1> QED
  BY <1>3, <1>4, <1>5, <1>6 DEF RelayInv

\* when it writes,
LEMMA SendInv ==
    ASSUME RelayInv, NEW side \in Side, SendStep(side)
    PROVE  RelayInv'
<1> USE DEF ReaderAt
<1>1. CASE ReadFails(side)
  <2> USE <1>1 DEF ReadFails
  <2>1. RelayTypeOK'
    BY DEF RelayInv, RelayTypeOK, Side
  <2>2. IdleReaders' /\ OneCall' /\ ClosedAfterwards'
    BY <2>1, ReaderFrame DEF RelayTypeOK
  <2>3. ReadersHold' /\ LockHeld'
    BY DEF RelayInv, RelayTypeOK, ReadersHold, Holds, LockHeld, UsesLock
  <2> QED
    BY <2>1, <2>2, <2>3 DEF RelayInv
<1>2. CASE Lock(side)
  <2> USE <1>2 DEF Lock
  <2>1. RelayTypeOK'
    BY DEF RelayInv, RelayTypeOK, Side
  <2>2. IdleReaders' /\ OneCall' /\ ClosedAfterwards'
    BY <2>1, ReaderFrame DEF RelayTypeOK
  <2>3. ReadersHold'
    BY DEF RelayInv, RelayTypeOK, ReadersHold, Holds
  <2>4. LockHeld'
    BY DEF RelayInv, RelayTypeOK, LockHeld, UsesLock, Side
  <2> QED
    BY <2>1, <2>2, <2>3, <2>4 DEF RelayInv
<1>3. CASE Write(side) /\ reader' = [reader EXCEPT ![side] = "second"] /\ UNCHANGED <<pkt, connMu>>
  <2> USE <1>3 DEF Write
  <2>1. RelayTypeOK'
    BY DEF RelayInv, RelayTypeOK, Side
  <2>2. IdleReaders' /\ OneCall' /\ ClosedAfterwards'
    BY <2>1, ReaderFrame DEF RelayTypeOK
  <2>3. ReadersHold' /\ LockHeld'
    BY DEF RelayInv, RelayTypeOK, ReadersHold, Holds, LockHeld, UsesLock
  <2> QED
    BY <2>1, <2>2, <2>3 DEF RelayInv
<1>4. CASE Write(side) /\ Sent(side)
  BY <1>4, SentInv DEF Write
<1>5. CASE WriteData(side)
  BY <1>5, SentInv DEF WriteData
<1>6. CASE Quit(side)
  <2> USE <1>6 DEF Quit
  <2>1. RelayTypeOK'
    BY DEF RelayInv, RelayTypeOK, Side
  <2>2. IdleReaders' /\ OneCall' /\ ClosedAfterwards'
    BY <2>1, ReaderFrame DEF RelayTypeOK
  <2>3. ReadersHold' /\ LockHeld'
    BY DEF RelayInv, RelayTypeOK, ReadersHold, Holds, LockHeld, UsesLock
  <2> QED
    BY <2>1, <2>2, <2>3 DEF RelayInv
<1> QED
  BY <1>1, <1>2, <1>3, <1>4, <1>5, <1>6 DEF SendStep, Write

(***************************************************************************)
(* The handler.                                                            *)
(***************************************************************************)
\* The steps that leave readers, packets and lock alone.
LEMMA CalmInv ==
    ASSUME RelayInv, UNCHANGED <<reader, pkt, connMu>>, RelayTypeOK', IdleReaders', OneCall',
           ClosedAfterwards', relayQuit => relayQuit'
    PROVE  RelayInv'
BY DEF RelayInv, ReadersHold, Holds, LockHeld, UsesLock

\* in the steps of the handler,
LEMMA HandlerInv == ASSUME RelayInv, HandlerStep PROVE RelayInv'
<1> USE DEF HandlerAt
<1>1. CASE Forward
  <2> USE <1>1 DEF Forward
  <2>1. \A side \in Side : reader[side] = "off"
    BY DEF RelayInv, OneCall, BeforeRelay
  <2>2. RelayTypeOK'
    BY <2>1 DEF RelayInv, RelayTypeOK, Side
  <2>3. IdleReaders' /\ OneCall' /\ ClosedAfterwards'
    BY DEF RelayInv, AtWork, IdleReaders, OneCall, BeforeRelay, ClosedAfterwards
  <2>4. ReadersHold' /\ LockHeld'
    BY <2>1 DEF RelayInv, ReadersHold, Holds, LockHeld
  <2> QED
    BY <2>2, <2>3, <2>4 DEF RelayInv
<1>2. CASE ~Forward
  <2>1. UNCHANGED <<reader, pkt, connMu, relayQuit, stop, signal>>
    BY <1>2 DEF HandlerStep, Accept, Start, Call, CallReadFails, Refuse, RelayOver,
                RelayStopped, SendClear, CloseBoth, WaitReaders, Return
  <2>2. RelayTypeOK'
    <3> USE <2>1 DEF RelayInv, RelayTypeOK, Side
    <3>1. CASE Accept
      BY <3>1 DEF Accept
    <3>2. CASE Start \/ Return
      BY <3>2 DEF Start, Return
    <3>3. CASE Call
      <4>1. /\ sock' = sock \/ sock' = [sock EXCEPT !["far"] = "open"]
            /\ peer' = peer \/ peer' = [peer EXCEPT !["far"] = TRUE]
            /\ registered' = registered
        BY <3>3 DEF Call
      <4>2. handler' \in {"forward", "refuse"}
        BY <3>3 DEF Call
      <4>3. sock' \in [Side -> {"none", "open", "closed"}]
        BY <4>1
      <4>4. peer' \in [Side -> BOOLEAN]
        BY <4>1
      <4> QED BY <4>1, <4>2, <4>3, <4>4
    <3>4. CASE CallReadFails \/ Refuse \/ RelayOver \/ RelayStopped \/ SendClear \/ WaitReaders
      <4>1. UNCHANGED <<sock, peer, registered>>
        BY <3>4 DEF CallReadFails, Refuse, RelayOver, RelayStopped, SendClear, WaitReaders
      <4>2. handler' \in {"return", "close", "clear", "read"}
        BY <3>4 DEF CallReadFails, Refuse, RelayOver, RelayStopped, SendClear, WaitReaders
      <4> QED BY <4>1, <4>2
    <3>5. CASE CloseBoth
      BY <3>5 DEF CloseBoth
    <3> QED
      BY <1>2, <3>1, <3>2, <3>3, <3>4, <3>5 DEF HandlerStep
  <2>3. IdleReaders'
    BY <1>2, <2>1 DEF RelayInv, AtWork, IdleReaders, HandlerStep, Accept, Start, Call,
       CallReadFails, Refuse, RelayOver, RelayStopped, SendClear, CloseBoth, WaitReaders,
       ReadersEnded, Return
  <2>4. OneCall'
    BY <1>2, <2>1 DEF RelayInv, RelayTypeOK, OneCall, BeforeRelay, Gone, Side, HandlerStep,
       Accept, Start, Call, CallReadFails, Refuse, RelayOver, RelayStopped, SendClear,
       CloseBoth, WaitReaders, Return
  <2>5. ClosedAfterwards'
    BY <1>2, <2>1 DEF RelayInv, RelayTypeOK, ClosedAfterwards, Side, HandlerStep,
       Accept, Start, Call, CallReadFails, Refuse, RelayOver, RelayStopped, SendClear,
       CloseBoth, WaitReaders, Return
  <2> QED
    BY <2>1, <2>2, <2>3, <2>4, <2>5, CalmInv
<1> QED
  BY <1>1, <1>2

(***************************************************************************)
(* The waiter, the shutdown handler and the peers.                         *)
(***************************************************************************)
\* The shutdown handler closes the near connection, nothing else reopens one.
LEMMA OthersInv ==
    ASSUME RelayInv, WaiterQuits \/ SignalStep \/ \E side \in Side : PeerLeaves(side)
    PROVE  RelayInv'
<1>1. /\ UNCHANGED <<handler, reader, pkt, connMu>> /\ (relayQuit => relayQuit')
      /\ sock' = sock \/ sock' = [sock EXCEPT !["near"] = "closed"]
  BY DEF WaiterQuits, SignalStep, SignalFlag, SignalCloseListener, GraceDrained, GraceExpires,
         SignalStop, SignalCloseConn, SignalExit, MainReturns, handlerVars, PeerLeaves
<1>2. RelayTypeOK'
  <2> USE <1>1 DEF RelayInv, RelayTypeOK, Side
  <2>1. CASE WaiterQuits
    BY <2>1 DEF WaiterQuits
  <2>2. CASE SignalStep
    <3>1. UNCHANGED <<peer, relayQuit, registered>> /\ stop' \in BOOLEAN
      BY <2>2 DEF SignalStep, SignalFlag, SignalCloseListener, GraceDrained, GraceExpires,
         SignalStop, SignalCloseConn, SignalExit, MainReturns, handlerVars
    <3>2. signal' \in {"flagged", "grace", "range", "drained", "closing", "exiting", "exited"}
      BY <2>2 DEF SignalStep, SignalFlag, SignalCloseListener, GraceDrained, GraceExpires,
         SignalStop, SignalCloseConn, SignalExit, MainReturns, handlerVars
    <3> QED
      BY <3>1, <3>2
  <2>3. CASE \E side \in Side : PeerLeaves(side)
    BY <2>3 DEF PeerLeaves
  <2> QED
    BY <2>1, <2>2, <2>3
<1>3. IdleReaders' /\ OneCall' /\ ClosedAfterwards'
  BY <1>1 DEF RelayInv, RelayTypeOK, AtWork, IdleReaders, OneCall, BeforeRelay,
              ClosedAfterwards, Side
<1> QED
  BY <1>1, <1>2, <1>3, CalmInv

\* and so in every step;
LEMMA RelayStepInv == ASSUME RelayInv, [ServerNext]_relayVars PROVE RelayInv'
<1>1. CASE UNCHANGED relayVars
  BY <1>1, CalmInv DEF relayVars, RelayInv, RelayTypeOK, AtWork, IdleReaders, OneCall,
                       BeforeRelay, ClosedAfterwards
<1>2. CASE ServerNext
  BY <1>2, HandlerInv, ReadInv, SendInv, OthersInv DEF ServerNext
<1> QED
  BY <1>1, <1>2

\* hence throughout.
LEMMA RelayInvariance == ServerSpec => []RelayInv
BY InitRelay, RelayStepInv, PTL DEF ServerSpec

-----------------------------------------------------------------------------
(***************************************************************************)
(* Every variable of the relay has its type, and the write lock is held by *)
(* nobody who does not write.                                              *)
(***************************************************************************)
THEOREM RelayTypeCorrect == ServerSpec => []RelayTypeOK
<1>1. RelayInv => RelayTypeOK
  BY DEF RelayInv
<1> QED
  BY <1>1, RelayInvariance, PTL

\* A handler that has returned has no readers, connections or lock.
LEMMA RelayInvGives == RelayInv => NothingLeftBehind
<1> SUFFICES ASSUME RelayInv, handler = "done"
             PROVE  /\ \A side \in Side : reader[side] \in {"off", "ended"}
                    /\ \A side \in Side : sock[side] # "open"
                    /\ connMu = "free"
  BY DEF NothingLeftBehind
<1>1. \A side \in Side : reader[side] \in {"off", "ended"}
  BY DEF RelayInv, IdleReaders, AtWork
<1>2. \A side \in Side : sock[side] # "open"
  BY DEF RelayInv, ClosedAfterwards, Side
<1>3. connMu = "free"
  BY <1>1 DEF RelayInv, RelayTypeOK
<1> QED
  BY <1>1, <1>2, <1>3

(***************************************************************************)
(* When the handler has returned no reader runs, no connection is open and *)
(* the write lock is free, with or without the lock, and whichever side    *)
(* the stream is on.                                                       *)
(***************************************************************************)
THEOREM DoneLeavesNothing == ServerSpec => []NothingLeftBehind
BY RelayInvGives, RelayInvariance, PTL

(***************************************************************************)
(* While both connections work and packets are well-formed, the relay ends *)
(* only for a CLR_CONF (or a failed read), or when both sides have sent a  *)
(* CLR_REQ.                                                                *)
(***************************************************************************)
THEOREM ClearsAreAnswered == ServerSpec => ClearIsAnswered
<1>1. ASSUME RelayInv, [ServerNext]_relayVars, ~relayQuit, relayQuit'
      PROVE  \/ \E side \in Side : reader[side] = "quit" /\ pkt[side] # "CLR_REQ"
             \/ \A side \in Side : pkt[side] = "CLR_REQ"
  <2>1. WaiterQuits \/ \E side \in Side : Quit(side)
    BY <1>1 DEF ServerNext, relayVars, HandlerStep, Accept, Start, Call, CallReadFails, Refuse,
       Forward, RelayOver, RelayStopped, SendClear, CloseBoth, WaitReaders, Return, Read,
       SendStep, ReadFails, Lock, Write, WriteData, SignalStep, SignalFlag,
       SignalCloseListener, GraceDrained, GraceExpires, SignalStop, SignalCloseConn,
       SignalExit, MainReturns, handlerVars, PeerLeaves
  <2>2. CASE WaiterQuits
    BY <1>1, <2>2 DEF WaiterQuits, ReadersEnded, RelayInv, ReadersHold, Holds
  <2>3. ASSUME NEW side \in Side, Quit(side)
        PROVE  reader[side] = "quit" /\ pkt[side] # "CLR_REQ"
    BY <1>1, <2>3 DEF Quit, ReaderAt, RelayInv, ReadersHold, Holds
  <2> QED
    BY <2>1, <2>2, <2>3
<1>2. RelayInv /\ [ServerNext]_relayVars =>
        [(/\ ~relayQuit /\ relayQuit'
          /\ \A side \in Side : pkt[side] # "TOO_LONG" /\ ~Gone(side))
         => \/ \E side \in Side : reader[side] = "quit" /\ pkt[side] # "CLR_REQ"
            \/ \A side \in Side : pkt[side] = "CLR_REQ"]_relayVars
  BY <1>1
<1> QED
  BY <1>2, RelayInvariance, PTL DEF ServerSpec, ClearIsAnswered

(***************************************************************************)
(* RACE-D: where writes to the near side are locked, the clear packet of   *)
(* the shutdown path waits for the data that belongs to a header.          *)
(***************************************************************************)
THEOREM LockedPacketsStayWhole == ASSUME Locked PROVE ServerSpec => PacketsStayWhole
<1>1. RelayInv /\ [ServerNext]_relayVars =>
        [(reader["far"] = "second" /\ sock["near"] = "open")
           => ~(handler = "clear" /\ handler' # "clear")]_relayVars
  <2> SUFFICES ASSUME RelayInv, ServerNext, reader["far"] = "second", handler = "clear",
                      handler' # "clear"
               PROVE  FALSE
    BY DEF relayVars
  <2>1. connMu = "far"
    BY DEF RelayInv, LockHeld, UsesLock, Side
  <2>2. SendClear
    BY DEF ServerNext, HandlerStep, Accept, Start, Call, CallReadFails, Refuse,
       Forward, RelayOver, RelayStopped, SendClear, CloseBoth, WaitReaders, Return, Read,
       HandlerAt, SendStep, ReadFails, Lock, Write, WriteData, Quit, WaiterQuits, SignalStep,
       SignalFlag, SignalCloseListener, GraceDrained, GraceExpires, SignalStop,
       SignalCloseConn, SignalExit, MainReturns, handlerVars, PeerLeaves
  <2> QED
    BY <2>1, <2>2 DEF SendClear
<1> QED
  BY <1>1, RelayInvariance, PTL DEF ServerSpec, PacketsStayWhole

-----------------------------------------------------------------------------
(***************************************************************************)
(* xot-gateway.                                                            *)
(***************************************************************************)
\* Before the relay starts the keepalive goroutine has done nothing, nor has
\* the local end sent an interrupt.
KeeperFresh == BeforeRelay => keeper = "off" /\ outstanding = 0 /\ owed = 0 /\ ~probe

\* The handler waits for the keepalive goroutine as it does for the readers.
KeeperWaitedFor == ~AtWork => keeper \in {"off", "ended"}

\* A probe counts from the moment it is noted: as in flight once probe is
\* set, and as on its way to the remote end until it has been sent.
Count(condition) == IF condition THEN 1 ELSE 0
Unsent == Count(keeper = "probe")
Unanswered == Count(probe)
Balance == ~Gone("far") => outstanding + Unsent = owed + Unanswered

Counted == outstanding \in Nat /\ owed \in Nat /\ probe \in BOOLEAN

\* The inductive invariant.
KeepInv == RelayInv /\ KeeperFresh /\ KeeperWaitedFor /\ Balance /\ Counted

\* The invariant holds at the start,
LEMMA InitKeep == Init => KeepInv
<1> SUFFICES ASSUME Init PROVE KeepInv
  OBVIOUS
<1> USE DEF Init
<1>1. RelayInv
  BY InitRelay
<1>2. KeeperFresh /\ KeeperWaitedFor /\ Counted
  BY DEF KeeperFresh, KeeperWaitedFor, Counted
<1>3. Balance
  BY DEF Balance, Unsent, Unanswered, Count
<1> QED
  BY <1>1, <1>2, <1>3 DEF KeepInv

\* Every step of xot-gateway is one of the relay to its relay variables, or
\* leaves them alone, or is the keepalive goroutine's closeRelay.
LEMMA GatewayRelayStep ==
    ASSUME [Next]_vars, RelayInv
    PROVE  RelayInv'
<1>1. CASE UNCHANGED vars
  BY <1>1, RelayStepInv DEF vars
<1>2. CASE HandlerRest /\ UNCHANGED keepVars
  BY <1>2, HandlerInv DEF HandlerRest, HandlerStep
<1>3. CASE StartRelay
  BY <1>3, HandlerInv DEF StartRelay, HandlerStep
<1>4. CASE WaitAll
  BY <1>4, HandlerInv DEF WaitAll, HandlerStep
<1>5. CASE DataWaiterQuits
  BY <1>5, OthersInv DEF DataWaiterQuits
<1>6. ASSUME NEW p \in PeerPackets, RemoteToLocal(p) \/ LocalToRemote(p) PROVE RelayInv'
  BY <1>6, ReadInv, InterruptAssumption DEF RemoteToLocal, LocalToRemote, Side
<1>7. CASE InterruptConfirmed \/ LocalInterrupt \/ TimePasses
  <2>1. UNCHANGED relayVars
    BY <1>7 DEF InterruptConfirmed, LocalInterrupt, TimePasses
  <2> QED BY <2>1, RelayStepInv
<1>8. ASSUME NEW side \in Side, SendStep(side) \/ PeerLeaves(side) PROVE RelayInv'
  BY <1>8, SendInv, OthersInv
<1>9. CASE KeeperStep
  <2>1. CASE TickTimesOut
    <3>1. UNCHANGED <<handler, reader, pkt, sock, peer, connMu, stop, registered, signal>>
          /\ relayQuit'
      BY <2>1 DEF TickTimesOut
    <3>2. RelayTypeOK' /\ IdleReaders' /\ OneCall' /\ ClosedAfterwards'
      BY <2>1, <3>1 DEF TickTimesOut, RelayInv, RelayTypeOK, AtWork, IdleReaders, OneCall, BeforeRelay,
                  ClosedAfterwards
    <3> QED BY <3>1, <3>2, CalmInv
  <2>2. CASE KeeperStarts \/ KeeperEnds \/ TickProbes \/ SendProbe
    <3>1. UNCHANGED relayVars
      BY <2>2 DEF KeeperStarts, KeeperEnds, TickProbes, SendProbe
    <3> QED BY <3>1, RelayStepInv
  <2> QED BY <1>9, <2>1, <2>2 DEF KeeperStep
<1>10. CASE ShutdownStep
  BY <1>10, OthersInv DEF ShutdownStep
<1> QED
  BY <1>1, <1>2, <1>3, <1>4, <1>5, <1>6, <1>7, <1>8, <1>9, <1>10 DEF Next

\* A step that leaves the keepalive's variables alone keeps the invariant if
\* it neither goes back before the relay nor connects the far side anew.
LEMMA KeeperCalm ==
    ASSUME KeepInv, RelayInv', UNCHANGED <<keeper, probe, outstanding, owed>>,
           BeforeRelay' => BeforeRelay, AtWork => AtWork', Gone("far") => Gone("far")'
    PROVE  KeepInv'
BY DEF KeepInv, KeeperFresh, KeeperWaitedFor, Balance, Counted, Unsent, Unanswered

\* in the steps of the handler,
LEMMA HandlerKeeps ==
    ASSUME KeepInv, RelayInv', HandlerRest, UNCHANGED keepVars
    PROVE  KeepInv'
<1> USE DEF HandlerAt
<1>0. UNCHANGED <<keeper, probe, outstanding, owed>>
  BY DEF keepVars
<1>1. CASE Call
  <2>1. KeeperFresh' /\ KeeperWaitedFor' /\ Counted'
    BY <1>0, <1>1 DEF Call, KeepInv, KeeperFresh, BeforeRelay, KeeperWaitedFor, AtWork, Gone, Counted
  <2>2. keeper = "off" /\ outstanding = 0 /\ owed = 0 /\ ~probe
    BY <1>1 DEF Call, KeepInv, KeeperFresh, BeforeRelay, Gone
  <2>3. Balance'
    BY <1>0, <2>2 DEF Balance, Unsent, Unanswered, Count
  <2> QED BY <2>1, <2>3 DEF KeepInv
<1>2. CASE Accept
  <2>1. keeper = "off" /\ outstanding = 0 /\ owed = 0 /\ ~probe
    BY <1>2 DEF Accept, KeepInv, KeeperFresh, BeforeRelay
  <2>2. KeeperFresh' /\ KeeperWaitedFor'
    BY <1>0, <2>1 DEF KeeperFresh, KeeperWaitedFor
  <2>3. Counted'
    BY <1>0 DEF Counted, KeepInv
  <2>4. Balance'
    BY <1>0, <2>1 DEF Balance, Unsent, Unanswered, Count
  <2> QED BY <2>2, <2>3, <2>4 DEF KeepInv
<1>3. CASE Start \/ CallReadFails \/ Refuse \/ RelayOver \/ RelayStopped \/ SendClear
  <2>1. UNCHANGED <<sock, peer>>
    BY <1>3 DEF Start, CallReadFails, Refuse, RelayOver, RelayStopped, SendClear
  <2>2. /\ BeforeRelay' => BeforeRelay
        /\ AtWork => AtWork'
    BY <1>3, <2>1 DEF BeforeRelay, AtWork, Start, CallReadFails, Refuse, RelayOver, RelayStopped, SendClear
  <2> QED BY <1>0, <2>1, <2>2, KeeperCalm DEF Gone
<1>4. CASE CloseBoth \/ Return
  <2>1. BeforeRelay' => BeforeRelay
    BY <1>4 DEF CloseBoth, Return, BeforeRelay
  <2>2. AtWork => AtWork'
    BY <1>4 DEF CloseBoth, Return, AtWork
  <2>3. Gone("far") => Gone("far")'
    BY <1>4 DEF CloseBoth, Return, Gone, KeepInv, RelayInv, RelayTypeOK, Side
  <2> QED BY <1>0, <2>1, <2>2, <2>3, KeeperCalm
<1> QED
  BY <1>1, <1>2, <1>3, <1>4 DEF HandlerRest

(***************************************************************************)
(* The readers.                                                            *)
(***************************************************************************)
\* A reader at work runs during the relay.
LEMMA ReaderAtWork ==
    ASSUME KeepInv, NEW side \in Side, reader[side] \notin {"off", "ended"}
    PROVE  AtWork /\ ~BeforeRelay
BY DEF KeepInv, RelayInv, IdleReaders, AtWork, BeforeRelay

\* when one reads, or writes what it has read,
LEMMA ReaderKeeps ==
    ASSUME KeepInv, RelayInv', NEW side \in Side, reader[side] \notin {"off", "ended"},
           UNCHANGED <<handler, sock, peer, keeper, probe, outstanding, owed>>
    PROVE  KeepInv'
<1>1. AtWork /\ ~BeforeRelay
  BY ReaderAtWork
<1>2. AtWork' /\ ~BeforeRelay' /\ (Gone("far") => Gone("far")')
  BY <1>1 DEF AtWork, BeforeRelay, Gone
<1> QED
  BY <1>2, KeeperCalm

\* While a confirmation is swallowed or relayed the balance says that the one
\* the local end waits for is outstanding: owed is not driven below zero.
LEMMA ConfirmedKeeps == ASSUME KeepInv, RelayInv', InterruptConfirmed PROVE KeepInv'
<1> USE DEF InterruptConfirmed, relayVars, ReaderAt
<1>1. AtWork /\ ~BeforeRelay
  BY ReaderAtWork DEF Side
<1>2. AtWork' /\ ~BeforeRelay' /\ (Gone("far")' <=> Gone("far"))
  BY <1>1 DEF AtWork, BeforeRelay, Gone
<1>3. outstanding + Unsent = owed + Unanswered /\ outstanding > 0 /\ Counted
  BY DEF KeepInv, Balance
<1>4. CASE probe
  <2>1. Unanswered = 1 /\ Unanswered' = 0 /\ Unsent' = Unsent /\ probe' \in BOOLEAN
    BY <1>4, Zenon DEF Unsent, Unanswered, Count
  <2>2. Balance' /\ Counted'
    BY <1>3, <1>4, <2>1 DEF Balance, Counted, Unsent, Count
  <2> QED
    BY <1>2, <2>2 DEF KeepInv, KeeperFresh, KeeperWaitedFor
<1>5. CASE ~probe
  <2>1. Balance' /\ Counted'
    BY <1>2, <1>3, <1>5 DEF Balance, Counted, Unsent, Unanswered, Count
  <2> QED
    BY <1>2, <2>1 DEF KeepInv, KeeperFresh, KeeperWaitedFor
<1> QED
  BY <1>4, <1>5

\* when the local end interrupts,
LEMMA InterruptKeeps == ASSUME KeepInv, RelayInv', LocalInterrupt PROVE KeepInv'
<1> USE DEF LocalInterrupt, relayVars, ReaderAt
<1>1. AtWork /\ ~BeforeRelay
  BY ReaderAtWork DEF Side
<1>2. AtWork' /\ ~BeforeRelay' /\ (Gone("far")' <=> Gone("far"))
  BY <1>1 DEF AtWork, BeforeRelay, Gone
<1>3. Balance' /\ Counted'
  BY <1>2 DEF KeepInv, Balance, Counted, Unsent, Unanswered, Count
<1> QED
  BY <1>2, <1>3 DEF KeepInv, KeeperFresh, KeeperWaitedFor

(***************************************************************************)
(* The keepalive goroutine, the waits, the shutdown handler, the peers.    *)
(***************************************************************************)
\* The relay starts before the first interrupt.
LEMMA StartKeeps == ASSUME KeepInv, RelayInv', StartRelay PROVE KeepInv'
<1> USE DEF StartRelay, Forward, HandlerAt
<1>1. keeper = "off" /\ outstanding = 0 /\ owed = 0 /\ ~probe
  BY DEF KeepInv, KeeperFresh, BeforeRelay
<1>2. AtWork' /\ ~BeforeRelay'
  BY DEF AtWork, BeforeRelay
<1>3. Balance' /\ Counted'
  BY <1>1 DEF KeepInv, Balance, Counted, Unsent, Unanswered, Count
<1> QED
  BY <1>2, <1>3 DEF KeepInv, KeeperFresh, KeeperWaitedFor

\* The keepalive goroutine lives after Forward only.
LEMMA KeeperKeeps ==
    ASSUME KeepInv, RelayInv', KeeperStep \/ TimePasses
    PROVE  KeepInv'
<1> USE DEF KeeperAt
<1>1. UNCHANGED <<handler, sock, peer>> /\ keeper \notin {"off", "ended"}
  BY DEF KeeperStep, KeeperStarts, KeeperEnds, TickProbes, SendProbe, TickTimesOut, TimePasses,
         relayVars
<1>2. AtWork /\ ~BeforeRelay
  BY <1>1 DEF KeepInv, KeeperFresh, KeeperWaitedFor
<1>3. AtWork' /\ ~BeforeRelay' /\ (Gone("far")' <=> Gone("far"))
  BY <1>1, <1>2 DEF AtWork, BeforeRelay, Gone
<1>4. Balance' /\ Counted'
  <2> USE <1>3 DEF KeepInv, Balance, Counted, Unsent, Unanswered, Count
  <2>1. CASE TickProbes
    BY <2>1 DEF TickProbes
  <2>2. CASE SendProbe
    BY <2>2 DEF SendProbe
  <2>3. CASE KeeperStarts \/ KeeperEnds \/ TickTimesOut \/ TimePasses
    BY <2>3 DEF KeeperStarts, KeeperEnds, TickTimesOut, TimePasses
  <2> QED
    BY <2>1, <2>2, <2>3 DEF KeeperStep
<1> QED
  BY <1>3, <1>4 DEF KeepInv, KeeperFresh, KeeperWaitedFor

\* The handler goes on to the next read of a connection that is closed, when
\* all three goroutines have ended.
LEMMA WaitKeeps == ASSUME KeepInv, RelayInv', WaitAll \/ DataWaiterQuits PROVE KeepInv'
<1>1. UNCHANGED <<sock, peer, keeper, probe, outstanding, owed>>
  BY DEF WaitAll, DataWaiterQuits, WaitReaders, WaiterQuits, keepVars
<1>2. BeforeRelay' => BeforeRelay
  BY <1>1 DEF KeepInv, RelayInv, OneCall, BeforeRelay, WaitAll, DataWaiterQuits, WaitReaders,
              WaiterQuits, HandlerAt
<1>3. KeeperWaitedFor'
  BY <1>1 DEF KeepInv, KeeperWaitedFor, AtWork, WaitAll, DataWaiterQuits, WaiterQuits
<1> QED
  BY <1>1, <1>2, <1>3 DEF KeepInv, KeeperFresh, Balance, Counted, Gone, Unsent, Unanswered

\* Connections are only closed here, and peers only leave.
LEMMA OthersKeep ==
    ASSUME KeepInv, RelayInv', UNCHANGED keepVars,
           SignalStep \/ \E side \in Side : PeerLeaves(side)
    PROVE  KeepInv'
<1>1. UNCHANGED <<handler, keeper, probe, outstanding, owed>>
  BY DEF SignalStep, SignalFlag, SignalCloseListener, GraceDrained, GraceExpires, SignalStop,
         SignalCloseConn, SignalExit, MainReturns, handlerVars, PeerLeaves, keepVars
<1>2. /\ sock' = sock \/ sock' = [sock EXCEPT !["near"] = "closed"]
      /\ peer' = peer \/ \E side \in Side : peer' = [peer EXCEPT ![side] = FALSE]
  BY DEF SignalStep, SignalFlag, SignalCloseListener, GraceDrained, GraceExpires, SignalStop,
         SignalCloseConn, SignalExit, MainReturns, handlerVars, PeerLeaves
<1>3. (BeforeRelay' => BeforeRelay) /\ (AtWork => AtWork') /\ (Gone("far") => Gone("far")')
  BY <1>1, <1>2 DEF KeepInv, RelayInv, RelayTypeOK, BeforeRelay, AtWork, Gone, Side
<1> QED
  BY <1>1, <1>3, KeeperCalm

\* and so in every step;
LEMMA StepKeeps == ASSUME KeepInv, [Next]_vars PROVE KeepInv'
<1>0. RelayInv'
  BY GatewayRelayStep DEF KeepInv
<1>1. CASE UNCHANGED vars
  <2>1. UNCHANGED <<handler, sock, peer, keeper, probe, outstanding, owed>>
    BY <1>1 DEF vars, relayVars, keepVars
  <2> QED BY <1>0, <2>1, KeeperCalm DEF BeforeRelay, AtWork, Gone
<1>2. ASSUME NEW p \in PeerPackets, RemoteToLocal(p) \/ LocalToRemote(p) PROVE KeepInv'
  BY <1>0, <1>2, ReaderKeeps DEF RemoteToLocal, LocalToRemote, Read, ReaderAt, Side
<1>3. ASSUME NEW side \in Side, SendStep(side), UNCHANGED keepVars PROVE KeepInv'
  <2>1. UNCHANGED <<handler, sock, peer, keeper, probe, outstanding, owed>>
        /\ reader[side] \notin {"off", "ended"}
    BY <1>3 DEF SendStep, ReadFails, Lock, Write, WriteData, Quit, ReaderAt, keepVars
  <2> QED BY <1>0, <2>1, ReaderKeeps
<1>4. ASSUME NEW side \in Side, PeerLeaves(side), UNCHANGED keepVars PROVE KeepInv'
  BY <1>0, <1>4, OthersKeep
<1>5. CASE HandlerRest /\ UNCHANGED keepVars
  BY <1>0, <1>5, HandlerKeeps
<1>6. CASE StartRelay \/ WaitAll \/ DataWaiterQuits
  BY <1>0, <1>6, StartKeeps, WaitKeeps
<1>7. CASE InterruptConfirmed \/ LocalInterrupt
  BY <1>0, <1>7, ConfirmedKeeps, InterruptKeeps
<1>8. CASE KeeperStep \/ TimePasses
  BY <1>0, <1>8, KeeperKeeps
<1>9. CASE ShutdownStep
  BY <1>0, <1>9, OthersKeep DEF ShutdownStep
<1> QED
  BY <1>1, <1>2, <1>3, <1>4, <1>5, <1>6, <1>7, <1>8, <1>9 DEF Next

\* hence throughout.
LEMMA KeepInvariance == Spec => []KeepInv
BY InitKeep, StepKeeps, PTL DEF Spec

(***************************************************************************)
(* The variables of the relay keep their types under the keepalive         *)
(* goroutine, and the write lock, which xot-gateway does not use, is free  *)
(* but for a writer.                                                       *)
(***************************************************************************)
THEOREM GatewayRelayTyped == Spec => []RelayTypeOK
<1>1. KeepInv => RelayTypeOK
  BY DEF KeepInv, RelayInv
<1> QED
  BY <1>1, KeepInvariance, PTL

(***************************************************************************)
(* When the handler of xot-gateway has returned, readers, connections and  *)
(* keepalive goroutine have gone too, although the keepalive goroutine     *)
(* may have been the one to end the relay.                                 *)
(***************************************************************************)
THEOREM GatewayLeavesNothing ==
    Spec => [](NothingLeftBehind /\ (handler = "done" => keeper \in {"off", "ended"}))
<1>1. KeepInv => NothingLeftBehind /\ (handler = "done" => keeper \in {"off", "ended"})
  BY RelayInvGives DEF KeepInv, KeeperWaitedFor, AtWork
<1> QED
  BY <1>1, KeepInvariance, PTL

(***************************************************************************)
(* The local end never gets a confirmation of an interrupt it has not      *)
(* sent, with any number of interrupts, on any side of the TCP stream.     *)
(***************************************************************************)
THEOREM ProbeIsInvisible == Spec => []NoUnaskedConfirmation
<1>1. KeepInv => NoUnaskedConfirmation
  BY DEF KeepInv, Counted, NoUnaskedConfirmation
<1> QED
  BY <1>1, KeepInvariance, PTL

(***************************************************************************)
(* While the keepalive goroutine waits for its ticker, the confirmations   *)
(* the remote end still owes are those the local end waits for and that of *)
(* the probe.                                                              *)
(***************************************************************************)
THEOREM NoConfirmationLost == Spec => []ConfirmationsBalance
<1>1. KeepInv => ConfirmationsBalance
  BY DEF KeepInv, Balance, Counted, Unsent, Unanswered, Count, ConfirmationsBalance
<1> QED
  BY <1>1, KeepInvariance, PTL
=============================================================================
