----------------------------- MODULE TunGateway -----------------------------
(***************************************************************************)
(* tun-gateway (src/cmd/tun-gateway/main.go): the goroutines that share    *)
(* the session manager, the link state and the shutdown flag.              *)
(*                                                                         *)
(*   - one handleServerConn per connection accepted from xot-server;       *)
(*   - handleTunRead, the only reader of the TUN device;                   *)
(*   - one forwardToGateway per call of the kernel to a remote address,    *)
(*     which dials xot-gateway and starts a handleGatewayRead;             *)
(*   - the signal handler.                                                 *)
(*                                                                         *)
(* A goroutine is interrupted wherever it touches shared state: every call *)
(* of the session manager and every load or store of an atomic is a step   *)
(* of its own, unless what follows depends on the goroutine's own state    *)
(* only.  Peers and kernel are unconstrained: a read returns any packet on *)
(* any channel, or fails, except that the kernel places its own calls on   *)
(* KernelLCIs.  Frames written are not kept: the properties are about who  *)
(* is filed under the channel at the moment of the write.                  *)
(***************************************************************************)
EXTENDS SessionManager, FiniteSets

CONSTANTS
    SvrConn,     \* connections accepted from xot-server
    GwyConn,     \* connections dialled to xot-gateway
    Tun,         \* the goroutine that reads the TUN device
    PeerLCIs,    \* channels that occur in packets of xot-server and xot-gateway
    TunLCIs,     \* channels that occur in packets of the kernel
    KernelLCIs   \* channels the kernel chooses for its own calls

ASSUME ConnAssumption == /\ Conn = SvrConn \union GwyConn
                         /\ SvrConn \intersect GwyConn = {}
                         /\ Tun \notin Conn
ASSUME PacketAssumption == /\ PeerLCIs \subseteq LCI /\ TunLCIs \subseteq LCI
                           /\ KernelLCIs \subseteq TunLCIs

VARIABLES
    linkState,     \* atomic: Down, Connecting or Operational
    shuttingDown,  \* atomic: set by the signal handler
    signal,        \* what the signal handler has done
    pc,            \* where each goroutine is; one per connection and Tun
    loc            \* its local variables

gwVars == <<linkState, shuttingDown, signal, pc, loc>>
vars == <<smVars, gwVars>>

Goroutine == Conn \union {Tun}
PacketType == {"CALL_REQ", "CALL_CONN", "DATA", "CLR_REQ", "CLR_CONF"}
Clears == {"CLR_REQ", "CLR_CONF"}

NoLocals == [type |-> "none", lci |-> 0, tunLCI |-> 0, s |-> NoSession, todo |-> {}]

Init == /\ SMInit
        /\ linkState = "Connecting"   \* main has written Connect by now
        /\ shuttingDown = FALSE
        /\ signal = "waiting"
        /\ pc = [g \in Goroutine |-> IF g = Tun THEN "read" ELSE "idle"]
        /\ loc = [g \in Goroutine |-> NoLocals]

\* The process runs until os.Exit.
Running == signal # "exited"

At(g, label) == Running /\ pc[g] = label
Goto(g, label) == pc' = [pc EXCEPT ![g] = label]
Keep(g, locals) == loc' = [loc EXCEPT ![g] = locals]
\* Continue at label with no local variable in use.
Resume(g, label) == Goto(g, label) /\ Keep(g, NoLocals)

Shared == <<linkState, shuttingDown, signal>>

-----------------------------------------------------------------------------
(***************************************************************************)
(* handleServerConn.                                                       *)
(***************************************************************************)

\* The accept loop of main, until the signal handler closes the listener.
Accept(c) == /\ At(c, "idle") /\ signal \in {"waiting", "flagged"}
             /\ Goto(c, "read")
             /\ UNCHANGED <<smVars, Shared, loc>>

\* ReadXotInto fails: end of stream, an error, or a packet too long.
ReadFails(c) == /\ At(c, "read") /\ c \in Conn
                /\ Goto(c, "cleanup")
                /\ UNCHANGED <<smVars, Shared, loc>>

\* A CALL_REQ on a channel that still has a session removes the old session.
SvrCall(c, l) ==
    /\ At(c, "read")
    /\ \/ RemoveByBConnLCI(c, l)
       \/ GetByBConnLCI(c, l) = NoSession /\ UNCHANGED smVars
    /\ Goto(c, "link") /\ Keep(c, [NoLocals EXCEPT !.lci = l])
    /\ UNCHANGED Shared

\* A clear packet: look the session up, mark it, write the packet to the TUN.
SvrClear(c, type, l) ==
    LET s == GetByBConnLCI(c, l) IN
    /\ At(c, "read")
    /\ s # NoSession
    /\ SetState(s, StateP5)
    /\ \/ type = "CLR_REQ" /\ UNCHANGED <<pc, loc>>
       \/ /\ type = "CLR_CONF"
          /\ Goto(c, "remove") /\ Keep(c, [NoLocals EXCEPT !.s = s])
    /\ UNCHANGED Shared

\* A CLR_CONF ends the session found by the step before.
SvrRemove(c) == /\ At(c, "remove") /\ c \in SvrConn
                /\ RemoveSession(loc[c].s)
                /\ Resume(c, "read")
                /\ UNCHANGED Shared

\* The link state: when it is not operational, CLR_REQ to the peer and return.
CheckLink(c, l) == \/ /\ linkState = "Operational"
                      /\ Goto(c, "shutdown") /\ Keep(c, [NoLocals EXCEPT !.lci = l])
                   \/ linkState # "Operational" /\ Resume(c, "cleanup")

SvrLink(c) == /\ At(c, "link")
              /\ CheckLink(c, loc[c].lci)
              /\ UNCHANGED <<smVars, Shared>>

\* Any other packet: the link state is the first thing looked at.
SvrData(c, l) == /\ At(c, "read")
                 /\ CheckLink(c, l)
                 /\ UNCHANGED <<smVars, Shared>>

SvrShutdown(c) == /\ At(c, "shutdown")
                  /\ IF shuttingDown THEN Resume(c, "cleanup")
                                     ELSE Goto(c, "alloc") /\ UNCHANGED loc
                  /\ UNCHANGED <<smVars, Shared>>

\* getTunLCI: the session of (c, lci), or a new one on a free channel.
SvrAllocate(c) ==
    LET l == loc[c].lci IN
    /\ At(c, "alloc")
    /\ \/ /\ GetByBConnLCI(c, l) # NoSession
          /\ Keep(c, [loc[c] EXCEPT !.tunLCI = heap[GetByBConnLCI(c, l)].LciA])
          /\ Goto(c, "write")
          /\ UNCHANGED smVars
       \/ \E r \in Ref, gfi \in GFIs :
            /\ AllocateFresh(c, gfi, l, r)
            /\ Keep(c, [loc[c] EXCEPT !.tunLCI = heap'[r].LciA])
            /\ Goto(c, "write")
       \/ /\ GetByBConnLCI(c, l) = NoSession /\ Exhausted
          /\ Resume(c, "cleanup")
          /\ UNCHANGED smVars
    /\ UNCHANGED Shared

\* The session may have gone since: then the connection is given up.
SvrWrite(c) ==
    /\ At(c, "write")
    /\ Resume(c, IF GetByALCI(loc[c].tunLCI) = NoSession THEN "cleanup" ELSE "read")
    /\ UNCHANGED <<smVars, Shared>>

-----------------------------------------------------------------------------
(***************************************************************************)
(* cleanupConn, deferred by handleServerConn and handleGatewayRead.        *)
(***************************************************************************)
CleanupSnapshot(c) ==
    /\ At(c, "cleanup")
    /\ Goto(c, "next")
    /\ Keep(c, [NoLocals EXCEPT !.todo = GetSessionsForConn(c)])
    /\ UNCHANGED <<smVars, Shared>>

\* Mutant: a session the kernel need not hear of is left in the maps.
CleanupCheckSkips(c, s) ==
    /\ At(c, "next") /\ s \in loc[c].todo
    /\ \/ /\ heap[s].State # StateP1 /\ GetByALCI(heap[s].LciA) = s
          /\ Keep(c, [loc[c] EXCEPT !.s = s, !.todo = @ \ {s}])
          /\ Goto(c, "clearTun")
       \/ /\ ~(heap[s].State # StateP1 /\ GetByALCI(heap[s].LciA) = s)
          /\ Keep(c, [loc[c] EXCEPT !.todo = @ \ {s}])
          /\ UNCHANGED pc
    /\ UNCHANGED <<smVars, Shared>>

\* Is there state in the kernel, and is the channel still this session's?
CleanupCheck(c, s) ==
    /\ At(c, "next") /\ s \in loc[c].todo
    /\ Keep(c, [loc[c] EXCEPT !.s = s, !.todo = @ \ {s}])
    /\ Goto(c, IF heap[s].State # StateP1 /\ GetByALCI(heap[s].LciA) = s
               THEN "clearTun" ELSE "drop")
    /\ UNCHANGED <<smVars, Shared>>

\* CLR_REQ to the kernel on the session's channel.
CleanupWrite(c) == /\ At(c, "clearTun")
                   /\ Goto(c, "drop")
                   /\ UNCHANGED <<smVars, Shared, loc>>

CleanupRemove(c) == /\ At(c, "drop")
                    /\ RemoveSession(loc[c].s)
                    /\ Goto(c, "next")
                    /\ Keep(c, [loc[c] EXCEPT !.s = NoSession])
                    /\ UNCHANGED Shared

\* conn.Close and the goroutine ends.
CleanupDone(c) == /\ At(c, "next") /\ loc[c].todo = {}
                  /\ Resume(c, "done")
                  /\ UNCHANGED <<smVars, Shared>>

-----------------------------------------------------------------------------
(***************************************************************************)
(* forwardToGateway and handleGatewayRead.                                 *)
(***************************************************************************)
FwdCheck(c) == /\ At(c, "check")
               /\ IF shuttingDown THEN Resume(c, "done")
                                  ELSE Goto(c, "dial") /\ UNCHANGED loc
               /\ UNCHANGED <<smVars, Shared>>

\* A failed dial sends CLR_REQ to the kernel.
FwdDial(c) == /\ At(c, "dial")
              /\ \/ Goto(c, "add") /\ UNCHANGED loc
                 \/ Resume(c, "done")
              /\ UNCHANGED <<smVars, Shared>>

\* Build the session, add it, start the reader.  When AddSession refuses the
\* session the connection is closed, but the reader starts all the same.
FwdAdd(c) ==
    /\ At(c, "add")
    /\ \E r \in Ref, gfi \in GFIs :
          AddSession(r, [GFI |-> gfi, LciA |-> loc[c].lci, LciB |-> loc[c].lci,
                         ConnB |-> c, State |-> StateP2])
    /\ Resume(c, "read")
    /\ UNCHANGED Shared

\* Look the session up and write the packet to the TUN under its A channel.
GwyRead(c, type, l) ==
    LET s == GetByBConnLCI(c, l) IN
    /\ At(c, "read")
    /\ s # NoSession
    /\ CASE type = "CALL_CONN" -> SetState(s, StateP4) /\ UNCHANGED <<pc, loc>>
         [] type = "CLR_REQ"   -> SetState(s, StateP5) /\ UNCHANGED <<pc, loc>>
         [] type = "CLR_CONF"  -> /\ Goto(c, "remove")
                                  /\ Keep(c, [NoLocals EXCEPT !.type = type, !.s = s])
                                  /\ UNCHANGED smVars
    /\ UNCHANGED Shared

\* A CLR_CONF ends the session, and the reader returns.
GwyRemove(c) == /\ At(c, "remove") /\ c \in GwyConn
                /\ RemoveSession(loc[c].s)
                /\ Resume(c, "cleanup")
                /\ UNCHANGED Shared

-----------------------------------------------------------------------------
(***************************************************************************)
(* handleTunRead.                                                          *)
(***************************************************************************)

\* Connect is echoed; a link that was down is connecting again.
TunConnect == /\ At(Tun, "read")
              /\ linkState = "Down"
              /\ linkState' = "Connecting"
              /\ UNCHANGED <<smVars, shuttingDown, signal, pc, loc>>

\* ReadFrame fails: the reader returns and the gateway goes on without it.
TunReadFails == /\ At(Tun, "read")
                /\ Goto(Tun, "done")
                /\ UNCHANGED <<smVars, Shared, loc>>

TunDisconnect == /\ At(Tun, "read")
                 /\ linkState' = "Down"
                 /\ Goto(Tun, "closeAll")
                 /\ UNCHANGED <<smVars, shuttingDown, signal, loc>>

\* closeAllSessions; the CLR_REQs to the peers follow the atomic removal.
TunCloseAll == /\ At(Tun, "closeAll")
               /\ RemoveAllSessions
               /\ Goto(Tun, "read")
               /\ UNCHANGED <<Shared, loc>>

\* A RESTART_REQ on an operational link is a duplicate when there are no
\* sessions, and a genuine restart otherwise.
TunRestart == /\ At(Tun, "read")
              /\ ~(linkState = "Operational" /\ GetAllSessions = {})
              /\ Goto(Tun, IF linkState = "Operational" THEN "restart" ELSE "confirm")
              /\ UNCHANGED <<smVars, Shared, loc>>

TunRestartClose == /\ At(Tun, "restart")
                   /\ RemoveAllSessions
                   /\ Goto(Tun, "confirm")
                   /\ UNCHANGED <<Shared, loc>>

\* RESTART_CONF is written and the link is operational.
TunRestartConfirm == /\ At(Tun, "confirm")
                     /\ linkState' = "Operational"
                     /\ Goto(Tun, "read")
                     /\ UNCHANGED <<smVars, shuttingDown, signal, loc>>

\* A CALL_REQ of the kernel, on a channel it chose.  A session that is still
\* there is to be removed.
TunCall(l) == LET s == GetByALCI(l) IN
    /\ At(Tun, "read")
    /\ Goto(Tun, IF s = NoSession THEN "route" ELSE "evict")
    /\ Keep(Tun, [NoLocals EXCEPT !.type = "CALL_REQ", !.lci = l, !.s = s])
    /\ UNCHANGED <<smVars, Shared>>

TunEvict == /\ At(Tun, "evict")
            /\ RemoveSession(loc[Tun].s)
            /\ Goto(Tun, "route")
            /\ Keep(Tun, [loc[Tun] EXCEPT !.s = NoSession])
            /\ UNCHANGED Shared

\* A remote address: start forwardToGateway.
TunForward(c) == /\ At(Tun, "route") /\ pc[c] = "idle"
                 /\ pc' = [pc EXCEPT ![Tun] = "read", ![c] = "check"]
                 /\ loc' = [loc EXCEPT ![Tun] = NoLocals,
                                       ![c] = [NoLocals EXCEPT !.lci = loc[Tun].lci]]
                 /\ UNCHANGED <<smVars, Shared>>

\* After a packet that is not a clear, the header may still say Disconnect.
TunTail == \/ Resume(Tun, "read") /\ UNCHANGED linkState
           \/ Resume(Tun, "closeAll") /\ linkState' = "Down"

\* No session: CLR_REQ to the kernel, unless the packet was a clear itself.
Lookup(type, l) == LET s == GetByALCI(l) IN
    /\ \/ s = NoSession /\ TunTail
       \/ /\ s # NoSession
          /\ Goto(Tun, "relay") /\ Keep(Tun, [NoLocals EXCEPT !.type = type, !.s = s])
          /\ UNCHANGED linkState
    /\ UNCHANGED <<smVars, shuttingDown, signal>>

\* Any packet but a CALL_REQ.
TunPacket(type, l) == At(Tun, "read") /\ Lookup(type, l)

\* A CALL_REQ to a local or unknown address, or one that does not parse.
TunRouteLocal == At(Tun, "route") /\ Lookup("CALL_REQ", loc[Tun].lci)

\* Relay to the session's connection; clears remove the session first.
TunRelay ==
    /\ At(Tun, "relay")
    /\ CASE loc[Tun].type = "CALL_CONN" -> SetState(loc[Tun].s, StateP4) /\ TunTail
         [] loc[Tun].type = "CLR_REQ"   -> /\ SetState(loc[Tun].s, StateP5)
                                           /\ Goto(Tun, "remove")
                                           /\ UNCHANGED <<loc, linkState>>
         [] loc[Tun].type = "CLR_CONF"  -> /\ Goto(Tun, "remove")
                                           /\ UNCHANGED <<smVars, loc, linkState>>
         [] OTHER                       -> UNCHANGED smVars /\ TunTail
    /\ UNCHANGED <<shuttingDown, signal>>

TunRemove == /\ At(Tun, "remove")
             /\ RemoveSession(loc[Tun].s)
             /\ Resume(Tun, "read")
             /\ UNCHANGED Shared

-----------------------------------------------------------------------------
(***************************************************************************)
(* The signal handler.                                                     *)
(***************************************************************************)
SignalFlag == /\ signal = "waiting"
              /\ signal' = "flagged" /\ shuttingDown' = TRUE
              /\ UNCHANGED <<smVars, linkState, pc, loc>>

SignalCloseListener == /\ signal = "flagged"
                       /\ signal' = "closed"
                       /\ UNCHANGED <<smVars, linkState, shuttingDown, pc, loc>>

SignalCloseAll == /\ signal = "closed"
                  /\ RemoveAllSessions
                  /\ signal' = "cleared"
                  /\ UNCHANGED <<linkState, shuttingDown, pc, loc>>

\* Disconnect is written, the device closed, the process exits.
SignalExit == /\ signal = "cleared"
              /\ signal' = "exited"
              /\ UNCHANGED <<smVars, linkState, shuttingDown, pc, loc>>

-----------------------------------------------------------------------------
\* The garbage collector: an object no map and no goroutine refers to.
Held == (UNION {{loc[g].s} \union loc[g].todo : g \in Goroutine}) \ {NoSession}
Collect(r) == /\ Running
              /\ heap[r] # NoSession /\ r \notin Held /\ ~Indexed(r)
              /\ heap' = [heap EXCEPT ![r] = NoSession]
              /\ UNCHANGED <<sessions, byALCI, byBConnLCI, nextLCI, gwVars>>

ServerStep(c) ==
    \/ Accept(c) \/ ReadFails(c)
    \/ \E l \in PeerLCIs : SvrCall(c, l) \/ SvrData(c, l)
    \/ \E type \in Clears, l \in PeerLCIs : SvrClear(c, type, l)
    \/ SvrRemove(c) \/ SvrLink(c) \/ SvrShutdown(c) \/ SvrAllocate(c) \/ SvrWrite(c)

CleanupStep(c) == \/ CleanupSnapshot(c) \/ CleanupWrite(c) \/ CleanupRemove(c) \/ CleanupDone(c)
                  \/ \E s \in Ref : CleanupCheck(c, s)

GatewayStep(c) ==
    \/ FwdCheck(c) \/ FwdDial(c) \/ FwdAdd(c) \/ ReadFails(c) \/ GwyRemove(c)
    \/ \E type \in {"CALL_CONN", "CLR_REQ", "CLR_CONF"}, l \in PeerLCIs : GwyRead(c, type, l)

\* The reader takes a frame: of the link layer, or a packet of a circuit.
TunReadControl == TunConnect \/ TunDisconnect \/ TunRestart
TunReadPacket == \/ \E l \in KernelLCIs : TunCall(l)
                 \/ \E type \in PacketType \ {"CALL_REQ"}, l \in TunLCIs : TunPacket(type, l)

\* It goes on with the frame it has.
TunContinue == \/ TunCloseAll \/ TunRestartClose
               \/ TunEvict \/ TunRouteLocal \/ TunRelay \/ TunRemove
               \/ \E c \in GwyConn : TunForward(c)

TunStep == TunReadControl \/ TunReadPacket \/ TunContinue \/ TunRestartConfirm
           \/ TunReadFails

SignalStep == SignalFlag \/ SignalCloseListener \/ SignalCloseAll \/ SignalExit

Next == \/ \E c \in SvrConn : ServerStep(c)
        \/ \E c \in GwyConn : GatewayStep(c)
        \/ \E c \in Conn : CleanupStep(c)
        \/ TunStep
        \/ SignalStep
        \/ \E r \in Ref : Collect(r)

Spec == Init /\ [][Next]_vars

-----------------------------------------------------------------------------
Label == {"idle", "read", "remove", "link", "shutdown", "alloc", "write",
          "cleanup", "next", "clearTun", "drop", "done", "check", "dial", "add",
          "closeAll", "restart", "confirm", "evict", "route", "relay"}

\* Every variable has its type.
TypeOK ==
    /\ SMTypeOK
    /\ linkState \in {"Down", "Connecting", "Operational"}
    /\ shuttingDown \in BOOLEAN
    /\ signal \in {"waiting", "flagged", "closed", "cleared", "exited"}
    /\ pc \in [Goroutine -> Label]
    /\ loc \in [Goroutine -> [type : PacketType \union {"none"}, lci : LCI, tunLCI : LCI,
                              s : Pointer, todo : SUBSET Ref]]

(***************************************************************************)
(* Teardown of a connection leaves nothing behind: once the handler of a   *)
(* connection has returned, no map holds a session of that connection, so  *)
(* no packet of the kernel can be relayed to it and its channel can be     *)
(* allocated again, whatever the TUN reader and the signal handler did to  *)
(* the same sessions in the meantime.                                      *)
(***************************************************************************)
ClosedConnHasNoSession ==
    \A c \in Conn : pc[c] = "done" =>
        \A r \in Ref : Indexed(r) => heap[r].ConnB # c

(***************************************************************************)
(* As long as a session is registered its connection finds it: cleanupConn *)
(* works from the index by connection only.                                *)
(***************************************************************************)
FoundByItsConn ==
    \A id \in ID : LET r == sessions[id] IN
        r # NoSession => byBConnLCI[heap[r].ConnB][heap[r].LciB] = r

(***************************************************************************)
(* The channels the gateway allocates are its own: a registered session on *)
(* one of them is the session that channel leads to, so packets of the     *)
(* kernel reach the connection they belong to.  Channels the kernel also   *)
(* uses are excepted.                                                      *)
(***************************************************************************)
AllocatedChannelsUnique ==
    \A id \in ID : LET r == sessions[id] IN
        (r # NoSession /\ heap[r].LciA \in TunRange \ KernelLCIs)
            => byALCI[heap[r].LciA] = r

(***************************************************************************)
(* cleanupConn clears a channel towards the kernel only as long as the     *)
(* channel is still the cleaned-up session's: the CLR_REQ never hits a     *)
(* session that took the channel over.                                     *)
(***************************************************************************)
CleanupClearsOwnChannel ==
    [][\A c \in Conn : (pc[c] = "clearTun" /\ pc'[c] = "drop")
          => GetByALCI(heap[loc[c].s].LciA) \in {loc[c].s, NoSession}]_vars
=============================================================================
