---------------------------- MODULE TunLoopback -----------------------------
(***************************************************************************)
(* tun-loopback (src/cmd/tun-loopback/main.go): one reader goroutine per   *)
(* TUN interface, and a table of the calls relayed between interfaces.     *)
(*                                                                         *)
(* The table's writers hold its mutex for a whole operation, so each       *)
(* operation is one step.  Readers load one slot without the mutex: what   *)
(* they find is what it held before or after the operation, and they act   *)
(* on it later.  As in SessionManager, a session is a reference to an      *)
(* object.  Frames written are not kept.                                   *)
(***************************************************************************)
EXTENDS Integers

CONSTANTS
    Node,              \* the TUN interfaces
    Ref, NoSession,    \* references to loopSession objects, and nil
    lciStart, lciEnd,  \* the range relay LCIs are taken from
    KernelLCIs         \* the LCIs kernels choose for their own calls

RelayLCIs == lciStart..lciEnd
LCI == KernelLCIs \union RelayLCIs

ASSUME LoopbackAssumption ==
    /\ lciStart \in Nat /\ lciEnd \in Nat /\ lciStart <= lciEnd
    /\ KernelLCIs \subseteq Nat
    /\ NoSession \notin Ref

VARIABLES
    linkState,   \* atomic, one per interface
    heap,        \* the loopSession objects; a record with ends A and B
    slots,       \* the session of each interface and LCI
    usedLCI,     \* the relay LCIs reserved on each interface
    nextLCI,     \* each interface's round-robin cursor
    pc, loc      \* where each reader is, and its local variables

tableVars == <<heap, slots, usedLCI, nextLCI>>
vars == <<linkState, tableVars, pc, loc>>

Session == [A : Node \X LCI, B : Node \X LCI]
Pointer == Ref \union {NoSession}

NoLocals == [lci |-> lciStart, s |-> NoSession, dst |-> {}]

Init == /\ linkState = [n \in Node |-> "Connecting"]   \* main has written Connect
        /\ heap = [r \in Ref |-> [A |-> << >>, B |-> << >>]]
        /\ slots = [n \in Node |-> [l \in LCI |-> NoSession]]
        /\ usedLCI = [n \in Node |-> {}]
        /\ nextLCI = [n \in Node |-> lciStart]
        /\ pc = [n \in Node |-> "read"]
        /\ loc = [n \in Node |-> NoLocals]

Goto(n, label) == pc' = [pc EXCEPT ![n] = label]
Keep(n, locals) == loc' = [loc EXCEPT ![n] = locals]
Resume(n, label) == Goto(n, label) /\ Keep(n, NoLocals)

-----------------------------------------------------------------------------
(***************************************************************************)
(* The table.  Each operator gives the slots, or the reservations, that an *)
(* operation leaves; those for removal take a set of sessions.             *)
(***************************************************************************)
get(n, l) == slots[n][l]

Ends(S) == {heap[r].A : r \in S} \union {heap[r].B : r \in S}

\* remove clears the two slots whoever is in them.
SlotsWithout(S) ==
    [n \in Node |-> [l \in LCI |-> IF <<n, l>> \in Ends(S) THEN NoSession ELSE slots[n][l]]]

\* Mutant: the reservation of the B side is not released.
UsedWithoutLeaks(S) == usedLCI

UsedWithout(S) == [n \in Node |-> usedLCI[n] \ {l \in LCI : \E r \in S : heap[r].B = <<n, l>>}]

remove(S) == /\ slots' = SlotsWithout(S)
             /\ usedLCI' = UsedWithout(S)
             /\ UNCHANGED <<heap, nextLCI>>

SessionsForNode(n) ==
    {r \in Ref : /\ \E m \in Node, l \in LCI : slots[m][l] = r
                 /\ n \in {heap[r].A[1], heap[r].B[1]}}

\* allocRelayLCI: the i-th LCI from the cursor on, given the ones in use.
rangeSize == lciEnd - lciStart + 1
Probe(n, i) == lciStart + ((nextLCI[n] - lciStart + i) % rangeSize)

FirstFree(n, i, used) == /\ Probe(n, i) \notin used
                         /\ \A j \in 0..(i - 1) : Probe(n, j) \in used

-----------------------------------------------------------------------------
(***************************************************************************)
(* handleTunRead: the link.                                                *)
(***************************************************************************)
Connect(n) == /\ pc[n] = "read" /\ linkState[n] = "Down"
              /\ linkState' = [linkState EXCEPT ![n] = "Connecting"]
              /\ UNCHANGED <<tableVars, pc, loc>>

Disconnect(n) == /\ pc[n] = "read"
                 /\ linkState' = [linkState EXCEPT ![n] = "Down"]
                 /\ Goto(n, "clearAll")
                 /\ UNCHANGED <<tableVars, loc>>

\* removeAllForNode; the CLR_REQs to the other ends follow.
ClearAll(n) == /\ pc[n] \in {"clearAll", "restart"}
               /\ remove(SessionsForNode(n))
               /\ Goto(n, IF pc[n] = "restart" THEN "confirm" ELSE "read")
               /\ UNCHANGED <<linkState, loc>>

\* handleRestart: the sessions go only if the link was operational.
Restart(n) == /\ pc[n] = "read"
              /\ Goto(n, IF linkState[n] = "Operational" THEN "restart" ELSE "confirm")
              /\ UNCHANGED <<linkState, tableVars, loc>>

Confirm(n) == /\ pc[n] = "confirm"
              /\ linkState' = [linkState EXCEPT ![n] = "Operational"]
              /\ Goto(n, "read")
              /\ UNCHANGED <<tableVars, loc>>

ReadFails(n) == /\ pc[n] = "read"
                /\ Goto(n, "done")
                /\ UNCHANGED <<linkState, tableVars, loc>>

(***************************************************************************)
(* handleCallRequest.  A call that cannot be parsed, has no route, or goes *)
(* to an interface whose link is not operational is cleared.               *)
(***************************************************************************)
CallRequest(n, l, d) ==
    /\ pc[n] = "read" /\ linkState[n] = "Operational"
    /\ linkState[d] = "Operational"
    /\ Goto(n, "alloc")
    /\ Keep(n, [lci |-> l, s |-> NoSession, dst |-> {d}])
    /\ UNCHANGED <<linkState, tableVars>>

Stale(n) == {get(n, loc[n].lci)} \ {NoSession}
Used(n, d) == UsedWithout(Stale(n))[d]

\* Mutant: the cursor is advanced without wrapping at the end of the range.
CursorAfterNoWrap(k) == k + 1

CursorAfter(k) == lciStart + ((k - lciStart + 1) % rangeSize)

\* Under the mutex: a stale session is removed, an LCI allocated on the
\* destination d, and the session added.
Allocate(n, d, r) ==
    /\ pc[n] = "alloc" /\ loc[n].dst = {d}
    /\ \A m \in Node : loc[m].s # r
    /\ \A m \in Node, l \in LCI : slots[m][l] # r
    /\ \E i \in 0..(rangeSize - 1) :
          LET k == Probe(d, i) IN
          /\ FirstFree(d, i, Used(n, d))
          /\ heap' = [heap EXCEPT ![r] = [A |-> <<n, loc[n].lci>>, B |-> <<d, k>>]]
          /\ slots' = [SlotsWithout(Stale(n)) EXCEPT ![n][loc[n].lci] = r, ![d][k] = r]
          /\ usedLCI' = [UsedWithout(Stale(n)) EXCEPT ![d] = @ \union {k}]
          /\ nextLCI' = [nextLCI EXCEPT ![d] = CursorAfter(k)]
    /\ Goto(n, "write")
    /\ Keep(n, [loc[n] EXCEPT !.s = r])
    /\ UNCHANGED linkState

\* No LCI is free: the stale session is gone all the same.
Exhausted(n, d) == /\ pc[n] = "alloc" /\ loc[n].dst = {d}
                   /\ RelayLCIs \subseteq Used(n, d)
                   /\ remove(Stale(n))
                   /\ Resume(n, "read")
                   /\ UNCHANGED linkState

\* The CALL_REQ is written to the destination, or the write fails.
WriteCall(n) == /\ pc[n] = "write"
                /\ \/ Resume(n, "read")
                   \/ Goto(n, "undo") /\ UNCHANGED loc
                /\ UNCHANGED <<linkState, tableVars>>

Undo(n) == /\ pc[n] = "undo"
           /\ remove({loc[n].s})
           /\ Resume(n, "read")
           /\ UNCHANGED linkState

(***************************************************************************)
(* forwardPacket changes the table for a CLR_CONF only: the session found  *)
(* first is removed if the slot still holds it.                            *)
(***************************************************************************)
ClearConfirm(n, l) == /\ pc[n] = "read" /\ linkState[n] = "Operational"
                      /\ get(n, l) # NoSession
                      /\ Goto(n, "remove")
                      /\ Keep(n, [lci |-> l, s |-> get(n, l), dst |-> {}])
                      /\ UNCHANGED <<linkState, tableVars>>

\* Mutant: no look at what the slot holds now.
RemoveConfirmedUnchecked(n) ==
    /\ pc[n] = "remove"
    /\ remove({loc[n].s})
    /\ Resume(n, "read")
    /\ UNCHANGED linkState

RemoveConfirmed(n) ==
    /\ pc[n] = "remove"
    /\ \/ get(n, loc[n].lci) = loc[n].s /\ remove({loc[n].s})
       \/ get(n, loc[n].lci) # loc[n].s /\ UNCHANGED tableVars
    /\ Resume(n, "read")
    /\ UNCHANGED linkState

-----------------------------------------------------------------------------
LinkStep(n) == Connect(n) \/ Disconnect(n) \/ ClearAll(n) \/ Restart(n) \/ Confirm(n) \/ ReadFails(n)

CallStep(n) == \/ \E l \in KernelLCIs, d \in Node : CallRequest(n, l, d)
               \/ \E d \in Node, r \in Ref : Allocate(n, d, r)
               \/ \E d \in Node : Exhausted(n, d)
               \/ WriteCall(n) \/ Undo(n)

ForwardStep(n) == (\E l \in LCI : ClearConfirm(n, l)) \/ RemoveConfirmed(n)

Next == \E n \in Node : LinkStep(n) \/ CallStep(n) \/ ForwardStep(n)

Spec == Init /\ [][Next]_vars

-----------------------------------------------------------------------------
\* Every variable has its type.
TypeOK ==
    /\ linkState \in [Node -> {"Down", "Connecting", "Operational"}]
    /\ heap \in [Ref -> Session \union {[A |-> << >>, B |-> << >>]}]
    /\ slots \in [Node -> [LCI -> Pointer]]
    /\ usedLCI \in [Node -> SUBSET RelayLCIs]
    /\ nextLCI \in [Node -> RelayLCIs]
    /\ pc \in [Node -> {"read", "clearAll", "restart", "confirm", "alloc", "write", "undo",
                        "remove", "done"}]
    /\ loc \in [Node -> [lci : LCI, s : Pointer, dst : SUBSET Node]]

BothKeysPoint ==
    \A n \in Node, l \in LCI : LET r == slots[n][l] IN
        r # NoSession => /\ <<n, l>> \in Ends({r})
                         /\ \A m \in Node, k \in LCI :
                               <<m, k>> \in Ends({r}) => slots[m][k] = r

\* A failed write is undone after the table has forgotten the session: remove
\* then clears slots that may be another session's by now.
StaleUndo == \E n \in Node : /\ pc[n] = "undo" /\ pc'[n] = "read"
                             /\ \A m \in Node, l \in LCI : slots[m][l] # loc[n].s

(***************************************************************************)
(* Both keys of a session point to it, so packets pass in both directions  *)
(* or in none: what an interface finds under an LCI is a session with that *)
(* end, and the other end's slot holds the same session.  Calls, clears,   *)
(* restarts and disconnects of all interfaces, interleaved, keep it so;    *)
(* only the late undo of a failed write does not.                          *)
(***************************************************************************)
CallsStayWhole == [][BothKeysPoint /\ ~StaleUndo => BothKeysPoint']_vars

(***************************************************************************)
(* A relay LCI is reserved exactly as long as a call arrives on it: none   *)
(* leaks, and none on which packets are relayed is handed out again.  Not  *)
(* even a late undo breaks this: it takes slot and reservation together.   *)
(***************************************************************************)
ReservedIsInUse ==
    \A n \in Node : usedLCI[n] =
        {l \in RelayLCIs : slots[n][l] # NoSession /\ heap[slots[n][l]].B = <<n, l>>}
=============================================================================
