--------------------------- MODULE SessionManager ---------------------------
(***************************************************************************)
(* The table of X.25 virtual circuits shared by the goroutines of          *)
(* tun-gateway (src/session.go).  Three maps index one set of Session      *)
(* objects: by identity, by the logical channel on the TUN side (A), and   *)
(* by connection and logical channel on the XOT side (B).  Every method    *)
(* holds the manager's mutex from its first to its last statement, so each *)
(* one is a single action.  Session objects are Go pointers: callers keep  *)
(* them after the manager has forgotten them, and a map entry is compared  *)
(* with a pointer, so objects are named by references into a heap.         *)
(***************************************************************************)
EXTENDS Integers

CONSTANTS
    Ref,              \* references to Session objects
    Conn,             \* B-side connections (net.Conn)
    NoSession,        \* the nil *Session
    LCIMin, LCIMax,   \* the valid logical channel numbers (1 and 4095)
    lciStart, lciEnd, \* the range given to NewSessionManager
    GFIs,             \* the general format identifiers a packet may carry
    GFIMod128         \* the gateway's preferred GFI

ASSUME LCIAssumption == /\ LCIMin \in Nat /\ LCIMax \in Nat
                        /\ 0 < LCIMin /\ LCIMin <= LCIMax
                        /\ lciStart \in Nat /\ lciEnd \in Nat
ASSUME GFIAssumption == GFIs \subseteq Nat /\ GFIMod128 \in GFIs

VARIABLES
    heap,       \* the Session objects; NoSession where a reference is unused
    sessions,   \* the map by identity
    byALCI,     \* the map by TUN-side LCI
    byBConnLCI, \* the map by connection and XOT-side LCI
    nextLCI     \* the round-robin cursor

smVars == <<heap, sessions, byALCI, byBConnLCI, nextLCI>>

(***************************************************************************)
(* Values.                                                                 *)
(***************************************************************************)
LCI == 0..LCIMax   \* what the 12-bit field of a packet may hold

StateP1 == "p1"
StateP2 == "p2"
StateP4 == "p4"
StateP5 == "p5"
State == {StateP1, StateP2, "p3", StateP4, StateP5}

Session == [GFI : GFIs, LciA : LCI, LciB : LCI, ConnB : Conn, State : State]

ASSUME NilAssumption == /\ NoSession \notin Ref
                        /\ NoSession \notin Session
                        /\ NoSession \notin Conn \X LCI

\* The identity string: ConnA is nil for every circuit of the TUN side, so
\* only the other three components of the formatted string vary.
ID == LCI \X Conn \X LCI
IdOf(s) == <<s.LciA, s.ConnB, s.LciB>>

Pointer == Ref \union {NoSession}

\* The range NewSessionManager keeps: clamped, and the whole valid range when
\* clamping leaves it empty.
clampedStart == IF lciStart < LCIMin THEN LCIMin ELSE lciStart
clampedEnd == IF lciEnd > LCIMax THEN LCIMax ELSE lciEnd
tunLciStart == IF clampedStart > clampedEnd THEN LCIMin ELSE clampedStart
tunLciEnd == IF clampedStart > clampedEnd THEN LCIMax ELSE clampedEnd
TunRange == tunLciStart..tunLciEnd
rangeSize == tunLciEnd - tunLciStart + 1

NegotiateGFI(callerGFI) == IF callerGFI < GFIMod128 THEN callerGFI ELSE GFIMod128

-----------------------------------------------------------------------------
(***************************************************************************)
(* NewSessionManager.                                                      *)
(***************************************************************************)
NoIDs == [id \in ID |-> NoSession]
NoLCIs == [l \in LCI |-> NoSession]
NoConns == [c \in Conn |-> NoLCIs]

SMInit == /\ heap = [r \in Ref |-> NoSession]
          /\ sessions = NoIDs
          /\ byALCI = NoLCIs
          /\ byBConnLCI = NoConns
          /\ nextLCI = tunLciStart

(***************************************************************************)
(* Lookups.                                                                *)
(***************************************************************************)
GetByALCI(l) == byALCI[l]
GetByBConnLCI(c, l) == byBConnLCI[c][l]
GetSessionsForConn(c) == {byBConnLCI[c][l] : l \in LCI} \ {NoSession}
GetAllSessions == {sessions[id] : id \in ID} \ {NoSession}

Indexed(r) == \/ \E id \in ID : sessions[id] = r
              \/ \E l \in LCI : byALCI[l] = r
              \/ \E c \in Conn, l \in LCI : byBConnLCI[c][l] = r

(***************************************************************************)
(* Registration.  Both ways in overwrite whatever the three maps hold      *)
(* under the new session's keys.                                           *)
(***************************************************************************)
Register(r, s) ==
    /\ heap' = [heap EXCEPT ![r] = s]
    /\ sessions' = [sessions EXCEPT ![IdOf(s)] = r]
    /\ byALCI' = [byALCI EXCEPT ![s.LciA] = r]
    /\ byBConnLCI' = [byBConnLCI EXCEPT ![s.ConnB][s.LciB] = r]

ValidSession(s) == /\ s.GFI # 0
                   /\ s.LciA \in LCIMin..LCIMax
                   /\ s.LciB \in LCIMin..LCIMax

\* AddSession of an object the caller has just built.
AddSession(r, s) ==
    /\ heap[r] = NoSession
    /\ \/ ValidSession(s) /\ Register(r, s)
       \/ /\ ~ValidSession(s)
          /\ heap' = [heap EXCEPT ![r] = s]
          /\ UNCHANGED <<sessions, byALCI, byBConnLCI>>
    /\ UNCHANGED nextLCI

\* The allocator probes the range from the cursor on and takes the first
\* channel the A index does not hold.
Probe(i) == tunLciStart + ((nextLCI - tunLciStart + i) % rangeSize)
FreeProbe(i) == i \in 0..(rangeSize - 1) /\ byALCI[Probe(i)] = NoSession
\* Mutant: the allocator takes the channel under the cursor without looking.
FirstFreeUnchecked(i) == i = 0

FirstFree(i) == FreeProbe(i) /\ \A j \in 0..(i - 1) : ~FreeProbe(j)
Exhausted == \A i \in 0..(rangeSize - 1) : ~FreeProbe(i)

AllocatedSession(c, gfi, l, lciA) ==
    [GFI |-> NegotiateGFI(gfi), LciA |-> lciA, LciB |-> l, ConnB |-> c,
     State |-> StateP1]

\* Mutant: the cursor is advanced without wrapping at the end of the range.
AllocateFreshNoWrap(c, gfi, l, r) ==
    /\ byBConnLCI[c][l] = NoSession
    /\ heap[r] = NoSession
    /\ \E i \in 0..(rangeSize - 1) :
          /\ FirstFree(i)
          /\ Register(r, AllocatedSession(c, gfi, l, Probe(i)))
          /\ nextLCI' = Probe(i) + 1

\* Mutant: the cursor stays where it is.
AllocateFreshNoAdvance(c, gfi, l, r) ==
    /\ byBConnLCI[c][l] = NoSession
    /\ heap[r] = NoSession
    /\ \E i \in 0..(rangeSize - 1) :
          /\ FirstFree(i)
          /\ Register(r, AllocatedSession(c, gfi, l, Probe(i)))
          /\ UNCHANGED nextLCI

\* AllocateAndAddTunSession when (c, l) has no session and a channel is free.
AllocateFresh(c, gfi, l, r) ==
    /\ byBConnLCI[c][l] = NoSession
    /\ heap[r] = NoSession
    /\ \E i \in 0..(rangeSize - 1) :
          /\ FirstFree(i)
          /\ Register(r, AllocatedSession(c, gfi, l, Probe(i)))
          /\ nextLCI' = tunLciStart + ((Probe(i) - tunLciStart + 1) % rangeSize)

(***************************************************************************)
(* Removal.                                                                *)
(***************************************************************************)

\* Deletes the A-index entry whoever it belongs to.
RemoveByBConnLCI(c, l) ==
    LET s == heap[byBConnLCI[c][l]] IN
    /\ byBConnLCI[c][l] # NoSession
    /\ sessions' = [sessions EXCEPT ![IdOf(s)] = NoSession]
    /\ byALCI' = [byALCI EXCEPT ![s.LciA] = NoSession]
    /\ byBConnLCI' = [byBConnLCI EXCEPT ![c][l] = NoSession]
    /\ UNCHANGED <<heap, nextLCI>>

Without(p, r) == IF p = r THEN NoSession ELSE p

\* Mutant: the identity map entry is deleted without comparing the pointer.
RemoveSessionByID(r) ==
    LET s == heap[r] IN
    /\ sessions' = [sessions EXCEPT ![IdOf(s)] = NoSession]
    /\ byALCI' = [byALCI EXCEPT ![s.LciA] = Without(@, r)]
    /\ byBConnLCI' = [byBConnLCI EXCEPT ![s.ConnB][s.LciB] = Without(@, r)]
    /\ UNCHANGED <<heap, nextLCI>>

\* Mutant: the A entry is deleted without comparing the pointer.
RemoveSessionByLCI(r) ==
    LET s == heap[r] IN
    /\ sessions' = [sessions EXCEPT ![IdOf(s)] = Without(@, r)]
    /\ byALCI' = [byALCI EXCEPT ![s.LciA] = NoSession]
    /\ byBConnLCI' = [byBConnLCI EXCEPT ![s.ConnB][s.LciB] = Without(@, r)]
    /\ UNCHANGED <<heap, nextLCI>>

\* Mutant: the B entry is deleted without comparing the pointer.
RemoveSessionByConn(r) ==
    LET s == heap[r] IN
    /\ sessions' = [sessions EXCEPT ![IdOf(s)] = Without(@, r)]
    /\ byALCI' = [byALCI EXCEPT ![s.LciA] = Without(@, r)]
    /\ byBConnLCI' = [byBConnLCI EXCEPT ![s.ConnB][s.LciB] = NoSession]
    /\ UNCHANGED <<heap, nextLCI>>

\* Deletes the entries of r, and leaves alone those another session has
\* taken over since.
RemoveSession(r) ==
    LET s == heap[r] IN
    /\ sessions' = [sessions EXCEPT ![IdOf(s)] = Without(@, r)]
    /\ byALCI' = [byALCI EXCEPT ![s.LciA] = Without(@, r)]
    /\ byBConnLCI' = [byBConnLCI EXCEPT ![s.ConnB][s.LciB] = Without(@, r)]
    /\ UNCHANGED <<heap, nextLCI>>

RemoveAllSessions ==
    /\ sessions' = NoIDs
    /\ byALCI' = NoLCIs
    /\ byBConnLCI' = NoConns
    /\ UNCHANGED <<heap, nextLCI>>

SetState(r, st) ==
    /\ heap' = [heap EXCEPT ![r].State = st]
    /\ UNCHANGED <<sessions, byALCI, byBConnLCI, nextLCI>>

-----------------------------------------------------------------------------
SMTypeOK == /\ heap \in [Ref -> Session \union {NoSession}]
            /\ sessions \in [ID -> Pointer]
            /\ byALCI \in [LCI -> Pointer]
            /\ byBConnLCI \in [Conn -> [LCI -> Pointer]]
            /\ nextLCI \in TunRange

(***************************************************************************)
(* Whatever the callers do, a session found through either channel index   *)
(* is the one registered under its own identity, and it is filed under its *)
(* own keys.  RemoveAllSessions returns the registered sessions only, so   *)
(* closeAllSessions tells every peer a packet could still be relayed to    *)
(* exactly because of this.                                                *)
(***************************************************************************)
RegisteredUnderItsID ==
    \A id \in ID : LET r == sessions[id] IN
        r # NoSession => heap[r] # NoSession /\ IdOf(heap[r]) = id
AEntryRegistered ==
    \A l \in LCI : LET r == byALCI[l] IN
        r # NoSession => /\ heap[r] # NoSession
                         /\ heap[r].LciA = l
                         /\ sessions[IdOf(heap[r])] = r
BEntryRegistered ==
    \A c \in Conn, l \in LCI : LET r == byBConnLCI[c][l] IN
        r # NoSession => /\ heap[r] # NoSession
                         /\ heap[r].ConnB = c /\ heap[r].LciB = l
                         /\ sessions[IdOf(heap[r])] = r
IndexedIsRegistered ==
    RegisteredUnderItsID /\ AEntryRegistered /\ BEntryRegistered

(***************************************************************************)
(* If every caller of AddSession uses keys that are free, no session is    *)
(* ever half lost: as long as it is registered both of its keys lead to    *)
(* it, so packets of either direction and every cleanup path find it, even *)
(* though RemoveByBConnLCI deletes the A entry without looking at it.      *)
(***************************************************************************)
RegisteredIsReachable ==
    \A id \in ID : LET r == sessions[id] IN
        r # NoSession => /\ byALCI[heap[r].LciA] = r
                         /\ byBConnLCI[heap[r].ConnB][heap[r].LciB] = r
=============================================================================
