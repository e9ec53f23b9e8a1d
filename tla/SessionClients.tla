--------------------------- MODULE SessionClients ---------------------------
(***************************************************************************)
(* The session manager under any number of concurrent callers.  A caller   *)
(* obtains pointers from lookups or by building a Session itself, keeps    *)
(* them as long as it likes, and may pass a stale one to RemoveSession or  *)
(* SetState long after the manager forgot it.  The garbage collector       *)
(* recycles an object once neither a map nor a caller refers to it.        *)
(***************************************************************************)
EXTENDS SessionManager

CONSTANTS CallLCIs,  \* TUN-side channels of the sessions callers build
          PeerLCIs,  \* XOT-side channels that occur
          NewStates  \* states callers pass to SetState

ASSUME CallerAssumption == /\ CallLCIs \subseteq LCI
                           /\ PeerLCIs \subseteq LCI
                           /\ NewStates \subseteq State

VARIABLE held        \* the references some caller keeps

vars == <<smVars, held>>

Init == SMInit /\ held = {}

BuiltSession(gfi, l, c, k) ==
    [GFI |-> gfi, LciA |-> l, LciB |-> k, ConnB |-> c, State |-> StateP2]

\* AddSession with any session a caller may build.
Add(r, gfi, l, c, k) == /\ AddSession(r, BuiltSession(gfi, l, c, k))
                        /\ held' = held \union {r}

\* AddSession by a caller that knows both keys of its session to be unused.
AddUnclaimed(r, gfi, l, c, k) == /\ byALCI[l] = NoSession
                                 /\ byBConnLCI[c][k] = NoSession
                                 /\ Add(r, gfi, l, c, k)

\* AllocateAndAddTunSession: getTunLCI keeps the channel, not the pointer.
Allocate(c, gfi, k, r) == AllocateFresh(c, gfi, k, r) /\ UNCHANGED held

RemoveByB(c, k) == RemoveByBConnLCI(c, k) /\ UNCHANGED held

Remove(r) == r \in held /\ RemoveSession(r) /\ UNCHANGED held

RemoveAll == RemoveAllSessions /\ UNCHANGED held

Transition(r, st) == r \in held /\ SetState(r, st) /\ UNCHANGED held

LookupA(l) == /\ GetByALCI(l) # NoSession
              /\ held' = held \union {GetByALCI(l)}
              /\ UNCHANGED smVars

LookupB(c) == /\ GetSessionsForConn(c) # {}
              /\ held' = held \union GetSessionsForConn(c)
              /\ UNCHANGED smVars

Forget(r) == /\ r \in held
             /\ held' = held \ {r}
             /\ UNCHANGED smVars

Collect(r) == /\ heap[r] # NoSession
              /\ r \notin held
              /\ ~Indexed(r)
              /\ heap' = [heap EXCEPT ![r] = NoSession]
              /\ UNCHANGED <<sessions, byALCI, byBConnLCI, nextLCI, held>>

Other == \/ \E c \in Conn, gfi \in GFIs, k \in PeerLCIs, r \in Ref :
                Allocate(c, gfi, k, r)
         \/ \E c \in Conn, k \in PeerLCIs : RemoveByB(c, k)
         \/ \E r \in Ref : Remove(r)
         \/ RemoveAll
         \/ \E r \in Ref, st \in NewStates : Transition(r, st)
         \/ \E l \in LCI : LookupA(l)
         \/ \E c \in Conn : LookupB(c)
         \/ \E r \in Ref : Forget(r)
         \/ \E r \in Ref : Collect(r)

Next == \/ \E r \in Ref, gfi \in GFIs, l \in CallLCIs, c \in Conn, k \in PeerLCIs :
              Add(r, gfi, l, c, k)
        \/ Other

CarefulNext ==
        \/ \E r \in Ref, gfi \in GFIs, l \in CallLCIs, c \in Conn, k \in PeerLCIs :
              AddUnclaimed(r, gfi, l, c, k)
        \/ Other

Spec == Init /\ [][Next]_vars
CarefulSpec == Init /\ [][CarefulNext]_vars

-----------------------------------------------------------------------------
\* Every variable has its type (the sessions built by callers included).
TypeOK == SMTypeOK /\ held \subseteq Ref

(***************************************************************************)
(* A channel that carries a session is never handed to another session     *)
(* except by AddSession: AllocateAndAddTunSession takes only channels      *)
(* nobody is using, however the cursor and the removals interleave.        *)
(***************************************************************************)
AllocatorNeverRebinds ==
    [][\A l \in TunRange \ CallLCIs :
          byALCI[l] # NoSession => byALCI'[l] \in {byALCI[l], NoSession}]_vars

(***************************************************************************)
(* The manager under careful callers implements the table of circuits.     *)
(***************************************************************************)
CircuitAt(l) == IF byALCI[l] = NoSession
                THEN NoSession
                ELSE <<heap[byALCI[l]].ConnB, heap[byALCI[l]].LciB>>
Table == INSTANCE CircuitTable
            WITH Channel <- LCI, Circuit <- Conn \X LCI, Unbound <- NoSession,
                 circuitOf <- [l \in LCI |-> CircuitAt(l)]
ImplementsTable == Table!TableSpec
=============================================================================
