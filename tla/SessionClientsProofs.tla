------------------------ MODULE SessionClientsProofs ------------------------
(***************************************************************************)
(* The session manager under its callers.  TypeOK, IndexedIsRegistered and *)
(* HeldIsAllocated together are inductive under every caller.              *)
(* RegisteredIsReachable is inductive relative to them when callers add    *)
(* sessions under unclaimed keys only.                                     *)
(***************************************************************************)
EXTENDS SessionReuse, SessionManagerProofs

\* The garbage collector keeps the objects callers hold.
HeldIsAllocated == \A r \in held : heap[r] # NoSession

IndInv == TypeOK /\ IndexedIsRegistered /\ HeldIsAllocated

\* A session a caller of AddSession builds is a Session.
LEMMA BuiltIsSession ==
    ASSUME NEW c \in Conn, NEW gfi \in GFIs, NEW l \in LCI, NEW k \in LCI
    PROVE  BuiltSession(gfi, l, c, k) \in Session
BY DEF BuiltSession, Session, State, StateP2

\* The inductive invariant holds of a new manager nobody has called.
LEMMA InitIndInv == Init => IndInv
BY InitSound DEF Init, IndInv, TypeOK, HeldIsAllocated

\* A step of the manager that keeps or fills heap entries keeps held objects.
LEMMA HeldFrame ==
    ASSUME IndInv, SMTypeOK', IndexedIsRegistered', UNCHANGED held,
           \A r \in Ref : heap[r] # NoSession => heap'[r] # NoSession
    PROVE  IndInv'
BY DEF IndInv, TypeOK, HeldIsAllocated

\* Registering never empties a heap entry.
LEMMA RegisterKeeps ==
    ASSUME SMTypeOK, NEW r \in Ref, NEW s \in Session, heap' = [heap EXCEPT ![r] = s]
    PROVE  heap'[r] = s /\ \A q \in Ref : heap[q] # NoSession => heap'[q] # NoSession
BY NilAssumption DEF SMTypeOK

\* AddSession, whether it registers or refuses the session, keeps it.
LEMMA AddIndInv ==
    ASSUME IndInv, NEW r \in Ref, NEW gfi \in GFIs, NEW l \in CallLCIs,
           NEW c \in Conn, NEW k \in PeerLCIs, Add(r, gfi, l, c, k)
    PROVE  IndInv'
<1> DEFINE s == BuiltSession(gfi, l, c, k)
<1>1. s \in Session
  BY BuiltIsSession, CallerAssumption
<1>2. SMTypeOK' /\ IndexedIsRegistered'
  BY <1>1, AddSessionSound DEF IndInv, TypeOK, Add
<1>3. heap' = [heap EXCEPT ![r] = s]
  BY DEF Add, AddSession, Register
<1>4. heap'[r] # NoSession /\ \A q \in Ref : heap[q] # NoSession => heap'[q] # NoSession
  BY <1>1, <1>3, RegisterKeeps, NilAssumption DEF IndInv, TypeOK
<1> QED
  BY <1>2, <1>4 DEF IndInv, TypeOK, HeldIsAllocated, Add

\* So does every other method, and every step of callers and collector.
LEMMA OtherIndInv ==
    ASSUME IndInv, Other
    PROVE  IndInv'
<1> USE DEF IndInv, TypeOK
<1>1. ASSUME NEW c \in Conn, NEW gfi \in GFIs, NEW k \in PeerLCIs, NEW r \in Ref,
             Allocate(c, gfi, k, r)
      PROVE  IndInv'
  <2>1. k \in LCI /\ AllocateFresh(c, gfi, k, r)
    BY <1>1, CallerAssumption DEF Allocate
  <2>2. SMTypeOK' /\ IndexedIsRegistered'
    BY <2>1, AllocateFreshSound
  <2>3. \A q \in Ref : heap[q] # NoSession => heap'[q] # NoSession
    <3>1. PICK a \in TunRange : /\ AllocatedSession(c, gfi, k, a) \in Session
                                /\ Register(r, AllocatedSession(c, gfi, k, a))
      BY <2>1, AllocateFreshRegisters
    <3>2. heap' = [heap EXCEPT ![r] = AllocatedSession(c, gfi, k, a)]
      BY <3>1 DEF Register
    <3> QED
      BY <3>1, <3>2, RegisterKeeps
  <2> QED
    BY <1>1, <2>2, <2>3, HeldFrame DEF Allocate
<1>2. ASSUME NEW c \in Conn, NEW k \in PeerLCIs, RemoveByB(c, k)
      PROVE  IndInv'
  <2>1. SMTypeOK' /\ IndexedIsRegistered'
    BY <1>2, RemoveByBConnLCISound, CallerAssumption DEF RemoveByB
  <2> QED
    BY <1>2, <2>1, HeldFrame DEF RemoveByB, RemoveByBConnLCI
<1>3. ASSUME NEW r \in Ref, Remove(r)
      PROVE  IndInv'
  <2>1. SMTypeOK' /\ IndexedIsRegistered'
    BY <1>3, RemoveSessionSound DEF Remove, HeldIsAllocated
  <2> QED
    BY <1>3, <2>1, HeldFrame DEF Remove, RemoveSession
<1>4. ASSUME RemoveAll
      PROVE  IndInv'
  <2>1. SMTypeOK' /\ IndexedIsRegistered'
    BY <1>4, RemoveAllSessionsSound DEF RemoveAll
  <2> QED
    BY <1>4, <2>1, HeldFrame DEF RemoveAll, RemoveAllSessions
<1>5. ASSUME NEW r \in Ref, NEW st \in NewStates, Transition(r, st)
      PROVE  IndInv'
  <2>1. heap[r] # NoSession /\ st \in State /\ SetState(r, st)
    BY <1>5, CallerAssumption DEF Transition, HeldIsAllocated
  <2>2. SMTypeOK' /\ IndexedIsRegistered'
    BY <2>1, SetStateSound
  <2>3. \A q \in Ref : heap[q] # NoSession => heap'[q] # NoSession
    <3>1. heap[r] \in Session /\ [heap[r] EXCEPT !.State = st] \in Session
      BY <2>1 DEF SMTypeOK, Session
    <3> QED
      BY <2>1, <3>1, NilAssumption DEF SMTypeOK, SetState
  <2> QED
    BY <1>5, <2>2, <2>3, HeldFrame DEF Transition
<1>6. ASSUME NEW l \in LCI, LookupA(l)
      PROVE  IndInv'
  <2>1. UNCHANGED smVars /\ held' = held \union {byALCI[l]} /\ byALCI[l] # NoSession
    BY <1>6 DEF LookupA, GetByALCI
  <2>2. byALCI[l] \in Ref /\ heap[byALCI[l]] # NoSession
    BY <2>1 DEF SMTypeOK, Pointer, IndexedIsRegistered, AEntryRegistered
  <2>3. SMTypeOK' /\ IndexedIsRegistered'
    BY <2>1 DEF smVars, SMTypeOK, IndexedIsRegistered, RegisteredUnderItsID,
                AEntryRegistered, BEntryRegistered
  <2> QED
    BY <2>1, <2>2, <2>3 DEF smVars, HeldIsAllocated
<1>7. ASSUME NEW c \in Conn, LookupB(c)
      PROVE  IndInv'
  <2>1. UNCHANGED smVars /\ held' = held \union GetSessionsForConn(c)
    BY <1>7 DEF LookupB
  <2>2. \A r \in GetSessionsForConn(c) : r \in Ref /\ heap[r] # NoSession
    BY DEF GetSessionsForConn, SMTypeOK, Pointer, IndexedIsRegistered, BEntryRegistered
  <2>3. SMTypeOK' /\ IndexedIsRegistered'
    BY <2>1 DEF smVars, SMTypeOK, IndexedIsRegistered, RegisteredUnderItsID,
                AEntryRegistered, BEntryRegistered
  <2> QED
    BY <2>1, <2>2, <2>3 DEF smVars, HeldIsAllocated
<1>8. ASSUME NEW r \in Ref, Forget(r)
      PROVE  IndInv'
  <2>1. SMTypeOK' /\ IndexedIsRegistered'
    BY <1>8 DEF Forget, smVars, SMTypeOK, IndexedIsRegistered, RegisteredUnderItsID,
                AEntryRegistered, BEntryRegistered
  <2> QED
    BY <1>8, <2>1 DEF Forget, smVars, HeldIsAllocated
<1>9. ASSUME NEW r \in Ref, Collect(r)
      PROVE  IndInv'
  <2>1. /\ heap' = [heap EXCEPT ![r] = NoSession] /\ ~Indexed(r) /\ r \notin held
        /\ UNCHANGED <<sessions, byALCI, byBConnLCI, nextLCI, held>>
    BY <1>9 DEF Collect
  <2>2. heap' \in [Ref -> Session \union {NoSession}]
    BY <2>1 DEF SMTypeOK
  <2>3. \A q \in Ref : q # r => heap'[q] = heap[q]
    BY <2>1 DEF SMTypeOK
  <2>4. SMTypeOK' /\ IndexedIsRegistered'
    BY <2>1, <2>2, <2>3, HeapFrame
  <2> QED
    BY <2>1, <2>3, <2>4 DEF HeldIsAllocated
<1> QED
  BY <1>1, <1>2, <1>3, <1>4, <1>5, <1>6, <1>7, <1>8, <1>9 DEF Other

\* So does a step that changes nothing.
LEMMA StutterIndInv ==
    ASSUME IndInv, UNCHANGED vars
    PROVE  IndInv'
BY DEF vars, smVars, IndInv, TypeOK, HeldIsAllocated, SMTypeOK, IndexedIsRegistered,
       RegisteredUnderItsID, AEntryRegistered, BEntryRegistered

\* The inductive invariant is inductive.
LEMMA StepIndInv ==
    ASSUME IndInv, [Next]_vars
    PROVE  IndInv'
BY AddIndInv, OtherIndInv, StutterIndInv DEF Next

\* A careful caller is a caller.
LEMMA CarefulIsNext == ASSUME CarefulNext PROVE Next
BY DEF CarefulNext, AddUnclaimed, Next

-----------------------------------------------------------------------------
(***************************************************************************)
(* Whatever the callers do with the manager, its variables keep their      *)
(* types; in particular the cursor stays inside the configured range.      *)
(***************************************************************************)
THEOREM TypeCorrect == Spec => []TypeOK
<1>1. IndInv => TypeOK
  BY DEF IndInv
<1> QED
  BY <1>1, InitIndInv, StepIndInv, PTL DEF Spec

(***************************************************************************)
(* Whatever the callers do, stale pointers included, a session found       *)
(* through an index is the registered one and filed under its own keys.    *)
(***************************************************************************)
THEOREM IndexesRegistered == Spec => []IndexedIsRegistered
<1>1. IndInv => IndexedIsRegistered
  BY DEF IndInv
<1> QED
  BY <1>1, InitIndInv, StepIndInv, PTL DEF Spec

(***************************************************************************)
(* A channel of the allocator's own range keeps its session until that     *)
(* session is removed.                                                     *)
(***************************************************************************)
THEOREM NeverRebinds == Spec => AllocatorNeverRebinds
<1> DEFINE Keeps == \A l \in TunRange \ CallLCIs :
                       byALCI[l] # NoSession => byALCI'[l] \in {byALCI[l], NoSession}
<1>1. ASSUME IndInv, [Next]_vars PROVE Keeps
  <2> USE DEF IndInv, TypeOK
  <2>1. ASSUME NEW r \in Ref, NEW gfi \in GFIs, NEW l \in CallLCIs,
               NEW c \in Conn, NEW k \in PeerLCIs, Add(r, gfi, l, c, k)
        PROVE  Keeps
    <3>1. byALCI' = byALCI \/ byALCI' = [byALCI EXCEPT ![l] = r]
      BY <2>1 DEF Add, AddSession, Register, BuiltSession
    <3> QED
      BY <1>1, <3>1, CallerAssumption, TunRangeIsLCI DEF SMTypeOK
  <2>2. ASSUME NEW c \in Conn, NEW gfi \in GFIs, NEW k \in PeerLCIs, NEW r \in Ref,
               Allocate(c, gfi, k, r)
        PROVE  Keeps
    <3>1. PICK a \in TunRange : /\ byALCI[a] = NoSession
                                /\ Register(r, AllocatedSession(c, gfi, k, a))
      BY <1>1, <2>2, AllocateFreshRegisters, CallerAssumption DEF Allocate
    <3>2. byALCI' = [byALCI EXCEPT ![a] = r]
      BY <3>1 DEF Register, AllocatedSession
    <3> QED
      BY <1>1, <3>1, <3>2, TunRangeIsLCI DEF SMTypeOK
  <2>3. ASSUME NEW c \in Conn, NEW k \in PeerLCIs, RemoveByB(c, k)
        PROVE  Keeps
    BY <2>3, TunRangeIsLCI DEF RemoveByB, RemoveByBConnLCI, SMTypeOK
  <2>4. ASSUME NEW r \in Ref, Remove(r)
        PROVE  Keeps
    BY <2>4, TunRangeIsLCI DEF Remove, RemoveSession, Without, SMTypeOK
  <2>5. ASSUME RemoveAll
        PROVE  Keeps
    BY <2>5, TunRangeIsLCI DEF RemoveAll, RemoveAllSessions, NoLCIs
  <2>6. CASE UNCHANGED byALCI
    BY <2>6
  <2> QED
    BY <1>1, <2>1, <2>2, <2>3, <2>4, <2>5, <2>6
       DEF Next, Other, Transition, SetState, LookupA, LookupB, Forget, Collect, vars, smVars
<1>2. IndInv /\ [Next]_vars => [Keeps]_vars
  BY <1>1
<1> QED
  BY <1>2, InitIndInv, StepIndInv, PTL DEF Spec, AllocatorNeverRebinds

-----------------------------------------------------------------------------
(***************************************************************************)
(* Careful callers.                                                        *)
(***************************************************************************)

\* Registering an unused object under unclaimed keys disturbs no session.
LEMMA RegisterReachable ==
    ASSUME SMTypeOK, IndexedIsRegistered, RegisteredIsReachable,
           NEW r \in Ref, NEW s \in Session, heap[r] = NoSession, Register(r, s),
           byALCI[s.LciA] = NoSession, byBConnLCI[s.ConnB][s.LciB] = NoSession
    PROVE  RegisteredIsReachable'
<1>1. IdOf(s) \in ID /\ s.LciA \in LCI /\ s.LciB \in LCI /\ s.ConnB \in Conn
  BY IdOfIsID DEF Session
<1> SUFFICES ASSUME NEW id \in ID, sessions'[id] # NoSession
             PROVE  /\ byALCI'[heap'[sessions'[id]].LciA] = sessions'[id]
                    /\ byBConnLCI'[heap'[sessions'[id]].ConnB][heap'[sessions'[id]].LciB]
                          = sessions'[id]
  BY DEF RegisteredIsReachable
<1>2. CASE id = IdOf(s)
  BY <1>1, <1>2 DEF Register, SMTypeOK
<1>3. CASE id # IdOf(s)
  <2> DEFINE q == sessions[id]
             t == heap[q]
  <2>1. sessions'[id] = q /\ q # NoSession /\ q \in Pointer
    BY <1>3 DEF Register, SMTypeOK
  <2>2. t # NoSession /\ byALCI[t.LciA] = q /\ byBConnLCI[t.ConnB][t.LciB] = q
    BY <2>1 DEF IndexedIsRegistered, RegisteredUnderItsID, RegisteredIsReachable
  <2>3. q \in Ref /\ t \in Session /\ heap'[q] = t
    BY <2>1, <2>2, EntryIsSession DEF Register, SMTypeOK
  <2>4. t.LciA \in LCI /\ t.LciB \in LCI /\ t.ConnB \in Conn
    BY <2>3 DEF Session
  <2>5. t.LciA # s.LciA /\ ~(t.ConnB = s.ConnB /\ t.LciB = s.LciB)
    BY <2>1, <2>2
  <2>6. byALCI'[t.LciA] = byALCI[t.LciA]
    BY <2>4, <2>5 DEF Register, SMTypeOK
  <2>7. byBConnLCI'[t.ConnB][t.LciB] = byBConnLCI[t.ConnB][t.LciB]
    BY <2>4, <2>5 DEF Register, SMTypeOK
  <2> QED
    BY <2>1, <2>2, <2>3, <2>6, <2>7
<1> QED
  BY <1>2, <1>3

\* A removal that empties every entry of the sessions it unregisters and no
\* entry of the others.
LEMMA ShrinkReachable ==
    ASSUME SMTypeOK, IndexedIsRegistered, RegisteredIsReachable, heap' = heap,
           \A id \in ID : sessions'[id] # NoSession =>
              /\ sessions'[id] = sessions[id]
              /\ byALCI'[heap[sessions[id]].LciA] = byALCI[heap[sessions[id]].LciA]
              /\ byBConnLCI'[heap[sessions[id]].ConnB][heap[sessions[id]].LciB]
                    = byBConnLCI[heap[sessions[id]].ConnB][heap[sessions[id]].LciB]
    PROVE  RegisteredIsReachable'
BY DEF RegisteredIsReachable

\* RemoveByBConnLCI deletes no entry of a session other than the one it
\* found: with both keys of every session leading to it, the A entry it
\* deletes unseen is its own.
LEMMA RemoveByBReachable ==
    ASSUME SMTypeOK, IndexedIsRegistered, RegisteredIsReachable,
           NEW c \in Conn, NEW k \in LCI, RemoveByBConnLCI(c, k)
    PROVE  RegisteredIsReachable'
<1> DEFINE r == byBConnLCI[c][k]
           s == heap[r]
<1>1. /\ r \in Ref /\ s \in Session /\ s.ConnB = c /\ s.LciB = k
      /\ sessions[IdOf(s)] = r
  BY EntryIsSession
     DEF RemoveByBConnLCI, SMTypeOK, IndexedIsRegistered, BEntryRegistered
<1>2. IdOf(s) \in ID /\ s.LciA \in LCI
  BY <1>1, IdOfIsID DEF Session
<1>3. byALCI[s.LciA] = r
  BY <1>1, <1>2, NilAssumption DEF RegisteredIsReachable
<1>4. ASSUME NEW id \in ID, sessions'[id] # NoSession
      PROVE  /\ sessions'[id] = sessions[id]
             /\ byALCI'[heap[sessions[id]].LciA] = byALCI[heap[sessions[id]].LciA]
             /\ byBConnLCI'[heap[sessions[id]].ConnB][heap[sessions[id]].LciB]
                   = byBConnLCI[heap[sessions[id]].ConnB][heap[sessions[id]].LciB]
  <2> DEFINE q == sessions[id]
             t == heap[q]
  <2>1. id # IdOf(s) /\ sessions'[id] = q /\ q # NoSession /\ q \in Pointer
    BY <1>2, <1>4 DEF RemoveByBConnLCI, SMTypeOK
  <2>2. /\ t # NoSession /\ IdOf(t) = id
        /\ byALCI[t.LciA] = q /\ byBConnLCI[t.ConnB][t.LciB] = q
    BY <2>1 DEF IndexedIsRegistered, RegisteredUnderItsID, RegisteredIsReachable
  <2>3. t \in Session /\ t.LciA \in LCI /\ t.LciB \in LCI /\ t.ConnB \in Conn
    BY <2>1, <2>2, EntryIsSession DEF Session
  <2>4. q # r
    BY <2>1, <2>2
  <2>5. byALCI'[t.LciA] = byALCI[t.LciA]
    BY <1>2, <1>3, <2>2, <2>3, <2>4 DEF RemoveByBConnLCI, SMTypeOK
  <2>6. byBConnLCI'[t.ConnB][t.LciB] = byBConnLCI[t.ConnB][t.LciB]
    BY <2>2, <2>3, <2>4 DEF RemoveByBConnLCI, SMTypeOK
  <2> QED
    BY <2>1, <2>5, <2>6
<1>5. heap' = heap
  BY DEF RemoveByBConnLCI
<1> QED
  BY <1>4, <1>5, ShrinkReachable

\* RemoveSession deletes no entry of a session other than its argument.
LEMMA RemoveReachable ==
    ASSUME SMTypeOK, IndexedIsRegistered, RegisteredIsReachable,
           NEW r \in Ref, heap[r] # NoSession, RemoveSession(r)
    PROVE  RegisteredIsReachable'
<1> DEFINE s == heap[r]
<1>1. s \in Session /\ IdOf(s) \in ID /\ s.LciA \in LCI /\ s.LciB \in LCI /\ s.ConnB \in Conn
  BY IdOfIsID DEF SMTypeOK, Session
<1>2. ASSUME NEW id \in ID, sessions'[id] # NoSession
      PROVE  /\ sessions'[id] = sessions[id]
             /\ byALCI'[heap[sessions[id]].LciA] = byALCI[heap[sessions[id]].LciA]
             /\ byBConnLCI'[heap[sessions[id]].ConnB][heap[sessions[id]].LciB]
                   = byBConnLCI[heap[sessions[id]].ConnB][heap[sessions[id]].LciB]
  <2> DEFINE q == sessions[id]
             t == heap[q]
  <2>1. sessions'[id] = q /\ q # NoSession /\ q \in Pointer
    BY <1>1, <1>2 DEF RemoveSession, Without, SMTypeOK
  <2>2. /\ t # NoSession /\ IdOf(t) = id
        /\ byALCI[t.LciA] = q /\ byBConnLCI[t.ConnB][t.LciB] = q
    BY <2>1 DEF IndexedIsRegistered, RegisteredUnderItsID, RegisteredIsReachable
  <2>3. t \in Session /\ t.LciA \in LCI /\ t.LciB \in LCI /\ t.ConnB \in Conn
    BY <2>1, <2>2, EntryIsSession DEF Session
  <2>4. q # r
    BY <1>1, <1>2, <2>1, <2>2 DEF RemoveSession, Without, SMTypeOK
  <2>5. byALCI'[t.LciA] = byALCI[t.LciA]
    BY <1>1, <2>2, <2>3, <2>4 DEF RemoveSession, Without, SMTypeOK
  <2>6. byBConnLCI'[t.ConnB][t.LciB] = byBConnLCI[t.ConnB][t.LciB]
    BY <1>1, <2>2, <2>3, <2>4 DEF RemoveSession, Without, SMTypeOK
  <2> QED
    BY <2>1, <2>5, <2>6
<1>3. heap' = heap
  BY DEF RemoveSession
<1> QED
  BY <1>2, <1>3, ShrinkReachable

\* Every step of careful callers keeps every session reachable.
LEMMA CarefulReachable ==
    ASSUME IndInv, RegisteredIsReachable, [CarefulNext]_vars
    PROVE  RegisteredIsReachable'
<1> USE DEF IndInv, TypeOK
<1>1. ASSUME NEW r \in Ref, NEW gfi \in GFIs, NEW l \in CallLCIs,
             NEW c \in Conn, NEW k \in PeerLCIs, AddUnclaimed(r, gfi, l, c, k)
      PROVE  RegisteredIsReachable'
  <2> DEFINE s == BuiltSession(gfi, l, c, k)
  <2>1. s \in Session /\ s.LciA = l /\ s.ConnB = c /\ s.LciB = k
    BY BuiltIsSession, CallerAssumption DEF BuiltSession
  <2>2. heap[r] = NoSession /\ byALCI[l] = NoSession /\ byBConnLCI[c][k] = NoSession
    BY <1>1 DEF AddUnclaimed, Add, AddSession
  <2>3. CASE Register(r, s)
    BY <2>1, <2>2, <2>3, RegisterReachable
  <2>4. CASE ~ValidSession(s)
    <3>1. /\ heap' = [heap EXCEPT ![r] = s]
          /\ UNCHANGED <<sessions, byALCI, byBConnLCI>>
      BY <1>1, <2>4 DEF AddUnclaimed, Add, AddSession
    <3>2. \A id \in ID : sessions[id] # NoSession =>
             sessions[id] \in Ref /\ heap'[sessions[id]] = heap[sessions[id]]
      BY <2>2, <3>1 DEF SMTypeOK, Pointer, IndexedIsRegistered, RegisteredUnderItsID
    <3> QED
      BY <3>1, <3>2 DEF RegisteredIsReachable
  <2> QED
    BY <1>1, <2>3, <2>4 DEF AddUnclaimed, Add, AddSession
<1>2. ASSUME NEW c \in Conn, NEW gfi \in GFIs, NEW k \in PeerLCIs, NEW r \in Ref,
             Allocate(c, gfi, k, r)
      PROVE  RegisteredIsReachable'
  <2>1. PICK a \in TunRange : /\ byALCI[a] = NoSession
                              /\ AllocatedSession(c, gfi, k, a) \in Session
                              /\ Register(r, AllocatedSession(c, gfi, k, a))
    BY <1>2, AllocateFreshRegisters, CallerAssumption DEF Allocate
  <2>2. heap[r] = NoSession /\ byBConnLCI[c][k] = NoSession
    BY <1>2 DEF Allocate, AllocateFresh
  <2>3. LET s == AllocatedSession(c, gfi, k, a)
        IN  s.LciA = a /\ s.ConnB = c /\ s.LciB = k
    BY DEF AllocatedSession
  <2> QED
    BY <2>1, <2>2, <2>3, RegisterReachable
<1>3. ASSUME NEW c \in Conn, NEW k \in PeerLCIs, RemoveByB(c, k)
      PROVE  RegisteredIsReachable'
  BY <1>3, RemoveByBReachable, CallerAssumption DEF RemoveByB
<1>4. ASSUME NEW r \in Ref, Remove(r)
      PROVE  RegisteredIsReachable'
  BY <1>4, RemoveReachable DEF Remove, HeldIsAllocated
<1>5. ASSUME RemoveAll
      PROVE  RegisteredIsReachable'
  BY <1>5 DEF RemoveAll, RemoveAllSessions, NoIDs, RegisteredIsReachable
<1>6. ASSUME NEW r \in Ref, NEW st \in NewStates, Transition(r, st)
      PROVE  RegisteredIsReachable'
  <2>1. /\ heap[r] \in Session /\ heap' = [heap EXCEPT ![r].State = st]
        /\ UNCHANGED <<sessions, byALCI, byBConnLCI>>
    BY <1>6 DEF Transition, SetState, HeldIsAllocated, SMTypeOK
  <2>2. \A q \in Ref : /\ heap'[q].LciA = heap[q].LciA
                       /\ heap'[q].ConnB = heap[q].ConnB
                       /\ heap'[q].LciB = heap[q].LciB
    BY <2>1 DEF SMTypeOK, Session
  <2> QED
    BY <2>1, <2>2 DEF RegisteredIsReachable, SMTypeOK, Pointer
<1>7. ASSUME NEW r \in Ref, Collect(r)
      PROVE  RegisteredIsReachable'
  <2>1. /\ heap' = [heap EXCEPT ![r] = NoSession] /\ ~Indexed(r)
        /\ UNCHANGED <<sessions, byALCI, byBConnLCI>>
    BY <1>7 DEF Collect
  <2>2. \A id \in ID : sessions[id] # NoSession =>
           sessions[id] \in Ref /\ heap'[sessions[id]] = heap[sessions[id]]
    BY <2>1 DEF SMTypeOK, Pointer, Indexed
  <2> QED
    BY <2>1, <2>2 DEF RegisteredIsReachable
<1>8. CASE UNCHANGED smVars
  BY <1>8 DEF smVars, RegisteredIsReachable
<1> QED
  BY <1>1, <1>2, <1>3, <1>4, <1>5, <1>6, <1>7, <1>8
     DEF CarefulNext, Other, LookupA, LookupB, Forget, vars

(***************************************************************************)
(* When callers of AddSession use unclaimed keys, both keys of a           *)
(* registered session lead to it, for ever.                                *)
(***************************************************************************)
THEOREM SessionsReachable == CarefulSpec => []RegisteredIsReachable
<1>1. Init => RegisteredIsReachable
  BY DEF Init, SMInit, NoIDs, RegisteredIsReachable
<1>2. IndInv /\ [CarefulNext]_vars => IndInv'
  BY CarefulIsNext, StepIndInv
<1>3. IndInv /\ RegisteredIsReachable /\ [CarefulNext]_vars => RegisteredIsReachable'
  BY CarefulReachable
<1> QED
  BY <1>1, <1>2, <1>3, InitIndInv, PTL DEF CarefulSpec

-----------------------------------------------------------------------------
(***************************************************************************)
(* Refinement: the A index, read through the sessions it holds, is the     *)
(* table of circuits.                                                      *)
(***************************************************************************)
circuits == [l \in LCI |-> CircuitAt(l)]

\* The entry of a channel in use is a circuit, and leads back to its session.
LEMMA CircuitOfEntry ==
    ASSUME SMTypeOK, IndexedIsRegistered, RegisteredIsReachable,
           NEW l \in LCI, byALCI[l] # NoSession
    PROVE  /\ circuits[l] = <<heap[byALCI[l]].ConnB, heap[byALCI[l]].LciB>>
           /\ circuits[l] # NoSession
           /\ heap[byALCI[l]].ConnB \in Conn /\ heap[byALCI[l]].LciB \in LCI
           /\ byBConnLCI[heap[byALCI[l]].ConnB][heap[byALCI[l]].LciB] = byALCI[l]
<1> DEFINE r == byALCI[l]
<1>1. r \in Pointer /\ heap[r] # NoSession /\ sessions[IdOf(heap[r])] = r
  BY DEF SMTypeOK, IndexedIsRegistered, AEntryRegistered
<1>2. heap[r] \in Session
  BY <1>1, EntryIsSession
<1>3. heap[r].ConnB \in Conn /\ heap[r].LciB \in LCI /\ IdOf(heap[r]) \in ID
  BY <1>2, IdOfIsID DEF Session
<1>4. circuits[l] = <<heap[r].ConnB, heap[r].LciB>>
  BY DEF circuits, CircuitAt
<1>5. circuits[l] # NoSession
  BY <1>3, <1>4, NilAssumption
<1>6. byBConnLCI[heap[r].ConnB][heap[r].LciB] = r
  BY <1>1, <1>3 DEF RegisteredIsReachable
<1> QED
  BY <1>3, <1>4, <1>5, <1>6

\* Steps that leave the A index and the keys of its sessions alone stutter.
LEMMA CircuitsFrame ==
    ASSUME SMTypeOK, byALCI' = byALCI,
           \A l \in LCI : byALCI[l] # NoSession =>
              /\ heap'[byALCI[l]].ConnB = heap[byALCI[l]].ConnB
              /\ heap'[byALCI[l]].LciB = heap[byALCI[l]].LciB
    PROVE  circuits' = circuits
BY DEF circuits, CircuitAt

\* Registering under unclaimed keys binds a free channel to a new circuit.
LEMMA RegisterBinds ==
    ASSUME SMTypeOK, IndexedIsRegistered, RegisteredIsReachable,
           NEW r \in Ref, NEW s \in Session, heap[r] = NoSession, Register(r, s),
           byALCI[s.LciA] = NoSession, byBConnLCI[s.ConnB][s.LciB] = NoSession
    PROVE  Table!Bind(s.LciA, <<s.ConnB, s.LciB>>)
<1>1. s.LciA \in LCI /\ s.LciB \in LCI /\ s.ConnB \in Conn
  BY DEF Session
<1>2. circuits[s.LciA] = NoSession
  BY <1>1 DEF circuits, CircuitAt
<1>3. \A m \in LCI : circuits[m] # <<s.ConnB, s.LciB>>
  <2> SUFFICES ASSUME NEW m \in LCI, circuits[m] = <<s.ConnB, s.LciB>>
               PROVE  FALSE
    OBVIOUS
  <2>1. byALCI[m] # NoSession
    BY <1>1, NilAssumption DEF circuits, CircuitAt
  <2> QED
    BY <2>1, CircuitOfEntry
<1>4. circuits' = [circuits EXCEPT ![s.LciA] = <<s.ConnB, s.LciB>>]
  <2>1. \A m \in LCI : m # s.LciA => CircuitAt(m)' = CircuitAt(m)
    <3> SUFFICES ASSUME NEW m \in LCI, m # s.LciA
                 PROVE  CircuitAt(m)' = CircuitAt(m)
      OBVIOUS
    <3>1. byALCI'[m] = byALCI[m]
      BY DEF Register, SMTypeOK
    <3>2. byALCI[m] # NoSession => heap'[byALCI[m]] = heap[byALCI[m]]
      BY DEF Register, SMTypeOK, IndexedIsRegistered, AEntryRegistered
    <3> QED
      BY <3>1, <3>2 DEF CircuitAt
  <2>2. byALCI'[s.LciA] = r /\ heap'[r] = s /\ r # NoSession
    BY <1>1, NilAssumption DEF Register, SMTypeOK
  <2>3. CircuitAt(s.LciA)' = <<s.ConnB, s.LciB>>
    BY <2>2 DEF CircuitAt
  <2> QED
    BY <1>1, <2>1, <2>3 DEF circuits
<1> QED
  BY <1>2, <1>3, <1>4 DEF Table!Bind, circuits

\* Emptying one entry of the A index releases its channel.
LEMMA EmptyReleases ==
    ASSUME SMTypeOK, IndexedIsRegistered, RegisteredIsReachable, heap' = heap,
           NEW l \in LCI, byALCI[l] # NoSession, byALCI' = [byALCI EXCEPT ![l] = NoSession]
    PROVE  Table!Release(l)
<1>1. circuits[l] # NoSession
  BY CircuitOfEntry
<1>2. circuits' = [circuits EXCEPT ![l] = NoSession]
  BY DEF circuits, CircuitAt, SMTypeOK
<1> QED
  BY <1>1, <1>2 DEF Table!Release, circuits

\* Every step of careful callers is a step, or a stutter, of the table.
LEMMA StepImplements ==
    ASSUME IndInv, RegisteredIsReachable, [CarefulNext]_vars
    PROVE  [Table!TableNext]_circuits
<1> USE DEF IndInv, TypeOK
<1>1. ASSUME NEW r \in Ref, NEW gfi \in GFIs, NEW l \in CallLCIs,
             NEW c \in Conn, NEW k \in PeerLCIs, AddUnclaimed(r, gfi, l, c, k)
      PROVE  [Table!TableNext]_circuits
  <2> DEFINE s == BuiltSession(gfi, l, c, k)
  <2>1. /\ s \in Session /\ s.LciA = l /\ s.ConnB = c /\ s.LciB = k
        /\ l \in LCI /\ k \in LCI
    BY BuiltIsSession, CallerAssumption DEF BuiltSession
  <2>2. heap[r] = NoSession /\ byALCI[l] = NoSession /\ byBConnLCI[c][k] = NoSession
    BY <1>1 DEF AddUnclaimed, Add, AddSession
  <2>3. CASE Register(r, s)
    <3>1. Table!Bind(l, <<c, k>>)
      BY <2>1, <2>2, <2>3, RegisterBinds
    <3> QED
      BY <2>1, <3>1 DEF Table!TableNext
  <2>4. CASE ~ValidSession(s)
    <3>1. heap' = [heap EXCEPT ![r] = s] /\ byALCI' = byALCI
      BY <1>1, <2>4 DEF AddUnclaimed, Add, AddSession
    <3>2. \A m \in LCI : byALCI[m] # NoSession => heap'[byALCI[m]] = heap[byALCI[m]]
      BY <2>2, <3>1 DEF SMTypeOK, IndexedIsRegistered, AEntryRegistered
    <3> QED
      BY <3>1, <3>2, CircuitsFrame
  <2> QED
    BY <1>1, <2>3, <2>4 DEF AddUnclaimed, Add, AddSession
<1>2. ASSUME NEW c \in Conn, NEW gfi \in GFIs, NEW k \in PeerLCIs, NEW r \in Ref,
             Allocate(c, gfi, k, r)
      PROVE  [Table!TableNext]_circuits
  <2>1. PICK a \in TunRange : /\ byALCI[a] = NoSession
                              /\ AllocatedSession(c, gfi, k, a) \in Session
                              /\ Register(r, AllocatedSession(c, gfi, k, a))
    BY <1>2, AllocateFreshRegisters, CallerAssumption DEF Allocate
  <2>2. heap[r] = NoSession /\ byBConnLCI[c][k] = NoSession /\ k \in LCI /\ a \in LCI
    BY <1>2, CallerAssumption, TunRangeIsLCI DEF Allocate, AllocateFresh
  <2>3. LET s == AllocatedSession(c, gfi, k, a)
        IN  s.LciA = a /\ s.ConnB = c /\ s.LciB = k
    BY DEF AllocatedSession
  <2>4. Table!Bind(a, <<c, k>>)
    BY <2>1, <2>2, <2>3, RegisterBinds
  <2> QED
    BY <2>2, <2>4 DEF Table!TableNext
<1>3. ASSUME NEW c \in Conn, NEW k \in PeerLCIs, RemoveByB(c, k)
      PROVE  [Table!TableNext]_circuits
  <2> DEFINE r == byBConnLCI[c][k]
             s == heap[r]
  <2>1. r # NoSession /\ k \in LCI /\ heap' = heap
        /\ byALCI' = [byALCI EXCEPT ![s.LciA] = NoSession]
    BY <1>3, CallerAssumption DEF RemoveByB, RemoveByBConnLCI
  <2>2. r \in Pointer /\ s # NoSession /\ sessions[IdOf(s)] = r
    BY <2>1 DEF SMTypeOK, IndexedIsRegistered, BEntryRegistered
  <2>3. s \in Session /\ s.LciA \in LCI /\ IdOf(s) \in ID
    BY <2>1, <2>2, EntryIsSession, IdOfIsID DEF Session
  <2>4. byALCI[s.LciA] = r
    BY <2>1, <2>2, <2>3 DEF RegisteredIsReachable
  <2>5. Table!Release(s.LciA)
    BY <2>1, <2>3, <2>4, EmptyReleases
  <2> QED
    BY <2>3, <2>5 DEF Table!TableNext
<1>4. ASSUME NEW r \in Ref, Remove(r)
      PROVE  [Table!TableNext]_circuits
  <2> DEFINE s == heap[r]
  <2>1. s \in Session /\ s.LciA \in LCI /\ heap' = heap
    BY <1>4 DEF Remove, RemoveSession, HeldIsAllocated, SMTypeOK, Session
  <2>2. CASE byALCI[s.LciA] = r
    <3>1. byALCI' = [byALCI EXCEPT ![s.LciA] = NoSession]
      BY <1>4, <2>2 DEF Remove, RemoveSession, Without
    <3>2. Table!Release(s.LciA)
      BY <2>1, <2>2, <3>1, EmptyReleases, NilAssumption
    <3> QED
      BY <2>1, <3>2 DEF Table!TableNext
  <2>3. CASE byALCI[s.LciA] # r
    <3>1. byALCI' = byALCI
      BY <1>4, <2>1, <2>3 DEF Remove, RemoveSession, Without, SMTypeOK
    <3> QED
      BY <2>1, <3>1, CircuitsFrame
  <2> QED
    BY <2>2, <2>3
<1>5. ASSUME RemoveAll
      PROVE  [Table!TableNext]_circuits
  <2>1. circuits' = [l \in LCI |-> NoSession]
    BY <1>5 DEF RemoveAll, RemoveAllSessions, NoLCIs, circuits, CircuitAt
  <2> QED
    BY <2>1 DEF Table!TableNext, Table!ReleaseAll, circuits
<1>6. ASSUME NEW r \in Ref, NEW st \in NewStates, Transition(r, st)
      PROVE  [Table!TableNext]_circuits
  <2>1. heap[r] \in Session /\ heap' = [heap EXCEPT ![r].State = st] /\ byALCI' = byALCI
    BY <1>6 DEF Transition, SetState, HeldIsAllocated, SMTypeOK
  <2>2. \A q \in Ref : heap'[q].ConnB = heap[q].ConnB /\ heap'[q].LciB = heap[q].LciB
    BY <2>1 DEF SMTypeOK, Session
  <2> QED
    BY <2>1, <2>2, CircuitsFrame DEF SMTypeOK, Pointer
<1>7. ASSUME NEW r \in Ref, Collect(r)
      PROVE  [Table!TableNext]_circuits
  <2>1. heap' = [heap EXCEPT ![r] = NoSession] /\ ~Indexed(r) /\ byALCI' = byALCI
    BY <1>7 DEF Collect
  <2>2. \A m \in LCI : byALCI[m] # NoSession => heap'[byALCI[m]] = heap[byALCI[m]]
    BY <2>1 DEF Indexed, SMTypeOK
  <2> QED
    BY <2>1, <2>2, CircuitsFrame
<1>8. CASE UNCHANGED smVars
  BY <1>8, CircuitsFrame DEF smVars
<1> QED
  BY <1>1, <1>2, <1>3, <1>4, <1>5, <1>6, <1>7, <1>8
     DEF CarefulNext, Other, LookupA, LookupB, Forget, vars

(***************************************************************************)
(* The session manager implements the one-to-one table of circuits, for    *)
(* callers that add sessions under unclaimed keys.                         *)
(***************************************************************************)
THEOREM Refinement == CarefulSpec => ImplementsTable
<1>1. Init => Table!TableInit
  BY DEF Init, SMInit, NoLCIs, CircuitAt, Table!TableInit
<1>2. IndInv /\ RegisteredIsReachable /\ [CarefulNext]_vars => [Table!TableNext]_circuits
  BY StepImplements
<1>3. CarefulSpec => []IndInv
  <2>1. IndInv /\ [CarefulNext]_vars => IndInv'
    BY CarefulIsNext, StepIndInv
  <2> QED
    BY <2>1, InitIndInv, PTL DEF CarefulSpec
<1> QED
  BY <1>1, <1>2, <1>3, SessionsReachable, PTL
     DEF CarefulSpec, ImplementsTable, Table!TableSpec, circuits

-----------------------------------------------------------------------------
(***************************************************************************)
(* Round robin.  After an allocation the cursor stands right behind the    *)
(* channel it took, and only the next allocation moves it.  From there the *)
(* probes reach that channel last.                                         *)
(***************************************************************************)
After(l) == tunLciStart + ((l - tunLciStart + 1) % rangeSize)
CursorPastLast == /\ lastAllocated \subseteq TunRange
                  /\ \A l \in lastAllocated : nextLCI = After(l)

ReuseInv == IndInv /\ CursorPastLast

\* Probing n channels from the one behind l on meets l at the last probe, and
\* every other channel before.
LEMMA ProbeOrder ==
    ASSUME NEW n \in Nat, n > 0, NEW l \in 0..(n - 1)
    PROVE  /\ \A i \in 0..(n - 1) : (((l + 1) % n) + i) % n = l => i = n - 1
           /\ \A m \in 0..(n - 1) : m # l =>
                 \E j \in 0..(n - 1) : j < n - 1 /\ (((l + 1) % n) + j) % n = m
<1>1. \A x \in 0..(n - 1) : x % n = x
  OBVIOUS
<1>2. \A x \in n..(n + n - 1) : x % n = x - n
  OBVIOUS
<1>3. CASE l + 1 < n
  <2>1. (l + 1) % n = l + 1
    BY <1>1, <1>3
  <2>2. ASSUME NEW i \in 0..(n - 1), ((l + 1) + i) % n = l PROVE i = n - 1
    <3>1. CASE (l + 1) + i \in 0..(n - 1)
      BY <1>1, <2>2, <3>1
    <3>2. CASE (l + 1) + i \in n..(n + n - 1)
      BY <1>2, <2>2, <3>2
    <3> QED BY <1>3, <3>1, <3>2
  <2>3. ASSUME NEW m \in 0..(n - 1), m > l
        PROVE  \E j \in 0..(n - 1) : j < n - 1 /\ ((l + 1) + j) % n = m
    <3>1. m - (l + 1) \in 0..(n - 1) /\ m - (l + 1) < n - 1 /\ (l + 1) + (m - (l + 1)) = m
      BY <2>3
    <3> QED BY <1>1, <3>1
  <2>4. ASSUME NEW m \in 0..(n - 1), m < l
        PROVE  \E j \in 0..(n - 1) : j < n - 1 /\ ((l + 1) + j) % n = m
    <3> DEFINE j == (m - (l + 1)) + n
    <3>1. /\ j \in 0..(n - 1) /\ j < n - 1 /\ (l + 1) + j = m + n
          /\ m + n \in n..(n + n - 1) /\ (m + n) - n = m
      BY <2>4
    <3>2. ((l + 1) + j) % n = m
      BY <1>2, <3>1
    <3> QED BY <3>1, <3>2
  <2>5. ASSUME NEW m \in 0..(n - 1), m # l PROVE m > l \/ m < l
    BY <2>5
  <2>6. \A m \in 0..(n - 1) : m # l =>
           \E j \in 0..(n - 1) : j < n - 1 /\ ((l + 1) + j) % n = m
    BY <2>3, <2>4, <2>5
  <2> QED BY <2>1, <2>2, <2>6
<1>4. CASE l + 1 = n
  <2>1. (l + 1) % n = 0
    <3>1. l + 1 \in n..(n + n - 1) /\ (l + 1) - n = 0
      BY <1>4
    <3> QED BY <1>2, <3>1
  <2>2. \A i \in 0..(n - 1) : (0 + i) % n = i
    BY <1>1
  <2> QED BY <1>4, <2>1, <2>2
<1> QED BY <1>3, <1>4

\* An allocation that meets the channel before the cursor has found every
\* other channel in use.
LEMMA LastProbe ==
    ASSUME SMTypeOK, NEW l \in TunRange, nextLCI = After(l),
           NEW i, FirstFree(i), Probe(i) = l
    PROVE  OnlyChoice(l)
<1> DEFINE n == rangeSize
           s == tunLciStart
           k == l - s
<1>1. n \in Nat /\ n > 0 /\ s \in Nat /\ k \in 0..(n - 1)
  BY RangeFacts DEF TunRange, rangeSize
<1>2. \A j \in Nat : Probe(j) = s + ((((k + 1) % n) + j) % n)
  <2>1. (k + 1) % n \in 0..(n - 1)
    BY <1>1
  <2>2. nextLCI - s = (k + 1) % n
    BY <1>1, <2>1 DEF After
  <2> QED BY <2>2 DEF Probe
<1>3. i \in 0..(n - 1)
  BY DEF FirstFree, FreeProbe
<1> HIDE DEF n, s
<1>4. (((k + 1) % n) + i) % n = k
  <2>1. s + ((((k + 1) % n) + i) % n) = l /\ l \in Int
    BY <1>1, <1>2, <1>3 DEF TunRange
  <2>2. (((k + 1) % n) + i) \in Nat
    BY <1>1, <1>3
  <2>3. (((k + 1) % n) + i) % n \in Int
    BY <1>1, <2>2
  <2> QED BY <1>1, <2>1, <2>3
<1>5. /\ i = n - 1
      /\ \A m \in 0..(n - 1) : m # k =>
            \E j \in 0..(n - 1) : j < n - 1 /\ (((k + 1) % n) + j) % n = m
  <2> HIDE DEF k
  <2> QED BY <1>1, <1>3, <1>4, ProbeOrder
<1>6. ASSUME NEW m \in TunRange, m # l PROVE byALCI[m] # NoSession
  <2>1. m - s \in 0..(n - 1) /\ m - s # k /\ s + (m - s) = m
    BY <1>1, <1>6, RangeFacts DEF TunRange, rangeSize, s, n
  <2>2. PICK j \in 0..(n - 1) : j < n - 1 /\ (((k + 1) % n) + j) % n = m - s
    BY <1>5, <2>1
  <2>3. Probe(j) = m
    BY <1>2, <2>1, <2>2
  <2>4. j \in 0..(i - 1) /\ j \in 0..(rangeSize - 1)
    BY <1>1, <1>5, <2>2 DEF n
  <2> QED BY <2>3, <2>4 DEF FirstFree, FreeProbe
<1> QED BY <1>6 DEF OnlyChoice

\* What the history variable sees of a step that allocates nothing.
LEMMA NothingAllocated ==
    ASSUME IndInv, CarefulNext,
           ~ \E c \in Conn, gfi \in GFIs, k \in PeerLCIs, r \in Ref : Allocate(c, gfi, k, r)
    PROVE  AllocatedNow = {} /\ nextLCI' = nextLCI
<1> DEFINE Quiet == AllocatedNow = {} /\ nextLCI' = nextLCI
<1> USE DEF IndInv, TypeOK
<1>1. ASSUME NEW r \in Ref, NEW gfi \in GFIs, NEW l \in CallLCIs, NEW c \in Conn,
             NEW k \in PeerLCIs, AddUnclaimed(r, gfi, l, c, k)
      PROVE  Quiet
  <2> DEFINE b == BuiltSession(gfi, l, c, k)
  <2>1. /\ heap' = [heap EXCEPT ![r] = b] /\ nextLCI' = nextLCI
        /\ \/ byALCI' = byALCI
           \/ byALCI' = [byALCI EXCEPT ![b.LciA] = r]
    BY <1>1 DEF AddUnclaimed, Add, AddSession, Register
  <2>2. b.State # StateP1 /\ heap'[r] = b
    BY <2>1 DEF BuiltSession, StateP1, StateP2, SMTypeOK
  <2>3. ASSUME NEW m \in LCI, byALCI[m] = NoSession, byALCI'[m] # NoSession
        PROVE  byALCI'[m] = r
    BY <2>1, <2>3 DEF SMTypeOK
  <2> QED BY <2>1, <2>2, <2>3 DEF AllocatedNow
<1>2. ASSUME \A m \in LCI : byALCI'[m] \in {byALCI[m], NoSession}, nextLCI' = nextLCI
      PROVE  Quiet
  BY <1>2 DEF AllocatedNow
<1>3. ASSUME UNCHANGED <<byALCI, nextLCI>> PROVE Quiet
  BY <1>2, <1>3
<1>4. ASSUME NEW c \in Conn, NEW k \in PeerLCIs, RemoveByB(c, k) PROVE Quiet
  BY <1>2, <1>4 DEF RemoveByB, RemoveByBConnLCI, SMTypeOK
<1>5. ASSUME NEW r \in Ref, Remove(r) PROVE Quiet
  BY <1>2, <1>5 DEF Remove, RemoveSession, Without, SMTypeOK
<1>6. ASSUME RemoveAll PROVE Quiet
  BY <1>2, <1>6 DEF RemoveAll, RemoveAllSessions, NoLCIs
<1> QED
  BY <1>1, <1>3, <1>4, <1>5, <1>6
     DEF CarefulNext, Other, Transition, SetState, LookupA, LookupB, Forget, Collect, smVars

\* What it sees of one that does: the channel of the first free probe, with
\* the cursor moved behind it.
LEMMA OneAllocated ==
    ASSUME IndInv, NEW c \in Conn, NEW gfi \in GFIs, NEW k \in PeerLCIs, NEW r \in Ref,
           Allocate(c, gfi, k, r)
    PROVE  \E i : /\ FirstFree(i) /\ Probe(i) \in TunRange
                  /\ AllocatedNow = {Probe(i)} /\ nextLCI' = After(Probe(i))
<1> USE DEF IndInv, TypeOK
<1>1. PICK i \in 0..(rangeSize - 1) :
          /\ FirstFree(i)
          /\ Register(r, AllocatedSession(c, gfi, k, Probe(i)))
          /\ nextLCI' = After(Probe(i))
  BY DEF Allocate, AllocateFresh, After
<1> DEFINE a == Probe(i)
           s == AllocatedSession(c, gfi, k, a)
<1>2. a \in TunRange /\ a \in LCI /\ byALCI[a] = NoSession
  BY <1>1, ProbeInRange, TunRangeIsLCI DEF FirstFree, FreeProbe, SMTypeOK
<1>3. heap' = [heap EXCEPT ![r] = s] /\ byALCI' = [byALCI EXCEPT ![a] = r]
  BY <1>1 DEF Register, AllocatedSession
<1>4. s.State = StateP1
  BY DEF AllocatedSession
<1> HIDE DEF a, s
<1>5. byALCI'[a] = r /\ heap'[r] = s /\ \A m \in LCI : m # a => byALCI'[m] = byALCI[m]
  BY <1>2, <1>3 DEF SMTypeOK
<1>6. r # NoSession
  BY NilAssumption
<1>7. AllocatedNow = {a}
  BY <1>2, <1>4, <1>5, <1>6 DEF AllocatedNow
<1> QED BY <1>1, <1>2, <1>7 DEF a

\* Every step keeps the cursor behind the last allocation, and allocates that
\* channel again only when it must.
LEMMA ReuseStep ==
    ASSUME ReuseInv, ReuseNext
    PROVE  CursorPastLast' /\ \A l \in AllocatedNow : l \in lastAllocated => OnlyChoice(l)
<1> USE DEF ReuseInv
<1>1. CASE \E c \in Conn, gfi \in GFIs, k \in PeerLCIs, r \in Ref : Allocate(c, gfi, k, r)
  <2>1. PICK i : /\ FirstFree(i) /\ Probe(i) \in TunRange
                 /\ AllocatedNow = {Probe(i)} /\ nextLCI' = After(Probe(i))
    BY <1>1, OneAllocated
  <2>2. lastAllocated' = {Probe(i)}
    BY <2>1 DEF ReuseNext
  <2>3. CursorPastLast'
    BY <2>1, <2>2 DEF CursorPastLast, After
  <2>4. ASSUME Probe(i) \in lastAllocated PROVE OnlyChoice(Probe(i))
    <3>1. nextLCI = After(Probe(i)) /\ SMTypeOK
      BY <2>4 DEF CursorPastLast, IndInv, TypeOK
    <3> QED BY <2>1, <3>1, LastProbe
  <2> QED BY <2>1, <2>3, <2>4
<1>2. CASE ~ \E c \in Conn, gfi \in GFIs, k \in PeerLCIs, r \in Ref : Allocate(c, gfi, k, r)
  <2>1. AllocatedNow = {} /\ nextLCI' = nextLCI /\ lastAllocated' = lastAllocated
    BY <1>2, NothingAllocated DEF ReuseNext
  <2> QED BY <2>1 DEF CursorPastLast, After
<1> QED BY <1>1, <1>2

(***************************************************************************)
(* Two allocations in a row yield the same channel only when every other   *)
(* channel of the range is in use, whatever careful callers do in between. *)
(***************************************************************************)
THEOREM ReusesLast == ReuseSpec => RoundRobin
<1> DEFINE Fair == \A l \in AllocatedNow : l \in lastAllocated => OnlyChoice(l)
<1>1. ReuseInit => ReuseInv
  BY InitIndInv DEF ReuseInit, ReuseInv, CursorPastLast
<1>2. ReuseInv /\ [ReuseNext]_reuseVars => ReuseInv'
  <2>1. ASSUME ReuseInv, ReuseNext PROVE ReuseInv'
    <3>1. IndInv'
      BY <2>1, CarefulIsNext, StepIndInv DEF ReuseInv, ReuseNext
    <3> QED BY <2>1, <3>1, ReuseStep DEF ReuseInv
  <2>2. ASSUME ReuseInv, UNCHANGED reuseVars PROVE ReuseInv'
    <3>1. IndInv'
      BY <2>2, StutterIndInv DEF ReuseInv, reuseVars
    <3>2. CursorPastLast'
      BY <2>2 DEF ReuseInv, reuseVars, vars, smVars, CursorPastLast, After
    <3> QED BY <3>1, <3>2 DEF ReuseInv
  <2> QED BY <2>1, <2>2
<1>3. ReuseInv /\ [ReuseNext]_reuseVars => [Fair]_reuseVars
  BY ReuseStep
<1> QED
  BY <1>1, <1>2, <1>3, PTL DEF ReuseSpec, RoundRobin
=============================================================================
