------------------------ MODULE SessionManagerProofs ------------------------
(***************************************************************************)
(* What each operation of the session manager does to the three maps, for  *)
(* any sets of references, connections and channels.  The proofs about the *)
(* manager's callers cite these lemmas, one per operation.                 *)
(***************************************************************************)
EXTENDS SessionManager, TLAPS

(***************************************************************************)
(* The range the constructor keeps is a nonempty part of the valid         *)
(* channels, whatever range it is given.                                   *)
(***************************************************************************)
LEMMA RangeFacts ==
    /\ tunLciStart \in Nat /\ tunLciEnd \in Nat
    /\ LCIMin <= tunLciStart /\ tunLciStart <= tunLciEnd /\ tunLciEnd <= LCIMax
    /\ rangeSize \in Nat /\ rangeSize > 0
BY LCIAssumption DEF tunLciStart, tunLciEnd, clampedStart, clampedEnd, rangeSize

(***************************************************************************)
(* Wrapping any offset around the range stays inside the range: the uint16 *)
(* arithmetic of the allocator and of its cursor.                          *)
(***************************************************************************)
LEMMA WrapInRange ==
    ASSUME NEW n \in Nat
    PROVE  tunLciStart + (n % rangeSize) \in TunRange
<1>1. n % rangeSize \in 0..(rangeSize - 1)
  BY RangeFacts
<1> QED
  BY <1>1, RangeFacts DEF TunRange, rangeSize

\* The clamped range holds valid channels only.
LEMMA TunRangeIsLCI == TunRange \subseteq LCI
BY RangeFacts, LCIAssumption DEF TunRange, LCI

\* Every probe of the allocator lies in the range: the sum wraps.
LEMMA ProbeInRange ==
    ASSUME nextLCI \in TunRange, NEW i \in Nat
    PROVE  Probe(i) \in TunRange
<1>1. nextLCI - tunLciStart + i \in Nat
  BY RangeFacts DEF TunRange
<1> QED
  BY <1>1, WrapInRange DEF Probe

\* What the allocator stores is a Session.
LEMMA AllocatedIsSession ==
    ASSUME NEW c \in Conn, NEW gfi \in GFIs, NEW l \in LCI, NEW a \in LCI
    PROVE  AllocatedSession(c, gfi, l, a) \in Session
BY GFIAssumption DEF AllocatedSession, NegotiateGFI, Session, State, StateP1

\* A session has an identity.
LEMMA IdOfIsID == ASSUME NEW s \in Session PROVE IdOf(s) \in ID
BY DEF IdOf, Session, ID


-----------------------------------------------------------------------------
(***************************************************************************)
(* Registering an unused object keeps the types and files it correctly:    *)
(* the entries it overwrites are all entries of one identity, or leave the *)
(* displaced session registered.                                           *)
(***************************************************************************)
LEMMA RegisterSound ==
    ASSUME SMTypeOK, IndexedIsRegistered,
           NEW r \in Ref, NEW s \in Session,
           heap[r] = NoSession, Register(r, s), nextLCI' \in TunRange
    PROVE  SMTypeOK' /\ IndexedIsRegistered'
<1>1. IdOf(s) \in ID /\ s.LciA \in LCI /\ s.LciB \in LCI /\ s.ConnB \in Conn
  BY IdOfIsID DEF Session
<1>2. SMTypeOK'
  BY <1>1 DEF SMTypeOK, Register, Pointer
<1>3. heap'[r] = s /\ s # NoSession /\ \A q \in Ref : q # r => heap'[q] = heap[q]
  BY NilAssumption DEF SMTypeOK, Register
<1>4. \A q \in Pointer : q # NoSession /\ heap[q] # NoSession => q # r /\ heap'[q] = heap[q]
  BY <1>3 DEF Pointer
<1>5. RegisteredUnderItsID'
  BY <1>1, <1>3, <1>4
     DEF SMTypeOK, Register, IndexedIsRegistered, RegisteredUnderItsID
<1>6. AEntryRegistered'
  <2> SUFFICES ASSUME NEW l \in LCI, byALCI'[l] # NoSession
               PROVE  /\ heap'[byALCI'[l]] # NoSession
                      /\ heap'[byALCI'[l]].LciA = l
                      /\ sessions'[IdOf(heap'[byALCI'[l]])] = byALCI'[l]
    BY DEF AEntryRegistered, IdOf
  <2>1. CASE l = s.LciA
    BY <2>1, <1>1, <1>3 DEF SMTypeOK, Register
  <2>2. CASE l # s.LciA
    <3> DEFINE q == byALCI[l]
    <3>1. byALCI'[l] = q /\ q \in Pointer
      BY <2>2 DEF SMTypeOK, Register
    <3>2. heap[q] # NoSession /\ heap[q].LciA = l /\ sessions[IdOf(heap[q])] = q
      BY <3>1 DEF IndexedIsRegistered, AEntryRegistered
    <3>3. heap[q] \in Session /\ IdOf(heap[q]) \in ID
      BY <3>1, <3>2, IdOfIsID DEF SMTypeOK, Pointer
    <3>4. IdOf(heap[q]) # IdOf(s)
      BY <3>2, <2>2 DEF IdOf
    <3>5. sessions'[IdOf(heap[q])] = sessions[IdOf(heap[q])]
      BY <3>3, <3>4 DEF SMTypeOK, Register
    <3> QED
      BY <3>1, <3>2, <3>5, <1>4
  <2> QED
    BY <2>1, <2>2
<1>7. BEntryRegistered'
  <2> SUFFICES ASSUME NEW c \in Conn, NEW l \in LCI, byBConnLCI'[c][l] # NoSession
               PROVE  /\ heap'[byBConnLCI'[c][l]] # NoSession
                      /\ heap'[byBConnLCI'[c][l]].ConnB = c
                      /\ heap'[byBConnLCI'[c][l]].LciB = l
                      /\ sessions'[IdOf(heap'[byBConnLCI'[c][l]])] = byBConnLCI'[c][l]
    BY DEF BEntryRegistered, IdOf
  <2>1. CASE c = s.ConnB /\ l = s.LciB
    BY <2>1, <1>1, <1>3 DEF SMTypeOK, Register
  <2>2. CASE ~(c = s.ConnB /\ l = s.LciB)
    <3> DEFINE q == byBConnLCI[c][l]
    <3>1. byBConnLCI'[c][l] = q /\ q \in Pointer
      BY <2>2 DEF SMTypeOK, Register
    <3>2. /\ heap[q] # NoSession /\ heap[q].ConnB = c /\ heap[q].LciB = l
          /\ sessions[IdOf(heap[q])] = q
      BY <3>1 DEF IndexedIsRegistered, BEntryRegistered
    <3>3. heap[q] \in Session /\ IdOf(heap[q]) \in ID
      BY <3>1, <3>2, IdOfIsID DEF SMTypeOK, Pointer
    <3>4. IdOf(heap[q]) # IdOf(s)
      BY <3>2, <2>2 DEF IdOf
    <3>5. sessions'[IdOf(heap[q])] = sessions[IdOf(heap[q])]
      BY <3>3, <3>4 DEF SMTypeOK, Register
    <3> QED
      BY <3>1, <3>2, <3>5, <1>4
  <2> QED
    BY <2>1, <2>2
<1> QED
  BY <1>2, <1>5, <1>6, <1>7 DEF IndexedIsRegistered

(***************************************************************************)
(* A removal only empties entries.  It keeps the maps consistent when every *)
(* channel entry it leaves behind still has its identity entry.            *)
(***************************************************************************)
LEMMA ShrinkSound ==
    ASSUME SMTypeOK, IndexedIsRegistered, heap' = heap,
           \A id \in ID : sessions'[id] \in {sessions[id], NoSession},
           \A l \in LCI : byALCI'[l] \in {byALCI[l], NoSession},
           \A c \in Conn, l \in LCI :
               byBConnLCI'[c][l] \in {byBConnLCI[c][l], NoSession},
           \A l \in LCI : byALCI'[l] # NoSession =>
               sessions'[IdOf(heap[byALCI[l]])] = sessions[IdOf(heap[byALCI[l]])],
           \A c \in Conn, l \in LCI : byBConnLCI'[c][l] # NoSession =>
               sessions'[IdOf(heap[byBConnLCI[c][l]])]
                   = sessions[IdOf(heap[byBConnLCI[c][l]])]
    PROVE  IndexedIsRegistered'
<1>1. RegisteredUnderItsID'
  BY DEF IndexedIsRegistered, RegisteredUnderItsID, IdOf
<1>2. AEntryRegistered'
  BY DEF IndexedIsRegistered, AEntryRegistered, IdOf
<1>3. BEntryRegistered'
  BY DEF IndexedIsRegistered, BEntryRegistered, IdOf
<1> QED
  BY <1>1, <1>2, <1>3 DEF IndexedIsRegistered

\* An object some entry refers to is a Session.
LEMMA EntryIsSession ==
    ASSUME SMTypeOK, NEW r \in Pointer, r # NoSession, heap[r] # NoSession
    PROVE  r \in Ref /\ heap[r] \in Session
BY DEF SMTypeOK, Pointer

\* RemoveByBConnLCI: the session of (c, k) loses all its entries, and no
\* entry of another session lies under its identity.
LEMMA RemoveByBConnLCISound ==
    ASSUME SMTypeOK, IndexedIsRegistered, NEW c \in Conn, NEW k \in LCI,
           RemoveByBConnLCI(c, k)
    PROVE  SMTypeOK' /\ IndexedIsRegistered'
<1> DEFINE r == byBConnLCI[c][k]
           s == heap[r]
<1>1. /\ r \in Ref /\ s \in Session /\ s.ConnB = c /\ s.LciB = k
      /\ sessions[IdOf(s)] = r
  BY EntryIsSession
     DEF RemoveByBConnLCI, SMTypeOK, IndexedIsRegistered, BEntryRegistered
<1>2. IdOf(s) \in ID /\ s.LciA \in LCI
  BY <1>1, IdOfIsID DEF Session
<1>3. SMTypeOK'
  BY <1>2 DEF SMTypeOK, RemoveByBConnLCI, Pointer
<1>4. \A l \in LCI : byALCI'[l] # NoSession =>
         sessions'[IdOf(heap[byALCI[l]])] = sessions[IdOf(heap[byALCI[l]])]
  <2> SUFFICES ASSUME NEW l \in LCI, byALCI'[l] # NoSession
               PROVE  sessions'[IdOf(heap[byALCI[l]])] = sessions[IdOf(heap[byALCI[l]])]
    OBVIOUS
  <2>1. l # s.LciA /\ byALCI[l] # NoSession
    BY <1>2 DEF RemoveByBConnLCI, SMTypeOK
  <2>2. heap[byALCI[l]].LciA = l
    BY <2>1 DEF IndexedIsRegistered, AEntryRegistered
  <2>3. IdOf(heap[byALCI[l]]) # IdOf(s)
    BY <2>1, <2>2 DEF IdOf
  <2>4. IdOf(heap[byALCI[l]]) \in ID
    BY <2>1, EntryIsSession, IdOfIsID DEF SMTypeOK, IndexedIsRegistered, AEntryRegistered
  <2> QED
    BY <2>3, <2>4 DEF RemoveByBConnLCI, SMTypeOK
<1>5. \A d \in Conn, l \in LCI : byBConnLCI'[d][l] # NoSession =>
         sessions'[IdOf(heap[byBConnLCI[d][l]])] = sessions[IdOf(heap[byBConnLCI[d][l]])]
  <2> SUFFICES ASSUME NEW d \in Conn, NEW l \in LCI, byBConnLCI'[d][l] # NoSession
               PROVE  sessions'[IdOf(heap[byBConnLCI[d][l]])]
                         = sessions[IdOf(heap[byBConnLCI[d][l]])]
    OBVIOUS
  <2>1. ~(d = c /\ l = k) /\ byBConnLCI[d][l] # NoSession
    BY DEF RemoveByBConnLCI, SMTypeOK
  <2>2. heap[byBConnLCI[d][l]].ConnB = d /\ heap[byBConnLCI[d][l]].LciB = l
    BY <2>1 DEF IndexedIsRegistered, BEntryRegistered
  <2>3. IdOf(heap[byBConnLCI[d][l]]) # IdOf(s)
    BY <1>1, <2>1, <2>2 DEF IdOf
  <2>4. IdOf(heap[byBConnLCI[d][l]]) \in ID
    BY <2>1, EntryIsSession, IdOfIsID DEF SMTypeOK, IndexedIsRegistered, BEntryRegistered
  <2> QED
    BY <2>3, <2>4 DEF RemoveByBConnLCI, SMTypeOK
<1>6. /\ heap' = heap
      /\ \A id \in ID : sessions'[id] \in {sessions[id], NoSession}
      /\ \A l \in LCI : byALCI'[l] \in {byALCI[l], NoSession}
      /\ \A d \in Conn, l \in LCI :
            byBConnLCI'[d][l] \in {byBConnLCI[d][l], NoSession}
  BY <1>2 DEF RemoveByBConnLCI, SMTypeOK
<1> QED
  BY <1>3, <1>4, <1>5, <1>6, ShrinkSound

\* RemoveSession: only entries of r are emptied, and an entry that is not
\* r's has an identity entry that is not r's either.
LEMMA RemoveSessionSound ==
    ASSUME SMTypeOK, IndexedIsRegistered, NEW r \in Ref, heap[r] # NoSession,
           RemoveSession(r)
    PROVE  SMTypeOK' /\ IndexedIsRegistered'
<1> DEFINE s == heap[r]
<1>1. s \in Session /\ IdOf(s) \in ID /\ s.LciA \in LCI /\ s.LciB \in LCI /\ s.ConnB \in Conn
  BY IdOfIsID DEF SMTypeOK, Session
<1>2. \A p \in Pointer : Without(p, r) \in {p, NoSession} /\ Without(p, r) \in Pointer
  BY DEF Without, Pointer
<1>3. SMTypeOK'
  BY <1>1, <1>2 DEF SMTypeOK, RemoveSession
<1>4. /\ heap' = heap
      /\ \A id \in ID : sessions'[id] = sessions[id] \/ (sessions[id] = r /\ sessions'[id] = NoSession)
      /\ \A l \in LCI : byALCI'[l] = byALCI[l] \/ (byALCI[l] = r /\ byALCI'[l] = NoSession)
      /\ \A d \in Conn, l \in LCI : \/ byBConnLCI'[d][l] = byBConnLCI[d][l]
                                    \/ (byBConnLCI[d][l] = r /\ byBConnLCI'[d][l] = NoSession)
  <2>1. heap' = heap
    BY DEF RemoveSession
  <2>5. \A p \in Pointer : Without(p, r) = p \/ (p = r /\ Without(p, r) = NoSession)
    BY DEF Without
  <2>2. \A id \in ID : sessions'[id] = sessions[id] \/ (sessions[id] = r /\ sessions'[id] = NoSession)
    BY <1>1, <2>5 DEF RemoveSession, SMTypeOK
  <2>3. \A l \in LCI : byALCI'[l] = byALCI[l] \/ (byALCI[l] = r /\ byALCI'[l] = NoSession)
    BY <1>1, <2>5 DEF RemoveSession, SMTypeOK
  <2>4. \A d \in Conn, l \in LCI : \/ byBConnLCI'[d][l] = byBConnLCI[d][l]
                                  \/ (byBConnLCI[d][l] = r /\ byBConnLCI'[d][l] = NoSession)
    BY <1>1, <2>5 DEF RemoveSession, SMTypeOK
  <2> QED
    BY <2>1, <2>2, <2>3, <2>4
<1>5. \A l \in LCI : byALCI'[l] # NoSession =>
         sessions'[IdOf(heap[byALCI[l]])] = sessions[IdOf(heap[byALCI[l]])]
  <2> SUFFICES ASSUME NEW l \in LCI, byALCI'[l] # NoSession
               PROVE  sessions'[IdOf(heap[byALCI[l]])] = sessions[IdOf(heap[byALCI[l]])]
    OBVIOUS
  <2>1. byALCI[l] # NoSession
    BY <1>4
  <2>2. sessions[IdOf(heap[byALCI[l]])] = byALCI[l] /\ heap[byALCI[l]].LciA = l
    BY <2>1 DEF IndexedIsRegistered, AEntryRegistered
  <2>3. byALCI[l] # r
    BY <2>2, <1>1, NilAssumption DEF RemoveSession, SMTypeOK, Without
  <2>4. IdOf(heap[byALCI[l]]) \in ID
    BY <2>1, EntryIsSession, IdOfIsID DEF SMTypeOK, IndexedIsRegistered, AEntryRegistered
  <2> QED
    BY <2>2, <2>3, <2>4, <1>4
<1>6. \A d \in Conn, l \in LCI : byBConnLCI'[d][l] # NoSession =>
         sessions'[IdOf(heap[byBConnLCI[d][l]])] = sessions[IdOf(heap[byBConnLCI[d][l]])]
  <2> SUFFICES ASSUME NEW d \in Conn, NEW l \in LCI, byBConnLCI'[d][l] # NoSession
               PROVE  sessions'[IdOf(heap[byBConnLCI[d][l]])]
                         = sessions[IdOf(heap[byBConnLCI[d][l]])]
    OBVIOUS
  <2>1. byBConnLCI[d][l] # NoSession
    BY <1>4
  <2>2. /\ sessions[IdOf(heap[byBConnLCI[d][l]])] = byBConnLCI[d][l]
        /\ heap[byBConnLCI[d][l]].ConnB = d /\ heap[byBConnLCI[d][l]].LciB = l
    BY <2>1 DEF IndexedIsRegistered, BEntryRegistered
  <2>3. byBConnLCI[d][l] # r
    BY <2>2, <1>1, NilAssumption DEF RemoveSession, SMTypeOK, Without
  <2>4. IdOf(heap[byBConnLCI[d][l]]) \in ID
    BY <2>1, EntryIsSession, IdOfIsID DEF SMTypeOK, IndexedIsRegistered, BEntryRegistered
  <2> QED
    BY <2>2, <2>3, <2>4, <1>4
<1> QED
  BY <1>3, <1>4, <1>5, <1>6, ShrinkSound

\* RemoveAllSessions leaves three empty maps.
LEMMA RemoveAllSessionsSound ==
    ASSUME SMTypeOK, RemoveAllSessions
    PROVE  SMTypeOK' /\ IndexedIsRegistered'
BY DEF SMTypeOK, RemoveAllSessions, NoIDs, NoLCIs, NoConns, Pointer,
       IndexedIsRegistered, RegisteredUnderItsID, AEntryRegistered, BEntryRegistered

\* SetState keeps every key of the session.
LEMMA SetStateSound ==
    ASSUME SMTypeOK, IndexedIsRegistered, NEW r \in Ref, heap[r] # NoSession,
           NEW st \in State, SetState(r, st)
    PROVE  SMTypeOK' /\ IndexedIsRegistered'
<1>1. heap[r] \in Session
  BY DEF SMTypeOK
<1>2. heap'[r] \in Session /\ heap'[r] # NoSession /\ IdOf(heap'[r]) = IdOf(heap[r])
  BY <1>1, NilAssumption DEF SMTypeOK, SetState, Session, IdOf
<1>3. /\ heap'[r].LciA = heap[r].LciA /\ heap'[r].LciB = heap[r].LciB
      /\ heap'[r].ConnB = heap[r].ConnB
  BY <1>1 DEF SMTypeOK, SetState, Session
<1>4. \A q \in Ref : q # r => heap'[q] = heap[q]
  BY DEF SMTypeOK, SetState
<1>5. SMTypeOK'
  BY <1>2, <1>4 DEF SMTypeOK, SetState
<1>6. \A q \in Pointer : q # NoSession => q \in Ref
  BY DEF Pointer
<1>7. RegisteredUnderItsID'
  BY <1>2, <1>4, <1>6 DEF SMTypeOK, SetState, IndexedIsRegistered, RegisteredUnderItsID
<1>8. AEntryRegistered'
  BY <1>2, <1>3, <1>4, <1>6 DEF SMTypeOK, SetState, IndexedIsRegistered, AEntryRegistered
<1>9. BEntryRegistered'
  BY <1>2, <1>3, <1>4, <1>6 DEF SMTypeOK, SetState, IndexedIsRegistered, BEntryRegistered
<1> QED
  BY <1>5, <1>7, <1>8, <1>9 DEF IndexedIsRegistered

\* Objects no map refers to may change, be built or be collected.
LEMMA HeapFrame ==
    ASSUME SMTypeOK, IndexedIsRegistered,
           heap' \in [Ref -> Session \union {NoSession}],
           UNCHANGED <<sessions, byALCI, byBConnLCI, nextLCI>>,
           \A q \in Ref : Indexed(q) => heap'[q] = heap[q]
    PROVE  SMTypeOK' /\ IndexedIsRegistered'
<1>1. SMTypeOK'
  BY DEF SMTypeOK
<1>2. \A q \in Pointer : q # NoSession => q \in Ref
  BY DEF Pointer
<1>3. RegisteredUnderItsID'
  BY <1>2 DEF SMTypeOK, IndexedIsRegistered, RegisteredUnderItsID, Indexed
<1>4. AEntryRegistered'
  BY <1>2 DEF SMTypeOK, IndexedIsRegistered, AEntryRegistered, Indexed
<1>5. BEntryRegistered'
  BY <1>2 DEF SMTypeOK, IndexedIsRegistered, BEntryRegistered, Indexed
<1> QED
  BY <1>1, <1>3, <1>4, <1>5 DEF IndexedIsRegistered

\* No map refers to an unused object.
LEMMA UnusedNotIndexed ==
    ASSUME SMTypeOK, IndexedIsRegistered, NEW r \in Ref, heap[r] = NoSession
    PROVE  ~Indexed(r)
BY NilAssumption DEF Indexed, IndexedIsRegistered, RegisteredUnderItsID, AEntryRegistered,
       BEntryRegistered

\* AddSession keeps the maps consistent, also when it refuses the session.
LEMMA AddSessionSound ==
    ASSUME SMTypeOK, IndexedIsRegistered, NEW r \in Ref, NEW s \in Session,
           AddSession(r, s)
    PROVE  SMTypeOK' /\ IndexedIsRegistered'
<1>1. CASE ValidSession(s) /\ Register(r, s)
  <2>1. nextLCI' \in TunRange
    BY DEF AddSession, SMTypeOK
  <2> QED
    BY <1>1, <2>1, RegisterSound DEF AddSession
<1>2. CASE ~ValidSession(s)
  <2>1. /\ heap' = [heap EXCEPT ![r] = s] /\ heap[r] = NoSession
        /\ UNCHANGED <<sessions, byALCI, byBConnLCI, nextLCI>>
    BY <1>2 DEF AddSession
  <2>2. heap' \in [Ref -> Session \union {NoSession}]
    BY <2>1 DEF SMTypeOK
  <2>3. \A q \in Ref : Indexed(q) => heap'[q] = heap[q]
    BY <2>1, UnusedNotIndexed DEF SMTypeOK
  <2> QED
    BY <2>1, <2>2, <2>3, HeapFrame
<1> QED
  BY <1>1, <1>2 DEF AddSession

\* AllocateAndAddTunSession registers a well-formed session on a channel of
\* the range that the A index does not hold.
LEMMA AllocateFreshRegisters ==
    ASSUME SMTypeOK, NEW c \in Conn, NEW gfi \in GFIs, NEW k \in LCI, NEW r \in Ref,
           AllocateFresh(c, gfi, k, r)
    PROVE  \E a \in TunRange :
              /\ byALCI[a] = NoSession
              /\ AllocatedSession(c, gfi, k, a) \in Session
              /\ Register(r, AllocatedSession(c, gfi, k, a))
              /\ nextLCI' \in TunRange
<1>1. PICK i \in 0..(rangeSize - 1) :
          /\ FirstFree(i)
          /\ Register(r, AllocatedSession(c, gfi, k, Probe(i)))
          /\ nextLCI' = tunLciStart + ((Probe(i) - tunLciStart + 1) % rangeSize)
  BY DEF AllocateFresh
<1>2. Probe(i) \in TunRange /\ byALCI[Probe(i)] = NoSession
  BY <1>1, ProbeInRange DEF FirstFree, FreeProbe, SMTypeOK
<1>3. nextLCI' \in TunRange
  <2>1. Probe(i) - tunLciStart + 1 \in Nat
    BY <1>2, RangeFacts DEF TunRange
  <2> QED
    BY <1>1, <2>1, WrapInRange
<1>4. AllocatedSession(c, gfi, k, Probe(i)) \in Session
  BY <1>2, AllocatedIsSession, TunRangeIsLCI
<1> QED
  BY <1>1, <1>2, <1>3, <1>4

\* AllocateAndAddTunSession keeps the maps consistent, and its cursor in range.
LEMMA AllocateFreshSound ==
    ASSUME SMTypeOK, IndexedIsRegistered,
           NEW c \in Conn, NEW gfi \in GFIs, NEW k \in LCI, NEW r \in Ref,
           AllocateFresh(c, gfi, k, r)
    PROVE  SMTypeOK' /\ IndexedIsRegistered'
<1>1. heap[r] = NoSession
  BY DEF AllocateFresh
<1> QED
  BY <1>1, AllocateFreshRegisters, RegisterSound

\* The constructor's state.
LEMMA InitSound ==
    ASSUME SMInit
    PROVE  SMTypeOK /\ IndexedIsRegistered
<1>1. tunLciStart \in TunRange
  BY RangeFacts DEF TunRange
<1> QED
  BY <1>1 DEF SMInit, NoIDs, NoLCIs, NoConns, SMTypeOK, Pointer, IndexedIsRegistered,
       RegisteredUnderItsID, AEntryRegistered, BEntryRegistered
=============================================================================
