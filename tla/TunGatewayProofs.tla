-------------------------- MODULE TunGatewayProofs --------------------------
(***************************************************************************)
(* tun-gateway, first by itself: for any numbers of connections, channels  *)
(* and Session objects, the maps of the session manager are filed          *)
(* correctly, a connection finds all of its sessions, an allocated channel *)
(* belongs to one session, and the handler of a connection leaves none     *)
(* behind.                                                                 *)
(*                                                                         *)
(* The inductive invariant has two halves.  TableInv is about the session  *)
(* manager.  GoroutinesFit says of every goroutine what its label promises *)
(* about the objects it holds and about the sessions of its connection:    *)
(* nobody else adds a session of a connection, and what cleanupConn still  *)
(* has to visit is all there is.                                           *)
(*                                                                         *)
(* Then tun-gateway composed with the link layer of the kernel (TunLink):  *)
(* the composition is an execution of tun-gateway, whatever the kernel     *)
(* does; and as long as calls and terminations do not overtake the frames  *)
(* of the link layer, both sides go through the same phases.               *)
(***************************************************************************)
EXTENDS TunLink, SessionManagerProofs, SequenceTheorems

TableInv == SMTypeOK /\ IndexedIsRegistered /\ FoundByItsConn /\ AllocatedChannelsUnique

Locals == [type : PacketType \union {"none"}, lci : LCI, tunLCI : LCI,
           s : Pointer, todo : SUBSET Ref]

\* Labels at which a goroutine is about to use the session it holds.
HoldingLabel == {"remove", "clearTun", "drop", "evict", "relay"}
\* Labels of a call of the kernel, until its session is added.
KernelCallLabel == {"evict", "route", "check", "dial", "add"}
\* Labels of a connection's goroutine before its first session and after its last.
SessionlessLabel == {"idle", "check", "dial", "add", "done"}
\* The loop of cleanupConn.
CleaningLabel == {"next", "clearTun", "drop"}

(***************************************************************************)
(* What goroutine g at label with these locals may rely on, when the heap  *)
(* is h and the index by connection b: the objects it holds exist; a call  *)
(* of the kernel is on one of the kernel's channels; before its first and  *)
(* after its last session the index has none of its connection; and in     *)
(* between, cleanupConn has all of them on its list.                       *)
(***************************************************************************)
Fits(h, b, g, label, locals) ==
    /\ locals.s # NoSession => h[locals.s] # NoSession
    /\ \A r \in locals.todo : h[r] # NoSession
    /\ label \in HoldingLabel => locals.s # NoSession
    /\ label = "next" => locals.s = NoSession
    /\ label \in KernelCallLabel => locals.lci \in KernelLCIs
    /\ g \in Conn /\ label \in SessionlessLabel => \A l \in LCI : b[g][l] = NoSession
    /\ g \in Conn /\ label \in CleaningLabel =>
          \A l \in LCI : b[g][l] \in locals.todo \union {locals.s, NoSession}

GoroutinesFit == \A g \in Goroutine : Fits(heap, byBConnLCI, g, pc[g], loc[g])

IndInv == TypeOK /\ TableInv /\ GoroutinesFit

-----------------------------------------------------------------------------
(***************************************************************************)
(* The table under each operation of the session manager.                  *)
(***************************************************************************)

\* A registered session, with its keys.
LEMMA RegisteredFacts ==
    ASSUME SMTypeOK, IndexedIsRegistered, NEW id \in ID, sessions[id] # NoSession
    PROVE  LET q == sessions[id]  t == heap[q] IN
           /\ q \in Ref /\ t \in Session /\ t # NoSession /\ IdOf(t) = id
           /\ t.LciA \in LCI /\ t.LciB \in LCI /\ t.ConnB \in Conn
<1>1. sessions[id] \in Ref
  BY DEF SMTypeOK, Pointer
<1>2. heap[sessions[id]] # NoSession /\ IdOf(heap[sessions[id]]) = id
  BY DEF IndexedIsRegistered, RegisteredUnderItsID
<1>3. heap[sessions[id]] \in Session
  BY <1>1, <1>2 DEF SMTypeOK
<1> QED
  BY <1>1, <1>2, <1>3 DEF Session

\* Registering under an unused connection key, and on a channel that is free
\* or the kernel's.
LEMMA RegisterTable ==
    ASSUME TableInv, NEW r \in Ref, NEW s \in Session,
           heap[r] = NoSession, Register(r, s), nextLCI' \in TunRange,
           byBConnLCI[s.ConnB][s.LciB] = NoSession,
           byALCI[s.LciA] = NoSession \/ s.LciA \in KernelLCIs
    PROVE  TableInv'
<1> USE DEF TableInv
<1>1. SMTypeOK' /\ IndexedIsRegistered'
  BY RegisterSound
<1>2. IdOf(s) \in ID /\ s.LciA \in LCI /\ s.LciB \in LCI /\ s.ConnB \in Conn
  BY IdOfIsID DEF Session
<1>3. ASSUME NEW id \in ID, sessions'[id] # NoSession, id # IdOf(s)
      PROVE  LET q == sessions[id]  t == heap[q] IN
             /\ q # NoSession /\ sessions'[id] = q /\ heap'[q] = t
             /\ byBConnLCI[t.ConnB][t.LciB] = q
             /\ byBConnLCI'[t.ConnB][t.LciB] = q
             /\ t.LciA \in LCI /\ (t.LciA # s.LciA => byALCI'[t.LciA] = byALCI[t.LciA])
  <2> DEFINE q == sessions[id]
             t == heap[q]
  <2>1. sessions'[id] = q /\ q # NoSession
    BY <1>3, <1>2 DEF Register, SMTypeOK
  <2>2. /\ q \in Ref /\ t \in Session /\ t # NoSession
        /\ t.LciA \in LCI /\ t.LciB \in LCI /\ t.ConnB \in Conn
    BY <2>1, RegisteredFacts
  <2>3. heap'[q] = t
    BY <2>2 DEF Register, SMTypeOK
  <2>4. byBConnLCI[t.ConnB][t.LciB] = q
    BY <2>1 DEF FoundByItsConn
  <2>5. ~(t.ConnB = s.ConnB /\ t.LciB = s.LciB)
    BY <2>1, <2>4
  <2>6. byBConnLCI'[t.ConnB][t.LciB] = q
    BY <2>2, <2>4, <2>5, <1>2 DEF Register, SMTypeOK
  <2>7. t.LciA # s.LciA => byALCI'[t.LciA] = byALCI[t.LciA]
    BY <2>2, <1>2 DEF Register, SMTypeOK
  <2> QED
    BY <2>1, <2>2, <2>3, <2>4, <2>6, <2>7
<1>4. /\ sessions'[IdOf(s)] = r /\ heap'[r] = s /\ byALCI'[s.LciA] = r
      /\ byBConnLCI'[s.ConnB][s.LciB] = r
  BY <1>2 DEF Register, SMTypeOK
<1>5. FoundByItsConn'
  BY <1>3, <1>4 DEF FoundByItsConn
<1>6. AllocatedChannelsUnique'
  <2> SUFFICES ASSUME NEW id \in ID, sessions'[id] # NoSession,
                      heap'[sessions'[id]].LciA \in TunRange \ KernelLCIs
               PROVE  byALCI'[heap'[sessions'[id]].LciA] = sessions'[id]
    BY DEF AllocatedChannelsUnique
  <2>1. CASE id = IdOf(s)
    BY <2>1, <1>4
  <2>2. CASE id # IdOf(s)
    <3> DEFINE q == sessions[id]
    <3>1. q # NoSession /\ sessions'[id] = q /\ heap'[q] = heap[q]
      BY <2>2, <1>3
    <3>2. byALCI[heap[q].LciA] = q
      BY <3>1 DEF AllocatedChannelsUnique
    <3>3. heap[q].LciA # s.LciA
      BY <3>1, <3>2
    <3> QED
      BY <2>2, <1>3, <3>1, <3>2, <3>3
  <2> QED
    BY <2>1, <2>2
<1> QED
  BY <1>1, <1>5, <1>6

(***************************************************************************)
(* A removal that leaves every session it keeps registered reachable as it *)
(* was.                                                                    *)
(***************************************************************************)
LEMMA ShrinkTable ==
    ASSUME TableInv, SMTypeOK', IndexedIsRegistered', heap' = heap,
           \A id \in ID : sessions'[id] # NoSession =>
              LET q == sessions[id]  t == heap[q] IN
              /\ sessions'[id] = q
              /\ byALCI[t.LciA] = q => byALCI'[t.LciA] = q
              /\ byBConnLCI[t.ConnB][t.LciB] = q => byBConnLCI'[t.ConnB][t.LciB] = q
    PROVE  TableInv'
<1>1. FoundByItsConn'
  BY DEF TableInv, FoundByItsConn
<1>2. AllocatedChannelsUnique'
  BY DEF TableInv, AllocatedChannelsUnique
<1> QED
  BY <1>1, <1>2 DEF TableInv

\* No object is given up, and connection d gets no session it did not have.
HeapKept == \A q \in Ref : heap[q] # NoSession => heap'[q] # NoSession
OnlyShrinks(d) == \A l \in LCI : byBConnLCI'[d][l] \in {byBConnLCI[d][l], NoSession}
Shrinks == HeapKept /\ \A d \in Conn : OnlyShrinks(d)

\* RemoveByBConnLCI deletes the A entry unseen: on an allocated channel it is
\* the removed session's own.
LEMMA RemoveByBConnLCITable ==
    ASSUME TableInv, NEW c \in Conn, NEW k \in LCI, RemoveByBConnLCI(c, k)
    PROVE  TableInv' /\ Shrinks
<1> USE DEF TableInv
<1> DEFINE r == byBConnLCI[c][k]
           s == heap[r]
<1>1. /\ r \in Ref /\ s \in Session /\ s.ConnB = c /\ s.LciB = k
      /\ sessions[IdOf(s)] = r
  BY EntryIsSession
     DEF RemoveByBConnLCI, SMTypeOK, IndexedIsRegistered, BEntryRegistered
<1>2. IdOf(s) \in ID /\ s.LciA \in LCI
  BY <1>1, IdOfIsID DEF Session
<1>3. SMTypeOK' /\ IndexedIsRegistered' /\ heap' = heap
  BY RemoveByBConnLCISound DEF RemoveByBConnLCI
<1>4. ASSUME NEW id \in ID, sessions'[id] # NoSession
      PROVE  LET q == sessions[id]  t == heap[q] IN
             /\ sessions'[id] = q /\ q # NoSession
             /\ byBConnLCI[t.ConnB][t.LciB] = q /\ byBConnLCI'[t.ConnB][t.LciB] = q
             /\ t.LciA \in LCI /\ (t.LciA # s.LciA => byALCI'[t.LciA] = byALCI[t.LciA])
             /\ t.LciA = s.LciA => t.LciA \notin TunRange \ KernelLCIs
  <2> DEFINE q == sessions[id]
             t == heap[q]
  <2>1. id # IdOf(s) /\ sessions'[id] = q /\ q # NoSession
    BY <1>2, <1>4 DEF RemoveByBConnLCI, SMTypeOK
  <2>2. /\ q \in Ref /\ t \in Session /\ IdOf(t) = id
        /\ t.LciA \in LCI /\ t.LciB \in LCI /\ t.ConnB \in Conn
    BY <2>1, RegisteredFacts
  <2>3. byBConnLCI[t.ConnB][t.LciB] = q
    BY <2>1 DEF FoundByItsConn
  <2>4. q # r
    BY <2>1, <2>2
  <2>5. byBConnLCI'[t.ConnB][t.LciB] = q
    BY <2>2, <2>3, <2>4 DEF RemoveByBConnLCI, SMTypeOK
  <2>6. t.LciA # s.LciA => byALCI'[t.LciA] = byALCI[t.LciA]
    BY <1>2, <2>2 DEF RemoveByBConnLCI, SMTypeOK
  <2>7. t.LciA = s.LciA => t.LciA \notin TunRange \ KernelLCIs
    <3> SUFFICES ASSUME t.LciA = s.LciA, t.LciA \in TunRange \ KernelLCIs
                 PROVE  FALSE
      OBVIOUS
    <3>1. byALCI[t.LciA] = q
      BY <2>1 DEF AllocatedChannelsUnique
    <3>2. byALCI[s.LciA] = r
      BY <1>1, <1>2, NilAssumption DEF AllocatedChannelsUnique
    <3> QED
      BY <3>1, <3>2, <2>4
  <2> QED
    BY <2>1, <2>2, <2>3, <2>5, <2>6, <2>7
<1>5. FoundByItsConn'
  BY <1>3, <1>4 DEF FoundByItsConn
<1>6. AllocatedChannelsUnique'
  <2> SUFFICES ASSUME NEW id \in ID, sessions'[id] # NoSession,
                      heap[sessions'[id]].LciA \in TunRange \ KernelLCIs
               PROVE  byALCI'[heap[sessions'[id]].LciA] = sessions'[id]
    BY <1>3 DEF AllocatedChannelsUnique
  <2>1. sessions'[id] = sessions[id] /\ sessions[id] # NoSession
    BY <1>4
  <2>2. byALCI'[heap[sessions[id]].LciA] = byALCI[heap[sessions[id]].LciA]
    BY <1>4, <2>1
  <2> QED
    BY <2>1, <2>2 DEF AllocatedChannelsUnique
<1>7. Shrinks
  BY <1>3 DEF Shrinks, HeapKept, OnlyShrinks, RemoveByBConnLCI, SMTypeOK
<1> QED
  BY <1>3, <1>5, <1>6, <1>7

\* RemoveSession deletes no entry of another session, and afterwards the
\* index by connection has no entry of its argument.
LEMMA RemoveSessionTable ==
    ASSUME TableInv, NEW r \in Ref, heap[r] # NoSession, RemoveSession(r)
    PROVE  /\ TableInv' /\ Shrinks
           /\ \A d \in Conn, l \in LCI : byBConnLCI'[d][l] # r
<1> USE DEF TableInv
<1> DEFINE s == heap[r]
<1>1. s \in Session /\ IdOf(s) \in ID /\ s.LciA \in LCI /\ s.LciB \in LCI /\ s.ConnB \in Conn
  BY IdOfIsID DEF SMTypeOK, Session
<1>2. SMTypeOK' /\ IndexedIsRegistered' /\ heap' = heap
  BY RemoveSessionSound DEF RemoveSession
<1>3. ASSUME NEW id \in ID, sessions'[id] # NoSession
      PROVE  LET q == sessions[id]  t == heap[q] IN
             /\ sessions'[id] = q
             /\ byALCI[t.LciA] = q => byALCI'[t.LciA] = q
             /\ byBConnLCI[t.ConnB][t.LciB] = q => byBConnLCI'[t.ConnB][t.LciB] = q
  <2> DEFINE q == sessions[id]
             t == heap[q]
  <2>1. sessions'[id] = q /\ q # NoSession
    BY <1>1, <1>3 DEF RemoveSession, Without, SMTypeOK
  <2>2. /\ IdOf(t) = id /\ t.LciA \in LCI /\ t.LciB \in LCI /\ t.ConnB \in Conn
    BY <2>1, RegisteredFacts
  <2>3. q # r
    BY <1>1, <1>3, <2>1, <2>2 DEF RemoveSession, Without, SMTypeOK
  <2>4. byALCI[t.LciA] = q => byALCI'[t.LciA] = q
    BY <1>1, <2>2, <2>3 DEF RemoveSession, Without, SMTypeOK
  <2>5. byBConnLCI[t.ConnB][t.LciB] = q => byBConnLCI'[t.ConnB][t.LciB] = q
    BY <1>1, <2>2, <2>3 DEF RemoveSession, Without, SMTypeOK
  <2> QED
    BY <2>1, <2>4, <2>5
<1>4. Shrinks
  <2>1. HeapKept
    BY <1>2 DEF HeapKept
  <2>2. ASSUME NEW d \in Conn, NEW l \in LCI
        PROVE  byBConnLCI'[d][l] \in {byBConnLCI[d][l], NoSession}
    BY <1>1 DEF RemoveSession, Without, SMTypeOK
  <2> QED
    BY <2>1, <2>2 DEF Shrinks, OnlyShrinks
<1>5. ASSUME NEW d \in Conn, NEW l \in LCI, byBConnLCI'[d][l] = r
      PROVE  FALSE
  <2>1. r # NoSession
    BY NilAssumption
  <2>2. byBConnLCI[d][l] = r
    BY <1>4, <1>5, <2>1 DEF Shrinks, OnlyShrinks
  <2>3. s.ConnB = d /\ s.LciB = l
    BY <2>1, <2>2 DEF IndexedIsRegistered, BEntryRegistered
  <2> QED
    BY <1>5, <2>1, <2>2, <2>3, <1>1 DEF RemoveSession, Without, SMTypeOK
<1> QED
  BY <1>2, <1>3, <1>4, <1>5, ShrinkTable

\* RemoveAllSessions.
LEMMA RemoveAllSessionsTable ==
    ASSUME TableInv, RemoveAllSessions
    PROVE  TableInv' /\ Shrinks
<1>1. SMTypeOK' /\ IndexedIsRegistered'
  BY RemoveAllSessionsSound DEF TableInv
<1>2. FoundByItsConn' /\ AllocatedChannelsUnique'
  BY DEF RemoveAllSessions, NoIDs, FoundByItsConn, AllocatedChannelsUnique
<1>3. Shrinks
  BY DEF RemoveAllSessions, NoConns, NoLCIs, Shrinks, HeapKept, OnlyShrinks
<1> QED
  BY <1>1, <1>2, <1>3 DEF TableInv

(***************************************************************************)
(* Objects may change their state, be built or be collected, as long as    *)
(* the registered ones keep their keys.                                    *)
(***************************************************************************)
LEMMA KeysTable ==
    ASSUME TableInv, SMTypeOK', IndexedIsRegistered',
           UNCHANGED <<sessions, byALCI, byBConnLCI>>,
           \A id \in ID : sessions[id] # NoSession => IdOf(heap'[sessions[id]]) = IdOf(heap[sessions[id]])
    PROVE  TableInv' /\ \A d \in Conn : OnlyShrinks(d)
<1>1. ASSUME NEW id \in ID, sessions[id] # NoSession
      PROVE  LET t == heap[sessions[id]]  u == heap'[sessions[id]] IN
             u.LciA = t.LciA /\ u.ConnB = t.ConnB /\ u.LciB = t.LciB
  BY <1>1 DEF IdOf
<1>2. FoundByItsConn'
  BY <1>1 DEF TableInv, FoundByItsConn
<1>3. AllocatedChannelsUnique'
  BY <1>1 DEF TableInv, AllocatedChannelsUnique
<1> QED
  BY <1>2, <1>3 DEF TableInv, OnlyShrinks

\* SetState.
LEMMA SetStateTable ==
    ASSUME TableInv, NEW r \in Ref, heap[r] # NoSession, NEW st \in State, SetState(r, st)
    PROVE  TableInv' /\ Shrinks
<1>1. SMTypeOK' /\ IndexedIsRegistered'
  BY SetStateSound DEF TableInv
<1>2. heap[r] \in Session /\ heap'[r] \in Session /\ IdOf(heap'[r]) = IdOf(heap[r])
  <2>1. heap[r] \in Session
    BY DEF TableInv, SMTypeOK
  <2> QED
    BY <2>1 DEF TableInv, SMTypeOK, SetState, Session, IdOf
<1>3. \A q \in Ref : q # r => heap'[q] = heap[q]
  BY DEF TableInv, SMTypeOK, SetState
<1>4. HeapKept
  BY <1>2, <1>3, NilAssumption DEF HeapKept
<1>5. \A id \in ID : sessions[id] # NoSession => IdOf(heap'[sessions[id]]) = IdOf(heap[sessions[id]])
  BY <1>2, <1>3, RegisteredFacts DEF TableInv
<1> QED
  BY <1>1, <1>4, <1>5, KeysTable DEF SetState, Shrinks

\* AllocateAndAddTunSession adds a session of connection c only.
LEMMA AllocateFreshTable ==
    ASSUME TableInv, NEW c \in Conn, NEW gfi \in GFIs, NEW k \in LCI, NEW r \in Ref,
           AllocateFresh(c, gfi, k, r)
    PROVE  /\ TableInv' /\ HeapKept /\ \A d \in Conn \ {c} : OnlyShrinks(d)
           /\ heap'[r].LciA \in LCI
<1> USE DEF TableInv
<1>1. PICK a \in TunRange : /\ byALCI[a] = NoSession
                            /\ AllocatedSession(c, gfi, k, a) \in Session
                            /\ Register(r, AllocatedSession(c, gfi, k, a))
                            /\ nextLCI' \in TunRange
  BY AllocateFreshRegisters
<1> DEFINE s == AllocatedSession(c, gfi, k, a)
<1>2. s.LciA = a /\ s.ConnB = c /\ s.LciB = k
  BY DEF AllocatedSession
<1>3. heap[r] = NoSession /\ byBConnLCI[c][k] = NoSession
  BY DEF AllocateFresh
<1>4. s \in Session
  BY <1>1
<1> HIDE DEF s
<1>5. Register(r, s) /\ nextLCI' \in TunRange
  BY <1>1 DEF s
<1>6. TableInv'
  BY <1>1, <1>2, <1>3, <1>4, <1>5, RegisterTable
<1>7. heap'[r] = s /\ HeapKept
  BY <1>4, <1>5, NilAssumption DEF Register, SMTypeOK, HeapKept
<1>8. \A d \in Conn \ {c} : OnlyShrinks(d)
  BY <1>2, <1>5 DEF Register, SMTypeOK, OnlyShrinks
<1> QED
  BY <1>2, <1>6, <1>7, <1>8, <1>1, TunRangeIsLCI

\* AddSession of a session under an unused connection key and on a channel of
\* the kernel adds a session of its connection only.
LEMMA AddSessionTable ==
    ASSUME TableInv, NEW r \in Ref, NEW s \in Session, AddSession(r, s),
           byBConnLCI[s.ConnB][s.LciB] = NoSession, s.LciA \in KernelLCIs
    PROVE  TableInv' /\ HeapKept /\ \A d \in Conn \ {s.ConnB} : OnlyShrinks(d)
<1> USE DEF TableInv
<1>1. heap[r] = NoSession /\ heap' = [heap EXCEPT ![r] = s] /\ nextLCI' = nextLCI
  BY DEF AddSession, Register
<1>2. HeapKept
  BY <1>1, NilAssumption DEF SMTypeOK, HeapKept
<1>3. CASE Register(r, s)
  <2>1. nextLCI' \in TunRange
    BY <1>1 DEF SMTypeOK
  <2>2. TableInv'
    BY <1>1, <1>3, <2>1, RegisterTable
  <2>3. \A d \in Conn \ {s.ConnB} : OnlyShrinks(d)
    BY <1>3 DEF Register, SMTypeOK, OnlyShrinks
  <2> QED
    BY <1>2, <2>2, <2>3
<1>4. CASE UNCHANGED <<sessions, byALCI, byBConnLCI>>
  <2>1. SMTypeOK' /\ IndexedIsRegistered'
    BY AddSessionSound
  <2>2. \A id \in ID : sessions[id] # NoSession =>
           IdOf(heap'[sessions[id]]) = IdOf(heap[sessions[id]])
    BY <1>1, RegisteredFacts DEF SMTypeOK
  <2> QED
    BY <1>2, <1>4, <2>1, <2>2, KeysTable
<1> QED
  BY <1>3, <1>4 DEF AddSession

-----------------------------------------------------------------------------
(***************************************************************************)
(* The goroutines.                                                         *)
(***************************************************************************)

\* The link state, the shutdown flag and the signal handler's progress.
SharedTyped == /\ linkState \in {"Down", "Connecting", "Operational"}
               /\ shuttingDown \in BOOLEAN
               /\ signal \in {"waiting", "flagged", "closed", "cleared", "exited"}

\* A goroutine that does not move keeps what it relies on when the others
\* give up no object and add no session of its connection.
LEMMA FitsFrame ==
    ASSUME NEW g \in Goroutine, pc[g] \in Label, loc[g] \in Locals,
           Fits(heap, byBConnLCI, g, pc[g], loc[g]),
           HeapKept, g \in Conn => OnlyShrinks(g)
    PROVE  Fits(heap', byBConnLCI', g, pc[g], loc[g])
<1>1. /\ loc[g].s # NoSession => heap'[loc[g].s] # NoSession
      /\ \A r \in loc[g].todo : heap'[r] # NoSession
  BY DEF Fits, HeapKept, Locals, Pointer
<1>2. g \in Conn /\ pc[g] \in SessionlessLabel => \A l \in LCI : byBConnLCI'[g][l] = NoSession
  BY DEF Fits, OnlyShrinks
<1>3. g \in Conn /\ pc[g] \in CleaningLabel =>
         \A l \in LCI : byBConnLCI'[g][l] \in loc[g].todo \union {loc[g].s, NoSession}
  BY DEF Fits, OnlyShrinks
<1> QED
  BY <1>1, <1>2, <1>3 DEF Fits

(***************************************************************************)
(* A step of goroutine g: it arrives at a label with locals that fit it,   *)
(* and disturbs nobody else.                                               *)
(***************************************************************************)
LEMMA GoroutineStep ==
    ASSUME IndInv, TableInv', SharedTyped',
           NEW g \in Goroutine, NEW label \in Label, NEW locals \in Locals,
           pc' = [pc EXCEPT ![g] = label], loc' = [loc EXCEPT ![g] = locals],
           HeapKept, \A d \in Conn \ {g} : OnlyShrinks(d),
           Fits(heap', byBConnLCI', g, label, locals)
    PROVE  IndInv'
<1>1. pc \in [Goroutine -> Label] /\ loc \in [Goroutine -> Locals]
  BY DEF IndInv, TypeOK, Locals
<1>2. pc' \in [Goroutine -> Label] /\ loc' \in [Goroutine -> Locals]
  BY <1>1
<1>3. TypeOK'
  BY <1>2 DEF TypeOK, TableInv, SharedTyped, Locals
<1>4. GoroutinesFit'
  <2> SUFFICES ASSUME NEW h \in Goroutine
               PROVE  Fits(heap', byBConnLCI', h, pc'[h], loc'[h])
    BY DEF GoroutinesFit
  <2>1. CASE h = g
    BY <1>1, <2>1
  <2>2. CASE h # g
    <3>1. pc'[h] = pc[h] /\ loc'[h] = loc[h] /\ pc[h] \in Label /\ loc[h] \in Locals
      BY <1>1, <2>2
    <3>2. Fits(heap, byBConnLCI, h, pc[h], loc[h])
      BY DEF IndInv, GoroutinesFit
    <3>3. h \in Conn => OnlyShrinks(h)
      BY <2>2
    <3> QED
      BY <3>1, <3>2, <3>3, FitsFrame
  <2> QED
    BY <2>1, <2>2
<1> QED
  BY <1>3, <1>4 DEF IndInv

\* The same when g leaves the session manager alone.
LEMMA QuietStep ==
    ASSUME IndInv, UNCHANGED smVars, SharedTyped',
           NEW g \in Goroutine, NEW label \in Label, NEW locals \in Locals,
           pc' = [pc EXCEPT ![g] = label], loc' = [loc EXCEPT ![g] = locals],
           Fits(heap, byBConnLCI, g, label, locals)
    PROVE  IndInv'
<1>1. TableInv'
  BY DEF IndInv, TableInv, smVars, SMTypeOK, IndexedIsRegistered, RegisteredUnderItsID,
         AEntryRegistered, BEntryRegistered, FoundByItsConn, AllocatedChannelsUnique
<1>2. HeapKept /\ \A d \in Conn : OnlyShrinks(d)
  BY DEF smVars, HeapKept, OnlyShrinks
<1>3. Fits(heap', byBConnLCI', g, label, locals)
  BY DEF smVars
<1> QED
  BY <1>1, <1>2, <1>3, GoroutineStep

\* What a goroutine knows of itself.
LEMMA Own ==
    ASSUME IndInv, NEW g \in Goroutine
    PROVE  /\ pc[g] \in Label /\ loc[g] \in Locals
           /\ Fits(heap, byBConnLCI, g, pc[g], loc[g])
           /\ SharedTyped /\ TableInv
           /\ [pc EXCEPT ![g] = pc[g]] = pc /\ [loc EXCEPT ![g] = loc[g]] = loc
BY DEF IndInv, TypeOK, Locals, GoroutinesFit, SharedTyped

\* A pointer an index returns is to an object.
LEMMA FoundIsAllocated ==
    ASSUME TableInv
    PROVE  /\ \A l \in LCI : byALCI[l] # NoSession => byALCI[l] \in Ref /\ heap[byALCI[l]] # NoSession
           /\ \A c \in Conn, l \in LCI : byBConnLCI[c][l] # NoSession =>
                 byBConnLCI[c][l] \in Ref /\ heap[byBConnLCI[c][l]] # NoSession
BY DEF TableInv, SMTypeOK, Pointer, IndexedIsRegistered, AEntryRegistered, BEntryRegistered

\* A goroutine with no local in use: it may go to any label that asks for none.
LEMMA NoLocalsFit ==
    ASSUME NEW h, NEW b, NEW g \in Goroutine,
           NEW label \in {"read", "cleanup", "closeAll", "restart", "confirm"}
    PROVE  NoLocals \in Locals /\ label \in Label /\ Fits(h, b, g, label, NoLocals)
BY LCIAssumption DEF NoLocals, Locals, Pointer, LCI, Label, Fits, HoldingLabel, KernelCallLabel,
       SessionlessLabel, CleaningLabel

\* The locals of a goroutine that takes a packet and a pointer along.
Handed(type, p) == [NoLocals EXCEPT !.type = type, !.s = p]

\* Those locals are locals.
LEMMA HandedLocals ==
    ASSUME NEW type \in PacketType, NEW p \in Pointer
    PROVE  LET locals == Handed(type, p)
           IN  locals \in Locals /\ locals.type = type /\ locals.s = p /\ locals.todo = {}
<1>1. NoLocals \in Locals
  BY LCIAssumption DEF NoLocals, Locals, LCI, Pointer
<1>2. Handed(type, p) \in Locals
  BY <1>1 DEF Locals, Handed
<1> QED
  BY <1>2 DEF NoLocals, Handed

\* A goroutine may move on with its locals to any label that asks for no more.
LEMMA KeptLocalsFit ==
    ASSUME IndInv, NEW g \in Goroutine, NEW label \in {"read", "cleanup", "shutdown", "alloc", "write"}
    PROVE  label \in Label /\ Fits(heap, byBConnLCI, g, label, loc[g])
BY Own DEF Label, Fits, HoldingLabel, KernelCallLabel, SessionlessLabel, CleaningLabel

\* The locals of a handler that has read a packet on channel l.
LEMMA ChannelFits ==
    ASSUME NEW h, NEW b, NEW g \in Goroutine, NEW l \in LCI, NEW label \in {"link", "shutdown"}
    PROVE  LET locals == [NoLocals EXCEPT !.lci = l]
           IN  locals \in Locals /\ label \in Label /\ Fits(h, b, g, label, locals)
BY LCIAssumption DEF NoLocals, Locals, Pointer, LCI, Label, Fits, HoldingLabel, KernelCallLabel,
       SessionlessLabel, CleaningLabel

\* The link state as handleServerConn looks at it.
LEMMA CheckLinkInv ==
    ASSUME IndInv, NEW c \in Conn, NEW l \in LCI, CheckLink(c, l), UNCHANGED <<smVars, Shared>>
    PROVE  IndInv'
<1> USE DEF Goto, Keep, Resume, Shared, SharedTyped
<1>1. c \in Goroutine /\ SharedTyped'
  BY Own DEF Goroutine
<1>2. CASE Goto(c, "shutdown") /\ Keep(c, [NoLocals EXCEPT !.lci = l])
  <2> DEFINE locals == [NoLocals EXCEPT !.lci = l]
  <2>1. locals \in Locals /\ "shutdown" \in Label /\ Fits(heap, byBConnLCI, c, "shutdown", locals)
    BY <1>1, ChannelFits
  <2> HIDE DEF locals
  <2>2. pc' = [pc EXCEPT ![c] = "shutdown"] /\ loc' = [loc EXCEPT ![c] = locals]
    BY <1>2 DEF locals
  <2> QED
    BY <1>1, <2>1, <2>2, QuietStep
<1>3. CASE Resume(c, "cleanup")
  <2>1. NoLocals \in Locals /\ "cleanup" \in Label /\ Fits(heap, byBConnLCI, c, "cleanup", NoLocals)
    BY <1>1, NoLocalsFit
  <2> QED
    BY <1>1, <1>3, <2>1, QuietStep
<1> QED
  BY <1>2, <1>3 DEF CheckLink

\* Every step of handleServerConn.
LEMMA ServerStepInv ==
    ASSUME IndInv, NEW c \in SvrConn, ServerStep(c)
    PROVE  IndInv'
<1> USE DEF Goto, Keep, Resume, Shared, SharedTyped, At
<1>1. c \in Conn /\ c \in Goroutine /\ c # Tun
  BY ConnAssumption DEF Goroutine
<1>2. /\ pc[c] \in Label /\ loc[c] \in Locals /\ Fits(heap, byBConnLCI, c, pc[c], loc[c])
      /\ SharedTyped /\ TableInv
      /\ [pc EXCEPT ![c] = pc[c]] = pc /\ [loc EXCEPT ![c] = loc[c]] = loc
  BY <1>1, Own
<1>3. CASE Accept(c) \/ ReadFails(c)
  <2>1. PICK label \in {"read", "cleanup"} :
           pc' = [pc EXCEPT ![c] = label] /\ UNCHANGED <<smVars, Shared, loc>>
    BY <1>3 DEF Accept, ReadFails
  <2>2. label \in Label /\ Fits(heap, byBConnLCI, c, label, loc[c])
    BY <1>1, KeptLocalsFit
  <2> QED
    BY <1>1, <1>2, <2>1, <2>2, QuietStep
<1>4. ASSUME NEW l \in PeerLCIs, SvrCall(c, l)
      PROVE  IndInv'
  <2> DEFINE locals == [NoLocals EXCEPT !.lci = l]
  <2>1. l \in LCI
    BY PacketAssumption
  <2>2. locals \in Locals /\ "link" \in Label /\ \A h, b : Fits(h, b, c, "link", locals)
    BY <1>1, <2>1, ChannelFits
  <2> HIDE DEF locals
  <2>3. /\ pc' = [pc EXCEPT ![c] = "link"] /\ loc' = [loc EXCEPT ![c] = locals]
        /\ UNCHANGED Shared
    BY <1>4 DEF SvrCall, locals
  <2>4. CASE RemoveByBConnLCI(c, l)
    <3>1. TableInv' /\ Shrinks
      BY <1>1, <1>2, <2>1, <2>4, RemoveByBConnLCITable
    <3> QED
      BY <1>1, <1>2, <2>2, <2>3, <3>1, GoroutineStep DEF Shrinks
  <2>5. CASE UNCHANGED smVars
    BY <1>1, <1>2, <2>2, <2>3, <2>5, QuietStep
  <2> QED
    BY <1>4, <2>4, <2>5 DEF SvrCall
<1>5. ASSUME NEW l \in PeerLCIs, SvrData(c, l)
      PROVE  IndInv'
  <2>1. l \in LCI
    BY PacketAssumption
  <2> QED
    BY <1>1, <1>5, <2>1, CheckLinkInv DEF SvrData
<1>6. ASSUME NEW type \in Clears, NEW l \in PeerLCIs, SvrClear(c, type, l)
      PROVE  IndInv'
  <2> DEFINE s == byBConnLCI[c][l]
             locals == [NoLocals EXCEPT !.s = s]
  <2>1. s \in Ref /\ heap[s] # NoSession /\ SetState(s, StateP5) /\ pc[c] = "read"
    <3>1. l \in LCI
      BY PacketAssumption
    <3> QED
      BY <1>1, <1>2, <1>6, <3>1, FoundIsAllocated DEF SvrClear, GetByBConnLCI
  <2>2. TableInv' /\ Shrinks
    BY <1>2, <2>1, SetStateTable DEF State
  <2>3. heap'[s] # NoSession
    BY <2>1, <2>2 DEF Shrinks, HeapKept
  <2>4. UNCHANGED Shared
    BY <1>6 DEF SvrClear
  <2>5. CASE UNCHANGED <<pc, loc>>
    <3>1. Fits(heap', byBConnLCI', c, pc[c], loc[c])
      BY <1>1, <1>2, <2>2, FitsFrame DEF Shrinks
    <3> QED
      BY <1>1, <1>2, <2>2, <2>4, <2>5, <3>1, GoroutineStep DEF Shrinks
  <2>6. CASE Goto(c, "remove") /\ Keep(c, locals)
    <3>1. locals \in Locals /\ "remove" \in Label
      BY <2>1, LCIAssumption DEF NoLocals, Locals, Pointer, LCI, Label
    <3>2. Fits(heap', byBConnLCI', c, "remove", locals)
      BY <2>1, <2>3, NilAssumption DEF Fits, NoLocals, HoldingLabel, KernelCallLabel,
                                       SessionlessLabel, CleaningLabel
    <3> QED
      BY <1>1, <1>2, <2>2, <2>4, <2>6, <3>1, <3>2, GoroutineStep DEF Shrinks
  <2> QED
    BY <1>6, <2>5, <2>6 DEF SvrClear, GetByBConnLCI
<1>7. CASE SvrRemove(c)
  <2>1. loc[c].s \in Ref /\ heap[loc[c].s] # NoSession
    BY <1>2, <1>7 DEF SvrRemove, Fits, HoldingLabel, Locals, Pointer
  <2>2. TableInv' /\ Shrinks
    BY <1>2, <1>7, <2>1, RemoveSessionTable DEF SvrRemove
  <2>3. NoLocals \in Locals /\ "read" \in Label /\ Fits(heap', byBConnLCI', c, "read", NoLocals)
    BY <1>1, NoLocalsFit
  <2> QED
    BY <1>1, <1>2, <1>7, <2>2, <2>3, GoroutineStep DEF SvrRemove, Shrinks
<1>8. CASE SvrLink(c)
  <2>1. loc[c].lci \in LCI
    BY <1>2 DEF Locals
  <2> QED
    BY <1>1, <1>8, <2>1, CheckLinkInv DEF SvrLink
<1>9. CASE SvrShutdown(c)
  <2>1. CASE shuttingDown
    <3>1. NoLocals \in Locals /\ "cleanup" \in Label /\ Fits(heap, byBConnLCI, c, "cleanup", NoLocals)
      BY <1>1, NoLocalsFit
    <3> QED
      BY <1>1, <1>2, <1>9, <2>1, <3>1, QuietStep DEF SvrShutdown
  <2>2. CASE ~shuttingDown
    <3>1. "alloc" \in Label /\ Fits(heap, byBConnLCI, c, "alloc", loc[c])
      BY <1>1, KeptLocalsFit
    <3> QED
      BY <1>1, <1>2, <1>9, <2>2, <3>1, QuietStep DEF SvrShutdown
  <2> QED
    BY <2>1, <2>2
<1>10. CASE SvrAllocate(c)
  <2> DEFINE l == loc[c].lci
             With(channel) == [loc[c] EXCEPT !.tunLCI = channel]
  <2>1. l \in LCI /\ UNCHANGED Shared /\ pc[c] = "alloc"
    BY <1>2, <1>10 DEF Locals, SvrAllocate
  <2>2. \A channel \in LCI : With(channel) \in Locals
    BY <1>2 DEF Locals
  <2>3. ASSUME NEW channel \in LCI, HeapKept
        PROVE  Fits(heap', byBConnLCI', c, "write", With(channel))
    <3>1. /\ loc[c].s # NoSession => heap'[loc[c].s] # NoSession
          /\ \A r \in loc[c].todo : heap'[r] # NoSession
      BY <1>2, <2>3 DEF Fits, HeapKept, Locals, Pointer
    <3>2. With(channel).s = loc[c].s /\ With(channel).todo = loc[c].todo
      BY <1>2 DEF Locals
    <3> HIDE DEF With
    <3> QED
      BY <3>1, <3>2 DEF Fits, HoldingLabel, KernelCallLabel, SessionlessLabel, CleaningLabel
  <2>4. CASE /\ byBConnLCI[c][l] # NoSession
             /\ Keep(c, With(heap[byBConnLCI[c][l]].LciA))
             /\ Goto(c, "write") /\ UNCHANGED smVars
    <3>1. heap[byBConnLCI[c][l]].LciA \in LCI
      <4>1. byBConnLCI[c][l] \in Ref /\ heap[byBConnLCI[c][l]] # NoSession
        BY <1>1, <1>2, <2>1, <2>4, FoundIsAllocated
      <4>2. heap[byBConnLCI[c][l]] \in Session
        BY <1>2, <4>1 DEF TableInv, SMTypeOK
      <4> QED
        BY <4>2 DEF Session
    <3>2. HeapKept /\ UNCHANGED <<heap, byBConnLCI>>
      BY <2>4 DEF HeapKept, smVars
    <3>3. Fits(heap, byBConnLCI, c, "write", With(heap[byBConnLCI[c][l]].LciA))
      BY <2>3, <3>1, <3>2
    <3>4. With(heap[byBConnLCI[c][l]].LciA) \in Locals /\ "write" \in Label
      BY <2>2, <3>1 DEF Label
    <3> HIDE DEF With
    <3> QED
      BY <1>1, <1>2, <2>1, <2>4, <3>3, <3>4, QuietStep
  <2>5. ASSUME NEW r \in Ref, NEW gfi \in GFIs, AllocateFresh(c, gfi, l, r),
               Keep(c, With(heap'[r].LciA)), Goto(c, "write")
        PROVE  IndInv'
    <3>1. /\ TableInv' /\ HeapKept /\ \A d \in Conn \ {c} : OnlyShrinks(d)
          /\ heap'[r].LciA \in LCI
      BY <1>1, <1>2, <2>1, <2>5, AllocateFreshTable
    <3>2. Fits(heap', byBConnLCI', c, "write", With(heap'[r].LciA))
      BY <2>3, <3>1
    <3>3. With(heap'[r].LciA) \in Locals /\ "write" \in Label
      BY <2>2, <3>1 DEF Label
    <3> HIDE DEF With
    <3> QED
      BY <1>1, <1>2, <2>1, <2>5, <3>1, <3>2, <3>3, GoroutineStep
  <2>6. CASE Resume(c, "cleanup") /\ UNCHANGED smVars
    <3>1. NoLocals \in Locals /\ "cleanup" \in Label /\ Fits(heap, byBConnLCI, c, "cleanup", NoLocals)
      BY <1>1, NoLocalsFit
    <3> QED
      BY <1>1, <1>2, <2>1, <2>6, <3>1, QuietStep
  <2> QED
    BY <1>10, <2>4, <2>5, <2>6 DEF SvrAllocate, GetByBConnLCI
<1>11. CASE SvrWrite(c)
  <2>1. PICK label \in {"read", "cleanup"} : Resume(c, label) /\ UNCHANGED <<smVars, Shared>>
    BY <1>11 DEF SvrWrite
  <2>2. NoLocals \in Locals /\ label \in Label /\ Fits(heap, byBConnLCI, c, label, NoLocals)
    BY <1>1, NoLocalsFit
  <2> QED
    BY <1>1, <1>2, <2>1, <2>2, QuietStep
<1> QED
  BY <1>3, <1>4, <1>5, <1>6, <1>7, <1>8, <1>9, <1>10, <1>11 DEF ServerStep

\* The list of cleanupConn is complete: it is the whole index of c.
LEMMA SnapshotFits ==
    ASSUME TableInv, NEW c \in Conn
    PROVE  LET locals == [NoLocals EXCEPT !.todo = GetSessionsForConn(c)]
           IN  locals \in Locals /\ "next" \in Label /\ Fits(heap, byBConnLCI, c, "next", locals)
<1> DEFINE locals == [NoLocals EXCEPT !.todo = GetSessionsForConn(c)]
<1>1. \A r \in GetSessionsForConn(c) : r \in Ref /\ heap[r] # NoSession
  BY FoundIsAllocated DEF GetSessionsForConn
<1>2. /\ locals \in Locals
      /\ locals.s = NoSession /\ locals.todo = GetSessionsForConn(c)
  BY <1>1, LCIAssumption DEF NoLocals, Locals, Pointer, LCI
<1>3. \A l \in LCI : byBConnLCI[c][l] \in GetSessionsForConn(c) \union {NoSession}
  BY DEF GetSessionsForConn
<1> HIDE DEF locals
<1>4. "next" \in Label
  BY DEF Label
<1>5. Fits(heap, byBConnLCI, c, "next", locals)
  BY <1>1, <1>2, <1>3 DEF Fits, HoldingLabel, KernelCallLabel, SessionlessLabel, CleaningLabel
<1> QED
  BY <1>2, <1>4, <1>5 DEF locals

\* Every step of cleanupConn: a session leaves the list for the hand of the
\* goroutine, and the goroutine's hand only once no entry leads to it.
LEMMA CleanupStepInv ==
    ASSUME IndInv, NEW c \in Conn, CleanupStep(c)
    PROVE  IndInv'
<1> USE DEF Goto, Keep, Resume, Shared, SharedTyped, At
<1>1. c \in Goroutine /\ c # Tun
  BY ConnAssumption DEF Goroutine
<1>2. /\ pc[c] \in Label /\ loc[c] \in Locals /\ Fits(heap, byBConnLCI, c, pc[c], loc[c])
      /\ SharedTyped /\ TableInv
      /\ [pc EXCEPT ![c] = pc[c]] = pc /\ [loc EXCEPT ![c] = loc[c]] = loc
  BY <1>1, Own
<1>3. CASE CleanupSnapshot(c)
  <2> DEFINE locals == [NoLocals EXCEPT !.todo = GetSessionsForConn(c)]
  <2>1. locals \in Locals /\ "next" \in Label /\ Fits(heap, byBConnLCI, c, "next", locals)
    BY <1>2, SnapshotFits
  <2>2. /\ pc' = [pc EXCEPT ![c] = "next"] /\ loc' = [loc EXCEPT ![c] = locals]
        /\ UNCHANGED <<smVars, Shared>>
    BY <1>3 DEF CleanupSnapshot
  <2> HIDE DEF locals
  <2> QED
    BY <1>1, <1>2, <2>1, <2>2, QuietStep
<1>4. ASSUME NEW s \in Ref, CleanupCheck(c, s)
      PROVE  IndInv'
  <2> DEFINE locals == [loc[c] EXCEPT !.s = s, !.todo = @ \ {s}]
  <2>1. s \in loc[c].todo /\ pc[c] = "next"
    BY <1>4 DEF CleanupCheck
  <2>2. locals \in Locals /\ locals.s = s /\ locals.todo = loc[c].todo \ {s}
    BY <1>2 DEF Locals, Pointer
  <2>3. PICK label \in {"clearTun", "drop"} :
           /\ pc' = [pc EXCEPT ![c] = label] /\ loc' = [loc EXCEPT ![c] = locals]
           /\ UNCHANGED <<smVars, Shared>>
    BY <1>4 DEF CleanupCheck
  <2> HIDE DEF locals
  <2>4. Fits(heap, byBConnLCI, c, label, locals)
    BY <1>2, <2>1, <2>2, NilAssumption DEF Fits, HoldingLabel, KernelCallLabel,
                                           SessionlessLabel, CleaningLabel
  <2>5. label \in Label
    BY DEF Label
  <2> QED
    BY <1>1, <1>2, <2>2, <2>3, <2>4, <2>5, QuietStep
<1>5. CASE CleanupWrite(c)
  <2>1. "drop" \in Label /\ Fits(heap, byBConnLCI, c, "drop", loc[c])
    BY <1>2, <1>5 DEF CleanupWrite, Label, Fits, HoldingLabel, KernelCallLabel,
                      SessionlessLabel, CleaningLabel
  <2> QED
    BY <1>1, <1>2, <1>5, <2>1, QuietStep DEF CleanupWrite
<1>6. CASE CleanupRemove(c)
  <2> DEFINE locals == [loc[c] EXCEPT !.s = NoSession]
  <2>1. loc[c].s \in Ref /\ heap[loc[c].s] # NoSession /\ pc[c] = "drop"
    BY <1>2, <1>6 DEF CleanupRemove, Fits, HoldingLabel, Locals, Pointer
  <2>2. TableInv' /\ Shrinks /\ \A l \in LCI : byBConnLCI'[c][l] # loc[c].s
    BY <1>2, <1>6, <2>1, RemoveSessionTable DEF CleanupRemove
  <2>3. locals \in Locals /\ locals.s = NoSession /\ locals.todo = loc[c].todo
    BY <1>2 DEF Locals, Pointer
  <2>4. /\ pc' = [pc EXCEPT ![c] = "next"] /\ loc' = [loc EXCEPT ![c] = locals]
        /\ UNCHANGED Shared
    BY <1>6 DEF CleanupRemove
  <2> HIDE DEF locals
  <2>5. \A r \in loc[c].todo : heap'[r] # NoSession
    BY <1>2, <2>2 DEF Shrinks, HeapKept, Fits, Locals
  <2>6. \A l \in LCI : byBConnLCI'[c][l] \in loc[c].todo \union {NoSession}
    <3>1. \A l \in LCI : byBConnLCI[c][l] \in loc[c].todo \union {loc[c].s, NoSession}
      BY <1>2, <2>1 DEF Fits, CleaningLabel
    <3> QED
      BY <2>2, <3>1 DEF Shrinks, OnlyShrinks
  <2>7. "next" \in Label /\ Fits(heap', byBConnLCI', c, "next", locals)
    BY <2>3, <2>5, <2>6 DEF Label, Fits, HoldingLabel, KernelCallLabel, SessionlessLabel,
                            CleaningLabel
  <2> QED
    BY <1>1, <1>2, <2>2, <2>3, <2>4, <2>7, GoroutineStep DEF Shrinks
<1>7. CASE CleanupDone(c)
  <2>1. \A l \in LCI : byBConnLCI[c][l] = NoSession
    BY <1>2, <1>7 DEF CleanupDone, Fits, CleaningLabel
  <2>2. NoLocals \in Locals /\ "done" \in Label
    BY LCIAssumption DEF NoLocals, Locals, Pointer, LCI, Label
  <2>3. Fits(heap, byBConnLCI, c, "done", NoLocals)
    BY <2>1 DEF NoLocals, Fits, HoldingLabel, KernelCallLabel, SessionlessLabel, CleaningLabel
  <2> QED
    BY <1>1, <1>2, <1>7, <2>2, <2>3, QuietStep DEF CleanupDone
<1> QED
  BY <1>3, <1>4, <1>5, <1>6, <1>7 DEF CleanupStep

\* Every step of forwardToGateway and handleGatewayRead.
LEMMA GatewayStepInv ==
    ASSUME IndInv, NEW c \in GwyConn, GatewayStep(c)
    PROVE  IndInv'
<1> USE DEF Goto, Keep, Resume, Shared, SharedTyped, At
<1>1. c \in Conn /\ c \in Goroutine /\ c # Tun
  BY ConnAssumption DEF Goroutine
<1>2. /\ pc[c] \in Label /\ loc[c] \in Locals /\ Fits(heap, byBConnLCI, c, pc[c], loc[c])
      /\ SharedTyped /\ TableInv
      /\ [pc EXCEPT ![c] = pc[c]] = pc /\ [loc EXCEPT ![c] = loc[c]] = loc
  BY <1>1, Own
\* Before the session is added the call may move on, or be given up.
<1>3. ASSUME pc[c] \in {"check", "dial"}, UNCHANGED <<smVars, Shared>>,
             \/ Resume(c, "done")
             \/ (Goto(c, "dial") \/ Goto(c, "add")) /\ UNCHANGED loc
      PROVE  IndInv'
  <2>1. \A l \in LCI : byBConnLCI[c][l] = NoSession
    BY <1>1, <1>2, <1>3 DEF Fits, SessionlessLabel
  <2>2. CASE Resume(c, "done")
    <3>1. NoLocals \in Locals /\ "done" \in Label
      BY LCIAssumption DEF NoLocals, Locals, Pointer, LCI, Label
    <3>2. Fits(heap, byBConnLCI, c, "done", NoLocals)
      BY <2>1 DEF NoLocals, Fits, HoldingLabel, KernelCallLabel, SessionlessLabel, CleaningLabel
    <3> QED
      BY <1>1, <1>2, <1>3, <2>2, <3>1, <3>2, QuietStep
  <2>3. ASSUME NEW label \in {"dial", "add"}, Goto(c, label), UNCHANGED loc
        PROVE  IndInv'
    <3>1. label \in Label /\ Fits(heap, byBConnLCI, c, label, loc[c])
      BY <1>2, <1>3, <2>1 DEF Label, Fits, HoldingLabel, KernelCallLabel, SessionlessLabel,
                              CleaningLabel
    <3> QED
      BY <1>1, <1>2, <1>3, <2>3, <3>1, QuietStep
  <2> QED
    BY <1>3, <2>2, <2>3
<1>4. CASE FwdCheck(c)
  BY <1>3, <1>4 DEF FwdCheck
<1>5. CASE FwdDial(c)
  BY <1>3, <1>5 DEF FwdDial
<1>6. CASE FwdAdd(c)
  <2>1. loc[c].lci \in LCI /\ loc[c].lci \in KernelLCIs /\ byBConnLCI[c][loc[c].lci] = NoSession
    BY <1>1, <1>2, <1>6 DEF FwdAdd, Fits, KernelCallLabel, SessionlessLabel, Locals
  <2> DEFINE Built(gfi) == [GFI |-> gfi, LciA |-> loc[c].lci, LciB |-> loc[c].lci,
                            ConnB |-> c, State |-> StateP2]
  <2>2. PICK r \in Ref, gfi \in GFIs : AddSession(r, Built(gfi))
    BY <1>6 DEF FwdAdd
  <2>3. /\ Built(gfi) \in Session
        /\ Built(gfi).ConnB = c /\ Built(gfi).LciA = loc[c].lci /\ Built(gfi).LciB = loc[c].lci
    BY <1>1, <2>1 DEF Session, State, StateP2
  <2>4. UNCHANGED Shared /\ Resume(c, "read")
    BY <1>6 DEF FwdAdd
  <2> HIDE DEF Built
  <2>5. TableInv' /\ HeapKept /\ \A d \in Conn \ {c} : OnlyShrinks(d)
    BY <1>2, <2>1, <2>2, <2>3, AddSessionTable
  <2>6. NoLocals \in Locals /\ "read" \in Label /\ Fits(heap', byBConnLCI', c, "read", NoLocals)
    BY <1>1, NoLocalsFit
  <2> QED
    BY <1>1, <1>2, <2>4, <2>5, <2>6, GoroutineStep
<1>7. CASE ReadFails(c)
  <2>1. "cleanup" \in Label /\ Fits(heap, byBConnLCI, c, "cleanup", loc[c])
    BY <1>1, KeptLocalsFit
  <2> QED
    BY <1>1, <1>2, <1>7, <2>1, QuietStep DEF ReadFails
<1>8. CASE GwyRemove(c)
  <2>1. loc[c].s \in Ref /\ heap[loc[c].s] # NoSession
    BY <1>2, <1>8 DEF GwyRemove, Fits, HoldingLabel, Locals, Pointer
  <2>2. TableInv' /\ Shrinks
    BY <1>2, <1>8, <2>1, RemoveSessionTable DEF GwyRemove
  <2>3. NoLocals \in Locals /\ "cleanup" \in Label /\ Fits(heap', byBConnLCI', c, "cleanup", NoLocals)
    BY <1>1, NoLocalsFit
  <2> QED
    BY <1>1, <1>2, <1>8, <2>2, <2>3, GoroutineStep DEF GwyRemove, Shrinks
<1>9. ASSUME NEW type \in {"CALL_CONN", "CLR_REQ", "CLR_CONF"}, NEW l \in PeerLCIs,
             GwyRead(c, type, l)
      PROVE  IndInv'
  <2> DEFINE s == byBConnLCI[c][l]
             locals == Handed(type, s)
  <2>1. l \in LCI
    BY PacketAssumption
  <2>2. s \in Ref /\ heap[s] # NoSession
    BY <1>1, <1>2, <1>9, <2>1, FoundIsAllocated DEF GwyRead, GetByBConnLCI
  <2>3. UNCHANGED Shared
    BY <1>9 DEF GwyRead
  <2>4. ASSUME NEW st \in State, SetState(s, st), UNCHANGED <<pc, loc>>
        PROVE  IndInv'
    <3>1. TableInv' /\ Shrinks
      BY <1>2, <2>2, <2>4, SetStateTable
    <3>2. Fits(heap', byBConnLCI', c, pc[c], loc[c])
      BY <1>1, <1>2, <3>1, FitsFrame DEF Shrinks
    <3> QED
      BY <1>1, <1>2, <2>3, <2>4, <3>1, <3>2, GoroutineStep DEF Shrinks
  <2>5. CASE Goto(c, "remove") /\ Keep(c, locals) /\ UNCHANGED smVars
    <3>1. /\ locals \in Locals /\ locals.s = s /\ locals.todo = {}
          /\ "remove" \in Label
      <4>1. type \in PacketType /\ s \in Pointer
        BY <2>2 DEF PacketType, Pointer
      <4> QED
        BY <4>1, HandedLocals DEF Label
    <3>2. loc' = [loc EXCEPT ![c] = locals]
      BY <2>5
    <3> HIDE DEF locals
    <3>3. Fits(heap, byBConnLCI, c, "remove", locals)
      BY <2>2, <3>1, NilAssumption
         DEF Fits, HoldingLabel, KernelCallLabel, SessionlessLabel, CleaningLabel
    <3> QED
      BY <1>1, <1>2, <2>3, <2>5, <3>1, <3>2, <3>3, QuietStep
  <2> QED
    BY <1>9, <2>4, <2>5 DEF GwyRead, GetByBConnLCI, Handed, State, StateP4, StateP5
<1> QED
  BY <1>4, <1>5, <1>6, <1>7, <1>8, <1>9 DEF GatewayStep

\* The end of a packet in handleTunRead, and the lookup of a session.
LEMMA TunTailInv ==
    ASSUME IndInv, TableInv', Shrinks, TunTail, UNCHANGED <<shuttingDown, signal>>
    PROVE  IndInv'
<1> USE DEF Goto, Keep, Resume, SharedTyped
<1>1. Tun \in Goroutine /\ Tun \notin Conn /\ SharedTyped
  BY ConnAssumption, Own DEF Goroutine
<1>2. PICK label \in {"read", "closeAll"} : Resume(Tun, label) /\ linkState' \in {linkState, "Down"}
  BY DEF TunTail
<1>3. NoLocals \in Locals /\ label \in Label /\ Fits(heap', byBConnLCI', Tun, label, NoLocals)
  BY <1>1, NoLocalsFit
<1>4. SharedTyped'
  BY <1>1, <1>2
<1> QED
  BY <1>1, <1>2, <1>3, <1>4, GoroutineStep DEF Shrinks

\* A step that leaves the session manager alone leaves its table alone.
LEMMA TableFrame ==
    ASSUME TableInv, UNCHANGED smVars
    PROVE  TableInv' /\ Shrinks
BY DEF TableInv, smVars, SMTypeOK, IndexedIsRegistered, RegisteredUnderItsID, AEntryRegistered,
       BEntryRegistered, FoundByItsConn, AllocatedChannelsUnique, Shrinks, HeapKept, OnlyShrinks

\* Looking a session up: there is none, or the goroutine goes on with it.
LEMMA LookupInv ==
    ASSUME IndInv, NEW type \in PacketType, NEW l \in LCI, Lookup(type, l)
    PROVE  IndInv'
<1> USE DEF Goto, Keep, SharedTyped
<1>1. Tun \in Goroutine /\ Tun \notin Conn /\ SharedTyped /\ TableInv
  BY ConnAssumption, Own DEF Goroutine
<1>2. UNCHANGED <<smVars, shuttingDown, signal>>
  BY DEF Lookup
<1>3. CASE TunTail
  BY <1>1, <1>2, <1>3, TableFrame, TunTailInv
<1>4. CASE /\ byALCI[l] # NoSession /\ UNCHANGED linkState
           /\ Goto(Tun, "relay") /\ Keep(Tun, Handed(type, byALCI[l]))
  <2> DEFINE locals == Handed(type, byALCI[l])
  <2>1. byALCI[l] \in Pointer /\ heap[byALCI[l]] # NoSession
    BY <1>1, <1>4, FoundIsAllocated DEF Pointer
  <2>2. /\ locals \in Locals /\ locals.s = byALCI[l] /\ locals.todo = {}
        /\ "relay" \in Label
    BY <2>1, HandedLocals DEF Label
  <2> HIDE DEF locals
  <2>3. loc' = [loc EXCEPT ![Tun] = locals]
    BY <1>4 DEF locals
  <2>4. Fits(heap, byBConnLCI, Tun, "relay", locals)
    BY <1>1, <1>4, <2>1, <2>2
       DEF Fits, HoldingLabel, KernelCallLabel, SessionlessLabel, CleaningLabel
  <2> QED
    BY <1>1, <1>2, <1>4, <2>2, <2>3, <2>4, QuietStep
<1> QED
  BY <1>3, <1>4 DEF Lookup, GetByALCI, Handed

\* Every step of handleTunRead that only moves on, with or without changing
\* the link state.
LEMMA TunMoves ==
    ASSUME IndInv, TableInv', Shrinks, SharedTyped',
           NEW label \in {"read", "done", "closeAll", "restart", "confirm"},
           Goto(Tun, label), UNCHANGED loc
    PROVE  IndInv'
<1>1. Tun \in Goroutine /\ Tun \notin Conn
  BY ConnAssumption DEF Goroutine
<1>2. /\ loc[Tun] \in Locals /\ Fits(heap, byBConnLCI, Tun, pc[Tun], loc[Tun])
      /\ loc = [loc EXCEPT ![Tun] = loc[Tun]] /\ pc[Tun] \in Label
  BY <1>1, Own
<1>3. /\ loc[Tun].s # NoSession => heap'[loc[Tun].s] # NoSession
      /\ \A r \in loc[Tun].todo : heap'[r] # NoSession
  BY <1>2 DEF Fits, Shrinks, HeapKept, Locals, Pointer
<1>4. label \in Label /\ Fits(heap', byBConnLCI', Tun, label, loc[Tun])
  BY <1>1, <1>3 DEF Label, Fits, HoldingLabel, KernelCallLabel, SessionlessLabel, CleaningLabel
<1> QED
  BY <1>1, <1>2, <1>4, GoroutineStep DEF Shrinks, Goto

\* The frames of the link layer.
LEMMA TunControlInv ==
    ASSUME IndInv,
           \/ TunReadControl \/ TunReadFails \/ TunCloseAll \/ TunRestartClose
           \/ TunRestartConfirm
    PROVE  IndInv'
<1> USE DEF Goto, Shared, SharedTyped, At
<1>1. Tun \in Goroutine /\ SharedTyped /\ TableInv /\ [pc EXCEPT ![Tun] = pc[Tun]] = pc
  BY Own DEF Goroutine
<1>2. CASE TunConnect
  <2>1. Goto(Tun, "read") /\ UNCHANGED <<loc, smVars>> /\ SharedTyped'
    BY <1>1, <1>2 DEF TunConnect
  <2> QED
    BY <1>1, <2>1, TableFrame, TunMoves
<1>3. CASE TunDisconnect
  <2>1. Goto(Tun, "closeAll") /\ UNCHANGED <<loc, smVars>> /\ SharedTyped'
    BY <1>1, <1>3 DEF TunDisconnect
  <2> QED
    BY <1>1, <2>1, TableFrame, TunMoves
<1>4. CASE TunRestart
  <2>1. PICK label \in {"restart", "confirm"} : Goto(Tun, label)
    BY <1>4 DEF TunRestart
  <2>2. UNCHANGED <<loc, smVars>> /\ SharedTyped'
    BY <1>1, <1>4 DEF TunRestart
  <2> QED
    BY <1>1, <2>1, <2>2, TableFrame, TunMoves
<1>5. CASE TunReadFails
  <2>1. Goto(Tun, "done") /\ UNCHANGED <<loc, smVars>> /\ SharedTyped'
    BY <1>1, <1>5 DEF TunReadFails
  <2> QED
    BY <1>1, <2>1, TableFrame, TunMoves
<1>6. CASE TunRestartConfirm
  <2>1. Goto(Tun, "read") /\ UNCHANGED <<loc, smVars>> /\ SharedTyped'
    BY <1>1, <1>6 DEF TunRestartConfirm
  <2> QED
    BY <1>1, <2>1, TableFrame, TunMoves
<1>7. CASE TunCloseAll \/ TunRestartClose
  <2>1. RemoveAllSessions /\ UNCHANGED <<loc, Shared>> /\ SharedTyped'
    BY <1>1, <1>7 DEF TunCloseAll, TunRestartClose
  <2>2. PICK label \in {"read", "confirm"} : Goto(Tun, label)
    BY <1>7 DEF TunCloseAll, TunRestartClose
  <2> QED
    BY <1>1, <2>1, <2>2, RemoveAllSessionsTable, TunMoves
<1> QED
  BY <1>2, <1>3, <1>4, <1>5, <1>6, <1>7 DEF TunReadControl

\* The locals of the reader with a call of the kernel.
KernelCall(l, p) == [NoLocals EXCEPT !.type = "CALL_REQ", !.lci = l, !.s = p]

\* Those locals are locals.
LEMMA KernelCallLocals ==
    ASSUME NEW l \in LCI, NEW p \in Pointer
    PROVE  LET locals == KernelCall(l, p)
           IN  locals \in Locals /\ locals.lci = l /\ locals.s = p /\ locals.todo = {}
<1>1. NoLocals \in Locals
  BY LCIAssumption DEF NoLocals, Locals, LCI, Pointer
<1>2. KernelCall(l, p) \in Locals
  BY <1>1 DEF Locals, KernelCall, PacketType
<1> QED
  BY <1>2 DEF NoLocals, KernelCall

\* A call of the kernel is forwarded: the reader lets go of it, and a goroutine
\* of its own takes it over with its channel.
LEMMA TunForwardInv ==
    ASSUME IndInv, NEW c \in GwyConn, TunForward(c)
    PROVE  IndInv'
<1> USE DEF At
<1>1. /\ Tun \in Goroutine /\ Tun \notin Conn /\ c \in Goroutine /\ c \in Conn /\ c # Tun
  BY ConnAssumption DEF Goroutine
<1>2. /\ pc \in [Goroutine -> Label] /\ loc \in [Goroutine -> Locals] /\ TableInv
  BY DEF IndInv, TypeOK, Locals
<1>3. /\ pc[Tun] = "route" /\ pc[c] = "idle" /\ UNCHANGED <<smVars, Shared>>
      /\ pc' = [pc EXCEPT ![Tun] = "read", ![c] = "check"]
  BY DEF TunForward
<1> DEFINE locals == [NoLocals EXCEPT !.lci = loc[Tun].lci]
<1>4. loc' = [loc EXCEPT ![Tun] = NoLocals, ![c] = locals]
  BY DEF TunForward
<1>5. NoLocals \in Locals /\ "read" \in Label /\ Fits(heap, byBConnLCI, Tun, "read", NoLocals)
  BY <1>1, NoLocalsFit
<1>6. loc[Tun].lci \in LCI /\ loc[Tun].lci \in KernelLCIs
  BY <1>1, <1>2, <1>3 DEF IndInv, GoroutinesFit, Fits, KernelCallLabel, Locals
<1>7. /\ locals \in Locals /\ locals.s = NoSession /\ locals.todo = {}
      /\ locals.lci = loc[Tun].lci
  BY <1>5, <1>6 DEF NoLocals, Locals
<1> HIDE DEF locals
<1>8. \A l \in LCI : byBConnLCI[c][l] = NoSession
  BY <1>1, <1>3 DEF IndInv, GoroutinesFit, Fits, SessionlessLabel
<1>9. "check" \in Label /\ Fits(heap, byBConnLCI, c, "check", locals)
  BY <1>6, <1>7, <1>8 DEF Label, Fits, HoldingLabel, KernelCallLabel, SessionlessLabel,
                          CleaningLabel
<1>10. pc' \in [Goroutine -> Label] /\ loc' \in [Goroutine -> Locals]
  BY <1>1, <1>2, <1>3, <1>4, <1>5, <1>7, <1>9
<1>11. TableInv'
  BY <1>2, <1>3, TableFrame
<1>12. TypeOK'
  BY <1>3, <1>10, <1>11 DEF IndInv, TypeOK, TableInv, Shared, Locals
<1>13. ASSUME NEW h \in Goroutine
       PROVE  Fits(heap, byBConnLCI, h, pc'[h], loc'[h])
  <2>1. CASE h = Tun
    BY <1>1, <1>2, <1>3, <1>4, <1>5, <2>1
  <2>2. CASE h = c
    BY <1>1, <1>2, <1>3, <1>4, <1>9, <2>2
  <2>3. CASE h # Tun /\ h # c
    <3>1. pc'[h] = pc[h] /\ loc'[h] = loc[h]
      BY <1>2, <1>3, <1>4, <2>3
    <3> QED
      BY <3>1 DEF IndInv, GoroutinesFit
  <2> QED
    BY <2>1, <2>2, <2>3
<1>14. GoroutinesFit'
  BY <1>3, <1>13 DEF GoroutinesFit, smVars
<1> QED
  BY <1>11, <1>12, <1>14 DEF IndInv

\* The packets of the kernel.
LEMMA TunPacketInv ==
    ASSUME IndInv, TunReadPacket \/ TunEvict \/ TunRouteLocal \/ TunRelay \/ TunRemove
    PROVE  IndInv'
<1> USE DEF Goto, Keep, Resume, Shared, SharedTyped, At
<1>1. Tun \in Goroutine /\ Tun \notin Conn
  BY ConnAssumption DEF Goroutine
<1>2. /\ pc[Tun] \in Label /\ loc[Tun] \in Locals
      /\ Fits(heap, byBConnLCI, Tun, pc[Tun], loc[Tun])
      /\ SharedTyped /\ TableInv
      /\ [pc EXCEPT ![Tun] = pc[Tun]] = pc /\ [loc EXCEPT ![Tun] = loc[Tun]] = loc
  BY <1>1, Own
<1>3. pc[Tun] \in HoldingLabel => loc[Tun].s \in Ref /\ heap[loc[Tun].s] # NoSession
  BY <1>2 DEF Fits, Locals, Pointer
<1>4. ASSUME NEW l \in KernelLCIs, TunCall(l)
      PROVE  IndInv'
  <2> DEFINE locals == KernelCall(l, byALCI[l])
  <2>1. l \in LCI /\ byALCI[l] \in Pointer
    BY <1>2, PacketAssumption DEF TableInv, SMTypeOK
  <2>2. PICK label \in {"route", "evict"} :
           /\ Goto(Tun, label)
           /\ label = "evict" => byALCI[l] # NoSession
    BY <1>4 DEF TunCall, GetByALCI
  <2>3. UNCHANGED <<smVars, Shared>> /\ loc' = [loc EXCEPT ![Tun] = locals]
    BY <1>4 DEF TunCall, GetByALCI, KernelCall
  <2>4. locals \in Locals /\ locals.lci = l /\ locals.s = byALCI[l] /\ locals.todo = {}
    BY <2>1, KernelCallLocals
  <2> HIDE DEF locals
  <2>5. byALCI[l] # NoSession => heap[byALCI[l]] # NoSession
    BY <1>2, <2>1, FoundIsAllocated
  <2>6. label \in Label /\ Fits(heap, byBConnLCI, Tun, label, locals)
    BY <1>1, <2>2, <2>4, <2>5
       DEF Label, Fits, HoldingLabel, KernelCallLabel, SessionlessLabel, CleaningLabel
  <2> QED
    BY <1>1, <1>2, <2>2, <2>3, <2>4, <2>6, QuietStep
<1>5. ASSUME NEW type \in PacketType, NEW l \in TunLCIs, TunPacket(type, l)
      PROVE  IndInv'
  BY <1>5, LookupInv, PacketAssumption DEF TunPacket
<1>6. CASE TunEvict
  <2> DEFINE locals == [loc[Tun] EXCEPT !.s = NoSession]
  <2>1. loc[Tun].s \in Ref /\ heap[loc[Tun].s] # NoSession /\ loc[Tun].lci \in KernelLCIs
    BY <1>2, <1>3, <1>6 DEF TunEvict, HoldingLabel, Fits, KernelCallLabel
  <2>2. TableInv' /\ Shrinks
    BY <1>2, <1>6, <2>1, RemoveSessionTable DEF TunEvict
  <2>3. /\ locals \in Locals /\ locals.s = NoSession /\ locals.todo = loc[Tun].todo
        /\ locals.lci = loc[Tun].lci
    BY <1>2 DEF Locals, Pointer
  <2>4. /\ pc' = [pc EXCEPT ![Tun] = "route"] /\ loc' = [loc EXCEPT ![Tun] = locals]
        /\ UNCHANGED Shared
    BY <1>6 DEF TunEvict
  <2> HIDE DEF locals
  <2>5. \A r \in loc[Tun].todo : heap'[r] # NoSession
    BY <1>2, <2>2 DEF Shrinks, HeapKept, Fits, Locals
  <2>6. "route" \in Label /\ Fits(heap', byBConnLCI', Tun, "route", locals)
    BY <1>1, <2>1, <2>3, <2>5
       DEF Label, Fits, HoldingLabel, KernelCallLabel, SessionlessLabel, CleaningLabel
  <2> QED
    BY <1>1, <1>2, <2>2, <2>3, <2>4, <2>6, GoroutineStep DEF Shrinks
<1>7. CASE TunRouteLocal
  <2>1. loc[Tun].lci \in LCI /\ "CALL_REQ" \in PacketType
    BY <1>2 DEF Locals, PacketType
  <2> QED
    BY <1>7, <2>1, LookupInv DEF TunRouteLocal
<1>8. CASE TunRemove
  <2>1. loc[Tun].s \in Ref /\ heap[loc[Tun].s] # NoSession
    BY <1>3, <1>8 DEF TunRemove, HoldingLabel
  <2>2. TableInv' /\ Shrinks
    BY <1>2, <1>8, <2>1, RemoveSessionTable DEF TunRemove
  <2>3. NoLocals \in Locals /\ "read" \in Label /\ Fits(heap', byBConnLCI', Tun, "read", NoLocals)
    BY <1>1, NoLocalsFit
  <2> QED
    BY <1>1, <1>2, <1>8, <2>2, <2>3, GoroutineStep DEF TunRemove, Shrinks
<1>9. CASE TunRelay
  <2>1. loc[Tun].s \in Ref /\ heap[loc[Tun].s] # NoSession /\ pc[Tun] = "relay"
    BY <1>3, <1>9 DEF TunRelay, HoldingLabel
  <2>2. UNCHANGED <<shuttingDown, signal>>
    BY <1>9 DEF TunRelay
  <2>3. \/ (\E st \in State : SetState(loc[Tun].s, st)) \/ UNCHANGED smVars
    BY <1>9 DEF TunRelay, State, StateP4, StateP5
  <2>4. TableInv' /\ Shrinks
    BY <1>2, <2>1, <2>3, SetStateTable, TableFrame
  <2>5. CASE TunTail
    BY <2>2, <2>4, <2>5, TunTailInv
  <2>6. CASE Goto(Tun, "remove") /\ UNCHANGED <<loc, linkState>>
    <3>1. loc[Tun].s # NoSession
      BY <2>1, NilAssumption
    <3>2. /\ heap'[loc[Tun].s] # NoSession
          /\ \A r \in loc[Tun].todo : heap'[r] # NoSession
      BY <1>2, <2>1, <2>4 DEF Shrinks, HeapKept, Fits, Locals
    <3>3. "remove" \in Label /\ Fits(heap', byBConnLCI', Tun, "remove", loc[Tun])
      BY <1>1, <3>1, <3>2
         DEF Label, Fits, HoldingLabel, KernelCallLabel, SessionlessLabel, CleaningLabel
    <3> QED
      BY <1>1, <1>2, <2>2, <2>4, <2>6, <3>3, GoroutineStep DEF Shrinks
  <2> QED
    BY <1>9, <2>5, <2>6 DEF TunRelay
<1> QED
  BY <1>4, <1>5, <1>6, <1>7, <1>8, <1>9 DEF TunReadPacket

\* The reader of the TUN device.
LEMMA TunStepInv ==
    ASSUME IndInv, TunStep
    PROVE  IndInv'
BY TunControlInv, TunPacketInv, TunForwardInv DEF TunStep, TunContinue

\* The signal handler moves no goroutine.
LEMMA SignalStepInv ==
    ASSUME IndInv, SignalStep
    PROVE  IndInv'
<1> USE DEF SharedTyped
<1>1. Tun \in Goroutine
  BY DEF Goroutine
<1>2. /\ pc[Tun] \in Label /\ loc[Tun] \in Locals
      /\ Fits(heap, byBConnLCI, Tun, pc[Tun], loc[Tun])
      /\ SharedTyped /\ TableInv
      /\ [pc EXCEPT ![Tun] = pc[Tun]] = pc /\ [loc EXCEPT ![Tun] = loc[Tun]] = loc
  BY <1>1, Own
<1>3. UNCHANGED <<pc, loc>> /\ SharedTyped'
  BY <1>2 DEF SignalStep, SignalFlag, SignalCloseListener, SignalCloseAll, SignalExit
<1>4. RemoveAllSessions \/ UNCHANGED smVars
  BY DEF SignalStep, SignalFlag, SignalCloseListener, SignalCloseAll, SignalExit
<1>5. TableInv' /\ Shrinks
  BY <1>2, <1>4, RemoveAllSessionsTable, TableFrame
<1>6. Fits(heap', byBConnLCI', Tun, pc[Tun], loc[Tun])
  BY <1>1, <1>2, <1>5, FitsFrame, ConnAssumption DEF Shrinks
<1> QED
  BY <1>1, <1>2, <1>3, <1>5, <1>6, GoroutineStep DEF Shrinks

\* The collector takes nothing a map or a goroutine refers to.
LEMMA CollectInv ==
    ASSUME IndInv, NEW r \in Ref, Collect(r)
    PROVE  IndInv'
<1>1. /\ heap' = [heap EXCEPT ![r] = NoSession] /\ ~Indexed(r) /\ r \notin Held
      /\ UNCHANGED <<sessions, byALCI, byBConnLCI, nextLCI, gwVars>>
  BY DEF Collect
<1>2. /\ SMTypeOK /\ IndexedIsRegistered /\ TableInv
      /\ loc \in [Goroutine -> Locals]
  BY DEF IndInv, TypeOK, TableInv, Locals
<1>3. heap' \in [Ref -> Session \union {NoSession}] /\ \A q \in Ref : q # r => heap'[q] = heap[q]
  BY <1>1, <1>2 DEF SMTypeOK
<1>4. SMTypeOK' /\ IndexedIsRegistered'
  BY <1>1, <1>2, <1>3, HeapFrame
<1>5. \A id \in ID : sessions[id] # NoSession => sessions[id] \in Ref /\ sessions[id] # r
  BY <1>1, <1>2 DEF Indexed, SMTypeOK, Pointer
<1>6. TableInv'
  BY <1>1, <1>2, <1>3, <1>4, <1>5, KeysTable
<1>7. TypeOK'
  BY <1>1, <1>6 DEF IndInv, TypeOK, TableInv, gwVars
<1>8. ASSUME NEW g \in Goroutine
      PROVE  Fits(heap', byBConnLCI, g, pc[g], loc[g])
  <2>1. Fits(heap, byBConnLCI, g, pc[g], loc[g])
    BY DEF IndInv, GoroutinesFit
  <2>2. loc[g].s \in Pointer /\ loc[g].todo \subseteq Ref
    BY <1>2 DEF Locals
  <2> DEFINE Hold(h) == {loc[h].s} \union loc[h].todo
  <2>5. r \notin Hold(g)
    <3>1. r \notin UNION {Hold(h) : h \in Goroutine}
      BY <1>1, NilAssumption DEF Held
    <3> HIDE DEF Hold
    <3> QED
      BY <3>1
  <2>3. loc[g].s # NoSession => loc[g].s \in Ref /\ loc[g].s # r
    BY <2>2, <2>5 DEF Pointer
  <2>4. r \notin loc[g].todo
    BY <2>5
  <2> QED
    BY <1>3, <2>1, <2>2, <2>3, <2>4 DEF Fits
<1>9. GoroutinesFit'
  BY <1>1, <1>8 DEF GoroutinesFit, gwVars
<1> QED
  BY <1>6, <1>7, <1>9 DEF IndInv

\* A stuttering step.
LEMMA StutterInv == ASSUME IndInv, UNCHANGED vars PROVE IndInv'
<1>1. UNCHANGED smVars /\ UNCHANGED gwVars
  BY DEF vars
<1>2. TableInv'
  BY <1>1, TableFrame DEF IndInv
<1> QED
  BY <1>1, <1>2 DEF IndInv, TypeOK, TableInv, GoroutinesFit, gwVars, smVars

\* The gateway starts with empty maps, and every goroutine without locals.
LEMMA InitInv == Init => IndInv
<1> SUFFICES ASSUME Init PROVE IndInv
  OBVIOUS
<1>1. SMTypeOK /\ IndexedIsRegistered /\ SMInit
  BY InitSound DEF Init
<1>2. FoundByItsConn /\ AllocatedChannelsUnique
  BY <1>1 DEF SMInit, NoIDs, FoundByItsConn, AllocatedChannelsUnique
<1>3. NoLocals \in Locals
  BY LCIAssumption DEF NoLocals, Locals, Pointer, LCI
<1>4. TypeOK
  BY <1>1, <1>3 DEF Init, TypeOK, Label, Locals
<1>5. \A c \in Conn, l \in LCI : byBConnLCI[c][l] = NoSession
  BY <1>1 DEF SMInit, NoConns, NoLCIs
<1>6. ASSUME NEW g \in Goroutine
      PROVE  Fits(heap, byBConnLCI, g, pc[g], loc[g])
  <2>1. pc[g] \in {"read", "idle"} /\ loc[g] = NoLocals
    BY DEF Init
  <2> QED
    BY <1>5, <2>1 DEF NoLocals, Fits, HoldingLabel, KernelCallLabel, SessionlessLabel,
                      CleaningLabel
<1> QED
  BY <1>1, <1>2, <1>4, <1>6 DEF IndInv, TableInv, GoroutinesFit

\* The invariant is inductive.
LEMMA StepInv == ASSUME IndInv, [Next]_vars PROVE IndInv'
BY ServerStepInv, GatewayStepInv, CleanupStepInv, TunStepInv, SignalStepInv, CollectInv,
   StutterInv DEF Next

-----------------------------------------------------------------------------
\* The inductive invariant holds throughout.
LEMMA Invariance == Spec => []IndInv
BY InitInv, StepInv, PTL DEF Spec

(***************************************************************************)
(* Every variable of tun-gateway keeps its type: the maps hold pointers to *)
(* Sessions, every goroutine is at a label of its own handler.             *)
(***************************************************************************)
THEOREM GatewayTypeCorrect == Spec => []TypeOK
<1>1. IndInv => TypeOK
  BY DEF IndInv
<1> QED
  BY <1>1, Invariance, PTL

(***************************************************************************)
(* The maps agree under the handlers of tun-gateway, for any number of     *)
(* connections and channels.                                               *)
(***************************************************************************)
THEOREM GatewayIndexesRegistered == Spec => []IndexedIsRegistered
<1>1. IndInv => IndexedIsRegistered
  BY DEF IndInv, TableInv
<1> QED
  BY <1>1, Invariance, PTL

(***************************************************************************)
(* A connection finds each of its registered sessions: cleanupConn, which  *)
(* asks the index by connection only, overlooks none.                      *)
(***************************************************************************)
THEOREM ConnFindsItsSessions == Spec => []FoundByItsConn
<1>1. IndInv => FoundByItsConn
  BY DEF IndInv, TableInv
<1> QED
  BY <1>1, Invariance, PTL

(***************************************************************************)
(* An allocated channel that is none of the kernel's belongs to one        *)
(* session, also after RemoveByBConnLCI has deleted A entries unseen.      *)
(***************************************************************************)
THEOREM ChannelsUnique == Spec => []AllocatedChannelsUnique
<1>1. IndInv => AllocatedChannelsUnique
  BY DEF IndInv, TableInv
<1> QED
  BY <1>1, Invariance, PTL

\* A goroutine that has ended has no session in the index, hence none in any map.
LEMMA SessionlessIsClosed == IndInv => ClosedConnHasNoSession
<1> SUFFICES ASSUME IndInv, NEW c \in Conn, pc[c] = "done",
                    NEW r \in Ref, Indexed(r), heap[r].ConnB = c
             PROVE  FALSE
  BY DEF ClosedConnHasNoSession
<1>1. \A l \in LCI : byBConnLCI[c][l] = NoSession
  BY DEF IndInv, GoroutinesFit, Fits, SessionlessLabel, Goroutine
<1>2. r # NoSession
  BY NilAssumption
<1>3. CASE \E id \in ID : sessions[id] = r
  <2>1. PICK id \in ID : sessions[id] = r
    BY <1>3
  <2>2. byBConnLCI[c][heap[r].LciB] = r /\ heap[r].LciB \in LCI
    BY <1>2, <2>1, RegisteredFacts DEF IndInv, TableInv, FoundByItsConn
  <2> QED
    BY <1>1, <1>2, <2>2
<1>4. CASE \E l \in LCI : byALCI[l] = r
  <2>1. sessions[IdOf(heap[r])] = r /\ heap[r] # NoSession
    BY <1>2, <1>4 DEF IndInv, TableInv, IndexedIsRegistered, AEntryRegistered
  <2>2. IdOf(heap[r]) \in ID
    BY <2>1, IdOfIsID DEF IndInv, TableInv, SMTypeOK
  <2> QED
    BY <1>3, <2>1, <2>2
<1>5. CASE \E d \in Conn, l \in LCI : byBConnLCI[d][l] = r
  <2>1. PICK d \in Conn, l \in LCI : byBConnLCI[d][l] = r
    BY <1>5
  <2>2. heap[r].ConnB = d
    BY <1>2, <2>1 DEF IndInv, TableInv, IndexedIsRegistered, BEntryRegistered
  <2> QED
    BY <1>1, <1>2, <2>1, <2>2
<1> QED
  BY <1>3, <1>4, <1>5 DEF Indexed

(***************************************************************************)
(* A closed connection leaves no session behind, whatever reader, signal   *)
(* handler and the other connections do to the maps during its cleanup.    *)
(***************************************************************************)
THEOREM ClosedConnIsForgotten == Spec => []ClosedConnHasNoSession
BY SessionlessIsClosed, Invariance, PTL
-----------------------------------------------------------------------------
(***************************************************************************)
(* The composition with the kernel's link layer.                           *)
(***************************************************************************)
tunAt == pc[Tun]

Frame == {"connect", "disconnect", "restart"}

\* The frames in the device; the reader has taken a RESTART_REQ out of it
\* when it may cause another one.
DeviceTyped == /\ kernelLink \in 0..3
               /\ device \in Seq(Frame)
               /\ Len(device) <= MaxQueue + 1
               /\ tunAt \in {"restart", "confirm"} => Len(device) <= MaxQueue

-----------------------------------------------------------------------------
(***************************************************************************)
(* Every step of the composition is one of tun-gateway or leaves it alone. *)
(***************************************************************************)
LEMMA LinkStepIsGatewayStep == [LinkNext]_linkVars => [Next]_vars
<1> SUFFICES ASSUME [LinkNext]_linkVars PROVE [Next]_vars
  OBVIOUS
<1>1. CASE KernelTransmit \/ KernelT20 \/ KernelTerminate \/ UNCHANGED linkVars
  BY <1>1 DEF KernelTransmit, KernelT20, KernelTerminate, KernelSends, linkVars
<1>2. CASE ReadConnect
  BY <1>2 DEF ReadConnect, Next, TunStep, TunReadControl
<1>3. CASE ReadDisconnect
  BY <1>3 DEF ReadDisconnect, Next, TunStep, TunReadControl
<1>4. CASE ReadRestart
  BY <1>4 DEF ReadRestart, Next, TunStep, TunReadControl
<1>5. CASE Confirm \/ Packets
  BY <1>5 DEF Confirm, Packets, Next, TunStep
<1>6. CASE Servers
  BY <1>6 DEF Servers, Next
<1> QED
  BY <1>1, <1>2, <1>3, <1>4, <1>5, <1>6 DEF LinkNext

(***************************************************************************)
(* The composition implements tun-gateway: what is proved of its sessions  *)
(* holds with this kernel too.                                             *)
(***************************************************************************)
THEOREM LinkImplementsGateway == LinkSpec => Spec
<1>1. LinkInit => Init
  BY DEF LinkInit
<1> QED
  BY <1>1, LinkStepIsGatewayStep, PTL DEF LinkSpec, Spec

-----------------------------------------------------------------------------
(***************************************************************************)
(* What the steps do to the reader, the link state and the sessions.       *)
(***************************************************************************)
NoSessions == \A id \in ID : sessions[id] = NoSession

\* A step of another goroutine; a session appears on a settled link only,
\* unless the environment is hasty.
LEMMA ServersFrame ==
    ASSUME IndInv, Servers
    PROVE  /\ UNCHANGED <<tunAt, linkState, kernelLink, device>>
           /\ NoSessions /\ ~Hasty /\ ~LinkSettled => NoSessions'
<1>1. linkState' = linkState /\ pc'[Tun] = pc[Tun]
  <2>0. pc \in [Goroutine -> Label] /\ Tun \in Goroutine
    BY DEF IndInv, TypeOK, Goroutine
  <2>1. ASSUME NEW c \in SvrConn, ServerStep(c)
        PROVE  linkState' = linkState /\ pc'[Tun] = pc[Tun]
    BY <2>0, <2>1, ConnAssumption DEF ServerStep, Accept, ReadFails, SvrCall, SvrData, SvrClear,
       SvrRemove, SvrLink, SvrShutdown, SvrAllocate, SvrWrite, Shared, Goto, Resume, CheckLink
  <2>2. ASSUME NEW c \in GwyConn, GatewayStep(c)
        PROVE  linkState' = linkState /\ pc'[Tun] = pc[Tun]
    BY <2>0, <2>2, ConnAssumption DEF GatewayStep, FwdCheck, FwdDial, FwdAdd, ReadFails,
       GwyRemove, GwyRead, Shared, Goto, Resume
  <2>3. ASSUME NEW c \in Conn, CleanupStep(c)
        PROVE  linkState' = linkState /\ pc'[Tun] = pc[Tun]
    BY <2>0, <2>3, ConnAssumption DEF CleanupStep, CleanupSnapshot, CleanupWrite, CleanupRemove,
       CleanupDone, CleanupCheck, Shared, Goto, Resume
  <2>4. ASSUME NEW r \in Ref, Collect(r)
        PROVE  linkState' = linkState /\ pc'[Tun] = pc[Tun]
    BY <2>4 DEF Collect, gwVars
  <2> QED
    BY <2>1, <2>2, <2>3, <2>4 DEF Servers
<1> QED
  BY <1>1 DEF Servers, NewSession, NoSessions, tunAt

\* The reader goes on with a packet of a circuit, or takes the next one: no
\* session appears, and it is back at "read" with none after a closeAllSessions.
LEMMA PacketsFrame ==
    ASSUME IndInv, Packets
    PROVE  /\ UNCHANGED <<linkState, kernelLink, device>>
           /\ NoSessions => NoSessions'
           /\ tunAt = "read" => device = << >>
           /\ tunAt # "confirm"
           /\ tunAt' = "confirm" => tunAt = "restart"
           /\ tunAt' = "closeAll" => linkState = "Down"
           /\ tunAt = "closeAll" => NoSessions'
           /\ tunAt' # "restart"
<1> USE DEF tunAt, At, Goto, Resume
<1> linkState' = linkState /\ UNCHANGED <<kernelLink, device>>
  BY DEF Packets
<1>0. pc \in [Goroutine -> Label] /\ Tun \in Goroutine /\ sessions \in [ID -> Pointer]
  BY DEF IndInv, TypeOK, Goroutine, SMTypeOK
<1>tail. ASSUME TunTail PROVE pc'[Tun] \in {"read", "closeAll"} /\ (pc'[Tun] = "closeAll" => linkState = "Down")
  BY <1>0, <1>tail DEF TunTail
<1>lookup. ASSUME NEW type, NEW l, Lookup(type, l)
           PROVE  /\ pc'[Tun] \in {"read", "closeAll", "relay"}
                  /\ pc'[Tun] = "closeAll" => linkState = "Down"
                  /\ sessions' = sessions
  BY <1>0, <1>tail, <1>lookup DEF Lookup, smVars
<1>remove. ASSUME NEW r, RemoveSession(r), NoSessions PROVE NoSessions'
  BY <1>0, <1>remove DEF RemoveSession, NoSessions, Without
<1>1. CASE TunCloseAll \/ TunRestartClose
  BY <1>0, <1>1 DEF TunCloseAll, TunRestartClose, RemoveAllSessions, NoIDs, NoSessions
<1>2. CASE TunEvict \/ TunRemove
  BY <1>0, <1>remove, <1>2 DEF TunEvict, TunRemove
<1>3. CASE TunRouteLocal
  BY <1>0, <1>lookup, <1>3 DEF TunRouteLocal, NoSessions
<1>4. CASE TunRelay
  <2>1. sessions' = sessions
    BY <1>4 DEF TunRelay, SetState, smVars
  <2>2. TunTail \/ pc'[Tun] = "remove"
    BY <1>0, <1>4 DEF TunRelay
  <2> QED
    BY <1>tail, <1>4, <2>1, <2>2 DEF TunRelay, NoSessions
<1>5. CASE \E c \in GwyConn : TunForward(c)
  BY <1>0, <1>5, ConnAssumption DEF TunForward, smVars, NoSessions, Goroutine
<1>6. CASE device = << >> /\ TunReadPacket
  <2>1. CASE \E l \in KernelLCIs : TunCall(l)
    BY <1>0, <1>6, <2>1 DEF TunCall, smVars, NoSessions
  <2>2. ASSUME NEW type, NEW l, TunPacket(type, l)
        PROVE  /\ pc[Tun] = "read" /\ pc'[Tun] \in {"read", "closeAll", "relay"}
               /\ pc'[Tun] = "closeAll" => linkState = "Down"
               /\ sessions' = sessions
    BY <1>lookup, <2>2 DEF TunPacket
  <2> QED
    BY <1>6, <2>1, <2>2 DEF TunReadPacket, NoSessions
<1> QED
  BY <1>1, <1>2, <1>3, <1>4, <1>5, <1>6 DEF Packets, TunContinue

(***************************************************************************)
(* The types of the composition.                                           *)
(***************************************************************************)
\* Sequences of frames.
LEMMA FrameSeqs ==
    /\ \A d \in Seq(Frame) : Len(d) \in Nat
    /\ \A d \in Seq(Frame), f \in Frame :
          Append(d, f) \in Seq(Frame) /\ Len(Append(d, f)) = Len(d) + 1
    /\ \A d \in Seq(Frame) :
          d # << >> => Tail(d) \in Seq(Frame) /\ Len(Tail(d)) = Len(d) - 1
OBVIOUS

\* The kernel queues at most one frame in answer to a frame.
LEMMA KernelGetsTyped ==
    ASSUME kernelLink \in 0..3, NEW d \in Seq(Frame), NEW f, KernelGets(f, d)
    PROVE  /\ kernelLink' \in 0..3 /\ device' \in Seq(Frame)
           /\ Len(device') \in {Len(d), Len(d) + 1}
<1>1. CASE device' = Append(d, "restart")
  BY <1>1, FrameSeqs DEF KernelGets, Frame
<1>2. CASE device' = d
  BY <1>2 DEF KernelGets
<1> QED
  BY <1>1, <1>2 DEF KernelGets

\* What waits in the device keeps its type.
LEMMA TypedStep == ASSUME IndInv, DeviceTyped, [LinkNext]_linkVars PROVE DeviceTyped'
<1> USE DEF At
<1> MaxQueue \in Nat \ {0} /\ pc \in [Goroutine -> Label] /\ Tun \in Goroutine
  BY BoundAssumption DEF IndInv, TypeOK, Goroutine
<1>0. Len(device) \in Nat
  BY FrameSeqs DEF DeviceTyped
<1>1. CASE KernelTransmit \/ KernelT20 \/ KernelTerminate
  <2>1. PICK f \in Frame, link \in 0..3 : KernelSends(f, link)
    BY <1>1 DEF KernelTransmit, KernelT20, KernelTerminate, Frame
  <2>2. Len(device) < MaxQueue /\ device' = Append(device, f) /\ kernelLink' = link
    BY <2>1 DEF KernelSends
  <2>3. device' \in Seq(Frame) /\ Len(device') = Len(device) + 1
    BY <2>2, FrameSeqs DEF DeviceTyped
  <2> QED
    BY <1>0, <2>2, <2>3 DEF DeviceTyped
<1>2. CASE ReadConnect
  <2>1. tunAt' = tunAt /\ tunAt = "read"
    BY <1>2 DEF ReadConnect, Reads, TunConnect, vars, gwVars, tunAt
  <2>2. Tail(device) \in Seq(Frame) /\ Len(Tail(device)) = Len(device) - 1
    BY <1>2, FrameSeqs DEF ReadConnect, Reads, DeviceTyped
  <2>3. CASE KernelGets("connect", Tail(device))
    <3>1. /\ kernelLink' \in 0..3 /\ device' \in Seq(Frame)
          /\ Len(device') \in {Len(Tail(device)), Len(Tail(device)) + 1}
      BY <2>2, <2>3, KernelGetsTyped DEF DeviceTyped
    <3>2. Len(device') \in {Len(device) - 1, Len(device) - 1 + 1}
      BY <2>2, <3>1
    <3>3. Len(device') <= Len(device)
      BY <1>0, <3>2
    <3>4. Len(device') <= MaxQueue + 1
      BY <1>0, <3>2, <3>3 DEF DeviceTyped
    <3> QED
      BY <2>1, <3>1, <3>4 DEF DeviceTyped
  <2>4. CASE device' = Tail(device) /\ UNCHANGED kernelLink
    BY <1>0, <2>1, <2>2, <2>4 DEF DeviceTyped
  <2> QED
    BY <1>2, <2>3, <2>4 DEF ReadConnect
<1>3. CASE ReadDisconnect \/ ReadRestart
  <2>1. device # << >> /\ device' = Tail(device) /\ kernelLink' = kernelLink
    BY <1>3 DEF ReadDisconnect, ReadRestart, Reads
  <2>2. device' \in Seq(Frame) /\ Len(device') = Len(device) - 1
    BY <2>1, FrameSeqs DEF DeviceTyped
  <2> QED
    BY <1>0, <2>1, <2>2 DEF DeviceTyped
<1>4. CASE Confirm
  <2>1. tunAt = "confirm" /\ tunAt' = "read"
    BY <1>4 DEF Confirm, TunRestartConfirm, Goto, tunAt
  <2>2. /\ kernelLink' \in 0..3 /\ device' \in Seq(Frame)
        /\ Len(device') \in {Len(device), Len(device) + 1}
    BY <1>4, KernelGetsTyped DEF Confirm, DeviceTyped
  <2> QED
    BY <1>0, <2>1, <2>2 DEF DeviceTyped
<1>5. CASE Packets
  BY <1>5, PacketsFrame DEF DeviceTyped
<1>6. CASE Servers
  BY <1>6, ServersFrame DEF DeviceTyped
<1>7. CASE UNCHANGED linkVars
  BY <1>7 DEF linkVars, vars, gwVars, tunAt, DeviceTyped
<1> QED
  BY <1>1, <1>2, <1>3, <1>4, <1>5, <1>6, <1>7 DEF LinkNext

\* The composition keeps the invariant of the gateway and the types of the link.
LEMMA LinkTyped == LinkSpec => [](IndInv /\ DeviceTyped)
<1>1. LinkInit => DeviceTyped
  BY BoundAssumption DEF LinkInit, Init, DeviceTyped, Frame, tunAt, Goroutine
<1>2. DeviceTyped /\ IndInv /\ [LinkNext]_linkVars => DeviceTyped'
  BY TypedStep
<1>3. LinkSpec => []IndInv
  BY LinkImplementsGateway, Invariance, PTL
<1> QED
  BY <1>1, <1>2, <1>3, PTL DEF LinkSpec

(***************************************************************************)
(* The composition keeps its types, whatever its environment does: the     *)
(* device holds one frame more than the kernel may queue itself, the       *)
(* RESTART_REQ of a kernel that was confirmed twice.                       *)
(***************************************************************************)
THEOREM LinkTypeCorrect == LinkSpec => []LinkTypeOK
<1>1. IndInv /\ DeviceTyped => LinkTypeOK
  BY DEF IndInv, DeviceTyped, Frame, LinkTypeOK
<1> QED
  BY <1>1, LinkTyped, PTL

-----------------------------------------------------------------------------
(***************************************************************************)
(* The phases the link goes through when nothing overtakes the frames of   *)
(* the link layer.                                                         *)
(***************************************************************************)
Restarts == Seq({"restart"})

\* Duplicates of the RESTART_REQ may be left; no session exists before they
\* have been read, for one would make a genuine restart of a duplicate.
Up == /\ kernelLink = 3 /\ linkState = "Operational"
      /\ device \in Restarts
      /\ tunAt \notin {"restart", "confirm", "closeAll"}
      /\ device # << >> => NoSessions

\* The kernel waits for the RESTART_CONF, and the reader has a RESTART_REQ to
\* answer.
Establishing == /\ kernelLink = 2 /\ linkState = "Connecting"
                /\ device \in Restarts /\ NoSessions
                /\ tunAt = "confirm" \/ (tunAt = "read" /\ device # << >>)

\* The link is down on both sides, or the kernel has just asked for it.
Down == /\ linkState = "Down"
        /\ tunAt \notin {"restart", "confirm"}
        /\ tunAt # "closeAll" => NoSessions
        /\ \/ kernelLink = 0 /\ device = << >>
           \/ kernelLink = 1 /\ device = <<"connect">>

\* The kernel has terminated the link, and the reader has not read it yet.
Terminating == /\ \/ kernelLink = 0 /\ device = <<"disconnect">>
                  \/ kernelLink = 1 /\ device = <<"disconnect", "connect">>
               /\ \/ linkState = "Operational" /\ tunAt \notin {"restart", "confirm", "closeAll"}
                  \/ linkState = "Connecting" /\ tunAt = "confirm"

Phase == Up \/ Establishing \/ Down \/ Terminating

-----------------------------------------------------------------------------
\* A queue of nothing but RESTART_REQs stays one when one is read or appended.
LEMMA RestartSeqs ==
    /\ << >> \in Restarts /\ <<"restart">> \in Restarts
    /\ \A d \in Restarts : Append(d, "restart") \in Restarts /\ Append(d, "restart") # << >>
    /\ \A d \in Restarts : d # << >> => Head(d) = "restart" /\ Tail(d) \in Restarts
<1>1. << >> \in Restarts /\ <<"restart">> \in Restarts
  BY DEF Restarts
<1>2. ASSUME NEW d \in Restarts
      PROVE  Append(d, "restart") \in Restarts /\ Append(d, "restart") # << >>
  BY DEF Restarts
<1>3. ASSUME NEW d \in Restarts, d # << >>
      PROVE  Head(d) = "restart" /\ Tail(d) \in Restarts
  BY <1>3 DEF Restarts
<1> QED
  BY <1>1, <1>2, <1>3

\* A frame behind another.
LEMMA AppendToOne == ASSUME NEW x, NEW y PROVE Append(<<x>>, y) = <<x, y>>
<1>1. /\ Append(<<x>>, y) \in Seq({x, y}) /\ <<x, y>> \in Seq({x, y})
      /\ Len(Append(<<x>>, y)) = 2 /\ Len(<<x, y>>) = 2
  OBVIOUS
<1>2. Append(<<x>>, y)[1] = x /\ Append(<<x>>, y)[2] = y
  OBVIOUS
<1>3. ASSUME NEW i \in 1..2 PROVE Append(<<x>>, y)[i] = <<x, y>>[i]
  BY <1>2
<1> QED
  BY <1>1, <1>3, SeqEqual

\* Heads and tails of the queues the phases have.
LEMMA ShortQueues ==
    /\ \A f : Append(<< >>, f) = <<f>>
    /\ Append(<<"disconnect">>, "connect") = <<"disconnect", "connect">>
    /\ Head(<<"connect">>) = "connect" /\ Tail(<<"connect">>) = << >>
    /\ Head(<<"disconnect">>) = "disconnect" /\ Tail(<<"disconnect">>) = << >>
    /\ Head(<<"disconnect", "connect">>) = "disconnect"
    /\ Tail(<<"disconnect", "connect">>) = <<"connect">>
    /\ <<"connect">> # << >> /\ <<"disconnect">> # << >> /\ <<"disconnect", "connect">> # << >>
<1>1. ASSUME NEW f PROVE Append(<< >>, f) = <<f>>
  OBVIOUS
<1>2. Append(<<"disconnect">>, "connect") = <<"disconnect", "connect">>
  BY AppendToOne
<1>3. /\ Head(<<"connect">>) = "connect" /\ Tail(<<"connect">>) = << >>
      /\ Head(<<"disconnect">>) = "disconnect" /\ Tail(<<"disconnect">>) = << >>
  OBVIOUS
<1>4. Head(<<"disconnect", "connect">>) = "disconnect"
  OBVIOUS
<1>5. Tail(<<"disconnect", "connect">>) = <<"connect">>
  OBVIOUS
<1>6. <<"connect">> # << >> /\ <<"disconnect">> # << >> /\ <<"disconnect", "connect">> # << >>
  OBVIOUS
<1> QED
  BY <1>1, <1>2, <1>3, <1>4, <1>5, <1>6

\* The link starts down.
LEMMA InitPhase == LinkInit => Phase
BY RestartSeqs DEF LinkInit, Init, SMInit, NoIDs, Phase, Establishing, NoSessions, tunAt, Goroutine

(***************************************************************************)
(* Each step stays in its phase or goes on to the next one.                *)
(***************************************************************************)
LEMMA KernelPhase ==
    ASSUME ~Hasty, Phase, KernelTransmit \/ KernelT20 \/ KernelTerminate
    PROVE  Phase' /\ ~(kernelLink = 3 /\ kernelLink' = 2)
<1>0. UNCHANGED <<tunAt, linkState, sessions>>
  BY DEF KernelTransmit, KernelT20, KernelTerminate, KernelSends, vars, gwVars, smVars, tunAt
<1>1. CASE KernelTransmit
  <2>1. kernelLink = 0 /\ kernelLink' = 1 /\ device' = Append(device, "connect")
    BY <1>1 DEF KernelTransmit, KernelSends
  <2>2. CASE Down
    BY <1>0, <2>1, <2>2, ShortQueues DEF Down, Phase, NoSessions
  <2>3. CASE Terminating
    <3>1. device = <<"disconnect">>
      BY <2>1, <2>3 DEF Terminating
    <3>2. device' = <<"disconnect", "connect">>
      BY <2>1, <3>1, AppendToOne
    <3>3. \/ linkState = "Operational" /\ tunAt \notin {"restart", "confirm", "closeAll"}
          \/ linkState = "Connecting" /\ tunAt = "confirm"
      BY <2>3 DEF Terminating
    <3>4. Terminating'
      BY <1>0, <2>1, <3>2, <3>3 DEF Terminating
    <3> QED
      BY <2>1, <3>4 DEF Phase
  <2> QED
    BY <2>1, <2>2, <2>3 DEF Phase, Up, Establishing
<1>2. CASE KernelT20
  <2>1. kernelLink = 2 /\ kernelLink' = 2 /\ device' = Append(device, "restart")
    BY <1>2 DEF KernelT20, KernelSends
  <2>2. Establishing
    BY <2>1 DEF Phase, Up, Down, Terminating
  <2> QED
    BY <1>0, <2>1, <2>2, RestartSeqs DEF Establishing, Phase, NoSessions
<1>3. CASE KernelTerminate
  <2>1. /\ kernelLink # 0 /\ device = << >>
        /\ kernelLink' = 0 /\ device' = Append(device, "disconnect")
    BY <1>3 DEF KernelTerminate, KernelSends
  <2>2. Up \/ (Establishing /\ tunAt = "confirm")
    BY <2>1, ShortQueues DEF Phase, Establishing, Down, Terminating
  <2> QED
    BY <1>0, <2>1, <2>2, ShortQueues DEF Up, Establishing, Terminating, Phase
<1> QED
  BY <1>1, <1>2, <1>3

\* Connect is read.
LEMMA ConnectPhase ==
    ASSUME IndInv, Phase, ReadConnect
    PROVE  Phase' /\ ~(kernelLink = 3 /\ kernelLink' = 2)
<1>1. tunAt = "read" /\ device # << >> /\ Head(device) = "connect"
  BY DEF ReadConnect, Reads, At, tunAt
<1>2. Down /\ kernelLink = 1 /\ device = <<"connect">>
  BY <1>1, RestartSeqs, ShortQueues DEF Phase, Up, Establishing, Down, Terminating
<1>3. linkState' = "Connecting" /\ UNCHANGED <<tunAt, sessions>>
  BY <1>2 DEF ReadConnect, TunConnect, Down, smVars, tunAt
<1>4. kernelLink' = 2 /\ device' = <<"restart">>
  BY <1>2, ShortQueues DEF ReadConnect, KernelGets, Down
<1> QED
  BY <1>1, <1>2, <1>3, <1>4, RestartSeqs DEF Down, Establishing, Phase, NoSessions

\* Disconnect is read.
LEMMA DisconnectPhase ==
    ASSUME IndInv, Phase, ReadDisconnect
    PROVE  Phase' /\ kernelLink' = kernelLink
<1>1. tunAt = "read" /\ device # << >> /\ Head(device) = "disconnect"
  BY DEF ReadDisconnect, Reads, At, tunAt
<1>2. Terminating
  BY <1>1, RestartSeqs, ShortQueues DEF Phase, Up, Establishing, Down
<1>3. linkState' = "Down" /\ tunAt' = "closeAll"
  BY DEF ReadDisconnect, TunDisconnect, Goto, IndInv, TypeOK, Goroutine, tunAt
<1>4. kernelLink' = kernelLink /\ device' = Tail(device)
  BY DEF ReadDisconnect
<1> QED
  BY <1>2, <1>3, <1>4, ShortQueues DEF Terminating, Down, Phase

\* A RESTART_REQ is read, genuine or repeated.
LEMMA RestartPhase ==
    ASSUME IndInv, Phase, ReadRestart
    PROVE  Phase' /\ kernelLink' = kernelLink
<1>1. tunAt = "read" /\ device # << >> /\ Head(device) = "restart"
  BY DEF ReadRestart, Reads, At, tunAt
<1>2. /\ kernelLink' = kernelLink /\ device' = Tail(device)
      /\ UNCHANGED <<sessions, linkState>>
  BY DEF ReadRestart, TunRestart, Shared, vars, smVars, gwVars
<1>3. CASE Up
  <2>1. GetAllSessions = {}
    BY <1>1, <1>3 DEF Up, NoSessions, GetAllSessions
  <2>2. tunAt' = tunAt
    BY <1>3, <2>1 DEF ReadRestart, TunRestart, Up, vars, gwVars, tunAt
  <2> QED
    BY <1>1, <1>2, <1>3, <2>2, RestartSeqs DEF Up, Phase, NoSessions
<1>4. CASE Establishing
  <2>1. tunAt' = "confirm"
    BY <1>4 DEF ReadRestart, TunRestart, Goto, Establishing, IndInv, TypeOK, Goroutine, tunAt
  <2> QED
    BY <1>1, <1>2, <1>4, <2>1, RestartSeqs DEF Establishing, Phase, NoSessions
<1> QED
  BY <1>1, <1>3, <1>4, ShortQueues DEF Phase, Down, Terminating

\* A RESTART_CONF completes the link, or is written to one that was terminated.
LEMMA ConfirmPhase ==
    ASSUME IndInv, Phase, Confirm
    PROVE  Phase' /\ ~(kernelLink = 3 /\ kernelLink' = 2)
<1>1. /\ tunAt = "confirm" /\ tunAt' = "read" /\ linkState' = "Operational" /\ sessions' = sessions
      /\ KernelGets("confirm", device)
  BY DEF Confirm, TunRestartConfirm, At, Goto, smVars, IndInv, TypeOK, Goroutine, tunAt
<1>2. CASE Establishing
  BY <1>1, <1>2 DEF Establishing, KernelGets, Up, Phase, NoSessions
<1>3. CASE Terminating
  BY <1>1, <1>3 DEF Terminating, KernelGets, Phase
<1> QED
  BY <1>1, <1>2, <1>3 DEF Phase, Up, Down

\* The reader handles packets with the link up, down, or being terminated.
LEMMA PacketsPhase ==
    ASSUME IndInv, Phase, Packets
    PROVE  Phase' /\ kernelLink' = kernelLink
<1>1. /\ UNCHANGED <<linkState, kernelLink, device>> /\ (NoSessions => NoSessions')
      /\ tunAt = "read" => device = << >>
      /\ tunAt # "confirm" /\ tunAt' # "restart"
      /\ tunAt' = "confirm" => tunAt = "restart"
      /\ tunAt' = "closeAll" => linkState = "Down"
      /\ tunAt = "closeAll" => NoSessions'
  BY PacketsFrame
<1>2. CASE Up
  BY <1>1, <1>2 DEF Up, Phase
<1>3. CASE Down
  BY <1>1, <1>3 DEF Down, Phase
<1>4. CASE Terminating
  BY <1>1, <1>4 DEF Terminating, Phase
<1> QED
  BY <1>1, <1>2, <1>3, <1>4 DEF Phase, Establishing

\* Steps of the handlers and of the device leave the link in its phase.
LEMMA ServersPhase ==
    ASSUME IndInv, ~Hasty, Phase, Servers
    PROVE  Phase' /\ kernelLink' = kernelLink
<1>1. /\ UNCHANGED <<tunAt, linkState, kernelLink, device>>
      /\ NoSessions /\ ~LinkSettled => NoSessions'
  BY ServersFrame
<1> QED
  BY <1>1 DEF Phase, Up, Establishing, Down, Terminating, LinkSettled

\* Every step leads from a phase to a phase.
LEMMA PhaseStep ==
    ASSUME IndInv, ~Hasty, Phase, [LinkNext]_linkVars
    PROVE  Phase' /\ ~(kernelLink = 3 /\ kernelLink' = 2)
<1>1. CASE UNCHANGED linkVars
  BY <1>1 DEF linkVars, vars, gwVars, smVars, tunAt, Phase, Up, Establishing, Down, Terminating,
              NoSessions
<1> QED
  BY <1>1, KernelPhase, ConnectPhase, DisconnectPhase, RestartPhase, ConfirmPhase,
     PacketsPhase, ServersPhase DEF LinkNext

\* If nothing overtakes the frames the link is always in one of the phases.
LEMMA Phases == ASSUME ~Hasty PROVE LinkSpec => [](IndInv /\ Phase)
<1>1. IndInv /\ Phase /\ [LinkNext]_linkVars => Phase'
  BY PhaseStep
<1>2. LinkSpec => []IndInv
  BY LinkTyped, PTL
<1> QED
  BY <1>1, <1>2, InitPhase, PTL DEF LinkSpec

-----------------------------------------------------------------------------
(***************************************************************************)
(* Once every frame has been handled both sides agree whether the link is  *)
(* up, provided that no call arrives and no link is terminated while the   *)
(* gateway is behind with frames of the link layer.                        *)
(***************************************************************************)
THEOREM ViewsAgree == ASSUME ~Hasty PROVE LinkSpec => []SettledViewsAgree
<1>1. Phase => SettledViewsAgree
  BY ShortQueues DEF Phase, Up, Establishing, Down, Terminating, SettledViewsAgree, tunAt
<1> QED
  BY <1>1, Phases, PTL

(***************************************************************************)
(* COMPAT004: under the same condition no RESTART_CONF reaches a kernel    *)
(* whose link is up, whatever RESTART_REQs its T20 has repeated.           *)
(***************************************************************************)
THEOREM NoSecondConfirm == ASSUME ~Hasty PROVE LinkSpec => NoDuplicateConfirm
<1>1. IndInv /\ Phase /\ [LinkNext]_linkVars =>
          [~(kernelLink = 3 /\ kernelLink' = 2)]_linkVars
  BY PhaseStep
<1> QED
  BY <1>1, Phases, PTL DEF LinkSpec, NoDuplicateConfirm
=============================================================================
