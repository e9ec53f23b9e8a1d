-------------------------- MODULE TunLoopbackProofs -------------------------
(***************************************************************************)
(* Proofs about the table of tun-loopback, for any number of interfaces,   *)
(* objects and channels.  Types hold for all ranges; that the allocator    *)
(* takes only empty slots needs the channels it allocates from to be none  *)
(* the kernels choose for their own calls.                                 *)
(***************************************************************************)
EXTENDS TunLoopback, TLAPS

RangesDisjoint == KernelLCIs \intersect RelayLCIs = {}

-----------------------------------------------------------------------------
(***************************************************************************)
(* The table as a value: a heap h, slots sl, reservations us.              *)
(***************************************************************************)
Blank == [A |-> << >>, B |-> << >>]
CallSession == [A : Node \X KernelLCIs, B : Node \X RelayLCIs]
SlotTable == [Node -> [LCI -> Pointer]]
EndsOf(s) == {s.A, s.B}

\* A call is filed under an end of its own: it arrives from a kernel's
\* channel and leaves on an allocated one.
Filed(h, sl) == \A n \in Node, l \in LCI :
                    sl[n][l] # NoSession => /\ h[sl[n][l]] \in CallSession
                                            /\ <<n, l>> \in EndsOf(h[sl[n][l]])

Reserved(h, sl, us) == \A n \in Node :
    us[n] = {l \in RelayLCIs : sl[n][l] # NoSession /\ h[sl[n][l]].B = <<n, l>>}

Whole(h, sl) == \A n \in Node, l \in LCI :
    sl[n][l] # NoSession => /\ <<n, l>> \in EndsOf(h[sl[n][l]])
                            /\ \A m \in Node, k \in LCI :
                                  <<m, k>> \in EndsOf(h[sl[n][l]]) => sl[m][k] = sl[n][l]

\* BothKeysPoint in terms of the table as a value,
LEMMA WholeIsBothKeys == BothKeysPoint <=> Whole(heap, slots)
<1>1. ASSUME NEW r PROVE Ends({r}) = EndsOf(heap[r])
  BY DEF Ends, EndsOf
<1>2. ASSUME BothKeysPoint, NEW n \in Node, NEW l \in LCI, slots[n][l] # NoSession
      PROVE  /\ <<n, l>> \in EndsOf(heap[slots[n][l]])
             /\ \A m \in Node, k \in LCI :
                   <<m, k>> \in EndsOf(heap[slots[n][l]]) => slots[m][k] = slots[n][l]
  <2>1. Ends({slots[n][l]}) = EndsOf(heap[slots[n][l]])
    BY <1>1
  <2>2. /\ <<n, l>> \in Ends({slots[n][l]})
        /\ \A m \in Node, k \in LCI :
              <<m, k>> \in Ends({slots[n][l]}) => slots[m][k] = slots[n][l]
    BY <1>2, Zenon DEF BothKeysPoint
  <2> QED
    BY <2>1, <2>2
<1>3. ASSUME Whole(heap, slots), NEW n \in Node, NEW l \in LCI, slots[n][l] # NoSession
      PROVE  /\ <<n, l>> \in Ends({slots[n][l]})
             /\ \A m \in Node, k \in LCI :
                   <<m, k>> \in Ends({slots[n][l]}) => slots[m][k] = slots[n][l]
  <2>1. Ends({slots[n][l]}) = EndsOf(heap[slots[n][l]])
    BY <1>1
  <2>2. /\ <<n, l>> \in EndsOf(heap[slots[n][l]])
        /\ \A m \in Node, k \in LCI :
              <<m, k>> \in EndsOf(heap[slots[n][l]]) => slots[m][k] = slots[n][l]
    BY <1>3, Zenon DEF Whole
  <2> QED
    BY <2>1, <2>2
<1> QED
  BY <1>2, <1>3 DEF BothKeysPoint, Whole

\* also in the next state.
LEMMA WholeIsBothKeysNext == BothKeysPoint' <=> Whole(heap, slots)'
BY WholeIsBothKeys, PTL

\* ReservedIsInUse in terms of the table as a value.
LEMMA ReservedIsReserved == ReservedIsInUse <=> Reserved(heap, slots, usedLCI)
BY DEF ReservedIsInUse, Reserved

\* What a reader has in hand: a kernel's channel for a call to be allocated,
\* a session for one to be undone or removed.
ReadersFit == \A n \in Node : /\ pc[n] = "alloc" => loc[n].lci \in KernelLCIs
                              /\ pc[n] \in {"write", "undo", "remove"} => loc[n].s \in Ref

HeapTyped == heap \in [Ref -> CallSession \union {Blank}]

\* The inductive invariant of any configuration.
LoopInv == TypeOK /\ HeapTyped /\ Filed(heap, slots) /\ ReadersFit

-----------------------------------------------------------------------------
(***************************************************************************)
(* Removal.                                                                *)
(***************************************************************************)
LEMMA WithoutFacts ==
    ASSUME TypeOK, NEW S \in SUBSET Ref
    PROVE  /\ SlotsWithout(S) \in SlotTable
           /\ UsedWithout(S) \in [Node -> SUBSET RelayLCIs]
           /\ \A n \in Node, l \in LCI :
                 /\ SlotsWithout(S)[n][l] \in {slots[n][l], NoSession}
                 /\ SlotsWithout(S)[n][l] = NoSession <=>
                       \/ slots[n][l] = NoSession
                       \/ \E r \in S : <<n, l>> \in EndsOf(heap[r])
<1>1. ASSUME NEW n \in Node, NEW l \in LCI
      PROVE  /\ SlotsWithout(S)[n][l] = IF <<n, l>> \in Ends(S) THEN NoSession ELSE slots[n][l]
             /\ SlotsWithout(S)[n][l] \in Pointer
  BY DEF SlotsWithout, TypeOK, Pointer
<1>2. SlotsWithout(S) \in SlotTable
  BY <1>1 DEF SlotsWithout, SlotTable
<1>3. ASSUME NEW n \in Node, NEW l \in LCI
      PROVE  <<n, l>> \in Ends(S) <=> \E r \in S : <<n, l>> \in EndsOf(heap[r])
  BY DEF Ends, EndsOf
<1>4. UsedWithout(S) \in [Node -> SUBSET RelayLCIs]
  BY DEF UsedWithout, TypeOK
<1> QED
  BY <1>1, <1>2, <1>3, <1>4

\* Where the ranges are disjoint a relay channel's slot is cleared exactly
\* when its reservation goes: only a B end can be there.
LEMMA WithoutTable ==
    ASSUME LoopInv, NEW S \in SUBSET Ref
    PROVE  /\ Filed(heap, SlotsWithout(S))
           /\ RangesDisjoint /\ Reserved(heap, slots, usedLCI) =>
                 Reserved(heap, SlotsWithout(S), UsedWithout(S))
<1> DEFINE W == SlotsWithout(S)
           U == UsedWithout(S)
<1>0. \A n \in Node, l \in LCI :
         /\ W[n][l] \in {slots[n][l], NoSession}
         /\ W[n][l] = NoSession <=> \/ slots[n][l] = NoSession
                                    \/ \E r \in S : <<n, l>> \in EndsOf(heap[r])
  BY WithoutFacts DEF LoopInv
<1>1. ASSUME NEW n \in Node, NEW l \in LCI, RangesDisjoint, Reserved(heap, slots, usedLCI)
      PROVE  l \in U[n] <=> l \in RelayLCIs /\ W[n][l] # NoSession /\ heap[W[n][l]].B = <<n, l>>
  <2>1. l \in U[n] <=> l \in usedLCI[n] /\ ~\E r \in S : heap[r].B = <<n, l>>
    BY DEF UsedWithout
  <2>2. l \in usedLCI[n] <=> /\ l \in RelayLCIs /\ slots[n][l] # NoSession
                             /\ heap[slots[n][l]].B = <<n, l>>
    BY <1>1 DEF Reserved
  <2>3. ASSUME l \in RelayLCIs, NEW r \in S
        PROVE  heap[r].A # <<n, l>>
    <3>1. heap[r] \in CallSession \union {Blank}
      BY DEF LoopInv, HeapTyped
    <3>2. CASE heap[r] = Blank
      BY <3>2 DEF Blank
    <3>3. CASE heap[r] \in CallSession
      BY <1>1, <2>3, <3>3 DEF CallSession, RangesDisjoint
    <3> QED
      BY <3>1, <3>2, <3>3
  <2> HIDE DEF W, U
  <2> QED
    BY <1>0, <2>1, <2>2, <2>3 DEF EndsOf
<1>2. Filed(heap, W)
  <2> HIDE DEF W
  <2> QED
    BY <1>0 DEF LoopInv, Filed
<1>3. ASSUME RangesDisjoint, Reserved(heap, slots, usedLCI) PROVE Reserved(heap, W, U)
  <2>1. \A n \in Node : U[n] \subseteq RelayLCIs /\ RelayLCIs \subseteq LCI
    BY WithoutFacts DEF LoopInv, LCI
  <2> HIDE DEF W, U
  <2> QED
    BY <1>1, <1>3, <2>1 DEF Reserved
<1> QED
  BY <1>2, <1>3

\* Sessions that are in the table go with both their slots.
LEMMA WithoutWhole ==
    ASSUME LoopInv, Whole(heap, slots), NEW S \in SUBSET Ref,
           \A r \in S : \E n \in Node, l \in LCI : slots[n][l] = r
    PROVE  Whole(heap, SlotsWithout(S))
<1> DEFINE W == SlotsWithout(S)
<1>0. \A n \in Node, l \in LCI :
         /\ W[n][l] \in {slots[n][l], NoSession}
         /\ W[n][l] = NoSession <=> \/ slots[n][l] = NoSession
                                    \/ \E r \in S : <<n, l>> \in EndsOf(heap[r])
  BY WithoutFacts DEF LoopInv
<1> HIDE DEF W
<1> SUFFICES ASSUME NEW n \in Node, NEW l \in LCI, W[n][l] # NoSession
             PROVE  /\ <<n, l>> \in EndsOf(heap[W[n][l]])
                    /\ \A m \in Node, k \in LCI :
                          <<m, k>> \in EndsOf(heap[W[n][l]]) => W[m][k] = W[n][l]
  BY DEF Whole, W
<1>1. W[n][l] = slots[n][l] /\ slots[n][l] # NoSession
  BY <1>0
<1>2. ~\E r \in S : <<n, l>> \in EndsOf(heap[r])
  BY <1>0
<1>3. <<n, l>> \in EndsOf(heap[slots[n][l]])
  BY <1>1 DEF Whole
<1>4. ASSUME NEW m \in Node, NEW k \in LCI, <<m, k>> \in EndsOf(heap[slots[n][l]])
      PROVE  W[m][k] = slots[n][l]
  <2>1. slots[m][k] = slots[n][l]
    BY <1>1, <1>4 DEF Whole
  <2>2. ASSUME NEW q \in S, <<m, k>> \in EndsOf(heap[q]) PROVE FALSE
    <3>1. PICK x \in Node, y \in LCI : slots[x][y] = q
      OBVIOUS
    <3>2. q # NoSession
      BY LoopbackAssumption
    <3>3. slots[m][k] = q
      BY <2>2, <3>1, <3>2 DEF Whole
    <3> QED
      BY <1>2, <1>3, <2>1, <3>3
  <2> QED
    BY <1>0, <1>1, <2>1, <2>2
<1> QED
  BY <1>1, <1>3, <1>4

(***************************************************************************)
(* Addition of a call r from channel a of n to channel k of d.             *)
(***************************************************************************)
HeapWith(h, r, n, a, d, k) == [h EXCEPT ![r] = [A |-> <<n, a>>, B |-> <<d, k>>]]
SlotsWith(sl, r, n, a, d, k) == [sl EXCEPT ![n][a] = r, ![d][k] = r]
UsedWith(us, d, k) == [us EXCEPT ![d] = @ \union {k}]

\* A call is added whose object is in no slot.
LEMMA AddTable ==
    ASSUME NEW h \in [Ref -> CallSession \union {Blank}], NEW sl \in SlotTable,
           NEW us \in [Node -> SUBSET RelayLCIs], Filed(h, sl),
           NEW r \in Ref, \A m \in Node, l \in LCI : sl[m][l] # r,
           NEW n \in Node, NEW d \in Node, NEW a \in KernelLCIs, NEW k \in RelayLCIs
    PROVE  /\ HeapWith(h, r, n, a, d, k) \in [Ref -> CallSession \union {Blank}]
           /\ SlotsWith(sl, r, n, a, d, k) \in SlotTable
           /\ UsedWith(us, d, k) \in [Node -> SUBSET RelayLCIs]
           /\ Filed(HeapWith(h, r, n, a, d, k), SlotsWith(sl, r, n, a, d, k))
           /\ RangesDisjoint /\ Reserved(h, sl, us) =>
                 Reserved(HeapWith(h, r, n, a, d, k), SlotsWith(sl, r, n, a, d, k),
                          UsedWith(us, d, k))
           /\ RangesDisjoint /\ Whole(h, sl) /\ sl[n][a] = NoSession /\ sl[d][k] = NoSession
                 => Whole(HeapWith(h, r, n, a, d, k), SlotsWith(sl, r, n, a, d, k))
<1> DEFINE h2 == HeapWith(h, r, n, a, d, k)
           sl2 == SlotsWith(sl, r, n, a, d, k)
           us2 == UsedWith(us, d, k)
<1>0. a \in LCI /\ k \in LCI /\ r # NoSession /\ RelayLCIs \subseteq LCI
  BY LoopbackAssumption DEF LCI
<1>1. /\ h2[r] = [A |-> <<n, a>>, B |-> <<d, k>>] /\ h2[r] \in CallSession
      /\ \A q \in Ref : q # r => h2[q] = h[q]
  BY DEF CallSession, HeapWith
<1>2. h2 \in [Ref -> CallSession \union {Blank}]
  BY <1>1 DEF HeapWith
<1>3. sl2 \in SlotTable
  BY <1>0 DEF SlotTable, Pointer, SlotsWith
<1>4. ASSUME NEW m \in Node, NEW l \in LCI
      PROVE  sl2[m][l] = IF <<m, l>> \in {<<n, a>>, <<d, k>>} THEN r ELSE sl[m][l]
  BY <1>0 DEF SlotTable, SlotsWith
<1>5. us2 \in [Node -> SUBSET RelayLCIs]
  BY DEF UsedWith
<1>6. \A m \in Node, l \in LCI : sl[m][l] # NoSession => sl[m][l] \in Ref
  BY DEF SlotTable, Pointer
<1>7. \A m \in Node, l \in RelayLCIs : l \in us2[m] <=> l \in us[m] \/ <<m, l>> = <<d, k>>
  BY DEF UsedWith
<1> HIDE DEF h2, sl2, us2
<1>8. Filed(h2, sl2)
  BY <1>0, <1>1, <1>4, <1>6 DEF Filed, EndsOf
<1>9. ASSUME RangesDisjoint, Reserved(h, sl, us) PROVE Reserved(h2, sl2, us2)
  <2>1. ASSUME NEW m \in Node, NEW l \in RelayLCIs
        PROVE  l \in us2[m] <=> sl2[m][l] # NoSession /\ h2[sl2[m][l]].B = <<m, l>>
    <3>1. l \in us[m] <=> sl[m][l] # NoSession /\ h[sl[m][l]].B = <<m, l>>
      BY <1>9 DEF Reserved
    <3>2. l \in us2[m] <=> l \in us[m] \/ <<m, l>> = <<d, k>>
      BY <1>7
    <3>3. <<m, l>> # <<n, a>>
      BY <1>9 DEF RangesDisjoint
    <3> QED
      BY <1>0, <1>1, <1>4, <1>6, <3>1, <3>2, <3>3
  <2> QED
    BY <1>5, <2>1 DEF Reserved
<1>10. ASSUME RangesDisjoint, Whole(h, sl), sl[n][a] = NoSession, sl[d][k] = NoSession
      PROVE  Whole(h2, sl2)
  <2> SUFFICES ASSUME NEW m \in Node, NEW l \in LCI, sl2[m][l] # NoSession
               PROVE  /\ <<m, l>> \in EndsOf(h2[sl2[m][l]])
                      /\ \A x \in Node, y \in LCI :
                            <<x, y>> \in EndsOf(h2[sl2[m][l]]) => sl2[x][y] = sl2[m][l]
    BY DEF Whole
  <2>1. CASE sl2[m][l] = r
    BY <1>0, <1>1, <1>4, <2>1 DEF EndsOf
  <2>2. CASE sl2[m][l] # r
    <3>1. sl2[m][l] = sl[m][l] /\ sl[m][l] \in Ref /\ h2[sl2[m][l]] = h[sl[m][l]]
      BY <1>1, <1>4, <1>6, <2>2
    <3>2. ASSUME NEW x \in Node, NEW y \in LCI, <<x, y>> \in EndsOf(h[sl[m][l]])
          PROVE  sl2[x][y] = sl[m][l]
      <4>1. sl[x][y] = sl[m][l]
        BY <1>10, <3>1, <3>2, LoopbackAssumption DEF Whole
      <4>2. <<x, y>> \notin {<<n, a>>, <<d, k>>}
        BY <1>10, <3>1, <4>1, LoopbackAssumption
      <4> QED
        BY <1>4, <4>1, <4>2
    <3>3. <<m, l>> \in EndsOf(h[sl[m][l]])
      BY <1>10, <3>1, LoopbackAssumption DEF Whole
    <3> QED
      BY <3>1, <3>2, <3>3
  <2> QED
    BY <2>1, <2>2
<1> QED
  BY <1>2, <1>3, <1>5, <1>8, <1>9, <1>10 DEF h2, sl2, us2

-----------------------------------------------------------------------------
(***************************************************************************)
(* What a step keeps.  Both keys of every call point to it afterwards if   *)
(* they did before and no late undo is made.                               *)
(***************************************************************************)
Kept == /\ LoopInv'
        /\ RangesDisjoint /\ ReservedIsInUse =>
              /\ ReservedIsInUse'
              /\ BothKeysPoint /\ ~StaleUndo => BothKeysPoint'

Label == {"read", "clearAll", "restart", "confirm", "alloc", "write", "undo", "remove", "done"}
Locals == [lci : LCI, s : Pointer, dst : SUBSET Node]
Readers == /\ pc \in [Node -> Label] /\ loc \in [Node -> Locals]
           /\ linkState \in [Node -> {"Down", "Connecting", "Operational"}]
           /\ ReadersFit

\* Reader n goes to label with new local variables, or with those it has.
LEMMA ReaderMoves ==
    ASSUME LoopInv, NEW n \in Node, NEW label \in Label, Goto(n, label),
           linkState' \in [Node -> {"Down", "Connecting", "Operational"}],
           NEW locals \in Locals, Keep(n, locals) \/ (locals = loc[n] /\ UNCHANGED loc),
           label = "alloc" => locals.lci \in KernelLCIs,
           label \in {"write", "undo", "remove"} => locals.s \in Ref
    PROVE  Readers'
<1>1. pc \in [Node -> Label] /\ loc \in [Node -> Locals]
  BY DEF LoopInv, TypeOK, Label, Locals
<1>2. /\ pc' \in [Node -> Label] /\ loc' \in [Node -> Locals]
      /\ pc'[n] = label /\ loc'[n] = locals
      /\ \A m \in Node : m # n => pc'[m] = pc[m] /\ loc'[m] = loc[m]
  BY <1>1 DEF Goto, Keep
<1>3. ReadersFit'
  BY <1>2 DEF LoopInv, ReadersFit
<1> QED
  BY <1>2, <1>3 DEF Readers

\* Locals of a reader that holds nothing.
LEMMA NoLocalsFit == NoLocals \in Locals /\ \A n \in Node : LoopInv => loc[n] \in Locals
BY LoopbackAssumption DEF NoLocals, Locals, LCI, RelayLCIs, Pointer, LoopInv, TypeOK

\* The table is left alone.
LEMMA QuietKeeps == ASSUME LoopInv, UNCHANGED tableVars, Readers' PROVE Kept
<1>1. LoopInv'
  BY DEF LoopInv, tableVars, TypeOK, HeapTyped, Filed, Readers, Label, Locals
<1>2. ReservedIsInUse => ReservedIsInUse'
  BY DEF tableVars, ReservedIsInUse
<1>3. Whole(heap, slots) => Whole(heap, slots)'
  BY DEF tableVars, Whole, EndsOf
<1>4. BothKeysPoint => BothKeysPoint'
  BY <1>3, WholeIsBothKeys, WholeIsBothKeysNext
<1> QED
  BY <1>1, <1>2, <1>4 DEF Kept

\* Sessions are removed, of which each is in the table unless the undo is late.
LEMMA RemoveKeeps ==
    ASSUME LoopInv, NEW S \in SUBSET Ref, remove(S), Readers',
           ~StaleUndo => \A r \in S : \E n \in Node, l \in LCI : slots[n][l] = r
    PROVE  Kept
<1>1. slots' = SlotsWithout(S) /\ usedLCI' = UsedWithout(S) /\ UNCHANGED <<heap, nextLCI>>
  BY DEF remove
<1>2. Filed(heap, slots)'
  BY <1>1, WithoutTable DEF Filed
<1>3. LoopInv'
  BY <1>1, <1>2, WithoutFacts DEF LoopInv, TypeOK, HeapTyped, SlotTable, Readers, Label, Locals
<1>4. ASSUME RangesDisjoint, ReservedIsInUse PROVE ReservedIsInUse'
  BY <1>1, <1>4, ReservedIsReserved, WithoutTable DEF ReservedIsInUse, Reserved
<1>5. ASSUME BothKeysPoint, ~StaleUndo PROVE BothKeysPoint'
  <2>1. Whole(heap, SlotsWithout(S))
    BY <1>5, WholeIsBothKeys, WithoutWhole
  <2>2. Whole(heap', slots')
    BY <1>1, <2>1, Zenon
  <2> QED
    BY <2>2, WholeIsBothKeysNext DEF Whole
<1> QED
  BY <1>3, <1>4, <1>5 DEF Kept

\* A call is added to slots the removal of the stale session has left empty.
LEMMA AllocateKeeps ==
    ASSUME LoopInv, NEW n \in Node, NEW d \in Node, NEW r \in Ref, Allocate(n, d, r)
    PROVE  Kept
<1> DEFINE a == loc[n].lci
           S == Stale(n)
           W == SlotsWithout(S)
           U == UsedWithout(S)
<1>1. a \in KernelLCIs /\ a \in LCI /\ S = {slots[n][a]} \ {NoSession} /\ S \in SUBSET Ref
  BY DEF LoopInv, ReadersFit, Allocate, LCI, Stale, get, TypeOK, Pointer
<1>2. PICK i \in 0..(rangeSize - 1) :
         /\ FirstFree(d, i, Used(n, d))
         /\ heap' = [heap EXCEPT ![r] = [A |-> <<n, a>>, B |-> <<d, Probe(d, i)>>]]
         /\ slots' = [W EXCEPT ![n][a] = r, ![d][Probe(d, i)] = r]
         /\ usedLCI' = [U EXCEPT ![d] = @ \union {Probe(d, i)}]
         /\ nextLCI' = [nextLCI EXCEPT ![d] = CursorAfter(Probe(d, i))]
  BY DEF Allocate
<1> DEFINE k == Probe(d, i)
<1>3. k \in RelayLCIs /\ CursorAfter(k) \in RelayLCIs
  <2>1. nextLCI[d] \in Int /\ i \in Int /\ lciStart \in Int /\ lciEnd \in Int
        /\ rangeSize \in Nat \ {0}
    BY LoopbackAssumption DEF LoopInv, TypeOK, RelayLCIs, rangeSize
  <2>2. ASSUME NEW x \in Int PROVE lciStart + (x % rangeSize) \in lciStart..lciEnd
    <3>1. x % rangeSize \in 0..(rangeSize - 1)
      BY <2>1
    <3> QED
      BY <2>1, <3>1 DEF rangeSize
  <2>3. k \in RelayLCIs
    BY <2>1, <2>2 DEF Probe, RelayLCIs
  <2>4. k \in Int
    BY <2>1, <2>3 DEF RelayLCIs
  <2> HIDE DEF k
  <2> QED
    BY <2>1, <2>2, <2>3, <2>4 DEF CursorAfter, RelayLCIs
<1>4. k \notin U[d]
  BY <1>2 DEF FirstFree, Used
<1>5. /\ W \in SlotTable /\ U \in [Node -> SUBSET RelayLCIs]
      /\ \A m \in Node, l \in LCI :
            /\ W[m][l] \in {slots[m][l], NoSession}
            /\ W[m][l] = NoSession <=> \/ slots[m][l] = NoSession
                                       \/ \E q \in S : <<m, l>> \in EndsOf(heap[q])
  BY <1>1, WithoutFacts DEF LoopInv
<1>6. /\ Filed(heap, W)
      /\ RangesDisjoint /\ Reserved(heap, slots, usedLCI) => Reserved(heap, W, U)
  BY <1>1, WithoutTable
<1>7. ASSUME Whole(heap, slots) PROVE Whole(heap, W)
  BY <1>1, <1>7, WithoutWhole
<1> HIDE DEF S, W, U, k, a
<1>8. \A m \in Node, l \in LCI : W[m][l] # r
  BY <1>5, LoopbackAssumption DEF Allocate
<1>9. W[n][a] = NoSession
  <2>1. CASE slots[n][a] # NoSession
    BY <1>1, <1>5, <2>1 DEF LoopInv, Filed
  <2> QED
    BY <1>1, <1>5, <2>1
<1>10. ASSUME RangesDisjoint, Reserved(heap, W, U) PROVE W[d][k] = NoSession
  <2>1. k \in LCI
    BY <1>3 DEF LCI
  <2>2. ASSUME W[d][k] # NoSession PROVE FALSE
    <3>1. heap[W[d][k]] \in CallSession /\ <<d, k>> \in EndsOf(heap[W[d][k]])
      BY <1>6, <2>1, <2>2 DEF Filed
    <3>2. heap[W[d][k]].B # <<d, k>>
      BY <1>3, <1>4, <1>10, <2>2 DEF Reserved
    <3>3. heap[W[d][k]].A = <<d, k>>
      BY <3>1, <3>2 DEF EndsOf
    <3> QED
      BY <1>3, <1>10, <3>1, <3>3 DEF CallSession, RangesDisjoint
  <2> QED
    BY <2>2
<1>11. heap \in [Ref -> CallSession \union {Blank}]
  BY DEF LoopInv, HeapTyped
<1>12. /\ heap' = HeapWith(heap, r, n, a, d, k)
       /\ slots' = SlotsWith(W, r, n, a, d, k)
       /\ usedLCI' = UsedWith(U, d, k)
       /\ nextLCI' = [nextLCI EXCEPT ![d] = CursorAfter(k)]
  BY <1>2 DEF k, HeapWith, SlotsWith, UsedWith
<1>13. /\ heap' \in [Ref -> CallSession \union {Blank}]
       /\ slots' \in SlotTable
       /\ usedLCI' \in [Node -> SUBSET RelayLCIs]
       /\ Filed(heap', slots')
       /\ RangesDisjoint /\ Reserved(heap, W, U) => Reserved(heap', slots', usedLCI')
       /\ RangesDisjoint /\ Whole(heap, W) /\ W[n][a] = NoSession /\ W[d][k] = NoSession
             => Whole(heap', slots')
  BY <1>1, <1>3, <1>5, <1>6, <1>8, <1>11, <1>12, AddTable
<1>14. Readers'
  <2>1. [loc[n] EXCEPT !.s = r] \in Locals
    BY NoLocalsFit DEF Locals, Pointer
  <2>2. [loc[n] EXCEPT !.s = r].s = r
    BY NoLocalsFit DEF Locals
  <2>3. /\ Goto(n, "write") /\ Keep(n, [loc[n] EXCEPT !.s = r]) /\ UNCHANGED linkState
    BY DEF Allocate
  <2>4. linkState' \in [Node -> {"Down", "Connecting", "Operational"}]
    BY <2>3 DEF LoopInv, TypeOK
  <2> QED
    BY <2>1, <2>2, <2>3, <2>4, ReaderMoves DEF Label
<1>15. CallSession \subseteq Session /\ Blank = [A |-> << >>, B |-> << >>]
  BY DEF CallSession, Session, Blank, LCI
<1>16. LoopInv'
  <2>1. heap' \in [Ref -> Session \union {[A |-> << >>, B |-> << >>]}]
    BY <1>13, <1>15
  <2>2. nextLCI' \in [Node -> RelayLCIs]
    BY <1>3, <1>12 DEF LoopInv, TypeOK
  <2>3. TypeOK'
    BY <1>13, <1>14, <2>1, <2>2 DEF TypeOK, SlotTable, Readers, Label, Locals
  <2> QED
    BY <1>13, <1>14, <2>3 DEF LoopInv, HeapTyped, Filed, Readers
<1>17. ASSUME RangesDisjoint, ReservedIsInUse
       PROVE  ReservedIsInUse' /\ (BothKeysPoint => BothKeysPoint')
  <2>1. Reserved(heap, W, U)
    BY <1>6, <1>17, ReservedIsReserved
  <2>2. Reserved(heap', slots', usedLCI')
    BY <1>13, <1>17, <2>1
  <2>3. BothKeysPoint => Whole(heap', slots')
    BY <1>7, <1>9, <1>10, <1>13, <1>17, <2>1, WholeIsBothKeys
  <2> QED
    BY <2>2, <2>3, WholeIsBothKeysNext DEF ReservedIsInUse, Reserved, Whole
<1> QED
  BY <1>16, <1>17 DEF Kept
-----------------------------------------------------------------------------
(***************************************************************************)
(* The actions of one reader.                                              *)
(***************************************************************************)
LEMMA LocalFacts ==
    ASSUME LoopInv, NEW n \in Node
    PROVE  /\ loc[n] \in Locals /\ NoLocals \in Locals
           /\ linkState \in [Node -> {"Down", "Connecting", "Operational"}]
           /\ Ref \in SUBSET Ref /\ SessionsForNode(n) \in SUBSET Ref
BY NoLocalsFit DEF LoopInv, TypeOK, SessionsForNode

\* Connect, Disconnect, restarts and the end of a reader.
LEMMA LinkKeeps == ASSUME LoopInv, NEW n \in Node, LinkStep(n) PROVE Kept
<1>1. CASE Connect(n)
  <2>1. Readers'
    BY <1>1 DEF Connect, LoopInv, TypeOK, Readers, ReadersFit, Label, Locals
  <2> QED
    BY <1>1, <2>1, QuietKeeps DEF Connect
<1>2. CASE Disconnect(n)
  <2>1. linkState' \in [Node -> {"Down", "Connecting", "Operational"}]
    BY <1>2 DEF Disconnect, LoopInv, TypeOK
  <2>2. Readers'
    BY <1>2, <2>1, LocalFacts, ReaderMoves DEF Disconnect, Label
  <2> QED
    BY <1>2, <2>2, QuietKeeps DEF Disconnect
<1>3. CASE ClearAll(n)
  <2>1. \A r \in SessionsForNode(n) : \E m \in Node, l \in LCI : slots[m][l] = r
    BY DEF SessionsForNode
  <2>2. linkState' \in [Node -> {"Down", "Connecting", "Operational"}]
    BY <1>3, LocalFacts DEF ClearAll
  <2>3. Readers'
    BY <1>3, <2>2, LocalFacts, ReaderMoves DEF ClearAll, Label
  <2> QED
    BY <1>3, <2>1, <2>3, LocalFacts, RemoveKeeps DEF ClearAll
<1>4. CASE Restart(n)
  <2>1. linkState' \in [Node -> {"Down", "Connecting", "Operational"}]
    BY <1>4, LocalFacts DEF Restart
  <2>2. Readers'
    BY <1>4, <2>1, LocalFacts, ReaderMoves DEF Restart, Label, tableVars
  <2> QED
    BY <1>4, <2>2, QuietKeeps DEF Restart
<1>5. CASE Confirm(n)
  <2>1. linkState' \in [Node -> {"Down", "Connecting", "Operational"}]
    BY <1>5, LocalFacts DEF Confirm
  <2>2. Readers'
    BY <1>5, <2>1, LocalFacts, ReaderMoves DEF Confirm, Label
  <2> QED
    BY <1>5, <2>2, QuietKeeps DEF Confirm
<1>6. CASE ReadFails(n)
  <2>1. linkState' \in [Node -> {"Down", "Connecting", "Operational"}]
    BY <1>6, LocalFacts DEF ReadFails
  <2>2. Readers'
    BY <1>6, <2>1, LocalFacts, ReaderMoves DEF ReadFails, Label
  <2> QED
    BY <1>6, <2>2, QuietKeeps DEF ReadFails
<1> QED
  BY <1>1, <1>2, <1>3, <1>4, <1>5, <1>6 DEF LinkStep

\* A CALL_REQ: lookup, add, write and its undo.
LEMMA CallKeeps == ASSUME LoopInv, NEW n \in Node, CallStep(n) PROVE Kept
<1>1. ASSUME NEW l \in KernelLCIs, NEW d \in Node, CallRequest(n, l, d) PROVE Kept
  <2> DEFINE locals == [lci |-> l, s |-> NoSession, dst |-> {d}]
  <2>1. locals \in Locals /\ locals.lci = l
    BY DEF Locals, LCI, Pointer
  <2>2. /\ Goto(n, "alloc") /\ Keep(n, locals)
        /\ linkState' \in [Node -> {"Down", "Connecting", "Operational"}]
        /\ UNCHANGED tableVars
    BY <1>1, LocalFacts DEF CallRequest
  <2> HIDE DEF locals
  <2>3. Readers'
    BY <2>1, <2>2, ReaderMoves DEF Label
  <2> QED
    BY <2>2, <2>3, QuietKeeps
<1>2. ASSUME NEW d \in Node, NEW r \in Ref, Allocate(n, d, r) PROVE Kept
  BY <1>2, AllocateKeeps
<1>3. ASSUME NEW d \in Node, Exhausted(n, d) PROVE Kept
  <2>1. /\ Stale(n) \in SUBSET Ref
        /\ \A r \in Stale(n) : \E m \in Node, l \in LCI : slots[m][l] = r
    BY <1>3 DEF Exhausted, LoopInv, ReadersFit, LCI, Stale, get, TypeOK, Pointer
  <2>2. /\ remove(Stale(n)) /\ Goto(n, "read") /\ Keep(n, NoLocals)
        /\ linkState' \in [Node -> {"Down", "Connecting", "Operational"}]
    BY <1>3, LocalFacts DEF Exhausted, Resume
  <2>3. Readers'
    BY <2>2, LocalFacts, ReaderMoves DEF Label
  <2> QED
    BY <2>1, <2>2, <2>3, RemoveKeeps
<1>4. CASE WriteCall(n)
  <2>1. /\ linkState' \in [Node -> {"Down", "Connecting", "Operational"}]
        /\ UNCHANGED tableVars /\ loc[n].s \in Ref
    BY <1>4, LocalFacts DEF WriteCall, LoopInv, ReadersFit
  <2>2. CASE Resume(n, "read")
    BY <2>1, <2>2, LocalFacts, ReaderMoves, QuietKeeps DEF Resume, Label
  <2>3. CASE Goto(n, "undo") /\ UNCHANGED loc
    <3>1. Readers'
      BY <2>1, <2>3, LocalFacts, ReaderMoves DEF Label
    <3> QED
      BY <2>1, <3>1, QuietKeeps
  <2> QED
    BY <1>4, <2>2, <2>3 DEF WriteCall
<1>5. CASE Undo(n)
  <2>1. /\ {loc[n].s} \in SUBSET Ref /\ remove({loc[n].s})
        /\ Goto(n, "read") /\ Keep(n, NoLocals) /\ pc[n] = "undo"
        /\ linkState' \in [Node -> {"Down", "Connecting", "Operational"}]
    BY <1>5, LocalFacts DEF Undo, Resume, LoopInv, ReadersFit
  <2>2. Readers'
    BY <2>1, LocalFacts, ReaderMoves DEF Label
  <2>3. pc'[n] = "read"
    BY <2>1 DEF Goto, LoopInv, TypeOK
  <2>4. ~StaleUndo => \A r \in {loc[n].s} : \E m \in Node, l \in LCI : slots[m][l] = r
    BY <2>1, <2>3 DEF StaleUndo
  <2> QED
    BY <2>1, <2>2, <2>4, RemoveKeeps
<1> QED
  BY <1>1, <1>2, <1>3, <1>4, <1>5 DEF CallStep

\* A CLR_CONF, and the removal it leads to.
LEMMA ForwardKeeps == ASSUME LoopInv, NEW n \in Node, ForwardStep(n) PROVE Kept
<1>1. ASSUME NEW l \in LCI, ClearConfirm(n, l) PROVE Kept
  <2> DEFINE locals == [lci |-> l, s |-> get(n, l), dst |-> {}]
  <2>1. locals \in Locals /\ locals.s \in Ref
    BY <1>1 DEF ClearConfirm, get, LoopInv, TypeOK, Locals, Pointer
  <2>2. /\ Goto(n, "remove") /\ Keep(n, locals)
        /\ linkState' \in [Node -> {"Down", "Connecting", "Operational"}]
        /\ UNCHANGED tableVars
    BY <1>1, LocalFacts DEF ClearConfirm
  <2> HIDE DEF locals
  <2>3. Readers'
    BY <2>1, <2>2, ReaderMoves DEF Label
  <2> QED
    BY <2>2, <2>3, QuietKeeps
<1>2. CASE RemoveConfirmed(n)
  <2>1. /\ Goto(n, "read") /\ Keep(n, NoLocals) /\ pc[n] = "remove"
        /\ linkState' \in [Node -> {"Down", "Connecting", "Operational"}]
    BY <1>2, LocalFacts DEF RemoveConfirmed, Resume
  <2>2. Readers'
    BY <2>1, LocalFacts, ReaderMoves DEF Label
  <2>3. CASE get(n, loc[n].lci) = loc[n].s /\ remove({loc[n].s})
    <3>1. {loc[n].s} \in SUBSET Ref /\ loc[n].lci \in LCI
      BY <2>1, LocalFacts DEF LoopInv, ReadersFit, Locals
    <3>2. \A r \in {loc[n].s} : \E m \in Node, l \in LCI : slots[m][l] = r
      BY <2>3, <3>1 DEF get
    <3> QED
      BY <2>2, <2>3, <3>1, <3>2, RemoveKeeps
  <2>4. CASE UNCHANGED tableVars
    BY <2>2, <2>4, QuietKeeps
  <2> QED
    BY <1>2, <2>3, <2>4 DEF RemoveConfirmed
<1> QED
  BY <1>1, <1>2 DEF ForwardStep

\* Every step keeps the table.
LEMMA StepKeeps == ASSUME LoopInv, [Next]_vars PROVE Kept
<1>1. CASE Next
  BY <1>1, LinkKeeps, CallKeeps, ForwardKeeps DEF Next
<1>2. CASE UNCHANGED vars
  <2>1. Readers'
    BY <1>2 DEF vars, LoopInv, TypeOK, Readers, ReadersFit, Label, Locals
  <2> QED
    BY <1>2, <2>1, QuietKeeps DEF vars
<1> QED
  BY <1>1, <1>2

\* At the start the table is empty.
LEMMA LoopStarts == Init => LoopInv /\ ReservedIsInUse
<1> SUFFICES ASSUME Init PROVE LoopInv /\ ReservedIsInUse
  OBVIOUS
<1>1. lciStart \in RelayLCIs
  BY LoopbackAssumption DEF RelayLCIs
<1>2. heap \in [Ref -> {Blank}]
  BY DEF Init, Blank
<1>3. TypeOK
  BY <1>1, <1>2 DEF Init, TypeOK, NoLocals, LCI, Pointer, Blank
<1>4. \A n \in Node, l \in LCI : slots[n][l] = NoSession
  BY DEF Init
<1>5. HeapTyped /\ Filed(heap, slots) /\ ReadersFit
  BY <1>2, <1>4 DEF HeapTyped, Filed, ReadersFit, Init
<1>6. ReservedIsInUse
  BY <1>4 DEF ReservedIsInUse, Init, LCI
<1> QED
  BY <1>3, <1>5, <1>6 DEF LoopInv

\* The inductive invariant holds throughout.
LEMMA LoopKept == Spec => []LoopInv
<1>1. Init => LoopInv
  BY LoopStarts
<1>2. LoopInv /\ [Next]_vars => LoopInv'
  BY StepKeeps DEF Kept
<1> QED
  BY <1>1, <1>2, PTL DEF Spec

-----------------------------------------------------------------------------
(***************************************************************************)
(* The theorems.                                                           *)
(***************************************************************************)

(***************************************************************************)
(* Whatever the readers interleave, slots hold sessions, every reservation *)
(* and every cursor lies in the relay range (allocRelayLCI wraps at its    *)
(* end), and each reader has local variables of its types.  No hypothesis  *)
(* on the ranges: it holds for overlapping ones as well.                   *)
(***************************************************************************)
THEOREM LoopbackTypeCorrect == Spec => []TypeOK
<1>1. LoopInv => TypeOK
  BY DEF LoopInv
<1> QED
  BY <1>1, LoopKept, PTL

(***************************************************************************)
(* On every interface the relay channels reserved are those a call arrives *)
(* on, in every state: add, remove, the removal of a stale session, of all *)
(* sessions of an interface, and even the late undo of a failed write keep *)
(* slots and usedLCI in step.  The hypothesis is the configuration the     *)
(* program assumes: kernels do not choose channels of the relay range.     *)
(***************************************************************************)
THEOREM ReservationsExact == ASSUME RangesDisjoint PROVE Spec => []ReservedIsInUse
<1>1. Init => ReservedIsInUse
  BY LoopStarts
<1>2. LoopInv /\ ReservedIsInUse /\ [Next]_vars => ReservedIsInUse'
  BY StepKeeps, RangesDisjoint DEF Kept
<1> QED
  BY <1>1, <1>2, LoopKept, PTL DEF Spec

(***************************************************************************)
(* Both keys of a call point to it after every step that is not the undo   *)
(* of a call the table has already forgotten.                              *)
(***************************************************************************)
THEOREM CallsWhole == ASSUME RangesDisjoint PROVE Spec => CallsStayWhole
<1>1. LoopInv /\ ReservedIsInUse /\ [Next]_vars
         => [BothKeysPoint /\ ~StaleUndo => BothKeysPoint']_vars
  BY StepKeeps, RangesDisjoint DEF Kept
<1> QED
  BY <1>1, LoopKept, ReservationsExact, PTL DEF Spec, CallsStayWhole
=============================================================================
