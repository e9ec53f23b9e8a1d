---------------------------- MODULE RoutingProofs ----------------------------
(***************************************************************************)
(* What the loops of the configuration compute, for every list of server   *)
(* entries: GetServer's the longest matching prefix, Reload's the usable   *)
(* entries.  CallRoutingProofs and RouteSyncProofs build on both.          *)
(*                                                                         *)
(* The loops are folds, recursive functions on sets of naturals.  The      *)
(* first part shows that the recursion has a solution, from the            *)
(* well-foundedness of the naturals.                                       *)
(***************************************************************************)
EXTENDS Routing, WellFoundedInduction, SequenceTheorems, FiniteSetTheorems, TLAPS

-----------------------------------------------------------------------------
(***************************************************************************)
(* Induction and recursion.                                                *)
(***************************************************************************)
\* Every set of naturals that is not empty has a least element.
LEMMA LeastNat ==
    ASSUME NEW T \in SUBSET Nat, T # {}
    PROVE  \E x \in T : \A y \in T : x <= y
<1> DEFINE Less == OpToRel(<, Nat)
<1>1. IsWellFoundedOn(Less, Nat)
  BY NatLessThanWellFounded, Zenon
<1>2. Less = {ss \in Nat \X Nat : ss[1] < ss[2]}
  BY DEF OpToRel
<1> HIDE DEF Less
<1>3. PICK x \in T : \A y \in T : <<y, x>> \notin Less
  BY <1>1, WFMin, Zenon
<1>4. ASSUME NEW y \in T PROVE x <= y
  <2>1. <<y, x>> \in Nat \X Nat /\ <<y, x>> \notin {ss \in Nat \X Nat : ss[1] < ss[2]}
    BY <1>2, <1>3
  <2>2. ~(y < x)
    BY <2>1
  <2> QED
    BY <2>2
<1> QED
  BY <1>4

\* Induction up to n, for a set.
LEMMA SetInduction ==
    ASSUME NEW n \in Nat, NEW T, 0 \in T, \A i \in 0..(n - 1) : i \in T => i + 1 \in T
    PROVE  0..n \subseteq T
<1> DEFINE S == (0..n) \ T
<1> SUFFICES ASSUME S # {} PROVE FALSE
  OBVIOUS
<1> HIDE DEF S
<1>0. S \in SUBSET Nat
  BY DEF S
<1>1. PICK x \in S : \A y \in S : x <= y
  BY <1>0, LeastNat
<1> QED
  BY <1>1 DEF S

\* Max of a set of the naturals up to n is what its name says.
LEMMA MaxOfInterval ==
    ASSUME NEW n \in Nat, NEW s \in SUBSET (1..n), s # {}
    PROVE  Max(s) \in s /\ \A y \in s : Max(s) >= y
<1> DEFINE T == {n - x : x \in s}
<1>0. T \in SUBSET Nat /\ T # {}
  <2>1. \A x \in s : n - x \in Nat
    OBVIOUS
  <2>2. \E x \in s : TRUE
    OBVIOUS
  <2> QED
    BY <2>1, <2>2
<1>1. PICK z \in T : \A y \in T : z <= y
  <2> HIDE DEF T
  <2> QED BY <1>0, LeastNat
<1>2. PICK w \in s : \A y \in s : w >= y
  BY <1>1
<1> QED
  BY <1>2 DEF Max


\* g folds step over the subsets of 1..k, the largest element last.
Folds(g, k, base, step) ==
    \A s \in SUBSET (1..k) : g[s] = IF s = {} THEN base ELSE step[<<g[s \ {Max(s)}], Max(s)>>]

\* Every step function has a fold over the subsets of 1..n.
LEMMA FoldExists ==
    ASSUME NEW n \in Nat, NEW A, NEW base \in A, NEW step \in [A \X (1..n) -> A]
    PROVE  \E g \in [SUBSET (1..n) -> A] : Folds(g, n, base, step)
<1> DEFINE T == {k \in 0..n : \E g \in [SUBSET (1..k) -> A] : Folds(g, k, base, step)}
<1>1. 0 \in T
  <2> DEFINE g == [s \in SUBSET (1..0) |-> base]
  <2>1. SUBSET (1..0) = {{}}
    OBVIOUS
  <2>2. g \in [SUBSET (1..0) -> A] /\ Folds(g, 0, base, step)
    BY <2>1 DEF Folds
  <2> HIDE DEF g
  <2>3. 0 \in 0..n
    OBVIOUS
  <2> QED BY <2>2, <2>3
<1>2. ASSUME NEW k \in 0..(n - 1), k \in T PROVE k + 1 \in T
  <2>0. k \in Nat /\ k + 1 \in Nat /\ k + 1 \in 0..n /\ k + 1 \in 1..n
    OBVIOUS
  <2>1. PICK g \in [SUBSET (1..k) -> A] : Folds(g, k, base, step)
    BY <1>2
  <2> HIDE DEF T
  <2> DEFINE h == [s \in SUBSET (1..(k + 1)) |->
                     IF s \subseteq 1..k THEN g[s] ELSE step[<<g[s \ {k + 1}], k + 1>>]]
  <2>2. ASSUME NEW s \in SUBSET (1..(k + 1)), ~(s \subseteq 1..k)
        PROVE  s \ {k + 1} \in SUBSET (1..k) /\ s # {} /\ Max(s) = k + 1
    <3>1. k + 1 \in s /\ s # {}
      BY <2>2
    <3>2. Max(s) \in s /\ \A y \in s : Max(s) >= y
      BY <2>0, <3>1, MaxOfInterval
    <3>3. Max(s) \in 1..(k + 1) /\ Max(s) >= k + 1
      BY <3>1, <3>2
    <3>4. Max(s) = k + 1
      BY <3>3
    <3> QED
      BY <3>1, <3>4
  <2>3. h \in [SUBSET (1..(k + 1)) -> A]
    <3>1. ASSUME NEW s \in SUBSET (1..(k + 1)) PROVE h[s] \in A
      <4>1. CASE s \subseteq 1..k
        BY <4>1
      <4>2. CASE ~(s \subseteq 1..k)
        BY <2>0, <2>2, <4>2
      <4> QED BY <4>1, <4>2
    <3> QED BY <3>1
  <2>4. ASSUME NEW s \in SUBSET (1..(k + 1))
        PROVE  h[s] = IF s = {} THEN base ELSE step[<<h[s \ {Max(s)}], Max(s)>>]
    <3>1. CASE s \subseteq 1..k
      <4>1. s \ {Max(s)} \in SUBSET (1..k)
        BY <3>1
      <4>2. h[s] = g[s] /\ h[s \ {Max(s)}] = g[s \ {Max(s)}]
        BY <3>1, <4>1
      <4> QED
        BY <2>1, <3>1, <4>2 DEF Folds
    <3>2. CASE ~(s \subseteq 1..k)
      <4>1. s \ {k + 1} \in SUBSET (1..k) /\ s # {} /\ Max(s) = k + 1
        BY <2>2, <3>2
      <4>2. h[s \ {k + 1}] = g[s \ {k + 1}]
        BY <4>1
      <4> QED
        BY <3>2, <4>1, <4>2
    <3> QED
      BY <3>1, <3>2
  <2> HIDE DEF h
  <2>5. Folds(h, k + 1, base, step)
    BY <2>4 DEF Folds
  <2> QED
    BY <2>0, <2>3, <2>5 DEF T
<1> HIDE DEF T
<1>3. n \in T
  BY <1>1, <1>2, SetInduction
<1> QED
  BY <1>3 DEF T

\* What the fold over 1..(i + 1) takes last, and what is left.
LEMMA LastOfPrefix ==
    ASSUME NEW n \in Nat, NEW i \in 0..(n - 1)
    PROVE  /\ 1..(i + 1) \in SUBSET (1..n) /\ 1..(i + 1) # {}
           /\ Max(1..(i + 1)) = i + 1 /\ (1..(i + 1)) \ {i + 1} = 1..i
<1> DEFINE S == 1..(i + 1)
<1>1. S \in SUBSET (1..n) /\ S \in SUBSET (1..(i + 1)) /\ i + 1 \in S /\ S # {} /\ i + 1 \in Nat
  OBVIOUS
<1>2. Max(S) \in S /\ \A y \in S : Max(S) >= y
  <2> HIDE DEF S
  <2> QED BY <1>1, MaxOfInterval
<1>3. Max(S) \in 1..(i + 1) /\ Max(S) >= i + 1
  BY <1>1, <1>2
<1>4. Max(S) = i + 1 /\ S \ {i + 1} = 1..i
  BY <1>3
<1> QED
  BY <1>1, <1>4

-----------------------------------------------------------------------------
(***************************************************************************)
(* GetServer.                                                              *)
(***************************************************************************)
\* Entry i is better than the best entry before it.
Improves(servers, addr, best, i) ==
    Matches(servers[i], addr) /\ (best = 0 \/ servers[i].plen > servers[best].plen)

BestStep(servers, addr) ==
    [p \in (0..Len(servers)) \X (1..Len(servers)) |->
        IF Improves(servers, addr, p[1], p[2]) THEN p[2] ELSE p[1]]

\* The recursion Best unfolds to.
BestFold(servers, addr, g) ==
    g = [s \in SUBSET DOMAIN [i \in DOMAIN servers |-> i] |->
           IF s = {} THEN 0
           ELSE LET i == [j \in DOMAIN servers |-> j][Max(s)]
                    best == g[s \ {Max(s)}]
                IN  IF Matches(servers[i], addr)
                       /\ (best = 0 \/ servers[i].plen > servers[best].plen)
                    THEN i ELSE best]

\* The loop: what the accumulator is after each entry.
LEMMA BestLoop ==
    ASSUME NEW n \in Nat, NEW servers, DOMAIN servers = 1..n, Len(servers) = n, NEW addr
    PROVE  \E acc : /\ acc[0] = 0 /\ acc[n] = Best(servers, addr)
                    /\ \A i \in 0..(n - 1) :
                          acc[i + 1] = IF Improves(servers, addr, acc[i], i + 1)
                                       THEN i + 1 ELSE acc[i]
<1> DEFINE step == BestStep(servers, addr)
           b == CHOOSE g : BestFold(servers, addr, g)
<1>0. DOMAIN [i \in DOMAIN servers |-> i] = 1..n
  OBVIOUS
<1>1. Best(servers, addr) = b[1..n]
  <2>1. Best(servers, addr) = b[DOMAIN [i \in DOMAIN servers |-> i]]
    BY Zenon DEF Best, FoldLeft, MapThenFoldSet, BestFold
  <2> QED BY <1>0, <2>1
<1>2. step \in [(0..n) \X (1..n) -> 0..n] /\ 0 \in 0..n
  BY DEF BestStep
<1>3. ASSUME NEW p \in 0..n, NEW i \in 1..n
      PROVE  step[<<p, i>>] = IF Improves(servers, addr, p, i) THEN i ELSE p
  BY DEF BestStep
<1> HIDE DEF step
<1>4. PICK g \in [SUBSET (1..n) -> 0..n] : Folds(g, n, 0, step)
  BY <1>2, FoldExists
<1>5. ASSUME NEW f PROVE BestFold(servers, addr, f) <=>
         f = [s \in SUBSET (1..n) |->
                IF s = {} THEN 0 ELSE IF Improves(servers, addr, f[s \ {Max(s)}], Max(s))
                                      THEN Max(s) ELSE f[s \ {Max(s)}]]
  <2>1. \A s \in SUBSET (1..n) : s # {} => Max(s) \in DOMAIN servers
    BY MaxOfInterval
  <2> QED
    BY <1>0, <2>1 DEF BestFold, Improves
<1>6. BestFold(servers, addr, g)
  <2>1. ASSUME NEW s \in SUBSET (1..n), s # {}
        PROVE  g[s] = IF Improves(servers, addr, g[s \ {Max(s)}], Max(s))
                      THEN Max(s) ELSE g[s \ {Max(s)}]
    <3>1. Max(s) \in 1..n
      BY <2>1, MaxOfInterval
    <3>2. g[s \ {Max(s)}] \in 0..n
      OBVIOUS
    <3> QED
      BY <1>3, <1>4, <2>1, <3>1, <3>2 DEF Folds
  <2>2. g[{}] = 0
    BY <1>4 DEF Folds
  <2> QED
    BY <1>5, <2>1, <2>2
<1>7. BestFold(servers, addr, b)
  BY <1>6, Zenon
<1> HIDE DEF b
<1>8. b[1..0] = 0
  <2>1. 1..0 = {} /\ {} \in SUBSET (1..n)
    OBVIOUS
  <2>2. b = [s \in SUBSET (1..n) |->
               IF s = {} THEN 0 ELSE IF Improves(servers, addr, b[s \ {Max(s)}], Max(s))
                                     THEN Max(s) ELSE b[s \ {Max(s)}]]
    BY <1>5, <1>7
  <2>3. b[{}] = 0
    BY <2>1, <2>2
  <2> QED BY <2>1, <2>3
<1>9. ASSUME NEW i \in 0..(n - 1)
      PROVE  b[1..(i + 1)] = IF Improves(servers, addr, b[1..i], i + 1) THEN i + 1 ELSE b[1..i]
  <2> DEFINE S == 1..(i + 1)
  <2>1. S \in SUBSET (1..n) /\ S # {} /\ Max(S) = i + 1 /\ S \ {i + 1} = 1..i
    BY LastOfPrefix
  <2> HIDE DEF S
  <2>2. b[S] = IF Improves(servers, addr, b[S \ {Max(S)}], Max(S))
               THEN Max(S) ELSE b[S \ {Max(S)}]
    BY <1>5, <1>7, <2>1
  <2>3. b[S] = IF Improves(servers, addr, b[1..i], i + 1) THEN i + 1 ELSE b[1..i]
    BY <2>1, <2>2
  <2> QED
    BY <2>3 DEF S
<1> DEFINE acc == [i \in 0..n |-> b[1..i]]
<1>10. /\ acc[0] = 0 /\ acc[n] = Best(servers, addr)
       /\ \A i \in 0..(n - 1) :
             acc[i + 1] = IF Improves(servers, addr, acc[i], i + 1) THEN i + 1 ELSE acc[i]
  BY <1>1, <1>8, <1>9
<1> HIDE DEF acc
<1> QED
  BY <1>10

\* Entry b is the first of the longest entries up to k that match, 0 if none does.
IsBestUpTo(servers, addr, k, b) ==
    /\ b \in 0..k
    /\ b # 0 => Matches(servers[b], addr)
    /\ \A j \in 1..k : Matches(servers[j], addr) =>
          /\ b # 0
          /\ \/ servers[j].plen < servers[b].plen
             \/ servers[j].plen = servers[b].plen /\ b <= j

(***************************************************************************)
(* The loop of GetServer (src/config.go): for every list of entries and    *)
(* every address the entry chosen is the first of those with the longest   *)
(* prefix of the address, and none is chosen only if none matches.         *)
(***************************************************************************)
THEOREM BestIsLongestPrefix ==
    ASSUME NEW servers, NEW n \in Nat, DOMAIN servers = 1..n, Len(servers) = n,
           \A i \in 1..n : servers[i].plen \in Int, NEW addr
    PROVE  IsBestUpTo(servers, addr, n, Best(servers, addr))
<1>1. PICK acc : /\ acc[0] = 0 /\ acc[n] = Best(servers, addr)
                 /\ \A i \in 0..(n - 1) :
                       acc[i + 1] = IF Improves(servers, addr, acc[i], i + 1)
                                    THEN i + 1 ELSE acc[i]
  BY BestLoop
<1> DEFINE T == {i \in 0..n : IsBestUpTo(servers, addr, i, acc[i])}
<1>2. 0 \in T
  BY <1>1 DEF IsBestUpTo
<1>3. ASSUME NEW i \in 0..(n - 1), i \in T PROVE i + 1 \in T
  <2>1. acc[i + 1] = IF Improves(servers, addr, acc[i], i + 1) THEN i + 1 ELSE acc[i]
    BY <1>1
  <2>2. IsBestUpTo(servers, addr, i, acc[i])
    BY <1>3
  <2>3. servers[i + 1].plen \in Int /\ (acc[i] # 0 => servers[acc[i]].plen \in Int)
    BY <2>2 DEF IsBestUpTo
  <2>4. IsBestUpTo(servers, addr, i + 1, acc[i + 1])
    <3>1. CASE Improves(servers, addr, acc[i], i + 1)
      <4>1. acc[i + 1] = i + 1
        BY <2>1, <3>1
      <4>2. ASSUME NEW j \in 1..(i + 1), Matches(servers[j], addr)
            PROVE  \/ servers[j].plen < servers[i + 1].plen
                   \/ servers[j].plen = servers[i + 1].plen /\ i + 1 <= j
        <5>1. CASE j = i + 1
          BY <2>3, <5>1
        <5>2. CASE j \in 1..i
          BY <2>2, <2>3, <3>1, <4>2, <5>2 DEF IsBestUpTo, Improves
        <5> QED BY <5>1, <5>2
      <4> QED
        BY <3>1, <4>1, <4>2 DEF IsBestUpTo, Improves
    <3>2. CASE ~Improves(servers, addr, acc[i], i + 1)
      <4>1. acc[i + 1] = acc[i]
        BY <2>1, <3>2
      <4>2. ASSUME NEW j \in 1..(i + 1), Matches(servers[j], addr)
            PROVE  acc[i] # 0 /\ \/ servers[j].plen < servers[acc[i]].plen
                                 \/ servers[j].plen = servers[acc[i]].plen /\ acc[i] <= j
        <5>1. CASE j = i + 1
          BY <2>2, <2>3, <3>2, <4>2, <5>1 DEF IsBestUpTo, Improves
        <5>2. CASE j \in 1..i
          BY <2>2, <4>2, <5>2 DEF IsBestUpTo
        <5> QED BY <5>1, <5>2
      <4> QED
        BY <2>2, <4>1, <4>2 DEF IsBestUpTo
    <3> QED BY <3>1, <3>2
  <2> QED
    BY <2>4
<1> HIDE DEF T
<1>4. n \in T
  BY <1>2, <1>3, SetInduction
<1> QED
  BY <1>1, <1>4 DEF T

-----------------------------------------------------------------------------
(***************************************************************************)
(* Reload.                                                                 *)
(***************************************************************************)
Kept(servers, v, i) ==
    IF Usable(servers[i]) THEN Append(v, WithDefaults(servers[i])) ELSE v

KeptStep(servers) ==
    [p \in Seq(ServerEntry) \X (1..Len(servers)) |-> Kept(servers, p[1], p[2])]

\* The recursion ValidServers unfolds to.
KeptFold(servers, g) ==
    g = [s \in SUBSET DOMAIN servers |->
           IF s = {} THEN <<>>
           ELSE IF Usable(servers[Max(s)])
                THEN Append(g[s \ {Max(s)}], WithDefaults(servers[Max(s)]))
                ELSE g[s \ {Max(s)}]]

\* An entry with the default pattern is an entry.
LEMMA DefaultsKeepType == \A s \in ServerEntry : WithDefaults(s) \in ServerEntry
BY DEF ServerEntry, WithDefaults, DefaultNeed

\* The loop of Reload over the server entries.
LEMMA KeptLoop ==
    ASSUME NEW n \in Nat, NEW servers \in Seq(ServerEntry), Len(servers) = n
    PROVE  \E acc : /\ acc[0] = <<>> /\ acc[n] = ValidServers(servers)
                    /\ \A i \in 0..(n - 1) : acc[i + 1] = Kept(servers, acc[i], i + 1)
<1> DEFINE step == KeptStep(servers)
           A == Seq(ServerEntry)
           b == CHOOSE g : KeptFold(servers, g)
<1>0. DOMAIN servers = 1..n /\ \A i \in 1..n : servers[i] \in ServerEntry
  OBVIOUS
<1>1. ValidServers(servers) = b[1..n]
  <2>1. ValidServers(servers) = b[DOMAIN servers]
    BY Zenon DEF ValidServers, FoldLeft, MapThenFoldSet, KeptFold
  <2> QED BY <1>0, <2>1
<1>2. step \in [A \X (1..n) -> A] /\ <<>> \in A
  <2>1. ASSUME NEW v \in A, NEW i \in 1..n PROVE Kept(servers, v, i) \in A
    <3>1. WithDefaults(servers[i]) \in ServerEntry
      BY <1>0, DefaultsKeepType
    <3> QED BY <3>1 DEF Kept
  <2> QED BY <2>1 DEF KeptStep
<1>3. ASSUME NEW v \in A, NEW i \in 1..n
      PROVE  step[<<v, i>>] = Kept(servers, v, i)
  BY DEF KeptStep
<1> HIDE DEF step, A
<1>4. PICK g \in [SUBSET (1..n) -> A] : Folds(g, n, <<>>, step)
  BY <1>2, FoldExists
<1>5. ASSUME NEW f PROVE KeptFold(servers, f) <=>
         f = [s \in SUBSET (1..n) |->
                IF s = {} THEN <<>> ELSE Kept(servers, f[s \ {Max(s)}], Max(s))]
  BY <1>0 DEF KeptFold, Kept
<1>6. KeptFold(servers, g)
  <2>1. ASSUME NEW s \in SUBSET (1..n), s # {}
        PROVE  g[s] = Kept(servers, g[s \ {Max(s)}], Max(s))
    <3>1. Max(s) \in 1..n
      BY <2>1, MaxOfInterval
    <3>2. g[s \ {Max(s)}] \in A
      OBVIOUS
    <3> QED
      BY <1>3, <1>4, <2>1, <3>1, <3>2 DEF Folds
  <2>2. g[{}] = <<>>
    BY <1>4 DEF Folds
  <2>3. g = [s \in SUBSET (1..n) |->
               IF s = {} THEN <<>> ELSE Kept(servers, g[s \ {Max(s)}], Max(s))]
    BY <2>1, <2>2
  <2> QED
    BY <1>5, <2>3
<1>7. KeptFold(servers, b)
  BY <1>6, Zenon
<1> HIDE DEF b
<1>8. b[1..0] = <<>>
  <2>1. 1..0 = {} /\ {} \in SUBSET (1..n)
    OBVIOUS
  <2>2. b = [s \in SUBSET (1..n) |->
               IF s = {} THEN <<>> ELSE Kept(servers, b[s \ {Max(s)}], Max(s))]
    BY <1>5, <1>7
  <2>3. b[{}] = <<>>
    BY <2>1, <2>2
  <2> QED BY <2>1, <2>3
<1>9. ASSUME NEW i \in 0..(n - 1)
      PROVE  b[1..(i + 1)] = Kept(servers, b[1..i], i + 1)
  <2> DEFINE S == 1..(i + 1)
  <2>1. S \in SUBSET (1..n) /\ S # {} /\ Max(S) = i + 1 /\ S \ {i + 1} = 1..i
    BY LastOfPrefix
  <2> HIDE DEF S
  <2>2. b[S] = Kept(servers, b[S \ {Max(S)}], Max(S))
    BY <1>5, <1>7, <2>1
  <2>3. b[S] = Kept(servers, b[1..i], i + 1)
    BY <2>1, <2>2
  <2> QED
    BY <2>3 DEF S
<1> DEFINE acc == [i \in 0..n |-> b[1..i]]
<1>10. /\ acc[0] = <<>> /\ acc[n] = ValidServers(servers)
       /\ \A i \in 0..(n - 1) : acc[i + 1] = Kept(servers, acc[i], i + 1)
  BY <1>1, <1>8, <1>9
<1> HIDE DEF acc
<1> QED
  BY <1>10

\* v holds the usable ones of the first k entries, in their order; m says where
\* each is from.
Selects(servers, k, v, m) ==
    /\ v \in Seq(ServerEntry) /\ m \in [1..Len(v) -> 1..k]
    /\ \A i \in 1..Len(v) : Usable(servers[m[i]]) /\ v[i] = WithDefaults(servers[m[i]])
    /\ \A i, j \in 1..Len(v) : i < j => m[i] < m[j]
    /\ \A j \in 1..k : Usable(servers[j]) => \E i \in 1..Len(v) : m[i] = j

(***************************************************************************)
(* The loop of Reload (src/config.go) over the server entries keeps the    *)
(* usable ones, each once and in the order of the file, and no others.     *)
(***************************************************************************)
THEOREM ValidServersAreTheUsable ==
    ASSUME NEW servers \in Seq(ServerEntry)
    PROVE  \E m : Selects(servers, Len(servers), ValidServers(servers), m)
<1> DEFINE n == Len(servers)
<1>0. n \in Nat
  OBVIOUS
<1>1. PICK acc : /\ acc[0] = <<>> /\ acc[n] = ValidServers(servers)
                 /\ \A i \in 0..(n - 1) : acc[i + 1] = Kept(servers, acc[i], i + 1)
  BY KeptLoop
<1> DEFINE T == {i \in 0..n : \E m : Selects(servers, i, acc[i], m)}
<1>2. 0 \in T
  <2>1. Selects(servers, 0, acc[0], [i \in 1..0 |-> i])
    BY <1>1 DEF Selects
  <2> QED BY <1>0, <2>1
<1>3. ASSUME NEW k \in 0..(n - 1), k \in T PROVE k + 1 \in T
  <2>1. PICK m : Selects(servers, k, acc[k], m)
    BY <1>3
  <2>2. acc[k + 1] = Kept(servers, acc[k], k + 1)
    BY <1>1
  <2> HIDE DEF n
  <2>3. CASE Usable(servers[k + 1])
    <3> DEFINE v == acc[k]
               w == acc[k + 1]
               m2 == [i \in 1..Len(w) |-> IF i <= Len(v) THEN m[i] ELSE k + 1]
    <3>1. WithDefaults(servers[k + 1]) \in ServerEntry
      BY DefaultsKeepType DEF n
    <3>2. v \in Seq(ServerEntry) /\ w = Append(v, WithDefaults(servers[k + 1]))
      BY <2>1, <2>2, <2>3 DEF Selects, Kept
    <3>3. /\ w \in Seq(ServerEntry) /\ Len(w) = Len(v) + 1 /\ Len(v) \in Nat
          /\ w[Len(v) + 1] = WithDefaults(servers[k + 1])
          /\ \A i \in 1..Len(v) : w[i] = v[i]
      BY <3>1, <3>2
    <3> HIDE DEF v, w
    <3>4. m2 \in [1..Len(w) -> 1..(k + 1)]
      BY <2>1, <3>3 DEF Selects, v
    <3>5. /\ m2[Len(v) + 1] = k + 1
          /\ \A i \in 1..Len(v) : m2[i] = m[i] /\ m[i] \in 1..k
      <4>1. m \in [1..Len(v) -> 1..k]
        BY <2>1 DEF Selects, v
      <4>2. m2[Len(v) + 1] = k + 1
        BY <3>3
      <4>3. \A i \in 1..Len(v) : m2[i] = m[i]
        BY <3>3
      <4> QED BY <4>1, <4>2, <4>3
    <3> HIDE DEF m2
    <3>6. \A i \in 1..Len(w) : Usable(servers[m2[i]]) /\ w[i] = WithDefaults(servers[m2[i]])
      <4>1. ASSUME NEW i \in 1..Len(w)
            PROVE  Usable(servers[m2[i]]) /\ w[i] = WithDefaults(servers[m2[i]])
        <5>1. CASE i = Len(v) + 1
          BY <2>3, <3>3, <3>5, <5>1
        <5>2. CASE i \in 1..Len(v)
          BY <2>1, <3>3, <3>5, <5>2 DEF Selects, v
        <5> QED BY <3>3, <5>1, <5>2
      <4> QED BY <4>1
    <3>7. \A i, j \in 1..Len(w) : i < j => m2[i] < m2[j]
      <4>1. ASSUME NEW i \in 1..Len(w), NEW j \in 1..Len(w), i < j PROVE m2[i] < m2[j]
        <5>1. i \in 1..Len(v)
          BY <3>3, <4>1
        <5>2. CASE j = Len(v) + 1
          BY <3>5, <5>1, <5>2
        <5>3. CASE j \in 1..Len(v)
          BY <2>1, <3>5, <4>1, <5>1, <5>3 DEF Selects, v
        <5> QED BY <3>3, <5>2, <5>3
      <4> QED BY <4>1
    <3>8. \A j \in 1..(k + 1) : Usable(servers[j]) => \E i \in 1..Len(w) : m2[i] = j
      <4>1. ASSUME NEW j \in 1..(k + 1), Usable(servers[j])
            PROVE  \E i \in 1..Len(w) : m2[i] = j
        <5>1. CASE j = k + 1
          BY <3>3, <3>5, <5>1
        <5>2. CASE j \in 1..k
          <6>1. PICK i \in 1..Len(v) : m[i] = j
            BY <2>1, <4>1, <5>2 DEF Selects, v
          <6>2. i \in 1..Len(w) /\ m2[i] = j
            BY ONLY <3>3, <3>5, <6>1
          <6> QED BY ONLY <6>2
        <5> QED BY <5>1, <5>2
      <4> QED BY <4>1
    <3>9. Selects(servers, k + 1, acc[k + 1], m2)
      BY <3>3, <3>4, <3>6, <3>7, <3>8 DEF Selects, w
    <3> QED
      BY <1>0, <3>9 DEF n
  <2>4. CASE ~Usable(servers[k + 1])
    <3>1. acc[k + 1] = acc[k]
      BY <2>2, <2>4 DEF Kept
    <3>2. \A j \in 1..(k + 1) : Usable(servers[j]) => j \in 1..k
      BY <2>4
    <3>3. m \in [1..Len(acc[k]) -> 1..(k + 1)]
      BY <2>1 DEF Selects
    <3>4. Selects(servers, k + 1, acc[k + 1], m)
      BY <2>1, <3>1, <3>2, <3>3 DEF Selects
    <3> QED
      BY <1>0, <3>4 DEF n
  <2> QED
    BY <2>3, <2>4
<1> HIDE DEF T, n
<1>4. n \in T
  <2>1. 0..n \subseteq T
    BY <1>0, <1>2, <1>3, SetInduction, Zenon
  <2> QED BY <1>0, <2>1
<1> QED
  BY <1>1, <1>4 DEF T, n
=============================================================================
