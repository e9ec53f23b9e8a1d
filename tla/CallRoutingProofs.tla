-------------------------- MODULE CallRoutingProofs --------------------------
(***************************************************************************)
(* What is proved of CallRouting, for every configuration, every call,     *)
(* every behaviour of the DNS and every width of the half-octets.          *)
(*                                                                         *)
(* The loops of the codec are recursive functions (FlattenSeq,             *)
(* FacilityMap); RoutingProofs has the induction that shows that such      *)
(* recursions have solutions.  The first part is about what the codec does *)
(* to a CALL_REQ, and shows that facilities come out of it as they went    *)
(* in; the second follows a call with the inductive invariants             *)
(*   RouteTyped     the types of everything but the packet,                *)
(*   CarryInv       the packet is the beginning of a CALL_REQ with the     *)
(*                  addresses of the call,                                 *)
(*   FacilitiesInv  it has the facilities asked for, or those wanted,      *)
(*   ChosenInv      xot-gateway has chosen the entry for that address,     *)
(*   SeenInv        and has not seen its own host among the addresses, or  *)
(*                  not recognised it,                                     *)
(*   SteadyInv      nor can it while the DNS keeps its answers, unless the *)
(*                  relay before it has not recognised it.                 *)
(***************************************************************************)
EXTENDS CallRouting, RoutingProofs, WellFoundedInduction, SequenceTheorems,
        FiniteSetTheorems, TLAPS

-----------------------------------------------------------------------------
(***************************************************************************)
(* Octets and half-octets.                                                 *)
(***************************************************************************)
LEMMA DivMod ==
    ASSUME NEW n \in Nat \ {0}, NEW q \in Nat, NEW r \in 0..(n - 1)
    PROVE  (q * n + r) \div n = q /\ (q * n + r) % n = r
BY Z3

\* A number from its quotient and remainder.
LEMMA DivModInverse ==
    ASSUME NEW n \in Nat \ {0}, NEW x \in Nat
    PROVE  /\ x \div n \in Nat /\ x % n \in 0..(n - 1)
           /\ x = (x \div n) * n + (x % n)
BY Z3

\* Quotients of numbers below m * n.
LEMMA DivBound ==
    ASSUME NEW n \in Nat \ {0}, NEW m \in Nat, NEW x \in 0..(m * n - 1)
    PROVE  x \div n \in 0..(m - 1)
BY Z3

\* Numbers put together stay below m * n.
LEMMA MulBound ==
    ASSUME NEW n \in Nat \ {0}, NEW m \in Nat, NEW q \in 0..(m - 1), NEW r \in 0..(n - 1)
    PROVE  q * n + r \in 0..(m * n - 1)
BY Z3

\* Half-octets and octets have positive widths.
LEMMA OctetFacts == /\ Nibble \in Nat \ {0} /\ Octet \in Nat \ {0} /\ Octet = Nibble * Nibble
                    /\ PktTypeCallRequest \in Octets
<1>1. Nibble \in Nat /\ Nibble > 1
  BY NibbleAssumption
<1>2. Nibble * Nibble \in Nat \ {0}
  BY <1>1, Z3
<1> QED
  BY <1>1, <1>2, NibbleAssumption DEF Octet

\* Two half-octets make an octet, from which both can be read.
LEMMA TwoDigits ==
    ASSUME NEW a \in Digits, NEW b \in Digits
    PROVE  /\ a * Nibble + b \in Octets
           /\ (a * Nibble + b) \div Nibble = a
           /\ (a * Nibble + b) % Nibble = b
BY OctetFacts, DivMod, MulBound DEF Octets, Digits

\* An octet is made of its two half-octets.
LEMMA TwoDigitsBack ==
    ASSUME NEW o \in Octets
    PROVE  o \div Nibble \in Digits /\ o % Nibble \in Digits
           /\ o = (o \div Nibble) * Nibble + (o % Nibble)
<1>1. o \in 0..(Nibble * Nibble - 1) /\ o \in Nat
  BY OctetFacts DEF Octets
<1>2. o \div Nibble \in 0..(Nibble - 1)
  BY <1>1, OctetFacts, DivBound
<1> QED
  BY <1>1, <1>2, OctetFacts, DivModInverse DEF Digits

\* The elements of two sequences put together.
LEMMA ConcatElements ==
    ASSUME NEW S, NEW s \in Seq(S), NEW t \in Seq(S)
    PROVE  /\ s \o t \in Seq(S) /\ Len(s \o t) = Len(s) + Len(t)
           /\ Len(s) \in Nat /\ Len(t) \in Nat
           /\ \A i \in 1..Len(s) : (s \o t)[i] = s[i]
           /\ \A i \in 1..Len(t) : (s \o t)[Len(s) + i] = t[i]
<1>1. /\ s \o t \in Seq(S) /\ Len(s \o t) = Len(s) + Len(t)
      /\ \A i \in 1..(Len(s) + Len(t)) :
            (s \o t)[i] = IF i <= Len(s) THEN s[i] ELSE t[i - Len(s)]
  BY ConcatProperties
<1>2. Len(s) \in Nat /\ Len(t) \in Nat
  BY LenProperties
<1>3. ASSUME NEW i \in 1..Len(t) PROVE (s \o t)[Len(s) + i] = t[i]
  <2>1. Len(s) + i \in 1..(Len(s) + Len(t)) /\ ~(Len(s) + i <= Len(s)) /\ (Len(s) + i) - Len(s) = i
    BY <1>2
  <2> QED BY <1>1, <2>1
<1> QED
  BY <1>1, <1>2, <1>3

\* A part of a sequence of octets, element by element.
LEMMA SubSeqOctets ==
    ASSUME NEW s \in Seq(Octets), NEW m \in Nat, m >= 1, NEW n \in Int, n <= Len(s)
    PROVE  /\ SubSeq(s, m, n) \in Seq(Octets)
           /\ Len(SubSeq(s, m, n)) = IF m <= n THEN n - m + 1 ELSE 0
           /\ \A i \in 1..(n - m + 1) : SubSeq(s, m, n)[i] = s[m + i - 1]
<1>1. m \in Int /\ \A i \in m..n : s[i] \in Octets
  OBVIOUS
<1> QED
  BY <1>1, SubSeqProperties

(***************************************************************************)
(* The header.                                                             *)
(***************************************************************************)
Packet == [GFI : Digits, LCI : 0 .. Nibble * Octet - 1, Type : Octets, Payload : Seq(Octets)]

\* A logical channel is spread over a half-octet and an octet.
LEMMA ChannelOctets ==
    ASSUME NEW lci \in 0 .. Nibble * Octet - 1
    PROVE  /\ lci \div Octet \in Digits /\ (lci \div Octet) % Nibble = lci \div Octet
           /\ lci % Octet \in Octets
           /\ (lci \div Octet) * Octet + (lci % Octet) = lci
<1>1. lci \in Nat /\ Nibble * Octet \in Int
  BY OctetFacts, Z3
<1>2. lci \div Octet \in Digits
  BY OctetFacts, DivBound DEF Digits
<1>3. (lci \div Octet) % Nibble = lci \div Octet
  BY <1>2, OctetFacts, DivMod DEF Digits
<1> QED
  BY <1>1, <1>2, <1>3, OctetFacts, DivModInverse DEF Octets

\* Where everything is in a packet.
LEMMA SerializeShape ==
    ASSUME NEW pkt \in Packet
    PROVE  LET d == Serialize(pkt) IN
           /\ d \in Seq(Octets) /\ Len(d) = 3 + Len(pkt.Payload)
           /\ d[1] = pkt.GFI * Nibble + (pkt.LCI \div Octet)
           /\ d[2] = pkt.LCI % Octet /\ d[3] = pkt.Type
           /\ \A i \in 1..Len(pkt.Payload) : d[3 + i] = pkt.Payload[i]
<1> DEFINE h == <<pkt.GFI * Nibble + ((pkt.LCI \div Octet) % Nibble), pkt.LCI % Octet, pkt.Type>>
           p == pkt.Payload
<1>1. /\ pkt.GFI \in Digits /\ pkt.LCI \in 0 .. Nibble * Octet - 1 /\ pkt.Type \in Octets
      /\ p \in Seq(Octets)
  BY DEF Packet
<1>2. (pkt.LCI \div Octet) % Nibble = pkt.LCI \div Octet /\ pkt.LCI \div Octet \in Digits
      /\ pkt.LCI % Octet \in Octets
  BY <1>1, ChannelOctets
<1>3. pkt.GFI * Nibble + (pkt.LCI \div Octet) \in Octets
  BY <1>1, <1>2, TwoDigits
<1>4. h \in Seq(Octets) /\ Len(h) = 3
  BY <1>1, <1>2, <1>3
<1>5. h[1] = pkt.GFI * Nibble + (pkt.LCI \div Octet) /\ h[2] = pkt.LCI % Octet /\ h[3] = pkt.Type
  BY <1>2
<1>6. Serialize(pkt) = h \o p
  BY DEF Serialize
<1> HIDE DEF h, p
<1>7. /\ h \o p \in Seq(Octets) /\ Len(h \o p) = 3 + Len(p)
      /\ \A i \in 1..3 : (h \o p)[i] = h[i]
      /\ \A i \in 1..Len(p) : (h \o p)[3 + i] = p[i]
  <2>1. /\ h \o p \in Seq(Octets) /\ Len(h \o p) = Len(h) + Len(p)
        /\ \A i \in 1..Len(h) : (h \o p)[i] = h[i]
        /\ \A i \in 1..Len(p) : (h \o p)[Len(h) + i] = p[i]
    <3>1. h \in Seq(Octets) /\ p \in Seq(Octets)
      BY <1>1, <1>4
    <3> QED
      BY <3>1, ConcatElements
  <2> QED
    BY <1>4, <2>1
<1> QED
  BY <1>5, <1>6, <1>7 DEF p

\* What ParseX25 reads of octets that start with the header of pkt.
LEMMA ParseOfHeader ==
    ASSUME NEW pkt \in Packet, NEW d \in Seq(Octets), Len(d) >= 3,
           \A i \in 1..3 : d[i] = Serialize(pkt)[i]
    PROVE  /\ ParseX25(d).GFI = pkt.GFI /\ ParseX25(d).LCI = pkt.LCI
           /\ ParseX25(d).Type = pkt.Type
<1>1. pkt.GFI \in Digits /\ pkt.LCI \in 0 .. Nibble * Octet - 1
  BY DEF Packet
<1>2. /\ d[1] = pkt.GFI * Nibble + (pkt.LCI \div Octet)
      /\ d[2] = pkt.LCI % Octet /\ d[3] = pkt.Type
  BY SerializeShape
<1>3. /\ pkt.LCI \div Octet \in Digits
      /\ (pkt.LCI \div Octet) * Octet + (pkt.LCI % Octet) = pkt.LCI
  BY <1>1, ChannelOctets
<1>4. d[1] \div Nibble = pkt.GFI /\ d[1] % Nibble = pkt.LCI \div Octet
  BY <1>1, <1>2, <1>3, TwoDigits
<1> QED
  BY <1>2, <1>3, <1>4 DEF ParseX25

\* The payload ParseX25 reads.
LEMMA PayloadOf ==
    ASSUME NEW d \in Seq(Octets), Len(d) >= 3
    PROVE  /\ ParseX25(d).Payload \in Seq(Octets) /\ Len(ParseX25(d).Payload) = Len(d) - 3
           /\ \A i \in 1..(Len(d) - 3) : ParseX25(d).Payload[i] = d[3 + i]
<1> DEFINE n == Len(d)
           p == SubSeq(d, 4, n)
<1>1. n \in Nat /\ n >= 3 /\ 4 \in Int /\ n \in Int /\ \A i \in 4..n : d[i] \in Octets
  OBVIOUS
<1>2. ParseX25(d).Payload = p
  BY DEF ParseX25
<1> HIDE DEF n
<1>3. /\ p \in Seq(Octets) /\ Len(p) = IF 4 <= n THEN n - 4 + 1 ELSE 0
      /\ \A i \in 1..(n - 4 + 1) : p[i] = d[4 + i - 1]
  BY <1>1, SubSeqProperties
<1> HIDE DEF p
<1>4. Len(p) = n - 3 /\ \A i \in 1..(n - 3) : p[i] = d[3 + i]
  BY <1>1, <1>3
<1> QED
  BY <1>2, <1>3, <1>4 DEF n

\* Packets of three octets and more survive being decoded and encoded again.
LEMMA HeaderRoundTrip ==
    ASSUME NEW d \in Seq(Octets), Len(d) >= 3
    PROVE  ParseX25(d) \in Packet /\ Serialize(ParseX25(d)) = d
<1> DEFINE p == ParseX25(d)
<1>1. d[1] \in Octets /\ d[2] \in Octets /\ d[3] \in Octets
  OBVIOUS
<1>2. d[1] \div Nibble \in Digits /\ d[1] % Nibble \in Digits
      /\ d[1] = (d[1] \div Nibble) * Nibble + (d[1] % Nibble)
  BY <1>1, TwoDigitsBack
<1>3. (d[1] % Nibble) * Octet + d[2] \in 0 .. Nibble * Octet - 1
  BY <1>1, <1>2, OctetFacts, MulBound DEF Digits, Octets
<1>4. /\ ((d[1] % Nibble) * Octet + d[2]) \div Octet = d[1] % Nibble
      /\ ((d[1] % Nibble) * Octet + d[2]) % Octet = d[2]
  <2>1. d[1] % Nibble \in Nat /\ d[2] \in 0..(Octet - 1)
    BY <1>1, <1>2 DEF Digits, Octets
  <2> QED
    BY <2>1, OctetFacts, DivMod
<1>5. /\ p = [GFI |-> p.GFI, LCI |-> p.LCI, Type |-> p.Type, Payload |-> p.Payload]
      /\ p.GFI = d[1] \div Nibble /\ p.LCI = (d[1] % Nibble) * Octet + d[2] /\ p.Type = d[3]
  BY DEF ParseX25
<1>6. /\ p.Payload \in Seq(Octets) /\ Len(p.Payload) = Len(d) - 3
      /\ \A i \in 1..(Len(d) - 3) : p.Payload[i] = d[3 + i]
  BY PayloadOf
<1> HIDE DEF p
<1>7. p \in Packet
  BY <1>1, <1>2, <1>3, <1>5, <1>6 DEF Packet
<1>8. /\ Serialize(p) \in Seq(Octets) /\ Len(Serialize(p)) = 3 + Len(p.Payload)
      /\ Serialize(p)[1] = p.GFI * Nibble + (p.LCI \div Octet)
      /\ Serialize(p)[2] = p.LCI % Octet /\ Serialize(p)[3] = p.Type
      /\ \A i \in 1..Len(p.Payload) : Serialize(p)[3 + i] = p.Payload[i]
  BY <1>7, SerializeShape
<1>9. \A i \in 1..3 : Serialize(p)[i] = d[i]
  BY <1>2, <1>4, <1>5, <1>8
<1>10. ASSUME NEW i \in 1..Len(d) PROVE Serialize(p)[i] = d[i]
  <2>1. CASE i \in 1..3
    BY <1>9, <2>1
  <2>2. CASE i \in 4..Len(d)
    <3>1. i - 3 \in 1..(Len(d) - 3) /\ 3 + (i - 3) = i
      BY <2>2
    <3>2. Serialize(p)[3 + (i - 3)] = p.Payload[i - 3] /\ p.Payload[i - 3] = d[3 + (i - 3)]
      BY <1>6, <1>8, <3>1
    <3> QED BY <3>1, <3>2
  <2> QED BY <2>1, <2>2
<1>11. Len(Serialize(p)) = Len(d)
  BY <1>6, <1>8
<1>12. Serialize(p) = d
  BY <1>8, <1>10, <1>11, SeqEqual
<1> QED
  BY <1>7, <1>12 DEF p

(***************************************************************************)
(* The addresses.                                                          *)
(***************************************************************************)
LEMMA AddrOctetsBound ==
    ASSUME NEW n \in Nat
    PROVE  /\ AddrOctets(n) \in Nat
           /\ \A i \in 1..AddrOctets(n) : 2*i - 1 \in 1..n
           /\ \A k \in 0..(n - 1) : k \div 2 + 1 \in 1..AddrOctets(n)
BY DEF AddrOctets

\* The half-octets of the packed digits, in order.
LEMMA PackedElements ==
    ASSUME NEW ds \in Seq(Digits)
    PROVE  /\ PackDigits(ds) \in Seq(Octets)
           /\ Len(PackDigits(ds)) = AddrOctets(Len(ds))
           /\ \A i \in 1..AddrOctets(Len(ds)) :
                /\ PackDigits(ds)[i] \div Nibble = ds[2*i - 1]
                /\ 2*i <= Len(ds) => PackDigits(ds)[i] % Nibble = ds[2*i]
<1> DEFINE n == Len(ds)
           low(i) == IF 2*i <= n THEN ds[2*i] ELSE 0
           f == PackDigits(ds)
           m == AddrOctets(n)
<1>1. n \in Nat /\ m \in Nat /\ \A i \in 1..m : 2*i - 1 \in 1..n
  BY AddrOctetsBound
<1>2. f = [i \in 1..m |-> ds[2*i - 1] * Nibble + low(i)]
  BY DEF PackDigits
<1>3. ASSUME NEW i \in 1..m
      PROVE  f[i] \in Octets /\ f[i] \div Nibble = ds[2*i - 1] /\ f[i] % Nibble = low(i)
  <2>1. ds[2*i - 1] \in Digits
    BY <1>1
  <2>2. low(i) \in Digits
    <3>1. CASE 2*i <= n
      <4>1. 2*i \in 1..n
        BY <1>1, <3>1
      <4> QED BY <3>1, <4>1
    <3>2. CASE ~(2*i <= n)
      BY <3>2, OctetFacts DEF Digits
    <3> QED BY <3>1, <3>2
  <2>3. f[i] = ds[2*i - 1] * Nibble + low(i)
    BY <1>2
  <2> HIDE DEF low, f
  <2> QED
    BY <2>1, <2>2, <2>3, TwoDigits
<1>4. f \in [1..m -> Octets]
  BY <1>2, <1>3
<1> HIDE DEF f, m
<1>5. f \in Seq(Octets) /\ Len(f) = m
  BY <1>1, <1>4
<1> QED
  BY <1>3, <1>5 DEF f, m

\* Reading back any of the digits that were packed.
LEMMA DecodePacked ==
    ASSUME NEW ds \in Seq(Digits), NEW octets \in Seq(Octets),
           Len(octets) = AddrOctets(Len(ds)),
           \A i \in 1..Len(octets) : octets[i] = PackDigits(ds)[i],
           NEW s \in Seq(Digits), NEW start \in Nat, start + Len(s) <= Len(ds),
           \A k \in 1..Len(s) : s[k] = ds[start + k]
    PROVE  Decode(octets, Len(s), start) = s
<1> DEFINE n == Len(ds)
           l == Len(s)
           digit(k) == LET j == start + k - 1
                           o == octets[j \div 2 + 1]
                       IN  IF j % 2 = 0 THEN o \div Nibble ELSE o % Nibble
<1>1. n \in Nat /\ l \in Nat /\ start + l <= n
  OBVIOUS
<1>2. ASSUME NEW k \in 1..l PROVE digit(k) = s[k]
  <2> DEFINE j == start + k - 1
             i == j \div 2 + 1
  <2>1. j \in 0..(n - 1) /\ j + 1 = start + k
    BY <1>1
  <2> HIDE DEF j
  <2>2. i \in 1..AddrOctets(n)
    BY <1>1, <2>1, AddrOctetsBound
  <2>3. /\ octets[i] \div Nibble = ds[2*i - 1]
        /\ 2*i <= n => octets[i] % Nibble = ds[2*i]
    <3> HIDE DEF i
    <3> QED BY <2>2, PackedElements
  <2>4. CASE j % 2 = 0
    <3>1. 2*i - 1 = j + 1
      BY <2>1, <2>4
    <3> QED BY <2>1, <2>3, <2>4, <3>1 DEF j
  <2>5. CASE j % 2 # 0
    <3>1. 2*i = j + 1 /\ 2*i <= n
      BY <1>1, <2>1, <2>5
    <3> QED BY <2>1, <2>3, <2>5, <3>1 DEF j
  <2> QED BY <2>4, <2>5
<1>3. Decode(octets, Len(s), start) = [k \in 1..l |-> digit(k)]
  BY DEF Decode
<1> HIDE DEF digit
<1>4. [k \in 1..l |-> digit(k)] = [k \in 1..l |-> s[k]]
  BY <1>2
<1>5. s = [k \in 1..l |-> s[k]]
  OBVIOUS
<1> QED
  BY <1>3, <1>4, <1>5

(***************************************************************************)
(* The facilities.                                                         *)
(***************************************************************************)
FlattenFold(seqs, g) ==
    g = [i \in 1..Len(seqs) |-> IF i = 1 THEN seqs[i] ELSE g[i - 1] \o seqs[i]]

\* What FlattenSeq has put together when it is done with the first k.
Partials(seqs, A, b) ==
    /\ b \in [0..Len(seqs) -> A]
    /\ b[0] = <<>> /\ b[Len(seqs)] = FlattenSeq(seqs)
    /\ \A k \in 0..(Len(seqs) - 1) : b[k + 1] = b[k] \o seqs[k + 1]

\* Sequences are put together one by one.
LEMMA FlattenLoop ==
    ASSUME NEW S, NEW seqs \in Seq(Seq(S))
    PROVE  \E b : Partials(seqs, Seq(S), b)
<1> DEFINE n == Len(seqs)
           A == Seq(S)
           g == CHOOSE f : FlattenFold(seqs, f)
           Upto(f, k) == /\ f[0] = <<>>
                         /\ \A i \in 0..(k - 1) : f[i + 1] = f[i] \o seqs[i + 1]
           T == {k \in 0..n : \E f \in [0..k -> A] : Upto(f, k)}
<1>0. n \in Nat /\ \A i \in 1..n : seqs[i] \in A
  OBVIOUS
<1>1. 0 \in T
  <2> DEFINE e == [i \in 0..0 |-> <<>>]
  <2>1. e \in [0..0 -> A] /\ Upto(e, 0) /\ 0 \in 0..n
    BY <1>0
  <2> HIDE DEF e, A, Upto
  <2> QED BY <2>1
<1>2. ASSUME NEW k \in 0..(n - 1), k \in T PROVE k + 1 \in T
  <2>1. PICK f \in [0..k -> A] : Upto(f, k)
    BY <1>2
  <2> DEFINE v == f[k] \o seqs[k + 1]
             h == [i \in 0..(k + 1) |-> IF i <= k THEN f[i] ELSE v]
  <2>2. k \in Nat /\ k + 1 \in 1..n /\ k + 1 \in 0..n
    BY <1>0
  <2>3. v \in A
    BY <1>0, <2>2, ConcatElements
  <2> HIDE DEF v
  <2>4. h \in [0..(k + 1) -> A]
    BY <2>2, <2>3
  <2>5. h[0] = <<>>
    BY <2>1, <2>2
  <2>6. ASSUME NEW i \in 0..((k + 1) - 1) PROVE h[i + 1] = h[i] \o seqs[i + 1]
    <3>1. CASE i < k
      <4>1. i \in 0..(k - 1) /\ h[i] = f[i] /\ h[i + 1] = f[i + 1]
        BY <2>2, <3>1
      <4> HIDE DEF h
      <4> QED BY <2>1, <4>1
    <3>2. CASE i = k
      <4>1. h[i] = f[k] /\ h[i + 1] = v
        BY <2>2, <3>2
      <4> HIDE DEF h
      <4> QED BY <3>2, <4>1 DEF v
    <3>3. i < k \/ i = k
      BY <2>2
    <3> HIDE DEF h
    <3> QED BY <3>1, <3>2, <3>3
  <2> HIDE DEF h
  <2>7. Upto(h, k + 1)
    BY <2>5, <2>6
  <2> HIDE DEF A, Upto
  <2> QED BY <2>2, <2>4, <2>7
<1> HIDE DEF T
<1>3. n \in T
  <2> HIDE DEF n, Upto
  <2>1. 0..n \subseteq T
    BY <1>0, <1>1, <1>2, SetInduction, Zenon
  <2> QED BY <1>0, <2>1
<1>4. PICK f \in [0..n -> A] : Upto(f, n)
  BY <1>3 DEF T
<1> HIDE DEF T
<1>5. f[n] = FlattenSeq(seqs)
  <2>1. CASE n = 0
    <3>1. seqs = <<>>
      BY <2>1
    <3> QED BY <1>4, <2>1, <3>1 DEF FlattenSeq
  <2>2. CASE n # 0
    <3>1. FlattenSeq(seqs) = g[n]
      BY <2>2, Zenon DEF FlattenSeq, FlattenFold
    <3> DEFINE h == [i \in 1..n |-> f[i]]
    <3>2. ASSUME NEW i \in 1..n PROVE f[i] = IF i = 1 THEN seqs[i] ELSE f[i - 1] \o seqs[i]
      <4>1. i - 1 \in 0..(n - 1) /\ (i - 1) + 1 = i
        BY <1>0
      <4>2. f[i] = f[i - 1] \o seqs[i]
        BY <1>4, <4>1
      <4>3. <<>> \o seqs[i] = seqs[i]
        BY <1>0
      <4>4. CASE i = 1
        <5>1. f[i - 1] = <<>>
          BY <1>4, <4>4
        <5> QED BY <4>2, <4>3, <4>4, <5>1
      <4> QED BY <4>2, <4>4
    <3>3. ASSUME NEW i \in 1..n PROVE h[i] = IF i = 1 THEN seqs[i] ELSE h[i - 1] \o seqs[i]
      <4>1. h[i] = f[i] /\ (i # 1 => h[i - 1] = f[i - 1])
        BY <1>0
      <4> HIDE DEF h
      <4> QED BY <3>2, <4>1
    <3>4. h = [i \in 1..n |-> h[i]]
      OBVIOUS
    <3> HIDE DEF h
    <3>5. FlattenFold(seqs, h)
      <4>1. [i \in 1..n |-> h[i]] = [i \in 1..n |-> IF i = 1 THEN seqs[i] ELSE h[i - 1] \o seqs[i]]
        BY <3>3
      <4> QED BY <3>4, <4>1 DEF FlattenFold
    <3>6. FlattenFold(seqs, g)
      BY <3>5, Zenon
    <3> HIDE DEF g
    <3>7. ASSUME NEW i \in 1..n PROVE g[i] = IF i = 1 THEN seqs[i] ELSE g[i - 1] \o seqs[i]
      <4>1. g = [j \in 1..n |-> IF j = 1 THEN seqs[j] ELSE g[j - 1] \o seqs[j]]
        BY <3>6 DEF FlattenFold
      <4> HIDE DEF n
      <4> QED BY <4>1
    <3> DEFINE W == {k \in 0..n : k # 0 => g[k] = f[k]}
    <3>8. 0 \in W
      BY <1>0
    <3>9. ASSUME NEW k \in 0..(n - 1), k \in W PROVE k + 1 \in W
      <4>1. k \in Nat /\ k + 1 \in 1..n /\ k + 1 \in 0..n /\ (k + 1) - 1 = k /\ (k + 1 = 1 <=> k = 0)
        BY <1>0
      <4>2. k # 0 => g[k] = f[k]
        BY <3>9
      <4> HIDE DEF W
      <4>3. g[k + 1] = IF k = 0 THEN seqs[k + 1] ELSE g[k] \o seqs[k + 1]
        BY <3>7, <4>1
      <4>4. f[k + 1] = IF k = 0 THEN seqs[k + 1] ELSE f[k] \o seqs[k + 1]
        BY <3>2, <4>1
      <4>5. g[k + 1] = f[k + 1]
        BY <4>2, <4>3, <4>4
      <4> QED BY <4>1, <4>5 DEF W
    <3> HIDE DEF W
    <3>10. n \in W
      <4> HIDE DEF n, Upto
      <4>1. 0..n \subseteq W
        BY <1>0, <3>8, <3>9, SetInduction, Zenon
      <4> QED BY <1>0, <4>1
    <3> QED BY <2>2, <3>1, <3>10 DEF W
  <2> QED BY <2>1, <2>2
<1> HIDE DEF g
<1>6. Partials(seqs, A, f)
  BY <1>4, <1>5 DEF Partials
<1> QED
  BY <1>6

\* Sequences put together are a sequence.
LEMMA FlattenTyped ==
    ASSUME NEW S, NEW seqs \in Seq(Seq(S))
    PROVE  FlattenSeq(seqs) \in Seq(S)
<1>1. PICK b : Partials(seqs, Seq(S), b)
  BY FlattenLoop
<1>2. Len(seqs) \in 0..Len(seqs)
  OBVIOUS
<1> QED
  BY <1>1, <1>2 DEF Partials

\* Facilities by their codes.
FacilityMaps == UNION {[S -> Seq(Octets)] : S \in SUBSET Octets}

\* One facility map over another is a facility map.
LEMMA OverTyped ==
    ASSUME NEW f \in FacilityMaps, NEW g \in FacilityMaps
    PROVE  Over(f, g) \in FacilityMaps
<1>1. PICK S \in SUBSET Octets : f \in [S -> Seq(Octets)]
  BY DEF FacilityMaps
<1>2. PICK U \in SUBSET Octets : g \in [U -> Seq(Octets)]
  BY DEF FacilityMaps
<1>3. Over(f, g) \in [S \union U -> Seq(Octets)]
  BY <1>1, <1>2 DEF Over
<1> QED
  BY <1>3 DEF FacilityMaps

\* The class of a facility is a natural number.
LEMMA ClassTyped == \A code \in Octets : Class(code) \in Nat
<1> SUFFICES ASSUME NEW code \in Octets PROVE code \div (Octet \div 4) \in Nat
  BY DEF Class
<1>1. Octet \div 4 \in Nat /\ Octet >= 4
  <2>1. Nibble \in Nat /\ Nibble >= 2
    BY NibbleAssumption
  <2>2. Nibble * Nibble >= 4
    BY <2>1, Z3
  <2> QED BY <2>2, OctetFacts
<1>2. Octet \div 4 \in Nat \ {0}
  BY <1>1, OctetFacts
<1> QED
  BY <1>2, DivModInverse DEF Octets

\* The map from the facility at i on, by the map g of those behind it.
FacilitiesFrom(fac, g, i) ==
    IF i > Len(fac) \/ ~Complete(fac, i) THEN [c \in {} |-> <<>>]
    ELSE LET v == ValueAt(fac, i)
             next == v + ValueLen(fac, i)
         IN  Over(g[next], [c \in {fac[i]} |-> SubSeq(fac, v, next - 1)])

FacilityFold(fac, g) ==
    g = [i \in 1 .. Len(fac) + 1 |->
            IF i > Len(fac) \/ ~Complete(fac, i) THEN [c \in {} |-> <<>>]
            ELSE LET v == ValueAt(fac, i)
                     next == v + ValueLen(fac, i)
                 IN  Over(g[next], [c \in {fac[i]} |-> SubSeq(fac, v, next - 1)])]

\* A complete facility ends behind its code and within the field.
LEMMA FacilityEnds ==
    ASSUME NEW fac \in Seq(Octets), NEW i \in 1..Len(fac), Complete(fac, i)
    PROVE  /\ ValueAt(fac, i) + ValueLen(fac, i) \in (i + 1)..(Len(fac) + 1)
           /\ SubSeq(fac, ValueAt(fac, i), (ValueAt(fac, i) + ValueLen(fac, i)) - 1) \in Seq(Octets)
<1> DEFINE v == ValueAt(fac, i)
           l == ValueLen(fac, i)
           cl == Class(fac[i])
<1>1. Len(fac) \in Nat /\ fac[i] \in Octets /\ cl \in Nat
  BY ClassTyped
<1> HIDE DEF cl
<1>2. v \in Nat /\ v >= i + 1 /\ l \in Nat
  <2>1. CASE cl = 3
    <3>1. i + 1 \in 1..Len(fac)
      BY <1>1, <2>1 DEF Complete, cl
    <3>2. fac[i + 1] \in Nat
      <4>1. fac[i + 1] \in Octets
        BY <3>1
      <4> QED BY <4>1 DEF Octets
    <3> QED BY <1>1, <2>1, <3>2 DEF ValueAt, ValueLen, cl
  <2>2. CASE cl # 3
    BY <1>1, <2>2 DEF ValueAt, ValueLen, cl
  <2> QED BY <2>1, <2>2
<1>3. v + l - 1 <= Len(fac)
  BY DEF Complete
<1> HIDE DEF v, l
<1>4. \A j \in v..((v + l) - 1) : fac[j] \in Octets
  BY <1>1, <1>2, <1>3
<1>5. SubSeq(fac, v, (v + l) - 1) \in Seq(Octets)
  <2>1. v \in Int /\ (v + l) - 1 \in Int
    BY <1>2
  <2> QED BY <1>4, <2>1, SubSeqProperties
<1> QED
  BY <1>1, <1>2, <1>3, <1>5 DEF v, l

\* One step of the walk over the facilities.
LEMMA FacilitiesFromTyped ==
    ASSUME NEW fac \in Seq(Octets), NEW i \in 1..(Len(fac) + 1), NEW g,
           \A j \in (i + 1)..(Len(fac) + 1) : g[j] \in FacilityMaps
    PROVE  FacilitiesFrom(fac, g, i) \in FacilityMaps
<1>1. CASE i > Len(fac) \/ ~Complete(fac, i)
  <2>1. [c \in {} |-> <<>>] \in FacilityMaps
    <3>1. {} \in SUBSET Octets /\ [c \in {} |-> <<>>] \in [{} -> Seq(Octets)]
      OBVIOUS
    <3> QED BY <3>1 DEF FacilityMaps
  <2> QED BY <1>1, <2>1 DEF FacilitiesFrom
<1>2. CASE ~(i > Len(fac) \/ ~Complete(fac, i))
  <2> DEFINE next == ValueAt(fac, i) + ValueLen(fac, i)
             val == SubSeq(fac, ValueAt(fac, i), next - 1)
             one == [c \in {fac[i]} |-> val]
  <2>1. i \in 1..Len(fac) /\ Complete(fac, i)
    BY <1>2
  <2>2. next \in (i + 1)..(Len(fac) + 1) /\ val \in Seq(Octets) /\ fac[i] \in Octets
    <3>1. fac[i] \in Octets
      BY <2>1
    <3>2. next \in (i + 1)..(Len(fac) + 1) /\ val \in Seq(Octets)
      <4>1. /\ ValueAt(fac, i) + ValueLen(fac, i) \in (i + 1)..(Len(fac) + 1)
            /\ SubSeq(fac, ValueAt(fac, i), (ValueAt(fac, i) + ValueLen(fac, i)) - 1) \in Seq(Octets)
        <5> HIDE DEF next, val, one
        <5> QED BY <2>1, FacilityEnds
      <4> QED BY <4>1
    <3> QED BY <3>1, <3>2
  <2>3. FacilitiesFrom(fac, g, i) = Over(g[next], one)
    BY <1>2 DEF FacilitiesFrom
  <2> HIDE DEF next, val
  <2>4. one \in FacilityMaps
    <3>1. {fac[i]} \in SUBSET Octets /\ one \in [{fac[i]} -> Seq(Octets)]
      BY <2>2
    <3> QED BY <3>1 DEF FacilityMaps
  <2> HIDE DEF one
  <2>5. g[next] \in FacilityMaps
    BY <2>2
  <2> QED
    BY <2>3, <2>4, <2>5, OverTyped
<1> QED
  BY <1>1, <1>2

\* The walk ends, whatever the octets are.
LEMMA FacilityWalk ==
    ASSUME NEW fac \in Seq(Octets)
    PROVE  \E b : /\ FacilityMap(fac) = b[1]
                  /\ \A i \in 1..(Len(fac) + 1) :
                        b[i] \in FacilityMaps /\ b[i] = FacilitiesFrom(fac, b, i)
<1> DEFINE n == Len(fac)
           A == FacilityMaps
           b == CHOOSE g : FacilityFold(fac, g)
           Down(f, k) == \A i \in (n + 1 - k)..(n + 1) : f[i] = FacilitiesFrom(fac, f, i)
           T == {k \in 0..n : \E f \in [(n + 1 - k)..(n + 1) -> A] : Down(f, k)}
<1>0. n \in Nat
  OBVIOUS
<1>1. FacilityMap(fac) = b[1]
  BY Zenon DEF FacilityMap, FacilityFold
<1>2. \E f \in [1..(n + 1) -> A] : \A i \in 1..(n + 1) : f[i] = FacilitiesFrom(fac, f, i)
  <2>1. 0 \in T
    <3> DEFINE last == FacilitiesFrom(fac, <<>>, n + 1)
               f == [i \in (n + 1 - 0)..(n + 1) |-> last]
    <3>1. n + 1 \in 1..(n + 1) /\ (n + 1 - 0)..(n + 1) = {n + 1} /\ (n + 1 + 1)..(n + 1) = {}
      BY <1>0
    <3>2. last \in A
      <4> HIDE DEF A
      <4>1. \A j \in (n + 1 + 1)..(n + 1) : <<>>[j] \in FacilityMaps
        BY <3>1
      <4> QED BY <3>1, <4>1, FacilitiesFromTyped DEF A
    <3>3. FacilitiesFrom(fac, f, n + 1) = last
      BY <1>0 DEF FacilitiesFrom
    <3> HIDE DEF last
    <3>4. f \in [(n + 1 - 0)..(n + 1) -> A] /\ Down(f, 0)
      <4>1. f[n + 1] = last
        BY <3>1
      <4> QED BY <3>1, <3>2, <3>3, <4>1
    <3>5. 0 \in 0..n
      BY <1>0
    <3> HIDE DEF f, A, Down, n
    <3> QED BY <3>4, <3>5
  <2>2. ASSUME NEW k \in 0..(n - 1), k \in T PROVE k + 1 \in T
    <3>1. PICK f \in [(n + 1 - k)..(n + 1) -> A] : Down(f, k)
      BY <2>2
    <3> DEFINE m == n - k
               v == FacilitiesFrom(fac, f, m)
               h == [i \in (n + 1 - (k + 1))..(n + 1) |-> IF i = m THEN v ELSE f[i]]
    <3>2. /\ k + 1 \in 0..n /\ m \in 1..n /\ m \in 1..(n + 1) /\ n + 1 - (k + 1) = m
          /\ n + 1 - k = m + 1 /\ m \in Nat
      BY <1>0
    <3> HIDE DEF m, T
    <3>3. v \in A
      <4>1. \A j \in (m + 1)..(n + 1) : f[j] \in FacilityMaps
        BY <3>2
      <4> QED BY <3>2, <4>1, FacilitiesFromTyped
    <3>4. ASSUME NEW i \in m..(n + 1) PROVE FacilitiesFrom(fac, h, i) = FacilitiesFrom(fac, f, i)
      <4>1. CASE i > Len(fac) \/ ~Complete(fac, i)
        BY <4>1 DEF FacilitiesFrom
      <4>2. CASE ~(i > Len(fac) \/ ~Complete(fac, i))
        <5> DEFINE next == ValueAt(fac, i) + ValueLen(fac, i)
        <5>1. i \in 1..Len(fac) /\ Complete(fac, i)
          BY <1>0, <3>2, <4>2
        <5>2. next \in (i + 1)..(n + 1)
          BY <5>1, FacilityEnds
        <5> HIDE DEF next, v
        <5>3. next \in (n + 1 - (k + 1))..(n + 1) /\ next # m
          BY <3>2, <5>2
        <5>4. h[next] = f[next]
          BY <5>3
        <5> HIDE DEF h
        <5> QED
          BY <5>4 DEF FacilitiesFrom, next
      <4> QED BY <4>1, <4>2
    <3> HIDE DEF v
    <3>5. h \in [(n + 1 - (k + 1))..(n + 1) -> A]
      BY <3>2, <3>3
    <3>6. ASSUME NEW i \in (n + 1 - (k + 1))..(n + 1) PROVE h[i] = FacilitiesFrom(fac, h, i)
      <4>0. i \in m..(n + 1)
        BY <3>2
      <4>1. CASE i = m
        <5>1. h[i] = v
          BY <4>1
        <5> HIDE DEF h
        <5> QED BY <3>4, <4>0, <4>1, <5>1 DEF v
      <4>2. CASE i # m
        <5>1. h[i] = f[i] /\ i \in (n + 1 - k)..(n + 1)
          BY <3>2, <4>2
        <5> HIDE DEF h
        <5>2. f[i] = FacilitiesFrom(fac, f, i)
          BY <3>1, <5>1
        <5> QED BY <3>4, <4>0, <5>1, <5>2
      <4> QED BY <4>1, <4>2
    <3> HIDE DEF h
    <3>7. Down(h, k + 1)
      BY <3>6
    <3> HIDE DEF A, Down, n
    <3>8. \E g \in [(n + 1 - (k + 1))..(n + 1) -> A] : Down(g, k + 1)
      BY <3>5, <3>7
    <3> QED BY <3>2, <3>8 DEF T
  <2> HIDE DEF T
  <2>3. n \in T
    <3> HIDE DEF n, Down
    <3>1. 0..n \subseteq T
      BY <1>0, <2>1, <2>2, SetInduction, Zenon
    <3> QED BY <1>0, <3>1
  <2>4. PICK f \in [(n + 1 - n)..(n + 1) -> A] : Down(f, n)
    BY <2>3 DEF T
  <2>5. n + 1 - n = 1
    BY <1>0
  <2> QED BY <2>4, <2>5
<1>3. PICK f \in [1..(n + 1) -> A] : \A i \in 1..(n + 1) : f[i] = FacilitiesFrom(fac, f, i)
  BY <1>2
<1>4. ASSUME NEW g PROVE FacilityFold(fac, g) <=> g = [i \in 1..(n + 1) |-> FacilitiesFrom(fac, g, i)]
  BY DEF FacilityFold, FacilitiesFrom
<1>5. FacilityFold(fac, f)
  <2>1. f = [i \in 1..(n + 1) |-> f[i]]
    OBVIOUS
  <2>2. [i \in 1..(n + 1) |-> f[i]] = [i \in 1..(n + 1) |-> FacilitiesFrom(fac, f, i)]
    BY <1>3
  <2> QED BY <1>4, <2>1, <2>2
<1>6. FacilityFold(fac, b)
  BY <1>5, Zenon
<1> HIDE DEF b, T, A
<1>7. ASSUME NEW i \in 1..(n + 1) PROVE b[i] = FacilitiesFrom(fac, b, i)
  <2>1. b = [j \in 1..(n + 1) |-> FacilitiesFrom(fac, b, j)]
    BY <1>4, <1>6
  <2> HIDE DEF n
  <2> QED BY <2>1
<1> DEFINE W == {k \in 0..n : \A i \in (n + 1 - k)..(n + 1) : b[i] \in FacilityMaps}
<1>8. 0 \in W
  <2>1. n + 1 \in 1..(n + 1) /\ (n + 1 - 0)..(n + 1) = {n + 1} /\ (n + 1 + 1)..(n + 1) = {}
    BY <1>0
  <2>2. b[n + 1] \in FacilityMaps
    BY <1>7, <2>1, FacilitiesFromTyped
  <2> QED BY <1>0, <2>1, <2>2
<1>9. ASSUME NEW k \in 0..(n - 1), k \in W PROVE k + 1 \in W
  <2> DEFINE m == n - k
  <2>1. /\ k + 1 \in 0..n /\ m \in 1..(n + 1) /\ n + 1 - (k + 1) = m /\ n + 1 - k = m + 1 /\ m \in Nat
    BY <1>0
  <2>2. \A j \in (m + 1)..(n + 1) : b[j] \in FacilityMaps
    BY <1>9, <2>1
  <2> HIDE DEF m
  <2>3. b[m] \in FacilityMaps
    BY <1>7, <2>1, <2>2, FacilitiesFromTyped
  <2>4. \A i \in m..(n + 1) : i = m \/ i \in (m + 1)..(n + 1)
    BY <1>0, <2>1
  <2> QED BY <2>1, <2>2, <2>3, <2>4
<1> HIDE DEF W
<1>10. n \in W
  <2> HIDE DEF n
  <2>1. 0..n \subseteq W
    BY <1>0, <1>8, <1>9, SetInduction, Zenon
  <2> QED BY <1>0, <2>1
<1>11. n + 1 - n = 1
  BY <1>0
<1>12. \A i \in 1..(n + 1) : b[i] \in FacilityMaps
  BY <1>10, <1>11 DEF W
<1> QED
  BY <1>1, <1>7, <1>12

\* and gives a facility map.
LEMMA FacilityMapTyped ==
    ASSUME NEW fac \in Seq(Octets)
    PROVE  FacilityMap(fac) \in FacilityMaps
<1>1. PICK b : /\ FacilityMap(fac) = b[1]
               /\ \A i \in 1..(Len(fac) + 1) :
                     b[i] \in FacilityMaps /\ b[i] = FacilitiesFrom(fac, b, i)
  BY FacilityWalk
<1>2. 1 \in 1..(Len(fac) + 1)
  OBVIOUS
<1> QED
  BY <1>1, <1>2

\* An encoded facility is as long as FieldSize counts it.
LEMMA EncodeLength ==
    ASSUME NEW code \in Octets, NEW val \in Seq(Octets)
    PROVE  /\ EncodeFacility(code, val) \in Seq(Octets)
           /\ Len(EncodeFacility(code, val)) = 1 + Len(val) + IF Class(code) = 3 THEN 1 ELSE 0
           /\ EncodeFacility(code, val)[1] = code
           /\ Class(code) = 3 =>
                 /\ EncodeFacility(code, val)[2] = Len(val) % Octet
                 /\ \A i \in 1..Len(val) : EncodeFacility(code, val)[2 + i] = val[i]
           /\ Class(code) # 3 =>
                 \A i \in 1..Len(val) : EncodeFacility(code, val)[1 + i] = val[i]
<1> DEFINE len == IF Class(code) = 3 THEN <<Len(val) % Octet>> ELSE <<>>
           head == <<code>> \o len
           e == EncodeFacility(code, val)
<1>1. Len(val) % Octet \in Octets
  BY OctetFacts, DivModInverse DEF Octets
<1>2. e = head \o val
  BY DEF EncodeFacility
<1>3. CASE Class(code) = 3
  <2> DEFINE l == Len(val) % Octet
             one == <<code>>
             two == <<l>>
  <2>1. /\ head = one \o two /\ one \in Seq(Octets) /\ two \in Seq(Octets)
        /\ Len(one) = 1 /\ Len(two) = 1 /\ one[1] = code /\ two[1] = l
    BY <1>1, <1>3
  <2> HIDE DEF one, two, l
  <2>2. head \in Seq(Octets) /\ Len(head) = 2 /\ head[1] = code /\ head[2] = l /\ 1 \in 1..2 /\ 2 \in 1..2
    <3> HIDE DEF len, head
    <3>1. /\ one \o two \in Seq(Octets) /\ Len(one \o two) = Len(one) + Len(two)
          /\ \A i \in 1..Len(one) : (one \o two)[i] = one[i]
          /\ \A i \in 1..Len(two) : (one \o two)[Len(one) + i] = two[i]
      <4>1. one \in Seq(Octets) /\ two \in Seq(Octets)
        BY <2>1
      <4> QED BY ONLY <4>1, ConcatElements
    <3>2. 1 \in 1..Len(one) /\ 1 \in 1..Len(two)
      BY <2>1
    <3> QED BY <2>1, <3>1, <3>2
  <2> HIDE DEF head, e
  <2>3. /\ e \in Seq(Octets) /\ Len(e) = Len(head) + Len(val)
        /\ Len(head) \in Nat /\ Len(val) \in Nat
        /\ \A i \in 1..Len(head) : e[i] = head[i]
        /\ \A i \in 1..Len(val) : e[Len(head) + i] = val[i]
    <3>1. /\ head \o val \in Seq(Octets) /\ Len(head \o val) = Len(head) + Len(val)
          /\ Len(head) \in Nat /\ Len(val) \in Nat
          /\ \A i \in 1..Len(head) : (head \o val)[i] = head[i]
          /\ \A i \in 1..Len(val) : (head \o val)[Len(head) + i] = val[i]
      <4>1. head \in Seq(Octets) /\ val \in Seq(Octets)
        BY <2>2
      <4> HIDE DEF len
      <4> QED BY ONLY <4>1, ConcatElements
    <3> QED BY <1>2, <3>1
  <2> QED BY <1>3, <2>2, <2>3 DEF l, e
<1>4. CASE Class(code) # 3
  <2>1. head = <<code>>
    BY <1>4
  <2> HIDE DEF head, e
  <2>2. head \in Seq(Octets) /\ Len(head) = 1 /\ head[1] = code /\ 1 \in 1..1
    BY <2>1
  <2>3. /\ e \in Seq(Octets) /\ Len(e) = Len(head) + Len(val)
        /\ Len(head) \in Nat /\ Len(val) \in Nat
        /\ \A i \in 1..Len(head) : e[i] = head[i]
        /\ \A i \in 1..Len(val) : e[Len(head) + i] = val[i]
    <3>1. /\ head \o val \in Seq(Octets) /\ Len(head \o val) = Len(head) + Len(val)
          /\ Len(head) \in Nat /\ Len(val) \in Nat
          /\ \A i \in 1..Len(head) : (head \o val)[i] = head[i]
          /\ \A i \in 1..Len(val) : (head \o val)[Len(head) + i] = val[i]
      <4>1. head \in Seq(Octets) /\ val \in Seq(Octets)
        BY <2>2
      <4> HIDE DEF len
      <4> QED BY ONLY <4>1, ConcatElements
    <3> QED BY <1>2, <3>1
  <2> QED BY <1>4, <2>2, <2>3 DEF e
<1> QED
  BY <1>3, <1>4

\* An encoded facility consists of octets.
LEMMA EncodeTyped ==
    ASSUME NEW code \in Octets, NEW val \in Seq(Octets)
    PROVE  EncodeFacility(code, val) \in Seq(Octets)
BY EncodeLength

\* So do all of them, in any order.
LEMMA EncodedFacilitiesTyped ==
    ASSUME NEW facs \in FacilityMaps, NEW codes \in SetToSeqs(DOMAIN facs)
    PROVE  EncodeFacilities(facs, codes) \in Seq(Octets)
<1>1. PICK S \in SUBSET Octets : facs \in [S -> Seq(Octets)]
  BY DEF FacilityMaps
<1> DEFINE n == Cardinality(S)
           seqs == [i \in DOMAIN codes |-> EncodeFacility(codes[i], facs[codes[i]])]
<1>2. codes \in [1..n -> S]
  BY <1>1 DEF SetToSeqs
<1>3. n \in Nat
  <2>1. IsFiniteSet(0..(Octet - 1))
    BY OctetFacts, FS_Interval
  <2> QED
    BY <1>1, <2>1, FS_Subset, FS_CardinalityType DEF Octets
<1>4. ASSUME NEW i \in 1..n PROVE EncodeFacility(codes[i], facs[codes[i]]) \in Seq(Octets)
  <2>1. codes[i] \in Octets /\ facs[codes[i]] \in Seq(Octets)
    BY <1>1, <1>2
  <2> QED
    BY <2>1, EncodeTyped
<1> HIDE DEF n
<1>5. seqs \in [1..n -> Seq(Octets)]
  BY <1>2, <1>4
<1>6. EncodeFacilities(facs, codes) = FlattenSeq(seqs)
  BY DEF EncodeFacilities
<1> HIDE DEF seqs
<1>7. seqs \in Seq(Seq(Octets))
  BY <1>3, <1>5
<1> QED
  BY <1>6, <1>7, FlattenTyped

(***************************************************************************)
(* The size of facilities.                                                 *)
(***************************************************************************)
EntrySize(facs, c) == 1 + Len(facs[c]) + IF Class(c) = 3 THEN 1 ELSE 0

First(s) == CHOOSE x \in s : TRUE
SizeFold(facs, S, g) ==
    g = [s \in SUBSET S |->
            IF s = {} THEN 0
            ELSE EntrySize(facs, First(s)) + g[s \ {First(s)}]]

\* A sum over the subsets of S, element by element.
Sums(w, S, g) ==
    /\ g[{}] = 0
    /\ \A s \in SUBSET S : s # {} => g[s] = w[First(s)] + g[s \ {First(s)}]

\* There is such a sum over every finite set.
LEMMA SumsExist ==
    ASSUME NEW S, IsFiniteSet(S), NEW w \in [S -> Nat]
    PROVE  \E g \in [SUBSET S -> Nat] : Sums(w, S, g)
<1> DEFINE n == Cardinality(S)
           Upto(k) == {s \in SUBSET S : Cardinality(s) <= k}
           Sum(f, k) == /\ f[{}] = 0
                        /\ \A s \in Upto(k) : s # {} => f[s] = w[First(s)] + f[s \ {First(s)}]
           T == {k \in 0..n : \E f \in [Upto(k) -> Nat] : Sum(f, k)}
<1>0. n \in Nat /\ \A s \in SUBSET S : IsFiniteSet(s) /\ Cardinality(s) \in Nat /\ Cardinality(s) <= n
  BY FS_Subset, FS_CardinalityType
<1>a. ASSUME NEW s \in SUBSET S, s # {}
      PROVE  First(s) \in s /\ First(s) \in S /\ s \ {First(s)} \in SUBSET S
             /\ Cardinality(s \ {First(s)}) = Cardinality(s) - 1
  <2>1. First(s) \in s
    BY <1>a DEF First
  <2>2. IsFiniteSet(s)
    BY <1>0
  <2> HIDE DEF n
  <2> QED BY <2>1, <2>2, FS_RemoveElement
<1>1. 0 \in T
  <2> DEFINE f == [s \in Upto(0) |-> 0]
  <2>1. \A s \in Upto(0) : s = {}
    BY <1>0, FS_EmptySet
  <2>2. {} \in Upto(0)
    BY FS_EmptySet
  <2>3. f \in [Upto(0) -> Nat] /\ Sum(f, 0) /\ 0 \in 0..n
    BY <1>0, <2>1, <2>2
  <2> HIDE DEF f, Sum, Upto, n
  <2> QED BY <2>3
<1>2. ASSUME NEW k \in 0..(n - 1), k \in T PROVE k + 1 \in T
  <2>1. PICK f \in [Upto(k) -> Nat] : Sum(f, k)
    BY <1>2
  <2> DEFINE h == [s \in Upto(k + 1) |->
                     IF s \in Upto(k) THEN f[s] ELSE w[First(s)] + f[s \ {First(s)}]]
  <2>2. k \in Nat /\ k + 1 \in 0..n
    BY <1>0
  <2>3. ASSUME NEW s \in Upto(k + 1), s # {}
        PROVE  First(s) \in S /\ s \ {First(s)} \in Upto(k) /\ s \ {First(s)} \in Upto(k + 1)
               /\ h[s \ {First(s)}] = f[s \ {First(s)}]
    <3>1. /\ First(s) \in S /\ s \ {First(s)} \in SUBSET S
          /\ Cardinality(s \ {First(s)}) = Cardinality(s) - 1
      BY <1>a, <2>3
    <3>2. Cardinality(s) \in Nat /\ Cardinality(s) <= k + 1
      BY <1>0
    <3>3. s \ {First(s)} \in Upto(k) /\ s \ {First(s)} \in Upto(k + 1)
      BY <2>2, <3>1, <3>2
    <3> HIDE DEF Upto
    <3> QED BY <3>1, <3>3
  <2>4. h \in [Upto(k + 1) -> Nat]
    <3>1. ASSUME NEW s \in Upto(k + 1), s \notin Upto(k) PROVE s # {}
      BY <1>0, <2>2, <3>1, FS_EmptySet
    <3>2. ASSUME NEW s \in Upto(k + 1), s \notin Upto(k)
          PROVE  w[First(s)] + f[s \ {First(s)}] \in Nat
      <4>1. First(s) \in S /\ s \ {First(s)} \in Upto(k)
        BY <2>3, <3>1, <3>2
      <4> HIDE DEF Upto, h
      <4>2. w[First(s)] \in Nat /\ f[s \ {First(s)}] \in Nat
        BY <4>1
      <4> QED BY <4>2
    <3> HIDE DEF Upto
    <3> QED BY <3>2
  <2>5. {} \in Upto(k) /\ {} \in Upto(k + 1)
    BY <2>2, FS_EmptySet
  <2>6. ASSUME NEW s \in Upto(k + 1), s # {} PROVE h[s] = w[First(s)] + h[s \ {First(s)}]
    <3>1. h[s \ {First(s)}] = f[s \ {First(s)}]
      BY <2>3, <2>6
    <3>2. CASE s \in Upto(k)
      <4>1. h[s] = f[s]
        BY <3>2
      <4>2. f[s] = w[First(s)] + f[s \ {First(s)}]
        BY <2>1, <2>6, <3>2
      <4> HIDE DEF h, Upto
      <4> QED BY <3>1, <4>1, <4>2
    <3>3. CASE s \notin Upto(k)
      <4>1. h[s] = w[First(s)] + f[s \ {First(s)}]
        BY <3>3
      <4> HIDE DEF h, Upto
      <4> QED BY <3>1, <4>1
    <3> QED BY <3>2, <3>3
  <2>7. h[{}] = 0
    BY <2>1, <2>5
  <2> HIDE DEF h
  <2>8. Sum(h, k + 1)
    BY <2>6, <2>7
  <2> HIDE DEF Sum, Upto
  <2> QED BY <2>2, <2>4, <2>8
<1> HIDE DEF T
<1>3. n \in T
  <2> HIDE DEF n, Sum, Upto
  <2>1. 0..n \subseteq T
    BY <1>0, <1>1, <1>2, SetInduction, Zenon
  <2> QED BY <1>0, <2>1
<1>4. PICK f \in [Upto(n) -> Nat] : Sum(f, n)
  BY <1>3 DEF T
<1>5. Upto(n) = SUBSET S
  BY <1>0
<1>6. Sums(w, S, f)
  <2> HIDE DEF Upto
  <2> QED BY <1>4, <1>5 DEF Sums
<1> HIDE DEF Upto
<1> QED
  BY <1>4, <1>5, <1>6

\* A sum over the subsets of S in whatever order.
AnyOrder(w, S, g) == \A s \in SUBSET S : \A x \in s : g[s] = w[x] + g[s \ {x}]

\* The order of a sum does not matter.
LEMMA SumsAnyOrder ==
    ASSUME NEW S, IsFiniteSet(S), NEW w \in [S -> Nat], NEW g \in [SUBSET S -> Nat], Sums(w, S, g)
    PROVE  AnyOrder(w, S, g)
<1> DEFINE n == Cardinality(S)
           T == {k \in 0..n : \A s \in SUBSET S : Cardinality(s) <= k =>
                                 \A x \in s : g[s] = w[x] + g[s \ {x}]}
<1>0. n \in Nat /\ \A s \in SUBSET S : IsFiniteSet(s) /\ Cardinality(s) \in Nat /\ Cardinality(s) <= n
  BY FS_Subset, FS_CardinalityType
<1>1. 0 \in T
  <2>1. ASSUME NEW s \in SUBSET S, Cardinality(s) <= 0 PROVE s = {}
    BY <1>0, <2>1, FS_EmptySet
  <2> QED BY <1>0, <2>1
<1>2. ASSUME NEW k \in 0..(n - 1), k \in T PROVE k + 1 \in T
  <2>0. k \in Nat /\ k + 1 \in 0..n
    BY <1>0
  <2>1. ASSUME NEW s \in SUBSET S, Cardinality(s) <= k + 1, NEW x \in s
        PROVE  g[s] = w[x] + g[s \ {x}]
    <3> DEFINE c == First(s)
    <3>1. c \in s /\ g[s] = w[c] + g[s \ {c}]
      BY DEF Sums, First
    <3>2. CASE x = c
      BY <3>1, <3>2
    <3>3. CASE x # c
      <4>1. IsFiniteSet(s) /\ Cardinality(s) \in Nat
        BY <1>0
      <4> HIDE DEF c, n
      <4>2. Cardinality(s \ {c}) = Cardinality(s) - 1 /\ Cardinality(s \ {x}) = Cardinality(s) - 1
        BY <3>1, <4>1, FS_RemoveElement
      <4>3. /\ s \ {c} \in SUBSET S /\ s \ {x} \in SUBSET S /\ x \in s \ {c} /\ c \in s \ {x}
            /\ Cardinality(s \ {c}) <= k /\ Cardinality(s \ {x}) <= k
        BY <2>0, <2>1, <3>1, <3>3, <4>1, <4>2
      <4>4. \A t \in SUBSET S : Cardinality(t) <= k => \A y \in t : g[t] = w[y] + g[t \ {y}]
        BY <1>2
      <4>5. g[s \ {c}] = w[x] + g[(s \ {c}) \ {x}] /\ g[s \ {x}] = w[c] + g[(s \ {x}) \ {c}]
        BY <4>3, <4>4
      <4>6. (s \ {c}) \ {x} = (s \ {x}) \ {c}
        OBVIOUS
      <4> DEFINE r == (s \ {c}) \ {x}
      <4>7. r \in SUBSET S /\ w[x] \in Nat /\ w[c] \in Nat
        BY <3>1
      <4>8. g[s \ {c}] = w[x] + g[r] /\ g[s \ {x}] = w[c] + g[r] /\ g[r] \in Nat
        BY <4>5, <4>6, <4>7
      <4> HIDE DEF r, T
      <4> QED BY <3>1, <4>7, <4>8
    <3> QED BY <3>2, <3>3
  <2> QED BY <2>0, <2>1
<1> HIDE DEF T
<1>3. n \in T
  <2> HIDE DEF n
  <2>1. 0..n \subseteq T
    BY <1>0, <1>1, <1>2, SetInduction, Zenon
  <2> QED BY <1>0, <2>1
<1> QED
  BY <1>0, <1>3 DEF T, AnyOrder

\* FieldSize is a sum, in whatever order.
LEMMA FieldSizeSums ==
    ASSUME NEW facs \in FacilityMaps
    PROVE  \E g \in [SUBSET (DOMAIN facs) -> Nat] :
              /\ g[{}] = 0 /\ FieldSize(facs) = g[DOMAIN facs]
              /\ \A s \in SUBSET (DOMAIN facs) : \A x \in s :
                    g[s] = EntrySize(facs, x) + g[s \ {x}]
<1> DEFINE S == DOMAIN facs
           w == [c \in S |-> EntrySize(facs, c)]
           b == CHOOSE g : SizeFold(facs, S, g)
<1>1. S \in SUBSET Octets /\ facs \in [S -> Seq(Octets)]
  BY DEF FacilityMaps
<1>2. IsFiniteSet(S)
  <2>1. IsFiniteSet(0..(Octet - 1))
    BY OctetFacts, FS_Interval
  <2> HIDE DEF S
  <2> QED BY <1>1, <2>1, FS_Subset DEF Octets
<1>3. FieldSize(facs) = b[S]
  BY Zenon DEF FieldSize, MapThenSumSet, MapThenFoldSet, SizeFold, EntrySize, First
<1> HIDE DEF S
<1>4. \A c \in S : EntrySize(facs, c) \in Nat
  BY <1>1 DEF EntrySize
<1>5. w \in [S -> Nat]
  BY <1>4
<1> HIDE DEF w
<1>6. PICK f \in [SUBSET S -> Nat] : Sums(w, S, f)
  BY <1>2, <1>5, SumsExist
<1>7. ASSUME NEW s \in SUBSET S, s # {} PROVE First(s) \in S /\ w[First(s)] = EntrySize(facs, First(s))
  <2>1. First(s) \in S
    BY <1>7 DEF First
  <2> QED BY <2>1 DEF w
<1>8. SizeFold(facs, S, f)
  <2>1. \A s \in SUBSET S : f[s] = IF s = {} THEN 0
                                   ELSE EntrySize(facs, First(s)) + f[s \ {First(s)}]
    BY <1>6, <1>7 DEF Sums
  <2>2. f = [s \in SUBSET S |-> f[s]]
    BY <1>6
  <2>3. [s \in SUBSET S |-> f[s]] =
           [s \in SUBSET S |-> IF s = {} THEN 0
                               ELSE EntrySize(facs, First(s)) + f[s \ {First(s)}]]
    BY <2>1
  <2> QED BY <2>2, <2>3 DEF SizeFold
<1>9. SizeFold(facs, S, b)
  BY <1>8, Zenon
<1> HIDE DEF b
<1>10. \A s \in SUBSET S : b[s] = IF s = {} THEN 0
                                  ELSE EntrySize(facs, First(s)) + b[s \ {First(s)}]
  BY <1>9 DEF SizeFold
<1>11. Sums(w, S, b)
  BY <1>7, <1>10 DEF Sums
<1>12. b \in [SUBSET S -> Nat]
  <2> DEFINE n == Cardinality(S)
             T == {k \in 0..n : \A s \in SUBSET S : Cardinality(s) <= k => b[s] \in Nat}
  <2>0. n \in Nat /\ \A s \in SUBSET S : IsFiniteSet(s) /\ Cardinality(s) \in Nat /\ Cardinality(s) <= n
    BY <1>2, FS_Subset, FS_CardinalityType
  <2>1. 0 \in T
    <3>1. \A s \in SUBSET S : Cardinality(s) <= 0 => s = {}
      BY <2>0, FS_EmptySet
    <3>2. b[{}] = 0
      BY <1>11 DEF Sums
    <3>3. \A s \in SUBSET S : Cardinality(s) <= 0 => b[s] \in Nat
      BY <3>1, <3>2
    <3> HIDE DEF n
    <3> QED BY <2>0, <3>3
  <2>2. ASSUME NEW k \in 0..(n - 1), k \in T PROVE k + 1 \in T
    <3>1. k \in Nat /\ k + 1 \in 0..n
      BY <2>0
    <3>2. ASSUME NEW s \in SUBSET S, Cardinality(s) <= k + 1 PROVE b[s] \in Nat
      <4>1. CASE s = {}
        BY <1>11, <4>1 DEF Sums
      <4>2. CASE s # {}
        <5> DEFINE c == First(s)
        <5>1. c \in s
          BY <4>2 DEF First
        <5>2. b[s] = w[c] + b[s \ {c}]
          BY <1>11, <4>2 DEF Sums
        <5>3. IsFiniteSet(s) /\ Cardinality(s) \in Nat
          BY <2>0
        <5> HIDE DEF c, n
        <5>4. Cardinality(s \ {c}) = Cardinality(s) - 1
          BY <5>1, <5>3, FS_RemoveElement
        <5>5. s \ {c} \in SUBSET S /\ Cardinality(s \ {c}) <= k
          BY <3>1, <3>2, <5>3, <5>4
        <5>6. b[s \ {c}] \in Nat
          BY <2>2, <5>5
        <5> HIDE DEF T
        <5>7. w[c] \in Nat
          BY <1>5, <5>1
        <5> QED BY <5>2, <5>6, <5>7
      <4> QED BY <4>1, <4>2
    <3> QED BY <3>1, <3>2
  <2> HIDE DEF T
  <2>3. n \in T
    <3> HIDE DEF n
    <3>1. 0..n \subseteq T
      BY <2>0, <2>1, <2>2, SetInduction, Zenon
    <3> QED BY <2>0, <3>1
  <2>4. \A s \in SUBSET S : b[s] \in Nat
    BY <2>0, <2>3 DEF T
  <2>5. b = [s \in SUBSET S |-> b[s]]
    BY <1>9 DEF SizeFold
  <2> QED BY <2>4, <2>5
<1>13. AnyOrder(w, S, b)
  BY <1>2, <1>5, <1>11, <1>12, SumsAnyOrder
<1>14. \A s \in SUBSET S : \A x \in s : b[s] = EntrySize(facs, x) + b[s \ {x}]
  <2>1. \A x \in S : w[x] = EntrySize(facs, x)
    BY DEF w
  <2> QED BY <1>13, <2>1 DEF AnyOrder
<1>15. b[{}] = 0
  BY <1>11 DEF Sums
<1> QED
  BY <1>3, <1>12, <1>14, <1>15 DEF S

(***************************************************************************)
(* The walk over well-formed facilities.                                   *)
(***************************************************************************)
Entry == [code : Octets, val : Seq(Octets)]
WellFormed(fs) ==
    \A i \in 1..Len(fs) : Class(fs[i].code) # 3 => Len(fs[i].val) = Class(fs[i].code) + 1
Encoded(fs) == [i \in 1..Len(fs) |-> EncodeFacility(fs[i].code, fs[i].val)]

\* Where each of the sequences is in what FlattenSeq puts together.
Pieces(seqs, b) ==
    /\ \A k \in 0..Len(seqs) : Len(b[k]) \in Nat /\ Len(b[k]) <= Len(FlattenSeq(seqs))
    /\ \A k \in 1..Len(seqs) :
          /\ Len(b[k]) = Len(b[k - 1]) + Len(seqs[k])
          /\ \A x \in 1..Len(seqs[k]) : FlattenSeq(seqs)[Len(b[k - 1]) + x] = seqs[k][x]

\* They are there, one behind the other.
LEMMA FlattenPieces ==
    ASSUME NEW S, NEW seqs \in Seq(Seq(S)), NEW b, Partials(seqs, Seq(S), b)
    PROVE  Pieces(seqs, b)
<1> DEFINE n == Len(seqs)
           all == FlattenSeq(seqs)
           Starts(k) == Len(b[k]) <= Len(all) /\ \A x \in 1..Len(b[k]) : all[x] = b[k][x]
           T == {k \in 0..n : Starts(n - k)}
<1>0. n \in Nat /\ \A k \in 1..n : seqs[k] \in Seq(S)
  OBVIOUS
<1>1. /\ \A k \in 0..n : b[k] \in Seq(S) /\ Len(b[k]) \in Nat
      /\ b[n] = all
  <2>1. b \in [0..n -> Seq(S)] /\ b[n] = all
    BY DEF Partials
  <2>2. \A k \in 0..n : b[k] \in Seq(S)
    BY <2>1
  <2> QED BY <2>1, <2>2
<1>2. ASSUME NEW k \in 1..n
      PROVE  /\ k \in 0..n /\ k - 1 \in 0..n /\ Len(seqs[k]) \in Nat
             /\ Len(b[k]) = Len(b[k - 1]) + Len(seqs[k])
             /\ \A x \in 1..Len(b[k - 1]) : b[k][x] = b[k - 1][x]
             /\ \A x \in 1..Len(seqs[k]) : b[k][Len(b[k - 1]) + x] = seqs[k][x]
  <2>1. k - 1 \in 0..(n - 1) /\ (k - 1) + 1 = k /\ k - 1 \in 0..n /\ k \in 0..n
    BY <1>0
  <2>2. b[k] = b[k - 1] \o seqs[k]
    BY <2>1 DEF Partials
  <2>3. b[k - 1] \in Seq(S) /\ seqs[k] \in Seq(S)
    BY <1>0, <1>1, <2>1
  <2> HIDE DEF n
  <2> DEFINE s == b[k - 1]
             t == seqs[k]
  <2>4. s \in Seq(S) /\ t \in Seq(S)
    BY <2>3
  <2> HIDE DEF s, t
  <2>5. /\ Len(s \o t) = Len(s) + Len(t) /\ Len(t) \in Nat
        /\ \A i \in 1..Len(s) : (s \o t)[i] = s[i]
        /\ \A i \in 1..Len(t) : (s \o t)[Len(s) + i] = t[i]
    BY ONLY <2>4, ConcatElements
  <2> QED BY <2>1, <2>2, <2>5 DEF s, t
<1> HIDE DEF all
<1>3. 0 \in T
  BY <1>0, <1>1
<1>4. ASSUME NEW k \in 0..(n - 1), k \in T PROVE k + 1 \in T
  <2> DEFINE m == n - k
  <2>0. Starts(m)
    BY <1>4
  <2>1. m \in 1..n /\ n - (k + 1) = m - 1 /\ k + 1 \in 0..n /\ Starts(m)
    <3> HIDE DEF n, T, Starts
    <3> QED BY <1>0, <2>0
  <2> HIDE DEF m, T, n
  <2>2. /\ m - 1 \in 0..n /\ Len(seqs[m]) \in Nat /\ m \in 0..n
        /\ Len(b[m]) = Len(b[m - 1]) + Len(seqs[m])
        /\ \A x \in 1..Len(b[m - 1]) : b[m][x] = b[m - 1][x]
    BY <1>2, <2>1
  <2>3. Len(b[m - 1]) \in Nat /\ Len(b[m]) \in Nat
    BY <1>1, <2>2
  <2>4. Len(b[m - 1]) <= Len(b[m])
    <3>1. ASSUME NEW x \in Nat, NEW y \in Nat, NEW z \in Nat, z = x + y PROVE x <= z
      BY <3>1
    <3> QED BY <2>2, <2>3, <3>1
  <2>5. Len(all) \in Nat
    <3>1. n \in 0..n
      BY <1>0
    <3> QED BY <1>1, <3>1
  <2>6. Starts(m - 1)
    <3>1. Len(b[m - 1]) <= Len(all)
      BY <2>1, <2>3, <2>4, <2>5
    <3>2. ASSUME NEW x \in 1..Len(b[m - 1]) PROVE all[x] = b[m - 1][x]
      <4>1. x \in 1..Len(b[m])
        BY <2>3, <2>4
      <4>2. all[x] = b[m][x] /\ b[m][x] = b[m - 1][x]
        BY <2>1, <2>2, <4>1
      <4> QED BY <4>2
    <3> QED BY <3>1, <3>2
  <2> HIDE DEF Starts
  <2> QED BY <2>1, <2>6 DEF T
<1> HIDE DEF T
<1>5. n \in T
  <2> HIDE DEF n
  <2>1. 0..n \subseteq T
    BY <1>0, <1>3, <1>4, SetInduction, Zenon
  <2> QED BY <1>0, <2>1
<1>6. ASSUME NEW k \in 0..n PROVE Starts(k)
  <2>1. 0..n \subseteq T
    <3> HIDE DEF n
    <3> QED BY <1>0, <1>3, <1>4, SetInduction, Zenon
  <2>2. n - k \in 0..n /\ n - (n - k) = k
    BY <1>0
  <2>3. n - k \in T
    BY <2>1, <2>2
  <2> HIDE DEF Starts, n
  <2>4. Starts(n - (n - k))
    BY <2>3 DEF T
  <2> QED BY <2>2, <2>4
<1>7. ASSUME NEW k \in 1..n
      PROVE  \A x \in 1..Len(seqs[k]) : all[Len(b[k - 1]) + x] = seqs[k][x]
  <2>1. /\ k \in 0..n /\ k - 1 \in 0..n /\ Len(seqs[k]) \in Nat
        /\ Len(b[k]) = Len(b[k - 1]) + Len(seqs[k])
        /\ \A x \in 1..Len(seqs[k]) : b[k][Len(b[k - 1]) + x] = seqs[k][x]
    BY <1>2
  <2>2. Len(b[k - 1]) \in Nat /\ \A x \in 1..Len(b[k]) : all[x] = b[k][x]
    BY <1>1, <1>6, <2>1
  <2>3. ASSUME NEW x \in 1..Len(seqs[k]) PROVE Len(b[k - 1]) + x \in 1..Len(b[k])
    <3>1. ASSUME NEW u \in Nat, NEW v \in Nat, NEW w, w = u + v, NEW y \in 1..v PROVE u + y \in 1..w
      BY <3>1
    <3> QED BY <2>1, <2>2, <3>1
  <2> QED BY <2>1, <2>2, <2>3
<1> QED
  BY <1>1, <1>2, <1>6, <1>7 DEF all, Pieces

\* A well-formed facility in a field is found there.
LEMMA EntryFound ==
    ASSUME NEW fac \in Seq(Octets), Len(fac) < Octet, NEW f \in Entry, NEW p \in Nat, NEW g,
           Class(f.code) # 3 => Len(f.val) = Class(f.code) + 1,
           p + Len(EncodeFacility(f.code, f.val)) <= Len(fac),
           \A x \in 1..Len(EncodeFacility(f.code, f.val)) :
              fac[p + x] = EncodeFacility(f.code, f.val)[x]
    PROVE  FacilitiesFrom(fac, g, p + 1) =
              Over(g[(p + Len(EncodeFacility(f.code, f.val))) + 1], [c \in {f.code} |-> f.val])
<1> DEFINE e == EncodeFacility(f.code, f.val)
           i == p + 1
           next == ValueAt(fac, i) + ValueLen(fac, i)
           l == Len(f.val)
<1>1. f.code \in Octets /\ f.val \in Seq(Octets) /\ l \in Nat /\ Len(fac) \in Nat
  BY DEF Entry
<1>2. /\ e \in Seq(Octets) /\ Len(e) = 1 + l + IF Class(f.code) = 3 THEN 1 ELSE 0
      /\ e[1] = f.code
      /\ Class(f.code) = 3 => e[2] = l % Octet /\ \A x \in 1..l : e[2 + x] = f.val[x]
      /\ Class(f.code) # 3 => \A x \in 1..l : e[1 + x] = f.val[x]
  BY ONLY <1>1, EncodeLength
<1>3. Class(f.code) \in Nat
  BY <1>1, ClassTyped
<1>4. p + Len(e) <= Len(fac) /\ \A x \in 1..Len(e) : fac[p + x] = e[x]
  OBVIOUS
<1> HIDE DEF e
<1>5. i \in 1..Len(fac) /\ i \in Nat /\ 1 \in 1..Len(e) /\ Len(e) \in Nat
  <2> HIDE DEF l
  <2>1. Len(e) \in Nat /\ Len(e) >= 1
    BY <1>1, <1>2
  <2> QED BY <1>1, <1>4, <2>1
<1>6. fac[i] = f.code
  BY <1>2, <1>4, <1>5
<1>7. /\ Complete(fac, i) /\ next = (p + Len(e)) + 1
      /\ ValueAt(fac, i) \in Nat /\ ValueAt(fac, i) >= 1 /\ next - ValueAt(fac, i) = l
      /\ \A x \in 1..l : fac[(ValueAt(fac, i) + x) - 1] = f.val[x]
  <2>1. CASE Class(f.code) = 3
    <3>1. 2 \in 1..Len(e) /\ Len(e) = 2 + l
      BY <1>1, <1>2, <2>1
    <3>2. l % Octet = l
      <4> HIDE DEF l
      <4>1. l < Octet /\ l \in 0..(Octet - 1) /\ Octet \in Nat \ {0}
        BY <1>1, <1>4, <3>1, OctetFacts
      <4> HIDE DEF Octet
      <4> QED BY <4>1
    <3> HIDE DEF l, i
    <3>3. fac[i + 1] = l
      <4>1. fac[p + 2] = e[2]
        BY <1>4, <3>1
      <4>2. i + 1 = p + 2
        BY DEF i
      <4> QED BY <1>2, <2>1, <3>2, <4>1, <4>2
    <3>4. ValueAt(fac, i) = i + 2 /\ ValueLen(fac, i) = l
      BY <1>6, <2>1, <3>3 DEF ValueAt, ValueLen
    <3>5. Complete(fac, i)
      BY <1>1, <1>4, <1>5, <3>1, <3>4 DEF Complete, i
    <3>6. next = (p + Len(e)) + 1
      BY <1>1, <3>1, <3>4 DEF i
    <3>7. ASSUME NEW x \in 1..l PROVE fac[(ValueAt(fac, i) + x) - 1] = f.val[x]
      <4>1. 2 + x \in 1..Len(e) /\ (ValueAt(fac, i) + x) - 1 = p + (2 + x)
        BY <1>1, <3>1, <3>4 DEF i
      <4>2. fac[p + (2 + x)] = e[2 + x]
        BY <1>4, <4>1
      <4> QED BY <1>2, <2>1, <4>1, <4>2
    <3>8. ValueAt(fac, i) \in Nat /\ ValueAt(fac, i) >= 1 /\ next - ValueAt(fac, i) = l
      BY <1>1, <1>5, <3>4
    <3> HIDE DEF next
    <3> QED BY <3>5, <3>6, <3>7, <3>8
  <2>2. CASE Class(f.code) # 3
    <3>1. Len(e) = 1 + l /\ l = Class(f.code) + 1
      BY <1>1, <1>2, <2>2
    <3> HIDE DEF l, i
    <3>4. ValueAt(fac, i) = i + 1 /\ ValueLen(fac, i) = l
      BY <1>6, <2>2, <3>1 DEF ValueAt, ValueLen
    <3>5. Complete(fac, i)
      <4>1. (i + 1) + (l - 1) <= Len(fac)
        BY <1>1, <1>4, <1>5, <3>1 DEF i
      <4>2. Class(fac[i]) # 3
        BY <1>6, <2>2
      <4> QED BY <3>4, <4>1, <4>2 DEF Complete
    <3>6. next = (p + Len(e)) + 1
      BY <1>1, <3>1, <3>4 DEF i
    <3>7. ASSUME NEW x \in 1..l PROVE fac[(ValueAt(fac, i) + x) - 1] = f.val[x]
      <4>1. 1 + x \in 1..Len(e)
        BY <1>1, <3>1
      <4>2. (ValueAt(fac, i) + x) - 1 = p + (1 + x)
        BY ONLY <1>1, <3>4, p \in Nat, x \in 1..l DEF i
      <4>3. fac[p + (1 + x)] = e[1 + x]
        BY <1>4, <4>1
      <4> QED BY <1>2, <2>2, <4>2, <4>3
    <3>8. ValueAt(fac, i) \in Nat /\ ValueAt(fac, i) >= 1 /\ next - ValueAt(fac, i) = l
      BY <1>1, <1>5, <3>4
    <3> HIDE DEF next
    <3> QED BY <3>5, <3>6, <3>7, <3>8
  <2> QED BY <2>1, <2>2
<1>8. SubSeq(fac, ValueAt(fac, i), next - 1) = f.val
  <2> DEFINE v == ValueAt(fac, i)
             sub == SubSeq(fac, v, next - 1)
  <2>1. v \in Nat /\ v >= 1 /\ next \in Nat /\ next - 1 \in Int /\ next - 1 <= Len(fac) /\ next - v = l
    BY <1>1, <1>4, <1>5, <1>7
  <2>2. \A x \in 1..l : fac[(v + x) - 1] = f.val[x]
    BY <1>7
  <2> HIDE DEF v, next, l
  <2>3. /\ sub \in Seq(Octets)
        /\ Len(sub) = IF v <= next - 1 THEN ((next - 1) - v) + 1 ELSE 0
        /\ \A x \in 1..(((next - 1) - v) + 1) : sub[x] = fac[(v + x) - 1]
    BY <2>1, SubSeqOctets
  <2>4. ((next - 1) - v) + 1 = l /\ (v <= next - 1 <=> l > 0)
    BY <1>1, <2>1
  <2> HIDE DEF sub
  <2>5. Len(sub) = l /\ \A x \in 1..l : sub[x] = f.val[x]
    BY <1>1, <2>2, <2>3, <2>4
  <2>6. sub = f.val
    BY <1>1, <2>3, <2>5, SeqEqual DEF l
  <2> QED BY <2>6 DEF sub, v
<1>9. FacilitiesFrom(fac, g, i) = Over(g[next], [c \in {fac[i]} |-> SubSeq(fac, ValueAt(fac, i), next - 1)])
  <2>1. ~(i > Len(fac) \/ ~Complete(fac, i))
    BY <1>5, <1>7
  <2> QED BY <2>1 DEF FacilitiesFrom
<1> QED
  BY <1>6, <1>7, <1>8, <1>9 DEF e

\* m is what the facilities from the k-th on say: of two with one code the later.
Keeps(m, fs, k) ==
    /\ m \in FacilityMaps
    /\ DOMAIN m = {fs[i].code : i \in k..Len(fs)}
    /\ \A i \in k..Len(fs) :
          (\A j \in k..Len(fs) : fs[j].code = fs[i].code => j <= i) => m[fs[i].code] = fs[i].val

\* What facilities are made of.
LEMMA EntryTyped ==
    ASSUME NEW fs \in Seq(Entry)
    PROVE  /\ Len(fs) \in Nat /\ DOMAIN fs = 1..Len(fs)
           /\ \A i \in 1..Len(fs) :
                 fs[i] \in Entry /\ fs[i].code \in Octets /\ fs[i].val \in Seq(Octets)
<1>1. Len(fs) \in Nat /\ DOMAIN fs = 1..Len(fs) /\ \A i \in 1..Len(fs) : fs[i] \in Entry
  BY LenProperties, ElementOfSeq
<1>2. \A f \in Entry : f.code \in Octets /\ f.val \in Seq(Octets)
  BY DEF Entry
<1> QED
  BY <1>1, <1>2

\* One more facility, in front of them.
LEMMA KeepsMore ==
    ASSUME NEW fs \in Seq(Entry), NEW k \in 1..Len(fs), NEW m, Keeps(m, fs, k + 1)
    PROVE  Keeps(Over(m, [c \in {fs[k].code} |-> fs[k].val]), fs, k)
<1> DEFINE n == Len(fs)
           one == [c \in {fs[k].code} |-> fs[k].val]
           r == Over(m, one)
<1>1. n \in Nat /\ k \in Nat /\ \A i \in 1..n : fs[i].code \in Octets /\ fs[i].val \in Seq(Octets)
  BY EntryTyped
<1>2. /\ m \in FacilityMaps /\ DOMAIN m = {fs[i].code : i \in (k + 1)..n}
      /\ \A i \in (k + 1)..n :
            (\A j \in (k + 1)..n : fs[j].code = fs[i].code => j <= i) => m[fs[i].code] = fs[i].val
  BY DEF Keeps
<1>3. one \in FacilityMaps
  <2>1. {fs[k].code} \in SUBSET Octets /\ one \in [{fs[k].code} -> Seq(Octets)]
    BY <1>1
  <2> QED BY <2>1 DEF FacilityMaps
<1>4. DOMAIN one = {fs[k].code} /\ one[fs[k].code] = fs[k].val
  OBVIOUS
<1> HIDE DEF one
<1>5. r \in FacilityMaps
  BY <1>2, <1>3, OverTyped
<1>6. /\ DOMAIN r = DOMAIN m \union {fs[k].code}
      /\ \A c \in DOMAIN r : r[c] = IF c \in DOMAIN m THEN m[c] ELSE one[c]
  BY <1>4 DEF Over
<1> HIDE DEF r, n
<1>7. \A i \in k..n : i = k \/ i \in (k + 1)..n
  BY <1>1
<1>8. \A i \in (k + 1)..n : i \in k..n /\ i > k
  BY <1>1
<1>9. k \in k..n
  BY <1>1 DEF n
<1>10. DOMAIN r = {fs[i].code : i \in k..n}
  BY <1>2, <1>6, <1>7, <1>8, <1>9
<1>11. ASSUME NEW i \in k..n, \A j \in k..n : fs[j].code = fs[i].code => j <= i
       PROVE  r[fs[i].code] = fs[i].val
  <2>1. fs[i].code \in DOMAIN r
    BY <1>10
  <2>2. CASE i = k
    <3>1. fs[i].code \notin DOMAIN m
      <4> SUFFICES ASSUME NEW j \in (k + 1)..n, fs[j].code = fs[i].code PROVE FALSE
        BY <1>2
      <4>1. j <= i /\ j > k /\ j \in Int
        BY <1>1, <1>8, <1>11
      <4> QED BY <1>1, <2>2, <4>1
    <3> QED BY <1>4, <1>6, <2>1, <2>2, <3>1
  <2>3. CASE i # k
    <3>1. i \in (k + 1)..n
      BY <1>7, <2>3
    <3>2. fs[i].code \in DOMAIN m /\ m[fs[i].code] = fs[i].val
      BY <1>2, <1>8, <1>11, <3>1
    <3> QED BY <1>6, <2>1, <3>2
  <2> QED BY <2>2, <2>3
<1> QED
  BY <1>5, <1>10, <1>11 DEF Keeps, n, r, one

\* What FacilityMap reads of well-formed facilities.
LEMMA WalkKeeps ==
    ASSUME NEW fs \in Seq(Entry), WellFormed(fs), Len(FlattenSeq(Encoded(fs))) < Octet
    PROVE  Keeps(FacilityMap(FlattenSeq(Encoded(fs))), fs, 1)
<1> DEFINE n == Len(fs)
           seqs == Encoded(fs)
           fac == FlattenSeq(seqs)
<1>1. n \in Nat /\ \A i \in 1..n : /\ fs[i] \in Entry
                                   /\ fs[i].code \in Octets /\ fs[i].val \in Seq(Octets)
  BY EntryTyped
<1>2. \A i \in 1..n : EncodeFacility(fs[i].code, fs[i].val) \in Seq(Octets)
  BY <1>1, EncodeTyped
<1>3. /\ seqs \in Seq(Seq(Octets)) /\ Len(seqs) = n
      /\ \A i \in 1..n : seqs[i] = EncodeFacility(fs[i].code, fs[i].val)
  <2>1. seqs = [i \in 1..n |-> EncodeFacility(fs[i].code, fs[i].val)]
    BY DEF Encoded
  <2> HIDE DEF n, seqs
  <2> QED BY <1>1, <1>2, <2>1
<1> HIDE DEF seqs
<1>4. fac \in Seq(Octets) /\ Len(fac) \in Nat /\ Len(fac) < Octet
  <2>1. fac \in Seq(Octets)
    BY <1>3, FlattenTyped
  <2> QED BY <2>1 DEF seqs
<1>5. PICK pb : Partials(seqs, Seq(Octets), pb)
  BY <1>3, FlattenLoop
<1>6. /\ \A k \in 0..n : Len(pb[k]) \in Nat /\ Len(pb[k]) <= Len(fac)
      /\ \A k \in 1..n :
            /\ Len(pb[k]) = Len(pb[k - 1]) + Len(seqs[k])
            /\ \A x \in 1..Len(seqs[k]) : fac[Len(pb[k - 1]) + x] = seqs[k][x]
  <2>1. Pieces(seqs, pb)
    BY <1>3, <1>5, FlattenPieces
  <2> HIDE DEF n
  <2> QED BY <1>3, <2>1 DEF Pieces
<1>7. pb[0] = <<>> /\ pb[n] = fac
  BY <1>3, <1>5 DEF Partials
<1> HIDE DEF fac
<1>8. PICK b : /\ FacilityMap(fac) = b[1]
               /\ \A i \in 1..(Len(fac) + 1) :
                     b[i] \in FacilityMaps /\ b[i] = FacilitiesFrom(fac, b, i)
  BY <1>4, FacilityWalk
<1> DEFINE at(k) == Len(pb[k]) + 1
           T == {k \in 0..n : Keeps(b[at(n - k)], fs, (n - k) + 1)}
<1>9. 0 \in T
  <2>1. n - 0 = n /\ 0 \in 0..n /\ at(n) = Len(fac) + 1 /\ (n + 1)..n = {}
    BY <1>1, <1>7
  <2>2. b[at(n)] = [c \in {} |-> <<>>] /\ b[at(n)] \in FacilityMaps
    <3>1. at(n) \in 1..(Len(fac) + 1) /\ at(n) > Len(fac)
      BY <1>4, <2>1
    <3> HIDE DEF at
    <3>2. b[at(n)] = FacilitiesFrom(fac, b, at(n)) /\ b[at(n)] \in FacilityMaps
      BY <1>8, <3>1
    <3> QED BY <3>1, <3>2 DEF FacilitiesFrom
  <2>3. Keeps(b[at(n)], fs, n + 1)
    <3> HIDE DEF at
    <3>1. DOMAIN b[at(n)] = {}
      BY <2>2
    <3> QED BY <2>1, <2>2, <3>1 DEF Keeps
  <2> HIDE DEF at, n
  <2> QED BY <2>1, <2>3
<1>10. ASSUME NEW k \in 0..(n - 1), k \in T PROVE k + 1 \in T
  <2> DEFINE m == n - k
             p == Len(pb[m - 1])
  <2>1. m \in 1..n /\ n - (k + 1) = m - 1 /\ k + 1 \in 0..n /\ (m - 1) + 1 = m /\ m \in Nat /\ m - 1 \in 0..n
    BY <1>1
  <2>2. Keeps(b[at(m)], fs, m + 1)
    BY <1>10
  <2> HIDE DEF T, m, n
  <2>3. /\ Len(pb[m]) = p + Len(seqs[m]) /\ p \in Nat
        /\ \A x \in 1..Len(seqs[m]) : fac[p + x] = seqs[m][x]
    BY <1>6, <2>1
  <2>4. fs[m] \in Entry /\ seqs[m] = EncodeFacility(fs[m].code, fs[m].val)
        /\ m \in 0..n
    BY <1>1, <1>3, <2>1
  <2>5. Len(pb[m]) <= Len(fac) /\ Len(pb[m]) \in Nat
    BY <1>6, <2>4
  <2>6. Class(fs[m].code) # 3 => Len(fs[m].val) = Class(fs[m].code) + 1
    BY <2>1 DEF WellFormed, n
  <2>7. p + 1 \in 1..(Len(fac) + 1)
    <3>1. p <= Len(fac)
      BY <1>6, <2>1
    <3> HIDE DEF p
    <3> QED BY <1>4, <2>3, <3>1
  <2> HIDE DEF p
  <2>8. FacilitiesFrom(fac, b, p + 1) =
           Over(b[(p + Len(EncodeFacility(fs[m].code, fs[m].val))) + 1], [c \in {fs[m].code} |-> fs[m].val])
    <3> DEFINE f == fs[m]
    <3>1. /\ f \in Entry /\ (Class(f.code) # 3 => Len(f.val) = Class(f.code) + 1)
          /\ p + Len(EncodeFacility(f.code, f.val)) <= Len(fac)
          /\ \A x \in 1..Len(EncodeFacility(f.code, f.val)) :
                fac[p + x] = EncodeFacility(f.code, f.val)[x]
      BY <2>3, <2>4, <2>5, <2>6
    <3> HIDE DEF f
    <3>2. FacilitiesFrom(fac, b, p + 1) =
             Over(b[(p + Len(EncodeFacility(f.code, f.val))) + 1], [c \in {f.code} |-> f.val])
      BY <1>4, <2>3, <3>1, EntryFound
    <3> QED BY <3>2 DEF f
  <2>9. b[p + 1] = Over(b[at(m)], [c \in {fs[m].code} |-> fs[m].val])
    BY <1>8, <2>3, <2>4, <2>7, <2>8
  <2>10. Keeps(b[p + 1], fs, m)
    BY <2>1, <2>2, <2>9, KeepsMore DEF n
  <2>11. p + 1 = at(m - 1)
    BY DEF p
  <2> HIDE DEF at
  <2> QED BY <2>1, <2>10, <2>11 DEF T
<1> HIDE DEF T
<1>11. n \in T
  <2> HIDE DEF n
  <2>1. 0..n \subseteq T
    BY <1>1, <1>9, <1>10, SetInduction, Zenon
  <2> QED BY <1>1, <2>1
<1>12. n - n = 0 /\ at(0) = 1
  BY <1>1, <1>7
<1>13. Keeps(b[at(n - n)], fs, (n - n) + 1)
  <2> HIDE DEF n, at
  <2> QED BY <1>11 DEF T
<1>14. Keeps(b[1], fs, 1)
  <2> HIDE DEF n, at
  <2> QED BY <1>12, <1>13
<1> QED
  BY <1>8, <1>14 DEF fac, seqs

\* It is the last value given for each code.
LEMMA KeepsLast ==
    ASSUME NEW fs \in Seq(Entry), NEW m, Keeps(m, fs, 1)
    PROVE  /\ m = LastValues(fs)
           /\ \A c \in DOMAIN m : \E i \in 1..Len(fs) : fs[i].code = c /\ m[c] = fs[i].val
<1> DEFINE n == Len(fs)
           last(c) == CHOOSE i \in DOMAIN fs : /\ fs[i].code = c
                                               /\ \A j \in DOMAIN fs : fs[j].code = c => j <= i
<1>1. n \in Nat /\ DOMAIN fs = 1..n
  OBVIOUS
<1>2. {f.code : f \in Range(fs)} = {fs[i].code : i \in 1..n}
  BY <1>1 DEF Range
<1>3. ASSUME NEW c \in {fs[i].code : i \in 1..n} 
      PROVE  m[c] = fs[last(c)].val /\ fs[last(c)].code = c /\ last(c) \in 1..n
  <2> DEFINE s == {i \in 1..n : fs[i].code = c}
  <2>1. s \in SUBSET (1..n) /\ s # {}
    OBVIOUS
  <2>2. Max(s) \in s /\ \A y \in s : Max(s) >= y
    <3> HIDE DEF s, n
    <3> QED BY <1>1, <2>1, MaxOfInterval
  <2>3. PICK k \in 1..n : fs[k].code = c /\ \A j \in 1..n : fs[j].code = c => j <= k
    <3>1. Max(s) \in 1..n /\ fs[Max(s)].code = c
      BY <2>2
    <3>2. \A j \in 1..n : fs[j].code = c => Max(s) >= j /\ j \in Int
      BY <2>2
    <3> HIDE DEF s
    <3>3. Max(s) \in Int
      BY <1>1, <3>1
    <3> QED BY <3>1, <3>2, <3>3
  <2>4. /\ last(c) \in 1..n /\ fs[last(c)].code = c
        /\ \A j \in 1..n : fs[j].code = c => j <= last(c)
    <3> HIDE DEF n
    <3> QED BY <1>1, <2>3
  <2> HIDE DEF last
  <2> QED BY <2>4 DEF Keeps
<1>4. DOMAIN m = {fs[i].code : i \in 1..n} /\ m \in FacilityMaps
  BY DEF Keeps
<1>5. m = [c \in DOMAIN m |-> m[c]]
  BY <1>4 DEF FacilityMaps
<1>6. LastValues(fs) = [c \in {fs[i].code : i \in 1..n} |-> fs[last(c)].val]
  BY <1>2 DEF LastValues
<1> HIDE DEF last, n
<1>7. m = LastValues(fs)
  <2>1. \A c \in DOMAIN m : m[c] = fs[last(c)].val
    BY <1>3, <1>4
  <2>2. [c \in DOMAIN m |-> m[c]] = [c \in DOMAIN m |-> fs[last(c)].val]
    BY <2>1
  <2> QED BY <1>4, <1>5, <1>6, <2>2
<1>8. ASSUME NEW c \in DOMAIN m PROVE \E i \in 1..n : fs[i].code = c /\ m[c] = fs[i].val
  <2>1. m[c] = fs[last(c)].val /\ fs[last(c)].code = c /\ last(c) \in 1..n
    BY <1>3, <1>4
  <2> QED BY <2>1
<1> QED
  BY <1>7, <1>8 DEF n

\* The facilities of a map in the given order.
Ordered(facs, codes) == [i \in 1..Len(codes) |-> [code |-> codes[i], val |-> facs[codes[i]]]]

\* Every code has its place in the order.
LEMMA OrderedCodes ==
    ASSUME NEW facs \in FacilityMaps, NEW codes \in SetToSeqs(DOMAIN facs)
    PROVE  /\ Len(codes) \in Nat /\ DOMAIN codes = 1..Len(codes)
           /\ \A i \in 1..Len(codes) : codes[i] \in DOMAIN facs
           /\ \A i, j \in 1..Len(codes) : codes[i] = codes[j] => i = j
           /\ \A c \in DOMAIN facs : \E i \in 1..Len(codes) : codes[i] = c
<1>1. PICK S \in SUBSET Octets : facs \in [S -> Seq(Octets)]
  BY DEF FacilityMaps
<1> DEFINE n == Cardinality(S)
<1>2. codes \in [1..n -> S] /\ \A i, j \in 1..n : i # j => codes[i] # codes[j]
  BY <1>1 DEF SetToSeqs
<1>3. IsFiniteSet(S) /\ n \in Nat
  <2>1. IsFiniteSet(0..(Octet - 1))
    BY OctetFacts, FS_Interval
  <2> QED
    BY <1>1, <2>1, FS_Subset, FS_CardinalityType DEF Octets
<1>4. IsFiniteSet(1..n) /\ Cardinality(1..n) = n
  <2>1. IsFiniteSet(1..n) /\ Cardinality(1..n) = IF 1 > n THEN 0 ELSE (n - 1) + 1
    <3> HIDE DEF n
    <3> QED BY <1>3, FS_Interval
  <2> QED BY <1>3, <2>1
<1>5. codes \in Injection(1..n, S)
  BY <1>2 DEF Injection, IsInjective
<1>6. codes \in Surjection(1..n, S)
  <2>1. Cardinality(1..n) = Cardinality(S)
    BY <1>4
  <2> HIDE DEF n
  <2> QED BY <1>3, <1>5, <2>1, FS_Injection
<1>7. \A c \in S : \E i \in 1..n : codes[i] = c
  BY <1>6 DEF Surjection
<1> HIDE DEF n
<1>8. codes \in Seq(S) /\ Len(codes) = n
  BY <1>2, <1>3
<1> QED
  BY <1>1, <1>2, <1>3, <1>7, <1>8

\* EncodeFacilities encodes the facilities one by one.
LEMMA OrderedTyped ==
    ASSUME NEW facs \in FacilityMaps, NEW codes \in SetToSeqs(DOMAIN facs)
    PROVE  /\ Ordered(facs, codes) \in Seq(Entry) /\ Len(Ordered(facs, codes)) = Len(codes)
           /\ \A i \in 1..Len(codes) : /\ Ordered(facs, codes)[i].code = codes[i]
                                       /\ Ordered(facs, codes)[i].val = facs[codes[i]]
           /\ EncodeFacilities(facs, codes) = FlattenSeq(Encoded(Ordered(facs, codes)))
<1> DEFINE n == Len(codes)
           fs == Ordered(facs, codes)
<1>1. n \in Nat /\ DOMAIN codes = 1..n /\ \A i \in 1..n : codes[i] \in DOMAIN facs
  BY OrderedCodes
<1>2. PICK S \in SUBSET Octets : facs \in [S -> Seq(Octets)]
  BY DEF FacilityMaps
<1> HIDE DEF n
<1>3. fs = [i \in 1..n |-> [code |-> codes[i], val |-> facs[codes[i]]]]
  BY DEF Ordered, n
<1> HIDE DEF fs
<1>4. \A i \in 1..n : codes[i] \in Octets /\ facs[codes[i]] \in Seq(Octets)
  BY <1>1, <1>2
<1>5. \A i \in 1..n : fs[i] \in Entry /\ fs[i].code = codes[i] /\ fs[i].val = facs[codes[i]]
  BY <1>3, <1>4 DEF Entry
<1>6. fs \in Seq(Entry) /\ Len(fs) = n
  BY <1>1, <1>3, <1>5
<1>7. Encoded(fs) = [i \in DOMAIN codes |-> EncodeFacility(codes[i], facs[codes[i]])]
  BY <1>1, <1>5, <1>6 DEF Encoded
<1>8. EncodeFacilities(facs, codes) = FlattenSeq(Encoded(fs))
  BY <1>7 DEF EncodeFacilities
<1> QED
  BY <1>5, <1>6, <1>8 DEF n, fs

\* The encoded facilities are as long as FieldSize says.
LEMMA EncodedSize ==
    ASSUME NEW facs \in FacilityMaps, NEW codes \in SetToSeqs(DOMAIN facs)
    PROVE  Len(EncodeFacilities(facs, codes)) = FieldSize(facs)
<1> DEFINE n == Len(codes)
           S == DOMAIN facs
           fs == Ordered(facs, codes)
           seqs == Encoded(fs)
           done(k) == {codes[i] : i \in 1..k}
<1>1. /\ n \in Nat /\ \A i \in 1..n : codes[i] \in S
      /\ \A i, j \in 1..n : codes[i] = codes[j] => i = j
      /\ \A c \in S : \E i \in 1..n : codes[i] = c
  BY OrderedCodes
<1>2. /\ fs \in Seq(Entry) /\ Len(fs) = n
      /\ \A i \in 1..n : fs[i].code = codes[i] /\ fs[i].val = facs[codes[i]]
      /\ EncodeFacilities(facs, codes) = FlattenSeq(seqs)
  BY OrderedTyped
<1> HIDE DEF S, n
<1>3. PICK g \in [SUBSET S -> Nat] :
         /\ g[{}] = 0 /\ FieldSize(facs) = g[S]
         /\ \A s \in SUBSET S : \A x \in s : g[s] = EntrySize(facs, x) + g[s \ {x}]
  BY FieldSizeSums DEF S
<1> HIDE DEF fs
<1>4. /\ seqs \in Seq(Seq(Octets)) /\ Len(seqs) = n
      /\ \A i \in 1..n : Len(seqs[i]) = EntrySize(facs, codes[i])
  <2>1. \A i \in 1..n : fs[i].code \in Octets /\ fs[i].val \in Seq(Octets)
    BY <1>2, EntryTyped
  <2>2. ASSUME NEW i \in 1..n
        PROVE  /\ EncodeFacility(fs[i].code, fs[i].val) \in Seq(Octets)
               /\ Len(EncodeFacility(fs[i].code, fs[i].val)) = EntrySize(facs, codes[i])
    <3> DEFINE c == fs[i].code
               v == fs[i].val
    <3>1. c = codes[i] /\ v = facs[codes[i]] /\ c \in Octets /\ v \in Seq(Octets)
      BY <1>2, <2>1
    <3> HIDE DEF c, v
    <3>2. /\ EncodeFacility(c, v) \in Seq(Octets)
          /\ Len(EncodeFacility(c, v)) = 1 + Len(v) + IF Class(c) = 3 THEN 1 ELSE 0
      BY <3>1, EncodeLength
    <3>3. EncodeFacility(c, v) \in Seq(Octets) /\ Len(EncodeFacility(c, v)) = EntrySize(facs, codes[i])
      BY <3>1, <3>2 DEF EntrySize
    <3> QED BY <3>3 DEF c, v
  <2>3. seqs = [i \in 1..n |-> EncodeFacility(fs[i].code, fs[i].val)]
    BY <1>2 DEF Encoded
  <2> HIDE DEF seqs
  <2> QED BY <1>1, <2>2, <2>3
<1> HIDE DEF seqs
<1>5. PICK pb : Partials(seqs, Seq(Octets), pb)
  BY <1>4, FlattenLoop
<1>6. Pieces(seqs, pb)
  BY <1>4, <1>5, FlattenPieces
<1> DEFINE T == {k \in 0..n : Len(pb[k]) = g[done(k)]}
<1>7. 0 \in T
  <2>1. done(0) = {} /\ 0 \in 0..n /\ pb[0] = <<>>
    BY <1>1, <1>5 DEF Partials
  <2> HIDE DEF done, n
  <2> QED BY <1>3, <2>1
<1>8. ASSUME NEW k \in 0..(n - 1), k \in T PROVE k + 1 \in T
  <2> DEFINE x == codes[k + 1]
  <2>1. k + 1 \in 1..n /\ k + 1 \in 0..n /\ k \in Nat /\ (k + 1) - 1 = k /\ k \in 0..n
    BY <1>1
  <2>2. done(k + 1) \in SUBSET S /\ x \in done(k + 1)
    BY <1>1, <2>1
  <2>3. done(k + 1) \ {x} = done(k)
    <3>1. \A i \in 1..(k + 1) : i \in 1..k \/ i = k + 1
      BY <2>1
    <3>2. \A i \in 1..k : i \in 1..n /\ i \in 1..(k + 1) /\ i # k + 1
      BY <1>1, <2>1
    <3> QED BY <1>1, <2>1, <3>1, <3>2
  <2>4. Len(pb[k]) = g[done(k)]
    BY <1>8
  <2> HIDE DEF done, T
  <2>5. g[done(k + 1)] = EntrySize(facs, x) + g[done(k)]
    BY <1>3, <2>2, <2>3
  <2>6. Len(pb[k + 1]) = Len(pb[k]) + Len(seqs[k + 1])
    <3>1. Len(pb[k + 1]) = Len(pb[(k + 1) - 1]) + Len(seqs[k + 1])
      BY <1>4, <1>6, <2>1 DEF Pieces
    <3> QED BY <2>1, <3>1
  <2>7. Len(seqs[k + 1]) = EntrySize(facs, x)
    BY <1>4, <2>1
  <2>8. Len(pb[k]) \in Nat /\ Len(pb[k + 1]) \in Nat
    BY <1>4, <1>6, <2>1 DEF Pieces
  <2> HIDE DEF x
  <2>9. Len(pb[k + 1]) = g[done(k + 1)]
    <3>1. Len(seqs[k + 1]) \in Nat
      BY <1>4, <2>1
    <3> QED BY <2>4, <2>5, <2>6, <2>7, <2>8, <3>1
  <2> QED BY <2>1, <2>9 DEF T
<1> HIDE DEF T
<1>9. n \in T
  <2>1. 0..n \subseteq T
    BY <1>1, <1>7, <1>8, SetInduction, Zenon
  <2> QED BY <1>1, <2>1
<1>10. done(n) = S
  BY <1>1
<1> HIDE DEF done
<1>11. Len(pb[n]) = g[S]
  BY <1>9, <1>10 DEF T
<1>12. pb[n] = FlattenSeq(seqs)
  BY <1>4, <1>5 DEF Partials
<1> QED
  BY <1>2, <1>3, <1>11, <1>12 DEF seqs

\* The values have the length of their class.
FacsFit(facs) == \A c \in DOMAIN facs : Class(c) # 3 => Len(facs[c]) = Class(c) + 1

(***************************************************************************)
(* FacilityMap reads back what EncodeFacilities has written, in whatever   *)
(* order, if the values have the length of their class and the field is    *)
(* not too long.                                                           *)
(***************************************************************************)
THEOREM FacilitiesRoundTrip ==
    ASSUME NEW facs \in FacilityMaps, NEW codes \in SetToSeqs(DOMAIN facs),
           FacsFit(facs), FieldSize(facs) < Octet
    PROVE  FacilityMap(EncodeFacilities(facs, codes)) = facs
<1> DEFINE n == Len(codes)
           fs == Ordered(facs, codes)
           m == FacilityMap(FlattenSeq(Encoded(fs)))
<1>1. /\ n \in Nat /\ \A i \in 1..n : codes[i] \in DOMAIN facs
      /\ \A i, j \in 1..n : codes[i] = codes[j] => i = j
      /\ \A c \in DOMAIN facs : \E i \in 1..n : codes[i] = c
  BY OrderedCodes
<1>2. /\ fs \in Seq(Entry) /\ Len(fs) = n
      /\ \A i \in 1..n : fs[i].code = codes[i] /\ fs[i].val = facs[codes[i]]
      /\ EncodeFacilities(facs, codes) = FlattenSeq(Encoded(fs))
  BY OrderedTyped
<1>3. Len(FlattenSeq(Encoded(fs))) < Octet
  BY <1>2, EncodedSize
<1> HIDE DEF fs
<1>4. WellFormed(fs)
  BY <1>1, <1>2 DEF WellFormed, FacsFit
<1>5. Keeps(m, fs, 1)
  BY <1>2, <1>3, <1>4, WalkKeeps
<1> HIDE DEF m, n
<1>6. /\ m \in FacilityMaps /\ DOMAIN m = {fs[i].code : i \in 1..n}
      /\ \A i \in 1..n : (\A j \in 1..n : fs[j].code = fs[i].code => j <= i)
                          => m[fs[i].code] = fs[i].val
  BY <1>2, <1>5 DEF Keeps
<1>7. ASSUME NEW i \in 1..n PROVE m[codes[i]] = facs[codes[i]]
  <2>1. \A j \in 1..n : fs[j].code = fs[i].code => j <= i
    <3> SUFFICES ASSUME NEW j \in 1..n, fs[j].code = fs[i].code PROVE j <= i
      OBVIOUS
    <3>1. j = i
      BY <1>1, <1>2
    <3> QED BY <3>1
  <2> QED BY <1>2, <1>6, <2>1
<1>8. DOMAIN m = DOMAIN facs
  <2>1. {fs[i].code : i \in 1..n} = {codes[i] : i \in 1..n}
    BY <1>2
  <2>2. {codes[i] : i \in 1..n} = DOMAIN facs
    BY <1>1
  <2> QED BY <1>6, <2>1, <2>2
<1>9. \A c \in DOMAIN m : m[c] = facs[c]
  BY <1>1, <1>7, <1>8
<1>10. m = [c \in DOMAIN m |-> m[c]] /\ facs = [c \in DOMAIN facs |-> facs[c]]
  BY <1>6 DEF FacilityMaps
<1>11. m = facs
  BY <1>8, <1>9, <1>10
<1> QED
  BY <1>2, <1>11 DEF m

(***************************************************************************)
(* CALL_REQ.                                                               *)
(***************************************************************************)
Addresses == {ds \in Seq(Digits) : Len(ds) < Nibble}

\* Where everything is in the payload of a CALL_REQ.
LEMMA CallPayloadShape ==
    ASSUME NEW called \in Addresses, NEW calling \in Addresses,
           NEW fac \in Seq(Octets), NEW userData \in Seq(Octets)
    PROVE  LET p == CallPayload(called, calling, fac, userData)
               packed == PackDigits(called \o calling)
               addrs == AddrOctets(Len(called) + Len(calling))
           IN  /\ p \in Seq(Octets) /\ Len(p) = 2 + addrs + Len(fac) + Len(userData)
               /\ p[1] = Len(calling) * Nibble + Len(called)
               /\ packed \in Seq(Octets) /\ Len(packed) = addrs
               /\ \A i \in 1..addrs : p[1 + i] = packed[i]
               /\ p[2 + addrs] = Len(fac) % Octet
               /\ \A i \in 1..Len(fac) : p[(2 + addrs) + i] = fac[i]
               /\ \A i \in 1..Len(userData) : p[((2 + addrs) + Len(fac)) + i] = userData[i]
<1> DEFINE p == CallPayload(called, calling, fac, userData)
           packed == PackDigits(called \o calling)
           addrs == AddrOctets(Len(called) + Len(calling))
           lens == Len(calling) * Nibble + Len(called)
           facLen == Len(fac) % Octet
<1>1. /\ called \in Seq(Digits) /\ calling \in Seq(Digits)
      /\ Len(called) \in Digits /\ Len(calling) \in Digits /\ Len(called) \in Nat
  BY OctetFacts DEF Addresses, Digits
<1>2. called \o calling \in Seq(Digits) /\ Len(called \o calling) = Len(called) + Len(calling)
  BY <1>1, ConcatElements
<1>3. packed \in Seq(Octets) /\ Len(packed) = addrs
  BY <1>2, PackedElements
<1>4. lens \in Octets /\ facLen \in Octets
  <2>1. lens \in Octets
    BY <1>1, TwoDigits
  <2>2. facLen \in Octets
    BY OctetFacts, DivModInverse DEF Octets
  <2> QED BY <2>1, <2>2
<1>5. (Len(calling) * Nibble + (Len(called) % Nibble)) % Octet = lens
  <2>1. Len(called) % Nibble = Len(called)
    <3>1. (0 * Nibble + Len(called)) % Nibble = Len(called)
      BY <1>1, OctetFacts, DivMod DEF Digits
    <3> QED BY <1>1, <3>1, OctetFacts
  <2>2. lens % Octet = lens
    <3>1. (0 * Octet + lens) % Octet = lens
      BY <1>4, OctetFacts, DivMod DEF Octets
    <3> HIDE DEF lens
    <3>2. lens \in Nat
      BY <1>4, OctetFacts DEF Octets
    <3> QED BY <3>1, <3>2, OctetFacts
  <2> QED BY <2>1, <2>2
<1>6. p = <<lens>> \o packed \o <<facLen>> \o fac \o userData
  BY <1>5 DEF CallPayload
<1> HIDE DEF lens, packed, facLen
<1> DEFINE a == <<lens>> \o packed
           b == a \o <<facLen>>
           c == b \o fac
<1>7. /\ <<lens>> \in Seq(Octets) /\ <<facLen>> \in Seq(Octets)
      /\ Len(<<lens>>) = 1 /\ Len(<<facLen>>) = 1
      /\ <<lens>>[1] = lens /\ <<facLen>>[1] = facLen
  BY <1>4
<1>8. /\ a \in Seq(Octets) /\ Len(a) = 1 + Len(packed) /\ Len(packed) \in Nat
      /\ a[1] = lens /\ \A i \in 1..Len(packed) : a[1 + i] = packed[i]
  <2> DEFINE l == <<lens>>
  <2>1. l \in Seq(Octets) /\ Len(l) = 1 /\ l[1] = lens
    BY <1>7
  <2> HIDE DEF l
  <2>2. /\ l \o packed \in Seq(Octets) /\ Len(l \o packed) = Len(l) + Len(packed)
        /\ Len(packed) \in Nat
        /\ \A i \in 1..Len(l) : (l \o packed)[i] = l[i]
        /\ \A i \in 1..Len(packed) : (l \o packed)[Len(l) + i] = packed[i]
    <3>1. l \in Seq(Octets) /\ packed \in Seq(Octets)
      BY <1>3, <2>1
    <3> HIDE DEF p, addrs, a, b, c
    <3> QED BY <3>1, ConcatElements
  <2>3. (l \o packed)[1] = lens
    BY <2>1, <2>2
  <2> QED BY <2>1, <2>2, <2>3 DEF l
<1> HIDE DEF a
<1>9. /\ b \in Seq(Octets) /\ Len(b) = Len(a) + 1 /\ Len(a) \in Nat
      /\ \A i \in 1..Len(a) : b[i] = a[i]
      /\ b[Len(a) + 1] = facLen
  <2> DEFINE l == <<facLen>>
  <2>1. l \in Seq(Octets) /\ Len(l) = 1 /\ l[1] = facLen
    BY <1>7
  <2> HIDE DEF l
  <2>2. /\ a \o l \in Seq(Octets) /\ Len(a \o l) = Len(a) + Len(l)
        /\ Len(a) \in Nat
        /\ \A i \in 1..Len(a) : (a \o l)[i] = a[i]
        /\ \A i \in 1..Len(l) : (a \o l)[Len(a) + i] = l[i]
    <3>1. a \in Seq(Octets) /\ l \in Seq(Octets)
      BY <1>8, <2>1
    <3> HIDE DEF p, addrs, b, c
    <3> QED BY <3>1, ConcatElements
  <2>3. (a \o l)[Len(a) + 1] = facLen
    BY <2>1, <2>2
  <2> QED BY <2>1, <2>2, <2>3 DEF l
<1> HIDE DEF b
<1>10. /\ c \in Seq(Octets) /\ Len(c) = Len(b) + Len(fac) /\ Len(fac) \in Nat
       /\ \A i \in 1..Len(b) : c[i] = b[i]
       /\ \A i \in 1..Len(fac) : c[Len(b) + i] = fac[i]
  <2>1. b \in Seq(Octets) /\ fac \in Seq(Octets)
    BY <1>9
  <2>2. /\ b \o fac \in Seq(Octets) /\ Len(b \o fac) = Len(b) + Len(fac) /\ Len(fac) \in Nat
        /\ \A i \in 1..Len(b) : (b \o fac)[i] = b[i]
        /\ \A i \in 1..Len(fac) : (b \o fac)[Len(b) + i] = fac[i]
    BY ONLY <2>1, ConcatElements
  <2> QED BY <2>2
<1> HIDE DEF c
<1>11. /\ c \o userData \in Seq(Octets) /\ Len(c \o userData) = Len(c) + Len(userData)
       /\ Len(userData) \in Nat
       /\ \A i \in 1..Len(c) : (c \o userData)[i] = c[i]
       /\ \A i \in 1..Len(userData) : (c \o userData)[Len(c) + i] = userData[i]
  <2>1. c \in Seq(Octets) /\ userData \in Seq(Octets)
    BY <1>10
  <2> QED BY ONLY <2>1, ConcatElements
<1>12. p = c \o userData
  BY <1>6 DEF a, b, c
<1> HIDE DEF p, addrs
<1>13. addrs \in Nat /\ Len(a) = 1 + addrs /\ Len(b) = 2 + addrs /\ Len(c) = 2 + addrs + Len(fac)
  BY <1>3, <1>8, <1>9, <1>10
<1>14. p[1] = lens /\ \A i \in 1..addrs : p[1 + i] = packed[i]
  <2>1. ASSUME NEW i \in 1..(1 + addrs) PROVE p[i] = a[i]
    BY <1>9, <1>10, <1>11, <1>12, <1>13
  <2> QED
    BY <1>3, <1>8, <1>13, <2>1
<1>15. p[2 + addrs] = facLen
  BY <1>8, <1>9, <1>10, <1>11, <1>12, <1>13
<1>16. p \in Seq(Octets) /\ Len(p) = 2 + addrs + Len(fac) + Len(userData)
  <2>1. p \in Seq(Octets) /\ Len(p) = Len(c) + Len(userData)
    BY <1>11, <1>12
  <2> QED
    BY ONLY <1>13, <2>1
<1>17. ASSUME NEW i \in 1..Len(fac) PROVE p[(2 + addrs) + i] = fac[i]
  <2>1. Len(b) + i \in 1..Len(c)
    BY <1>10, <1>13
  <2>2. p[Len(b) + i] = c[Len(b) + i]
    BY <1>11, <1>12, <2>1
  <2> QED BY <1>10, <1>13, <2>2
<1>18. ASSUME NEW i \in 1..Len(userData) PROVE p[((2 + addrs) + Len(fac)) + i] = userData[i]
  <2>1. p[Len(c) + i] = userData[i]
    BY <1>11, <1>12
  <2> QED BY <1>13, <2>1
<1> QED
  BY <1>3, <1>14, <1>15, <1>16, <1>17, <1>18 DEF p, addrs, lens, packed, facLen

\* What ParseCallRequest returns.
LEMMA ParseCases ==
    ASSUME NEW q, NEW r, r = ParseCallRequest(q), r.ok
    PROVE  LET callingLen == q[1] \div Nibble
               calledLen == q[1] % Nibble
               addrs == AddrOctets(calledLen + callingLen)
               addrData == SubSeq(q, 2, 1 + addrs)
               facAt == 2 + addrs
               facEnd == facAt + q[facAt]
           IN  /\ q # <<>> /\ ~(Len(q) < 1 + addrs)
               /\ r.called = Decode(addrData, calledLen, 0)
               /\ r.calling = Decode(addrData, callingLen, calledLen)
               /\ \/ r.facilities = <<>> /\ r.userData = <<>>
                  \/ /\ ~(Len(q) < facAt) /\ ~(Len(q) < facEnd)
                     /\ r.facilities = SubSeq(q, facAt + 1, facEnd)
                     /\ r.userData = SubSeq(q, facEnd + 1, Len(q))
BY DEF ParseCallRequest, Malformed

\* The first octets of w.
StartOf(d, w) == /\ d \in Seq(Octets) /\ Len(d) <= Len(w)
                 /\ \A i \in 1..Len(d) : d[i] = w[i]

(***************************************************************************)
(* A CALL_REQ cut short anywhere: if it can be parsed at all, the          *)
(* addresses are what they were.                                           *)
(***************************************************************************)
LEMMA AddressesParse ==
    ASSUME NEW called \in Addresses, NEW calling \in Addresses,
           NEW fac \in Seq(Octets), NEW userData \in Seq(Octets),
           NEW q, StartOf(q, CallPayload(called, calling, fac, userData)),
           ParseCallRequest(q).ok
    PROVE  /\ ParseCallRequest(q).called = called
           /\ ParseCallRequest(q).calling = calling
           /\ ParseCallRequest(q).facilities \in Seq(Octets)
           /\ ParseCallRequest(q).userData \in Seq(Octets)
<1> DEFINE p == CallPayload(called, calling, fac, userData)
           packed == PackDigits(called \o calling)
           addrs == AddrOctets(Len(called) + Len(calling))
           r == ParseCallRequest(q)
           addrData == SubSeq(q, 2, 1 + addrs)
           facAt == 2 + addrs
           facEnd == facAt + q[facAt]
<1>0. q \in Seq(Octets) /\ Len(q) <= Len(p) /\ \A i \in 1..Len(q) : q[i] = p[i]
  BY DEF StartOf
<1>1. /\ called \in Seq(Digits) /\ calling \in Seq(Digits)
      /\ Len(called) \in Digits /\ Len(calling) \in Digits
      /\ Len(called) \in Nat /\ Len(calling) \in Nat
  BY OctetFacts DEF Addresses, Digits
<1>2. /\ p[1] = Len(calling) * Nibble + Len(called)
      /\ packed \in Seq(Octets) /\ Len(packed) = addrs
      /\ \A i \in 1..addrs : p[1 + i] = packed[i]
  BY CallPayloadShape
<1>3. q # <<>>
  BY ParseCases
<1>4. q[1] = p[1] /\ Len(q) \in Nat /\ Len(q) >= 1
  BY <1>0, <1>3
<1>5. q[1] \div Nibble = Len(calling) /\ q[1] % Nibble = Len(called)
  BY <1>1, <1>2, <1>4, TwoDigits
<1>6. /\ ~(Len(q) < 1 + addrs)
      /\ r.called = Decode(addrData, Len(called), 0)
      /\ r.calling = Decode(addrData, Len(calling), Len(called))
      /\ \/ r.facilities = <<>> /\ r.userData = <<>>
         \/ /\ ~(Len(q) < facAt) /\ ~(Len(q) < facEnd)
            /\ r.facilities = SubSeq(q, facAt + 1, facEnd)
            /\ r.userData = SubSeq(q, facEnd + 1, Len(q))
  BY <1>5, ParseCases
<1>7. addrs \in Nat
  <2>1. Len(called) + Len(calling) \in Nat
    BY <1>1
  <2> QED BY <2>1, AddrOctetsBound
<1> HIDE DEF p, packed, addrs, r
<1>8. /\ addrData \in Seq(Octets) /\ Len(addrData) = addrs
      /\ \A i \in 1..addrs : addrData[i] = packed[i]
  <2>1. 2 \in Nat /\ 1 + addrs \in Int /\ 1 + addrs <= Len(q)
    BY <1>4, <1>6, <1>7
  <2>2. /\ addrData \in Seq(Octets)
        /\ Len(addrData) = IF 2 <= 1 + addrs THEN (1 + addrs) - 2 + 1 ELSE 0
        /\ \A i \in 1..((1 + addrs) - 2 + 1) : addrData[i] = q[2 + i - 1]
    BY <1>0, <2>1, SubSeqOctets
  <2>3. \A i \in 1..addrs : q[1 + i] = packed[i]
    <3>1. ASSUME NEW i \in 1..addrs PROVE q[1 + i] = packed[i]
      <4>1. 1 + i \in 1..Len(q)
        BY <1>4, <1>7, <2>1
      <4>2. q[1 + i] = p[1 + i]
        BY <1>0, <4>1
      <4> QED BY <1>2, <4>2
    <3> QED BY <3>1
  <2> HIDE DEF addrData
  <2>4. ASSUME NEW i \in 1..addrs PROVE addrData[i] = packed[i]
    <3>1. i \in 1..((1 + addrs) - 2 + 1) /\ 2 + i - 1 = 1 + i
      BY <1>7
    <3> QED BY <2>2, <2>3, <3>1
  <2> QED BY <1>7, <2>2, <2>4
<1> HIDE DEF addrData
<1> DEFINE ds == called \o calling
<1>9. /\ ds \in Seq(Digits) /\ Len(ds) = Len(called) + Len(calling)
      /\ \A k \in 1..Len(called) : called[k] = ds[0 + k]
      /\ \A k \in 1..Len(calling) : calling[k] = ds[Len(called) + k]
  BY <1>1, ConcatElements
<1> HIDE DEF ds
<1>10. Len(addrData) = AddrOctets(Len(ds)) /\ \A i \in 1..Len(addrData) : addrData[i] = PackDigits(ds)[i]
  BY <1>8, <1>9 DEF addrs, packed, ds
<1>11. Decode(addrData, Len(called), 0) = called
  <2>1. 0 \in Nat /\ 0 + Len(called) <= Len(ds)
    BY <1>1, <1>9
  <2> QED
    BY <1>1, <1>8, <1>9, <1>10, <2>1, DecodePacked
<1>12. Decode(addrData, Len(calling), Len(called)) = calling
  <2>1. Len(called) + Len(calling) <= Len(ds)
    BY <1>1, <1>9
  <2> QED
    BY <1>1, <1>8, <1>9, <1>10, <2>1, DecodePacked
<1>13. r.facilities \in Seq(Octets) /\ r.userData \in Seq(Octets)
  <2>1. CASE r.facilities = <<>> /\ r.userData = <<>>
    BY <2>1
  <2>2. CASE /\ ~(Len(q) < facAt) /\ ~(Len(q) < facEnd)
             /\ r.facilities = SubSeq(q, facAt + 1, facEnd)
             /\ r.userData = SubSeq(q, facEnd + 1, Len(q))
    <3>1. facAt \in Nat /\ facAt \in 1..Len(q)
      BY <1>4, <1>7, <2>2
    <3> HIDE DEF facAt
    <3>2. q[facAt] \in Nat
      <4>1. q[facAt] \in Octets
        BY <1>0, <3>1
      <4> QED BY <4>1 DEF Octets
    <3>3. facEnd \in Nat /\ facEnd <= Len(q) /\ facEnd \in Int
      <4>1. ~(Len(q) < facEnd)
        BY <2>2
      <4>2. facEnd \in Nat
        BY <3>1, <3>2
      <4> HIDE DEF facEnd
      <4> QED BY <1>4, <4>1, <4>2
    <3> HIDE DEF facEnd
    <3>4. SubSeq(q, facAt + 1, facEnd) \in Seq(Octets)
      BY <1>0, <3>1, <3>3, SubSeqOctets
    <3>5. SubSeq(q, facEnd + 1, Len(q)) \in Seq(Octets)
      BY <1>0, <1>4, <3>3, SubSeqOctets
    <3> QED BY <2>2, <3>4, <3>5
  <2> QED BY <1>6, <2>1, <2>2
<1> QED
  BY <1>6, <1>11, <1>12, <1>13 DEF r

\* A whole one can be parsed, whatever its facilities have become.
LEMMA WholeCallParses ==
    ASSUME NEW called \in Addresses, NEW calling \in Addresses,
           NEW fac \in Seq(Octets), NEW userData \in Seq(Octets)
    PROVE  ParseCallRequest(CallPayload(called, calling, fac, userData)).ok
<1> DEFINE p == CallPayload(called, calling, fac, userData)
           addrs == AddrOctets(Len(called) + Len(calling))
<1>1. /\ Len(called) \in Digits /\ Len(calling) \in Digits
      /\ Len(called) \in Nat /\ Len(calling) \in Nat /\ addrs \in Nat
  <2>1. /\ Len(called) \in Digits /\ Len(calling) \in Digits
        /\ Len(called) \in Nat /\ Len(calling) \in Nat
    BY OctetFacts DEF Addresses, Digits
  <2>2. Len(called) + Len(calling) \in Nat
    BY <2>1
  <2> QED BY <2>1, <2>2, AddrOctetsBound
<1>2. /\ Len(p) = 2 + addrs + Len(fac) + Len(userData)
      /\ p[1] = Len(calling) * Nibble + Len(called)
      /\ p[2 + addrs] = Len(fac) % Octet
  BY CallPayloadShape
<1> HIDE DEF p
<1>3. p[1] \div Nibble = Len(calling) /\ p[1] % Nibble = Len(called)
  BY <1>1, <1>2, TwoDigits
<1>4. Len(fac) % Octet \in Nat /\ Len(fac) % Octet <= Len(fac) /\ Len(fac) \in Nat /\ Len(userData) \in Nat
  <2>1. Len(fac) \in Nat /\ Len(userData) \in Nat
    OBVIOUS
  <2>2. /\ Len(fac) % Octet \in 0..(Octet - 1) /\ Len(fac) \div Octet \in Nat
        /\ Len(fac) = (Len(fac) \div Octet) * Octet + (Len(fac) % Octet)
    BY <2>1, OctetFacts, DivModInverse
  <2>3. (Len(fac) \div Octet) * Octet \in Nat
    BY <2>2, OctetFacts
  <2> QED BY <2>1, <2>2, <2>3, OctetFacts
<1>5. /\ p # <<>> /\ ~(Len(p) < 1 + addrs) /\ ~(Len(p) < 2 + addrs)
      /\ ~(Len(p) < (2 + addrs) + (Len(fac) % Octet))
  <2> HIDE DEF addrs
  <2> QED BY <1>1, <1>2, <1>4
<1>6. ParseCallRequest(p).ok
  BY <1>2, <1>3, <1>5 DEF ParseCallRequest
<1> QED
  BY <1>6 DEF p

\* Facilities that fit in their field are read as they were written, with
\* the user data behind them.
LEMMA WholeCallReads ==
    ASSUME NEW called \in Addresses, NEW calling \in Addresses,
           NEW fac \in Seq(Octets), NEW userData \in Seq(Octets), Len(fac) < Octet
    PROVE  LET r == ParseCallRequest(CallPayload(called, calling, fac, userData))
           IN  r.ok /\ r.facilities = fac /\ r.userData = userData
<1> DEFINE p == CallPayload(called, calling, fac, userData)
           addrs == AddrOctets(Len(called) + Len(calling))
           r == ParseCallRequest(p)
           facAt == 2 + addrs
           facEnd == facAt + p[facAt]
<1>1. /\ Len(called) \in Digits /\ Len(calling) \in Digits
      /\ Len(called) \in Nat /\ Len(calling) \in Nat /\ addrs \in Nat
  <2>1. /\ Len(called) \in Digits /\ Len(calling) \in Digits
        /\ Len(called) \in Nat /\ Len(calling) \in Nat
    BY OctetFacts DEF Addresses, Digits
  <2>2. Len(called) + Len(calling) \in Nat
    BY <2>1
  <2> QED BY <2>1, <2>2, AddrOctetsBound
<1>2. /\ p \in Seq(Octets) /\ Len(p) = 2 + addrs + Len(fac) + Len(userData)
      /\ p[1] = Len(calling) * Nibble + Len(called)
      /\ p[2 + addrs] = Len(fac) % Octet
      /\ \A i \in 1..Len(fac) : p[(2 + addrs) + i] = fac[i]
      /\ \A i \in 1..Len(userData) : p[((2 + addrs) + Len(fac)) + i] = userData[i]
  <2>1. /\ p \in Seq(Octets) /\ Len(p) = 2 + addrs + Len(fac) + Len(userData)
        /\ p[1] = Len(calling) * Nibble + Len(called)
        /\ p[2 + addrs] = Len(fac) % Octet
    BY CallPayloadShape
  <2>2. \A i \in 1..Len(fac) : p[(2 + addrs) + i] = fac[i]
    BY CallPayloadShape
  <2>3. \A i \in 1..Len(userData) : p[((2 + addrs) + Len(fac)) + i] = userData[i]
    BY CallPayloadShape
  <2> HIDE DEF p, addrs
  <2> QED BY <2>1, <2>2, <2>3
<1>3. r.ok
  BY WholeCallParses
<1> HIDE DEF p
<1>4. p[1] \div Nibble = Len(calling) /\ p[1] % Nibble = Len(called)
  BY <1>1, <1>2, TwoDigits
<1>5. Len(fac) \in Nat /\ Len(userData) \in Nat /\ Len(p) \in Nat
  BY <1>2
<1>6. Len(fac) % Octet = Len(fac)
  <2>1. Len(fac) \in 0..(Octet - 1) /\ Octet \in Nat \ {0}
    BY <1>5, OctetFacts
  <2> HIDE DEF Octet
  <2> QED BY <2>1
<1>7. facEnd = (2 + addrs) + Len(fac)
  BY <1>2, <1>6
<1> HIDE DEF facEnd, addrs
<1>8. p # <<>> /\ ~(Len(p) < 1 + addrs) /\ ~(Len(p) < facAt) /\ ~(Len(p) < facEnd)
  BY <1>1, <1>2, <1>5, <1>7
<1>9. r.facilities = SubSeq(p, facAt + 1, facEnd) /\ r.userData = SubSeq(p, facEnd + 1, Len(p))
  BY <1>4, <1>8 DEF ParseCallRequest, addrs, facEnd
<1>10. SubSeq(p, facAt + 1, facEnd) = fac
  <2> DEFINE s == SubSeq(p, facAt + 1, facEnd)
             m == facAt + 1
  <2>1. m \in Nat /\ m >= 1 /\ facEnd \in Int /\ facEnd <= Len(p)
    BY <1>1, <1>2, <1>5, <1>7
  <2>2. /\ s \in Seq(Octets) /\ Len(s) = IF m <= facEnd THEN facEnd - m + 1 ELSE 0
        /\ \A i \in 1..(facEnd - m + 1) : s[i] = p[m + i - 1]
    <3>1. p \in Seq(Octets)
      BY <1>2
    <3>2. s = SubSeq(p, m, facEnd)
      OBVIOUS
    <3> HIDE DEF m, s
    <3> QED BY ONLY <2>1, <3>1, <3>2, SubSeqOctets
  <2> HIDE DEF s
  <2>3. Len(s) = Len(fac)
    BY <1>1, <1>5, <1>7, <2>2
  <2>4. ASSUME NEW i \in 1..Len(fac) PROVE s[i] = fac[i]
    <3>1. i \in 1..(facEnd - m + 1) /\ m + i - 1 = (2 + addrs) + i
      BY <1>1, <1>5, <1>7
    <3> QED BY <1>2, <2>2, <3>1
  <2>5. s = fac
    BY <2>2, <2>3, <2>4, SeqEqual
  <2> QED BY <2>5 DEF s
<1>11. SubSeq(p, facEnd + 1, Len(p)) = userData
  <2> DEFINE s == SubSeq(p, facEnd + 1, Len(p))
             m == facEnd + 1
  <2>1. m \in Nat /\ m >= 1 /\ Len(p) \in Int /\ Len(p) <= Len(p)
    BY <1>1, <1>5, <1>7
  <2>2. /\ s \in Seq(Octets) /\ Len(s) = IF m <= Len(p) THEN Len(p) - m + 1 ELSE 0
        /\ \A i \in 1..(Len(p) - m + 1) : s[i] = p[m + i - 1]
    <3>1. p \in Seq(Octets)
      BY <1>2
    <3>2. s = SubSeq(p, m, Len(p))
      OBVIOUS
    <3> HIDE DEF m, s
    <3> QED BY ONLY <2>1, <3>1, <3>2, SubSeqOctets
  <2> HIDE DEF s
  <2>3. Len(s) = Len(userData)
    BY <1>1, <1>2, <1>5, <1>7, <2>2
  <2>4. ASSUME NEW i \in 1..Len(userData) PROVE s[i] = userData[i]
    <3>1. i \in 1..(Len(p) - m + 1) /\ m + i - 1 = ((2 + addrs) + Len(fac)) + i
      BY <1>1, <1>2, <1>5, <1>7
    <3> QED BY <1>2, <2>2, <3>1
  <2>5. s = userData
    BY <2>2, <2>3, <2>4, SeqEqual
  <2> QED BY <2>5 DEF s
<1> QED
  BY <1>3, <1>9, <1>10, <1>11 DEF p, r
-----------------------------------------------------------------------------
(***************************************************************************)
(* The way of a call.                                                      *)
(***************************************************************************)
LEMMA ConfigOrigin ==
    /\ Config \in Seq(ServerEntry)
    /\ \E m : Selects(Servers, Len(Servers), Config, m)
<1>1. PICK m : Selects(Servers, Len(Servers), Config, m)
  BY ServersAssumption, ValidServersAreTheUsable DEF Config
<1> QED
  BY <1>1 DEF Selects

\* Every entry of the configuration in use is one of the file.
LEMMA ConfigEntries ==
    /\ Config \in Seq(ServerEntry)
    /\ \A i \in 1..Len(Config) : Config[i] \in ServerEntry
    /\ \A i \in 1..Len(Config) : \E j \in DOMAIN Servers :
          Usable(Servers[j]) /\ Config[i] = WithDefaults(Servers[j])
<1>1. PICK m : Selects(Servers, Len(Servers), Config, m)
  BY ConfigOrigin
<1>2. Config \in Seq(ServerEntry)
  BY ConfigOrigin
<1>3. DOMAIN Servers = 1..Len(Servers)
  BY ServersAssumption
<1>4. ASSUME NEW i \in 1..Len(Config)
      PROVE  \E j \in DOMAIN Servers : Usable(Servers[j]) /\ Config[i] = WithDefaults(Servers[j])
  <2>1. m[i] \in DOMAIN Servers
    BY <1>1, <1>3 DEF Selects
  <2> QED
    BY <1>1, <2>1 DEF Selects
<1> QED
  BY <1>2, <1>4

\* GetServer on the configuration in use.
LEMMA BestOfConfig ==
    ASSUME NEW addr
    PROVE  IsBestUpTo(Config, addr, Len(Config), Best(Config, addr))
<1> DEFINE n == Len(Config)
<1>1. n \in Nat /\ DOMAIN Config = 1..n /\ \A i \in 1..n : Config[i] \in ServerEntry
  BY ConfigEntries
<1>2. \A i \in 1..n : Config[i].plen \in Int
  BY <1>1 DEF ServerEntry, NoPlen
<1> HIDE DEF n
<1>3. IsBestUpTo(Config, addr, n, Best(Config, addr))
  BY <1>1, <1>2, BestIsLongestPrefix DEF n
<1> QED
  BY <1>3 DEF n

\* Its choice is an entry, or none.
LEMMA BestInConfig == \A addr : Best(Config, addr) \in 0..Len(Config)
BY BestOfConfig DEF IsBestUpTo

\* The addresses a resolution may give, and what the cache then holds.
LEMMA ResolutionCases ==
    ASSUME NEW s, NEW addr, NEW cached, NEW answer,
           NEW r \in Resolutions(s, addr, cached, answer)
    PROVE  \/ s.ip # NoIP /\ r.ips = <<s.ip>> /\ r.cached = cached
           \/ /\ s.ip = NoIP
              /\ r.ips \in {<<>>, cached, answer}
              /\ r.cached \in {<<>>, cached, answer}
BY DEF Resolutions

\* Every address list a resolution may give for an entry of the configuration.
AddressLists == Answers \union {<<>>} \union {<<s.ip>> : s \in Range(Config)}

\* A resolution gives addresses of the entry or of the DNS.
LEMMA ResolutionTyped ==
    ASSUME NEW i \in 1..Len(Config), NEW addr, NEW cached \in Answers \union {<<>>},
           NEW answer \in Answers, NEW r \in Resolutions(Config[i], addr, cached, answer)
    PROVE  r.ips \in AddressLists /\ r.cached \in Answers \union {<<>>}
<1> DEFINE s == Config[i]
<1>1. s \in Range(Config)
  BY ConfigEntries DEF Range
<1>2. <<s.ip>> \in AddressLists
  BY <1>1 DEF AddressLists
<1> HIDE DEF s
<1>3. \/ s.ip # NoIP /\ r.ips = <<s.ip>> /\ r.cached = cached
      \/ /\ s.ip = NoIP
         /\ r.ips \in {<<>>, cached, answer}
         /\ r.cached \in {<<>>, cached, answer}
  BY ResolutionCases DEF s
<1> QED
  BY <1>2, <1>3 DEF AddressLists

\* They are sequences.
LEMMA AddressListsAreLists == AddressLists \subseteq Seq(STRING)
<1>1. \A s \in Range(Config) : s.ip \in STRING
  BY ConfigEntries DEF Range, ServerEntry
<1>2. ASSUME NEW s \in Range(Config) PROVE <<s.ip>> \in Seq(STRING)
  <2>1. s.ip \in STRING
    BY <1>1
  <2> QED BY ONLY <2>1
<1>3. ASSUME NEW a \in AddressLists PROVE a \in Seq(STRING)
  <2>1. CASE a \in Answers
    BY <2>1, AnswersAssumption
  <2>2. CASE a = <<>>
    BY <2>2
  <2>3. CASE a \in {<<s.ip>> : s \in Range(Config)}
    BY <1>2, <2>3
  <2> QED
    BY <2>1, <2>2, <2>3 DEF AddressLists
<1> QED
  BY <1>3

\* What GetServer returns.
LEMMA RouteCases ==
    ASSUME NEW p, NEW d \in BOOLEAN, NEW r \in Routes(p, d)
    PROVE  LET best == Best(Config, Request.called) IN
           \/ /\ best = 0
              /\ r = [srv |-> 0, local |-> d, ips |-> <<>>, blind |-> FALSE, cached |-> cache[p]]
           \/ /\ best # 0
              /\ \E q \in Resolutions(Config[best], Request.called, cache[p], zone) :
                    \E b \in BOOLEAN :
                       r = [srv |-> best, local |-> Local(q.ips, d, b), ips |-> q.ips,
                            blind |-> b, cached |-> q.cached]
BY DEF Routes, Blindness

\* TypeOK but for the packet.
RouteTyped ==
    /\ call \in Calls /\ whole \in BOOLEAN
    /\ pos \in {"server", "tun", "gateway", "inject", "resolve", "dial"} \union Ended
    /\ srv \in 0 .. Len(Config)
    /\ pos \in {"inject", "resolve", "dial"} => srv # 0
    /\ seen \in AddressLists /\ ips \in AddressLists
    /\ blind \subseteq {"relay", "gateway"}
    /\ tried \in 0 .. Len(ips)
    /\ hops \in 0 .. MaxHops /\ changes \in 0 .. MaxChanges
    /\ zone \in Answers /\ cache \in [Process -> Answers \union {<<>>}]

\* What all routing decisions have in common.
LEMMA RouteReturns ==
    ASSUME RouteTyped, NEW p \in Process, NEW d \in BOOLEAN, NEW r \in Routes(p, d)
    PROVE  /\ r.srv = Best(Config, Request.called) /\ r.srv \in 0..Len(Config)
           /\ r.ips \in AddressLists /\ r.cached \in Answers \union {<<>>}
           /\ r.blind \in BOOLEAN /\ r.local = Local(r.ips, d, r.blind)
<1> DEFINE best == Best(Config, Request.called)
           addr == Request.called
<1>1. best \in 0..Len(Config) /\ Len(Config) \in Nat
  BY BestInConfig, ConfigEntries
<1>2. cache[p] \in Answers \union {<<>>} /\ zone \in Answers
  BY DEF RouteTyped
<1>3. CASE best = 0
  <2>1. r = [srv |-> 0, local |-> d, ips |-> <<>>, blind |-> FALSE, cached |-> cache[p]]
    BY <1>3, RouteCases, Zenon
  <2> QED
    BY <1>2, <1>3, <2>1 DEF AddressLists, Local
<1>4. CASE best # 0
  <2>1. PICK q \in Resolutions(Config[best], addr, cache[p], zone), b \in BOOLEAN :
            r = [srv |-> best, local |-> Local(q.ips, d, b), ips |-> q.ips,
                 blind |-> b, cached |-> q.cached]
    BY <1>4, RouteCases
  <2>2. best \in 1..Len(Config)
    BY <1>1, <1>4
  <2> HIDE DEF best, addr
  <2>3. q.ips \in AddressLists /\ q.cached \in Answers \union {<<>>}
    BY <1>2, <2>1, <2>2, ResolutionTyped
  <2> QED
    BY <1>1, <2>1, <2>3 DEF best
<1> QED
  BY <1>3, <1>4

\* RouteTyped holds at the start,
LEMMA InitRouteTyped == Init => RouteTyped
<1> SUFFICES ASSUME Init PROVE RouteTyped
  OBVIOUS
<1> USE DEF Init
<1>1. Len(Config) \in Nat /\ Len(<<>>) = 0
  BY ConfigEntries
<1>2. call \in Calls /\ whole \in BOOLEAN /\ pos \in {"server", "tun"}
  OBVIOUS
<1>3. srv \in 0 .. Len(Config) /\ tried \in 0 .. Len(ips)
  BY <1>1
<1>4. seen \in AddressLists /\ ips \in AddressLists /\ blind = {}
  BY DEF AddressLists
<1>5. hops \in 0 .. MaxHops /\ changes \in 0 .. MaxChanges
  BY BoundAssumption
<1>6. zone \in Answers /\ cache \in [Process -> Answers \union {<<>>}]
  OBVIOUS
<1> QED
  BY <1>2, <1>3, <1>4, <1>5, <1>6 DEF RouteTyped

\* and every step keeps it.
LEMMA RouteTypedStep == RouteTyped /\ [Next]_vars => RouteTyped'
<1> SUFFICES ASSUME RouteTyped, [Next]_vars PROVE RouteTyped'
  OBVIOUS
<1> USE DEF RouteTyped, Ended
<1>0. AddressLists \subseteq Seq(STRING) /\ Len(Config) \in Nat
  BY AddressListsAreLists, ConfigEntries
<1>1. CASE Refused("server") \/ Refused("gateway")
  BY <1>1 DEF Refused, RouteUnchanged
<1>2. CASE ServerRoutes
  <2>1. PICK r \in Routes("xot-server", TRUE) :
           /\ pos' \in {"delivered", "gateway", "cleared"}
           /\ blind' \subseteq {"relay"}
           /\ cache' = [cache EXCEPT !["xot-server"] = r.cached]
    BY <1>2 DEF ServerRoutes, ServerStep
  <2>2. r.cached \in Answers \union {<<>>}
    BY RouteReturns DEF Process
  <2> QED
    BY <1>2, <2>1, <2>2 DEF ServerRoutes, ServerStep, RouteUnchanged
<1>3. CASE TunRoutes
  <2>1. PICK r \in Routes("tun-gateway", TRUE) :
           /\ pos' \in {"gateway", "cleared"}
           /\ blind' \subseteq {"relay"}
           /\ cache' = [cache EXCEPT !["tun-gateway"] = r.cached]
    BY <1>3 DEF TunRoutes
  <2>2. r.cached \in Answers \union {<<>>}
    BY RouteReturns DEF Process
  <2> QED
    BY <1>3, <2>1, <2>2 DEF TunRoutes, RouteUnchanged
<1>4. CASE GatewayRoutes
  <2>1. PICK r \in Routes("xot-gateway", FALSE) :
           /\ pos' = IF r.srv = 0 \/ r.local THEN "cleared" ELSE "inject"
           /\ srv' = r.srv /\ seen' = r.ips
           /\ blind' \subseteq blind \union {"gateway"}
           /\ cache' = [cache EXCEPT !["xot-gateway"] = r.cached]
    BY <1>4 DEF GatewayRoutes
  <2>2. /\ r.srv \in 0..Len(Config) /\ r.ips \in AddressLists
        /\ r.cached \in Answers \union {<<>>}
    BY RouteReturns DEF Process
  <2> QED
    BY <1>4, <2>1, <2>2 DEF GatewayRoutes, RouteUnchanged
<1>5. CASE Inject
  BY <1>5 DEF Inject, RouteUnchanged
<1>6. CASE Resolve
  <2>1. PICK r \in Resolutions(Config[srv], Request.called, cache["xot-gateway"], zone) :
           /\ pos' = IF r.ips = <<>> THEN "cleared" ELSE "dial"
           /\ ips' = r.ips
           /\ cache' = [cache EXCEPT !["xot-gateway"] = r.cached]
    BY <1>6 DEF Resolve
  <2>2. srv \in 1..Len(Config) /\ cache["xot-gateway"] \in Answers \union {<<>>}
    BY <1>6 DEF Resolve, Process
  <2>3. r.ips \in AddressLists /\ r.cached \in Answers \union {<<>>}
    BY <2>2, ResolutionTyped
  <2>4. Len(r.ips) \in Nat
    BY <1>0, <2>3
  <2>5. tried' \in 0..Len(ips')
    BY <1>6, <2>1, <2>4 DEF Resolve
  <2> QED
    BY <1>6, <2>1, <2>3, <2>5 DEF Resolve
<1>7. CASE Dial
  <2>1. Len(ips) \in Nat
    BY <1>0
  <2>2. CASE tried = Len(ips)
    BY <1>7, <2>1, <2>2 DEF Dial
  <2>3. CASE tried # Len(ips)
    <3>1. tried' = tried + 1 /\ tried + 1 \in 0..Len(ips)
      BY <1>7, <2>1, <2>3 DEF Dial
    <3>2. hops' \in 0..MaxHops
      BY <1>7, <2>3, BoundAssumption DEF Dial
    <3>3. pos' \in {pos, "server", "sent"}
      BY <1>7, <2>3 DEF Dial
    <3> QED
      BY <1>7, <3>1, <3>2, <3>3 DEF Dial
  <2> QED
    BY <2>2, <2>3
<1>8. CASE ZoneChanges
  BY <1>8, BoundAssumption DEF ZoneChanges
<1>9. CASE \E p \in Process : Expire(p)
  BY <1>9 DEF Expire, RouteUnchanged
<1>10. CASE UNCHANGED vars
  BY <1>10 DEF vars
<1> QED
  BY <1>1, <1>2, <1>3, <1>4, <1>5, <1>6, <1>7, <1>8, <1>9, <1>10 DEF Next

(***************************************************************************)
(* The packet on its way: it always is the first octets of some CALL_REQ   *)
(* with the addresses of the call.                                         *)
(***************************************************************************)
CallPacket(c, fac, userData) ==
    [GFI |-> c.gfi, LCI |-> c.lci, Type |-> PktTypeCallRequest,
     Payload |-> CallPayload(c.called, c.calling, fac, userData)]

Carries(d, c) ==
    \E fac, userData \in Seq(Octets) : StartOf(d, Serialize(CallPacket(c, fac, userData)))

CarryInv ==
    /\ Carries(data, call)
    /\ pos = "tun" => Len(data) >= 3
    /\ pos \in {"inject", "resolve", "dial", "delivered", "sent"} =>
          Len(data) >= 3 /\ ParseCallRequest(ParseX25(data).Payload).ok

\* What is assumed of a call.
LEMMA CallTyped ==
    ASSUME NEW c \in Calls
    PROVE  /\ c.called \in Addresses /\ c.calling \in Addresses
           /\ c.facs \in Seq([code : Octets, val : Seq(Octets)]) /\ c.cud \in Seq(Octets)
           /\ c.gfi \in Digits /\ c.lci \in 0 .. Nibble * Octet - 1
BY CallsAssumption DEF Addresses

\* A CALL_REQ of a call is a packet.
LEMMA CallPacketTyped ==
    ASSUME NEW c \in Calls, NEW fac \in Seq(Octets), NEW userData \in Seq(Octets)
    PROVE  /\ CallPacket(c, fac, userData) \in Packet
           /\ Serialize(CallPacket(c, fac, userData)) \in Seq(Octets)
           /\ Len(Serialize(CallPacket(c, fac, userData))) >= 3
<1> DEFINE w == CallPacket(c, fac, userData)
<1>1. CallPayload(c.called, c.calling, fac, userData) \in Seq(Octets)
  BY CallTyped, CallPayloadShape
<1>2. w \in Packet /\ w.Payload \in Seq(Octets)
  BY <1>1, CallTyped, OctetFacts DEF CallPacket, Packet
<1> HIDE DEF w
<1>3. Serialize(w) \in Seq(Octets) /\ Len(Serialize(w)) = 3 + Len(w.Payload)
  BY <1>2, SerializeShape
<1>4. Len(w.Payload) \in Nat
  BY <1>2
<1> QED
  BY <1>2, <1>3, <1>4 DEF w

\* What can be read of a packet that carries a call.
LEMMA CarriedParses ==
    ASSUME NEW c \in Calls, NEW d, Carries(d, c), Len(d) >= 3
    PROVE  /\ ParseX25(d).GFI = c.gfi /\ ParseX25(d).LCI = c.lci
           /\ ParseX25(d).Type = PktTypeCallRequest
           /\ ParseX25(d).Payload \in Seq(Octets)
           /\ ParseCallRequest(ParseX25(d).Payload).ok =>
                 /\ ParseCallRequest(ParseX25(d).Payload).called = c.called
                 /\ ParseCallRequest(ParseX25(d).Payload).calling = c.calling
                 /\ ParseCallRequest(ParseX25(d).Payload).facilities \in Seq(Octets)
                 /\ ParseCallRequest(ParseX25(d).Payload).userData \in Seq(Octets)
<1>1. PICK fac \in Seq(Octets), userData \in Seq(Octets) :
         StartOf(d, Serialize(CallPacket(c, fac, userData)))
  BY DEF Carries
<1> DEFINE w == CallPacket(c, fac, userData)
           p == CallPayload(c.called, c.calling, fac, userData)
           q == ParseX25(d).Payload
           s == Serialize(w)
<1>2. /\ w \in Packet /\ w.GFI = c.gfi /\ w.LCI = c.lci /\ w.Type = PktTypeCallRequest
      /\ w.Payload = p
  BY CallPacketTyped DEF CallPacket
<1>3. d \in Seq(Octets) /\ Len(d) <= Len(s) /\ \A i \in 1..Len(d) : d[i] = s[i]
  BY <1>1 DEF StartOf
<1> HIDE DEF w
<1>4. Len(s) = 3 + Len(p) /\ \A i \in 1..Len(p) : s[3 + i] = p[i]
  BY <1>2, SerializeShape
<1>5. c.called \in Addresses /\ c.calling \in Addresses
  BY CallTyped
<1>6. p \in Seq(Octets) /\ Len(p) \in Nat
  <2>1. p \in Seq(Octets)
    BY <1>5, CallPayloadShape
  <2> HIDE DEF p
  <2> QED BY <2>1
<1> HIDE DEF p, s
<1>7. Len(d) \in Nat /\ \A i \in 1..3 : d[i] = s[i]
  BY <1>3
<1>8. ParseX25(d).GFI = c.gfi /\ ParseX25(d).LCI = c.lci /\ ParseX25(d).Type = PktTypeCallRequest
  BY <1>2, <1>3, <1>7, ParseOfHeader DEF s
<1>9. /\ q \in Seq(Octets) /\ Len(q) = Len(d) - 3
      /\ \A i \in 1..(Len(d) - 3) : q[i] = d[3 + i]
  BY <1>3, PayloadOf
<1> HIDE DEF q
<1>10. Len(q) <= Len(p)
  BY <1>3, <1>4, <1>6, <1>7, <1>9
<1>11. ASSUME NEW i \in 1..Len(q) PROVE q[i] = p[i]
  <2>1. i \in 1..(Len(d) - 3) /\ i \in 1..Len(p) /\ 3 + i \in 1..Len(d)
    BY <1>3, <1>4, <1>6, <1>7, <1>9
  <2> QED
    BY <1>3, <1>4, <1>9, <2>1
<1>12. ParseCallRequest(q).ok =>
          /\ ParseCallRequest(q).called = c.called
          /\ ParseCallRequest(q).calling = c.calling
          /\ ParseCallRequest(q).facilities \in Seq(Octets)
          /\ ParseCallRequest(q).userData \in Seq(Octets)
  <2> SUFFICES ASSUME ParseCallRequest(q).ok
               PROVE  /\ ParseCallRequest(q).called = c.called
                      /\ ParseCallRequest(q).calling = c.calling
                      /\ ParseCallRequest(q).facilities \in Seq(Octets)
                      /\ ParseCallRequest(q).userData \in Seq(Octets)
    OBVIOUS
  <2>1. StartOf(q, CallPayload(c.called, c.calling, fac, userData))
    BY <1>9, <1>10, <1>11 DEF p, StartOf
  <2> QED
    BY <1>5, <2>1, AddressesParse
<1> QED
  BY <1>8, <1>9, <1>12 DEF q

\* The payload of a whole packet of the call.
LEMMA PacketPayload ==
    ASSUME NEW c \in Calls, NEW fac \in Seq(Octets), NEW userData \in Seq(Octets),
           NEW d, d = Serialize(CallPacket(c, fac, userData))
    PROVE  ParseX25(d).Payload = CallPayload(c.called, c.calling, fac, userData)
<1> DEFINE w == CallPacket(c, fac, userData)
           p == CallPayload(c.called, c.calling, fac, userData)
           q == ParseX25(d).Payload
<1>1. w \in Packet /\ w.Payload = p /\ d \in Seq(Octets) /\ Len(d) >= 3
  BY CallPacketTyped DEF CallPacket
<1>2. c.called \in Addresses /\ c.calling \in Addresses
  BY CallTyped
<1>3. p \in Seq(Octets)
  BY <1>2, CallPayloadShape
<1> HIDE DEF w, p
<1>4. Len(d) = 3 + Len(p) /\ \A i \in 1..Len(p) : d[3 + i] = p[i]
  BY <1>1, SerializeShape DEF w
<1>5. /\ q \in Seq(Octets) /\ Len(q) = Len(d) - 3
      /\ \A i \in 1..(Len(d) - 3) : q[i] = d[3 + i]
  BY <1>1, PayloadOf
<1> HIDE DEF q
<1>6. Len(p) \in Nat
  BY <1>3
<1>7. Len(q) = Len(p) /\ \A i \in 1..Len(q) : q[i] = p[i]
  BY <1>4, <1>5, <1>6
<1>8. q = p
  BY <1>3, <1>5, <1>7, SeqEqual
<1> QED
  BY <1>8 DEF p, q

\* A whole packet of the call.
LEMMA WholePacket ==
    ASSUME NEW c \in Calls, NEW fac \in Seq(Octets), NEW userData \in Seq(Octets),
           NEW d, d = Serialize(CallPacket(c, fac, userData))
    PROVE  /\ Carries(d, c) /\ Len(d) >= 3
           /\ ParseCallRequest(ParseX25(d).Payload).ok
<1>1. d \in Seq(Octets) /\ Len(d) >= 3
  BY CallPacketTyped
<1>2. Carries(d, c)
  <2>1. StartOf(d, Serialize(CallPacket(c, fac, userData)))
    BY <1>1 DEF StartOf
  <2> QED BY <2>1 DEF Carries
<1>3. ParseCallRequest(CallPayload(c.called, c.calling, fac, userData)).ok
  BY CallTyped, WholeCallParses
<1>4. ParseX25(d).Payload = CallPayload(c.called, c.calling, fac, userData)
  BY PacketPayload
<1> QED
  BY <1>1, <1>2, <1>3, <1>4

\* The first octets of a packet of the call.
LEMMA CutPacket ==
    ASSUME NEW c \in Calls, NEW fac \in Seq(Octets), NEW userData \in Seq(Octets),
           NEW n \in 0 .. Len(Serialize(CallPacket(c, fac, userData))) - 1
    PROVE  Carries(SubSeq(Serialize(CallPacket(c, fac, userData)), 1, n), c)
<1> DEFINE s == Serialize(CallPacket(c, fac, userData))
           d == SubSeq(s, 1, n)
<1>1. s \in Seq(Octets) /\ Len(s) \in Nat
  BY CallPacketTyped
<1> HIDE DEF s
<1>2. n \in Nat /\ n <= Len(s) /\ n \in Int
  BY <1>1 DEF s
<1>3. /\ d \in Seq(Octets) /\ Len(d) = IF 1 <= n THEN n - 1 + 1 ELSE 0
      /\ \A i \in 1..(n - 1 + 1) : d[i] = s[1 + i - 1]
  BY <1>1, <1>2, SubSeqOctets
<1> HIDE DEF d
<1>4. Len(d) = n /\ \A i \in 1..n : d[i] = s[i]
  BY <1>2, <1>3
<1>5. StartOf(d, s)
  BY <1>2, <1>3, <1>4 DEF StartOf
<1> QED
  BY <1>5 DEF Carries, d, s

\* The facilities asked for are encoded as octets.
LEMMA AskedTyped ==
    ASSUME NEW c \in Calls
    PROVE  FacilitiesAsked(c) \in Seq(Octets)
<1> DEFINE seqs == [i \in DOMAIN c.facs |-> EncodeFacility(c.facs[i].code, c.facs[i].val)]
           n == Len(c.facs)
<1>1. c.facs \in Seq([code : Octets, val : Seq(Octets)])
  BY CallTyped
<1>2. n \in Nat /\ DOMAIN c.facs = 1..n /\ \A i \in 1..n : c.facs[i] \in [code : Octets, val : Seq(Octets)]
  BY <1>1, LenProperties, ElementOfSeq
<1>3. ASSUME NEW i \in 1..n PROVE EncodeFacility(c.facs[i].code, c.facs[i].val) \in Seq(Octets)
  <2>1. c.facs[i].code \in Octets /\ c.facs[i].val \in Seq(Octets)
    BY <1>2
  <2> QED
    BY <2>1, EncodeTyped
<1> HIDE DEF n
<1>4. seqs \in [1..n -> Seq(Octets)]
  BY <1>2, <1>3
<1>5. FacilitiesAsked(c) = FlattenSeq(seqs)
  BY DEF FacilitiesAsked
<1> HIDE DEF seqs
<1>6. seqs \in Seq(Seq(Octets))
  BY <1>2, <1>4
<1> QED
  BY <1>5, <1>6, FlattenTyped

\* The facilities configured for an address, if any, are a facility map.
LEMMA ConfiguredTyped == \A addr : Configured(addr) \in FacilityMaps \union {<<>>}
<1> SUFFICES ASSUME NEW addr, addr \in DOMAIN Destinations
             PROVE  ValidFacilities(Destinations[addr]) \in FacilityMaps
  BY DEF Configured
<1>1. PICK codes \in SUBSET Octets : Destinations[addr] \in [codes -> Seq(Octets)]
  BY DestinationsAssumption
<1> DEFINE f == Destinations[addr]
           S == {c \in DOMAIN f : Class(c) # 3 => Len(f[c]) = Class(c) + 1}
<1>2. S \in SUBSET Octets /\ [c \in S |-> f[c]] \in [S -> Seq(Octets)]
  BY <1>1
<1>3. ValidFacilities(f) = [c \in S |-> f[c]]
  BY DEF ValidFacilities
<1> QED
  BY <1>2, <1>3 DEF FacilityMaps

\* InjectFacilities changes the facilities and nothing else.
LEMMA InjectedPayload ==
    ASSUME NEW payload, NEW newFac \in FacilityMaps,
           ParseCallRequest(payload).facilities \in Seq(Octets),
           NEW p \in InjectFacilities(payload, newFac)
    PROVE  \E fac \in Seq(Octets) :
              p = CallPayload(ParseCallRequest(payload).called, ParseCallRequest(payload).calling,
                              fac, ParseCallRequest(payload).userData)
<1> DEFINE r == ParseCallRequest(payload)
           facs == Over(newFac, FacilityMap(r.facilities))
<1>1. PICK codes \in SetToSeqs(DOMAIN facs) :
         p = CallPayload(r.called, r.calling, EncodeFacilities(facs, codes), r.userData)
  BY DEF InjectFacilities
<1>2. facs \in FacilityMaps
  BY FacilityMapTyped, OverTyped
<1>3. EncodeFacilities(facs, codes) \in Seq(Octets)
  <2> HIDE DEF facs
  <2> QED BY <1>2, EncodedFacilitiesTyped
<1> QED
  BY <1>1, <1>3

\* A client's packet carries its call, whole or cut short,
LEMMA InitCarry == Init => CarryInv
<1> SUFFICES ASSUME Init PROVE CarryInv
  OBVIOUS
<1> DEFINE fac == FacilitiesAsked(call)
           s == Serialize(CallPacket(call, fac, call.cud))
<1>1. call \in Calls
  BY DEF Init
<1>2. fac \in Seq(Octets) /\ call.cud \in Seq(Octets)
  BY <1>1, AskedTyped, CallTyped
<1>3. BuildCallRequest(call) = s
  BY DEF BuildCallRequest, CallPacket
<1>4. pos \in {"server", "tun"}
  BY DEF Init
<1>5. \/ data = s
      \/ pos = "server" /\ \E n \in 0 .. Len(s) - 1 : data = SubSeq(s, 1, n)
  BY <1>3 DEF Init
<1>6. CASE data = s
  <2>1. Carries(data, call) /\ Len(data) >= 3
    BY <1>1, <1>2, <1>6, WholePacket
  <2> QED
    BY <1>4, <2>1 DEF CarryInv
<1>7. CASE pos = "server" /\ \E n \in 0 .. Len(s) - 1 : data = SubSeq(s, 1, n)
  <2>1. PICK n \in 0 .. Len(s) - 1 : data = SubSeq(s, 1, n)
    BY <1>7
  <2>2. Carries(data, call)
    BY <1>1, <1>2, <2>1, CutPacket
  <2> QED
    BY <1>7, <2>2 DEF CarryInv
<1> QED
  BY <1>5, <1>6, <1>7

\* Steps that leave the packet alone and do not go where it must be whole.
LEMMA CarryKept ==
    ASSUME CarryInv, UNCHANGED <<call, data>>,
           pos' = "tun" => pos = "tun",
           pos' \in {"inject", "resolve", "dial", "delivered", "sent"} =>
              \/ pos \in {"inject", "resolve", "dial", "delivered", "sent"}
              \/ Len(data) >= 3 /\ Request.ok
    PROVE  CarryInv'
BY DEF CarryInv, Carries, Request

\* and every process passes on a packet that does.
LEMMA CarryStep == RouteTyped /\ CarryInv /\ [Next]_vars => CarryInv'
<1> SUFFICES ASSUME RouteTyped, CarryInv, [Next]_vars PROVE CarryInv'
  OBVIOUS
<1>0. call \in Calls
  BY DEF RouteTyped
<1>1. CASE Refused("server") \/ Refused("gateway")
  <2>1. UNCHANGED <<call, data>> /\ pos' \in {"ignored", "cleared"}
    BY <1>1 DEF Refused, RouteUnchanged
  <2> QED
    BY <2>1, CarryKept
<1>2. CASE ServerRoutes
  <2>1. UNCHANGED <<call, data>> /\ pos' \in {"delivered", "gateway", "cleared"}
        /\ Len(data) >= 3 /\ Request.ok
    BY <1>2 DEF ServerRoutes, ServerStep, Accepted, RouteUnchanged
  <2> QED
    BY <2>1, CarryKept
<1>3. CASE TunRoutes
  <2>1. Len(data) >= 3 /\ data \in Seq(Octets) /\ UNCHANGED call
    BY <1>3 DEF TunRoutes, CarryInv, Carries, StartOf, RouteUnchanged
  <2>2. Serialize(ParseX25(data)) = data
    BY <2>1, HeaderRoundTrip
  <2>3. data' = data /\ pos' \in {"gateway", "cleared"}
    BY <1>3, <2>2 DEF TunRoutes
  <2> QED
    BY <2>1, <2>3, CarryKept
<1>4. CASE GatewayRoutes
  <2>1. UNCHANGED <<call, data>> /\ pos' \in {"inject", "cleared"}
        /\ Len(data) >= 3 /\ Request.ok
    BY <1>4 DEF GatewayRoutes, Accepted, RouteUnchanged
  <2> QED
    BY <2>1, CarryKept
<1>5. CASE Inject
  <2> DEFINE pkt == ParseX25(data)
             new == Configured(Request.called)
  <2>1. pos = "inject" /\ pos' = "resolve" /\ UNCHANGED call
    BY <1>5 DEF Inject, RouteUnchanged
  <2>2. Carries(data, call) /\ Len(data) >= 3 /\ ParseCallRequest(pkt.Payload).ok
    BY <2>1 DEF CarryInv
  <2>3. CASE DOMAIN new = {}
    <3>1. data' = data
      BY <1>5, <2>3 DEF Inject
    <3> QED
      BY <2>1, <3>1, CarryKept
  <2>4. CASE DOMAIN new # {}
    <3>1. PICK p \in InjectFacilities(pkt.Payload, new) :
             data' = Serialize([pkt EXCEPT !.Payload = p])
      BY <1>5, <2>4 DEF Inject
    <3>2. new \in FacilityMaps
      BY <2>4, ConfiguredTyped
    <3> DEFINE r == ParseCallRequest(pkt.Payload)
    <3>3. /\ pkt.GFI = call.gfi /\ pkt.LCI = call.lci /\ pkt.Type = PktTypeCallRequest
          /\ r.called = call.called /\ r.calling = call.calling
          /\ r.facilities \in Seq(Octets) /\ r.userData \in Seq(Octets)
      BY <1>0, <2>2, CarriedParses
    <3> HIDE DEF new
    <3>4. PICK fac \in Seq(Octets) : p = CallPayload(r.called, r.calling, fac, r.userData)
      BY <3>1, <3>2, <3>3, InjectedPayload
    <3>5. [pkt EXCEPT !.Payload = p] = CallPacket(call, fac, r.userData)
      <4>1. [pkt EXCEPT !.Payload = p] =
               [GFI |-> pkt.GFI, LCI |-> pkt.LCI, Type |-> pkt.Type, Payload |-> p]
        BY DEF ParseX25
      <4>2. p = CallPayload(call.called, call.calling, fac, r.userData)
        BY <3>3, <3>4
      <4> HIDE DEF pkt, r
      <4> QED BY <3>3, <4>1, <4>2 DEF CallPacket
    <3>6. data' = Serialize(CallPacket(call, fac, r.userData))
      BY <3>1, <3>5
    <3>7. Carries(data', call) /\ Len(data') >= 3 /\ ParseCallRequest(ParseX25(data').Payload).ok
      <4> DEFINE d == data'
      <4>1. d = Serialize(CallPacket(call, fac, r.userData))
        BY <3>6
      <4> HIDE DEF d
      <4>2. Carries(d, call) /\ Len(d) >= 3 /\ ParseCallRequest(ParseX25(d).Payload).ok
        BY <1>0, <3>3, <4>1, WholePacket
      <4> QED BY <4>2 DEF d
    <3>8. Carries(data, call)'
      BY <2>1, <3>7 DEF Carries
    <3> QED
      BY <2>1, <3>7, <3>8 DEF CarryInv
  <2> QED
    BY <2>3, <2>4
<1>6. CASE Resolve
  <2>1. UNCHANGED <<call, data>> /\ pos = "resolve" /\ pos' \in {"dial", "cleared"}
    BY <1>6 DEF Resolve
  <2> QED
    BY <2>1, CarryKept
<1>7. CASE Dial
  <2>1. UNCHANGED <<call, data>> /\ pos = "dial" /\ pos' \in {"dial", "server", "sent", "cleared"}
    BY <1>7 DEF Dial
  <2> QED
    BY <2>1, CarryKept
<1>8. CASE ZoneChanges \/ (\E p \in Process : Expire(p)) \/ UNCHANGED vars
  <2>1. UNCHANGED <<call, data, pos>>
    BY <1>8 DEF ZoneChanges, Expire, RouteUnchanged, vars
  <2> QED
    BY <2>1, CarryKept
<1> QED
  BY <1>1, <1>2, <1>3, <1>4, <1>5, <1>6, <1>7, <1>8 DEF Next

\* What the packet says of the call.
LEMMA CarriedCall ==
    ASSUME call \in Calls, CarryInv, Len(data) >= 3
    PROVE  /\ ParseX25(data).GFI = call.gfi /\ ParseX25(data).LCI = call.lci
           /\ ParseX25(data).Type = PktTypeCallRequest
           /\ Request.ok => Request.called = call.called /\ Request.calling = call.calling
BY CarriedParses DEF CarryInv, Request

\* AddressesSurvive from the invariants.
LEMMA CarryGivesAddresses == RouteTyped /\ CarryInv => AddressesSurvive
BY CarriedCall DEF RouteTyped, CarryInv, AddressesSurvive, Request

\* TypeOK from the invariants.
LEMMA TypedGivesTypeOK == RouteTyped /\ CarryInv => TypeOK
BY DEF RouteTyped, CarryInv, Carries, StartOf, TypeOK, AddressLists

\* Both invariants hold in every behaviour.
LEMMA CarryAlways == Spec => [](RouteTyped /\ CarryInv)
<1>1. Init => RouteTyped /\ CarryInv
  BY InitRouteTyped, InitCarry
<1>2. RouteTyped /\ CarryInv /\ [Next]_vars => (RouteTyped /\ CarryInv)'
  BY RouteTypedStep, CarryStep
<1> QED
  BY <1>1, <1>2, PTL DEF Spec

(***************************************************************************)
(* The packet always consists of octets, however often and with whatever   *)
(* facilities it was packed again; the addresses dialled and cached are    *)
(* ones the configuration or the DNS gave (InjectFacilities of src/x25.go, *)
(* ResolveXotDestination of src/dns.go).                                   *)
(***************************************************************************)
THEOREM RoutingTypeCorrect == Spec => []TypeOK
BY CarryAlways, TypedGivesTypeOK, PTL

(***************************************************************************)
(* For every width of the half-octets, every call and every configuration: *)
(* wherever a call arrives its packet has the addresses, the channel and   *)
(* the format it was sent with (ParseCallRequest, InjectFacilities and     *)
(* Serialize of src/x25.go).                                               *)
(***************************************************************************)
THEOREM AddressesArrive == Spec => []AddressesSurvive
BY CarryAlways, CarryGivesAddresses, PTL

-----------------------------------------------------------------------------
\* What is read of a packet: its facilities by their codes, its user data.
Reads(d, facs, userData) ==
    LET r == ParseCallRequest(ParseX25(d).Payload)
    IN  Len(d) >= 3 /\ r.ok /\ FacilityMap(r.facilities) = facs /\ r.userData = userData

\* A packet of the call is read as it was written.
LEMMA ReadsBack ==
    ASSUME NEW c \in Calls, NEW fac \in Seq(Octets), Len(fac) < Octet, NEW userData \in Seq(Octets),
           NEW d, d = Serialize(CallPacket(c, fac, userData))
    PROVE  Reads(d, FacilityMap(fac), userData)
<1>1. Len(d) >= 3
  BY CallPacketTyped
<1>2. ParseX25(d).Payload = CallPayload(c.called, c.calling, fac, userData)
  BY PacketPayload
<1>3. c.called \in Addresses /\ c.calling \in Addresses
  BY CallTyped
<1> DEFINE r == ParseCallRequest(CallPayload(c.called, c.calling, fac, userData))
<1>4. r.ok /\ r.facilities = fac /\ r.userData = userData
  BY <1>3, WholeCallReads
<1> HIDE DEF r
<1> QED
  BY <1>1, <1>2, <1>4 DEF Reads, r

\* What should arrive.
Wanted(c) == Over(Configured(c.called), LastValues(c.facs))

\* What a client asked for is what it encoded, and well-formed.
LEMMA AskedRead ==
    ASSUME NEW c \in Calls
    PROVE  /\ FacilityMap(FacilitiesAsked(c)) = LastValues(c.facs)
           /\ LastValues(c.facs) \in FacilityMaps /\ FacsFit(LastValues(c.facs))
           /\ FacilitiesAsked(c) \in Seq(Octets) /\ Len(FacilitiesAsked(c)) < Octet
<1> DEFINE fs == c.facs
           m == FacilityMap(FlattenSeq(Encoded(fs)))
<1>1. fs \in Seq(Entry)
  BY CallTyped DEF Entry
<1>2. DOMAIN fs = 1..Len(fs)
  BY <1>1, EntryTyped
<1>3. WellFormed(fs)
  BY <1>2, FacilitiesAssumption DEF WellFormed
<1>4. FacilitiesAsked(c) = FlattenSeq(Encoded(fs))
  BY <1>2 DEF FacilitiesAsked, Encoded
<1>5. FacilitiesAsked(c) \in Seq(Octets) /\ Len(FacilitiesAsked(c)) < Octet
  BY AskedTyped, FacilitiesAssumption
<1> HIDE DEF fs
<1>6. Keeps(m, fs, 1)
  BY <1>1, <1>3, <1>4, <1>5, WalkKeeps
<1> HIDE DEF m
<1>7. /\ m = LastValues(fs)
      /\ \A x \in DOMAIN m : \E i \in 1..Len(fs) : fs[i].code = x /\ m[x] = fs[i].val
  BY <1>1, <1>6, KeepsLast
<1>8. m \in FacilityMaps
  BY <1>6 DEF Keeps
<1>9. FacsFit(m)
  BY <1>3, <1>7 DEF FacsFit, WellFormed
<1> QED
  BY <1>4, <1>5, <1>7, <1>8, <1>9 DEF fs, m

\* The facilities configured for an address are well-formed.
LEMMA ConfiguredFit == \A addr : Configured(addr) = <<>> \/ FacsFit(Configured(addr))
<1> SUFFICES ASSUME NEW addr, addr \in DOMAIN Destinations
             PROVE  FacsFit(ValidFacilities(Destinations[addr]))
  BY DEF Configured
<1> DEFINE f == Destinations[addr]
           S == {c \in DOMAIN f : Class(c) # 3 => Len(f[c]) = Class(c) + 1}
<1>1. ValidFacilities(f) = [c \in S |-> f[c]]
  BY DEF ValidFacilities
<1>2. \A c \in S : Class(c) # 3 => Len(f[c]) = Class(c) + 1
  OBVIOUS
<1> HIDE DEF S
<1> QED
  BY <1>1, <1>2 DEF FacsFit

\* One well-formed facility map over another.
LEMMA OverFits ==
    ASSUME NEW f, NEW g, FacsFit(f), FacsFit(g)
    PROVE  FacsFit(Over(f, g))
BY DEF FacsFit, Over

\* Configured facilities added twice are what they are when added once.
LEMMA OverTwice ==
    ASSUME NEW f, NEW g
    PROVE  Over(f, Over(f, g)) = Over(f, g)
<1> DEFINE h == Over(f, g)
<1>1. /\ DOMAIN h = DOMAIN f \union DOMAIN g
      /\ h = [c \in DOMAIN f \union DOMAIN g |-> IF c \in DOMAIN f THEN f[c] ELSE g[c]]
  BY DEF Over
<1>2. \A c \in DOMAIN f : h[c] = f[c]
  BY <1>1
<1> HIDE DEF h
<1>3. Over(f, h) = [c \in DOMAIN f \union DOMAIN h |-> IF c \in DOMAIN f THEN f[c] ELSE h[c]]
  BY DEF Over
<1>4. DOMAIN f \union DOMAIN h = DOMAIN h
  BY <1>1
<1>5. h = [c \in DOMAIN h |-> h[c]]
  BY <1>1
<1>6. [c \in DOMAIN h |-> IF c \in DOMAIN f THEN f[c] ELSE h[c]] = [c \in DOMAIN h |-> h[c]]
  BY <1>2
<1> QED
  BY <1>3, <1>4, <1>5, <1>6 DEF h

\* Nothing configured changes nothing.
LEMMA OverNothing ==
    ASSUME NEW f, NEW g \in FacilityMaps, DOMAIN f = {}
    PROVE  Over(f, g) = g
<1>1. g = [c \in DOMAIN g |-> g[c]]
  BY DEF FacilityMaps
<1>2. Over(f, g) = [c \in DOMAIN f \union DOMAIN g |-> IF c \in DOMAIN f THEN f[c] ELSE g[c]]
  BY DEF Over
<1>3. DOMAIN f \union DOMAIN g = DOMAIN g /\ \A c : c \notin DOMAIN f
  OBVIOUS
<1>4. [c \in DOMAIN g |-> IF c \in DOMAIN f THEN f[c] ELSE g[c]] = [c \in DOMAIN g |-> g[c]]
  BY <1>3
<1> QED
  BY <1>1, <1>2, <1>3, <1>4

\* What should arrive is well-formed.
LEMMA WantedTyped ==
    ASSUME NEW c \in Calls, DOMAIN Configured(c.called) # {}
    PROVE  Wanted(c) \in FacilityMaps /\ FacsFit(Wanted(c))
<1> DEFINE new == Configured(c.called)
           asked == LastValues(c.facs)
<1>1. new # <<>>
  OBVIOUS
<1>2. new \in FacilityMaps /\ FacsFit(new)
  BY <1>1, ConfiguredTyped, ConfiguredFit
<1>3. asked \in FacilityMaps /\ FacsFit(asked)
  BY AskedRead
<1> HIDE DEF new, asked
<1>4. Over(new, asked) \in FacilityMaps /\ FacsFit(Over(new, asked))
  BY <1>2, <1>3, OverTyped, OverFits
<1> QED
  BY <1>4 DEF Wanted, new, asked

\* InjectFacilities writes what should arrive, also when it has been there before.
LEMMA InjectionReads ==
    ASSUME NEW c \in Calls, NEW d, Carries(d, c), NEW facs,
           Reads(d, facs, c.cud), facs = LastValues(c.facs) \/ facs = Wanted(c),
           DOMAIN Configured(c.called) # {}, FieldSize(Wanted(c)) < Octet,
           NEW p \in InjectFacilities(ParseX25(d).Payload, Configured(c.called))
    PROVE  Reads(Serialize([ParseX25(d) EXCEPT !.Payload = p]), Wanted(c), c.cud)
<1> DEFINE pkt == ParseX25(d)
           r == ParseCallRequest(pkt.Payload)
           new == Configured(c.called)
           w == Wanted(c)
<1>1. Len(d) >= 3 /\ r.ok /\ FacilityMap(r.facilities) = facs /\ r.userData = c.cud
  BY DEF Reads
<1>2. /\ pkt.GFI = c.gfi /\ pkt.LCI = c.lci /\ pkt.Type = PktTypeCallRequest
      /\ r.called = c.called /\ r.calling = c.calling
  BY <1>1, CarriedParses
<1>3. PICK codes \in SetToSeqs(DOMAIN Over(new, FacilityMap(r.facilities))) :
         p = CallPayload(r.called, r.calling,
                         EncodeFacilities(Over(new, FacilityMap(r.facilities)), codes), r.userData)
  BY DEF InjectFacilities
<1>4. Over(new, facs) = w
  BY OverTwice DEF Wanted
<1>5. w \in FacilityMaps /\ FacsFit(w)
  BY WantedTyped
<1> HIDE DEF r, new, w
<1>6. codes \in SetToSeqs(DOMAIN w)
      /\ p = CallPayload(c.called, c.calling, EncodeFacilities(w, codes), c.cud)
  BY <1>1, <1>2, <1>3, <1>4
<1> DEFINE fac == EncodeFacilities(w, codes)
<1>7. fac \in Seq(Octets)
  BY <1>5, <1>6, EncodedFacilitiesTyped
<1>8. FieldSize(w) < Octet
  BY DEF w
<1>9. Len(fac) < Octet /\ FacilityMap(fac) = w
  BY <1>5, <1>6, <1>8, EncodedSize, FacilitiesRoundTrip
<1>10. [pkt EXCEPT !.Payload = p] = CallPacket(c, fac, c.cud)
  <2>1. [pkt EXCEPT !.Payload = p] =
           [GFI |-> pkt.GFI, LCI |-> pkt.LCI, Type |-> pkt.Type, Payload |-> p]
    BY DEF ParseX25
  <2> HIDE DEF pkt, fac
  <2> QED BY <1>2, <1>6, <2>1 DEF CallPacket, fac
<1> HIDE DEF fac, pkt
<1>11. c.cud \in Seq(Octets)
  BY CallTyped
<1>12. Reads(Serialize(CallPacket(c, fac, c.cud)), w, c.cud)
  BY <1>7, <1>9, <1>11, ReadsBack
<1> QED
  BY <1>10, <1>12 DEF pkt, w

(***************************************************************************)
(* The facilities on their way: what the client asked for until            *)
(* xot-gateway has added what is configured, then what should arrive.      *)
(***************************************************************************)
Injected == hops > 0 \/ pos \in {"resolve", "dial", "sent"}
FacilitiesInv ==
    whole /\ pos \notin {"ignored", "cleared"} =>
        /\ ~Injected => Reads(data, LastValues(call.facs), call.cud)
        /\ Injected /\ FieldSize(Wanted(call)) < Octet => Reads(data, Wanted(call), call.cud)

\* A client's packet has what it asked for.
LEMMA InitFacilities == Init => FacilitiesInv
<1> SUFFICES ASSUME Init, whole = TRUE PROVE ~Injected /\ Reads(data, LastValues(call.facs), call.cud)
  BY DEF FacilitiesInv, Init
<1> DEFINE fac == FacilitiesAsked(call)
<1>1. call \in Calls /\ hops = 0 /\ pos \in {"server", "tun"} /\ data = BuildCallRequest(call)
  BY DEF Init
<1>2. BuildCallRequest(call) = Serialize(CallPacket(call, fac, call.cud))
  BY DEF BuildCallRequest, CallPacket
<1>3. /\ fac \in Seq(Octets) /\ Len(fac) < Octet /\ call.cud \in Seq(Octets)
      /\ FacilityMap(fac) = LastValues(call.facs)
  BY <1>1, AskedRead, CallTyped
<1> HIDE DEF fac
<1>4. Reads(data, LastValues(call.facs), call.cud)
  BY <1>1, <1>2, <1>3, ReadsBack
<1> QED
  BY <1>1, <1>4 DEF Injected

\* Steps that leave the packet alone.
LEMMA FacilitiesKept ==
    ASSUME FacilitiesInv, UNCHANGED <<call, whole, data>>,
           \/ pos' \in {"ignored", "cleared"}
           \/ pos \notin {"ignored", "cleared"} /\ (Injected' <=> Injected)
    PROVE  FacilitiesInv'
BY DEF FacilitiesInv

\* Every process passes on the facilities it was given.
LEMMA FacilitiesStep ==
    RouteTyped /\ CarryInv /\ FacilitiesInv /\ [Next]_vars => FacilitiesInv'
<1> SUFFICES ASSUME RouteTyped, CarryInv, FacilitiesInv, [Next]_vars PROVE FacilitiesInv'
  OBVIOUS
<1>0. call \in Calls /\ hops \in Nat
  BY BoundAssumption DEF RouteTyped
<1>1. CASE Refused("server") \/ Refused("gateway")
  <2>1. UNCHANGED <<call, whole, data>> /\ pos' \in {"ignored", "cleared"}
    BY <1>1 DEF Refused, RouteUnchanged
  <2> QED BY <2>1, FacilitiesKept
<1>2. CASE ServerRoutes \/ GatewayRoutes
  <2>1. /\ UNCHANGED <<call, whole, data, hops>> /\ pos \in {"server", "gateway"}
        /\ pos' \in {"delivered", "gateway", "cleared", "inject"}
    BY <1>2 DEF ServerRoutes, ServerStep, GatewayRoutes, Accepted, RouteUnchanged
  <2>2. Injected' <=> Injected
    BY <2>1 DEF Injected
  <2> QED BY <2>1, <2>2, FacilitiesKept
<1>3. CASE TunRoutes
  <2>1. /\ Len(data) >= 3 /\ data \in Seq(Octets) /\ UNCHANGED <<call, whole, hops>>
        /\ pos = "tun" /\ pos' \in {"gateway", "cleared"}
    BY <1>3 DEF TunRoutes, CarryInv, Carries, StartOf, RouteUnchanged
  <2>2. Serialize(ParseX25(data)) = data
    BY <2>1, HeaderRoundTrip
  <2>3. data' = data
    BY <1>3, <2>2 DEF TunRoutes
  <2>4. Injected' <=> Injected
    BY <2>1 DEF Injected
  <2> QED BY <2>1, <2>3, <2>4, FacilitiesKept
<1>4. CASE Inject
  <2> DEFINE pkt == ParseX25(data)
             new == Configured(Request.called)
             w == Wanted(call)
  <2>1. pos = "inject" /\ pos' = "resolve" /\ UNCHANGED <<call, whole, hops>> /\ Injected'
    BY <1>4 DEF Inject, RouteUnchanged, Injected
  <2> SUFFICES ASSUME whole, FieldSize(w) < Octet PROVE Reads(data', w, call.cud)
    <3>1. Reads(data, Wanted(call), call.cud)' <=> Reads(data', Wanted(call), call.cud)
      BY <2>1 DEF Wanted, Reads
    <3>2. (FieldSize(Wanted(call)) < Octet)' <=> FieldSize(Wanted(call)) < Octet
      BY <2>1 DEF Wanted
    <3> QED BY <2>1, <3>1, <3>2 DEF FacilitiesInv
  <2>2. Carries(data, call) /\ Len(data) >= 3 /\ Request.ok
    BY <2>1 DEF CarryInv, Request
  <2>3. Request.called = call.called
    BY <1>0, <2>2, CarriedParses DEF Request
  <2>4. \/ Reads(data, LastValues(call.facs), call.cud)
        \/ Reads(data, w, call.cud)
    BY <2>1 DEF FacilitiesInv
  <2>5. CASE DOMAIN new = {}
    <3>1. data' = data
      BY <1>4, <2>5 DEF Inject
    <3>2. Over(Configured(call.called), LastValues(call.facs)) = LastValues(call.facs)
      BY <1>0, <2>3, <2>5, AskedRead, OverNothing
    <3> QED BY <2>4, <3>1, <3>2 DEF Wanted
  <2>6. CASE DOMAIN new # {}
    <3>1. PICK p \in InjectFacilities(pkt.Payload, new) :
             data' = Serialize([pkt EXCEPT !.Payload = p])
      BY <1>4, <2>6 DEF Inject
    <3>2. new = Configured(call.called)
      BY <2>3
    <3> HIDE DEF new, w
    <3>3. p \in InjectFacilities(ParseX25(data).Payload, Configured(call.called))
          /\ DOMAIN Configured(call.called) # {} /\ FieldSize(Wanted(call)) < Octet
      BY <2>6, <3>1, <3>2 DEF w
    <3>4. \E facs \in {LastValues(call.facs), Wanted(call)} : Reads(data, facs, call.cud)
      BY <2>4 DEF w
    <3>5. Reads(Serialize([ParseX25(data) EXCEPT !.Payload = p]), Wanted(call), call.cud)
      <4>1. PICK facs \in {LastValues(call.facs), Wanted(call)} : Reads(data, facs, call.cud)
        BY <3>4
      <4> HIDE DEF pkt
      <4> QED BY <1>0, <2>2, <3>3, <4>1, InjectionReads
    <3> QED BY <3>1, <3>5 DEF w
  <2> QED BY <2>5, <2>6
<1>5. CASE Resolve
  <2>1. UNCHANGED <<call, whole, data, hops>> /\ pos = "resolve" /\ pos' \in {"dial", "cleared"}
    BY <1>5 DEF Resolve
  <2>2. (Injected' <=> Injected) \/ pos' = "cleared"
    BY <2>1 DEF Injected
  <2> QED BY <2>1, <2>2, FacilitiesKept
<1>6. CASE Dial
  <2>1. UNCHANGED <<call, whole, data>> /\ pos = "dial" /\ pos' \in {"dial", "server", "sent", "cleared"}
    BY <1>6 DEF Dial
  <2>2. pos' = "server" => hops' = hops + 1
    BY <1>6, <2>1 DEF Dial
  <2>3. pos' # "cleared" => Injected /\ Injected'
    BY <1>0, <2>1, <2>2 DEF Injected
  <2> QED BY <2>1, <2>3, FacilitiesKept
<1>7. CASE ZoneChanges \/ (\E p \in Process : Expire(p)) \/ UNCHANGED vars
  <2>1. UNCHANGED <<call, whole, data, pos, hops>>
    BY <1>7 DEF ZoneChanges, Expire, RouteUnchanged, vars
  <2>2. Injected' <=> Injected
    BY <2>1 DEF Injected
  <2> QED BY <2>1, <2>2, FacilitiesKept
<1> QED
  BY <1>1, <1>2, <1>3, <1>4, <1>5, <1>6, <1>7 DEF Next

\* FacilitiesArrive from the invariants.
LEMMA FacilitiesGiveArrival == RouteTyped /\ FacilitiesInv => FacilitiesArrive
<1> SUFFICES ASSUME RouteTyped, FacilitiesInv, whole PROVE FacilitiesArrive
  BY DEF FacilitiesArrive
<1>1. AskedFor = LastValues(call.facs) /\ WantedFor = Wanted(call)
  BY DEF AskedFor, WantedFor, Wanted
<1>2. ASSUME pos = "sent" \/ (pos = "delivered" /\ hops > 0), FieldSize(WantedFor) < Octet
      PROVE  FacilityMap(Request.facilities) = WantedFor /\ Request.userData = call.cud
  <2>1. pos \notin {"ignored", "cleared"} /\ Injected
    BY <1>2 DEF Injected
  <2>2. Reads(data, WantedFor, call.cud)
    BY <1>1, <1>2, <2>1 DEF FacilitiesInv
  <2> QED BY <2>2 DEF Reads, Request
<1>3. ASSUME pos = "delivered", hops = 0
      PROVE  FacilityMap(Request.facilities) = AskedFor /\ Request.userData = call.cud
  <2>1. pos \notin {"ignored", "cleared"} /\ ~Injected
    BY <1>3 DEF Injected
  <2>2. Reads(data, AskedFor, call.cud)
    BY <1>1, <2>1 DEF FacilitiesInv
  <2> QED BY <2>2 DEF Reads, Request
<1> QED
  BY <1>2, <1>3 DEF FacilitiesArrive

(***************************************************************************)
(* A complete CALL_REQ arrives with its user data and one value for each   *)
(* facility: the configured one, else the last the caller gave, whatever   *)
(* the facilities, their order on the way and the number of times the      *)
(* packet was packed again (ParseFacilities, InjectFacilities of           *)
(* src/x25.go), as long as they fit in their field.                        *)
(***************************************************************************)
THEOREM FacilitiesReach == Spec => []FacilitiesArrive
<1>1. Init => FacilitiesInv
  BY InitFacilities
<1>2. RouteTyped /\ CarryInv /\ FacilitiesInv /\ [Next]_vars => FacilitiesInv'
  BY FacilitiesStep
<1> QED
  BY <1>1, <1>2, CarryAlways, FacilitiesGiveArrival, PTL DEF Spec

-----------------------------------------------------------------------------
(***************************************************************************)
(* Where a call is sent.                                                   *)
(***************************************************************************)
\* xot-gateway has chosen the entry for the address called, and the addresses
\* it dials are of that entry.
ChosenInv ==
    /\ pos \in {"inject", "resolve", "dial"} =>
          srv # 0 /\ srv = Best(Config, call.called)
    /\ pos = "dial" =>
          \/ Config[srv].ip # NoIP /\ ips = <<Config[srv].ip>>
          \/ Config[srv].ip = NoIP /\ ips \in Answers \union {<<>>}
    /\ SentWhereRouted

\* Nothing is chosen and nothing sent at the start.
LEMMA InitChosen == Init => ChosenInv
BY DEF Init, ChosenInv, SentWhereRouted

\* Steps that change neither the choice nor the destination.
LEMMA ChosenKept ==
    ASSUME ChosenInv, UNCHANGED <<call, srv, ips, dest>>,
           \/ pos' = pos
           \/ pos' \in {"ignored", "cleared", "delivered", "gateway", "server", "tun"}
           \/ pos = "inject" /\ pos' = "resolve"
    PROVE  ChosenInv'
BY DEF ChosenInv, SentWhereRouted

\* The entry chosen is the one the file of the configuration gives for addr.
LEMMA ChosenIsRouted ==
    ASSUME NEW addr, NEW b, b = Best(Config, addr), b # 0
    PROVE  \E i \in DOMAIN Servers :
              /\ Config[b] = WithDefaults(Servers[i])
              /\ Usable(Servers[i]) /\ Matches(Servers[i], addr)
              /\ \A j \in DOMAIN Servers : Usable(Servers[j]) /\ Matches(Servers[j], addr) =>
                    \/ Servers[j].plen < Servers[i].plen
                    \/ Servers[j].plen = Servers[i].plen /\ i <= j
<1> DEFINE n == Len(Config)
<1>1. PICK m : Selects(Servers, Len(Servers), Config, m)
  BY ConfigOrigin
<1>2. IsBestUpTo(Config, addr, n, b)
  BY BestOfConfig
<1>3. n \in Nat /\ b \in 1..n /\ Len(Servers) \in Nat /\ DOMAIN Servers = 1..Len(Servers)
  BY <1>2, ConfigEntries, ServersAssumption DEF IsBestUpTo
<1>4. /\ m \in [1..n -> 1..Len(Servers)]
      /\ \A i \in 1..n : Usable(Servers[m[i]]) /\ Config[i] = WithDefaults(Servers[m[i]])
      /\ \A i, j \in 1..n : i < j => m[i] < m[j]
      /\ \A j \in 1..Len(Servers) : Usable(Servers[j]) => \E i \in 1..n : m[i] = j
  BY <1>1 DEF Selects
<1>5. ASSUME NEW i \in DOMAIN Servers
      PROVE  /\ WithDefaults(Servers[i]).plen = Servers[i].plen
             /\ WithDefaults(Servers[i]).prefix = Servers[i].prefix
             /\ Servers[i].plen \in Int
  <2>1. Servers[i] \in ServerEntry
    BY <1>3, ServersAssumption
  <2> QED
    BY <2>1 DEF WithDefaults, ServerEntry, NoPlen
<1>6. \A i \in DOMAIN Servers : Matches(WithDefaults(Servers[i]), addr) <=> Matches(Servers[i], addr)
  BY <1>5 DEF Matches
<1> HIDE DEF n
<1> DEFINE i == m[b]
<1>7. i \in DOMAIN Servers /\ Usable(Servers[i]) /\ Config[b] = WithDefaults(Servers[i])
  BY <1>3, <1>4
<1>8. Matches(Servers[i], addr)
  BY <1>2, <1>3, <1>6, <1>7 DEF IsBestUpTo
<1>9. ASSUME NEW j \in DOMAIN Servers, Usable(Servers[j]), Matches(Servers[j], addr)
      PROVE  \/ Servers[j].plen < Servers[i].plen
             \/ Servers[j].plen = Servers[i].plen /\ i <= j
  <2>1. PICK k \in 1..n : m[k] = j
    BY <1>3, <1>4, <1>9
  <2>2. Config[k] = WithDefaults(Servers[j])
    BY <1>4, <2>1
  <2>3. Matches(Config[k], addr)
    BY <1>6, <1>9, <2>2
  <2>4. \/ Config[k].plen < Config[b].plen
        \/ Config[k].plen = Config[b].plen /\ b <= k
    BY <1>2, <2>3 DEF IsBestUpTo
  <2>5. Config[k].plen = Servers[j].plen /\ Config[b].plen = Servers[i].plen
    BY <1>5, <1>7, <2>2
  <2>6. b <= k => i <= j
    <3>1. i \in Int /\ j \in Int
      BY <1>3, <1>7
    <3>2. CASE b = k
      BY <2>1, <3>1, <3>2
    <3>3. CASE b < k
      BY <1>3, <1>4, <2>1, <3>1, <3>3
    <3> QED BY <1>3, <3>2, <3>3
  <2> HIDE DEF i
  <2> QED
    BY <2>4, <2>5, <2>6
<1> HIDE DEF i
<1> QED
  BY <1>7, <1>8, <1>9

\* Every step keeps the choice right.
LEMMA ChosenStep == RouteTyped /\ CarryInv /\ ChosenInv /\ [Next]_vars => ChosenInv'
<1> SUFFICES ASSUME RouteTyped, CarryInv, ChosenInv, [Next]_vars PROVE ChosenInv'
  OBVIOUS
<1>0. call \in Calls
  BY DEF RouteTyped
<1>1. CASE Refused("server") \/ Refused("gateway")
  <2>1. UNCHANGED <<call, srv, ips, dest>> /\ pos' \in {"ignored", "cleared"}
    BY <1>1 DEF Refused, RouteUnchanged
  <2> QED
    BY <2>1, ChosenKept
<1>2. CASE ServerRoutes
  <2>1. UNCHANGED <<call, srv, ips, dest>> /\ pos' \in {"delivered", "gateway", "cleared"}
    BY <1>2 DEF ServerRoutes, ServerStep, RouteUnchanged
  <2> QED
    BY <2>1, ChosenKept
<1>3. CASE TunRoutes
  <2>1. UNCHANGED <<call, srv, ips, dest>> /\ pos' \in {"gateway", "cleared"}
    BY <1>3 DEF TunRoutes, RouteUnchanged
  <2> QED
    BY <2>1, ChosenKept
<1>4. CASE GatewayRoutes
  <2>1. Len(data) >= 3 /\ Request.ok /\ UNCHANGED call
    BY <1>4 DEF GatewayRoutes, Accepted, RouteUnchanged
  <2>2. Request.called = call.called
    BY <1>0, <2>1, CarriedCall
  <2>3. PICK r \in Routes("xot-gateway", FALSE) :
           /\ pos' = IF r.srv = 0 \/ r.local THEN "cleared" ELSE "inject"
           /\ srv' = r.srv
    BY <1>4 DEF GatewayRoutes
  <2>4. r.srv = Best(Config, call.called)
    BY <2>2, <2>3, RouteReturns DEF Process
  <2> QED
    BY <2>1, <2>3, <2>4 DEF ChosenInv, SentWhereRouted
<1>5. CASE Inject
  <2>1. UNCHANGED <<call, srv, ips, dest>> /\ pos = "inject" /\ pos' = "resolve"
    BY <1>5 DEF Inject, RouteUnchanged
  <2> QED
    BY <2>1, ChosenKept
<1>6. CASE Resolve
  <2> DEFINE s == Config[srv]
             addr == Request.called
             c == cache["xot-gateway"]
  <2>1. PICK r \in Resolutions(s, addr, c, zone) :
           /\ pos' = IF r.ips = <<>> THEN "cleared" ELSE "dial"
           /\ ips' = r.ips
    BY <1>6 DEF Resolve
  <2>2. c \in Answers \union {<<>>} /\ zone \in Answers
    BY DEF RouteTyped, Process
  <2> HIDE DEF s, addr, c
  <2>3. \/ s.ip # NoIP /\ r.ips = <<s.ip>>
        \/ s.ip = NoIP /\ r.ips \in Answers \union {<<>>}
    BY <2>1, <2>2, ResolutionCases
  <2>4. UNCHANGED <<call, srv>> /\ pos = "resolve"
    BY <1>6 DEF Resolve
  <2> QED
    BY <2>1, <2>3, <2>4 DEF ChosenInv, SentWhereRouted, s
<1>7. CASE Dial
  <2>1. UNCHANGED <<call, srv, ips>> /\ pos = "dial"
    BY <1>7 DEF Dial
  <2>2. CASE pos' # "sent"
    <3>1. UNCHANGED dest /\ pos' \in {"dial", "server", "cleared"}
      BY <1>7, <2>2 DEF Dial
    <3> QED
      BY <2>1, <3>1, ChosenKept
  <2>3. CASE pos' = "sent"
    <3>1. tried # Len(ips) /\ dest' = DialAddr(Config[srv], ips[tried + 1])
      BY <1>7, <2>1, <2>3 DEF Dial
    <3>2. ips \in Seq(STRING) /\ tried + 1 \in 1..Len(ips)
      <4>1. ips \in Seq(STRING) /\ tried \in 0..Len(ips)
        BY AddressListsAreLists DEF RouteTyped
      <4> QED BY <3>1, <4>1
    <3>3. ips[tried + 1] \in Range(ips)
      BY <3>2 DEF Range
    <3>4. srv # 0 /\ srv = Best(Config, call.called)
      BY <2>1 DEF ChosenInv
    <3>5. PICK i \in DOMAIN Servers :
              /\ Config[srv] = WithDefaults(Servers[i])
              /\ Usable(Servers[i]) /\ Matches(Servers[i], call.called)
              /\ \A j \in DOMAIN Servers : Usable(Servers[j]) /\ Matches(Servers[j], call.called) =>
                    \/ Servers[j].plen < Servers[i].plen
                    \/ Servers[j].plen = Servers[i].plen /\ i <= j
      BY <3>4, ChosenIsRouted
    <3>6. Config[srv].via = Servers[i].via /\ Config[srv].ip = Servers[i].ip
      <4>1. Servers[i] \in ServerEntry
        BY ServersAssumption
      <4> QED BY <3>5, <4>1 DEF WithDefaults, ServerEntry
    <3>7. CASE Servers[i].via # NoIP
      <4>1. dest' = Servers[i].via
        BY <3>1, <3>6, <3>7 DEF DialAddr
      <4> QED
        BY <2>1, <2>3, <3>5, <3>7, <4>1 DEF ChosenInv, SentWhereRouted
    <3>8. CASE Servers[i].via = NoIP
      <4>1. dest' = ips[tried + 1]
        BY <3>1, <3>6, <3>8 DEF DialAddr
      <4>2. CASE Config[srv].ip # NoIP /\ ips = <<Config[srv].ip>>
        <5>1. tried + 1 = 1
          BY <3>2, <4>2
        <5>2. dest' = Servers[i].ip /\ Servers[i].ip # NoIP
          BY <3>6, <4>1, <4>2, <5>1
        <5> QED
          BY <2>1, <2>3, <3>5, <3>8, <5>2 DEF ChosenInv, SentWhereRouted
      <4>3. CASE Config[srv].ip = NoIP /\ ips \in Answers \union {<<>>}
        <5>1. ips \in Answers
          <6>1. ips # <<>>
            BY <3>2
          <6> QED BY <4>3, <6>1
        <5>2. \E a \in Answers : dest' \in Range(a)
          BY <3>3, <4>1, <5>1
        <5>3. Servers[i].name
          <6>1. Servers[i].ip = NoIP /\ Usable(Servers[i])
            BY <3>5, <3>6, <4>3
          <6>2. HasDNS(Servers[i]) \in BOOLEAN
            <7>1. Servers[i] \in ServerEntry
              BY ServersAssumption
            <7> QED BY <7>1 DEF ServerEntry, HasDNS
          <6>3. HasDNS(Servers[i])
            BY <6>1, <6>2, Zenon DEF Usable
          <6> QED BY <6>1, <6>3 DEF Usable
        <5> QED
          BY <2>1, <2>3, <3>5, <3>8, <5>2, <5>3 DEF ChosenInv, SentWhereRouted
      <4> QED
        BY <2>1, <4>2, <4>3 DEF ChosenInv
    <3> QED
      BY <3>7, <3>8
  <2> QED
    BY <2>2, <2>3
<1>8. CASE ZoneChanges \/ (\E p \in Process : Expire(p)) \/ UNCHANGED vars
  <2>1. UNCHANGED <<call, srv, ips, dest>> /\ pos' = pos
    BY <1>8 DEF ZoneChanges, Expire, RouteUnchanged, vars
  <2> QED
    BY <2>1, ChosenKept
<1> QED
  BY <1>1, <1>2, <1>3, <1>4, <1>5, <1>6, <1>7, <1>8 DEF Next

(***************************************************************************)
(* For every configuration, however large, and every call: a call is sent  *)
(* to a host of the first usable entry with the longest prefix of the      *)
(* address called (Reload and GetServer of src/config.go, and xot-gateway, *)
(* which routes by the address it decodes from the packet).                *)
(***************************************************************************)
THEOREM SentByLongestPrefix == Spec => []SentWhereRouted
<1>1. Init => ChosenInv
  BY InitChosen
<1>2. RouteTyped /\ CarryInv /\ ChosenInv /\ [Next]_vars => ChosenInv'
  BY ChosenStep
<1>3. ChosenInv => SentWhereRouted
  BY DEF ChosenInv
<1> QED
  BY <1>1, <1>2, <1>3, CarryAlways, PTL DEF Spec

-----------------------------------------------------------------------------
(***************************************************************************)
(* Calls that come back.                                                   *)
(***************************************************************************)
\* What xot-gateway has seen of the server it goes to.
SeenInv ==
    pos \in {"inject", "resolve", "dial"} => Here \notin Range(seen) \/ "gateway" \in blind

\* GetServer lets xot-gateway go on only if its host is not among the addresses,
\* or not recognised there.
LEMMA SeenStep == RouteTyped /\ SeenInv /\ [Next]_vars => SeenInv'
<1> SUFFICES ASSUME RouteTyped, SeenInv, [Next]_vars PROVE SeenInv'
  OBVIOUS
<1>1. CASE GatewayRoutes
  <2>1. PICK r \in Routes("xot-gateway", FALSE) :
           /\ pos' = IF r.srv = 0 \/ r.local THEN "cleared" ELSE "inject"
           /\ seen' = r.ips
           /\ blind' = (blind \ {"gateway"}) \union (IF r.blind THEN {"gateway"} ELSE {})
    BY <1>1 DEF GatewayRoutes
  <2>2. r.local = Local(r.ips, FALSE, r.blind)
    BY <2>1, RouteReturns DEF Process
  <2>3. r.ips = <<>> => Here \notin Range(r.ips)
    BY DEF Range
  <2>4. CASE r.blind
    BY <2>1, <2>4 DEF SeenInv
  <2>5. CASE ~r.blind
    BY <2>1, <2>2, <2>3, <2>5 DEF SeenInv, Local
  <2> QED
    BY <2>4, <2>5
<1>2. CASE ServerRoutes
  <2>1. pos' \in {"delivered", "gateway", "cleared"}
    BY <1>2 DEF ServerRoutes, ServerStep
  <2> QED
    BY <2>1 DEF SeenInv
<1>3. CASE TunRoutes
  <2>1. pos' \in {"gateway", "cleared"}
    BY <1>3 DEF TunRoutes
  <2> QED
    BY <2>1 DEF SeenInv
<1>4. CASE Refused("server") \/ Refused("gateway")
  BY <1>4 DEF Refused, SeenInv
<1>5. CASE Inject \/ Resolve
  BY <1>5 DEF Inject, Resolve, SeenInv
<1>6. CASE Dial
  <2>1. pos = "dial" /\ UNCHANGED <<seen, blind>>
    BY <1>6 DEF Dial
  <2> QED
    BY <2>1 DEF SeenInv
<1>7. CASE ZoneChanges \/ (\E p \in Process : Expire(p)) \/ UNCHANGED vars
  BY <1>7 DEF ZoneChanges, Expire, vars, SeenInv
<1> QED
  BY <1>1, <1>2, <1>3, <1>4, <1>5, <1>6, <1>7 DEF Next

\* Only Dial sends a call anywhere, and to an address resolved if the entry
\* names no host of its own.
LEMMA SelfDialAddress ==
    ASSUME RouteTyped, [Next]_vars, DialsBack
    PROVE  /\ Dial /\ pos = "dial" /\ UNCHANGED <<ips, seen, blind>>
           /\ ips[tried'] = Here /\ Here \in Range(ips)
<1>1. hops' # hops
  BY DEF DialsBack, RouteTyped
<1>2. Dial
  BY <1>1 DEF Next, vars, Refused, ServerRoutes, ServerStep, TunRoutes, GatewayRoutes, Inject,
              Resolve, ZoneChanges, Expire, RouteUnchanged
<1>3. /\ pos = "dial" /\ tried # Len(ips) /\ tried' = tried + 1
      /\ DialAddr(Config[srv], ips[tried + 1]) \in Own
      /\ UNCHANGED <<ips, seen, blind, srv>>
  BY <1>1, <1>2 DEF Dial
<1>4. ips[tried'] = Here
  BY <1>3 DEF DialsBack, DialAddr, Own
<1>5. tried' \in DOMAIN ips
  <2>1. ips \in Seq(STRING) /\ tried \in 0..Len(ips)
    BY AddressListsAreLists DEF RouteTyped
  <2> QED BY <1>3, <2>1
<1> QED
  BY <1>2, <1>3, <1>4, <1>5 DEF Range

(***************************************************************************)
(* xot-gateway dials an address of a local interface only when that        *)
(* address is not among those GetServer of src/config.go has looked at, or *)
(* when it could not list the interfaces there; for every configuration,   *)
(* with the exceptions of SelfDialNeedsChange: a host in "port", which     *)
(* AddrSpec.DialAddr of src/addr.go puts in place of the addresses, and    *)
(* addresses of this host that are on no interface.                        *)
(***************************************************************************)
THEOREM SelfDialOnlyAfterChange == Spec => SelfDialNeedsChange
<1>1. Init => SeenInv
  BY DEF Init, SeenInv
<1>2. RouteTyped /\ SeenInv /\ [Next]_vars => SeenInv'
  BY SeenStep
<1>3. RouteTyped /\ SeenInv /\ [Next]_vars =>
         [DialsBack => ips[tried'] \notin Range(seen) \/ "gateway" \in blind]_vars
  <2> SUFFICES ASSUME RouteTyped, SeenInv, [Next]_vars, DialsBack
               PROVE  ips[tried'] \notin Range(seen) \/ "gateway" \in blind
    OBVIOUS
  <2>1. pos = "dial" /\ ips[tried'] = Here
    BY SelfDialAddress
  <2> QED
    BY <2>1 DEF SeenInv
<1> QED
  BY <1>1, <1>2, <1>3, CarryAlways, PTL DEF Spec, SelfDialNeedsChange

\* Entry b leads away from this host, as long as the DNS says what it says now.
LeadsAway(b) == IF Config[b].ip # NoIP THEN Config[b].ip # Here ELSE Here \notin Range(zone)

\* While the DNS has not changed: every cache agrees with it, and the relay that
\* let the call go on had resolved the server to other hosts, or saw that badly.
SteadyInv ==
    changes = 0 =>
        /\ \A p \in Process : cache[p] \in {<<>>, zone}
        /\ pos = "gateway" =>
              /\ Best(Config, Request.called) # 0
              /\ "relay" \in blind \/ LeadsAway(Best(Config, Request.called))
        /\ pos \in {"inject", "resolve"} => "relay" \in blind \/ LeadsAway(srv)
        /\ pos = "dial" => "relay" \in blind \/ Here \notin Range(ips)

\* SteadyInv holds at the start,
LEMMA InitSteady == Init => SteadyInv
BY DEF Init, SteadyInv

\* A resolution of an entry while the caches agree with the DNS.
LEMMA SteadyResolution ==
    ASSUME NEW i \in 1..Len(Config), NEW addr, NEW cached \in {<<>>, zone},
           NEW r \in Resolutions(Config[i], addr, cached, zone)
    PROVE  /\ r.cached \in {<<>>, zone}
           /\ LeadsAway(i) => Here \notin Range(r.ips)
           /\ r.ips # <<>> /\ Here \notin Range(r.ips) => LeadsAway(i)
<1> DEFINE s == Config[i]
<1>1. \/ s.ip # NoIP /\ r.ips = <<s.ip>> /\ r.cached = cached
      \/ /\ s.ip = NoIP
         /\ r.ips \in {<<>>, cached, zone}
         /\ r.cached \in {<<>>, cached, zone}
  BY ResolutionCases
<1>2. \A x : Range(<<x>>) = {x}
  BY DEF Range
<1>3. Range(<<>>) = {}
  BY DEF Range
<1> QED
  BY <1>1, <1>2, <1>3 DEF LeadsAway

\* A routing decision while the caches agree with the DNS.
LEMMA SteadyRoute ==
    ASSUME RouteTyped, NEW p \in Process, cache[p] \in {<<>>, zone}, NEW d \in BOOLEAN,
           NEW r \in Routes(p, d)
    PROVE  /\ r.srv = Best(Config, Request.called)
           /\ r.cached \in {<<>>, zone}
           /\ r.srv # 0 /\ LeadsAway(r.srv) => Here \notin Range(r.ips)
           /\ r.blind \in BOOLEAN
           /\ d /\ r.srv # 0 /\ ~r.local /\ ~r.blind => LeadsAway(r.srv)
<1> DEFINE best == Best(Config, Request.called)
           addr == Request.called
<1>1. best \in 0..Len(Config) /\ Len(Config) \in Nat
  BY BestInConfig, ConfigEntries
<1>2. CASE best = 0
  <2>1. r = [srv |-> 0, local |-> d, ips |-> <<>>, blind |-> FALSE, cached |-> cache[p]]
    BY <1>2, RouteCases, Zenon
  <2> QED
    BY <1>2, <2>1
<1>3. CASE best # 0
  <2>1. PICK q \in Resolutions(Config[best], addr, cache[p], zone), b \in BOOLEAN :
            r = [srv |-> best, local |-> Local(q.ips, d, b), ips |-> q.ips,
                 blind |-> b, cached |-> q.cached]
    BY <1>3, RouteCases
  <2>2. best \in 1..Len(Config)
    BY <1>1, <1>3
  <2> HIDE DEF best, addr
  <2>3. /\ q.cached \in {<<>>, zone}
        /\ LeadsAway(best) => Here \notin Range(q.ips)
        /\ q.ips # <<>> /\ Here \notin Range(q.ips) => LeadsAway(best)
    BY <2>1, <2>2, SteadyResolution
  <2>4. /\ r.srv = best /\ r.cached = q.cached /\ r.ips = q.ips
        /\ r.blind \in BOOLEAN /\ r.local = Local(q.ips, d, r.blind)
    BY <2>1
  <2>5. d /\ ~r.local /\ ~r.blind => q.ips # <<>> /\ Here \notin Range(q.ips)
    BY <2>4 DEF Local
  <2> QED
    BY <2>3, <2>4, <2>5 DEF best
<1> QED
  BY <1>2, <1>3

\* and every step keeps it.
LEMMA SteadyStep == RouteTyped /\ CarryInv /\ SteadyInv /\ [Next]_vars => SteadyInv'
<1> SUFFICES ASSUME RouteTyped, CarryInv, SteadyInv, [Next]_vars, changes' = 0
             PROVE  SteadyInv'
  BY DEF SteadyInv
<1>0. changes = 0
  <2>1. CASE ZoneChanges
    BY <2>1, BoundAssumption DEF ZoneChanges, RouteTyped
  <2>2. CASE ~ZoneChanges
    BY <2>2 DEF Next, vars, Refused, ServerRoutes, ServerStep, TunRoutes, GatewayRoutes, Inject,
                Resolve, Dial, Expire, RouteUnchanged
  <2> QED BY <2>1, <2>2
<1>a. \A p \in Process : cache[p] \in {<<>>, zone}
  BY <1>0 DEF SteadyInv
<1>b. cache \in [Process -> Answers \union {<<>>}]
  BY DEF RouteTyped
<1>1. CASE Refused("server") \/ Refused("gateway")
  BY <1>0, <1>1 DEF Refused, RouteUnchanged, SteadyInv
<1>2. CASE ServerRoutes
  <2>1. PICK r \in Routes("xot-server", TRUE) :
           /\ \/ pos' = "delivered"
              \/ ~r.local /\ r.srv # 0 /\ pos' = "gateway"
              \/ pos' = "cleared"
           /\ blind' = IF r.blind THEN {"relay"} ELSE {}
           /\ cache' = [cache EXCEPT !["xot-server"] = r.cached]
    BY <1>2 DEF ServerRoutes, ServerStep
  <2>2. /\ r.srv = Best(Config, Request.called) /\ r.cached \in {<<>>, zone}
        /\ r.srv # 0 /\ ~r.local /\ ~r.blind => LeadsAway(r.srv)
    BY <1>a, <2>1, SteadyRoute DEF Process
  <2>3. UNCHANGED <<data, zone, changes>>
    BY <1>2 DEF ServerRoutes, ServerStep, RouteUnchanged
  <2>4. \A p \in Process : cache'[p] \in {<<>>, zone}
    BY <1>a, <1>b, <2>1, <2>2
  <2>5. pos' = "gateway" =>
           /\ Best(Config, Request.called) # 0
           /\ "relay" \in blind' \/ LeadsAway(Best(Config, Request.called))
    BY <2>1, <2>2
  <2> QED
    BY <1>a, <2>1, <2>3, <2>4, <2>5 DEF SteadyInv, Request, LeadsAway
<1>3. CASE TunRoutes
  <2>1. PICK r \in Routes("tun-gateway", TRUE) :
           /\ \/ ~r.local /\ r.srv # 0 /\ pos' = "gateway" /\ data' = Serialize(ParseX25(data))
              \/ pos' = "cleared" /\ data' = data
           /\ blind' = IF r.blind THEN {"relay"} ELSE {}
           /\ cache' = [cache EXCEPT !["tun-gateway"] = r.cached]
    BY <1>3 DEF TunRoutes
  <2>2. /\ r.srv = Best(Config, Request.called) /\ r.cached \in {<<>>, zone}
        /\ r.srv # 0 /\ ~r.local /\ ~r.blind => LeadsAway(r.srv)
    BY <1>a, <2>1, SteadyRoute DEF Process
  <2>3. UNCHANGED <<data, zone, changes>>
    <3>1. Len(data) >= 3 /\ data \in Seq(Octets)
      BY <1>3 DEF TunRoutes, CarryInv, Carries, StartOf
    <3>2. Serialize(ParseX25(data)) = data
      BY <3>1, HeaderRoundTrip
    <3> QED
      BY <1>3, <2>1, <3>2 DEF TunRoutes, RouteUnchanged
  <2>4. \A p \in Process : cache'[p] \in {<<>>, zone}
    BY <1>a, <1>b, <2>1, <2>2
  <2>5. pos' = "gateway" =>
           /\ Best(Config, Request.called) # 0
           /\ "relay" \in blind' \/ LeadsAway(Best(Config, Request.called))
    BY <2>1, <2>2
  <2> QED
    BY <1>a, <2>1, <2>3, <2>4, <2>5 DEF SteadyInv, Request, LeadsAway
<1>4. CASE GatewayRoutes
  <2>1. PICK r \in Routes("xot-gateway", FALSE) :
           /\ pos' = IF r.srv = 0 \/ r.local THEN "cleared" ELSE "inject"
           /\ srv' = r.srv
           /\ blind' = (blind \ {"gateway"}) \union (IF r.blind THEN {"gateway"} ELSE {})
           /\ cache' = [cache EXCEPT !["xot-gateway"] = r.cached]
    BY <1>4 DEF GatewayRoutes
  <2>2. r.srv = Best(Config, Request.called) /\ r.cached \in {<<>>, zone}
    BY <1>a, <2>1, SteadyRoute DEF Process
  <2>3. "relay" \in blind \/ LeadsAway(Best(Config, Request.called))
    BY <1>0, <1>4 DEF SteadyInv, GatewayRoutes, Accepted
  <2>4. \A p \in Process : cache'[p] \in {<<>>, zone}
    BY <1>a, <1>b, <2>1, <2>2
  <2>5. UNCHANGED zone /\ ("relay" \in blind => "relay" \in blind')
    BY <1>4, <2>1 DEF GatewayRoutes, RouteUnchanged
  <2> QED
    BY <1>a, <2>1, <2>2, <2>3, <2>4, <2>5 DEF SteadyInv, LeadsAway
<1>5. CASE Inject
  BY <1>0, <1>5 DEF Inject, RouteUnchanged, SteadyInv, LeadsAway
<1>6. CASE Resolve
  <2>1. PICK r \in Resolutions(Config[srv], Request.called, cache["xot-gateway"], zone) :
           /\ pos' = IF r.ips = <<>> THEN "cleared" ELSE "dial"
           /\ ips' = r.ips
           /\ cache' = [cache EXCEPT !["xot-gateway"] = r.cached]
    BY <1>6 DEF Resolve
  <2>2. srv \in 1..Len(Config) /\ ("relay" \in blind \/ LeadsAway(srv))
    BY <1>0, <1>6, ConfigEntries DEF Resolve, RouteTyped, SteadyInv
  <2>3. r.cached \in {<<>>, zone} /\ (LeadsAway(srv) => Here \notin Range(r.ips))
    BY <1>a, <2>1, <2>2, SteadyResolution DEF Process
  <2>4. \A p \in Process : cache'[p] \in {<<>>, zone}
    BY <1>a, <1>b, <2>1, <2>3
  <2>5. UNCHANGED <<zone, blind>>
    BY <1>6 DEF Resolve
  <2> QED
    BY <1>a, <2>1, <2>2, <2>3, <2>4, <2>5 DEF SteadyInv
<1>7. CASE Dial
  <2>1. pos = "dial" /\ pos' \in {"dial", "server", "sent", "cleared"}
        /\ UNCHANGED <<ips, zone, cache, blind>>
    BY <1>7 DEF Dial
  <2> QED
    BY <1>0, <2>1 DEF SteadyInv
<1>8. CASE ZoneChanges
  BY <1>0, <1>8, BoundAssumption DEF ZoneChanges
<1>9. CASE \E p \in Process : Expire(p)
  <2>1. PICK p \in Process : cache' = [cache EXCEPT ![p] = <<>>]
    BY <1>9 DEF Expire
  <2>2. \A x \in Process : cache'[x] \in {<<>>, zone}
    BY <1>a, <1>b, <2>1
  <2>3. UNCHANGED <<data, srv, pos, ips, zone, changes, blind>>
    BY <1>9 DEF Expire, RouteUnchanged
  <2> QED
    BY <1>0, <2>2, <2>3 DEF SteadyInv, LeadsAway, Request
<1>10. CASE UNCHANGED vars
  BY <1>0, <1>10 DEF vars, SteadyInv, LeadsAway, Request
<1> QED
  BY <1>1, <1>2, <1>3, <1>4, <1>5, <1>6, <1>7, <1>8, <1>9, <1>10 DEF Next

(***************************************************************************)
(* While the DNS keeps its answers, a call is dialled back to an address   *)
(* of a local interface only if the relay before xot-gateway could not     *)
(* list the interfaces, for every configuration, whichever processes fail  *)
(* to reach the DNS and whenever cache entries expire                      *)
(* (ResolveXotDestination of src/dns.go, GetServer of src/config.go with   *)
(* the defaults of the three callers); with the same exceptions.           *)
(***************************************************************************)
THEOREM NoLoopWithSteadyDNS == Spec => SteadyDNSNoLoop
<1>1. Init => SteadyInv
  BY InitSteady
<1>2. RouteTyped /\ CarryInv /\ SteadyInv /\ [Next]_vars => SteadyInv'
  BY SteadyStep
<1>3. RouteTyped /\ SteadyInv /\ [Next]_vars =>
         [changes = 0 /\ DialsBack => "relay" \in blind]_vars
  <2> SUFFICES ASSUME RouteTyped, SteadyInv, [Next]_vars, changes = 0, DialsBack
               PROVE  "relay" \in blind
    OBVIOUS
  <2>1. pos = "dial" /\ Here \in Range(ips)
    BY SelfDialAddress
  <2> QED
    BY <2>1 DEF SteadyInv
<1> QED
  BY <1>1, <1>2, <1>3, CarryAlways, PTL DEF Spec, SteadyDNSNoLoop
=============================================================================
