------------------------------ MODULE X25Codec ------------------------------
(***************************************************************************)
(* src/x25.go: X.25 packets as sequences of octets, and CALL_REQ packets   *)
(* with their addresses, facilities and user data.                         *)
(*                                                                         *)
(* An octet is two half-octets of Nibble values each (16 in the code); a   *)
(* smaller Nibble keeps the layout and brings the limits of the length     *)
(* octets within reach.  An address digit fills a half-octet.  The two top *)
(* bits of a facility code are its class.                                  *)
(***************************************************************************)
EXTENDS Integers, SequencesExt

CONSTANTS Nibble,              \* values of a half-octet
          PktTypeCallRequest,
          MaxCallRequestSize   \* in octets, header included

Octet == Nibble * Nibble
Octets == 0 .. Octet - 1
Digits == 0 .. Nibble - 1
ASSUME NibbleAssumption == /\ Nibble \in Nat /\ Nibble > 1 /\ Nibble % 2 = 0
                           /\ PktTypeCallRequest \in Octets

-----------------------------------------------------------------------------
\* The three header octets.
ParseX25(data) == [GFI |-> data[1] \div Nibble,
                   LCI |-> (data[1] % Nibble) * Octet + data[2],
                   Type |-> data[3],
                   Payload |-> SubSeq(data, 4, Len(data))]

Serialize(pkt) == <<pkt.GFI * Nibble + ((pkt.LCI \div Octet) % Nibble),
                    pkt.LCI % Octet, pkt.Type>> \o pkt.Payload

\* ValidateSize of a CALL_REQ.
ValidSize(data) == Len(data) <= MaxCallRequestSize

-----------------------------------------------------------------------------
AddrOctets(digits) == (digits + 1) \div 2

\* Both addresses, half-octet after half-octet, filled up with a zero.
PackDigits(ds) ==
    [i \in 1 .. AddrOctets(Len(ds)) |->
        ds[2*i - 1] * Nibble + IF 2*i <= Len(ds) THEN ds[2*i] ELSE 0]

\* Mutant: the second address starts at an octet of its own.
DecodeAligned(octets, length, start) ==
    [k \in 1 .. length |->
        LET n == 2 * AddrOctets(start) + k - 1
            o == IF n \div 2 + 1 \in DOMAIN octets THEN octets[n \div 2 + 1] ELSE 0
        IN  IF n % 2 = 0 THEN o \div Nibble ELSE o % Nibble]

\* length digits, after the first start half-octets.
Decode(octets, length, start) ==
    [k \in 1 .. length |->
        LET n == start + k - 1
            o == octets[n \div 2 + 1]
        IN  IF n % 2 = 0 THEN o \div Nibble ELSE o % Nibble]

Malformed == [ok |-> FALSE]

\* ParseCallRequest.  A payload may end after the addresses.
ParseCallRequest(payload) ==
    LET callingLen == payload[1] \div Nibble
        calledLen == payload[1] % Nibble
        addrs == AddrOctets(calledLen + callingLen)
        addrData == SubSeq(payload, 2, 1 + addrs)
        facAt == 2 + addrs
        facEnd == facAt + payload[facAt]
        parsed(fac, userData) == [ok |-> TRUE,
                                  called |-> Decode(addrData, calledLen, 0),
                                  calling |-> Decode(addrData, callingLen, calledLen),
                                  facilities |-> fac, userData |-> userData]
    IN  IF payload = <<>> \/ Len(payload) < 1 + addrs THEN Malformed
        ELSE IF Len(payload) < facAt THEN parsed(<<>>, <<>>)
        ELSE IF Len(payload) < facEnd THEN Malformed
        ELSE parsed(SubSeq(payload, facAt + 1, facEnd),
                    SubSeq(payload, facEnd + 1, Len(payload)))

\* Mutant: the length of the facilities may exceed an octet.
CallPayloadWide(called, calling, fac, userData) ==
    <<Len(calling) * Nibble + Len(called)>>
       \o PackDigits(called \o calling)
       \o <<Len(fac)>> \o fac \o userData

\* The payload of a CALL_REQ; lengths that do not fit lose their top bits.
CallPayload(called, calling, fac, userData) ==
    <<(Len(calling) * Nibble + (Len(called) % Nibble)) % Octet>>
       \o PackDigits(called \o calling)
       \o <<Len(fac) % Octet>> \o fac \o userData

-----------------------------------------------------------------------------
Class(code) == code \div (Octet \div 4)

\* Where the value of the facility at position i starts, and its length.
ValueAt(fac, i) == IF Class(fac[i]) = 3 THEN i + 2 ELSE i + 1
ValueLen(fac, i) == IF Class(fac[i]) = 3 THEN fac[i + 1] ELSE Class(fac[i]) + 1
Complete(fac, i) == /\ Class(fac[i]) = 3 => i < Len(fac)
                    /\ ValueAt(fac, i) + ValueLen(fac, i) - 1 <= Len(fac)

\* f where it is defined, g elsewhere.
Over(f, g) == [c \in DOMAIN f \union DOMAIN g |-> IF c \in DOMAIN f THEN f[c] ELSE g[c]]

\* The facilities by code: of two with one code the later counts, and the
\* walk ends at one that is not complete.
FacilityMap(fac) ==
    LET from[i \in 1 .. Len(fac) + 1] ==
            IF i > Len(fac) \/ ~Complete(fac, i) THEN [c \in {} |-> <<>>]
            ELSE LET v == ValueAt(fac, i)
                     next == v + ValueLen(fac, i)
                 IN  Over(from[next], [c \in {fac[i]} |-> SubSeq(fac, v, next - 1)])
    IN  from[1]

\* One facility, and all of them in the given order of their codes.
EncodeFacility(code, val) ==
    <<code>> \o (IF Class(code) = 3 THEN <<Len(val) % Octet>> ELSE <<>>) \o val
EncodeFacilities(facs, codes) ==
    FlattenSeq([i \in DOMAIN codes |-> EncodeFacility(codes[i], facs[codes[i]])])

\* Mutant: what the caller asked for takes precedence.
InjectedUnder(payload, newFac) ==
    LET call == ParseCallRequest(payload)
        facs == Over(FacilityMap(call.facilities), newFac)
    IN  {CallPayload(call.called, call.calling, EncodeFacilities(facs, codes), call.userData) :
            codes \in SetToSeqs(DOMAIN facs)}

\* InjectFacilities.  The map is walked in any order.
InjectFacilities(payload, newFac) ==
    LET call == ParseCallRequest(payload)
        facs == Over(newFac, FacilityMap(call.facilities))
    IN  {CallPayload(call.called, call.calling, EncodeFacilities(facs, codes), call.userData) :
            codes \in SetToSeqs(DOMAIN facs)}

\* validateDestinations of src/config.go: a value of the wrong length for
\* its class is ignored.
ValidFacilities(facs) ==
    [c \in {c \in DOMAIN facs : Class(c) # 3 => Len(facs[c]) = Class(c) + 1} |-> facs[c]]
=============================================================================
