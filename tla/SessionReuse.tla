---------------------------- MODULE SessionReuse ----------------------------
(***************************************************************************)
(* How soon the allocator hands a TUN-side channel out again.  A history   *)
(* variable watches what AllocateAndAddTunSession does for careful callers.*)
(***************************************************************************)
EXTENDS SessionClients

VARIABLE lastAllocated  \* the channel of the last allocation, in a set

\* The allocator's sessions start in p1, those callers build in p2.
AllocatedNow == {l \in LCI : /\ byALCI[l] = NoSession /\ byALCI'[l] # NoSession
                             /\ heap'[byALCI'[l]].State = StateP1}

reuseVars == <<vars, lastAllocated>>

ReuseInit == Init /\ lastAllocated = {}

ReuseNext == /\ CarefulNext
             /\ lastAllocated' = IF AllocatedNow = {} THEN lastAllocated ELSE AllocatedNow

ReuseSpec == ReuseInit /\ [][ReuseNext]_reuseVars

\* Every channel of the range other than l carries a session.
OnlyChoice(l) == \A m \in TunRange \ {l} : byALCI[m] # NoSession

(***************************************************************************)
(* Round robin: two allocations in a row never yield the same channel      *)
(* while another channel of the range is free, whatever is removed, or     *)
(* added by other callers, in between: a peer that is late to clear its    *)
(* call is not met by the next call on the same channel.                   *)
(***************************************************************************)
RoundRobin ==
    [][\A l \in AllocatedNow : l \in lastAllocated => OnlyChoice(l)]_reuseVars
=============================================================================
