---------------------------- MODULE CircuitTable ----------------------------
(***************************************************************************)
(* What the session table promises to the goroutines of tun-gateway: a     *)
(* one-to-one correspondence between the TUN-side channels in use and the  *)
(* circuits of the XOT side.  A channel is bound to a circuit, released,   *)
(* or everything is released at once; a channel in use is never bound to   *)
(* another circuit, and a circuit never has two channels.                  *)
(***************************************************************************)
CONSTANTS Channel,   \* TUN-side channels
          Circuit,   \* XOT-side circuits: connection and channel
          Unbound

VARIABLE circuitOf   \* the circuit each channel carries

TableInit == circuitOf = [l \in Channel |-> Unbound]

Bind(l, k) == /\ circuitOf[l] = Unbound
              /\ \A m \in Channel : circuitOf[m] # k
              /\ circuitOf' = [circuitOf EXCEPT ![l] = k]

Release(l) == /\ circuitOf[l] # Unbound
              /\ circuitOf' = [circuitOf EXCEPT ![l] = Unbound]

ReleaseAll == circuitOf' = [l \in Channel |-> Unbound]

TableNext == \/ \E l \in Channel, k \in Circuit : Bind(l, k)
             \/ \E l \in Channel : Release(l)
             \/ ReleaseAll

TableSpec == TableInit /\ [][TableNext]_circuitOf
=============================================================================
