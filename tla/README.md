# TLA+ models of goxot

goxot carries X.25 calls over TCP (XOT, RFC 1613). Paths below are relative to
the repository root; line numbers are those of `PROJECT.json`.

## 1. Inventory

```
 remote XOT peer --TCP--> xot-server --unix--> tun-gateway --TUN--> kernel X.25
                               |                    |
                               +------unix----------+----> xot-gateway --TCP--> remote XOT server
                                  kernel X.25 --TUN-- tun-loopback --TUN-- kernel X.25
```

| component | state | operations | what makes it hard |
|---|---|---|---|
| session manager, `src/session.go` | three maps over one set of session objects, a round-robin cursor | add, allocate-and-add, two removals, remove all, lookups | callers keep pointers the maps have forgotten; keys are overwritten silently; one removal compares pointers, the other does not |
| tun-gateway, `src/cmd/tun-gateway/main.go` | the session manager, `linkState`, `shuttingDown`, per-goroutine locals | `handleServerConn`, `handleTunRead`, `forwardToGateway`, `handleGatewayRead`, `cleanupConn`, `closeAllSessions`, signal handler | every goroutine looks a session up, releases the lock, and acts on it later; the kernel may reuse a channel at once |
| kernel link (external) with tun-gateway | link state of the kernel, frames waiting in the device | Connect, Disconnect, RESTART_REQ/CONF, T20 | T20 repeats RESTART_REQ; a second RESTART_CONF restarts the link |
| xot-server, `src/cmd/xot-server/main.go` | per connection: two readers, `relayQuit`, `stop`, `connMu`, `activeConns`, wait groups | accept, call, relay both ways, clear, shut down | blocked writes under a lock, clears that cross, shutdown racing an accept, two writes per packet |
| xot-gateway, `src/cmd/xot-gateway/main.go` | the same, without the lock, plus keepalive state | the same plus the INTERRUPT probe | probe and local interrupts share one kind of confirmation; a dead peer never closes |
| tun-loopback, `src/cmd/tun-loopback/main.go` | link state and cursor per interface, slot table, reservations | call, clear, restart, disconnect | slots are read without the mutex and used later; removal clears slots without looking |
| XOT framing, `src/xot.go` | none | `ReadXot`, `SendXot` | one or two writes, short and oversized packets |
| config manager, `src/config.go` | the current configuration and the time of its file | reload, lookups | any goroutine reloads it, in four steps of which only the last holds the mutex, while the file changes |
| kernel routes, `SyncRoutes` and `watchConfig` of tun-gateway | `currentRoutes`, an inotify watch | sync at the start and after each event | the configuration can change during a sync; ioctls fail one by one; the watch belongs to the inode |
| routing, `src/config.go`, `src/addr.go`, `src/dns.go` | a DNS cache per process | longest prefix, locality, resolution, dialling | three processes decide about one call at different times, with different answers of the DNS |
| X.25 codec, `src/x25.go` | none | parse and build CALL_REQs, facilities | half-octets, length octets, packets cut short |
| TUN access, statistics, listener, ping, dashboard, stress test | counters | I/O | outside the relay path |

Interactions. The goroutines of tun-gateway meet in the session manager, the
two atomics and the TUN device. xot-server, xot-gateway and tun-gateway talk
over sockets only; nothing in one process depends on more than the packets of
the other, so each is modelled against peers that may send anything, stop
reading, or go away.

`PROJECT.json` lists the hazards line by line. The properties that make the
components correct, in the order of importance:

1. a channel leads to one circuit and back (session manager, tun-gateway,
   tun-loopback);
2. teardown, in whichever order its causes come, leaves nothing behind
   (tun-gateway, xot-server, xot-gateway);
3. teardown happens: no reader, writer or waiter waits for ever (relays);
4. the link to the kernel comes up and both sides agree that it has;
5. what the gateway adds to a circuit (probes, clears) is invisible to, or
   harmless for, calls it does not belong to;
6. a call is sent where the configuration says, with what the caller put into
   it, and does not come back;
7. the configuration in memory and the kernel's routes follow the file.

## 2. Modules

| module | models | extends |
|---|---|---|
| `CircuitTable` | the abstract table: a one-to-one correspondence of channels and circuits | |
| `SessionManager` | `session.go`: maps, cursor, heap of session objects; one action per method | |
| `SessionClients` | the manager under any callers (`Spec`) and under callers that add unclaimed keys only (`CarefulSpec`); refinement of `CircuitTable` | `SessionManager` |
| `SessionReuse` | a history of allocations | `SessionClients` |
| `SessionManagerProofs`, `SessionClientsProofs` | theorems | `SessionManager`; `SessionClients` and `SessionReuse` |
| `TunGateway` | all goroutines of tun-gateway | `SessionManager` |
| `TunLink` | tun-gateway composed with the kernel's link layer | `TunGateway` |
| `XotRelay` | what xot-server and xot-gateway have in common: handler, two readers, waiter, shutdown handler | |
| `XotServer` | `XotRelay` with the lock, and its properties | `XotRelay` |
| `XotGateway` | `XotRelay` with the keepalive goroutine, and its properties | `XotRelay` |
| `TunLoopback` | tun-loopback | |
| `ConfigManager` | `Reload` under any goroutines and changes of the file | |
| `Routing` | operators: the server entries kept, longest prefix, locality, resolution, dial address | |
| `RouteSync` | `SyncRoutes` and `watchConfig`, composed with the configuration file, inotify, the kernel's route table and the TUN reader's reloads | `ConfigManager`, `Routing` |
| `X25Codec` | operators: header, CALL_REQ, addresses, facilities | |
| `CallRouting` | one CALL_REQ through xot-server or tun-gateway, then xot-gateway, with the DNS and its caches | `X25Codec`, `Routing` |
| `TunGatewayProofs`, `XotRelayProofs`, `TunLoopbackProofs` | theorems | `TunLink`; `XotServer` and `XotGateway`; `TunLoopback` |
| `RoutingProofs`, and on it `RouteSyncProofs` and `CallRoutingProofs` | theorems | the module named |
| `MC*` | symmetry and constant definitions for TLC | |

### How state and steps correspond to the code

*Session manager.* A session is a Go pointer, so `heap` maps references to
records and the three maps hold references. Every method holds `sm.mu` from its
first to its last statement and is one action. The identity string keeps the
three components that vary (`ConnA` is always nil). A method that returns an
error without changing anything is not a step of `SessionClients`; tun-gateway
observes the error (`Exhausted`) and has a step for it. `AllocateTunLCI` changes
nothing and is called by tests only. `AddSession` is given an object its caller
has just built, as its only caller does. `Collect` is the garbage collector: it
frees references so that a finite set of them is enough.

*tun-gateway.* `pc` and `loc` hold the position and local variables of each
goroutine, one per connection plus the TUN reader. Every call of the session
manager, load or store of an atomic, and write to the kernel whose timing
matters is a step. A call goes `read -> link -> shutdown -> alloc -> write`;
`cleanupConn` goes `cleanup -> next -> clearTun -> drop`. What a peer or the
kernel sends is unconstrained, except that the kernel's own calls are on
`KernelLCIs`. A read that changes nothing (an unknown channel, say) is not a
step of its own. A data packet of the kernel whose header says Disconnect falls
through to the Disconnect code, as in the source (`TunTail`).

*Kernel link.* `kernelLink` is the kernel's `X25_LINK_STATE_0..3`; its reactions
are those the code and `docs/tech/linux_x25_and_tun.md` rely on. It is marked
external. Frames the gateway writes are handled at once (the TUN driver hands
them to the stack in the write); frames of the kernel wait in `device`.

*Relays.* One connection, since connections share nothing but the shutdown
handler. The handler goes `accepted -> read -> forward -> relay -> close -> wait
-> return -> done`; a reader `read -> (lock ->) write (-> second) -> ...`.
`second` is between the two writes `SendXot` makes for a large packet on TCP.
A packet is a class: `DATA`, `LARGE` (two writes), `CALL_CONN`, `CLR_REQ`,
`CLR_CONF`, `TOO_LONG` (refused by `ReadXot`). After a relay the handler reads
on a connection it has closed, so `CallReadFails` follows. `main` returns when
it finds the listener closed (`MainReturns`), and with it the process.

*xot-gateway.* Interrupts are counted: `outstanding` is what the remote end has
yet to confirm, `owed` what the local end waits for. `idle` says that
`lastActivity` is an interval ago; it becomes true by `TimePasses`.

*tun-loopback.* Table writers hold the mutex for one step; readers load a slot
and act in a later step. `remove` takes a set so that `removeAllForNode` is the
same operator.

*Configuration.* What a file says is one value (`Content`), or `Broken` if it
does not parse; `ServersOf` gives its server list. Parsing, defaults and checks
are the step `ReadFile`; what they keep of the servers is `ValidServers`. A
goroutine in `Reload` goes `stat -> compare -> read -> store`. Every change of
the file has a later modification time.

*Routes.* The watcher is `main` up to the first sync and then the goroutine of
`watchConfig`. `stage` goes `list -> entry <-> lookup -> delete -> add` in
`SyncRoutes` and `watch -> wait -> reload` around it. A sync holds its list of
servers while each `GetServer` may reload. inotify and the route table are
external: `Edit` changes the watched file, `Replace` renames another over it,
after which the watch hears nothing more; the kernel refuses a route it has and
keeps the significant digits only.

*Calls.* `pos` says which process has the call. `Resolutions` gives the outcomes
of `ResolveXotDestination`: a fixed address, the cache, the answer of the DNS, or
an error. Every process has its own cache. The packet is a sequence of octets;
an octet is two half-octets of `Nibble` values (16 in the code, 4 in the run), so
that a length octet overflows at 16 and an address has at most three digits.
Facilities are re-encoded in any order, as Go walks a map. A dialled address of
this host (`Own`) brings the call to xot-server again. `Here` is one of a local
interface; `isLocalIP` recognises it unless it cannot list the interfaces, which
any lookup may find (`Blindness`; `docs/tech/goxot_routing.md` has the failure in
its table). `Alias` is one it never recognises: an address on no interface, such
as 127.0.0.2, or text that `net.ParseIP` does not read. The variable `blind`
remembers which lookups have missed `Here`. The configuration does not change
during the call.

## 3. Runs

| run | asks | bounds | result |
|---|---|---|---|
| `session` | do callers with stale pointers get the abstract table, and round robin? | 3 objects, 2 connections, 3 channels, an invalid channel 0 included, range given as 2..9 and clamped to 2..3 | all six hold |
| `tun_servers` | two server connections, TUN reader and signal handler over two channels | 2 objects, 2 channels | `TypeOK`, `ClosedConnHasNoSession`, `AllocatedChannelsUnique` hold |
| `tun_mixed` | an incoming call and two of the kernel on the one channel of the range, and on one that `AddSession` refuses | 2 objects, 3 connections, channel 1 and the invalid channel 0, no signal | `IndexedIsRegistered`, `FoundByItsConn` hold |
| `tun_link` | T20 repeats RESTART_REQ; calls and terminations wait until the gateway has read the link frames | one connection, device of 3 | `LinkTypeOK`, `SettledViewsAgree`, `NoDuplicateConfirm`, `LinkComesUp` hold |
| `tun_link_stuck` | the same when they do not wait (`Hasty`) | device of 4 | `LinkComesUp` violated |
| `tun_cleanup` | is a cleanup's CLR_REQ only ever for its own session? | 2 connections, 1 channel | `CleanupClearsOwnChannel` violated |
| `xot_server` | does a relay end, release everything, and keep packets whole? | one connection, all packet classes | all six hold |
| `xot_server_grace` | is the grace period granted? | the same | `GraceIsGranted` violated |
| `xot_gateway` | keepalive: invisible, effective, not in the way of teardown? | one local interrupt, clears and CALL_CONN | all five hold |
| `loopback` | do both keys and the reservations stay in step? | 2 interfaces, 2 objects, 2 relay channels, 2 kernel channels | `TypeOK`, `CallsStayWhole`, `ReservedIsInUse` hold |
| `routes` | do memory and kernel follow the file? | 2 contents and a broken file, 2 changes, watcher and one reader | `TypeOK`, `CacheIsSound`, `RoutesAccounted`, `RoutesSettled`, `RoutesSettle` hold |
| `call_routing` | where does a call arrive, and with what? | 13 calls, whole or cut after any octet, 12 server entries, one change of the DNS, two returns to this host | all six hold |

Why these bounds are enough to be interesting. Every race of the session table
is between an old and a new session on the same key, with at most one more that
a stale pointer refers to: three objects and two channels show it in `session`. A
range of two makes the cursor wrap, run out, and come back to a channel just freed.
`session` gives a range beyond `LCIMax` so that the clamping is exercised. Its
callers add unclaimed keys only; callers that add anything are covered by the
proofs and, as far as tun-gateway goes, by `tun_mixed`. There the kernel calls on
the channel the gateway allocates, and on channel 0. So `AddSession` refuses
sessions, takes over a channel that a call from the network has, and one that an
older call of the kernel has whose connection is not yet cleaned up, and either of
the two forwarding goroutines can be the first to add its session. What follows a
signal is cut off in that run (`MCNoShutdown`) and is in `tun_servers`.
In `loopback` two kernel channels let a third call find both relay channels
taken. Two connections are enough for one to take over what the other is cleaning up.
In `xot_gateway` one local interrupt can precede, cross or follow a probe; the
packets that only pass through (`DATA`, `LARGE`, `TOO_LONG`) are covered by
`xot_server`, whose readers are the same. In `routes` one change makes the
reload and the second overtakes it; three changes were tried once and show
nothing else; a second reader was tried too (16 million states). Its two contents
have a local exception to a prefix, an entry whose route is that of another
prefix, a wrong length, a missing length, a name that hides an address, and an
unusable entry. In `call_routing` the
addresses have odd and even numbers of digits, facilities are of classes 0 to 3,
repeated, replaced by configured ones, and in one call too many for the length
octet; one call is too long. An entry has an address of this host in "ip",
one an address `isLocalIP` does not know, and one this host in "port"; an answer of
the DNS has this host alone or second. One change of the DNS is what it takes to
make two processes disagree. The proofs of section 5 have no bounds.

Deadlock is checked for `session` and `tun_link`. The other systems may stop:
the process exits, every connection or the call has ended, or the file is no
longer changed.

Symmetry is used for sets of references, connections and interfaces in runs
that check no liveness.

## 4. Fairness

*`XotRelay`.* A read or write is expected to return only if its connection is
gone (closed here, or the peer left); a peer that stays may be silent or stop
reading for ever. Goroutines that are ready run (`HandlerProgress`,
`ReaderProgress`, `WaiterQuits`), and the shutdown handler proceeds once a
signal came; no signal need come. Sending the clear packet is fair only if the
connection is gone, since that write can block too.

*`XotGateway`.* In addition the ticker fires, time passes, and a probe of a few
bytes does not block. A local end has one interrupt outstanding at a time, which
X.25 requires.

*`TunLink`.* The reader runs, and T20 is armed while the kernel waits for its
RESTART_CONF. That writes to the peers return is assumed there: a peer that
stops reading blocks the reader, and then the link, in the code as well.

*`RouteSync`.* Goroutines inside `Reload`, `SyncRoutes` and `watchConfig` run; a
waiting event is read. No change of the file, no call and no failure need come.

## 5. Proofs

In `SessionClientsProofs`, for every set of objects, connections, channels
and callers, and every range given to `NewSessionManager`:

- `TypeCorrect`: `Spec => []TypeOK`. The hard part is that the cursor stays in
  the clamped range (the bounds of `%` in `SessionManagerProofs`).
- `IndexesRegistered`: `Spec => []IndexedIsRegistered`.
- `NeverRebinds`: `Spec => AllocatorNeverRebinds`.
- `SessionsReachable`: `CarefulSpec => []RegisteredIsReachable`.
- `Refinement`: `CarefulSpec => ImplementsTable`.
- `ReusesLast`: `ReuseSpec => RoundRobin`. What is kept is `CursorPastLast`: the
  cursor stands on the channel after the one allocated last, and only an
  allocation moves it. The allocator probes the range from the cursor on, so it
  comes to the channel allocated last after all others (`LastProbe`), and takes it
  only if those are in use.

`IndexedIsRegistered` is not inductive by itself. `SetState`, `RemoveSession`
and `Collect` work on references the callers hold, so one must know that what a
caller holds is allocated, and that a recycled object is in no map. The
inductive invariant is `TypeOK /\ IndexedIsRegistered /\ HeldIsAllocated`, and
`RegisteredIsReachable` is inductive relative to it for careful callers. It is
what makes the unguarded deletion in `RemoveByBConnLCI` harmless: the entry
deleted is always the session's own. The refinement maps a channel to connection
and channel of the session filed under it: adding and allocating are `Bind`,
each removal is `Release` or a stutter, and `RemoveAllSessions` is `ReleaseAll`.

Assumptions: `LCIAssumption` (a non-empty range of positive channels),
`GFIAssumption`, `NilAssumption` (nil is none of the values), `CallerAssumption`
(what callers pass is of the right type). TLC evaluates all of them.

In `TunGatewayProofs`, for every number of connections, channels and objects and
any length of the device queue:

- `GatewayTypeCorrect`, `GatewayIndexesRegistered`, `ConnFindsItsSessions`,
  `ChannelsUnique`, `ClosedConnIsForgotten`: `TypeOK`, `IndexedIsRegistered`,
  `FoundByItsConn`, `AllocatedChannelsUnique` and `ClosedConnHasNoSession` of
  `Spec`. None is inductive: the goroutines act on objects they looked up
  earlier. `IndInv` therefore adds to the table (`TableInv`) what the label of
  each goroutine promises (`GoroutinesFit`): the objects it holds are allocated, a
  connection has no session before its handler has added one or after it has
  ended, and what `cleanupConn` still has to visit covers all sessions of its
  connection, because nobody else adds one.
- `LinkImplementsGateway`: `LinkSpec => Spec`. What is proved of tun-gateway
  holds of the composition with the kernel. `LinkTypeCorrect` is its `LinkTypeOK`.
- `ViewsAgree` and `NoSecondConfirm`: `SettledViewsAgree` and
  `NoDuplicateConfirm`, if calls and terminations do not overtake the frames of
  the link layer (`~Hasty`, the premise of the run `tun_link`; `tun_link_stuck`
  shows what can happen without it). The invariant is that gateway, kernel and device are
  in one of four phases (`Up`, `Establishing`, `Down`, `Terminating`), with no
  session while repeated RESTART_REQs are waiting.

In `XotRelayProofs`, for every set of packets and either side of the stream, of
xot-server (`ServerSpec`):

- `RelayTypeCorrect`, `DoneLeavesNothing`, `ClearsAreAnswered`: `RelayTypeOK`,
  `NothingLeftBehind`, `ClearIsAnswered`. `RelayInv` says what each label of a
  reader holds, that readers run only while the handler waits for them, and that a
  connection carries one call: without the last the model could read a second
  CALL_REQ from a connection the first call has closed.
- `LockedPacketsStayWhole`: `PacketsStayWhole` where the code has the lock
  (`Locked`): a reader between the two writes of a packet holds `connMu`
  (`LockHeld`). xot-gateway has none, and the property is not claimed there.

and of xot-gateway (`Spec`), for any number of interrupts:

- `GatewayRelayTyped`, `GatewayLeavesNothing`: the relay keeps its types under the
  keepalive goroutine, and a handler that has returned leaves neither readers nor
  connections nor that goroutine. The steps of xot-gateway keep `RelayInv` too,
  also where the keepalive goroutine ends the relay or swallows a confirmation
  between a read and its write; `KeeperWaitedFor` says that the handler waits for
  that goroutine as it does for the readers.
- `ProbeIsInvisible`, `NoConfirmationLost`: `NoUnaskedConfirmation`,
  `ConfirmationsBalance`. The latter speaks of one label of the keepalive
  goroutine only; `Balance` counts, at all labels, a probe that is noted and not
  yet sent as one the remote end will have to confirm.

In `TunLoopbackProofs`, for any interfaces, objects and channels:

- `LoopbackTypeCorrect`: `TypeOK`; `LoopInv` adds that a slot holds a session with
  that end, and that readers hold what their labels say.
- `ReservationsExact`: `ReservedIsInUse`, late undos included; `CallsWhole`:
  `CallsStayWhole`. Both assume that the channels the kernels choose are not in
  the relay range (`RangesDisjoint`). That is a condition on the configuration
  which the code does not check; TLC refutes both properties without it.

In `RoutingProofs`, for every list of server entries:

- `BestIsLongestPrefix`: the loop of `GetServer` returns the first of the longest
  well-formed prefixes that match. `ValidServersAreTheUsable`: the loop of
  `Reload` keeps the usable entries, each once and in order.

In `RouteSyncProofs`, for every number of goroutines and changes of the file,
every configuration and every pattern of failing ioctls:

- `CacheSound`: `ConfigSpec => []CacheIsSound`. The inductive invariant adds that
  no time in memory is later than the file's, and that a goroutine about to store
  under the file's time stores what the file says. It rests on the order of
  `Reload`: the time is taken before the file is read.
- `SyncImplementsConfig`: `Spec => ConfigSpec`. Steps of `RouteSync` are steps of
  `ConfigManager` or leave the configuration alone; `SyncCacheSound` follows.
- `KernelRoutesAccounted`: `Spec => []RoutesAccounted`. A deletion must not take
  the route of another prefix, or one left behind, from the kernel; so the
  inductive invariant says that prefixes in `currentRoutes` have routes of their
  own and none that was left behind.
- `RouteSyncTypeCorrect`: `Spec => []TypeOK`, with no hypothesis on what `Reload`
  loads: `ValidServersAreTheUsable` says what that is.
- `RoutesAreSettled`: `Spec => []RoutesSettled`, the safety part of `RoutesSettle`.
  The inductive invariant `SettledInv` speaks of states that nothing excuses
  (`Quiet`). There the configuration in memory is the file's except during the
  reload an event causes (`ConfigFollows`), and that reload is of the file as it
  is, or another event waits (`WatcherIsFresh`). So the lookups of a sync are all
  made in the configuration its entries are from; what it collects is complete and
  allowed (`CollectsAll`, `ChangesAll`), and the kernel comes to it
  (`FollowsAfterwards`). A sync that could not list the interfaces (`misjudged`) may
  collect routes to this host too, but misses none. Two things came out of the proof. An entry with an address
  need not get a route: an earlier entry for the same prefix with a name that does
  not resolve hides it, so `MustRoute` asks for the server `GetServer` finds. And
  an older configuration may also take the newest one's place when that is in
  memory under an older time (a change was undone), so `overtaken` looks at the
  configuration and not at the time.

In `CallRoutingProofs`, for every half-octet of an even number of values, every
set of calls, every configuration and every behaviour of the DNS:

- `AddressesArrive`, `RoutingTypeCorrect`: `AddressesSurvive` and `TypeOK`. The
  invariant `CarryInv` is that the packet is the beginning of a CALL_REQ with the
  addresses of the call and some facilities and user data. That decoding inverts
  packing, also where the second address starts within an octet, and that
  `InjectFacilities` keeps the addresses, are lemmas.
- `SentByLongestPrefix`: `SentWhereRouted`; a re-encoded packet decodes to the
  same address, so the choice xot-gateway made still stands when it dials
  (`ChosenInv`).
- `SelfDialOnlyAfterChange`, `NoLoopWithSteadyDNS`: `SelfDialNeedsChange`,
  `SteadyDNSNoLoop`. As long as the DNS keeps its answers every cache agrees with
  it, so what a process has found to be elsewhere, seeing its interfaces, is
  elsewhere when it is dialled (`SteadyInv`). The properties name their exceptions:
  a lookup that could not list the interfaces, and calls dialled to an explicit
  host in "port" or to an address `isLocalIP` does not know (`DialsBack`).
- `FacilitiesRoundTrip`: `FacilityMap(EncodeFacilities(facs, codes)) = facs`, in
  whatever order, if the values have the length of their class and the field fits
  its length octet. The walk over the octets is followed entry by entry
  (`WalkKeeps`), and the size of the field does not depend on the order
  (`SumsAnyOrder`).
- `FacilitiesReach`: `FacilitiesArrive`. `FacilitiesInv` says that the facilities
  of a packet that came complete read as those asked for before xot-gateway has
  injected any, and as those wanted after it has.

The loops are folds and recursive functions. That they have a value, and what it
is, is shown by induction. The induction theorems of the library take a predicate
as parameter; here induction is over sets instead (`LeastNat`: a non-empty set of
naturals has a least element, from the well-foundedness of `<`; `SetInduction`),
and the recursive functions are shown to exist before they are used
(`FoldExists`).

Assumptions on constants: `ContentAssumption`, `EditAssumption`,
`GoroutineAssumption` of the configuration; `LoopbackAssumption`; `ConnAssumption`,
`PacketAssumption` of tun-gateway; `NibbleAssumption`, `ServersAssumption`,
`DestinationsAssumption`, `CallsAssumption`, `AnswersAssumption` of the routing.
They say of which type a constant is, and `CallsAssumption` that the number of
digits of an address fits a half-octet, as the header of a CALL_REQ requires.
`FacilitiesAssumption` says that a caller's facilities are well formed: each value
has the length of its class and the field has at most 255 octets. The length octet
of the field can say no more, and x25_ping, the caller in the repository
(`src/cmd/x25_ping/main.go`), sends a fixed field of that form; what the codec
does with other facilities is in `AddressesSurvive` and the types. TLC evaluates
all of them.

Model-checked only: liveness, and what needs ENABLED (the prover has no rules for
fairness that would serve here): `LinkComesUp`, `RelayUnwinds` of xot-server,
`KeeperUnwinds` (the same of xot-gateway), `AbandonedRelayEnds`,
`CrossingClearsEnd`, `SilentCallEnds`, `RoutesSettle`. Every other property of the
passing runs is stated by a theorem. The three properties that TLC refutes are
false.

## 6. Findings

- **The link can stay down** (`tun_link_stuck`). A RESTART_REQ repeated by T20
  is read after a session was opened and counts as a genuine restart. The second
  RESTART_CONF sends the kernel back to state 2; by then the sessions are gone,
  and its RESTART_REQs are discarded as duplicates, each time.
- **A cleanup can clear another connection's call** (`tun_cleanup`). The check
  that is to prevent it and the write are not atomic.
- **No grace period** (`xot_server_grace`): `main` returns at once when the
  listener is closed. xot-gateway has the same loop.

Observed without a run of their own:

- after relaying a CLR_REQ of the TCP peer nobody reads its connection, so that
  it closes goes unnoticed until the far side answers
  (`docs/tech/goxot_state_management.md` wants a closed socket to trigger
  cleanup at once);
- a `Reload` that read the file before an edit can store after one that read it
  later. The next `Reload` repairs the configuration, but a sync of the routes in
  between has used the older one (`overtaken` in `RoutesSettle`);
- a file renamed over the configuration (as many editors do) ends the inotify
  watch, and an edit between the first sync and the watch is not heard;
- a sync that cannot list the interfaces installs routes to addresses of this
  host, until the next change of the file (`misjudged`);
- `SyncRoutes` compares prefixes only: a changed number of digits is ignored;
  and it installs a route for a malformed `123/2` that `GetServer` never matches;
- the sample in `README.md` has `"prefix": "701"`, which `GetServer` and
  `SyncRoutes` pass over, as they want `701/3`;
- `docs/tech/goxot_routing.md` says that rejecting local addresses in xot-gateway
  prevents loops. xot-gateway resolves twice, and an error the first time counts
  as remote: with a stale cache in xot-server and a name that moved to this host
  the call is dialled back (`SelfDialNeedsChange` says when). The call is dialled
  back with a steady DNS too if neither process before the dial could list the
  interfaces, and every time if the entry names this host in "port" or has an
  address that is on no interface: then nothing in the code ends the loop, which
  the model cuts off after `MaxHops` rounds;
- the two goroutines that forward calls of the kernel add their sessions in the
  order in which their dials succeed: when the kernel has given up a call and used
  its channel again, the older call can take the channel over from the newer one;
- facilities that do not fit are written with a wrapped length octet, and the
  packet is not checked for size again.

Also: a connection accepted before a signal can
add a session after `closeAllSessions`; `wg.Add` can race `wg.Wait`; the answer
to a packet too long is written to TCP without `connMu`; in tun-loopback the
undo of a failed write can come after the table has forgotten the session and
then clears whatever is in the slots (`StaleUndo`, which `CallsStayWhole`
excepts); the range of allocated channels may overlap with the
kernel's, in which case `AddSession` can take over an allocated channel (why
`AllocatedChannelsUnique` excepts `KernelLCIs`).

## 7. Not modelled

- The byte layout of XOT and the stream after a packet too long: the relays end
  such a connection. The keepalive probe of xot-gateway can be written between
  the header and the data of a large packet; the relay models do not say where
  in the stream a reader is, and so do not show what the peer makes of it.
- Text: names, patterns and hexadecimal digits are abstracted to what decides
  (does the pattern match, does a value have the length of its class).
- Defaults of the channel range and modulo in `Reload`; the session manager
  clamps its range again, which is modelled.
- CALL_CONN has a parser of its own that is the same code; `CreateData` and the
  sequence numbers of x25_ping have no other user. The rest of x25_ping is one
  sequential loop: send, wait for the answer or a timeout, stop at the first
  failure.
- tun-listener, statistics, dashboard and stress test keep no state that another
  part reads.
- A change of the configuration in the middle of one call. `RouteSync` has the
  changes, `CallRouting` the calls.

## 8. Plan

Done: all modules, and the proofs of section 5. What could come next:

1. a call that meets a change of the configuration: `CallRouting` over
   `ConfigManager` instead of over one configuration;
2. the stream of bytes between xot-gateway and its remote end, with the probe that
   can be written between header and data of a large packet;
3. properties for the hazards that have none in `PROJECT.json`: a session added
   while the gateway shuts down, a peer that does not read and so holds up the TUN
   reader, channels of the kernel among those tun-loopback allocates, routes whose
   number of digits changes.
