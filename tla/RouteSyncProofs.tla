--------------------------- MODULE RouteSyncProofs ---------------------------
(***************************************************************************)
(* First the configuration by itself (ConfigManager): a Reload that finds  *)
(* the file's time in memory misses nothing, for every number of           *)
(* goroutines and of changes of the file.                                  *)
(*                                                                         *)
(* CacheIsSound is not inductive: a goroutine about to store must not      *)
(* bring the file's present time together with what an older file said.    *)
(* It cannot, because Reload takes the time before it reads: a change in   *)
(* between leaves the goroutine with a time that is no longer the file's,  *)
(* and times only grow.                                                    *)
(*                                                                         *)
(* Then tun-gateway (RouteSync), which uses the configuration as           *)
(* ConfigManager says: every step of the watcher, of the TUN reader and of *)
(* the file is one of ConfigNext or leaves the configuration alone: it     *)
(* implements ConfigManager, and what is proved of that holds for it.      *)
(* Last its routes: the account of them, their types, and that they are    *)
(* those of the file whenever the watcher waits.                           *)
(***************************************************************************)
EXTENDS RouteSync, RoutingProofs, TLAPS

\* No time in memory is later than the file's.
TimesArePast == /\ lastMod <= file.mtime
                /\ \A g \in Goroutine : loc[g].mtime <= file.mtime

\* What a goroutine is about to store belongs to the time it stores with it.
StoresAreSound ==
    \A g \in Goroutine :
        pc[g] = "store" /\ loc[g].mtime = file.mtime => loc[g].cfg = file.content

CacheInv == ConfigTypeOK /\ TimesArePast /\ StoresAreSound /\ CacheIsSound

\* NewConfigManager establishes the invariant.
LEMMA CacheInit == NewConfigManager => CacheInv
  BY ContentAssumption, EditAssumption
     DEF NewConfigManager, CacheInv, ConfigTypeOK, TimesArePast, StoresAreSound, CacheIsSound, MTime

\* Every step of a goroutine in Reload keeps it.
LEMMA ReloadKeepsCache ==
  ASSUME CacheInv, NEW g \in Goroutine, Reload(g)
  PROVE  CacheInv'
<1> USE ContentAssumption, EditAssumption DEF CacheInv, ConfigTypeOK, MTime
<1>1. CASE Stat(g)
  BY <1>1 DEF Stat, TimesArePast, StoresAreSound, CacheIsSound
<1>2. ASSUME NEW ok \in BOOLEAN, Return(g, ok), UNCHANGED <<file, config, lastMod>>
      PROVE  CacheInv'
  <2>1. ConfigTypeOK'
    BY <1>2 DEF Return, NoLocals
  <2>2. TimesArePast' /\ StoresAreSound' /\ CacheIsSound'
    BY <1>2 DEF Return, NoLocals, TimesArePast, StoresAreSound, CacheIsSound
  <2> QED BY <2>1, <2>2
<1>3. ASSUME pc[g] = "compare", pc' = [pc EXCEPT ![g] = "read"],
             UNCHANGED <<file, config, lastMod, loc>>
      PROVE  CacheInv'
  BY <1>3 DEF TimesArePast, StoresAreSound, CacheIsSound
<1>4. ASSUME file.content # Broken, loc' = [loc EXCEPT ![g].cfg = file.content],
             pc' = [pc EXCEPT ![g] = "store"], UNCHANGED <<file, config, lastMod>>
      PROVE  CacheInv'
  <2>1. ConfigTypeOK'
    BY <1>4
  <2>2. TimesArePast' /\ StoresAreSound' /\ CacheIsSound'
    BY <1>4 DEF TimesArePast, StoresAreSound, CacheIsSound
  <2> QED BY <2>1, <2>2
<1>5. CASE Compare(g)
  BY <1>2, <1>3, <1>5 DEF Compare
<1>6. CASE ReadFile(g)
  BY <1>2, <1>4, <1>6 DEF ReadFile
<1>7. CASE Store(g)
  BY <1>7 DEF Store, Return, NoLocals, TimesArePast, StoresAreSound, CacheIsSound
<1> QED BY <1>1, <1>5, <1>6, <1>7 DEF Reload

\* A change of the file keeps it: every time in memory is now an earlier one.
LEMMA WriteKeepsCache ==
  ASSUME CacheInv, NEW c \in Content \union {Broken}, Write(c)
  PROVE  CacheInv'
  BY ContentAssumption, EditAssumption
     DEF Write, CacheInv, ConfigTypeOK, TimesArePast, StoresAreSound, CacheIsSound, MTime

\* So does every step of the configuration.
LEMMA CacheStep == CacheInv /\ [ConfigNext]_configVars => CacheInv'
<1> SUFFICES ASSUME CacheInv, [ConfigNext]_configVars PROVE CacheInv'
  OBVIOUS
<1>1. CASE \E c \in Content \union {Broken} : Write(c)
  BY <1>1, WriteKeepsCache
<1>2. ASSUME NEW g \in Goroutine, Call(g), UNCHANGED <<file, config, lastMod, loc>>
      PROVE  CacheInv'
  BY <1>2 DEF Call, CacheInv, ConfigTypeOK, TimesArePast, StoresAreSound, CacheIsSound
<1>3. CASE \E g \in Goroutine : Reload(g)
  BY <1>3, ReloadKeepsCache
<1>4. CASE UNCHANGED configVars
  BY <1>4 DEF configVars, CacheInv, ConfigTypeOK, TimesArePast, StoresAreSound, CacheIsSound
<1> QED BY <1>1, <1>2, <1>3, <1>4 DEF ConfigNext

(***************************************************************************)
(* Reload of src/config.go: whenever lastMod is the modification time of   *)
(* the file, config is what the file says, although stat, comparison, read *)
(* and store of several goroutines interleave with changes of the file.    *)
(***************************************************************************)
THEOREM CacheSound == ConfigSpec => []CacheIsSound
<1>1. CacheInv => CacheIsSound BY DEF CacheInv
<1> QED BY CacheInit, CacheStep, <1>1, PTL DEF ConfigSpec
-----------------------------------------------------------------------------
(***************************************************************************)
(* tun-gateway.                                                            *)
(***************************************************************************)
\* Every step of tun-gateway is a step of the configuration, or none.
LEMMA SyncStepIsConfigStep == [Next]_vars => [ConfigNext]_configVars
<1> SUFFICES ASSUME [Next]_vars PROVE [ConfigNext]_configVars
  OBVIOUS
<1>0. Watcher \in Goroutine /\ Reader \subseteq Goroutine
  BY GoroutineAssumption
<1>1. CASE \E c \in Content \union {Broken} : Edit(c)
  BY <1>1 DEF Edit, ConfigNext
<1>2. CASE \E c \in Content : Replace(c)
  BY <1>2 DEF Replace, ConfigNext
<1>3. CASE \E g \in Goroutine : ReloadStep(g)
  BY <1>3 DEF ReloadStep, ConfigNext
<1>4. CASE \E g \in Reader : GetServer(g)
  BY <1>0, <1>4 DEF GetServer, ConfigNext
<1>5. CASE NextServer
  <2>1. UNCHANGED pc \/ Call(Watcher)
    BY <1>5 DEF NextServer
  <2>2. UNCHANGED <<file, config, lastMod, loc>>
    BY <1>5 DEF NextServer
  <2> QED BY <1>0, <2>1, <2>2 DEF ConfigNext, configVars
<1>6. CASE ReadEvent
  <2>1. Call(Watcher) /\ UNCHANGED <<file, config, lastMod, loc>>
    BY <1>6 DEF ReadEvent
  <2> QED BY <1>0, <2>1 DEF ConfigNext
<1>7. CASE GetServers \/ Lookup \/ DeleteRoutes \/ AddRoutes
  BY <1>7 DEF GetServers, Lookup, DeleteRoutes, AddRoutes
<1>8. CASE AddWatch \/ WatchFails \/ Reloaded
  BY <1>8 DEF AddWatch, WatchFails, Reloaded
<1>9. CASE UNCHANGED vars
  BY <1>9 DEF vars
<1> QED
  BY <1>1, <1>2, <1>3, <1>4, <1>5, <1>6, <1>7, <1>8, <1>9 DEF Next, SyncRoutes, WatchConfig

(***************************************************************************)
(* tun-gateway implements the configuration manager: whatever its watcher, *)
(* its TUN reader and those who change the file do is what ConfigManager   *)
(* allows.                                                                 *)
(***************************************************************************)
THEOREM SyncImplementsConfig == Spec => ConfigSpec
<1>1. Init => NewConfigManager
  BY DEF Init
<1> QED BY <1>1, SyncStepIsConfigStep, PTL DEF Spec, ConfigSpec

(***************************************************************************)
(* The configuration in memory of tun-gateway is the file's whenever       *)
(* lastMod is its modification time: a Reload of watchConfig that returns  *)
(* early because the TUN reader was first misses nothing.                  *)
(***************************************************************************)
THEOREM SyncCacheSound == Spec => []CacheIsSound
BY CacheSound, SyncImplementsConfig, PTL

-----------------------------------------------------------------------------
(***************************************************************************)
(* RoutesAccounted is not inductive: DeleteRoutes takes the route of one   *)
(* prefix from the kernel, which must not be the route of another prefix,  *)
(* nor one left behind earlier.  AddRoutes keeps it so, because the kernel *)
(* refuses a route it has.                                                 *)
(***************************************************************************)
RouteOf(p) == KernelRoute(p, currentRoutes[p])
OwnRoutes == \A p, q \in DOMAIN currentRoutes : RouteOf(p) = RouteOf(q) => p = q
LeakedIsForgotten == \A p \in DOMAIN currentRoutes : RouteOf(p) \notin leaked
RoutesInv == RoutesAccounted /\ OwnRoutes /\ LeakedIsForgotten

\* Deleting the routes no longer wanted keeps the account.
LEMMA DeleteKeepsRoutes == RoutesInv /\ DeleteRoutes => RoutesInv'
<1> SUFFICES ASSUME RoutesInv, DeleteRoutes PROVE RoutesInv'
  OBVIOUS
<1> DEFINE gone == DOMAIN currentRoutes \ DOMAIN newRoutes
<1>1. PICK failed \in SUBSET gone :
         /\ kernelRoutes' = kernelRoutes \ {RouteOf(p) : p \in gone \ failed}
         /\ leaked' = leaked \union {RouteOf(p) : p \in failed}
         /\ currentRoutes' = [p \in DOMAIN currentRoutes \ gone |-> currentRoutes[p]]
  BY DEF DeleteRoutes, RouteOf
<1>2. /\ DOMAIN currentRoutes' = DOMAIN currentRoutes \ gone
      /\ \A p \in DOMAIN currentRoutes' : currentRoutes'[p] = currentRoutes[p]
  BY <1>1
<1>3. \A p \in DOMAIN currentRoutes' : RouteOf(p)' = RouteOf(p)
  BY <1>2 DEF RouteOf, KernelRoute
<1> HIDE DEF gone
<1>4. gone \subseteq DOMAIN currentRoutes
  BY DEF gone
<1>5. OwnRoutes'
  BY <1>2, <1>3 DEF RoutesInv, OwnRoutes
<1>6. LeakedIsForgotten'
  BY <1>1, <1>2, <1>3, <1>4 DEF RoutesInv, OwnRoutes, LeakedIsForgotten
<1>7. RoutesOf(currentRoutes)' = {RouteOf(p) : p \in DOMAIN currentRoutes \ gone}
  BY <1>2, <1>3 DEF RoutesOf, RouteOf
<1>8. RoutesOf(currentRoutes) = {RouteOf(p) : p \in DOMAIN currentRoutes}
  BY DEF RoutesOf, RouteOf
<1>9. kernelRoutes = {RouteOf(p) : p \in DOMAIN currentRoutes} \union leaked
  BY <1>8 DEF RoutesInv, RoutesAccounted
<1>10. kernelRoutes' = {RouteOf(p) : p \in DOMAIN currentRoutes \ gone} \union leaked'
  BY <1>1, <1>4, <1>9 DEF RoutesInv, OwnRoutes, LeakedIsForgotten
<1>11. RoutesAccounted'
  BY <1>7, <1>10 DEF RoutesAccounted
<1> QED BY <1>5, <1>6, <1>11 DEF RoutesInv

\* Adding the new ones keeps it: what the kernel accepts is a route of its own.
LEMMA AddKeepsRoutes == RoutesInv /\ AddRoutes => RoutesInv'
<1> SUFFICES ASSUME RoutesInv, AddRoutes PROVE RoutesInv'
  OBVIOUS
<1> DEFINE new == DOMAIN newRoutes \ DOMAIN currentRoutes
           Key(p) == KernelRoute(p, newRoutes[p])
<1>1. PICK A \in Added(new) :
         /\ kernelRoutes' = kernelRoutes \union {Key(p) : p \in A}
         /\ currentRoutes' = [p \in DOMAIN currentRoutes \union A |->
                                IF p \in A THEN newRoutes[p] ELSE currentRoutes[p]]
         /\ leaked' = leaked
  BY DEF AddRoutes
<1>2. /\ A \subseteq new
      /\ \A p \in A : Key(p) \notin kernelRoutes
      /\ \A p, q \in A : Key(p) = Key(q) => p = q
  BY <1>1 DEF Added
<1>3. /\ DOMAIN currentRoutes' = DOMAIN currentRoutes \union A
      /\ \A p \in DOMAIN currentRoutes : currentRoutes'[p] = currentRoutes[p]
      /\ \A p \in A : currentRoutes'[p] = newRoutes[p]
  BY <1>1, <1>2
<1>4. /\ \A p \in DOMAIN currentRoutes : RouteOf(p)' = RouteOf(p)
      /\ \A p \in A : RouteOf(p)' = Key(p)
  BY <1>3 DEF RouteOf, KernelRoute
<1>5. RoutesOf(currentRoutes) = {RouteOf(p) : p \in DOMAIN currentRoutes}
  BY DEF RoutesOf, RouteOf
<1> HIDE DEF new, Key
<1>6. kernelRoutes = {RouteOf(p) : p \in DOMAIN currentRoutes} \union leaked
  BY <1>5 DEF RoutesInv, RoutesAccounted
<1>7. OwnRoutes'
  BY <1>2, <1>3, <1>4, <1>6 DEF RoutesInv, OwnRoutes
<1>8. LeakedIsForgotten'
  BY <1>1, <1>2, <1>3, <1>4, <1>6 DEF RoutesInv, LeakedIsForgotten
<1>9. RoutesOf(currentRoutes)' = {RouteOf(p) : p \in DOMAIN currentRoutes} \union {Key(p) : p \in A}
  <2>1. RoutesOf(currentRoutes)' = {RouteOf(p)' : p \in DOMAIN currentRoutes \union A}
    BY <1>3 DEF RoutesOf, RouteOf
  <2> QED BY <1>4, <2>1
<1>10. RoutesAccounted'
  BY <1>1, <1>6, <1>9 DEF RoutesAccounted
<1> QED BY <1>7, <1>8, <1>10 DEF RoutesInv

\* No other step touches the routes.
LEMMA RoutesStep == RoutesInv /\ [Next]_vars => RoutesInv'
<1> SUFFICES ASSUME RoutesInv, [Next]_vars PROVE RoutesInv'
  OBVIOUS
<1>1. CASE DeleteRoutes
  BY <1>1, DeleteKeepsRoutes
<1>2. CASE AddRoutes
  BY <1>2, AddKeepsRoutes
<1>3. ASSUME UNCHANGED <<currentRoutes, kernelRoutes, leaked>>
      PROVE  RoutesInv'
  BY <1>3 DEF RoutesInv, RoutesAccounted, OwnRoutes, LeakedIsForgotten, RouteOf, RoutesOf, KernelRoute
<1>4. CASE (\E c \in Content \union {Broken} : Edit(c)) \/ \E c \in Content : Replace(c)
  BY <1>3, <1>4 DEF Edit, Replace, syncVars
<1>5. CASE (\E g \in Goroutine : ReloadStep(g)) \/ \E g \in Reader : GetServer(g)
  BY <1>3, <1>5 DEF ReloadStep, GetServer, syncVars
<1>6. CASE GetServers \/ NextServer \/ Lookup
  BY <1>3, <1>6 DEF GetServers, NextServer, Lookup
<1>7. CASE AddWatch \/ WatchFails \/ ReadEvent \/ Reloaded
  BY <1>3, <1>7 DEF AddWatch, WatchFails, ReadEvent, Reloaded
<1>8. CASE UNCHANGED vars
  BY <1>3, <1>8 DEF vars, syncVars
<1> QED
  BY <1>1, <1>2, <1>4, <1>5, <1>6, <1>7, <1>8 DEF Next, SyncRoutes, WatchConfig

(***************************************************************************)
(* SyncRoutes of tun-gateway: the kernel has the routes of currentRoutes   *)
(* and those a failed DeleteRoute has left, no others, for every sequence  *)
(* of configurations and every pattern of failing ioctls.                  *)
(***************************************************************************)
THEOREM KernelRoutesAccounted == Spec => []RoutesAccounted
<1>1. Init => RoutesInv
  BY DEF Init, RoutesInv, RoutesAccounted, OwnRoutes, LeakedIsForgotten, RouteOf, RoutesOf,
         KernelRoute, EmptyMap
<1>2. RoutesInv => RoutesAccounted
  BY DEF RoutesInv
<1> QED BY <1>1, <1>2, RoutesStep, PTL DEF Spec
-----------------------------------------------------------------------------
(***************************************************************************)
(* Types.  A route in one of the maps is the prefix of a server entry with *)
(* the number of digits of the same entry, so what the kernel is given is  *)
(* a route some entry asks for; and SyncRoutes looks a server up only      *)
(* while one is left in todo.                                              *)
(***************************************************************************)
SizedServer == {s \in LoadedServer : s.plen \in Nat \union {NoPlen}}

\* What Reload keeps of a content: entries with a prefix, and a length or none.
LEMMA LoadedEntries == \A c \in Content : Loaded[c] \in Seq(ServerEntry)
<1> SUFFICES ASSUME NEW c \in Content PROVE Loaded[c] \in Seq(ServerEntry)
  OBVIOUS
<1>1. ServersOf[c] \in Seq(ServerEntry)
  BY ServersAssumption
<1>2. \E m : Selects(ServersOf[c], Len(ServersOf[c]), ValidServers(ServersOf[c]), m)
  BY <1>1, ValidServersAreTheUsable
<1> QED
  BY <1>2 DEF Selects, Loaded

\* They are the servers loaded, by content,
LEMMA LoadedServers == \A c \in Content : Range(Loaded[c]) \subseteq LoadedServer
BY DEF LoadedServer

\* and a sequence of them.
LEMMA LoadedAreSized == \A c \in Content : Loaded[c] \in Seq(SizedServer)
<1> SUFFICES ASSUME NEW c \in Content PROVE Loaded[c] \in Seq(SizedServer)
  OBVIOUS
<1> DEFINE l == Loaded[c]
<1>1. l \in Seq(ServerEntry)
  BY LoadedEntries
<1>2. Range(l) \subseteq LoadedServer
  BY LoadedServers
<1> HIDE DEF l
<1>3. ASSUME NEW i \in 1..Len(l) PROVE l[i] \in SizedServer
  <2>1. l[i] \in ServerEntry /\ l[i] \in Range(l)
    BY <1>1 DEF Range
  <2> QED BY <1>2, <2>1 DEF SizedServer, ServerEntry
<1>4. l \in Seq(SizedServer)
  BY <1>1, <1>3
<1> QED BY <1>4 DEF l

FromServers(m) == \A p \in DOMAIN m :
                     \E s \in LoadedServer : s.prefix = p /\ s.plen = m[p] /\ m[p] \in Nat

SyncTyped == /\ stage \in {"list", "entry", "lookup", "delete", "add", "watch", "wait",
                           "reload", "dead"}
             /\ todo \in Seq(SizedServer)
             /\ stage = "lookup" => todo # <<>> /\ Head(todo).plen # NoPlen
             /\ FromServers(newRoutes) /\ FromServers(currentRoutes)
             /\ kernelRoutes \union leaked \subseteq KernelRoutes
             /\ watch \in {"none", "set", "lost"}
             /\ event \in BOOLEAN /\ ioctlFails \in BOOLEAN
             /\ heard \in BOOLEAN /\ overtaken \in BOOLEAN /\ misjudged \in BOOLEAN

\* Maps made from server entries have the type of a route map.
LEMMA FromServersTyped == ASSUME NEW m, FromServers(m) PROVE IsRouteMap(m)
BY DEF FromServers, IsRouteMap, Prefix

\* The typed state of the sync, with that of the configuration, is TypeOK.
LEMMA SyncTypedIsTypeOK == SyncTyped /\ ConfigTypeOK => TypeOK
<1> SUFFICES ASSUME SyncTyped, ConfigTypeOK PROVE TypeOK
  OBVIOUS
<1>1. Range(todo) \subseteq LoadedServer
  BY DEF SyncTyped, Range, SizedServer
<1>2. IsRouteMap(newRoutes) /\ IsRouteMap(currentRoutes)
  BY FromServersTyped DEF SyncTyped
<1>3. {event, ioctlFails, heard, overtaken, misjudged} \subseteq BOOLEAN
  BY Zenon DEF SyncTyped
<1> QED
  BY <1>1, <1>2, <1>3 DEF SyncTyped, TypeOK

\* Every route of a map made from server entries is one the kernel may be given.
LEMMA RouteOfServer ==
    ASSUME NEW m, FromServers(m), NEW p \in DOMAIN m
    PROVE  KernelRoute(p, m[p]) \in KernelRoutes
BY DEF FromServers, KernelRoutes

\* The steps of SyncRoutes keep the types.
LEMMA SyncKeepsTypes == ASSUME SyncTyped, ConfigTypeOK, SyncRoutes
                        PROVE  SyncTyped'
<1>1. CASE GetServers
  <2>1. todo' \in Seq(SizedServer)
    <3>1. CASE config = NoConfig
      BY <1>1, <3>1 DEF GetServers, SyncTyped
    <3>2. CASE config # NoConfig
      BY <1>1, <3>2, LoadedAreSized DEF GetServers, ConfigTypeOK
    <3> QED BY <3>1, <3>2
  <2>2. misjudged' \in BOOLEAN
    <3>1. misjudged' = misjudged \/ misjudged' = FALSE
      BY <1>1, Zenon DEF GetServers
    <3> QED BY <3>1, Zenon DEF SyncTyped
  <2> QED
    BY <1>1, <2>1, <2>2 DEF GetServers, AfterSync, SyncTyped, FromServers, envVars
<1>2. CASE NextServer
  <2>1. UNCHANGED <<newRoutes, currentRoutes, kernelRoutes, watch, event, heard, ioctlFails,
                    overtaken, leaked, misjudged>>
    BY <1>2 DEF NextServer, envVars
  <2>2. CASE todo # <<>> /\ todo' = Tail(todo) /\ UNCHANGED stage /\ stage = "entry"
    <3>1. todo' \in Seq(SizedServer)
      BY <2>2 DEF SyncTyped
    <3> QED BY <2>1, <2>2, <3>1 DEF SyncTyped, FromServers
  <2>3. CASE todo # <<>> /\ Head(todo).plen # NoPlen /\ stage' = "lookup" /\ UNCHANGED todo
    BY <2>1, <2>3 DEF SyncTyped, FromServers
  <2>4. CASE stage' = "delete" /\ UNCHANGED todo
    BY <2>1, <2>4 DEF SyncTyped, FromServers
  <2> QED
    BY <1>2, <2>2, <2>3, <2>4 DEF NextServer, Ready
<1>3. CASE Lookup
  <2>1. /\ todo # <<>> /\ Head(todo).plen # NoPlen /\ todo' = Tail(todo) /\ stage' = "entry"
        /\ UNCHANGED <<currentRoutes, kernelRoutes, watch, event, heard, ioctlFails,
                       overtaken, leaked>>
    BY <1>3 DEF Lookup, Ready, SyncTyped, envVars
  <2>2. Head(todo) \in SizedServer /\ todo' \in Seq(SizedServer)
    BY <2>1 DEF SyncTyped
  <2> DEFINE addr == Head(todo).prefix
             with == [p \in DOMAIN newRoutes \union {addr} |->
                        IF p = addr THEN Head(todo).plen ELSE newRoutes[p]]
  <2>3. newRoutes' = newRoutes \/ newRoutes' = with
    BY <1>3, Zenon DEF Lookup
  <2>4. FromServers(with)
    BY <2>1, <2>2 DEF SyncTyped, FromServers, SizedServer
  <2>5. FromServers(newRoutes')
    BY <2>3, <2>4, Zenon DEF SyncTyped
  <2>6. misjudged' \in BOOLEAN
    <3>1. PICK blind \in BOOLEAN : misjudged' = (misjudged \/ blind)
      BY <1>3 DEF Lookup, Blindness
    <3> QED BY <3>1, Zenon DEF SyncTyped
  <2> QED
    BY <2>1, <2>2, <2>5, <2>6 DEF SyncTyped, FromServers
<1>4. CASE DeleteRoutes
  <2> DEFINE gone == DOMAIN currentRoutes \ DOMAIN newRoutes
  <2>1. PICK failed \in SUBSET gone :
           /\ kernelRoutes' \subseteq kernelRoutes
           /\ leaked' = leaked \union {KernelRoute(p, currentRoutes[p]) : p \in failed}
           /\ currentRoutes' = [p \in DOMAIN currentRoutes \ gone |-> currentRoutes[p]]
    BY <1>4 DEF DeleteRoutes
  <2>2. leaked' \subseteq KernelRoutes
    BY <2>1, RouteOfServer DEF SyncTyped
  <2>3. FromServers(currentRoutes')
    BY <2>1 DEF SyncTyped, FromServers
  <2> QED
    BY <1>4, <2>1, <2>2, <2>3 DEF DeleteRoutes, SyncTyped, FromServers, envVars
<1>5. CASE AddRoutes
  <2> DEFINE new == DOMAIN newRoutes \ DOMAIN currentRoutes
  <2>1. PICK A \in SUBSET new :
           /\ kernelRoutes' = kernelRoutes \union {KernelRoute(p, newRoutes[p]) : p \in A}
           /\ currentRoutes' = [p \in DOMAIN currentRoutes \union A |->
                                  IF p \in A THEN newRoutes[p] ELSE currentRoutes[p]]
    BY <1>5 DEF AddRoutes, Added
  <2>2. kernelRoutes' \subseteq KernelRoutes
    BY <2>1, RouteOfServer DEF SyncTyped
  <2>3. FromServers(currentRoutes') /\ FromServers(EmptyMap)
    BY <2>1 DEF SyncTyped, FromServers, EmptyMap
  <2> QED
    BY <1>5, <2>2, <2>3 DEF AddRoutes, AfterSync, SyncTyped, FromServers, envVars
<1> QED
  BY <1>1, <1>2, <1>3, <1>4, <1>5 DEF SyncRoutes

\* So does everything else: the watch, reloads and changes of the file.
LEMMA OthersKeepTypes ==
    ASSUME SyncTyped, [Next]_vars, ~SyncRoutes PROVE SyncTyped'
<1>1. CASE (\E c \in Content \union {Broken} : Edit(c)) \/ \E c \in Content : Replace(c)
  <2>1. UNCHANGED <<stage, todo, newRoutes, currentRoutes, kernelRoutes, leaked, ioctlFails,
                    misjudged>>
    BY <1>1 DEF Edit, Replace, syncVars
  <2>2. /\ event' \in BOOLEAN /\ heard' \in BOOLEAN /\ overtaken' \in BOOLEAN
        /\ watch' \in {"none", "set", "lost"}
    BY <1>1 DEF Edit, Replace, SyncTyped
  <2> QED BY <2>1, <2>2 DEF SyncTyped, FromServers
<1>2. CASE \E g \in Goroutine : ReloadStep(g)
  <2>1. UNCHANGED <<stage, todo, newRoutes, currentRoutes, kernelRoutes, leaked, ioctlFails,
                    watch, event, heard, misjudged>> /\ overtaken' \in BOOLEAN
    BY <1>2 DEF ReloadStep, syncVars, envVars, SyncTyped
  <2> QED BY <2>1 DEF SyncTyped, FromServers
<1>3. CASE \E g \in Reader : GetServer(g)
  BY <1>3 DEF GetServer, syncVars, envVars, SyncTyped, FromServers
<1>4. CASE AddWatch \/ WatchFails \/ ReadEvent \/ Reloaded
  <2>1. UNCHANGED <<todo, newRoutes, currentRoutes, kernelRoutes, leaked, ioctlFails,
                    heard, overtaken, misjudged>>
    BY <1>4 DEF AddWatch, WatchFails, ReadEvent, Reloaded, envVars
  <2>2. stage' \in {"wait", "dead", "reload", "list"}
    BY <1>4 DEF AddWatch, WatchFails, ReadEvent, Reloaded
  <2>3. watch' \in {"set", watch}
    BY <1>4 DEF AddWatch, WatchFails, ReadEvent, Reloaded, envVars
  <2>4. event' = event \/ event' = FALSE
    BY <1>4, Zenon DEF AddWatch, WatchFails, ReadEvent, Reloaded, envVars
  <2>5. event' \in BOOLEAN
    BY <2>4, Zenon DEF SyncTyped
  <2> QED
    BY <2>1, <2>2, <2>3, <2>5 DEF SyncTyped, FromServers
<1>5. CASE UNCHANGED vars
  BY <1>5 DEF vars, syncVars, envVars, SyncTyped, FromServers
<1> QED
  BY <1>1, <1>2, <1>3, <1>4, <1>5 DEF Next, WatchConfig

\* The types hold at the start,
LEMMA InitTyped == Init => CacheInv /\ SyncTyped
<1> SUFFICES ASSUME Init PROVE SyncTyped
  BY CacheInit DEF Init
<1>1. FromServers(newRoutes) /\ FromServers(currentRoutes)
  BY DEF Init, FromServers, EmptyMap
<1>2. todo \in Seq(SizedServer) /\ stage = "list" /\ kernelRoutes \union leaked = {}
  BY DEF Init
<1>3. /\ event \in BOOLEAN /\ ioctlFails \in BOOLEAN
      /\ heard \in BOOLEAN /\ overtaken \in BOOLEAN /\ watch = "none"
      /\ misjudged \in BOOLEAN
  BY Zenon DEF Init
<1> QED
  BY <1>1, <1>2, <1>3 DEF SyncTyped

\* and every step keeps them.
LEMMA TypedStep == CacheInv /\ SyncTyped /\ [Next]_vars => (CacheInv /\ SyncTyped)'
<1> SUFFICES ASSUME CacheInv, SyncTyped, [Next]_vars PROVE CacheInv' /\ SyncTyped'
  OBVIOUS
<1>1. CacheInv' /\ ConfigTypeOK
  BY CacheStep, SyncStepIsConfigStep DEF CacheInv
<1> QED
  BY <1>1, SyncKeepsTypes, OthersKeepTypes

(***************************************************************************)
(* Every variable of tun-gateway's route keeping has its type, for every   *)
(* sequence of configurations and failures: in particular SyncRoutes never *)
(* reads past the server entries, never adds a route for an entry without  *)
(* a prefix length, and gives the kernel only routes entries ask for.       *)
(***************************************************************************)
THEOREM RouteSyncTypeCorrect == Spec => []TypeOK
<1>1. CacheInv /\ SyncTyped => TypeOK
  BY SyncTypedIsTypeOK DEF CacheInv
<1> QED
  BY InitTyped, TypedStep, <1>1, PTL DEF Spec
-----------------------------------------------------------------------------
(***************************************************************************)
(* RoutesSettled.  While nothing excuses it (Quiet), the configuration in  *)
(* memory is the file's from the end of the reload an event has caused to  *)
(* the next event, so all lookups of a SyncRoutes are made in the          *)
(* configuration its entries are from; then what it collects is complete   *)
(* and allowed, and DeleteRoutes and AddRoutes bring the kernel there.     *)
(***************************************************************************)
Quiet == heard /\ ~overtaken /\ ~event /\ ~ioctlFails /\ file.content # Broken

\* A reload the watcher has begun is of the file as it is, or an event waits.
WatcherIsFresh ==
    heard /\ ~event /\ pc[Watcher] \in {"compare", "read", "store"}
        => loc[Watcher].mtime = file.mtime

\* The configuration follows the file, but for the reload an event causes,
ConfigFollows == Quiet /\ (stage = "reload" => pc[Watcher] = "idle") => config = file.content

\* which does not fail.
ReloadSucceeds == Quiet /\ stage = "reload" /\ pc[Watcher] = "idle" => loc[Watcher].ok

Collecting == stage \in {"entry", "lookup"}
Changing == stage \in {"delete", "add"}

\* A sync starts with nothing collected.
StartsEmpty == ~Collecting /\ ~Changing => newRoutes = EmptyMap

\* What SyncRoutes has still to look at, for content c.
TodoOf(c) == /\ Range(todo) \subseteq Range(Loaded[c])
             /\ \A s \in MustRoute[c] : s.prefix \in DOMAIN newRoutes \/ s \in Range(todo)

\* What it has collected is from the entries of c, and allowed if no address of
\* this host was taken for a remote one.
NewOf(c) == /\ misjudged \/ DOMAIN newRoutes \subseteq MayRoute[c]
            /\ \A p \in DOMAIN newRoutes :
                  \E t \in Range(Loaded[c]) : t.prefix = p /\ t.plen = newRoutes[p]
NewComplete(c) == \A s \in MustRoute[c] : s.prefix \in DOMAIN newRoutes

\* The kernel's routes are those of c.
KernelFollows(c) == /\ \A s \in MustRoute[c] : HasRoute(c, s.prefix)
                    /\ misjudged \/ DOMAIN currentRoutes \subseteq MayRoute[c]

CollectsAll == Quiet /\ Collecting => TodoOf(file.content) /\ NewOf(file.content)
ChangesAll == Quiet /\ Changing => NewOf(file.content) /\ NewComplete(file.content)
DeletedFirst == stage = "add" => DOMAIN currentRoutes \subseteq DOMAIN newRoutes
FollowsAfterwards == Quiet /\ stage \in {"watch", "wait"} => KernelFollows(file.content)

SettledInv == /\ WatcherIsFresh /\ ConfigFollows /\ ReloadSucceeds
              /\ StartsEmpty /\ CollectsAll /\ ChangesAll /\ DeletedFirst
              /\ FollowsAfterwards

TypedInv == CacheInv /\ SyncTyped

\* The invariant holds at the start,
LEMMA InitSettled == Init => SettledInv
<1> SUFFICES ASSUME Init PROVE SettledInv
  OBVIOUS
<1>1. stage = "list" /\ newRoutes = EmptyMap /\ pc[Watcher] = "idle"
  BY GoroutineAssumption DEF Init, NewConfigManager
<1>2. file.content # Broken => config = file.content
  BY DEF Init, NewConfigManager
<1> QED
  BY <1>1, <1>2 DEF SettledInv, WatcherIsFresh, ConfigFollows, ReloadSucceeds, StartsEmpty,
     CollectsAll, ChangesAll, DeletedFirst, FollowsAfterwards, Collecting, Changing, Quiet

\* and implies RoutesSettled.
LEMMA SettledInvSettles == TypedInv /\ SettledInv => RoutesSettled
<1> SUFFICES ASSUME SettledInv, stage \in {"watch", "wait"}, ~event, ~ioctlFails, heard, ~overtaken,
                    file.content # Broken
             PROVE  RoutesFollow(file.content)
  BY DEF RoutesSettled, RoutesFollowFile
<1>1. Quiet /\ stage # "reload"
  BY DEF Quiet
<1>2. config = file.content /\ KernelFollows(file.content)
  BY <1>1 DEF SettledInv, ConfigFollows, FollowsAfterwards
<1> QED
  BY <1>2 DEF RoutesFollow, KernelFollows

(***************************************************************************)
(* Changes of the file.                                                    *)
(***************************************************************************)
\* A change of the file is heard of by an event, or not at all.
LEMMA ChangeKeepsSettled ==
    ASSUME TypedInv, SettledInv, heard' => event', UNCHANGED syncVars
    PROVE  SettledInv'
<1>1. ~Quiet' /\ WatcherIsFresh'
  BY DEF Quiet, WatcherIsFresh
<1>2. StartsEmpty' /\ DeletedFirst'
  BY DEF SettledInv, StartsEmpty, DeletedFirst, Collecting, Changing, syncVars
<1> QED
  BY <1>1, <1>2 DEF SettledInv, ConfigFollows, ReloadSucceeds, CollectsAll, ChangesAll,
     FollowsAfterwards

\* An edit, and a file renamed over the old one, are such changes.
LEMMA WritesKeepSettled ==
    ASSUME TypedInv, SettledInv, NEW c, Edit(c) \/ Replace(c)
    PROVE  SettledInv'
<1>1. (heard' => event') /\ UNCHANGED syncVars
  BY DEF Edit, Replace
<1> QED BY <1>1, ChangeKeepsSettled

(***************************************************************************)
(* Reloads.                                                                *)
(***************************************************************************)
\* What Reload leaves in memory is the file's configuration if the goroutine
\* has the file's time.
LEMMA FreshReload ==
    ASSUME CacheInv, NEW g \in Goroutine, Reload(g), pc'[g] = "idle",
           pc[g] \in {"compare", "read", "store"} => loc[g].mtime = file.mtime,
           file.content # Broken
    PROVE  config' = file.content /\ loc'[g].ok
<1> USE DEF CacheInv, ConfigTypeOK
<1>1. CASE Stat(g)
  BY <1>1 DEF Stat
<1>2. CASE Compare(g)
  <2>1. loc[g].mtime = lastMod /\ config' = config /\ loc'[g] = NoLocals(TRUE)
    BY <1>2 DEF Compare, Return
  <2> QED BY <1>2, <2>1 DEF Compare, CacheIsSound, NoLocals
<1>3. CASE ReadFile(g)
  BY <1>3 DEF ReadFile
<1>4. CASE Store(g)
  BY <1>4 DEF Store, Return, NoLocals, StoresAreSound
<1> QED BY <1>1, <1>2, <1>3, <1>4 DEF Reload

\* Only a store changes the configuration, to what the goroutine has read.
LEMMA ReloadConfig ==
    ASSUME NEW g, Reload(g)
    PROVE  /\ config' = config \/ (pc[g] = "store" /\ config' = loc[g].cfg)
           /\ UNCHANGED file
BY DEF Reload, Stat, Compare, ReadFile, Store

\* Reload leaves the other goroutines alone.
LEMMA ReloadOthers ==
    ASSUME CacheInv, NEW g \in Goroutine, Reload(g), NEW h \in Goroutine, h # g
    PROVE  pc'[h] = pc[h] /\ loc'[h] = loc[h]
BY DEF Reload, Stat, Compare, ReadFile, Store, Return, NoLocals, CacheInv, ConfigTypeOK

\* The time a goroutine has in Reload is the one it has from its stat.
LEMMA ReloadTime ==
    ASSUME CacheInv, NEW g \in Goroutine, Reload(g), pc'[g] \in {"compare", "read", "store"}
    PROVE  \/ loc'[g].mtime = file.mtime
           \/ pc[g] \in {"compare", "read", "store"} /\ loc'[g].mtime = loc[g].mtime
BY DEF Reload, Stat, Compare, ReadFile, Store, Return, NoLocals, CacheInv, ConfigTypeOK

\* Outside the reload of an event no reload makes it quiet.
LEMMA ReloadQuiet ==
    ASSUME TypedInv, NEW g \in Goroutine, ReloadStep(g), Quiet',
           g # Watcher \/ stage # "reload"
    PROVE  Quiet /\ ~(pc[g] = "store" /\ config = file.content /\ loc[g].cfg # file.content)
<1>1. UNCHANGED <<heard, event, ioctlFails, file>>
  BY ReloadConfig DEF ReloadStep, envVars
<1>2. ~overtaken'
  BY DEF Quiet
<1>3. overtaken' = (overtaken \/ (pc[g] = "store" /\ config = file.content
                                    /\ loc[g].cfg # file.content))
  BY DEF ReloadStep
<1> QED
  BY <1>1, <1>2, <1>3 DEF Quiet

\* The reloads keep the invariant.
LEMMA ReloadsKeepSettled ==
    ASSUME TypedInv, SettledInv, NEW g \in Goroutine, ReloadStep(g)
    PROVE  SettledInv'
<1>0. Reload(g) /\ UNCHANGED <<file, stage, todo, newRoutes, currentRoutes, kernelRoutes,
                               event, heard, ioctlFails, misjudged>>
  BY ReloadConfig DEF ReloadStep, syncVars, envVars
<1>1. Watcher \in Goroutine /\ CacheInv
  BY GoroutineAssumption DEF TypedInv
<1>2. WatcherIsFresh'
  <2> SUFFICES ASSUME heard', ~event', pc'[Watcher] \in {"compare", "read", "store"}
               PROVE  loc'[Watcher].mtime = file'.mtime
    BY DEF WatcherIsFresh
  <2>1. heard /\ ~event
    BY <1>0
  <2>2. CASE g = Watcher
    BY <1>0, <1>1, <2>1, <2>2, ReloadTime DEF SettledInv, WatcherIsFresh
  <2>3. CASE g # Watcher
    BY <1>0, <1>1, <2>1, <2>3, ReloadOthers DEF SettledInv, WatcherIsFresh
  <2> QED BY <2>2, <2>3
<1>3. CASE g = Watcher /\ stage = "reload"
  <2>1. ASSUME Quiet', pc'[Watcher] = "idle"
        PROVE  config' = file'.content /\ loc'[Watcher].ok
    <3>1. heard /\ ~event /\ file.content # Broken
      BY <1>0, <2>1 DEF Quiet
    <3>2. pc[Watcher] \in {"compare", "read", "store"} => loc[Watcher].mtime = file.mtime
      BY <3>1 DEF SettledInv, WatcherIsFresh
    <3> QED
      BY <1>0, <1>1, <1>3, <2>1, <3>1, <3>2, FreshReload
  <2>2. stage' = "reload" /\ newRoutes' = newRoutes
    BY <1>0, <1>3
  <2>3. ConfigFollows' /\ ReloadSucceeds'
    BY <2>1, <2>2 DEF ConfigFollows, ReloadSucceeds
  <2>4. StartsEmpty' /\ CollectsAll' /\ ChangesAll' /\ DeletedFirst' /\ FollowsAfterwards'
    BY <1>3, <2>2 DEF SettledInv, StartsEmpty, CollectsAll, ChangesAll, DeletedFirst,
       FollowsAfterwards, Collecting, Changing
  <2> QED
    BY <1>2, <2>3, <2>4 DEF SettledInv
<1>4. CASE g # Watcher \/ stage # "reload"
  <2>1. Quiet' => Quiet
    BY <1>4, ReloadQuiet
  <2>2. ASSUME Quiet', stage = "reload" => pc[Watcher] = "idle" PROVE config' = file'.content
    <3>1. config = file.content
      BY <2>1, <2>2 DEF SettledInv, ConfigFollows
    <3>2. ~(pc[g] = "store" /\ loc[g].cfg # file.content)
      BY <1>4, <2>2, <3>1, ReloadQuiet
    <3> QED
      BY <1>0, <3>1, <3>2, ReloadConfig
  <2>3. stage = "reload" => pc'[Watcher] = pc[Watcher] /\ loc'[Watcher] = loc[Watcher]
    BY <1>0, <1>1, <1>4, ReloadOthers
  <2>4. ConfigFollows'
    BY <1>0, <2>2, <2>3 DEF ConfigFollows
  <2>5. ReloadSucceeds'
    BY <1>0, <2>1, <2>3 DEF SettledInv, ReloadSucceeds
  <2>6. StartsEmpty' /\ DeletedFirst'
    BY <1>0 DEF SettledInv, StartsEmpty, DeletedFirst, Collecting, Changing
  <2>7. CollectsAll'
    BY <1>0, <2>1 DEF SettledInv, CollectsAll, Collecting, TodoOf, NewOf
  <2>8. ChangesAll'
    BY <1>0, <2>1 DEF SettledInv, ChangesAll, Changing, NewComplete, NewOf
  <2>9. FollowsAfterwards'
    BY <1>0, <2>1 DEF SettledInv, FollowsAfterwards, KernelFollows, HasRoute
  <2> QED
    BY <1>2, <2>4, <2>5, <2>6, <2>7, <2>8, <2>9 DEF SettledInv
<1> QED BY <1>3, <1>4

(***************************************************************************)
(* SyncRoutes.                                                             *)
(***************************************************************************)
\* A list has its first element and the others.
LEMMA RangeOfList ==
    ASSUME NEW S, NEW list \in Seq(S), list # <<>>
    PROVE  /\ Head(list) \in Range(list)
           /\ Range(Tail(list)) \subseteq Range(list)
           /\ \A x \in Range(list) : x = Head(list) \/ x \in Range(Tail(list))
<1> DEFINE n == Len(list)
<1>1. n \in Nat \ {0} /\ DOMAIN list = 1..n /\ Head(list) = list[1]
  OBVIOUS
<1>2. /\ DOMAIN Tail(list) = 1..(n - 1)
      /\ \A i \in 1..(n - 1) : Tail(list)[i] = list[i + 1]
  OBVIOUS
<1> HIDE DEF n
<1>3. Head(list) \in Range(list)
  BY <1>1 DEF Range
<1>4. Range(Tail(list)) \subseteq Range(list)
  <2>1. ASSUME NEW i \in 1..(n - 1) PROVE Tail(list)[i] \in Range(list)
    <3>1. i + 1 \in DOMAIN list
      BY <1>1
    <3> QED BY <1>2, <3>1 DEF Range
  <2> QED BY <1>2, <2>1 DEF Range
<1>5. ASSUME NEW i \in 1..n, i # 1 PROVE list[i] \in Range(Tail(list))
  <2>1. i - 1 \in 1..(n - 1) /\ (i - 1) + 1 = i
    BY <1>1, <1>5
  <2>2. Tail(list)[i - 1] = list[i]
    BY <1>2, <2>1
  <2> QED BY <1>2, <2>1, <2>2 DEF Range
<1>6. \A x \in Range(list) : x = Head(list) \/ x \in Range(Tail(list))
  BY <1>1, <1>5 DEF Range
<1> QED BY <1>3, <1>4, <1>6

\* A list that is empty has none.
LEMMA RangeOfEmpty == Range(<<>>) = {}
BY DEF Range

\* What must be routed is remote, and from the list.
LEMMA MustFacts ==
    ASSUME NEW c \in Content, NEW s \in MustRoute[c]
    PROVE  s \in Range(Loaded[c]) /\ s.plen # NoPlen /\ Remote(c, s, {Here, NoIP})
BY DEF MustRoute, Remote

\* What is remote may be routed.
LEMMA MayFacts ==
    ASSUME NEW c \in Content, NEW s \in Range(Loaded[c]), Remote(c, s, {Here})
    PROVE  s.prefix \in MayRoute[c]
BY DEF MayRoute

\* In a quiet state the file says something.
LEMMA QuietContent == ASSUME TypedInv, Quiet PROVE file.content \in Content
BY DEF TypedInv, CacheInv, ConfigTypeOK, Quiet

\* A step of SyncRoutes leaves alone what quiet depends on, and all of Reload
\* but for the call; in between the configuration is the file's.
LEMMA SyncRest ==
    ASSUME SyncRoutes
    PROVE  /\ UNCHANGED <<file, config, lastMod, loc, event, heard, ioctlFails, overtaken, watch>>
           /\ stage \in {"list", "entry", "lookup", "delete", "add"}
           /\ stage' \in {"entry", "lookup", "delete", "add", "watch", "wait"}
           /\ pc' = pc \/ (pc[Watcher] = "idle" /\ pc' = [pc EXCEPT ![Watcher] = "stat"])
<1>1. CASE GetServers
  BY <1>1 DEF GetServers, AfterSync, Ready, configVars, envVars
<1>2. CASE NextServer
  BY <1>2 DEF NextServer, Ready, Call, envVars
<1>3. CASE Lookup
  BY <1>3 DEF Lookup, Ready, configVars, envVars
<1>4. CASE DeleteRoutes
  BY <1>4 DEF DeleteRoutes, Ready, configVars, envVars
<1>5. CASE AddRoutes
  BY <1>5 DEF AddRoutes, AfterSync, Ready, configVars, envVars
<1> QED BY <1>1, <1>2, <1>3, <1>4, <1>5 DEF SyncRoutes

\* So it keeps the first three parts, and it is quiet if it was.
LEMMA SyncFollows ==
    ASSUME TypedInv, SettledInv, SyncRoutes
    PROVE  /\ WatcherIsFresh' /\ ConfigFollows' /\ ReloadSucceeds'
           /\ Quiet' = Quiet /\ file' = file
           /\ Quiet => config = file.content
<1>1. /\ UNCHANGED <<file, config, loc, event, heard, ioctlFails, overtaken>>
      /\ stage # "reload" /\ stage' # "reload"
      /\ pc' = pc \/ pc' = [pc EXCEPT ![Watcher] = "stat"]
  BY SyncRest
<1>2. pc' = pc \/ pc'[Watcher] = "stat"
  BY <1>1, GoroutineAssumption DEF TypedInv, CacheInv, ConfigTypeOK
<1>3. WatcherIsFresh'
  BY <1>1, <1>2 DEF SettledInv, WatcherIsFresh
<1>4. Quiet' = Quiet
  BY <1>1 DEF Quiet
<1>5. Quiet => config = file.content
  BY <1>1 DEF SettledInv, ConfigFollows
<1>6. ConfigFollows' /\ ReloadSucceeds'
  BY <1>1, <1>4, <1>5 DEF ConfigFollows, ReloadSucceeds
<1> QED BY <1>1, <1>3, <1>4, <1>5, <1>6

\* GetServers begins with all entries and nothing collected.
LEMMA GetServersSettles ==
    ASSUME TypedInv, SettledInv, GetServers PROVE SettledInv'
<1>1. WatcherIsFresh' /\ ConfigFollows' /\ ReloadSucceeds' /\ Quiet' = Quiet /\ file' = file
      /\ (Quiet => config = file.content)
  BY SyncFollows DEF SyncRoutes
<1>2. newRoutes' = EmptyMap
  BY DEF GetServers, Ready, SettledInv, StartsEmpty, Collecting, Changing
<1>3. CASE Quiet
  <2>1. config = file.content /\ file.content \in Content /\ config # NoConfig
    BY <1>1, <1>3, QuietContent, ContentAssumption
  <2>2. stage' = "entry" /\ todo' = Loaded[file.content]
    BY <2>1 DEF GetServers
  <2>3. TodoOf(file.content)' /\ NewOf(file.content)'
    BY <1>1, <1>2, <2>1, <2>2, MustFacts DEF TodoOf, NewOf, EmptyMap
  <2> QED
    BY <1>1, <2>2, <2>3 DEF SettledInv, StartsEmpty, CollectsAll, ChangesAll, DeletedFirst,
       FollowsAfterwards, Collecting, Changing
<1>4. CASE ~Quiet
  <2>1. stage' \in {"entry", "watch", "wait"}
    BY DEF GetServers, AfterSync
  <2> QED
    BY <1>1, <1>2, <1>4, <2>1 DEF SettledInv, StartsEmpty, CollectsAll, ChangesAll, DeletedFirst,
       FollowsAfterwards, Collecting, Changing
<1> QED BY <1>3, <1>4

\* NextServer passes over entries without a length only.
LEMMA NextServerSettles ==
    ASSUME TypedInv, SettledInv, NextServer PROVE SettledInv'
<1>1. WatcherIsFresh' /\ ConfigFollows' /\ ReloadSucceeds' /\ Quiet' = Quiet /\ file' = file
  BY SyncFollows DEF SyncRoutes
<1>2. /\ stage = "entry" /\ newRoutes' = newRoutes /\ todo \in Seq(SizedServer)
      /\ misjudged' = misjudged
  BY DEF NextServer, Ready, TypedInv, SyncTyped
<1>3. StartsEmpty' /\ DeletedFirst' /\ FollowsAfterwards' /\ stage' \in {"entry", "lookup", "delete"}
  BY <1>2 DEF NextServer, StartsEmpty, DeletedFirst, FollowsAfterwards, Collecting, Changing
<1>4. Quiet => /\ file.content \in Content
               /\ TodoOf(file.content) /\ NewOf(file.content)
  BY <1>2, QuietContent DEF SettledInv, CollectsAll, Collecting
<1>5. CASE todo = <<>> /\ stage' = "delete"
  <2>1. Quiet => NewComplete(file.content)'
    BY <1>1, <1>2, <1>4, <1>5, RangeOfEmpty DEF TodoOf, NewComplete
  <2>2. Quiet => NewOf(file.content)'
    BY <1>1, <1>2, <1>4 DEF NewOf
  <2>3. CollectsAll' /\ ChangesAll'
    BY <1>1, <1>5, <2>1, <2>2 DEF CollectsAll, ChangesAll, Collecting
  <2> QED BY <1>1, <1>3, <2>3 DEF SettledInv
<1>6. CASE todo # <<>> /\ stage' \in {"entry", "lookup"}
           /\ (todo' = todo \/ (todo' = Tail(todo) /\ Head(todo).plen = NoPlen))
  <2>1. /\ Range(todo') \subseteq Range(todo)
        /\ \A s \in Range(todo) : s \in Range(todo') \/ s.plen = NoPlen
    BY <1>2, <1>6, RangeOfList
  <2>2. Quiet => TodoOf(file.content)'
    BY <1>1, <1>2, <1>4, <2>1, MustFacts DEF TodoOf
  <2>3. Quiet => NewOf(file.content)'
    BY <1>1, <1>2, <1>4 DEF NewOf
  <2>4. CollectsAll' /\ ChangesAll'
    BY <1>1, <1>6, <2>2, <2>3 DEF CollectsAll, ChangesAll, Changing
  <2> QED BY <1>1, <1>3, <2>4 DEF SettledInv
<1> QED
  BY <1>2, <1>5, <1>6 DEF NextServer

\* The lookup of an entry in the configuration it is from adds what must have
\* a route, and nothing that may not, unless it cannot list the interfaces.
LEMMA LookupDecides ==
    ASSUME Lookup, NEW c, config = c, NEW s, s = Head(todo), s.plen # NoPlen
    PROVE  \/ /\ newRoutes' = newRoutes /\ ~Remote(c, s, {Here, NoIP})
              /\ misjudged => misjudged'
           \/ /\ Remote(c, s, {Here}) \/ misjudged'
              /\ misjudged => misjudged'
              /\ newRoutes' = [p \in DOMAIN newRoutes \union {s.prefix} |->
                                 IF p = s.prefix THEN s.plen ELSE newRoutes[p]]
<1> DEFINE servers == Loaded[c]
           best == Best(servers, s.prefix)
<1>1. PICK r \in IF best = 0 THEN {[ips |-> <<>>]}
                 ELSE Resolutions(servers[best], s.prefix, <<>>, <<"away">>) :
         \E blind \in Blindness(r.ips) :
            /\ newRoutes' = IF Local(r.ips, TRUE, blind) THEN newRoutes
                            ELSE [p \in DOMAIN newRoutes \union {s.prefix} |->
                                    IF p = s.prefix THEN s.plen ELSE newRoutes[p]]
            /\ misjudged' = (misjudged \/ blind)
  BY DEF Lookup
<1>2. PICK blind \in Blindness(r.ips) :
            /\ newRoutes' = IF Local(r.ips, TRUE, blind) THEN newRoutes
                            ELSE [p \in DOMAIN newRoutes \union {s.prefix} |->
                                    IF p = s.prefix THEN s.plen ELSE newRoutes[p]]
            /\ misjudged' = (misjudged \/ blind)
  BY <1>1
<1>3. /\ Remote(c, s, {Here}) <=> (best # 0 /\ servers[best].ip \notin {Here})
      /\ Remote(c, s, {Here, NoIP}) <=> (best # 0 /\ servers[best].ip \notin {Here, NoIP})
  BY DEF Remote
<1> HIDE DEF best, servers
<1>4. CASE best = 0
  <2>1. r.ips = <<>>
    BY <1>1, <1>4
  <2>2. newRoutes' = newRoutes
    BY <1>2, <2>1 DEF Local
  <2>3. misjudged => misjudged'
    BY <1>2, Zenon
  <2> QED BY <1>3, <1>4, <2>2, <2>3, Zenon
<1>5. CASE best # 0 /\ servers[best].ip = NoIP
  BY <1>2, <1>3, <1>5 DEF NoIP, Here
<1>6. CASE best # 0 /\ servers[best].ip # NoIP
  <2>1. r.ips = <<servers[best].ip>>
    BY <1>1, <1>6 DEF Resolutions
  <2>2. Local(r.ips, TRUE, blind) <=> (~blind /\ servers[best].ip = Here)
    BY <2>1 DEF Local, Range
  <2>3. blind => misjudged'
    BY <1>2
  <2> QED BY <1>2, <1>3, <1>6, <2>2, <2>3
<1> QED BY <1>4, <1>5, <1>6

\* Lookup goes on to the next entry.
LEMMA LookupSettles ==
    ASSUME TypedInv, SettledInv, Lookup PROVE SettledInv'
<1>1. WatcherIsFresh' /\ ConfigFollows' /\ ReloadSucceeds' /\ Quiet' = Quiet /\ file' = file
      /\ (Quiet => config = file.content)
  BY SyncFollows DEF SyncRoutes
<1>2. /\ stage = "lookup" /\ stage' = "entry" /\ todo' = Tail(todo)
      /\ todo \in Seq(SizedServer) /\ todo # <<>> /\ Head(todo).plen # NoPlen
  BY DEF Lookup, Ready, TypedInv, SyncTyped
<1>3. StartsEmpty' /\ DeletedFirst' /\ FollowsAfterwards' /\ ChangesAll'
  BY <1>2 DEF StartsEmpty, DeletedFirst, FollowsAfterwards, ChangesAll, Collecting, Changing
<1>4. ASSUME Quiet PROVE TodoOf(file.content)' /\ NewOf(file.content)'
  <2> DEFINE c == file.content
             s == Head(todo)
             with == [p \in DOMAIN newRoutes \union {s.prefix} |->
                        IF p = s.prefix THEN s.plen ELSE newRoutes[p]]
  <2>1. c \in Content /\ config = c /\ c' = c
    BY <1>1, <1>4, QuietContent
  <2>2. TodoOf(c) /\ NewOf(c)
    BY <1>2, <1>4 DEF SettledInv, CollectsAll, Collecting
  <2>3. /\ s \in Range(todo) /\ Range(todo') \subseteq Range(todo)
        /\ \A x \in Range(todo) : x = s \/ x \in Range(todo')
    BY <1>2, RangeOfList
  <2>4. s \in Range(Loaded[c])
    BY <2>2, <2>3 DEF TodoOf
  <2>5. \/ newRoutes' = newRoutes /\ ~Remote(c, s, {Here, NoIP}) /\ (misjudged => misjudged')
        \/ /\ Remote(c, s, {Here}) \/ misjudged'
           /\ misjudged => misjudged'
           /\ newRoutes' = with
    BY <1>2, <2>1, LookupDecides
  <2> HIDE DEF c, s
  <2>6. ASSUME newRoutes' = newRoutes, ~Remote(c, s, {Here, NoIP}), misjudged => misjudged'
        PROVE  TodoOf(c)' /\ NewOf(c)'
    <3>1. s \notin MustRoute[c]
      BY <2>1, <2>6, MustFacts
    <3> QED
      BY <2>1, <2>2, <2>3, <2>6, <3>1 DEF TodoOf, NewOf
  <2>7. ASSUME Remote(c, s, {Here}) \/ misjudged', misjudged => misjudged', newRoutes' = with
        PROVE  TodoOf(c)' /\ NewOf(c)'
    <3>1. /\ DOMAIN newRoutes' = DOMAIN newRoutes \union {s.prefix}
          /\ newRoutes'[s.prefix] = s.plen
          /\ \A p \in DOMAIN newRoutes : p # s.prefix => newRoutes'[p] = newRoutes[p]
      BY <2>7
    <3>2. misjudged' \/ s.prefix \in MayRoute[c]
      BY <2>1, <2>4, <2>7, MayFacts
    <3>3. TodoOf(c)'
      BY <2>1, <2>2, <2>3, <3>1 DEF TodoOf
    <3>4. NewOf(c)'
      BY <2>1, <2>2, <2>4, <2>7, <3>1, <3>2 DEF NewOf
    <3> QED BY <3>3, <3>4
  <2> QED
    BY <2>5, <2>6, <2>7 DEF c
<1>5. CollectsAll'
  BY <1>1, <1>4 DEF CollectsAll
<1> QED BY <1>1, <1>3, <1>5 DEF SettledInv

\* DeleteRoutes leaves routes that are wanted.
LEMMA DeleteSettles ==
    ASSUME TypedInv, SettledInv, DeleteRoutes PROVE SettledInv'
<1>1. WatcherIsFresh' /\ ConfigFollows' /\ ReloadSucceeds' /\ Quiet' = Quiet /\ file' = file
  BY SyncFollows DEF SyncRoutes
<1>2. /\ stage = "delete" /\ stage' = "add" /\ newRoutes' = newRoutes
      /\ misjudged' = misjudged
  BY DEF DeleteRoutes, Ready
<1>3. DOMAIN currentRoutes' \subseteq DOMAIN newRoutes
  BY DEF DeleteRoutes
<1>4. StartsEmpty' /\ DeletedFirst' /\ FollowsAfterwards' /\ CollectsAll'
  BY <1>2, <1>3 DEF StartsEmpty, DeletedFirst, FollowsAfterwards, CollectsAll, Collecting, Changing
<1>5. Quiet => NewOf(file.content) /\ NewComplete(file.content)
  BY <1>2 DEF SettledInv, ChangesAll, Changing
<1>6. ChangesAll'
  BY <1>1, <1>2, <1>5 DEF ChangesAll, NewOf, NewComplete
<1> QED BY <1>1, <1>4, <1>6 DEF SettledInv

\* AddRoutes gives every prefix wanted a route, if the kernel does not fail.
LEMMA AddSettles ==
    ASSUME TypedInv, SettledInv, AddRoutes PROVE SettledInv'
<1>1. WatcherIsFresh' /\ ConfigFollows' /\ ReloadSucceeds' /\ Quiet' = Quiet /\ file' = file
  BY SyncFollows DEF SyncRoutes
<1>2. /\ stage = "add" /\ stage' \in {"watch", "wait"} /\ newRoutes' = EmptyMap
      /\ misjudged' = misjudged
  BY DEF AddRoutes, Ready, AfterSync
<1>3. StartsEmpty' /\ DeletedFirst' /\ ChangesAll' /\ CollectsAll'
  BY <1>2 DEF StartsEmpty, DeletedFirst, ChangesAll, CollectsAll, Collecting, Changing
<1>4. ASSUME Quiet PROVE KernelFollows(file.content)'
  <2> DEFINE c == file.content
             new == DOMAIN newRoutes \ DOMAIN currentRoutes
             Key(p) == KernelRoute(p, newRoutes[p])
  <2>1. c \in Content /\ c' = c
    BY <1>1, <1>4, QuietContent
  <2>2. NewOf(c) /\ NewComplete(c) /\ DOMAIN currentRoutes \subseteq DOMAIN newRoutes
    BY <1>2, <1>4 DEF SettledInv, ChangesAll, DeletedFirst, Changing
  <2>3. PICK A \in Added(new) :
           /\ kernelRoutes' = kernelRoutes \union {Key(p) : p \in A}
           /\ DOMAIN currentRoutes' = DOMAIN currentRoutes \union A
    BY DEF AddRoutes
  <2>4. /\ A \subseteq new
        /\ \A p \in new \ A : Key(p) \in kernelRoutes \/ \E q \in A : Key(q) = Key(p)
    BY <1>4, <2>3 DEF Added, Quiet
  <2> HIDE DEF c, Key
  <2>5. ASSUME NEW p \in DOMAIN newRoutes PROVE HasRoute(c, p)'
    <3>1. CASE p \in DOMAIN currentRoutes \union A
      BY <2>1, <2>3, <3>1 DEF HasRoute
    <3>2. CASE p \in new \ A
      <4>1. Key(p) \in kernelRoutes'
        BY <2>3, <2>4, <3>2
      <4>2. \E t \in Range(Loaded[c]) : t.prefix = p /\ t.plen = newRoutes[p]
        BY <2>2, <2>5 DEF NewOf
      <4>3. \E t \in Range(Loaded[c]) : t.prefix = p /\ KernelRoute(p, t.plen) \in kernelRoutes'
        BY <4>1, <4>2 DEF Key
      <4> QED BY <2>1, <4>3 DEF HasRoute
    <3> QED BY <2>5, <3>1, <3>2
  <2>6. misjudged' \/ DOMAIN currentRoutes' \subseteq MayRoute[c]
    BY <1>2, <2>2, <2>3, <2>4 DEF NewOf
  <2>7. \A s \in MustRoute[c] : HasRoute(c, s.prefix)'
    BY <2>2, <2>5 DEF NewComplete
  <2> QED BY <2>1, <2>6, <2>7 DEF KernelFollows, c
<1>5. FollowsAfterwards'
  BY <1>1, <1>4 DEF FollowsAfterwards
<1> QED BY <1>1, <1>3, <1>5 DEF SettledInv

(***************************************************************************)
(* watchConfig.                                                            *)
(***************************************************************************)
\* Setting the watch, and giving up, change nothing else.
LEMMA WatchSettles ==
    ASSUME TypedInv, SettledInv, AddWatch \/ WatchFails PROVE SettledInv'
<1>1. /\ UNCHANGED <<configVars, newRoutes, currentRoutes, kernelRoutes, event, heard,
                     ioctlFails, overtaken, misjudged>>
      /\ stage \in {"watch", "wait"} /\ stage' \in {"wait", "dead"}
  BY DEF AddWatch, WatchFails, Ready, envVars
<1>2. Quiet' = Quiet /\ file' = file /\ config' = config /\ pc' = pc /\ loc' = loc
  BY <1>1 DEF Quiet, configVars
<1>3. WatcherIsFresh' /\ ConfigFollows' /\ ReloadSucceeds'
  BY <1>1, <1>2 DEF SettledInv, WatcherIsFresh, ConfigFollows, ReloadSucceeds
<1>4. StartsEmpty' /\ DeletedFirst' /\ CollectsAll' /\ ChangesAll'
  BY <1>1 DEF SettledInv, StartsEmpty, DeletedFirst, CollectsAll, ChangesAll, Collecting, Changing
<1>5. FollowsAfterwards'
  BY <1>1, <1>2 DEF SettledInv, FollowsAfterwards, KernelFollows, HasRoute
<1> QED BY <1>3, <1>4, <1>5 DEF SettledInv

\* An event read starts a reload.
LEMMA EventSettles ==
    ASSUME TypedInv, SettledInv, ReadEvent PROVE SettledInv'
<1>1. pc'[Watcher] = "stat"
  BY GoroutineAssumption DEF ReadEvent, Call, TypedInv, CacheInv, ConfigTypeOK
<1>2. stage = "wait" /\ stage' = "reload" /\ newRoutes' = newRoutes
  BY DEF ReadEvent, Ready
<1> QED
  BY <1>1, <1>2 DEF SettledInv, WatcherIsFresh, ConfigFollows, ReloadSucceeds, StartsEmpty,
     CollectsAll, ChangesAll, DeletedFirst, FollowsAfterwards, Collecting, Changing

\* Unless it failed, which it does not while it is quiet, a sync follows.
LEMMA ReloadedSettles ==
    ASSUME TypedInv, SettledInv, Reloaded PROVE SettledInv'
<1>1. /\ UNCHANGED <<configVars, newRoutes, event, heard, ioctlFails, overtaken>>
      /\ stage = "reload" /\ pc[Watcher] = "idle"
      /\ stage' = IF loc[Watcher].ok THEN "list" ELSE "wait"
  BY DEF Reloaded, Ready, envVars
<1>2. Quiet' = Quiet /\ file' = file /\ config' = config /\ pc' = pc /\ loc' = loc
  BY <1>1 DEF Quiet, configVars
<1>3. Quiet => stage' = "list"
  BY <1>1 DEF SettledInv, ReloadSucceeds
<1>4. WatcherIsFresh' /\ ConfigFollows' /\ ReloadSucceeds'
  BY <1>1, <1>2 DEF SettledInv, WatcherIsFresh, ConfigFollows, ReloadSucceeds
<1>5. StartsEmpty' /\ DeletedFirst' /\ CollectsAll' /\ ChangesAll'
  BY <1>1 DEF SettledInv, StartsEmpty, DeletedFirst, CollectsAll, ChangesAll, Collecting, Changing
<1>6. FollowsAfterwards'
  BY <1>2, <1>3 DEF FollowsAfterwards
<1> QED BY <1>4, <1>5, <1>6 DEF SettledInv

\* A call of the TUN reader begins in Reload.
LEMMA ReaderSettles ==
    ASSUME TypedInv, SettledInv, NEW g \in Reader, GetServer(g) PROVE SettledInv'
<1>1. /\ UNCHANGED <<file, config, loc, stage, todo, newRoutes, currentRoutes, kernelRoutes,
                     event, heard, ioctlFails, overtaken, misjudged>>
      /\ pc' = [pc EXCEPT ![g] = "stat"]
  BY DEF GetServer, Call, syncVars, envVars
<1>2. pc'[Watcher] = pc[Watcher]
  BY <1>1, GoroutineAssumption DEF TypedInv, CacheInv, ConfigTypeOK
<1>3. Quiet' = Quiet
  BY <1>1 DEF Quiet
<1>4. WatcherIsFresh' /\ ConfigFollows' /\ ReloadSucceeds'
  BY <1>1, <1>2, <1>3 DEF SettledInv, WatcherIsFresh, ConfigFollows, ReloadSucceeds
<1>5. StartsEmpty' /\ DeletedFirst'
  BY <1>1 DEF SettledInv, StartsEmpty, DeletedFirst, Collecting, Changing
<1>6. CollectsAll' /\ ChangesAll'
  BY <1>1, <1>3 DEF SettledInv, CollectsAll, ChangesAll, Collecting, Changing, TodoOf, NewOf,
                    NewComplete
<1>7. FollowsAfterwards'
  BY <1>1, <1>3 DEF SettledInv, FollowsAfterwards, KernelFollows, HasRoute
<1> QED BY <1>4, <1>5, <1>6, <1>7 DEF SettledInv

\* Steps that change nothing keep it too.
LEMMA StutterSettles == ASSUME SettledInv, UNCHANGED vars PROVE SettledInv'
<1>1. UNCHANGED <<file, config, pc, loc, stage, todo, newRoutes, currentRoutes, kernelRoutes,
                  event, heard, ioctlFails, overtaken, misjudged>>
  BY DEF vars, configVars, syncVars, envVars
<1>2. Quiet' = Quiet
  BY <1>1 DEF Quiet
<1>3. WatcherIsFresh' /\ ConfigFollows' /\ ReloadSucceeds'
  BY <1>1, <1>2 DEF SettledInv, WatcherIsFresh, ConfigFollows, ReloadSucceeds
<1>4. StartsEmpty' /\ DeletedFirst'
  BY <1>1 DEF SettledInv, StartsEmpty, DeletedFirst, Collecting, Changing
<1>5. CollectsAll' /\ ChangesAll'
  BY <1>1, <1>2 DEF SettledInv, CollectsAll, ChangesAll, Collecting, Changing, TodoOf, NewOf,
                    NewComplete
<1>6. FollowsAfterwards'
  BY <1>1, <1>2 DEF SettledInv, FollowsAfterwards, KernelFollows, HasRoute
<1> QED BY <1>3, <1>4, <1>5, <1>6 DEF SettledInv

\* So the invariant is inductive.
LEMMA SettledStep == TypedInv /\ SettledInv /\ [Next]_vars => SettledInv'
<1> SUFFICES ASSUME TypedInv, SettledInv, [Next]_vars PROVE SettledInv'
  OBVIOUS
<1>1. CASE (\E c \in Content \union {Broken} : Edit(c)) \/ \E c \in Content : Replace(c)
  BY <1>1, WritesKeepSettled
<1>2. CASE \E g \in Goroutine : ReloadStep(g)
  BY <1>2, ReloadsKeepSettled
<1>3. CASE \E g \in Reader : GetServer(g)
  BY <1>3, ReaderSettles
<1>4. CASE SyncRoutes
  BY <1>4, GetServersSettles, NextServerSettles, LookupSettles, DeleteSettles, AddSettles
     DEF SyncRoutes
<1>5. CASE WatchConfig \/ WatchFails
  BY <1>5, WatchSettles, EventSettles, ReloadedSettles DEF WatchConfig
<1>6. CASE UNCHANGED vars
  BY <1>6, StutterSettles
<1> QED BY <1>1, <1>2, <1>3, <1>4, <1>5, <1>6 DEF Next

(***************************************************************************)
(* watchConfig and SyncRoutes of tun-gateway: whenever the watcher waits   *)
(* with no event to read, configuration and routes are those of the file,  *)
(* for every file, every number of goroutines that reload it and every     *)
(* interleaving of them with its changes, but for the exceptions that      *)
(* RoutesSettled names.                                                    *)
(***************************************************************************)
THEOREM RoutesAreSettled == Spec => []RoutesSettled
<1>1. Init => TypedInv /\ SettledInv
  BY InitTyped, InitSettled DEF TypedInv
<1>2. TypedInv /\ [Next]_vars => TypedInv'
  BY TypedStep DEF TypedInv
<1> QED
  BY <1>1, <1>2, SettledStep, SettledInvSettles, PTL DEF Spec
=============================================================================
