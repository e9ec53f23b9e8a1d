------------------------------ MODULE RouteSync ------------------------------
(***************************************************************************)
(* The kernel routes of src/cmd/tun-gateway/main.go.  main syncs them at   *)
(* the start; then watchConfig reloads the configuration and syncs again   *)
(* for every inotify event of the file.  Meanwhile the TUN reader reloads  *)
(* it too, in GetServer, for every call.                                   *)
(*                                                                         *)
(* External: inotify, which reports changes of the file it was given, and  *)
(* not of one that is renamed over it, except for a last event when the    *)
(* watched one goes; and the kernel's route table, which refuses a route   *)
(* it has.                                                                 *)
(***************************************************************************)
EXTENDS ConfigManager, Routing

CONSTANTS Watcher,    \* main, then the goroutine of watchConfig
          Reader,     \* goroutines that call GetServer
          ServersOf   \* what each content says of the servers

ASSUME GoroutineAssumption == Goroutine = Reader \union {Watcher} /\ Watcher \notin Reader
ASSUME ServersAssumption == ServersOf \in [Content -> Seq(ServerEntry)]

VARIABLES stage,          \* where in SyncRoutes or watchConfig the watcher is
          todo,           \* the servers SyncRoutes has still to look at
          newRoutes,      \* what it has collected: digits for each prefix
          currentRoutes,  \* tg.currentRoutes: digits for each prefix
          kernelRoutes,   \* the routes the kernel has
          watch,          \* the inotify watch: none yet, set, or lost
          event,          \* an event waits to be read
          ioctlFails,     \* whether the kernel may fail to change a route
          heard,          \* history: the last change of the file was watched
          overtaken,      \* history: since watchConfig last reloaded the file, what
                          \*   it says was replaced in memory by something else
          leaked,         \* history: routes that could not be deleted
          misjudged       \* history: the last sync took an address of this host for
                          \*   a remote one, as it could not list the interfaces

syncVars == <<stage, todo, newRoutes, currentRoutes>>
envVars == <<watch, event, heard>>
vars == <<configVars, syncVars, kernelRoutes, envVars, ioctlFails, overtaken, leaked,
          misjudged>>

Loaded == [c \in Content |-> ValidServers(ServersOf[c])]
LoadedServer == UNION {Range(Loaded[c]) : c \in Content}
Prefix == {s.prefix : s \in LoadedServer}
IsRouteMap(m) == DOMAIN m \subseteq Prefix /\ \A p \in DOMAIN m : m[p] \in Nat
EmptyMap == [p \in {} |-> 0]

\* x25_add_route keeps the significant digits.
KernelRoute(p, digits) ==
    <<SubSeq(p, 1, IF digits < Len(p) THEN digits ELSE Len(p)), digits>>
KernelRoutes == {KernelRoute(s.prefix, s.plen) : s \in LoadedServer}
RoutesOf(m) == {KernelRoute(p, m[p]) : p \in DOMAIN m}

Init ==
    /\ NewConfigManager
    /\ stage = "list" /\ todo = <<>>
    /\ newRoutes = EmptyMap /\ currentRoutes = EmptyMap
    /\ kernelRoutes = {} /\ leaked = {}
    /\ watch = "none" /\ event = FALSE /\ heard = TRUE
    /\ ioctlFails \in BOOLEAN
    /\ overtaken = FALSE /\ misjudged = FALSE

-----------------------------------------------------------------------------
\* An editor writes the file in place.
Edit(c) ==
    /\ Write(c)
    /\ event' = (event \/ watch = "set")
    /\ heard' = (watch = "set")
    /\ UNCHANGED <<syncVars, kernelRoutes, watch, ioctlFails, overtaken, leaked, misjudged>>

\* A new file is renamed over it.
Replace(c) ==
    /\ Write(c)
    /\ event' = (event \/ watch = "set")
    /\ heard' = (watch = "set")
    /\ watch' = IF watch = "set" THEN "lost" ELSE watch
    /\ UNCHANGED <<syncVars, kernelRoutes, ioctlFails, overtaken, leaked, misjudged>>

\* A step of Reload.  It may replace the newest configuration by an older one.
ReloadStep(g) ==
    /\ Reload(g)
    /\ overtaken' = /\ g # Watcher \/ stage # "reload"
                    /\ overtaken \/ /\ pc[g] = "store"
                                    /\ config = file.content
                                    /\ loc[g].cfg # file.content
    /\ UNCHANGED <<syncVars, kernelRoutes, envVars, ioctlFails, leaked, misjudged>>

\* The TUN reader, which main starts after the first sync, routes a call.
GetServer(g) ==
    /\ g \in Reader
    /\ watch # "none" \/ stage \in {"watch", "dead"}
    /\ Call(g)
    /\ UNCHANGED <<file, config, lastMod, loc, syncVars, kernelRoutes, envVars,
                   ioctlFails, overtaken, leaked, misjudged>>

-----------------------------------------------------------------------------
\* The watcher's goroutine is not inside Reload.
Ready(s) == stage = s /\ pc[Watcher] = "idle"
AfterSync == IF watch = "none" THEN "watch" ELSE "wait"

\* SyncRoutes asks for the servers, without a reload.
GetServers ==
    /\ Ready("list")
    /\ \/ /\ config = NoConfig
          /\ stage' = AfterSync
          /\ UNCHANGED <<todo, misjudged>>
       \/ /\ config # NoConfig
          /\ stage' = "entry"
          /\ todo' = Loaded[config]
          /\ misjudged' = FALSE
    /\ UNCHANGED <<configVars, newRoutes, currentRoutes, kernelRoutes, envVars, ioctlFails,
                   overtaken, leaked>>

\* The next entry; one without a length is passed over.
NextServer ==
    /\ Ready("entry")
    /\ \/ /\ todo = <<>>
          /\ stage' = "delete"
          /\ UNCHANGED <<todo, pc>>
       \/ /\ todo # <<>> /\ Head(todo).plen = NoPlen
          /\ todo' = Tail(todo)
          /\ UNCHANGED <<stage, pc>>
       \/ /\ todo # <<>> /\ Head(todo).plen # NoPlen
          /\ Call(Watcher)
          /\ stage' = "lookup"
          /\ UNCHANGED todo
    /\ UNCHANGED <<file, config, lastMod, loc, newRoutes, currentRoutes, kernelRoutes,
                   envVars, ioctlFails, overtaken, leaked, misjudged>>

\* GetServer(prefix, true), after its own reload: by now the configuration
\* need not be the one the entry is from.
Lookup ==
    /\ Ready("lookup")
    /\ LET addr == Head(todo).prefix
           servers == Loaded[config]
           best == Best(servers, addr)
       IN  \E r \in IF best = 0 THEN {[ips |-> <<>>]}
                    ELSE Resolutions(servers[best], addr, <<>>, <<"away">>) :
          \E blind \in Blindness(r.ips) :
              /\ newRoutes' = IF Local(r.ips, TRUE, blind) THEN newRoutes
                              ELSE [p \in DOMAIN newRoutes \union {addr} |->
                                      IF p = addr THEN Head(todo).plen ELSE newRoutes[p]]
              /\ misjudged' = (misjudged \/ blind)
    /\ todo' = Tail(todo)
    /\ stage' = "entry"
    /\ UNCHANGED <<configVars, currentRoutes, kernelRoutes, envVars, ioctlFails,
                   overtaken, leaked>>

\* Routes no longer wanted are forgotten even if the kernel keeps them.
DeleteRoutes ==
    /\ Ready("delete")
    /\ LET gone == DOMAIN currentRoutes \ DOMAIN newRoutes
       IN  \E failed \in SUBSET gone :
              /\ failed # {} => ioctlFails
              /\ LET out == {KernelRoute(p, currentRoutes[p]) : p \in gone \ failed}
                     left == {KernelRoute(p, currentRoutes[p]) : p \in failed}
                 IN  /\ kernelRoutes' = kernelRoutes \ out
                     /\ leaked' = leaked \union left
              /\ currentRoutes' = [p \in DOMAIN currentRoutes \ gone |-> currentRoutes[p]]
    /\ stage' = "add"
    /\ UNCHANGED <<configVars, todo, newRoutes, envVars, ioctlFails, overtaken, misjudged>>

\* The additions that succeed: of routes for the same digits only one.
Added(new) ==
    {A \in SUBSET new :
        LET key(p) == KernelRoute(p, newRoutes[p])
        IN  /\ \A p \in A : key(p) \notin kernelRoutes
            /\ \A p, q \in A : key(p) = key(q) => p = q
            /\ ioctlFails \/ \A p \in new \ A : \/ key(p) \in kernelRoutes
                                               \/ \E q \in A : key(q) = key(p)}

\* Mutant: a route is remembered before the kernel has accepted it.
AddRoutesEager ==
    /\ Ready("add")
    /\ LET new == DOMAIN newRoutes \ DOMAIN currentRoutes
       IN  \E A \in Added(new) :
              /\ kernelRoutes' = kernelRoutes \union {KernelRoute(p, newRoutes[p]) : p \in A}
              /\ currentRoutes' = [p \in DOMAIN currentRoutes \union new |->
                                     IF p \in new THEN newRoutes[p] ELSE currentRoutes[p]]
    /\ stage' = AfterSync
    /\ newRoutes' = EmptyMap
    /\ UNCHANGED <<configVars, todo, envVars, ioctlFails, overtaken, leaked, misjudged>>

\* A route whose addition fails is tried again by the next sync.
AddRoutes ==
    /\ Ready("add")
    /\ LET new == DOMAIN newRoutes \ DOMAIN currentRoutes
       IN  \E A \in Added(new) :
              /\ kernelRoutes' = kernelRoutes \union {KernelRoute(p, newRoutes[p]) : p \in A}
              /\ currentRoutes' = [p \in DOMAIN currentRoutes \union A |->
                                     IF p \in A THEN newRoutes[p] ELSE currentRoutes[p]]
    /\ stage' = AfterSync
    /\ newRoutes' = EmptyMap
    /\ UNCHANGED <<configVars, todo, envVars, ioctlFails, overtaken, leaked, misjudged>>

-----------------------------------------------------------------------------
\* watchConfig starts to watch the file, at whatever it now says.
AddWatch ==
    /\ Ready("watch")
    /\ stage' = "wait"
    /\ watch' = "set"
    /\ UNCHANGED <<configVars, todo, newRoutes, currentRoutes, kernelRoutes, event, heard,
                   ioctlFails, overtaken, leaked, misjudged>>

\* inotify fails, and watchConfig returns.
WatchFails ==
    /\ Ready("watch") \/ Ready("wait")
    /\ stage' = "dead"
    /\ UNCHANGED <<configVars, todo, newRoutes, currentRoutes, kernelRoutes, envVars,
                   ioctlFails, overtaken, leaked, misjudged>>

ReadEvent ==
    /\ Ready("wait")
    /\ event
    /\ event' = FALSE
    /\ Call(Watcher)
    /\ stage' = "reload"
    /\ UNCHANGED <<file, config, lastMod, loc, todo, newRoutes, currentRoutes, kernelRoutes,
                   watch, heard, ioctlFails, overtaken, leaked, misjudged>>

\* Mutant: events that have come during the reload are thrown away with it.
ReloadedDrains ==
    /\ Ready("reload")
    /\ stage' = IF loc[Watcher].ok THEN "list" ELSE "wait"
    /\ event' = FALSE
    /\ UNCHANGED <<configVars, todo, newRoutes, currentRoutes, kernelRoutes, watch, heard,
                   ioctlFails, overtaken, leaked, misjudged>>

\* Routes are synced unless the reload failed.
Reloaded ==
    /\ Ready("reload")
    /\ stage' = IF loc[Watcher].ok THEN "list" ELSE "wait"
    /\ UNCHANGED <<configVars, todo, newRoutes, currentRoutes, kernelRoutes, envVars,
                   ioctlFails, overtaken, leaked, misjudged>>

SyncRoutes == GetServers \/ NextServer \/ Lookup \/ DeleteRoutes \/ AddRoutes
WatchConfig == AddWatch \/ ReadEvent \/ Reloaded

Next == \/ \E c \in Content \union {Broken} : Edit(c)
        \/ \E c \in Content : Replace(c)
        \/ \E g \in Goroutine : ReloadStep(g)
        \/ \E g \in Reader : GetServer(g)
        \/ SyncRoutes
        \/ WatchConfig
        \/ WatchFails

\* Goroutines run; no call, no change of the file and no failure need come.
Fairness == /\ \A g \in Goroutine : WF_vars(ReloadStep(g))
            /\ WF_vars(SyncRoutes)
            /\ WF_vars(WatchConfig)

Spec == Init /\ [][Next]_vars /\ Fairness

-----------------------------------------------------------------------------
\* Every variable has its type.
TypeOK ==
    /\ ConfigTypeOK
    /\ stage \in {"list", "entry", "lookup", "delete", "add", "watch", "wait", "reload", "dead"}
    /\ Range(todo) \subseteq LoadedServer
    /\ IsRouteMap(newRoutes) /\ IsRouteMap(currentRoutes)
    /\ kernelRoutes \union leaked \subseteq KernelRoutes
    /\ watch \in {"none", "set", "lost"}
    /\ {event, ioctlFails, heard, overtaken, misjudged} \subseteq BOOLEAN

(***************************************************************************)
(* The routes in the kernel are those in currentRoutes and those a failed  *)
(* DeleteRoute has left behind, nothing else, although additions and       *)
(* deletions fail one by one, and although two prefixes of a configuration *)
(* can be the same route for the kernel.                                   *)
(***************************************************************************)
RoutesAccounted == kernelRoutes = RoutesOf(currentRoutes) \union leaked

\* For content c: the server GetServer finds for the prefix of an entry is not
\* this host.  Then the prefix may have a route, and must have one if that
\* server has an address and needs no name to be resolved.
Remote(c, srv, excluded) ==
    LET servers == Loaded[c]
        best == Best(servers, srv.prefix)
    IN  srv.plen # NoPlen /\ best # 0 /\ servers[best].ip \notin excluded
MayRoute == [c \in Content |-> {s.prefix : s \in {t \in Range(Loaded[c]) : Remote(c, t, {Here})}}]
MustRoute == [c \in Content |-> {s \in Range(Loaded[c]) : /\ s.plen = Len(s.prefix)
                                                         /\ Remote(c, s, {Here, NoIP})}]

\* Two prefixes can be the same route for the kernel, which refuses the second.
HasRoute(c, p) ==
    \/ p \in DOMAIN currentRoutes
    \/ \E t \in Range(Loaded[c]) : t.prefix = p /\ KernelRoute(p, t.plen) \in kernelRoutes

RoutesFollow(c) == /\ config = c
                   /\ \A s \in MustRoute[c] : HasRoute(c, s.prefix)
                   /\ misjudged \/ DOMAIN currentRoutes \subseteq MayRoute[c]
RoutesFollowFile == file.content # Broken => RoutesFollow(file.content)

(***************************************************************************)
(* Whenever watchConfig waits with no event to read, the configuration in  *)
(* memory and the kernel's routes are those of the file, however its       *)
(* changes, the reloads of the TUN reader and the lookups of SyncRoutes    *)
(* have interleaved.  (SyncRoutes compares prefixes: a route keeps the     *)
(* digits it was added with.)  The exceptions are these: a route ioctl     *)
(* that failed, a change inotify did not report, and a Reload of another   *)
(* goroutine that stored an older configuration over the newest after      *)
(* watchConfig had reloaded it.  If the last sync could not list the       *)
(* interfaces there may be routes to this host as well, but none missing.  *)
(***************************************************************************)
RoutesSettled ==
    stage \in {"watch", "wait"} /\ ~event /\ ~ioctlFails /\ heard /\ ~overtaken
        => RoutesFollowFile

(***************************************************************************)
(* When the file is no longer changed that comes about and stays so,       *)
(* whichever goroutine loaded the file and however events were merged,     *)
(* with the same exceptions.                                               *)
(***************************************************************************)
RoutesSettle ==
    <>[](RoutesFollowFile \/ ioctlFails \/ ~heard \/ overtaken \/ stage = "dead")
=============================================================================
