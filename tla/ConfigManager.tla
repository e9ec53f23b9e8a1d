---------------------------- MODULE ConfigManager ----------------------------
(***************************************************************************)
(* src/config.go: the configuration a process keeps in memory, reloaded by *)
(* any goroutine that routes a call.  Reload stats the file, compares the  *)
(* modification time with the one of the last load, reads and parses the   *)
(* file, and stores the result; only the store holds the mutex.            *)
(*                                                                         *)
(* The file is changed by others at any time.  A change that leaves it     *)
(* unparsable (an editor that has truncated it, say) makes it Broken.      *)
(* Every change gives the file a later modification time.                  *)
(***************************************************************************)
EXTENDS Integers

CONSTANTS Goroutine,   \* the goroutines that call Reload
          Content,     \* what a file that parses can say
          Broken,      \* what a file that does not parse says
          NoConfig,    \* the configuration before the first successful load
          MaxEdits     \* bound: how often the file changes

ASSUME ContentAssumption == Broken \notin Content /\ NoConfig \notin Content
ASSUME EditAssumption == MaxEdits \in Nat

VARIABLES file,     \* the file: what it says, and its modification time
          config,   \* cm.config
          lastMod,  \* cm.lastMod, -1 for the zero time
          pc,       \* where in Reload a goroutine is, idle if it is not
          loc       \* its variables: info.ModTime(), cfg, and err == nil

configVars == <<file, config, lastMod, pc, loc>>

MTime == 0 .. MaxEdits

ConfigTypeOK ==
    /\ file \in [content : Content \union {Broken}, mtime : MTime]
    /\ config \in Content \union {NoConfig}
    /\ lastMod \in MTime \union {-1}
    /\ pc \in [Goroutine -> {"idle", "stat", "compare", "read", "store"}]
    /\ loc \in [Goroutine -> [mtime : MTime, cfg : Content \union {NoConfig},
                              ok : BOOLEAN]]

\* NewConfigManager has tried to load the file.
NewConfigManager ==
    /\ file \in [content : Content \union {Broken}, mtime : {0}]
    /\ IF file.content = Broken
       THEN config = NoConfig /\ lastMod = -1
       ELSE config = file.content /\ lastMod = file.mtime
    /\ pc = [g \in Goroutine |-> "idle"]
    /\ loc = [g \in Goroutine |-> [mtime |-> 0, cfg |-> NoConfig, ok |-> TRUE]]

\* Somebody changes the file.
Write(c) ==
    /\ file.mtime < MaxEdits
    /\ file' = [content |-> c, mtime |-> file.mtime + 1]
    /\ UNCHANGED <<config, lastMod, pc, loc>>

\* A goroutine calls Reload.
Call(g) == pc[g] = "idle" /\ pc' = [pc EXCEPT ![g] = "stat"]

\* Reload returns; only whether it failed is looked at afterwards.
NoLocals(ok) == [mtime |-> 0, cfg |-> NoConfig, ok |-> ok]
Return(g, ok) == /\ pc' = [pc EXCEPT ![g] = "idle"]
                 /\ loc' = [loc EXCEPT ![g] = NoLocals(ok)]

Stat(g) ==
    /\ pc[g] = "stat"
    /\ loc' = [loc EXCEPT ![g].mtime = file.mtime]
    /\ pc' = [pc EXCEPT ![g] = "compare"]
    /\ UNCHANGED <<file, config, lastMod>>

\* Mutant: a file that some other goroutine has loaded already counts as a failure.
CompareOwn(g) ==
    /\ pc[g] = "compare"
    /\ \/ /\ loc[g].mtime = lastMod
          /\ Return(g, FALSE)
       \/ /\ loc[g].mtime # lastMod
          /\ pc' = [pc EXCEPT ![g] = "read"]
          /\ UNCHANGED loc
    /\ UNCHANGED <<file, config, lastMod>>

\* lastMod is read without the mutex; nothing is loaded if it is the file's.
Compare(g) ==
    /\ pc[g] = "compare"
    /\ \/ /\ loc[g].mtime = lastMod
          /\ Return(g, TRUE)
       \/ /\ loc[g].mtime # lastMod
          /\ pc' = [pc EXCEPT ![g] = "read"]
          /\ UNCHANGED loc
    /\ UNCHANGED <<file, config, lastMod>>

\* Mutant: what could not be parsed is kept.
ReadFileAnyway(g) ==
    /\ pc[g] = "read"
    /\ loc' = [loc EXCEPT ![g].cfg = file.content]
    /\ pc' = [pc EXCEPT ![g] = "store"]
    /\ UNCHANGED <<file, config, lastMod>>

\* The file is read and parsed, the defaults are set and the entries checked.
ReadFile(g) ==
    /\ pc[g] = "read"
    /\ \/ /\ file.content = Broken
          /\ Return(g, FALSE)
       \/ /\ file.content # Broken
          /\ loc' = [loc EXCEPT ![g].cfg = file.content]
          /\ pc' = [pc EXCEPT ![g] = "store"]
    /\ UNCHANGED <<file, config, lastMod>>

\* Mutant: the time of the file is taken after it has been read.
StoreLateStat(g) ==
    /\ pc[g] = "store"
    /\ config' = loc[g].cfg
    /\ lastMod' = file.mtime
    /\ Return(g, TRUE)
    /\ UNCHANGED file

\* The one step under the mutex.
Store(g) ==
    /\ pc[g] = "store"
    /\ config' = loc[g].cfg
    /\ lastMod' = loc[g].mtime
    /\ Return(g, TRUE)
    /\ UNCHANGED file

Reload(g) == Stat(g) \/ Compare(g) \/ ReadFile(g) \/ Store(g)

\* Any goroutine, and whoever changes the file.
ConfigNext ==
    \/ \E c \in Content \union {Broken} : Write(c)
    \/ \E g \in Goroutine : \/ Call(g) /\ UNCHANGED <<file, config, lastMod, loc>>
                          \/ Reload(g)

ConfigSpec == NewConfigManager /\ [][ConfigNext]_configVars

(***************************************************************************)
(* If the time kept in memory is the file's then so is the configuration:  *)
(* a Reload that finds the two times equal misses nothing, although        *)
(* several goroutines stat, read and store without excluding each other    *)
(* and the file changes between the steps of each.                         *)
(***************************************************************************)
CacheIsSound == lastMod = file.mtime => config = file.content
=============================================================================
