---------------------------- MODULE ConfigReload ----------------------------
(* How the language server follows its config file: the config watcher      *)
(* (internal/lsp/config/watcher.go), the config worker (StartConfigWorker,  *)
(* loadConfig), and the handlers that point the watcher at a file           *)
(* (loadWorkspace, handleWorkspaceDidChangeWatchedFiles in server.go):      *)
(*                                                                          *)
(*   openers, creators --pathUpdates--> watcher --Reload, Drop--> worker    *)
(*                         fsnotify --events--/                             *)
(*                                                                          *)
(* The three channels hold one element each and every send blocks.          *)
(* loadWorkspace sends on pathUpdates while it holds loadedConfigLock, the  *)
(* lock the worker needs to put a config in force.                          *)
(*                                                                          *)
(* There is one config path; contents on disk are numbered by the order in  *)
(* which they were written, and 0 is no file, or the default config.        *)
EXTENDS Naturals, Sequences

CONSTANTS
  Openers,     \* handlers of didOpen of a server without a workspace
  Creators,    \* handlers of didChangeWatchedFiles for a created config file
  Removes,     \* whether the file may be removed (or renamed away)
  MaxChanges,  \* bound on the number of changes to the file
  Free         \* nobody holds the lock

ASSUME OpenersAndCreators ==
  /\ Openers \intersect Creators = {}
  /\ "worker" \notin Openers \union Creators
  /\ Free \notin Openers \union Creators \union {"worker"}
ASSUME RemovesIsBoolean == Removes \in BOOLEAN
ASSUME MaxChangesIsNat == MaxChanges \in Nat

VARIABLES
  file,         \* the contents of the config file
  changes,      \* number of changes made to it
  watched,      \* fsnotify has a watch on the file
  events,       \* events fsnotify has not delivered yet
  pathUpdates,  \* number of elements in the pathUpdates channel
  reload,       \* number of elements in Reload
  drop,         \* number of elements in Drop
  watcher,      \* control state of Watcher.loop
  watching,     \* w.path is set
  worker,       \* control state of the config worker
  read,         \* the contents the worker has read
  lock,         \* who holds loadedConfigLock for writing
  workspaceSet, \* the server has a workspace
  loaded,       \* loadedConfig
  stored,       \* the config in the Rego store
  handler       \* control state of openers and creators

disk == <<file, changes>>
notifier == <<watched, events>>
channels == <<pathUpdates, reload, drop>>
watcherState == <<watcher, watching>>
workerState == <<worker, read, stored>>
server == <<lock, workspaceSet, loaded>>
vars == <<disk, notifier, channels, watcherState, workerState, server, handler>>

Handlers == Openers \union Creators
Contents == 0..MaxChanges

TypeOK ==
  /\ file \in Contents
  /\ changes \in Contents
  /\ watched \in BOOLEAN
  /\ events \in Seq({"write", "remove"})
  /\ pathUpdates \in 0..1
  /\ reload \in 0..1
  /\ drop \in 0..1
  /\ watcher \in {"select", "sendReload", "sendDrop"}
  /\ watching \in BOOLEAN
  /\ worker \in {"select", "read", "lock", "store", "lockDefault"}
  /\ read \in Contents
  /\ lock \in Openers \union {Free}
  /\ workspaceSet \in BOOLEAN
  /\ loaded \in Contents
  /\ stored \in Contents
  /\ handler \in [Handlers -> {"idle", "find", "lock", "lockFound", "watch",
                               "inputs", "config", "done"}]

Init ==
  /\ changes \in {0, 1} \intersect Contents
  /\ file = changes
  /\ watched = FALSE
  /\ events = <<>>
  /\ pathUpdates = 0
  /\ reload = 0
  /\ drop = 0
  /\ watcher = "select"
  /\ watching = FALSE
  /\ worker = "select"
  /\ read = 0
  /\ lock = Free
  /\ workspaceSet = FALSE
  /\ loaded = 0
  /\ stored = 0
  /\ handler = [h \in Handlers |-> "idle"]

-----------------------------------------------------------------------------
(* The file, and fsnotify (external): a watch reports writes, and ends with *)
(* a report when the file is removed or renamed.                            *)

Write ==
  /\ changes < MaxChanges
  /\ changes' = changes + 1
  /\ file' = changes + 1
  /\ events' = IF watched THEN Append(events, "write") ELSE events
  /\ UNCHANGED <<watched, channels, watcherState, workerState, server, handler>>

Remove ==
  /\ Removes
  /\ file # 0
  /\ file' = 0
  /\ events' = IF watched THEN Append(events, "remove") ELSE events
  /\ watched' = FALSE
  /\ UNCHANGED <<changes, channels, watcherState, workerState, server, handler>>

-----------------------------------------------------------------------------
(* Watcher.loop.                                                            *)

\* A plausible bug: a new path is watched and not loaded.
TakePathNoReload ==
  /\ watcher = "select"
  /\ pathUpdates = 1
  /\ pathUpdates' = 0
  /\ watched' = (file # 0)
  /\ watching' = TRUE
  /\ watcher' = "select"
  /\ UNCHANGED <<disk, events, reload, drop, workerState, server, handler>>

\* case path := <-w.pathUpdates: the old watch is removed and a new one
\* added, which fails when there is no file; either way the path is loaded.
TakePath ==
  /\ watcher = "select"
  /\ pathUpdates = 1
  /\ pathUpdates' = 0
  /\ watched' = (file # 0)
  /\ watching' = TRUE
  /\ watcher' = "sendReload"
  /\ UNCHANGED <<disk, events, reload, drop, workerState, server, handler>>

\* case event, ok := <-w.fsWatcher.Events
TakeEvent ==
  /\ watcher = "select"
  /\ events # <<>>
  /\ events' = Tail(events)
  /\ \/ /\ Head(events) = "write"
        /\ watcher' = "sendReload"
        /\ UNCHANGED watching
     \/ /\ Head(events) = "remove"
        /\ watching' = FALSE
        /\ watcher' = "sendDrop"
  /\ UNCHANGED <<disk, watched, channels, workerState, server, handler>>

\* A plausible bug: each send gets a goroutine of its own and never waits.
SendReloadUnchecked ==
  /\ watcher = "sendReload"
  /\ reload' = reload + 1
  /\ watcher' = "select"
  /\ UNCHANGED <<disk, notifier, pathUpdates, drop, watching, workerState,
                 server, handler>>

SendReload ==
  /\ watcher = "sendReload"
  /\ reload = 0
  /\ reload' = 1
  /\ watcher' = "select"
  /\ UNCHANGED <<disk, notifier, pathUpdates, drop, watching, workerState,
                 server, handler>>

SendDrop ==
  /\ watcher = "sendDrop"
  /\ drop = 0
  /\ drop' = 1
  /\ watcher' = "select"
  /\ UNCHANGED <<disk, notifier, pathUpdates, reload, watching, workerState,
                 server, handler>>

-----------------------------------------------------------------------------
(* The config worker.  Its select takes either channel when both are ready. *)

TakeReload ==
  /\ worker = "select"
  /\ reload = 1
  /\ reload' = 0
  /\ worker' = "read"
  /\ UNCHANGED <<disk, notifier, pathUpdates, drop, watcherState, read, stored,
                 server, handler>>

\* config.FromPath: an error is logged and the config in force is kept.
ReadConfig ==
  /\ worker = "read"
  /\ \/ file = 0 /\ worker' = "select" /\ UNCHANGED read
     \/ file # 0 /\ worker' = "lock" /\ read' = file
  /\ UNCHANGED <<disk, notifier, channels, watcherState, stored, server,
                 handler>>

SetConfig ==
  /\ worker = "lock"
  /\ lock = Free
  /\ loaded' = read
  /\ worker' = "store"
  /\ UNCHANGED <<disk, notifier, channels, watcherState, read, stored, lock,
                 workspaceSet, handler>>

\* A plausible bug: the store is not told of the new config.
SkipStore ==
  /\ worker = "store"
  /\ worker' = "select"
  /\ UNCHANGED <<disk, notifier, channels, watcherState, read, stored, server,
                 handler>>

\* store.PutConfig and the rest of loadConfig.
StoreConfig ==
  /\ worker = "store"
  /\ stored' = read
  /\ worker' = "select"
  /\ UNCHANGED <<disk, notifier, channels, watcherState, read, server, handler>>

TakeDrop ==
  /\ worker = "select"
  /\ drop = 1
  /\ drop' = 0
  /\ worker' = "lockDefault"
  /\ UNCHANGED <<disk, notifier, pathUpdates, reload, watcherState, read,
                 stored, server, handler>>

\* Only loadedConfig is replaced: loadConfig is not called.
SetDefault ==
  /\ worker = "lockDefault"
  /\ lock = Free
  /\ loaded' = 0
  /\ worker' = "select"
  /\ UNCHANGED <<disk, notifier, channels, watcherState, read, stored, lock,
                 workspaceSet, handler>>

-----------------------------------------------------------------------------
(* Handlers.                                                                *)

At(h, label) == handler' = [handler EXCEPT ![h] = label]

\* Workspace() waits for the lock; only a server without a workspace loads one.
Open(h) ==
  /\ handler[h] = "idle"
  /\ lock = Free
  /\ At(h, IF workspaceSet THEN "config" ELSE "find")
  /\ UNCHANGED <<disk, notifier, channels, watcherState, workerState, server>>

\* FindConfigRoots and config.Find look for a config file.
Find(h) ==
  /\ handler[h] = "find"
  /\ At(h, IF file = 0 THEN "lock" ELSE "lockFound")
  /\ UNCHANGED <<disk, notifier, channels, watcherState, workerState, server>>

\* The rest of loadWorkspace runs under the lock.
Lock(h) ==
  /\ handler[h] \in {"lock", "lockFound"}
  /\ lock = Free
  /\ lock' = h
  /\ workspaceSet' = TRUE
  /\ At(h, IF handler[h] = "lock" THEN "inputs" ELSE "watch")
  /\ UNCHANGED <<disk, notifier, channels, watcherState, workerState, loaded>>

\* w.pathUpdates <- configFilePath, with the lock held by an opener.
Watch(h) ==
  /\ handler[h] = "watch"
  /\ pathUpdates = 0
  /\ pathUpdates' = 1
  /\ At(h, IF h \in Openers THEN "inputs" ELSE "done")
  /\ UNCHANGED <<disk, notifier, reload, drop, watcherState, workerState,
                 server>>

\* input.LoadFromWorkspace, and the deferred Unlock.
LoadInputs(h) ==
  /\ handler[h] = "inputs"
  /\ lock' = Free
  /\ At(h, "config")
  /\ UNCHANGED <<disk, notifier, channels, watcherState, workerState,
                 workspaceSet, loaded>>

\* ignoreURI reads the config; what didOpen does next is DocumentCache's.
ReadLoaded(h) ==
  /\ handler[h] = "config"
  /\ lock = Free
  /\ At(h, "done")
  /\ UNCHANGED <<disk, notifier, channels, watcherState, workerState, server>>

\* The editor reports a config file created, and config.Find finds it.
Create(h) ==
  /\ handler[h] = "idle"
  /\ lock = Free
  /\ changes > 0
  /\ At(h, IF file = 0 THEN "done" ELSE "watch")
  /\ UNCHANGED <<disk, notifier, channels, watcherState, workerState, server>>

-----------------------------------------------------------------------------

WatcherStep == TakePath \/ TakeEvent \/ SendReload \/ SendDrop

WorkerStep ==
  \/ TakeReload \/ ReadConfig \/ SetConfig \/ StoreConfig
  \/ TakeDrop \/ SetDefault

OpenerStep(h) ==
  Find(h) \/ Lock(h) \/ Watch(h) \/ LoadInputs(h) \/ ReadLoaded(h)

Next ==
  \/ Write
  \/ Remove
  \/ WatcherStep
  \/ WorkerStep
  \/ \E h \in Openers : Open(h) \/ OpenerStep(h)
  \/ \E h \in Creators : Create(h) \/ Watch(h)

SafetySpec == Init /\ [][Next]_vars

\* The watcher and the worker run; a handler that waits for a lock or for a
\* channel is served in turn (both queues of the Go runtime are fair).
Spec ==
  /\ SafetySpec
  /\ WF_vars(WatcherStep)
  /\ WF_vars(WorkerStep)
  /\ \A h \in Openers : SF_vars(OpenerStep(h))
  /\ \A h \in Creators : SF_vars(Watch(h))

-----------------------------------------------------------------------------

\* The watcher, the worker and the handlers have nothing left to do.
Quiescent ==
  /\ watcher = "select"
  /\ worker = "select"
  /\ pathUpdates = 0 /\ reload = 0 /\ drop = 0
  /\ events = <<>>
  /\ \A h \in Handlers : handler[h] \in {"idle", "done"}

(* At rest the config the Rego handlers see is the newest contents of the   *)
(* file that is watched, and the config in force is that or the default:    *)
(* no write is missed, whenever it comes between a read of the file and the *)
(* moment the result is put in force, and no old config outlives a newer.   *)
NewestConfigIsLoaded ==
  Quiescent /\ watched => stored = file /\ loaded \in {file, 0}

(* The same as a promise: the store catches up with a watched file again    *)
(* and again.  The file changes a bounded number of times, so that the last *)
(* contents reach the store in the end, unless the file is removed.         *)
WritesAreFollowed ==
  []<>(watched /\ file # 0 => stored = file)

(* server.go, getLoadedConfig: the default config is a fallback for when "a *)
(* user config is not provided or fails to load": a config file that exists *)
(* and is watched is in force at rest.                                      *)
DefaultIsFallback == Quiescent /\ watched /\ file # 0 => loaded # 0

(* server_no_workspace_test.go: a file opened in a server without a         *)
(* workspace gets its diagnostics; the handler of didOpen must return.      *)
OpenReturns == \A h \in Openers : handler[h] = "find" ~> handler[h] = "done"
=============================================================================
