------------------------------ MODULE DevBundle ------------------------------
(* Development mode of the language server: the bundle that is loaded from  *)
(* REGAL_BUNDLE_PATH and loaded again on every save (bundle/bundle.go), and *)
(* the query cache worker that prepares the main query anew                 *)
(* (internal/lsp/rego/query/query.go, StartQueryCacheWorker in server.go).  *)
(* Bundles are numbered by the order in which they were saved; 0 is the one *)
(* embedded in the binary.                                                  *)
EXTENDS Naturals

CONSTANTS
  Savers,     \* handlers of didSave, and of initialize, which sets the path
  MaxBundles, \* bound on the number of times the files change
  NoSaver

ASSUME SaversAssumption == NoSaver \notin Savers /\ MaxBundles \in Nat

VARIABLES
  bundleFiles,  \* the bundle on disk
  bndl,         \* dm.bndl
  devLock,      \* who holds dm.mux for writing
  subscribed,   \* prepareQueryJobs is among dm.subscribers
  prepareJobs,  \* number of elements of prepareQueryJobs
  saver,        \* control of the savers, in Reload
  preparer,     \* control of the worker, in Cache.Store
  preparing,    \* the bundle Loaded has returned to it
  mainQuery,    \* the bundle with which the cached main query was prepared
  missed        \* the newest bundle was loaded before the subscription

reloading == <<bndl, devLock, saver>>
preparation == <<preparer, preparing, mainQuery>>
devVars == <<bundleFiles, reloading, subscribed, prepareJobs, preparation, missed>>

DevTypes ==
  /\ {bundleFiles, bndl, preparing, mainQuery} \subseteq 0..MaxBundles
  /\ devLock \in Savers \union {NoSaver}
  /\ prepareJobs \in 0..1
  /\ saver \in [Savers -> {"idle", "lock", "load", "send", "done"}]
  /\ devLock = NoSaver <=> \A s \in Savers : saver[s] \notin {"load", "send"}
  /\ preparer \in {"subscribe", "take", "load", "prepare"}
  /\ {subscribed, missed} \subseteq BOOLEAN

DevInit ==
  /\ bundleFiles = 0 /\ bndl = 0
  /\ devLock = NoSaver
  /\ subscribed = FALSE /\ missed = FALSE
  /\ prepareJobs = 0
  /\ saver = [s \in Savers |-> "idle"]
  /\ preparer = "subscribe" /\ preparing = 0 /\ mainQuery = 0

-----------------------------------------------------------------------------

SaverAt(s, label) == saver' = [saver EXCEPT ![s] = label]

\* The editor writes the file, and tells the server.
Save(s) ==
  /\ saver[s] = "idle" /\ bundleFiles < MaxBundles
  /\ bundleFiles' = bundleFiles + 1
  /\ SaverAt(s, "lock")
  /\ UNCHANGED <<bndl, devLock, subscribed, prepareJobs, preparation, missed>>

\* Reload: everything up to its end is under the lock.
ReloadLock(s) ==
  /\ saver[s] = "lock" /\ devLock = NoSaver
  /\ devLock' = s
  /\ SaverAt(s, "load")
  /\ UNCHANGED <<bundleFiles, bndl, subscribed, prepareJobs, preparation, missed>>

\* A bundle that does not load leaves the one before in use, and nobody is told.
ReloadBundle(s) ==
  /\ saver[s] = "load"
  /\ \/ /\ bndl' = bundleFiles /\ missed' = ~subscribed
        /\ IF subscribed THEN SaverAt(s, "send") /\ UNCHANGED devLock
                         ELSE SaverAt(s, "done") /\ devLock' = NoSaver
     \/ SaverAt(s, "done") /\ devLock' = NoSaver /\ UNCHANGED <<bndl, missed>>
  /\ UNCHANGED <<bundleFiles, subscribed, prepareJobs, preparation>>

\* Plausible bug: a subscriber that is busy is passed over.
NotifyOrSkip(s) ==
  /\ saver[s] = "send"
  /\ prepareJobs' = IF preparer = "take" THEN 1 ELSE prepareJobs
  /\ devLock' = NoSaver
  /\ SaverAt(s, "done")
  /\ UNCHANGED <<bundleFiles, bndl, subscribed, preparation, missed>>

\* c <- struct{}{}, and the deferred Unlock.
Notify(s) ==
  /\ saver[s] = "send" /\ prepareJobs = 0
  /\ prepareJobs' = 1
  /\ devLock' = NoSaver
  /\ SaverAt(s, "done")
  /\ UNCHANGED <<bundleFiles, bndl, subscribed, preparation, missed>>

-----------------------------------------------------------------------------

Subscribe ==
  /\ preparer = "subscribe" /\ devLock = NoSaver
  /\ subscribed' = TRUE
  /\ preparer' = "take"
  /\ UNCHANGED <<bundleFiles, reloading, prepareJobs, preparing, mainQuery, missed>>

TakeJob ==
  /\ preparer = "take" /\ prepareJobs = 1
  /\ prepareJobs' = 0
  /\ preparer' = "load"
  /\ UNCHANGED <<bundleFiles, reloading, subscribed, preparing, mainQuery, missed>>

\* prepareQuery calls Loaded, which takes the lock to read dm.bndl.
GetLoaded ==
  /\ preparer = "load" /\ devLock = NoSaver
  /\ preparing' = bndl
  /\ preparer' = "prepare"
  /\ UNCHANGED <<bundleFiles, reloading, subscribed, prepareJobs, mainQuery, missed>>

\* With the bundle, or with the embedded one if it does not compile.
StoreQuery ==
  /\ preparer = "prepare"
  /\ mainQuery' \in {preparing, 0}
  /\ preparer' = "take"
  /\ UNCHANGED <<bundleFiles, reloading, subscribed, prepareJobs, preparing, missed>>

-----------------------------------------------------------------------------

SaverStep(s) == ReloadLock(s) \/ ReloadBundle(s) \/ Notify(s)
PreparerStep == Subscribe \/ TakeJob \/ GetLoaded \/ StoreQuery

DevNext == PreparerStep \/ \E s \in Savers : Save(s) \/ SaverStep(s)

\* Goroutines run, and those that wait for a lock or a channel get their turn.
DevFairness ==
  /\ SF_devVars(PreparerStep)
  /\ \A s \in Savers : SF_devVars(SaverStep(s))

DevSpec == DevInit /\ [][DevNext]_devVars /\ DevFairness

-----------------------------------------------------------------------------

(* server.go:442, "to ensure we recompile on live bundle updates": when the *)
(* worker waits and has nothing to do, and no reload is under way, the main *)
(* query is that of the newest bundle or of the embedded one, unless the    *)
(* bundle was loaded by initialize before the worker had subscribed.        *)
NewestBundleIsPrepared ==
  preparer = "take" /\ prepareJobs = 0 /\ devLock = NoSaver /\ ~missed
    => mainQuery \in {bndl, 0} /\ preparing = bndl

(* server.go:1008, "reload the bundle on save": the handler returns.        *)
SavesReturn == \A s \in Savers : saver[s] = "lock" ~> saver[s] = "done"
=============================================================================
