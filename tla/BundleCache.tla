----------------------------- MODULE BundleCache -----------------------------
(* The bundles that evaluations in the editor use (internal/lsp/bundles):   *)
(* Refresh, called at the end of every load of the workspace, finds the     *)
(* roots of bundles on disk, compares the digests of their files with those *)
(* of the last time, and loads the bundles that have changed.  Roots are    *)
(* found before the lock is taken, and the disk changes at any time.        *)
(*                                                                          *)
(* What the files of a root hold is a number, and a file is its digest.     *)
(* 0 is a root without a manifest, and odd numbers do not load.             *)
EXTENDS Naturals

CONSTANTS
  Roots,      \* directories that may have a manifest
  Refreshers, \* the initial load and the state worker
  MaxWrites,  \* bound on the number of changes on disk
  NoBundle    \* the empty bundle, and nobody

ASSUME RefreshersAssumption == NoBundle \notin Refreshers /\ MaxWrites \in Nat

VARIABLES
  onDisk,     \* what each root holds
  writes,     \* number of changes on disk
  digests,    \* c.bundles: the contents whose digests were recorded
  bundles,    \*   and the contents that were loaded
  refresher,  \* control of Refresh
  foundRoots, \* the roots a refresher has found
  toRefresh,  \*   and those it has not dealt with
  hashed,     \* the root it is loading, with the contents it has hashed
  cacheLock   \* who holds c.mu

diskState == <<onDisk, writes>>
refreshState == <<refresher, foundRoots, toRefresh, hashed, cacheLock>>
bundleVars == <<diskState, digests, bundles, refreshState>>

Loads(n) == n # 0 /\ n % 2 = 0

BundleTypes ==
  /\ onDisk \in [Roots -> 0..MaxWrites]
  /\ writes \in 0..MaxWrites
  /\ DOMAIN digests = DOMAIN bundles
  /\ DOMAIN digests \subseteq Roots
  /\ refresher \in [Refreshers -> {"idle", "lock", "refresh", "load"}]
  /\ \A r \in Refreshers :
       /\ toRefresh[r] \subseteq foundRoots[r]
       /\ (refresher[r] \in {"refresh", "load"}) <=> cacheLock = r

BundleInit ==
  /\ onDisk = [b \in Roots |-> 0]
  /\ writes = 0
  /\ digests = [b \in {} |-> 0]
  /\ bundles = [b \in {} |-> 0]
  /\ refresher = [r \in Refreshers |-> "idle"]
  /\ foundRoots = [r \in Refreshers |-> {}]
  /\ toRefresh = [r \in Refreshers |-> {}]
  /\ hashed = [r \in Refreshers |-> <<>>]
  /\ cacheLock = NoBundle

-----------------------------------------------------------------------------

\* New contents, or the manifest is removed; no contents come back.
ChangeRoot(b) ==
  /\ writes < MaxWrites
  /\ writes' = writes + 1
  /\ \E n \in {writes', 0} : onDisk' = [onDisk EXCEPT ![b] = n]
  /\ UNCHANGED <<digests, bundles, refreshState>>

Step(r, label) == refresher' = [refresher EXCEPT ![r] = label]
With(f, b, x) == [y \in DOMAIN f \union {b} |-> IF y = b THEN x ELSE f[y]]
Only(f, S) == [y \in DOMAIN f \intersect S |-> f[y]]

\* FindManifestLocations.
FindRoots(r) ==
  /\ refresher[r] = "idle"
  /\ foundRoots' = [foundRoots EXCEPT ![r] = {b \in Roots : onDisk[b] # 0}]
  /\ toRefresh' = foundRoots'
  /\ Step(r, "lock")
  /\ UNCHANGED <<diskState, digests, bundles, hashed, cacheLock>>

LockBundles(r) ==
  /\ refresher[r] = "lock"
  /\ cacheLock = NoBundle
  /\ cacheLock' = r
  /\ Step(r, "refresh")
  /\ UNCHANGED <<diskState, digests, bundles, foundRoots, toRefresh, hashed>>

Unchanged(b) == b \in DOMAIN digests /\ digests[b] = onDisk[b]

\* cacheBundle.Refresh hashes the files, and returns when nothing has changed.
HashFiles(r, b) ==
  /\ refresher[r] = "refresh"
  /\ b \in toRefresh[r]
  /\ toRefresh' = [toRefresh EXCEPT ![r] = @ \ {b}]
  /\ \/ Unchanged(b) /\ UNCHANGED <<refresher, hashed>>
     \/ /\ ~Unchanged(b)
        /\ hashed' = [hashed EXCEPT ![r] = <<b, onDisk[b]>>]
        /\ Step(r, "load")
  /\ UNCHANGED <<diskState, digests, bundles, foundRoots, cacheLock>>

Loaded(n) == IF Loads(n) THEN n ELSE NoBundle

\* Plausible bug: the files are hashed after they have been loaded.
LoadAndHash(r) ==
  /\ refresher[r] = "load"
  /\ LET b == hashed[r][1] IN
       /\ digests' = With(digests, b, onDisk[b])
       /\ bundles' = With(bundles, b, Loaded(hashed[r][2]))
  /\ hashed' = [hashed EXCEPT ![r] = <<>>]
  /\ Step(r, "refresh")
  /\ UNCHANGED <<diskState, foundRoots, toRefresh, cacheLock>>

\* The digests are recorded before the bundle is loaded; one that does not
\* load leaves an empty bundle.
LoadBundle(r) ==
  /\ refresher[r] = "load"
  /\ LET b == hashed[r][1] IN
       /\ digests' = With(digests, b, hashed[r][2])
       /\ bundles' = With(bundles, b, Loaded(onDisk[b]))
  /\ hashed' = [hashed EXCEPT ![r] = <<>>]
  /\ Step(r, "refresh")
  /\ UNCHANGED <<diskState, foundRoots, toRefresh, cacheLock>>

\* Bundles that were not found are removed.
UnlockBundles(r) ==
  /\ refresher[r] = "refresh"
  /\ toRefresh[r] = {}
  /\ digests' = Only(digests, foundRoots[r])
  /\ bundles' = Only(bundles, foundRoots[r])
  /\ foundRoots' = [foundRoots EXCEPT ![r] = {}]
  /\ cacheLock' = NoBundle
  /\ Step(r, "idle")
  /\ UNCHANGED <<diskState, toRefresh, hashed>>

BundleNext ==
  \/ \E b \in Roots : ChangeRoot(b)
  \/ \E r \in Refreshers :
       \/ FindRoots(r) \/ LockBundles(r) \/ LoadBundle(r) \/ UnlockBundles(r)
       \/ \E b \in Roots : HashFiles(r, b)

BundleSpec == BundleInit /\ [][BundleNext]_bundleVars

-----------------------------------------------------------------------------

(* cache.go, "provides a way to refresh them when the source files change": *)
(* a bundle that the next Refresh will take for unchanged is the bundle its *)
(* files make, whatever was written between hashing and loading them.       *)
BundlesAreFresh ==
  \A b \in DOMAIN digests :
    Unchanged(b) /\ Loads(onDisk[b]) => bundles[b] = onDisk[b]

(* cache.go:153, "update the bundle's sourceDigests to the new on-disk      *)
(* state after a successful refresh": a bundle with digests was loaded.     *)
DigestsAreOfLoaded == \A b \in DOMAIN digests : bundles[b] # NoBundle
=============================================================================
