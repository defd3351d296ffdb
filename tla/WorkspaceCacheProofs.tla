------------------------ MODULE WorkspaceCacheProofs ------------------------
(* Proofs about the two caches of files in a workspace that is written      *)
(* meanwhile: BundleCache, for any roots, any number of refreshers and any  *)
(* bound on the changes on disk, and InputManager, for any input files and  *)
(* any number of changes that are handled in any order.                     *)
EXTENDS BundleCache, InputManager, TLAPS

\* What is cached or about to be cached was on disk at some time: contents
\* that are yet to be written have a number that is still larger.
SeenOnDisk ==
  /\ writes \in Nat
  /\ onDisk \in [Roots -> Nat] /\ \A b \in Roots : onDisk[b] <= writes
  /\ DOMAIN digests \subseteq Roots /\ DOMAIN bundles = DOMAIN digests
  /\ \A b \in DOMAIN digests : digests[b] \in Nat /\ digests[b] <= writes
  /\ refresher \in [Refreshers -> {"idle", "lock", "refresh", "load"}]
  /\ foundRoots \in [Refreshers -> SUBSET Roots]
  /\ toRefresh \in [Refreshers -> SUBSET Roots]
  /\ hashed \in [Refreshers -> {<<>>} \union (Roots \X Nat)]
  /\ \A r \in Refreshers : refresher[r] = "load" =>
       hashed[r] \in Roots \X Nat /\ hashed[r][2] <= writes

CacheInv == SeenOnDisk /\ BundlesAreFresh

(* Every action keeps the contents that are cached among those seen.        *)
LEMMA SeenStep == SeenOnDisk /\ [BundleNext]_bundleVars => SeenOnDisk'
<1> SUFFICES ASSUME SeenOnDisk, [BundleNext]_bundleVars
             PROVE  SeenOnDisk'
  OBVIOUS
<1> USE DEF SeenOnDisk, diskState, refreshState
<1>1. ASSUME NEW b \in Roots, ChangeRoot(b)
      PROVE  SeenOnDisk'
  BY <1>1 DEF ChangeRoot
<1>2. ASSUME NEW r \in Refreshers, FindRoots(r)
      PROVE  SeenOnDisk'
  BY <1>2 DEF FindRoots, Step
<1>3. ASSUME NEW r \in Refreshers, LockBundles(r)
      PROVE  SeenOnDisk'
  BY <1>3 DEF LockBundles, Step
<1>4. ASSUME NEW r \in Refreshers, NEW b \in Roots, HashFiles(r, b)
      PROVE  SeenOnDisk'
  <2>1. /\ UNCHANGED <<onDisk, writes, digests, bundles, foundRoots>>
        /\ toRefresh' = [toRefresh EXCEPT ![r] = @ \ {b}]
    BY <1>4 DEF HashFiles
  <2>2. toRefresh' \in [Refreshers -> SUBSET Roots]
    BY <2>1
  <2>3. CASE UNCHANGED <<refresher, hashed>>
    BY <2>1, <2>2, <2>3
  <2>4. CASE /\ hashed' = [hashed EXCEPT ![r] = <<b, onDisk[b]>>]
             /\ refresher' = [refresher EXCEPT ![r] = "load"]
    <3>1. <<b, onDisk[b]>> \in Roots \X Nat /\ onDisk[b] <= writes
      OBVIOUS
    <3>2. \A s \in Refreshers : refresher'[s] = "load" =>
            hashed'[s] \in Roots \X Nat /\ hashed'[s][2] <= writes
      BY <2>4, <3>1
    <3> QED
      BY <2>1, <2>2, <2>4, <3>1, <3>2
  <2> QED
    BY <1>4, <2>3, <2>4 DEF HashFiles, Step
<1>5. ASSUME NEW r \in Refreshers, LoadBundle(r)
      PROVE  SeenOnDisk'
  BY <1>5 DEF LoadBundle, Step, With
<1>6. ASSUME NEW r \in Refreshers, UnlockBundles(r)
      PROVE  SeenOnDisk'
  BY <1>6 DEF UnlockBundles, Step, Only
<1>7. CASE UNCHANGED bundleVars
  BY <1>7 DEF bundleVars
<1> QED
  BY <1>1, <1>2, <1>3, <1>4, <1>5, <1>6, <1>7 DEF BundleNext

(* What is written later is taken for a change, and what was loaded before  *)
(* the digests were recorded cannot be what they are of.                    *)
LEMMA FreshStep ==
  SeenOnDisk /\ BundlesAreFresh /\ [BundleNext]_bundleVars => BundlesAreFresh'
<1> SUFFICES ASSUME SeenOnDisk, BundlesAreFresh, [BundleNext]_bundleVars
             PROVE  BundlesAreFresh'
  OBVIOUS
<1> USE DEF SeenOnDisk, BundlesAreFresh, Unchanged, diskState, refreshState
<1>1. ASSUME NEW c \in Roots, ChangeRoot(c)
      PROVE  BundlesAreFresh'
  <2>1. PICK n \in {writes + 1, 0} : onDisk' = [onDisk EXCEPT ![c] = n]
    BY <1>1 DEF ChangeRoot
  <2>2. UNCHANGED <<digests, bundles>>
    BY <1>1 DEF ChangeRoot
  <2>3. ~(Unchanged(c)' /\ Loads(onDisk'[c]))
    BY <2>1, <2>2 DEF Loads
  <2>4. \A b \in Roots \ {c} : onDisk'[b] = onDisk[b]
    BY <2>1
  <2> QED
    BY <2>2, <2>3, <2>4
<1>2. ASSUME NEW r \in Refreshers, FindRoots(r)
      PROVE  BundlesAreFresh'
  BY <1>2 DEF FindRoots
<1>3. ASSUME NEW r \in Refreshers, LockBundles(r)
      PROVE  BundlesAreFresh'
  BY <1>3 DEF LockBundles
<1>4. ASSUME NEW r \in Refreshers, NEW b \in Roots, HashFiles(r, b)
      PROVE  BundlesAreFresh'
  BY <1>4 DEF HashFiles
<1>5. ASSUME NEW r \in Refreshers, LoadBundle(r)
      PROVE  BundlesAreFresh'
  BY <1>5 DEF LoadBundle, With, Loaded
<1>6. ASSUME NEW r \in Refreshers, UnlockBundles(r)
      PROVE  BundlesAreFresh'
  BY <1>6 DEF UnlockBundles, Only
<1>7. CASE UNCHANGED bundleVars
  BY <1>7 DEF bundleVars
<1> QED
  BY <1>1, <1>2, <1>3, <1>4, <1>5, <1>6, <1>7 DEF BundleNext

(* A bundle that the next Refresh takes for unchanged is the bundle its     *)
(* files make, whatever is written while it is hashed, loaded or waited for *)
(* (cacheBundle.Refresh).                                                   *)
THEOREM CachedBundlesAreFresh == BundleSpec => []BundlesAreFresh
<1>1. BundleInit => CacheInv
  BY DEF BundleInit, CacheInv, SeenOnDisk, BundlesAreFresh
<1>2. CacheInv /\ [BundleNext]_bundleVars => CacheInv'
  BY SeenStep, FreshStep DEF CacheInv
<1>3. CacheInv => BundlesAreFresh
  BY DEF CacheInv
<1> QED
  BY <1>1, <1>2, <1>3, PTL DEF BundleSpec

\* A refresher that refreshes or loads has the lock, and what it has left to
\* refresh are roots that it has found.
LockIsHeld ==
  /\ writes <= MaxWrites
  /\ cacheLock \in Refreshers \union {NoBundle}
  /\ \A r \in Refreshers :
       /\ toRefresh[r] \subseteq foundRoots[r]
       /\ (refresher[r] \in {"refresh", "load"}) <=> cacheLock = r

LEMMA LockStep == SeenOnDisk /\ LockIsHeld /\ [BundleNext]_bundleVars => LockIsHeld'
<1> SUFFICES ASSUME SeenOnDisk, LockIsHeld, [BundleNext]_bundleVars
             PROVE  LockIsHeld'
  OBVIOUS
<1> USE RefreshersAssumption DEF SeenOnDisk, LockIsHeld, diskState, refreshState
<1>1. ASSUME NEW b \in Roots, ChangeRoot(b)
      PROVE  LockIsHeld'
  BY <1>1 DEF ChangeRoot
<1>2. ASSUME NEW r \in Refreshers, FindRoots(r)
      PROVE  LockIsHeld'
  BY <1>2 DEF FindRoots, Step
<1>3. ASSUME NEW r \in Refreshers, LockBundles(r)
      PROVE  LockIsHeld'
  BY <1>3 DEF LockBundles, Step
<1>4. ASSUME NEW r \in Refreshers, NEW b \in Roots, HashFiles(r, b)
      PROVE  LockIsHeld'
  <2>1. /\ UNCHANGED <<writes, foundRoots, cacheLock>> /\ refresher[r] = "refresh"
        /\ toRefresh' = [toRefresh EXCEPT ![r] = @ \ {b}]
        /\ refresher' = refresher \/ refresher' = [refresher EXCEPT ![r] = "load"]
    BY <1>4 DEF HashFiles, Step
  <2> QED
    BY <2>1
<1>5. ASSUME NEW r \in Refreshers, LoadBundle(r)
      PROVE  LockIsHeld'
  BY <1>5 DEF LoadBundle, Step
<1>6. ASSUME NEW r \in Refreshers, UnlockBundles(r)
      PROVE  LockIsHeld'
  BY <1>6 DEF UnlockBundles, Step
<1>7. CASE UNCHANGED bundleVars
  BY <1>7 DEF bundleVars
<1> QED
  BY <1>1, <1>2, <1>3, <1>4, <1>5, <1>6, <1>7 DEF BundleNext

(* One refresher at a time deals with the cache (c.mu, Cache.Refresh), and  *)
(* the digests and bundles are those of the same roots.                     *)
THEOREM BundlesAreTyped == BundleSpec => []BundleTypes
<1>1. BundleInit => SeenOnDisk /\ LockIsHeld
  BY RefreshersAssumption DEF BundleInit, SeenOnDisk, LockIsHeld
<1>2. SeenOnDisk /\ LockIsHeld /\ [BundleNext]_bundleVars => (SeenOnDisk /\ LockIsHeld)'
  BY SeenStep, LockStep
<1>3. SeenOnDisk /\ LockIsHeld => BundleTypes
  BY RefreshersAssumption DEF SeenOnDisk, LockIsHeld, BundleTypes
<1> QED
  BY <1>1, <1>2, <1>3, PTL DEF BundleSpec

-----------------------------------------------------------------------------

\* An input that is cached although its file is gone, or with contents that
\* are not those of its file, has a notification that is not handled yet.
InputsInv ==
  /\ inputDisk \in [InputPaths -> Nat] /\ inputChanges \in Nat
  /\ walk \in Seq(InputPaths)
  /\ DOMAIN inputs \subseteq InputPaths
  /\ inputStore = inputs
  /\ \A p \in DOMAIN inputs :
       /\ inputDisk[p] = 0 => \E n \in Nat : <<p, "deleted", n>> \in notices
       /\ Decodes(inputDisk[p]) /\ inputs[p] # inputDisk[p] =>
            \E n \in Nat : <<p, "changed", n>> \in notices

\* Update caches the contents of a file that decodes, or changes nothing.
LEMMA UpdateStep ==
  ASSUME InputsInv, NEW p \in InputPaths, Update(p), UNCHANGED <<inputDisk, inputChanges>>,
         walk' \in Seq(InputPaths),
         \A q \in InputPaths, n \in Nat :
            /\ <<q, "deleted", n>> \in notices => <<q, "deleted", n>> \in notices'
            /\ <<q, "changed", n>> \in notices /\ q # p => <<q, "changed", n>> \in notices'
  PROVE  InputsInv'
<1> USE DEF InputsInv
<1>1. CASE Decodes(inputDisk[p])
  <2>1. /\ inputStore' = inputs'
        /\ DOMAIN inputs' = DOMAIN inputs \union {p}
        /\ \A q \in DOMAIN inputs' : inputs'[q] = IF q = p THEN inputDisk[p] ELSE inputs[q]
    BY <1>1 DEF Update, Put
  <2>2. inputDisk[p] # 0
    BY <1>1 DEF Decodes
  <2> QED
    BY <2>1, <2>2
<1>2. CASE ~Decodes(inputDisk[p])
  BY <1>2 DEF Update
<1> QED
  BY <1>1, <1>2

LEMMA InputsStep == InputsInv /\ [InputNext]_inputVars => InputsInv'
<1> SUFFICES ASSUME InputsInv, [InputNext]_inputVars
             PROVE  InputsInv'
  OBVIOUS
<1>1. CASE LoadInput
  <2> DEFINE p == Head(walk)
  <2>1. /\ p \in InputPaths /\ Tail(walk) \in Seq(InputPaths) /\ <<>> \in Seq(InputPaths)
        /\ UNCHANGED <<inputDisk, inputChanges, notices>>
    BY <1>1 DEF LoadInput, InputsInv
  <2> HIDE DEF p
  <2>2. CASE inputDisk[p] = 0
    <3>1. walk' \in Seq(InputPaths) /\ UNCHANGED <<inputs, inputStore>>
      BY <1>1, <2>1, <2>2 DEF LoadInput, p
    <3> QED
      BY <2>1, <3>1 DEF InputsInv
  <2>3. CASE inputDisk[p] # 0
    <3>1. Update(p) /\ walk' \in Seq(InputPaths)
      BY <1>1, <2>1, <2>3 DEF LoadInput, p
    <3> QED
      BY <2>1, <3>1, UpdateStep
  <2> QED
    BY <2>2, <2>3
<1>2. ASSUME NEW p \in InputPaths, ChangeInput(p)
      PROVE  InputsInv'
  <2>1. /\ inputChanges' = inputChanges + 1 /\ inputChanges' \in Nat /\ inputChanges' # 0
        /\ UNCHANGED <<walk, inputs, inputStore>> /\ notices \subseteq notices'
        /\ \E n \in Nat : inputDisk' = [inputDisk EXCEPT ![p] = n]
    BY <1>2 DEF ChangeInput, InputsInv
  <2>2. \/ inputDisk'[p] = inputChanges' /\ <<p, "changed", inputChanges'>> \in notices'
        \/ inputDisk'[p] = 0 /\ <<p, "deleted", inputChanges'>> \in notices'
    BY <1>2 DEF ChangeInput, InputsInv
  <2>3. inputDisk' \in [InputPaths -> Nat] /\ \A q \in InputPaths \ {p} : inputDisk'[q] = inputDisk[q]
    BY <2>1 DEF InputsInv
  <2>4. ASSUME NEW q \in DOMAIN inputs
        PROVE  /\ inputDisk'[q] = 0 => \E n \in Nat : <<q, "deleted", n>> \in notices'
               /\ Decodes(inputDisk'[q]) /\ inputs[q] # inputDisk'[q] =>
                    \E n \in Nat : <<q, "changed", n>> \in notices'
    <3>1. CASE q = p
      BY <2>1, <2>2, <3>1 DEF Decodes
    <3>2. CASE q # p
      BY <2>1, <2>3, <3>2 DEF InputsInv
    <3> QED
      BY <3>1, <3>2
  <2> QED
    BY <2>1, <2>3, <2>4 DEF InputsInv
<1>3. ASSUME NEW p \in InputPaths, NEW n \in 1..MaxInputChanges, HandleChange(p, n)
      PROVE  InputsInv'
  <2>1. /\ Update(p) /\ UNCHANGED <<inputDisk, inputChanges, walk>>
        /\ notices' = notices \ {<<p, "changed", n>>}
    BY <1>3 DEF HandleChange
  <2>2. \A q \in InputPaths, m \in Nat :
           /\ <<q, "deleted", m>> \in notices => <<q, "deleted", m>> \in notices'
           /\ <<q, "changed", m>> \in notices /\ q # p => <<q, "changed", m>> \in notices'
    BY <2>1
  <2>3. walk' \in Seq(InputPaths)
    BY <2>1 DEF InputsInv
  <2> QED
    BY <2>1, <2>2, <2>3, UpdateStep
<1>4. ASSUME NEW p \in InputPaths, NEW n \in 1..MaxInputChanges, HandleDeletion(p, n)
      PROVE  InputsInv'
  <2>1. /\ inputs' = [q \in DOMAIN inputs \ {p} |-> inputs[q]] /\ inputStore' = inputs'
        /\ UNCHANGED <<inputDisk, inputChanges, walk>>
        /\ notices' = notices \ {<<p, "deleted", n>>}
    BY <1>4 DEF HandleDeletion, Delete, Removed, InputsInv
  <2>2. \A q \in InputPaths, m \in Nat : q # p =>
           /\ <<q, "deleted", m>> \in notices => <<q, "deleted", m>> \in notices'
           /\ <<q, "changed", m>> \in notices => <<q, "changed", m>> \in notices'
    BY <2>1
  <2> QED
    BY <2>1, <2>2 DEF InputsInv
<1>5. CASE UNCHANGED inputVars
  BY <1>5 DEF inputVars, InputsInv
<1> QED
  BY <1>1, <1>2, <1>3, <1>4, <1>5 DEF InputNext

(* However notifications of one file are ordered, and whether the walk at   *)
(* the start sees a change or not: once all of them are handled, an input   *)
(* that is found is that of its file (handleWorkspaceDidChangeWatchedFiles, *)
(* Manager.Update).                                                         *)
THEOREM InputsAreThoseOnDisk == InputSpec => []InputsFollowDisk
<1>1. InputInit => InputsInv
  BY InputsAreInOrder DEF InputInit, InputsInv
<1>2. InputsInv /\ [InputNext]_inputVars => InputsInv'
  BY InputsStep
<1>3. InputsInv => InputsFollowDisk
  BY DEF InputsInv, InputsFollowDisk
<1> QED
  BY <1>1, <1>2, <1>3, PTL DEF InputSpec

\* Contents are numbered by the changes.
InputsNumbered ==
  inputChanges <= MaxInputChanges /\ \A p \in InputPaths : inputDisk[p] <= inputChanges

(* Only input files are cached and put in the store, whatever is notified   *)
(* (Manager.Update and Delete).                                             *)
THEOREM InputsAreTyped == InputSpec => []InputTypes
<1>1. InputInit => InputsInv /\ InputsNumbered
  <2> SUFFICES ASSUME InputInit
               PROVE  InputsInv /\ InputsNumbered
    OBVIOUS
  <2>1. InputsInv
    BY InputsAreInOrder DEF InputInit, InputsInv
  <2>2. InputsNumbered
    BY MaxInputChangesIsNat DEF InputInit, InputsNumbered
  <2> QED
    BY <2>1, <2>2
<1>2. InputsInv /\ InputsNumbered /\ [InputNext]_inputVars => (InputsInv /\ InputsNumbered)'
  <2> SUFFICES ASSUME InputsInv, InputsNumbered, [InputNext]_inputVars
               PROVE  InputsNumbered'
    BY InputsStep
  <2>1. ASSUME NEW p \in InputPaths, ChangeInput(p)
        PROVE  InputsNumbered'
    BY <2>1, MaxInputChangesIsNat DEF ChangeInput, InputsInv, InputsNumbered
  <2>2. CASE UNCHANGED <<inputDisk, inputChanges>>
    BY <2>2 DEF InputsNumbered
  <2> QED
    BY <2>1, <2>2 DEF InputNext, LoadInput, HandleChange, HandleDeletion, inputVars
<1>3. InputsInv /\ InputsNumbered => InputTypes
  BY MaxInputChangesIsNat DEF InputsInv, InputsNumbered, InputTypes
<1> QED
  BY <1>1, <1>2, <1>3, PTL DEF InputSpec
====
