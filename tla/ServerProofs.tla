---------------------------- MODULE ServerProofs ----------------------------
(* Proofs about the workers of the language server that share no state:     *)
(* ConfigReload, for any handlers and any number of changes of the file;    *)
(* the queries that requests are answered with, DevBundle, by which they    *)
(* are prepared anew, for any number of handlers that reload the bundle and *)
(* any number of bundles, and RegoRouter, for any number of requests and of *)
(* changes to the text; TestLocations, for any files, any number of         *)
(* handlers and any capacity of the channel; CommandWorker and DebugAdapter *)
(* for any requests and clients; and MCServer, of which all are parts.      *)
EXTENDS MCServer, TLAPS

-----------------------------------------------------------------------------
(* ConfigReload.                                                            *)

(* Channels hold one element, one opener at a time has the lock, and each   *)
(* goroutine is at one of its places (watcher.go, StartConfigWorker).       *)
LEMMA TypeStep == TypeOK /\ [Next]_vars => TypeOK'
<1> SUFFICES ASSUME TypeOK, [Next]_vars
             PROVE  TypeOK'
  OBVIOUS
<1> USE DEF TypeOK, disk, notifier, channels, watcherState, workerState, server, Handlers
<1>1. CASE Write
  BY <1>1, MaxChangesIsNat DEF Write, Contents
<1>0. 0 \in Contents
  BY MaxChangesIsNat DEF Contents
<1>2. CASE Remove
  <2>1. events' \in Seq({"write", "remove"})
    BY <1>2 DEF Remove
  <2> QED
    BY <1>0, <1>2, <2>1 DEF Remove
<1>3. CASE WatcherStep
  <2>1. CASE TakePath
    BY <2>1 DEF TakePath
  <2>2. CASE TakeEvent
    <3>1. events' \in Seq({"write", "remove"})
      BY <2>2 DEF TakeEvent
    <3> QED
      BY <2>2, <3>1 DEF TakeEvent
  <2>3. CASE SendReload
    BY <2>3 DEF SendReload
  <2>4. CASE SendDrop
    BY <2>4 DEF SendDrop
  <2> QED
    BY <1>3, <2>1, <2>2, <2>3, <2>4 DEF WatcherStep
<1>4. CASE WorkerStep
  BY <1>4, MaxChangesIsNat
  DEF WorkerStep, TakeReload, ReadConfig, SetConfig, StoreConfig, TakeDrop, SetDefault, Contents
<1>5. ASSUME NEW h \in Openers, Open(h)
      PROVE  TypeOK'
  BY <1>5 DEF Open, At
<1>6. ASSUME NEW h \in Openers, OpenerStep(h)
      PROVE  TypeOK'
  <2>1. CASE Find(h)
    BY <2>1 DEF Find, At
  <2>2. CASE Lock(h)
    BY <2>2 DEF Lock, At
  <2>3. CASE Watch(h)
    BY <2>3 DEF Watch, At
  <2>4. CASE LoadInputs(h)
    BY <2>4 DEF LoadInputs, At
  <2>5. CASE ReadLoaded(h)
    BY <2>5 DEF ReadLoaded, At
  <2> QED
    BY <1>6, <2>1, <2>2, <2>3, <2>4, <2>5 DEF OpenerStep
<1>7. ASSUME NEW h \in Creators, Create(h) \/ Watch(h)
      PROVE  TypeOK'
  BY <1>7 DEF Create, Watch, At
<1>8. CASE UNCHANGED vars
  BY <1>8 DEF vars
<1> QED
  BY <1>1, <1>2, <1>3, <1>4, <1>5, <1>6, <1>7, <1>8 DEF Next

\* The worker is still going to read the file.
WriteReported == \E i \in 1..Len(events) : events[i] = "write"
ReadIsComing ==
  WriteReported \/ watcher = "sendReload" \/ reload = 1 \/ worker = "read"

\* What the store will have, and what will be in force, once the worker is done
\* with what it has read.
WillBeStored == IF worker \in {"lock", "store"} THEN read ELSE stored
WillBeLoaded == IF worker = "lock" THEN read ELSE loaded

NothingIsMissed ==
  watched => /\ file # 0
             /\ ReadIsComing \/ (WillBeStored = file /\ WillBeLoaded \in {file, 0})

ConfigInv == TypeOK /\ NothingIsMissed

(* A write is reported while the file is watched, a new watch comes with a  *)
(* reload, and what the worker reads is newer than what it read before.     *)
LEMMA MissedStep == TypeOK /\ NothingIsMissed /\ [Next]_vars => NothingIsMissed'
<1> SUFFICES ASSUME TypeOK, NothingIsMissed, [Next]_vars, watched'
             PROVE  /\ file' # 0
                    /\ ReadIsComing' \/ (WillBeStored = file /\ WillBeLoaded \in {file, 0})'
  BY DEF NothingIsMissed
<1> USE DEF NothingIsMissed, disk, notifier, channels, watcherState, workerState, server
<1>0. events \in Seq({"write", "remove"}) /\ Contents \subseteq Nat /\ changes \in Contents
  BY MaxChangesIsNat DEF TypeOK, Contents
<1>1. CASE Write
  <2>1. file' # 0 /\ watched
    BY <1>0, <1>1 DEF Write
  <2>2. events' = Append(events, "write")
    BY <1>1, <2>1 DEF Write
  <2>3. events'[Len(events')] = "write" /\ Len(events') \in 1..Len(events')
    BY <1>0, <2>2
  <2>4. WriteReported'
    BY <2>3 DEF WriteReported
  <2> QED
    BY <2>1, <2>4 DEF ReadIsComing
<1>2. CASE Remove
  BY <1>2 DEF Remove
<1>3. CASE TakePath
  BY <1>3 DEF TakePath, ReadIsComing
<1>4. CASE TakeEvent
  <2>1. events' = Tail(events) /\ events # <<>> /\ watcher = "select"
    BY <1>4 DEF TakeEvent
  <2>2. WriteReported /\ Head(events) # "write" => WriteReported'
    <3>1. ASSUME NEW i \in 1..Len(events), events[i] = "write", i # 1
          PROVE  i - 1 \in 1..Len(events') /\ events'[i - 1] = "write"
      BY <1>0, <2>1, <3>1
    <3>2. events[1] = Head(events)
      BY <1>0, <2>1
    <3> QED
      BY <3>1, <3>2 DEF WriteReported
  <2>3. Head(events) = "write" => watcher' = "sendReload"
    BY <1>4 DEF TakeEvent
  <2> QED
    BY <1>4, <2>1, <2>2, <2>3 DEF TakeEvent, ReadIsComing, WillBeStored, WillBeLoaded
<1>5. CASE SendReload \/ SendDrop
  BY <1>5 DEF SendReload, SendDrop, ReadIsComing, WriteReported, WillBeStored, WillBeLoaded
<1>6. CASE WorkerStep
  BY <1>6 DEF WorkerStep, TakeReload, ReadConfig, SetConfig, StoreConfig, TakeDrop, SetDefault,
              ReadIsComing, WriteReported, WillBeStored, WillBeLoaded
<1>7. ASSUME NEW h \in Handlers, Open(h) \/ OpenerStep(h) \/ Create(h) \/ Watch(h)
      PROVE  UNCHANGED <<file, watched, events, reload, watcher, worker, read, stored, loaded>>
  BY <1>7 DEF Open, OpenerStep, Find, Lock, Watch, LoadInputs, ReadLoaded, Create
<1>8. CASE UNCHANGED <<file, watched, events, reload, watcher, worker, read, stored, loaded>>
  BY <1>8 DEF ReadIsComing, WriteReported, WillBeStored, WillBeLoaded
<1> QED
  BY <1>1, <1>2, <1>3, <1>4, <1>5, <1>6, <1>7, <1>8 DEF Next, WatcherStep, Handlers, vars

(* At the start nothing is watched, loaded or under way.                    *)
LEMMA ConfigStarts == Init => ConfigInv
<1> SUFFICES ASSUME Init
             PROVE  TypeOK /\ NothingIsMissed
  BY DEF ConfigInv
<1>1. 0 \in Contents /\ changes \in Contents
  BY MaxChangesIsNat DEF Init, Contents
<1>2. events \in Seq({"write", "remove"})
  BY DEF Init
<1>3. handler \in [Handlers -> {"idle", "find", "lock", "lockFound", "watch",
                                "inputs", "config", "done"}]
  BY DEF Init
<1>4. /\ {file, changes, read, loaded, stored} \subseteq Contents
      /\ {watched, watching, workspaceSet} \subseteq BOOLEAN
  BY <1>1 DEF Init
<1>5. /\ {pathUpdates, reload, drop} \subseteq 0..1
      /\ watcher = "select" /\ worker = "select" /\ lock = Free
  BY DEF Init
<1>6. TypeOK
  BY <1>2, <1>3, <1>4, <1>5 DEF TypeOK
<1> QED
  BY <1>6 DEF Init, NothingIsMissed

(* However writes, removals, reloads and the handlers that set the path     *)
(* interleave, when nothing is under way the store has the newest contents  *)
(* of the file that is watched (loadConfig, Watcher.loop).                  *)
THEOREM NewestConfigIsFollowed == Spec => []NewestConfigIsLoaded
<1>1. Init => ConfigInv
  BY ConfigStarts
<1>2. ConfigInv /\ [Next]_vars => ConfigInv'
  BY TypeStep, MissedStep DEF ConfigInv
<1>3. ConfigInv => NewestConfigIsLoaded
  BY DEF ConfigInv, TypeOK, NothingIsMissed, ReadIsComing, WriteReported, WillBeStored,
         WillBeLoaded,
         NewestConfigIsLoaded, Quiescent
<1> QED
  BY <1>1, <1>2, <1>3, PTL DEF Spec, SafetySpec

-----------------------------------------------------------------------------
(* DevBundle and RegoRouter.                                                *)

\* The lock is held by the one saver that is between ReloadLock and its end,
\* and only subscribers are told.
LockOK ==
  /\ saver \in [Savers -> {"idle", "lock", "load", "send", "done"}]
  /\ devLock \in Savers \union {NoSaver}
  /\ \A s \in Savers : saver[s] \in {"load", "send"} <=> devLock = s
  /\ \A s \in Savers : saver[s] = "send" => subscribed

PreparerOK ==
  /\ preparer \in {"subscribe", "take", "load", "prepare"}
  /\ prepareJobs \in {0, 1}
  /\ subscribed <=> preparer # "subscribe"
  /\ preparer \in {"subscribe", "take"} => mainQuery \in {preparing, 0}

\* A bundle that the worker has not got is announced, or about to be; else
\* the worker is about to ask for it, or could not be told.
BundleIsOnItsWay ==
  \/ preparing = bndl
  \/ missed
  \/ prepareJobs = 1
  \/ preparer = "load"
  \/ \E s \in Savers : saver[s] = "send"

DevInv == LockOK /\ PreparerOK /\ BundleIsOnItsWay

(* Reload keeps its lock, and Store its place, whoever is waiting.          *)
LEMMA ControlStep ==
  ASSUME LockOK, PreparerOK, [DevNext]_devVars
  PROVE  LockOK' /\ PreparerOK'
<1> USE SaversAssumption DEF LockOK, PreparerOK, reloading, preparation
<1>1. ASSUME NEW s \in Savers, Save(s)
      PROVE  LockOK' /\ PreparerOK'
  BY <1>1 DEF Save, SaverAt
<1>2. ASSUME NEW s \in Savers, ReloadLock(s)
      PROVE  LockOK' /\ PreparerOK'
  BY <1>2 DEF ReloadLock, SaverAt
<1>3. ASSUME NEW s \in Savers, ReloadBundle(s)
      PROVE  LockOK' /\ PreparerOK'
  <2>1. devLock = s
    BY <1>3 DEF ReloadBundle
  <2>2. PreparerOK' /\ subscribed' = subscribed
    BY <1>3 DEF ReloadBundle
  <2>3. CASE saver' = [saver EXCEPT ![s] = "send"] /\ subscribed /\ devLock' = devLock
    BY <2>1, <2>2, <2>3
  <2>4. CASE saver' = [saver EXCEPT ![s] = "done"] /\ devLock' = NoSaver
    BY <2>1, <2>2, <2>4
  <2> QED
    BY <1>3, <2>2, <2>3, <2>4 DEF ReloadBundle, SaverAt
<1>4. ASSUME NEW s \in Savers, Notify(s)
      PROVE  LockOK' /\ PreparerOK'
  BY <1>4 DEF Notify, SaverAt
<1>5. CASE PreparerStep
  <2>1. UNCHANGED <<saver, devLock>>
    BY <1>5 DEF PreparerStep, Subscribe, TakeJob, GetLoaded, StoreQuery
  <2>2. PreparerOK' /\ (subscribed => subscribed')
    BY <1>5 DEF PreparerStep, Subscribe, TakeJob, GetLoaded, StoreQuery
  <2> QED
    BY <2>1, <2>2
<1>6. CASE UNCHANGED devVars
  BY <1>6 DEF devVars
<1> QED
  BY <1>1, <1>2, <1>3, <1>4, <1>5, <1>6 DEF DevNext, SaverStep

(* A new bundle is announced by who loaded it, unless nobody subscribed,    *)
(* and an announcement is taken only to ask for the newest.                 *)
LEMMA DeliveryStep ==
  ASSUME LockOK, PreparerOK, BundleIsOnItsWay, [DevNext]_devVars
  PROVE  BundleIsOnItsWay'
<1> USE DEF LockOK, PreparerOK, BundleIsOnItsWay, reloading, preparation
<1>1. ASSUME NEW s \in Savers, Save(s)
      PROVE  BundleIsOnItsWay'
  BY <1>1 DEF Save, SaverAt
<1>2. ASSUME NEW s \in Savers, ReloadLock(s)
      PROVE  BundleIsOnItsWay'
  BY <1>2 DEF ReloadLock, SaverAt
<1>3. ASSUME NEW s \in Savers, ReloadBundle(s)
      PROVE  BundleIsOnItsWay'
  <2>1. UNCHANGED <<prepareJobs, preparer, preparing>> /\ saver[s] = "load"
    BY <1>3 DEF ReloadBundle
  <2>2. CASE missed' = ~subscribed /\ (subscribed => saver' = [saver EXCEPT ![s] = "send"])
    BY <2>2
  <2>3. CASE saver' = [saver EXCEPT ![s] = "done"] /\ UNCHANGED <<bndl, missed>>
    BY <2>1, <2>3
  <2> QED
    BY <1>3, <2>2, <2>3 DEF ReloadBundle, SaverAt
<1>4. ASSUME NEW s \in Savers, Notify(s)
      PROVE  BundleIsOnItsWay'
  BY <1>4 DEF Notify
<1>5. CASE PreparerStep
  BY <1>5 DEF PreparerStep, Subscribe, TakeJob, GetLoaded, StoreQuery
<1>6. CASE UNCHANGED devVars
  BY <1>6 DEF devVars
<1> QED
  BY <1>1, <1>2, <1>3, <1>4, <1>5, <1>6 DEF DevNext, SaverStep

(* When the query cache worker has nothing to do and no reload is under     *)
(* way, queries are prepared with the newest bundle, however many saves     *)
(* were merged into one notice (StartQueryCacheWorker, Reload).             *)
THEOREM NewestIsPrepared == DevSpec => []NewestBundleIsPrepared
<1>1. DevInit => DevInv
  BY SaversAssumption DEF DevInit, DevInv, LockOK, PreparerOK, BundleIsOnItsWay
<1>2. DevInv /\ [DevNext]_devVars => DevInv'
  BY ControlStep, DeliveryStep DEF DevInv
<1>3. DevInv => NewestBundleIsPrepared
  BY SaversAssumption
  DEF DevInv, LockOK, PreparerOK, BundleIsOnItsWay, NewestBundleIsPrepared
<1> QED
  BY <1>1, <1>2, <1>3, PTL DEF DevSpec

-----------------------------------------------------------------------------

\* What updateParse has done so far for the newest text.
MapsInv ==
  /\ text \in Texts \union {NoText} /\ errors \in BOOLEAN
  /\ goodLines \in Nat /\ storeModule \in Nat
  /\ edit \in {"idle", "parse", "count", "putModule"}
  /\ edit # "putModule" => goodLines = storeModule
  /\ edit # "idle" => text \in Texts
  /\ edit \in {"count", "putModule"} => text.parses /\ ~errors
  /\ edit = "putModule" => goodLines = text.lines
  /\ edit = "idle" /\ text \in Texts =>
       /\ errors <=> ~text.parses
       /\ text.parses => goodLines = text.lines

\* A request during which the text does not change gets what belongs to it
\* from every provider.
RequestInv(q) ==
  /\ ask[q] \in {"idle", "content", "count", "errors", "eval", "done"}
  /\ ask[q] \notin {"idle", "done"} /\ ~overlap[q] => edit = "idle"
  /\ ask[q] \in {"idle", "content", "count"} => context[q].good = 0
  /\ ask[q] \in {"count", "errors", "eval"} /\ ~overlap[q] =>
       text \in Texts /\ context[q].lines = text.lines
  /\ ask[q] = "errors" \/ (ask[q] = "eval" /\ route[q] = "codeLens") =>
       (~overlap[q] => context[q].good = goodLines /\ goodLines > 0)
  /\ ask[q] = "eval" /\ route[q] = "codeLens" /\ ~overlap[q] => context[q].errors = errors
  /\ ask[q] = "done" /\ route[q] = "codeLens" /\ ~overlap[q] =>
       /\ response[q] \in {0, context[q].lines}
       /\ context[q].good > 0 /\ ~context[q].errors => response[q] > 0

RequestTypes ==
  /\ ask \in [Asks -> {"idle", "content", "count", "errors", "eval", "done"}]
  /\ context \in [Asks -> [lines : Nat, good : Nat, errors : BOOLEAN]]
  /\ route \in [Asks -> {"codeLens", "fileLines"}]
  /\ response \in [Asks -> Nat]
  /\ overlap \in [Asks -> BOOLEAN]

RouterInv == MapsInv /\ RequestTypes /\ \A q \in Asks : RequestInv(q)

\* didChange, beside the requests.
LEMMA ChangeMaps == ASSUME RouterInv, ChangeText \/ ChangeStep PROVE RouterInv'
<1> USE DEF RouterInv, MapsInv, Unaffected, asking, Texts, NoText
<1>1. CASE ChangeText
  <2>1. MapsInv' /\ UNCHANGED asking
    BY <1>1 DEF ChangeText
  <2>2. \A q \in Asks : overlap'[q] = (overlap[q] \/ ask[q] \notin {"idle", "done"})
    BY <1>1 DEF ChangeText
  <2>3. RequestTypes'
    BY <1>1, <2>1 DEF ChangeText, RequestTypes
  <2>4. ASSUME NEW q \in Asks
        PROVE  RequestInv(q)'
    BY <2>1, <2>2 DEF RequestInv, RequestTypes
  <2> QED
    BY <2>1, <2>3, <2>4
<1>2. CASE ChangeStep
  <2>1. MapsInv' /\ UNCHANGED <<asking, overlap>> /\ edit # "idle"
    <3>1. CASE Parse
      <4>1. text \in Texts /\ text.parses \in BOOLEAN /\ text.lines \in Nat
        BY <3>1 DEF Parse
      <4>2. errors' \in BOOLEAN /\ (errors' <=> ~text.parses)
        BY <3>1, <4>1 DEF Parse
      <4> QED
        BY <3>1, <4>1, <4>2 DEF Parse
    <3>2. CASE SetCount
      BY <3>2 DEF SetCount
    <3>3. CASE PutModule
      BY <3>3 DEF PutModule
    <3> QED
      BY <1>2, <3>1, <3>2, <3>3 DEF ChangeStep
  <2>2. RequestTypes'
    BY <2>1 DEF RequestTypes
  <2>3. ASSUME NEW q \in Asks
        PROVE  RequestInv(q)'
    BY <2>1 DEF RequestInv, RequestTypes
  <2> QED
    BY <2>1, <2>2, <2>3
<1> QED
  BY <1>1, <1>2

\* A request moves on; the others, and the maps, stay as they are.
LEMMA AskMaps == ASSUME RouterInv, NEW q \in Asks, AskStep(q) PROVE RouterInv'
<1> USE DEF RouterInv, fileMaps
<1>1. /\ UNCHANGED fileMaps /\ route' = route /\ RequestTypes'
      /\ \A r \in Asks \ {q} : /\ ask'[r] = ask[r] /\ context'[r] = context[r]
                              /\ response'[r] = response[r] /\ overlap'[r] = overlap[r]
  <2>1. CASE Begin(q)
    <3>1. (edit # "idle") \in BOOLEAN
      OBVIOUS
    <3> QED
      BY <2>1, <3>1 DEF Begin, Go, RequestTypes
  <2>2. CASE GetContent(q)
    <3>1. text # NoText => text.lines \in Nat
      BY DEF MapsInv, Texts
    <3>2. CASE text = NoText
      BY <2>2, <3>2 DEF GetContent, Go, Answer, RequestTypes
    <3>3. CASE text # NoText
      <4>1. /\ context' = [context EXCEPT ![q].lines = text.lines]
            /\ ask' = [ask EXCEPT ![q] = IF route[q] = "codeLens" THEN "count" ELSE "eval"]
            /\ UNCHANGED <<response, route, overlap, fileMaps>>
        BY <2>2, <3>3 DEF GetContent, Go
      <4> QED
        BY <3>1, <3>3, <4>1 DEF RequestTypes
    <3> QED
      BY <3>2, <3>3
  <2>3. CASE GetCount(q)
    BY <2>3 DEF GetCount, Go, Answer, RequestTypes, MapsInv
  <2>4. CASE GetErrors(q)
    BY <2>4 DEF GetErrors, Go, RequestTypes, MapsInv
  <2>5. CASE Eval(q)
    BY <2>5 DEF Eval, Go, Answer, RequestTypes, MapsInv
  <2> QED
    BY <2>1, <2>2, <2>3, <2>4, <2>5 DEF AskStep
<1>2. MapsInv'
  BY <1>1 DEF MapsInv
<1>3. ASSUME NEW r \in Asks \ {q}
      PROVE  RequestInv(r)'
  BY <1>1, <1>3 DEF RequestInv
<1>4. RequestInv(q)'
  <2> USE DEF RequestTypes
  <2>1. CASE Begin(q)
    BY <2>1 DEF Begin, Go, RequestInv
  <2>2. CASE GetContent(q)
    BY <2>2 DEF GetContent, Go, Answer, RequestInv, MapsInv, Texts, NoText
  <2>3. CASE GetCount(q)
    BY <2>3 DEF GetCount, Go, Answer, RequestInv, MapsInv
  <2>4. CASE GetErrors(q)
    BY <2>4 DEF GetErrors, Go, RequestInv, MapsInv
  <2>5. CASE Eval(q)
    BY <2>5 DEF Eval, Go, Answer, RequestInv, MapsInv, Lenses
  <2> QED
    BY <2>1, <2>2, <2>3, <2>4, <2>5 DEF AskStep
<1> QED
  BY <1>1, <1>2, <1>3, <1>4

(* Before the first change there is no text, and no request has started.    *)
LEMMA RouterStarts == RouterInit => RouterInv
<1> SUFFICES ASSUME RouterInit
             PROVE  RouterInv
  OBVIOUS
<1>1. MapsInv
  <2>1. NoText \notin Texts
    BY DEF Texts, NoText
  <2> QED
    BY <2>1 DEF RouterInit, MapsInv
<1>2. RequestTypes
  BY DEF RouterInit, RequestTypes
<1>3. ASSUME NEW q \in Asks
      PROVE  RequestInv(q)
  BY DEF RouterInit, RequestInv
<1> QED
  BY <1>1, <1>2, <1>3 DEF RouterInv

(* A change or a request keeps what belongs together.                       *)
LEMMA RouterGoesOn == RouterInv /\ [RouterNext]_routerVars => RouterInv'
<1> SUFFICES ASSUME RouterInv, [RouterNext]_routerVars
             PROVE  RouterInv'
  OBVIOUS
<1>1. CASE UNCHANGED routerVars
  BY <1>1 DEF routerVars, fileMaps, asking, RouterInv, MapsInv, RequestTypes, RequestInv
<1> QED
  BY <1>1, ChangeMaps, AskMaps DEF RouterNext

(* A request during which the text stays as it is gets lenses that fit its  *)
(* lines, and gets them if the text parses, although the providers are      *)
(* asked one after the other (Router.Handle) and the module is that of the  *)
(* newest text that parsed (updateParse).                                   *)
THEOREM LensesAreInPlace == RouterSpec => []LensesFitText
<1>1. RouterInit => RouterInv
  BY RouterStarts
<1>2. RouterInv /\ [RouterNext]_routerVars => RouterInv'
  BY RouterGoesOn
<1>3. RouterInv => LensesFitText
  BY DEF RouterInv, RequestInv, LensesFitText
<1> QED
  BY <1>1, <1>2, <1>3, PTL DEF RouterSpec

-----------------------------------------------------------------------------
(* TestLocations.                                                           *)

\* Modules are made of texts that parse, and newer texts have larger numbers.
TextsOK ==
  /\ newest \in Nat
  /\ contents \in [Docs -> Nat] /\ parsedText \in [Docs -> Nat] /\ shownTests \in [Docs -> Nat]
  /\ \A d \in Docs : parsedText[d] <= newest /\ contents[d] <= newest
  /\ \A d \in Docs : parsedText[d] = 0 \/ Parses(parsedText[d])

\* Files that are loaded have a text.
LoadOK ==
  /\ toLoad \in SUBSET Docs /\ (loader = "load" => toLoad = {})
  /\ \A d \in toLoad : contents[d] # 0

Locals == [doc : Docs \union {0}, text : Nat, at : {"idle", "parse", "set", "send", "done"}]

\* A goroutine that parses is at a file that has a text.
EditingAt(l) ==
  /\ l.at \in {"parse", "set", "send"} => l.doc \in Docs /\ contents[l.doc] # 0
  /\ l.at = "set" => Parses(l.text) /\ l.text <= newest

EditingOK == editing \in [Parsers -> Locals] /\ \A e \in Parsers : EditingAt(editing[e])

\* The worker takes jobs only for a client that has asked for tests.
LocatorOK ==
  /\ jobs \in Seq(Docs)
  /\ locating \in [doc : Docs \union {0}, text : Nat]
  /\ locator \in {"gate", "take", "read", "send", "off"}
  /\ locator \in {"read", "send"} => locating.doc \in Docs
  /\ locator \in {"take", "read", "send"} => testing

ControlOK == LoadOK /\ EditingOK /\ LocatorOK

Queued(d) == \E i \in 1..Len(jobs) : jobs[i] = d

\* The worker is still going to read the module of d.
Pending(d) ==
  \/ d \in toLoad
  \/ editing[Loader].at \in {"parse", "set"} /\ editing[Loader].doc = d
  \/ \E e \in Parsers : editing[e].at = "send" /\ editing[e].doc = d
  \/ Queued(d)
  \/ locator = "read" /\ locating.doc = d

\* What the client has once the worker has sent what it is about to send.
Heading(d) == IF locator = "send" /\ locating.doc = d THEN locating.text ELSE shownTests[d]

NothingIsForgotten ==
  testing => \A d \in Docs :
    parsedText[d] = contents[d] => Heading(d) = parsedText[d] \/ Pending(d)

TestInv == TextsOK /\ ControlOK /\ NothingIsForgotten

(* A goroutine that moves on leaves the others where they are.              *)
LEMMA EditStep ==
  ASSUME NEW e \in Parsers, NEW d \in Docs \union {0}, NEW n \in Nat,
         NEW at \in {"idle", "parse", "set", "send", "done"},
         editing \in [Parsers -> Locals], EditAt(e, d, n, at)
  PROVE  /\ editing' \in [Parsers -> Locals]
         /\ editing'[e] = [doc |-> d, text |-> n, at |-> at]
         /\ \A f \in Parsers \ {e} : editing'[f] = editing[f]
<1>1. [doc |-> d, text |-> n, at |-> at] \in Locals
  BY DEF Locals
<1> QED
  BY <1>1 DEF EditAt

(* The goroutine that moves on is well placed, and nothing is taken from    *)
(* the others: texts are replaced, never removed.                           *)
LEMMA EditingStep ==
  ASSUME NEW e \in Parsers, NEW d \in Docs \union {0}, NEW n \in Nat,
         NEW at \in {"idle", "parse", "set", "send", "done"},
         EditingOK, EditAt(e, d, n, at),
         at \in {"parse", "set", "send"} => d \in Docs /\ contents'[d] # 0,
         at = "set" => Parses(n) /\ n <= newest',
         \A c \in Docs : contents[c] # 0 => contents'[c] # 0,
         newest \in Nat, newest' \in Nat, newest <= newest'
  PROVE  EditingOK'
<1>1. /\ editing' \in [Parsers -> Locals]
      /\ editing'[e] = [doc |-> d, text |-> n, at |-> at]
      /\ \A f \in Parsers \ {e} : editing'[f] = editing[f]
  BY EditStep DEF EditingOK
<1>2. EditingAt(editing[e])'
  BY <1>1 DEF EditingAt
<1>3. ASSUME NEW f \in Parsers \ {e}
      PROVE  EditingAt(editing[f])'
  <2>1. EditingAt(editing[f]) /\ editing[f] \in Locals /\ editing'[f] = editing[f]
    BY <1>1 DEF EditingOK
  <2> QED
    BY <2>1 DEF EditingAt, Locals
<1> QED
  BY <1>1, <1>2, <1>3 DEF EditingOK

(* A goroutine may always end.                                              *)
LEMMA FinishStep ==
  ASSUME NEW e \in Parsers, newest \in Nat, EditingOK,
         EditAt(e, 0, 0, "done"), UNCHANGED <<contents, newest>>
  PROVE  EditingOK'
<1>1. 0 \in Docs \union {0} /\ 0 \in Nat
  OBVIOUS
<1>2. /\ newest' \in Nat /\ newest <= newest'
      /\ \A c \in Docs : contents[c] # 0 => contents'[c] # 0
  OBVIOUS
<1>3. "done" \in {"idle", "parse", "set", "send", "done"} /\ "done" \notin {"parse", "set", "send"}
      /\ "done" # "set"
  OBVIOUS
<1> QED
  BY <1>1, <1>2, <1>3, EditingStep

(* What handlers, the load and the worker write to the cache and to their   *)
(* own locals are texts of files.                                           *)
LEMMA TypesStep ==
  ASSUME TextsOK, ControlOK, [TestNext]_testVars
  PROVE  TextsOK' /\ ControlOK'
<1>0. LoadOK /\ EditingOK /\ LocatorOK
  BY DEF ControlOK
<1>a. \A e \in Parsers :
        /\ EditingAt(editing[e])
        /\ editing[e].doc \in Docs \union {0} /\ editing[e].text \in Nat
  BY <1>0 DEF EditingOK, Locals
<1> USE DEF TextsOK, LoadOK, LocatorOK, documents, loading, locatorVars
<1>1. CASE LoadAll
  <2>1. newest' \in Nat /\ newest' > newest
    BY <1>1 DEF LoadAll, NewTexts
  <2>2. TextsOK'
    BY <1>1, <2>1 DEF LoadAll
  <2>3. \A d \in Docs : contents[d] # 0 => contents'[d] # 0
    BY <1>1, <2>1 DEF LoadAll
  <2>4. LoadOK' /\ LocatorOK'
    BY <1>0, <1>1, <2>1 DEF LoadAll
  <2>5. UNCHANGED editing
    BY <1>1 DEF LoadAll
  <2>6. ASSUME NEW e \in Parsers
        PROVE  EditingAt(editing[e])'
    BY <1>a, <2>1, <2>3, <2>5 DEF EditingAt
  <2>7. EditingOK'
    BY <1>0, <2>5, <2>6 DEF EditingOK
  <2> QED
    BY <2>2, <2>4, <2>7 DEF ControlOK
<1>2. CASE OpenGate
  BY <1>0, <1>2 DEF OpenGate, ControlOK, EditingOK, EditingAt
<1>3. CASE NextLoaded
  <2>1. PICK d \in toLoad : toLoad' = toLoad \ {d} /\ EditAt(Loader, d, 0, "parse")
    BY <1>3 DEF NextLoaded
  <2>2. Loader \in Parsers /\ d \in Docs /\ contents[d] # 0 /\ UNCHANGED <<contents, newest>>
    BY <1>0, <1>3, <2>1 DEF Parsers, NextLoaded
  <2>3. EditingOK'
    BY <1>0, <2>1, <2>2, EditingStep
  <2>4. TextsOK' /\ LoadOK' /\ LocatorOK'
    BY <1>0, <1>3, <2>1 DEF NextLoaded
  <2> QED
    BY <2>3, <2>4 DEF ControlOK
<1>4. ASSUME NEW e \in Editors, NEW d \in Docs, ChangeDoc(e, d)
      PROVE  TextsOK' /\ ControlOK'
  <2>1. e \in Parsers /\ EditAt(e, d, 0, "parse")
    BY <1>4 DEF ChangeDoc, Parsers
  <2>2. newest' \in Nat /\ newest' > newest /\ contents' = [contents EXCEPT ![d] = newest']
    BY <1>4 DEF ChangeDoc, NewTexts
  <2>3. contents'[d] # 0 /\ \A c \in Docs : contents[c] # 0 => contents'[c] # 0
    BY <2>2
  <2>4. TextsOK' /\ LoadOK' /\ LocatorOK'
    BY <1>0, <1>4, <2>2, <2>3 DEF ChangeDoc
  <2>5. EditingOK'
    BY <1>0, <2>1, <2>2, <2>3, EditingStep
  <2> QED
    BY <2>4, <2>5 DEF ControlOK
<1>5. ASSUME NEW e \in Parsers, ParseDoc(e)
      PROVE  TextsOK' /\ ControlOK'
  <2> DEFINE d == editing[e].doc
  <2>1. d \in Docs /\ contents[d] \in Nat /\ contents[d] # 0 /\ contents[d] <= newest
    BY <1>a, <1>5 DEF ParseDoc, EditingAt
  <2>2. UNCHANGED <<contents, newest>>
    BY <1>5 DEF ParseDoc
  <2>3. CASE Parses(contents[d])
    <3>1. EditAt(e, d, contents[d], "set")
      BY <1>5, <2>3 DEF ParseDoc
    <3> HIDE DEF d
    <3>2. EditingOK'
      BY <1>0, <2>1, <2>2, <2>3, <3>1, EditingStep
    <3> QED
      BY <1>0, <3>2, <1>5 DEF ParseDoc, ControlOK
  <2>4. CASE ~Parses(contents[d])
    <3>1. EditAt(e, 0, 0, "done")
      BY <1>5, <2>4 DEF ParseDoc
    <3>2. EditingOK'
      BY <1>0, <2>2, <3>1, FinishStep
    <3> QED
      BY <1>0, <3>2, <1>5 DEF ParseDoc, ControlOK
  <2> QED
    BY <2>3, <2>4
<1>6. ASSUME NEW e \in Parsers, SetModule(e)
      PROVE  TextsOK' /\ ControlOK'
  <2> DEFINE d == editing[e].doc
             n == editing[e].text
  <2>1. d \in Docs /\ contents[d] # 0 /\ n \in Nat /\ Parses(n) /\ n <= newest
    BY <1>a, <1>6 DEF SetModule, EditingAt
  <2>2. /\ parsedText' = [parsedText EXCEPT ![d] = n]
        /\ EditAt(e, d, 0, IF testing THEN "send" ELSE "done")
        /\ UNCHANGED <<contents, newest>>
    BY <1>6 DEF SetModule
  <2> HIDE DEF d, n
  <2>3. TextsOK'
    BY <1>6, <2>1, <2>2 DEF SetModule
  <2>4. CASE testing
    BY <1>0, <2>1, <2>2, <2>3, <2>4, EditingStep, <1>6 DEF SetModule, ControlOK
  <2>5. CASE ~testing
    BY <1>0, <2>1, <2>2, <2>3, <2>5, EditingStep, <1>6 DEF SetModule, ControlOK
  <2> QED
    BY <2>4, <2>5
<1>7. ASSUME NEW e \in Parsers, SendDoc(e)
      PROVE  TextsOK' /\ ControlOK'
  <2>1. editing[e].doc \in Docs
    BY <1>a, <1>7 DEF SendDoc, EditingAt
  <2>2. EditAt(e, 0, 0, "done") /\ jobs' \in Seq(Docs) /\ UNCHANGED <<contents, newest>>
    BY <1>0, <1>7, <2>1 DEF SendDoc, Queue
  <2>3. EditingOK'
    BY <1>0, <2>2, FinishStep
  <2> QED
    BY <1>0, <1>7, <2>2, <2>3 DEF SendDoc, ControlOK
<1>8. CASE PassGate
  BY <1>0, <1>8 DEF PassGate, ControlOK, EditingOK, EditingAt
<1>9. CASE TakeTestJob
  <2>1. jobs' \in Seq(Docs) /\ Head(jobs) \in Docs
    BY <1>0, <1>9 DEF TakeTestJob
  <2> QED
    BY <1>0, <1>9, <2>1 DEF TakeTestJob, ControlOK, EditingOK, EditingAt
<1>10. CASE ReadModule
  BY <1>0, <1>10 DEF ReadModule, ControlOK, EditingOK, EditingAt
<1>11. CASE SendLocations
  BY <1>0, <1>11 DEF SendLocations, ControlOK, EditingOK, EditingAt
<1>12. CASE UNCHANGED testVars
  BY <1>0, <1>12 DEF testVars, ControlOK, EditingOK, EditingAt
<1> QED
  BY <1>1, <1>2, <1>3, <1>4, <1>5, <1>6, <1>7, <1>8, <1>9, <1>10, <1>11, <1>12
  DEF TestNext, LoaderStep, LocatorStep, ParserStep

(* Whoever stores a module queues its file, and a job that is taken is      *)
(* answered with the module that is in the cache by then.                   *)
LEMMA ForgottenStep ==
  ASSUME TextsOK, ControlOK, NothingIsForgotten, [TestNext]_testVars
  PROVE  NothingIsForgotten'
<1> SUFFICES ASSUME testing, NEW d \in Docs, (parsedText[d] = contents[d])'
             PROVE  (Heading(d) = parsedText[d] \/ Pending(d))'
  <2>1. testing' = testing
    BY DEF TestNext, LoaderStep, LocatorStep, ParserStep, testVars, LoadAll, OpenGate, NextLoaded,
           ChangeDoc, ParseDoc, SetModule, SendDoc, PassGate, TakeTestJob, ReadModule, SendLocations
  <2> QED
    BY <2>1 DEF NothingIsForgotten
<1>0. parsedText[d] = contents[d] => Heading(d) = parsedText[d] \/ Pending(d)
  BY DEF NothingIsForgotten
<1>a. /\ LoadOK /\ LocatorOK
      /\ \A e \in Parsers : EditingAt(editing[e]) /\ editing[e].doc \in Docs \union {0}
      /\ editing \in [Parsers -> Locals] /\ Loader \in Parsers
  BY DEF ControlOK, EditingOK, Locals, Parsers
<1> USE DEF TextsOK, LoadOK, LocatorOK, documents, loading, locatorVars, Heading, Pending, Queued
<1>1. CASE LoadAll
  BY <1>0, <1>1, <1>a DEF LoadAll
<1>2. CASE OpenGate
  BY <1>0, <1>2 DEF OpenGate
<1>3. CASE NextLoaded
  <2>1. PICK c \in toLoad : toLoad' = toLoad \ {c} /\ EditAt(Loader, c, 0, "parse")
    BY <1>3 DEF NextLoaded
  <2>2. /\ editing'[Loader].doc = c /\ editing'[Loader].at = "parse"
        /\ \A e \in Parsers \ {Loader} : editing'[e] = editing[e]
    BY <1>a, <2>1 DEF EditAt
  <2> QED
    BY <1>0, <1>3, <1>a, <2>1, <2>2 DEF NextLoaded, LoaderIsFree
<1>4. ASSUME NEW e \in Editors, NEW c \in Docs, ChangeDoc(e, c)
      PROVE  (Heading(d) = parsedText[d] \/ Pending(d))'
  <2>1. c # d
    BY <1>4 DEF ChangeDoc, NewTexts
  <2>2. e \in Parsers /\ editing[e].at = "idle" /\ \A f \in Parsers \ {e} : editing'[f] = editing[f]
    BY <1>a, <1>4 DEF ChangeDoc, EditAt, Parsers
  <2>3. parsedText[d] = contents[d]
    BY <1>4, <2>1 DEF ChangeDoc
  <2> QED
    BY <1>0, <1>4, <1>a, <2>1, <2>2, <2>3 DEF ChangeDoc
<1>5. ASSUME NEW e \in Parsers, ParseDoc(e)
      PROVE  (Heading(d) = parsedText[d] \/ Pending(d))'
  <2>1. /\ editing[e].at = "parse" /\ contents[editing[e].doc] # 0 /\ editing[e].doc \in Docs
        /\ \A f \in Parsers \ {e} : editing'[f] = editing[f]
    BY <1>a, <1>5 DEF ParseDoc, EditAt, EditingAt
  <2>2. CASE editing[e].doc = d
    <3>1. Parses(contents[d])
      BY <1>5, <2>1, <2>2 DEF ParseDoc
    <3>2. editing'[e].doc = d /\ editing'[e].at = "set"
      BY <1>5, <1>a, <2>2, <3>1 DEF ParseDoc, EditAt
    <3> QED
      BY <1>0, <1>5, <1>a, <2>1, <2>2, <3>2 DEF ParseDoc
  <2>3. CASE editing[e].doc # d
    BY <1>0, <1>5, <1>a, <2>1, <2>3 DEF ParseDoc
  <2> QED
    BY <2>2, <2>3
<1>6. ASSUME NEW e \in Parsers, SetModule(e)
      PROVE  (Heading(d) = parsedText[d] \/ Pending(d))'
  <2>1. /\ editing[e].at = "set" /\ editing'[e].doc = editing[e].doc /\ editing'[e].at = "send"
        /\ \A f \in Parsers \ {e} : editing'[f] = editing[f]
    BY <1>6, <1>a DEF SetModule, EditAt
  <2>2. CASE editing[e].doc = d
    BY <2>1, <2>2
  <2>3. CASE editing[e].doc # d
    BY <1>0, <1>6, <1>a, <2>1, <2>3 DEF SetModule
  <2> QED
    BY <2>2, <2>3
<1>7. ASSUME NEW e \in Parsers, SendDoc(e)
      PROVE  (Heading(d) = parsedText[d] \/ Pending(d))'
  <2>1. /\ editing[e].at = "send" /\ editing[e].doc \in Docs
        /\ \A f \in Parsers \ {e} : editing'[f] = editing[f]
    BY <1>7, <1>a DEF SendDoc, EditAt, EditingAt
  <2>2. jobs' = Append(jobs, editing[e].doc)
    BY <1>7 DEF SendDoc, Queue
  <2>3. Queued(d) \/ editing[e].doc = d => Queued(d)'
    <3>1. /\ Len(jobs') = Len(jobs) + 1 /\ Len(jobs) \in Nat
          /\ jobs'[Len(jobs) + 1] = editing[e].doc
          /\ \A i \in 1..Len(jobs) : jobs'[i] = jobs[i]
      BY <1>a, <2>1, <2>2
    <3>2. Len(jobs) + 1 \in 1..Len(jobs') /\ 1..Len(jobs) \subseteq 1..Len(jobs')
      BY <3>1
    <3> QED
      BY <3>1, <3>2
  <2> QED
    BY <1>0, <1>7, <1>a, <2>1, <2>3 DEF SendDoc
<1>8. CASE PassGate
  BY <1>0, <1>8 DEF PassGate
<1>9. CASE TakeTestJob
  <2>1. jobs' = Tail(jobs) /\ jobs # <<>> /\ jobs \in Seq(Docs)
    BY <1>9, <1>a DEF TakeTestJob
  <2>2. Queued(d) => Queued(d)' \/ Head(jobs) = d
    <3>1. ASSUME NEW i \in 1..Len(jobs), jobs[i] = d, i # 1
          PROVE  i - 1 \in 1..Len(jobs') /\ jobs'[i - 1] = d
      <4>1. /\ Len(jobs) \in Nat /\ Len(Tail(jobs)) = Len(jobs) - 1
            /\ \A j \in 1..Len(jobs) - 1 : Tail(jobs)[j] = jobs[j + 1]
        BY ONLY <2>1
      <4> QED
        BY <2>1, <3>1, <4>1
    <3>2. jobs[1] = Head(jobs)
      BY <2>1
    <3> QED
      BY <3>1, <3>2
  <2> QED
    BY <1>0, <1>9, <1>a, <2>2 DEF TakeTestJob
<1>10. CASE ReadModule
  BY <1>0, <1>10, <1>a DEF ReadModule
<1>11. CASE SendLocations
  BY <1>0, <1>11, <1>a DEF SendLocations
<1>12. CASE UNCHANGED testVars
  BY <1>0, <1>12 DEF testVars
<1> QED
  BY <1>1, <1>2, <1>3, <1>4, <1>5, <1>6, <1>7, <1>8, <1>9, <1>10, <1>11, <1>12
  DEF TestNext, LoaderStep, LocatorStep, ParserStep

(* At the start there are no texts, and nobody waits for anything.          *)
LEMMA TestStarts == TestInit => TestInv
<1> SUFFICES ASSUME TestInit
             PROVE  TestInv
  OBVIOUS
<1>1. \A e \in Parsers : editing[e] = None
  BY DEF TestInit
<1>2. editing \in [Parsers -> Locals]
  BY DEF TestInit, None, Locals
<1>3. EditingOK
  BY <1>1, <1>2 DEF EditingOK, EditingAt, None
<1>4. TextsOK /\ LoadOK /\ LocatorOK /\ NothingIsForgotten
  BY DEF TestInit, TextsOK, LoadOK, LocatorOK, NothingIsForgotten, Heading
<1> QED
  BY <1>3, <1>4 DEF TestInv, ControlOK

(* However handlers and the initial load overlap, when nothing is under way *)
(* the client has the test locations of the module in the cache, if that is *)
(* the module of the newest text (StartTestLocationsWorker).                *)
THEOREM LocationsStayCurrent == TestSpec => []LocationsAreCurrent
<1>1. TestInit => TestInv
  BY TestStarts
<1>2. TestInv /\ [TestNext]_testVars => TestInv'
  BY TypesStep, ForgottenStep DEF TestInv
<1>3. TestInv => LocationsAreCurrent
  <2> SUFFICES ASSUME TestInv, AtRest, NEW d \in Docs, parsedText[d] = contents[d]
               PROVE  shownTests[d] = parsedText[d]
    BY DEF LocationsAreCurrent
  <2>1. testing /\ Heading(d) = shownTests[d]
    BY DEF TestInv, ControlOK, LocatorOK, AtRest, Heading
  <2>2. ~Pending(d)
    BY DEF AtRest, Pending, Queued, Parsers
  <2> QED
    BY <2>1, <2>2 DEF TestInv, NothingIsForgotten
<1> QED
  BY <1>1, <1>2, <1>3, PTL DEF TestSpec

-----------------------------------------------------------------------------
(* CommandWorker.                                                           *)

\* The parts of CommandTypes: the handlers, the worker, the client, and the rest.
HandlersOK ==
  /\ sender \in [Requests -> {"idle", "sending", "sent"}]
  /\ kind \in [Requests -> {"text", "rename", "eval"}]
  /\ commands \in Seq(Requests) /\ Len(commands) <= QueueSize

WorkerOK ==
  /\ job \in Requests \union {NoJob}
  /\ step \in {"take", "run", "set", "drop", "put", "call", "prompt", "created", "evaluate"}
  /\ job = NoJob <=> step = "take"
  /\ target \in Commands!Places

Questions == [what : {"text", "question", "created"} \union Commands!Places, by : Requests]
ClientOK == asked \in Seq(Questions) /\ replied \in BOOLEAN

FilesOK ==
  /\ place \in Commands!Places /\ cached \subseteq Commands!Places \union {"path"}
  /\ inputFile \in BOOLEAN /\ suppressed \in BOOLEAN

CommandsOK == HandlersOK /\ WorkerOK /\ ClientOK /\ FilesOK

LEMMA CommandParts == Commands!CommandTypes <=> CommandsOK
BY DEF CommandsOK, HandlersOK, WorkerOK, Questions, ClientOK, FilesOK, Commands!CommandTypes

(* A request to the client goes out in the name of the one that runs.       *)
LEMMA ClientIsAsked ==
  ASSUME ClientOK, WorkerOK, step # "take", NEW s \in {"call", "prompt", "created"},
         NEW what \in {"text", "question", "created"} \union Commands!Places,
         Commands!Ask(what, s)
  PROVE  ClientOK' /\ WorkerOK'
<1>1. job \in Requests /\ job' = job /\ target' = target /\ step' = s
  BY DEF WorkerOK, Commands!Ask, Commands!At
<1>2. [what |-> what, by |-> job] \in Questions
  BY <1>1 DEF Questions
<1>3. ClientOK'
  <2>1. \A q \in Questions : Append(asked, q) \in Seq(Questions)
    BY DEF ClientOK
  <2>2. asked' \in Seq(Questions)
    BY <1>2, <2>1, Zenon DEF Commands!Ask
  <2>3. replied' = FALSE
    BY DEF Commands!Ask
  <2> QED
    BY <2>2, <2>3 DEF ClientOK
<1>4. WorkerOK'
  BY <1>1 DEF WorkerOK
<1> QED
  BY <1>3, <1>4

(* The worker returns to its channel, or goes on with what it is at.        *)
LEMMA WorkerMoves ==
  ASSUME WorkerOK,
         \/ Commands!Return
         \/ /\ step # "take"
            /\ \E s \in {"drop", "put", "evaluate"} : Commands!At(s)
  PROVE  WorkerOK'
BY CommandsAssumption DEF WorkerOK, Commands!Return, Commands!At, Commands!Places

(* Commands: the channel takes no more than it has room for, the worker is  *)
(* at one request or at none, and what the client is asked is asked in the  *)
(* name of a request (StartCommandWorker, handleWorkspaceExecuteCommand).   *)
LEMMA CommandTypesStep ==
  CommandsOK /\ [Commands!CommandNext]_(Commands!commandVars) => CommandsOK'
<1> SUFFICES ASSUME CommandsOK, [Commands!CommandNext]_(Commands!commandVars)
             PROVE  CommandsOK'
  OBVIOUS
<1> USE DEF CommandsOK
<1>0. "old" \in Commands!Places /\ \A i \in 1..4 : Commands!Candidates[i] \in Commands!Places
  BY DEF Commands!Places, Commands!Candidates
<1>1. ASSUME NEW r \in Requests, Commands!Execute(r)
      PROVE  CommandsOK'
  <2>1. HandlersOK'
    BY <1>1 DEF HandlersOK, Commands!Execute
  <2> QED
    BY <1>1, <2>1 DEF WorkerOK, ClientOK, FilesOK, Commands!Execute, Commands!executing,
                      Commands!client, Commands!prompting
<1>2. ASSUME NEW r \in Requests, Commands!Send(r)
      PROVE  CommandsOK'
  <2>1. HandlersOK'
    BY <1>2, CommandsAssumption DEF HandlersOK, Commands!Send
  <2> QED
    BY <1>2, <2>1 DEF WorkerOK, ClientOK, FilesOK, Commands!Send, Commands!executing,
                      Commands!client, Commands!prompting
<1>3. CASE Commands!Take
  <2>1. HandlersOK'
    BY <1>3, CommandsAssumption DEF HandlersOK, Commands!Take, Commands!requests
  <2>2. WorkerOK'
    BY <1>3, CommandsAssumption DEF WorkerOK, HandlersOK, Commands!Take
  <2> QED
    BY <1>3, <2>1, <2>2 DEF ClientOK, FilesOK, Commands!Take, Commands!client, Commands!prompting
<1>4. ASSUME UNCHANGED <<Commands!requests, commands>>
      PROVE  HandlersOK'
  BY <1>4 DEF HandlersOK, Commands!requests
<1>5. ASSUME UNCHANGED <<place, cached, Commands!prompting>>
      PROVE  FilesOK'
  BY <1>5 DEF FilesOK, Commands!prompting
<1>6. ASSUME UNCHANGED Commands!client
      PROVE  ClientOK'
  BY <1>6 DEF ClientOK, Commands!client
<1>7. CASE Commands!Decline \/ Commands!IgnoreRule \/ Commands!TimeOut \/ Commands!Answered
  <2>1. WorkerOK'
    BY <1>7, WorkerMoves DEF Commands!Decline, Commands!IgnoreRule, Commands!TimeOut, Commands!Answered
  <2> QED
    BY <1>4, <1>5, <1>6, <1>7, <2>1
    DEF Commands!Decline, Commands!IgnoreRule, Commands!TimeOut, Commands!Answered
<1>8. CASE Commands!FixText \/ Commands!Explore \/ Commands!CreateTest \/ Commands!StartDebugging
           \/ Commands!Evaluate
  <2>1. /\ step # "take"
        /\ Commands!Ask("text", "call") \/ (Commands!Return /\ UNCHANGED Commands!client)
        /\ UNCHANGED <<Commands!requests, commands, place, cached, Commands!prompting>>
    BY <1>8, Zenon
    DEF Commands!FixText, Commands!Explore, Commands!CreateTest, Commands!StartDebugging,
        Commands!Evaluate, Commands!IgnoreRule, Commands!Running
  <2>2. WorkerOK' /\ ClientOK'
    BY <1>6, <2>1, ClientIsAsked, WorkerMoves
  <2> QED
    BY <1>4, <1>5, <2>1, <2>2
<1>9. CASE Commands!RenameSet
  <2>1. CASE "old" \notin cached
    BY <1>4, <1>5, <1>6, <1>9, <2>1, WorkerMoves DEF Commands!RenameSet
  <2>2. CASE "old" \in cached
    <3>1. PICK i \in 1..4 : /\ target' = Commands!Candidates[i] /\ step' = "set" /\ job' = job
                            /\ cached' = cached \union {Commands!Candidates[i]}
      BY <1>9, <2>2 DEF Commands!RenameSet, Commands!Candidates
    <3>2. WorkerOK'
      BY <1>0, <1>9, <3>1 DEF WorkerOK, Commands!RenameSet, Commands!Running
    <3>3. FilesOK'
      BY <1>0, <1>9, <3>1 DEF FilesOK, Commands!RenameSet, Commands!prompting
    <3> QED
      BY <1>4, <1>6, <1>9, <3>2, <3>3 DEF Commands!RenameSet
  <2> QED
    BY <2>1, <2>2
<1>10. CASE Commands!RenameDelete \/ Commands!RenamePut
  <2>1. WorkerOK'
    BY <1>10, WorkerMoves DEF Commands!RenameDelete, Commands!RenamePut
  <2>2. FilesOK'
    BY <1>10 DEF FilesOK, Commands!RenameDelete, Commands!RenamePut, Commands!prompting
  <2> QED
    BY <1>4, <1>6, <1>10, <2>1, <2>2 DEF Commands!RenameDelete, Commands!RenamePut
<1>11. CASE Commands!RenameAsk
  <2>1. WorkerOK' /\ ClientOK'
    <3>1. target \in Commands!Places /\ step # "take" /\ Commands!Ask(target, "call")
      BY <1>11 DEF WorkerOK, Commands!RenameAsk
    <3> QED
      BY <3>1, ClientIsAsked
  <2>2. FilesOK'
    BY <1>11 DEF FilesOK, Commands!RenameAsk, Commands!prompting
  <2> QED
    BY <1>4, <1>11, <2>1, <2>2 DEF Commands!RenameAsk
<1>12. CASE Commands!RunEval
  <2>1. /\ step # "take"
        /\ \/ Commands!Ask("question", "prompt")
           \/ Commands!At("evaluate") /\ UNCHANGED Commands!client
           \/ Commands!Return /\ UNCHANGED Commands!client
        /\ UNCHANGED <<Commands!requests, commands, place, cached, Commands!prompting>>
    BY <1>12 DEF Commands!RunEval, Commands!Running
  <2>2. WorkerOK' /\ ClientOK'
    BY <1>6, <2>1, ClientIsAsked, WorkerMoves
  <2> QED
    BY <1>4, <1>5, <2>1, <2>2
<1>13. CASE Commands!Prompted
  <2>1. /\ step # "take"
        /\ \/ Commands!Ask("created", "created") /\ inputFile' = TRUE /\ suppressed' = suppressed
           \/ /\ Commands!At("evaluate") /\ UNCHANGED Commands!client
              /\ inputFile' = inputFile /\ suppressed' \in {suppressed, TRUE}
        /\ UNCHANGED <<Commands!requests, commands, place, cached>>
    BY <1>13 DEF Commands!Prompted, Commands!client
  <2>2. WorkerOK' /\ ClientOK'
    BY <1>6, <2>1, ClientIsAsked, WorkerMoves
  <2>3. FilesOK'
    BY <2>1 DEF FilesOK
  <2> QED
    BY <1>4, <2>1, <2>2, <2>3
<1>14. CASE Commands!React
  <2>1. HandlersOK' /\ WorkerOK'
    BY <1>14 DEF HandlersOK, WorkerOK, Commands!React, Commands!requests, Commands!executing
  <2>2. asked' \in Seq(Questions)
    BY <1>14 DEF ClientOK, Commands!React
  <2>3. replied' \in BOOLEAN
    BY <1>14, Zenon DEF ClientOK, Commands!React
  <2>4. FilesOK'
    BY <1>14 DEF FilesOK, Commands!React, Commands!prompting
  <2> QED
    BY <2>1, <2>2, <2>3, <2>4 DEF ClientOK
<1>15. CASE Commands!StateWorkerStep
  <2>1. FilesOK'
    BY <1>15 DEF FilesOK, Commands!StateWorkerStep, Commands!Sweep, Commands!Load,
                 Commands!prompting
  <2>2. WorkerOK'
    BY <1>15 DEF WorkerOK, Commands!StateWorkerStep, Commands!Sweep, Commands!Load,
                 Commands!executing
  <2> QED
    BY <1>4, <1>6, <1>15, <2>1, <2>2 DEF Commands!StateWorkerStep, Commands!Sweep, Commands!Load
<1>16. CASE UNCHANGED Commands!commandVars
  BY <1>4, <1>5, <1>6, <1>16 DEF WorkerOK, Commands!commandVars, Commands!executing
<1> QED
  BY <1>1, <1>2, <1>3, <1>7, <1>8, <1>9, <1>10, <1>11, <1>12, <1>13, <1>14, <1>15, <1>16
  DEF Commands!CommandNext, Commands!CommandWorkerStep

-----------------------------------------------------------------------------
(* DebugAdapter.                                                            *)

DebugControlOK ==
  /\ serving \in Clients \union {Nobody}
  /\ link \in [Clients -> {"waiting", "open", "broken"}]
  /\ sentTo \in [Clients -> Debug!Kinds \union {"none"}]
  /\ reader \in [Clients -> {"read", "initialized", "respond", "last", "done", "ended"}]
  /\ writer \in [Clients -> {"take", "write", "writeResponse", "done", "ended"}]
  /\ debuggee \in [Clients -> {"none", "stopped", "running", "event", "gone"}]

\* The responses that the goroutines of a connection have in their hands.
Owed(c) ==
  (IF reader[c] \in {"initialized", "respond", "last"} THEN 1 ELSE 0)
  + (IF writer[c] = "writeResponse" THEN 1 ELSE 0)

\* Nothing is answered twice, or before it is asked.
CountsOK ==
  /\ requested \in [Clients -> Nat] /\ told \in [Clients -> Nat]
  /\ \A c \in Clients :
       /\ told[c] + Owed(c) <= requested[c] /\ requested[c] <= MaxRequests
       /\ sentTo[c] # "none" => requested[c] < MaxRequests

DebugInv == DebugControlOK /\ CountsOK

(* Each goroutine is at one of its places.                                  *)
LEMMA DebugControlStep ==
  DebugControlOK /\ [Debug!DebugNext]_(Debug!debugVars) => DebugControlOK'
<1> SUFFICES ASSUME DebugControlOK, [Debug!DebugNext]_(Debug!debugVars)
             PROVE  DebugControlOK'
  OBVIOUS
<1> USE DEF DebugControlOK, Debug!Put, Debug!Hand, Debug!requestVars
<1>1. ASSUME NEW c \in Clients, Debug!Accept(c) \/ Debug!ReturnFromStart(c)
      PROVE  DebugControlOK'
  BY <1>1 DEF Debug!Accept, Debug!ReturnFromStart
<1>2. ASSUME NEW c \in Clients, NEW k \in Debug!Kinds, Debug!Request(c, k)
      PROVE  DebugControlOK'
  BY <1>2 DEF Debug!Request
<1>3. ASSUME NEW c \in Clients, Debug!HangUp(c)
      PROVE  DebugControlOK'
  BY <1>3 DEF Debug!HangUp
<1>4. ASSUME NEW c \in Clients, Debug!ReaderStep(c)
      PROVE  DebugControlOK'
  <2>1. CASE Debug!ReadFails(c)
    BY <2>1 DEF Debug!ReadFails
  <2>2. CASE Debug!Handle(c)
    <3>1. PICK d \in Debug!Effect(c, sentTo[c]) :
            /\ debuggee' = [debuggee EXCEPT ![c] = d]
            /\ reader' = [reader EXCEPT ![c] =
                 CASE sentTo[c] = "disconnect" -> "last"
                   [] sentTo[c] = "launch" /\ d # "none" -> "initialized"
                   [] sentTo[c] = "unknown" -> "read"
                   [] OTHER -> "respond"]
      BY <2>2 DEF Debug!Handle
    <3>2. d \in {"none", "stopped", "running", "event", "gone"}
      BY DEF Debug!Effect
    <3>3. sentTo' \in [Clients -> Debug!Kinds \union {"none"}]
      BY <2>2 DEF Debug!Handle
    <3> QED
      BY <2>2, <3>1, <3>2, <3>3 DEF Debug!Handle
  <2>3. CASE Debug!SendInitialized(c) \/ Debug!SendResponse(c)
    BY <2>3 DEF Debug!SendInitialized, Debug!SendResponse
  <2>4. CASE Debug!HandlePanics(c)
    BY <2>4 DEF Debug!HandlePanics, Debug!Everywhere
  <2> QED
    BY <1>4, <2>1, <2>2, <2>3, <2>4 DEF Debug!ReaderStep
<1>5. ASSUME NEW c \in Clients, Debug!WriterStep(c)
      PROVE  DebugControlOK'
  BY <1>5 DEF Debug!WriterStep, Debug!Write, Debug!WriteFails
<1>6. ASSUME NEW c \in Clients, Debug!Debug(c) \/ Debug!SendEvent(c)
      PROVE  DebugControlOK'
  BY <1>6 DEF Debug!Debug, Debug!SendEvent
<1>7. CASE UNCHANGED Debug!debugVars
  BY <1>7 DEF Debug!debugVars
<1> QED
  BY <1>1, <1>2, <1>3, <1>4, <1>5, <1>6, <1>7 DEF Debug!DebugNext

(* A response is counted when it is written, and was counted as owed from   *)
(* the request on: through the reader's hands into the writer's             *)
(* (HandleMessage and SendResponse, internal/dap/dap.go).                   *)
LEMMA CountsStep ==
  DebugControlOK /\ CountsOK /\ [Debug!DebugNext]_(Debug!debugVars) => CountsOK'
<1> SUFFICES ASSUME DebugControlOK, CountsOK, [Debug!DebugNext]_(Debug!debugVars)
             PROVE  CountsOK'
  OBVIOUS
<1> USE ClientsAssumption DEF DebugControlOK, CountsOK, Owed, Debug!Put, Debug!Hand,
                              Debug!requestVars
<1>1. ASSUME NEW c \in Clients, Debug!Accept(c) \/ Debug!ReturnFromStart(c)
      PROVE  CountsOK'
  BY <1>1 DEF Debug!Accept, Debug!ReturnFromStart
<1>2. ASSUME NEW c \in Clients, NEW k \in Debug!Kinds, Debug!Request(c, k)
      PROVE  CountsOK'
  BY <1>2 DEF Debug!Request
<1>3. ASSUME NEW c \in Clients, Debug!HangUp(c)
      PROVE  CountsOK'
  BY <1>3 DEF Debug!HangUp
<1>4. ASSUME NEW c \in Clients, Debug!ReaderStep(c)
      PROVE  CountsOK'
  <2>1. CASE Debug!ReadFails(c)
    BY <2>1 DEF Debug!ReadFails
  <2>2. CASE Debug!Handle(c)
    <3>1. PICK d \in Debug!Effect(c, sentTo[c]) :
            /\ reader' = [reader EXCEPT ![c] =
                 CASE sentTo[c] = "disconnect" -> "last"
                   [] sentTo[c] = "launch" /\ d # "none" -> "initialized"
                   [] sentTo[c] = "unknown" -> "read"
                   [] OTHER -> "respond"]
      BY <2>2 DEF Debug!Handle
    <3>2. CASE sentTo[c] = "unknown"
      <4>1. reader'[c] = "read" /\ requested' = requested
        BY <2>2, <3>1, <3>2 DEF Debug!Handle
      <4> QED
        BY <2>2, <3>1, <4>1 DEF Debug!Handle
    <3>3. CASE sentTo[c] # "unknown"
      <4>1. requested' = [requested EXCEPT ![c] = requested[c] + 1]
        BY <2>2, <3>3 DEF Debug!Handle
      <4>2. sentTo[c] # "none" /\ sentTo'[c] = "none" /\ reader[c] = "read"
        BY <2>2 DEF Debug!Handle
      <4>3. \A b \in Clients \ {c} : /\ reader'[b] = reader[b] /\ sentTo'[b] = sentTo[b]
                                    /\ requested'[b] = requested[b]
        BY <2>2, <3>1, <4>1 DEF Debug!Handle
      <4>4. UNCHANGED <<told, writer>>
        BY <2>2 DEF Debug!Handle
      <4> QED
        BY <4>1, <4>2, <4>3, <4>4
    <3> QED
      BY <3>2, <3>3
  <2>3. CASE Debug!SendInitialized(c) \/ Debug!SendResponse(c)
    BY <2>3 DEF Debug!SendInitialized, Debug!SendResponse
  <2>4. CASE Debug!HandlePanics(c)
    <3>1. /\ \A b \in Clients : /\ reader'[b] = "ended" /\ writer'[b] = "ended"
                              /\ sentTo'[b] = "none"
          /\ requested' = [requested EXCEPT ![c] = requested[c] + 1]
          /\ told' = told /\ sentTo[c] # "none"
      BY <2>4 DEF Debug!HandlePanics, Debug!Everywhere, Debug!Panics
    <3> QED
      BY <3>1
  <2> QED
    BY <1>4, <2>1, <2>2, <2>3, <2>4 DEF Debug!ReaderStep
<1>5. ASSUME NEW c \in Clients, Debug!WriterStep(c)
      PROVE  CountsOK'
  BY <1>5 DEF Debug!WriterStep, Debug!Write, Debug!WriteFails
<1>6. ASSUME NEW c \in Clients, Debug!Debug(c) \/ Debug!SendEvent(c)
      PROVE  CountsOK'
  BY <1>6 DEF Debug!Debug, Debug!SendEvent
<1>7. CASE UNCHANGED Debug!debugVars
  BY <1>7 DEF Debug!debugVars
<1> QED
  BY <1>1, <1>2, <1>3, <1>4, <1>5, <1>6, <1>7 DEF Debug!DebugNext

-----------------------------------------------------------------------------
(* Together.                                                                *)

\* What DevTypes says beside LockOK and PreparerOK.
BundlesOK ==
  /\ bundleFiles \in 0..MaxBundles /\ bndl \in 0..MaxBundles
  /\ preparing \in 0..MaxBundles /\ mainQuery \in 0..MaxBundles
  /\ subscribed \in BOOLEAN /\ missed \in BOOLEAN

(* A bundle is loaded from the files, prepared when loaded, and cached when *)
(* prepared.                                                                *)
LEMMA BundlesStep ==
  ASSUME BundlesOK, [DevNext]_devVars
  PROVE  BundlesOK'
<1> USE SaversAssumption DEF BundlesOK, reloading, preparation
<1>1. ASSUME NEW s \in Savers, Save(s) \/ SaverStep(s)
      PROVE  BundlesOK'
  <2>1. missed' \in BOOLEAN
    BY <1>1, Zenon DEF Save, SaverStep, ReloadLock, ReloadBundle, Notify
  <2>2. UNCHANGED <<preparing, mainQuery, subscribed>>
    BY <1>1 DEF Save, SaverStep, ReloadLock, ReloadBundle, Notify
  <2>3. bundleFiles' \in 0..MaxBundles /\ bndl' \in 0..MaxBundles
    BY <1>1 DEF Save, SaverStep, ReloadLock, ReloadBundle, Notify
  <2> QED
    BY <2>1, <2>2, <2>3
<1>2. CASE PreparerStep
  <2>1. subscribed' \in BOOLEAN
    BY <1>2, Zenon DEF PreparerStep, Subscribe, TakeJob, GetLoaded, StoreQuery
  <2>2. UNCHANGED <<bundleFiles, bndl, missed>>
    BY <1>2 DEF PreparerStep, Subscribe, TakeJob, GetLoaded, StoreQuery
  <2>3. preparing' \in 0..MaxBundles /\ mainQuery' \in 0..MaxBundles
    BY <1>2 DEF PreparerStep, Subscribe, TakeJob, GetLoaded, StoreQuery
  <2> QED
    BY <2>1, <2>2, <2>3
<1>3. CASE UNCHANGED devVars
  BY <1>3 DEF devVars
<1> QED
  BY <1>1, <1>2, <1>3 DEF DevNext

\* What TestTypes says beside TextsOK and ControlOK; the module that the worker
\* has read is of no text that is still to come.
ShownOK ==
  /\ opened \in BOOLEAN /\ testing \in BOOLEAN
  /\ locating.text <= newest /\ \A d \in Docs : shownTests[d] <= newest
  /\ Len(jobs) <= JobsSize
  /\ loader \in {"load", "gate", "parse"}

(* Texts only get newer, and a sender waits for room in the channel.        *)
LEMMA ShownStep ==
  ASSUME TextsOK, ControlOK, ShownOK, [TestNext]_testVars
  PROVE  ShownOK'
<1>0. LocatorOK
  BY DEF ControlOK
<1> USE JobsSizeIsNat DEF TextsOK, ShownOK, LocatorOK, documents, loading, locatorVars
<1>1. ASSUME newest' \in Nat, newest <= newest',
             UNCHANGED <<jobs, opened, testing, loader, locating, shownTests>>
      PROVE  ShownOK'
  BY <1>0, <1>1
<1>2. CASE LoadAll
  <2>1. newest' \in Nat /\ newest <= newest' /\ loader' = "gate"
    BY <1>2 DEF LoadAll, NewTexts
  <2> QED
    BY <1>0, <1>2, <2>1 DEF LoadAll
<1>3. CASE OpenGate \/ NextLoaded
  BY <1>0, <1>3 DEF OpenGate, NextLoaded
<1>4. ASSUME NEW e \in Editors, NEW d \in Docs, ChangeDoc(e, d)
      PROVE  ShownOK'
  BY <1>1, <1>4 DEF ChangeDoc, NewTexts
<1>5. ASSUME NEW e \in Parsers, ParseDoc(e) \/ SetModule(e)
      PROVE  ShownOK'
  BY <1>1, <1>5 DEF ParseDoc, SetModule
<1>6. ASSUME NEW e \in Parsers, SendDoc(e)
      PROVE  ShownOK'
  <2>1. Len(jobs') = Len(jobs) + 1 /\ Len(jobs) < JobsSize
    BY <1>0, <1>6 DEF SendDoc, Queue
  <2>2. Len(jobs') <= JobsSize
    BY <1>0, <2>1
  <2> QED
    BY <1>0, <1>6, <2>2 DEF SendDoc
<1>7. CASE PassGate
  BY <1>0, <1>7 DEF PassGate
<1>8. CASE TakeTestJob
  <2>1. Len(jobs') <= JobsSize
    BY <1>0, <1>8 DEF TakeTestJob
  <2> QED
    BY <1>0, <1>8, <2>1 DEF TakeTestJob
<1>9. CASE ReadModule
  <2>1. locating'.text = parsedText[locating.doc] /\ locating.doc \in Docs
    BY <1>0, <1>9 DEF ReadModule
  <2> QED
    BY <1>0, <1>9, <2>1 DEF ReadModule
<1>10. CASE SendLocations
  BY <1>0, <1>10 DEF SendLocations
<1>11. CASE UNCHANGED testVars
  BY <1>0, <1>11 DEF testVars
<1> QED
  BY <1>2, <1>3, <1>4, <1>5, <1>6, <1>7, <1>8, <1>9, <1>10, <1>11
  DEF TestNext, LoaderStep, LocatorStep, ParserStep

DevTyped == LockOK /\ PreparerOK /\ BundlesOK
RouterTyped == RouterInv /\ edits \in 0..MaxEdits
TestTyped == TextsOK /\ ControlOK /\ ShownOK

ServerInv == TypeOK /\ CommandsOK /\ DebugInv /\ DevTyped /\ RouterTyped /\ TestTyped

LEMMA ServerStarts == ServerInit => ServerInv
<1> SUFFICES ASSUME ServerInit
             PROVE  ServerInv
  OBVIOUS
<1>0. Init /\ Commands!CommandInit /\ Debug!DebugInit /\ DevInit /\ RouterInit /\ TestInit
  BY DEF ServerInit
<1>1. TypeOK
  BY <1>0, ConfigStarts DEF ConfigInv
<1>2. CommandsOK
  <2>1. HandlersOK
    <3>1. commands \in Seq(Requests) /\ Len(commands) = 0
      BY <1>0 DEF Commands!CommandInit
    <3>2. /\ sender \in [Requests -> {"idle", "sending", "sent"}]
          /\ kind \in [Requests -> {"text", "rename", "eval"}]
      BY <1>0 DEF Commands!CommandInit
    <3> QED
      BY <3>1, <3>2, CommandsAssumption DEF HandlersOK
  <2>2. WorkerOK
    BY <1>0 DEF Commands!CommandInit, WorkerOK, Commands!Places
  <2>3. ClientOK
    <3>1. asked = <<>> /\ replied = FALSE
      BY <1>0 DEF Commands!CommandInit
    <3>2. <<>> \in Seq(Questions)
      OBVIOUS
    <3> QED
      BY <3>1, <3>2 DEF ClientOK
  <2>4. FilesOK
    BY <1>0 DEF Commands!CommandInit, FilesOK, Commands!Places
  <2> QED
    BY <2>1, <2>2, <2>3, <2>4 DEF CommandsOK
<1>3. DebugInv
  BY <1>0, ClientsAssumption DEF Debug!DebugInit, DebugInv, DebugControlOK, CountsOK, Owed
<1>4. DevTyped
  <2>1. LockOK /\ PreparerOK
    BY <1>0, SaversAssumption DEF DevInit, LockOK, PreparerOK
  <2>2. BundlesOK
    <3>1. subscribed = FALSE /\ missed = FALSE
      BY <1>0 DEF DevInit
    <3>2. bundleFiles = 0 /\ bndl = 0 /\ preparing = 0 /\ mainQuery = 0 /\ 0 \in 0..MaxBundles
      BY <1>0, SaversAssumption DEF DevInit
    <3> QED
      BY <3>1, <3>2 DEF BundlesOK
  <2> QED
    BY <2>1, <2>2 DEF DevTyped
<1>5. RouterTyped
  BY <1>0, RouterStarts, MaxEditsIsNat DEF RouterInit, RouterTyped
<1>6. TestTyped
  <2>1. TextsOK /\ ControlOK
    BY <1>0, TestStarts DEF TestInv
  <2>2. opened \in BOOLEAN /\ testing \in BOOLEAN
    BY <1>0, Zenon DEF TestInit
  <2>3. ShownOK
    BY <1>0, <2>2, JobsSizeIsNat DEF TestInit, ShownOK
  <2> QED
    BY <2>1, <2>3 DEF TestTyped
<1> QED
  BY <1>1, <1>2, <1>3, <1>4, <1>5, <1>6 DEF ServerInv

(* A step of one part is a step of its module, and none of the others.      *)
LEMMA ServerStep == ServerInv /\ [ServerNext]_serverVars => ServerInv'
<1> SUFFICES ASSUME ServerInv, [ServerNext]_serverVars
             PROVE  ServerInv'
  OBVIOUS
<1>1. [Next]_vars
  BY DEF ServerNext, Only, serverVars
<1>2. [Commands!CommandNext]_(Commands!commandVars)
  BY DEF ServerNext, Only, serverVars, commandState, Commands!commandVars, Commands!requests,
         Commands!executing, Commands!client, Commands!prompting
<1>3. [Debug!DebugNext]_(Debug!debugVars)
  BY DEF ServerNext, Only, serverVars, debugState, Debug!debugVars, Debug!requestVars
<1>4. [DevNext]_devVars
  BY DEF ServerNext, Only, serverVars
<1>5. [RouterNext]_routerVars
  BY DEF ServerNext, Only, serverVars
<1>6. [TestNext]_testVars
  BY DEF ServerNext, Only, serverVars
<1>7. TypeOK'
  BY <1>1, TypeStep DEF ServerInv
<1>8. CommandsOK'
  BY <1>2, CommandTypesStep DEF ServerInv
<1>9. DebugInv'
  BY <1>3, DebugControlStep, CountsStep DEF ServerInv, DebugInv
<1>10. DevTyped'
  BY <1>4, ControlStep, BundlesStep DEF ServerInv, DevTyped
<1>11. RouterTyped'
  <2>1. RouterInv'
    BY <1>5, RouterGoesOn DEF ServerInv, RouterTyped
  <2>2. edits' = edits \/ (edits < MaxEdits /\ edits' = edits + 1)
    <3>1. CASE ChangeText
      BY <3>1 DEF ChangeText
    <3>2. CASE ChangeStep
      BY <3>2 DEF ChangeStep, Parse, SetCount, PutModule
    <3>3. ASSUME NEW q \in Asks, AskStep(q)
          PROVE  edits' = edits
      BY <3>3 DEF AskStep, Begin, GetContent, GetCount, GetErrors, Eval, fileMaps
    <3>4. CASE UNCHANGED routerVars
      BY <3>4 DEF routerVars, fileMaps
    <3> QED
      BY <1>5, <3>1, <3>2, <3>3, <3>4 DEF RouterNext
  <2> QED
    BY <2>1, <2>2, MaxEditsIsNat DEF ServerInv, RouterTyped
<1>12. TestTyped'
  BY <1>6, TypesStep, ShownStep DEF ServerInv, TestTyped
<1> QED
  BY <1>7, <1>8, <1>9, <1>10, <1>11, <1>12 DEF ServerInv

(* Every worker of the language server, and the debug adapter, stays in its *)
(* domain: no channel takes more than it has room for, nobody is at two     *)
(* places, a lock has one holder, and no request of a debugger is answered  *)
(* twice (server.go, server_command.go, internal/dap/dap.go).               *)
THEOREM ServerIsTyped == ServerSpec => []WellTyped
<1>1. ServerInv => WellTyped
  <2> SUFFICES ASSUME ServerInv
               PROVE  WellTyped
    OBVIOUS
  <2>1. TypeOK /\ Commands!CommandTypes
    BY CommandParts DEF ServerInv
  <2>2. Debug!DebugTypes
    BY ClientsAssumption DEF ServerInv, DebugInv, DebugControlOK, CountsOK, Owed, Debug!DebugTypes
  <2>3. DevTypes
    BY SaversAssumption DEF ServerInv, DevTyped, LockOK, PreparerOK, BundlesOK, DevTypes
  <2>4. RouterTypes
    BY DEF ServerInv, RouterTyped, RouterInv, MapsInv, RequestTypes, RouterTypes, Texts
  <2>5. TestTypes
    BY DEF ServerInv, TestTyped, TextsOK, ControlOK, LoadOK, LocatorOK, ShownOK, TestTypes
  <2> QED
    BY <2>1, <2>2, <2>3, <2>4, <2>5 DEF WellTyped
<1> QED
  BY <1>1, ServerStarts, ServerStep, PTL DEF ServerSpec
=============================================================================
