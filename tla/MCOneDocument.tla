--------------------------- MODULE MCOneDocument ---------------------------
(* DocumentCache on one file for TLC, with two choices of its constants: one*)
(* operation at a time, among them the loading of configs that ignore the   *)
(* file or do not; and handlers that overlap each other and the template    *)
(* worker, with configs that ignore nothing and texts whose packages fit    *)
(* their places.  Each choice has goroutines and a file of its own, and the *)
(* goroutines of the other are off, so that it is never Quiescent.          *)
EXTENDS MCDocumentCache

CONSTANTS
  OtherFiles, OtherPool,   \* Files and Pool of the second choice
  Loader, Filler, Linter,  \*   its other goroutines
  OtherDiskTexts, OtherOps \*   and its DiskTexts and Ops

Overlapping == INSTANCE DocumentCache WITH
  Files <- OtherFiles, Pool <- OtherPool,
  ConfigWorker <- Loader, Templater <- Filler, LintWorker <- Linter,
  DiskTexts <- OtherDiskTexts,
  Ops <- OtherOps,
  IgnoreSets <- {{}},
  Misplaced <- {},
  SentTexts <- SentTexts \ OtherDiskTexts,
  OneAtATime <- FALSE,
  MaxStarts <- MaxStarts - 1, MaxWrites <- 0

Everyone == Goroutines \union Overlapping!Goroutines

On(G) == [g \in Everyone |-> IF g \in G THEN "idle" ELSE "off"]

\* The disk does not change in the second choice.
OneInit ==
  /\ \/ /\ InitMaps
        /\ pc = On(Goroutines)
        /\ task = [g \in Everyone |-> NoTask]
        /\ writes = 0
     \/ /\ Overlapping!InitMaps
        /\ pc = On(Overlapping!Goroutines)
        /\ task = [g \in Everyone |-> Overlapping!NoTask]
        /\ writes = MaxWrites
  /\ starts = 0

OneNext == Next \/ Overlapping!Next

OneSpec == OneInit /\ [][OneNext]_vars

OneSymmetry == Permutations(OtherPool)

(* DocumentCache's ClientMatchesCache, with handlers of opened and created   *)
(* files that overlap each other, the filling of an empty file by the        *)
(* template worker, the loading of configs and the lint worker: once they    *)
(* are done the editor shows what the cache holds, and the cache the outcome *)
(* of linting its modules (server.go: StartDiagnosticsWorker, lint.go).      *)
(* Files that the template worker moves are left out: Misplaced is empty.    *)
EditorMatchesCache == Overlapping!ClientMatchesCache
=============================================================================
