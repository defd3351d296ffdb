---------------------------- MODULE TestLocations ----------------------------
(* Test locations for editors that run tests (internal/lsp/testing.go): the *)
(* initial load of the workspace, which opens the initialization gate, the  *)
(* handlers that parse a file and queue it in testLocationJobs, and the     *)
(* worker, which waits for the gate and then sends locations job by job.    *)
(* Texts and modules of a file are numbered by the order of the texts, and  *)
(* texts with even numbers do not parse.                                    *)
EXTENDS Naturals, Sequences

CONSTANTS
  Docs,       \* files, all of them in the workspace
  Editors,    \* handlers of didChange and their like, one change each, numbered as they start
  Loader,     \* the goroutine of the initial load
  JobsSize    \* capacity of testLocationJobs

ASSUME JobsSizeIsNat == JobsSize \in Nat

VARIABLES
  opened,     \* initializationGate is closed, that is, open
  testing,    \* the client has enabled server testing
  contents,   \* fileContents: the newest text of a file, or 0
  newest,     \* the number of the newest text
  parsedText, \* the text of the module in the cache, or 0
  jobs,       \* testLocationJobs
  loader,     \* control of the initial load
  toLoad,     \* files it has loaded and not come to a second time
  editing,    \* control of the handlers and of that goroutine, with their file and text
  locator,    \* control of the worker
  locating,   \* the file and the module it is at
  shownTests  \* the module whose locations the client has

documents == <<contents, newest, parsedText>>
loading == <<opened, loader, toLoad>>
locatorVars == <<locator, locating, shownTests>>
testVars == <<documents, loading, jobs, testing, editing, locatorVars>>

TestTypes ==
  /\ {opened, testing} \subseteq BOOLEAN
  /\ \A d \in Docs : parsedText[d] <= newest /\ shownTests[d] <= newest
  /\ Len(jobs) <= JobsSize
  /\ loader \in {"load", "gate", "parse"}
  /\ toLoad \subseteq Docs
  /\ locator \in {"gate", "take", "read", "send", "off"}

Parsers == Editors \union {Loader}
None == [doc |-> 0, text |-> 0, at |-> "idle"]

TestInit ==
  /\ opened = FALSE
  /\ testing \in BOOLEAN
  /\ contents = [d \in Docs |-> 0] /\ parsedText = [d \in Docs |-> 0] /\ newest = 0
  /\ jobs = <<>>
  /\ loader = "load" /\ toLoad = {}
  /\ editing = [e \in Parsers |-> None]
  /\ locator = "gate" /\ locating = [doc |-> 0, text |-> 0]
  /\ shownTests = [d \in Docs |-> 0]

NewTexts == {newest + 1, newest + 2}
Parses(n) == n % 2 = 1

\* Plausible bug: a job that finds the channel full is dropped.
QueueOrDrop(d) == jobs' = IF Len(jobs) < JobsSize THEN Append(jobs, d) ELSE jobs

Queue(d) == Len(jobs) < JobsSize /\ jobs' = Append(jobs, d)

-----------------------------------------------------------------------------
(* initializedResultHandler.                                                *)

EditAt(e, d, n, at) == editing' = [editing EXCEPT ![e] = [doc |-> d, text |-> n, at |-> at]]

\* loadWorkspaceContents(newOnly) reads and parses what no handler has set: how
\* it meets a handler of the same file is DocumentCache's subject.
LoadAll ==
  /\ loader = "load"
  /\ toLoad' = {d \in Docs : contents[d] = 0}
  /\ newest' \in NewTexts
  /\ contents' = [d \in Docs |-> IF d \in toLoad' THEN newest' ELSE contents[d]]
  /\ parsedText' = [d \in Docs |-> IF d \in toLoad' /\ Parses(newest') THEN newest' ELSE parsedText[d]]
  /\ loader' = "gate"
  /\ UNCHANGED <<opened, jobs, testing, editing, locatorVars>>

LoaderIsFree == editing[Loader].at \in {"idle", "done"}

\* Plausible bug: the gate is opened when all is done.
OpenGateLast ==
  /\ \/ loader = "gate" /\ loader' = "parse" /\ UNCHANGED opened
     \/ /\ loader = "parse" /\ toLoad = {} /\ LoaderIsFree
        /\ ~opened /\ opened' = TRUE
        /\ UNCHANGED loader
  /\ UNCHANGED <<documents, toLoad, jobs, testing, editing, locatorVars>>

OpenGate ==
  /\ loader = "gate"
  /\ opened' = TRUE
  /\ loader' = "parse"
  /\ UNCHANGED <<documents, toLoad, jobs, testing, editing, locatorVars>>

\* Every file loaded is parsed again, from the cache, and queued.
NextLoaded ==
  /\ loader = "parse" /\ LoaderIsFree
  /\ \E d \in toLoad : toLoad' = toLoad \ {d} /\ EditAt(Loader, d, 0, "parse")
  /\ UNCHANGED <<documents, opened, loader, jobs, testing, locatorVars>>

-----------------------------------------------------------------------------
(* A handler that changes, opens or creates a file: the text, updateParse,  *)
(* which reads the text again, and the job if it parsed; the last two are   *)
(* what the initial load does with a file too.                              *)

ChangeDoc(e, d) ==
  /\ editing[e].at = "idle"
  /\ \A f \in Editors : editing[f].at = "idle" => e <= f
  /\ newest' \in NewTexts
  /\ contents' = [contents EXCEPT ![d] = newest']
  /\ EditAt(e, d, 0, "parse")
  /\ UNCHANGED <<parsedText, loading, jobs, testing, locatorVars>>

ParseDoc(e) ==
  /\ editing[e].at = "parse"
  /\ LET n == contents[editing[e].doc] IN
     IF Parses(n) THEN EditAt(e, editing[e].doc, n, "set") ELSE EditAt(e, 0, 0, "done")
  /\ UNCHANGED <<documents, loading, jobs, testing, locatorVars>>

SetModule(e) ==
  /\ editing[e].at = "set"
  /\ LET d == editing[e].doc IN
       /\ parsedText' = [parsedText EXCEPT ![d] = editing[e].text]
       /\ EditAt(e, d, 0, IF testing THEN "send" ELSE "done")
  /\ UNCHANGED <<contents, newest, loading, jobs, testing, locatorVars>>

SendDoc(e) ==
  /\ editing[e].at = "send"
  /\ Queue(editing[e].doc)
  /\ EditAt(e, 0, 0, "done")
  /\ UNCHANGED <<documents, loading, testing, locatorVars>>

-----------------------------------------------------------------------------
(* StartTestLocationsWorker and processTestLocationsUpdate.                 *)

PassGate ==
  /\ locator = "gate" /\ opened
  /\ locator' = IF testing THEN "take" ELSE "off"
  /\ UNCHANGED <<documents, loading, jobs, testing, editing, locating, shownTests>>

TakeTestJob ==
  /\ locator = "take" /\ jobs # <<>>
  /\ jobs' = Tail(jobs)
  /\ locating' = [doc |-> Head(jobs), text |-> 0]
  /\ locator' = "read"
  /\ UNCHANGED <<documents, loading, testing, editing, shownTests>>

ReadModule ==
  /\ locator = "read"
  /\ locating' = [locating EXCEPT !.text = parsedText[locating.doc]]
  /\ locator' = "send"
  /\ UNCHANGED <<documents, loading, jobs, testing, editing, shownTests>>

SendLocations ==
  /\ locator = "send"
  /\ shownTests' = [shownTests EXCEPT ![locating.doc] = locating.text]
  /\ locator' = "take"
  /\ UNCHANGED <<documents, loading, jobs, testing, editing, locating>>

-----------------------------------------------------------------------------

LoaderStep == LoadAll \/ OpenGate \/ NextLoaded
ParserStep(e) == ParseDoc(e) \/ SetModule(e) \/ SendDoc(e)
LocatorStep == PassGate \/ TakeTestJob \/ ReadModule \/ SendLocations

TestNext ==
  \/ LoaderStep \/ LocatorStep
  \/ \E e \in Editors, d \in Docs : ChangeDoc(e, d)
  \/ \E e \in Parsers : ParserStep(e)

\* Goroutines run, and senders get their turn.
TestFairness ==
  /\ WF_testVars(LoaderStep)
  /\ WF_testVars(LocatorStep)
  /\ \A e \in Parsers : SF_testVars(ParserStep(e))

TestSpec == TestInit /\ [][TestNext]_testVars /\ TestFairness

-----------------------------------------------------------------------------

AtRest ==
  /\ loader = "parse" /\ toLoad = {}
  /\ \A e \in Parsers : editing[e].at \in {"idle", "done"}
  /\ locator = "take" /\ jobs = <<>>

(* Handlers and the initial load parse the same files at the same time, and *)
(* the worker reads a module some time after the job for it was queued: at  *)
(* rest the editor has the locations of the module in the cache, if that is *)
(* the module of the text.                                                  *)
LocationsAreCurrent ==
  AtRest => \A d \in Docs : parsedText[d] = contents[d] => shownTests[d] = parsedText[d]

(* server.go:1472, "must start other workers here otherwise the test        *)
(* locations block": whoever queues a file gets it into the channel, also   *)
(* when a workspace has more files than the channel has room for.           *)
QueueingEnds ==
  []<>(\A e \in Parsers : editing[e].at # "send")
=============================================================================
