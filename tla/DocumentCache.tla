--------------------------- MODULE DocumentCache ---------------------------
(* The document cache of the language server and everything that works on   *)
(* it concurrently: the maps of internal/lsp/cache/cache.go, the parsed     *)
(* modules and refs in the Rego store (store/store.go), the handlers of     *)
(* document and workspace notifications, the loading and the sweeping of    *)
(* files on disk by the state worker, the moving of files in and out of the *)
(* ignored part by loadConfig, the template worker, and the lint worker     *)
(* (server.go, lint.go).                                                    *)
(*                                                                          *)
(* connection.go wraps the handler in jsonrpc2.AsyncHandler, so each        *)
(* message is handled by a goroutine of its own.  Each map has its own lock *)
(* (roast/util/concurrent/map.go): one access to one map is one step here,  *)
(* and a goroutine is a program counter plus the locals of its handler.     *)
(*                                                                          *)
(* A text stands for the contents of a file, for the module parsed from it, *)
(* for its parse errors and for the violations found in it, whichever map   *)
(* it is in: distinct contents have distinct diagnostics.  How requests for *)
(* a lint run travel is LintPipeline's subject; by the refinement proved    *)
(* there, one flag (owed) is what matters here.                             *)
EXTENDS Naturals

CONSTANTS
  Files,        \* file URIs, all below the workspace root directory
  Good,         \* texts that parse
  Bad,          \* texts that do not
  Empty,        \* the empty text, which does not parse
  Template,     \* the text the template worker puts in an empty file
  Nothing,      \* no entry in a map
  Pool,         \* goroutines for messages and for the ticks of the state worker
  ConfigWorker, \* the goroutine of StartConfigWorker
  Templater,    \* the goroutine of StartTemplateWorker
  LintWorker,   \* the linting goroutine of StartDiagnosticsWorker
  SentTexts,    \* the texts the editor sends
  DiskTexts,    \* the texts, or Nothing, found on disk
  Ops,          \* the operations that may start
  IgnoreSets,   \* the sets of files the configs to load may ignore
  Misplaced,    \* the files a text's package may want at another place
  OneAtATime,   \* start an operation only when no other is in progress
  MaxStarts,    \* bound on the number of operations started
  MaxWrites     \* bound on the number of changes made on disk

Texts == Good \union Bad
MaybeText == Texts \union {Nothing}
Clean == "no parse errors"
Goroutines == Pool \union {ConfigWorker, Templater, LintWorker}

ASSUME TextsAreDistinct ==
  /\ Good \intersect Bad = {}
  /\ Empty \in Bad
  /\ Template \in Good
  /\ Nothing \notin Texts
  /\ Clean \notin Texts \union {Nothing}
  /\ SentTexts \subseteq Texts
  /\ DiskTexts \subseteq Texts \union {Nothing}
ASSUME GoroutinesAreDistinct ==
  /\ {ConfigWorker, Templater, LintWorker} \intersect Pool = {}
  /\ ConfigWorker # Templater /\ Templater # LintWorker /\ LintWorker # ConfigWorker
ASSUME IgnoreSetsAreFiles == IgnoreSets \subseteq SUBSET Files
ASSUME MisplacedAreFiles == Misplaced \subseteq Files
ASSUME BoundsAreNat == MaxStarts \in Nat /\ MaxWrites \in Nat

VARIABLES
  cache,      \* the six maps of cache.Cache
  store,      \* workspace.parsed and workspace.defined_refs of the Rego store
  ignoring,   \* the files the loaded config ignores
  templating, \* the set templatingFiles
  templates,  \* files queued in templateFileJobs
  disk,       \* what os.ReadFile returns
  editor,     \* the text the editor sent last for each document it has open
  client,     \* the diagnostics the editor was last sent for each file
  owed,       \* a lint run has been requested and not started
  failed,     \* the latest lint run returned an error
  pc,         \* where each goroutine is
  task,       \* the locals of each goroutine
  starts,     \* number of operations started
  writes      \* number of changes made on disk

config == <<ignoring, templating, templates>>
outside == <<disk, editor, client, writes>>
runs == <<owed, failed>>
vars == <<cache, store, config, outside, runs, pc, task, starts>>

Labels ==
  {"idle", "decide", "ignore", "templating?", "set", "parse", "errors",
   "module", "lines", "putMod", "putRefs", "parsed", "request", "template",
   "has", "read", "compare", "write", "stat", "rename", "format", "clear",
   "delContents", "delIgnored", "delModule", "delDiags", "delErrors",
   "delLines", "sendErrors", "sendDiags", "notify", "target",
   "move", "removeMod", "restore", "restoring", "clearIgnored",
   "tmplMark", "tmplCheck", "tmplDisk", "tmplFix", "tmplFrom", "tmplTo",
   "tmplSet", "tmplPut", "tmplEdit", "tmplDone",
   "lint", "lintCheck", "lintStore", "lintFiles", "lintSend"}

EveryFile(x) == [f \in Files |-> x]

NoTask == [op |-> "none", file |-> Nothing, dest |-> Nothing, text |-> Nothing,
           diag |-> Nothing, todo |-> {}, copy |-> EveryFile(Nothing)]

AllOps == {"open", "edit", "close", "delete", "rename", "create", "watched",
           "format", "load", "sweep", "reload", "drop"}

TypeOK ==
  /\ cache \in [contents : [Files -> MaybeText],
                ignored  : [Files -> MaybeText],
                modules  : [Files -> Good \union {Nothing}],
                diags    : [Files -> Good \union {Nothing}],
                errors   : [Files -> Bad \union {Clean, Nothing}],
                lines    : [Files -> Good \union {Nothing}]]
  /\ store \in [parsed : [Files -> Good \union {Nothing}],
                refs   : [Files -> Good \union {Nothing}]]
  /\ ignoring \in SUBSET Files
  /\ templating \in SUBSET Files
  /\ templates \in SUBSET Files
  /\ disk \in [Files -> MaybeText]
  /\ editor \in [Files -> MaybeText]
  /\ client \in [Files -> MaybeText]
  /\ owed \in BOOLEAN
  /\ failed \in BOOLEAN
  /\ pc \in [Goroutines -> Labels]
  /\ task \in [Goroutines ->
                 [op   : AllOps \union {"none", "loaded", "template", "moved",
                                        "lint"},
                  file : Files \union {Nothing},
                  dest : Files \union {Nothing},
                  text : MaybeText,
                  diag : MaybeText,
                  todo : SUBSET Files,
                  copy : [Files -> MaybeText]]]
  /\ starts \in 0..MaxStarts
  /\ writes \in 0..MaxWrites

-----------------------------------------------------------------------------
(* The state a step reads and writes.                                       *)

HasContents(f) == cache.contents[f] # Nothing
AllFiles == {f \in Files : HasContents(f)}

Goto(g, label) == pc' = [pc EXCEPT ![g] = label]

Finish(g) ==
  /\ pc' = [pc EXCEPT ![g] = "idle"]
  /\ task' = [task EXCEPT ![g] = NoTask]

\* The goroutine g is at a label and does one thing to one map of the cache.
CacheStep(g, from, update, to) ==
  /\ pc[g] = from
  /\ cache' = update
  /\ Goto(g, to)
  /\ UNCHANGED <<store, config, outside, runs, task, starts>>

\* The goroutine g only moves on, its locals and program counter aside.
LocalStep == UNCHANGED <<cache, store, config, outside, runs, starts>>

\* The maps, the editor and the workers' queues, without the goroutines.
InitMaps ==
  /\ cache = [contents |-> EveryFile(Nothing), ignored |-> EveryFile(Nothing),
              modules |-> EveryFile(Nothing), diags |-> EveryFile(Nothing),
              errors |-> EveryFile(Nothing), lines |-> EveryFile(Nothing)]
  /\ store = [parsed |-> EveryFile(Nothing), refs |-> EveryFile(Nothing)]
  /\ ignoring \in IgnoreSets
  /\ templating = {}
  /\ templates = {}
  /\ disk \in [Files -> DiskTexts]
  /\ editor = EveryFile(Nothing)
  /\ client = EveryFile(Nothing)
  /\ owed = FALSE
  /\ failed = FALSE

NoTasks == [g \in Goroutines |-> NoTask]

Init ==
  /\ InitMaps
  /\ pc = [g \in Goroutines |-> "idle"]
  /\ task = NoTasks
  /\ starts = 0
  /\ writes = 0

-----------------------------------------------------------------------------
(* Starting: a message, a tick of the state worker, a config to load.       *)

AtRest == \A g \in Goroutines \ {LintWorker} : pc[g] = "idle"

MayStart(o) ==
  /\ o \in Ops
  /\ starts < MaxStarts
  /\ OneAtATime => AtRest

Begin(g, o, f, d, t, label) ==
  /\ pc[g] = "idle"
  /\ MayStart(o)
  /\ Goto(g, label)
  /\ task' = [task EXCEPT ![g] = [NoTask EXCEPT !.op = o, !.file = f,
                                                !.dest = d, !.text = t]]
  /\ starts' = starts + 1
  /\ UNCHANGED <<cache, store, config, runs, disk, client, writes>>

\* textDocument/didOpen and didChange carry the text.
ReceiveText(g) ==
  \E o \in {"open", "edit"}, f \in Files, t \in SentTexts :
    /\ Begin(g, o, f, f, t, "decide")
    /\ editor' = [editor EXCEPT ![f] = t]

ReceiveGone(g) ==
  \E o \in {"close", "delete"}, f \in Files :
    /\ Begin(g, o, f, f, Nothing, "decide")
    /\ editor' = [editor EXCEPT ![f] = Nothing]

ReceiveFile(g) ==
  /\ \/ \E o \in {"create", "watched"}, f \in Files :
          Begin(g, o, f, f, Nothing, "decide")
     \/ \E f \in Files : Begin(g, "format", f, f, Nothing, "format")
  /\ UNCHANGED editor

ReceiveRename(g) ==
  \E f, d \in Files :
    /\ f # d
    /\ Begin(g, "rename", f, d, Nothing, "decide")
    /\ editor' = [editor EXCEPT ![f] = Nothing, ![d] = editor[f]]

\* The walker of loadWorkspaceContents(newOnly) has come to a file on disk;
\* the state worker has come to a file of its copy of the cache.
StateWorkerTick(g) ==
  /\ \E f \in Files :
       \/ Begin(g, "load", f, f, Nothing, "decide") /\ disk[f] # Nothing
       \/ Begin(g, "sweep", f, f, Nothing, "stat") /\ HasContents(f)
  /\ UNCHANGED editor

-----------------------------------------------------------------------------
(* What a message does first: ask whether the config ignores the file.  A   *)
(* message may list several files, each handled as by a message of its own; *)
(* but didCreateFiles asks this of the first one it lists, for all of them. *)

Decide(g) ==
  LET o == task[g].op
      ignored == task[g].file \in ignoring
  IN /\ pc[g] = "decide"
     /\ \/ /\ o \in {"open", "edit"}
           /\ Goto(g, IF ignored THEN "ignore"
                      ELSE IF o = "open" THEN "templating?" ELSE "set")
           /\ UNCHANGED task
        \/ /\ \/ o \in {"delete", "watched", "load"} /\ ignored
              \/ o = "create" /\ \E first \in Files : first \in ignoring
              \/ o = "close" /\ ~ignored
              \/ o = "rename" /\ ignored /\ task[g].dest \in ignoring
           /\ Finish(g)
        \/ /\ o = "create" /\ \E first \in Files : first \notin ignoring
           /\ Goto(g, "read")
           /\ UNCHANGED task
        \/ /\ o \in {"delete", "watched", "load"} /\ ~ignored
           /\ Goto(g, CASE o = "delete" -> "delContents"
                        [] o = "watched" -> "parse"
                        [] o = "load" -> "has")
           /\ UNCHANGED task
        \/ /\ o = "close" /\ ignored
           /\ Goto(g, "delContents")
           /\ UNCHANGED task
        \/ /\ o = "rename" /\ ~(ignored /\ task[g].dest \in ignoring)
           /\ Goto(g, "rename")
           /\ UNCHANGED task
     /\ LocalStep

\* SetIgnoredFileContents, by didOpen, didChange and loadConfig.
SetIgnored(g) ==
  LET f == task[g].file
  IN /\ pc[g] = "ignore"
     /\ cache' = [cache EXCEPT !.ignored[f] = task[g].text]
     /\ IF task[g].op = "reload"
        THEN Goto(g, "removeMod") /\ UNCHANGED task
        ELSE Finish(g)
     /\ UNCHANGED <<store, config, outside, runs, starts>>

\* didOpen, but not didChange, looks at templatingFiles.
CheckTemplating(g) ==
  /\ pc[g] = "templating?"
  /\ Goto(g, IF task[g].file \in templating THEN "parse" ELSE "set")
  /\ UNCHANGED task
  /\ LocalStep

SetContents(g) ==
  CacheStep(g, "set", [cache EXCEPT !.contents[task[g].file] = task[g].text],
            IF task[g].op = "template" THEN "tmplFix" ELSE "parse")

-----------------------------------------------------------------------------
(* updateParse (lint.go): the contents are read once, and the five results  *)
(* are written one at a time.                                               *)

ParseRead(g) ==
  LET t == cache.contents[task[g].file]
  IN /\ pc[g] = "parse"
     /\ task' = [task EXCEPT ![g].text = t]
     /\ Goto(g, IF t = Nothing THEN "parsed" ELSE "errors")
     /\ LocalStep

\* A plausible bug: a module is stored although the text did not parse.
SetParseErrorsGoOn(g) ==
  LET t == task[g].text
  IN CacheStep(g, "errors",
               [cache EXCEPT !.errors[task[g].file] =
                               IF t \in Good THEN Clean ELSE t],
               "module")

\* A plausible bug: a successful parse does not clear the old parse errors.
SetParseErrorsOnly(g) ==
  LET t == task[g].text
  IN CacheStep(g, "errors",
               [cache EXCEPT !.errors[task[g].file] =
                               IF t \in Good THEN @ ELSE t],
               IF t \in Good THEN "module" ELSE "parsed")

SetParseErrors(g) ==
  LET t == task[g].text
  IN CacheStep(g, "errors",
               [cache EXCEPT !.errors[task[g].file] =
                               IF t \in Good THEN Clean ELSE t],
               IF t \in Good THEN "module" ELSE "parsed")

SetModule(g) ==
  CacheStep(g, "module",
            [cache EXCEPT !.modules[task[g].file] = task[g].text], "lines")

SetLineCount(g) ==
  CacheStep(g, "lines",
            [cache EXCEPT !.lines[task[g].file] = task[g].text], "putMod")

PutFileMod(g) ==
  /\ pc[g] = "putMod"
  /\ store' = [store EXCEPT !.parsed[task[g].file] = task[g].text]
  /\ Goto(g, "putRefs")
  /\ UNCHANGED <<cache, config, outside, runs, task, starts>>

PutFileRefs(g) ==
  /\ pc[g] = "putRefs"
  /\ store' = [store EXCEPT !.refs[task[g].file] = task[g].text]
  /\ Goto(g, "parsed")
  /\ UNCHANGED <<cache, config, outside, runs, task, starts>>

\* A plausible bug: a lint run is requested only when the text parses.
AfterGoodParse(g) ==
  /\ pc[g] = "parsed"
  /\ CASE task[g].op = "load" ->
            /\ Goto(g, "parse")
            /\ task' = [task EXCEPT ![g].op = "loaded"]
       [] task[g].op # "load" /\ task[g].text \notin Good ->
            Finish(g)
       [] OTHER ->
            Goto(g, "request") /\ UNCHANGED task
  /\ LocalStep

\* A new file is parsed by the loader, and again by the worker that asked
\* for it; a watched file that is not in the cache asks for no lint run.
AfterParse(g) ==
  /\ pc[g] = "parsed"
  /\ CASE task[g].op = "load" ->
            /\ Goto(g, "parse")
            /\ task' = [task EXCEPT ![g].op = "loaded"]
       [] task[g].op = "watched" /\ task[g].text = Nothing ->
            Finish(g)
       [] task[g].op = "reload" ->
            Goto(g, "clearIgnored") /\ UNCHANGED task
       [] OTHER ->
            Goto(g, "request") /\ UNCHANGED task
  /\ LocalStep

\* l.lintJobs <- lintJob{...}
RequestLint(g) ==
  /\ pc[g] = "request"
  /\ owed' = TRUE
  /\ CASE task[g].op \in {"create", "rename"} ->
            Goto(g, "template") /\ UNCHANGED task
       [] task[g].op \in {"template", "moved"} ->
            Goto(g, "tmplDone") /\ UNCHANGED task
       [] OTHER ->
            Finish(g)
  /\ UNCHANGED <<cache, store, config, outside, failed, starts>>

\* l.templateFileJobs <- fileJob{...}
RequestTemplate(g) ==
  /\ pc[g] = "template"
  /\ templates' = templates \union {task[g].file}
  /\ Finish(g)
  /\ UNCHANGED <<cache, store, ignoring, templating, outside, runs, starts>>

-----------------------------------------------------------------------------
(* UpdateForURIFromDisk and its callers.                                    *)

Target(g) == IF task[g].op = "rename" THEN task[g].dest ELSE task[g].file

\* A plausible bug: newOnly is not honoured.
LoadAnyway(g) ==
  /\ pc[g] = "has"
  /\ Goto(g, "read")
  /\ UNCHANGED task
  /\ LocalStep

\* The walker skips a file that has contents (newOnly).
CheckHasContents(g) ==
  /\ pc[g] = "has"
  /\ \/ HasContents(task[g].file) /\ Finish(g)
     \/ ~HasContents(task[g].file) /\ Goto(g, "read") /\ UNCHANGED task
  /\ LocalStep

ReadDisk(g) ==
  LET t == disk[Target(g)]
  IN /\ pc[g] = "read"
     /\ \/ t = Nothing /\ Finish(g)
        \/ /\ t # Nothing
           /\ task' = [task EXCEPT ![g].text = t]
           /\ Goto(g, "compare")
     /\ LocalStep

AfterUpdate(o) == IF o = "rename" THEN "delContents" ELSE "parse"

CompareContents(g) ==
  LET same == cache.contents[Target(g)] = task[g].text
  IN /\ pc[g] = "compare"
     /\ \/ same /\ task[g].op = "load" /\ Finish(g)
        \/ /\ same /\ task[g].op # "load"
           /\ Goto(g, AfterUpdate(task[g].op))
           /\ UNCHANGED task
        \/ ~same /\ Goto(g, "write") /\ UNCHANGED task
     /\ LocalStep

WriteFromDisk(g) ==
  CacheStep(g, "write", [cache EXCEPT !.contents[Target(g)] = task[g].text],
            AfterUpdate(task[g].op))

\* The state worker asks the file system about a file of its copy.
Stat(g) ==
  /\ pc[g] = "stat"
  /\ \/ disk[task[g].file] # Nothing /\ Finish(g)
     \/ /\ disk[task[g].file] = Nothing
        /\ Goto(g, "delContents")
        /\ UNCHANGED task
  /\ LocalStep

\* didRename takes the contents from the cache, from disk if there are none.
RenameRead(g) ==
  LET t == cache.contents[task[g].file]
  IN /\ pc[g] = "rename"
     /\ task' = [task EXCEPT ![g].text = t]
     /\ Goto(g, IF t \in {Nothing, Empty} THEN "read" ELSE "delContents")
     /\ LocalStep

\* ... and goes on with the new name once the old one is gone.
RenameTarget(g) ==
  LET d == task[g].dest
  IN /\ pc[g] = "target"
     /\ \/ d \in ignoring /\ Finish(g)
        \/ /\ d \notin ignoring
           /\ task' = [task EXCEPT ![g].file = d]
           /\ Goto(g, "set")
     /\ LocalStep

-----------------------------------------------------------------------------
(* cache.Delete: six maps, one after the other.                             *)

DeleteContents(g) ==
  CacheStep(g, "delContents",
            [cache EXCEPT !.contents[task[g].file] = Nothing], "delIgnored")

DeleteIgnored(g) ==
  CacheStep(g, "delIgnored",
            [cache EXCEPT !.ignored[task[g].file] = Nothing], "delModule")

DeleteModule(g) ==
  CacheStep(g, "delModule",
            [cache EXCEPT !.modules[task[g].file] = Nothing], "delDiags")

DeleteDiagnostics(g) ==
  CacheStep(g, "delDiags",
            [cache EXCEPT !.diags[task[g].file] = Nothing], "delErrors")

DeleteParseErrors(g) ==
  CacheStep(g, "delErrors",
            [cache EXCEPT !.errors[task[g].file] = Nothing], "delLines")

DeleteLineCount(g) ==
  LET o == task[g].op
  IN /\ pc[g] = "delLines"
     /\ cache' = [cache EXCEPT !.lines[task[g].file] = Nothing]
     /\ CASE o = "close" -> Finish(g)
          [] o = "reload" -> Goto(g, "ignore") /\ UNCHANGED task
          [] o = "template" -> Goto(g, "tmplPut") /\ UNCHANGED task
          [] o = "moved" -> Goto(g, "tmplEdit") /\ UNCHANGED task
          [] OTHER -> Goto(g, "sendErrors") /\ UNCHANGED task
     /\ UNCHANGED <<store, config, outside, runs, starts>>

-----------------------------------------------------------------------------
(* sendFileDiagnostics: parse errors if there are any, else what the latest *)
(* lint run left, else an empty list.                                       *)

SendErrors(g) ==
  LET e == cache.errors[task[g].file]
  IN /\ pc[g] = "sendErrors"
     /\ task' = [task EXCEPT ![g].diag = IF e \in Bad THEN e ELSE Nothing]
     /\ Goto(g, IF e \in Bad THEN "notify" ELSE "sendDiags")
     /\ LocalStep

SendDiags(g) ==
  /\ pc[g] = "sendDiags"
  /\ task' = [task EXCEPT ![g].diag = cache.diags[task[g].file]]
  /\ Goto(g, "notify")
  /\ LocalStep

Notify(g) ==
  /\ pc[g] = "notify"
  /\ client' = [client EXCEPT ![task[g].file] = task[g].diag]
  /\ CASE task[g].op = "rename" -> Goto(g, "target") /\ UNCHANGED task
       [] task[g].op = "lint" -> Goto(g, "lintSend") /\ UNCHANGED task
       [] OTHER -> Finish(g)
  /\ UNCHANGED <<cache, store, config, disk, editor, writes, runs, starts>>

-----------------------------------------------------------------------------
(* handleTextDocumentFormatting of a file without contents.  Formatting a   *)
(* file that has some only computes an answer.                              *)

FormatRead(g) ==
  LET f == task[g].file
      old == IF f \in ignoring THEN cache.ignored[f] ELSE cache.contents[f]
  IN /\ pc[g] = "format"
     /\ \/ old \notin {Nothing, Empty} /\ Finish(g)
        \/ /\ old \in {Nothing, Empty}
           /\ Goto(g, "tmplCheck")
           /\ UNCHANGED task
     /\ LocalStep

ClearFileDiagnostics(g) ==
  CacheStep(g, "clear", [cache EXCEPT !.diags = EveryFile(Nothing)], "set")

(* processTemplateJob, and templateContentsForFile which the formatter uses *)
(* too: a template is made for a file that is empty in the cache and not    *)
(* filled on disk.                                                          *)

TakeTemplateJob ==
  LET g == Templater
  IN /\ pc[g] = "idle"
     /\ OneAtATime => AtRest
     /\ \E f \in templates :
          /\ templates' = templates \ {f}
          /\ task' = [task EXCEPT ![g] = [NoTask EXCEPT !.op = "template",
                                                        !.file = f, !.dest = f]]
     /\ Goto(g, "tmplMark")
     /\ UNCHANGED <<cache, store, ignoring, templating, outside, runs, starts>>

MarkTemplating(g) ==
  /\ pc[g] = "tmplMark"
  /\ templating' = templating \union {task[g].file}
  /\ Goto(g, "tmplCheck")
  /\ UNCHANGED <<cache, store, ignoring, templates, outside, runs, task,
                 starts>>

GiveUpTemplate(g) ==
  IF task[g].op = "template" THEN Goto(g, "tmplDone") /\ UNCHANGED task
                             ELSE Finish(g)

CheckEmpty(g) ==
  /\ pc[g] = "tmplCheck"
  /\ \/ cache.contents[task[g].file] # Empty /\ GiveUpTemplate(g)
     \/ /\ cache.contents[task[g].file] = Empty
        /\ Goto(g, "tmplDisk")
        /\ UNCHANGED task
  /\ LocalStep

CheckEmptyOnDisk(g) ==
  /\ pc[g] = "tmplDisk"
  /\ \/ disk[task[g].file] \notin {Nothing, Empty} /\ GiveUpTemplate(g)
     \/ /\ disk[task[g].file] \in {Nothing, Empty}
        /\ task' = [task EXCEPT ![g].text = Template]
        /\ Goto(g, IF task[g].op = "template" THEN "set" ELSE "clear")
  /\ LocalStep

(* fixRenameChanges: the package of what the cache holds by now may want    *)
(* the file at another place.  It is then moved there in the cache, before  *)
(* the editor is asked.                                                     *)

\* GetPotentialRoots or the fix fails; the package fits; or it does not.
FixMismatch(g) ==
  LET f == task[g].file
  IN /\ pc[g] = "tmplFix"
     /\ \/ Goto(g, "tmplDone")
        \/ cache.contents[f] \in Good /\ Goto(g, "tmplEdit")
        \/ cache.contents[f] \in Good /\ f \in Misplaced /\ Goto(g, "tmplFrom")
     /\ UNCHANGED task
     /\ LocalStep

MoveFrom(g) ==
  LET t == cache.contents[task[g].file]
  IN /\ pc[g] = "tmplFrom"
     /\ task' = [task EXCEPT ![g].text = t]
     /\ Goto(g, IF t = Nothing THEN "tmplDone" ELSE "tmplTo")
     /\ LocalStep

\* Candidates are tried until one has no contents.  When all of Files have, it
\* is a file nothing else here uses.
MoveTo(g) ==
  LET free == Files \ (AllFiles \union {task[g].file})
  IN /\ pc[g] = "tmplTo"
     /\ \/ \E d \in free :
             /\ task' = [task EXCEPT ![g].dest = d]
             /\ Goto(g, "tmplSet")
        \/ free = {} /\ Goto(g, "delContents") /\ UNCHANGED task
     /\ LocalStep

MoveSet(g) ==
  CacheStep(g, "tmplSet", [cache EXCEPT !.contents[task[g].dest] = task[g].text],
            "delContents")

\* The old file has been deleted (CacheFileProvider.Rename).  Its text is put
\* back under its plain path, which is no URI and not one of Files; the new
\* place may be outside of the workspace; and the old file is deleted again.
MovePut(g) ==
  /\ pc[g] = "tmplPut"
  /\ \/ Goto(g, "tmplDone") /\ UNCHANGED task
     \/ Goto(g, "delContents") /\ task' = [task EXCEPT ![g].op = "moved"]
  /\ LocalStep

\* The editor applies the edit, or ApplyEdit fails.
ApplyTemplate(g) ==
  /\ pc[g] = "tmplEdit"
  /\ \/ Goto(g, "request")
     \/ Goto(g, "tmplDone")
  /\ UNCHANGED task
  /\ LocalStep

\* defer l.templatingFiles.Delete(job.URI)
UnmarkTemplating(g) ==
  /\ pc[g] = "tmplDone"
  /\ templating' = templating \ {task[g].file}
  /\ Finish(g)
  /\ UNCHANGED <<cache, store, ignoring, templates, outside, runs, starts>>

-----------------------------------------------------------------------------
(* loadConfig: the new config is in force at once; then files it ignores    *)
(* are moved to the ignored part, and files it no longer ignores back,      *)
(* unless capabilities.Lookup fails in between.                             *)

LoadConfig ==
  LET g == ConfigWorker
  IN /\ MayStart("reload")
     /\ \E set \in IgnoreSets : ignoring' = set
     /\ task' = [task EXCEPT ![g] = [NoTask EXCEPT !.op = "reload",
                                                   !.todo = AllFiles]]
     /\ \/ Goto(g, "move")
        \/ "lookupFails" \in Ops /\ Goto(g, "request")
     /\ starts' = starts + 1
     /\ UNCHANGED <<cache, store, templating, templates, outside, runs>>

\* case <-l.configWatcher.Drop: the default config, which ignores nothing, is
\* in force, and nothing is moved back.
DropConfig ==
  LET g == ConfigWorker
  IN /\ MayStart("drop")
     /\ ignoring' = {}
     /\ task' = [task EXCEPT ![g] = [NoTask EXCEPT !.op = "drop"]]
     /\ Goto(g, "request")
     /\ starts' = starts + 1
     /\ UNCHANGED <<cache, store, templating, templates, outside, runs>>

\* The select of StartConfigWorker.
TakeConfig ==
  /\ pc[ConfigWorker] = "idle"
  /\ LoadConfig \/ DropConfig

\* The next file of GetAllFiles, or the end of the loop.
MoveNext(g) ==
  /\ pc[g] = "move"
  /\ \/ /\ task[g].todo \intersect ignoring = {}
        /\ Goto(g, "restore")
        /\ UNCHANGED task
     \/ \E f \in task[g].todo \intersect ignoring :
          /\ task' = [task EXCEPT ![g].file = f, ![g].todo = @ \ {f},
                                  ![g].text = cache.contents[f]]
          /\ Goto(g, IF HasContents(f) THEN "delContents" ELSE "removeMod")
  /\ LocalStep

\* A plausible bug: the refs are removed and the module is not.
RemoveFileRefs(g) ==
  /\ pc[g] = "removeMod"
  /\ store' = [store EXCEPT !.refs[task[g].file] = Nothing]
  /\ Goto(g, "move")
  /\ UNCHANGED <<cache, config, outside, runs, task, starts>>

RemoveFileMod(g) ==
  /\ pc[g] = "removeMod"
  /\ store' = [store EXCEPT !.parsed[task[g].file] = Nothing]
  /\ Goto(g, "move")
  /\ UNCHANGED <<cache, config, outside, runs, task, starts>>

\* GetAllIgnoredFiles copies the map.
CopyIgnored(g) ==
  /\ pc[g] = "restore"
  /\ task' = [task EXCEPT
       ![g].copy = cache.ignored,
       ![g].todo = {f \in Files : cache.ignored[f] # Nothing} \ ignoring]
  /\ Goto(g, "restoring")
  /\ LocalStep

RestoreNext(g) ==
  /\ pc[g] = "restoring"
  /\ \/ task[g].todo = {} /\ Goto(g, "request") /\ UNCHANGED task
     \/ \E f \in task[g].todo :
          /\ task' = [task EXCEPT ![g].file = f, ![g].todo = @ \ {f},
                                  ![g].text = task[g].copy[f]]
          /\ Goto(g, IF HasContents(f) THEN "clearIgnored" ELSE "set")
  /\ LocalStep

ClearIgnored(g) ==
  CacheStep(g, "clearIgnored",
            [cache EXCEPT !.ignored[task[g].file] = Nothing], "restoring")

-----------------------------------------------------------------------------
(* The lint worker: updateWorkspaceDiagnostics, then sendFileDiagnostics    *)
(* for every file.  Modules are copied, linted for a long time, and their   *)
(* violations stored for the files without parse errors at that time.       *)

StartLint ==
  LET g == LintWorker
  IN /\ pc[g] = "idle"
     /\ owed
     /\ owed' = FALSE
     /\ task' = [task EXCEPT ![g] = [NoTask EXCEPT
                   !.op = "lint",
                   !.copy = cache.modules,
                   !.todo = {f \in Files : cache.modules[f] # Nothing}]]
     /\ Goto(g, "lint")
     /\ UNCHANGED <<cache, store, config, outside, failed, starts>>

Lint(g) ==
  /\ pc[g] = "lint"
  /\ \/ failed' = TRUE /\ Finish(g)
     \/ failed' = FALSE /\ Goto(g, "lintCheck") /\ UNCHANGED task
  /\ UNCHANGED <<cache, store, config, outside, owed, starts>>

LintCheck(g) ==
  /\ pc[g] = "lintCheck"
  /\ \/ task[g].todo = {} /\ Goto(g, "lintFiles") /\ UNCHANGED task
     \/ \E f \in task[g].todo :
          /\ task' = [task EXCEPT ![g].file = f, ![g].todo = @ \ {f}]
          /\ Goto(g, IF cache.errors[f] \in Bad THEN "lintCheck"
                                                ELSE "lintStore")
  /\ LocalStep

SetFileDiagnostics(g) ==
  LET f == task[g].file
  IN CacheStep(g, "lintStore",
               [cache EXCEPT !.diags[f] = task[g].copy[f]], "lintCheck")

LintFiles(g) ==
  /\ pc[g] = "lintFiles"
  /\ task' = [task EXCEPT ![g].todo = AllFiles, ![g].copy = EveryFile(Nothing)]
  /\ Goto(g, "lintSend")
  /\ LocalStep

LintSend(g) ==
  /\ pc[g] = "lintSend"
  /\ \/ task[g].todo = {} /\ Finish(g)
     \/ \E f \in task[g].todo :
          /\ task' = [task EXCEPT ![g].file = f, ![g].todo = @ \ {f}]
          /\ Goto(g, "sendErrors")
  /\ LocalStep

-----------------------------------------------------------------------------
(* Outside the server.                                                      *)

DiskChange ==
  /\ writes < MaxWrites
  /\ \E f \in Files, t \in DiskTexts :
       t # disk[f] /\ disk' = [disk EXCEPT ![f] = t]
  /\ writes' = writes + 1
  /\ UNCHANGED <<cache, store, config, editor, client, runs, pc, task, starts>>

\* The poll ticker, and the end of workspace initialization, ask for a run of a
\* lint worker that has been started.
Poke ==
  /\ "poke" \in Ops
  /\ pc[LintWorker] \in Labels
  /\ ~owed
  /\ owed' = TRUE
  /\ UNCHANGED <<cache, store, config, outside, failed, pc, task, starts>>

-----------------------------------------------------------------------------

Receive(g) ==
  \/ ReceiveText(g) \/ ReceiveGone(g) \/ ReceiveFile(g) \/ ReceiveRename(g)
  \/ StateWorkerTick(g)

ParseStep(g) ==
  \/ ParseRead(g) \/ SetParseErrors(g) \/ SetModule(g) \/ SetLineCount(g)
  \/ PutFileMod(g) \/ PutFileRefs(g) \/ AfterParse(g)

DeleteStep(g) ==
  \/ DeleteContents(g) \/ DeleteIgnored(g) \/ DeleteModule(g)
  \/ DeleteDiagnostics(g) \/ DeleteParseErrors(g) \/ DeleteLineCount(g)

SendStep(g) == SendErrors(g) \/ SendDiags(g) \/ Notify(g)

DiskStep(g) ==
  \/ CheckHasContents(g) \/ ReadDisk(g) \/ CompareContents(g)
  \/ WriteFromDisk(g) \/ Stat(g) \/ RenameRead(g) \/ RenameTarget(g)

MessageStep(g) ==
  \/ Decide(g) \/ SetIgnored(g) \/ CheckTemplating(g) \/ SetContents(g)
  \/ RequestLint(g) \/ RequestTemplate(g)

TemplateStep(g) ==
  \/ FormatRead(g) \/ ClearFileDiagnostics(g) \/ MarkTemplating(g)
  \/ CheckEmpty(g) \/ CheckEmptyOnDisk(g) \/ FixMismatch(g) \/ MoveFrom(g)
  \/ MoveTo(g) \/ MoveSet(g) \/ MovePut(g) \/ ApplyTemplate(g)
  \/ UnmarkTemplating(g)

ConfigStep(g) ==
  \/ MoveNext(g) \/ RemoveFileMod(g) \/ CopyIgnored(g) \/ RestoreNext(g)
  \/ ClearIgnored(g)

LintStep(g) ==
  \/ Lint(g) \/ LintCheck(g) \/ SetFileDiagnostics(g) \/ LintFiles(g)
  \/ LintSend(g)

Step(g) ==
  \/ MessageStep(g) \/ ParseStep(g) \/ DiskStep(g) \/ DeleteStep(g)
  \/ SendStep(g) \/ TemplateStep(g) \/ ConfigStep(g) \/ LintStep(g)

Next ==
  \/ \E g \in Pool : Receive(g)
  \/ TakeTemplateJob
  \/ TakeConfig
  \/ StartLint
  \/ \E g \in {h \in Goroutines : task[h].op # "none"} : Step(g)
  \/ DiskChange
  \/ Poke

\* Messages, ticks and changes on disk are up to others, and every property is
\* about what is reached, so no fairness is stated.
Spec == Init /\ [][Next]_vars

-----------------------------------------------------------------------------
(* Properties of the server at rest: no message is being handled, no worker *)
(* has anything to do, and the latest lint run succeeded.                   *)

Quiescent ==
  /\ \A g \in Goroutines : pc[g] = "idle"
  /\ ~owed
  /\ templates = {}

\* What sendFileDiagnostics would send now.
Shown(f) == IF cache.errors[f] \in Bad THEN cache.errors[f] ELSE cache.diags[f]

(* However the handlers of opened, changed and created files and the        *)
(* template worker interleave, the editor ends up with what the cache says  *)
(* of each file, and what the cache says is the outcome of linting the      *)
(* module it holds.  It is so while nothing is deleted from the cache; in   *)
(* particular the template worker must have nothing to move (Misplaced),    *)
(* for MovePut deletes, without asking for a lint run, what a handler may   *)
(* just have derived from a text sent after the move.                       *)
ClientMatchesCache ==
  Quiescent /\ ~failed =>
    \A f \in AllFiles :
      /\ client[f] = Shown(f)
      /\ cache.errors[f] \notin Bad => cache.diags[f] = cache.modules[f]

\* Everything derived from the contents of f is derived from these contents.
Agrees(f) ==
  LET t == cache.contents[f]
  IN IF t \in Good
     THEN /\ cache.errors[f] = Clean
          /\ \A x \in {cache.modules[f], cache.diags[f], cache.lines[f],
                       store.parsed[f], store.refs[f], client[f]} : x = t
     ELSE cache.errors[f] = t /\ client[f] = t

(* When operations do not overlap each other (they always overlap the lint  *)
(* worker), module, line count, parse errors, violations, store and editor  *)
(* all follow the contents.  A file the template worker has filled is       *)
(* parsed only when the editor sends the applied edit back, and an ignored  *)
(* file not at all.                                                         *)
SettledView ==
  Quiescent /\ ~failed =>
    \A f \in AllFiles \ ignoring : cache.contents[f] # Template => Agrees(f)

TextOf(f) == IF f \in ignoring THEN cache.ignored[f] ELSE cache.contents[f]

(* "Use newOnly=true to ensure that files already in the cache from editor  *)
(* messages ... are not clobbered": the server has the text the editor sent *)
(* last, in the part of the cache the config assigns the file to.           *)
EditorIsHeard ==
  Quiescent => \A f \in Files : editor[f] # Nothing => TextOf(f) = editor[f]

(* "clear the cache first, then send the diagnostics based on the cleared   *)
(* cache": the editor shows nothing for a file that has been deleted.       *)
DeletedIsCleared ==
  Quiescent => \A f \in Files \ AllFiles : client[f] = Nothing

(* loadConfig keeps each file in one part of the cache: an ignored file is  *)
(* not linted, not searched for definitions and not in the parsed modules   *)
(* of the store; a file that is not ignored has no ignored contents.        *)
IgnoredIsApart ==
  Quiescent =>
    \A f \in Files :
      IF f \in ignoring
      THEN /\ ~HasContents(f)
           /\ cache.modules[f] = Nothing
           /\ store.parsed[f] = Nothing
      ELSE cache.ignored[f] = Nothing

(* loadConfig: "we need to remove them to stop their contents being used in *)
(* other ls functions": nothing derived from a file is kept once the config *)
(* ignores it.                                                              *)
IgnoredIsForgotten ==
  Quiescent =>
    \A f \in ignoring : store.parsed[f] = Nothing /\ store.refs[f] = Nothing
=============================================================================
