------------------------------- MODULE Fixer -------------------------------
(* regal fix: the loop of pkg/fixer/fixer.go that lints the files, applies  *)
(* one fix and lints again, on the in-memory file provider, and the writing *)
(* of the outcome to disk in cmd/fix.go.                                    *)
(*                                                                          *)
(* A document is a Rego file given to the command, whatever happens to its  *)
(* name and text.  Its text is the set of fixable rules that it violates.   *)
(* A path is a directory, a name and the number that renameCandidate        *)
(* appends to names in conflict, zero for none.                             *)
EXTENDS Naturals, FiniteSets, Sequences

CONSTANTS
  Docs,        \* documents given to the command
  NoDoc,       \* no file at a path
  Foreign,     \* the text of a file that was not given to the command
  Torn,        \* what a failed write leaves
  Dirs, Names, Packages,
  Target,      \* [Dirs \X Packages -> Dirs]: closest root, joined with package
  Fits,        \* the pairs of directory and package that satisfy the rule
  TextFixes,   \* the fixes that change a text and no name
  Mismatch,    \* the directory-package-mismatch fix
  Rank,        \* the place of a fix in the order of registration
  Texts,       \* the violations that the text of a file given may have
  Breaks,      \* [TextFixes -> SUBSET TextFixes]: rules a fix may make violated
  Hopeless,    \* <<document, fix>>: the fix finds nothing to do
  MaxSuffix,   \* bound on the numbers in names
  Starts,      \* where the documents may be: a set of [Docs -> Paths]
  Elsewhere    \* where files may be that were not given to the command

Fixes == TextFixes \union {Mismatch}
Paths == [dir : Dirs, name : Names, n : 0..MaxSuffix]

ASSUME DocsAreFinite == IsFiniteSet(Docs)
ASSUME ValuesDiffer ==
  NoDoc # Foreign /\ NoDoc # Torn /\ Foreign # Torn /\ NoDoc \notin Docs
ASSUME MismatchIsNoTextFix == Mismatch \notin TextFixes
ASSUME TextsAreTexts == Texts \subseteq SUBSET TextFixes
ASSUME RanksAreDistinct ==
  /\ Rank \in [Fixes -> Nat]
  /\ \A f, g \in Fixes : Rank[f] = Rank[g] => f = g
\* The mismatch fix finds nothing to do for a file at its place alone, which
\* the rule accepts.
ASSUME MovesAreMade == \A d \in Docs : <<d, Mismatch>> \notin Hopeless
\* The rule accepts every place to which the fix moves a file: the last
\* directories of its path are those of the package.
ASSUME TargetsFit ==
  /\ Target \in [Dirs \X Packages -> Dirs]
  /\ \A d \in Dirs, k \in Packages : <<Target[<<d, k>>], k>> \in Fits
\* A fix may leave work for a fix that is registered before it (formatting),
\* never for itself or a later one.
ASSUME FixesProgress ==
  /\ Breaks \in [TextFixes -> SUBSET TextFixes]
  /\ \A f \in TextFixes : \A g \in Breaks[f] : Rank[g] < Rank[f]
ASSUME PlacesDiffer ==
  /\ Starts \subseteq [Docs -> Paths]
  /\ \A s \in Starts : \A d, e \in Docs : s[d] = s[e] => d = e
  /\ Elsewhere \subseteq Paths
ASSUME SuffixesSuffice ==
  /\ MaxSuffix \in Nat
  /\ \A s \in Starts, d \in Docs : s[d].n + Cardinality(Docs) <= MaxSuffix + 1

VARIABLES
  package,    \* package declared in each document
  onConflict, \* the --on-conflict flag
  dryRun,     \* the --dry-run flag
  others,     \* paths of files on disk that were not given to the command
  start,      \* path of each document when the command starts
  wrong,      \* fixable rules that each document violates
  files,      \* the provider: the document at each path, or NoDoc
  modified,   \* the provider's set of modified files
  deleted,    \* the provider's set of deleted files
  fileFixes,  \* report: how often each fix is listed for each path
  movedFiles, \* report: the old paths registered for each path
  manyToOne,  \* report: conflicts <<to, from>> of this kind
  sourceFile, \* report: conflicts <<to, from>> of this kind
  applied,    \* history: how often each fix was applied to each document
  disk,       \* the file system: <<document, text>>, Foreign, Torn or NoDoc
  todo,       \* files that are still to be removed or written
  phase,      \* control
  result      \* how the command ended

input == <<package, onConflict, dryRun, others, start>>
provider == <<files, modified, deleted>>
conflicts == <<manyToOne, sourceFile>>
report == <<fileFixes, movedFiles, conflicts, applied>>
control == <<phase, result>>
vars == <<input, wrong, provider, report, disk, todo, control>>

Present == {p \in Paths : files[p] # NoDoc}
Starting == {start[d] : d \in Docs}
HasConflicts == manyToOne # {} \/ sourceFile # {}

TypeOK ==
  /\ package \in [Docs -> Packages]
  /\ onConflict \in {"error", "rename"}
  /\ dryRun \in BOOLEAN
  /\ others \in SUBSET Paths
  /\ start \in [Docs -> Paths]
  /\ wrong \in [Docs -> SUBSET TextFixes]
  /\ files \in [Paths -> Docs \union {NoDoc}]
  /\ modified \in SUBSET Paths
  /\ deleted \in SUBSET Paths
  /\ fileFixes \in [Paths -> [Fixes -> Nat]]
  /\ movedFiles \in [Paths -> Seq(Paths)]
  /\ manyToOne \in SUBSET (Paths \X Paths)
  /\ sourceFile \in SUBSET (Paths \X Paths)
  /\ applied \in [Docs -> [Fixes -> Nat]]
  /\ disk \in [Paths -> (Docs \X SUBSET TextFixes) \union {Foreign, Torn, NoDoc}]
  /\ todo \in SUBSET Paths
  /\ phase \in {"fixing", "removing", "writing", "done"}
  /\ result \in {"none", "ok", "conflicts", "error"}
  /\ phase = "done" <=> result # "none"

-----------------------------------------------------------------------------

Occupant(p) ==
  IF \E d \in Docs : start[d] = p THEN CHOOSE d \in Docs : start[d] = p
                                  ELSE NoDoc

Nothing == [f \in Fixes |-> 0]

\* NewInMemoryFileProviderFromFS has read the documents.
Init ==
  /\ package \in [Docs -> Packages]
  /\ onConflict \in {"error", "rename"}
  /\ dryRun \in BOOLEAN
  /\ start \in Starts
  /\ wrong \in [Docs -> Texts]
  /\ files = [p \in Paths |-> Occupant(p)]
  /\ modified = {}
  /\ deleted = {}
  /\ fileFixes = [p \in Paths |-> Nothing]
  /\ movedFiles = [p \in Paths |-> <<>>]
  /\ manyToOne = {}
  /\ sourceFile = {}
  /\ applied = [d \in Docs |-> Nothing]
  /\ others \in SUBSET (Elsewhere \ Starting)
  /\ disk = [p \in Paths |-> CASE p \in others -> Foreign
                               [] p \in Starting -> <<Occupant(p), wrong[Occupant(p)]>>
                               [] OTHER -> NoDoc]
  /\ todo = {}
  /\ phase = "fixing"
  /\ result = "none"

-----------------------------------------------------------------------------
(* The loop of applyLinterFixes.  One step is a lint run and the one fix    *)
(* that applyOneFix makes of its report.                                    *)

\* Where the mismatch fix wants the file at p.
Home(p) == [p EXCEPT !.dir = Target[<<p.dir, package[files[p]]>>]]

Violates(p, f) ==
  IF f = Mismatch THEN <<p.dir, package[files[p]]>> \notin Fits
                  ELSE f \in wrong[files[p]]

\* Files in which fix f would find something to do.
Fixable(f) == {p \in Present : Violates(p, f) /\ <<files[p], f>> \notin Hopeless}

\* Fixes are tried in the order in which they are registered.
Turn(f) == \A g \in Fixes : Rank[g] < Rank[f] => Fixable(g) = {}

Credit(counts, p, f) == [counts EXCEPT ![p][f] = @ + 1]

\* A plausible bug: the changed contents are not put back.
RepairUnmarked(p, f) ==
  /\ phase = "fixing"
  /\ p \in Fixable(f) /\ Turn(f)
  /\ \E text \in SUBSET ((wrong[files[p]] \ {f}) \union Breaks[f]) :
       wrong' = [wrong EXCEPT ![files[p]] = text]
  /\ fileFixes' = Credit(fileFixes, p, f)
  /\ applied' = Credit(applied, files[p], f)
  /\ UNCHANGED <<input, provider, movedFiles, conflicts, disk, todo, control>>

\* A fix that changes the text of the file at p.  Other violations may go
\* with it, and what it breaks may come.
Repair(p, f) ==
  /\ phase = "fixing"
  /\ p \in Fixable(f) /\ Turn(f)
  /\ \E text \in SUBSET ((wrong[files[p]] \ {f}) \union Breaks[f]) :
       wrong' = [wrong EXCEPT ![files[p]] = text]
  /\ modified' = modified \union {p}
  /\ fileFixes' = Credit(fileFixes, p, f)
  /\ applied' = Credit(applied, files[p], f)
  /\ UNCHANGED <<input, files, deleted, movedFiles, conflicts, disk, todo, control>>

\* A plausible bug: the fixes stay listed under the old path as well.
MergedKeepingOld(from, to) ==
  [fileFixes EXCEPT
     ![to] = [f \in Fixes |-> @[f] + fileFixes[from][f] + IF f = Mismatch THEN 1 ELSE 0]]

\* What AddFileFix(to) and MergeFixes(to, from) make of fileFixes.
Merged(from, to) ==
  [fileFixes EXCEPT
     ![to] = [f \in Fixes |-> @[f] + fileFixes[from][f] + IF f = Mismatch THEN 1 ELSE 0],
     ![from] = Nothing]

ReportMove(from, to) ==
  /\ fileFixes' = Merged(from, to)
  /\ movedFiles' = [movedFiles EXCEPT ![to] = Append(@, from)]
  /\ applied' = Credit(applied, files[from], Mismatch)

SameName(p, q) == p.dir = q.dir /\ p.name = q.name

\* The path that renameCandidate arrives at: p or the next free number.
FirstFree(p) ==
  CHOOSE q \in Paths :
    /\ SameName(p, q) /\ p.n <= q.n /\ files[q] = NoDoc
    /\ \A r \in Paths :
         SameName(p, r) /\ p.n <= r.n /\ files[r] = NoDoc => q.n <= r.n

\* A plausible bug: a move onto another file replaces it.
MoveOver(from) ==
  /\ phase = "fixing"
  /\ from \in Fixable(Mismatch) /\ Turn(Mismatch)
  /\ LET to == Home(from) IN
       /\ files' = [files EXCEPT ![to] = files[from], ![from] = NoDoc]
       /\ modified' = (modified \union {to}) \ {from}
       /\ ReportMove(from, to)
  /\ deleted' = deleted \union {from}
  /\ UNCHANGED <<input, wrong, conflicts, disk, todo, control>>

\* handleRename: the provider's Rename succeeds, at once or, if conflicts are
\* to be solved by renaming, with another number.
Move(from) ==
  /\ phase = "fixing"
  /\ from \in Fixable(Mismatch) /\ Turn(Mismatch)
  /\ onConflict = "error" => files[Home(from)] = NoDoc
  /\ LET to == FirstFree(Home(from)) IN
       /\ files' = [files EXCEPT ![to] = files[from], ![from] = NoDoc]
       /\ modified' = (modified \union {to}) \ {from}
       /\ ReportMove(from, to)
  /\ deleted' = deleted \union {from}
  /\ UNCHANGED <<input, wrong, conflicts, disk, todo, control>>

\* A plausible bug: the path in conflict is not registered with the others
\* that were moved to the same place.
ConflictUnregistered(from) ==
  /\ phase = "fixing"
  /\ from \in Fixable(Mismatch) /\ Turn(Mismatch)
  /\ onConflict = "error"
  /\ LET to == Home(from) IN
       /\ files[to] # NoDoc
       /\ IF to \in Starting
          THEN sourceFile' = sourceFile \union {<<to, from>>} /\ UNCHANGED manyToOne
          ELSE manyToOne' = manyToOne \union {<<to, from>>} /\ UNCHANGED sourceFile
       /\ fileFixes' = Merged(from, to)
       /\ applied' = Credit(applied, files[from], Mismatch)
  /\ files' = [files EXCEPT ![from] = NoDoc]
  /\ modified' = modified \ {from}
  /\ deleted' = deleted \union {from}
  /\ UNCHANGED <<input, wrong, movedFiles, disk, todo, control>>

\* handleRename with OnConflictError: the source leaves the provider, so that
\* the loop does not come back to it, and both paths go to the report.
Conflict(from) ==
  /\ phase = "fixing"
  /\ from \in Fixable(Mismatch) /\ Turn(Mismatch)
  /\ onConflict = "error"
  /\ LET to == Home(from) IN
       /\ files[to] # NoDoc
       /\ IF to \in Starting
          THEN sourceFile' = sourceFile \union {<<to, from>>} /\ UNCHANGED manyToOne
          ELSE manyToOne' = manyToOne \union {<<to, from>>} /\ UNCHANGED sourceFile
       /\ ReportMove(from, to)
  /\ files' = [files EXCEPT ![from] = NoDoc]
  /\ modified' = modified \ {from}
  /\ deleted' = deleted \union {from}
  /\ UNCHANGED <<input, wrong, disk, todo, control>>

\* A file does not parse, a fix or the linter returns an error.
Fail ==
  /\ phase = "fixing"
  /\ phase' = "done" /\ result' = "error"
  /\ UNCHANGED <<input, wrong, provider, report, disk, todo>>

\* A plausible bug: the command goes on after it has reported conflicts.
LeaveWithConflicts ==
  IF dryRun THEN phase' = "done" /\ result' = "ok" /\ UNCHANGED todo
  ELSE /\ phase' = "removing" /\ todo' = deleted
       /\ result' = IF HasConflicts THEN "conflicts" ELSE result

\* What the command does when the loop has ended.
Leave ==
  IF HasConflicts THEN phase' = "done" /\ result' = "conflicts" /\ UNCHANGED todo
  ELSE IF dryRun THEN phase' = "done" /\ result' = "ok" /\ UNCHANGED todo
  ELSE phase' = "removing" /\ todo' = deleted /\ UNCHANGED result

\* A plausible bug: the loop goes on when no fix was made.
StopWhenClean ==
  /\ phase = "fixing"
  /\ \A f \in Fixes, p \in Present : ~Violates(p, f)
  /\ Leave
  /\ UNCHANGED <<input, wrong, provider, report, disk>>

\* No violation is left, or none that a fix does something about.
Stop ==
  /\ phase = "fixing"
  /\ \A f \in Fixes : Fixable(f) = {}
  /\ Leave
  /\ UNCHANGED <<input, wrong, provider, report, disk>>

-----------------------------------------------------------------------------
(* cmd/fix.go: deleted files are removed, then modified files are written,  *)
(* each in the order of a map.  os.Remove fails if there is no file.        *)

RemoveFile(p) ==
  /\ phase = "removing"
  /\ p \in todo /\ disk[p] # NoDoc
  /\ disk' = [disk EXCEPT ![p] = NoDoc]
  /\ todo' = todo \ {p}
  /\ UNCHANGED <<input, wrong, provider, report, control>>

\* A plausible bug: what was removed is not written, although another file
\* has taken its place.
BeginWritesOfNew ==
  /\ phase = "removing" /\ todo = {}
  /\ phase' = "writing"
  /\ todo' = modified \ deleted
  /\ UNCHANGED <<input, wrong, provider, report, disk, result>>

BeginWrites ==
  /\ phase = "removing" /\ todo = {}
  /\ phase' = "writing"
  /\ todo' = modified
  /\ UNCHANGED <<input, wrong, provider, report, disk, result>>

WriteFile(p) ==
  /\ phase = "writing"
  /\ p \in todo /\ files[p] # NoDoc
  /\ disk' = [disk EXCEPT ![p] = <<files[p], wrong[files[p]]>>]
  /\ todo' = todo \ {p}
  /\ UNCHANGED <<input, wrong, provider, report, control>>

\* A removal, a directory or a write fails; a write may have begun.
FailOnDisk ==
  /\ phase \in {"removing", "writing"}
  /\ \/ UNCHANGED disk
     \/ \E p \in todo : phase = "writing" /\ disk' = [disk EXCEPT ![p] = Torn]
  /\ phase' = "done" /\ result' = "error"
  /\ UNCHANGED <<input, wrong, provider, report, todo>>

Finish ==
  /\ phase = "writing" /\ todo = {}
  /\ phase' = "done" /\ result' = "ok"
  /\ UNCHANGED <<input, wrong, provider, report, disk, todo>>

-----------------------------------------------------------------------------

FixOne ==
  \E p \in Present :
    \/ \E f \in TextFixes : Repair(p, f)
    \/ Move(p)
    \/ Conflict(p)

Progress ==
  \/ FixOne \/ Stop
  \/ \E p \in todo : RemoveFile(p) \/ WriteFile(p)
  \/ BeginWrites \/ Finish

Next == Progress \/ Fail \/ FailOnDisk

(* The command is one goroutine that goes on until it returns; nothing      *)
(* obliges an error to occur.                                               *)
Spec == Init /\ [][Next]_vars /\ WF_vars(Progress)

-----------------------------------------------------------------------------

(* The conflict policy: whatever chain of moves there is, a document is in  *)
(* the provider at exactly one path, or it is reported as being in conflict *)
(* under the path it had, and in that case alone it has left the provider.  *)
EveryFileIsAccountedFor ==
  \A d \in Docs :
    LET reported == \E c \in manyToOne \union sourceFile : c[2] = start[d]
    IN  Cardinality({p \in Paths : files[p] = d}) = IF reported THEN 0 ELSE 1

(* While it is fixing, the provider's sets say what the disk lacks: every   *)
(* removal finds a file (os.Remove fails otherwise, with files removed and  *)
(* none written yet), every write has contents, what is in neither set is   *)
(* on disk as it is in the provider, and nothing else of what was given is  *)
(* left behind.                                                             *)
SetsTellDisk ==
  phase = "fixing" =>
    /\ deleted \subseteq Starting
    /\ modified \subseteq Present
    /\ \A p \in Present \ modified : disk[p] = <<files[p], wrong[files[p]]>>
    /\ Starting \ Present \subseteq deleted

(* A command that succeeds leaves on disk what the provider holds, at every *)
(* path, also where one file was moved away and another took its place.     *)
DiskIsAsFixed ==
  result = "ok" /\ ~dryRun =>
    /\ \A p \in Present : disk[p] = <<files[p], wrong[files[p]]>>
    /\ \A p \in Starting \ Present : disk[p] = NoDoc

(* The report credits each file with the fixes it got under all its names,  *)
(* and names the path at which the user knows it (OldPathForFile).          *)
ReportIsTrue ==
  result = "ok" =>
    \A p \in Paths :
      IF files[p] = NoDoc THEN fileFixes[p] = Nothing
      ELSE /\ fileFixes[p] = applied[files[p]]
           /\ start[files[p]] = IF movedFiles[p] = <<>> THEN p ELSE movedFiles[p][1]

\* Where a document belongs, seen from the path it was given at.
Wanted(d) ==
  IF <<start[d].dir, package[d]>> \in Fits THEN start[d]
  ELSE [start[d] EXCEPT !.dir = Target[<<@, package[d]>>]]

(* "Cannot move multiple files to": the paths listed (movedFiles) are those *)
(* of all the files that belong there, whichever of them came first.        *)
ConflictsAreComplete ==
  result = "conflicts" =>
    \A c \in manyToOne :
      {movedFiles[c[1]][i] : i \in DOMAIN movedFiles[c[1]]} =
        {start[d] : d \in {e \in Docs : Wanted(e) = c[1]}}

(* The loop ends: every fix brings the files closer to having none, also    *)
(* when fixes break what others mended, and a file in conflict is not       *)
(* looked at again.                                                         *)
FixEnds == <>(phase = "done")

(* A file that exists is not overwritten, as the command's report of a      *)
(* conflict says.  The provider knows the files given to the command only.  *)
ForeignIsKept == \A p \in others : disk[p] = Foreign
=============================================================================
