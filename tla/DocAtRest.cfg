\* Two files, one of which may be ignored, and one operation at a time.  The
\* template worker may move either.
CONSTANTS
  Files = {f1, f2}
  Good = {a, tmpl}
  Bad = {empty}
  Empty = empty
  Template = tmpl
  Nothing = nothing
  Pool = {g1}
  ConfigWorker = configWorker
  Templater = templater
  LintWorker = lintWorker
  SentTexts = {a}
  DiskTexts = {nothing, empty}
  Ops = {"edit", "rename", "create", "delete", "watched", "format", "sweep"}
  IgnoreSets = {{}, {f1}, {f2}}
  Misplaced = {f1, f2}
  OneAtATime = TRUE
  MaxStarts = 3
  MaxWrites = 0
SPECIFICATION Spec
SYMMETRY Symmetry
VIEW ButEditor
INVARIANTS TypeOK SettledView
CHECK_DEADLOCK FALSE
