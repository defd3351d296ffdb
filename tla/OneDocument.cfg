\* One file: one operation at a time, with configs that ignore the file or do
\* not; and two handlers at a time, beside the template worker, with configs
\* that ignore nothing.
CONSTANTS
  Files = {f1}
  Good = {a, b, tmpl}
  Bad = {empty}
  Empty = empty
  Template = tmpl
  Nothing = nothing
  Pool = {g1}
  ConfigWorker = configWorker
  Templater = templater
  LintWorker = lintWorker
  SentTexts = {a, empty}
  DiskTexts = {nothing, b}
  Ops = {"open", "edit", "close", "load", "reload", "poke"}
  IgnoreSets = {{}, {f1}}
  Misplaced = {}
  OneAtATime = TRUE
  MaxStarts = 4
  MaxWrites = 1
  OtherFiles = {f2}
  OtherPool = {g2, g3}
  Loader = loader
  Filler = filler
  Linter = linter
  OtherDiskTexts = {empty}
  OtherOps = {"open", "create", "reload", "lookupFails", "drop"}
SPECIFICATION OneSpec
SYMMETRY OneSymmetry
INVARIANTS EditorMatchesCache IgnoredIsApart EditorIsHeard
CHECK_DEADLOCK FALSE
