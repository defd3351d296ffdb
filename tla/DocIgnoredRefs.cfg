\* A config that ignores a file that was open.
CONSTANTS
  Files = {f1}
  Good = {a, tmpl}
  Bad = {empty}
  Empty = empty
  Template = tmpl
  Nothing = nothing
  Pool = {g1}
  ConfigWorker = configWorker
  Templater = templater
  LintWorker = lintWorker
  SentTexts = {a, empty}
  DiskTexts = {nothing}
  Ops = {"edit", "reload"}
  IgnoreSets = {{}, {f1}}
  Misplaced = {}
  OneAtATime = TRUE
  MaxStarts = 2
  MaxWrites = 0
SPECIFICATION Spec
SYMMETRY Symmetry
INVARIANTS IgnoredIsForgotten
CHECK_DEADLOCK FALSE
