\* A file deleted while the lint worker publishes.
CONSTANTS
  Files = {f1}
  Good = {a, tmpl}
  Bad = {empty}
  Empty = empty
  Template = tmpl
  Nothing = nothing
  Pool = {g1}
  ConfigWorker = configWorker
  Templater = templater
  LintWorker = lintWorker
  SentTexts = {a, empty}
  DiskTexts = {nothing}
  Ops = {"edit", "delete"}
  IgnoreSets = {{}}
  Misplaced = {}
  OneAtATime = TRUE
  MaxStarts = 2
  MaxWrites = 0
SPECIFICATION Spec
SYMMETRY Symmetry
INVARIANTS DeletedIsCleared
CHECK_DEADLOCK FALSE
