\* The initial load of a file while it is being opened.
CONSTANTS
  Files = {f1}
  Good = {a, b, tmpl}
  Bad = {empty}
  Empty = empty
  Template = tmpl
  Nothing = nothing
  Pool = {g1, g2}
  ConfigWorker = configWorker
  Templater = templater
  LintWorker = lintWorker
  SentTexts = {a}
  DiskTexts = {b}
  Ops = {"open", "load"}
  IgnoreSets = {{}}
  Misplaced = {}
  OneAtATime = FALSE
  MaxStarts = 2
  MaxWrites = 0
SPECIFICATION Spec
SYMMETRY Symmetry
INVARIANTS EditorIsHeard
CHECK_DEADLOCK FALSE
