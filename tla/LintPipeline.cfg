\* A handler, a worker and the poll ticker compete for one slot of lintJobs, and
\* the linter may never finish a run.
CONSTANTS
  Handlers = {h1}
  Workers = {w1}
  Poll = TRUE
  LintJobsCap = 1
  MaxRevision = 2
SPECIFICATION Spec
INVARIANTS TypeOK NoLostTrigger CurrentUnlessFailed
PROPERTIES ImplementsService SendersAreReleased EveryChangeIsLinted ShutdownEnds
CHECK_DEADLOCK FALSE
