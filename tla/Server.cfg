\* A config file that is written, removed and created again beside the initial load
\* of a workspace, saves in development mode, two files to locate tests in, three
\* requests for commands, two debuggers.
CONSTANTS
  Openers = {o1}
  Creators = {c1}
  Removes = TRUE
  MaxChanges = 3
  Free = free
  Savers = {s1, s2, s3}
  MaxBundles = 3
  NoSaver = noSaver
  Requests = {1, 2, 3}
  QueueSize = 1
  NoJob = 0
  Clients = {1, 2}
  MaxRequests = 2
  Nobody = 0
  Docs = {1, 2}
  Editors = {1, 2}
  Loader = 3
  JobsSize = 1
  Asks = {1}
  MaxEdits = 3
SPECIFICATION ServerSpec
INVARIANTS WellTyped NewestConfigIsLoaded NewestBundleIsPrepared LensesFitText LocationsAreCurrent
PROPERTIES WritesAreFollowed AnsweredIfDismissed FileIsFoundAgain RequestsAreAnswered NextClientIsServed QueueingEnds
CHECK_DEADLOCK FALSE
