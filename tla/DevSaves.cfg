\* Two saves while the worker prepares the queries of the first.
CONSTANTS
  Savers = {s1, s2, s3}
  MaxBundles = 3
  NoSaver = nobody
SPECIFICATION DevSpec
PROPERTIES SavesReturn
CHECK_DEADLOCK FALSE
