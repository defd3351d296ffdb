\* One of the files on disk is not given to the command.
CONSTANTS
  d1 = d1
  d2 = d2
  d3 = d3
  Docs = {d1, d2, d3}
  NoDoc = noDoc
  Foreign = foreign
  Torn = torn
  Dirs = {"foo", "bar", "sub/bar", "tmp"}
  Names = {"a"}
  Packages = {"foo", "bar"}
  Target <- MCTarget
  Fits <- MCFits
  TextFixes = {"fmt", "cond"}
  Mismatch = "dir"
  Texts = {{}, {"fmt", "cond"}}
  Rank <- MCRank
  Breaks <- MCBreaks
  Hopeless <- MCHopeless
  MaxSuffix = 3
  Starts <- MCStarts
  Elsewhere <- MCElsewhere
SPECIFICATION Spec
INVARIANTS ForeignIsKept
CHECK_DEADLOCK FALSE
