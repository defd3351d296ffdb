\* The fixer: three files in four directories: two end with the package bar, one with none.
CONSTANTS
  d1 = d1
  d2 = d2
  d3 = d3
  Docs = {d1, d2, d3}
  NoDoc = noDoc
  Foreign = foreign
  Torn = torn
  Dirs = {"foo", "bar", "sub/bar", "tmp"}
  Names = {"a"}
  Packages = {"foo", "bar"}
  Target <- MCTarget
  Fits <- MCFits
  TextFixes = {"fmt", "cond"}
  Mismatch = "dir"
  Texts = {{}, {"fmt", "cond"}}
  Rank <- MCRank
  Breaks <- MCBreaks
  Hopeless <- MCHopeless
  MaxSuffix = 3
  Starts <- MCStarts
  Elsewhere = {}
  Titles = {"fmt", "custom"}
  Provided = {"fmt"}
  FixableRules = {"fmt"}
  CategoryOf <- MCCategoryOf
  ProvidedLevel <- MCProvidedLevel
  Unset = unset
  Files = {1, 2, 3}
  Custom = {"r"}
  Broken = {3}
  MaxCalls = 3
  Absent = unset
  Lines = {"p", "q"}
  MaxLines = 4
  Roots = {r1, r2}
  Refreshers = {loader, worker}
  MaxWrites = 4
  NoBundle = noBundle
  Characters = {"a", "b", "h", "/"}
  Directories <- MCDirectories
  HomeDir <- MCHomeDir
  Inputs <- MCInputs
  InputDir <- DirOf
  Policies <- MCPolicies
  MaxInputChanges = 5
SPECIFICATION BatchSpec
INVARIANTS WellTyped EveryFileIsAccountedFor SetsTellDisk DiskIsAsFixed ReportIsTrue ConflictsAreComplete FlagsAreObeyed ReportIsAsOneByOne EditsAreRight FindIsNearest RootIsOfTheFile VersionIsOfNearest BundlesAreFresh InputsFollowDisk 
PROPERTIES LoopEnds FixesWhatIsEnabled
CHECK_DEADLOCK FALSE
