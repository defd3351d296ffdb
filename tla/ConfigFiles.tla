---------------------------- MODULE ConfigFiles ----------------------------
(* What config files and manifests say of a path (pkg/config/config.go):    *)
(* which config file applies to it (Find), which directories are roots      *)
(* (FindBundleRootDirectories), which Rego version its files have           *)
(* (AllRegoVersions, and RegoVersionFromMap of pkg/rules), and where the    *)
(* capabilities come from (UnmarshalYAML).                                  *)
(*                                                                          *)
(* A directory is its path from the root of the tree, which is <<>>: the    *)
(* sequence of the characters, with a slash between names.                  *)
EXTENDS Naturals, Sequences, FiniteSets, SequencesExt

CONSTANTS
  Characters,
  Directories, \* a tree of directories, with <<>>
  HomeDir      \* where the tree is, a path of that kind

ASSUME DirectoriesAreSequences ==
  /\ Directories \subseteq Seq(Characters) /\ <<>> \in Directories
  /\ HomeDir \in Seq(Characters) /\ "/" \in Characters

VARIABLES
  tree,     \* for each directory, its .regal, .regal.yaml and .manifest
  listed,   \* for each directory, project.roots of its config file
  project,  \* project.rego-version of the config in force
  versions, \*   and the rego-version of its roots
  from,     \* capabilities.from of a config file
  asked,    \* the function that is called
  answer    \*   and what it returns for each directory

configVars == <<tree, listed, project, versions, from, asked, answer>>

\* Rego versions; NotGiven is a field that is not there.
NotGiven == "unset"
Versions == {"v0", "v1", NotGiven}
Plain == [regal |-> "none", yaml |-> FALSE, manifest |-> "none"]
Fields == {"absent", "empty", "given"}

Above(d) == {e \in Directories : e = <<>> \/ e = d \/ IsPrefix(Append(e, "/"), d)}
Below(d) == {e \in Directories : d \in Above(e)}
\* The last directory of a set of directories above one another.
Nearest(S) == CHOOSE d \in S : \A e \in S : Len(e) <= Len(d)

ConfigTypes ==
  /\ tree \in [Directories -> [regal : {"none", "empty", "config"}, yaml : BOOLEAN,
                        manifest : {"none"} \union Versions]]
  /\ listed \in [Directories -> SUBSET Directories]
  /\ project \in Versions
  /\ versions \in [Directories -> Versions]
  /\ from \in [engine : {"absent", "given"}, version : Fields,
               file : {"absent", "given"}, url : {"absent", "given"}]

NothingListed == listed = [d \in Directories |-> {}]
NoVersions == project = NotGiven /\ versions = [d \in Directories |-> NotGiven]
NoneFrom == from = [engine |-> "absent", version |-> "absent",
                    file |-> "absent", url |-> "absent"]

ConfigInit ==
  /\ answer = <<>>
  /\ \/ /\ asked \in {"Find", "Lint"} /\ NothingListed /\ NoVersions /\ NoneFrom
        /\ tree \in [Directories -> [regal : {"none", "empty", "config"},
                              yaml : BOOLEAN, manifest : {"none"}]]
     \/ /\ asked = "Roots" /\ NoVersions /\ NoneFrom
        /\ tree \in [Directories -> {Plain, [Plain EXCEPT !.regal = "config"],
                              [Plain EXCEPT !.yaml = TRUE],
                              [Plain EXCEPT !.manifest = NotGiven]}]
        /\ \E S \in SUBSET Directories : listed = [d \in Directories |-> S \intersect Below(d)]
     \/ /\ asked \in {"Version", "LintVersion"} /\ NothingListed /\ NoneFrom
        /\ \E f \in [Directories -> Versions] :
             tree = [d \in Directories |-> [Plain EXCEPT !.manifest = f[d],
                       !.regal = IF d = <<>> THEN "config" ELSE "none"]]
        /\ project \in Versions
        /\ versions \in [Directories -> Versions] /\ versions[<<>>] = NotGiven
     \/ /\ asked = "Capabilities" /\ NothingListed /\ NoVersions
        /\ tree = [d \in Directories |-> Plain]
        /\ from \in [engine : {"absent", "given"}, version : Fields,
                     file : {"absent", "given"}, url : {"absent", "given"}]

-----------------------------------------------------------------------------
(* Find.                                                                    *)

RegalDirs(d) == {e \in Above(d) : tree[e].regal # "none"}
YamlDirs(d) == {e \in Above(d) : tree[e].yaml}

\* Plausible bug: the nearest file is looked for only without a directory.
DirectoryFirst(d) ==
  IF RegalDirs(d) # {}
  THEN LET e == Nearest(RegalDirs(d))
       IN IF tree[e].regal = "config" THEN <<e, ".regal">> ELSE <<"error">>
  ELSE IF YamlDirs(d) # {} THEN <<Nearest(YamlDirs(d)), ".regal.yaml">>
  ELSE <<"error">>

\* The error of two files in one directory is only that of the nearest two.
FindConfig(d) ==
  LET dir == Nearest(RegalDirs(d))
      file == Nearest(YamlDirs(d))
      InDirectory == IF tree[dir].regal = "config" THEN <<dir, ".regal">>
                     ELSE <<"error">>
  IN CASE RegalDirs(d) = {} /\ YamlDirs(d) = {} -> <<"error">>
       [] RegalDirs(d) = {} /\ YamlDirs(d) # {} -> <<file, ".regal.yaml">>
       [] RegalDirs(d) # {} /\ YamlDirs(d) = {} -> InDirectory
       [] OTHER -> IF dir = file THEN <<"error">>
                   ELSE IF Len(file) > Len(dir) THEN <<file, ".regal.yaml">>
                   ELSE InDirectory

-----------------------------------------------------------------------------
(* FindBundleRootDirectories.                                               *)

Manifests(d) == {e \in Below(d) : tree[e].manifest # "none"}

\* Plausible bug: manifests are left to the walk from the path.
RootsWithoutManifests(parent) == {parent} \union listed[parent]

\* rootsFromRegalConfigDirOrFile.  (The rules directory of a .regal directory
\* is left out: it has no directories of Directories.)
RootsOfConfig(parent) == {parent} \union listed[parent] \union Manifests(parent)

\* The walk down finds manifests; what it does for .regal directories is not
\* done, since the paths it is given are absolute.
FindBundleRootDirectories(d) ==
  Manifests(d) \union
  (IF RegalDirs(d) = {} THEN {} ELSE RootsOfConfig(Nearest(RegalDirs(d)))) \union
  (IF YamlDirs(d) = {} THEN {} ELSE RootsOfConfig(Nearest(YamlDirs(d))))

-----------------------------------------------------------------------------
(* AllRegoVersions: the workspace has the key "." when its manifest sets a  *)
(* version, and the key "" when its config does; .length is that of the key.*)

Key(d, length, version) == [dir |-> d, length |-> length, version |-> version]

NoManifests == [d \in Directories |-> "none"]
Manifest == [d \in Directories |-> tree[d].manifest]

AllRegoVersions(manifest) ==
  LET SetBy(f) == {d \in Directories \ {<<>>} : f[d] \notin {"none", NotGiven}}
  IN {Key(d, Len(d), versions[d]) : d \in SetBy(versions)} \union
     {Key(d, Len(d), manifest[d]) : d \in SetBy(manifest) \ SetBy(versions)} \union
     {Key(<<>>, 1, v) : v \in {manifest[<<>>]} \ {"none", NotGiven}} \union
     {Key(<<>>, 0, v) : v \in {project} \ {NotGiven}}

\* Plausible bug: the shortest key wins.
Shorter(k, l) == k.length <= l.length

Longer(k, l) == k.length >= l.length

\* RegoVersionFromMap: the version of the longest key that the directory of the
\* file starts with, character by character; of two that are as long, of the one
\* that comes last, in the order of a map: the set of versions it may return.
RegoVersionFromMap(keys, dir) ==
  LET fit == {k \in keys : IsPrefix(<<"/">> \o k.dir, dir)}
  IN IF fit = {} THEN {NotGiven}
     ELSE {k.version : k \in {l \in fit : \A m \in fit : Longer(l, m)}}

\* loadConfig and regoVersionForURI of the language server: paths are those
\* within the workspace.
VersionOf(d) == RegoVersionFromMap(AllRegoVersions(Manifest), <<"/">> \o d)

-----------------------------------------------------------------------------
(* UnmarshalYAML: from.version is of type any and compared with "", which   *)
(* a version that is absent (nil) differs from.                             *)

Set(field) == from[field] = "given"

CapabilitiesSource ==
  IF \/ Set("url") /\ (Set("file") \/ Set("engine") \/ from.version # "empty")
     \/ Set("file") /\ Set("engine")
     \/ Set("engine") /\ from.version # "given"
  THEN "error"
  ELSE IF Set("engine") THEN "engine"
  ELSE IF Set("file") THEN "file"
  ELSE IF Set("url") THEN "url"
  ELSE "default"

-----------------------------------------------------------------------------
(* The commands, for a path in d (cmd/lint.go, cmd/fix.go, cmd/utils.go).   *)

\* readUserConfig: without a config that can be found, the user's global one
\* or the default is used.
FixConfig(d) == IF FindConfig(d) = <<"error">> THEN <<"default">> ELSE FindConfig(d)

\* regal lint takes the nearest .regal directory before it looks any further.
LintConfig(d) ==
  IF RegalDirs(d) # {} /\ tree[Nearest(RegalDirs(d))].regal = "config"
  THEN <<Nearest(RegalDirs(d)), ".regal">>
  ELSE FixConfig(d)

\* Lint and InputFromPaths: the path prefix is the .regal directory, which is
\* where manifests are looked for, and which is taken off the absolute path.
Absolute(d) == <<"/">> \o HomeDir \o (IF d = <<>> THEN d ELSE <<"/">> \o d)

LintVersion(d) ==
  LET path == Absolute(d)
      prefix == Absolute(Nearest(RegalDirs(d))) \o <<"/", ".", "r", "e", "g", "a", "l">>
      Trimmed == IF IsPrefix(prefix, path)
                 THEN SubSeq(path, Len(prefix) + 1, Len(path)) ELSE path
  IN IF RegalDirs(d) = {} THEN {NotGiven}
     ELSE RegoVersionFromMap(AllRegoVersions(NoManifests), Trimmed)

-----------------------------------------------------------------------------

Answer(name, f) ==
  /\ asked = name /\ answer = <<>>
  /\ answer' = f
  /\ UNCHANGED <<tree, listed, project, versions, from, asked>>

AskFind == Answer("Find", [d \in Directories |-> FindConfig(d)])
AskRoots == Answer("Roots", [d \in Directories |-> FindBundleRootDirectories(d)])
AskVersion == Answer("Version", [d \in Directories |-> VersionOf(d)])
AskCapabilities == Answer("Capabilities", [d \in Directories |-> CapabilitiesSource])

AskLint == Answer("Lint", [d \in Directories |-> LintConfig(d)])
AskLintVersion == Answer("LintVersion", [d \in Directories |-> LintVersion(d)])

ConfigNext ==
  \/ AskLint \/ AskLintVersion
  \/ AskFind \/ AskRoots \/ AskVersion \/ AskCapabilities

ConfigSpec == ConfigInit /\ [][ConfigNext]_configVars

-----------------------------------------------------------------------------

Answered(name) == asked = name /\ DOMAIN answer # {}

(* docs/configuration/index.md:75: the config is searched for upwards "until *)
(* either one is found": the nearest directory with a .regal directory or a  *)
(* .regal.yaml decides, also when it decides on an error.                    *)
FindIsNearest ==
  Answered("Find") =>
    \A d \in Directories :
      LET here == Nearest(RegalDirs(d) \union YamlDirs(d))
      IN answer[d] =
           IF \/ RegalDirs(d) \union YamlDirs(d) = {}
              \/ here \in RegalDirs(d) \intersect YamlDirs(d)
              \/ tree[here].regal = "empty"
           THEN <<"error">>
           ELSE <<here, IF tree[here].yaml THEN ".regal.yaml" ELSE ".regal">>

(* The roots, one of which a fix moves a file under, are the same whichever  *)
(* directory is given, above the file or further down, when the same config  *)
(* applies to both.                                                          *)
RootIsOfTheFile ==
  Answered("Roots") =>
    \A d \in Directories : \A e \in Below(d) :
      /\ RegalDirs(d) = RegalDirs(e) /\ YamlDirs(d) = YamlDirs(e)
      /\ RegalDirs(d) \union YamlDirs(d) # {}
      => answer[d] = answer[e]

(* The Rego version of a file is that of the nearest directory above it that *)
(* a root of the config or a manifest gives one, the config going before the *)
(* manifest of the same directory, unless the path of the file starts with   *)
(* one that is longer and not above it, as that of foobar/p.rego starts with *)
(* the root foo (rules.go:139).  When the name of the nearest is a single    *)
(* character, it may also be the version of the workspace's manifest, whose  *)
(* key is as long.  Where no root counts, the workspace's manifest goes      *)
(* before its config: docs/configuration/rego-version.md:30 has it the other *)
(* way round, for this case too.                                             *)
VersionIsOfNearest ==
  Answered("Version") =>
    \A d \in Directories :
      LET Given(e) == IF versions[e] # NotGiven THEN versions[e] ELSE tree[e].manifest
          Gives(e) == Given(e) \notin {"none", NotGiven}
          starting == {e \in Directories \ {<<>>} : IsPrefix(e, d) /\ Gives(e)}
          nearest == Nearest({e \in Above(d) \ {<<>>} : Gives(e)})
          manifest == {tree[<<>>].manifest} \ {"none", NotGiven}
      IN IF starting = {} THEN answer[d] = IF manifest # {} THEN manifest ELSE {project}
         ELSE Nearest(starting) \in Above(d) =>
                answer[d] = {Given(nearest)} \union IF Len(nearest) = 1 THEN manifest ELSE {}

(* config.go:367, of the versions set by the two: "Config file has higher    *)
(* precedence than .manifest files".                                         *)
ConfigHasPrecedence ==
  Answered("Version") =>
    (/\ project # NotGiven
     /\ \A e \in Directories \ {<<>>} :
          versions[e] = NotGiven /\ tree[e].manifest \in {"none", NotGiven}
     => \A d \in Directories : answer[d] = {project})

(* config.go:179, of the file that is nearer: "it's more specific to the     *)
(* search path in question, and so we return that".  regal lint, too.        *)
LintUsesNearest ==
  Answered("Lint") => \A d \in Directories : answer[d] = FixConfig(d)

(* docs/configuration/rego-version.md: "It is also possible to set the Rego  *)
(* version for individual project roots".                                    *)
RootVersionIsUsed ==
  Answered("LintVersion") =>
    \A d \in Directories : versions[d] # NotGiven => answer[d] = {versions[d]}

(* docs/configuration/capabilities.md:62: "Regal can load capabilities from  *)
(* URLs [...] using the capabilities.from.url config key".                   *)
UrlIsLoaded ==
  Answered("Capabilities") =>
    (from = [engine |-> "absent", version |-> "absent", file |-> "absent",
             url |-> "given"]
     => \A d \in Directories : answer[d] = "url")
=============================================================================
