-------------------------------- MODULE Linter --------------------------------
(* The linter of pkg/linter/linter.go: the builder methods and Prepare,     *)
(* and Lint with its two rounds of goroutines, one that parses the files    *)
(* (pkg/rules/rules.go) and one that evaluates the policies for each of     *)
(* them, the merge of their reports and the evaluation of aggregate rules.  *)
(*                                                                          *)
(* A config is the set of files it ignores, flags are the files that        *)
(* WithIgnore names, and custom rules tell which rules made a report.       *)
EXTENDS Naturals, Sequences, FiniteSets, SequencesExt

CONSTANTS
  Files,     \* files, ordered as numbers
  Custom,    \* custom rules that load
  Broken,    \* files that do not parse
  MaxCalls,  \* bound on the number of builder calls
  Absent     \* nil

VARIABLES
  userConfig,   \* l.userConfig: files the user's config ignores, or nil
  combinedCfg,  \* l.combinedCfg: the same after Prepare, or nil
  ignoreFiles,  \* l.ignoreFiles
  customRules,  \* l.customRuleModules
  customError,  \* l.customRuleError is set
  query,        \* l.preparedQuery: what it was prepared with, or nil
  isPrepared,
  inputPaths,   \* files given as paths
  inputModules, \* files given as modules
  export,       \* l.exportAggregates, and l.useCollectQuery with it
  calls,        \* number of builder calls so far
  names,        \* input.FileNames
  tasks,        \* goroutines of the current round: running, ok or failed
  found,        \* results: the report of each file
  lintReport,   \* the report that Lint returns
  lintPhase     \* control

builder == <<userConfig, ignoreFiles, customRules, customError>>
preparation == <<combinedCfg, query, isPrepared>>
lintInputs == <<inputPaths, inputModules, export>>
running == <<names, tasks, found, lintReport, lintPhase>>
linterVars == <<builder, preparation, lintInputs, calls, running>>

NoReport == [violations |-> <<>>, aggregates |-> {}, scanned |-> 0]

LinterTypes ==
  /\ userConfig \in (SUBSET Files) \union {Absent}
  /\ combinedCfg \in (SUBSET Files) \union {Absent}
  /\ ignoreFiles \in SUBSET Files
  /\ customRules \in SUBSET Custom
  /\ customError \in BOOLEAN
  /\ isPrepared => query # Absent /\ combinedCfg # Absent
  /\ names \in Seq(Files)
  /\ DOMAIN tasks = DOMAIN found
  /\ lintPhase \in {"building", "parsing", "linting", "merging", "ok", "error"}

LinterInit ==
  /\ userConfig = Absent
  /\ combinedCfg = Absent
  /\ ignoreFiles = {}
  /\ customRules = {}
  /\ customError = FALSE
  /\ query = Absent
  /\ isPrepared = FALSE
  /\ inputPaths \in SUBSET Files
  /\ inputModules \in SUBSET (Files \ Broken)
  /\ export \in BOOLEAN
  /\ calls = 0
  /\ names = <<>>
  /\ tasks = <<>>
  /\ found = <<>>
  /\ lintReport = NoReport
  /\ lintPhase = "building"

-----------------------------------------------------------------------------
(* Builder methods.  All those modelled end with notPrepared.               *)

Calling ==
  /\ lintPhase = "building"
  /\ calls < MaxCalls
  /\ calls' = calls + 1
  /\ UNCHANGED <<lintInputs, running>>

NotPrepared == isPrepared' = FALSE /\ UNCHANGED <<combinedCfg, query>>

WithUserConfig(cfg) ==
  /\ Calling /\ NotPrepared
  /\ userConfig' = cfg
  /\ UNCHANGED <<ignoreFiles, customRules, customError>>

\* A plausible bug: the prepared query is not given up.
WithIgnoreKept(patterns) ==
  /\ Calling /\ UNCHANGED preparation
  /\ ignoreFiles' = patterns
  /\ UNCHANGED <<userConfig, customRules, customError>>

\* One of the methods whose value prepareData hands to the policies.
WithIgnore(patterns) ==
  /\ Calling /\ NotPrepared
  /\ ignoreFiles' = patterns
  /\ UNCHANGED <<userConfig, customRules, customError>>

\* WithCustomRulesFromFS: modules are appended, an error is kept for Prepare.
WithCustomRules(rule) ==
  /\ Calling /\ NotPrepared
  /\ \/ customRules' = customRules \union {rule} /\ UNCHANGED customError
     \/ customError' = TRUE /\ UNCHANGED customRules
  /\ UNCHANGED <<userConfig, ignoreFiles>>

\* GetConfig merges the user's config once: a config that has been combined
\* is used again.
GetConfig ==
  CASE combinedCfg # Absent -> combinedCfg
    [] combinedCfg = Absent /\ userConfig # Absent -> userConfig
    [] OTHER -> {}

\* Prepare compiles the modules, fills the store and evaluates the prepare
\* query; validate fails on the error kept, and on unknown rules.
Prepared ==
  /\ ~customError
  /\ combinedCfg' = GetConfig
  /\ query' = [config |-> GetConfig, ignore |-> ignoreFiles, rules |-> customRules]
  /\ isPrepared' = TRUE

Prepare ==
  /\ Calling
  /\ Prepared
  /\ UNCHANGED builder

-----------------------------------------------------------------------------
(* Lint.                                                                    *)

\* The files of a set in their order.
Sorted(S) ==
  CHOOSE s \in [1..Cardinality(S) -> S] : \A i, j \in DOMAIN s : i < j => s[i] < s[j]

\* The files that FilterIgnoredPaths leaves, by flags or else by config.
Kept(S, cfg) == S \ (IF ignoreFiles # {} THEN ignoreFiles ELSE cfg)

Start(n, state) ==
  /\ tasks' = [i \in 1..n |-> "running"]
  /\ found' = [i \in 1..n |-> Absent]
  /\ lintPhase' = state

\* Lint prepares the linter if it must, filters the paths and starts to parse
\* them; names holds the paths meanwhile.
Lint ==
  /\ lintPhase = "building"
  /\ IF isPrepared THEN UNCHANGED preparation ELSE Prepared
  /\ names' = Sorted(Kept(inputPaths, combinedCfg'))
  /\ Start(Cardinality(Kept(inputPaths, combinedCfg')), "parsing")
  /\ UNCHANGED <<builder, lintInputs, calls, lintReport>>

Ends(i, outcome) == tasks[i] = "running" /\ tasks' = [tasks EXCEPT ![i] = outcome]

ParseFile(i) ==
  /\ lintPhase = "parsing"
  /\ Ends(i, IF names[i] \in Broken THEN "failed" ELSE "ok")
  /\ UNCHANGED <<builder, preparation, lintInputs, calls, names, found, lintReport, lintPhase>>

Joined == \A i \in DOMAIN tasks : tasks[i] # "running"
AllOk == \A i \in DOMAIN tasks : tasks[i] = "ok"

\* Modules follow the files, each in order.  No file left is no error, as
\* long as paths were given.
BeginLint ==
  /\ lintPhase = "parsing" /\ Joined /\ AllOk
  /\ inputPaths # {} \/ inputModules # {}
  /\ names' = names \o Sorted(Kept(inputModules, combinedCfg))
  /\ Start(Len(names'), "linting")
  /\ UNCHANGED <<builder, preparation, lintInputs, calls, lintReport>>

\* What the policies, prepared as they were, find in a file: _globally_ignored
\* looks at the patterns of the parameters.  Aggregates are collected if there
\* are several files, or on demand.
Evaluated(f) ==
  [violations |-> IF f \in query.ignore THEN <<>> ELSE <<[of |-> {f}, rules |-> query.rules]>>,
   aggregates |-> IF Len(names) > 1 \/ export THEN {f} ELSE {}]

\* A plausible bug: reports are stored in the order in which they arrive.
LintFileInTurn(i) ==
  /\ lintPhase = "linting"
  /\ Ends(i, "ok")
  /\ LET next == Cardinality({j \in DOMAIN found : found[j] # Absent}) + 1
     IN  found' = [found EXCEPT ![next] = Evaluated(names[i])]
  /\ UNCHANGED <<builder, preparation, lintInputs, calls, names, lintReport, lintPhase>>

LintFile(i) ==
  /\ lintPhase = "linting"
  /\ Ends(i, "ok")
  /\ found' = [found EXCEPT ![i] = Evaluated(names[i])]
  /\ UNCHANGED <<builder, preparation, lintInputs, calls, names, lintReport, lintPhase>>

\* Evaluation fails, or was cancelled because another one has.
LintFileFails(i) ==
  /\ lintPhase = "linting"
  /\ Ends(i, "failed")
  /\ UNCHANGED <<builder, preparation, lintInputs, calls, names, found, lintReport, lintPhase>>

Concat(s) == FlattenSeq([i \in DOMAIN s |-> s[i].violations])
Union(s) == UNION {s[i].aggregates : i \in DOMAIN s}

Merge ==
  /\ lintPhase = "linting" /\ Joined /\ AllOk
  /\ lintReport' = [violations |-> Concat(found), aggregates |-> Union(found),
                    scanned |-> Len(names)]
  /\ lintPhase' = "merging"
  /\ UNCHANGED <<builder, preparation, lintInputs, calls, names, tasks, found>>

\* lintWithAggregateRules, for several files with aggregates.
AggregateViolations(aggregates) ==
  IF Len(names) > 1 /\ aggregates # {}
  THEN <<[of |-> aggregates, rules |-> query.rules]>>
  ELSE <<>>

\* The end of Lint.
LintAggregates ==
  /\ lintPhase = "merging"
  /\ lintReport' =
       [lintReport EXCEPT
          !.violations = @ \o AggregateViolations(lintReport.aggregates),
          !.aggregates = IF export THEN @ ELSE {}]
  /\ lintPhase' = "ok"
  /\ UNCHANGED <<builder, preparation, lintInputs, calls, names, tasks, found>>

\* Any error ends the run without a report: of Prepare, of the first round,
\* of the second, or of the aggregate rules.
LintFails ==
  /\ \/ lintPhase = "building" /\ ~isPrepared
     \/ lintPhase \in {"parsing", "linting"} /\ Joined /\ ~AllOk
     \/ lintPhase = "parsing" /\ Joined /\ inputPaths \union inputModules = {}
     \/ lintPhase = "merging" /\ Len(names) > 1
  /\ lintReport' = NoReport
  /\ lintPhase' = "error"
  /\ UNCHANGED <<builder, preparation, lintInputs, calls, names, tasks, found>>

-----------------------------------------------------------------------------

Building ==
  \/ \E cfg \in SUBSET Files : WithUserConfig(cfg)
  \/ \E patterns \in SUBSET Files : WithIgnore(patterns)
  \/ \E rule \in Custom : WithCustomRules(rule)
  \/ Prepare

Linting ==
  \/ Lint
  \/ \E i \in DOMAIN tasks : ParseFile(i) \/ LintFile(i) \/ LintFileFails(i)
  \/ BeginLint \/ Merge \/ LintAggregates
  \/ LintFails

LinterNext == Building \/ Linting

LinterSpec == LinterInit /\ [][LinterNext]_linterVars

-----------------------------------------------------------------------------

Ignored(cfg) == IF ignoreFiles # {} THEN ignoreFiles ELSE cfg

\* The report that the settings of the linter call for, made file by file.
ReportFor(cfg) ==
  LET order == Sorted(inputPaths \ Ignored(cfg)) \o Sorted(inputModules \ Ignored(cfg))
      linted == {order[i] : i \in DOMAIN order}
      ofFiles == [i \in DOMAIN order |-> [of |-> {order[i]}, rules |-> customRules]]
      ofAll == IF Len(order) > 1 THEN <<[of |-> linted, rules |-> customRules]>> ELSE <<>>
  IN  [violations |-> ofFiles \o ofAll,
       aggregates |-> IF export THEN linted ELSE {},
       scanned |-> Len(order)]

(* Whatever the order in which files are parsed and linted, and whatever    *)
(* was prepared before settings were changed, a report holds the violations *)
(* of every file in the order of the files and those found in all files     *)
(* together, by the rules and ignore patterns the linter has now.  As to    *)
(* the config, it is the one that was combined first.                       *)
ReportIsAsOneByOne ==
  lintPhase = "ok" => lintReport = ReportFor(combinedCfg)

(* GetConfig, linter.go:533: "the final configuration for the linter, i.e.  *)
(* Regal's default configuration plus any user-provided configuration       *)
(* merged on top of it".                                                    *)
UserConfigIsMerged ==
  lintPhase = "ok" /\ userConfig # Absent => lintReport = ReportFor(userConfig)
=============================================================================
