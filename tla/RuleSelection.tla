---------------------------- MODULE RuleSelection ----------------------------
(* Which rules run: the levels that pkg/config/bundle.go merges from the    *)
(* user's config and the provided one, the flags of the command line as     *)
(* bundle/regal/config/config.rego weighs them against the levels, and the  *)
(* parameters with which the fixer prepares its linter.                     *)
EXTENDS FiniteSets

CONSTANTS
  Titles,      \* rules, known by their titles alone, as in providedConfLevels
  Provided,    \* rules in the provided config; others are custom rules
  FixableRules, \* rules for which a fix is registered
  CategoryOf,  \* [Titles -> categories]
  ProvidedLevel, \* [Provided -> levels]
  Unset        \* a level that is left out

Levels == {"error", "ignore"}

ASSUME UnsetIsNoLevel == Unset \notin Levels
ASSUME FixableAreRules == FixableRules \subseteq Titles

Categories == {CategoryOf[t] : t \in Titles}

VARIABLES
  userLevel,       \* rules in the user's config, and their levels
  categoryDefault, \* categories with defaults, and their levels
  globalDefault,   \* the level of defaults for all categories
  params           \* flags, as prepareData hands them to Rego

levels == <<userLevel, categoryDefault, globalDefault>>
selectionVars == <<levels, params>>

Flags == [disable_all : BOOLEAN, enable_all : BOOLEAN,
          disable : SUBSET Titles, enable : SUBSET Titles,
          disable_category : SUBSET Categories, enable_category : SUBSET Categories]

Partly(S, T) == UNION {[D -> T] : D \in SUBSET S}

SelectionInit ==
  /\ userLevel \in Partly(Titles, Levels \union {Unset})
  /\ categoryDefault \in Partly(Categories, Levels \union {Unset})
  /\ globalDefault \in Levels \union {Unset}
  /\ params \in Flags

-----------------------------------------------------------------------------

Configured(t) == t \in DOMAIN userLevel /\ userLevel[t] # Unset

\* extractUserRuleLevels: what the user says of the rule, else of its
\* category (a category without a level hides the global one), else of all.
MergedLevel(t) ==
  CASE Configured(t) -> userLevel[t]
    [] ~Configured(t) /\ t \notin Provided -> Unset
    [] ~Configured(t) /\ t \in Provided ->
         LET c == CategoryOf[t] IN
         CASE c \in DOMAIN categoryDefault /\ categoryDefault[c] # Unset -> categoryDefault[c]
           [] c \in DOMAIN categoryDefault /\ categoryDefault[c] = Unset -> ProvidedLevel[t]
           [] c \notin DOMAIN categoryDefault /\ globalDefault # Unset -> globalDefault
           [] OTHER -> ProvidedLevel[t]

\* config.rules: bundled rules and the custom rules that the user mentions.
Rules == Provided \union DOMAIN userLevel

ForceDisabled(t) ==
  \/ t \in params.disable
  \/ params.disable_all /\ CategoryOf[t] \notin params.enable_category /\ t \notin params.enable
  \/ CategoryOf[t] \in params.disable_category /\ t \notin params.enable

ForceEnabled(t) ==
  \/ t \in params.enable
  \/ params.enable_all /\ CategoryOf[t] \notin params.disable_category /\ t \notin params.disable
  \/ CategoryOf[t] \in params.enable_category /\ t \notin params.disable

\* A plausible bug: the level of the config is looked at alone.
IgnoredByLevel(t) == ForceDisabled(t) \/ MergedLevel(t) = "ignore"

IgnoredRule(t) ==
  \/ ForceDisabled(t)
  \/ MergedLevel(t) = "ignore" /\ ~ForceEnabled(t)

LevelForRule(t) ==
  IF ForceDisabled(t) THEN "ignore"
  ELSE IF ForceEnabled(t) \/ t \notin Rules THEN "error"
  ELSE MergedLevel(t)

\* enabled_rules and rules_to_run are the same rule in two packages.
EnabledRules == {t \in Rules : ~IgnoredRule(t)}

\* A plausible bug: every rule with a fix is enabled.
PrepareToFixAll ==
  /\ params' = [params EXCEPT !.disable_all = TRUE, !.enable = FixableRules]
  /\ UNCHANGED levels

\* applyLinterFixes: l.WithDisableAll(true).WithEnabledRules(...).Prepare.
PrepareToFix ==
  /\ params' = [params EXCEPT !.disable_all = TRUE, !.enable = EnabledRules \intersect FixableRules]
  /\ UNCHANGED levels

SelectionNext == PrepareToFix

SelectionSpec == SelectionInit /\ [][SelectionNext]_selectionVars

-----------------------------------------------------------------------------

(* Whether a rule runs and the level its violations are reported with are   *)
(* decided by two chains of conditions: they agree for every mix of flags   *)
(* and levels, and a flag is obeyed unless another one contradicts it.      *)
FlagsAreObeyed ==
  \A t \in Titles :
    /\ IgnoredRule(t) <=> LevelForRule(t) = "ignore"
    /\ t \in params.disable => IgnoredRule(t)
    /\ t \in params.enable \ params.disable => ~IgnoredRule(t)
    /\ CategoryOf[t] \in params.enable_category \ params.disable_category /\ t \notin params.disable
         => ~IgnoredRule(t)
    /\ params.enable_all /\ ~params.disable_all /\ t \notin params.disable
         /\ CategoryOf[t] \notin params.disable_category => ~IgnoredRule(t)

(* The fixer replaces the enable list and disables everything else, over    *)
(* whatever flags the user gave: the rules with fixes that run are those    *)
(* that were enabled, no more and no less.                                  *)
FixesWhatIsEnabled ==
  [][EnabledRules' \intersect FixableRules = EnabledRules \intersect FixableRules]_selectionVars
=============================================================================
