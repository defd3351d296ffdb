--------------------------- MODULE SettingsProofs ---------------------------
(* Proofs about what is in force for a rule and for a file: RuleSelection,  *)
(* for any rules, categories, levels and flags, and ConfigFiles, for any    *)
(* tree of directories with any config files and manifests in it.           *)
EXTENDS RuleSelection, ConfigFiles, SequenceTheorems, WellFoundedInduction, TLAPS

\* What the fixer makes of the flags are flags again.
FlagsOK == params \in Flags

(* The parameters are well formed in every state, whatever the user's flags *)
(* and the rules that the fixer enables.                                    *)
LEMMA FlagsStayFlags == SelectionSpec => []FlagsOK
<1>1. SelectionInit => FlagsOK
  BY DEF SelectionInit, FlagsOK
<1>2. FlagsOK /\ [SelectionNext]_selectionVars => FlagsOK'
  <2> SUFFICES ASSUME FlagsOK, [SelectionNext]_selectionVars
               PROVE  FlagsOK'
    OBVIOUS
  <2>1. CASE PrepareToFix
    <3>1. EnabledRules \intersect FixableRules \in SUBSET Titles
      BY FixableAreRules
    <3> QED
      BY <2>1, <3>1 DEF PrepareToFix, FlagsOK, Flags
  <2>2. CASE UNCHANGED selectionVars
    BY <2>2 DEF selectionVars, FlagsOK
  <2> QED
    BY <2>1, <2>2 DEF SelectionNext
<1> QED
  BY <1>1, <1>2, PTL DEF SelectionSpec

(* Both chains of conditions of config.rego put the same rules aside, and   *)
(* obey every flag that no other flag contradicts.                          *)
THEOREM FlagsDecide == SelectionSpec => []FlagsAreObeyed
<1>1. FlagsAreObeyed
  <2> SUFFICES ASSUME NEW t \in Titles
               PROVE  /\ IgnoredRule(t) <=> LevelForRule(t) = "ignore"
                      /\ t \in params.disable => IgnoredRule(t)
                      /\ t \in params.enable \ params.disable => ~IgnoredRule(t)
                      /\ CategoryOf[t] \in params.enable_category \ params.disable_category
                           /\ t \notin params.disable => ~IgnoredRule(t)
                      /\ params.enable_all /\ ~params.disable_all /\ t \notin params.disable
                           /\ CategoryOf[t] \notin params.disable_category => ~IgnoredRule(t)
    BY DEF FlagsAreObeyed
  <2>1. t \notin Rules => MergedLevel(t) # "ignore"
    BY UnsetIsNoLevel DEF Rules, MergedLevel, Configured, Levels
  <2>2. IgnoredRule(t) <=> LevelForRule(t) = "ignore"
    BY <2>1 DEF IgnoredRule, LevelForRule
  <2>3. t \in params.disable => IgnoredRule(t)
    BY DEF IgnoredRule, ForceDisabled
  <2>4. t \in params.enable \ params.disable => ~IgnoredRule(t)
    BY DEF IgnoredRule, ForceDisabled, ForceEnabled
  <2>5. CategoryOf[t] \in params.enable_category \ params.disable_category
          /\ t \notin params.disable => ~IgnoredRule(t)
    BY DEF IgnoredRule, ForceDisabled, ForceEnabled
  <2>6. params.enable_all /\ ~params.disable_all /\ t \notin params.disable
          /\ CategoryOf[t] \notin params.disable_category => ~IgnoredRule(t)
    BY DEF IgnoredRule, ForceDisabled, ForceEnabled
  <2> QED
    BY <2>2, <2>3, <2>4, <2>5, <2>6
<1> QED
  BY <1>1, PTL

(* The fixer runs the rules with fixes that the user has enabled, and those *)
(* only: every flag of the user that is still in force beside disable_all   *)
(* and the new enable list leaves each of them as it was.                   *)
THEOREM FixerKeepsSelection == SelectionSpec => FixesWhatIsEnabled
<1>1. FlagsOK /\ [SelectionNext]_selectionVars
        => [EnabledRules' \intersect FixableRules = EnabledRules \intersect FixableRules]_selectionVars
  <2> SUFFICES ASSUME FlagsOK, PrepareToFix
               PROVE  EnabledRules' \intersect FixableRules = EnabledRules \intersect FixableRules
    BY DEF SelectionNext
  <2>1. /\ params'.disable_all = TRUE
        /\ params'.enable = EnabledRules \intersect FixableRules
        /\ params'.enable_all = params.enable_all
        /\ params'.disable = params.disable
        /\ params'.enable_category = params.enable_category
        /\ params'.disable_category = params.disable_category
    BY DEF PrepareToFix, FlagsOK, Flags
  <2>2. ASSUME NEW t \in FixableRules
        PROVE  MergedLevel(t)' = MergedLevel(t)
    BY DEF PrepareToFix, levels, MergedLevel, Configured
  <2>3. Rules' = Rules
    BY DEF PrepareToFix, levels, Rules
  <2>4. ASSUME NEW t \in FixableRules, t \in EnabledRules
        PROVE  t \in EnabledRules'
    <3>1. t \notin params.disable
      BY <2>4 DEF EnabledRules, IgnoredRule, ForceDisabled
    <3>2. t \in params'.enable
      BY <2>1, <2>4
    <3>3. ~ForceDisabled(t)' /\ ForceEnabled(t)'
      BY <2>1, <3>1, <3>2 DEF ForceDisabled, ForceEnabled
    <3> QED
      BY <2>3, <2>4, <3>3 DEF EnabledRules, IgnoredRule
  <2>5. ASSUME NEW t \in FixableRules, t \in EnabledRules'
        PROVE  t \in EnabledRules
    <3>1. t \in Rules /\ ~ForceDisabled(t)'
      BY <2>3, <2>5 DEF EnabledRules, IgnoredRule
    <3>2. CASE t \in params'.enable
      BY <2>1, <3>2
    <3>3. CASE t \notin params'.enable
      <4>1. /\ t \notin params.disable
            /\ CategoryOf[t] \in params.enable_category
            /\ CategoryOf[t] \notin params.disable_category
        BY <2>1, <3>1, <3>3 DEF ForceDisabled
      <4>2. ~IgnoredRule(t)
        BY <4>1 DEF IgnoredRule, ForceDisabled, ForceEnabled
      <4> QED
        BY <3>1, <4>2 DEF EnabledRules
    <3> QED
      BY <3>2, <3>3
  <2> QED
    BY <2>4, <2>5
<1> QED
  BY <1>1, FlagsStayFlags, PTL DEF SelectionSpec, FixesWhatIsEnabled

-----------------------------------------------------------------------------
(* Directories above one another.                                           *)

LEMMA PrefixIs ==
  ASSUME NEW s \in Seq(Characters), NEW t \in Seq(Characters)
  PROVE  IsPrefix(s, t) <=> Len(s) <= Len(t) /\ \A i \in 1..Len(s) : s[i] = t[i]
<1> SUFFICES ASSUME Len(s) <= Len(t)
             PROVE  SubSeq(s, 1, Len(s)) = SubSeq(t, 1, Len(s)) <=>
                      \A i \in 1..Len(s) : s[i] = t[i]
  BY DEF IsPrefix
<1>1. Len(s) \in Nat /\ Len(t) \in Nat
  BY LenProperties
<1>2. SubSeq(s, 1, Len(s)) = s
  BY SubSeqFull
<1> DEFINE start == SubSeq(t, 1, Len(s))
<1>3. \A i \in 1..Len(s) : t[i] \in Characters
  BY <1>1, ElementOfSeq
<1>4. /\ start \in Seq(Characters) /\ Len(start) = Len(s)
      /\ \A i \in 1..Len(s) : start[i] = t[i]
  <2>1. \A i \in 1..Len(s) - 1 + 1 : start[i] = t[1 + i - 1]
    BY <1>1, <1>3, SubSeqProperties
  <2>2. start \in Seq(Characters) /\ Len(start) = IF 1 <= Len(s) THEN Len(s) - 1 + 1 ELSE 0
    BY <1>1, <1>3, SubSeqProperties
  <2> QED
    BY <1>1, <2>1, <2>2
<1> HIDE DEF start
<1>5. (\A i \in 1..Len(s) : s[i] = t[i]) => s = start
  BY <1>4, SeqEqual
<1> QED
  BY <1>1, <1>2, <1>4, <1>5 DEF start

\* The directories that a path starts with, character by character.
Starting(d) == {e \in Directories : IsPrefix(e, d)}

LEMMA StartingIsOrdered ==
  ASSUME NEW d \in Directories, NEW e \in Starting(d), NEW f \in Starting(d)
  PROVE  /\ Len(e) \in Nat /\ Len(e) <= Len(d) /\ Len(d) \in Nat
         /\ Len(e) = Len(f) => e = f
<1>1. d \in Seq(Characters) /\ e \in Seq(Characters) /\ f \in Seq(Characters)
      /\ IsPrefix(e, d) /\ IsPrefix(f, d)
  BY DirectoriesAreSequences DEF Starting
<1>2. Len(d) \in Nat /\ Len(e) \in Nat /\ Len(f) \in Nat
  BY <1>1, LenProperties
<1>3. /\ Len(e) <= Len(d) /\ \A i \in 1..Len(e) : e[i] = d[i]
      /\ Len(f) <= Len(d) /\ \A i \in 1..Len(f) : f[i] = d[i]
  BY <1>1, PrefixIs
<1>4. Len(e) = Len(f) => e = f
  BY <1>1, <1>2, <1>3, SeqEqual
<1> QED
  BY <1>2, <1>3, <1>4

LEMMA SlashIs ==
  ASSUME NEW e \in Seq(Characters), NEW d \in Seq(Characters)
  PROVE  IsPrefix(Append(e, "/"), d) <=>
           /\ Len(e) < Len(d) /\ d[Len(e) + 1] = "/"
           /\ \A i \in 1..Len(e) : e[i] = d[i]
<1> DEFINE a == Append(e, "/")
<1>1. Len(e) \in Nat /\ Len(d) \in Nat
  BY LenProperties
<1>2. /\ a \in Seq(Characters) /\ Len(a) = Len(e) + 1 /\ a[Len(e) + 1] = "/"
      /\ \A i \in 1..Len(e) : a[i] = e[i]
  <2>1. "/" \in Characters
    BY DirectoriesAreSequences
  <2>2. /\ a \in Seq(Characters) /\ Len(a) = Len(e) + 1
        /\ \A i \in 1..Len(e) : a[i] = e[i]
    BY <2>1, AppendProperties
  <2>3. a[Len(e) + 1] = "/"
    BY <2>1, AppendProperties, Zenon
  <2> QED
    BY <2>2, <2>3
<1> HIDE DEF a
<1>3. IsPrefix(a, d) <=> Len(a) <= Len(d) /\ \A i \in 1..Len(a) : a[i] = d[i]
  BY <1>2, PrefixIs
<1>4. (\A i \in 1..Len(a) : a[i] = d[i]) <=>
        d[Len(e) + 1] = "/" /\ \A i \in 1..Len(e) : e[i] = d[i]
  <2>1. 1..Len(a) = 1..Len(e) \union {Len(e) + 1}
    BY <1>1, <1>2
  <2> QED
    BY <1>2, <2>1
<1>5. Len(a) <= Len(d) <=> Len(e) < Len(d)
  BY <1>1, <1>2
<1> QED
  BY <1>3, <1>4, <1>5 DEF a

LEMMA RootStarts ==
  ASSUME NEW d \in Seq(Characters)
  PROVE  IsPrefix(<<>>, d)
<1>1. <<>> \in Seq(Characters) /\ Len(<<>>) = 0 /\ Len(d) \in Nat
  BY EmptySeq, LenProperties
<1>2. Len(<<>>) <= Len(d) /\ \A i \in 1..Len(<<>>) : <<>>[i] = d[i]
  BY <1>1
<1> QED
  BY <1>1, <1>2, PrefixIs

\* A path starts with the directories above it, though not only with them.
LEMMA AboveStarts ==
  ASSUME NEW d \in Directories
  PROVE  Above(d) \subseteq Starting(d)
<1> SUFFICES ASSUME NEW e \in Above(d)
             PROVE  IsPrefix(e, d)
  BY DEF Above, Starting
<1>1. d \in Seq(Characters) /\ e \in Seq(Characters)
  BY DirectoriesAreSequences DEF Above
<1>2. Len(d) \in Nat /\ Len(e) \in Nat
  BY <1>1, LenProperties
<1>3. CASE e = <<>>
  BY <1>1, <1>3, RootStarts
<1>4. CASE e = d
  BY <1>1, <1>2, <1>4, PrefixIs
<1>5. CASE IsPrefix(Append(e, "/"), d)
  BY <1>1, <1>2, <1>5, SlashIs, PrefixIs
<1> QED
  BY <1>3, <1>4, <1>5 DEF Above

LEMMA AboveIsOrdered ==
  ASSUME NEW d \in Directories, NEW e \in Above(d), NEW f \in Above(d)
  PROVE  /\ Len(e) \in Nat /\ Len(e) <= Len(d) /\ Len(d) \in Nat
         /\ Len(e) = Len(f) => e = f
<1>1. e \in Starting(d) /\ f \in Starting(d)
  BY AboveStarts
<1> QED
  BY <1>1, StartingIsOrdered

LEMMA AboveIsTransitive ==
  ASSUME NEW d \in Directories, NEW e \in Above(d), NEW f \in Above(e)
  PROVE  f \in Above(d)
<1>1. d \in Seq(Characters) /\ e \in Seq(Characters) /\ f \in Seq(Characters) /\ f \in Directories
  BY DirectoriesAreSequences DEF Above
<1>2. Len(d) \in Nat /\ Len(e) \in Nat /\ Len(f) \in Nat
  BY <1>1, LenProperties
<1>3. CASE f = <<>> \/ f = e \/ e = d
  BY <1>1, <1>3 DEF Above
<1>4. CASE IsPrefix(Append(f, "/"), e) /\ e = <<>>
  <2>1. Len(f) < Len(e) /\ Len(e) = 0
    BY <1>1, <1>4, SlashIs, EmptySeq
  <2> QED
    BY <1>2, <2>1
<1>5. CASE IsPrefix(Append(f, "/"), e) /\ IsPrefix(Append(e, "/"), d)
  <2>1. /\ Len(f) < Len(e) /\ e[Len(f) + 1] = "/" /\ \A i \in 1..Len(f) : f[i] = e[i]
        /\ Len(e) < Len(d) /\ \A i \in 1..Len(e) : e[i] = d[i]
    BY <1>1, <1>5, SlashIs
  <2>2. /\ Len(f) < Len(d) /\ d[Len(f) + 1] = "/"
        /\ \A i \in 1..Len(f) : f[i] = d[i]
    BY <1>2, <2>1
  <2>3. IsPrefix(Append(f, "/"), d)
    BY <1>1, <2>2, SlashIs
  <2> QED
    BY <1>1, <2>3 DEF Above
<1> QED
  BY <1>3, <1>4, <1>5 DEF Above

\* A set of numbers that is not empty has a least element.
LEMMA LeastNumber ==
  ASSUME NEW T, T \subseteq Nat, T # {}
  PROVE  \E x \in T : \A y \in T : x <= y
<1>1. \E x \in T : \A y \in T : <<y, x>> \notin OpToRel(<, Nat)
  BY NatLessThanWellFounded, WFMin
<1>2. \A x, y \in T : <<y, x>> \notin OpToRel(<, Nat) => x <= y
  BY DEF OpToRel
<1> QED
  BY <1>1, <1>2

\* Of some directories that a path starts with, one is longest, and no other is.
LEMMA LongestIs ==
  ASSUME NEW d \in Directories, NEW S \in SUBSET Starting(d), S # {}
  PROVE  /\ Nearest(S) \in S
         /\ \A e \in S : Len(e) <= Len(Nearest(S))
         /\ \A n \in S : (\A e \in S : Len(e) <= Len(n)) => Nearest(S) = n
<1> DEFINE distances == {Len(d) - Len(e) : e \in S}
<1>1. \A e \in S : Len(e) \in Nat /\ Len(e) <= Len(d) /\ Len(d) \in Nat
  BY StartingIsOrdered
<1>2. distances \subseteq Nat /\ distances # {}
  BY <1>1
<1>3. PICK x \in distances : \A y \in distances : x <= y
  BY <1>2, LeastNumber
<1>4. PICK m \in S : x = Len(d) - Len(m)
  BY <1>3
<1>5. ASSUME NEW e \in S
      PROVE  Len(e) <= Len(m)
  <2>1. Len(d) - Len(e) \in distances
    OBVIOUS
  <2>2. x <= Len(d) - Len(e)
    BY <1>3, <2>1
  <2> QED
    BY <1>1, <1>4, <2>2
<1>6. Nearest(S) \in S /\ \A e \in S : Len(e) <= Len(Nearest(S))
  BY <1>5 DEF Nearest
<1>7. ASSUME NEW n \in S, \A e \in S : Len(e) <= Len(n)
      PROVE  Nearest(S) = n
  <2>1. Len(Nearest(S)) = Len(n)
    BY <1>1, <1>6, <1>7
  <2> QED
    BY <1>6, <2>1, StartingIsOrdered
<1> QED
  BY <1>6, <1>7

\* Of some directories above one another, one is nearest, and no other is.
LEMMA NearestIs ==
  ASSUME NEW d \in Directories, NEW S \in SUBSET Above(d), S # {}
  PROVE  /\ Nearest(S) \in S
         /\ \A e \in S : Len(e) <= Len(Nearest(S))
         /\ \A n \in S : (\A e \in S : Len(e) <= Len(n)) => Nearest(S) = n
<1>1. S \in SUBSET Starting(d)
  BY AboveStarts
<1> QED
  BY <1>1, LongestIs

-----------------------------------------------------------------------------
(* What is asked of the tree.                                               *)

\* An answer is that of the function that is called; the tree stays.
ConfigInv ==
  /\ ConfigTypes
  /\ answer # <<>> =>
       /\ asked = "Find" => answer = [d \in Directories |-> FindConfig(d)]
       /\ asked = "Roots" => answer = [d \in Directories |-> FindBundleRootDirectories(d)]
       /\ asked = "Version" => answer = [d \in Directories |-> VersionOf(d)]

LEMMA ConfigInvariant == ConfigSpec => []ConfigInv
<1>1. ConfigInit => ConfigInv
  <2> SUFFICES ASSUME ConfigInit
               PROVE  ConfigTypes
    BY DEF ConfigInit, ConfigInv
  <2> DEFINE entries == [regal : {"none", "empty", "config"}, yaml : BOOLEAN,
                         manifest : {"none"} \union Versions]
             sources == [engine : {"absent", "given"}, version : Fields,
                         file : {"absent", "given"}, url : {"absent", "given"}]
  <2>1. NoneFrom => from \in sources
    BY DEF NoneFrom, Fields
  <2>2. NothingListed => listed \in [Directories -> SUBSET Directories]
    BY DEF NothingListed
  <2>3. NoVersions => project \in Versions /\ versions \in [Directories -> Versions]
    BY DEF NoVersions, Versions
  <2>4. Plain \in entries
    BY DEF Plain
  <2>5. CASE /\ NothingListed /\ NoVersions /\ NoneFrom
             /\ tree \in [Directories -> [regal : {"none", "empty", "config"},
                                         yaml : BOOLEAN, manifest : {"none"}]]
    <3>1. [regal : {"none", "empty", "config"}, yaml : BOOLEAN, manifest : {"none"}] \subseteq entries
      OBVIOUS
    <3>2. tree \in [Directories -> entries]
      BY <2>5, <3>1
    <3> QED
      BY <2>1, <2>2, <2>3, <2>5, <3>2 DEF ConfigTypes
  <2>6. CASE /\ NoVersions /\ NoneFrom
             /\ tree \in [Directories -> {Plain, [Plain EXCEPT !.regal = "config"],
                                         [Plain EXCEPT !.yaml = TRUE],
                                         [Plain EXCEPT !.manifest = NotGiven]}]
             /\ \E S \in SUBSET Directories : listed = [d \in Directories |-> S \intersect Below(d)]
    <3>1. /\ [Plain EXCEPT !.regal = "config"] \in entries
          /\ [Plain EXCEPT !.yaml = TRUE] \in entries
          /\ [Plain EXCEPT !.manifest = NotGiven] \in entries
      BY DEF Plain, Versions, NotGiven
    <3>2. tree \in [Directories -> entries]
      <4> HIDE DEF entries
      <4> QED
        BY <2>4, <2>6, <3>1
    <3>3. listed \in [Directories -> SUBSET Directories]
      BY <2>6 DEF Below
    <3> QED
      BY <2>1, <2>3, <2>6, <3>2, <3>3 DEF ConfigTypes
  <2>7. CASE /\ NothingListed /\ NoneFrom
             /\ \E f \in [Directories -> Versions] :
                  tree = [d \in Directories |-> [Plain EXCEPT !.manifest = f[d],
                            !.regal = IF d = <<>> THEN "config" ELSE "none"]]
             /\ project \in Versions /\ versions \in [Directories -> Versions]
    <3>1. PICK f \in [Directories -> Versions] :
             tree = [d \in Directories |-> [Plain EXCEPT !.manifest = f[d],
                       !.regal = IF d = <<>> THEN "config" ELSE "none"]]
      BY <2>7
    <3>2. ASSUME NEW d \in Directories
          PROVE  [Plain EXCEPT !.manifest = f[d],
                   !.regal = IF d = <<>> THEN "config" ELSE "none"] \in entries
      <4>1. f[d] \in Versions
        BY <3>1
      <4> QED
        BY <4>1 DEF Plain
    <3>3. tree \in [Directories -> entries]
      <4> HIDE DEF entries
      <4> QED
        BY <3>1, <3>2
    <3> QED
      BY <2>1, <2>2, <2>7, <3>3 DEF ConfigTypes
  <2>8. CASE /\ NothingListed /\ NoVersions
             /\ tree = [d \in Directories |-> Plain] /\ from \in sources
    BY <2>2, <2>3, <2>4, <2>8 DEF ConfigTypes
  <2> QED
    BY <2>5, <2>6, <2>7, <2>8 DEF ConfigInit
<1>2. ConfigInv /\ [ConfigNext]_configVars => ConfigInv'
  <2> SUFFICES ASSUME ConfigInv, [ConfigNext]_configVars
               PROVE  ConfigInv'
    OBVIOUS
  <2>1. UNCHANGED <<tree, listed, project, versions, from, asked>>
    BY DEF ConfigNext, configVars, AskFind, AskRoots, AskVersion, AskCapabilities, AskLint,
           AskLintVersion, Answer
  <2>2. ConfigTypes'
    BY <2>1 DEF ConfigInv, ConfigTypes
  <2>3. \A d \in Directories :
          /\ FindConfig(d)' = FindConfig(d) /\ VersionOf(d)' = VersionOf(d)
          /\ FindBundleRootDirectories(d)' = FindBundleRootDirectories(d)
    BY <2>1 DEF FindConfig, VersionOf, FindBundleRootDirectories, RegalDirs, YamlDirs,
                Manifests, RootsOfConfig, AllRegoVersions, Manifest
  <2>4. \/ answer' = answer
        \/ asked = "Find" /\ answer' = [d \in Directories |-> FindConfig(d)]
        \/ asked = "Roots" /\ answer' = [d \in Directories |-> FindBundleRootDirectories(d)]
        \/ asked = "Version" /\ answer' = [d \in Directories |-> VersionOf(d)]
        \/ asked \in {"Lint", "LintVersion", "Capabilities"}
    BY DEF ConfigNext, configVars, AskFind, AskRoots, AskVersion, AskCapabilities, AskLint,
           AskLintVersion, Answer
  <2> QED
    BY <2>1, <2>2, <2>3, <2>4 DEF ConfigInv
<1> QED
  BY <1>1, <1>2, PTL DEF ConfigSpec

(* Look-ups leave a tree of directories that is well-formed: each has config *)
(* files and manifests of the known kinds, and roots that are directories   *)
(* (Find, FindBundleRootDirectories, AllRegoVersions only read).            *)
THEOREM ConfigsAreTyped == ConfigSpec => []ConfigTypes
<1>1. ConfigInv => ConfigTypes
  BY DEF ConfigInv
<1> QED
  BY <1>1, ConfigInvariant, PTL

(* The directory with a config file that is nearest to a path decides, and  *)
(* also when that is an error (Find), for any tree.                         *)
THEOREM NearestConfigDecides == ConfigSpec => []FindIsNearest
<1>1. ConfigInv => FindIsNearest
  <2> SUFFICES ASSUME ConfigInv, Answered("Find"), NEW d \in Directories
               PROVE  LET here == Nearest(RegalDirs(d) \union YamlDirs(d))
                      IN answer[d] =
                           IF \/ RegalDirs(d) \union YamlDirs(d) = {}
                              \/ here \in RegalDirs(d) \intersect YamlDirs(d)
                              \/ tree[here].regal = "empty"
                           THEN <<"error">>
                           ELSE <<here, IF tree[here].yaml THEN ".regal.yaml" ELSE ".regal">>
    BY DEF FindIsNearest
  <2> DEFINE R == RegalDirs(d)
             Y == YamlDirs(d)
             here == Nearest(R \union Y)
  <2>1. answer[d] = FindConfig(d)
    BY DEF ConfigInv, Answered
  <2>2. /\ R \in SUBSET Above(d) /\ Y \in SUBSET Above(d) /\ R \union Y \in SUBSET Above(d)
        /\ \A e \in Above(d) : /\ e \in R <=> tree[e].regal # "none"
                               /\ e \in Y <=> tree[e].yaml = TRUE
                               /\ tree[e].regal \in {"none", "empty", "config"}
    BY DEF RegalDirs, YamlDirs, ConfigInv, ConfigTypes, Above
  <2>3. FindConfig(d) =
          IF R = {} /\ Y = {} THEN <<"error">>
          ELSE IF R = {} \/ (Y # {} /\ Len(Nearest(Y)) > Len(Nearest(R)))
          THEN <<Nearest(Y), ".regal.yaml">>
          ELSE IF tree[Nearest(R)].regal # "config" \/ (Y # {} /\ Nearest(R) = Nearest(Y))
          THEN <<"error">> ELSE <<Nearest(R), ".regal">>
    <3> DEFINE none == <<"error">>
               nearY == <<Nearest(Y), ".regal.yaml">>
               inR == IF tree[Nearest(R)].regal = "config" THEN <<Nearest(R), ".regal">> ELSE <<"error">>
               both == IF Nearest(R) = Nearest(Y) THEN none
                       ELSE IF Len(Nearest(Y)) > Len(Nearest(R)) THEN nearY ELSE inR
    <3>1. FindConfig(d) = CASE R = {} /\ Y = {} -> none
                            [] R = {} /\ Y # {} -> nearY
                            [] R # {} /\ Y = {} -> inR
                            [] OTHER -> both
      BY DEF FindConfig
    <3>2. /\ R = {} /\ Y = {} => FindConfig(d) = none
          /\ R = {} /\ Y # {} => FindConfig(d) = nearY
          /\ R # {} /\ Y = {} => FindConfig(d) = inR
          /\ R # {} /\ Y # {} => FindConfig(d) = both
      <4> HIDE DEF R, Y, none, nearY, inR, both
      <4> QED
        BY <3>1
    <3>3. R # {} /\ Nearest(R) = Nearest(Y) => ~(Len(Nearest(Y)) > Len(Nearest(R)))
      <4>1. R # {} => Nearest(R) \in Above(d)
        BY <2>2, NearestIs
      <4>2. R # {} => Len(Nearest(R)) \in Nat
        BY <4>1, AboveIsOrdered
      <4> HIDE DEF R, Y
      <4> QED
        BY <4>2
    <3> HIDE DEF R, Y
    <3> QED
      BY <3>2, <3>3
  <2> HIDE DEF R, Y
  <2>4. CASE R = {} /\ Y = {}
    BY <2>1, <2>3, <2>4 DEF R, Y
  <2>5. ASSUME R # {}
        PROVE  Nearest(R) \in R /\ \A e \in R : Len(e) <= Len(Nearest(R))
    BY <2>2, <2>5, NearestIs
  <2>6. ASSUME Y # {}
        PROVE  Nearest(Y) \in Y /\ \A e \in Y : Len(e) <= Len(Nearest(Y))
    BY <2>2, <2>6, NearestIs
  <2>7. \A n \in R \union Y : (\A e \in R \union Y : Len(e) <= Len(n)) => here = n
    BY <2>2, NearestIs
  <2>8. \A e, f \in Above(d) : /\ Len(e) \in Nat /\ Len(f) \in Nat
                              /\ Len(e) = Len(f) => e = f
    BY AboveIsOrdered
  <2>9. CASE R = {} /\ Y # {}
    <3>1. here = Nearest(Y) /\ here \in Y /\ here \in Above(d)
      BY <2>2, <2>6, <2>7, <2>9
    <3>2. answer[d] = <<here, ".regal.yaml">>
      BY <2>1, <2>3, <2>9, <3>1
    <3>3. tree[here].yaml = TRUE /\ tree[here].regal # "empty"
      BY <2>2, <2>9, <3>1
    <3> QED
      BY <2>9, <3>2, <3>3 DEF R, Y
  <2>10. CASE R # {} /\ Y = {}
    <3>1. here = Nearest(R) /\ here \in R /\ here \in Above(d)
      BY <2>2, <2>5, <2>7, <2>10
    <3>2. answer[d] = IF tree[here].regal # "config" THEN <<"error">> ELSE <<here, ".regal">>
      BY <2>1, <2>3, <2>10, <3>1
    <3>3. tree[here].yaml # TRUE /\ tree[here].regal \in {"empty", "config"}
      BY <2>2, <2>10, <3>1
    <3> QED
      BY <2>10, <3>2, <3>3 DEF R, Y
  <2>11. CASE R # {} /\ Y # {}
    <3> DEFINE r == Nearest(R)
               y == Nearest(Y)
    <3>1. /\ r \in R /\ r \in Above(d) /\ \A e \in R : Len(e) <= Len(r)
          /\ y \in Y /\ y \in Above(d) /\ \A e \in Y : Len(e) <= Len(y)
      BY <2>2, <2>5, <2>6, <2>11
    <3>2. answer[d] = IF Len(y) > Len(r) THEN <<y, ".regal.yaml">>
                      ELSE IF tree[r].regal # "config" \/ r = y
                      THEN <<"error">> ELSE <<r, ".regal">>
      BY <2>1, <2>3, <2>11
    <3> HIDE DEF r, y, here
    <3>3. \A e \in R \union Y : Len(e) \in Nat
      BY <2>2, <2>8
    <3>4. CASE Len(y) > Len(r)
      <4>1. here = y
        <5>1. \A e \in R \union Y : Len(e) <= Len(y)
          BY <2>8, <3>1, <3>3, <3>4
        <5> QED
          BY <2>7, <3>1, <5>1
      <4>2. y \notin R
        BY <2>8, <3>1, <3>4
      <4>3. tree[y].yaml = TRUE /\ tree[y].regal = "none"
        BY <2>2, <3>1, <4>2
      <4> QED
        BY <2>11, <3>2, <3>4, <4>1, <4>2, <4>3 DEF R, Y, here
    <3>5. CASE Len(r) > Len(y)
      <4>1. here = r
        <5>1. \A e \in R \union Y : Len(e) <= Len(r)
          BY <2>8, <3>1, <3>3, <3>5
        <5> QED
          BY <2>7, <3>1, <5>1
      <4>2. r \notin Y
        BY <2>8, <3>1, <3>5
      <4>3. tree[r].yaml # TRUE /\ tree[r].regal \in {"empty", "config"}
        BY <2>2, <3>1, <4>2
      <4>4. answer[d] = IF tree[r].regal # "config" THEN <<"error">> ELSE <<r, ".regal">>
        BY <2>8, <3>1, <3>2, <3>5, <4>2
      <4> QED
        BY <2>11, <4>1, <4>2, <4>3, <4>4 DEF R, Y, here
    <3>6. CASE Len(r) = Len(y)
      <4>1. r = y
        BY <2>8, <3>1, <3>6
      <4>2. here = r
        <5>1. \A e \in R \union Y : Len(e) <= Len(r)
          BY <2>8, <3>1, <3>3, <3>6
        <5> QED
          BY <2>7, <3>1, <5>1
      <4>3. answer[d] = <<"error">>
        BY <2>8, <3>1, <3>2, <3>6, <4>1
      <4> QED
        BY <3>1, <4>1, <4>2, <4>3 DEF R, Y, here
    <3> QED
      BY <2>8, <3>1, <3>4, <3>5, <3>6
  <2> QED
    BY <2>4, <2>9, <2>10, <2>11
<1> QED
  BY <1>1, ConfigInvariant, PTL

\* A manifest below a directory is found from every directory above that one.
LEMMA ManifestsAreBelow ==
  ASSUME NEW d \in Directories, NEW parent \in Above(d)
  PROVE  Manifests(d) \subseteq RootsOfConfig(parent)
<1> SUFFICES ASSUME NEW r \in Manifests(d)
             PROVE  r \in Manifests(parent)
  BY DEF RootsOfConfig
<1>1. r \in Directories /\ d \in Above(r) /\ tree[r].manifest # "none"
  BY DEF Manifests, Below, Above
<1>2. parent \in Above(r)
  BY <1>1, AboveIsTransitive
<1> QED
  BY <1>1, <1>2 DEF Manifests, Below, Above

(* Where a config file applies, the walk down from a path adds no root to   *)
(* those found from the config: the roots do not depend on where one asks.  *)
THEOREM RootsAreOfTheConfig == ConfigSpec => []RootIsOfTheFile
<1>1. ConfigInv => RootIsOfTheFile
  <2> SUFFICES ASSUME ConfigInv, Answered("Roots"),
                      NEW d \in Directories, NEW e \in Below(d),
                      RegalDirs(d) = RegalDirs(e), YamlDirs(d) = YamlDirs(e),
                      RegalDirs(d) \union YamlDirs(d) # {}
               PROVE  answer[d] = answer[e]
    BY DEF RootIsOfTheFile
  <2>1. e \in Directories /\ d \in Above(e)
    BY DEF Below, Above
  <2>2. /\ answer[d] = FindBundleRootDirectories(d)
        /\ answer[e] = FindBundleRootDirectories(e)
    BY <2>1 DEF ConfigInv, Answered
  <2>3. /\ RegalDirs(d) \in SUBSET Above(d) /\ YamlDirs(d) \in SUBSET Above(d)
        /\ RegalDirs(e) \in SUBSET Above(e) /\ YamlDirs(e) \in SUBSET Above(e)
    BY DEF RegalDirs, YamlDirs
  <2>4. CASE RegalDirs(d) # {}
    <3>1. Nearest(RegalDirs(d)) \in Above(d) /\ Nearest(RegalDirs(d)) \in Above(e)
      BY <2>1, <2>3, <2>4, NearestIs
    <3>2. /\ Manifests(d) \subseteq RootsOfConfig(Nearest(RegalDirs(d)))
          /\ Manifests(e) \subseteq RootsOfConfig(Nearest(RegalDirs(d)))
      BY <2>1, <3>1, ManifestsAreBelow
    <3> QED
      BY <2>2, <2>4, <3>2 DEF FindBundleRootDirectories
  <2>5. CASE YamlDirs(d) # {}
    <3>1. Nearest(YamlDirs(d)) \in Above(d) /\ Nearest(YamlDirs(d)) \in Above(e)
      BY <2>1, <2>3, <2>5, NearestIs
    <3>2. /\ Manifests(d) \subseteq RootsOfConfig(Nearest(YamlDirs(d)))
          /\ Manifests(e) \subseteq RootsOfConfig(Nearest(YamlDirs(d)))
      BY <2>1, <3>1, ManifestsAreBelow
    <3> QED
      BY <2>2, <2>5, <3>2 DEF FindBundleRootDirectories
  <2> QED
    BY <2>4, <2>5
<1> QED
  BY <1>1, ConfigInvariant, PTL

-----------------------------------------------------------------------------
(* The Rego version of a file.                                              *)

GivenTo(e) == IF versions[e] # NotGiven THEN versions[e] ELSE tree[e].manifest
Gives(e) == GivenTo(e) \notin {"none", NotGiven}
Giving(d) == {e \in Directories \ {<<>>} : IsPrefix(e, d) /\ Gives(e)}

KeyOf(e) == Key(e, Len(e), GivenTo(e))
KeyOfManifest == Key(<<>>, 1, tree[<<>>].manifest)
KeyOfProject == Key(<<>>, 0, project)

Fitting(d) ==
  {k \in AllRegoVersions(Manifest) : IsPrefix(<<"/">> \o k.dir, <<"/">> \o d)}

\* Both paths begin with a slash.
LEMMA SlashesDoNotMatter ==
  ASSUME NEW s \in Seq(Characters), NEW t \in Seq(Characters)
  PROVE  IsPrefix(<<"/">> \o s, <<"/">> \o t) <=> IsPrefix(s, t)
<1> DEFINE slash == <<"/">>
           u == slash \o s
           v == slash \o t
<1>1. /\ Len(s) \in Nat /\ Len(t) \in Nat
      /\ slash \in Seq(Characters) /\ Len(slash) = 1
  <2>1. "/" \in Characters
    BY DirectoriesAreSequences
  <2>2. slash \in Seq(Characters)
    BY <2>1
  <2>3. Len(slash) = 1
    OBVIOUS
  <2>4. Len(s) \in Nat /\ Len(t) \in Nat
    BY LenProperties
  <2> QED
    BY <2>2, <2>3, <2>4
<1> HIDE DEF slash
<1>2. /\ u \in Seq(Characters) /\ Len(u) = 1 + Len(s)
      /\ \A i \in 1..1 + Len(s) : u[i] = IF i <= 1 THEN slash[i] ELSE s[i - 1]
  <2>1. /\ u \in Seq(Characters) /\ Len(u) = Len(slash) + Len(s)
        /\ \A i \in 1..Len(slash) + Len(s) :
             u[i] = IF i <= Len(slash) THEN slash[i] ELSE s[i - Len(slash)]
    BY <1>1, ConcatProperties
  <2> QED
    BY <1>1, <2>1
<1>3. /\ v \in Seq(Characters) /\ Len(v) = 1 + Len(t)
      /\ \A i \in 1..1 + Len(t) : v[i] = IF i <= 1 THEN slash[i] ELSE t[i - 1]
  <2>1. /\ v \in Seq(Characters) /\ Len(v) = Len(slash) + Len(t)
        /\ \A i \in 1..Len(slash) + Len(t) :
             v[i] = IF i <= Len(slash) THEN slash[i] ELSE t[i - Len(slash)]
    BY <1>1, ConcatProperties
  <2> QED
    BY <1>1, <2>1
<1> HIDE DEF u, v
<1>4. IsPrefix(u, v) <=> Len(u) <= Len(v) /\ \A i \in 1..Len(u) : u[i] = v[i]
  BY <1>2, <1>3, PrefixIs
<1>5. ASSUME Len(s) <= Len(t)
      PROVE  (\A i \in 1..Len(u) : u[i] = v[i]) <=> \A i \in 1..Len(s) : s[i] = t[i]
  <2>1. ASSUME \A i \in 1..Len(u) : u[i] = v[i], NEW i \in 1..Len(s)
        PROVE  s[i] = t[i]
    <3>1. i + 1 \in 1..Len(u) /\ i + 1 \in 1..1 + Len(t) /\ (i + 1) - 1 = i /\ ~(i + 1 <= 1)
      BY <1>1, <1>2, <1>5
    <3>2. u[i + 1] = s[i] /\ v[i + 1] = t[i]
      BY <1>2, <1>3, <3>1
    <3> QED
      BY <2>1, <3>1, <3>2
  <2>2. ASSUME \A i \in 1..Len(s) : s[i] = t[i], NEW i \in 1..Len(u)
        PROVE  u[i] = v[i]
    <3>1. CASE i = 1
      BY <1>1, <1>2, <1>3, <3>1
    <3>2. CASE i # 1
      <4>1. i - 1 \in 1..Len(s) /\ i \in 1..1 + Len(t) /\ ~(i <= 1)
        BY <1>1, <1>2, <1>5, <3>2
      <4> QED
        BY <1>2, <1>3, <2>2, <4>1
    <3> QED
      BY <3>1, <3>2
  <2> QED
    BY <2>1, <2>2
<1>6. IsPrefix(s, t) <=> Len(s) <= Len(t) /\ \A i \in 1..Len(s) : s[i] = t[i]
  BY PrefixIs
<1>7. Len(u) <= Len(v) <=> Len(s) <= Len(t)
  BY <1>1, <1>2, <1>3
<1> QED
  BY <1>4, <1>5, <1>6, <1>7 DEF u, v, slash

\* The keys that a path starts with are those of the directories that it starts
\* with and that are given a version, and those of the workspace.
LEMMA FittingIs ==
  ASSUME ConfigTypes, NEW d \in Directories
  PROVE  /\ \A k \in Fitting(d) :
              \/ \E e \in Giving(d) : k = KeyOf(e)
              \/ k = KeyOfManifest /\ tree[<<>>].manifest \notin {"none", NotGiven}
              \/ k = KeyOfProject /\ project \notin {"none", NotGiven}
         /\ \A e \in Giving(d) : KeyOf(e) \in Fitting(d)
         /\ tree[<<>>].manifest \notin {"none", NotGiven} => KeyOfManifest \in Fitting(d)
         /\ project \notin {"none", NotGiven} => KeyOfProject \in Fitting(d)
<1> DEFINE byConfig == {e \in Directories \ {<<>>} : versions[e] \notin {"none", NotGiven}}
           byManifest == {e \in Directories \ {<<>>} : Manifest[e] \notin {"none", NotGiven}}
<1>1. AllRegoVersions(Manifest) =
        {Key(e, Len(e), versions[e]) : e \in byConfig} \union
        {Key(e, Len(e), Manifest[e]) : e \in byManifest \ byConfig} \union
        {Key(<<>>, 1, v) : v \in {Manifest[<<>>]} \ {"none", NotGiven}} \union
        {Key(<<>>, 0, v) : v \in {project} \ {NotGiven}}
  BY DEF AllRegoVersions
<1>2. /\ \A e \in Directories : /\ Manifest[e] = tree[e].manifest
                               /\ versions[e] \in {"v0", "v1", NotGiven}
      /\ project \in {"v0", "v1", NotGiven} /\ <<>> \in Directories
  BY DirectoriesAreSequences DEF Manifest, ConfigTypes, Versions
<1>3. NotGiven \notin {"none", "v0", "v1"}
  BY DEF NotGiven
<1>4. \A e \in Directories : IsPrefix(<<"/">> \o e, <<"/">> \o d) <=> IsPrefix(e, d)
  BY DirectoriesAreSequences, SlashesDoNotMatter
<1>5. \A e \in Directories \ {<<>>} :
        /\ e \in byConfig => GivenTo(e) = versions[e] /\ Gives(e)
        /\ e \in byManifest \ byConfig => GivenTo(e) = Manifest[e] /\ Gives(e)
        /\ Gives(e) => e \in byConfig \union byManifest
  BY <1>2, <1>3 DEF Gives, GivenTo
<1>6. \A e, n, v : Key(e, n, v).dir = e
  BY DEF Key
<1>7. \A e \in byConfig \union byManifest : e \in Directories \ {<<>>}
  BY DEF byConfig, byManifest
<1> HIDE DEF byConfig, byManifest
<1>8. ASSUME NEW k \in Fitting(d)
      PROVE  \/ \E e \in Giving(d) : k = KeyOf(e)
             \/ k = KeyOfManifest /\ tree[<<>>].manifest \notin {"none", NotGiven}
             \/ k = KeyOfProject /\ project \notin {"none", NotGiven}
  <2>1. k \in AllRegoVersions(Manifest) /\ IsPrefix(<<"/">> \o k.dir, <<"/">> \o d)
    BY DEF Fitting
  <2>2. ASSUME NEW e \in byConfig \union byManifest, k.dir = e, k = KeyOf(e)
        PROVE  \E f \in Giving(d) : k = KeyOf(f)
    <3>1. e \in Directories \ {<<>>} /\ IsPrefix(e, d)
      BY <1>4, <1>7, <2>1, <2>2
    <3>2. Gives(e)
      BY <1>5, <1>7, <2>2
    <3> QED
      BY <2>2, <3>1, <3>2 DEF Giving
  <2>3. CASE \E e \in byConfig : k = Key(e, Len(e), versions[e])
    <3>1. PICK e \in byConfig : k = Key(e, Len(e), versions[e])
      BY <2>3
    <3>2. k = KeyOf(e) /\ k.dir = e
      BY <1>5, <1>6, <1>7, <3>1 DEF KeyOf
    <3> QED
      BY <2>2, <3>2
  <2>4. CASE \E e \in byManifest \ byConfig : k = Key(e, Len(e), Manifest[e])
    <3>1. PICK e \in byManifest \ byConfig : k = Key(e, Len(e), Manifest[e])
      BY <2>4
    <3>2. k = KeyOf(e) /\ k.dir = e
      BY <1>5, <1>6, <1>7, <3>1 DEF KeyOf
    <3> QED
      BY <2>2, <3>2
  <2>5. CASE \E v \in {Manifest[<<>>]} \ {"none", NotGiven} : k = Key(<<>>, 1, v)
    BY <1>2, <2>5 DEF KeyOfManifest
  <2>6. CASE \E v \in {project} \ {NotGiven} : k = Key(<<>>, 0, v)
    BY <1>2, <1>3, <2>6 DEF KeyOfProject
  <2> QED
    BY <1>1, <2>1, <2>3, <2>4, <2>5, <2>6
<1>9. ASSUME NEW e \in Giving(d)
      PROVE  KeyOf(e) \in Fitting(d)
  <2>1. /\ e \in Directories \ {<<>>} /\ e \in byConfig \union byManifest
        /\ IsPrefix(<<"/">> \o e, <<"/">> \o d)
    BY <1>4, <1>5 DEF Giving
  <2>2. CASE e \in byConfig
    <3>1. KeyOf(e) = Key(e, Len(e), versions[e])
      BY <1>5, <2>1, <2>2 DEF KeyOf
    <3> QED
      BY <1>1, <1>6, <2>1, <2>2, <3>1 DEF Fitting
  <2>3. CASE e \in byManifest \ byConfig
    <3>1. KeyOf(e) = Key(e, Len(e), Manifest[e])
      BY <1>5, <2>1, <2>3 DEF KeyOf
    <3> QED
      BY <1>1, <1>6, <2>1, <2>3, <3>1 DEF Fitting
  <2> QED
    BY <2>1, <2>2, <2>3
<1>10. IsPrefix(<<"/">> \o <<>>, <<"/">> \o d)
  BY <1>2, <1>4, DirectoriesAreSequences, RootStarts
<1>11. tree[<<>>].manifest \notin {"none", NotGiven} => KeyOfManifest \in Fitting(d)
  <2>1. Manifest[<<>>] = tree[<<>>].manifest
    BY <1>2
  <2>2. tree[<<>>].manifest \notin {"none", NotGiven} => KeyOfManifest \in AllRegoVersions(Manifest)
    BY <1>1, <2>1 DEF KeyOfManifest
  <2> QED
    BY <1>6, <1>10, <2>2 DEF KeyOfManifest, Fitting
<1>12. project \notin {"none", NotGiven} => KeyOfProject \in Fitting(d)
  BY <1>1, <1>6, <1>10 DEF KeyOfProject, Fitting
<1> QED
  BY <1>8, <1>9, <1>11, <1>12

\* Of the keys that a path starts with, the longest is that of a directory; only
\* the key of the workspace's manifest can be as long.
LEMMA LongestKeyIs ==
  ASSUME ConfigTypes, NEW d \in Directories, Giving(d) # {}
  PROVE  LET n == Nearest(Giving(d))
         IN {k \in Fitting(d) : \A l \in Fitting(d) : Longer(k, l)} =
              {KeyOf(n)} \union
              IF Len(n) = 1 /\ tree[<<>>].manifest \notin {"none", NotGiven}
              THEN {KeyOfManifest} ELSE {}
<1> DEFINE n == Nearest(Giving(d))
           given == tree[<<>>].manifest \notin {"none", NotGiven}
<1>1. Giving(d) \in SUBSET Starting(d)
  BY DEF Giving, Starting
<1>2. n \in Giving(d) /\ \A e \in Giving(d) : Len(e) <= Len(n)
  BY <1>1, LongestIs
<1>3. \A e \in Giving(d) :
        /\ Len(e) \in Nat /\ Len(e) >= 1 /\ Len(n) \in Nat /\ Len(n) >= 1
        /\ Len(e) = Len(n) => e = n
  <2> SUFFICES ASSUME NEW e \in Giving(d)
               PROVE  Len(e) \in Nat /\ Len(e) >= 1 /\ (Len(e) = Len(n) => e = n)
    BY <1>2
  <2>1. e \in Seq(Characters) /\ e # <<>>
    BY DirectoriesAreSequences DEF Giving
  <2>2. Len(e) \in Nat \ {0}
    BY <2>1, EmptySeq
  <2>3. e \in Starting(d) /\ n \in Starting(d)
    BY <1>1, <1>2
  <2> QED
    BY <2>2, <2>3, StartingIsOrdered
<1> HIDE DEF n
<1>4. /\ \A e : KeyOf(e).length = Len(e)
      /\ KeyOfManifest.length = 1 /\ KeyOfProject.length = 0
  BY DEF KeyOf, KeyOfManifest, KeyOfProject, Key
<1>5. /\ \A k \in Fitting(d) :
           \/ \E e \in Giving(d) : k = KeyOf(e)
           \/ k = KeyOfManifest /\ given
           \/ k = KeyOfProject
      /\ \A e \in Giving(d) : KeyOf(e) \in Fitting(d)
      /\ given => KeyOfManifest \in Fitting(d)
  BY FittingIs
<1> HIDE DEF given
<1>6. ASSUME NEW l \in Fitting(d)
      PROVE  l.length \in Nat /\ l.length <= Len(n)
  <2>1. CASE \E e \in Giving(d) : l = KeyOf(e)
    <3>1. PICK e \in Giving(d) : l = KeyOf(e)
      BY <2>1
    <3>2. l.length = Len(e)
      BY <1>4, <3>1
    <3> QED
      BY <1>2, <1>3, <3>2
  <2>2. CASE l = KeyOfManifest \/ l = KeyOfProject
    <3>1. l.length = 0 \/ l.length = 1
      BY <1>4, <2>2
    <3> QED
      BY <1>2, <1>3, <3>1
  <2> QED
    BY <1>5, <2>1, <2>2
<1>7. ASSUME NEW k \in Fitting(d), \A l \in Fitting(d) : Longer(k, l)
      PROVE  k = KeyOf(n) \/ (k = KeyOfManifest /\ given /\ Len(n) = 1)
  <2>1. KeyOf(n) \in Fitting(d) /\ KeyOf(n).length = Len(n) /\ Len(n) \in Nat /\ Len(n) >= 1
    BY <1>2, <1>3, <1>4, <1>5
  <2>2. k.length = Len(n)
    <3>1. k.length >= KeyOf(n).length
      BY <1>7, <2>1 DEF Longer
    <3> QED
      BY <1>6, <2>1, <3>1
  <2>3. CASE \E e \in Giving(d) : k = KeyOf(e)
    <3>1. PICK e \in Giving(d) : k = KeyOf(e)
      BY <2>3
    <3>2. k.length = Len(e)
      BY <1>4, <3>1
    <3> QED
      BY <1>3, <2>2, <3>1, <3>2
  <2>4. CASE k = KeyOfManifest /\ given
    BY <1>4, <2>2, <2>4
  <2>5. CASE k = KeyOfProject
    BY <1>4, <2>1, <2>2, <2>5
  <2> QED
    BY <1>5, <2>3, <2>4, <2>5
<1>8. \A l \in Fitting(d) : Longer(KeyOf(n), l) /\ (Len(n) = 1 => Longer(KeyOfManifest, l))
  BY <1>3, <1>2, <1>4, <1>6 DEF Longer
<1>9. KeyOf(n) \in Fitting(d) /\ (given => KeyOfManifest \in Fitting(d))
  BY <1>2, <1>5
<1>10. {k \in Fitting(d) : \A l \in Fitting(d) : Longer(k, l)} =
         {KeyOf(n)} \union IF Len(n) = 1 /\ given THEN {KeyOfManifest} ELSE {}
  BY <1>7, <1>8, <1>9
<1> QED
  BY <1>10 DEF n, given

\* Without a directory that is given a version, the manifest's key is longest.
LEMMA WorkspaceKeyIs ==
  ASSUME ConfigTypes, NEW d \in Directories, Giving(d) = {}
  PROVE  {k \in Fitting(d) : \A l \in Fitting(d) : Longer(k, l)} =
           IF tree[<<>>].manifest \notin {"none", NotGiven} THEN {KeyOfManifest}
           ELSE IF project \notin {"none", NotGiven} THEN {KeyOfProject} ELSE {}
<1> DEFINE longest == {k \in Fitting(d) : \A l \in Fitting(d) : Longer(k, l)}
           given == tree[<<>>].manifest \notin {"none", NotGiven}
           set == project \notin {"none", NotGiven}
<1>1. KeyOfManifest.length = 1 /\ KeyOfProject.length = 0
  BY DEF KeyOfManifest, KeyOfProject, Key
<1>2. /\ \A k \in Fitting(d) : (k = KeyOfManifest /\ given) \/ (k = KeyOfProject /\ set)
      /\ given => KeyOfManifest \in Fitting(d)
      /\ set => KeyOfProject \in Fitting(d)
  BY FittingIs
<1> HIDE DEF given, set
<1>3. CASE given
  <2>1. \A l \in Fitting(d) : Longer(KeyOfManifest, l)
    BY <1>1, <1>2 DEF Longer
  <2>2. KeyOfManifest \in Fitting(d) /\ ~Longer(KeyOfProject, KeyOfManifest)
    BY <1>1, <1>2, <1>3 DEF Longer
  <2>3. longest = {KeyOfManifest}
    BY <1>2, <2>1, <2>2
  <2> QED
    BY <1>3, <2>3 DEF given
<1>4. CASE ~given /\ set
  <2>1. \A k \in Fitting(d) : k = KeyOfProject
    BY <1>2, <1>4
  <2>2. Longer(KeyOfProject, KeyOfProject)
    BY <1>1 DEF Longer
  <2>3. longest = {KeyOfProject}
    BY <1>2, <1>4, <2>1, <2>2
  <2> QED
    BY <1>4, <2>3 DEF given, set
<1>5. CASE ~given /\ ~set
  BY <1>2, <1>5 DEF given, set
<1> QED
  BY <1>3, <1>4, <1>5

(* The longest key that a path starts with is the one of the nearest        *)
(* directory, where nothing that is longer only looks like one above it;    *)
(* whatever manifests and whatever roots in the config give versions.       *)
THEOREM VersionIsNearest == ConfigSpec => []VersionIsOfNearest
<1>1. ConfigInv => VersionIsOfNearest
  <2> SUFFICES ASSUME ConfigInv, Answered("Version"), NEW d \in Directories
               PROVE  LET nearest == Nearest({e \in Above(d) \ {<<>>} : Gives(e)})
                          manifest == {tree[<<>>].manifest} \ {"none", NotGiven}
                      IN IF Giving(d) = {}
                         THEN answer[d] = IF manifest # {} THEN manifest ELSE {project}
                         ELSE Nearest(Giving(d)) \in Above(d) =>
                                answer[d] = {GivenTo(nearest)} \union
                                            IF Len(nearest) = 1 THEN manifest ELSE {}
    BY DEF VersionIsOfNearest, Giving, Gives, GivenTo
  <2> DEFINE longest == {k \in Fitting(d) : \A l \in Fitting(d) : Longer(k, l)}
             manifest == {tree[<<>>].manifest} \ {"none", NotGiven}
             n == Nearest(Giving(d))
             above == {e \in Above(d) \ {<<>>} : Gives(e)}
  <2>1. answer[d] = IF Fitting(d) = {} THEN {NotGiven} ELSE {k.version : k \in longest}
    <3>1. answer[d] = VersionOf(d)
      BY DEF ConfigInv, Answered
    <3>2. VersionOf(d) = IF Fitting(d) = {} THEN {NotGiven} ELSE {k.version : k \in longest}
      BY DEF VersionOf, RegoVersionFromMap, Fitting
    <3> QED
      BY <3>1, <3>2
  <2>2. /\ \A e : KeyOf(e).version = GivenTo(e)
        /\ KeyOfManifest.version = tree[<<>>].manifest
        /\ KeyOfProject.version = project
    BY DEF KeyOf, KeyOfManifest, KeyOfProject, Key
  <2>3. ConfigTypes
    BY DEF ConfigInv
  <2>4. CASE Giving(d) # {}
    <3>1. longest = {KeyOf(n)} \union IF Len(n) = 1 /\ manifest # {} THEN {KeyOfManifest} ELSE {}
      BY <2>3, <2>4, LongestKeyIs
    <3>2. answer[d] = {GivenTo(n)} \union IF Len(n) = 1 THEN manifest ELSE {}
      <4>1. KeyOf(n) \in Fitting(d)
        BY <3>1
      <4>2. {k.version : k \in longest} = {GivenTo(n)} \union IF Len(n) = 1 THEN manifest ELSE {}
        BY <2>2, <3>1
      <4> QED
        BY <2>1, <4>1, <4>2
    <3>3. ASSUME n \in Above(d)
          PROVE  Nearest(above) = n
      <4>1. Giving(d) \in SUBSET Starting(d)
        BY DEF Giving, Starting
      <4>2. n \in Giving(d) /\ \A e \in Giving(d) : Len(e) <= Len(n)
        BY <2>4, <4>1, LongestIs
      <4>3. above \subseteq Giving(d) /\ n \in above
        BY <3>3, <4>2, AboveStarts DEF Giving, Starting
      <4>4. above \in SUBSET Above(d) /\ above # {}
        BY <4>3
      <4> HIDE DEF n, above
      <4> QED
        BY <4>2, <4>3, <4>4, NearestIs
    <3> QED
      BY <2>4, <3>2, <3>3
  <2>5. CASE Giving(d) = {}
    <3>1. longest = IF manifest # {} THEN {KeyOfManifest}
                    ELSE IF project \notin {"none", NotGiven} THEN {KeyOfProject} ELSE {}
      BY <2>3, <2>5, WorkspaceKeyIs
    <3>2. CASE manifest # {}
      <4>1. KeyOfManifest \in Fitting(d) /\ {k.version : k \in longest} = manifest
        BY <2>2, <3>1, <3>2
      <4> QED
        BY <2>1, <2>5, <3>2, <4>1
    <3>3. CASE manifest = {} /\ project \notin {"none", NotGiven}
      <4>1. KeyOfProject \in Fitting(d) /\ {k.version : k \in longest} = {project}
        BY <2>2, <3>1, <3>3
      <4> QED
        BY <2>1, <2>5, <3>3, <4>1
    <3>4. CASE manifest = {} /\ project \in {"none", NotGiven}
      <4>1. Fitting(d) = {}
        BY <2>3, <2>5, <3>4, FittingIs
      <4>2. project = NotGiven
        BY <2>3, <3>4 DEF ConfigTypes, Versions
      <4> QED
        BY <2>1, <2>5, <3>4, <4>1, <4>2
    <3> QED
      BY <3>2, <3>3, <3>4
  <2> QED
    BY <2>4, <2>5
<1> QED
  BY <1>1, ConfigInvariant, PTL
=============================================================================
