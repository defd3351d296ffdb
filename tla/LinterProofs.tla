---------------------------- MODULE LinterProofs ----------------------------
(* Proofs about Linter, for any finite set of files, whichever of them parse*)
(* and any number of calls of the builder methods.                          *)
EXTENDS Linter, FiniteSetTheorems, SequenceTheorems, TLAPS

(* Every set of natural numbers that is not empty has a least element: the  *)
(* inductions below are by a least counterexample.                          *)
LEMMA LeastElement ==
  ASSUME NEW T \in SUBSET Nat, T # {}
  PROVE  \E x \in T : \A y \in T : x <= y
<1>1. PICK x \in T : \A y \in T : <<y, x>> \notin OpToRel(<, Nat)
  BY NatLessThanWellFounded, WFMin
<1>2. \A y \in T : ~(y < x)
  BY <1>1 DEF OpToRel
<1> QED
  BY <1>2

-----------------------------------------------------------------------------
(* The operators on sets and sequences.                                     *)

Ordered(s, S) ==
  /\ s \in [1..Cardinality(S) -> S]
  /\ \A i, j \in DOMAIN s : i < j => s[i] < s[j]

(* Files can be put in order: a least file first, then the others.          *)
LEMMA OrderExists ==
  ASSUME NEW S \in SUBSET Nat, IsFiniteSet(S)
  PROVE  \E s : Ordered(s, S)
<1> DEFINE Fails(n) == \E T \in SUBSET Nat : /\ IsFiniteSet(T) /\ Cardinality(T) = n
                                             /\ \A s : ~Ordered(s, T)
           Bad == {n \in Nat : Fails(n)}
<1>1. SUFFICES ASSUME Bad # {}
               PROVE  FALSE
  <2>1. Cardinality(S) \in Nat
    BY FS_CardinalityType
  <2> QED
    BY <2>1
<1>2. PICK n \in Bad : \A m \in Bad : n <= m
  <2>1. Bad \in SUBSET Nat
    OBVIOUS
  <2> HIDE DEF Bad
  <2> QED
    BY <1>1, <2>1, LeastElement
<1>3. PICK T \in SUBSET Nat : /\ IsFiniteSet(T) /\ Cardinality(T) = n
                              /\ \A s : ~Ordered(s, T)
  BY <1>2
<1>4. CASE T = {}
  <2>1. Cardinality(T) = 0
    BY <1>4, FS_EmptySet
  <2>2. Ordered([i \in 1..0 |-> 0], T)
    BY <1>4, <2>1 DEF Ordered
  <2> QED
    BY <1>3, <2>2
<1>5. CASE T # {}
  <2>1. PICK x \in T : \A y \in T : x <= y
    BY <1>5, LeastElement
  <2> DEFINE U == T \ {x}
  <2>2. IsFiniteSet(U) /\ Cardinality(U) = n - 1 /\ n - 1 \in Nat
    <3>1. IsFiniteSet(U) /\ Cardinality(U) = Cardinality(T) - 1
      BY <1>3, <2>1, FS_RemoveElement
    <3>2. Cardinality(U) \in Nat
      BY <3>1, FS_CardinalityType
    <3> QED
      BY <1>3, <3>1, <3>2
  <2>3. U \in SUBSET Nat
    OBVIOUS
  <2>4. n - 1 \notin Bad
    BY <1>2, <2>2
  <2>5. PICK s : Ordered(s, U)
    BY <2>2, <2>3, <2>4
  <2> DEFINE t == [i \in 1..n |-> IF i = 1 THEN x ELSE s[i - 1]]
  <2>6. s \in [1..n - 1 -> U] /\ \A i, j \in 1..n - 1 : i < j => s[i] < s[j]
    BY <2>2, <2>5 DEF Ordered
  <2>7. \A i \in 1..n : i = 1 \/ (i - 1 \in 1..n - 1 /\ s[i - 1] \in U)
    BY <2>2, <2>6
  <2>8. \A y \in U : x < y
    BY <2>1
  <2>9. t \in [1..n -> T]
    BY <2>7
  <2>10. \A i, j \in 1..n : i < j => t[i] < t[j]
    <3> SUFFICES ASSUME NEW i \in 1..n, NEW j \in 1..n, i < j
                 PROVE  t[i] < t[j]
      OBVIOUS
    <3>1. j # 1 /\ t[j] = s[j - 1] /\ j - 1 \in 1..n - 1 /\ s[j - 1] \in U
      BY <2>7
    <3>2. CASE i = 1
      BY <2>8, <3>1, <3>2
    <3>3. CASE i # 1
      <4>1. t[i] = s[i - 1] /\ i - 1 \in 1..n - 1 /\ i - 1 < j - 1
        BY <2>7, <3>3
      <4> QED
        BY <2>6, <3>1, <4>1
    <3> QED
      BY <3>2, <3>3
  <2>11. Ordered(t, T)
    <3> HIDE DEF t
    <3> QED
      BY <1>3, <2>9, <2>10 DEF Ordered
  <2> QED
    BY <1>3, <2>11
<1> QED
  BY <1>4, <1>5

(* Sorted (sort.Strings of the file names) lists the files of a set, each   *)
(* before the larger ones.                                                  *)
LEMMA SortedIsOrdered ==
  ASSUME NEW S \in SUBSET Nat, IsFiniteSet(S)
  PROVE  /\ Ordered(Sorted(S), S)
         /\ Sorted(S) \in Seq(S) /\ Len(Sorted(S)) = Cardinality(S)
<1>1. \E s \in [1..Cardinality(S) -> S] : \A i, j \in DOMAIN s : i < j => s[i] < s[j]
  BY OrderExists DEF Ordered
<1>2. /\ Sorted(S) \in [1..Cardinality(S) -> S]
      /\ \A i, j \in DOMAIN Sorted(S) : i < j => Sorted(S)[i] < Sorted(S)[j]
  BY <1>1 DEF Sorted
<1>3. Cardinality(S) \in Nat
  BY FS_CardinalityType
<1> HIDE DEF Sorted
<1> QED
  BY <1>2, <1>3 DEF Ordered

(* The violations of files that have one each, joined in their order.       *)
LEMMA FlattenSingletons ==
  ASSUME NEW n \in Nat, NEW e
  PROVE  FlattenSeq([i \in 1..n |-> <<e[i]>>]) = [i \in 1..n |-> e[i]]
<1> DEFINE ss == [i \in 1..n |-> <<e[i]>>]
           Flat(g) == g = [i \in 1..Len(ss) |-> IF i = 1 THEN ss[i] ELSE g[i - 1] \o ss[i]]
           h == [i \in 1..n |-> [j \in 1..i |-> e[j]]]
<1>1. Len(ss) = n /\ DOMAIN ss = 1..n
  OBVIOUS
<1>2. CASE n = 0
  <2>1. FlattenSeq(ss) = ss
    BY <1>1, <1>2 DEF FlattenSeq
  <2> QED
    BY <1>2, <2>1
<1>3. CASE n # 0
  <2>1. Flat(h)
    <3>1. ASSUME NEW i \in 1..n
          PROVE  h[i] = IF i = 1 THEN ss[i] ELSE h[i - 1] \o ss[i]
      <4>1. CASE i = 1
        BY <4>1
      <4>2. CASE i # 1
        <5>1. i - 1 \in 1..n /\ h[i - 1] = [j \in 1..i - 1 |-> e[j]] /\ h[i] = [j \in 1..i |-> e[j]]
          BY <4>2
        <5>2. ss[i] = <<e[i]>>
          OBVIOUS
        <5>3. [j \in 1..i - 1 |-> e[j]] \o <<e[i]>> = [j \in 1..i |-> e[j]]
          OBVIOUS
        <5> QED
          BY <4>2, <5>1, <5>2, <5>3
      <4> QED
        BY <4>1, <4>2
    <3>2. h = [i \in 1..n |-> h[i]]
      OBVIOUS
    <3> HIDE DEF h, ss
    <3> QED
      BY <1>1, <3>1, <3>2
  <2>2. ASSUME NEW g, Flat(g)
        PROVE  g[n] = h[n]
    <3> DEFINE Differ == {i \in 1..n : g[i] # h[i]}
    <3>1. SUFFICES ASSUME Differ # {}
                   PROVE  FALSE
      <4>1. n \in 1..n
        BY <1>3
      <4> HIDE DEF h
      <4> QED
        BY <4>1
    <3>2. PICK i \in Differ : \A j \in Differ : i <= j
      <4>1. Differ \in SUBSET Nat
        OBVIOUS
      <4> HIDE DEF Differ
      <4> QED
        BY <3>1, <4>1, LeastElement
    <3>3. /\ g[i] = IF i = 1 THEN ss[i] ELSE g[i - 1] \o ss[i]
          /\ h[i] = IF i = 1 THEN ss[i] ELSE h[i - 1] \o ss[i]
      <4> HIDE DEF ss, h
      <4>1. i \in 1..Len(ss)
        BY <1>1
      <4> QED
        BY <2>1, <2>2, <4>1, Zenon
    <3>4. i # 1 => i - 1 \in 1..n /\ i - 1 \notin Differ
      BY <3>2
    <3> HIDE DEF ss, h
    <3> QED
      BY <3>3, <3>4
  <2>3. FlattenSeq(ss) = (CHOOSE g : Flat(g))[n]
    <3> HIDE DEF ss
    <3> QED
      BY <1>1, <1>3 DEF FlattenSeq
  <2>4. Flat(CHOOSE g : Flat(g))
    <3> HIDE DEF Flat
    <3> QED
      BY <2>1
  <2>5. FlattenSeq(ss) = h[n]
    <3> HIDE DEF Flat, h, ss
    <3> QED
      BY <2>2, <2>3, <2>4
  <2> QED
    BY <1>3, <2>5
<1> QED
  BY <1>2, <1>3
-----------------------------------------------------------------------------
(* The linter.                                                              *)

\* The files that the settings of the linter let through, in order.
Order == Sorted(Kept(inputPaths, combinedCfg)) \o Sorted(Kept(inputModules, combinedCfg))
Linted == {Order[i] : i \in DOMAIN Order}

\* What the linter was given, and the query that is that of its settings.
SettingsOK ==
  /\ inputPaths \in SUBSET Files /\ inputModules \in SUBSET Files
  /\ ignoreFiles \in SUBSET Files
  /\ export \in BOOLEAN
  /\ lintPhase \in {"building", "parsing", "linting", "merging", "ok", "error"}
  /\ lintPhase \notin {"building", "error"} => isPrepared
  /\ isPrepared =>
       query = [config |-> combinedCfg, ignore |-> ignoreFiles, rules |-> customRules]

\* The goroutines that are done have left their result at their index.
RoundOK ==
  /\ lintPhase = "parsing" => names = Sorted(Kept(inputPaths, combinedCfg))
  /\ lintPhase \in {"linting", "merging", "ok"} => names = Order
  /\ lintPhase = "linting" =>
       /\ DOMAIN tasks = 1..Len(names) /\ DOMAIN found = 1..Len(names)
       /\ \A i \in 1..Len(names) : tasks[i] = "ok" => found[i] = Evaluated(names[i])

\* The report before aggregate rules.
MergedOK ==
  lintPhase = "merging" =>
    lintReport =
      [violations |-> [i \in 1..Len(Order) |-> [of |-> {Order[i]}, rules |-> customRules]],
       aggregates |-> IF Len(Order) > 1 \/ export THEN Linted ELSE {},
       scanned |-> Len(Order)]

LinterInv == SettingsOK /\ RoundOK /\ MergedOK /\ ReportIsAsOneByOne

(* No file is linted that the settings ignore (FilterIgnoredPaths).         *)
LEMMA OrderIsOfKept ==
  ASSUME Files \in SUBSET Nat, IsFiniteSet(Files), SettingsOK
  PROVE  /\ Order \in Seq(Files) /\ Len(Order) \in Nat /\ DOMAIN Order = 1..Len(Order)
         /\ \A i \in 1..Len(Order) : Order[i] \notin ignoreFiles
         /\ Len(Sorted(Kept(inputPaths, combinedCfg))) = Cardinality(Kept(inputPaths, combinedCfg))
<1> DEFINE K == Kept(inputPaths, combinedCfg)
           L == Kept(inputModules, combinedCfg)
           All == Files \ ignoreFiles
<1>1. K \in SUBSET All /\ L \in SUBSET All
  BY DEF SettingsOK, Kept
<1>2. /\ K \in SUBSET Nat /\ IsFiniteSet(K)
      /\ L \in SUBSET Nat /\ IsFiniteSet(L)
  <2>1. K \in SUBSET Files /\ L \in SUBSET Files
    BY <1>1
  <2> QED
    BY <2>1, FS_Subset
<1>3. Sorted(K) \in Seq(K) /\ Sorted(L) \in Seq(L) /\ Len(Sorted(K)) = Cardinality(K)
  BY <1>2, SortedIsOrdered
<1> HIDE DEF K, L
<1>4. Sorted(K) \in Seq(All) /\ Sorted(L) \in Seq(All)
  BY <1>1, <1>3, SeqMonotonic
<1>5. Sorted(K) \o Sorted(L) \in Seq(All)
  BY <1>4, ConcatProperties
<1>6. Order \in Seq(All)
  BY <1>5 DEF Order, K, L
<1>7. Order \in Seq(Files) /\ Len(Order) \in Nat /\ DOMAIN Order = 1..Len(Order)
  BY <1>6, SeqMonotonic, LenProperties
<1>8. \A i \in 1..Len(Order) : Order[i] \in All
  BY <1>6, ElementOfSeq
<1> QED
  BY <1>3, <1>7, <1>8 DEF K

(* The order is a matter of the settings.                                   *)
LEMMA OrderStays ==
  ASSUME UNCHANGED <<inputPaths, inputModules, combinedCfg, ignoreFiles>>
  PROVE  Order' = Order /\ Linted' = Linted
BY DEF Order, Linted, Sorted, Kept

(* What the policies find in a file, once settings are prepared.            *)
LEMMA EvaluatedIsOfSettings ==
  ASSUME Files \in SUBSET Nat, IsFiniteSet(Files), SettingsOK, isPrepared, names = Order,
         NEW i \in 1..Len(Order)
  PROVE  Evaluated(names[i]) =
           [violations |-> <<[of |-> {Order[i]}, rules |-> customRules]>>,
            aggregates |-> IF Len(Order) > 1 \/ export THEN {Order[i]} ELSE {}]
<1>1. Order[i] \notin query.ignore /\ query.rules = customRules
  BY OrderIsOfKept DEF SettingsOK
<1> QED
  BY <1>1 DEF Evaluated

(* Merge: one violation per file, in the order of the files, and the        *)
(* aggregates of all of them.                                               *)
LEMMA MergeIsOfAll ==
  ASSUME Files \in SUBSET Nat, IsFiniteSet(Files), LinterInv, Merge
  PROVE  MergedOK'
<1>1. lintPhase = "linting" /\ isPrepared /\ names = Order /\ SettingsOK
  BY DEF LinterInv, SettingsOK, RoundOK, Merge
<1> DEFINE N == Len(Order)
           e == [i \in 1..N |-> [of |-> {Order[i]}, rules |-> customRules]]
           agg(i) == IF N > 1 \/ export THEN {Order[i]} ELSE {}
<1>2. N \in Nat /\ DOMAIN Order = 1..N
  BY <1>1, OrderIsOfKept
<1>3. DOMAIN found = 1..N /\ \A i \in 1..N : found[i] = Evaluated(names[i])
  BY <1>1 DEF LinterInv, RoundOK, Merge, AllOk
<1>4. \A i \in 1..N : found[i] = [violations |-> <<e[i]>>, aggregates |-> agg(i)]
  <2> TAKE i \in 1..N
  <2>1. Evaluated(names[i]) = [violations |-> <<[of |-> {Order[i]}, rules |-> customRules]>>,
                               aggregates |-> agg(i)]
    BY <1>1, EvaluatedIsOfSettings
  <2> QED
    BY <1>3, <2>1
<1>5. Concat(found) = e
  <2>1. [i \in DOMAIN found |-> found[i].violations] = [i \in 1..N |-> <<e[i]>>]
    <3> HIDE DEF e, N
    <3> QED
      BY <1>3, <1>4
  <2>2. FlattenSeq([i \in 1..N |-> <<e[i]>>]) = [i \in 1..N |-> e[i]]
    <3> HIDE DEF e, N
    <3> QED
      BY <1>2, FlattenSingletons
  <2>3. [i \in 1..N |-> e[i]] = e
    OBVIOUS
  <2> HIDE DEF e, N
  <2> QED
    BY <2>1, <2>2, <2>3 DEF Concat
<1>6. Union(found) = IF N > 1 \/ export THEN Linted ELSE {}
  <2>1. Union(found) = UNION {agg(i) : i \in 1..N}
    <3> HIDE DEF e, N, agg
    <3> QED
      BY <1>3, <1>4 DEF Union
  <2> HIDE DEF N
  <2>2. CASE N > 1 \/ export
    <3>1. UNION {agg(i) : i \in 1..N} = {Order[i] : i \in 1..N}
      BY <2>2
    <3> QED
      BY <1>2, <2>1, <2>2, <3>1 DEF Linted
  <2>3. CASE ~(N > 1 \/ export)
    BY <2>1, <2>3
  <2> QED
    BY <2>2, <2>3
<1>7. UNCHANGED <<inputPaths, inputModules, combinedCfg, ignoreFiles, customRules, export>>
  BY DEF Merge, lintInputs, preparation, builder
<1>8. Order' = Order /\ Linted' = Linted
  BY <1>7, OrderStays
<1>9. lintReport' = [violations |-> e, aggregates |-> IF N > 1 \/ export THEN Linted ELSE {},
                     scanned |-> N]
  <2> HIDE DEF e
  <2> QED
    BY <1>1, <1>5, <1>6 DEF Merge
<1> QED
  BY <1>7, <1>8, <1>9 DEF MergedOK

(* The end of Lint: aggregate rules see the aggregates of all files.        *)
LEMMA LintEndsRight ==
  ASSUME Files \in SUBSET Nat, IsFiniteSet(Files), LinterInv, LintAggregates
  PROVE  ReportIsAsOneByOne'
<1>1. lintPhase = "merging" /\ isPrepared /\ names = Order /\ SettingsOK
  BY DEF LinterInv, SettingsOK, RoundOK, LintAggregates
<1>2. Len(Order) \in Nat /\ DOMAIN Order = 1..Len(Order)
  BY <1>1, OrderIsOfKept
<1> DEFINE e == [i \in 1..Len(Order) |-> [of |-> {Order[i]}, rules |-> customRules]]
           all == IF Len(Order) > 1 THEN <<[of |-> Linted, rules |-> customRules]>> ELSE <<>>
<1>3. lintReport = [violations |-> e,
                    aggregates |-> IF Len(Order) > 1 \/ export THEN Linted ELSE {},
                    scanned |-> Len(Order)]
  BY <1>1 DEF LinterInv, MergedOK
<1>4. AggregateViolations(lintReport.aggregates) = all
  <2>1. query.rules = customRules
    BY <1>1 DEF SettingsOK
  <2>2. CASE Len(Order) > 1
    <3>1. Order[1] \in Linted
      BY <1>2, <2>2 DEF Linted
    <3>2. lintReport.aggregates = Linted /\ Linted # {}
      BY <1>3, <2>2, <3>1
    <3> QED
      BY <1>1, <2>1, <2>2, <3>2 DEF AggregateViolations
  <2>3. CASE ~(Len(Order) > 1)
    BY <1>1, <2>3 DEF AggregateViolations
  <2> QED
    BY <2>2, <2>3
<1>5. UNCHANGED <<inputPaths, inputModules, combinedCfg, ignoreFiles, customRules, export>>
  BY DEF LintAggregates, lintInputs, preparation, builder
<1>6. ReportFor(combinedCfg) =
        [violations |-> e \o all, aggregates |-> IF export THEN Linted ELSE {},
         scanned |-> Len(Order)]
  BY <1>2 DEF ReportFor, Ignored, Order, Kept, Linted
<1>7. lintReport' =
        [violations |-> e \o all, aggregates |-> IF export THEN Linted ELSE {},
         scanned |-> Len(Order)]
  <2>1. lintReport'.violations = e \o all
    <3> HIDE DEF e, all
    <3> QED
      BY <1>3, <1>4 DEF LintAggregates
  <2>2. lintReport' =
          [lintReport EXCEPT !.violations = @ \o AggregateViolations(lintReport.aggregates),
                             !.aggregates = IF export THEN @ ELSE {}]
    BY DEF LintAggregates
  <2> HIDE DEF e, all
  <2> QED
    BY <1>3, <1>4, <2>2
<1>8. ReportFor(combinedCfg)' = ReportFor(combinedCfg)
  BY <1>5 DEF ReportFor, Ignored, Sorted
<1> QED
  BY <1>6, <1>7, <1>8 DEF ReportIsAsOneByOne
(* A builder method that changes a setting gives the prepared query up.     *)
LEMMA SettingsStep ==
  ASSUME SettingsOK, [LinterNext]_linterVars
  PROVE  SettingsOK'
<1> USE DEF SettingsOK, builder, preparation, lintInputs, running
<1>1. CASE Building
  <2>1. lintPhase = "building" /\ UNCHANGED <<lintInputs, running>>
    BY <1>1 DEF Building, WithUserConfig, WithIgnore, WithCustomRules, Prepare, Calling
  <2>2. ASSUME NEW cfg \in SUBSET Files, WithUserConfig(cfg)
        PROVE  SettingsOK'
    BY <2>1, <2>2 DEF WithUserConfig, NotPrepared
  <2>3. ASSUME NEW patterns \in SUBSET Files, WithIgnore(patterns)
        PROVE  SettingsOK'
    BY <2>1, <2>3 DEF WithIgnore, NotPrepared
  <2>4. ASSUME NEW rule \in Custom, WithCustomRules(rule)
        PROVE  SettingsOK'
    BY <2>1, <2>4 DEF WithCustomRules, NotPrepared
  <2>5. CASE Prepare
    <3> HIDE DEF running
    <3> QED
      BY <2>1, <2>5 DEF Prepare, Prepared, running
  <2> QED
    BY <1>1, <2>2, <2>3, <2>4, <2>5 DEF Building
<1>2. CASE Lint
  <2>1. /\ lintPhase' = "parsing" /\ UNCHANGED <<builder, lintInputs>>
        /\ (UNCHANGED preparation /\ isPrepared) \/ Prepared
    BY <1>2 DEF Lint, Start
  <2> QED
    BY <2>1 DEF Prepared
<1>3. CASE Linting /\ ~Lint
  <2>1. /\ UNCHANGED <<builder, lintInputs, preparation>>
        /\ lintPhase' \in {lintPhase, "linting", "merging", "ok", "error"}
        /\ lintPhase = "building" => lintPhase' = "error"
        /\ lintPhase = "error" => lintPhase' = "error"
    BY <1>3 DEF Linting, ParseFile, LintFile, LintFileFails, BeginLint, Start, Merge,
                LintAggregates, LintFails
  <2> QED
    BY <2>1
<1>4. CASE UNCHANGED linterVars
  BY <1>4 DEF linterVars
<1> QED
  BY <1>1, <1>2, <1>3, <1>4 DEF LinterNext

(* Each goroutine stores at its own index, in whatever order they end.      *)
LEMMA RoundStep ==
  ASSUME Files \in SUBSET Nat, IsFiniteSet(Files), LinterInv, [LinterNext]_linterVars
  PROVE  RoundOK'
<1>1. CASE Building
  BY <1>1 DEF LinterInv, RoundOK, Building, WithUserConfig, WithIgnore, WithCustomRules, Prepare,
              Calling, running
<1>2. CASE Lint
  <2>1. /\ lintPhase' = "parsing" /\ names' = Sorted(Kept(inputPaths, combinedCfg'))
        /\ UNCHANGED <<inputPaths, ignoreFiles>>
    BY <1>2 DEF Lint, Start, builder, lintInputs
  <2>2. Sorted(Kept(inputPaths, combinedCfg))' = Sorted(Kept(inputPaths, combinedCfg'))
    BY <2>1 DEF Kept, Sorted
  <2> QED
    BY <2>1, <2>2 DEF RoundOK
<1>3. CASE Linting /\ ~Lint
  <2>1. UNCHANGED <<inputPaths, inputModules, combinedCfg, ignoreFiles, query, export>>
    BY <1>3 DEF Linting, ParseFile, LintFile, LintFileFails, BeginLint, Merge, LintAggregates,
                LintFails, builder, preparation, lintInputs
  <2>2. /\ Order' = Order
        /\ Sorted(Kept(inputPaths, combinedCfg))' = Sorted(Kept(inputPaths, combinedCfg))
    BY <2>1, OrderStays DEF Kept, Sorted
  <2>3. ASSUME NEW i \in DOMAIN tasks, ParseFile(i)
        PROVE  RoundOK'
    BY <2>2, <2>3 DEF LinterInv, RoundOK, ParseFile
  <2>4. ASSUME NEW i \in DOMAIN tasks, LintFile(i) \/ LintFileFails(i)
        PROVE  RoundOK'
    <3>1. /\ lintPhase = "linting" /\ lintPhase' = "linting" /\ names' = names /\ names = Order
          /\ DOMAIN tasks = 1..Len(names) /\ DOMAIN found = 1..Len(names)
          /\ \A j \in 1..Len(names) : tasks[j] = "ok" => found[j] = Evaluated(names[j])
      BY <2>4 DEF LinterInv, RoundOK, LintFile, LintFileFails
    <3>2. \A f : Evaluated(f)' = Evaluated(f)
      BY <2>1, <3>1 DEF Evaluated
    <3>3. /\ DOMAIN tasks' = 1..Len(names) /\ DOMAIN found' = 1..Len(names)
          /\ \A j \in 1..Len(names) \ {i} : tasks'[j] = tasks[j] /\ found'[j] = found[j]
          /\ tasks'[i] = "ok" => found'[i] = Evaluated(names[i])
      BY <2>4, <3>1 DEF LintFile, LintFileFails, Ends
    <3>4. \A j \in 1..Len(names) : tasks'[j] = "ok" => found'[j] = Evaluated(names[j])
      BY <3>1, <3>3
    <3> QED
      BY <2>2, <3>1, <3>2, <3>3, <3>4 DEF RoundOK
  <2>5. CASE BeginLint
    <3>1. /\ lintPhase' = "linting" /\ names' = Order
          /\ DOMAIN tasks' = 1..Len(names') /\ DOMAIN found' = 1..Len(names')
          /\ \A i \in 1..Len(names') : tasks'[i] = "running"
      BY <2>5 DEF LinterInv, RoundOK, BeginLint, Start, Order
    <3> QED
      BY <2>2, <3>1 DEF RoundOK
  <2>6. CASE Merge \/ LintAggregates
    BY <2>2, <2>6 DEF LinterInv, RoundOK, Merge, LintAggregates
  <2>7. CASE LintFails
    BY <2>7 DEF RoundOK, LintFails
  <2> QED
    BY <1>3, <2>3, <2>4, <2>5, <2>6, <2>7 DEF Linting
<1>4. CASE UNCHANGED linterVars
  <2>1. UNCHANGED <<inputPaths, inputModules, combinedCfg, ignoreFiles, query, export,
                    names, tasks, found, lintPhase>>
    BY <1>4 DEF linterVars, builder, preparation, lintInputs, running
  <2>2. /\ Order' = Order
        /\ Sorted(Kept(inputPaths, combinedCfg))' = Sorted(Kept(inputPaths, combinedCfg))
        /\ \A f : Evaluated(f)' = Evaluated(f)
    BY <2>1, OrderStays DEF Kept, Sorted, Evaluated
  <2> QED
    BY <2>1, <2>2 DEF LinterInv, RoundOK
<1> QED
  BY <1>1, <1>2, <1>3, <1>4 DEF LinterNext

LEMMA ReportStep ==
  ASSUME Files \in SUBSET Nat, IsFiniteSet(Files), LinterInv, [LinterNext]_linterVars
  PROVE  MergedOK' /\ ReportIsAsOneByOne'
<1>1. CASE Merge
  BY <1>1, MergeIsOfAll DEF Merge, ReportIsAsOneByOne
<1>2. CASE LintAggregates
  BY <1>2, LintEndsRight DEF LintAggregates, MergedOK
<1>3. CASE UNCHANGED linterVars
  <2>1. UNCHANGED <<inputPaths, inputModules, combinedCfg, ignoreFiles, customRules, export,
                    lintReport, lintPhase>>
    BY <1>3 DEF linterVars, builder, preparation, lintInputs, running
  <2>2. Order' = Order /\ Linted' = Linted /\ ReportFor(combinedCfg)' = ReportFor(combinedCfg)
    BY <2>1, OrderStays DEF ReportFor, Ignored, Sorted
  <2> QED
    BY <2>1, <2>2 DEF LinterInv, MergedOK, ReportIsAsOneByOne
<1>4. CASE LinterNext /\ ~Merge /\ ~LintAggregates
  <2>1. lintPhase' \notin {"merging", "ok"}
    <3>1. CASE Building
      BY <3>1 DEF Building, WithUserConfig, WithIgnore, WithCustomRules, Prepare, Calling, running
    <3>2. CASE Linting
      BY <1>4, <3>2 DEF Linting, Lint, Start, ParseFile, LintFile, LintFileFails, BeginLint,
                        LintFails
    <3> QED
      BY <1>4, <3>1, <3>2 DEF LinterNext
  <2> QED
    BY <2>1 DEF MergedOK, ReportIsAsOneByOne
<1> QED
  BY <1>1, <1>2, <1>3, <1>4

(* Lint (linter.go): whatever the order in which goroutines parse and lint  *)
(* the files, and whatever was prepared before settings were changed, the   *)
(* report is that of linting the files one by one, by the settings of now.  *)
THEOREM ReportIsThatOfOneByOne ==
  ASSUME Files \in SUBSET Nat, IsFiniteSet(Files)
  PROVE  LinterSpec => []ReportIsAsOneByOne
<1>1. LinterInit => LinterInv
  BY DEF LinterInit, LinterInv, SettingsOK, RoundOK, MergedOK, ReportIsAsOneByOne
<1>2. LinterInv /\ [LinterNext]_linterVars => LinterInv'
  BY SettingsStep, RoundStep, ReportStep DEF LinterInv
<1>3. LinterInv => ReportIsAsOneByOne
  BY DEF LinterInv
<1> QED
  BY <1>1, <1>2, <1>3, PTL DEF LinterSpec
\* nil is neither a config nor a query.
AbsentIsNone ==
  /\ Absent \notin SUBSET Files
  /\ \A c, i, r : Absent # [config |-> c, ignore |-> i, rules |-> r]

TypesInv == LinterInv /\ LinterTypes

(* GetConfig always returns a config.                                       *)
LEMMA ConfigIsFound == LinterTypes => GetConfig \in SUBSET Files
<1> SUFFICES ASSUME LinterTypes
             PROVE  GetConfig \in SUBSET Files
  OBVIOUS
<1>1. CASE combinedCfg # Absent
  BY <1>1, Zenon DEF LinterTypes, GetConfig
<1>2. CASE combinedCfg = Absent /\ userConfig # Absent
  BY <1>2, Zenon DEF LinterTypes, GetConfig
<1>3. CASE combinedCfg = Absent /\ userConfig = Absent
  <2>1. GetConfig = {}
    BY <1>3, Zenon DEF GetConfig
  <2> QED
    BY <2>1
<1> QED
  BY <1>1, <1>2, <1>3

LEMMA LinterTypesStep ==
  ASSUME Files \in SUBSET Nat, IsFiniteSet(Files), AbsentIsNone, TypesInv,
         [LinterNext]_linterVars
  PROVE  LinterTypes'
<1> USE DEF LinterTypes, builder, preparation, lintInputs
<1>0. LinterTypes /\ SettingsOK /\ LinterInv /\ GetConfig \in SUBSET Files
  BY ConfigIsFound DEF TypesInv, LinterInv
<1>1. CASE Building
  <2>1. UNCHANGED <<names, tasks, found, lintPhase>>
    BY <1>1 DEF Building, WithUserConfig, WithIgnore, WithCustomRules, Prepare, Calling, running
  <2>2. ASSUME NEW cfg \in SUBSET Files, WithUserConfig(cfg)
        PROVE  LinterTypes'
    BY <1>0, <2>1, <2>2 DEF WithUserConfig, NotPrepared
  <2>3. ASSUME NEW patterns \in SUBSET Files, WithIgnore(patterns)
        PROVE  LinterTypes'
    BY <1>0, <2>1, <2>3 DEF WithIgnore, NotPrepared
  <2>4. ASSUME NEW rule \in Custom, WithCustomRules(rule)
        PROVE  LinterTypes'
    BY <1>0, <2>1, <2>4 DEF WithCustomRules, NotPrepared
  <2>5. CASE Prepare
    <3> HIDE DEF GetConfig
    <3> QED
      BY <1>0, <2>1, <2>5 DEF Prepare, Prepared, AbsentIsNone
  <2> QED
    BY <1>1, <2>2, <2>3, <2>4, <2>5 DEF Building
<1>2. CASE Linting
  <2>1. /\ UNCHANGED builder
        /\ UNCHANGED preparation \/ Prepared
        /\ lintPhase' \in {"parsing", "linting", "merging", "ok", "error"}
    BY <1>0, <1>2 DEF Linting, Lint, Start, ParseFile, LintFile, LintFileFails, BeginLint, Merge,
                      LintAggregates, LintFails
  <2>2. DOMAIN tasks' = DOMAIN found'
    BY <1>0, <1>2 DEF Linting, Lint, Start, ParseFile, LintFile, LintFileFails, Ends, BeginLint,
                      Merge, LintAggregates, LintFails
  <2>3. names' \in Seq(Files)
    <3>1. CASE Lint
      <4>1. inputPaths \in SUBSET Files /\ names' = Sorted(Kept(inputPaths, combinedCfg'))
        BY <1>0, <3>1 DEF SettingsOK, Lint
      <4> DEFINE K == Kept(inputPaths, combinedCfg')
      <4>2. K \in SUBSET Files
        BY <4>1 DEF Kept
      <4>3. K \in SUBSET Nat /\ IsFiniteSet(K)
        BY <4>2, FS_Subset
      <4> HIDE DEF K
      <4>4. Sorted(K) \in Seq(K)
        BY <4>3, SortedIsOrdered
      <4> QED
        BY <4>1, <4>2, <4>4, SeqMonotonic DEF K
    <3>2. CASE BeginLint
      <4>1. names' = Order
        BY <1>0, <3>2 DEF LinterInv, RoundOK, BeginLint, Order
      <4> QED
        BY <1>0, <4>1, OrderIsOfKept
    <3>3. CASE ~Lint /\ ~BeginLint
      BY <1>0, <1>2, <3>3 DEF Linting, ParseFile, LintFile, LintFileFails, Merge, LintAggregates,
                              LintFails
    <3> QED
      BY <3>1, <3>2, <3>3
  <2> HIDE DEF GetConfig
  <2>4. combinedCfg' \in (SUBSET Files) \union {Absent}
    BY <1>0, <2>1 DEF Prepared
  <2>5. isPrepared' => query' # Absent /\ combinedCfg' # Absent
    BY <1>0, <2>1 DEF Prepared, AbsentIsNone
  <2> QED
    BY <1>0, <2>1, <2>2, <2>3, <2>4, <2>5
<1>3. CASE UNCHANGED linterVars
  BY <1>0, <1>3 DEF linterVars, running
<1> QED
  BY <1>1, <1>2, <1>3 DEF LinterNext

(* The state of a linter is well formed: what is prepared is there, and the *)
(* goroutines of a round have one result each.                              *)
THEOREM LinterIsTyped ==
  ASSUME Files \in SUBSET Nat, IsFiniteSet(Files), AbsentIsNone
  PROVE  LinterSpec => []LinterTypes
<1>1. LinterInit => TypesInv
  <2>1. LinterInit => LinterInv
    BY DEF LinterInit, LinterInv, SettingsOK, RoundOK, MergedOK, ReportIsAsOneByOne
  <2>2. ASSUME LinterInit
        PROVE  LinterTypes
    <3>1. names \in Seq(Files) /\ DOMAIN tasks = DOMAIN found
      BY <2>2 DEF LinterInit
    <3>2. /\ userConfig \in (SUBSET Files) \union {Absent}
          /\ combinedCfg \in (SUBSET Files) \union {Absent}
      BY <2>2, Zenon DEF LinterInit
    <3> QED
      BY <2>2, <3>1, <3>2 DEF LinterInit, LinterTypes
  <2> QED
    BY <2>1, <2>2 DEF TypesInv
<1>2. TypesInv /\ [LinterNext]_linterVars => TypesInv'
  BY SettingsStep, RoundStep, ReportStep, LinterTypesStep DEF TypesInv, LinterInv
<1>3. TypesInv => LinterTypes
  BY DEF TypesInv
<1> QED
  BY <1>1, <1>2, <1>3, PTL DEF LinterSpec
=============================================================================
