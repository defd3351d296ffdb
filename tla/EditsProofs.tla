----------------------------- MODULE EditsProofs -----------------------------
(* Proofs about TextEdits, for texts of any lines and any length: the edits *)
(* that the difference of two texts makes give the second one, and there    *)
(* are no fewer.                                                            *)
EXTENDS TextEdits, SequenceTheorems, NaturalsInduction, WellFoundedInduction, TLAPS

(* Every set of natural numbers that is not empty has a least element: the  *)
(* inductions below are by a least counterexample.                          *)
LEMMA LeastElement ==
  ASSUME NEW T \in SUBSET Nat, T # {}
  PROVE  \E x \in T : \A y \in T : x <= y
<1>1. PICK x \in T : \A y \in T : <<y, x>> \notin OpToRel(<, Nat)
  BY NatLessThanWellFounded, WFMin
<1>2. \A y \in T : ~(y < x)
  BY <1>1 DEF OpToRel
<1> QED
  BY <1>2

(* A set that holds zero, and with a number the next, holds all of them.    *)
LEMMA AllNumbers ==
  ASSUME NEW S, 0 \in S, \A n \in Nat : n \in S => n + 1 \in S
  PROVE  \A n \in Nat : n \in S
<1> DEFINE Bad == {n \in Nat : n \notin S}
<1>1. SUFFICES ASSUME Bad # {}
               PROVE  FALSE
  OBVIOUS
<1>2. PICK n \in Bad : \A m \in Bad : n <= m
  <2>1. Bad \in SUBSET Nat
    OBVIOUS
  <2> HIDE DEF Bad
  <2> QED
    BY <1>1, <2>1, LeastElement
<1>3. n - 1 \in Nat /\ n - 1 \notin Bad
  BY <1>2
<1>4. (n - 1) + 1 \in S
  BY <1>3
<1> QED
  BY <1>2, <1>4

(* Texts joined are a text, and it does not matter which two of three are   *)
(* joined first.                                                            *)
LEMMA TextsJoin ==
  /\ \A s, t \in Seq(Lines) : s \o t \in Seq(Lines)
  /\ \A r, s, t \in Seq(Lines) : r \o (s \o t) = (r \o s) \o t
<1>1. ASSUME NEW s \in Seq(Lines), NEW t \in Seq(Lines)
      PROVE  s \o t \in Seq(Lines)
  BY <1>1, SMTT(60)
<1>2. ASSUME NEW r \in Seq(Lines), NEW s \in Seq(Lines), NEW t \in Seq(Lines)
      PROVE  r \o (s \o t) = (r \o s) \o t
  <2> DEFINE u == r \o (s \o t)
             v == (r \o s) \o t
  <2>1. u \in Seq(Lines) /\ v \in Seq(Lines)
    BY <1>1
  <2>2. Len(u) = Len(r) + Len(s) + Len(t) /\ Len(v) = Len(u)
    BY SMTT(30)
  <2>3. ASSUME NEW i \in 1..Len(u)
        PROVE  u[i] = v[i]
    BY <2>2, SMTT(60)
  <2> HIDE DEF u, v
  <2>4. u = v
    BY <2>1, <2>2, <2>3, SeqEqual
  <2> QED
    BY <2>4 DEF u, v
<1> QED
  BY <1>1, <1>2, Zenon

(* A set of natural numbers up to a bound has a maximum.                    *)
LEMMA MaxOfBounded ==
  ASSUME NEW n \in Nat, NEW S \in SUBSET (0..n), S # {}
  PROVE  Max(S) \in S /\ \A y \in S : y <= Max(S)
<1> DEFINE Bounds == {m \in Nat : \A y \in S : y <= m}
<1>1. PICK m \in Bounds : \A l \in Bounds : m <= l
  <2>1. n \in Bounds
    OBVIOUS
  <2>2. Bounds \in SUBSET Nat
    OBVIOUS
  <2> HIDE DEF Bounds
  <2> QED
    BY <2>1, <2>2, LeastElement
<1>2. m \in S
  <2>1. SUFFICES ASSUME m \notin S
                 PROVE  FALSE
    OBVIOUS
  <2>2. \A y \in S : y < m
    BY <1>1, <2>1
  <2>3. m \in Nat /\ m > 0
    <3>1. PICK y \in S : TRUE
      OBVIOUS
    <3> QED
      BY <2>2, <3>1
  <2>4. \A y \in S : y <= m - 1
    BY <2>2, <2>3
  <2>5. m - 1 \in Bounds
    BY <2>3, <2>4
  <2> QED
    BY <1>1, <2>3, <2>5
<1>3. \E x \in S : \A y \in S : x >= y
  BY <1>1, <1>2
<1>4. Max(S) \in S /\ \A y \in S : Max(S) >= y
  BY <1>3 DEF Max
<1> QED
  BY <1>4

\* A function made step by step: from the value at one number,
\* step[<<value, number>>] is that at the next.
StepsTo(f, T, first, step, n) ==
  /\ f \in [0..n -> T]
  /\ f[0] = first
  /\ \A i \in 0..n - 1 : f[i + 1] = step[<<f[i], i>>]

StepsOn(f, T, first, step) ==
  /\ f \in [Nat -> T]
  /\ f[0] = first
  /\ \A i \in Nat : f[i + 1] = step[<<f[i], i>>]

(* Functions on numbers can be defined step by step.                        *)
LEMMA StepByStep ==
  ASSUME NEW T, NEW first \in T, NEW step \in [T \X Nat -> T], NEW n \in Nat
  PROVE  \E f : StepsTo(f, T, first, step, n)
<1> DEFINE Fine(f, m) == StepsTo(f, T, first, step, m)
           Bad == {m \in Nat : \A f : ~Fine(f, m)}
<1>1. SUFFICES ASSUME Bad # {}
               PROVE  FALSE
  OBVIOUS
<1>2. PICK m \in Bad : \A l \in Bad : m <= l
  <2>1. Bad \in SUBSET Nat
    OBVIOUS
  <2> HIDE DEF Bad
  <2> QED
    BY <1>1, <2>1, LeastElement
<1>3. m # 0
  <2>1. Fine([i \in 0..0 |-> first], 0)
    BY DEF StepsTo
  <2> HIDE DEF Fine
  <2> QED
    BY <2>1, <1>2
<1>4. m \in Nat /\ m - 1 \in Nat /\ m - 1 \notin Bad
  BY <1>2, <1>3
<1>5. PICK f : Fine(f, m - 1)
  BY <1>4
<1> DEFINE g == [i \in 0..m |-> IF i = m THEN step[<<f[m - 1], m - 1>>] ELSE f[i]]
<1>6. f \in [0..m - 1 -> T] /\ f[0] = first /\ \A i \in 0..m - 2 : f[i + 1] = step[<<f[i], i>>]
  BY <1>4, <1>5 DEF StepsTo
<1>7. f[m - 1] \in T /\ step[<<f[m - 1], m - 1>>] \in T
  BY <1>4, <1>6
<1>8. g \in [0..m -> T]
  BY <1>4, <1>6, <1>7
<1>9. g[0] = first
  BY <1>3, <1>4, <1>6
<1>10. ASSUME NEW i \in 0..m - 1
       PROVE  g[i + 1] = step[<<g[i], i>>]
  <2>1. g[i] = f[i] /\ i \in 0..m
    BY <1>4
  <2>2. CASE i = m - 1
    BY <1>4, <2>1, <2>2
  <2>3. CASE i # m - 1
    <3>1. g[i + 1] = f[i + 1] /\ i \in 0..m - 2
      BY <1>4, <2>3
    <3> QED
      BY <1>6, <2>1, <3>1
  <2> QED
    BY <2>2, <2>3
<1>11. Fine(g, m)
  <2> HIDE DEF g
  <2> QED
    BY <1>8, <1>9, <1>10 DEF StepsTo
<1> QED
  <2> HIDE DEF Fine, g
  <2> QED
    BY <1>2, <1>11

(* The same for functions on all numbers.                                   *)
LEMMA StepsForever ==
  ASSUME NEW T, NEW first \in T, NEW step \in [T \X Nat -> T]
  PROVE  \E f : StepsOn(f, T, first, step)
<1> DEFINE Upto(m) == CHOOSE g : StepsTo(g, T, first, step, m)
           f == [m \in Nat |-> Upto(m)[m]]
<1>1. \A m \in Nat : StepsTo(Upto(m), T, first, step, m)
  BY StepByStep
<1>2. ASSUME NEW m \in Nat
      PROVE  /\ Upto(m) \in [0..m -> T] /\ Upto(m)[0] = first
             /\ \A i \in 0..m - 1 : Upto(m)[i + 1] = step[<<Upto(m)[i], i>>]
  <2> HIDE DEF Upto
  <2> QED
    BY <1>1 DEF StepsTo
<1> HIDE DEF Upto
<1>3. ASSUME NEW m \in Nat
      PROVE  \A i \in 0..m : Upto(m + 1)[i] = Upto(m)[i]
  <2> DEFINE Bad == {i \in Nat : i <= m /\ Upto(m + 1)[i] # Upto(m)[i]}
  <2>1. SUFFICES ASSUME Bad # {}
                 PROVE  FALSE
    OBVIOUS
  <2>2. PICK i \in Bad : \A l \in Bad : i <= l
    <3>1. Bad \in SUBSET Nat
      OBVIOUS
    <3> HIDE DEF Bad
    <3> QED
      BY <2>1, <3>1, LeastElement
  <2>3. i # 0
    BY <1>2, <2>2
  <2>4. i - 1 \in Nat /\ i - 1 \notin Bad /\ i <= m /\ i \in Nat
    BY <2>2, <2>3
  <2>5. Upto(m + 1)[i - 1] = Upto(m)[i - 1]
    BY <2>4
  <2>6. Upto(m + 1)[(i - 1) + 1] = step[<<Upto(m + 1)[i - 1], i - 1>>]
    BY <1>2, <2>4
  <2>7. Upto(m)[(i - 1) + 1] = step[<<Upto(m)[i - 1], i - 1>>]
    BY <1>2, <2>4
  <2>8. (i - 1) + 1 = i
    BY <2>4
  <2>9. Upto(m + 1)[i] = Upto(m)[i]
    BY <2>5, <2>6, <2>7, <2>8
  <2> QED
    BY <2>2, <2>9
<1>4. f \in [Nat -> T]
  BY <1>2
<1>5. f[0] = first
  BY <1>2
<1>6. ASSUME NEW i \in Nat
      PROVE  f[i + 1] = step[<<f[i], i>>]
  <2>1. f[i + 1] = Upto(i + 1)[i + 1] /\ f[i] = Upto(i)[i]
    OBVIOUS
  <2>2. Upto(i + 1)[i + 1] = step[<<Upto(i + 1)[i], i>>]
    BY <1>2
  <2>3. Upto(i + 1)[i] = Upto(i)[i]
    BY <1>3
  <2> QED
    BY <2>1, <2>2, <2>3
<1> QED
  <2> HIDE DEF f
  <2> QED
    BY <1>4, <1>5, <1>6 DEF StepsOn

-----------------------------------------------------------------------------
(* The table of common subsequences, and the distance of two prefixes.      *)

Text == Seq(Lines)

Match(a, b, i, j) == i \in 1..Len(a) /\ j \in 1..Len(b) /\ a[i] = b[j]

Larger(m, n) == IF m >= n THEN m ELSE n

\* C[<<i, j>>] is the length of a longest common subsequence of the first i
\* lines of a and the first j lines of b; behind their ends nothing is equal.
IsTable(C, a, b) ==
  /\ C \in [Nat \X Nat -> Nat]
  /\ \A i \in Nat : C[<<i, 0>>] = 0 /\ C[<<0, i>>] = 0
  /\ \A i, j \in Nat :
       C[<<i + 1, j + 1>>] =
         IF Match(a, b, i + 1, j + 1) THEN C[<<i, j>>] + 1
         ELSE Larger(C[<<i, j + 1>>], C[<<i + 1, j>>])

(* There is such a table: each row is made from the one above.              *)
LEMMA TableExists ==
  ASSUME NEW a \in Text, NEW b \in Text
  PROVE  \E C : IsTable(C, a, b)
<1> DEFINE Row == [Nat -> Nat]
           Follows(f, r, i) ==
             /\ f[0] = 0
             /\ \A j \in Nat : f[j + 1] = IF Match(a, b, i + 1, j + 1) THEN r[j] + 1
                                         ELSE Larger(r[j + 1], f[j])
           next == [p \in Row \X Nat |-> CHOOSE f \in Row : Follows(f, p[1], p[2])]
           zeros == [j \in Nat |-> 0]
<1>1. ASSUME NEW r \in Row, NEW i \in Nat
      PROVE  \E f \in Row : Follows(f, r, i)
  <2> DEFINE step == [p \in Nat \X Nat |-> IF Match(a, b, i + 1, p[2] + 1) THEN r[p[2]] + 1
                                          ELSE Larger(r[p[2] + 1], p[1])]
  <2>1. step \in [Nat \X Nat -> Nat]
    BY DEF Larger
  <2>2. \A m, j \in Nat : step[<<m, j>>] = IF Match(a, b, i + 1, j + 1) THEN r[j] + 1
                                           ELSE Larger(r[j + 1], m)
    OBVIOUS
  <2> HIDE DEF step
  <2>3. PICK f : StepsOn(f, Nat, 0, step)
    <3>1. 0 \in Nat
      OBVIOUS
    <3> QED
      BY <2>1, <3>1, StepsForever
  <2>4. f \in Row /\ f[0] = 0 /\ \A j \in Nat : f[j] \in Nat /\ f[j + 1] = step[<<f[j], j>>]
    BY <2>3 DEF StepsOn
  <2>5. Follows(f, r, i)
    BY <2>2, <2>4
  <2> QED
    BY <2>4, <2>5
<1>2. ASSUME NEW r \in Row, NEW i \in Nat
      PROVE  next[<<r, i>>] \in Row /\ Follows(next[<<r, i>>], r, i)
  <2>1. next[<<r, i>>] = CHOOSE f \in Row : Follows(f, r, i)
    <3> HIDE DEF Row, Follows
    <3> QED
      OBVIOUS
  <2> HIDE DEF next, Row, Follows
  <2> QED
    BY <1>1, <2>1
<1>3. next \in [Row \X Nat -> Row]
  <2>1. \A p \in Row \X Nat : next[p] \in Row
    <3> SUFFICES ASSUME NEW p \in Row \X Nat
                 PROVE  next[p] \in Row
      OBVIOUS
    <3>1. p = <<p[1], p[2]>> /\ p[1] \in Row /\ p[2] \in Nat
      OBVIOUS
    <3> HIDE DEF next, Row, Follows
    <3> QED
      BY <1>2, <3>1
  <2>2. next = [p \in Row \X Nat |-> next[p]]
    <3> HIDE DEF Row, Follows
    <3> QED
      OBVIOUS
  <2> HIDE DEF next, Row, Follows
  <2> QED
    BY <2>1, <2>2
<1>4. zeros \in Row
  OBVIOUS
<1>5. PICK rows : StepsOn(rows, Row, zeros, next)
  <2> HIDE DEF next, Row, zeros
  <2> QED
    BY <1>3, <1>4, StepsForever
<1>6. rows[0] = zeros /\ \A i \in Nat : rows[i] \in Row /\ rows[i + 1] = next[<<rows[i], i>>]
  <2> HIDE DEF next, Row, zeros
  <2> QED
    BY <1>5 DEF StepsOn
<1>7. \A i \in Nat : Follows(rows[i + 1], rows[i], i)
  <2> HIDE DEF next, Row, Follows
  <2> QED
    BY <1>2, <1>6
<1> DEFINE C == [p \in Nat \X Nat |-> rows[p[1]][p[2]]]
<1>8. \A i, j \in Nat : C[<<i, j>>] = rows[i][j]
  OBVIOUS
<1>9. C \in [Nat \X Nat -> Nat]
  <2>1. \A p \in Nat \X Nat : p[1] \in Nat /\ p[2] \in Nat /\ rows[p[1]] \in [Nat -> Nat]
    BY <1>6
  <2>2. \A p \in Nat \X Nat : rows[p[1]][p[2]] \in Nat
    BY <2>1
  <2> QED
    BY <2>2
<1> HIDE DEF next, C, Row
<1>10. ASSUME NEW i \in Nat
       PROVE  C[<<i, 0>>] = 0 /\ C[<<0, i>>] = 0
  <2>1. C[<<0, i>>] = 0
    <3>1. rows[0][i] = 0
      BY <1>6
    <3> QED
      BY <1>8, <3>1
  <2>2. CASE i = 0
    BY <2>1, <2>2
  <2>3. CASE i # 0
    <3>1. i - 1 \in Nat /\ (i - 1) + 1 = i
      BY <2>3
    <3>2. rows[(i - 1) + 1][0] = 0
      BY <1>7, <3>1
    <3> QED
      BY <1>8, <2>1, <3>1, <3>2
  <2> QED
    BY <2>2, <2>3
<1>11. ASSUME NEW i \in Nat, NEW j \in Nat
       PROVE  C[<<i + 1, j + 1>>] = IF Match(a, b, i + 1, j + 1) THEN C[<<i, j>>] + 1
                                    ELSE Larger(C[<<i, j + 1>>], C[<<i + 1, j>>])
  <2>1. rows[i + 1][j + 1] = IF Match(a, b, i + 1, j + 1) THEN rows[i][j] + 1
                             ELSE Larger(rows[i][j + 1], rows[i + 1][j])
    BY <1>7
  <2>2. /\ C[<<i + 1, j + 1>>] = rows[i + 1][j + 1]
        /\ C[<<i, j>>] = rows[i][j]
        /\ C[<<i, j + 1>>] = rows[i][j + 1]
        /\ C[<<i + 1, j>>] = rows[i + 1][j]
    BY <1>8
  <2> QED
    BY <2>1, <2>2
<1> QED
  BY <1>9, <1>10, <1>11 DEF IsTable

(* One line more adds at most one to a common subsequence.                  *)
LEMMA TableGrows ==
  ASSUME NEW a \in Text, NEW b \in Text, NEW C, IsTable(C, a, b), NEW i \in Nat, NEW j \in Nat
  PROVE  /\ C[<<i, j>>] \in Nat
         /\ C[<<i + 1, j>>] \in C[<<i, j>>]..C[<<i, j>>] + 1
         /\ C[<<i, j + 1>>] \in C[<<i, j>>]..C[<<i, j>>] + 1
<1>1. /\ \A m, n \in Nat : C[<<m, n>>] \in Nat
      /\ \A m \in Nat : C[<<m, 0>>] = 0 /\ C[<<0, m>>] = 0
  BY DEF IsTable
<1> DEFINE Grows(m, n) == /\ C[<<m + 1, n>>] \in C[<<m, n>>]..C[<<m, n>>] + 1
                          /\ C[<<m, n + 1>>] \in C[<<m, n>>]..C[<<m, n>>] + 1
           Bad == {s \in Nat : \E m, n \in Nat : m + n = s /\ ~Grows(m, n)}
<1>2. Bad = {}
  <2>1. SUFFICES ASSUME Bad # {}
                 PROVE  FALSE
    BY Zenon
  <2>2. PICK s \in Bad : \A t \in Bad : s <= t
    <3>1. Bad \in SUBSET Nat
      OBVIOUS
    <3> HIDE DEF Bad
    <3> QED
      BY <2>1, <3>1, LeastElement
  <2>3. PICK m \in Nat, n \in Nat : m + n = s /\ ~Grows(m, n)
    BY <2>2
  <2>4. ASSUME NEW k \in Nat, NEW l \in Nat, k + l < m + n
        PROVE  Grows(k, l)
    <3>1. k + l \in Nat /\ ~(s <= k + l)
      BY <2>3, <2>4
    <3>2. k + l \notin Bad
      BY <2>2, <3>1
    <3> HIDE DEF Grows
    <3> QED
      BY <3>1, <3>2
  <2>5. C[<<m + 1, n>>] \in C[<<m, n>>]..C[<<m, n>>] + 1
    <3>1. CASE n = 0
      <4>1. m + 1 \in Nat
        OBVIOUS
      <4>2. C[<<m, 0>>] = 0 /\ C[<<m + 1, 0>>] = 0
        BY <1>1, <4>1
      <4> QED
        BY <3>1, <4>2
    <3>2. CASE n # 0
      <4>1. n - 1 \in Nat /\ (n - 1) + 1 = n /\ m + (n - 1) < m + n
        BY <3>2
      <4>2. Grows(m, n - 1)
        BY <2>4, <4>1
      <4>3. C[<<m + 1, n>>] = IF Match(a, b, m + 1, n) THEN C[<<m, n - 1>>] + 1
                              ELSE Larger(C[<<m, n>>], C[<<m + 1, n - 1>>])
        <5>1. C[<<m + 1, (n - 1) + 1>>] =
                IF Match(a, b, m + 1, (n - 1) + 1) THEN C[<<m, n - 1>>] + 1
                ELSE Larger(C[<<m, (n - 1) + 1>>], C[<<m + 1, n - 1>>])
          BY <4>1 DEF IsTable
        <5> QED
          BY <4>1, <5>1
      <4>4. C[<<m, n>>] \in Nat /\ C[<<m, n - 1>>] \in Nat /\ C[<<m + 1, n - 1>>] \in Nat
        BY <1>1, <4>1
      <4>5. /\ C[<<m + 1, n - 1>>] \in C[<<m, n - 1>>]..C[<<m, n - 1>>] + 1
            /\ C[<<m, n>>] \in C[<<m, n - 1>>]..C[<<m, n - 1>>] + 1
        BY <4>1, <4>2
      <4> QED
        BY <4>3, <4>4, <4>5 DEF Larger
    <3> QED
      BY <3>1, <3>2
  <2>6. C[<<m, n + 1>>] \in C[<<m, n>>]..C[<<m, n>>] + 1
    <3>1. CASE m = 0
      <4>1. n + 1 \in Nat
        OBVIOUS
      <4>2. C[<<0, n>>] = 0 /\ C[<<0, n + 1>>] = 0
        BY <1>1, <4>1
      <4> QED
        BY <3>1, <4>2
    <3>2. CASE m # 0
      <4>1. m - 1 \in Nat /\ (m - 1) + 1 = m /\ (m - 1) + n < m + n
        BY <3>2
      <4>2. Grows(m - 1, n)
        BY <2>4, <4>1
      <4>3. C[<<m, n + 1>>] = IF Match(a, b, m, n + 1) THEN C[<<m - 1, n>>] + 1
                              ELSE Larger(C[<<m - 1, n + 1>>], C[<<m, n>>])
        <5>1. C[<<(m - 1) + 1, n + 1>>] =
                IF Match(a, b, (m - 1) + 1, n + 1) THEN C[<<m - 1, n>>] + 1
                ELSE Larger(C[<<m - 1, n + 1>>], C[<<(m - 1) + 1, n>>])
          BY <4>1 DEF IsTable
        <5> QED
          BY <4>1, <5>1
      <4>4. C[<<m, n>>] \in Nat /\ C[<<m - 1, n>>] \in Nat /\ C[<<m - 1, n + 1>>] \in Nat
        BY <1>1, <4>1
      <4>5. /\ C[<<m - 1, n + 1>>] \in C[<<m - 1, n>>]..C[<<m - 1, n>>] + 1
            /\ C[<<m, n>>] \in C[<<m - 1, n>>]..C[<<m - 1, n>>] + 1
        BY <4>1, <4>2
      <4> QED
        BY <4>3, <4>4, <4>5 DEF Larger
    <3> QED
      BY <3>1, <3>2
  <2> QED
    BY <2>3, <2>5, <2>6
<1>3. Grows(i, j)
  <2> HIDE DEF Grows
  <2>1. i + j \in Nat
    OBVIOUS
  <2>2. i + j \notin Bad
    BY <1>2, Zenon
  <2> QED
    BY <2>1, <2>2
<1> QED
  BY <1>1, <1>3

\* The number of edits between the first x lines of a and the first y of b.
Distance(C, x, y) == x + y - 2 * C[<<x, y>>]

(* What one step to the right, down or both does to the distance.           *)
LEMMA DistanceSteps ==
  ASSUME NEW a \in Text, NEW b \in Text, NEW C, IsTable(C, a, b), NEW x \in Nat, NEW y \in Nat
  PROVE  /\ Distance(C, x, y) \in Int
         /\ Distance(C, x + 1, y) \in {Distance(C, x, y) - 1, Distance(C, x, y) + 1}
         /\ Distance(C, x, y + 1) \in {Distance(C, x, y) - 1, Distance(C, x, y) + 1}
         /\ Match(a, b, x + 1, y + 1) => Distance(C, x + 1, y + 1) = Distance(C, x, y)
         /\ ~Match(a, b, x + 1, y + 1) =>
              \/ Distance(C, x + 1, y + 1) = Distance(C, x + 1, y) + 1
              \/ Distance(C, x + 1, y + 1) = Distance(C, x, y + 1) + 1
         /\ Distance(C, x, y) <= Distance(C, x + 1, y + 1)
<1> DEFINE c == C[<<x, y>>]
           r == C[<<x + 1, y>>]
           d == C[<<x, y + 1>>]
           e == C[<<x + 1, y + 1>>]
<1>1. c \in Nat /\ r \in c..c + 1 /\ d \in c..c + 1
  BY TableGrows
<1>2. e = IF Match(a, b, x + 1, y + 1) THEN c + 1 ELSE Larger(d, r)
  BY DEF IsTable
<1> HIDE DEF c, r, d, e
<1>3. /\ Distance(C, x, y) = x + y - 2 * c
      /\ Distance(C, x + 1, y) = x + 1 + y - 2 * r
      /\ Distance(C, x, y + 1) = x + y + 1 - 2 * d
      /\ Distance(C, x + 1, y + 1) = x + y + 2 - 2 * e
  <2>1. Distance(C, x + 1, y) = x + 1 + y - 2 * r /\ Distance(C, x, y) = x + y - 2 * c
    BY DEF Distance, c, r
  <2>2. Distance(C, x, y + 1) = x + (y + 1) - 2 * d
    BY DEF Distance, d
  <2>3. Distance(C, x + 1, y + 1) = x + 1 + (y + 1) - 2 * e
    BY DEF Distance, e
  <2> QED
    BY <1>1, <1>2, <2>1, <2>2, <2>3 DEF Larger
<1> QED
  BY <1>1, <1>2, <1>3 DEF Larger

(* Along a diagonal the distance does not shrink.                           *)
LEMMA DiagonalGrows ==
  ASSUME NEW a \in Text, NEW b \in Text, NEW C, IsTable(C, a, b),
         NEW x \in Nat, NEW y \in Nat, NEW m \in Nat
  PROVE  Distance(C, x, y) <= Distance(C, x + m, y + m)
<1> DEFINE S == {n \in Nat : Distance(C, x, y) <= Distance(C, x + n, y + n)}
<1>0. \A u, v \in Nat : /\ Distance(C, u, v) \in Int
                       /\ Distance(C, u, v) <= Distance(C, u + 1, v + 1)
  <2> SUFFICES ASSUME NEW u \in Nat, NEW v \in Nat
               PROVE  /\ Distance(C, u, v) \in Int
                      /\ Distance(C, u, v) <= Distance(C, u + 1, v + 1)
    OBVIOUS
  <2> QED
    BY DistanceSteps
<1>1. 0 \in S
  <2>1. Distance(C, x, y) \in Int /\ x + 0 = x /\ y + 0 = y
    BY <1>0
  <2> QED
    BY <2>1
<1>2. ASSUME NEW n \in Nat, n \in S
      PROVE  n + 1 \in S
  <2>1. x + n \in Nat /\ y + n \in Nat /\ n + 1 \in Nat
    OBVIOUS
  <2>2. /\ Distance(C, x, y) \in Int
        /\ Distance(C, x + n, y + n) \in Int
        /\ Distance(C, (x + n) + 1, (y + n) + 1) \in Int
        /\ Distance(C, x + n, y + n) <= Distance(C, (x + n) + 1, (y + n) + 1)
    <3>1. x + n + 1 \in Nat /\ y + n + 1 \in Nat
      OBVIOUS
    <3> QED
      BY <1>0, <2>1, <3>1
  <2>3. (x + n) + 1 = x + (n + 1) /\ (y + n) + 1 = y + (n + 1)
    OBVIOUS
  <2>4. Distance(C, x, y) <= Distance(C, x + (n + 1), y + (n + 1))
    BY <1>2, <2>2, <2>3
  <2> QED
    BY <2>1, <2>4
<1> QED
  <2>1. m \in S
    <3> HIDE DEF S
    <3> QED
      BY <1>1, <1>2, AllNumbers
  <2> QED
    BY <2>1

(* At least as many edits as the prefixes differ in length, at most all     *)
(* their lines.                                                             *)
LEMMA DistanceBounds ==
  ASSUME NEW a \in Text, NEW b \in Text, NEW C, IsTable(C, a, b), NEW x \in Nat, NEW y \in Nat
  PROVE  /\ Distance(C, x, 0) = x /\ Distance(C, 0, y) = y
         /\ Distance(C, x, y) \in Nat
         /\ x - y <= Distance(C, x, y) /\ y - x <= Distance(C, x, y)
         /\ Distance(C, x, y) <= x + y
<1>1. \A n \in Nat : C[<<n, 0>>] = 0 /\ C[<<0, n>>] = 0
  BY DEF IsTable
<1>2. \A n \in Nat : Distance(C, n, 0) = n /\ Distance(C, 0, n) = n
  <2> SUFFICES ASSUME NEW n \in Nat
               PROVE  Distance(C, n, 0) = n /\ Distance(C, 0, n) = n
    OBVIOUS
  <2>1. C[<<n, 0>>] = 0 /\ C[<<0, n>>] = 0
    BY <1>1
  <2> QED
    BY <2>1 DEF Distance
<1>3. C[<<x, y>>] \in Nat /\ Distance(C, x, y) \in Int
  BY TableGrows, DistanceSteps
<1>4. Distance(C, x, y) <= x + y
  BY <1>3 DEF Distance
<1>5. CASE x >= y
  <2>1. x - y \in Nat /\ 0 \in Nat /\ (x - y) + y = x /\ 0 + y = y
    BY <1>5
  <2>2. Distance(C, x - y, 0) <= Distance(C, (x - y) + y, 0 + y)
    BY <2>1, DiagonalGrows
  <2>3. x - y <= Distance(C, x, y)
    BY <1>2, <2>1, <2>2
  <2> QED
    BY <1>2, <1>3, <1>4, <1>5, <2>3
<1>6. CASE x < y
  <2>1. y - x \in Nat /\ 0 \in Nat /\ (y - x) + x = y /\ 0 + x = x
    BY <1>6
  <2>2. Distance(C, 0, y - x) <= Distance(C, 0 + x, (y - x) + x)
    BY <2>1, DiagonalGrows
  <2>3. y - x <= Distance(C, x, y)
    BY <1>2, <2>1, <2>2
  <2> QED
    BY <1>2, <1>3, <1>4, <1>6, <2>3
<1> QED
  BY <1>5, <1>6

(* Behind the ends of both texts nothing is equal.                          *)
LEMMA DistanceBehind ==
  ASSUME NEW a \in Text, NEW b \in Text, NEW C, IsTable(C, a, b)
  PROVE  Distance(C, Len(a) + 1, Len(b) + 1) = Distance(C, Len(a), Len(b)) + 2
<1>1. Len(a) \in Nat /\ Len(b) \in Nat
  BY DEF Text
<1>2. \A i, j \in Nat : C[<<i, j>>] \in Nat /\ C[<<i, 0>>] = 0 /\ C[<<0, j>>] = 0
  BY DEF IsTable
<1> DEFINE M == Len(a)
           S == {j \in Nat : C[<<M + 1, j>>] = C[<<M, j>>]}
           U == {i \in Nat : C[<<i, Len(b) + 1>>] = C[<<i, Len(b)>>]}
<1>3. \A j \in Nat : C[<<M + 1, j>>] = C[<<M, j>>]
  <2>1. 0 \in S
    <3>1. M \in Nat /\ M + 1 \in Nat
      BY <1>1
    <3>2. C[<<M + 1, 0>>] = 0 /\ C[<<M, 0>>] = 0
      BY <1>2, <3>1
    <3> QED
      BY <3>2
  <2>2. ASSUME NEW j \in Nat, j \in S
        PROVE  j + 1 \in S
    <3>1. C[<<M + 1, j + 1>>] = Larger(C[<<M, j + 1>>], C[<<M + 1, j>>])
      <4>1. M \in Nat /\ ~Match(a, b, M + 1, j + 1)
        BY <1>1 DEF Match
      <4> HIDE DEF M
      <4> QED
        BY <4>1 DEF IsTable
    <3>2. C[<<M, j>>] \in Nat /\ C[<<M, j + 1>>] \in C[<<M, j>>]..C[<<M, j>>] + 1
      BY <1>1, TableGrows
    <3>3. C[<<M + 1, j>>] = C[<<M, j>>]
      BY <2>2
    <3> QED
      BY <3>1, <3>2, <3>3 DEF Larger
  <2>3. \A j \in Nat : j \in S
    <3> HIDE DEF S
    <3> QED
      BY <2>1, <2>2, AllNumbers
  <2> QED
    BY <2>3
<1>4. C[<<M + 1, Len(b) + 1>>] = C[<<M, Len(b) + 1>>]
  BY <1>1, <1>3
<1>5. \A i \in Nat : C[<<i, Len(b) + 1>>] = C[<<i, Len(b)>>]
  <2>1. 0 \in U
    <3>1. Len(b) \in Nat /\ Len(b) + 1 \in Nat
      BY <1>1
    <3>2. C[<<0, Len(b) + 1>>] = 0 /\ C[<<0, Len(b)>>] = 0
      BY <1>2, <3>1
    <3> QED
      BY <3>2
  <2>2. ASSUME NEW i \in Nat, i \in U
        PROVE  i + 1 \in U
    <3>1. C[<<i + 1, Len(b) + 1>>] = Larger(C[<<i, Len(b) + 1>>], C[<<i + 1, Len(b)>>])
      <4>1. Len(b) \in Nat /\ ~Match(a, b, i + 1, Len(b) + 1)
        BY <1>1 DEF Match
      <4> QED
        BY <4>1 DEF IsTable
    <3>2. /\ C[<<i, Len(b)>>] \in Nat
          /\ C[<<i + 1, Len(b)>>] \in C[<<i, Len(b)>>]..C[<<i, Len(b)>>] + 1
      BY <1>1, TableGrows
    <3>3. C[<<i, Len(b) + 1>>] = C[<<i, Len(b)>>]
      BY <2>2
    <3> QED
      BY <3>1, <3>2, <3>3 DEF Larger
  <2>3. \A i \in Nat : i \in U
    <3> HIDE DEF U
    <3> QED
      BY <2>1, <2>2, AllNumbers
  <2> QED
    BY <2>3
<1>6. C[<<M, Len(b) + 1>>] = C[<<M, Len(b)>>]
  BY <1>1, <1>5
<1>7. C[<<M, Len(b)>>] \in Nat
  BY <1>1, <1>2
<1>8. C[<<M + 1, Len(b) + 1>>] = C[<<M, Len(b)>>]
  BY <1>4, <1>6
<1> DEFINE c == C[<<M, Len(b)>>]
           e == C[<<M + 1, Len(b) + 1>>]
<1>9. e = c /\ c \in Nat
  BY <1>7, <1>8
<1>10. /\ Distance(C, M + 1, Len(b) + 1) = M + 1 + (Len(b) + 1) - 2 * e
       /\ Distance(C, M, Len(b)) = M + Len(b) - 2 * c
  BY DEF Distance
<1> HIDE DEF c, e
<1>11. Distance(C, M + 1, Len(b) + 1) = Distance(C, M, Len(b)) + 2
  BY <1>1, <1>9, <1>10
<1> QED
  BY <1>11

(* The reference definition computes an entry of the table.                 *)
LEMMA CommonIsEntry ==
  ASSUME NEW a \in Text, NEW b \in Text, NEW C, IsTable(C, a, b)
  PROVE  Common(a, b) = C[<<Len(a), Len(b)>>]
<1> DEFINE Grid == (0..Len(a)) \X (0..Len(b))
           Entry(g, p) == IF p[1] = 0 \/ p[2] = 0 THEN 0
                          ELSE IF a[p[1]] = b[p[2]] THEN g[<<p[1] - 1, p[2] - 1>>] + 1
                          ELSE Max({g[<<p[1] - 1, p[2]>>], g[<<p[1], p[2] - 1>>]})
           Computes(g) == g = [p \in Grid |-> Entry(g, p)]
           h == [p \in Grid |-> C[p]]
<1>1. Len(a) \in Nat /\ Len(b) \in Nat
  BY DEF Text
<1>2. /\ \A i, j \in Nat : C[<<i, j>>] \in Nat
      /\ \A i \in Nat : C[<<i, 0>>] = 0 /\ C[<<0, i>>] = 0
  BY DEF IsTable
<1>3. ASSUME NEW i \in 1..Len(a), NEW j \in 1..Len(b)
      PROVE  C[<<i, j>>] = IF a[i] = b[j] THEN C[<<i - 1, j - 1>>] + 1
                           ELSE Max({C[<<i - 1, j>>], C[<<i, j - 1>>]})
  <2>1. i - 1 \in Nat /\ j - 1 \in Nat /\ (i - 1) + 1 = i /\ (j - 1) + 1 = j
    BY <1>1
  <2>2. C[<<(i - 1) + 1, (j - 1) + 1>>] =
          IF Match(a, b, (i - 1) + 1, (j - 1) + 1) THEN C[<<i - 1, j - 1>>] + 1
          ELSE Larger(C[<<i - 1, (j - 1) + 1>>], C[<<(i - 1) + 1, j - 1>>])
    BY <2>1 DEF IsTable
  <2>3. C[<<i, j>>] = IF Match(a, b, i, j) THEN C[<<i - 1, j - 1>>] + 1
                      ELSE Larger(C[<<i - 1, j>>], C[<<i, j - 1>>])
    BY <2>1, <2>2
  <2>4. Match(a, b, i, j) <=> a[i] = b[j]
    BY DEF Match
  <2>5. \A m, n \in Nat : Max({m, n}) = Larger(m, n)
    BY DEF Max, Larger
  <2>6. C[<<i - 1, j>>] \in Nat /\ C[<<i, j - 1>>] \in Nat
    <3>1. i \in Nat /\ j \in Nat
      BY <1>1
    <3> QED
      BY <1>2, <2>1, <3>1
  <2> QED
    BY <2>3, <2>4, <2>5, <2>6
<1>4. ASSUME NEW g, NEW s \in Nat,
             \A i \in 0..Len(a), j \in 0..Len(b) : i + j < s => g[<<i, j>>] = C[<<i, j>>]
      PROVE  \A i \in 0..Len(a), j \in 0..Len(b) : i + j <= s => Entry(g, <<i, j>>) = C[<<i, j>>]
  <2> SUFFICES ASSUME NEW i \in 0..Len(a), NEW j \in 0..Len(b), i + j <= s
               PROVE  Entry(g, <<i, j>>) = C[<<i, j>>]
    OBVIOUS
  <2>1. CASE i = 0 \/ j = 0
    <3>1. i \in Nat /\ j \in Nat /\ Entry(g, <<i, j>>) = 0
      BY <1>1, <2>1
    <3>2. C[<<i, j>>] = 0
      <4> HIDE DEF Entry
      <4> QED
        BY <1>2, <2>1, <3>1
    <3> QED
      BY <3>1, <3>2
  <2>2. CASE i # 0 /\ j # 0
    <3>1. i \in 1..Len(a) /\ j \in 1..Len(b) /\ i - 1 \in 0..Len(a) /\ j - 1 \in 0..Len(b)
      BY <1>1, <2>2
    <3>2. (i - 1) + (j - 1) < s /\ (i - 1) + j < s /\ i + (j - 1) < s
      BY <1>1, <3>1
    <3>3. /\ g[<<i - 1, j - 1>>] = C[<<i - 1, j - 1>>]
          /\ g[<<i - 1, j>>] = C[<<i - 1, j>>]
          /\ g[<<i, j - 1>>] = C[<<i, j - 1>>]
      BY <1>4, <3>1, <3>2
    <3>4. Entry(g, <<i, j>>) = IF a[i] = b[j] THEN g[<<i - 1, j - 1>>] + 1
                               ELSE Max({g[<<i - 1, j>>], g[<<i, j - 1>>]})
      BY <2>2
    <3>5. C[<<i, j>>] = IF a[i] = b[j] THEN C[<<i - 1, j - 1>>] + 1
                        ELSE Max({C[<<i - 1, j>>], C[<<i, j - 1>>]})
      BY <1>3, <3>1, Zenon
    <3> HIDE DEF Entry
    <3> QED
      <4>1. CASE a[i] = b[j]
        <5>1. Entry(g, <<i, j>>) = g[<<i - 1, j - 1>>] + 1
          BY <3>4, <4>1
        <5>2. C[<<i, j>>] = C[<<i - 1, j - 1>>] + 1
          BY <3>5, <4>1
        <5> QED
          BY <3>3, <5>1, <5>2
      <4>2. CASE a[i] # b[j]
        <5>1. Entry(g, <<i, j>>) = Max({g[<<i - 1, j>>], g[<<i, j - 1>>]})
          BY <3>4, <4>2
        <5>2. C[<<i, j>>] = Max({C[<<i - 1, j>>], C[<<i, j - 1>>]})
          BY <3>5, <4>2
        <5> QED
          BY <3>3, <5>1, <5>2
      <4> QED
        BY <4>1, <4>2
  <2> QED
    BY <2>1, <2>2
<1>5. Computes(h)
  <2>1. \A i \in 0..Len(a), j \in 0..Len(b) : h[<<i, j>>] = C[<<i, j>>]
    OBVIOUS
  <2> HIDE DEF h, Entry
  <2>2. ASSUME NEW p \in Grid
        PROVE  Entry(h, p) = C[p]
    <3>1. p = <<p[1], p[2]>> /\ p[1] \in 0..Len(a) /\ p[2] \in 0..Len(b)
      OBVIOUS
    <3>2. p[1] + p[2] \in Nat
      BY <1>1, <3>1
    <3>3. Entry(h, <<p[1], p[2]>>) = C[<<p[1], p[2]>>]
      <4>1. p[1] + p[2] <= p[1] + p[2]
        BY <1>1, <3>1
      <4>2. \A i \in 0..Len(a), j \in 0..Len(b) :
              i + j <= p[1] + p[2] => Entry(h, <<i, j>>) = C[<<i, j>>]
        BY <1>4, <2>1, <3>2
      <4> QED
        BY <3>1, <4>1, <4>2, Zenon
    <3> QED
      BY <3>1, <3>3
  <2> QED
    BY <2>2 DEF h
<1>6. ASSUME NEW g, Computes(g)
      PROVE  g[<<Len(a), Len(b)>>] = C[<<Len(a), Len(b)>>]
  <2> DEFINE S == {s \in Nat : \A i \in 0..Len(a), j \in 0..Len(b) :
                                 i + j < s => g[<<i, j>>] = C[<<i, j>>]}
  <2>1. 0 \in S
    BY <1>1
  <2> HIDE DEF Entry
  <2>2. \A i \in 0..Len(a), j \in 0..Len(b) : g[<<i, j>>] = Entry(g, <<i, j>>)
    BY <1>6
  <2>3. ASSUME NEW s \in Nat, s \in S
        PROVE  s + 1 \in S
    <3>1. \A i \in 0..Len(a), j \in 0..Len(b) : i + j <= s => Entry(g, <<i, j>>) = C[<<i, j>>]
      BY <1>4, <2>3
    <3>2. \A i \in 0..Len(a), j \in 0..Len(b) : i + j < s + 1 => i + j <= s
      BY <1>1
    <3> QED
      BY <2>2, <3>1, <3>2
  <2>4. Len(a) + Len(b) + 1 \in S
    <3>1. Len(a) + Len(b) + 1 \in Nat
      BY <1>1
    <3> HIDE DEF S
    <3> QED
      BY <2>1, <2>3, <3>1, AllNumbers
  <2> QED
    BY <1>1, <2>4
<1>7. Common(a, b) = (CHOOSE g : Computes(g))[<<Len(a), Len(b)>>]
  BY Zenon DEF Common
<1>8. Computes(CHOOSE g : Computes(g))
  <2> HIDE DEF Computes, h
  <2> QED
    BY <1>5
<1> QED
  <2> HIDE DEF Computes
  <2> QED
    BY <1>6, <1>7, <1>8

-----------------------------------------------------------------------------
(* The rounds of the search.                                                *)

\* The s lines behind a point are equal.
EqualRun(a, b, x, y, s) == \A i \in 1..s : Match(a, b, x + i, y + i)

(* Slide goes over equal lines, and up to lines that are not.               *)
LEMMA SlideIsFar ==
  ASSUME NEW a \in Text, NEW b \in Text, NEW x \in Int, NEW y \in Int
  PROVE  /\ Slide(a, b, x, y) \in Nat
         /\ x \in Nat /\ y \in Nat =>
              /\ EqualRun(a, b, x, y, Slide(a, b, x, y))
              /\ ~Match(a, b, x + Slide(a, b, x, y) + 1, y + Slide(a, b, x, y) + 1)
<1> DEFINE S == {n \in 0..Len(a) :
                   \A i \in 1..n : x + i <= Len(a) /\ y + i <= Len(b) /\ a[x + i] = b[y + i]}
           s == Slide(a, b, x, y)
<1>1. Len(a) \in Nat /\ Len(b) \in Nat
  BY DEF Text
<1>2. S \in SUBSET (0..Len(a)) /\ 0 \in S
  BY <1>1
<1>3. s = Max(S)
  BY DEF Slide
<1>4. s \in S /\ \A n \in S : n <= s
  <2> HIDE DEF S, s
  <2> QED
    BY <1>1, <1>2, <1>3, MaxOfBounded
<1> HIDE DEF s
<1>5. s \in Nat
  BY <1>1, <1>4
<1>6. ASSUME x \in Nat, y \in Nat
      PROVE  EqualRun(a, b, x, y, s)
  BY <1>1, <1>4, <1>6 DEF EqualRun, Match
<1>7. ASSUME x \in Nat, y \in Nat, Match(a, b, x + s + 1, y + s + 1)
      PROVE  FALSE
  <2>1. s + 1 \in 0..Len(a)
    BY <1>1, <1>5, <1>7 DEF Match
  <2>2. ASSUME NEW i \in 1..s + 1
        PROVE  x + i <= Len(a) /\ y + i <= Len(b) /\ a[x + i] = b[y + i]
    <3>1. i \in 1..s \/ i = s + 1
      BY <1>5
    <3>2. CASE i \in 1..s
      BY <1>4, <3>2
    <3>3. CASE i = s + 1
      <4>1. x + i = x + s + 1 /\ y + i = y + s + 1
        BY <1>5, <3>3
      <4> QED
        BY <1>7, <4>1 DEF Match
    <3> QED
      BY <3>1, <3>2, <3>3
  <2>3. s + 1 \in S
    BY <2>1, <2>2
  <2>4. s + 1 <= s
    <3> HIDE DEF S
    <3> QED
      BY <1>4, <2>3
  <2> QED
    BY <1>5, <2>4
<1> QED
  BY <1>5, <1>6, <1>7 DEF s

(* Equal lines cost no edits.                                               *)
LEMMA EqualLinesAreFree ==
  ASSUME NEW a \in Text, NEW b \in Text, NEW C, IsTable(C, a, b),
         NEW x \in Nat, NEW y \in Nat, NEW s \in Nat,
         EqualRun(a, b, x, y, s)
  PROVE  Distance(C, x + s, y + s) = Distance(C, x, y)
<1> DEFINE S == {n \in Nat : n <= s => Distance(C, x + n, y + n) = Distance(C, x, y)}
<1>0. \A u, v \in Nat :
        Match(a, b, u + 1, v + 1) => Distance(C, u + 1, v + 1) = Distance(C, u, v)
  <2> SUFFICES ASSUME NEW u \in Nat, NEW v \in Nat
               PROVE  Match(a, b, u + 1, v + 1) =>
                        Distance(C, u + 1, v + 1) = Distance(C, u, v)
    OBVIOUS
  <2> QED
    BY DistanceSteps
<1>1. 0 \in S
  OBVIOUS
<1>2. ASSUME NEW n \in Nat, n \in S
      PROVE  n + 1 \in S
  <2>1. CASE n + 1 <= s
    <3>1. n <= s /\ x + n \in Nat /\ y + n \in Nat
      BY <2>1
    <3>2. Match(a, b, (x + n) + 1, (y + n) + 1)
      <4>1. n + 1 \in 1..s /\ (x + n) + 1 = x + (n + 1) /\ (y + n) + 1 = y + (n + 1)
        BY <2>1
      <4> QED
        BY <4>1 DEF EqualRun
    <3>3. Distance(C, (x + n) + 1, (y + n) + 1) = Distance(C, x + n, y + n)
      BY <1>0, <3>1, <3>2, Zenon
    <3>4. (x + n) + 1 = x + (n + 1) /\ (y + n) + 1 = y + (n + 1)
      OBVIOUS
    <3>5. Distance(C, x + (n + 1), y + (n + 1)) = Distance(C, x, y)
      BY <1>2, <3>1, <3>3, <3>4
    <3> QED
      BY <3>5
  <2>2. CASE ~(n + 1 <= s)
    BY <2>2
  <2> QED
    BY <2>1, <2>2
<1> QED
  <2>1. s \in S
    <3> HIDE DEF S
    <3> QED
      BY <1>1, <1>2, AllNumbers
  <2> QED
    BY <2>1

\* The lines of both texts, and what V may hold.
Span(a, b) == Len(a) + Len(b)
Diagonal(a, b) == -Span(a, b)..Span(a, b)
Zeros(a, b) == [k \in Diagonal(a, b) |-> 0]

(* A round gives every diagonal a number again.                             *)
LEMMA RoundIsTyped ==
  ASSUME NEW a \in Text, NEW b \in Text, Span(a, b) # 0,
         NEW V \in [Diagonal(a, b) -> Int], NEW d \in 0..Span(a, b)
  PROVE  Round(a, b, V, d) \in [Diagonal(a, b) -> Int]
<1>1. Span(a, b) \in Nat
  BY DEF Text, Span
<1> SUFFICES ASSUME NEW k \in Diagonal(a, b)
             PROVE  Round(a, b, V, d)[k] \in Int
  BY DEF Round
<1>2. CASE k \notin Diagonals(d)
  BY <1>2 DEF Round
<1>3. CASE k \in Diagonals(d)
  <2> DEFINE x == IF KPrev(V, d, k) = k + 1 THEN V[k + 1] ELSE V[k - 1] + 1
  <2>1. k \in Int /\ (KPrev(V, d, k) = k + 1 => k + 1 \in Diagonal(a, b))
                  /\ (KPrev(V, d, k) # k + 1 => k - 1 \in Diagonal(a, b))
    BY <1>1, <1>3 DEF KPrev, Diagonals, Diagonal
  <2>2. x \in Int
    BY <2>1
  <2>3. Round(a, b, V, d)[k] = x + Slide(a, b, x, x - k)
    BY <1>3 DEF Round
  <2> HIDE DEF x
  <2>4. Slide(a, b, x, x - k) \in Nat
    <3>1. x - k \in Int
      BY <2>1, <2>2
    <3> QED
      BY <2>2, <3>1, SlideIsFar
  <2> QED
    BY <2>2, <2>3, <2>4
<1> QED
  BY <1>2, <1>3

(* Each round is made of the one before.                                    *)
LEMMA RoundsFollow ==
  ASSUME NEW a \in Text, NEW b \in Text, Span(a, b) # 0
  PROVE  /\ Rounds(a, b) \in [0..Span(a, b) -> [Diagonal(a, b) -> Int]]
         /\ Rounds(a, b)[0] = Round(a, b, Zeros(a, b), 0)
         /\ \A d \in 1..Span(a, b) : Rounds(a, b)[d] = Round(a, b, Rounds(a, b)[d - 1], d)
<1> DEFINE L == Span(a, b)
           T == [Diagonal(a, b) -> Int]
           step == [p \in T \X Nat |-> IF p[2] < L THEN Round(a, b, p[1], p[2] + 1) ELSE p[1]]
           Computes(V) == V = [d \in 0..L |->
                                 Round(a, b, IF d = 0 THEN Zeros(a, b) ELSE V[d - 1], d)]
           first == Round(a, b, Zeros(a, b), 0)
<1>1. L \in Nat /\ Zeros(a, b) \in T
  BY DEF Text, Span, Zeros
<1>2. first \in T
  BY <1>1, RoundIsTyped
<1>3. step \in [T \X Nat -> T]
  <2>1. ASSUME NEW p \in T \X Nat
        PROVE  (IF p[2] < L THEN Round(a, b, p[1], p[2] + 1) ELSE p[1]) \in T
    <3>1. p[1] \in T /\ p[2] \in Nat
      OBVIOUS
    <3>2. CASE p[2] < L
      <4>1. p[2] + 1 \in 0..L
        BY <1>1, <3>1, <3>2
      <4> QED
        BY <3>1, <3>2, <4>1, RoundIsTyped
    <3> QED
      BY <3>1, <3>2
  <2> HIDE DEF T, L
  <2> QED
    BY <2>1
<1> HIDE DEF T, first
<1>4. \A V \in T, n \in Nat : n < L => step[<<V, n>>] = Round(a, b, V, n + 1)
  OBVIOUS
<1>5. PICK h : StepsTo(h, T, first, step, L)
  <2> HIDE DEF step
  <2> QED
    BY <1>1, <1>2, <1>3, StepByStep
<1> HIDE DEF step
<1>6. h \in [0..L -> T] /\ h[0] = first /\ \A i \in 0..L - 1 : h[i + 1] = step[<<h[i], i>>]
  BY <1>5 DEF StepsTo
<1>7. Computes(h)
  <2>1. ASSUME NEW d \in 0..L
        PROVE  h[d] = Round(a, b, IF d = 0 THEN Zeros(a, b) ELSE h[d - 1], d)
    <3>1. CASE d = 0
      BY <1>6, <3>1 DEF first
    <3>2. CASE d # 0
      <4>1. d - 1 \in 0..L - 1 /\ d - 1 \in 0..L /\ d - 1 \in Nat /\ d - 1 < L /\ (d - 1) + 1 = d
        BY <1>1, <3>2
      <4>2. h[d - 1] \in T
        BY <1>6, <4>1
      <4>3. h[(d - 1) + 1] = step[<<h[d - 1], d - 1>>]
        BY <1>6, <4>1
      <4>4. step[<<h[d - 1], d - 1>>] = Round(a, b, h[d - 1], (d - 1) + 1)
        BY <1>4, <4>1, <4>2
      <4> QED
        BY <3>2, <4>1, <4>3, <4>4
    <3> QED
      BY <3>1, <3>2
  <2>2. h = [d \in 0..L |-> h[d]]
    BY <1>6
  <2> QED
    BY <2>1, <2>2
<1>8. Rounds(a, b) = CHOOSE V : Computes(V)
  BY Zenon DEF Rounds, Span, Zeros, Diagonal
<1>9. Computes(Rounds(a, b))
  <2> HIDE DEF Computes
  <2> QED
    BY <1>7, <1>8
<1> DEFINE R == Rounds(a, b)
<1> HIDE DEF R
<1>10. R = [d \in 0..L |-> Round(a, b, IF d = 0 THEN Zeros(a, b) ELSE R[d - 1], d)]
  BY <1>9, Zenon DEF R
<1>11. \A d \in 0..L : R[d] = Round(a, b, IF d = 0 THEN Zeros(a, b) ELSE R[d - 1], d)
  BY <1>10, Zenon
<1>12. R[0] = first
  BY <1>1, <1>11 DEF first
<1>13. \A d \in 1..L : R[d] = Round(a, b, R[d - 1], d)
  BY <1>1, <1>11
<1>14. \A d \in 0..L : R[d] \in T
  <2> DEFINE S == {d \in Nat : d <= L => R[d] \in T}
  <2>1. 0 \in S
    BY <1>2, <1>12
  <2>2. ASSUME NEW d \in Nat, d \in S
        PROVE  d + 1 \in S
    <3>1. CASE d + 1 <= L
      <4>1. d + 1 \in 1..L /\ d + 1 \in 0..L /\ (d + 1) - 1 = d /\ d <= L
        BY <1>1, <3>1
      <4>2. R[d] \in T /\ R[d + 1] = Round(a, b, R[d], d + 1)
        BY <1>13, <2>2, <4>1
      <4>3. R[d + 1] \in T
        BY <4>1, <4>2, RoundIsTyped DEF T
      <4> QED
        BY <4>3
    <3> QED
      BY <1>1, <3>1
  <2>3. \A d \in Nat : d \in S
    <3> HIDE DEF S
    <3> QED
      BY <2>1, <2>2, AllNumbers
  <2> QED
    BY <1>1, <2>3
<1>15. R \in [0..L -> T]
  BY <1>10, <1>14, Zenon
<1> QED
  BY <1>12, <1>13, <1>15 DEF R, T, first

\* After round d: on each of its diagonals, the last point that d edits reach.
Furthest(C, V, d) ==
  \A k \in Diagonals(d) :
    /\ V[k] \in Nat /\ V[k] - k \in Nat
    /\ Distance(C, V[k], V[k] - k) <= d
    /\ Distance(C, V[k] + 1, V[k] - k + 1) > d

\* Where a diagonal is reached in round d.
Entered(V, d, k) == IF KPrev(V, d, k) = k + 1 THEN V[k + 1] ELSE V[k - 1] + 1

(* A round goes on from there as long as lines are equal.                   *)
LEMMA RoundSlides ==
  ASSUME NEW a \in Text, NEW b \in Text, NEW C, IsTable(C, a, b),
         NEW V \in [Diagonal(a, b) -> Int], NEW d \in Nat,
         NEW k \in Diagonals(d), k \in Diagonal(a, b),
         NEW x \in Nat, NEW y \in Nat, x = Entered(V, d, k), y = x - k
  PROVE  \E s \in Nat :
           /\ Round(a, b, V, d)[k] = x + s
           /\ EqualRun(a, b, x, y, s)
           /\ ~Match(a, b, x + s + 1, y + s + 1)
           /\ Distance(C, x + s, y + s) = Distance(C, x, y)
<1> DEFINE s == Slide(a, b, x, y)
<1>1. Round(a, b, V, d)[k] = x + s
  BY DEF Round, Entered
<1>2. /\ s \in Nat
      /\ EqualRun(a, b, x, y, s)
      /\ ~Match(a, b, x + s + 1, y + s + 1)
  BY SlideIsFar
<1> HIDE DEF s
<1>3. Distance(C, x + s, y + s) = Distance(C, x, y)
  BY <1>2, EqualLinesAreFree
<1> QED
  BY <1>1, <1>2, <1>3

(* Behind the last point of a diagonal, d edits are not enough.             *)
LEMMA BehindFurthest ==
  ASSUME NEW a \in Text, NEW b \in Text, NEW C, IsTable(C, a, b),
         NEW d \in Nat, NEW V, Furthest(C, V, d),
         NEW x \in Nat, NEW y \in Nat,
         x - y \notin Diagonals(d) => x - y > d \/ y - x > d,
         x - y \in Diagonals(d) => x > V[x - y]
  PROVE  Distance(C, x, y) > d
<1>1. Distance(C, x, y) \in Nat /\ x - y <= Distance(C, x, y) /\ y - x <= Distance(C, x, y)
  BY DistanceBounds
<1>2. CASE x - y \notin Diagonals(d)
  BY <1>1, <1>2
<1>3. CASE x - y \in Diagonals(d)
  <2> DEFINE k == x - y
             u == V[k] + 1
             v == V[k] - k + 1
             m == x - u
  <2>1. k \in Int /\ V[k] \in Nat /\ V[k] - k \in Nat /\ Distance(C, u, v) > d
    BY <1>3 DEF Furthest
  <2>2. u \in Nat /\ v \in Nat /\ m \in Nat
    BY <1>3, <2>1
  <2>3. u + m = x /\ v + m = y
    BY <2>1
  <2> HIDE DEF u, v, m, k
  <2>4. Distance(C, u, v) <= Distance(C, u + m, v + m)
    BY <2>2, DiagonalGrows
  <2>5. Distance(C, u, v) \in Nat
    BY <2>2, DistanceBounds
  <2> QED
    BY <1>1, <2>1, <2>3, <2>4, <2>5
<1> QED
  BY <1>2, <1>3

\* What round zero finds: s lines that both texts begin with.
FirstRun(C, a, b, s) ==
  /\ s \in Nat
  /\ Round(a, b, Zeros(a, b), 0)[0] = s
  /\ EqualRun(a, b, 0, 0, s)
  /\ ~Match(a, b, s + 1, s + 1)
  /\ Distance(C, s, s) = 0

(* Round zero goes from the beginning of both texts.                        *)
LEMMA FirstRoundSlides ==
  ASSUME NEW a \in Text, NEW b \in Text, NEW C, IsTable(C, a, b), Span(a, b) # 0
  PROVE  \E s : FirstRun(C, a, b, s)
<1>1. Span(a, b) \in Nat /\ Span(a, b) >= 1
  BY DEF Span, Text
<1>2. Zeros(a, b) \in [Diagonal(a, b) -> Int] /\ 0 \in Diagonal(a, b) /\ 1 \in Diagonal(a, b)
  BY <1>1 DEF Zeros, Diagonal
<1>3. Diagonals(0) = {0}
  BY DEF Diagonals
<1>4. Entered(Zeros(a, b), 0, 0) = 0
  <2>1. Zeros(a, b)[1] = 0
    BY <1>2 DEF Zeros
  <2>2. \A V, d, k : k = -d => KPrev(V, d, k) = k + 1
    BY DEF KPrev
  <2>3. KPrev(Zeros(a, b), 0, 0) = 1
    BY <2>2
  <2> QED
    BY <2>1, <2>3 DEF Entered
<1>5. PICK s \in Nat : /\ Round(a, b, Zeros(a, b), 0)[0] = 0 + s
                       /\ EqualRun(a, b, 0, 0, s)
                       /\ ~Match(a, b, 0 + s + 1, 0 + s + 1)
                       /\ Distance(C, 0 + s, 0 + s) = Distance(C, 0, 0)
  <2>1. 0 \in Nat /\ 0 \in Diagonals(0) /\ 0 = 0 - 0
    BY <1>3
  <2> QED
    BY <1>2, <1>4, <2>1, RoundSlides
<1>6. Distance(C, 0, 0) = 0
  BY DistanceBounds
<1> QED
  BY <1>5, <1>6 DEF FirstRun

(* Round zero reaches what needs no edits.                                  *)
LEMMA FurthestAtFirst ==
  ASSUME NEW a \in Text, NEW b \in Text, NEW C, IsTable(C, a, b), Span(a, b) # 0
  PROVE  Furthest(C, Round(a, b, Zeros(a, b), 0), 0)
<1>1. Diagonals(0) = {0}
  BY DEF Diagonals
<1>2. PICK s : FirstRun(C, a, b, s)
  BY FirstRoundSlides
<1>3. /\ s \in Nat
      /\ Round(a, b, Zeros(a, b), 0)[0] = s
      /\ ~Match(a, b, s + 1, s + 1)
      /\ Distance(C, s, s) = 0
  BY <1>2 DEF FirstRun
<1>4. Distance(C, s + 1, s + 1) > 0
  <2>1. s + 1 \in Nat
    BY <1>3
  <2>2. \/ Distance(C, s + 1, s + 1) = Distance(C, s + 1, s) + 1
        \/ Distance(C, s + 1, s + 1) = Distance(C, s, s + 1) + 1
    BY <1>3, DistanceSteps
  <2>3. Distance(C, s + 1, s) \in Nat /\ Distance(C, s, s + 1) \in Nat
    BY <1>3, <2>1, DistanceBounds
  <2> QED
    BY <2>2, <2>3
<1>5. s - 0 = s /\ s - 0 + 1 = s + 1
  BY <1>3
<1> QED
  BY <1>1, <1>3, <1>4, <1>5 DEF Furthest

(* The diagonal a round comes from is one of the round before, and the step *)
(* from it, down or to the right, is behind both its neighbours.            *)
LEMMA ComesFrom ==
  ASSUME NEW d \in Nat, NEW C, NEW V, Furthest(C, V, d), NEW k \in Diagonals(d + 1),
         NEW j, j = KPrev(V, d + 1, k),
         NEW x, x = Entered(V, d + 1, k)
  PROVE  /\ j \in Diagonals(d) /\ k \in Int /\ V[j] \in Nat /\ V[j] - j \in Nat
         /\ \/ j = k + 1 /\ x = V[j] /\ x - k = V[j] - j + 1
            \/ j = k - 1 /\ x = V[j] + 1 /\ x - k = V[j] - j
         /\ x \in Nat /\ x - k \in Nat
         /\ k + 1 \in Diagonals(d) => x >= V[k + 1]
         /\ k + 1 \notin Diagonals(d) => k + 1 > d
         /\ k - 1 \in Diagonals(d) => x > V[k - 1]
         /\ k - 1 \notin Diagonals(d) => 1 - k > d
<1>1. k \in Int /\ k >= -(d + 1) /\ k <= d + 1 /\ (k + (d + 1)) % 2 = 0
  BY DEF Diagonals
<1>2. \A l \in Diagonals(d) : V[l] \in Nat /\ V[l] - l \in Nat
  BY DEF Furthest
<1>3. ((k + 1) + d) % 2 = 0 /\ ((k - 1) + d) % 2 = 0
  BY <1>1
<1>4. k + 1 \in Diagonals(d) <=> k # d + 1
  <2>1. k + 1 \in -d..d <=> k # d + 1 /\ k + 1 >= -d /\ k + 1 <= d
    BY <1>1
  <2>2. k # d
    BY <1>1
  <2> QED
    BY <1>1, <1>3, <2>2 DEF Diagonals
<1>5. k - 1 \in Diagonals(d) <=> k # -(d + 1)
  <2>1. k # -d
    BY <1>1
  <2> QED
    BY <1>1, <1>3, <2>1 DEF Diagonals
<1>6. CASE k = -(d + 1)
  <2>1. j = k + 1 /\ x = V[k + 1] /\ k # d + 1
    BY <1>1, <1>6 DEF KPrev, Entered
  <2> QED
    BY <1>1, <1>2, <1>4, <1>5, <1>6, <2>1
<1>7. CASE k # -(d + 1) /\ k = d + 1
  <2>1. j = k - 1 /\ x = V[k - 1] + 1
    BY <1>1, <1>7 DEF KPrev, Entered
  <2> QED
    BY <1>1, <1>2, <1>4, <1>5, <1>7, <2>1
<1>8. CASE k # -(d + 1) /\ k # d + 1 /\ V[k - 1] < V[k + 1]
  <2>1. j = k + 1 /\ x = V[k + 1]
    BY <1>1, <1>8 DEF KPrev, Entered
  <2> QED
    BY <1>1, <1>2, <1>4, <1>5, <1>8, <2>1
<1>9. CASE k # -(d + 1) /\ k # d + 1 /\ ~(V[k - 1] < V[k + 1])
  <2>1. j = k - 1 /\ x = V[k - 1] + 1
    BY <1>1, <1>9 DEF KPrev, Entered
  <2> QED
    BY <1>1, <1>2, <1>4, <1>5, <1>9, <2>1
<1> QED
  BY <1>6, <1>7, <1>8, <1>9

(* Each round reaches what one edit more reaches.                           *)
LEMMA FurthestNext ==
  ASSUME NEW a \in Text, NEW b \in Text, NEW C, IsTable(C, a, b),
         NEW V \in [Diagonal(a, b) -> Int], NEW d \in Nat, d + 1 <= Span(a, b),
         Furthest(C, V, d)
  PROVE  Furthest(C, Round(a, b, V, d + 1), d + 1)
<1> SUFFICES ASSUME NEW k \in Diagonals(d + 1)
             PROVE  LET z == Round(a, b, V, d + 1)[k]
                    IN  /\ z \in Nat /\ z - k \in Nat
                        /\ Distance(C, z, z - k) <= d + 1
                        /\ Distance(C, z + 1, z - k + 1) > d + 1
  BY DEF Furthest
<1>1. PICK x, j : x = Entered(V, d + 1, k) /\ j = KPrev(V, d + 1, k)
  OBVIOUS
<1>2. /\ j \in Diagonals(d) /\ k \in Int /\ V[j] \in Nat /\ V[j] - j \in Nat
      /\ \/ j = k + 1 /\ x = V[j] /\ x - k = V[j] - j + 1
         \/ j = k - 1 /\ x = V[j] + 1 /\ x - k = V[j] - j
      /\ x \in Nat /\ x - k \in Nat
      /\ k + 1 \in Diagonals(d) => x >= V[k + 1]
      /\ k + 1 \notin Diagonals(d) => k + 1 > d
      /\ k - 1 \in Diagonals(d) => x > V[k - 1]
      /\ k - 1 \notin Diagonals(d) => 1 - k > d
  BY <1>1, ComesFrom
<1>3. k \in Diagonal(a, b)
  <2>1. Span(a, b) \in Nat
    BY DEF Text, Span
  <2> QED
    BY <2>1 DEF Diagonals, Diagonal
<1>4. PICK y \in Nat : y = x - k
  BY <1>2
<1>5. PICK s \in Nat : /\ Round(a, b, V, d + 1)[k] = x + s
                       /\ ~Match(a, b, x + s + 1, y + s + 1)
                       /\ Distance(C, x + s, y + s) = Distance(C, x, y)
  <2>1. x \in Nat /\ d + 1 \in Nat
    BY <1>2
  <2> QED
    BY <1>1, <1>3, <1>4, <2>1, RoundSlides
<1>6. Distance(C, x, y) <= d + 1
  <2> DEFINE u == V[j]
             v == V[j] - j
  <2>1. u \in Nat /\ v \in Nat /\ Distance(C, u, v) <= d
    BY <1>2 DEF Furthest
  <2>2. \/ x = u /\ y = v + 1
        \/ x = u + 1 /\ y = v
    BY <1>2, <1>4
  <2> HIDE DEF u, v
  <2>3. /\ Distance(C, u, v) \in Int
        /\ Distance(C, u + 1, v) \in {Distance(C, u, v) - 1, Distance(C, u, v) + 1}
        /\ Distance(C, u, v + 1) \in {Distance(C, u, v) - 1, Distance(C, u, v) + 1}
    BY <2>1, DistanceSteps
  <2> QED
    BY <2>1, <2>2, <2>3
<1>7. PICK p \in Nat, q \in Nat : p = x + s /\ q = y + s
  BY <1>2
<1>8. p - q = k /\ p >= x
  BY <1>2, <1>4, <1>7
<1>9. Distance(C, p + 1, q) > d
  <2>1. p + 1 \in Nat /\ (p + 1) - q = k + 1
    BY <1>7, <1>8
  <2>2. /\ (p + 1) - q \notin Diagonals(d) => (p + 1) - q > d
        /\ (p + 1) - q \in Diagonals(d) => p + 1 > V[(p + 1) - q]
    <3>1. k + 1 \in Diagonals(d) => V[k + 1] \in Nat
      BY DEF Furthest
    <3> QED
      BY <1>2, <1>8, <2>1, <3>1
  <2> QED
    BY <2>1, <2>2, BehindFurthest
<1>10. Distance(C, p, q + 1) > d
  <2>1. q + 1 \in Nat /\ p - (q + 1) = k - 1 /\ (q + 1) - p = 1 - k
    BY <1>7, <1>8
  <2>2. /\ p - (q + 1) \notin Diagonals(d) => (q + 1) - p > d
        /\ p - (q + 1) \in Diagonals(d) => p > V[p - (q + 1)]
    <3>1. k - 1 \in Diagonals(d) => V[k - 1] \in Nat
      BY DEF Furthest
    <3> QED
      BY <1>2, <1>8, <2>1, <3>1
  <2> QED
    BY <2>1, <2>2, BehindFurthest
<1>11. Distance(C, p + 1, q + 1) > d + 1
  <2>1. ~Match(a, b, p + 1, q + 1)
    BY <1>5, <1>7
  <2>2. \/ Distance(C, p + 1, q + 1) = Distance(C, p + 1, q) + 1
        \/ Distance(C, p + 1, q + 1) = Distance(C, p, q + 1) + 1
    BY <2>1, DistanceSteps
  <2>3. p + 1 \in Nat /\ q + 1 \in Nat
    OBVIOUS
  <2>4. Distance(C, p + 1, q) \in Nat /\ Distance(C, p, q + 1) \in Nat
    BY <2>3, DistanceBounds
  <2> QED
    BY <1>9, <1>10, <2>2, <2>4
<1>12. /\ Round(a, b, V, d + 1)[k] = p /\ p - k = q /\ p - k + 1 = q + 1
       /\ Distance(C, p, q) <= d + 1
  BY <1>2, <1>5, <1>6, <1>7, <1>8
<1> QED
  BY <1>11, <1>12

(* The search finds, in every round, what that many edits reach.            *)
LEMMA EveryRoundIsFurthest ==
  ASSUME NEW a \in Text, NEW b \in Text, NEW C, IsTable(C, a, b), Span(a, b) # 0,
         NEW d \in 0..Span(a, b)
  PROVE  Furthest(C, Rounds(a, b)[d], d)
<1> DEFINE R == Rounds(a, b)
           S == {n \in Nat : n <= Span(a, b) => Furthest(C, R[n], n)}
<1>1. Span(a, b) \in Nat
  BY DEF Text, Span
<1>2. /\ R[0] = Round(a, b, Zeros(a, b), 0)
      /\ \A n \in 0..Span(a, b) : R[n] \in [Diagonal(a, b) -> Int]
      /\ \A n \in 1..Span(a, b) : R[n] = Round(a, b, R[n - 1], n)
  BY RoundsFollow
<1> HIDE DEF R
<1>3. 0 \in S
  BY <1>2, FurthestAtFirst
<1>4. ASSUME NEW n \in Nat, n \in S
      PROVE  n + 1 \in S
  <2>1. CASE n + 1 <= Span(a, b)
    <3>1. n \in 0..Span(a, b) /\ n + 1 \in 1..Span(a, b) /\ (n + 1) - 1 = n /\ n <= Span(a, b)
      BY <1>1, <2>1
    <3>2. R[n + 1] = Round(a, b, R[n], n + 1)
      BY <1>2, <3>1
    <3>3. R[n] \in [Diagonal(a, b) -> Int] /\ Furthest(C, R[n], n)
      BY <1>2, <1>4, <3>1
    <3>4. Furthest(C, R[n + 1], n + 1)
      BY <2>1, <3>2, <3>3, FurthestNext
    <3> QED
      BY <3>4
  <2> QED
    BY <1>1, <2>1
<1>5. d \in S
  <2> HIDE DEF S
  <2> QED
    BY <1>1, <1>3, <1>4, AllNumbers
<1> QED
  BY <1>1, <1>5 DEF R

\* The end of both texts.
DistanceOfTexts(C, a, b) == Distance(C, Len(a), Len(b))

(* It ends in the round that has as many edits as are needed.               *)
LEMMA LastRoundIsDistance ==
  ASSUME NEW a \in Text, NEW b \in Text, NEW C, IsTable(C, a, b), Span(a, b) # 0
  PROVE  /\ LastRound(a, b) = DistanceOfTexts(C, a, b)
         /\ LastRound(a, b) \in 0..Span(a, b)
         /\ Len(a) - Len(b) \in Diagonals(LastRound(a, b))
         /\ Rounds(a, b)[LastRound(a, b)][Len(a) - Len(b)] = Len(a)
<1> DEFINE V == Rounds(a, b)
           M == Len(a)
           N == Len(b)
           k == M - N
           D == Distance(C, M, N)
           Ends(d) == k \in Diagonals(d) /\ V[d][k] = M
<1>1. M \in Nat /\ N \in Nat /\ Span(a, b) \in Nat /\ Span(a, b) = M + N
  BY DEF Text, Span
<1>2. D \in Nat /\ M - N <= D /\ N - M <= D /\ D <= M + N
  BY <1>1, DistanceBounds
<1>3. DOMAIN V = 0..Span(a, b)
  BY RoundsFollow
<1>4. (k + D) % 2 = 0
  <2>1. C[<<M, N>>] \in Nat
    BY <1>1, TableGrows
  <2> DEFINE c == C[<<M, N>>]
  <2>2. c \in Nat /\ D = M + N - 2 * c
    BY <2>1 DEF Distance
  <2> HIDE DEF c, D
  <2>3. k + D = 2 * (M - c)
    BY <1>1, <2>2
  <2> QED
    BY <1>1, <2>2, <2>3
<1>5. k \in Diagonals(D)
  <2> HIDE DEF D
  <2> QED
    BY <1>1, <1>2, <1>4 DEF Diagonals
<1>6. D \in 0..Span(a, b) /\ Furthest(C, V[D], D)
  <2>1. D \in 0..Span(a, b)
    BY <1>1, <1>2
  <2> HIDE DEF D
  <2> QED
    BY <2>1, EveryRoundIsFurthest
<1>7. V[D][k] = M
  <2> DEFINE x == V[D][k]
             y == V[D][k] - k
  <2>1. /\ x \in Nat /\ y \in Nat /\ x - y = k
        /\ Distance(C, x, y) <= D /\ Distance(C, x + 1, y + 1) > D
    BY <1>1, <1>5, <1>6 DEF Furthest
  <2> HIDE DEF x, y
  <2>2. ~(x < M)
    <3>1. SUFFICES ASSUME x < M
                   PROVE  FALSE
      OBVIOUS
    <3>2. x - y = M - N /\ D = Distance(C, M, N)
      BY <2>1
    <3> HIDE DEF M, N, k, D
    <3>3. PICK m \in Nat : m = M - (x + 1)
      BY <1>1, <2>1, <3>1
    <3>4. x + 1 \in Nat /\ y + 1 \in Nat /\ (x + 1) + m = M /\ (y + 1) + m = N
      BY <1>1, <2>1, <3>2, <3>3
    <3>5. Distance(C, x + 1, y + 1) <= Distance(C, (x + 1) + m, (y + 1) + m)
      BY <3>4, DiagonalGrows
    <3>6. Distance(C, x + 1, y + 1) \in Nat
      BY <3>4, DistanceBounds
    <3> QED
      BY <1>2, <2>1, <3>2, <3>4, <3>5, <3>6
  <2>3. ~(x > M)
    <3>1. SUFFICES ASSUME x > M
                   PROVE  FALSE
      OBVIOUS
    <3>2. x - y = M - N /\ Distance(C, M + 1, N + 1) = D + 2
      BY <2>1, DistanceBehind
    <3> HIDE DEF M, N, k, D
    <3>3. PICK m \in Nat : m = x - (M + 1)
      BY <1>1, <2>1, <3>1
    <3>4. M + 1 \in Nat /\ N + 1 \in Nat /\ (M + 1) + m = x /\ (N + 1) + m = y
      BY <1>1, <2>1, <3>2, <3>3
    <3>5. Distance(C, M + 1, N + 1) <= Distance(C, (M + 1) + m, (N + 1) + m)
      BY <3>4, DiagonalGrows
    <3>6. Distance(C, x, y) \in Nat
      BY <2>1, DistanceBounds
    <3> QED
      BY <1>2, <2>1, <3>2, <3>4, <3>5, <3>6
  <2>4. x = M
    BY <1>1, <2>1, <2>2, <2>3
  <2> QED
    BY <2>4 DEF x
<1>8. ASSUME NEW d \in 0..Span(a, b), Ends(d)
      PROVE  D <= d
  <2>1. Furthest(C, V[d], d)
    BY EveryRoundIsFurthest
  <2>2. Distance(C, V[d][k], V[d][k] - k) <= d
    BY <1>8, <2>1 DEF Furthest
  <2>3. V[d][k] = M /\ V[d][k] - k = N
    BY <1>1, <1>8
  <2> QED
    BY <2>2, <2>3
<1>9. LastRound(a, b) = CHOOSE d \in DOMAIN V : Ends(d) /\ \A e \in 0..d - 1 : ~Ends(e)
  BY Zenon DEF LastRound
<1>10. \A e \in 0..D - 1 : ~Ends(e)
  <2> SUFFICES ASSUME NEW e \in 0..D - 1, Ends(e)
               PROVE  FALSE
    OBVIOUS
  <2> HIDE DEF Ends, D
  <2>1. e \in 0..Span(a, b) /\ ~(D <= e)
    BY <1>1, <1>2
  <2> QED
    BY <1>8, <2>1
<1>11. \A d \in DOMAIN V : Ends(d) /\ (\A e \in 0..d - 1 : ~Ends(e)) => d = D
  <2> SUFFICES ASSUME NEW d \in 0..Span(a, b), Ends(d), \A e \in 0..d - 1 : ~Ends(e), d # D
               PROVE  FALSE
    BY <1>3
  <2>1. Ends(D)
    BY <1>5, <1>7
  <2> HIDE DEF Ends, D
  <2>2. D <= d
    BY <1>8
  <2>3. D \in 0..d - 1
    BY <1>1, <1>2, <2>2
  <2> QED
    BY <2>1, <2>3
<1>12. Ends(D) /\ D \in DOMAIN V
  BY <1>3, <1>5, <1>6, <1>7
<1>13. LastRound(a, b) = D
  <2> HIDE DEF Ends, D, V
  <2> QED
    BY <1>9, <1>10, <1>11, <1>12
<1> QED
  BY <1>5, <1>6, <1>7, <1>13 DEF DistanceOfTexts

-----------------------------------------------------------------------------
(* The way back.                                                            *)

\* From (u, v) to (x, y): one line down or to the right, then equal lines.
Snake(a, b, u, v, x, y) ==
  \E s \in Nat :
    \/ x = u + s /\ y = (v + 1) + s /\ EqualRun(a, b, u, v + 1, s)
    \/ x = (u + 1) + s /\ y = v + s /\ EqualRun(a, b, u + 1, v, s)

\* The point before p, as backtrack finds it.
PointBefore(V, d, p) ==
  LET k == KPrev(V, d, p[1] - p[2]) IN <<V[k], V[k] - k>>

(* A round leaves alone what the diagonals of the round before hold, so     *)
(* backtrack goes the way that the round came.                              *)
LEMMA RoundKeepsTheOneBefore ==
  ASSUME NEW a \in Text, NEW b \in Text, NEW C,
         NEW V \in [Diagonal(a, b) -> Int], NEW d \in Nat, d + 1 <= Span(a, b),
         Furthest(C, V, d), NEW k \in Diagonals(d + 1),
         NEW W, W = Round(a, b, V, d + 1)
  PROVE  /\ KPrev(W, d + 1, k) = KPrev(V, d + 1, k)
         /\ W[KPrev(V, d + 1, k)] = V[KPrev(V, d + 1, k)]
<1>1. k \in Int /\ k >= -(d + 1) /\ k <= d + 1 /\ (k + (d + 1)) % 2 = 0 /\ Span(a, b) \in Nat
  BY DEF Diagonals, Text, Span
<1>2. ASSUME NEW l \in Int, l >= -(d + 1), l <= d + 1, (l + (d + 1)) % 2 # 0
      PROVE  W[l] = V[l]
  <2>1. l \in Diagonal(a, b)
    BY <1>1, <1>2 DEF Diagonal
  <2>2. l \notin Diagonals(d + 1)
    BY <1>2 DEF Diagonals
  <2> QED
    BY <2>1, <2>2 DEF Round
<1>3. ((k + 1) + (d + 1)) % 2 # 0 /\ ((k - 1) + (d + 1)) % 2 # 0
  BY <1>1
<1>4. k # d + 1 => W[k + 1] = V[k + 1]
  BY <1>1, <1>2, <1>3
<1>5. k # -(d + 1) => W[k - 1] = V[k - 1]
  BY <1>1, <1>2, <1>3
<1>6. KPrev(W, d + 1, k) = KPrev(V, d + 1, k)
  BY <1>4, <1>5 DEF KPrev
<1>7. /\ KPrev(V, d + 1, k) = k + 1 => k # d + 1
      /\ KPrev(V, d + 1, k) # k + 1 => KPrev(V, d + 1, k) = k - 1 /\ k # -(d + 1)
  BY <1>1 DEF KPrev
<1> QED
  BY <1>4, <1>5, <1>6, <1>7

\* The point that backtrack finds before (x, y), when rounds V and W are those
\* with d edits and one more.
ComesFromPoint(C, a, b, V, W, d, x, y) ==
  \E u, v \in Nat :
    /\ PointBefore(W, d + 1, <<x, y>>) = <<u, v>>
    /\ u - v \in Diagonals(d) /\ V[u - v] = u
    /\ Distance(C, u, v) = d
    /\ Snake(a, b, u, v, x, y)

(* The point before one with d + 1 edits has d edits, and one step leads    *)
(* from there.                                                              *)
LEMMA OneRoundBack ==
  ASSUME NEW a \in Text, NEW b \in Text, NEW C, IsTable(C, a, b),
         NEW V \in [Diagonal(a, b) -> Int], NEW d \in Nat, d + 1 <= Span(a, b),
         Furthest(C, V, d),
         NEW W, W = Round(a, b, V, d + 1),
         NEW x \in Nat, NEW y \in Nat, x - y \in Diagonals(d + 1),
         W[x - y] = x, Distance(C, x, y) = d + 1
  PROVE  ComesFromPoint(C, a, b, V, W, d, x, y)
<1> DEFINE k == x - y
           j == KPrev(V, d + 1, k)
           e == Entered(V, d + 1, k)
           u == V[j]
           v == V[j] - j
<1>1. /\ j \in Diagonals(d) /\ k \in Int /\ u \in Nat /\ v \in Nat
      /\ \/ j = k + 1 /\ e = u /\ e - k = v + 1
         \/ j = k - 1 /\ e = u + 1 /\ e - k = v
      /\ e \in Nat /\ e - k \in Nat
  BY ComesFrom
<1>2. KPrev(W, d + 1, k) = j /\ W[j] = u
  BY RoundKeepsTheOneBefore
<1>3. j \in Int /\ Distance(C, u, v) <= d
  BY <1>1 DEF Furthest, Diagonals
<1>4. k \in Diagonal(a, b)
  <2>1. Span(a, b) \in Nat
    BY DEF Text, Span
  <2> QED
    BY <2>1 DEF Diagonals, Diagonal
<1>5. PICK f \in Nat : f = e - k
  BY <1>1
<1>6. PICK s \in Nat : /\ Round(a, b, V, d + 1)[k] = e + s
                       /\ EqualRun(a, b, e, f, s)
                       /\ Distance(C, e + s, f + s) = Distance(C, e, f)
  <2>1. e \in Nat /\ d + 1 \in Nat /\ k \in Diagonals(d + 1)
    BY <1>1
  <2> HIDE DEF k
  <2>2. e = Entered(V, d + 1, k)
    BY DEF e
  <2> HIDE DEF e
  <2> QED
    BY <1>4, <1>5, <2>1, <2>2, RoundSlides
<1>7. x = e + s /\ y = f + s
  BY <1>1, <1>5, <1>6
<1>8. PointBefore(W, d + 1, <<x, y>>) = <<u, v>>
  BY <1>2 DEF PointBefore
<1> HIDE DEF u, v, e, j, k
<1>9. u - v = j
  BY <1>1, <1>3 DEF u, v
<1>10. \/ e = u /\ f = v + 1
       \/ e = u + 1 /\ f = v
  BY <1>1, <1>5
<1>11. Snake(a, b, u, v, x, y)
  BY <1>6, <1>7, <1>10 DEF Snake
<1>12. Distance(C, u, v) = d
  <2>1. /\ Distance(C, u, v) \in Int
        /\ Distance(C, u + 1, v) \in {Distance(C, u, v) - 1, Distance(C, u, v) + 1}
        /\ Distance(C, u, v + 1) \in {Distance(C, u, v) - 1, Distance(C, u, v) + 1}
    BY <1>1, DistanceSteps
  <2>2. Distance(C, e, f) = d + 1
    BY <1>6, <1>7
  <2> QED
    BY <1>3, <1>10, <2>1, <2>2
<1>13. V[u - v] = u
  BY <1>9 DEF u
<1> QED
  BY <1>1, <1>8, <1>9, <1>11, <1>12, <1>13 DEF ComesFromPoint

\* The point of round d on a shortest path to the end of both texts.
OnPath(C, a, b, d, p) ==
  /\ p \in Nat \X Nat
  /\ p[1] <= Len(a) /\ p[2] <= Len(b)
  /\ Distance(C, p[1], p[2]) = d
  /\ p[1] - p[2] \in Diagonals(d)
  /\ Rounds(a, b)[d][p[1] - p[2]] = p[1]

\* The points of g go back from the end of both texts.
GoesBack(a, b, D, g) ==
  /\ g[D] = <<Len(a), Len(b)>>
  /\ \A d \in 0..D - 1 :
       LET q == PointBefore(Rounds(a, b)[d + 1], d + 1, g[d + 1])
       IN q \in Nat \X Nat => g[d] = q

(* Whatever goes back point by point has a shortest path.                   *)
LEMMA BackOnPath ==
  ASSUME NEW a \in Text, NEW b \in Text, NEW C, IsTable(C, a, b), Span(a, b) # 0,
         NEW D, D = LastRound(a, b), NEW g, GoesBack(a, b, D, g)
  PROVE  /\ \A d \in 0..D : OnPath(C, a, b, d, g[d])
         /\ \A d \in 0..D - 1 :
              /\ g[d] = PointBefore(Rounds(a, b)[d + 1], d + 1, g[d + 1])
              /\ Snake(a, b, g[d][1], g[d][2], g[d + 1][1], g[d + 1][2])
<1> DEFINE R == Rounds(a, b)
<1>1. /\ D \in Nat /\ D <= Span(a, b) /\ Span(a, b) \in Nat
      /\ Len(a) \in Nat /\ Len(b) \in Nat
  <2>1. D \in 0..Span(a, b)
    BY LastRoundIsDistance
  <2> QED
    BY <2>1 DEF Text, Span
<1>2. OnPath(C, a, b, D, g[D])
  <2>1. g[D] = <<Len(a), Len(b)>>
    BY DEF GoesBack
  <2>2. /\ Distance(C, Len(a), Len(b)) = D
        /\ Len(a) - Len(b) \in Diagonals(D)
        /\ Rounds(a, b)[D][Len(a) - Len(b)] = Len(a)
    BY LastRoundIsDistance DEF DistanceOfTexts
  <2> QED
    BY <1>1, <2>1, <2>2 DEF OnPath
<1>3. ASSUME NEW d \in 0..D - 1, OnPath(C, a, b, d + 1, g[d + 1])
      PROVE  /\ OnPath(C, a, b, d, g[d])
             /\ g[d] = PointBefore(R[d + 1], d + 1, g[d + 1])
             /\ Snake(a, b, g[d][1], g[d][2], g[d + 1][1], g[d + 1][2])
  <2>1. /\ d \in Nat /\ d + 1 <= Span(a, b) /\ d \in 0..Span(a, b)
        /\ d + 1 \in 1..Span(a, b) /\ (d + 1) - 1 = d
    BY <1>1
  <2>2. R[d] \in [Diagonal(a, b) -> Int] /\ R[d + 1] = Round(a, b, R[d], d + 1)
    BY <2>1, RoundsFollow
  <2>3. Furthest(C, R[d], d)
    BY <2>1, EveryRoundIsFurthest
  <2>4. PICK x \in Nat, y \in Nat :
          /\ g[d + 1] = <<x, y>> /\ x <= Len(a) /\ y <= Len(b)
          /\ Distance(C, x, y) = d + 1 /\ x - y \in Diagonals(d + 1) /\ R[d + 1][x - y] = x
    <3>1. g[d + 1] \in Nat \X Nat
      BY <1>3 DEF OnPath
    <3>2. PICK x \in Nat, y \in Nat : g[d + 1] = <<x, y>>
      BY <3>1
    <3> QED
      BY <1>3, <3>2 DEF OnPath
  <2> HIDE DEF R
  <2>5. PICK u \in Nat, v \in Nat :
           /\ PointBefore(R[d + 1], d + 1, <<x, y>>) = <<u, v>>
           /\ u - v \in Diagonals(d) /\ R[d][u - v] = u
           /\ Distance(C, u, v) = d
           /\ Snake(a, b, u, v, x, y)
    <3>1. PICK V \in [Diagonal(a, b) -> Int] : V = R[d]
      BY <2>2
    <3>2. PICK W : W = R[d + 1]
      OBVIOUS
    <3>3. Furthest(C, V, d) /\ W = Round(a, b, V, d + 1) /\ W[x - y] = x
      BY <2>2, <2>3, <2>4, <3>1, <3>2
    <3>4. ComesFromPoint(C, a, b, V, W, d, x, y)
      BY <2>1, <2>4, <3>1, <3>3, OneRoundBack
    <3> QED
      BY <3>1, <3>2, <3>4 DEF ComesFromPoint
  <2>6. g[d] = <<u, v>>
    <3>1. PointBefore(R[d + 1], d + 1, g[d + 1]) \in Nat \X Nat
            => g[d] = PointBefore(R[d + 1], d + 1, g[d + 1])
      BY DEF GoesBack, R
    <3> QED
      BY <2>4, <2>5, <3>1
  <2>7. u <= x /\ v <= y
    BY <2>5 DEF Snake
  <2>8. OnPath(C, a, b, d, <<u, v>>)
    BY <1>1, <2>4, <2>5, <2>7 DEF OnPath, R
  <2> QED
    BY <2>4, <2>5, <2>6, <2>8
<1>4. \A d \in 0..D : OnPath(C, a, b, d, g[d])
  <2> DEFINE S == {n \in Nat : n <= D => OnPath(C, a, b, D - n, g[D - n])}
  <2>1. 0 \in S
    BY <1>1, <1>2
  <2>2. ASSUME NEW n \in Nat, n \in S
        PROVE  n + 1 \in S
    <3>1. CASE n + 1 <= D
      <4>1. PICK d \in 0..D - 1 : d = D - (n + 1)
        BY <1>1, <3>1
      <4>2. D - n = d + 1 /\ n <= D
        BY <1>1, <3>1, <4>1
      <4>3. OnPath(C, a, b, d, g[d])
        BY <1>3, <2>2, <4>2
      <4> QED
        BY <4>1, <4>3
    <3> QED
      BY <1>1, <3>1
  <2>3. \A n \in Nat : n \in S
    <3> HIDE DEF S
    <3> QED
      BY <2>1, <2>2, AllNumbers
  <2> SUFFICES ASSUME NEW d \in 0..D
               PROVE  OnPath(C, a, b, d, g[d])
    OBVIOUS
  <2>4. PICK n \in Nat : n = D - d
    BY <1>1
  <2>5. n <= D /\ D - n = d
    BY <1>1, <2>4
  <2> QED
    BY <2>3, <2>5
<1>5. \A d \in 0..D - 1 : d + 1 \in 0..D
  BY <1>1
<1> QED
  BY <1>3, <1>4, <1>5

(* backtrack goes back from the end of both texts to the first round.       *)
LEMMA PointsGoBack ==
  ASSUME NEW a \in Text, NEW b \in Text, NEW C, IsTable(C, a, b), Span(a, b) # 0
  PROVE  /\ DOMAIN Points(a, b) = 0..LastRound(a, b)
         /\ GoesBack(a, b, LastRound(a, b), Points(a, b))
<1> DEFINE D == LastRound(a, b)
           R == Rounds(a, b)
           T == Nat \X Nat
           end == <<Len(a), Len(b)>>
           Before(p, d) == PointBefore(R[d], d, p)
           step == [q \in T \X Nat |-> IF Before(q[1], D - q[2]) \in T
                                       THEN Before(q[1], D - q[2]) ELSE end]
           Computes(g) == g = [d \in 0..D |-> IF d = D THEN end ELSE Before(g[d + 1], d + 1)]
<1>1. D \in Nat /\ D <= Span(a, b)
  <2>1. D \in 0..Span(a, b)
    BY LastRoundIsDistance
  <2>2. Span(a, b) \in Nat
    BY DEF Text, Span
  <2> QED
    BY <2>1, <2>2
<1>2. end \in T
  BY DEF Text
<1>3. step \in [T \X Nat -> T]
  <2> HIDE DEF T, D, end, Before
  <2> QED
    BY <1>2
<1>4. \A p \in T, n \in Nat : Before(p, D - n) \in T => step[<<p, n>>] = Before(p, D - n)
  <2> HIDE DEF T, D, end, Before
  <2> QED
    OBVIOUS
<1>5. PICK f : StepsTo(f, T, end, step, D)
  <2> HIDE DEF step, T, D, end
  <2> QED
    BY <1>1, <1>2, <1>3, StepByStep
<1>6. f \in [0..D -> T] /\ f[0] = end /\ \A i \in 0..D - 1 : f[i + 1] = step[<<f[i], i>>]
  <2> HIDE DEF step, T, D, end
  <2> QED
    BY <1>5 DEF StepsTo
<1> HIDE DEF step
<1> DEFINE g == [d \in 0..D |-> f[D - d]]
<1>7. g[D] = end
  <2> HIDE DEF D, end
  <2> QED
    BY <1>1, <1>6
<1>8. ASSUME NEW d \in 0..D - 1, Before(g[d + 1], d + 1) \in T
      PROVE  g[d] = Before(g[d + 1], d + 1)
  <2> HIDE DEF D, end, T, Before
  <2>1. PICK n \in 0..D - 1 : n = D - (d + 1)
    BY <1>1
  <2>2. D - n = d + 1 /\ D - d = n + 1 /\ n \in Nat /\ n \in 0..D /\ d \in 0..D /\ d + 1 \in 0..D
    BY <1>1, <2>1
  <2>3. g[d + 1] = f[n] /\ g[d] = f[n + 1]
    BY <2>1, <2>2
  <2>4. f[n] \in T /\ f[n + 1] = step[<<f[n], n>>]
    BY <1>6, <2>1, <2>2
  <2> HIDE DEF g
  <2>5. step[<<f[n], n>>] = Before(f[n], D - n)
    BY <1>4, <1>8, <2>2, <2>3, <2>4
  <2> QED
    BY <2>2, <2>3, <2>4, <2>5
<1>9. GoesBack(a, b, D, g)
  <2> HIDE DEF g, D
  <2> QED
    BY <1>7, <1>8 DEF GoesBack
<1>10. \A d \in 0..D - 1 : g[d] = Before(g[d + 1], d + 1)
  <2> HIDE DEF g
  <2> QED
    BY <1>9, BackOnPath
<1>11. Computes(g)
  <2>1. \A d \in 0..D : g[d] = IF d = D THEN end ELSE Before(g[d + 1], d + 1)
    <3> HIDE DEF g, D, end, Before
    <3> QED
      BY <1>1, <1>7, <1>10
  <2>2. g = [d \in 0..D |-> g[d]]
    OBVIOUS
  <2> HIDE DEF g, D, end, Before
  <2> QED
    BY <2>1, <2>2
<1>12. Points(a, b) = CHOOSE h : Computes(h)
  BY Zenon DEF Points, PointBefore
<1>13. Computes(Points(a, b))
  <2> HIDE DEF Computes, g
  <2> QED
    BY <1>11, <1>12
<1> DEFINE P == Points(a, b)
<1> HIDE DEF P
<1>14. P = [d \in 0..D |-> IF d = D THEN end ELSE Before(P[d + 1], d + 1)]
  BY <1>13, Zenon DEF P
<1>15. DOMAIN P = 0..D
  BY <1>14, Zenon
<1>16. \A d \in 0..D : P[d] = IF d = D THEN end ELSE Before(P[d + 1], d + 1)
  BY <1>14, Zenon
<1>17. P[D] = end
  <2> HIDE DEF D, end, Before
  <2> QED
    BY <1>1, <1>16
<1>18. \A d \in 0..D - 1 : P[d] = Before(P[d + 1], d + 1)
  <2> HIDE DEF D, end, Before
  <2> QED
    BY <1>1, <1>16
<1>19. GoesBack(a, b, D, P)
  <2> HIDE DEF D
  <2> QED
    BY <1>17, <1>18 DEF GoesBack
<1> QED
  BY <1>15, <1>19 DEF P

-----------------------------------------------------------------------------
(* Flattening, the text that operations write, and the lines they touch.    *)

\* f[i] is what the first i sequences of s make.
Joins(T, s, f) ==
  /\ f \in [0..Len(s) -> Seq(T)]
  /\ f[0] = <<>>
  /\ \A i \in 0..Len(s) - 1 : f[i + 1] = f[i] \o s[i + 1]

(* Sequences are joined one after another.                                  *)
LEMMA JoinsExist ==
  ASSUME NEW T, NEW s \in Seq(Seq(T))
  PROVE  \E f : Joins(T, s, f)
<1> DEFINE n == Len(s)
           step == [p \in Seq(T) \X Nat |-> IF p[2] < n THEN p[1] \o s[p[2] + 1] ELSE p[1]]
<1>1. n \in Nat /\ \A i \in 1..n : s[i] \in Seq(T)
  OBVIOUS
<1>2. step \in [Seq(T) \X Nat -> Seq(T)]
  <2>1. ASSUME NEW p \in Seq(T) \X Nat
        PROVE  (IF p[2] < n THEN p[1] \o s[p[2] + 1] ELSE p[1]) \in Seq(T)
    <3>1. p[1] \in Seq(T) /\ p[2] \in Nat
      OBVIOUS
    <3> HIDE DEF n
    <3>2. CASE p[2] < n
      <4>1. p[2] + 1 \in 1..n
        BY <1>1, <3>1, <3>2
      <4>2. s[p[2] + 1] \in Seq(T)
        BY <1>1, <4>1
      <4> QED
        BY <3>1, <3>2, <4>2
    <3> QED
      BY <3>1, <3>2
  <2> HIDE DEF n
  <2> QED
    BY <2>1
<1>3. PICK f : StepsTo(f, Seq(T), <<>>, step, n)
  <2>1. <<>> \in Seq(T)
    OBVIOUS
  <2> HIDE DEF step, n
  <2> QED
    BY <1>1, <1>2, <2>1, StepByStep
<1>4. f \in [0..n -> Seq(T)] /\ f[0] = <<>> /\ \A i \in 0..n - 1 : f[i + 1] = step[<<f[i], i>>]
  <2> HIDE DEF step, n
  <2> QED
    BY <1>3 DEF StepsTo
<1>5. ASSUME NEW i \in 0..n - 1
      PROVE  f[i + 1] = f[i] \o s[i + 1]
  <2>1. i \in Nat /\ i < n /\ i \in 0..n
    BY <1>1
  <2>2. f[i] \in Seq(T)
    <3>1. \A F, D, R : F \in [D -> R] => \A k \in D : F[k] \in R
      OBVIOUS
    <3> HIDE DEF n, step
    <3> QED
      BY <1>4, <2>1, <3>1, Zenon
  <2>3. step[<<f[i], i>>] = f[i] \o s[i + 1]
    BY <2>1, <2>2
  <2> HIDE DEF step
  <2> QED
    BY <1>4, <2>3
<1> QED
  BY <1>4, <1>5 DEF Joins

(* FlattenSeq joins them all.                                               *)
LEMMA FlattenJoins ==
  ASSUME NEW T, NEW s \in Seq(Seq(T)), NEW f, Joins(T, s, f)
  PROVE  FlattenSeq(s) = f[Len(s)]
<1> DEFINE n == Len(s)
           Flat(g) == g = [i \in 1..n |-> IF i = 1 THEN s[i] ELSE g[i - 1] \o s[i]]
           h == [i \in 1..n |-> f[i]]
<1>1. n \in Nat /\ \A i \in 1..n : s[i] \in Seq(T)
  OBVIOUS
<1>2. f[0] = <<>> /\ \A i \in 0..n - 1 : f[i + 1] = f[i] \o s[i + 1]
  BY DEF Joins
<1> HIDE DEF n
<1>3. CASE n = 0
  BY <1>2, <1>3 DEF FlattenSeq, n
<1>4. CASE n # 0
  <2>1. Flat(h)
    <3>1. ASSUME NEW i \in 1..n
          PROVE  h[i] = IF i = 1 THEN s[i] ELSE h[i - 1] \o s[i]
      <4>1. i - 1 \in 0..n - 1 /\ (i - 1) + 1 = i
        BY <1>1
      <4>2. f[i] = f[i - 1] \o s[i]
        BY <1>2, <4>1
      <4>3. CASE i = 1
        <5>1. f[i - 1] = <<>> /\ s[i] \in Seq(T)
          BY <1>1, <1>2, <4>3
        <5>2. <<>> \o s[i] = s[i]
          BY <5>1
        <5> QED
          BY <4>2, <4>3, <5>1, <5>2
      <4>4. CASE i # 1
        <5>1. i - 1 \in 1..n
          BY <1>1, <4>4
        <5>2. h[i] = f[i] /\ h[i - 1] = f[i - 1]
          BY <5>1
        <5> QED
          BY <4>2, <4>4, <5>2
      <4> QED
        BY <4>3, <4>4
    <3>2. h = [i \in 1..n |-> h[i]]
      OBVIOUS
    <3> HIDE DEF h
    <3> QED
      BY <3>1, <3>2
  <2>2. ASSUME NEW g, Flat(g)
        PROVE  g[n] = h[n]
    <3> DEFINE Differ == {i \in 1..n : g[i] # h[i]}
    <3>1. SUFFICES ASSUME Differ # {}
                   PROVE  FALSE
      <4>1. n \in 1..n
        BY <1>1, <1>4
      <4> HIDE DEF h
      <4> QED
        BY <4>1
    <3>2. PICK i \in Differ : \A j \in Differ : i <= j
      <4>1. Differ \in SUBSET Nat
        BY <1>1
      <4> HIDE DEF Differ
      <4> QED
        BY <3>1, <4>1, LeastElement
    <3>3. /\ g[i] = IF i = 1 THEN s[i] ELSE g[i - 1] \o s[i]
          /\ h[i] = IF i = 1 THEN s[i] ELSE h[i - 1] \o s[i]
      <4> HIDE DEF h
      <4>1. i \in 1..n
        OBVIOUS
      <4> QED
        BY <2>1, <2>2, <4>1, Zenon
    <3>4. i # 1 => i - 1 \in 1..n /\ i - 1 \notin Differ
      BY <1>1, <3>2
    <3> HIDE DEF h
    <3> QED
      BY <3>3, <3>4
  <2>3. FlattenSeq(s) = (CHOOSE g : Flat(g))[n]
    BY <1>1, <1>4 DEF FlattenSeq, n
  <2>4. Flat(CHOOSE g : Flat(g))
    <3> HIDE DEF Flat
    <3> QED
      BY <2>1
  <2>5. FlattenSeq(s) = h[n]
    <3> HIDE DEF Flat, h
    <3> QED
      BY <2>2, <2>3, <2>4
  <2> QED
    BY <1>1, <1>4, <2>5 DEF n
<1> QED
  BY <1>3, <1>4

(* One sequence more is joined at the end.                                  *)
LEMMA FlattenAppends ==
  ASSUME NEW T, NEW s \in Seq(Seq(T)), NEW t \in Seq(T)
  PROVE  /\ FlattenSeq(s) \in Seq(T)
         /\ FlattenSeq(Append(s, t)) = FlattenSeq(s) \o t
<1> DEFINE n == Len(s)
           r == Append(s, t)
<1>1. PICK f : Joins(T, s, f)
  BY JoinsExist
<1>2. n \in Nat /\ r \in Seq(Seq(T)) /\ Len(r) = n + 1
  OBVIOUS
<1>3. \A i \in 1..n : r[i] = s[i]
  OBVIOUS
<1>4. r[n + 1] = t
  OBVIOUS
<1>5. f \in [0..n -> Seq(T)] /\ f[0] = <<>> /\ \A i \in 0..n - 1 : f[i + 1] = f[i] \o s[i + 1]
  BY <1>1 DEF Joins
<1>6. FlattenSeq(s) = f[n]
  BY <1>1, FlattenJoins
<1> HIDE DEF n, r
<1>7. f[n] \in Seq(T)
  BY <1>2, <1>5
<1> DEFINE g == [i \in 0..n + 1 |-> IF i = n + 1 THEN f[n] \o t ELSE f[i]]
<1>8. Joins(T, r, g)
  <2>1. g \in [0..n + 1 -> Seq(T)]
    <3>1. f[n] \o t \in Seq(T)
      BY <1>7
    <3>2. \A i \in 0..n + 1 : i # n + 1 => f[i] \in Seq(T)
      BY <1>2, <1>5
    <3> QED
      BY <3>1, <3>2
  <2>2. g[0] = <<>>
    BY <1>2, <1>5
  <2>3. ASSUME NEW i \in 0..n
        PROVE  g[i + 1] = g[i] \o r[i + 1]
    <3>1. g[i] = f[i]
      BY <1>2
    <3>2. CASE i = n
      <4>1. g[n + 1] = f[n] \o t
        BY <1>2
      <4> QED
        BY <1>4, <3>1, <3>2, <4>1
    <3>3. CASE i # n
      <4>1. i \in 0..n - 1 /\ i + 1 \in 1..n /\ i + 1 # n + 1 /\ i + 1 \in 0..n + 1
        BY <1>2, <3>3
      <4>2. g[i + 1] = f[i + 1] /\ r[i + 1] = s[i + 1]
        BY <1>3, <4>1
      <4> QED
        BY <1>5, <3>1, <4>1, <4>2
    <3> QED
      BY <3>2, <3>3
  <2>4. Len(r) = n + 1 /\ (n + 1) - 1 = n
    BY <1>2
  <2> HIDE DEF g
  <2>5. g \in [0..Len(r) -> Seq(T)]
    BY <2>1, <2>4
  <2>6. \A i \in 0..Len(r) - 1 : g[i + 1] = g[i] \o r[i + 1]
    BY <2>3, <2>4
  <2> QED
    BY <2>2, <2>5, <2>6 DEF Joins
<1>9. FlattenSeq(r) = g[n + 1]
  <2> HIDE DEF g
  <2> QED
    BY <1>2, <1>8, FlattenJoins
<1>10. FlattenSeq(r) = f[n] \o t
  BY <1>2, <1>9
<1> QED
  BY <1>6, <1>7, <1>10 DEF r

(* Nothing is joined to nothing.                                            *)
LEMMA FlattenNothing == FlattenSeq(<<>>) = <<>>
BY DEF FlattenSeq

Operation == [from : Nat, to : Nat, lines : Seq(Lines)]

\* Operations that say nothing of the lines behind x.
UpTo(ops, x) ==
  /\ ops \in Seq(Operation)
  /\ \A j \in 1..Len(ops) : ops[j].from <= ops[j].to /\ ops[j].to <= x

\* What an editor makes of line i, and of the first x lines.
Part(ops, a, i) == (IF Spared(ops, i) THEN <<a[i]>> ELSE <<>>) \o InsertedAt(ops, i)

Out(ops, a, x) == InsertedAt(ops, 0) \o FlattenSeq([i \in 1..x |-> Part(ops, a, i)])

(* One operation more inserts its lines at its place, behind the others.    *)
LEMMA InsertedAppends ==
  ASSUME NEW ops \in Seq(Operation), NEW e \in Operation, NEW i \in Nat
  PROVE  /\ InsertedAt(ops, i) \in Seq(Lines)
         /\ InsertedAt(Append(ops, e), i) =
              InsertedAt(ops, i) \o (IF e.from = i THEN e.lines ELSE <<>>)
<1> DEFINE At(o) == IF o.from = i THEN o.lines ELSE <<>>
           s == [j \in 1..Len(ops) |-> At(ops[j])]
           r == [j \in 1..Len(ops) + 1 |-> At(Append(ops, e)[j])]
<1>1. \A o \in Operation : At(o) \in Seq(Lines)
  BY DEF Operation
<1> HIDE DEF At
<1>2. \A j \in 1..Len(ops) : ops[j] \in Operation /\ Append(ops, e)[j] = ops[j]
  OBVIOUS
<1>3. s \in Seq(Seq(Lines)) /\ Len(s) = Len(ops)
  BY <1>1, <1>2
<1>4. Append(ops, e)[Len(ops) + 1] = e /\ DOMAIN Append(ops, e) = 1..Len(ops) + 1
  OBVIOUS
<1>5. r = Append(s, At(e))
  <2>1. \A j \in 1..Len(ops) + 1 : r[j] = Append(s, At(e))[j]
    BY <1>2, <1>3, <1>4
  <2>2. DOMAIN Append(s, At(e)) = 1..Len(ops) + 1
    BY <1>1, <1>3
  <2>3. Append(s, At(e)) = [j \in 1..Len(ops) + 1 |-> Append(s, At(e))[j]]
    BY <1>1, <1>3, <2>2
  <2> HIDE DEF s
  <2> QED
    BY <2>1, <2>3
<1>6. InsertedAt(ops, i) = FlattenSeq(s)
  BY DEF InsertedAt, At
<1>7. InsertedAt(Append(ops, e), i) = FlattenSeq(r)
  BY <1>4 DEF InsertedAt, At
<1> HIDE DEF s, r
<1>8. At(e) \in Seq(Lines)
  BY <1>1
<1>9. FlattenSeq(s) \in Seq(Lines) /\ FlattenSeq(Append(s, At(e))) = FlattenSeq(s) \o At(e)
  BY <1>3, <1>8, FlattenAppends
<1> QED
  BY <1>5, <1>6, <1>7, <1>9 DEF At

(* Where no operation is, nothing is inserted.                              *)
LEMMA InsertedNowhere ==
  ASSUME NEW ops \in Seq(Operation), NEW i, \A j \in 1..Len(ops) : ops[j].from # i
  PROVE  InsertedAt(ops, i) = <<>>
<1> DEFINE n == Len(ops)
           s == [j \in 1..n |-> <<>>]
           f == [j \in 0..n |-> <<>>]
<1>1. n \in Nat /\ DOMAIN ops = 1..n
  OBVIOUS
<1>2. InsertedAt(ops, i) = FlattenSeq(s)
  <2>1. [j \in DOMAIN ops |-> IF ops[j].from = i THEN ops[j].lines ELSE <<>>] = s
    BY <1>1
  <2> HIDE DEF s
  <2> QED
    BY <2>1 DEF InsertedAt
<1> HIDE DEF n
<1>3. s \in Seq(Seq(Lines)) /\ Len(s) = n
  BY <1>1
<1>4. Joins(Lines, s, f)
  <2>1. f \in [0..Len(s) -> Seq(Lines)] /\ f[0] = <<>>
    BY <1>1, <1>3
  <2>2. ASSUME NEW j \in 0..Len(s) - 1
        PROVE  f[j + 1] = f[j] \o s[j + 1]
    <3>1. j \in 0..n /\ j + 1 \in 0..n /\ j + 1 \in 1..n
      BY <1>1, <1>3
    <3>2. f[j + 1] = <<>> /\ f[j] = <<>> /\ s[j + 1] = <<>>
      BY <3>1
    <3>3. <<>> \o <<>> = <<>>
      OBVIOUS
    <3> QED
      BY <3>2, <3>3
  <2> HIDE DEF f, s
  <2> QED
    BY <2>1, <2>2 DEF Joins
<1>5. FlattenSeq(s) = f[n]
  <2> HIDE DEF f, s
  <2> QED
    BY <1>3, <1>4, FlattenJoins
<1> QED
  BY <1>1, <1>2, <1>5

(* One operation more touches its lines.                                    *)
LEMMA TouchedAppends ==
  ASSUME NEW a \in Text, NEW ops, UpTo(ops, Len(a)),
         NEW e \in Operation, e.to <= Len(a)
  PROVE  /\ Touched(ops, a) \in Seq(Lines)
         /\ Touched(Append(ops, e), a) =
              Touched(ops, a) \o (SubSeq(a, e.from + 1, e.to) \o e.lines)
<1> DEFINE At(o) == SubSeq(a, o.from + 1, o.to) \o o.lines
           s == [j \in 1..Len(ops) |-> At(ops[j])]
           r == [j \in 1..Len(ops) + 1 |-> At(Append(ops, e)[j])]
<1>0. ops \in Seq(Operation) /\ \A j \in 1..Len(ops) : ops[j].to <= Len(a)
  BY DEF UpTo, Text
<1>1. \A o \in Operation : o.to <= Len(a) => At(o) \in Seq(Lines)
  <2> SUFFICES ASSUME NEW o \in Operation, o.to <= Len(a)
               PROVE  SubSeq(a, o.from + 1, o.to) \o o.lines \in Seq(Lines)
    OBVIOUS
  <2>1. o.from \in Nat /\ o.to \in Nat /\ o.lines \in Seq(Lines) /\ a \in Seq(Lines)
    BY DEF Operation, Text
  <2>2. SubSeq(a, o.from + 1, o.to) \in Seq(Lines)
    BY <2>1
  <2> QED
    BY <2>1, <2>2
<1> HIDE DEF At
<1>2. \A j \in 1..Len(ops) : ops[j] \in Operation /\ Append(ops, e)[j] = ops[j]
  BY <1>0
<1>3. s \in Seq(Seq(Lines)) /\ Len(s) = Len(ops)
  BY <1>0, <1>1, <1>2
<1>4. /\ Append(ops, e)[Len(ops) + 1] = e
      /\ DOMAIN Append(ops, e) = 1..Len(ops) + 1 /\ DOMAIN ops = 1..Len(ops)
  BY <1>0
<1>5. r = Append(s, At(e))
  <2>0. Len(ops) \in Nat
    BY <1>0
  <2>1. \A j \in 1..Len(ops) + 1 : r[j] = Append(s, At(e))[j]
    BY <1>2, <1>3, <1>4, <2>0
  <2>2. DOMAIN Append(s, At(e)) = 1..Len(ops) + 1
    BY <1>1, <1>3
  <2>3. Append(s, At(e)) = [j \in 1..Len(ops) + 1 |-> Append(s, At(e))[j]]
    BY <1>1, <1>3, <2>2
  <2> HIDE DEF s
  <2> QED
    BY <2>1, <2>3
<1>6. Touched(ops, a) = FlattenSeq(s)
  BY <1>4 DEF Touched, At
<1>7. Touched(Append(ops, e), a) = FlattenSeq(r)
  BY <1>4 DEF Touched, At
<1> HIDE DEF s, r
<1>8. At(e) \in Seq(Lines)
  BY <1>1
<1>9. FlattenSeq(s) \in Seq(Lines) /\ FlattenSeq(Append(s, At(e))) = FlattenSeq(s) \o At(e)
  BY <1>3, <1>8, FlattenAppends
<1> QED
  BY <1>5, <1>6, <1>7, <1>9 DEF At

(* The text of one line more.                                               *)
LEMMA OutNext ==
  ASSUME NEW a \in Text, NEW ops \in Seq(Operation), NEW x \in Nat, x + 1 <= Len(a)
  PROVE  /\ Out(ops, a, x) \in Text
         /\ Out(ops, a, x + 1) = Out(ops, a, x) \o Part(ops, a, x + 1)
<1> DEFINE s == [i \in 1..x |-> Part(ops, a, i)]
           r == [i \in 1..x + 1 |-> Part(ops, a, i)]
           t == Part(ops, a, x + 1)
<1>1. \A i \in Nat : InsertedAt(ops, i) \in Seq(Lines)
  <2> SUFFICES ASSUME NEW i \in Nat
               PROVE  InsertedAt(ops, i) \in Seq(Lines)
    OBVIOUS
  <2>1. [from |-> 0, to |-> 0, lines |-> <<>>] \in Operation
    BY DEF Operation
  <2> QED
    BY <2>1, InsertedAppends
<1>2. ASSUME NEW i \in 1..x + 1
      PROVE  Part(ops, a, i) \in Seq(Lines)
  <2>1. i \in Nat /\ a[i] \in Lines
    BY DEF Text
  <2>2. (IF Spared(ops, i) THEN <<a[i]>> ELSE <<>>) \in Seq(Lines)
    BY <2>1
  <2>3. InsertedAt(ops, i) \in Seq(Lines)
    BY <1>1, <2>1
  <2> QED
    BY <2>2, <2>3 DEF Part
<1>3. s \in Seq(Seq(Lines)) /\ Len(s) = x
  BY <1>2
<1>4. t \in Seq(Lines)
  <2>1. x + 1 \in 1..x + 1
    OBVIOUS
  <2> QED
    BY <1>2, <2>1
<1>5. r = Append(s, t)
  <2>1. \A i \in 1..x + 1 : r[i] = Append(s, t)[i]
    BY <1>3
  <2>2. DOMAIN Append(s, t) = 1..x + 1
    BY <1>3
  <2>3. Append(s, t) = [i \in 1..x + 1 |-> Append(s, t)[i]]
    BY <1>3, <1>4, <2>2
  <2> HIDE DEF s, t
  <2> QED
    BY <2>1, <2>3
<1>6. Out(ops, a, x) = InsertedAt(ops, 0) \o FlattenSeq(s)
  BY DEF Out
<1>7. Out(ops, a, x + 1) = InsertedAt(ops, 0) \o FlattenSeq(r)
  BY DEF Out
<1> HIDE DEF s, r, t
<1>8. FlattenSeq(s) \in Seq(Lines) /\ FlattenSeq(Append(s, t)) = FlattenSeq(s) \o t
  BY <1>3, <1>4, FlattenAppends
<1>9. InsertedAt(ops, 0) \in Seq(Lines)
  BY <1>1
<1>10. Out(ops, a, x) \in Text
  BY <1>6, <1>8, <1>9 DEF Text
<1>11. InsertedAt(ops, 0) \o (FlattenSeq(s) \o t) = (InsertedAt(ops, 0) \o FlattenSeq(s)) \o t
  BY <1>4, <1>8, <1>9, TextsJoin, Zenon
<1> QED
  BY <1>5, <1>6, <1>7, <1>8, <1>10, <1>11 DEF t

\* With the operations so far, the first x lines have become the first y of b,
\* and n lines are touched.
Written(a, b, ops, x, y, n) ==
  /\ x \in 0..Len(a) /\ y \in 0..Len(b)
  /\ UpTo(ops, x)
  /\ Out(ops, a, x) = SubSeq(b, 1, y)
  /\ Len(Touched(ops, a)) = n

(* Before the first line nothing is written.                                *)
LEMMA WrittenAtFirst ==
  ASSUME NEW a \in Text, NEW b \in Text
  PROVE  Written(a, b, <<>>, 0, 0, 0)
<1>1. UpTo(<<>>, 0)
  BY DEF UpTo
<1>2. InsertedAt(<<>>, 0) = <<>>
  <2>1. <<>> \in Seq(Operation) /\ \A j \in 1..Len(<<>>) : <<>>[j].from # 0
    OBVIOUS
  <2> QED
    BY <2>1, InsertedNowhere
<1>3. FlattenSeq([i \in 1..0 |-> Part(<<>>, a, i)]) = <<>>
  <2>1. [i \in 1..0 |-> Part(<<>>, a, i)] = <<>>
    OBVIOUS
  <2> QED
    BY <2>1, FlattenNothing
<1>4. Out(<<>>, a, 0) = <<>>
  BY <1>2, <1>3 DEF Out
<1>5. Touched(<<>>, a) = <<>>
  <2>1. [j \in DOMAIN <<>> |-> SubSeq(a, <<>>[j].from + 1, <<>>[j].to) \o <<>>[j].lines] = <<>>
    OBVIOUS
  <2> QED
    BY <2>1, FlattenNothing DEF Touched
<1>6. SubSeq(b, 1, 0) = <<>> /\ 0 \in 0..Len(a) /\ 0 \in 0..Len(b)
  BY DEF Text
<1>7. Out(<<>>, a, 0) = SubSeq(b, 1, 0) /\ Len(Touched(<<>>, a)) = 0
  <2>1. Len(<<>>) = 0
    OBVIOUS
  <2> QED
    BY <1>4, <1>5, <1>6, <2>1
<1> QED
  BY <1>1, <1>6, <1>7 DEF Written

(* Keeping a line writes the same line.                                     *)
LEMMA WrittenKeepsLine ==
  ASSUME NEW a \in Text, NEW b \in Text, NEW x \in Nat, NEW y \in Nat, NEW ops, NEW n,
         Written(a, b, ops, x, y, n), Match(a, b, x + 1, y + 1)
  PROVE  Written(a, b, ops, x + 1, y + 1, n)
<1>1. /\ Len(a) \in Nat /\ Len(b) \in Nat /\ a \in Seq(Lines) /\ b \in Seq(Lines)
      /\ x + 1 <= Len(a) /\ y + 1 <= Len(b) /\ a[x + 1] = b[y + 1]
  BY DEF Text, Match
<1>2. /\ ops \in Seq(Operation) /\ Out(ops, a, x) = SubSeq(b, 1, y) /\ Len(Touched(ops, a)) = n
      /\ \A j \in 1..Len(ops) : ops[j].from <= ops[j].to /\ ops[j].to <= x
  BY DEF Written, UpTo
<1>3. \A j \in 1..Len(ops) : ops[j].from \in Nat /\ ops[j].to \in Nat
  <2>1. \A j \in 1..Len(ops) : ops[j] \in Operation
    BY <1>2
  <2> QED
    BY <2>1 DEF Operation
<1>4. UpTo(ops, x + 1)
  BY <1>2, <1>3 DEF UpTo
<1>5. InsertedAt(ops, x + 1) = <<>>
  <2>1. \A j \in 1..Len(ops) : ops[j].from # x + 1
    BY <1>2, <1>3
  <2> QED
    BY <1>2, <2>1, InsertedNowhere
<1>6. Spared(ops, x + 1)
  <2>1. \A j \in 1..Len(ops) : x + 1 \notin ops[j].from + 1..ops[j].to
    BY <1>2, <1>3
  <2>2. DOMAIN ops = 1..Len(ops)
    BY <1>2
  <2> QED
    BY <2>1, <2>2 DEF Spared
<1>7. Part(ops, a, x + 1) = <<b[y + 1]>>
  <2>1. Part(ops, a, x + 1) = <<a[x + 1]>> \o <<>>
    BY <1>5, <1>6 DEF Part
  <2>2. \A e : <<e>> \o <<>> = <<e>>
    OBVIOUS
  <2> QED
    BY <1>1, <2>1, <2>2
<1>8. Out(ops, a, x + 1) = SubSeq(b, 1, y) \o <<b[y + 1]>>
  <2>1. Out(ops, a, x + 1) = Out(ops, a, x) \o Part(ops, a, x + 1)
    BY <1>1, <1>2, OutNext
  <2> QED
    BY <1>2, <1>7, <2>1
<1>9. SubSeq(b, 1, y) \o <<b[y + 1]>> = SubSeq(b, 1, y + 1)
  BY <1>1
<1>10. x + 1 \in 0..Len(a) /\ y + 1 \in 0..Len(b)
  BY <1>1
<1>11. Out(ops, a, x + 1) = SubSeq(b, 1, y + 1)
  BY <1>8, <1>9
<1> QED
  BY <1>2, <1>4, <1>10, <1>11 DEF Written

(* So does keeping a run of equal lines.                                    *)
LEMMA WrittenKeepsRun ==
  ASSUME NEW a \in Text, NEW b \in Text, NEW x \in Nat, NEW y \in Nat, NEW s \in Nat,
         NEW ops, NEW n,
         Written(a, b, ops, x, y, n), EqualRun(a, b, x, y, s)
  PROVE  Written(a, b, ops, x + s, y + s, n)
<1> DEFINE S == {m \in Nat : m <= s => Written(a, b, ops, x + m, y + m, n)}
<1>1. 0 \in S
  <2>1. x + 0 = x /\ y + 0 = y
    OBVIOUS
  <2> QED
    BY <2>1
<1>2. ASSUME NEW m \in Nat, m \in S
      PROVE  m + 1 \in S
  <2>1. CASE m + 1 <= s
    <3>1. PICK u \in Nat, v \in Nat : u = x + m /\ v = y + m
      OBVIOUS
    <3>2. Written(a, b, ops, u, v, n)
      BY <1>2, <2>1, <3>1
    <3>3. Match(a, b, u + 1, v + 1)
      <4>1. m + 1 \in 1..s /\ x + (m + 1) = u + 1 /\ y + (m + 1) = v + 1
        BY <2>1, <3>1
      <4>2. Match(a, b, x + (m + 1), y + (m + 1))
        BY <4>1 DEF EqualRun
      <4> QED
        BY <4>1, <4>2
    <3>4. Written(a, b, ops, u + 1, v + 1, n)
      BY <3>2, <3>3, WrittenKeepsLine
    <3>5. x + (m + 1) = u + 1 /\ y + (m + 1) = v + 1
      BY <3>1
    <3> QED
      BY <3>4, <3>5
  <2> QED
    BY <2>1
<1>3. s \in S
  <2> HIDE DEF S
  <2> QED
    BY <1>1, <1>2, AllNumbers
<1> QED
  BY <1>3

(* What operations make of the first lines depends on what they say there.  *)
LEMMA SameOut ==
  ASSUME NEW a, NEW ops, NEW more, NEW x \in Nat,
         \A i \in 0..x : InsertedAt(more, i) = InsertedAt(ops, i),
         \A i \in 1..x : Spared(more, i) <=> Spared(ops, i)
  PROVE  Out(more, a, x) = Out(ops, a, x)
<1>1. \A i \in 1..x : Part(more, a, i) = Part(ops, a, i)
  BY DEF Part
<1>2. [i \in 1..x |-> Part(more, a, i)] = [i \in 1..x |-> Part(ops, a, i)]
  BY <1>1
<1>3. InsertedAt(more, 0) = InsertedAt(ops, 0)
  OBVIOUS
<1> QED
  BY <1>2, <1>3 DEF Out

(* One operation more spares what it does not delete.                       *)
LEMMA SparedAppends ==
  ASSUME NEW ops \in Seq(Operation), NEW e \in Operation, NEW i
  PROVE  Spared(Append(ops, e), i) <=> Spared(ops, i) /\ i \notin e.from + 1..e.to
<1>1. /\ DOMAIN Append(ops, e) = 1..Len(ops) + 1 /\ DOMAIN ops = 1..Len(ops)
      /\ Append(ops, e)[Len(ops) + 1] = e
      /\ \A j \in 1..Len(ops) : Append(ops, e)[j] = ops[j]
      /\ Len(ops) \in Nat
  OBVIOUS
<1>2. 1..Len(ops) + 1 = (1..Len(ops)) \cup {Len(ops) + 1}
  BY <1>1
<1> QED
  BY <1>1, <1>2 DEF Spared

(* Deleting the lines behind writes no more.                                *)
LEMMA WrittenDeletes ==
  ASSUME NEW a \in Text, NEW b \in Text, NEW x \in Nat, NEW y \in Nat, NEW p \in Nat,
         NEW ops, NEW n \in Nat,
         Written(a, b, ops, x, y, n), x + p <= Len(a),
         NEW z, z = x + p
  PROVE  Written(a, b, Append(ops, [from |-> x, to |-> z, lines |-> <<>>]), z, y, n + p)
<1> DEFINE e == [from |-> x, to |-> z, lines |-> <<>>]
           more == Append(ops, e)
<1>1. /\ Len(a) \in Nat /\ Len(b) \in Nat /\ a \in Seq(Lines) /\ b \in Seq(Lines)
      /\ z \in Nat /\ z <= Len(a) /\ x <= z
  BY DEF Text
<1>2. /\ ops \in Seq(Operation) /\ Out(ops, a, x) = SubSeq(b, 1, y) /\ Len(Touched(ops, a)) = n
      /\ \A j \in 1..Len(ops) : ops[j].from <= ops[j].to /\ ops[j].to <= x
      /\ y \in 0..Len(b)
  BY DEF Written, UpTo
<1>3. \A j \in 1..Len(ops) : ops[j].from \in Nat /\ ops[j].to \in Nat
  <2>1. \A j \in 1..Len(ops) : ops[j] \in Operation
    BY <1>2
  <2> QED
    BY <2>1 DEF Operation
<1>4. e \in Operation /\ e.from = x /\ e.to = z /\ e.lines = <<>>
  BY <1>1 DEF Operation
<1> HIDE DEF e
<1>5. more \in Seq(Operation)
  BY <1>2, <1>4
<1>6. UpTo(more, z)
  <2>1. Len(more) = Len(ops) + 1 /\ more[Len(ops) + 1] = e /\ Len(ops) \in Nat
    BY <1>2, <1>4
  <2>2. \A j \in 1..Len(ops) : more[j] = ops[j]
    BY <1>2, <1>4
  <2> HIDE DEF more
  <2>3. ASSUME NEW j \in 1..Len(more)
        PROVE  more[j].from <= more[j].to /\ more[j].to <= z
    <3>1. CASE j = Len(ops) + 1
      BY <1>1, <1>4, <2>1, <3>1
    <3>2. CASE j # Len(ops) + 1
      <4>1. j \in 1..Len(ops)
        BY <2>1, <3>2
      <4> QED
        BY <1>1, <1>2, <1>3, <2>2, <4>1
    <3> QED
      BY <3>1, <3>2
  <2> QED
    BY <1>5, <2>3 DEF UpTo
<1>7. \A i \in Nat : InsertedAt(more, i) = InsertedAt(ops, i)
  <2> SUFFICES ASSUME NEW i \in Nat
               PROVE  InsertedAt(more, i) = InsertedAt(ops, i)
    OBVIOUS
  <2>1. /\ InsertedAt(ops, i) \in Seq(Lines)
        /\ InsertedAt(more, i) = InsertedAt(ops, i) \o (IF e.from = i THEN e.lines ELSE <<>>)
    BY <1>2, <1>4, InsertedAppends
  <2>2. (IF e.from = i THEN e.lines ELSE <<>>) = <<>>
    BY <1>4
  <2> QED
    BY <2>1, <2>2
<1>8. \A i \in Nat : Spared(more, i) <=> Spared(ops, i) /\ i \notin x + 1..z
  BY <1>2, <1>4, SparedAppends
<1> HIDE DEF more
<1>9. Out(more, a, x) = Out(ops, a, x)
  <2>1. \A i \in 0..x : InsertedAt(more, i) = InsertedAt(ops, i)
    BY <1>7
  <2>2. \A i \in 1..x : Spared(more, i) <=> Spared(ops, i)
    BY <1>1, <1>8
  <2> QED
    BY <2>1, <2>2, SameOut
<1>10. ASSUME NEW i \in x + 1..z
       PROVE  Part(more, a, i) = <<>>
  <2>1. i \in Nat /\ ~Spared(more, i)
    BY <1>1, <1>8
  <2>2. \A j \in 1..Len(ops) : ops[j].from # i
    BY <1>1, <1>2, <1>3
  <2>3. InsertedAt(more, i) = <<>>
    BY <1>2, <1>7, <2>1, <2>2, InsertedNowhere
  <2>4. Part(more, a, i) = <<>> \o <<>>
    BY <2>1, <2>3 DEF Part
  <2> QED
    BY <2>4
<1>11. Out(more, a, z) = Out(more, a, x)
  <2> DEFINE S == {m \in Nat : m <= p => Out(more, a, x + m) = Out(more, a, x)}
  <2>1. 0 \in S
    <3>1. x + 0 = x
      OBVIOUS
    <3> QED
      BY <3>1
  <2>2. ASSUME NEW m \in Nat, m \in S
        PROVE  m + 1 \in S
    <3>1. CASE m + 1 <= p
      <4>1. PICK u \in Nat : u = x + m
        OBVIOUS
      <4>2. u + 1 \in x + 1..z /\ u + 1 <= Len(a) /\ x + (m + 1) = u + 1 /\ m <= p
        BY <1>1, <3>1, <4>1
      <4>3. /\ Out(more, a, u) \in Text
            /\ Out(more, a, u + 1) = Out(more, a, u) \o Part(more, a, u + 1)
        BY <1>5, <4>2, OutNext
      <4>4. Part(more, a, u + 1) = <<>>
        BY <1>10, <4>2
      <4>5. Out(more, a, u) = Out(more, a, x)
        BY <2>2, <4>1, <4>2
      <4>6. Out(more, a, u + 1) = Out(more, a, u)
        BY <4>3, <4>4 DEF Text
      <4>7. Out(more, a, x + (m + 1)) = Out(more, a, x)
        BY <4>2, <4>5, <4>6
      <4> QED
        BY <4>7
    <3> QED
      BY <3>1
  <2>3. p \in S
    <3> HIDE DEF S
    <3> QED
      BY <2>1, <2>2, AllNumbers
  <2> QED
    BY <2>3
<1>12. Len(Touched(more, a)) = n + p
  <2>1. UpTo(ops, Len(a))
    BY <1>1, <1>2, <1>3 DEF UpTo
  <2>2. /\ Touched(ops, a) \in Seq(Lines)
        /\ Touched(more, a) = Touched(ops, a) \o (SubSeq(a, e.from + 1, e.to) \o e.lines)
    BY <1>1, <1>4, <2>1, TouchedAppends DEF more
  <2>3. SubSeq(a, x + 1, z) \in Seq(Lines) /\ Len(SubSeq(a, x + 1, z)) = p
    BY <1>1
  <2>4. SubSeq(a, x + 1, z) \o <<>> = SubSeq(a, x + 1, z)
    BY <2>3
  <2>5. Touched(more, a) = Touched(ops, a) \o SubSeq(a, x + 1, z)
    BY <1>4, <2>2, <2>4
  <2>6. \A s, t \in Seq(Lines) : Len(s \o t) = Len(s) + Len(t)
    OBVIOUS
  <2>7. Len(Touched(more, a)) = Len(Touched(ops, a)) + Len(SubSeq(a, x + 1, z))
    BY <2>2, <2>3, <2>5, <2>6
  <2> QED
    BY <1>2, <2>3, <2>7
<1>13. z \in 0..Len(a)
  BY <1>1
<1>14. Out(more, a, z) = SubSeq(b, 1, y)
  BY <1>2, <1>9, <1>11
<1>15. Written(a, b, more, z, y, n + p)
  BY <1>2, <1>6, <1>12, <1>13, <1>14 DEF Written
<1> QED
  BY <1>15 DEF more, e

(* Inserting the next lines of b writes them.                               *)
LEMMA WrittenInserts ==
  ASSUME NEW a \in Text, NEW b \in Text, NEW x \in Nat, NEW y \in Nat, NEW q \in Nat,
         NEW ops, NEW n \in Nat,
         Written(a, b, ops, x, y, n), y + q <= Len(b)
  PROVE  Written(a, b, Append(ops, [from |-> x, to |-> x, lines |-> SubSeq(b, y + 1, y + q)]),
                 x, y + q, n + q)
<1> DEFINE L == SubSeq(b, y + 1, y + q)
           e == [from |-> x, to |-> x, lines |-> L]
           more == Append(ops, e)
<1>1. /\ Len(a) \in Nat /\ Len(b) \in Nat /\ a \in Seq(Lines) /\ b \in Seq(Lines)
      /\ x <= Len(a)
  BY DEF Text, Written
<1>2. /\ ops \in Seq(Operation) /\ Out(ops, a, x) = SubSeq(b, 1, y) /\ Len(Touched(ops, a)) = n
      /\ \A j \in 1..Len(ops) : ops[j].from <= ops[j].to /\ ops[j].to <= x
  BY DEF Written, UpTo
<1>3. \A j \in 1..Len(ops) : ops[j].from \in Nat /\ ops[j].to \in Nat
  <2>1. \A j \in 1..Len(ops) : ops[j] \in Operation
    BY <1>2
  <2> QED
    BY <2>1 DEF Operation
<1>4. L \in Seq(Lines) /\ Len(L) = q /\ SubSeq(b, 1, y) \o L = SubSeq(b, 1, y + q)
  BY <1>1
<1> HIDE DEF L
<1>5. e \in Operation /\ e.from = x /\ e.to = x /\ e.lines = L
  BY <1>4 DEF Operation
<1> HIDE DEF e
<1>6. more \in Seq(Operation)
  BY <1>2, <1>5
<1>7. UpTo(more, x)
  <2>1. Len(more) = Len(ops) + 1 /\ more[Len(ops) + 1] = e /\ Len(ops) \in Nat
    BY <1>2, <1>5
  <2>2. \A j \in 1..Len(ops) : more[j] = ops[j]
    BY <1>2, <1>5
  <2> HIDE DEF more
  <2>3. ASSUME NEW j \in 1..Len(more)
        PROVE  more[j].from <= more[j].to /\ more[j].to <= x
    <3>1. CASE j = Len(ops) + 1
      BY <1>5, <2>1, <3>1
    <3>2. CASE j # Len(ops) + 1
      <4>1. j \in 1..Len(ops)
        BY <2>1, <3>2
      <4> QED
        BY <1>2, <2>2, <4>1
    <3> QED
      BY <3>1, <3>2
  <2> QED
    BY <1>6, <2>3 DEF UpTo
<1>8. \A i \in Nat : /\ InsertedAt(ops, i) \in Seq(Lines)
                     /\ InsertedAt(more, i) = InsertedAt(ops, i) \o (IF x = i THEN L ELSE <<>>)
  BY <1>2, <1>5, InsertedAppends
<1>9. \A i \in Nat : i # x => InsertedAt(more, i) = InsertedAt(ops, i)
  <2> SUFFICES ASSUME NEW i \in Nat, i # x
               PROVE  InsertedAt(more, i) = InsertedAt(ops, i)
    OBVIOUS
  <2>1. /\ InsertedAt(ops, i) \in Seq(Lines)
        /\ InsertedAt(more, i) = InsertedAt(ops, i) \o <<>>
    BY <1>8
  <2> HIDE DEF more
  <2> QED
    BY <2>1
<1>10. InsertedAt(more, x) = InsertedAt(ops, x) \o L /\ InsertedAt(ops, x) \in Seq(Lines)
  BY <1>8
<1>11. \A i \in Nat : Spared(more, i) <=> Spared(ops, i)
  <2>1. \A i : Spared(more, i) <=> Spared(ops, i) /\ i \notin x + 1..x
    BY <1>2, <1>5, SparedAppends
  <2> QED
    BY <2>1
<1> HIDE DEF more
<1>12. /\ \A s, t \in Seq(Lines) : s \o t \in Seq(Lines)
       /\ \A r, s, t \in Seq(Lines) : r \o (s \o t) = (r \o s) \o t
  BY TextsJoin
<1>13. Out(more, a, x) = Out(ops, a, x) \o L
  <2>1. CASE x = 0
    <3>1. \A o : Out(o, a, 0) = InsertedAt(o, 0) \o <<>>
      <4>1. \A o : [i \in 1..0 |-> Part(o, a, i)] = <<>>
        OBVIOUS
      <4> QED
        BY <4>1, FlattenNothing DEF Out
    <3>2. Out(ops, a, 0) = InsertedAt(ops, 0)
      BY <1>10, <2>1, <3>1
    <3>3. Out(more, a, 0) = InsertedAt(more, 0)
      <4>1. InsertedAt(more, 0) \in Seq(Lines)
        BY <1>4, <1>10, <1>12, <2>1
      <4> QED
        BY <3>1, <4>1
    <3> QED
      BY <1>10, <2>1, <3>2, <3>3
  <2>2. CASE x # 0
    <3>1. PICK w \in Nat : w + 1 = x
      <4>1. x - 1 \in Nat /\ (x - 1) + 1 = x
        BY <2>2
      <4> QED
        BY <4>1
    <3>2. \A i \in 0..w : i \in Nat /\ i # x
      BY <3>1
    <3>3. Out(more, a, w) = Out(ops, a, w)
      <4>1. \A i \in 0..w : InsertedAt(more, i) = InsertedAt(ops, i)
        BY <1>9, <3>2
      <4>2. \A i \in 1..w : Spared(more, i) <=> Spared(ops, i)
        BY <1>11
      <4> QED
        BY <4>1, <4>2, SameOut
    <3>4. /\ Out(ops, a, w) \in Text
          /\ Out(ops, a, w + 1) = Out(ops, a, w) \o Part(ops, a, w + 1)
      BY <1>1, <1>2, <3>1, OutNext
    <3>5. Out(more, a, w + 1) = Out(more, a, w) \o Part(more, a, w + 1)
      BY <1>1, <1>6, <3>1, OutNext
    <3> DEFINE kept == IF Spared(ops, x) THEN <<a[x]>> ELSE <<>>
    <3>6. kept \in Seq(Lines)
      BY <1>1, <2>2
    <3>7. Part(ops, a, x) = kept \o InsertedAt(ops, x)
      BY DEF Part
    <3>8. Part(more, a, x) = kept \o (InsertedAt(ops, x) \o L)
      BY <1>10, <1>11 DEF Part
    <3> HIDE DEF kept
    <3>9. Part(more, a, x) = Part(ops, a, x) \o L /\ Part(ops, a, x) \in Seq(Lines)
      <4>1. kept \o (InsertedAt(ops, x) \o L) = (kept \o InsertedAt(ops, x)) \o L
        BY <1>4, <1>10, <1>12, <3>6
      <4>2. kept \o InsertedAt(ops, x) \in Seq(Lines)
        BY <1>10, <1>12, <3>6
      <4> QED
        BY <3>7, <3>8, <4>1, <4>2
    <3>10. Out(more, a, x) = Out(ops, a, w) \o (Part(ops, a, x) \o L)
      BY <3>1, <3>3, <3>5, <3>9
    <3>11. Out(more, a, x) = (Out(ops, a, w) \o Part(ops, a, x)) \o L
      BY <1>4, <1>12, <3>4, <3>9, <3>10 DEF Text
    <3> QED
      BY <3>1, <3>4, <3>11
  <2> QED
    BY <2>1, <2>2
<1>14. Len(Touched(more, a)) = n + q
  <2>1. UpTo(ops, Len(a))
    BY <1>1, <1>2, <1>3 DEF UpTo
  <2>2. /\ Touched(ops, a) \in Seq(Lines)
        /\ Touched(more, a) = Touched(ops, a) \o (SubSeq(a, e.from + 1, e.to) \o e.lines)
    BY <1>1, <1>5, <2>1, TouchedAppends DEF more
  <2>3. SubSeq(a, x + 1, x) = <<>>
    BY <1>1
  <2>4. <<>> \o L = L
    BY <1>4
  <2>5. Touched(more, a) = Touched(ops, a) \o L
    BY <1>5, <2>2, <2>3, <2>4
  <2>6. \A s, t \in Seq(Lines) : Len(s \o t) = Len(s) + Len(t)
    OBVIOUS
  <2>7. Len(Touched(more, a)) = Len(Touched(ops, a)) + Len(L)
    BY <1>4, <2>2, <2>5, <2>6
  <2> QED
    BY <1>2, <1>4, <2>7
<1>15. y + q \in 0..Len(b) /\ x \in 0..Len(a)
  BY <1>1
<1>16. Out(more, a, x) = SubSeq(b, 1, y + q)
  BY <1>2, <1>4, <1>13
<1>17. Written(a, b, more, x, y + q, n + q)
  BY <1>7, <1>14, <1>15, <1>16 DEF Written
<1> QED
  BY <1>17 DEF more, e, L

-----------------------------------------------------------------------------
(* The operations.                                                          *)

(* The larger and the smaller of two numbers.                               *)
LEMMA MaxOfTwo ==
  \A m, n \in Int : /\ Max({m, n}) = IF m >= n THEN m ELSE n
                    /\ Min({m, n}) = IF m <= n THEN m ELSE n
<1> SUFFICES ASSUME NEW m \in Int, NEW n \in Int
             PROVE  /\ Max({m, n}) = IF m >= n THEN m ELSE n
                    /\ Min({m, n}) = IF m <= n THEN m ELSE n
  OBVIOUS
<1>1. Max({m, n}) = IF m >= n THEN m ELSE n
  BY DEF Max
<1>2. Min({m, n}) = IF m <= n THEN m ELSE n
  BY DEF Min
<1> QED
  BY <1>1, <1>2

\* A path at a point, with n lines touched.
PathAt(a, b, path, u, v, n) ==
  /\ path = [x |-> u, y |-> v, ops |-> path.ops]
  /\ Written(a, b, path.ops, u, v, n)

\* From (u, v) to (x, y): p lines down or q to the right, then s equal ones.
Moves(a, b, u, v, p, q, s, x, y) ==
  /\ p \in Nat /\ q \in Nat /\ s \in Nat
  /\ p = 0 \/ q = 0
  /\ u + p <= Len(a) /\ v + q <= Len(b)
  /\ EqualRun(a, b, u + p, v + q, s)
  /\ x = (u + p) + s /\ y = (v + q) + s

(* Following a path for one round: delete, insert or neither, and keep.     *)
LEMMA FollowWrites ==
  ASSUME NEW a \in Text, NEW b \in Text, NEW u \in Nat, NEW v \in Nat, NEW n \in Nat,
         NEW path, PathAt(a, b, path, u, v, n), ~AtEndOfBoth(a, b, path),
         NEW p, NEW q, NEW s, NEW x \in Nat, NEW y \in Nat, Moves(a, b, u, v, p, q, s, x, y),
         NEW m, m = n + p + q
  PROVE  PathAt(a, b, Follow(a, b, path, <<x, y>>), x, y, m)
<1> SUFFICES ASSUME p \in Nat, q \in Nat, s \in Nat, p = 0 \/ q = 0,
                    u + p <= Len(a), v + q <= Len(b),
                    NEW w \in Nat, NEW z \in Nat, w = u + p, z = v + q,
                    EqualRun(a, b, w, z, s), x = w + s, y = z + s
             PROVE  PathAt(a, b, Follow(a, b, path, <<x, y>>), x, y, n + p + q)
  BY DEF Moves
<1>1. path.x = u /\ path.y = v /\ Written(a, b, path.ops, u, v, n)
  BY DEF PathAt
<1>2. Len(a) \in Nat /\ Len(b) \in Nat
  BY DEF Text
<1> DEFINE snake == <<x, y>>
           k == snake[1] - snake[2]
           del == Max({k - (path.x - path.y), 0})
           to == IF path.x < Len(a) THEN Min({path.x + del, Len(a)}) ELSE path.x + del
           ins == Max({to - path.y - k, 0})
           eq == Max({snake[1] - to, 0})
           deleted == [from |-> path.x, to |-> to, lines |-> <<>>]
           inserted == [from |-> to, to |-> to, lines |-> SubSeq(b, path.y + 1, path.y + ins)]
           ops == path.ops \o (IF del > 0 THEN <<deleted>> ELSE <<>>)
                           \o (IF ins > 0 THEN <<inserted>> ELSE <<>>)
<1>3. Follow(a, b, path, <<x, y>>) = [x |-> to + eq, y |-> path.y + ins + eq, ops |-> ops]
  BY DEF Follow
<1>4. k = x - y /\ x - y = (u + p) - (v + q)
  OBVIOUS
<1>5. del = p
  <2>1. k - (path.x - path.y) = p - q
    BY <1>1, <1>4
  <2>2. Max({p - q, 0}) = p
    BY MaxOfTwo
  <2> QED
    BY <2>1, <2>2
<1>6. to = w
  <2>1. Min({w, Len(a)}) = w
    <3>1. w \in Int /\ Len(a) \in Int /\ w <= Len(a)
      BY <1>2
    <3>2. Min({w, Len(a)}) = IF w <= Len(a) THEN w ELSE Len(a)
      BY <3>1, MaxOfTwo
    <3> QED
      BY <3>1, <3>2
  <2> HIDE DEF del
  <2> QED
    BY <1>1, <1>5, <2>1
<1> HIDE DEF del, to
<1>7. ins = q
  <2>1. to - path.y - k = q
    BY <1>1, <1>4, <1>6
  <2>2. Max({q, 0}) = q
    BY MaxOfTwo
  <2> QED
    BY <2>1, <2>2
<1>8. eq = s
  <2>1. snake[1] - to = s
    BY <1>6
  <2>2. Max({s, 0}) = s
    BY MaxOfTwo
  <2> QED
    BY <2>1, <2>2
<1> HIDE DEF ins, eq
<1> DEFINE first == path.ops \o (IF del > 0 THEN <<deleted>> ELSE <<>>)
<1>9. path.ops \in Seq(Operation)
  BY <1>1 DEF Written, UpTo
<1>10. \A e : path.ops \o <<e>> = Append(path.ops, e) /\ path.ops \o <<>> = path.ops
  BY <1>9
<1>11. Written(a, b, first, w, v, n + p)
  <2>1. CASE p = 0
    <3>1. first = path.ops
      BY <1>5, <1>10, <2>1
    <3>2. w = u /\ n + p = n
      BY <2>1
    <3> QED
      BY <1>1, <3>1, <3>2
  <2>2. CASE p # 0
    <3>1. first = Append(path.ops, [from |-> u, to |-> w, lines |-> <<>>])
      <4>1. deleted = [from |-> u, to |-> w, lines |-> <<>>]
        BY <1>1, <1>6
      <4>2. first = path.ops \o <<deleted>>
        <5>1. del > 0
          BY <1>5, <2>2
        <5> HIDE DEF deleted
        <5> QED
          BY <5>1
      <4> HIDE DEF first, deleted
      <4>3. path.ops \o <<deleted>> = Append(path.ops, deleted)
        BY <1>10
      <4> QED
        BY <4>1, <4>2, <4>3
    <3>2. Written(a, b, Append(path.ops, [from |-> u, to |-> w, lines |-> <<>>]), w, v, n + p)
      BY <1>1, WrittenDeletes
    <3> QED
      BY <3>1, <3>2
  <2> QED
    BY <2>1, <2>2
<1>12. ops = first \o (IF ins > 0 THEN <<inserted>> ELSE <<>>)
  OBVIOUS
<1>13. first \in Seq(Operation)
  BY <1>11 DEF Written, UpTo
<1> HIDE DEF first
<1>14. Written(a, b, ops, w, z, n + p + q)
  <2>1. CASE q = 0
    <3>1. ops = first
      <4>1. ops = first \o <<>>
        <5>1. ~(ins > 0)
          BY <1>7, <2>1
        <5> HIDE DEF ops, inserted
        <5> QED
          BY <1>12, <5>1
      <4> HIDE DEF ops
      <4> QED
        BY <1>13, <4>1
    <3>2. z = v /\ n + p + q = n + p
      BY <2>1
    <3> QED
      BY <1>11, <3>1, <3>2
  <2>2. CASE q # 0
    <3>1. ops = Append(first, [from |-> w, to |-> w, lines |-> SubSeq(b, v + 1, v + q)])
      <4>1. inserted = [from |-> w, to |-> w, lines |-> SubSeq(b, v + 1, v + q)]
        BY <1>1, <1>6, <1>7
      <4>2. ops = first \o <<inserted>>
        <5>1. ins > 0
          BY <1>7, <2>2
        <5> HIDE DEF ops, inserted
        <5> QED
          BY <1>12, <5>1
      <4> HIDE DEF ops, inserted
      <4>3. first \o <<inserted>> = Append(first, inserted)
        BY <1>13
      <4> QED
        BY <4>1, <4>2, <4>3
    <3>2. n + p \in Nat
      OBVIOUS
    <3>3. Written(a, b, Append(first, [from |-> w, to |-> w, lines |-> SubSeq(b, v + 1, v + q)]),
                  w, v + q, (n + p) + q)
      BY <1>11, <3>2, WrittenInserts
    <3> QED
      BY <3>1, <3>3
  <2> QED
    BY <2>1, <2>2
<1>15. Written(a, b, ops, x, y, n + p + q)
  BY <1>14, WrittenKeepsRun
<1>16. to + eq = x /\ path.y + ins + eq = y
  BY <1>1, <1>6, <1>7, <1>8
<1>17. Follow(a, b, path, <<x, y>>) = [x |-> x, y |-> y, ops |-> ops]
  BY <1>3, <1>16
<1> HIDE DEF ops
<1>18. [x |-> x, y |-> y, ops |-> ops].ops = ops
  OBVIOUS
<1> QED
  BY <1>15, <1>17, <1>18 DEF PathAt

(* The point of round zero is at the end of what both texts begin with.     *)
LEMMA FirstPoint ==
  ASSUME NEW a \in Text, NEW b \in Text, NEW C, IsTable(C, a, b), Span(a, b) # 0,
         NEW p, OnPath(C, a, b, 0, p)
  PROVE  \E s \in Nat : p = <<s, s>> /\ EqualRun(a, b, 0, 0, s)
<1>1. PICK s : FirstRun(C, a, b, s)
  BY FirstRoundSlides
<1>2. s \in Nat /\ Round(a, b, Zeros(a, b), 0)[0] = s /\ EqualRun(a, b, 0, 0, s)
  BY <1>1 DEF FirstRun
<1>3. p \in Nat \X Nat /\ p[1] - p[2] = 0 /\ Rounds(a, b)[0][0] = p[1]
  <2>1. Diagonals(0) = {0}
    BY DEF Diagonals
  <2> QED
    BY <2>1 DEF OnPath
<1>4. p = <<p[1], p[2]>> /\ p[1] \in Nat /\ p[2] \in Nat /\ p[1] = p[2]
  BY <1>3
<1>5. Rounds(a, b)[0] = Round(a, b, Zeros(a, b), 0)
  BY RoundsFollow
<1>6. p[1] = s
  BY <1>2, <1>3, <1>5
<1> QED
  BY <1>2, <1>4, <1>6

(* The first point that backtrack leaves is of round zero, or at the        *)
(* beginning of one of the texts.                                           *)
LEMMA FirstSnakeIsAtAnEdge ==
  ASSUME NEW a \in Text, NEW b \in Text, NEW C, IsTable(C, a, b), NEW D \in Nat,
         NEW P, DOMAIN P = 0..D, \A d \in 0..D : OnPath(C, a, b, d, P[d]),
         NEW f, f = FirstSnake(P)
  PROVE  /\ f \in 0..D
         /\ f # 0 => P[f] = <<0, f>> \/ P[f] = <<f, 0>>
<1> DEFINE S == {d \in DOMAIN P : d = 0 \/ P[d][1] <= 0 \/ P[d][2] <= 0}
           m == Max(S)
<1>1. m \in S
  <2>1. S \in SUBSET (0..D) /\ 0 \in S
    OBVIOUS
  <2> HIDE DEF S
  <2> QED
    BY <2>1, MaxOfBounded
<1>2. LoopEnd(P) = m
  BY DEF LoopEnd
<1> HIDE DEF m
<1>3. m \in 0..D /\ (m = 0 \/ P[m][1] <= 0 \/ P[m][2] <= 0)
  BY <1>1
<1>4. P[m] \in Nat \X Nat /\ Distance(C, P[m][1], P[m][2]) = m
  BY <1>3 DEF OnPath
<1>5. PICK x \in Nat, y \in Nat : P[m] = <<x, y>>
  BY <1>4
<1>6. ~(P[m][1] < 0) /\ ~(P[m][2] < 0)
  BY <1>5
<1>7. f = m
  BY <1>2, <1>6 DEF FirstSnake
<1>8. Distance(C, x, y) = m /\ (m = 0 \/ x = 0 \/ y = 0)
  BY <1>3, <1>4, <1>5
<1>9. Distance(C, x, 0) = x /\ Distance(C, 0, y) = y
  <2>1. C[<<x, 0>>] = 0 /\ C[<<0, y>>] = 0
    BY DEF IsTable
  <2> QED
    BY <2>1 DEF Distance
<1> QED
  BY <1>3, <1>5, <1>7, <1>8, <1>9

\* What the loop of operations makes of the path in round d.
Start == [x |-> 0, y |-> 0, ops |-> <<>>]

PathNext(a, b, P, f, d, path) == IF d < f THEN path ELSE Follow(a, b, path, P[d])

\* Before the first point there is no path, then it is at the point of the
\* round, with as many lines touched as the round has edits.
PathIs(a, b, P, f, d, path) ==
  IF d < f THEN path = Start ELSE PathAt(a, b, path, P[d][1], P[d][2], d)

(* The first point is reached by deleting or inserting alone.               *)
LEMMA FirstFollow ==
  ASSUME NEW a \in Text, NEW b \in Text, Span(a, b) # 0,
         NEW x \in Nat, NEW y \in Nat, x <= Len(a), y <= Len(b),
         NEW n \in Nat,
         \/ n = 0 /\ x = y /\ EqualRun(a, b, 0, 0, x)
         \/ n = x /\ y = 0
         \/ n = y /\ x = 0
  PROVE  PathAt(a, b, Follow(a, b, Start, <<x, y>>), x, y, n)
<1>1. Len(a) \in Nat /\ Len(b) \in Nat /\ Span(a, b) = Len(a) + Len(b)
  BY DEF Text, Span
<1>2. PathAt(a, b, Start, 0, 0, 0)
  BY WrittenAtFirst DEF PathAt, Start
<1>3. ~AtEndOfBoth(a, b, Start)
  BY <1>1 DEF AtEndOfBoth, Start
<1>4. \A u, v : EqualRun(a, b, u, v, 0)
  BY DEF EqualRun
<1>5. ASSUME NEW p, NEW q, NEW s, Moves(a, b, 0, 0, p, q, s, x, y), n = 0 + p + q
      PROVE  PathAt(a, b, Follow(a, b, Start, <<x, y>>), x, y, n)
  BY <1>2, <1>3, <1>5, FollowWrites
<1>6. CASE n = 0 /\ x = y /\ EqualRun(a, b, 0, 0, x)
  <2>1. Moves(a, b, 0, 0, 0, 0, x, x, y) /\ n = 0 + 0 + 0
    BY <1>1, <1>6 DEF Moves
  <2> QED
    BY <1>5, <2>1
<1>7. CASE n = x /\ y = 0
  <2>1. Moves(a, b, 0, 0, x, 0, 0, x, y) /\ n = 0 + x + 0
    BY <1>1, <1>4, <1>7 DEF Moves
  <2> QED
    BY <1>5, <2>1
<1>8. CASE n = y /\ x = 0
  <2>1. Moves(a, b, 0, 0, 0, y, 0, x, y) /\ n = 0 + 0 + y
    BY <1>1, <1>4, <1>8 DEF Moves
  <2> QED
    BY <1>5, <2>1
<1> QED
  BY <1>6, <1>7, <1>8

(* A later point is reached by one line more, deleted or inserted.          *)
LEMMA LaterFollow ==
  ASSUME NEW a \in Text, NEW b \in Text,
         NEW u \in Nat, NEW v \in Nat, NEW n \in Nat, NEW path,
         PathAt(a, b, path, u, v, n), ~AtEndOfBoth(a, b, path),
         NEW x \in Nat, NEW y \in Nat, x <= Len(a), y <= Len(b), Snake(a, b, u, v, x, y)
  PROVE  PathAt(a, b, Follow(a, b, path, <<x, y>>), x, y, n + 1)
<1>1. Len(a) \in Nat /\ Len(b) \in Nat
  BY DEF Text
<1>2. PICK s \in Nat :
        \/ x = u + s /\ y = (v + 1) + s /\ EqualRun(a, b, u, v + 1, s)
        \/ x = (u + 1) + s /\ y = v + s /\ EqualRun(a, b, u + 1, v, s)
  BY DEF Snake
<1>3. CASE x = u + s /\ y = (v + 1) + s /\ EqualRun(a, b, u, v + 1, s)
  <2>1. u + 0 = u /\ n + 0 + 1 = n + 1
    OBVIOUS
  <2>2. Moves(a, b, u, v, 0, 1, s, x, y)
    BY <1>1, <1>3, <2>1 DEF Moves
  <2> QED
    BY <2>1, <2>2, FollowWrites
<1>4. CASE x = (u + 1) + s /\ y = v + s /\ EqualRun(a, b, u + 1, v, s)
  <2>1. v + 0 = v /\ n + 1 + 0 = n + 1
    OBVIOUS
  <2>2. Moves(a, b, u, v, 1, 0, s, x, y)
    BY <1>1, <1>4, <2>1 DEF Moves
  <2> QED
    BY <2>1, <2>2, FollowWrites
<1> QED
  BY <1>2, <1>3, <1>4

\* P are the points of a difference of a and b.
ArePoints(C, a, b, D, P) ==
  /\ DOMAIN P = 0..D
  /\ \A d \in 0..D : OnPath(C, a, b, d, P[d])
  /\ \A d \in 0..D - 1 : Snake(a, b, P[d][1], P[d][2], P[d + 1][1], P[d + 1][2])

(* Each round of the loop takes the path to the point of the round.         *)
LEMMA NextPath ==
  ASSUME NEW a \in Text, NEW b \in Text, NEW C, IsTable(C, a, b), Span(a, b) # 0,
         NEW D, D = LastRound(a, b), NEW P, ArePoints(C, a, b, D, P),
         NEW f, f = FirstSnake(P), NEW d \in 0..D, NEW path,
         d = 0 => path = Start,
         d # 0 => PathIs(a, b, P, f, d - 1, path)
  PROVE  PathIs(a, b, P, f, d, PathNext(a, b, P, f, d, path))
<1>1. /\ D \in Nat /\ Len(a) \in Nat /\ Len(b) \in Nat
      /\ Distance(C, Len(a), Len(b)) = D
  <2>1. D \in 0..Span(a, b) /\ Span(a, b) \in Nat
    BY LastRoundIsDistance DEF Text, Span
  <2>2. Distance(C, Len(a), Len(b)) = D
    BY LastRoundIsDistance DEF DistanceOfTexts
  <2> QED
    BY <2>1, <2>2 DEF Text
<1>2. /\ DOMAIN P = 0..D
      /\ \A e \in 0..D : OnPath(C, a, b, e, P[e])
      /\ \A e \in 0..D - 1 : Snake(a, b, P[e][1], P[e][2], P[e + 1][1], P[e + 1][2])
  BY DEF ArePoints
<1>3. /\ f \in 0..D
      /\ f # 0 => P[f] = <<0, f>> \/ P[f] = <<f, 0>>
  BY <1>1, <1>2, FirstSnakeIsAtAnEdge
<1>4. PICK x \in Nat, y \in Nat : P[d] = <<x, y>> /\ x <= Len(a) /\ y <= Len(b)
  <2>1. OnPath(C, a, b, d, P[d])
    BY <1>2
  <2>2. P[d] \in Nat \X Nat
    BY <2>1 DEF OnPath
  <2>3. PICK x \in Nat, y \in Nat : P[d] = <<x, y>>
    BY <2>2
  <2> QED
    BY <2>1, <2>3 DEF OnPath
<1>5. CASE d < f
  <2>1. path = Start
    <3>1. d # 0 => d - 1 < f
      BY <1>1, <1>3, <1>5
    <3> QED
      BY <3>1 DEF PathIs
  <2> QED
    BY <1>5, <2>1 DEF PathIs, PathNext
<1>6. CASE d = f
  <2>1. path = Start
    <3>1. d # 0 => d - 1 < f
      BY <1>1, <1>3, <1>6
    <3> QED
      BY <3>1 DEF PathIs
  <2>2. PathAt(a, b, Follow(a, b, Start, <<x, y>>), x, y, d)
    <3>1. \/ d = 0 /\ x = y /\ EqualRun(a, b, 0, 0, x)
          \/ d = x /\ y = 0
          \/ d = y /\ x = 0
      <4>1. CASE d = 0
        <5>1. OnPath(C, a, b, 0, P[d])
          BY <1>2, <4>1
        <5>2. PICK s \in Nat : P[d] = <<s, s>> /\ EqualRun(a, b, 0, 0, s)
          BY <5>1, FirstPoint
        <5> QED
          BY <1>4, <4>1, <5>2
      <4>2. CASE d # 0
        BY <1>3, <1>4, <1>6, <4>2
      <4> QED
        BY <4>1, <4>2
    <3>2. d \in Nat
      BY <1>1
    <3> QED
      BY <1>4, <3>1, <3>2, FirstFollow
  <2>3. P[d][1] = x /\ P[d][2] = y /\ ~(d < f)
    BY <1>1, <1>3, <1>4, <1>6
  <2> QED
    BY <1>4, <2>1, <2>2, <2>3 DEF PathIs, PathNext
<1>7. CASE d > f
  <2>1. PICK e \in 0..D - 1 : d = e + 1
    <3>1. d - 1 \in 0..D - 1 /\ d = (d - 1) + 1
      BY <1>1, <1>3, <1>7
    <3> QED
      BY <3>1
  <2>2. e \in 0..D /\ e \in Nat /\ d - 1 = e /\ d # 0 /\ ~(e < f) /\ e # D
    BY <1>1, <1>3, <1>7, <2>1
  <2>3. OnPath(C, a, b, e, P[e])
    BY <1>2, <2>2
  <2>4. PICK u \in Nat, v \in Nat : P[e] = <<u, v>>
    <3>1. P[e] \in Nat \X Nat
      BY <2>3 DEF OnPath
    <3> QED
      BY <3>1
  <2>5. u <= Len(a) /\ v <= Len(b) /\ Distance(C, u, v) = e
    BY <2>3, <2>4 DEF OnPath
  <2>6. PathIs(a, b, P, f, e, path)
    BY <2>2
  <2>7. PathAt(a, b, path, u, v, e)
    BY <2>2, <2>4, <2>6 DEF PathIs
  <2>8. path.x = u /\ path.y = v
    BY <2>7 DEF PathAt
  <2>9. ~AtEndOfBoth(a, b, path)
    <3>1. SUFFICES ASSUME AtEndOfBoth(a, b, path)
                   PROVE  FALSE
      OBVIOUS
    <3>2. u = Len(a) /\ v = Len(b)
      BY <1>1, <2>5, <2>8, <3>1 DEF AtEndOfBoth
    <3> QED
      BY <1>1, <2>2, <2>5, <3>2
  <2>10. Snake(a, b, u, v, x, y)
    <3>1. Snake(a, b, P[e][1], P[e][2], P[e + 1][1], P[e + 1][2])
      BY <1>2
    <3> QED
      BY <1>4, <2>1, <2>4, <3>1
  <2>11. PathAt(a, b, Follow(a, b, path, <<x, y>>), x, y, e + 1)
    BY <1>4, <2>2, <2>7, <2>9, <2>10, LaterFollow
  <2>12. P[d][1] = x /\ P[d][2] = y /\ ~(d < f)
    BY <1>1, <1>3, <1>4, <1>7
  <2> QED
    BY <1>4, <2>1, <2>11, <2>12 DEF PathIs, PathNext
<1>8. d \in Nat /\ f \in Nat
  BY <1>1, <1>3
<1> QED
  BY <1>5, <1>6, <1>7, <1>8

(* The operations that are found turn all of a into all of b, and touch as  *)
(* many lines as the two are apart.                                         *)
LEMMA OperationsWrite ==
  ASSUME NEW a \in Text, NEW b \in Text, NEW C, IsTable(C, a, b), Span(a, b) # 0
  PROVE  Written(a, b, PathAfter(a, b)[LastRound(a, b)].ops, Len(a), Len(b), LastRound(a, b))
<1> DEFINE D == LastRound(a, b)
           P == Points(a, b)
           f == FirstSnake(P)
           T == [x : Nat, y : Nat, ops : Seq(Operation)]
           Next(d, path) == PathNext(a, b, P, f, d, path)
           Is(d, path) == PathIs(a, b, P, f, d, path)
           Computes(h) == h = [d \in 0..D |-> Next(d, IF d = 0 THEN Start ELSE h[d - 1])]
<1>1. D \in Nat
  <2>1. D \in 0..Span(a, b) /\ Span(a, b) \in Nat
    BY LastRoundIsDistance DEF Text, Span
  <2> QED
    BY <2>1
<1>2. GoesBack(a, b, D, P) /\ DOMAIN P = 0..D
  BY PointsGoBack
<1>3. ArePoints(C, a, b, D, P)
  <2>1. /\ \A d \in 0..D : OnPath(C, a, b, d, P[d])
        /\ \A d \in 0..D - 1 : Snake(a, b, P[d][1], P[d][2], P[d + 1][1], P[d + 1][2])
    <3> HIDE DEF P
    <3> QED
      BY <1>2, BackOnPath
  <2> QED
    BY <1>2, <2>1 DEF ArePoints
<1>4. ASSUME NEW d \in 0..D, NEW path, d = 0 => path = Start, d # 0 => Is(d - 1, path)
      PROVE  Is(d, Next(d, path))
  <2> HIDE DEF P
  <2> QED
    BY <1>3, <1>4, NextPath
<1>5. ASSUME NEW d \in 0..D, NEW path, Is(d, path)
      PROVE  path \in T
  <2>1. P[d] \in Nat \X Nat
    BY <1>3 DEF ArePoints, OnPath
  <2>2. CASE d < f
    <3>1. path = Start
      BY <1>5, <2>2 DEF PathIs
    <3>2. <<>> \in Seq(Operation) /\ 0 \in Nat
      OBVIOUS
    <3> QED
      BY <3>1, <3>2 DEF Start
  <2>3. CASE ~(d < f)
    <3>1. PICK u \in Nat, v \in Nat : u = P[d][1] /\ v = P[d][2]
      BY <2>1
    <3>2. path = [x |-> u, y |-> v, ops |-> path.ops] /\ path.ops \in Seq(Operation)
      BY <1>5, <2>3, <3>1 DEF PathIs, PathAt, Written, UpTo
    <3> QED
      BY <3>2
  <2> QED
    BY <2>2, <2>3
<1> HIDE DEF Is, Next, P, f
<1>6. Is(0, Next(0, Start))
  BY <1>1, <1>4
<1>7. ASSUME NEW h,
             h[0] = Next(0, Start),
             \A d \in 0..D - 1 : Next(d + 1, h[d]) \in T => h[d + 1] = Next(d + 1, h[d])
      PROVE  /\ \A d \in 0..D : Is(d, h[d])
             /\ \A d \in 0..D - 1 : h[d + 1] = Next(d + 1, h[d])
  <2> HIDE DEF T, D
  <2>1. ASSUME NEW d \in 0..D - 1, Is(d, h[d])
        PROVE  Is(d + 1, h[d + 1]) /\ h[d + 1] = Next(d + 1, h[d])
    <3>1. d + 1 \in 0..D /\ d + 1 # 0 /\ (d + 1) - 1 = d
      BY <1>1
    <3>2. Is(d + 1, Next(d + 1, h[d]))
      BY <1>4, <2>1, <3>1
    <3>3. Next(d + 1, h[d]) \in T
      BY <1>5, <3>1, <3>2
    <3> QED
      BY <1>7, <3>2, <3>3
  <2> DEFINE S == {d \in Nat : d <= D => Is(d, h[d])}
  <2>2. 0 \in S
    BY <1>6, <1>7
  <2>3. ASSUME NEW d \in Nat, d \in S
        PROVE  d + 1 \in S
    <3>1. CASE d + 1 <= D
      <4>1. d \in 0..D - 1 /\ d <= D
        BY <1>1, <3>1
      <4> QED
        BY <2>1, <2>3, <4>1
    <3> QED
      BY <1>1, <3>1
  <2>4. \A d \in Nat : d \in S
    <3> HIDE DEF S
    <3> QED
      BY <2>2, <2>3, AllNumbers
  <2>5. \A d \in 0..D : Is(d, h[d])
    BY <1>1, <2>4
  <2>6. \A d \in 0..D - 1 : d \in 0..D
    BY <1>1
  <2> QED
    BY <2>1, <2>5, <2>6
<1> DEFINE first == Next(0, Start)
           step == [q \in T \X Nat |-> IF Next(q[2] + 1, q[1]) \in T
                                       THEN Next(q[2] + 1, q[1]) ELSE first]
<1>8. first \in T
  <2> HIDE DEF T
  <2> QED
    BY <1>1, <1>5, <1>6
<1>9. step \in [T \X Nat -> T]
  <2> HIDE DEF T, first
  <2> QED
    BY <1>8
<1>10. \A p \in T, n \in Nat : Next(n + 1, p) \in T => step[<<p, n>>] = Next(n + 1, p)
  <2> HIDE DEF T, first
  <2> QED
    OBVIOUS
<1>11. PICK h : StepsTo(h, T, first, step, D)
  <2> HIDE DEF step, T, D, first
  <2> QED
    BY <1>1, <1>8, <1>9, StepByStep
<1>12. h \in [0..D -> T] /\ h[0] = first /\ \A d \in 0..D - 1 : h[d + 1] = step[<<h[d], d>>]
  <2> HIDE DEF step, T, D, first
  <2> QED
    BY <1>11 DEF StepsTo
<1> HIDE DEF step
<1>13. \A d \in 0..D - 1 : Next(d + 1, h[d]) \in T => h[d + 1] = Next(d + 1, h[d])
  <2> HIDE DEF T, D
  <2> SUFFICES ASSUME NEW d \in 0..D - 1, Next(d + 1, h[d]) \in T
               PROVE  h[d + 1] = Next(d + 1, h[d])
    OBVIOUS
  <2>1. d \in Nat /\ d \in 0..D
    BY <1>1
  <2>2. h[d] \in T /\ h[d + 1] = step[<<h[d], d>>]
    BY <1>12, <2>1
  <2> QED
    BY <1>10, <2>1, <2>2
<1>14. \A d \in 0..D - 1 : h[d + 1] = Next(d + 1, h[d])
  <2> HIDE DEF T, D
  <2> QED
    BY <1>7, <1>12, <1>13
<1>15. Computes(h)
  <2> HIDE DEF T, D
  <2>1. ASSUME NEW d \in 0..D
        PROVE  h[d] = Next(d, IF d = 0 THEN Start ELSE h[d - 1])
    <3>1. CASE d = 0
      BY <1>12, <3>1
    <3>2. CASE d # 0
      <4>1. d - 1 \in 0..D - 1 /\ (d - 1) + 1 = d
        BY <1>1, <3>2
      <4>2. h[(d - 1) + 1] = Next((d - 1) + 1, h[d - 1])
        BY <1>14, <4>1
      <4> QED
        BY <3>2, <4>1, <4>2
    <3> QED
      BY <3>1, <3>2
  <2>2. h = [d \in 0..D |-> h[d]]
    BY <1>12
  <2> QED
    BY <2>1, <2>2
<1>16. PathAfter(a, b) = CHOOSE g : Computes(g)
  <2>1. DOMAIN Points(a, b) = 0..D
    BY <1>2 DEF P
  <2> QED
    BY <2>1, Zenon DEF PathAfter, PathNext, Next, P, f, Start
<1>17. Computes(PathAfter(a, b))
  <2> HIDE DEF Computes
  <2> QED
    BY <1>15, <1>16
<1> DEFINE Q == PathAfter(a, b)
<1> HIDE DEF Q
<1>18. Q = [d \in 0..D |-> Next(d, IF d = 0 THEN Start ELSE Q[d - 1])]
  BY <1>17, Zenon DEF Q
<1>19. \A d \in 0..D : Q[d] = Next(d, IF d = 0 THEN Start ELSE Q[d - 1])
  BY <1>18, Zenon
<1>20. Q[0] = Next(0, Start)
  BY <1>1, <1>19
<1>21. \A d \in 0..D - 1 : Q[d + 1] = Next(d + 1, Q[d])
  <2> HIDE DEF D
  <2> SUFFICES ASSUME NEW d \in 0..D - 1
               PROVE  Q[d + 1] = Next(d + 1, Q[d])
    OBVIOUS
  <2>1. d + 1 \in 0..D /\ d + 1 # 0 /\ (d + 1) - 1 = d
    BY <1>1
  <2> QED
    BY <1>19, <2>1
<1>22. Is(D, Q[D])
  <2> HIDE DEF D, T
  <2>1. \A d \in 0..D : Is(d, Q[d])
    BY <1>7, <1>20, <1>21
  <2>2. D \in 0..D
    BY <1>1
  <2> QED
    BY <2>1, <2>2
<1>23. ~(D < f)
  <2>1. f \in 0..D
    <3>1. \A d \in 0..D : OnPath(C, a, b, d, P[d])
      BY <1>3 DEF ArePoints
    <3> HIDE DEF D
    <3> QED
      BY <1>1, <1>2, <3>1, FirstSnakeIsAtAnEdge DEF f
  <2> QED
    BY <1>1, <2>1
<1>24. P[D] = <<Len(a), Len(b)>>
  BY <1>2 DEF GoesBack
<1>25. Written(a, b, Q[D].ops, Len(a), Len(b), D)
  BY <1>22, <1>23, <1>24 DEF Is, PathIs, PathAt
<1> QED
  BY <1>25 DEF Q

(* What is written at the end of the text before is what an editor makes.   *)
LEMMA AppliedIsOut ==
  ASSUME NEW a \in Text, NEW ops
  PROVE  Applied(ops, a) = Out(ops, a, Len(a))
<1>1. DOMAIN a = 1..Len(a)
  BY DEF Text
<1> QED
  BY <1>1 DEF Applied, Out, Part

(* The operations are right, for any two texts.                             *)
LEMMA OperationsAreRight ==
  ASSUME NEW a \in Text, NEW b \in Text
  PROVE  /\ Applied(Operations(a, b), a) = b
         /\ Len(Touched(Operations(a, b), a)) = Len(a) + Len(b) - 2 * Common(a, b)
<1>1. PICK C : IsTable(C, a, b)
  BY TableExists
<1>2. Len(a) \in Nat /\ Len(b) \in Nat /\ a \in Seq(Lines) /\ b \in Seq(Lines)
  BY DEF Text
<1>3. Common(a, b) = C[<<Len(a), Len(b)>>]
  BY <1>1, CommonIsEntry
<1> DEFINE n == Len(a) + Len(b) - 2 * Common(a, b)
<1>4. Written(a, b, Operations(a, b), Len(a), Len(b), n)
  <2>1. CASE Span(a, b) = 0
    <3>1. Len(a) = 0 /\ Len(b) = 0
      BY <1>2, <2>1 DEF Span
    <3>2. a = <<>> /\ b = <<>>
      BY <1>2, <3>1
    <3>3. Operations(a, b) = <<>>
      BY <3>2 DEF Operations
    <3>4. n = 0
      <4>1. C[<<0, 0>>] = 0
        BY <1>1 DEF IsTable
      <4> QED
        BY <1>3, <3>1, <4>1
    <3>5. Written(a, b, <<>>, 0, 0, 0)
      BY WrittenAtFirst
    <3> HIDE DEF n
    <3> QED
      BY <3>1, <3>3, <3>4, <3>5
  <2>2. CASE Span(a, b) # 0
    <3>1. Written(a, b, PathAfter(a, b)[LastRound(a, b)].ops, Len(a), Len(b), LastRound(a, b))
      BY <1>1, <2>2, OperationsWrite
    <3>2. ~(a = <<>> /\ b = <<>>)
      BY <2>2 DEF Span
    <3>3. Operations(a, b) = PathAfter(a, b)[LastRound(a, b)].ops
      BY <3>2, Zenon DEF Operations
    <3>4. LastRound(a, b) = n
      BY <1>1, <1>3, <2>2, LastRoundIsDistance DEF DistanceOfTexts, Distance
    <3> HIDE DEF n
    <3> QED
      BY <3>1, <3>3, <3>4
  <2> QED
    BY <2>1, <2>2
<1>5. Applied(Operations(a, b), a) = SubSeq(b, 1, Len(b))
  BY <1>4, AppliedIsOut DEF Written
<1>6. SubSeq(b, 1, Len(b)) = b
  BY <1>2
<1>7. Len(Touched(Operations(a, b), a)) = n
  <2> HIDE DEF n
  <2> QED
    BY <1>4 DEF Written
<1> QED
  BY <1>5, <1>6, <1>7

\* The inductive invariant: there are no edits but those of the two texts.
EditsInv ==
  /\ before \in TextsOfLines /\ after \in TextsOfLines
  /\ \A ops \in edits : ops = Operations(before, after)

(* The edits that ComputeEdits answers (internal/lsp/format.go) turn the    *)
(* text before into the one after and touch no more lines than they must    *)
(* (shortestEditSequence, internal/lsp/diff.go), for any two texts.         *)
THEOREM EditsRight == EditsSpec => []EditsAreRight
<1>1. EditsInit => EditsInv
  BY DEF EditsInit, EditsInv
<1>2. EditsInv /\ [ComputeEdits]_editVars => EditsInv'
  <2> SUFFICES ASSUME EditsInv, [ComputeEdits]_editVars
               PROVE  EditsInv'
    OBVIOUS
  <2>1. CASE ComputeEdits
    BY <2>1, Zenon DEF EditsInv, ComputeEdits
  <2>2. CASE UNCHANGED editVars
    BY <2>2 DEF EditsInv, editVars
  <2> QED
    BY <2>1, <2>2
<1>3. EditsInv => EditsAreRight
  <2> SUFFICES ASSUME EditsInv, NEW ops \in edits
               PROVE  /\ Applied(ops, before) = after
                      /\ Len(Touched(ops, before))
                           = Len(before) + Len(after) - 2 * Common(before, after)
    BY DEF EditsAreRight
  <2>1. TextsOfLines \subseteq Text
    BY DEF TextsOfLines, Text
  <2>2. before \in Text /\ after \in Text /\ ops = Operations(before, after)
    BY <2>1 DEF EditsInv
  <2>3. /\ Applied(Operations(before, after), before) = after
        /\ Len(Touched(Operations(before, after), before))
             = Len(before) + Len(after) - 2 * Common(before, after)
    BY <2>2, OperationsAreRight
  <2> QED
    BY <2>2, <2>3
<1> QED
  BY <1>1, <1>2, <1>3, PTL DEF EditsSpec
=============================================================================
