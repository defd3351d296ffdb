----------------------------- MODULE TextEdits -----------------------------
(* The edits the server asks an editor to make when it formats or fixes a   *)
(* file: ComputeEdits (internal/lsp/format.go) over the difference that     *)
(* Myers' algorithm finds between two texts (internal/lsp/diff.go).         *)
(*                                                                          *)
(* A text is a sequence of lines.  An operation says what to do with the    *)
(* lines from .from (excluded) to .to of the text before: delete them, or,  *)
(* with .from = .to, insert .lines there.                                   *)
EXTENDS Naturals, Integers, Sequences, FiniteSetsExt, SequencesExt

CONSTANTS
  Lines,   \* the lines texts are made of
  MaxLines \* bound on their number

VARIABLES before, after, edits

editVars == <<before, after, edits>>

TextsOfLines == UNION {[1..n -> Lines] : n \in 0..MaxLines}

\* The diagonals of round d.
Diagonals(d) == {k \in -d..d : (k + d) % 2 = 0}

\* The choice of the round before: down from the diagonal k + 1, or right.
KPrev(V, d, k) ==
  IF k = -d \/ (k # d /\ V[k - 1] < V[k + 1]) THEN k + 1 ELSE k - 1

\* How far equal lines go from a point.
Slide(a, b, x, y) ==
  Max({n \in 0..Len(a) :
         \A i \in 1..n : x + i <= Len(a) /\ y + i <= Len(b) /\ a[x + i] = b[y + i]})

\* Round d of the search: for each diagonal, the furthest point that d edits
\* reach.  Diagonals of a round depend on none of the same round.
Round(a, b, V, d) ==
  [k \in DOMAIN V |->
     IF k \in Diagonals(d)
     THEN LET x == IF KPrev(V, d, k) = k + 1 THEN V[k + 1] ELSE V[k - 1] + 1
          IN x + Slide(a, b, x, x - k)
     ELSE V[k]]

\* shortestEditSequence: V after each round, were none of them the last.
Rounds(a, b) ==
  LET N == Len(a) + Len(b)
      V[d \in 0..N] == Round(a, b, IF d = 0 THEN [k \in -N..N |-> 0] ELSE V[d - 1], d)
  IN V

\* It returns in the first round that comes to the end of both texts.
LastRound(a, b) ==
  LET V == Rounds(a, b)
      k == Len(a) - Len(b)
      Ends(d) == k \in Diagonals(d) /\ V[d][k] = Len(a)
  IN CHOOSE d \in DOMAIN V : Ends(d) /\ \A e \in 0..d - 1 : ~Ends(e)

\* backtrack: from the end, the point that the path had come to in each round.
Points(a, b) ==
  LET V == Rounds(a, b)
      last == LastRound(a, b)
      Point[d \in 0..last] ==
        IF d = last THEN <<Len(a), Len(b)>>
        ELSE LET p == Point[d + 1]
                 k == KPrev(V[d + 1], d + 1, p[1] - p[2])
                 x == V[d + 1][k]
             IN <<x, x - k>>
  IN Point

\* The round with which the loop of backtrack ends, and the first that it
\* leaves a point for.
LoopEnd(point) == Max({d \in DOMAIN point : d = 0 \/ point[d][1] <= 0 \/ point[d][2] <= 0})

FirstSnake(point) ==
  LET d == LoopEnd(point) IN IF point[d][1] < 0 \/ point[d][2] < 0 THEN d + 1 ELSE d

\* Plausible bug: the loop ends with the lines of the text before.
AtEndOfOne(a, b, path) == path.x >= Len(a)

AtEndOfBoth(a, b, path) == path.x >= Len(a) /\ path.y >= Len(b)

\* The loop of operations: a path is followed to a point by deleting, then
\* inserting, then keeping lines.
Follow(a, b, path, snake) ==
  LET k == snake[1] - snake[2]
      del == Max({k - (path.x - path.y), 0})
      x == IF path.x < Len(a) THEN Min({path.x + del, Len(a)}) ELSE path.x + del
      ins == Max({x - path.y - k, 0})
      eq == Max({snake[1] - x, 0})
      deleted == [from |-> path.x, to |-> x, lines |-> <<>>]
      inserted == [from |-> x, to |-> x,
                   lines |-> SubSeq(b, path.y + 1, path.y + ins)]
  IN IF AtEndOfBoth(a, b, path) THEN path
     ELSE [x |-> x + eq, y |-> path.y + ins + eq,
           ops |-> path.ops \o (IF del > 0 THEN <<deleted>> ELSE <<>>)
                            \o (IF ins > 0 THEN <<inserted>> ELSE <<>>)]

\* The path after each round, with the operations so far.
PathAfter(a, b) ==
  LET point == Points(a, b)
      first == FirstSnake(point)
      Path[d \in DOMAIN point] ==
        LET path == IF d = 0 THEN [x |-> 0, y |-> 0, ops |-> <<>>] ELSE Path[d - 1]
        IN IF d < first THEN path ELSE Follow(a, b, path, point[d])
  IN Path

Operations(a, b) ==
  IF a = <<>> /\ b = <<>> THEN <<>> ELSE PathAfter(a, b)[LastRound(a, b)].ops

EditsInit == before \in TextsOfLines /\ after \in TextsOfLines /\ edits = {}

ComputeEdits ==
  /\ edits = {}
  /\ edits' = {Operations(before, after)}
  /\ UNCHANGED <<before, after>>

EditsSpec == EditsInit /\ [][ComputeEdits]_editVars

-----------------------------------------------------------------------------

\* What an editor makes of a list of edits: all are in terms of the text
\* before, and insertions at one place go in the order of the list.
InsertedAt(ops, i) ==
  FlattenSeq([j \in DOMAIN ops |-> IF ops[j].from = i THEN ops[j].lines ELSE <<>>])

Spared(ops, i) == \A j \in DOMAIN ops : i \notin ops[j].from + 1..ops[j].to

Applied(ops, text) ==
  InsertedAt(ops, 0) \o
  FlattenSeq([i \in DOMAIN text |->
    (IF Spared(ops, i) THEN <<text[i]>> ELSE <<>>) \o InsertedAt(ops, i)])

\* The lines that edits delete or insert.
Touched(ops, text) ==
  FlattenSeq([j \in DOMAIN ops |->
    SubSeq(text, ops[j].from + 1, ops[j].to) \o ops[j].lines])

\* The length of a longest common subsequence.
Common(a, b) ==
  LET C[p \in (0..Len(a)) \X (0..Len(b))] ==
        LET i == p[1]
            j == p[2]
        IN IF i = 0 \/ j = 0 THEN 0
           ELSE IF a[i] = b[j] THEN C[<<i - 1, j - 1>>] + 1
           ELSE Max({C[<<i - 1, j>>], C[<<i, j - 1>>]})
  IN C[<<Len(a), Len(b)>>]

(* The edits are right and no larger than they need be ("returns the        *)
(* shortest edit sequence that converts a into b", diff.go): an editor that *)
(* applies them has the text that was formatted or fixed, and touches only  *)
(* lines outside a longest common subsequence of the two texts.             *)
EditsAreRight ==
  \A ops \in edits :
    /\ Applied(ops, before) = after
    /\ Len(Touched(ops, before)) = Len(before) + Len(after) - 2 * Common(before, after)
=============================================================================
