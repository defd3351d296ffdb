------------------------------ MODULE MCFixer ------------------------------
(* Fixer for TLC: one root, in which bar2 ends with the directory bar.      *)
EXTENDS Fixer, TLC

CONSTANTS d1, d2, d3

MCTarget == [t \in Dirs \X Packages |-> t[2]]
MCFits == {<<"foo", "foo">>, <<"bar", "bar">>, <<"sub/bar", "bar">>}
MCRank == "fmt" :> 1 @@ "dir" :> 2 @@ "cond" :> 3
MCBreaks == "fmt" :> {} @@ "cond" :> {"fmt"}
MCHopeless == {<<d2, "cond">>}

At(dir, n) == [dir |-> dir, name |-> "a", n |-> n]
Placed(p, q, r) == d1 :> p @@ d2 :> q @@ d3 :> r

\* Chains and swaps of places, several files for one place, and names that
\* end with a number already.
MCStarts ==
  { Placed(At("foo", 0), At("bar", 0), At("sub/bar", 0)),
    Placed(At("foo", 0), At("bar", 0), At("tmp", 0)),
    Placed(At("foo", 0), At("sub/bar", 0), At("tmp", 0)),
    Placed(At("tmp", 0), At("bar", 0), At("foo", 0)),
    Placed(At("tmp", 0), At("bar", 0), At("bar", 1)),
    Placed(At("foo", 0), At("bar", 1), At("foo", 1)) }
MCElsewhere == {At("foo", 0), At("bar", 0)}
=============================================================================
