-------------------------------- MODULE MCRoast --------------------------------
(* Syntax trees for Roast: a module of one rule in which one thing after    *)
(* the other takes all its forms.                                           *)
EXTENDS Naturals

CONSTANT Absent

At(row, col) == [row |-> row, col |-> col, text |-> <<1>>]
OverLines(row, col) == [row |-> row, col |-> col, text |-> <<3, 0, 2>>]

Term(val, at) == [val |-> val, loc |-> at]
Scalars == {[kind |-> k, value |-> k] : k \in {"var", "null", "boolean", "string", "number"}}
X == Term([kind |-> "var", value |-> "x"], At(4, 4))
Y == Term([kind |-> "string", value |-> "y"], Absent)

Expr(terms) ==
  [loc |-> At(5, 3), negated |-> FALSE, generated |-> FALSE, with |-> <<>>, terms |-> terms]
OfTerm(t) == [form |-> "term", term |-> t]
OfCall(ts) == [form |-> "call", terms |-> ts]

Body == <<Expr(OfTerm(X)), Expr(OfCall(<<Y, X>>))>>
With == [loc |-> At(5, 9), target |-> X, value |-> Y]
Interpolated(expr) == [of |-> "expr", expr |-> expr]

\* Parts that both encoders write in full, and those of which one leaves something out.
Parts ==
  {<<>>,
   <<[of |-> "term", term |-> Y], Interpolated(Expr(OfCall(<<X, X>>))),
     Interpolated(Expr(OfTerm(X))), [of |-> "term", term |-> X]>>,
   <<Interpolated([Expr(OfTerm(X)) EXCEPT !.negated = TRUE]),
     Interpolated([Expr(OfCall(<<X, Y>>)) EXCEPT !.generated = TRUE, !.with = <<With, With>>]),
     Interpolated(Expr([form |-> "some", loc |-> At(5, 3), symbols |-> <<X>>])),
     Interpolated(Expr([form |-> "not", loc |-> At(5, 3), body |-> Body, explicitBody |-> TRUE])),
     Interpolated([Expr(Absent) EXCEPT !.loc = Absent])>>}

\* Every kind of value around a term.
Values(t) ==
  [kind : {"ref", "call"}, terms : {<<t>>, <<t, X>>}]
  \union [kind : {"array", "set"}, terms : {<<>>, <<t>>, <<Y, t>>}]
  \union [kind : {"object"}, items : {<<>>, <<[key |-> X, value |-> t], [key |-> t, value |-> Y]>>}]
  \union [kind : {"arraycomprehension", "setcomprehension"}, term : {t}, body : {Body}]
  \union [kind : {"objectcomprehension"}, key : {X}, value : {t}, body : {Body}]
  \union [kind : {"templatestring"}, parts : Parts, multiLine : BOOLEAN]

Terms ==
  {Term(v, at) : v \in Scalars \union Values(X), at \in {Absent, At(4, 5), OverLines(4, 5)}}
  \union UNION {{Term(v, At(4, 5)) : v \in Values(Term(w, OverLines(4, 5)))} : w \in Values(Y)}

ExprTerms ==
  {Absent} \union {OfTerm(X), OfCall(<<X, Y>>)}
  \union [form : {"some"}, loc : {Absent, At(5, 3)}, symbols : {<<X>>, <<X, Y>>}]
  \union [form : {"every"}, loc : {At(5, 3)}, key : {Absent, X}, value : {X}, domain : {Y}, body : {Body}]
  \union [form : {"not"}, loc : {At(5, 3)}, body : {Body}, explicitBody : BOOLEAN]
  \union [form : {"and", "or"}, loc : {At(5, 3)}, lhs : {Body}, rhs : {<<Expr(OfTerm(Y))>>, Body},
          explicitLhs : BOOLEAN, explicitRhs : BOOLEAN]

Withs == {<<>>, <<With, [loc |-> Absent, target |-> Y, value |-> X]>>}

Exprs ==
  [loc : {At(5, 3), Absent}, negated : BOOLEAN, generated : BOOLEAN, with : Withs, terms : ExprTerms]

\* p(x) := x, p contains x, p if x, and the like.
Heads ==
  [loc : {At(4, 1)}, ref : {Absent, <<X, Y>>}, args : {<<>>, <<X, Y>>}, assign : BOOLEAN,
   key : {Absent, X}, value : {Absent, X, Term([kind |-> "boolean", value |-> "true"], At(4, 1))}]

Annotation ==
  [loc : {Absent, OverLines(3, 1)}, scope : {"rule", "package", "subpackages"}, title : {Absent, "t"},
   entrypoint : BOOLEAN, description : {Absent, "d"}, organizations : {<<>>, <<"o">>},
   custom : {Absent, "c"}]
Note(scope) ==
  [loc |-> OverLines(3, 1), scope |-> scope, title |-> "t", entrypoint |-> FALSE,
   description |-> Absent, organizations |-> <<>>, custom |-> Absent]

Head == [loc |-> At(4, 1), ref |-> <<X>>, args |-> <<>>, assign |-> FALSE, key |-> Absent,
         value |-> X]

RuleOf(head, body) ==
  [loc |-> OverLines(4, 1), annotations |-> <<>>, default |-> FALSE, head |-> head, body |-> body,
   else |-> Absent]

Generated(at) == <<[Expr(OfTerm(Y)) EXCEPT !.loc = at]>>

\* A body is written, or generated: at the rule, at the value, or before the key.
Bodies == {<<>>, Body, Generated(OverLines(4, 1)), Generated(At(4, 4)), Generated(At(4, 2))}

Rules ==
  {RuleOf(h, b) : h \in Heads, b \in Bodies}
  \union {RuleOf([Head EXCEPT !.value = t], Body) : t \in Terms}
  \union {RuleOf(Head, <<e>>) : e \in Exprs}
  \union {[RuleOf(Head, Body) EXCEPT !.annotations = <<a>>] : a \in Annotation}
  \union {[RuleOf(Head, b) EXCEPT !.default = TRUE] : b \in Bodies}
  \union {[RuleOf(h, Body) EXCEPT !.else = [RuleOf(h, Body) EXCEPT !.else = RuleOf(Head, Body)]] :
            h \in Heads}

Package ==
  [loc |-> At(1, 1), path |-> <<Term([kind |-> "var", value |-> "data"], At(1, 9)), X>>]

Module(imports, annotations, comments, rules) ==
  [package |-> Package, imports |-> imports, annotations |-> annotations, comments |-> comments,
   rules |-> rules]

Import(alias) == [loc |-> At(2, 1), path |-> Y, alias |-> alias]

Trees ==
  {Module(<<>>, <<>>, <<>>, <<r>>) : r \in Rules}
  \union {Module(i, a, c, r) :
            i \in {<<>>, <<Import("a"), Import(Absent)>>},
            a \in {<<>>, <<Note("rule")>>, <<Note("package")>>,
                   <<Note("document"), Note("package"), Note("subpackages")>>},
            c \in {<<>>, <<At(1, 1), OverLines(2, 1)>>},
            r \in {<<>>, <<RuleOf(Head, Body), RuleOf(Head, Body)>>}}
=============================================================================
