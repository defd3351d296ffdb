-------------------------------- MODULE Roast --------------------------------
(* RoAST, the form of a syntax tree that the policies read.  The repository *)
(* makes it twice: ToValue (internal/roast/transforms/module) goes through  *)
(* the tree, and the codecs of internal/roast/encoding write it as JSON,    *)
(* for those that ask for JSON (pkg/roast/encoding).                        *)
(*                                                                          *)
(* A tree is made of records as in OPA's ast package, an object is the      *)
(* function from its attributes, an array is [array |-> its elements], a    *)
(* location's text is the sequence of the lengths of its lines, and equal   *)
(* locations are one pointer.                                               *)
EXTENDS Naturals, Sequences, SequencesExt, TLC

CONSTANTS
  Modules, \* the modules to convert
  Nil

VARIABLES
  syntaxTree, \* mod *ast.Module
  converted   \* the results of the conversions made, and whose they are

roastVars == <<syntaxTree, converted>>

Array(elements) == [array |-> elements]
Map(seq, F(_)) == Array([i \in DOMAIN seq |-> F(seq[i])])

\* An attribute of an object that is written or not.
Attr(written, name, value) == IF written THEN name :> value ELSE <<>>

\* AppendLocation, used by both: row:col:endRow:endCol.
AppendLocation(loc) ==
  LET lines == Len(loc.text)
  IN <<loc.row, loc.col, loc.row + lines - 1,
       IF lines = 1 THEN loc.col + loc.text[1] ELSE Last(loc.text) + 1>>

\* objectWithLocationAndCap.
WithLocation(loc) == Attr(loc # Nil, "location", AppendLocation(loc))

\* The location of a generated value, which is not in the text, is removed
\* from the tree itself.
Strip(head) ==
  IF /\ head.value # Nil /\ head.value.loc # Nil /\ head.loc # Nil
     /\ head.value.loc.row = head.loc.row /\ head.value.loc.col = head.loc.col
  THEN [head EXCEPT !.value.loc = Nil] ELSE head

IsBodyGenerated(rule) ==
  \/ rule.default \/ rule.body = <<>>
  \/ /\ rule.head # Nil
     /\ LET at == rule.body[1].loc IN
        \/ at = rule.loc
        \/ rule.head.value # Nil /\ at = rule.head.value.loc
        \/ /\ rule.head.key # Nil
           /\ at.row = rule.head.key.loc.row /\ at.col < rule.head.key.loc.col

\* Of the package, as far as scopes go.
NotDocumentOrRuleScope(a) == a.scope \notin {"document", "rule"}

-----------------------------------------------------------------------------
(* ToValue.                                                                 *)

RECURSIVE TermToObjectLoc(_, _), BodyToArray(_), RuleToObject(_)

TermToObject(term) == TermToObjectLoc(term, TRUE)

\* Expressions in template strings: with their terms only, if those are a term
\* or a call.
InterpolatedTerms(terms) ==
  CASE terms.form = "term" -> TermToObject(terms.term)
    [] terms.form = "call" -> Map(terms.terms, TermToObject)

PartToObject(part) ==
  IF part.of = "term" THEN TermToObject(part.term)
  ELSE WithLocation(part.expr.loc)
       @@ Attr(part.expr.terms # Nil /\ part.expr.terms.form \in {"term", "call"},
               "terms", InterpolatedTerms(part.expr.terms))
       @@ ("interpolated" :> TRUE)

\* The cases of values, by kind.
TermValueTerm(v) ==
  CASE v.kind \in {"var", "null", "boolean", "string", "number"} -> v.value
    [] v.kind \in {"ref", "call", "array", "set"} -> Map(v.terms, TermToObject)
    [] v.kind = "object" -> Map(v.items, LAMBDA i : Array(<<TermToObject(i.key), TermToObject(i.value)>>))
    [] v.kind \in {"arraycomprehension", "setcomprehension"} ->
         [term |-> TermToObject(v.term), body |-> BodyToArray(v.body)]
    [] v.kind = "objectcomprehension" ->
         [key |-> TermToObject(v.key), value |-> TermToObject(v.value), body |-> BodyToArray(v.body)]
    [] v.kind = "templatestring" ->
         ("parts" :> Map(v.parts, PartToObject)) @@ Attr(v.multiLine, "multi_line", TRUE)

TermToObjectLoc(term, includeLocation) ==
  [type |-> term.val.kind, value |-> TermValueTerm(term.val)]
  @@ Attr(term.loc # Nil /\ includeLocation, "location", AppendLocation(term.loc))

WithToObject(with) ==
  WithLocation(with.loc) @@ [target |-> TermToObject(with.target), value |-> TermToObject(with.value)]

LogicalToTerm(terms) ==
  WithLocation(terms.loc)
  @@ Attr(terms.explicitLhs, "explicit_lhs", TRUE)
  @@ Attr(terms.explicitRhs, "explicit_rhs", TRUE)
  @@ [type |-> terms.form, lhs |-> BodyToArray(terms.lhs), rhs |-> BodyToArray(terms.rhs)]

TermsOfExpr(terms) ==
  CASE terms.form = "term" -> TermToObject(terms.term)
    [] terms.form = "call" -> Map(terms.terms, TermToObject)
    [] terms.form = "some" -> WithLocation(terms.loc) @@ [symbols |-> Map(terms.symbols, TermToObject)]
    [] terms.form = "every" ->
         WithLocation(terms.loc)
         @@ Attr(terms.key # Nil, "key", TermToObject(terms.key))
         @@ [value |-> TermToObject(terms.value), domain |-> TermToObject(terms.domain),
             body |-> BodyToArray(terms.body)]
    [] terms.form = "not" ->
         WithLocation(terms.loc) @@ [type |-> "not", body |-> BodyToArray(terms.body)]
         @@ Attr(terms.explicitBody, "explicit_body", TRUE)
    [] terms.form \in {"and", "or"} -> LogicalToTerm(terms)

BodyToArray(body) ==
  Map(body, LAMBDA expr :
    WithLocation(expr.loc)
    @@ Attr(expr.negated, "negated", TRUE)
    @@ Attr(expr.generated, "generated", TRUE)
    @@ Attr(expr.with # <<>>, "with", Map(expr.with, WithToObject))
    @@ Attr(expr.terms # Nil, "terms", TermsOfExpr(expr.terms)))

HeadToObject(head) ==
  WithLocation(head.loc)
  @@ Attr(head.ref # Nil, "ref", Map(head.ref, TermToObject))
  @@ Attr(head.args # <<>>, "args", Map(head.args, TermToObject))
  @@ Attr(head.assign, "assign", TRUE)
  @@ Attr(head.key # Nil, "key", TermToObject(head.key))
  @@ Attr(head.value # Nil, "value", TermToObject(Strip(head).value))

\* Without the authors, related resources and schemas, whose JSON is left to
\* the tags of OPA's structs.
AnnotationsToObject(a) ==
  WithLocation(a.loc) @@ ("scope" :> a.scope)
  @@ Attr(a.title # Nil, "title", a.title)
  @@ Attr(a.entrypoint, "entrypoint", TRUE)
  @@ Attr(a.description # Nil, "description", a.description)
  @@ Attr(a.organizations # <<>>, "organizations", a.organizations)
  @@ Attr(a.custom # Nil, "custom", a.custom)

\* Whether the body is generated is asked before the head is stripped.
RuleToObject(rule) ==
  WithLocation(rule.loc)
  @@ Attr(rule.annotations # <<>>, "annotations", Map(rule.annotations, AnnotationsToObject))
  @@ Attr(rule.default, "default", TRUE)
  @@ Attr(rule.head # Nil, "head", HeadToObject(rule.head))
  @@ Attr(~IsBodyGenerated(rule), "body", BodyToArray(rule.body))
  @@ Attr(rule.else # Nil, "else", RuleToObject(rule.else))

\* "data" is not in the text.
PathArray(terms) == Array([i \in DOMAIN terms |-> TermToObjectLoc(terms[i], i # 1)])


PackageToValue(pkg, annotations) ==
  LET own == SelectSeq(annotations, NotDocumentOrRuleScope)
  IN WithLocation(pkg.loc) @@ ("path" :> PathArray(pkg.path))
     @@ Attr(own # <<>>, "annotations", Map(own, AnnotationsToObject))

ImportToValue(imp) ==
  WithLocation(imp.loc) @@ ("path" :> TermToObject(imp.path))
  @@ Attr(imp.alias # Nil, "alias", imp.alias)

ToValue(mod) ==
  Attr(mod.package # Nil, "package", PackageToValue(mod.package, mod.annotations))
  @@ Attr(mod.imports # <<>>, "imports", Map(mod.imports, ImportToValue))
  @@ Attr(mod.rules # <<>>, "rules", Map(mod.rules, RuleToObject))
  @@ Attr(mod.comments # <<>>, "comments", Map(mod.comments, AppendLocation))

-----------------------------------------------------------------------------
(* The codecs.  What is attached to the stream reaches one of them: the     *)
(* annotations the package, "interpolated" the expression that is next.     *)

RECURSIVE WriteTerm(_), BodyCodec(_), RuleCodec(_)

SetCodec(v) == Map(v.terms, WriteTerm)
ArrayCodec(v) == Array([i \in 1..Len(v.terms) |-> WriteTerm(v.terms[i])])
RefCodec(ref) == Map(ref, WriteTerm)
ObjectCodec(v) == Map(v.items, LAMBDA i : Array(<<WriteTerm(i.key), WriteTerm(i.value)>>))
ArrayComprehensionCodec(v) == [term |-> WriteTerm(v.term), body |-> BodyCodec(v.body)]
SetComprehensionCodec(v) == [term |-> WriteTerm(v.term), body |-> BodyCodec(v.body)]
ObjectComprehensionCodec(v) ==
  [key |-> WriteTerm(v.key), value |-> WriteTerm(v.value), body |-> BodyCodec(v.body)]

WithCodec(with) ==
  WithLocation(with.loc) @@ [target |-> WriteTerm(with.target), value |-> WriteTerm(with.value)]

SomeDeclCodec(some) == WithLocation(some.loc) @@ [symbols |-> Map(some.symbols, WriteTerm)]

EveryCodec(every) ==
  WithLocation(every.loc)
  @@ Attr(every.key # Nil, "key", WriteTerm(every.key))
  @@ [value |-> WriteTerm(every.value), domain |-> WriteTerm(every.domain),
      body |-> BodyCodec(every.body)]

NotCodec(not) ==
  WithLocation(not.loc) @@ ("type" :> "not")
  @@ Attr(not.explicitBody, "explicit_body", TRUE)
  @@ ("body" :> BodyCodec(not.body))

WriteLogical(op) ==
  WithLocation(op.loc) @@ ("type" :> op.form)
  @@ Attr(op.explicitLhs, "explicit_lhs", TRUE)
  @@ Attr(op.explicitRhs, "explicit_rhs", TRUE)
  @@ [lhs |-> BodyCodec(op.lhs), rhs |-> BodyCodec(op.rhs)]

WriteTerms(terms) ==
  CASE terms.form = "term" -> WriteTerm(terms.term)
    [] terms.form = "call" -> Map(terms.terms, WriteTerm)
    [] terms.form = "some" -> SomeDeclCodec(terms)
    [] terms.form = "every" -> EveryCodec(terms)
    [] terms.form = "not" -> NotCodec(terms)
    [] terms.form \in {"and", "or"} -> WriteLogical(terms)

ExprCodec(expr, attachment) ==
  WithLocation(expr.loc)
  @@ Attr(expr.negated, "negated", TRUE)
  @@ Attr(expr.generated, "generated", TRUE)
  @@ Attr(attachment = "interpolated", "interpolated", TRUE)
  @@ Attr(expr.with # <<>>, "with", Map(expr.with, WithCodec))
  @@ Attr(expr.terms # Nil, "terms", WriteTerms(expr.terms))

BodyCodec(body) == Map(body, LAMBDA expr : ExprCodec(expr, "none"))

TemplateStringCodec(v) ==
  Attr(v.multiLine, "multi_line", TRUE)
  @@ ("parts" :> Map(v.parts, LAMBDA p : IF p.of = "term" THEN WriteTerm(p.term)
                                         ELSE ExprCodec(p.expr, "interpolated")))

\* The codec of each kind of value.
ValueCodec(v) ==
  CASE v.kind \in {"var", "null", "boolean", "string", "number"} -> v.value
    [] v.kind \in {"ref", "call"} -> RefCodec(v.terms)
    [] v.kind = "array" -> ArrayCodec(v)
    [] v.kind = "set" -> SetCodec(v)
    [] v.kind = "object" -> ObjectCodec(v)
    [] v.kind = "arraycomprehension" -> ArrayComprehensionCodec(v)
    [] v.kind = "setcomprehension" -> SetComprehensionCodec(v)
    [] v.kind = "objectcomprehension" -> ObjectComprehensionCodec(v)
    [] v.kind = "templatestring" -> TemplateStringCodec(v)

WriteTerm(term) ==
  WithLocation(term.loc) @@ [type |-> term.val.kind, value |-> ValueCodec(term.val)]

HeadCodec(head) ==
  WithLocation(head.loc)
  @@ Attr(head.ref # Nil, "ref", Map(head.ref, WriteTerm))
  @@ Attr(head.args # <<>>, "args", Map(head.args, WriteTerm))
  @@ Attr(head.assign, "assign", TRUE)
  @@ Attr(head.key # Nil, "key", WriteTerm(head.key))
  @@ Attr(head.value # Nil, "value", WriteTerm(Strip(head).value))

AnnotationsCodec(a) ==
  WithLocation(a.loc) @@ ("scope" :> a.scope)
  @@ Attr(a.title # Nil, "title", a.title)
  @@ Attr(a.description # Nil, "description", a.description)
  @@ Attr(a.entrypoint, "entrypoint", TRUE)
  @@ Attr(a.organizations # <<>>, "organizations", a.organizations)
  @@ Attr(a.custom # Nil, "custom", a.custom)

\* Whether the body is generated is asked after the head was stripped.
RuleCodec(rule) ==
  LET stripped == IF rule.head = Nil THEN rule ELSE [rule EXCEPT !.head = Strip(rule.head)]
  IN WithLocation(rule.loc)
     @@ Attr(rule.annotations # <<>>, "annotations", Map(rule.annotations, AnnotationsCodec))
     @@ Attr(rule.default, "default", TRUE)
     @@ Attr(rule.head # Nil, "head", HeadCodec(rule.head))
     @@ Attr(~IsBodyGenerated(stripped), "body", BodyCodec(rule.body))
     @@ Attr(rule.else # Nil, "else", RuleCodec(rule.else))

ImportCodec(imp) ==
  WithLocation(imp.loc)
  @@ Attr(imp.path # Nil, "path", WriteTerm(imp.path))
  @@ Attr(imp.path # Nil /\ imp.alias # Nil, "alias", imp.alias)

\* An empty result of Filter is nil, which JSON writes as null.
WriteAnnotations(annotations) ==
  IF annotations = <<>> THEN Nil ELSE Map(annotations, AnnotationsCodec)

\* The path is copied before the location of data is removed.
PackageCodec(pkg, attached, annotations) ==
  WithLocation(pkg.loc)
  @@ ("path" :> Map([pkg.path EXCEPT ![1].loc = Nil], WriteTerm))
  @@ Attr(attached, "annotations", WriteAnnotations(annotations))

\* Whatever annotations the module has, those of the package are attached.
ModuleCodec(mod) ==
  Attr(mod.package # Nil, "package",
       PackageCodec(mod.package, mod.annotations # <<>>,
                    SelectSeq(mod.annotations, NotDocumentOrRuleScope)))
  @@ Attr(mod.imports # <<>>, "imports", Map(mod.imports, ImportCodec))
  @@ Attr(mod.rules # <<>>, "rules", Map(mod.rules, RuleCodec))
  @@ Attr(mod.comments # <<>>, "comments", Map(mod.comments, AppendLocation))

-----------------------------------------------------------------------------

RECURSIVE StripRule(_)
StripRule(rule) ==
  [rule EXCEPT !.head = IF @ = Nil THEN @ ELSE Strip(@),
               !.else = IF @ = Nil THEN @ ELSE StripRule(@)]

\* What a conversion leaves of the tree.
Stripped(mod) ==
  [mod EXCEPT !.rules = [i \in DOMAIN mod.rules |-> StripRule(mod.rules[i])]]

RoastInit == syntaxTree \in Modules /\ converted = {}

\* ToAST, for the linter, the store and the policies of the server.
Convert ==
  /\ converted' = converted \union {[by |-> "ToValue", is |-> ToValue(syntaxTree)]}
  /\ syntaxTree' = Stripped(syntaxTree)

\* JSONRoundTrip, for those that use pkg/roast.
Marshal ==
  /\ converted' = converted \union {[by |-> "codec", is |-> ModuleCodec(syntaxTree)]}
  /\ syntaxTree' = Stripped(syntaxTree)

RoastNext == Convert \/ Marshal

RoastSpec == RoastInit /\ [][RoastNext]_roastVars

-----------------------------------------------------------------------------

Scalars == {"var", "null", "boolean", "string", "number"}
Leaves == {"location", "comments", "alias", "type", "scope", "title", "description",
           "organizations", "custom", "default", "assign", "entrypoint", "negated", "generated",
           "interpolated", "multi_line", "explicit_lhs", "explicit_rhs", "explicit_body"}

IsTermOrCall(terms) ==
  \/ "array" \in DOMAIN terms
  \/ "type" \in DOMAIN terms /\ terms.type \notin {"not", "and", "or"}

\* What the codecs write and ToValue does not: annotations that are null, and of
\* interpolated expressions whether they are negated or generated, their with
\* modifiers, and terms that are neither a term nor a call (module.go:191).
OnlyOfCodec(x) ==
  {a \in DOMAIN x : a = "annotations" /\ x[a] = Nil} \union
  IF "interpolated" \notin DOMAIN x THEN {}
  ELSE {"negated", "generated", "with"} \union
       {a \in DOMAIN x : a = "terms" /\ ~IsTermOrCall(x[a])}

RECURSIVE LessOnlyOfCodec(_)
LessOnlyOfCodec(x) ==
  [a \in DOMAIN x \ OnlyOfCodec(x) |->
     IF a \in Leaves \/ (a = "value" /\ "type" \in DOMAIN x /\ x.type \in Scalars) THEN x[a]
     ELSE IF a = "array" THEN [i \in DOMAIN x[a] |-> LessOnlyOfCodec(x[a][i])]
     ELSE LessOnlyOfCodec(x[a])]

AsValue(conversion) ==
  IF conversion.by = "ToValue" THEN conversion.is ELSE LessOnlyOfCodec(conversion.is)

=============================================================================
