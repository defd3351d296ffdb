------------------------------ MODULE RegoRouter ------------------------------
(* A request that is handled in Rego: the router of                         *)
(* internal/lsp/rego/router.go gets the prepared query and, one by one, what *)
(* the route requires from the providers, and evaluates; meanwhile the      *)
(* handler of didChange brings the same maps up to date (updateParse in     *)
(* internal/lsp/lint.go).  There is one file, and the code lenses it gets   *)
(* (bundle/regal/lsp/codelens/codelens.rego) stand at the lines of rules in *)
(* the module that the Rego store has.                                      *)
EXTENDS Naturals

CONSTANTS
  Asks,      \* requests
  MaxEdits   \* bound on the number of changes to the text

ASSUME MaxEditsIsNat == MaxEdits \in Nat

VARIABLES
  edits,       \* number of changes so far
  text,        \* fileContents: how many lines (0 is no entry), and whether it parses
  errors,      \* parseErrors is not empty
  goodLines,   \* successfulParseLineCounts, or 0
  storeModule, \* the lines of the text whose module is in the store, or 0
  edit,        \* control of didChange
  ask,         \* control of the requests
  context,     \* the RegalContext: File.Lines, parse count and errors
  route,       \* what the routes of the requests require
  response,    \* the lines of the module whose lenses are the answer; 0 is null
  overlap      \* a change was under way at some time during the request

fileMaps == <<edits, text, errors, goodLines, storeModule, edit>>
asking == <<ask, context, route, response>>
routerVars == <<fileMaps, asking, overlap>>

Texts == [lines : 1..2, parses : BOOLEAN]
NoText == [lines |-> 0, parses |-> FALSE]

RouterTypes ==
  /\ edits \in 0..MaxEdits
  /\ text \in Texts \union {NoText}
  /\ storeModule > 0 => goodLines > 0
  /\ goodLines > 0 => storeModule > 0 \/ edit = "putModule"
  /\ edit \in {"idle", "parse", "count", "putModule"}
  /\ ask \in [Asks -> {"idle", "content", "count", "errors", "eval", "done"}]

RouterInit ==
  /\ edits = 0
  /\ text = NoText /\ errors = FALSE /\ goodLines = 0 /\ storeModule = 0
  /\ edit = "idle"
  /\ ask = [q \in Asks |-> "idle"]
  /\ context = [q \in Asks |-> [lines |-> 0, good |-> 0, errors |-> FALSE]]
  /\ route \in [Asks -> {"codeLens", "fileLines"}]
  /\ response = [q \in Asks |-> 0]
  /\ overlap = [q \in Asks |-> FALSE]

-----------------------------------------------------------------------------
(* didOpen and didChange.                                                   *)

Unaffected == UNCHANGED asking

ChangeText ==
  /\ edit = "idle" /\ edits < MaxEdits
  /\ edits' = edits + 1
  /\ text' \in Texts
  /\ edit' = "parse"
  /\ overlap' = [q \in Asks |-> overlap[q] \/ ask[q] \notin {"idle", "done"}]
  /\ UNCHANGED <<errors, goodLines, storeModule>> /\ Unaffected

\* Plausible bug: the count of lines is that of the text, parsed or not.
ParseAndCount ==
  /\ edit = "parse"
  /\ errors' = ~text.parses
  /\ goodLines' = text.lines
  /\ edit' = IF text.parses THEN "count" ELSE "idle"
  /\ UNCHANGED <<edits, text, storeModule, overlap>> /\ Unaffected

Parse ==
  /\ edit = "parse"
  /\ errors' = ~text.parses
  /\ edit' = IF text.parses THEN "count" ELSE "idle"
  /\ UNCHANGED <<edits, text, goodLines, storeModule, overlap>> /\ Unaffected

SetCount ==
  /\ edit = "count"
  /\ goodLines' = text.lines
  /\ edit' = "putModule"
  /\ UNCHANGED <<edits, text, errors, storeModule, overlap>> /\ Unaffected

PutModule ==
  /\ edit = "putModule"
  /\ storeModule' = text.lines
  /\ edit' = "idle"
  /\ UNCHANGED <<edits, text, errors, goodLines, overlap>> /\ Unaffected

-----------------------------------------------------------------------------
(* Router.Handle.                                                           *)

Go(q, label) == ask' = [ask EXCEPT ![q] = label]
Answer(q, what) == Go(q, "done") /\ response' = [response EXCEPT ![q] = what]

\* The prepared query, the ignore check and the basic context.
Begin(q) ==
  /\ ask[q] = "idle"
  /\ Go(q, "content")
  /\ overlap' = [overlap EXCEPT ![q] = edit # "idle"]
  /\ UNCHANGED <<fileMaps, context, route, response>>

\* An ignored file and a file that is not Rego are answered with null; without
\* contents there is an error, which is logged and also answered with null.
GetContent(q) ==
  /\ ask[q] = "content"
  /\ \/ text = NoText /\ Answer(q, 0) /\ UNCHANGED context
     \/ /\ text # NoText
        /\ context' = [context EXCEPT ![q].lines = text.lines]
        /\ Go(q, IF route[q] = "codeLens" THEN "count" ELSE "eval")
        /\ UNCHANGED response
  /\ UNCHANGED <<fileMaps, route, overlap>>

\* A file that never parsed gets no answer but null.
GetCount(q) ==
  /\ ask[q] = "count"
  /\ \/ goodLines = 0 /\ Answer(q, 0) /\ UNCHANGED context
     \/ /\ goodLines # 0
        /\ context' = [context EXCEPT ![q].good = goodLines]
        /\ Go(q, "errors")
        /\ UNCHANGED response
  /\ UNCHANGED <<fileMaps, route, overlap>>

GetErrors(q) ==
  /\ ask[q] = "errors"
  /\ context' = [context EXCEPT ![q].errors = errors]
  /\ Go(q, "eval")
  /\ UNCHANGED <<fileMaps, route, response, overlap>>

\* Plausible bug: lenses are kept while the text does not parse.
LensesAlways(c) == TRUE

\* codelens.rego: lenses for a text that parses, or has kept its lines.
Lenses(c) == ~c.errors \/ c.lines = c.good

\* passthrough evaluates the query over the store as it is.
Eval(q) ==
  /\ ask[q] = "eval"
  /\ Answer(q, IF route[q] = "codeLens" /\ Lenses(context[q]) THEN storeModule ELSE 0)
  /\ UNCHANGED <<fileMaps, context, route, overlap>>

-----------------------------------------------------------------------------

ChangeStep == Parse \/ SetCount \/ PutModule
AskStep(q) == Begin(q) \/ GetContent(q) \/ GetCount(q) \/ GetErrors(q) \/ Eval(q)

RouterNext == ChangeText \/ ChangeStep \/ \E q \in Asks : AskStep(q)

RouterSpec == RouterInit /\ [][RouterNext]_routerVars

-----------------------------------------------------------------------------

(* The providers are asked one after the other, and the module is that of   *)
(* the newest text that parsed: unless the text changes meanwhile, lenses   *)
(* are placed in a text that has the lines of their module, and a text that *)
(* parses gets its lenses.                                                  *)
LensesFitText ==
  \A q \in Asks :
    ask[q] = "done" /\ route[q] = "codeLens" /\ ~overlap[q] =>
      /\ response[q] \in {0, context[q].lines}
      /\ context[q].good > 0 /\ ~context[q].errors => response[q] > 0
=============================================================================
