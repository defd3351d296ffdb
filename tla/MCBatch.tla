------------------------------- MODULE MCBatch -------------------------------
(* What a run of the commands is made of, and what the server shares with   *)
(* them, for TLC: a behaviour is one of the module that part names, while   *)
(* the variables of the others keep one of their initial values.  The       *)
(* modules share no state: nothing is lost by checking them next to each    *)
(* other.                                                                   *)
EXTENDS MCFixer, RuleSelection, Linter, TextEdits, BundleCache, ConfigFiles, InputManager

VARIABLES
  part,
  syntaxTree, converted

roastState == <<syntaxTree, converted>>
batchVars == <<vars, selectionVars, linterVars, editVars, configVars, bundleVars, inputVars,
               roastState, part>>

MCCategoryOf == [t \in Titles |-> "style"]
MCProvidedLevel == [t \in Provided |-> "error"]

\* The workspace, a, a/b, and beside a, though its path starts with that of a, ab.
MCDirectories == {<<>>, <<"a">>, <<"a", "/", "b">>, <<"a", "b">>}
MCHomeDir == <<"h">>

\* foo/input.json, foo/input.yaml and input.json, of foo/p.rego and foob/p.rego.
MCInputs == <<"foo/input.json", "foo/input.yaml", "input.json">>
MCPolicies == {<<"f", "o", "o", "/", "p">>, <<"f", "o", "o", "b", "/", "p">>}
DirOf(p) == IF p = "input.json" THEN <<>> ELSE <<"f", "o", "o">>

Syntax == INSTANCE MCRoast WITH Absent <- Unset
Conversion == INSTANCE Roast WITH Modules <- Syntax!Trees, Nil <- Unset
SomeTree == CHOOSE t \in Syntax!Trees : TRUE

Parts == {"fixer", "selection", "linter", "edits", "configs", "bundles", "inputs", "roast"}

\* One initial state for each part that does not move.
BatchInit ==
  /\ part \in Parts
  /\ part # "fixer" =>
       /\ package = [d \in Docs |-> "foo"] /\ onConflict = "error" /\ dryRun = FALSE
       /\ start = Placed(At("foo", 0), At("bar", 0), At("tmp", 0))
       /\ wrong = [d \in Docs |-> {}] /\ others = {}
  /\ part # "selection" =>
       /\ userLevel = [t \in {} |-> Unset] /\ categoryDefault = [c \in {} |-> Unset]
       /\ globalDefault = Unset /\ params = CHOOSE f \in Flags : TRUE
  /\ part # "linter" => inputPaths = {} /\ inputModules = {} /\ export = FALSE
  /\ part # "edits" => before = <<>> /\ after = <<>>
  /\ part # "inputs" => inputDisk = [p \in InputPaths |-> 0]
  /\ part # "configs" => asked = "Capabilities" /\ NoneFrom
  /\ IF part = "roast" THEN Conversion!RoastInit ELSE syntaxTree = SomeTree /\ converted = {}
  /\ Init /\ SelectionInit /\ LinterInit /\ EditsInit /\ ConfigInit
  /\ BundleInit /\ InputInit

\* The other parts do not move.
Alone(p) ==
  /\ part = p
  /\ UNCHANGED part
  /\ p # "fixer" => UNCHANGED vars
  /\ p # "selection" => UNCHANGED selectionVars
  /\ p # "linter" => UNCHANGED linterVars
  /\ p # "edits" => UNCHANGED editVars
  /\ p # "configs" => UNCHANGED configVars
  /\ p # "bundles" => UNCHANGED bundleVars
  /\ p # "inputs" => UNCHANGED inputVars
  /\ p # "roast" => UNCHANGED roastState

BatchNext ==
  \/ Alone("fixer") /\ Next
  \/ Alone("selection") /\ SelectionNext
  \/ Alone("linter") /\ LinterNext
  \/ Alone("edits") /\ ComputeEdits
  \/ Alone("configs") /\ ConfigNext
  \/ Alone("bundles") /\ BundleNext
  \/ Alone("inputs") /\ InputNext
  \/ Alone("roast") /\ Conversion!RoastNext

BatchSpec ==
  BatchInit /\ [][BatchNext]_batchVars /\ WF_batchVars(Alone("fixer") /\ Progress)

-----------------------------------------------------------------------------

(* Fixer's TypeOK, and those of the other modules.                          *)
WellTyped ==
  TypeOK /\ LinterTypes /\ ConfigTypes /\ BundleTypes /\ InputTypes

(* The fix loop ends: see Fixer.                                            *)
LoopEnds == part = "fixer" => FixEnds

=============================================================================
