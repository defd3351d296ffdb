---------------------------- MODULE InputManager ----------------------------
(* The input files of a workspace (internal/lsp/input): loaded by a walk    *)
(* when the workspace is, and afterwards kept up to date by notifications   *)
(* of changed files, each handled by a goroutine of its own, so that they   *)
(* are handled in any order.                                                *)
(*                                                                          *)
(* Input files are identified by their paths, and their contents are        *)
(* numbers: 0 is no file, and odd numbers do not decode.                    *)
EXTENDS Naturals, Sequences, FiniteSets

CONSTANTS
  Inputs,          \* paths of input files, in the order of the walk
  InputDir(_),     \* the directory of an input file: a sequence of characters
  Policies,        \* the paths evaluations are for, as sequences
  MaxInputChanges  \* bound on the number of changes to the files

VARIABLES
  inputDisk,    \* what each file holds
  inputChanges, \* number of changes to the files
  walk,         \* files LoadFromWorkspace has still to visit
  notices,      \* notifications that are not handled yet: <<path, kind, n>>
  inputs,       \* m.inputs: the contents of each cached file
  inputStore    \* the value of each file at data.workspace.inputs

inputVars == <<inputDisk, inputChanges, walk, notices, inputs, inputStore>>

InputPaths == {Inputs[i] : i \in DOMAIN Inputs}

ASSUME InputsAreInOrder == Inputs \in Seq(InputPaths)
ASSUME MaxInputChangesIsNat == MaxInputChanges \in Nat /\ MaxInputChanges >= 2

Decodes(n) == n # 0 /\ n % 2 = 0

InputTypes ==
  /\ inputDisk \in [InputPaths -> 0..MaxInputChanges]
  /\ inputChanges \in 0..MaxInputChanges
  /\ walk \in Seq(InputPaths)
  /\ DOMAIN inputs \subseteq InputPaths
  /\ DOMAIN inputStore \subseteq InputPaths

InputInit ==
  /\ inputDisk \in [InputPaths -> {0, 1, 2} \intersect 0..MaxInputChanges]
  /\ inputChanges = 2
  /\ walk = Inputs
  /\ notices = {}
  /\ inputs = [p \in {} |-> 0]
  /\ inputStore = [p \in {} |-> 0]

-----------------------------------------------------------------------------

\* The user writes or deletes a file, and the editor says so.
ChangeInput(p) ==
  /\ inputChanges < MaxInputChanges
  /\ inputChanges' = inputChanges + 1
  /\ \/ /\ inputDisk' = [inputDisk EXCEPT ![p] = inputChanges']
        /\ notices' = notices \union {<<p, "changed", inputChanges'>>}
     \/ /\ inputDisk[p] # 0
        /\ inputDisk' = [inputDisk EXCEPT ![p] = 0]
        /\ notices' = notices \union {<<p, "deleted", inputChanges'>>}
  /\ UNCHANGED <<walk, inputs, inputStore>>

Put(f, p, n) == [q \in DOMAIN f \union {p} |-> IF q = p THEN n ELSE f[q]]
Removed(f, p) == [q \in DOMAIN f \ {p} |-> f[q]]

\* Plausible bug: an input that is cached is not read again.
UpdateOnce(p) ==
  IF p \notin DOMAIN inputs /\ Decodes(inputDisk[p])
  THEN inputs' = Put(inputs, p, inputDisk[p])
       /\ inputStore' = Put(inputStore, p, inputDisk[p])
  ELSE UNCHANGED <<inputs, inputStore>>

\* Update reads the file; one that is missing or does not decode changes
\* nothing, and neither does one with the contents that are cached.
Update(p) ==
  IF Decodes(inputDisk[p])
  THEN inputs' = Put(inputs, p, inputDisk[p])
       /\ inputStore' = Put(inputStore, p, inputDisk[p])
  ELSE UNCHANGED <<inputs, inputStore>>

Delete(p) ==
  /\ inputs' = Removed(inputs, p)
  /\ inputStore' = Removed(inputStore, p)

\* The walk ends at the first file that cannot be loaded.
LoadInput ==
  /\ walk # <<>>
  /\ LET p == Head(walk) IN
       IF inputDisk[p] = 0
       THEN walk' \in {Tail(walk), <<>>} /\ UNCHANGED <<inputs, inputStore>>
       ELSE /\ Update(p)
            /\ walk' = IF Decodes(inputDisk[p]) THEN Tail(walk) ELSE <<>>
  /\ UNCHANGED <<inputDisk, inputChanges, notices>>

\* handleWorkspaceDidChangeWatchedFiles.
HandleChange(p, n) ==
  /\ <<p, "changed", n>> \in notices
  /\ notices' = notices \ {<<p, "changed", n>>}
  /\ Update(p)
  /\ UNCHANGED <<inputDisk, inputChanges, walk>>

HandleDeletion(p, n) ==
  /\ <<p, "deleted", n>> \in notices
  /\ notices' = notices \ {<<p, "deleted", n>>}
  /\ Delete(p)
  /\ UNCHANGED <<inputDisk, inputChanges, walk>>

InputNext ==
  \/ LoadInput
  \/ \E p \in InputPaths :
       \/ ChangeInput(p)
       \/ \E n \in 1..MaxInputChanges : HandleChange(p, n) \/ HandleDeletion(p, n)

InputSpec == InputInit /\ [][InputNext]_inputVars

\* FindForPath: of the inputs whose directory the path starts with, one with
\* the longest.  Two of the same directory may come in any order.
IsStart(s, t) == Len(s) <= Len(t) /\ SubSeq(t, 1, Len(s)) = s
FindForPath(path) ==
  LET fit == {p \in DOMAIN inputs : IsStart(InputDir(p), path)}
  IN {p \in fit : \A q \in fit : Len(InputDir(q)) <= Len(InputDir(p))}

-----------------------------------------------------------------------------

(* When all notifications are handled, in whatever order and however they   *)
(* met the walk, an evaluation finds no input of a file that is gone, and   *)
(* the input it finds is what the file holds, if that decodes.              *)
InputsFollowDisk ==
  walk = <<>> /\ notices = {} =>
    /\ inputStore = inputs
    /\ \A p \in DOMAIN inputs :
         /\ inputDisk[p] # 0
         /\ Decodes(inputDisk[p]) => inputs[p] = inputDisk[p]

(* docs/language-server.md:207: the input of a policy is searched for in    *)
(* its directory and "each parent directory up until the workspace root     *)
(* directory".                                                              *)
InputIsFromParent ==
  \A path \in Policies : \A p \in FindForPath(path) :
    \/ InputDir(p) \in {<<>>, path}
    \/ IsStart(Append(InputDir(p), "/"), path)
=============================================================================
