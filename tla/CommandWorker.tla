---------------------------- MODULE CommandWorker ----------------------------
(* Commands of the editor (internal/lsp/server_command.go): the handler of  *)
(* workspace/executeCommand, its queue, the worker that executes commands   *)
(* one by one, and the client, which the worker asks to apply edits, to     *)
(* show documents or to answer a question.  Also the state worker, which    *)
(* brings the cache in line with the disk after a rename.                   *)
(*                                                                          *)
(* Kinds of commands are "rename" (fix directory-package-mismatch), "eval"  *)
(* and "text", any command that reads a cached file and asks the client for *)
(* one thing at most.  There is one Rego file, whose package wants it at    *)
(* another place; it is at "old", at "new" or, if the cache has something   *)
(* there, at a numbered name beside it, and cached under the URIs of these  *)
(* places or, by FixViolations, under the plain "path" of the old.          *)
EXTENDS Naturals, Sequences

CONSTANTS
  Requests,  \* requests to execute a command, numbered as they come
  QueueSize, \* capacity of commandRequest
  NoJob

VARIABLES
  sender,     \* handlers: idle, sending (blocked), sent
  kind,       \* the command of each request
  commands,   \* commandRequest
  job,        \* the request the worker is at
  step,       \* control of the worker
  asked,      \* what the client has been asked and has not reacted to
  replied,    \* the client has answered the call the worker waits for
  target,     \* where the worker is renaming the file to
  place,      \* where the file is on disk and in the editor
  cached,     \* the keys in the cache under which the file is found
  inputFile,  \* input.json has been created
  suppressed  \* l.supressInputPrompt

requests == <<sender, kind>>
executing == <<job, step, target>>
client == <<asked, replied>>
prompting == <<inputFile, suppressed>>

\* The place the package wants, and renameCandidate's, time after time: their
\* number bounds how many renames the cache may hold at once.
Candidates == <<"new", "new_1", "new_2", "new_3">>
Places == {"old"} \union {Candidates[i] : i \in DOMAIN Candidates}

commandVars == <<requests, commands, executing, client, place, cached, prompting>>

CommandTypes ==
  /\ sender \in [Requests -> {"idle", "sending", "sent"}]
  /\ kind \in [Requests -> {"text", "rename", "eval"}]
  /\ commands \in Seq(Requests) /\ Len(commands) <= QueueSize
  /\ job \in Requests \union {NoJob}
  /\ step \in {"take", "run", "set", "drop", "put", "call", "prompt", "created", "evaluate"}
  /\ job = NoJob <=> step = "take"
  /\ asked \in Seq([what : {"text", "question", "created"} \union Places, by : Requests])
  /\ {target, place} \subseteq Places /\ cached \subseteq Places \union {"path"}
  /\ {replied, inputFile, suppressed} \subseteq BOOLEAN

CommandInit ==
  /\ sender = [r \in Requests |-> "idle"]
  /\ kind = [r \in Requests |-> "text"]
  /\ commands = <<>>
  /\ job = NoJob /\ step = "take"
  /\ asked = <<>> /\ replied = FALSE
  /\ target = "old" /\ place = "old" /\ cached = {"old"}
  /\ inputFile = FALSE /\ suppressed = FALSE

-----------------------------------------------------------------------------
(* handleWorkspaceExecuteCommand, in a goroutine of its own.                *)

Execute(r) ==
  /\ sender[r] = "idle" /\ \A q \in Requests : sender[q] = "idle" => r <= q
  /\ sender' = [sender EXCEPT ![r] = "sending"]
  /\ \E k \in {"text", "rename", "eval"} : kind' = [kind EXCEPT ![r] = k]
  /\ UNCHANGED <<commands, executing, client, place, cached, prompting>>

\* Once the request is in the channel the handler returns its response.
Send(r) ==
  /\ sender[r] = "sending" /\ Len(commands) < QueueSize
  /\ sender' = [sender EXCEPT ![r] = "sent"]
  /\ commands' = Append(commands, r)
  /\ UNCHANGED <<kind, executing, client, place, cached, prompting>>

-----------------------------------------------------------------------------
(* The worker.                                                              *)

Take ==
  /\ step = "take" /\ commands # <<>>
  /\ job' = Head(commands) /\ step' = "run"
  /\ commands' = Tail(commands)
  /\ UNCHANGED <<target, requests, client, place, cached, prompting>>

At(s) == step' = s /\ UNCHANGED <<job, target>>
Return == step' = "take" /\ job' = NoJob /\ target' = "old"
Running(k) == step = "run" /\ kind[job] = k

\* conn.Call: the request goes out, an answer is waited for.
Ask(what, s) ==
  /\ asked' = Append(asked, [what |-> what, by |-> job])
  /\ replied' = FALSE
  /\ At(s)

\* A command that fails, or that finds nothing to do, asks nothing.
Decline ==
  /\ Running("text")
  /\ Return
  /\ UNCHANGED <<requests, commands, client, place, cached, prompting>>

\* fixEditParams and ApplyEdit.
FixText ==
  /\ Running("text") /\ "old" \in cached
  /\ Ask("text", "call")
  /\ UNCHANGED <<requests, commands, place, cached, prompting>>

\* handleExplorerCommand shows each stage; one call stands for them.
Explore ==
  /\ Running("text") /\ "old" \in cached
  /\ Ask("text", "call") \/ (Return /\ UNCHANGED client)
  /\ UNCHANGED <<requests, commands, place, cached, prompting>>

\* handleCreateTestCommand needs an input file, or it does nothing.
CreateTest ==
  /\ Running("text") /\ inputFile /\ "old" \in cached
  /\ Ask("text", "call")
  /\ UNCHANGED <<requests, commands, place, cached, prompting>>

\* The debug command does not look at the cache.
StartDebugging ==
  /\ Running("text")
  /\ Ask("text", "call")
  /\ UNCHANGED <<requests, commands, place, cached, prompting>>

\* handleIgnoreRuleCommand writes the config file and asks nothing.
IgnoreRule ==
  /\ Running("text")
  /\ Return
  /\ UNCHANGED <<requests, commands, client, place, cached, prompting>>

\* fixRenameChanges up to the provider's Rename, which sets an entry where the
\* cache has none, trying one candidate after the other.
RenameSet ==
  /\ Running("rename")
  /\ IF "old" \in cached
     THEN \E i \in DOMAIN Candidates :
            /\ Candidates[i] \notin cached /\ \A j \in 1..i - 1 : Candidates[j] \in cached
            /\ target' = Candidates[i]
            /\ cached' = cached \union {Candidates[i]}
            /\ step' = "set" /\ UNCHANGED job
     ELSE Return /\ UNCHANGED cached
  /\ UNCHANGED <<requests, commands, client, place, prompting>>

RenameDelete ==
  /\ step = "set"
  /\ cached' = cached \ {"old"}
  /\ At("drop")
  /\ UNCHANGED <<requests, commands, client, place, prompting>>

\* FixViolations puts the contents at the file's path, which is no URI.
RenamePut ==
  /\ step = "drop"
  /\ cached' = cached \union {"path"}
  /\ At("put")
  /\ UNCHANGED <<requests, commands, client, place, prompting>>

\* handleRename deletes the old entry, and the client gets the edit.
RenameAsk ==
  /\ step = "put"
  /\ cached' = cached \ {"old"}
  /\ Ask(target, "call")
  /\ UNCHANGED <<requests, commands, place, prompting>>

\* handleEvalCommand: without an input file the user may be asked whether to
\* create one, unless the rule needs none.
RunEval ==
  /\ Running("eval")
  /\ \/ "old" \in cached /\ ~inputFile /\ ~suppressed /\ Ask("question", "prompt")
     \/ "old" \in cached /\ At("evaluate") /\ UNCHANGED client
     \/ "old" \notin cached /\ Return /\ UNCHANGED client
  /\ UNCHANGED <<requests, commands, place, cached, prompting>>

\* The result is shown in the editor, or written to output.json.
Evaluate ==
  /\ step = "evaluate"
  /\ Ask("text", "call") \/ (Return /\ UNCHANGED client)
  /\ UNCHANGED <<requests, commands, place, cached, prompting>>

\* handleInputSkeletonPrompt.  Yes creates the file and asks a second time,
\* whether to open it; this call has the context of the server.
Prompted ==
  /\ step = "prompt" /\ replied
  /\ \/ inputFile' = TRUE /\ UNCHANGED suppressed /\ Ask("created", "created")
     \/ suppressed' \in {suppressed, TRUE} /\ At("evaluate") /\ UNCHANGED <<inputFile, client>>
  /\ UNCHANGED <<requests, commands, place, cached>>

\* A plausible bug: an answer is waited for as long as it takes.
TimeOutNever == FALSE /\ UNCHANGED commandVars

\* The deadline of a call: three seconds, or thirty for edits and questions.
TimeOut ==
  /\ step \in {"call", "prompt"}
  /\ IF step = "call" THEN Return ELSE At("evaluate")
  /\ UNCHANGED <<requests, commands, client, place, cached, prompting>>

Answered ==
  /\ step \in {"call", "created"} /\ replied
  /\ Return
  /\ UNCHANGED <<requests, commands, client, place, cached, prompting>>

-----------------------------------------------------------------------------
(* The client, which may take its time, and need not react at all.  It      *)
(* refuses an edit, or applies it, even if the worker waits no more; its    *)
(* reply is then dropped.  A file that has been moved is not moved again.   *)
(* "created" is the user closing that message.                              *)

React ==
  /\ asked # <<>>
  /\ asked' = Tail(asked)
  /\ replied' = (Head(asked).by = job \/ replied)
  /\ place' \in {place} \union {p \in Places : p = Head(asked).what /\ place = "old"}
  /\ UNCHANGED <<requests, commands, executing, cached, prompting>>

-----------------------------------------------------------------------------
(* The state worker.                                                        *)

OnDisk(key) == key = place \/ (key = "path" /\ place = "old")

\* A plausible bug: files without a URI are the only ones looked at.
SweepPaths ==
  /\ "path" \in cached /\ ~OnDisk("path") /\ cached' = cached \ {"path"}
  /\ UNCHANGED <<requests, commands, executing, client, place, prompting>>

Sweep ==
  /\ \E key \in cached : ~OnDisk(key) /\ cached' = cached \ {key}
  /\ UNCHANGED <<requests, commands, executing, client, place, prompting>>

\* loadWorkspaceContents(newOnly) reads the file.
Load ==
  /\ place \notin cached
  /\ cached' = cached \union {place}
  /\ UNCHANGED <<requests, commands, executing, client, place, prompting>>

-----------------------------------------------------------------------------

CommandWorkerStep ==
  \/ Take \/ Decline \/ FixText \/ Explore \/ CreateTest \/ StartDebugging \/ IgnoreRule
  \/ RenameSet \/ RenameDelete \/ RenamePut \/ RenameAsk
  \/ RunEval \/ Evaluate \/ Prompted \/ TimeOut \/ Answered

StateWorkerStep == Sweep \/ Load

CommandNext ==
  \/ \E r \in Requests : Execute(r) \/ Send(r)
  \/ CommandWorkerStep \/ StateWorkerStep \/ React

\* Goroutines run, and handlers get into the channel in turn.  The client
\* owes the server nothing.
CommandFairness ==
  /\ WF_commandVars(CommandWorkerStep)
  /\ WF_commandVars(StateWorkerStep)
  /\ \A r \in Requests : SF_commandVars(Send(r))

CommandSpec == CommandInit /\ [][CommandNext]_commandVars /\ CommandFairness

-----------------------------------------------------------------------------

(* server_command.go:486, "this must not block": a request to execute a     *)
(* command is answered, whatever the commands before it and the client do.  *)
CommandsAreAnswered == []<>(\A r \in Requests : sender[r] # "sending")

(* The same if the worker is not for ever at the message that an input file *)
(* was created: every other call it makes ends, answered or not.            *)
AnsweredIfDismissed == []<>(step # "created") => CommandsAreAnswered

(* A rename that the client applies, refuses or applies after the worker    *)
(* has given it up leaves the cache without the file, or with a file that   *)
(* does not exist: in the end the file is found where it is, and under no   *)
(* other URI.                                                               *)
FileIsFoundAgain == <>[](place \in cached /\ cached \ {"path"} = {place})
=============================================================================
