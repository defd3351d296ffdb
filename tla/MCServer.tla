------------------------------- MODULE MCServer -------------------------------
(* The workers of the language server, and the debug adapter, for TLC: a    *)
(* behaviour is one of the module that part names, while the variables of   *)
(* the others keep their initial values.  The modules share no state, so    *)
(* that nothing is lost by checking them next to each other, not together.  *)
EXTENDS ConfigReload, DevBundle, TestLocations, RegoRouter

CONSTANTS
  Requests, QueueSize, NoJob,   \* those of CommandWorker
  Clients, MaxRequests, Nobody  \* and those of DebugAdapter

ASSUME CommandsAssumption == QueueSize \in Nat /\ NoJob \notin Requests
ASSUME ClientsAssumption == MaxRequests \in Nat

VARIABLES
  part,
  sender, kind, commands, job, step, target, asked, replied, place, cached, inputFile, suppressed,
  serving, link, sentTo, requested, told, reader, writer, debuggee

commandState == <<sender, kind, commands, job, step, target, asked, replied, place, cached, inputFile, suppressed>>
debugState == <<serving, link, sentTo, requested, told, reader, writer, debuggee>>
serverVars == <<vars, commandState, debugState, devVars, routerVars, testVars, part>>

Commands == INSTANCE CommandWorker
Debug    == INSTANCE DebugAdapter

\* The other parts do not move.
Only(p) ==
  /\ part = p
  /\ UNCHANGED part
  /\ p # "config" => UNCHANGED vars
  /\ p # "commands" => UNCHANGED commandState
  /\ p # "debug" => UNCHANGED debugState
  /\ p # "dev" => UNCHANGED devVars
  /\ p # "router" => UNCHANGED routerVars
  /\ p # "tests" => UNCHANGED testVars

ServerInit ==
  /\ part \in {"config", "commands", "debug", "dev", "router", "tests"}
  /\ part # "router" => route = [q \in Asks |-> "fileLines"]
  /\ part # "tests" => testing = FALSE
  /\ Init /\ Commands!CommandInit /\ Debug!DebugInit /\ DevInit
  /\ RouterInit /\ TestInit

\* Three requests, so that one can find the channel full; the third is for an
\* edit of the text.  The second client of the debugger asks for one thing.
\* Handlers that are to be followed by test locations set no text after the third.
ServerNext ==
  \/ Only("config") /\ Next
  \/ Only("commands") /\ Commands!CommandNext /\ kind'[3] = "text"
  \/ Only("debug") /\ Debug!DebugNext /\ (sentTo'[2] \notin {"none", sentTo[2]} => requested[2] = 0)
  \/ Only("dev") /\ DevNext
  \/ Only("router") /\ RouterNext
  \/ Only("tests") /\ TestNext /\ (editing' # editing /\ newest' # newest => newest' <= 3)

\* The strong fairness of each module, its instances numbered: those who wait
\* for a lock or for room in a channel.
Waiters(i) ==
  \/ Only("config") /\ i = 1 /\ (\E h \in Openers : OpenerStep(h))
  \/ Only("config") /\ i = 2 /\ (\E h \in Creators : Watch(h))
  \/ Only("commands") /\ Commands!Send(i)
  \/ Only("debug") /\ i \in 1..2 /\ Debug!ReaderStep(i)
  \/ Only("tests") /\ (\E e \in Parsers : e = i /\ ParserStep(e))

\* And the weak fairness: the workers.
Workers(i) ==
  \/ Only("config") /\ i = 1 /\ WatcherStep
  \/ Only("config") /\ i = 2 /\ WorkerStep
  \/ Only("commands") /\ i = 1 /\ Commands!CommandWorkerStep
  \/ Only("commands") /\ i = 2 /\ Commands!StateWorkerStep
  \/ Only("debug") /\ i \in 1..2 /\ Debug!WriterStep(i)
  \/ Only("debug") /\ i \in 3..4 /\ Debug!ReturnFromStart(i - 2)
  \/ Only("debug") /\ i = 5 /\ (\E c \in Clients : Debug!Accept(c))
  \/ Only("tests") /\ i = 1 /\ LocatorStep
  \/ Only("tests") /\ i = 2 /\ LoaderStep

ServerSpec ==
  /\ ServerInit /\ [][ServerNext]_serverVars
  /\ \A i \in 1..3 : SF_serverVars(Waiters(i))
  /\ \A i \in 1..5 : WF_serverVars(Workers(i))

-----------------------------------------------------------------------------

(* Each worker's state stays in its domain: no channel takes more than it   *)
(* has room for, and no worker is at two places.                            *)
WellTyped ==
  /\ TypeOK /\ Commands!CommandTypes /\ Debug!DebugTypes /\ DevTypes
  /\ RouterTypes /\ TestTypes

(* server_command.go:486, "this must not block": see CommandWorker.         *)
AnsweredIfDismissed == Commands!AnsweredIfDismissed

(* A rename applied, refused or applied late: see CommandWorker.            *)
FileIsFoundAgain == Commands!FileIsFoundAgain

(* Requests of a debugger are answered: see DebugAdapter.                   *)
RequestsAreAnswered == Debug!RequestsAreAnswered

(* The next debugger is served: see DebugAdapter.                           *)
NextClientIsServed == part = "debug" => Debug!NextClientIsServed
=============================================================================
