----------------------------- MODULE DebugAdapter -----------------------------
(* The debug adapter: Server.Start, which serves one connection after the   *)
(* other (internal/dap/server.go), and for each the protocol manager with   *)
(* its reader and its writer (dap.go), the handlers (state.go), and the     *)
(* debugger of OPA, an external library that sends events from a goroutine  *)
(* of its own.  outChan and done are unbuffered: a send is a step of two.   *)
(*                                                                          *)
(* Nothing recovers from a panic: one in a handler ends the process, that   *)
(* is, all connections, those in the backlog too, and all goroutines.       *)
EXTENDS Naturals

CONSTANTS
  Clients,     \* connections, numbered in the order of the backlog of the listener
  MaxRequests, \* bound on the number of requests of a client
  Nobody

VARIABLES
  serving,  \* the connection protoManager.Start runs for
  link,     \* connections: waiting, open, or broken
  sentTo,   \* a request that has not been read yet, or none
  requested,    \* number of requests read that some handler knows
  told,     \* number of responses written
  reader,   \* control of the goroutine that reads and handles requests
  writer,   \* control of the goroutine that writes what outChan brings
  debuggee  \* the session: none, stopped, running, event (in SendEvent), gone

requestVars == <<sentTo, requested, told>>
debugVars == <<serving, link, requestVars, reader, writer, debuggee>>

\* Requests by what their handlers do: launch; resume and the steps; terminate;
\* what reads or sets something; disconnect; and those without a handler.
Kinds == {"launch", "resume", "terminate", "query", "disconnect", "unknown"}

DebugTypes ==
  /\ serving \in Clients \union {Nobody}
  /\ link \in [Clients -> {"waiting", "open", "broken"}]
  /\ sentTo \in [Clients -> Kinds \union {"none"}]
  /\ \A c \in Clients : told[c] <= requested[c] /\ requested[c] <= MaxRequests
  /\ reader \in [Clients -> {"read", "initialized", "respond", "last", "done", "ended"}]
  /\ writer \in [Clients -> {"take", "write", "writeResponse", "done", "ended"}]
  /\ debuggee \in [Clients -> {"none", "stopped", "running", "event", "gone"}]

DebugInit ==
  /\ serving = Nobody
  /\ link = [c \in Clients |-> "waiting"]
  /\ sentTo = [c \in Clients |-> "none"]
  /\ requested = [c \in Clients |-> 0]
  /\ told = [c \in Clients |-> 0]
  /\ reader = [c \in Clients |-> "read"]
  /\ writer = [c \in Clients |-> "take"]
  /\ debuggee = [c \in Clients |-> "none"]

Put(f, c, x) == [f EXCEPT ![c] = x]

-----------------------------------------------------------------------------
(* Server.Start accepts a connection once Start of the one before returned. *)

Accept(c) ==
  /\ serving = Nobody /\ link[c] = "waiting"
  /\ \A d \in Clients : link[d] = "waiting" => c <= d
  /\ serving' = c
  /\ link' = Put(link, c, "open")
  /\ UNCHANGED <<requestVars, reader, writer, debuggee>>

\* Plausible bug: Start returns when both goroutines have ended.
ReturnAfterBoth(c) ==
  /\ serving = c
  /\ reader[c] = "done" /\ reader' = Put(reader, c, "ended")
  /\ writer[c] = "done" /\ writer' = Put(writer, c, "ended")
  /\ serving' = Nobody
  /\ UNCHANGED <<link, requestVars, debuggee>>

\* case err := <-done, from whichever goroutine is first; the other is left
\* alone, and the connection is not closed.
ReturnFromStart(c) ==
  /\ serving = c
  /\ \/ reader[c] = "done" /\ reader' = Put(reader, c, "ended") /\ UNCHANGED writer
     \/ writer[c] = "done" /\ writer' = Put(writer, c, "ended") /\ UNCHANGED reader
  /\ serving' = Nobody
  /\ UNCHANGED <<link, requestVars, debuggee>>

-----------------------------------------------------------------------------
(* The client.                                                              *)

Request(c, kind) ==
  /\ link[c] = "open" /\ sentTo[c] = "none" /\ reader[c] # "ended"
  /\ requested[c] < MaxRequests
  /\ kind = "launch" => debuggee[c] = "none"
  /\ sentTo' = Put(sentTo, c, kind)
  /\ UNCHANGED <<serving, link, requested, told, reader, writer, debuggee>>

HangUp(c) ==
  /\ link[c] = "open"
  /\ link' = Put(link, c, "broken")
  /\ UNCHANGED <<serving, requestVars, reader, writer, debuggee>>

-----------------------------------------------------------------------------
(* The reader: ReadProtocolMessage, HandleMessage and SendResponse.         *)

ReadFails(c) ==
  /\ reader[c] = "read" /\ link[c] = "broken"
  /\ reader' = Put(reader, c, "done")
  /\ UNCHANGED <<serving, link, requestVars, writer, debuggee>>

\* Of launch, properties that cannot be read give the response nil, of type
\* *LaunchResponse: a ResponseMessage that differs from nil, whose GetResponse
\* panics.  So does what asks a session that is nil.
Panics(c, kind) ==
  \/ kind = "launch"
  \/ kind \in {"resume", "terminate", "query"} /\ debuggee[c] = "none"

Everywhere(x) == [c \in Clients |-> x]

HandlePanics(c) ==
  /\ reader[c] = "read" /\ Panics(c, sentTo[c])
  /\ requested' = Put(requested, c, requested[c] + 1)
  /\ serving' = Nobody /\ link' = Everywhere("broken") /\ sentTo' = Everywhere("none")
  /\ reader' = Everywhere("ended") /\ writer' = Everywhere("ended")
  /\ debuggee' = Everywhere("gone")
  /\ UNCHANGED told

\* A launch of an unknown command, or that the debugger refuses, leaves no
\* session; its error, and that of any other request, is in the response.
Effect(c, kind) ==
  CASE kind = "launch"    -> {"stopped", "none"}
    [] kind = "resume"    -> {IF debuggee[c] = "stopped" THEN "running" ELSE debuggee[c]}
    [] kind = "terminate" -> {IF debuggee[c] = "stopped" THEN "running" ELSE debuggee[c]}
    [] OTHER              -> {debuggee[c]}

\* Only a request that has no handler gets no response.  Queries need no
\* session when they are of initialize, attach or breakpointLocations.
Handle(c) ==
  /\ reader[c] = "read" /\ sentTo[c] # "none"
  /\ sentTo[c] \in {"resume", "terminate"} => debuggee[c] # "none"
  /\ sentTo' = Put(sentTo, c, "none")
  /\ requested' = IF sentTo[c] = "unknown" THEN requested ELSE Put(requested, c, requested[c] + 1)
  /\ \E d \in Effect(c, sentTo[c]) :
       /\ debuggee' = Put(debuggee, c, d)
       /\ reader' = Put(reader, c,
            CASE sentTo[c] = "disconnect" -> "last"
              [] sentTo[c] = "launch" /\ d # "none" -> "initialized"
              [] sentTo[c] = "unknown" -> "read"
              [] OTHER -> "respond")
  /\ UNCHANGED <<serving, link, told, writer>>

\* pm.outChan <- e and pm.outChan <- resp, with the writer at its receive.
Hand(c, what) == writer[c] = "take" /\ writer' = Put(writer, c, what)

SendInitialized(c) ==
  /\ reader[c] = "initialized" /\ Hand(c, "write")
  /\ reader' = Put(reader, c, "respond")
  /\ UNCHANGED <<serving, link, requestVars, debuggee>>

SendResponse(c) ==
  /\ reader[c] \in {"respond", "last"} /\ Hand(c, "writeResponse")
  /\ reader' = Put(reader, c, IF reader[c] = "last" THEN "done" ELSE "read")
  /\ UNCHANGED <<serving, link, requestVars, debuggee>>

-----------------------------------------------------------------------------
(* The writer.                                                              *)

\* Plausible bug: the writer stops once Start has returned.
WriteWhileServing(c) ==
  /\ serving = c
  /\ writer[c] \in {"write", "writeResponse"} /\ link[c] = "open"
  /\ told' = IF writer[c] = "writeResponse" THEN Put(told, c, told[c] + 1) ELSE told
  /\ writer' = Put(writer, c, "take")
  /\ UNCHANGED <<serving, link, sentTo, requested, reader, debuggee>>

Write(c) ==
  /\ writer[c] \in {"write", "writeResponse"} /\ link[c] = "open"
  /\ told' = IF writer[c] = "writeResponse" THEN Put(told, c, told[c] + 1) ELSE told
  /\ writer' = Put(writer, c, "take")
  /\ UNCHANGED <<serving, link, sentTo, requested, reader, debuggee>>

WriteFails(c) ==
  /\ writer[c] \in {"write", "writeResponse"} /\ link[c] = "broken"
  /\ writer' = Put(writer, c, "done")
  /\ UNCHANGED <<serving, link, requestVars, reader, debuggee>>

-----------------------------------------------------------------------------
(* The debugger: what runs stops or ends, each with an event.  Nobody ends  *)
(* a session whose client has gone.                                         *)

Debug(c) ==
  /\ debuggee[c] = "running"
  /\ debuggee' = Put(debuggee, c, "event")
  /\ UNCHANGED <<serving, link, requestVars, reader, writer>>

SendEvent(c) ==
  /\ debuggee[c] = "event" /\ Hand(c, "write")
  /\ \E d \in {"running", "stopped", "gone"} : debuggee' = Put(debuggee, c, d)
  /\ UNCHANGED <<serving, link, requestVars, reader>>

-----------------------------------------------------------------------------

ReaderStep(c) ==
  ReadFails(c) \/ Handle(c) \/ HandlePanics(c) \/ SendInitialized(c) \/ SendResponse(c)
WriterStep(c) == Write(c) \/ WriteFails(c)

DebugNext ==
  \E c \in Clients :
    \/ Accept(c) \/ ReturnFromStart(c)
    \/ \E kind \in Kinds : Request(c, kind)
    \/ HangUp(c)
    \/ ReaderStep(c) \/ WriterStep(c)
    \/ Debug(c) \/ SendEvent(c)

\* Goroutines run, and senders on a channel get their turn.
DebugFairness ==
  /\ WF_debugVars(\E c \in Clients : Accept(c))
  /\ \A c \in Clients :
       /\ WF_debugVars(ReturnFromStart(c))
       /\ SF_debugVars(ReaderStep(c))
       /\ WF_debugVars(WriterStep(c))

DebugSpec == DebugInit /\ [][DebugNext]_debugVars /\ DebugFairness

-----------------------------------------------------------------------------

(* A request that a handler knows is answered, between the events of a      *)
(* session that runs, also when it is the disconnect request, after which   *)
(* Start returns and nobody waits for the writer; or the connection ends,   *)
(* because the client hung up or because of a panic, as that of a launch    *)
(* whose properties cannot be read (state.go:126), which nothing answers.   *)
RequestsAreAnswered ==
  []<>(\A c \in Clients : told[c] >= requested[c] \/ link[c] = "broken")

(* When a client has disconnected or hung up, the next one is served, while *)
(* goroutines of the former, blocked in outChan or in done, are left over,  *)
(* unless a panic ends the adapter: then nobody waits any more.             *)
NextClientIsServed ==
  []<>(\/ \A c \in Clients : link[c] # "waiting"
       \/ serving # Nobody /\ link[serving] = "open" /\ reader[serving] # "done")
=============================================================================
