---------------------------- MODULE LintPipeline ----------------------------
(* The lint trigger pipeline of the language server, from internal/lsp/     *)
(* server.go:                                                               *)
(*                                                                          *)
(*   handlers, workers --lintJobs (cap 10)--> coalescer --work (cap 1)-->   *)
(*   ticker            --/                                     linter       *)
(*                                                                          *)
(* Every handler of a document or workspace notification, and the config,   *)
(* state and template workers, change what a lint run reads and then send   *)
(* on lintJobs, blocking while the channel is full.  The coalescer moves a  *)
(* job to work with a non-blocking send, so that requests made during a run *)
(* merge into one.  The linter takes from work, reads the cache, lints and  *)
(* publishes; a run that fails publishes nothing and is not retried.        *)
(*                                                                          *)
(* A job is only its presence: the Reason string is logged, never used.     *)
(* What a lint run reads (contents, modules, config) is one counter, the    *)
(* revision, raised by each change; DocumentCache models the maps.          *)
EXTENDS Naturals, FiniteSets

CONSTANTS Handlers,     \* goroutines of jsonrpc2.AsyncHandler, one per message
          Workers,      \* worker goroutines that request runs; Shutdown joins them
          Poll,         \* whether WorkspaceDiagnosticsPoll starts a ticker
          LintJobsCap,  \* capacity of the lintJobs channel
          MaxRevision   \* bound on the number of changes

ASSUME HandlersAndWorkers == Handlers \intersect Workers = {}
ASSUME PollIsBoolean == Poll \in BOOLEAN
ASSUME CapIsPositive == LintJobsCap \in Nat \ {0}
ASSUME MaxRevisionIsNat == MaxRevision \in Nat

VARIABLES
  revision,   \* number of changes made to what a lint run reads
  producer,   \* control state of every handler and worker
  lintJobs,   \* number of jobs buffered in lintJobs
  ticker,     \* control state of the poll ticker goroutine
  coalescer,  \* control state of the coalescing goroutine
  work,       \* whether the work channel holds its one element
  linter,     \* control state of the linting goroutine
  seen,       \* revision read by the latest run
  published,  \* revision of the diagnostics the client was sent last
  failed,     \* the latest run that ended returned an error
  cancelled,  \* the context of all workers is cancelled
  shutdown    \* what Shutdown returned, if it has

senders == <<revision, producer, lintJobs, ticker>>
merging == <<coalescer, work>>
linting == <<linter, seen, published, failed>>
process == <<cancelled, shutdown>>
vars == <<senders, merging, linting, process>>

Producers == Handlers \union Workers

TypeOK ==
  /\ revision \in 0..MaxRevision
  /\ producer \in [Producers -> {"idle", "changed", "exited"}]
  /\ lintJobs \in 0..LintJobsCap
  /\ ticker \in {"waiting", "sending", "exited"}
  /\ coalescer \in {"receive", "offer", "exited"}
  /\ work \in BOOLEAN
  /\ linter \in {"receive", "snapshot", "linting", "publishing", "exited"}
  /\ seen \in 0..MaxRevision
  /\ published \in 0..MaxRevision
  /\ failed \in BOOLEAN
  /\ cancelled \in BOOLEAN
  /\ shutdown \in {"no", "clean", "timeout"}

-----------------------------------------------------------------------------

Init ==
  /\ revision = 0
  /\ producer = [p \in Producers |-> "idle"]
  /\ lintJobs = 0
  /\ ticker = IF Poll THEN "waiting" ELSE "exited"
  /\ coalescer = "receive"
  /\ work = FALSE
  /\ linter = "receive"
  /\ seen = 0
  /\ published = 0
  /\ failed = FALSE
  /\ cancelled = FALSE
  /\ shutdown = "no"

\* A handler or worker has updated the cache (and the parse) or the config.
Change(p) ==
  /\ producer[p] = "idle"
  /\ revision < MaxRevision
  /\ revision' = revision + 1
  /\ producer' = [producer EXCEPT ![p] = "changed"]
  /\ UNCHANGED <<lintJobs, ticker, merging, linting, process>>

\* A plausible bug: the job is sent by a goroutine of its own, so that
\* requests pile up beyond the buffer.
SendJobUnchecked(p) ==
  /\ producer[p] = "changed"
  /\ lintJobs' = lintJobs + 1
  /\ producer' = [producer EXCEPT ![p] = "idle"]
  /\ UNCHANGED <<revision, ticker, merging, linting, process>>

\* l.lintJobs <- lintJob{...}: blocks while the buffer is full, whatever the
\* context: the send is not in a select.
SendJob(p) ==
  /\ producer[p] = "changed"
  /\ lintJobs < LintJobsCap
  /\ lintJobs' = lintJobs + 1
  /\ producer' = [producer EXCEPT ![p] = "idle"]
  /\ UNCHANGED <<revision, ticker, merging, linting, process>>

\* A worker looks at ctx.Done() only between two pieces of work.
WorkerExit(p) ==
  /\ producer[p] = "idle"
  /\ cancelled
  /\ producer' = [producer EXCEPT ![p] = "exited"]
  /\ UNCHANGED <<revision, lintJobs, ticker, merging, linting, process>>

Tick ==
  /\ ticker = "waiting"
  /\ ticker' = "sending"
  /\ UNCHANGED <<revision, producer, lintJobs, merging, linting, process>>

TickSend ==
  /\ ticker = "sending"
  /\ lintJobs < LintJobsCap
  /\ lintJobs' = lintJobs + 1
  /\ ticker' = "waiting"
  /\ UNCHANGED <<revision, producer, merging, linting, process>>

TickerExit ==
  /\ ticker = "waiting"
  /\ cancelled
  /\ ticker' = "exited"
  /\ UNCHANGED <<revision, producer, lintJobs, merging, linting, process>>

-----------------------------------------------------------------------------

Receive ==
  /\ coalescer = "receive"
  /\ lintJobs > 0
  /\ lintJobs' = lintJobs - 1
  /\ coalescer' = "offer"
  /\ UNCHANGED <<revision, producer, ticker, work, linting, process>>

\* A plausible bug: a blocking send to work, so that the coalescer waits for
\* the linter.
OfferBlocking ==
  /\ coalescer = "offer"
  /\ ~work /\ work' = TRUE
  /\ coalescer' = "receive"
  /\ UNCHANGED <<senders, linting, process>>

\* A plausible bug: work without its one element of buffer, so that the offer
\* is dropped unless the linter is waiting for it.
OfferUnbuffered ==
  /\ coalescer = "offer"
  /\ work' = (work \/ linter = "receive")
  /\ coalescer' = "receive"
  /\ UNCHANGED <<senders, linting, process>>

\* select { case work <- struct{}{}: default: }
Offer ==
  /\ coalescer = "offer"
  /\ \/ ~work /\ work' = TRUE
     \/ work /\ UNCHANGED work
  /\ coalescer' = "receive"
  /\ UNCHANGED <<senders, linting, process>>

CoalescerExit ==
  /\ coalescer = "receive"
  /\ cancelled
  /\ coalescer' = "exited"
  /\ UNCHANGED <<senders, work, linting, process>>

TakeWork ==
  /\ linter = "receive"
  /\ work
  /\ work' = FALSE
  /\ linter' = "snapshot"
  /\ UNCHANGED <<senders, coalescer, seen, published, failed, process>>

\* What the run reads: getLoadedConfig first, and the files and modules of
\* the cache (rules.NewInput) last; seen counts what every read has seen.
Snapshot ==
  /\ linter = "snapshot"
  /\ seen' = revision
  /\ linter' = "linting"
  /\ UNCHANGED <<senders, merging, published, failed, process>>

LintSucceeds ==
  /\ linter = "linting"
  /\ linter' = "publishing"
  /\ UNCHANGED <<senders, merging, seen, published, failed, process>>

\* A plausible bug: a failed run is not told apart from one that published.
LintFailsSilently ==
  /\ linter = "linting"
  /\ linter' = "receive"
  /\ UNCHANGED <<senders, merging, seen, published, failed, process>>

\* The error is logged and the loop continues.
LintFails ==
  /\ linter = "linting"
  /\ failed' = TRUE
  /\ linter' = "receive"
  /\ UNCHANGED <<senders, merging, seen, published, process>>

\* A plausible bug: the linter empties work after the run it pays for, and so
\* loses a request made during that run.
PublishThenDrain ==
  /\ linter = "publishing"
  /\ published' = seen
  /\ failed' = FALSE
  /\ linter' = "receive"
  /\ work' = FALSE
  /\ UNCHANGED <<senders, coalescer, seen, process>>

\* sendFileDiagnostics for every file in the cache.
Publish ==
  /\ linter = "publishing"
  /\ published' = seen
  /\ failed' = FALSE
  /\ linter' = "receive"
  /\ UNCHANGED <<senders, merging, seen, process>>

LinterExit ==
  /\ linter = "receive"
  /\ cancelled
  /\ linter' = "exited"
  /\ UNCHANGED <<senders, merging, seen, published, failed, process>>

-----------------------------------------------------------------------------

\* The language-server command: cancel(), then Shutdown within five seconds.
Cancel ==
  /\ ~cancelled
  /\ cancelled' = TRUE
  /\ UNCHANGED <<senders, merging, linting, shutdown>>

\* workersWg.Wait() returns.
Joined ==
  /\ \A p \in Workers : producer[p] = "exited"
  /\ ticker = "exited"
  /\ coalescer = "exited"
  /\ linter = "exited"

ShutdownClean ==
  /\ cancelled
  /\ shutdown = "no"
  /\ Joined
  /\ shutdown' = "clean"
  /\ UNCHANGED <<senders, merging, linting, cancelled>>

\* A plausible bug: Shutdown looks at its context after the join.
ShutdownLate ==
  /\ cancelled
  /\ shutdown = "no"
  /\ Joined
  /\ shutdown' = "timeout"
  /\ UNCHANGED <<senders, merging, linting, cancelled>>

\* ctx.Done() in Shutdown: the five seconds are over.
ShutdownTimeout ==
  /\ cancelled
  /\ shutdown = "no"
  /\ shutdown' = "timeout"
  /\ UNCHANGED <<senders, merging, linting, cancelled>>

-----------------------------------------------------------------------------

TickerStep == TickSend \/ TickerExit
CoalescerStep == Receive \/ Offer \/ CoalescerExit
LinterStep ==
  TakeWork \/ Snapshot \/ LintSucceeds \/ LintFails \/ Publish \/ LinterExit
ShutdownStep == ShutdownClean \/ ShutdownTimeout
MainStep == Cancel \/ ShutdownStep

Next ==
  \/ \E p \in Producers : Change(p) \/ SendJob(p)
  \/ \E p \in Workers : WorkerExit(p)
  \/ Tick
  \/ TickerStep
  \/ CoalescerStep
  \/ LinterStep
  \/ MainStep

SafetySpec == Init /\ [][Next]_vars

(* Goroutines that can run do run (the Go scheduler).  A goroutine blocked  *)
(* on a full channel waits in the channel's first-in-first-out queue, so a  *)
(* sender whose channel has room again and again does get its turn: strong  *)
(* fairness for the sends.  A select picks at random among its ready cases, *)
(* so ctx.Done() is not passed over for ever: strong fairness for the       *)
(* exits.  Shutdown has a deadline.  Nothing obliges a client to change a   *)
(* file, the ticker to tick, or the server to be cancelled.                 *)
ProducerFairness ==
  /\ \A p \in Producers : SF_vars(SendJob(p))
  /\ \A p \in Workers : SF_vars(WorkerExit(p))
  /\ SF_vars(TickSend)
  /\ SF_vars(TickerExit)
  /\ WF_vars(Receive \/ Offer)
  /\ SF_vars(CoalescerExit)

LinterFairness ==
  /\ WF_vars(TakeWork)
  /\ WF_vars(Snapshot \/ LintSucceeds \/ LintFails \/ Publish)
  /\ SF_vars(LinterExit)

(* LinterFairness is not part of Spec: a lint run may take for ever, and    *)
(* only what is said to depend on the linter may assume that it does not.   *)
Spec == SafetySpec /\ ProducerFairness /\ WF_vars(ShutdownStep)

-----------------------------------------------------------------------------

(* A request for a lint run that has not been started is somewhere on its   *)
(* way: buffered, in the hands of the coalescer, merged into work, or taken *)
(* by a linter that has not read the cache yet.                             *)
Owed ==
  \/ lintJobs > 0
  \/ coalescer = "offer"
  \/ work
  \/ linter = "snapshot"

(* No trigger is lost by coalescing (StartDiagnosticsWorker drops the job   *)
(* when work is full): whenever the cache is ahead of what the latest run   *)
(* has read, a run is owed or the goroutine that made the change is still   *)
(* going to ask for it.  Holds through cancellation too.                    *)
NoLostTrigger ==
  seen < revision => Owed \/ \E p \in Producers : producer[p] = "changed"

\* Nobody has anything left to do but wait for the next event.
Quiet ==
  /\ ~Owed
  /\ linter = "receive"
  /\ \A p \in Producers : producer[p] # "changed"

(* When the pipeline is at rest the client has the diagnostics of the       *)
(* newest workspace, unless the latest run returned an error: an error is   *)
(* the one way in which updateWorkspaceDiagnostics leaves old diagnostics   *)
(* in the editor, and it is not retried.                                    *)
CurrentUnlessFailed == Quiet => published = revision \/ failed

(* The reason for the coalescer: a goroutine that sends on lintJobs does    *)
(* not wait for a lint run, however long the run takes.                     *)
SendersAreReleased ==
  \A p \in Producers :
    producer[p] = "changed" ~> producer[p] # "changed" \/ cancelled

(* However the workers stand when the server is cancelled (one of them may  *)
(* be blocked for ever on lintJobs, which nobody empties any more), the     *)
(* command that shuts the server down ends.                                 *)
ShutdownEnds == cancelled ~> shutdown # "no"

(* The pipeline implements LintService: between a request and the lint run  *)
(* that pays for it a run is owed at every moment, and a run that starts    *)
(* reads everything that was changed before.                                *)
Service ==
  INSTANCE LintService WITH
    Requesters <- Producers,
    debtors <- {p \in Producers : producer[p] = "changed"},
    owed <- Owed,
    running <- linter \in {"linting", "publishing"},
    stopped <- cancelled

ImplementsService == Service!Spec

(* What a user sees of it: every change made by a handler or a worker is    *)
(* read by a lint run that starts after it, unless the server is cancelled, *)
(* although most of the requests are dropped by the coalescer.              *)
EveryChangeIsLinted == LinterFairness => Service!EveryChangeIsSeen
=============================================================================
