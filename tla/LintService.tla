---------------------------- MODULE LintService ----------------------------
(* What the diagnostics worker of the language server promises to the       *)
(* goroutines that ask it for a lint run (internal/lsp/server.go,           *)
(* StartDiagnosticsWorker), without the channels that carry the requests:   *)
(*                                                                          *)
(*   - whoever changes what a lint run reads (a file, a module, the config) *)
(*     is a debtor until it has asked for a run;                            *)
(*   - requests may be merged, so only "is a run owed" is kept;             *)
(*   - runs happen one at a time, and a run that pays the debt reads the    *)
(*     workspace after the requests it pays for were made.                  *)
(*                                                                          *)
(* LintPipeline implements this module, and DocumentCache builds on it.     *)
EXTENDS Naturals

CONSTANTS Requesters,   \* the goroutines that change the workspace
          MaxRevision   \* bound on the number of changes

VARIABLES revision,  \* number of changes made to what a lint run reads
          debtors,   \* requesters that changed something and have not asked yet
          owed,      \* a run has been asked for and not been started
          running,   \* a run is in progress
          seen,      \* the revision the latest run has read
          stopped    \* the server's context is cancelled

vars == <<revision, debtors, owed, running, seen, stopped>>

Init ==
  /\ revision = 0
  /\ debtors = {}
  /\ owed = FALSE
  /\ running = FALSE
  /\ seen = 0
  /\ stopped = FALSE

Change(p) ==
  /\ p \notin debtors
  /\ revision < MaxRevision
  /\ revision' = revision + 1
  /\ debtors' = debtors \union {p}
  /\ UNCHANGED <<owed, running, seen, stopped>>

Request(p) ==
  /\ p \in debtors
  /\ debtors' = debtors \ {p}
  /\ owed' = TRUE
  /\ UNCHANGED <<revision, running, seen, stopped>>

\* The poll ticker asks for a run without having changed anything.
Poke ==
  /\ owed' = TRUE
  /\ UNCHANGED <<revision, debtors, running, seen, stopped>>

\* A run may leave a further run owed even when nothing changed meanwhile:
\* how many requests one run pays for is not promised.
Begin ==
  /\ owed
  /\ ~running
  /\ running' = TRUE
  /\ seen' = revision
  /\ owed' \in BOOLEAN
  /\ UNCHANGED <<revision, debtors, stopped>>

End ==
  /\ running
  /\ running' = FALSE
  /\ UNCHANGED <<revision, debtors, owed, seen, stopped>>

Stop ==
  /\ stopped' = TRUE
  /\ UNCHANGED <<revision, debtors, owed, running, seen>>

Next ==
  \/ \E p \in Requesters : Change(p) \/ Request(p)
  \/ Poke
  \/ Begin
  \/ End
  \/ Stop

Spec == Init /\ [][Next]_vars

-----------------------------------------------------------------------------

(* Every change is read by a lint run that starts after it, unless the      *)
(* server is stopped first.                                                 *)
EveryChangeIsSeen ==
  \A r \in 1..MaxRevision : revision >= r ~> seen >= r \/ stopped
=============================================================================
