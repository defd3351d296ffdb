------------------------- MODULE LintPipelineProofs -------------------------
(* Proofs about the lint trigger pipeline, for any number of handlers and   *)
(* workers, any capacity of lintJobs, with or without the poll ticker.      *)
EXTENDS LintPipeline, TLAPS

LEMMA TypeOKInit == Init => TypeOK
<1> USE CapIsPositive, MaxRevisionIsNat
<1> SUFFICES ASSUME Init PROVE TypeOK
  OBVIOUS
<1>1. ticker \in {"waiting", "sending", "exited"}
  BY Zenon DEF Init
<1>2. 0 \in 0..MaxRevision /\ 0 \in 0..LintJobsCap
  OBVIOUS
<1> QED
  BY <1>1, <1>2, Zenon DEF Init, TypeOK

(* TypeOK is preserved by every step: what the channels hold stays within   *)
(* their capacities and every goroutine stays at one of its control points. *)
THEOREM TypeCorrect == SafetySpec => []TypeOK
<1> USE HandlersAndWorkers, PollIsBoolean, CapIsPositive, MaxRevisionIsNat
<1>1. Init => TypeOK
  BY TypeOKInit
<1>2. TypeOK /\ [Next]_vars => TypeOK'
  <2> SUFFICES ASSUME TypeOK, [Next]_vars PROVE TypeOK'
    OBVIOUS
  <2> USE DEF TypeOK, senders, merging, linting, process
  <2>1. ASSUME NEW p \in Producers, Change(p) PROVE TypeOK'
    BY <2>1 DEF Change
  <2>2. ASSUME NEW p \in Producers, SendJob(p) PROVE TypeOK'
    BY <2>2 DEF SendJob
  <2>3. ASSUME NEW p \in Workers, WorkerExit(p) PROVE TypeOK'
    BY <2>3 DEF WorkerExit, Producers
  <2>4. CASE Tick
    BY <2>4 DEF Tick
  <2>5. CASE TickerStep
    BY <2>5 DEF TickerStep, TickSend, TickerExit
  <2>6. CASE CoalescerStep
    <3>1. CASE Receive
      BY <3>1 DEF Receive
    <3>2. CASE Offer
      BY <3>2, Zenon DEF Offer
    <3>3. CASE CoalescerExit
      BY <3>3 DEF CoalescerExit
    <3> QED
      BY <2>6, <3>1, <3>2, <3>3 DEF CoalescerStep
  <2>7. CASE LinterStep
    BY <2>7 DEF LinterStep, TakeWork, Snapshot, LintSucceeds, LintFails,
                Publish, LinterExit
  <2>8. CASE MainStep
    BY <2>8 DEF MainStep, ShutdownStep, Cancel, ShutdownClean, ShutdownTimeout
  <2>9. CASE UNCHANGED vars
    BY <2>9 DEF vars
  <2> QED
    BY <2>1, <2>2, <2>3, <2>4, <2>5, <2>6, <2>7, <2>8, <2>9 DEF Next
<1> QED
  BY <1>1, <1>2, PTL DEF SafetySpec

-----------------------------------------------------------------------------

(* The latest run has read no revision that does not exist.                 *)
SeenIsPast == seen <= revision

(* Between two runs the client has what the latest run read, unless that    *)
(* run failed.                                                              *)
PublishedWhatWasSeen ==
  linter \in {"receive", "snapshot", "exited"} => published = seen \/ failed

(* NoLostTrigger is not enough to conclude that the client is up to date    *)
(* when the pipeline is at rest: it speaks of what was read, not of what    *)
(* was sent.  The invariant adds the two facts that connect them.           *)
PipelineInv ==
  /\ TypeOK
  /\ NoLostTrigger
  /\ SeenIsPast
  /\ PublishedWhatWasSeen

LEMMA PipelineInvInit == Init => PipelineInv
  BY TypeOKInit
  DEF Init, PipelineInv, NoLostTrigger, SeenIsPast, PublishedWhatWasSeen

LEMMA PipelineInvStep == PipelineInv /\ TypeOK' /\ [Next]_vars => PipelineInv'
<1> USE HandlersAndWorkers, PollIsBoolean, CapIsPositive, MaxRevisionIsNat
<1> SUFFICES ASSUME PipelineInv, TypeOK', [Next]_vars PROVE PipelineInv'
  OBVIOUS
<1> USE DEF PipelineInv, TypeOK, NoLostTrigger, SeenIsPast, PublishedWhatWasSeen,
            Owed, senders, merging, linting, process
<1>1. ASSUME NEW p \in Producers, Change(p) PROVE PipelineInv'
  BY <1>1 DEF Change
<1>2. ASSUME NEW p \in Producers, SendJob(p) PROVE PipelineInv'
  BY <1>2 DEF SendJob
<1>3. ASSUME NEW p \in Workers, WorkerExit(p) PROVE PipelineInv'
  <2>1. \A q \in Producers : producer[q] = "changed" => producer'[q] = "changed"
    BY <1>3 DEF WorkerExit, Producers
  <2> QED
    BY <1>3, <2>1 DEF WorkerExit
<1>4. CASE Tick
  BY <1>4 DEF Tick
<1>5. CASE TickerStep
  BY <1>5 DEF TickerStep, TickSend, TickerExit
<1>6. CASE CoalescerStep
  BY <1>6 DEF CoalescerStep, Receive, Offer, CoalescerExit
<1>7. CASE LinterStep
  BY <1>7 DEF LinterStep, TakeWork, Snapshot, LintSucceeds, LintFails,
              Publish, LinterExit
<1>8. CASE MainStep
  BY <1>8 DEF MainStep, ShutdownStep, Cancel, ShutdownClean, ShutdownTimeout
<1>9. CASE UNCHANGED vars
  BY <1>9 DEF vars
<1> QED
  BY <1>1, <1>2, <1>3, <1>4, <1>5, <1>6, <1>7, <1>8, <1>9 DEF Next

THEOREM PipelineInvariant == SafetySpec => []PipelineInv
  BY TypeCorrect, PipelineInvInit, PipelineInvStep, PTL DEF SafetySpec

(* Coalescing loses no trigger (StartDiagnosticsWorker), whatever the       *)
(* number of senders and the capacity of lintJobs.                          *)
THEOREM NoTriggerIsLost == SafetySpec => []NoLostTrigger
<1>1. PipelineInv => NoLostTrigger
  BY DEF PipelineInv
<1> QED
  BY <1>1, PipelineInvariant, PTL

(* At rest, the client has the diagnostics of the newest workspace unless   *)
(* the latest lint run returned an error.                                   *)
THEOREM CurrentWhenQuiet == SafetySpec => []CurrentUnlessFailed
<1>1. PipelineInv => CurrentUnlessFailed
  BY MaxRevisionIsNat
  DEF PipelineInv, TypeOK, NoLostTrigger, SeenIsPast, PublishedWhatWasSeen,
      CurrentUnlessFailed, Quiet
<1> QED
  BY <1>1, PipelineInvariant, PTL

-----------------------------------------------------------------------------

(* The safety part of the refinement: every behaviour of the channels and   *)
(* goroutines is a behaviour of LintService.  Its liveness is model-checked.*)
THEOREM RefinesService == SafetySpec => ImplementsService
<1> USE HandlersAndWorkers, PollIsBoolean, CapIsPositive, MaxRevisionIsNat
<1> DEFINE Debtors == {p \in Producers : producer[p] = "changed"}
<1>1. Init => Service!Init
  BY DEF Init, Service!Init, Owed
<1>2. TypeOK /\ [Next]_vars => [Service!Next]_(Service!vars)
  <2> SUFFICES ASSUME TypeOK, [Next]_vars
               PROVE  Service!Next \/ UNCHANGED Service!vars
    OBVIOUS
  <2> USE DEF TypeOK, senders, merging, linting, process, Owed
  <2>1. ASSUME NEW p \in Producers, Change(p) PROVE Service!Change(p)
    BY <2>1 DEF Change, Service!Change
  <2>2. ASSUME NEW p \in Producers, SendJob(p) PROVE Service!Request(p)
    BY <2>2 DEF SendJob, Service!Request
  <2>3. ASSUME NEW p \in Workers, WorkerExit(p) PROVE UNCHANGED Service!vars
    <3>1. Debtors' = Debtors
      BY <2>3 DEF WorkerExit, Producers
    <3> QED
      BY <2>3, <3>1 DEF WorkerExit, Service!vars
  <2>4. CASE Tick
    BY <2>4 DEF Tick, Service!vars
  <2>5. CASE TickerStep
    <3>1. CASE TickSend
      BY <3>1 DEF TickSend, Service!Next, Service!Poke
    <3>2. CASE TickerExit
      BY <3>2 DEF TickerExit, Service!vars
    <3> QED
      BY <2>5, <3>1, <3>2 DEF TickerStep
  <2>6. CASE CoalescerStep
    BY <2>6 DEF CoalescerStep, Receive, Offer, CoalescerExit, Service!vars
  <2>7. CASE LinterStep
    <3>1. CASE TakeWork
      BY <3>1 DEF TakeWork, Service!vars
    <3>2. CASE Snapshot
      BY <3>2 DEF Snapshot, Service!Next, Service!Begin
    <3>3. CASE LintSucceeds
      BY <3>3 DEF LintSucceeds, Service!vars
    <3>4. CASE LintFails \/ Publish
      BY <3>4 DEF LintFails, Publish, Service!Next, Service!End
    <3>5. CASE LinterExit
      BY <3>5 DEF LinterExit, Service!vars
    <3> QED
      BY <2>7, <3>1, <3>2, <3>3, <3>4, <3>5 DEF LinterStep
  <2>8. CASE MainStep
    BY <2>8 DEF MainStep, ShutdownStep, Cancel, ShutdownClean, ShutdownTimeout,
                Service!Next, Service!Stop, Service!vars
  <2>9. CASE UNCHANGED vars
    BY <2>9 DEF vars, Service!vars
  <2> QED
    BY <2>1, <2>2, <2>3, <2>4, <2>5, <2>6, <2>7, <2>8, <2>9
       DEF Next, Service!Next
<1> QED
  BY <1>1, <1>2, TypeCorrect, PTL
  DEF SafetySpec, ImplementsService, Service!Spec
=============================================================================
