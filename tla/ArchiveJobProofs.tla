-------------------------- MODULE ArchiveJobProofs --------------------------
(***************************************************************************)
(* What a success report means, for any number of copies, sessions,        *)
(* reporters, deaths and failures: the proof that a success is reported    *)
(* only when every copy is settled.                                        *)
(***************************************************************************)
EXTENDS ArchiveJobs, TLAPS

\* The copy is in the catalogue, or no attempt is left for it.
Done(c) == c \in onTape \/ totalRetries[c] >= MaxTotalRetries
AllDone == \A c \in Copies : Done(c)

Typing ==
    /\ status \in [Copies -> Statuses]
    /\ owner \in [Copies -> Queues \cup Processes \cup {NoOwner}]
    /\ totalRetries \in [Copies -> Nat]
    /\ at \in [Processes -> Stages]
    /\ job \in [Processes -> Copies]
    /\ reportType \in [Processes -> ReportTypes]
    /\ queue \in [Processes -> Queues]
    /\ successes \in Nat

\* Who says of a copy that it is settled: its status, the report queue, and the
\* processes on their way to that queue or from it.
StatusSettled == \A c \in Copies : status[c] # ToTransfer => Done(c)
LastReports == \A c \in Copies : status[c] = ToReportTransfer => AllDone
QueueSettled == \A c \in Copies : owner[c] = "JobsToReportToUser" => Done(c)
WrittenOnTape == \A p \in Processes : at[p] \in {"written", "notMoved"} => job[p] \in onTape
EnqueuedSettled ==
    \A p \in Processes :
        at[p] = "enqueue" /\ queue[p] = "JobsToReportToUser" => Done(job[p])
ReportingSettled ==
    \A p \in Processes : at[p] \in {"reporting", "reported"} => Done(job[p])
CompletionSettled ==
    \A p \in Processes :
        at[p] = "reporting" /\ reportType[p] = "CompletionReport" => AllDone

\* Nothing of this says how a copy got its status, for addReportFailure gives
\* it the one of the first copy: only that a copy once settled remains so.
Settled ==
    /\ Typing
    /\ StatusSettled /\ LastReports /\ QueueSettled
    /\ WrittenOnTape /\ EnqueuedSettled /\ ReportingSettled /\ CompletionSettled
    /\ SuccessCoversEveryCopy

-----------------------------------------------------------------------------
\* What was settled stays so: no action takes a copy off the catalogue or
\* forgets an attempt.
LEMMA DoneStays ==
    ASSUME Typing, Typing', onTape \subseteq onTape',
           \A c \in Copies : totalRetries[c] <= totalRetries'[c]
    PROVE  /\ \A c \in Copies : Done(c) => Done(c)'
           /\ AllDone => AllDone'
<1>1. ASSUME NEW c \in Copies, Done(c) PROVE Done(c)'
  <2>1. CASE c \in onTape
    BY <2>1 DEF Done
  <2>2. CASE totalRetries[c] >= MaxTotalRetries
    <3>1. totalRetries[c] \in Nat /\ totalRetries'[c] \in Nat /\ MaxTotalRetries \in Nat
      BY LimitsAssumption DEF Typing
    <3>2. totalRetries[c] <= totalRetries'[c]
      OBVIOUS
    <3> QED
      BY <2>2, <3>1, <3>2 DEF Done
  <2> QED
    BY <1>1, <2>1, <2>2 DEF Done
<1> QED
  BY <1>1 DEF AllDone

\* At the start no copy is settled, and nobody says so.
LEMMA InitSettled == Init => Settled
<1> SUFFICES ASSUME Init PROVE Settled
  OBVIOUS
<1>1. Typing
  BY CopiesAssumption DEF Init, Typing, Copies, Statuses, ToReport, ToTransfer, Queues, Stages,
     ReportTypes
<1>2. StatusSettled /\ LastReports /\ QueueSettled
  BY DEF Init, StatusSettled, LastReports, QueueSettled, ToTransfer, ToReportTransfer
<1>3. WrittenOnTape /\ EnqueuedSettled /\ ReportingSettled /\ CompletionSettled
  BY DEF Init, WrittenOnTape, EnqueuedSettled, ReportingSettled, CompletionSettled
<1>4. SuccessCoversEveryCopy
  BY DEF Init, SuccessCoversEveryCopy
<1> QED
  BY <1>1, <1>2, <1>3, <1>4 DEF Settled
-----------------------------------------------------------------------------
\* Popping a job changes its owner to the process, and a reporter pops from the
\* report queue, where every job is settled (Pop).
LEMMA PopSettled ==
    ASSUME Settled, NEW p \in Processes, NEW c \in Copies, NEW q, NEW stage,
           \/ stage = "transferring"
           \/ stage = "reporting" /\ q = "JobsToReportToUser",
           Pop(p, c, q, stage)
    PROVE  Settled'
<1>1. Typing'
  <2>1. ReportTypeOf(status[c]) \in ReportTypes
    BY DEF ReportTypeOf, ReportTypes
  <2>2. stage \in Stages
    BY DEF Stages
  <2> QED
    BY <2>1, <2>2 DEF Settled, Typing, Pop, Move, reports
<1>2. (\A d \in Copies : Done(d) => Done(d)') /\ (AllDone => AllDone')
  BY <1>1, DoneStays DEF Settled, Typing, Pop
<1>3. StatusSettled' /\ LastReports'
  BY <1>2 DEF Settled, StatusSettled, LastReports, Pop
<1>4. QueueSettled'
  <2>1. p # "JobsToReportToUser"
    BY NamesAssumption DEF Queues
  <2> QED
    BY <1>2, <2>1 DEF Settled, Typing, QueueSettled, Pop
<1>5. WrittenOnTape' /\ EnqueuedSettled'
  BY <1>2 DEF Settled, Typing, WrittenOnTape, EnqueuedSettled, Pop, Move
<1>6. ReportingSettled'
  BY <1>2 DEF Settled, Typing, ReportingSettled, QueueSettled, Pop, Move
<1>7. CompletionSettled'
  <2>1. ReportTypeOf(status[c]) = "CompletionReport" => status[c] = ToReportTransfer
    BY DEF ReportTypeOf, ToReportTransfer, ToReportFailure
  <2> QED
    BY <1>2, <2>1 DEF Settled, Typing, CompletionSettled, LastReports, Pop, Move
<1>8. SuccessCoversEveryCopy'
  BY DEF Settled, SuccessCoversEveryCopy, Pop, reports
<1> QED
  BY <1>1, <1>3, <1>4, <1>5, <1>6, <1>7, <1>8 DEF Settled

\* A failed transfer counts an attempt, and gives the copy up only with the
\* last one (addTransferFailure, determineNextStep).
LEMMA FailTransferSettled ==
    ASSUME Settled, NEW m \in Mounts, FailTransfer(m)
    PROVE  Settled'
<1> DEFINE c == job[m]
<1> USE DEF Processes
<1>0. c \in Copies /\ m \in Processes /\ MaxTotalRetries \in Nat
  BY LimitsAssumption DEF Settled, Typing
<1>1. /\ totalRetries' = [totalRetries EXCEPT ![c] = @ + 1]
      /\ UNCHANGED <<owner, job, reportType, onTape, successes>>
  BY DEF FailTransfer, AddTransferFailure, reports
<1>2. \/ /\ totalRetries'[c] >= MaxTotalRetries
         /\ status' = [status EXCEPT ![c] = Failed] \/ status' = [status EXCEPT ![c] = ToReportFailure]
         /\ at' = [at EXCEPT ![m] = "enqueue"]
         /\ \E q \in {"FailedJobs", "JobsToReportToUser"} : queue' = [queue EXCEPT ![m] = q]
      \/ /\ status' = [status EXCEPT ![c] = ToTransfer]
         /\ at' = [at EXCEPT ![m] = "idle"] \/ at' = [at EXCEPT ![m] = "enqueue"]
         /\ queue' = [queue EXCEPT ![m] = "JobsToTransferForUser"]
  <2>1. CASE Exhausted(c)
    <3>1. totalRetries'[c] >= MaxTotalRetries
      BY <1>0, <1>1, <2>1 DEF Settled, Typing, Exhausted
    <3>2. DetermineNextStep(m, c)
      BY <2>1 DEF FailTransfer
    <3> QED
      BY <3>1, <3>2 DEF DetermineNextStep, SetStatus, Move
  <2>2. CASE ~Exhausted(c)
    <3>1. Retry(m, c)
      BY <2>2 DEF FailTransfer
    <3> QED
      BY <3>1 DEF Retry, SetStatus, Move
  <2> QED
    BY <2>1, <2>2
<1>3. Typing'
  BY <1>0, <1>1, <1>2 DEF Settled, Typing, Stages, Queues, Statuses, ToReport
<1>4. (\A d \in Copies : Done(d) => Done(d)') /\ (AllDone => AllDone')
  <2>1. \A d \in Copies : totalRetries[d] <= totalRetries'[d]
    BY <1>0, <1>1 DEF Settled, Typing
  <2> QED
    BY <1>1, <1>3, <2>1, DoneStays DEF Settled
<1>5. status'[c] # ToTransfer => Done(c)'
  BY <1>0, <1>1, <1>2 DEF Settled, Typing, Done, ToTransfer
<1>6. StatusSettled'
  BY <1>0, <1>1, <1>2, <1>4, <1>5 DEF Settled, Typing, StatusSettled
<1>7. LastReports'
  BY <1>0, <1>2, <1>4 DEF Settled, Typing, LastReports, ToTransfer, ToReportTransfer,
     ToReportFailure, Failed
<1>8. QueueSettled'
  BY <1>1, <1>4 DEF Settled, QueueSettled
<1>9. WrittenOnTape' /\ ReportingSettled' /\ CompletionSettled'
  BY <1>0, <1>1, <1>2, <1>4 DEF Settled, Typing, WrittenOnTape, ReportingSettled, CompletionSettled
<1>10. EnqueuedSettled'
  <2> SUFFICES ASSUME NEW p \in Processes, at'[p] = "enqueue", queue'[p] = "JobsToReportToUser"
               PROVE  Done(job[p])'
    BY DEF EnqueuedSettled
  <2>1. CASE p = m
    BY <1>0, <1>1, <1>2, <2>1 DEF Settled, Typing, Done
  <2>2. CASE p # m
    <3>1. at[p] = "enqueue" /\ queue[p] = "JobsToReportToUser" /\ job[p] \in Copies
      BY <1>2, <2>2 DEF Settled, Typing
    <3> QED
      BY <1>1, <1>4, <3>1 DEF Settled, EnqueuedSettled
  <2> QED
    BY <2>1, <2>2
<1>11. SuccessCoversEveryCopy'
  BY <1>1, <1>4 DEF Settled, SuccessCoversEveryCopy, Done
<1> QED
  BY <1>3, <1>6, <1>7, <1>8, <1>9, <1>10, <1>11 DEF Settled

\* The catalogue is updated before the request (reportJobsBatchTransferred).
LEMMA UpdateCatalogueSettled ==
    ASSUME Settled, NEW m \in Mounts, UpdateCatalogue(m)
    PROVE  Settled'
<1> USE DEF Processes
<1>1. Typing'
  BY DEF Settled, Typing, UpdateCatalogue, Move, Stages, request, reports
<1>2. (\A d \in Copies : Done(d) => Done(d)') /\ (AllDone => AllDone')
  BY <1>1, DoneStays DEF Settled, Typing, UpdateCatalogue, request
<1>3. StatusSettled' /\ LastReports' /\ QueueSettled'
  BY <1>2 DEF Settled, StatusSettled, LastReports, QueueSettled, UpdateCatalogue, request
<1>4. WrittenOnTape'
  BY DEF Settled, Typing, WrittenOnTape, UpdateCatalogue, Move
<1>5. EnqueuedSettled' /\ ReportingSettled' /\ CompletionSettled'
  BY <1>2 DEF Settled, Typing, EnqueuedSettled, ReportingSettled, CompletionSettled,
     UpdateCatalogue, Move
<1>6. SuccessCoversEveryCopy'
  BY <1>2 DEF Settled, SuccessCoversEveryCopy, Done, UpdateCatalogue, request, reports
<1> QED
  BY <1>1, <1>3, <1>4, <1>5, <1>6 DEF Settled

\* The copy that finds no other one to transfer is the one to report: all are
\* settled then (asyncUpdateTransferSuccessful).
LEMMA MarkTransferredSettled ==
    ASSUME Settled, NEW c \in Copies, c \in onTape, MarkTransferred(c),
           UNCHANGED <<totalRetries, onTape>>
    PROVE  /\ status' \in [Copies -> Statuses]
           /\ owner' \in [Copies -> Queues \cup Processes \cup {NoOwner}]
           /\ StatusSettled' /\ LastReports' /\ QueueSettled'
<1>1. /\ status' \in [Copies -> Statuses]
      /\ owner' \in [Copies -> Queues \cup Processes \cup {NoOwner}]
  BY DEF Settled, Typing, MarkTransferred, SetStatus, Statuses, ToReport
<1>2. (\A d \in Copies : Done(d) <=> Done(d)') /\ (AllDone <=> AllDone') /\ Done(c)
  BY DEF Done, AllDone
<1>3. StatusSettled'
  BY <1>1, <1>2 DEF Settled, Typing, StatusSettled, MarkTransferred, SetStatus
<1>4. QueueSettled'
  BY <1>1, <1>2 DEF Settled, Typing, QueueSettled, MarkTransferred, NoOwner
<1>5. LastReports'
  <2>1. CASE OtherJobsToTransfer(c)
    BY <1>2, <2>1 DEF Settled, Typing, LastReports, MarkTransferred, SetStatus, Complete,
       ToReportTransfer
  <2>2. CASE ~OtherJobsToTransfer(c)
    <3>1. AllDone
      BY <1>2, <2>2 DEF Settled, StatusSettled, OtherJobsToTransfer, AllDone
    <3> QED
      BY <1>2, <3>1 DEF LastReports
  <2> QED
    BY <2>1, <2>2
<1> QED
  BY <1>1, <1>3, <1>4, <1>5

LEMMA SucceedTransferSettled ==
    ASSUME Settled, NEW m \in Mounts, SucceedTransfer(m)
    PROVE  Settled'
<1> USE DEF Processes
<1>1. job[m] \in Copies /\ job[m] \in onTape /\ UNCHANGED <<totalRetries, onTape>>
  BY DEF Settled, Typing, WrittenOnTape, SucceedTransfer
<1>2. /\ status' \in [Copies -> Statuses]
      /\ owner' \in [Copies -> Queues \cup Processes \cup {NoOwner}]
      /\ StatusSettled' /\ LastReports' /\ QueueSettled'
  BY <1>1, MarkTransferredSettled DEF SucceedTransfer
<1>3. Typing'
  BY <1>2 DEF Settled, Typing, SucceedTransfer, Move, Stages, Queues, reports
<1>4. (\A d \in Copies : Done(d) => Done(d)') /\ (AllDone => AllDone') /\ Done(job[m])'
  BY <1>1 DEF Done, AllDone, SucceedTransfer
<1>5. WrittenOnTape' /\ ReportingSettled' /\ CompletionSettled'
  BY <1>4 DEF Settled, Typing, WrittenOnTape, ReportingSettled, CompletionSettled,
     SucceedTransfer, Move
<1>6. EnqueuedSettled'
  BY <1>4 DEF Settled, Typing, EnqueuedSettled, SucceedTransfer, Move
<1>7. SuccessCoversEveryCopy'
  BY <1>1 DEF Settled, SuccessCoversEveryCopy, SucceedTransfer, reports
<1> QED
  BY <1>2, <1>3, <1>5, <1>6, <1>7 DEF Settled

\* Also when the update is lost, or written without having been waited for.
LEMMA LoseUpdateSettled ==
    ASSUME Settled, NEW m \in Mounts, LoseUpdate(m)
    PROVE  Settled'
<1> USE DEF Processes
<1>1. job[m] \in Copies /\ job[m] \in onTape /\ UNCHANGED <<totalRetries, onTape>>
  BY DEF Settled, Typing, WrittenOnTape, LoseUpdate
<1>2. (\A d \in Copies : Done(d) <=> Done(d)') /\ (AllDone <=> AllDone')
  BY <1>1 DEF Done, AllDone
<1>3. /\ status' \in [Copies -> Statuses]
      /\ owner' \in [Copies -> Queues \cup Processes \cup {NoOwner}]
      /\ StatusSettled' /\ LastReports' /\ QueueSettled'
  <2>1. CASE MarkTransferred(job[m])
    BY <1>1, <2>1, MarkTransferredSettled
  <2>2. CASE UNCHANGED <<status, owner>>
    BY <1>2, <2>2 DEF Settled, Typing, StatusSettled, LastReports, QueueSettled
  <2> QED
    BY <2>1, <2>2 DEF LoseUpdate
<1>4. Typing'
  BY <1>3 DEF Settled, Typing, LoseUpdate, Move, Stages, reports
<1>5. /\ WrittenOnTape' /\ EnqueuedSettled' /\ ReportingSettled' /\ CompletionSettled'
  BY <1>1, <1>2 DEF Settled, Typing, WrittenOnTape, EnqueuedSettled, ReportingSettled,
     CompletionSettled, LoseUpdate, Move
<1>6. SuccessCoversEveryCopy'
  BY <1>1 DEF Settled, SuccessCoversEveryCopy, LoseUpdate, reports
<1> QED
  BY <1>3, <1>4, <1>5, <1>6 DEF Settled

\* A process that puts a job on the report queue has settled it.
LEMMA EnqueueSettled ==
    ASSUME Settled, NEW p \in Processes, Enqueue(p)
    PROVE  Settled'
<1>1. Typing'
  BY DEF Settled, Typing, Enqueue, Move, Stages, reports
<1>2. (\A d \in Copies : Done(d) <=> Done(d)') /\ (AllDone <=> AllDone')
  BY DEF Done, AllDone, Enqueue
<1>3. StatusSettled' /\ LastReports'
  BY <1>2 DEF Settled, StatusSettled, LastReports, Enqueue
<1>4. QueueSettled'
  BY <1>2 DEF Settled, Typing, QueueSettled, EnqueuedSettled, Enqueue
<1>5. /\ WrittenOnTape' /\ EnqueuedSettled' /\ ReportingSettled' /\ CompletionSettled'
  BY <1>2 DEF Settled, Typing, WrittenOnTape, EnqueuedSettled, ReportingSettled,
     CompletionSettled, Enqueue, Move
<1>6. SuccessCoversEveryCopy'
  BY DEF Settled, SuccessCoversEveryCopy, Enqueue, reports
<1> QED
  BY <1>1, <1>3, <1>4, <1>5, <1>6 DEF Settled

-----------------------------------------------------------------------------
\* A success is delivered only by a reporter that found the copy ready for it
\* (exceptionThrowingReportURL, reportArchiveJobsBatch).
LEMMA DeliverCovers ==
    ASSUME Settled, NEW r \in Processes, at[r] = "reporting",
           Deliver(r) \/ UNCHANGED reports, UNCHANGED <<totalRetries, onTape>>
    PROVE  successes' \in Nat /\ SuccessCoversEveryCopy'
<1>1. CASE UNCHANGED reports
  BY <1>1 DEF Settled, Typing, SuccessCoversEveryCopy, reports
<1>2. CASE Deliver(r) /\ reportType[r] = "CompletionReport"
  <2>1. AllDone
    BY <1>2 DEF Settled, CompletionSettled
  <2> QED
    BY <1>2, <2>1 DEF Settled, Typing, SuccessCoversEveryCopy, AllDone, Done, Deliver
<1>3. CASE Deliver(r) /\ reportType[r] # "CompletionReport"
  BY <1>3 DEF Settled, Typing, SuccessCoversEveryCopy, Deliver
<1> QED
  BY <1>1, <1>2, <1>3

LEMMA SendReportSettled ==
    ASSUME Settled, NEW r \in Reporters, SendReport(r)
    PROVE  Settled'
<1> USE DEF Processes
<1>1. successes' \in Nat /\ SuccessCoversEveryCopy'
  BY DeliverCovers DEF SendReport, request
<1>2. Typing'
  BY <1>1 DEF Settled, Typing, SendReport, Move, Stages, request
<1>3. (\A d \in Copies : Done(d) <=> Done(d)') /\ (AllDone <=> AllDone')
  BY DEF Done, AllDone, SendReport, request
<1>4. StatusSettled' /\ LastReports' /\ QueueSettled'
  BY <1>3 DEF Settled, StatusSettled, LastReports, QueueSettled, SendReport, request
<1>5. WrittenOnTape' /\ EnqueuedSettled' /\ ReportingSettled' /\ CompletionSettled'
  BY <1>3 DEF Settled, Typing, WrittenOnTape, EnqueuedSettled, ReportingSettled,
     CompletionSettled, SendReport, Move
<1> QED
  BY <1>1, <1>2, <1>4, <1>5 DEF Settled

\* The copy whose report or move failed is settled, and may take any status the
\* first copy has (addReportFailure).
LEMMA CommitReportFailureSettled ==
    ASSUME Settled, NEW p \in Processes, Done(job[p]), CommitReportFailure(p),
           successes' \in Nat /\ SuccessCoversEveryCopy'
    PROVE  Settled'
<1> DEFINE c == job[p]
<1>1. c \in Copies /\ 1 \in Copies
  BY CopiesAssumption DEF Settled, Typing, Copies
<1>2. /\ UNCHANGED <<owner, totalRetries, job, reportType, onTape>>
      /\ at' = [at EXCEPT ![p] = "enqueue"]
      /\ \E q \in {"FailedJobs", "JobsToReportToUser"} : queue' = [queue EXCEPT ![p] = q]
      /\ \E s \in {Failed, status[1]} : status' = [status EXCEPT ![c] = s]
  BY DEF CommitReportFailure, Move, SetStatus, FirstJob
<1>3. Typing'
  BY <1>1, <1>2 DEF Settled, Typing, Stages, Queues, Statuses
<1>4. (\A d \in Copies : Done(d) <=> Done(d)') /\ (AllDone <=> AllDone')
  BY <1>2 DEF Done, AllDone
<1>5. StatusSettled'
  BY <1>1, <1>2, <1>4 DEF Settled, Typing, StatusSettled
<1>6. LastReports'
  BY <1>1, <1>2, <1>4 DEF Settled, Typing, LastReports, Failed, ToReportTransfer
<1>7. QueueSettled'
  BY <1>2, <1>4 DEF Settled, QueueSettled
<1>8. WrittenOnTape' /\ ReportingSettled' /\ CompletionSettled'
  BY <1>2, <1>4 DEF Settled, Typing, WrittenOnTape, ReportingSettled, CompletionSettled
<1>9. EnqueuedSettled'
  BY <1>2, <1>4 DEF Settled, Typing, EnqueuedSettled
<1> QED
  BY <1>3, <1>5, <1>6, <1>7, <1>8, <1>9 DEF Settled

LEMMA FailReportSettled ==
    ASSUME Settled, NEW r \in Reporters, FailReport(r) \/ RefuseReport(r)
    PROVE  Settled'
<1> USE DEF Processes
<1>1. at[r] = "reporting" /\ (Deliver(r) \/ UNCHANGED reports) /\ CommitReportFailure(r)
  BY DEF FailReport, RefuseReport
<1>2. Done(job[r])
  BY <1>1 DEF Settled, ReportingSettled
<1>3. successes' \in Nat /\ SuccessCoversEveryCopy'
  BY <1>1, DeliverCovers DEF CommitReportFailure
<1> QED
  BY <1>1, <1>2, <1>3, CommitReportFailureSettled

LEMMA FailMoveSettled ==
    ASSUME Settled, NEW m \in Mounts, FailMove(m)
    PROVE  Settled'
<1> USE DEF Processes
<1>1. CommitReportFailure(m) /\ UNCHANGED reports
  BY DEF FailMove
<1>2. Done(job[m])
  BY DEF FailMove, Settled, WrittenOnTape, Done
<1>3. successes' \in Nat /\ SuccessCoversEveryCopy'
  BY <1>1 DEF Settled, Typing, SuccessCoversEveryCopy, CommitReportFailure, reports
<1> QED
  BY <1>1, <1>2, <1>3, CommitReportFailureSettled

\* The reported failure is of a copy that was settled when it was popped.
LEMMA RecordReportedSettled ==
    ASSUME Settled, NEW r \in Reporters, RecordReported(r)
    PROVE  Settled'
<1> USE DEF Processes
<1>0. Done(job[r])
  BY DEF Settled, ReportingSettled, RecordReported
<1>1. Typing'
  BY DEF Settled, Typing, RecordReported, SetStatus, Move, Stages, Statuses, Queues, reports
<1>2. (\A d \in Copies : Done(d) <=> Done(d)') /\ (AllDone <=> AllDone')
  BY DEF Done, AllDone, RecordReported
<1>3. StatusSettled' /\ LastReports'
  BY <1>0, <1>2 DEF Settled, Typing, StatusSettled, LastReports, RecordReported, SetStatus, Failed,
     ToReportTransfer
<1>4. QueueSettled'
  BY <1>2 DEF Settled, Typing, QueueSettled, RecordReported
<1>5. WrittenOnTape' /\ EnqueuedSettled' /\ ReportingSettled' /\ CompletionSettled'
  BY <1>2 DEF Settled, Typing, WrittenOnTape, EnqueuedSettled, ReportingSettled,
     CompletionSettled, RecordReported, Move
<1>6. SuccessCoversEveryCopy'
  BY DEF Settled, SuccessCoversEveryCopy, RecordReported, reports
<1> QED
  BY <1>1, <1>3, <1>4, <1>5, <1>6 DEF Settled

\* A process that drops its job or stops, and a request that disappears, say
\* nothing about any copy.
LEMMA LeavingSettled ==
    ASSUME Settled,
           \/ \E p \in Processes : JobGone(p) \/ Stop(p)
           \/ CancelArchive \/ DeleteFailed
           \/ UNCHANGED vars
    PROVE  Settled'
<1>1. /\ UNCHANGED <<status, owner, totalRetries, job, reportType, queue, onTape, successes>>
      /\ UNCHANGED at \/ \E p \in Processes : at' = [at EXCEPT ![p] = "idle"]
  BY DEF JobGone, Stop, CancelArchive, DeleteFailed, Move, request, processes, reports, vars
<1>2. Typing'
  BY <1>1 DEF Settled, Typing, Stages
<1>3. (\A d \in Copies : Done(d) <=> Done(d)') /\ (AllDone <=> AllDone')
  BY <1>1 DEF Done, AllDone
<1>4. StatusSettled' /\ LastReports' /\ QueueSettled'
  BY <1>1, <1>3 DEF Settled, StatusSettled, LastReports, QueueSettled
<1>5. WrittenOnTape' /\ EnqueuedSettled' /\ ReportingSettled' /\ CompletionSettled'
  BY <1>1, <1>3 DEF Settled, Typing, WrittenOnTape, EnqueuedSettled, ReportingSettled,
     CompletionSettled
<1>6. SuccessCoversEveryCopy'
  BY <1>1 DEF Settled, SuccessCoversEveryCopy
<1> QED
  BY <1>2, <1>4, <1>5, <1>6 DEF Settled

\* The collector requeues by the status, which says what is settled.
LEMMA GarbageCollectSettled ==
    ASSUME Settled, NEW c \in Copies, GarbageCollect(c)
    PROVE  Settled'
<1>1. /\ GetQueueType(status[c]) \in Queues
      /\ GetQueueType(status[c]) = "JobsToReportToUser" => status[c] # ToTransfer
  BY DEF Settled, Typing, GarbageCollect, GetQueueType, Queues, Statuses, ToReport, ToTransfer,
     ToReportTransfer, ToReportFailure, Failed, Complete
<1>2. Typing'
  BY <1>1 DEF Settled, Typing, GarbageCollect, processes, reports
<1>3. (\A d \in Copies : Done(d) <=> Done(d)') /\ (AllDone <=> AllDone')
  BY DEF Done, AllDone, GarbageCollect
<1>4. StatusSettled' /\ LastReports'
  BY <1>3 DEF Settled, StatusSettled, LastReports, GarbageCollect
<1>5. QueueSettled'
  BY <1>1, <1>3 DEF Settled, Typing, QueueSettled, StatusSettled, GarbageCollect
<1>6. WrittenOnTape' /\ EnqueuedSettled' /\ ReportingSettled' /\ CompletionSettled'
  BY <1>3 DEF Settled, Typing, WrittenOnTape, EnqueuedSettled, ReportingSettled,
     CompletionSettled, GarbageCollect, processes
<1>7. SuccessCoversEveryCopy'
  BY DEF Settled, SuccessCoversEveryCopy, GarbageCollect, reports
<1> QED
  BY <1>2, <1>4, <1>5, <1>6, <1>7 DEF Settled

-----------------------------------------------------------------------------
LEMMA NextSettled ==
    ASSUME Settled, [Next]_vars
    PROVE  Settled'
<1> USE DEF Processes
<1>1. CASE \E m \in Mounts : MountStep(m)
  <2>1. PICK m \in Mounts : MountStep(m)
    BY <1>1
  <2>2. CASE PopForTransfer(m)
    <3>1. PoolOf[m] \in Copies
      BY ProcessesAssumption
    <3> QED
      BY <2>2, <3>1, PopSettled DEF PopForTransfer
  <2>3. CASE FailTransfer(m)
    BY <2>3, FailTransferSettled
  <2>4. CASE UpdateCatalogue(m)
    BY <2>4, UpdateCatalogueSettled
  <2>5. CASE SucceedTransfer(m)
    BY <2>5, SucceedTransferSettled
  <2>6. CASE LoseUpdate(m)
    BY <2>6, LoseUpdateSettled
  <2>7. CASE FailMove(m)
    BY <2>7, FailMoveSettled
  <2> QED
    BY <2>1, <2>2, <2>3, <2>4, <2>5, <2>6, <2>7 DEF MountStep
<1>2. CASE \E r \in Reporters : ReporterStep(r)
  <2>1. PICK r \in Reporters : ReporterStep(r)
    BY <1>2
  <2>2. CASE \E c \in Copies : PopForReport(r, c)
    BY <2>2, PopSettled DEF PopForReport
  <2>3. CASE SendReport(r)
    BY <2>3, SendReportSettled
  <2>4. CASE FailReport(r) \/ RefuseReport(r)
    BY <2>4, FailReportSettled
  <2>5. CASE RecordReported(r)
    BY <2>5, RecordReportedSettled
  <2> QED
    BY <2>1, <2>2, <2>3, <2>4, <2>5 DEF ReporterStep
<1>3. CASE \E p \in Processes : Enqueue(p)
  BY <1>3, EnqueueSettled
<1>4. CASE \E c \in Copies : GarbageCollect(c)
  BY <1>4, GarbageCollectSettled
<1>5. CASE \/ \E p \in Processes : JobGone(p) \/ Stop(p)
           \/ CancelArchive \/ DeleteFailed
           \/ UNCHANGED vars
  BY <1>5, LeavingSettled
<1> QED
  BY <1>1, <1>2, <1>3, <1>4, <1>5 DEF Next

\* Whatever fails and whoever stops, the disk system is told of a success only
\* when every copy is in the catalogue or out of attempts: the promise behind
\* which it may drop the file (reportArchiveJobsBatch, setArchiveJobBatchReported).
THEOREM SuccessIsSafe == Spec => []SuccessCoversEveryCopy
<1>1. Init => Settled
  BY InitSettled
<1>2. Settled /\ [Next]_vars => Settled'
  BY NextSettled
<1>3. Settled => SuccessCoversEveryCopy
  BY DEF Settled
<1> QED
  BY <1>1, <1>2, <1>3, PTL DEF Spec
=============================================================================
