----------------------------- MODULE ArchiveJobs -----------------------------
(***************************************************************************)
(* The life of one user archive request: the status of each of its copies, *)
(* the retry counters, and the reports sent to the disk system             *)
(* (src/objectstore/ArchiveRequest.cpp, src/scheduler/OStoreDB).           *)
(*                                                                         *)
(* A tape session (a mount) pops the job of its tape pool, writes the      *)
(* file, records it in the catalogue and then in the request; the last     *)
(* copy to be transferred queues the success report.  A copy that has      *)
(* used up its retries queues a failure report.  Reporters pop the queued  *)
(* reports, call the disk system and record the outcome.  Every process    *)
(* may stop between two steps; the garbage collector then requeues what it *)
(* owned according to the status.                                          *)
(*                                                                         *)
(* One action is one committed change of the request, of the catalogue, or *)
(* one message to the disk system.  How an owner is changed safely is the  *)
(* subject of ObjectOwnership; here it is one step.  Repack requests,      *)
(* whose reports go elsewhere, are not modelled.                           *)
(***************************************************************************)
EXTENDS Naturals, FiniteSets

CONSTANTS
    NbCopies,              \* number of copies of the file
    Mounts,                \* tape sessions, each with its own mount id
    Reporters,             \* processes running the DiskReportRunner
    PoolOf,                \* the copy whose tape pool a mount writes to
    None,                  \* no process, no mount
    MaxTotalRetries,       \* limits stored in each job of the request
    MaxRetriesWithinMount,
    MaxReportRetries,
    MaxStops,              \* bound: processes that stop
    MaxReportErrors,       \* bound: reports that fail
    MaxMoveErrors          \* bound: failed updates after the catalogue's

Copies == 1..NbCopies
Processes == Mounts \cup Reporters

ASSUME CopiesAssumption == NbCopies \in Nat \ {0}
ASSUME ProcessesAssumption ==
    /\ Mounts \cap Reporters = {}
    /\ None \notin Processes
    /\ PoolOf \in [Mounts -> Copies]
ASSUME LimitsAssumption ==
    /\ MaxTotalRetries \in Nat \ {0}
    /\ MaxRetriesWithinMount \in Nat \ {0}
    /\ MaxReportRetries \in Nat \ {0}
ASSUME FaultsAssumption ==
    MaxStops \in Nat /\ MaxReportErrors \in Nat /\ MaxMoveErrors \in Nat

\* serializers::ArchiveJobStatus, without the repack statuses and the
\* obsolete AJS_Abandoned.
ToTransfer == "AJS_ToTransferForUser"
ToReportTransfer == "AJS_ToReportToUserForTransfer"
ToReportFailure == "AJS_ToReportToUserForFailure"
Complete == "AJS_Complete"
Failed == "AJS_Failed"
ToReport == {ToReportTransfer, ToReportFailure}
Statuses == ToReport \cup {ToTransfer, Complete, Failed}

\* JobQueueType, standing for the queue of that type a job is put on.
Queues == {"JobsToTransferForUser", "JobsToReportToUser", "FailedJobs"}
NoOwner == "no owner"
ASSUME NamesAssumption == Processes \cap (Queues \cup {NoOwner}) = {}
ReportTypes == {"CompletionReport", "FailureReport", "NoReportRequired"}

VARIABLES
    present,        \* the request object exists
    status, owner,  \* of each job
    totalRetries, retriesWithinMount, lastMount, reportRetries,
    reportDecided,  \* a copy has failed for good, and reports it
    failed,         \* isfailed: kept for the operator, cannot be cancelled
    at,             \* where each process stands with the job it has popped
    job,            \* that job
    reportType,     \* the report type decided when it was popped
    queue,          \* the queue it goes to next
    ended,          \* processes that have stopped
    onTape,         \* copies recorded in the catalogue
    successes, failures,   \* reports the disk system received (history)
    reportErrors, moveErrors

request == <<present, status, owner, totalRetries, retriesWithinMount, lastMount,
             reportRetries, reportDecided, failed>>
processes == <<at, job, reportType, queue, ended>>
reports == <<successes, failures>>
faults == <<reportErrors, moveErrors>>
vars == <<request, processes, onTape, reports, faults>>

\* The request as queueArchive leaves it: every job on its transfer queue.
Init ==
    /\ present = TRUE
    /\ status = [c \in Copies |-> ToTransfer]
    /\ owner = [c \in Copies |-> "JobsToTransferForUser"]
    /\ totalRetries = [c \in Copies |-> 0]
    /\ retriesWithinMount = [c \in Copies |-> 0]
    /\ lastMount = [c \in Copies |-> None]
    /\ reportRetries = [c \in Copies |-> 0]
    /\ reportDecided = FALSE /\ failed = FALSE
    /\ at = [p \in Processes |-> "idle"]
    /\ job = [p \in Processes |-> 1]
    /\ reportType = [p \in Processes |-> "NoReportRequired"]
    /\ queue = [p \in Processes |-> "JobsToTransferForUser"]
    /\ ended = {} /\ onTape = {}
    /\ successes = 0 /\ failures = 0 /\ reportErrors = 0 /\ moveErrors = 0

Move(p, stage) == at' = [at EXCEPT ![p] = stage]
SetStatus(c, s) == status' = [status EXCEPT ![c] = s]

-----------------------------------------------------------------------------
(***************************************************************************)
(* Popping a batch: the owner is switched to the agent of the process, and *)
(* the report type follows from the status found at that moment.           *)
(***************************************************************************)
ReportTypeOf(s) ==
    CASE s = ToReportTransfer -> "CompletionReport"
      [] s = ToReportFailure -> "FailureReport"
      [] OTHER -> "NoReportRequired"

Pop(p, c, q, stage) ==
    /\ p \notin ended /\ at[p] = "idle"
    /\ present /\ owner[c] = q
    /\ owner' = [owner EXCEPT ![c] = p]
    /\ job' = [job EXCEPT ![p] = c]
    /\ reportType' = [reportType EXCEPT ![p] = ReportTypeOf(status[c])]
    /\ Move(p, stage)
    /\ UNCHANGED <<present, status, totalRetries, retriesWithinMount, lastMount,
                   reportRetries, reportDecided, failed, queue, ended, onTape, reports,
                   faults>>

\* OStoreDB::ArchiveMount::getNextJobBatch
PopForTransfer(m) == Pop(m, PoolOf[m], "JobsToTransferForUser", "transferring")
\* OStoreDB::getNextArchiveJobsToReportBatch
PopForReport(r, c) == Pop(r, c, "JobsToReportToUser", "reporting")

-----------------------------------------------------------------------------
(***************************************************************************)
(* ArchiveJob::failTransfer with ArchiveRequest::addTransferFailure and    *)
(* determineNextStep: the new status is committed first, the job is queued *)
(* afterwards.  It is called when reading from disk or writing to tape     *)
(* failed, and when the catalogue could not be updated.                    *)
(***************************************************************************)
\* Faulty: the failure reaching the limit is still given a retry.
ExhaustedTooLate(c) == totalRetries[c] + 1 > MaxTotalRetries

Exhausted(c) == totalRetries[c] + 1 >= MaxTotalRetries

Within(m, c) == IF lastMount[c] = m THEN retriesWithinMount[c] + 1 ELSE 1

AddTransferFailure(m, c) ==
    /\ totalRetries' = [totalRetries EXCEPT ![c] = @ + 1]
    /\ retriesWithinMount' = [retriesWithinMount EXCEPT ![c] = Within(m, c)]
    /\ lastMount' = [lastMount EXCEPT ![c] = m]

\* Retries are left.  At the limit within the mount, the job stays with the
\* session, to be garbage collected after it.
Retry(m, c) ==
    /\ SetStatus(c, ToTransfer)
    /\ queue' = [queue EXCEPT ![m] = "JobsToTransferForUser"]
    /\ Move(m, IF Within(m, c) >= MaxRetriesWithinMount THEN "idle" ELSE "enqueue")
    /\ UNCHANGED <<reportDecided, failed>>

\* No retries are left: the first copy to fail for good is reported, others
\* are only kept.
DetermineNextStep(m, c) ==
    /\ SetStatus(c, IF reportDecided THEN Failed ELSE ToReportFailure)
    /\ queue' = [queue EXCEPT ![m] = IF reportDecided THEN "FailedJobs"
                                                     ELSE "JobsToReportToUser"]
    /\ reportDecided' = TRUE
    /\ failed' = (failed \/ reportDecided)
    /\ Move(m, "enqueue")

FailTransfer(m) ==
    /\ m \in Mounts \ ended /\ at[m] = "transferring" /\ present
    /\ AddTransferFailure(m, job[m])
    /\ IF Exhausted(job[m]) THEN DetermineNextStep(m, job[m]) ELSE Retry(m, job[m])
    /\ UNCHANGED <<present, owner, reportRetries, job, reportType, ended, onTape, reports,
                   faults>>

\* ArchiveMount::reportJobsBatchTransferred first updates the catalogue...
UpdateCatalogue(m) ==
    /\ m \in Mounts \ ended /\ at[m] = "transferring"
    /\ onTape' = onTape \cup {job[m]}
    /\ Move(m, "written")
    /\ UNCHANGED <<request, job, reportType, queue, ended, reports, faults>>

\* Faulty: the job itself is counted among the other ones.
OtherJobsToTransferOrThis(c) == \E d \in Copies : status[d] = ToTransfer

\* Faulty: the other copies are not looked at.
NoOtherJobsToTransfer(c) == FALSE

OtherJobsToTransfer(c) == \E d \in Copies \ {c} : status[d] = ToTransfer

\* ...then the request, by ArchiveRequest::asyncUpdateTransferSuccessful.  The
\* callback tests reportdecided in the payload of the ArchiveRequest it was
\* called on, which is never fetched, and not in the one it has just read: the
\* test is always false.
MarkTransferred(c) ==
    IF OtherJobsToTransfer(c)
    THEN /\ SetStatus(c, Complete)
         /\ owner' = [owner EXCEPT ![c] = NoOwner]
    ELSE /\ SetStatus(c, ToReportTransfer)
         /\ UNCHANGED owner

\* Faulty: the request is updated before the catalogue.
SucceedBeforeCatalogue(m) ==
    /\ m \in Mounts \ ended /\ at[m] = "transferring" /\ present
    /\ MarkTransferred(job[m])
    /\ Move(m, IF OtherJobsToTransfer(job[m]) THEN "idle" ELSE "enqueue")
    /\ queue' = [queue EXCEPT ![m] = "JobsToReportToUser"]
    /\ UNCHANGED <<present, totalRetries, retriesWithinMount, lastMount, reportRetries,
                   reportDecided, failed, job, reportType, ended, onTape, reports, faults>>

SucceedTransfer(m) ==
    /\ m \in Mounts \ ended /\ at[m] = "written" /\ present
    /\ MarkTransferred(job[m])
    /\ Move(m, IF OtherJobsToTransfer(job[m]) THEN "idle" ELSE "enqueue")
    /\ queue' = [queue EXCEPT ![m] = "JobsToReportToUser"]
    /\ UNCHANGED <<present, totalRetries, retriesWithinMount, lastMount, reportRetries,
                   reportDecided, failed, job, reportType, ended, onTape, reports, faults>>

\* An update of the batch throws (FailedReportMoveToQueue).  This job's own
\* update may have been the one that did not go through, or it may have been
\* written without having been waited for.
LoseUpdate(m) ==
    /\ m \in Mounts \ ended /\ at[m] = "written" /\ present
    /\ moveErrors < MaxMoveErrors
    /\ moveErrors' = moveErrors + 1
    /\ MarkTransferred(job[m]) \/ UNCHANGED <<status, owner>>
    /\ Move(m, "notMoved")
    /\ UNCHANGED <<present, totalRetries, retriesWithinMount, lastMount, reportRetries,
                   reportDecided, failed, job, reportType, queue, ended, onTape, reports,
                   reportErrors>>

\* ContainerAlgorithms::referenceAndSwitchOwnership: nothing happens to a job
\* that has another owner.
Enqueue(p) ==
    LET c == job[p] IN
    /\ p \notin ended /\ at[p] = "enqueue" /\ present
    /\ owner' = IF owner[c] = p THEN [owner EXCEPT ![c] = queue[p]] ELSE owner
    /\ Move(p, "idle")
    /\ UNCHANGED <<present, status, totalRetries, retriesWithinMount, lastMount,
                   reportRetries, reportDecided, failed, job, reportType, queue, ended,
                   onTape, reports, faults>>

-----------------------------------------------------------------------------
(***************************************************************************)
(* Reporting: Scheduler::reportArchiveJobsBatch, OStoreDB's                *)
(* setArchiveJobBatchReported and ArchiveJob::failReport.                  *)
(***************************************************************************)
\* The disk system hears of the file.
Deliver(r) ==
    /\ successes' = successes + (IF reportType[r] = "CompletionReport" THEN 1 ELSE 0)
    /\ failures' = failures + (IF reportType[r] = "FailureReport" THEN 1 ELSE 0)

\* Faulty: a report that has been sent stays among the pending ones.
SendReportAgain(r) ==
    /\ r \in Reporters \ ended /\ at[r] = "reporting"
    /\ reportType[r] # "NoReportRequired"
    /\ Deliver(r)
    /\ Move(r, "reported") \/ Move(r, "reporting")
    /\ UNCHANGED <<request, job, reportType, queue, ended, onTape, faults>>

SendReport(r) ==
    /\ r \in Reporters \ ended /\ at[r] = "reporting"
    /\ reportType[r] # "NoReportRequired"
    /\ Deliver(r)
    /\ Move(r, "reported")
    /\ UNCHANGED <<request, job, reportType, queue, ended, onTape, faults>>

\* The first job of the request: addReportFailure returns in the first round
\* of its loop over the jobs, whatever the copy number, and so counts a failed
\* report only when it is one of the first job.
FirstJob == 1

\* Faulty: the limit is compared with the number of failures before this one.
ReportsExhaustedTooLate(c) == reportRetries[FirstJob] >= MaxReportRetries

ReportsExhausted(c) ==
    reportRetries[FirstJob] + (IF c = FirstJob THEN 1 ELSE 0) >= MaxReportRetries

\* ArchiveRequest::addReportFailure and the commit in ArchiveJob::failReport.
CommitReportFailure(p) ==
    LET c == job[p]
        giveUp == ReportsExhausted(c) \/ reportType[p] = "NoReportRequired"
    IN
    /\ present
    /\ reportRetries' = [reportRetries EXCEPT ![c] = IF c = FirstJob THEN @ + 1 ELSE @]
    /\ SetStatus(c, IF ReportsExhausted(c) THEN Failed ELSE status[FirstJob])
    /\ queue' = [queue EXCEPT ![p] = IF giveUp THEN "FailedJobs" ELSE "JobsToReportToUser"]
    /\ failed' = (failed \/ giveUp)
    /\ Move(p, "enqueue")
    /\ UNCHANGED <<present, owner, totalRetries, retriesWithinMount, lastMount,
                   reportDecided, job, reportType, ended, onTape>>

\* The report could not be sent, or its answer did not come back in spite of
\* it having been received.
FailReport(r) ==
    /\ r \in Reporters \ ended /\ at[r] = "reporting"
    /\ reportType[r] # "NoReportRequired"
    /\ reportErrors < MaxReportErrors
    /\ reportErrors' = reportErrors + 1
    /\ Deliver(r) \/ UNCHANGED reports
    /\ CommitReportFailure(r)
    /\ UNCHANGED moveErrors

\* exceptionThrowingReportURL throws: there is nothing to report.
RefuseReport(r) ==
    /\ r \in Reporters \ ended /\ at[r] = "reporting"
    /\ reportType[r] = "NoReportRequired"
    /\ CommitReportFailure(r)
    /\ UNCHANGED <<reports, faults>>

\* MigrationReportPacker, on FailedReportMoveToQueue.
FailMove(m) ==
    /\ m \in Mounts \ ended /\ at[m] = "notMoved"
    /\ CommitReportFailure(m)
    /\ UNCHANGED <<reports, faults>>

\* Faulty: the owner is changed, the status is not.
RecordOwnerOnly(r) ==
    LET c == job[r] IN
    /\ r \in Reporters \ ended /\ at[r] = "reported" /\ present
    /\ Move(r, "idle")
    /\ present' = (reportType[r] # "CompletionReport")
    /\ owner' = IF reportType[r] = "FailureReport" THEN [owner EXCEPT ![c] = "FailedJobs"]
                                                   ELSE owner
    /\ UNCHANGED <<status, totalRetries, retriesWithinMount, lastMount, reportRetries,
                   reportDecided, failed, job, reportType, queue, ended, onTape, reports,
                   faults>>

\* A reported success ends the request.  A reported failure goes to the failed
\* queue, owner and status being changed in the same update.
RecordReported(r) ==
    LET c == job[r] IN
    /\ r \in Reporters \ ended /\ at[r] = "reported" /\ present
    /\ Move(r, "idle")
    /\ \/ /\ reportType[r] = "CompletionReport"
          /\ present' = FALSE
          /\ UNCHANGED <<status, owner>>
       \/ /\ reportType[r] = "FailureReport" /\ owner[c] = r
          /\ SetStatus(c, Failed)
          /\ owner' = [owner EXCEPT ![c] = "FailedJobs"]
          /\ UNCHANGED present
    /\ UNCHANGED <<totalRetries, retriesWithinMount, lastMount, reportRetries,
                   reportDecided, failed, job, reportType, queue, ended, onTape, reports,
                   faults>>

\* NoSuchObject, wherever the request is accessed: the job is dropped.
JobGone(p) ==
    /\ p \notin ended /\ at[p] # "idle" /\ ~present
    /\ Move(p, "idle")
    /\ UNCHANGED <<request, job, reportType, queue, ended, onTape, reports, faults>>

-----------------------------------------------------------------------------
(***************************************************************************)
(* Users, operators, and processes that stop.                              *)
(***************************************************************************)
\* OStoreDB::cancelArchive skips failed requests.
CancelArchive ==
    /\ present /\ ~failed
    /\ present' = FALSE
    /\ UNCHANGED <<status, owner, totalRetries, retriesWithinMount, lastMount,
                   reportRetries, reportDecided, failed, processes, onTape, reports, faults>>

\* OStoreDB::deleteFailed: every owner must be a failed queue, and there must
\* be one.
DeleteFailed ==
    /\ present
    /\ \A c \in Copies : owner[c] \in {NoOwner, "FailedJobs"}
    /\ \E c \in Copies : owner[c] # NoOwner
    /\ present' = FALSE
    /\ UNCHANGED <<status, owner, totalRetries, retriesWithinMount, lastMount,
                   reportRetries, reportDecided, failed, processes, onTape, reports, faults>>

\* The process ends or dies; what it had popped stays in its agent's name.
Stop(p) ==
    /\ p \notin ended /\ Cardinality(ended) < MaxStops
    /\ ended' = ended \cup {p}
    /\ Move(p, "idle")
    /\ UNCHANGED <<request, job, reportType, queue, onTape, reports, faults>>

\* ArchiveRequest::getQueueType; a complete job is not queueable.
GetQueueType(s) ==
    CASE s = ToTransfer -> "JobsToTransferForUser"
      [] s \in ToReport -> "JobsToReportToUser"
      [] s = Failed -> "FailedJobs"

\* Faulty: only jobs to transfer are requeued.
GarbageCollectTransfers(c) ==
    /\ present /\ owner[c] \in ended
    /\ status[c] = ToTransfer
    /\ owner' = [owner EXCEPT ![c] = GetQueueType(status[c])]
    /\ UNCHANGED <<present, status, totalRetries, retriesWithinMount, lastMount,
                   reportRetries, reportDecided, failed, processes, onTape, reports, faults>>

GarbageCollect(c) ==
    /\ present /\ owner[c] \in ended
    /\ status[c] # Complete
    /\ owner' = [owner EXCEPT ![c] = GetQueueType(status[c])]
    /\ UNCHANGED <<present, status, totalRetries, retriesWithinMount, lastMount,
                   reportRetries, reportDecided, failed, processes, onTape, reports, faults>>

MountStep(m) ==
    \/ PopForTransfer(m) \/ FailTransfer(m) \/ UpdateCatalogue(m) \/ SucceedTransfer(m)
    \/ LoseUpdate(m) \/ FailMove(m)

ReporterStep(r) ==
    \/ \E c \in Copies : PopForReport(r, c)
    \/ SendReport(r) \/ FailReport(r) \/ RefuseReport(r) \/ RecordReported(r)

Next ==
    \/ \E m \in Mounts : MountStep(m)
    \/ \E r \in Reporters : ReporterStep(r)
    \/ \E p \in Processes : Enqueue(p) \/ JobGone(p) \/ Stop(p)
    \/ \E c \in Copies : GarbageCollect(c)
    \/ CancelArchive \/ DeleteFailed

Spec == Init /\ [][Next]_vars

\* Sessions and reporters that have not stopped go on working, queues are
\* served, and dead agents are collected: the loops of the tape daemon and of
\* the maintenance process.
Fairness ==
    /\ \A m \in Mounts : WF_vars(MountStep(m))
    /\ \A r \in Reporters : WF_vars(ReporterStep(r))
    /\ \A p \in Processes : WF_vars(Enqueue(p)) /\ WF_vars(JobGone(p))
    /\ \A c \in Copies : WF_vars(GarbageCollect(c))

FairSpec == Spec /\ Fairness

-----------------------------------------------------------------------------
(***************************************************************************)
(* Properties.                                                             *)
(***************************************************************************)
Stages == {"idle", "transferring", "written", "notMoved", "enqueue", "reporting", "reported"}

\* Every variable keeps its type, and no copy is tried more often than
\* maxtotalretries allows (addTransferFailure, asyncUpdateJobOwner).
TypeOK ==
    /\ present \in BOOLEAN /\ reportDecided \in BOOLEAN /\ failed \in BOOLEAN
    /\ status \in [Copies -> Statuses]
    /\ owner \in [Copies -> Queues \cup Processes \cup {NoOwner}]
    /\ totalRetries \in [Copies -> 0..MaxTotalRetries]
    /\ retriesWithinMount \in [Copies -> 0..MaxTotalRetries]
    /\ lastMount \in [Copies -> Mounts \cup {None}]
    /\ reportRetries \in [Copies -> Nat]
    /\ at \in [Processes -> Stages]
    /\ job \in [Processes -> Copies]
    /\ reportType \in [Processes -> ReportTypes]
    /\ queue \in [Processes -> Queues]
    /\ ended \subseteq Processes /\ onTape \subseteq Copies
    /\ successes \in Nat /\ failures \in Nat
    /\ reportErrors \in 0..MaxReportErrors /\ moveErrors \in 0..MaxMoveErrors

\* A job on a queue has a status that leads to that kind of queue: what
\* failTransfer, setJobBatchTransferred, setArchiveJobBatchReported, failReport
\* and the garbage collector together keep true, and what the reporter relies on.
StatusMatchesQueue ==
    present => \A c \in Copies :
        /\ owner[c] = "JobsToTransferForUser" => status[c] = ToTransfer
        /\ owner[c] = "JobsToReportToUser" => status[c] \in ToReport
        /\ owner[c] = "FailedJobs" => status[c] = Failed

(***************************************************************************)
(* addReportFailure gives a copy the status of the first one, so that with *)
(* several copies a report or a move that fails undoes what the statuses   *)
(* say.  Until then they can be trusted.                                   *)
(***************************************************************************)
Undisturbed == reportErrors + moveErrors = 0

\* As long as no report or move has failed, the statuses and queues agree.
StatusMatchesQueueUndisturbed == Undisturbed => StatusMatchesQueue

\* A copy counted as transferred is in the catalogue: the request never gets
\* ahead of it (reportJobsBatchTransferred, asyncUpdateTransferSuccessful).
TransferredIsOnTape ==
    Undisturbed => \A c \in Copies : status[c] \in {Complete, ToReportTransfer} => c \in onTape

\* Copies do not all wait for a sibling to report: as long as the request is
\* there, one of them is still to be transferred, reported or failed
\* (asyncUpdateTransferSuccessful run by two sessions in any order).
SomeoneWillReport == Undisturbed /\ present => \E c \in Copies : status[c] # Complete

\* The disk system is told that the file is safe - and may drop its own copy -
\* only when every copy is in the catalogue or has used up its retries; in
\* particular setArchiveJobBatchReported deletes no request with a copy pending.
SuccessCoversEveryCopy ==
    successes > 0 => \A c \in Copies : c \in onTape \/ totalRetries[c] >= MaxTotalRetries

\* A report is repeated only because a reporter stopped between sending and
\* recording it, or because the report itself was seen to fail
\* (reportArchiveJobsBatch, setArchiveJobBatchReported, garbage collection).
RepeatsAreExplained ==
    successes + failures <= 1 + Cardinality(ended \cap Reporters) + reportErrors

\* A report is given up after maxreportretries failures (addReportFailure).
ReportRetriesAreBounded == \A c \in Copies : reportRetries[c] <= MaxReportRetries

\* The disk system gets one verdict: "We only do one report per request"
\* (asyncUpdateTransferSuccessful).
OneVerdict == successes = 0 \/ failures = 0

\* Whatever fails and whoever stops, the user finally gets an answer, or the
\* request is cancelled, or it ends on a failed queue for the operator; with several
\* copies, unless a failed report or move has left them waiting for each other.
FinallyAnswered ==
    <>(\/ successes + failures > 0 \/ ~present
       \/ \E c \in Copies : owner[c] = "FailedJobs"
       \/ NbCopies > 1 /\ ~Undisturbed)
=============================================================================
