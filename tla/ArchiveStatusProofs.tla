------------------------ MODULE ArchiveStatusProofs ------------------------
(***************************************************************************)
(* What the statuses, the queues, the catalogue and the retry counters of  *)
(* a request say of each other (Reliable), and, for a request with one     *)
(* copy, what its reports and their repetitions add up to (OneCopy).       *)
(***************************************************************************)
EXTENDS ArchiveJobProofs, FiniteSetTheorems

\* The types of the variables that Typing does not speak of.
Tally ==
    /\ present \in BOOLEAN /\ reportDecided \in BOOLEAN /\ failed \in BOOLEAN
    /\ retriesWithinMount \in [Copies -> Nat]
    /\ lastMount \in [Copies -> Mounts \cup {None}]
    /\ reportRetries \in [Copies -> Nat]
    /\ ended \in SUBSET Processes /\ IsFiniteSet(ended)
    /\ onTape \in SUBSET Copies
    /\ failures \in Nat
    /\ reportErrors \in 0..MaxReportErrors /\ moveErrors \in 0..MaxMoveErrors

(***************************************************************************)
(* The statuses, as long as they can be trusted: with one copy always, for *)
(* the status that addReportFailure hands on is then the copy's own; with  *)
(* several until a report or a move fails.                                 *)
(***************************************************************************)
Trusted == NbCopies = 1 \/ Undisturbed

\* What a session knows of its job, what a reporter knows of its own, and what
\* both know of the queue they chose for it.  Nobody else works on that job.
SessionJob(p) ==
    /\ at[p] \in {"transferring", "written", "notMoved"} =>
         p \in Mounts /\ reportType[p] = "NoReportRequired"
    /\ at[p] \in {"transferring", "written"} => status[job[p]] = ToTransfer
    /\ at[p] = "notMoved" => status[job[p]] \in {ToTransfer, ToReportTransfer} /\ ~Undisturbed
ReporterJob(p) ==
    at[p] \in {"reporting", "reported"} =>
        /\ p \in Reporters /\ status[job[p]] \in ToReport
        /\ reportType[p] = ReportTypeOf(status[job[p]])
ChosenQueue(p) ==
    at[p] = "enqueue" =>
        /\ queue[p] = "JobsToTransferForUser" => status[job[p]] = ToTransfer
        /\ queue[p] = "JobsToReportToUser" => status[job[p]] \in ToReport
        /\ queue[p] = "FailedJobs" /\ Undisturbed => status[job[p]] = Failed
InOrder(p) ==
    /\ at[p] # "idle" => p \notin ended /\ owner[job[p]] = p
    /\ SessionJob(p) /\ ReporterJob(p) /\ ChosenQueue(p)

\* The status of a copy fits its queue, its attempts and the catalogue.
Queued(c) ==
    /\ owner[c] = "JobsToTransferForUser" => status[c] = ToTransfer
    /\ owner[c] = "JobsToReportToUser" => status[c] \in ToReport
    /\ owner[c] = "FailedJobs" /\ Undisturbed => status[c] = Failed
AttemptsLeft(c) ==
    /\ totalRetries[c] <= MaxTotalRetries
    /\ status[c] = ToTransfer => totalRetries[c] < MaxTotalRetries
    /\ retriesWithinMount[c] <= totalRetries[c]
Written(c) == Undisturbed /\ status[c] \in {Complete, ToReportTransfer} => c \in onTape
Accurate(c) == Queued(c) /\ AttemptsLeft(c) /\ Written(c)

SomeoneLeft == Undisturbed => \E c \in Copies : status[c] # Complete

Sound ==
    /\ \A p \in Processes : InOrder(p)
    /\ \A c \in Copies : Accurate(c)
    /\ SomeoneLeft

-----------------------------------------------------------------------------
LEMMA InitTally == Init => Tally
<1> SUFFICES ASSUME Init PROVE Tally
  OBVIOUS
<1>1. ended \in SUBSET Processes /\ IsFiniteSet(ended) /\ onTape \in SUBSET Copies
  BY FS_EmptySet DEF Init
<1>2. reportErrors \in 0..MaxReportErrors /\ moveErrors \in 0..MaxMoveErrors
  BY FaultsAssumption DEF Init
<1>3. failures \in Nat /\ present \in BOOLEAN /\ reportDecided \in BOOLEAN /\ failed \in BOOLEAN
  BY DEF Init
<1>4. /\ retriesWithinMount \in [Copies -> Nat] /\ reportRetries \in [Copies -> Nat]
      /\ lastMount \in [Copies -> Mounts \cup {None}]
  BY DEF Init
<1> QED
  BY <1>1, <1>2, <1>3, <1>4 DEF Tally

LEMMA CommitTally ==
    ASSUME Settled, Tally, NEW p \in Processes, CommitReportFailure(p),
           failures' \in Nat, reportErrors' \in 0..MaxReportErrors, moveErrors' \in 0..MaxMoveErrors
    PROVE  Tally'
<1>1. failed' \in BOOLEAN
  BY DEF CommitReportFailure, Tally
<1>2. job[p] \in Copies
  BY DEF Settled, Typing
<1>3. reportRetries' \in [Copies -> Nat]
  BY <1>2 DEF CommitReportFailure, Tally
<1>4. UNCHANGED <<present, retriesWithinMount, lastMount, reportDecided, ended, onTape>>
  BY DEF CommitReportFailure
<1> QED
  BY <1>1, <1>3, <1>4 DEF Tally

LEMMA DeliverTally ==
    ASSUME Tally, NEW r, Deliver(r) \/ UNCHANGED reports
    PROVE  failures' \in Nat
<1> QED
  BY DEF Tally, Deliver, reports

LEMMA FailTransferTally ==
    ASSUME Settled, Tally, NEW m \in Mounts, FailTransfer(m)
    PROVE  Tally'
<1>1. job[m] \in Copies
  BY DEF Settled, Typing, Processes
<1>2. /\ retriesWithinMount' = [retriesWithinMount EXCEPT ![job[m]] = Within(m, job[m])]
      /\ lastMount' = [lastMount EXCEPT ![job[m]] = m]
      /\ UNCHANGED <<present, reportRetries, ended, onTape, failures, reportErrors, moveErrors>>
  BY DEF FailTransfer, AddTransferFailure, reports, faults
<1>3. Within(m, job[m]) \in Nat
  BY <1>1 DEF Within, Tally
<1>4. retriesWithinMount' \in [Copies -> Nat] /\ lastMount' \in [Copies -> Mounts \cup {None}]
  BY <1>1, <1>2, <1>3 DEF Tally
<1>5. reportDecided' \in BOOLEAN /\ failed' \in BOOLEAN
  <2>1. CASE Exhausted(job[m])
    BY <2>1 DEF FailTransfer, DetermineNextStep, Tally
  <2>2. CASE ~Exhausted(job[m])
    BY <2>2 DEF FailTransfer, Retry, Tally
  <2> QED
    BY <2>1, <2>2
<1> QED
  BY <1>2, <1>4, <1>5 DEF Tally

LEMMA NextTally ==
    ASSUME Settled, Tally, [Next]_vars
    PROVE  Tally'
<1> USE DEF reports, faults, request, processes
<1>1. CASE \E m \in Mounts : MountStep(m)
  <2>1. PICK m \in Mounts : MountStep(m)
    BY <1>1
  <2>2. CASE PopForTransfer(m)
    BY <2>2 DEF PopForTransfer, Pop, Tally
  <2>3. CASE FailTransfer(m)
    BY <2>3, FailTransferTally
  <2>4. CASE UpdateCatalogue(m)
    BY <2>4 DEF UpdateCatalogue, Tally, Settled, Typing, Processes
  <2>5. CASE SucceedTransfer(m)
    BY <2>5 DEF SucceedTransfer, Tally
  <2>6. CASE LoseUpdate(m)
    BY <2>6, FaultsAssumption DEF LoseUpdate, Tally
  <2>7. CASE FailMove(m)
    <3>1. UNCHANGED <<failures, reportErrors, moveErrors>> /\ CommitReportFailure(m)
      BY <2>7 DEF FailMove
    <3> QED
      BY <3>1, CommitTally DEF Tally, Processes
  <2> QED
    BY <2>1, <2>2, <2>3, <2>4, <2>5, <2>6, <2>7 DEF MountStep
<1>2. CASE \E r \in Reporters : ReporterStep(r)
  <2>1. PICK r \in Reporters : ReporterStep(r)
    BY <1>2
  <2>2. CASE \E c \in Copies : PopForReport(r, c)
    BY <2>2 DEF PopForReport, Pop, Tally
  <2>3. CASE SendReport(r)
    <3>1. failures' \in Nat
      BY <2>3, DeliverTally DEF SendReport
    <3> QED
      BY <2>3, <3>1 DEF SendReport, Tally
  <2>4. CASE FailReport(r)
    <3>1. failures' \in Nat
      BY <2>4, DeliverTally DEF FailReport
    <3>2. CommitReportFailure(r) /\ reportErrors' \in 0..MaxReportErrors /\ moveErrors' \in 0..MaxMoveErrors
      BY <2>4, FaultsAssumption DEF FailReport, Tally
    <3> QED
      BY <3>1, <3>2, CommitTally DEF Processes
  <2>5. CASE RefuseReport(r)
    <3>1. UNCHANGED <<failures, reportErrors, moveErrors>> /\ CommitReportFailure(r)
      BY <2>5 DEF RefuseReport
    <3> QED
      BY <3>1, CommitTally DEF Tally, Processes
  <2>6. CASE RecordReported(r)
    BY <2>6 DEF RecordReported, Tally
  <2> QED
    BY <2>1, <2>2, <2>3, <2>4, <2>5, <2>6 DEF ReporterStep
<1>3. CASE \E p \in Processes : Enqueue(p) \/ JobGone(p)
  BY <1>3 DEF Enqueue, JobGone, Tally
<1>4. CASE \E p \in Processes : Stop(p)
  <2>1. PICK p \in Processes : Stop(p)
    BY <1>4
  <2>2. IsFiniteSet(ended')
    BY <2>1, FS_AddElement DEF Stop, Tally
  <2> QED
    BY <2>1, <2>2 DEF Stop, Tally
<1>5. CASE \E c \in Copies : GarbageCollect(c)
  BY <1>5 DEF GarbageCollect, Tally
<1>6. CASE CancelArchive \/ DeleteFailed \/ UNCHANGED vars
  BY <1>6 DEF CancelArchive, DeleteFailed, vars, Tally
<1> QED
  BY <1>1, <1>2, <1>3, <1>4, <1>5, <1>6 DEF Next

-----------------------------------------------------------------------------
(***************************************************************************)
(* A step of one process on one copy.  The others are not concerned: the   *)
(* copy is the process's own, or on a queue, or left by a process that has *)
(* stopped.                                                                *)
(***************************************************************************)
LEMMA StepSound ==
    ASSUME Typing, Typing', Sound, Undisturbed' => Undisturbed,
           NEW p \in Processes, NEW c \in Copies,
           (owner[c] = p \/ owner[c] \in Queues \/ owner[c] \in ended) \/ UNCHANGED <<status, owner>>,
           \A q \in Processes \ {p} :
              /\ at'[q] = at[q] /\ job'[q] = job[q] /\ reportType'[q] = reportType[q]
              /\ queue'[q] = queue[q] /\ (q \in ended' <=> q \in ended),
           \A d \in Copies \ {c} :
              /\ status'[d] = status[d] /\ owner'[d] = owner[d]
              /\ totalRetries'[d] = totalRetries[d] /\ retriesWithinMount'[d] = retriesWithinMount[d],
           onTape \subseteq onTape',
           InOrder(p)', Accurate(c)', SomeoneLeft'
    PROVE  Sound'
<1>1. ASSUME NEW q \in Processes, q # p PROVE InOrder(q)'
  <2>1. InOrder(q)
    BY DEF Sound
  <2>2. CASE at[q] = "idle"
    BY <1>1, <2>2 DEF InOrder, SessionJob, ReporterJob, ChosenQueue
  <2>3. CASE at[q] # "idle"
    <3>1. owner[job[q]] = q /\ q \notin ended /\ job[q] \in Copies
      BY <2>1, <2>3 DEF InOrder, Typing
    <3>2. q \notin Queues
      BY NamesAssumption
    <3>3. status'[job[q]] = status[job[q]] /\ owner'[job[q]] = owner[job[q]]
      BY <1>1, <3>1, <3>2
    <3>4. /\ at'[q] = at[q] /\ job'[q] = job[q] /\ reportType'[q] = reportType[q]
          /\ queue'[q] = queue[q] /\ (q \in ended' <=> q \in ended)
      BY <1>1
    <3>5. SessionJob(q)'
      BY <2>1, <3>3, <3>4 DEF InOrder, SessionJob
    <3>6. ReporterJob(q)'
      BY <2>1, <3>3, <3>4 DEF InOrder, ReporterJob, ReportTypeOf
    <3>7. ChosenQueue(q)'
      BY <2>1, <3>3, <3>4 DEF InOrder, ChosenQueue
    <3> QED
      BY <2>1, <3>1, <3>3, <3>4, <3>5, <3>6, <3>7 DEF InOrder
  <2> QED
    BY <2>2, <2>3
<1>2. ASSUME NEW d \in Copies, d # c PROVE Accurate(d)'
  <2>1. Accurate(d)
    BY DEF Sound
  <2>2. /\ status'[d] = status[d] /\ owner'[d] = owner[d]
        /\ totalRetries'[d] = totalRetries[d] /\ retriesWithinMount'[d] = retriesWithinMount[d]
    BY <1>2
  <2> QED
    BY <2>1, <2>2 DEF Accurate, Queued, AttemptsLeft, Written
<1> QED
  BY <1>1, <1>2 DEF Sound

\* A copy that is not Complete, or has a sibling to transfer, is still there to
\* report.
LEMMA SomeoneStays ==
    ASSUME Typing, Sound, Undisturbed' => Undisturbed, NEW c \in Copies,
           \A d \in Copies \ {c} : status'[d] = status[d],
           status'[c] # Complete \/ status'[c] = status[c] \/ OtherJobsToTransfer(c)
    PROVE  SomeoneLeft'
<1> SUFFICES ASSUME Undisturbed PROVE \E d \in Copies : status'[d] # Complete
  BY DEF SomeoneLeft
<1>1. PICK d \in Copies : status[d] # Complete
  BY DEF Sound, SomeoneLeft
<1>2. ToTransfer # Complete
  BY DEF ToTransfer, Complete
<1> QED
  BY <1>1, <1>2 DEF OtherJobsToTransfer

LEMMA PopSound ==
    ASSUME Settled, Tally, Typing', Sound, NEW p \in Processes, NEW c \in Copies, NEW q, NEW stage,
           \/ stage = "transferring" /\ q = "JobsToTransferForUser" /\ p \in Mounts
           \/ stage = "reporting" /\ q = "JobsToReportToUser" /\ p \in Reporters,
           Pop(p, c, q, stage)
    PROVE  Sound'
<1>1. /\ p \notin ended /\ owner[c] = q
      /\ owner' = [owner EXCEPT ![c] = p] /\ job' = [job EXCEPT ![p] = c]
      /\ reportType' = [reportType EXCEPT ![p] = ReportTypeOf(status[c])]
      /\ at' = [at EXCEPT ![p] = stage]
      /\ UNCHANGED <<status, totalRetries, retriesWithinMount, queue, ended, onTape, reportErrors, moveErrors>>
  BY DEF Pop, Move, faults
<1>2. Undisturbed' <=> Undisturbed
  BY <1>1 DEF Undisturbed
<1>3. /\ owner'[c] = p /\ job'[p] = c /\ reportType'[p] = ReportTypeOf(status[c]) /\ at'[p] = stage
      /\ \A u \in Processes \ {p} : at'[u] = at[u] /\ job'[u] = job[u] /\ reportType'[u] = reportType[u]
      /\ \A d \in Copies \ {c} : owner'[d] = owner[d]
  BY <1>1 DEF Settled, Typing
<1>4. Accurate(c)
  BY DEF Sound
<1>5. /\ stage = "transferring" => status[c] = ToTransfer
      /\ stage = "reporting" => status[c] \in ToReport
  BY <1>1, <1>4 DEF Accurate, Queued
<1>6. status[c] = ToTransfer => ReportTypeOf(status[c]) = "NoReportRequired"
  BY DEF ReportTypeOf, ToTransfer, ToReportTransfer, ToReportFailure
<1>7. InOrder(p)'
  <2>1. SessionJob(p)'
    BY <1>1, <1>3, <1>5, <1>6 DEF SessionJob
  <2>2. ReporterJob(p)'
    BY <1>1, <1>3, <1>5 DEF ReporterJob, ReportTypeOf
  <2>3. ChosenQueue(p)'
    BY <1>3 DEF ChosenQueue
  <2> QED
    BY <1>1, <1>3, <2>1, <2>2, <2>3 DEF InOrder
<1>8. Accurate(c)'
  <2>1. p \notin Queues
    BY NamesAssumption
  <2>2. Queued(c)'
    BY <1>3, <2>1 DEF Queued, Queues
  <2> QED
    BY <1>1, <1>2, <1>4, <2>2 DEF Accurate, AttemptsLeft, Written
<1>9. SomeoneLeft'
  BY <1>1, <1>2, SomeoneStays DEF Settled
<1>10. owner[c] \in Queues
  BY <1>1 DEF Queues
<1> QED
  BY <1>1, <1>2, <1>3, <1>7, <1>8, <1>9, <1>10, StepSound DEF Settled

\* A failed attempt is counted, and the copy is to be transferred again only
\* when one is left.
LEMMA FailTransferSound ==
    ASSUME Settled, Tally, Typing', Sound, NEW m \in Mounts, FailTransfer(m)
    PROVE  Sound'
<1>1. PICK c \in Copies : c = job[m]
  BY DEF Settled, Typing, Processes
<1>2. m \in Processes /\ MaxTotalRetries \in Nat /\ totalRetries[c] \in Nat /\ retriesWithinMount[c] \in Nat
  BY LimitsAssumption DEF Settled, Typing, Tally, Processes
<1>3. /\ at[m] = "transferring"
      /\ totalRetries' = [totalRetries EXCEPT ![c] = @ + 1]
      /\ retriesWithinMount' = [retriesWithinMount EXCEPT ![c] = Within(m, c)]
      /\ UNCHANGED <<owner, job, reportType, ended, onTape, reportErrors, moveErrors>>
  BY <1>1 DEF FailTransfer, AddTransferFailure, faults
<1>4. Undisturbed' <=> Undisturbed
  BY <1>3 DEF Undisturbed
<1>5. InOrder(m) /\ Accurate(c)
  BY <1>2 DEF Sound
<1>6. owner[c] = m /\ m \notin ended /\ status[c] = ToTransfer /\ totalRetries[c] < MaxTotalRetries
  BY <1>1, <1>3, <1>5 DEF InOrder, SessionJob, Accurate, AttemptsLeft
<1>7. \E st \in Statuses, stage \in {"idle", "enqueue"}, qu \in Queues :
        /\ status' = [status EXCEPT ![c] = st] /\ at' = [at EXCEPT ![m] = stage]
        /\ queue' = [queue EXCEPT ![m] = qu]
        /\ \/ st = ToTransfer /\ qu = "JobsToTransferForUser" /\ totalRetries[c] + 1 < MaxTotalRetries
           \/ st = Failed /\ qu = "FailedJobs"
           \/ st = ToReportFailure /\ qu = "JobsToReportToUser"
  <2> USE DEF Statuses, ToReport, Queues
  <2>1. CASE Exhausted(c)
    <3>1. DetermineNextStep(m, c)
      BY <1>1, <2>1 DEF FailTransfer
    <3>2. CASE reportDecided
      BY <3>1, <3>2 DEF DetermineNextStep, SetStatus, Move
    <3>3. CASE ~reportDecided
      BY <3>1, <3>3 DEF DetermineNextStep, SetStatus, Move
    <3> QED
      BY <3>2, <3>3
  <2>2. CASE ~Exhausted(c)
    <3>1. Retry(m, c) /\ totalRetries[c] + 1 < MaxTotalRetries
      BY <1>1, <1>2, <2>2 DEF FailTransfer, Exhausted
    <3> QED
      BY <3>1 DEF Retry, SetStatus, Move
  <2> QED
    BY <2>1, <2>2
<1>8. PICK st \in Statuses, stage \in {"idle", "enqueue"}, qu \in Queues :
        /\ status' = [status EXCEPT ![c] = st] /\ at' = [at EXCEPT ![m] = stage]
        /\ queue' = [queue EXCEPT ![m] = qu]
        /\ \/ st = ToTransfer /\ qu = "JobsToTransferForUser" /\ totalRetries[c] + 1 < MaxTotalRetries
           \/ st = Failed /\ qu = "FailedJobs"
           \/ st = ToReportFailure /\ qu = "JobsToReportToUser"
  BY <1>7
<1>9. /\ status'[c] = st /\ at'[m] = stage /\ queue'[m] = qu /\ totalRetries'[c] = totalRetries[c] + 1
      /\ retriesWithinMount'[c] = Within(m, c)
      /\ \A u \in Processes \ {m} : at'[u] = at[u] /\ queue'[u] = queue[u]
      /\ \A d \in Copies \ {c} : /\ status'[d] = status[d] /\ totalRetries'[d] = totalRetries[d]
                                 /\ retriesWithinMount'[d] = retriesWithinMount[d]
  BY <1>2, <1>3, <1>8 DEF Settled, Typing, Tally
<1>10. InOrder(m)'
  <2>1. SessionJob(m)' /\ ReporterJob(m)'
    BY <1>9 DEF SessionJob, ReporterJob
  <2>2. ChosenQueue(m)'
    BY <1>1, <1>3, <1>8, <1>9 DEF ChosenQueue, ToReport
  <2> QED
    BY <1>1, <1>3, <1>6, <2>1, <2>2 DEF InOrder
<1>11. Accurate(c)'
  <2>1. Queued(c)'
    <3>1. m \notin Queues
      BY <1>2, NamesAssumption
    <3> QED
      BY <1>3, <1>6, <3>1 DEF Queued, Queues
  <2>2. Within(m, c) <= totalRetries[c] + 1
    BY <1>2, <1>5 DEF Within, Accurate, AttemptsLeft
  <2>3. AttemptsLeft(c)'
    BY <1>2, <1>6, <1>8, <1>9, <2>2 DEF AttemptsLeft, ToTransfer, Failed, ToReportFailure
  <2>4. Written(c)'
    BY <1>8, <1>9 DEF Written, ToTransfer, Failed, ToReportFailure, ToReportTransfer, Complete
  <2> QED
    BY <2>1, <2>3, <2>4 DEF Accurate
<1>12. SomeoneLeft'
  <2>1. st # Complete
    BY <1>8 DEF ToTransfer, Failed, ToReportFailure, Complete
  <2> QED
    BY <1>4, <1>9, <2>1, SomeoneStays DEF Settled
<1> QED
  BY <1>2, <1>3, <1>4, <1>6, <1>9, <1>10, <1>11, <1>12, StepSound DEF Settled

LEMMA UpdateCatalogueSound ==
    ASSUME Settled, Tally, Typing', Sound, NEW m \in Mounts, UpdateCatalogue(m)
    PROVE  Sound'
<1>1. PICK c \in Copies : c = job[m]
  BY DEF Settled, Typing, Processes
<1>2. /\ m \in Processes /\ at[m] = "transferring" /\ at' = [at EXCEPT ![m] = "written"]
      /\ onTape' = onTape \cup {c}
      /\ UNCHANGED <<status, owner, totalRetries, retriesWithinMount, job, reportType, queue, ended,
                     reportErrors, moveErrors>>
  BY <1>1 DEF UpdateCatalogue, Move, request, faults, Processes
<1>3. Undisturbed' <=> Undisturbed
  BY <1>2 DEF Undisturbed
<1>4. InOrder(m) /\ Accurate(c)
  BY <1>2 DEF Sound
<1>5. at'[m] = "written" /\ \A u \in Processes \ {m} : at'[u] = at[u]
  BY <1>2 DEF Settled, Typing
<1>6. InOrder(m)'
  BY <1>2, <1>4, <1>5 DEF InOrder, SessionJob, ReporterJob, ChosenQueue
<1>7. Accurate(c)'
  BY <1>2, <1>3, <1>4 DEF Accurate, Queued, AttemptsLeft, Written
<1>8. SomeoneLeft'
  BY <1>2, <1>3, SomeoneStays DEF Settled
<1> QED
  BY <1>2, <1>3, <1>5, <1>6, <1>7, <1>8, StepSound DEF Settled

\* The copy transferred last reports for all; the others leave it to a sibling.
LEMMA SucceedTransferSound ==
    ASSUME Settled, Tally, Typing', Sound, NEW m \in Mounts, SucceedTransfer(m)
    PROVE  Sound'
<1>1. PICK c \in Copies : c = job[m]
  BY DEF Settled, Typing, Processes
<1>2. /\ m \in Processes /\ at[m] = "written" /\ MarkTransferred(c)
      /\ at' = [at EXCEPT ![m] = IF OtherJobsToTransfer(c) THEN "idle" ELSE "enqueue"]
      /\ queue' = [queue EXCEPT ![m] = "JobsToReportToUser"]
      /\ UNCHANGED <<totalRetries, retriesWithinMount, job, reportType, ended, onTape,
                     reportErrors, moveErrors>>
  BY <1>1 DEF SucceedTransfer, Move, faults, Processes
<1>3. Undisturbed' <=> Undisturbed
  BY <1>2 DEF Undisturbed
<1>4. InOrder(m) /\ Accurate(c) /\ c \in onTape
  BY <1>1, <1>2 DEF Sound, Settled, WrittenOnTape
<1>5. owner[c] = m /\ m \notin ended
  BY <1>1, <1>2, <1>4 DEF InOrder
<1>6. /\ queue'[m] = "JobsToReportToUser"
      /\ at'[m] = IF OtherJobsToTransfer(c) THEN "idle" ELSE "enqueue"
      /\ \A u \in Processes \ {m} : at'[u] = at[u] /\ queue'[u] = queue[u]
  BY <1>2 DEF Settled, Typing
<1>7. /\ OtherJobsToTransfer(c) => status'[c] = Complete /\ owner'[c] = NoOwner
      /\ ~OtherJobsToTransfer(c) => status'[c] = ToReportTransfer /\ owner'[c] = m
      /\ \A d \in Copies \ {c} : status'[d] = status[d] /\ owner'[d] = owner[d]
  BY <1>2, <1>5 DEF Settled, Typing, MarkTransferred, SetStatus
<1>8. InOrder(m)'
  <2>1. SessionJob(m)' /\ ReporterJob(m)'
    BY <1>6 DEF SessionJob, ReporterJob
  <2>2. ChosenQueue(m)'
    BY <1>1, <1>2, <1>6, <1>7 DEF ChosenQueue, ToReport
  <2> QED
    BY <1>1, <1>2, <1>5, <1>6, <1>7, <2>1, <2>2 DEF InOrder
<1>9. Accurate(c)'
  <2>1. Queued(c)'
    <3>1. m \notin Queues /\ NoOwner \notin Queues
      BY <1>2, NamesAssumption DEF NoOwner, Queues
    <3> QED
      BY <1>7, <3>1 DEF Queued, Queues
  <2>2. AttemptsLeft(c)'
    BY <1>2, <1>4, <1>7 DEF Accurate, AttemptsLeft, ToTransfer, Complete, ToReportTransfer
  <2>3. Written(c)'
    BY <1>2, <1>4 DEF Written
  <2> QED
    BY <2>1, <2>2, <2>3 DEF Accurate
<1>10. SomeoneLeft'
  <2>1. ToReportTransfer # Complete
    BY DEF ToReportTransfer, Complete
  <2> QED
    BY <1>3, <1>7, <2>1, SomeoneStays DEF Settled
<1> QED
  BY <1>2, <1>3, <1>5, <1>6, <1>7, <1>8, <1>9, <1>10, StepSound DEF Settled

LEMMA EnqueueSound ==
    ASSUME Settled, Tally, Typing', Sound, NEW p \in Processes, Enqueue(p)
    PROVE  Sound'
<1>1. PICK c \in Copies : c = job[p]
  BY DEF Settled, Typing
<1>2. /\ at[p] = "enqueue" /\ at' = [at EXCEPT ![p] = "idle"]
      /\ owner' = IF owner[c] = p THEN [owner EXCEPT ![c] = queue[p]] ELSE owner
      /\ UNCHANGED <<status, totalRetries, retriesWithinMount, job, reportType, queue, ended, onTape,
                     reportErrors, moveErrors>>
  BY <1>1 DEF Enqueue, Move, faults
<1>3. Undisturbed' <=> Undisturbed
  BY <1>2 DEF Undisturbed
<1>4. InOrder(p) /\ Accurate(c)
  BY DEF Sound
<1>5. owner[c] = p
  BY <1>1, <1>2, <1>4 DEF InOrder
<1>6. /\ owner'[c] = queue[p] /\ at'[p] = "idle"
      /\ \A u \in Processes \ {p} : at'[u] = at[u]
      /\ \A d \in Copies \ {c} : owner'[d] = owner[d]
  BY <1>2, <1>5 DEF Settled, Typing
<1>7. InOrder(p)'
  BY <1>6 DEF InOrder, SessionJob, ReporterJob, ChosenQueue
<1>8. Accurate(c)'
  <2>1. Queued(c)'
    BY <1>1, <1>2, <1>3, <1>4, <1>6 DEF InOrder, ChosenQueue, Queued
  <2> QED
    BY <1>2, <1>3, <1>4, <2>1 DEF Accurate, AttemptsLeft, Written
<1>9. SomeoneLeft'
  BY <1>2, <1>3, SomeoneStays DEF Settled
<1> QED
  BY <1>2, <1>3, <1>5, <1>6, <1>7, <1>8, <1>9, StepSound DEF Settled

LEMMA SendReportSound ==
    ASSUME Settled, Tally, Typing', Sound, NEW r \in Reporters, SendReport(r)
    PROVE  Sound'
<1>1. PICK c \in Copies : c = job[r]
  BY DEF Settled, Typing, Processes
<1>2. /\ r \in Processes /\ at[r] = "reporting" /\ at' = [at EXCEPT ![r] = "reported"]
      /\ UNCHANGED <<status, owner, totalRetries, retriesWithinMount, job, reportType, queue, ended,
                     onTape, reportErrors, moveErrors>>
  BY <1>1 DEF SendReport, Move, request, faults, Processes
<1>3. Undisturbed' <=> Undisturbed
  BY <1>2 DEF Undisturbed
<1>4. InOrder(r) /\ Accurate(c)
  BY <1>2 DEF Sound
<1>5. at'[r] = "reported" /\ \A u \in Processes \ {r} : at'[u] = at[u]
  BY <1>2 DEF Settled, Typing
<1>6. InOrder(r)'
  <2>1. ReporterJob(r)'
    BY <1>2, <1>4, <1>5 DEF InOrder, ReporterJob, ReportTypeOf
  <2> QED
    BY <1>2, <1>4, <1>5, <2>1 DEF InOrder, SessionJob, ChosenQueue
<1>7. Accurate(c)'
  BY <1>2, <1>3, <1>4 DEF Accurate, Queued, AttemptsLeft, Written
<1>8. SomeoneLeft'
  BY <1>2, <1>3, SomeoneStays DEF Settled
<1> QED
  BY <1>2, <1>3, <1>5, <1>6, <1>7, <1>8, StepSound DEF Settled

LEMMA RecordReportedSound ==
    ASSUME Settled, Tally, Typing', Sound, NEW r \in Reporters, RecordReported(r)
    PROVE  Sound'
<1>1. PICK c \in Copies : c = job[r]
  BY DEF Settled, Typing, Processes
<1>2. /\ r \in Processes /\ at[r] = "reported" /\ at' = [at EXCEPT ![r] = "idle"]
      /\ UNCHANGED <<totalRetries, retriesWithinMount, job, reportType, queue, ended,
                     onTape, reportErrors, moveErrors>>
  BY <1>1 DEF RecordReported, Move, faults, Processes
<1>3. Undisturbed' <=> Undisturbed
  BY <1>2 DEF Undisturbed
<1>4. InOrder(r) /\ Accurate(c)
  BY <1>2 DEF Sound
<1>5. owner[c] = r
  BY <1>1, <1>2, <1>4 DEF InOrder
<1>6. at'[r] = "idle" /\ \A u \in Processes \ {r} : at'[u] = at[u]
  BY <1>2 DEF Settled, Typing
<1>7. /\ \/ status'[c] = status[c] /\ owner'[c] = owner[c]
         \/ status'[c] = Failed /\ owner'[c] = "FailedJobs"
      /\ \A d \in Copies \ {c} : status'[d] = status[d] /\ owner'[d] = owner[d]
  <2>1. \/ UNCHANGED <<status, owner>>
        \/ status' = [status EXCEPT ![c] = Failed] /\ owner' = [owner EXCEPT ![c] = "FailedJobs"]
    BY <1>1 DEF RecordReported, SetStatus
  <2> QED
    BY <2>1 DEF Settled, Typing
<1>8. InOrder(r)'
  BY <1>6 DEF InOrder, SessionJob, ReporterJob, ChosenQueue
<1>9. Accurate(c)'
  BY <1>2, <1>3, <1>4, <1>7 DEF Accurate, Queued, AttemptsLeft, Written, Failed, ToTransfer,
     Complete, ToReportTransfer
<1>10. SomeoneLeft'
  <2>1. Failed # Complete
    BY DEF Failed, Complete
  <2> QED
    BY <1>3, <1>7, <2>1, SomeoneStays DEF Settled
<1> QED
  BY <1>2, <1>3, <1>5, <1>6, <1>7, <1>8, <1>9, <1>10, StepSound DEF Settled

\* The collector requeues by the status; who has stopped works on nothing.
LEMMA GarbageCollectSound ==
    ASSUME Settled, Tally, Typing', Sound, NEW c \in Copies, GarbageCollect(c)
    PROVE  Sound'
<1>1. /\ owner[c] \in ended /\ status[c] # Complete
      /\ owner' = [owner EXCEPT ![c] = GetQueueType(status[c])]
      /\ UNCHANGED <<status, totalRetries, retriesWithinMount, at, job, reportType, queue, ended,
                     onTape, reportErrors, moveErrors>>
  BY DEF GarbageCollect, processes, faults
<1>2. Undisturbed' <=> Undisturbed
  BY <1>1 DEF Undisturbed
<1>3. PICK p \in Processes : p = owner[c]
  BY <1>1 DEF Tally
<1>4. InOrder(p) /\ Accurate(c)
  BY DEF Sound
<1>5. at[p] = "idle"
  BY <1>1, <1>3, <1>4 DEF InOrder
<1>6. owner'[c] = GetQueueType(status[c]) /\ \A d \in Copies \ {c} : owner'[d] = owner[d]
  BY <1>1 DEF Settled, Typing
<1>7. /\ status[c] = ToTransfer => owner'[c] = "JobsToTransferForUser"
      /\ status[c] \in ToReport => owner'[c] = "JobsToReportToUser"
      /\ status[c] = Failed => owner'[c] = "FailedJobs"
      /\ status[c] = ToTransfer \/ status[c] \in ToReport \/ status[c] = Failed
  BY <1>1, <1>6 DEF GetQueueType, Settled, Typing, Statuses, ToReport, ToTransfer, ToReportTransfer,
     ToReportFailure, Failed
<1>8. InOrder(p)'
  BY <1>1, <1>5 DEF InOrder, SessionJob, ReporterJob, ChosenQueue
<1>9. Accurate(c)'
  <2>1. Queued(c)'
    BY <1>1, <1>7 DEF Queued
  <2> QED
    BY <1>1, <1>2, <1>4, <2>1 DEF Accurate, AttemptsLeft, Written
<1>10. SomeoneLeft'
  BY <1>1, <1>2, SomeoneStays DEF Settled
<1> QED
  BY <1>1, <1>2, <1>3, <1>6, <1>8, <1>9, <1>10, StepSound DEF Settled

LEMMA LeavingSound ==
    ASSUME Settled, Tally, Typing', Sound, NEW p \in Processes, JobGone(p) \/ Stop(p)
    PROVE  Sound'
<1>1. PICK c \in Copies : c = job[p]
  BY DEF Settled, Typing
<1>2. /\ at' = [at EXCEPT ![p] = "idle"] /\ ended' \in {ended, ended \cup {p}}
      /\ UNCHANGED <<status, owner, totalRetries, retriesWithinMount, job, reportType, queue,
                     onTape, reportErrors, moveErrors>>
  BY DEF JobGone, Stop, Move, request, faults
<1>3. Undisturbed' <=> Undisturbed
  BY <1>2 DEF Undisturbed
<1>4. Accurate(c)
  BY DEF Sound
<1>5. at'[p] = "idle" /\ \A u \in Processes \ {p} : at'[u] = at[u]
  BY <1>2 DEF Settled, Typing
<1>6. InOrder(p)'
  BY <1>5 DEF InOrder, SessionJob, ReporterJob, ChosenQueue
<1>7. Accurate(c)'
  BY <1>2, <1>3, <1>4 DEF Accurate, Queued, AttemptsLeft, Written
<1>8. SomeoneLeft'
  BY <1>2, <1>3, SomeoneStays DEF Settled
<1>9. \A u \in Processes \ {p} : u \in ended' <=> u \in ended
  BY <1>2
<1> QED
  BY <1>2, <1>3, <1>5, <1>6, <1>7, <1>8, <1>9, StepSound DEF Settled

LEMMA NobodyActsSound ==
    ASSUME Sound, CancelArchive \/ DeleteFailed \/ UNCHANGED vars
    PROVE  Sound'
<1>1. UNCHANGED <<status, owner, totalRetries, retriesWithinMount, at, job, reportType, queue, ended,
                  onTape, reportErrors, moveErrors>>
  BY DEF CancelArchive, DeleteFailed, vars, request, processes, faults
<1>2. Undisturbed' <=> Undisturbed
  BY <1>1 DEF Undisturbed
<1>3. ASSUME NEW p \in Processes PROVE InOrder(p)'
  <2>1. InOrder(p)
    BY DEF Sound
  <2> QED
    BY <1>1, <1>2, <2>1 DEF InOrder, SessionJob, ReporterJob, ChosenQueue, ReportTypeOf
<1>4. ASSUME NEW c \in Copies PROVE Accurate(c)'
  <2>1. Accurate(c)
    BY DEF Sound
  <2> QED
    BY <1>1, <1>2, <2>1 DEF Accurate, Queued, AttemptsLeft, Written
<1>5. SomeoneLeft'
  BY <1>1, <1>2 DEF Sound, SomeoneLeft
<1> QED
  BY <1>3, <1>4, <1>5 DEF Sound

-----------------------------------------------------------------------------
(***************************************************************************)
(* What goes wrong.  With several copies the statuses are not trusted any  *)
(* more; one copy takes its own status, or fails for good.                 *)
(***************************************************************************)
\* The only copy has no sibling to wait for.
LEMMA LoseUpdateSound ==
    ASSUME Settled, Tally, Typing', Sound, NbCopies = 1, NEW m \in Mounts, LoseUpdate(m)
    PROVE  Sound'
<1>1. PICK c \in Copies : c = job[m]
  BY DEF Settled, Typing, Processes
<1>2. /\ m \in Processes /\ at[m] = "written" /\ at' = [at EXCEPT ![m] = "notMoved"]
      /\ MarkTransferred(c) \/ UNCHANGED <<status, owner>>
      /\ moveErrors' = moveErrors + 1
      /\ UNCHANGED <<totalRetries, retriesWithinMount, job, reportType, queue, ended, onTape,
                     reportErrors>>
  BY <1>1 DEF LoseUpdate, Move, Processes
<1>3. ~Undisturbed'
  BY <1>2 DEF Tally, Undisturbed
<1>4. InOrder(m) /\ Accurate(c)
  BY <1>2 DEF Sound
<1>5. owner[c] = m /\ m \notin ended /\ status[c] = ToTransfer
  BY <1>1, <1>2, <1>4 DEF InOrder, SessionJob
<1>6. at'[m] = "notMoved" /\ \A u \in Processes \ {m} : at'[u] = at[u]
  BY <1>2 DEF Settled, Typing
<1>7. /\ status'[c] \in {ToTransfer, ToReportTransfer} /\ owner'[c] = m
      /\ \A d \in Copies \ {c} : status'[d] = status[d] /\ owner'[d] = owner[d]
  <2>1. ~OtherJobsToTransfer(c)
    BY DEF OtherJobsToTransfer, Copies
  <2>2. CASE MarkTransferred(c)
    BY <1>5, <2>1, <2>2 DEF MarkTransferred, SetStatus, Settled, Typing
  <2>3. CASE UNCHANGED <<status, owner>>
    BY <1>5, <2>3
  <2> QED
    BY <1>2, <2>2, <2>3
<1>8. InOrder(m)'
  <2>1. SessionJob(m)'
    BY <1>1, <1>2, <1>3, <1>4, <1>6, <1>7 DEF InOrder, SessionJob
  <2>2. ReporterJob(m)' /\ ChosenQueue(m)'
    BY <1>6 DEF ReporterJob, ChosenQueue
  <2> QED
    BY <1>1, <1>2, <1>5, <1>7, <2>1, <2>2 DEF InOrder
<1>9. Accurate(c)'
  <2>1. Queued(c)'
    <3>1. m \notin Queues
      BY <1>2, NamesAssumption
    <3> QED
      BY <1>7, <3>1 DEF Queued, Queues
  <2>2. AttemptsLeft(c)'
    BY <1>2, <1>4, <1>5, <1>7 DEF Accurate, AttemptsLeft, ToTransfer, ToReportTransfer
  <2> QED
    BY <1>3, <2>1, <2>2 DEF Accurate, Written
<1>10. SomeoneLeft'
  BY <1>3 DEF SomeoneLeft
<1> QED
  BY <1>2, <1>3, <1>5, <1>6, <1>7, <1>8, <1>9, <1>10, StepSound DEF Settled

LEMMA CommitSound ==
    ASSUME Settled, Tally, Typing', Sound, NbCopies = 1, ~Undisturbed', NEW p \in Processes,
           at[p] = "notMoved" \/ at[p] = "reporting", CommitReportFailure(p)
    PROVE  Sound'
<1>1. PICK c \in Copies : c = job[p]
  BY DEF Settled, Typing
<1>2. c = FirstJob
  BY DEF Copies, FirstJob
<1>3. /\ at' = [at EXCEPT ![p] = "enqueue"]
      /\ status' = [status EXCEPT ![c] = IF ReportsExhausted(c) THEN Failed ELSE status[c]]
      /\ queue' = [queue EXCEPT ![p] = IF ReportsExhausted(c) \/ reportType[p] = "NoReportRequired"
                                       THEN "FailedJobs" ELSE "JobsToReportToUser"]
      /\ UNCHANGED <<owner, totalRetries, retriesWithinMount, job, reportType, ended, onTape>>
  BY <1>1, <1>2 DEF CommitReportFailure, SetStatus, Move
<1>4. InOrder(p) /\ Accurate(c)
  BY DEF Sound
<1>5. owner[c] = p /\ p \notin ended
  BY <1>1, <1>4 DEF InOrder
<1>6. /\ at[p] = "notMoved" => reportType[p] = "NoReportRequired"
      /\ at[p] = "reporting" => status[c] \in ToReport
  BY <1>1, <1>4 DEF InOrder, SessionJob, ReporterJob
<1>7. /\ at'[p] = "enqueue" /\ \A u \in Processes \ {p} : at'[u] = at[u] /\ queue'[u] = queue[u]
      /\ \A d \in Copies \ {c} : status'[d] = status[d] /\ owner'[d] = owner[d]
  BY <1>3 DEF Settled, Typing
<1>8. \/ status'[c] = Failed /\ queue'[p] = "FailedJobs"
      \/ status'[c] = status[c] /\ queue'[p] = "FailedJobs"
      \/ status'[c] = status[c] /\ status[c] \in ToReport /\ queue'[p] = "JobsToReportToUser"
  <2>1. CASE ReportsExhausted(c)
    BY <1>3, <2>1 DEF Settled, Typing
  <2>2. CASE ~ReportsExhausted(c) /\ reportType[p] = "NoReportRequired"
    BY <1>3, <2>2 DEF Settled, Typing
  <2>3. CASE ~ReportsExhausted(c) /\ reportType[p] # "NoReportRequired"
    BY <1>3, <1>6, <2>3 DEF Settled, Typing
  <2> QED
    BY <2>1, <2>2, <2>3
<1>9. InOrder(p)'
  <2>1. SessionJob(p)' /\ ReporterJob(p)'
    BY <1>7 DEF SessionJob, ReporterJob
  <2>2. ChosenQueue(p)'
    BY <1>1, <1>3, <1>8 DEF ChosenQueue
  <2> QED
    BY <1>1, <1>3, <1>5, <2>1, <2>2 DEF InOrder
<1>10. Accurate(c)'
  <2>1. Queued(c)'
    <3>1. p \notin Queues
      BY NamesAssumption
    <3> QED
      BY <1>3, <1>5, <3>1 DEF Queued, Queues
  <2>2. AttemptsLeft(c)'
    BY <1>3, <1>4, <1>8 DEF Accurate, AttemptsLeft, ToTransfer, Failed
  <2> QED
    BY <2>1, <2>2 DEF Accurate, Written
<1>11. SomeoneLeft'
  BY DEF SomeoneLeft
<1> QED
  BY <1>3, <1>5, <1>7, <1>9, <1>10, <1>11, StepSound DEF Settled

LEMMA InitSound == Init => Sound
<1> SUFFICES ASSUME Init PROVE Sound
  OBVIOUS
<1>1. \A p \in Processes : InOrder(p)
  BY DEF Init, InOrder, SessionJob, ReporterJob, ChosenQueue
<1>2. ASSUME NEW c \in Copies PROVE Accurate(c)
  <2>1. /\ status[c] = ToTransfer /\ owner[c] = "JobsToTransferForUser"
        /\ totalRetries[c] = 0 /\ retriesWithinMount[c] = 0
    BY DEF Init
  <2> QED
    BY <2>1, LimitsAssumption DEF Accurate, Queued, AttemptsLeft, Written, ToTransfer, Complete,
       ToReportTransfer
<1>3. SomeoneLeft
  BY CopiesAssumption DEF Init, SomeoneLeft, Copies, ToTransfer, Complete
<1> QED
  BY <1>1, <1>2, <1>3 DEF Sound

LEMMA NextSound ==
    ASSUME Settled, Tally, Trusted => Sound, Settled', Trusted', [Next]_vars
    PROVE  Trusted /\ Sound'
<1> USE DEF Processes
<1>0. Typing'
  BY DEF Settled
<1>1. CASE \E m \in Mounts : LoseUpdate(m)
  <2>1. PICK m \in Mounts : LoseUpdate(m)
    BY <1>1
  <2>2. NbCopies = 1
    BY <2>1 DEF LoseUpdate, Tally, Undisturbed, Trusted
  <2> QED
    BY <1>0, <2>1, <2>2, LoseUpdateSound DEF Trusted
<1>2. CASE \E r \in Reporters : FailReport(r)
  <2>1. PICK r \in Reporters : FailReport(r)
    BY <1>2
  <2>2. ~Undisturbed'
    BY <2>1 DEF FailReport, Tally, Undisturbed
  <2>3. NbCopies = 1
    BY <2>2 DEF Trusted
  <2> QED
    BY <1>0, <2>1, <2>2, <2>3, CommitSound DEF FailReport, Trusted
<1>3. CASE ~(\E m \in Mounts : LoseUpdate(m)) /\ ~(\E r \in Reporters : FailReport(r))
  <2>1. UNCHANGED <<reportErrors, moveErrors>>
    BY <1>3 DEF Next, MountStep, ReporterStep, PopForTransfer, PopForReport, Pop, FailTransfer,
       UpdateCatalogue, SucceedTransfer, FailMove, SendReport, RefuseReport, RecordReported, Enqueue,
       JobGone, Stop, GarbageCollect, CancelArchive, DeleteFailed, vars, faults
  <2>2. Trusted /\ Sound /\ (Undisturbed' <=> Undisturbed)
    BY <2>1 DEF Trusted, Undisturbed
  <2>3. CASE \E m \in Mounts : MountStep(m)
    <3>1. PICK m \in Mounts : MountStep(m)
      BY <2>3
    <3>2. CASE PopForTransfer(m)
      <4>1. PoolOf[m] \in Copies
        BY ProcessesAssumption
      <4> QED
        BY <1>0, <2>2, <3>2, <4>1, PopSound DEF PopForTransfer
    <3>3. CASE FailTransfer(m)
      BY <1>0, <2>2, <3>3, FailTransferSound
    <3>4. CASE UpdateCatalogue(m)
      BY <1>0, <2>2, <3>4, UpdateCatalogueSound
    <3>5. CASE SucceedTransfer(m)
      BY <1>0, <2>2, <3>5, SucceedTransferSound
    <3>6. CASE FailMove(m)
      <4>1. at[m] = "notMoved" /\ CommitReportFailure(m) /\ InOrder(m)
        BY <2>2, <3>6 DEF FailMove, Sound
      <4>2. ~Undisturbed
        BY <4>1 DEF InOrder, SessionJob
      <4>3. NbCopies = 1 /\ ~Undisturbed'
        BY <2>2, <4>2 DEF Trusted
      <4> QED
        BY <1>0, <2>2, <4>1, <4>3, CommitSound
    <3> QED
      BY <1>3, <3>1, <3>2, <3>3, <3>4, <3>5, <3>6 DEF MountStep
  <2>4. CASE \E r \in Reporters : ReporterStep(r)
    <3>1. PICK r \in Reporters : ReporterStep(r)
      BY <2>4
    <3>2. CASE \E c \in Copies : PopForReport(r, c)
      BY <1>0, <2>2, <3>2, PopSound DEF PopForReport
    <3>3. CASE SendReport(r)
      BY <1>0, <2>2, <3>3, SendReportSound
    <3>4. ~RefuseReport(r)
      <4>1. InOrder(r)
        BY <2>2 DEF Sound
      <4>2. at[r] = "reporting" => reportType[r] # "NoReportRequired"
        BY <4>1 DEF InOrder, ReporterJob, ReportTypeOf, ToReport, ToReportTransfer, ToReportFailure
      <4> QED
        BY <4>2 DEF RefuseReport
    <3>5. CASE RecordReported(r)
      BY <1>0, <2>2, <3>5, RecordReportedSound
    <3> QED
      BY <1>3, <3>1, <3>2, <3>3, <3>4, <3>5 DEF ReporterStep
  <2>5. CASE \E p \in Processes : Enqueue(p)
    BY <1>0, <2>2, <2>5, EnqueueSound
  <2>6. CASE \E p \in Processes : JobGone(p) \/ Stop(p)
    BY <1>0, <2>2, <2>6, LeavingSound
  <2>7. CASE \E c \in Copies : GarbageCollect(c)
    BY <1>0, <2>2, <2>7, GarbageCollectSound
  <2>8. CASE CancelArchive \/ DeleteFailed \/ UNCHANGED vars
    BY <2>2, <2>8, NobodyActsSound
  <2> QED
    BY <2>2, <2>3, <2>4, <2>5, <2>6, <2>7, <2>8 DEF Next
<1> QED
  BY <1>1, <1>2, <1>3

Reliable == Settled /\ Tally /\ (Trusted => Sound)

LEMMA AlwaysReliable == Spec => []Reliable
<1>1. Init => Reliable
  BY InitSettled, InitTally, InitSound DEF Reliable
<1>2. ASSUME Reliable, [Next]_vars PROVE Reliable'
  <2>1. Settled' /\ Tally'
    BY <1>2, NextSettled, NextTally DEF Reliable
  <2>2. Trusted' => Sound'
    BY <1>2, <2>1, NextSound DEF Reliable
  <2> QED
    BY <2>1, <2>2 DEF Reliable
<1> QED
  BY <1>1, <1>2, PTL DEF Spec

\* As long as no report and no move has failed, and with one copy whatever
\* fails, the state keeps its type (TypeOK), and no copy is tried more often
\* than maxtotalretries allows (addTransferFailure), for any number of sessions.
THEOREM AttemptsAreBounded == Spec => [](NbCopies = 1 \/ Undisturbed => TypeOK)
<1>1. Reliable => (NbCopies = 1 \/ Undisturbed => TypeOK)
  <2> SUFFICES ASSUME Settled, Tally, Sound PROVE TypeOK
    BY DEF Reliable, Trusted
  <2>1. MaxTotalRetries \in Nat
    BY LimitsAssumption
  <2>2. \A c \in Copies :
          totalRetries[c] \in 0..MaxTotalRetries /\ retriesWithinMount[c] \in 0..MaxTotalRetries
    BY <2>1 DEF Settled, Typing, Tally, Sound, Accurate, AttemptsLeft
  <2>3. /\ totalRetries \in [Copies -> 0..MaxTotalRetries]
        /\ retriesWithinMount \in [Copies -> 0..MaxTotalRetries]
    BY <2>2 DEF Settled, Typing, Tally
  <2>4. /\ status \in [Copies -> Statuses]
        /\ owner \in [Copies -> Queues \cup Processes \cup {NoOwner}]
        /\ at \in [Processes -> Stages] /\ job \in [Processes -> Copies]
        /\ reportType \in [Processes -> ReportTypes] /\ queue \in [Processes -> Queues]
        /\ successes \in Nat
    BY DEF Settled, Typing
  <2> QED
    BY <2>3, <2>4 DEF Tally, TypeOK
<1> QED
  BY <1>1, AlwaysReliable, PTL

\* As long as no report and no move has failed, a job on a queue has a status
\* that leads to that kind of queue (StatusMatchesQueueUndisturbed): sessions,
\* reporters and the garbage collector agree on it, whoever stops and when.
THEOREM QueuesTellTheStatus == Spec => []StatusMatchesQueueUndisturbed
<1>1. Reliable => StatusMatchesQueueUndisturbed
  BY DEF Reliable, Trusted, Sound, Accurate, Queued, StatusMatchesQueueUndisturbed, StatusMatchesQueue
<1> QED
  BY <1>1, AlwaysReliable, PTL

\* As long as no report and no move has failed, a copy counted as transferred is
\* in the catalogue (TransferredIsOnTape): reportJobsBatchTransferred updates the
\* catalogue first, and no other session takes the job meanwhile.
THEOREM CatalogueIsAhead == Spec => []TransferredIsOnTape
<1>1. Reliable => TransferredIsOnTape
  BY DEF Reliable, Trusted, Sound, Accurate, Written, TransferredIsOnTape
<1> QED
  BY <1>1, AlwaysReliable, PTL

\* As long as no report and no move has failed, the copies of a request do not
\* all leave the report to a sibling (SomeoneWillReport), in whatever order their
\* sessions run asyncUpdateTransferSuccessful.
THEOREM SiblingsDoNotAllWait == Spec => []SomeoneWillReport
<1>1. Reliable => SomeoneWillReport
  BY DEF Reliable, Trusted, Sound, SomeoneLeft, SomeoneWillReport
<1> QED
  BY <1>1, AlwaysReliable, PTL

-----------------------------------------------------------------------------
(***************************************************************************)
(* One copy.  A report that is given up is on its way to the failed queue; *)
(* and the reports sent are accounted for, all but one that has not been   *)
(* recorded or was the last.                                               *)
(***************************************************************************)
GivenUp ==
    reportRetries[1] >= MaxReportRetries =>
        /\ reportRetries[1] = MaxReportRetries /\ status[1] = Failed
        /\ owner[1] \in Processes \cup {"FailedJobs"}
        /\ \A p \in Processes :
             at[p] = "idle" \/ (at[p] = "enqueue" /\ queue[p] = "FailedJobs")

Sent == successes + failures
Explained == Cardinality(ended \cap Reporters) + reportErrors
\* Another report may come.
Pending ==
    \/ \E r \in Processes : at[r] = "reporting"
    \/ present /\ owner[1] # "FailedJobs" /\ \A r \in Processes : at[r] # "reported"
Accounted == Sent <= 1 + Explained /\ (Pending => Sent <= Explained)

OneCopy == NbCopies = 1 => GivenUp /\ Accounted

LEMMA OnlyCopy ==
    ASSUME NbCopies = 1, Typing, Sound
    PROVE  /\ Copies = {1} /\ \A p \in Processes : job[p] = 1
           /\ \A p \in Processes : at[p] # "idle" => owner[1] = p /\ p \notin ended
           /\ \A p, q \in Processes : at[p] # "idle" /\ at[q] # "idle" => p = q
<1>1. Copies = {1}
  BY DEF Copies
<1>2. \A p \in Processes : job[p] = 1
  BY <1>1 DEF Typing
<1>3. ASSUME NEW p \in Processes, at[p] # "idle" PROVE owner[1] = p /\ p \notin ended
  <2>1. InOrder(p)
    BY DEF Sound
  <2> QED
    BY <1>2, <1>3, <2>1 DEF InOrder
<1> QED
  BY <1>1, <1>2, <1>3

LEMMA CommitGivesUp ==
    ASSUME Settled, Tally, Sound, NbCopies = 1, GivenUp, NEW p \in Processes,
           at[p] = "notMoved" \/ at[p] = "reporting", CommitReportFailure(p)
    PROVE  GivenUp'
<1>1. /\ Copies = {1} /\ job[p] = 1 /\ owner[1] = p
      /\ \A q \in Processes : q # p => at[q] = "idle"
  BY OnlyCopy DEF Settled
<1>2. reportRetries[1] \in Nat /\ MaxReportRetries \in Nat
  BY <1>1, LimitsAssumption DEF Tally
<1>3. ~(reportRetries[1] >= MaxReportRetries)
  BY DEF GivenUp
<1>4. /\ reportRetries' = [reportRetries EXCEPT ![1] = @ + 1] /\ owner' = owner
      /\ at' = [at EXCEPT ![p] = "enqueue"]
      /\ ReportsExhausted(1) =>
           /\ status' = [status EXCEPT ![1] = Failed] /\ queue' = [queue EXCEPT ![p] = "FailedJobs"]
  BY <1>1 DEF CommitReportFailure, SetStatus, Move, FirstJob
<1>5. reportRetries'[1] = reportRetries[1] + 1
  BY <1>1, <1>4 DEF Tally
<1>6. ReportsExhausted(1) <=> reportRetries'[1] >= MaxReportRetries
  BY <1>2, <1>5 DEF ReportsExhausted, FirstJob
<1>7. ASSUME ReportsExhausted(1)
      PROVE  /\ status'[1] = Failed /\ at'[p] = "enqueue" /\ queue'[p] = "FailedJobs"
             /\ \A q \in Processes : q # p => at'[q] = "idle"
  BY <1>1, <1>4, <1>7 DEF Settled, Typing
<1> QED
  BY <1>1, <1>2, <1>3, <1>4, <1>5, <1>6, <1>7 DEF GivenUp

LEMMA NextGivesUp ==
    ASSUME Settled, Tally, Sound, NbCopies = 1, GivenUp, [Next]_vars
    PROVE  GivenUp'
<1> USE DEF Processes
<1>1. CASE \E p \in Processes : CommitReportFailure(p) /\ (at[p] = "notMoved" \/ at[p] = "reporting")
  BY <1>1, CommitGivesUp
<1>2. CASE ~ \E p \in Processes : CommitReportFailure(p) /\ (at[p] = "notMoved" \/ at[p] = "reporting")
  <2>1. UNCHANGED reportRetries
    BY <1>2 DEF Next, MountStep, ReporterStep, PopForTransfer, PopForReport, Pop, FailTransfer,
       UpdateCatalogue, SucceedTransfer, LoseUpdate, FailMove, SendReport, FailReport, RefuseReport,
       RecordReported, Enqueue, JobGone, Stop, GarbageCollect, CancelArchive, DeleteFailed, vars,
       request
  <2>2. CASE ~(reportRetries[1] >= MaxReportRetries)
    BY <2>1, <2>2 DEF GivenUp
  <2>3. CASE reportRetries[1] >= MaxReportRetries
    <3>1. /\ reportRetries[1] = MaxReportRetries /\ status[1] = Failed
          /\ owner[1] \in Processes \cup {"FailedJobs"}
          /\ \A p \in Processes : at[p] = "idle" \/ (at[p] = "enqueue" /\ queue[p] = "FailedJobs")
      BY <2>3 DEF GivenUp
    <3>2. Copies = {1} /\ \A p \in Processes : job[p] = 1
      BY OnlyCopy DEF Settled
    <3>3. owner[1] # "JobsToTransferForUser" /\ owner[1] # "JobsToReportToUser"
      BY <3>1, NamesAssumption DEF Queues
    <3>4. \A m \in Mounts : ~MountStep(m)
      <4>1. \A m \in Mounts : PoolOf[m] = 1
        BY <3>2, ProcessesAssumption
      <4> QED
        BY <3>1, <3>3, <4>1 DEF MountStep, PopForTransfer, Pop, FailTransfer, UpdateCatalogue,
           SucceedTransfer, LoseUpdate, FailMove
    <3>5. \A r \in Reporters : ~ReporterStep(r)
      BY <3>1, <3>2, <3>3 DEF ReporterStep, PopForReport, Pop, SendReport, FailReport, RefuseReport,
         RecordReported
    <3>6. CASE \E p \in Processes : Enqueue(p)
      <4>1. PICK p \in Processes : Enqueue(p)
        BY <3>6
      <4>2. /\ at[p] = "enqueue" /\ queue[p] = "FailedJobs" /\ at' = [at EXCEPT ![p] = "idle"]
            /\ owner' = IF owner[1] = p THEN [owner EXCEPT ![1] = "FailedJobs"] ELSE owner
            /\ UNCHANGED <<status, queue>>
        BY <3>1, <3>2, <4>1 DEF Enqueue, Move
      <4>3. owner'[1] \in Processes \cup {"FailedJobs"}
        BY <3>1, <3>2, <4>2 DEF Settled, Typing
      <4>4. \A q \in Processes : at'[q] = "idle" \/ at'[q] = at[q]
        BY <4>2 DEF Settled, Typing
      <4> QED
        BY <2>1, <3>1, <4>2, <4>3, <4>4 DEF GivenUp
    <3>7. CASE \E p \in Processes : JobGone(p) \/ Stop(p)
      <4>1. PICK p \in Processes : JobGone(p) \/ Stop(p)
        BY <3>7
      <4>2. at' = [at EXCEPT ![p] = "idle"] /\ UNCHANGED <<status, owner, queue>>
        BY <4>1 DEF JobGone, Stop, Move, request
      <4>3. \A q \in Processes : at'[q] = "idle" \/ at'[q] = at[q]
        BY <4>2 DEF Settled, Typing
      <4> QED
        BY <2>1, <3>1, <4>2, <4>3 DEF GivenUp
    <3>8. CASE \E c \in Copies : GarbageCollect(c)
      <4>1. GarbageCollect(1)
        BY <3>2, <3>8
      <4>2. owner' = [owner EXCEPT ![1] = GetQueueType(Failed)] /\ UNCHANGED <<status, at, queue>>
        BY <3>1, <4>1 DEF GarbageCollect, processes
      <4>3. GetQueueType(Failed) = "FailedJobs"
        BY DEF GetQueueType, Failed, ToTransfer, ToReport, ToReportTransfer, ToReportFailure
      <4>4. owner'[1] = "FailedJobs"
        BY <3>2, <4>2, <4>3 DEF Settled, Typing
      <4> QED
        BY <2>1, <3>1, <4>2, <4>4 DEF GivenUp
    <3>9. CASE CancelArchive \/ DeleteFailed \/ UNCHANGED vars
      BY <2>1, <3>1, <3>9 DEF CancelArchive, DeleteFailed, vars, request, processes, GivenUp
    <3> QED
      BY <3>4, <3>5, <3>6, <3>7, <3>8, <3>9 DEF Next
  <2> QED
    BY <2>2, <2>3
<1> QED
  BY <1>1, <1>2

LEMMA ExplainedTyped ==
    ASSUME Settled, Tally
    PROVE  Sent \in Nat /\ Explained \in Nat /\ Cardinality(ended \cap Reporters) \in Nat
<1>1. IsFiniteSet(ended \cap Reporters)
  BY FS_Subset DEF Tally
<1>2. Cardinality(ended \cap Reporters) \in Nat
  BY <1>1, FS_CardinalityType
<1> QED
  BY <1>2 DEF Settled, Typing, Tally, Sent, Explained

\* A step that neither sends, nor fails, nor stops a reporter.
LEMMA CalmSteps ==
    ASSUME Accounted, UNCHANGED <<successes, failures, reportErrors>>,
           ended' \cap Reporters = ended \cap Reporters, Pending' => Pending
    PROVE  Accounted'
<1>1. Sent' = Sent /\ Explained' = Explained
  BY DEF Sent, Explained
<1> QED
  BY <1>1 DEF Accounted

\* The process that works on the copy is alone with it.
LEMMA WorkIsPending ==
    ASSUME NbCopies = 1, Settled, Sound, NEW p \in Processes, at[p] # "idle"
    PROVE  /\ \A q \in Processes : q # p => at[q] = "idle"
           /\ present /\ at[p] # "reported" => Pending
           /\ at[p] = "reporting" => Pending
<1>1. \A q \in Processes : q # p => at[q] = "idle"
  BY OnlyCopy DEF Settled
<1>2. owner[1] = p /\ p # "FailedJobs"
  BY OnlyCopy, NamesAssumption DEF Settled, Queues
<1> QED
  BY <1>1, <1>2 DEF Pending

LEMMA StopAccounted ==
    ASSUME NbCopies = 1, Settled, Tally, Sound, Accounted, NEW p \in Processes, Stop(p)
    PROVE  Accounted'
<1>1. /\ p \notin ended /\ ended' = ended \cup {p} /\ at' = [at EXCEPT ![p] = "idle"]
      /\ UNCHANGED <<successes, failures, reportErrors, present, owner>>
  BY DEF Stop, Move, request, reports, faults
<1>2. CASE p \in Reporters
  <2> DEFINE E == ended \cap Reporters
  <2>1. IsFiniteSet(E) /\ p \notin E
    BY <1>1, FS_Subset DEF Tally
  <2>2. ended' \cap Reporters = E \cup {p}
    BY <1>1, <1>2
  <2>3. Cardinality(E \cup {p}) = Cardinality(E) + 1
    BY <2>1, FS_AddElement
  <2>4. Explained' = Explained + 1 /\ Sent' = Sent
    BY <1>1, <2>2, <2>3, ExplainedTyped DEF Explained, Sent, Tally
  <2> QED
    BY <2>4, ExplainedTyped DEF Accounted
<1>3. CASE p \notin Reporters
  <2>1. ended' \cap Reporters = ended \cap Reporters
    BY <1>1, <1>3
  <2>2. at[p] \notin {"reporting", "reported"}
    BY <1>3 DEF Sound, InOrder, ReporterJob
  <2>3. \A q \in Processes : (at'[q] = "reporting" => at[q] = "reporting")
                          /\ (at[q] = "reported" => at'[q] = "reported")
    BY <1>1, <2>2 DEF Settled, Typing
  <2>4. Pending' => Pending
    BY <1>1, <2>3 DEF Pending
  <2> QED
    BY <1>1, <2>1, <2>4, CalmSteps
<1> QED
  BY <1>2, <1>3

LEMMA ReportAccounted ==
    ASSUME NbCopies = 1, Settled, Tally, Settled', Tally', Sound, Accounted, NEW r \in Reporters,
           SendReport(r) \/ FailReport(r)
    PROVE  Accounted'
<1>1. r \in Processes /\ at[r] = "reporting" /\ reportType[r] \in {"CompletionReport", "FailureReport"}
  BY DEF SendReport, FailReport, Processes, Settled, Typing, ReportTypes
<1>2. Sent <= Explained /\ \A q \in Processes : q # r => at[q] = "idle"
  BY <1>1, WorkIsPending DEF Accounted
<1>3. Deliver(r) => Sent' = Sent + 1
  BY <1>1 DEF Deliver, Sent, Settled, Typing, Tally
<1>4. CASE SendReport(r)
  <2>1. /\ Sent' = Sent + 1 /\ Explained' = Explained /\ at' = [at EXCEPT ![r] = "reported"]
    BY <1>3, <1>4 DEF SendReport, Move, Explained, faults
  <2>2. at'[r] = "reported" /\ \A q \in Processes : q # r => at'[q] = "idle"
    BY <1>1, <1>2, <2>1 DEF Settled, Typing
  <2>3. ~Pending'
    BY <1>1, <2>2 DEF Pending
  <2> QED
    BY <1>2, <2>1, <2>3, ExplainedTyped DEF Accounted
<1>5. CASE FailReport(r)
  <2>1. Sent' = Sent \/ Sent' = Sent + 1
    BY <1>3, <1>5 DEF FailReport, Sent, reports
  <2>2. Explained' = Explained + 1
    <3>1. ended' = ended /\ reportErrors' = reportErrors + 1
      BY <1>5 DEF FailReport, CommitReportFailure
    <3> QED
      BY <3>1, ExplainedTyped DEF Explained, Tally
  <2> QED
    BY <1>2, <2>1, <2>2, ExplainedTyped DEF Accounted
<1> QED
  BY <1>4, <1>5

\* A session works on a copy whose report has not been sent, or has been lost.
LEMMA WorkAccounted ==
    ASSUME NbCopies = 1, Settled, Tally, Sound, Accounted, NEW p \in Processes,
           at[p] \notin {"idle", "reporting", "reported"}, present,
           UNCHANGED <<successes, failures, reportErrors, ended>>
    PROVE  Accounted'
<1>1. Pending
  BY WorkIsPending
<1> QED
  BY <1>1, CalmSteps

LEMMA PopAccounted ==
    ASSUME NbCopies = 1, Settled, Tally, Sound, Accounted, NEW p \in Processes, NEW c \in Copies,
           NEW q \in {"JobsToTransferForUser", "JobsToReportToUser"}, NEW stage,
           Pop(p, c, q, stage)
    PROVE  Accounted'
<1>1. c = 1 /\ present /\ owner[1] = q /\ UNCHANGED <<successes, failures, reportErrors, ended>>
  BY OnlyCopy DEF Pop, reports, faults, Settled
<1>2. q \notin Processes
  BY NamesAssumption DEF Queues
<1>3. \A u \in Processes : at[u] = "idle"
  BY <1>1, <1>2, OnlyCopy DEF Settled
<1>4. Pending
  BY <1>1, <1>3 DEF Pending
<1> QED
  BY <1>1, <1>4, CalmSteps

LEMMA RecordAccounted ==
    ASSUME NbCopies = 1, Settled, Tally, Sound, Accounted, NEW r \in Reporters, RecordReported(r)
    PROVE  Accounted'
<1>1. /\ r \in Processes /\ at[r] = "reported" /\ at' = [at EXCEPT ![r] = "idle"]
      /\ UNCHANGED <<successes, failures, reportErrors, ended>>
  BY DEF RecordReported, Move, reports, faults, Processes
<1>2. Copies = {1} /\ job[r] = 1 /\ \A q \in Processes : q # r => at[q] = "idle"
  BY <1>1, OnlyCopy, WorkIsPending DEF Settled
<1>3. \A q \in Processes : at'[q] = "idle"
  BY <1>1, <1>2 DEF Settled, Typing
<1>4. present' = FALSE \/ owner'[1] = "FailedJobs"
  <2>1. present' = FALSE \/ owner' = [owner EXCEPT ![1] = "FailedJobs"]
    BY <1>2 DEF RecordReported
  <2> QED
    BY <1>2, <2>1 DEF Settled, Typing
<1>5. ~Pending'
  BY <1>3, <1>4 DEF Pending
<1> QED
  BY <1>1, <1>5, CalmSteps

LEMMA NextAccounted ==
    ASSUME NbCopies = 1, Settled, Tally, Settled', Tally', Sound, Accounted, [Next]_vars
    PROVE  Accounted'
<1> USE DEF Processes, reports, faults
<1>1. CASE \E m \in Mounts : MountStep(m)
  <2>1. PICK m \in Mounts : MountStep(m)
    BY <1>1
  <2>2. CASE PopForTransfer(m)
    <3>1. PoolOf[m] \in Copies
      BY ProcessesAssumption
    <3> QED
      BY <2>2, <3>1, PopAccounted DEF PopForTransfer
  <2>3. CASE FailTransfer(m) \/ SucceedTransfer(m) \/ LoseUpdate(m) \/ FailMove(m)
    <3>1. /\ at[m] \in {"transferring", "written", "notMoved"} /\ present
          /\ UNCHANGED <<successes, failures, reportErrors, ended>>
      BY <2>3 DEF FailTransfer, SucceedTransfer, LoseUpdate, FailMove, CommitReportFailure
    <3> QED
      BY <3>1, WorkAccounted
  <2>4. CASE UpdateCatalogue(m)
    <3>1. /\ at[m] = "transferring" /\ at' = [at EXCEPT ![m] = "written"]
          /\ UNCHANGED <<present, owner, successes, failures, reportErrors, ended>>
      BY <2>4 DEF UpdateCatalogue, Move, request
    <3>2. \A q \in Processes : (at'[q] = "reporting" => at[q] = "reporting")
                            /\ (at[q] = "reported" => at'[q] = "reported")
      BY <3>1 DEF Settled, Typing
    <3>3. Pending' => Pending
      BY <3>1, <3>2 DEF Pending
    <3> QED
      BY <3>1, <3>3, CalmSteps
  <2> QED
    BY <2>1, <2>2, <2>3, <2>4 DEF MountStep
<1>2. CASE \E r \in Reporters : ReporterStep(r)
  <2>1. PICK r \in Reporters : ReporterStep(r)
    BY <1>2
  <2>2. CASE \E c \in Copies : PopForReport(r, c)
    BY <2>2, PopAccounted DEF PopForReport
  <2>3. CASE SendReport(r) \/ FailReport(r)
    BY <2>3, ReportAccounted
  <2>4. CASE RefuseReport(r)
    <3>1. at[r] = "reporting" /\ UNCHANGED <<successes, failures, reportErrors, ended>>
      BY <2>4 DEF RefuseReport, CommitReportFailure
    <3>2. Pending
      BY <3>1, WorkIsPending
    <3> QED
      BY <3>1, <3>2, CalmSteps
  <2>5. CASE RecordReported(r)
    BY <2>5, RecordAccounted
  <2> QED
    BY <2>1, <2>2, <2>3, <2>4, <2>5 DEF ReporterStep
<1>3. CASE \E p \in Processes : Enqueue(p)
  <2>1. PICK p \in Processes : Enqueue(p)
    BY <1>3
  <2>2. at[p] = "enqueue" /\ present /\ UNCHANGED <<successes, failures, reportErrors, ended>>
    BY <2>1 DEF Enqueue
  <2> QED
    BY <2>2, WorkAccounted
<1>4. CASE \E p \in Processes : JobGone(p)
  <2>1. PICK p \in Processes : JobGone(p)
    BY <1>4
  <2>2. /\ ~present /\ at' = [at EXCEPT ![p] = "idle"]
        /\ UNCHANGED <<present, successes, failures, reportErrors, ended>>
    BY <2>1 DEF JobGone, Move, request
  <2>3. \A q \in Processes : at'[q] = "reporting" => at[q] = "reporting"
    BY <2>2 DEF Settled, Typing
  <2>4. Pending' => Pending
    BY <2>2, <2>3 DEF Pending
  <2> QED
    BY <2>2, <2>4, CalmSteps
<1>5. CASE \E p \in Processes : Stop(p)
  BY <1>5, StopAccounted
<1>6. CASE \E c \in Copies : GarbageCollect(c)
  <2>1. /\ present /\ owner[1] \in ended
        /\ UNCHANGED <<successes, failures, reportErrors, ended>>
    BY <1>6, OnlyCopy DEF GarbageCollect, processes, Settled
  <2>2. \A p \in Processes : at[p] = "idle"
    BY <2>1, OnlyCopy DEF Settled
  <2>3. owner[1] # "FailedJobs"
    BY <2>1, NamesAssumption DEF Tally, Queues
  <2>4. Pending
    BY <2>1, <2>2, <2>3 DEF Pending
  <2> QED
    BY <2>1, <2>4, CalmSteps
<1>7. CASE CancelArchive \/ DeleteFailed \/ UNCHANGED vars
  <2>1. UNCHANGED <<at, owner, successes, failures, reportErrors, ended>> /\ (present' => present)
    BY <1>7 DEF CancelArchive, DeleteFailed, vars, request, processes
  <2>2. Pending' => Pending
    BY <2>1 DEF Pending
  <2> QED
    BY <2>1, <2>2, CalmSteps
<1> QED
  BY <1>1, <1>2, <1>3, <1>4, <1>5, <1>6, <1>7 DEF Next

LEMMA AlwaysOneCopy == Spec => []OneCopy
<1>1. Init => OneCopy
  <2> SUFFICES ASSUME Init, NbCopies = 1 PROVE GivenUp /\ Accounted
    BY DEF OneCopy
  <2>1. reportRetries[1] = 0
    BY DEF Init, Copies
  <2>2. GivenUp
    BY <2>1, LimitsAssumption DEF GivenUp
  <2>3. Cardinality(ended \cap Reporters) = 0
    <3>1. ended \cap Reporters = {}
      BY DEF Init
    <3> QED
      BY <3>1, FS_EmptySet
  <2>4. Sent = 0 /\ Explained = 0
    BY <2>3 DEF Init, Sent, Explained
  <2> QED
    BY <2>2, <2>4 DEF Accounted
<1>2. ASSUME Reliable, Reliable', OneCopy, [Next]_vars PROVE OneCopy'
  <2> SUFFICES ASSUME NbCopies = 1 PROVE GivenUp' /\ Accounted'
    BY DEF OneCopy
  <2>1. Settled /\ Tally /\ Sound /\ Settled' /\ Tally' /\ GivenUp /\ Accounted
    BY <1>2 DEF Reliable, Trusted, OneCopy
  <2> QED
    BY <1>2, <2>1, NextGivesUp, NextAccounted
<1> QED
  BY <1>1, <1>2, AlwaysReliable, PTL DEF Spec

\* With one copy, a report is given up after maxreportretries failures, whatever
\* else fails and whoever stops (ReportRetriesAreBounded, addReportFailure).
THEOREM ReportsAreGivenUp == Spec => [](NbCopies = 1 => ReportRetriesAreBounded)
<1>1. Reliable /\ OneCopy => (NbCopies = 1 => ReportRetriesAreBounded)
  <2> SUFFICES ASSUME Tally, GivenUp, NbCopies = 1 PROVE ReportRetriesAreBounded
    BY DEF Reliable, OneCopy
  <2>1. Copies = {1}
    BY DEF Copies
  <2>2. reportRetries[1] \in Nat /\ MaxReportRetries \in Nat
    BY <2>1, LimitsAssumption DEF Tally
  <2> QED
    BY <2>1, <2>2 DEF GivenUp, ReportRetriesAreBounded
<1> QED
  BY <1>1, AlwaysReliable, AlwaysOneCopy, PTL

\* With one copy, the disk system hears a second time of a file only because a
\* reporter stopped between sending and recording, or because the report was seen
\* to fail (RepeatsAreExplained), for any number of reporters and of deaths.
THEOREM RepeatedReportsAreExplained == Spec => [](NbCopies = 1 => RepeatsAreExplained)
<1>1. Reliable /\ OneCopy => (NbCopies = 1 => RepeatsAreExplained)
  <2> SUFFICES ASSUME Settled, Tally, Accounted PROVE RepeatsAreExplained
    BY DEF Reliable, OneCopy
  <2> QED
    BY ExplainedTyped DEF Accounted, Sent, Explained, RepeatsAreExplained, Tally
<1> QED
  BY <1>1, AlwaysReliable, AlwaysOneCopy, PTL
=============================================================================
