# A verification project for the CERN Tape Archive (CTA)

CTA archives files from disk to tape and retrieves them.  Its processes - the
frontend, one tape session per drive, maintenance processes - share no memory
and no message channel: they meet in an *object store* (Ceph/Rados, or a
directory), a set of named byte strings that can be locked, read and written
one at a time.  All that the processes promise each other (a request is never
lost, a copy is never written twice at once, the user is told the outcome) is
a matter of the order in which those objects are written, and of what is found
by the next process when one dies between two writes.

## 1. The system and its parts

| Part | State | Operations | Hard behaviour |
|---|---|---|---|
| `objectstore/Backend*`, `ObjectOps` | named objects, locks | lock, fetch, commit, insert, remove, asynchronous update | Rados locks expire; asynchronous updates give up the lock after 1 s; a commit may be followed by a failed unlock |
| `Agent`, `AgentRegister`, `AgentReference`, heartbeat thread | agent objects, ownership lists, register | register, own, disown, heartbeat, remove | two writes per change of owner; batching of the list updates of many threads |
| `GarbageCollector`, `AgentWatchdog` | watched agents, the agent being collected | trim, acquire, check heartbeats, collect | dies while collecting; objects that change under it; partial failures |
| `ArchiveQueue`, `RetrieveQueue`, shards, `RootEntry`, `Helpers` | references, shards, counters | add, remove, trim, rebuild | several objects per queue, created and deleted concurrently |
| `Algorithms.hpp`, `*QueueAlgorithms.hpp` | - | referenceAndSwitchOwnership, popNextBatch | batches that half succeed |
| `ArchiveRequest`, `RetrieveRequest` | jobs: owner, status, retry counts | owner and status updates, failures, next step | several copies in one object; stale copies in memory |
| `RepackRequest`, `RepackQueue`, `RepackIndex` | repack progress | expand, report | long protocols over several objects |
| `scheduler/OStoreDB`, `MemQueues`, `Scheduler` | in-memory batches, thread pools | queue, pop, report, fail, cancel | leader/follower batching, bottom halves in other threads |
| `tapeserver/daemon` | process tree, session states | fork, timeouts, signals, shutdown | timeouts racing exits, restarts |
| `tapeserver/castor/.../daemon` | pipelines of tasks and memory blocks | inject, read, write, report | many threads, end-of-session protocols |
| `catalogue`, `rdbms` | database | transactions | delegated to the database |
| `xroot_plugins`, `cmdline`, `disk`, `mediachanger`, `python`, ... | - | I/O, parsing, formatting | little control of their own |

How they interact.  A frontend process queues a request: it creates the request
object, lists it in its own *agent object*, and a bottom half in another thread
references each copy in the queue of its tape pool.  A tape session pops a batch
of jobs from that queue, writes the files, records them in the catalogue, then in
the requests, and the last copy of a file to be written is put on a report queue.
The maintenance processes pop the report queues and answer the disk system; they
also run the garbage collector, which watches the heartbeats of all agents and
returns what a dead one owned to the queues.  There is no other communication: a
process learns what another one did by reading the objects it left behind.

What makes each part correct:

* *ownership protocol* (agents, queues, container algorithms, garbage collector):
  no object is ever out of reach of the next process; no job is in the hands of
  two processes; what a dead process owned comes back;
* *request life* (archive request, OStoreDB, reporting): success is reported only
  for a file that is safe, each request is answered, with one verdict, and the
  number of attempts is bounded;
* *agent reference*: changes to a list are applied in the order asked for, none is
  lost when they are batched, and the caller waits for its own;
* *queues*: counters, shards and references agree after a crash at any point; a
  queue deleted while somebody looks it up does not swallow a job;
* *tape daemon*: every child is reaped or killed, a drive is never served by two
  sessions, shutdown ends;
* *session pipelines*: every task is executed or failed, every memory block comes
  back, the session ends with exactly one end-of-session report.

The parts left aside, with the reasons, are listed with their status in
`PROJECT.json` ("components").

## 2. Modules

| Module | What it is |
|---|---|
| `ObjectOwnership` | the ownership protocol for archive requests: agents, register, queues, requests, collector |
| `ObjectOwnershipInd` | its inductive invariant, in named parts |
| `MCObjectOwnership` | instances for TLC |
| `OwnershipAgentProofs` | proofs about agents and the register: `AgentInv`, `TypeOK`, `AgentIsReachable` |
| `OwnershipJobProofs` | proofs about queues and jobs: `JobInv`, `QueuedJobIsReferenced`, `HolderIsOwner`, `HandoverByOwnerOrCollector` |
| `OwnershipListProofs` | proofs about ownership lists: `ListInv`, the whole of `IndInv`, `OwnedJobIsListed` |
| `ArchiveJobs` | the life of one user request: statuses, retries, reports |
| `ArchiveJobProofs` | proof of `SuccessCoversEveryCopy` |
| `ArchiveStatusProofs` | proofs about statuses, queues, the catalogue and the retry limits |
| `MCArchiveJobs` | instances for TLC |
| `AgentUpdates` | what an agent reference promises to the threads of its process |
| `AgentReference` | how it keeps the promise: batches, leaders, followers; the heartbeat thread and a collector; refines `AgentUpdates` |
| `AgentReferenceProofs` | proofs about queues, leaders and followers |
| `AgentRefinementProofs` | proof that `AgentReference` implements `AgentUpdates` |
| `MCAgentReference` | instance for TLC |
| `TapeDaemon` | the processes of a tape server: main loop, handlers, drive sessions, maintenance |
| `TapeDaemonProofs` | proofs about children, the exit of the daemon, and tapes left in drives |
| `MCTapeDaemon` | instances for TLC |

`ObjectOwnership` leaves the statuses out (a job may go to any queue its statuses
can lead to); `ArchiveJobs` leaves the two-step change of owner out (it is one
step).  Each is an abstraction of the other's subject, so neither has to carry the
product of the two state spaces.  `ObjectOwnership` also relies on the other two: it
has each change of an ownership list as one write, in the order of the calls, which
is what `AgentReference` is shown to provide to the threads of a process, and it has
processes that stop or run, while `AgentReference` looks at one that stalls and
wakes up after its agent was collected.  The processes that die in `ObjectOwnership`
are the children of `TapeDaemon`.

### ObjectOwnership

State in the store: `agents` and `untracked` are the two sets of the agent
register; `agentObjs`, `agOwner` and `owned` are the agent objects with their
header owner and ownership list; `reqs` are the request objects and `jobOwner` the
owner recorded in each job; `refs` are the references in each queue.  State in the
memory of a process: `pc` and the fields of the operation it is in.  `image` is
its copy of the request it has locked - it matters because
`ObjectOps::commit` writes the whole payload back.  `todo`, `ok`, `gone`, `err`
are the elements of a batch by the outcome of their update.

One action is one committed write, or one section under a lock with one write:

| Code | Actions |
|---|---|
| `Agent::insertAndRegisterSelf`, `removeAndUnregisterSelf`, `~BackendPopulator` | `RegisterAgent`, `InsertAgent`, `Shutdown`, `Unregister` |
| `OStoreDB::queueArchive` | `CreateOwn`, `CreateInsert`; bottom half `CreateRelock` (or `CreateRelockGone`), then `CreateLink` and `CreateCommit` for each copy, `CreateRelease`, `Unown` |
| `OStoreDB::cancelArchive` | `Cancel` |
| `ContainerAlgorithms::popNextBatch` | `PopSelect`, one `Switch...` per element, `PopFinish`, `Unown` |
| `referenceAndSwitchOwnership` | `Requeue`, one `Switch...` per element, `RequeueFinish`, `Unown` |
| `ArchiveRequest::asyncUpdateJobOwner` over `Backend::AsyncUpdater` | `SwitchOwner`, `SwitchRefused` (gone, or another owner), `SwitchTimeout`, `SwitchError`, `SwitchUnlockFailed` (written, then `CouldNotUnlock`) |
| end of a job | `Complete`, `DeleteReported`, `DeleteFailed`, `LeaveOwned` |
| `GarbageCollector::cleanupDeadAgent` | `GcClaim`, `GcTake`, `GcTrack`, `GcFetchAndSort`; batches `GcReference`, `Switch...`, `GcFinish`, `GcDrop`; one by one `GcOtherSkip`, `GcUntrack`/`GcSetOwner` (agents), `GcLock`/`GcLink`/`GcCommit`/`GcOrphan`/`GcUnlock` (requests), `GcOtherDrop`; then `GcRemove`, `GcUnregister`, or `GcStillOwns` |
| death of a process | `Crash`: locks and memory go, objects stay |

Locks are not variables: who holds one follows from where the processes stand
(`ReqFree`, `QueueFree`, `AgentFree`, `RegisterFree`).

`PopSelect` has one guard that no line of `popNextBatch` tests, `NoJobYet`: a process
pops no job of a request of which it has one already.  A session pops from one tape
pool's queue, on which siblings never are.  A reporter is rid of its batch before it
pops the next; a requeue that fails does not change this, because it ends the
reporter: `reportArchiveJobsBatch` catches `NoSuchObject` only, and everything else
leaves `MaintenanceHandler::exceptionThrowingRunChild` with the process.

### ArchiveJobs

One request with `NbCopies` jobs.  `status`, `owner` and the retry counters are
the fields of each job, `reportDecided` and `failed` those of the request;
`onTape` is what the catalogue has recorded; `successes` and `failures` count what
the disk system was told.  A session goes through `transferring` - `written` (the
catalogue is updated) - `enqueue`; a reporter through `reporting` - `reported`.

| Code | Actions |
|---|---|
| `getNextJobBatch`, `getNextArchiveJobsToReportBatch` | `PopForTransfer`, `PopForReport` |
| `ArchiveJob::failTransfer`, `addTransferFailure`, `determineNextStep` | `FailTransfer`, then `Enqueue` |
| `ArchiveMount::reportJobsBatchTransferred` | `UpdateCatalogue`, then `SucceedTransfer` and `Enqueue`, or `LoseUpdate` and `FailMove` |
| `Scheduler::reportArchiveJobsBatch` | `SendReport`, `FailReport`, `RefuseReport` |
| `setArchiveJobBatchReported` | `RecordReported` |
| `cancelArchive`, `deleteFailed` | `CancelArchive`, `DeleteFailed` |
| a process stops; its jobs are collected | `Stop`, `GarbageCollect` |

Two places where the code does something other than its comments say are modelled
as the code is: the test of `reportdecided` in a payload that was never fetched
(`MarkTransferred`), and `addReportFailure` answering for the first job of the
request whichever was meant (`FirstJob`).

### AgentReference and AgentUpdates

The threads of a process share one agent object.  A thread that finds no queue
listed lists one and leads it; the others join the listed queue and wait.  The leader
waits for the queue before its own, carries out its own action and then the
followers', in one write under the lock of the agent object, releases the next queue,
and answers its followers.

| Code | Actions |
|---|---|
| `queueAndExecuteAction`, entering | `Join` (follower), `Lead` (leader, leaves a promise for the next) |
| waiting for the previous queue, unlisting its own | `Unlist` |
| lock, fetch, the test of `isBeingGarbageCollected` | `LockAndFetch` (the process exits if its agent was taken) |
| `appyAction`, the leader's action first, then its followers' | `ApplyNext` |
| `resetOwnership`, commit | `Commit`; `BatchFails` for every exception on the way |
| promises set, or given the exception | `ReleaseNext`, then `ReleaseFollower` for each, `AllReleased` |
| back in the caller | `Return`; `HeartbeatGivesUp` (late, or failed: `AgentHeartbeatThread::run`) |
| `AgentWatchdog::checkAlive`, `cleanupDeadAgent` | `WatchdogSeesBeat`, `TakeAgent`, `FinishCollection`, `CollectorDies` |

`AgentUpdates` has no batches and no locks: calls are pending in the order of
arrival, any number of the oldest is recorded or refused together, and nothing is
recorded once the agent is frozen.  The refinement mapping makes the pending calls of
the batch being carried out, followed by the listed queue; a batch takes effect when
it is written, and the answers of its followers are then what their leader's is,
although they have not been told yet.

Time is left out: a watchdog may find the counter still, and a heartbeat may be late,
at any moment.  The code's numbers do not exclude it: a heartbeat every 30 s that may
take up to its deadline of 60 s can leave the counter still for 150 s, and the
collectors give up after 120 s.

### TapeDaemon

The main loop (`ProcessManager::run`) goes round its parts, and the children take
their steps in between.

| Code | Actions |
|---|---|
| `runSigChildManagement`, `processSigChild` of the handlers | `SigChildManagement` |
| `runShutdownManagement`, `shutdown` of the handlers | `ShutdownManagement` (`ShutdownAll`, or `ShutdownFails` when the catalogue cannot be opened) |
| `runKillManagement`, `kill` | `KillManagement` |
| `runForkManagement`, `fork` | `ForkManagement` (`ForkAll`: any of the forks asked for may fail) |
| `runEventLoop`: timeouts, then one event per file | `Timeouts`, `Epoll` |
| `DriveHandler::runChild` | `RunChild` (`SessionKind`: transfer, put down, cleaner), `StorageFails` |
| `DataTransferSession::execute` | `SeeDown`, `SeeUp`, `Probe`, `Schedule` |
| tape threads, `~TapeCleaning` | `MountTape`, `RunTape`, `Unload`, `Dismount`, `UnmountFails` |
| end of a child | `Leave`, `Crash`, `Hang`, `MaintenanceStops`, `MaintenanceCrashes`, `MaintenanceHangs` |
| outside | `Terminate` (SIGTERM), `OperatorPutsUp`, `ClockRunsOut`, `KillClockRunsOut` |

Handlers have the fields of `ProcessingStatus` and of the previous session; a
session's reports wait in `reports` until `Epoll` reads them, one at a time, so that
a crash may overtake what was said before it.  Pending signals are a set, as the
kernel merges them.  A clock that is armed may run out at any moment.

Of the VID in a report only whether it is empty is kept, and it always is
(`ReportedVid`): the `TapeServerReporter` copies the volume when the session starts,
before the mount is known.  `SessionKind` follows `runChild` through all its branches;
the one that is taken after a crash with a tape is "VID is missing. Putting the drive
down", and what a cleaner session does is left out because none is ever started
(`NoCleanerStarts`).

Faults are of eight kinds, and a behaviour has at most `MaxFaults` of them.  Crashes,
hangs, a failing unmount and an operator in a hurry happen once each; a storage, a
catalogue or a fork that fails may go on failing, for one handler or all, as often as
it likes (`Trouble`).  An operator may put a drive up at any moment; when the session
has not seen the drive down yet this is the fault `hasty`, since the properties have
to except it.

One assumption is the model's own.  `ReportsRead`: the robot takes longer to mount
a tape than the main loop to read the reports sent before, so the handler knows of
the mount when there is a tape.

Operators marked "Faulty" or "Variant" in the modules are not part of the specifications: each
is a plausible mistake in the definition that follows it, and `PROJECT.json`
("mutants") says which property notices it.

## 3. Properties and runs

| Run | Instance | Shows |
|---|---|---|
| `OwnershipTwoCopies` | 1 request, 2 copies on different queues, 2 workers, 1 collector, 2 deaths, 1 unlock failure | `OwnedJobIsListed`, `HolderIsOwner` |
| `OwnershipTwoRequests` | 2 requests on one queue, 2 deaths, 2 errors | `QueuedJobIsReferenced`, `HandoverByOwnerOrCollector`, `IndInv` |
| `OwnershipLive` | 1 frontend, 1 worker, 2 collectors, 2 deaths, under fairness | `TypeOK`, `AgentIsReachable`, `DeadAgentsAreCollected` |
| `OwnershipUnlockFailure` | 1 unlock failure, nothing else | violates `QueuedJobIsReferenced` |
| `OwnershipPartialFailure` | 2 copies, 1 death, 1 error | violates `ListedUntilIndividuallyCollected` |
| `ArchiveOneCopy` | 1 copy, 3 sessions, 2 reporters, 3 failed reports, 1 failed update, 1 stop, under fairness | `TypeOK`, `RepeatsAreExplained`, `ReportRetriesAreBounded`, `FinallyAnswered` |
| `ArchiveTwoCopies` | 2 copies, 2 sessions for each, 2 reporters, 1 failed report, 1 stop, under fairness | `StatusMatchesQueueUndisturbed`, `TransferredIsOnTape`, `SomeoneWillReport`, `SuccessCoversEveryCopy`, `FinallyAnswered` |
| `ArchiveTwoVerdicts` | 2 copies, no fault but failing transfers | violates `OneVerdict` |
| `ArchiveWrongJobFailed` | 2 copies, 1 failed report | violates `StatusMatchesQueue` |
| `AgentBatches` | 2 threads and the heartbeat, 3 calls, 1 failed batch, 1 dead collector, under fairness | `TypeOK`, `ListedUntilItsTurn`, `CallsAreOrdered` (refinement of `AgentUpdates`), `EveryCallReturns`, `CollectedProcessExits` |
| `TapeDaemon` | 1 drive and maintenance, any 2 of 8 kinds of fault, SIGTERM at any moment, under fairness | `TypeOK`, `NoChildLeftBehind`, `OneChildEach`, `NoMountOverTape`, `DrivesLeftDown`, `NoCleanerStarts`, `TermEndsDaemon`, `HungSessionEnds`, `DeadChildrenReaped` |
| `TapeLostVid` | 1 drive, a crashed session | violates `CleanerAfterCrash` |

Bounds.  Two deaths are what it takes for a collector to be collected in the middle
of a collection, and a third one repeats the situation.  Two copies are the
smallest number for which one object is shared by two owners, and CTA is operated
with one or two.  Two requests on a queue are enough for a batch that half
succeeds.  A second queue for a copy (`qr`, the report queue) lets it change
queues.  In `ArchiveJobs` the limits are all 2, so that there is an attempt below
the limit, one reaching it, and room for one beyond it; three sessions let a job
be retried within a mount, in another mount, and after a death.  In `AgentReference`
two threads and the heartbeat are enough for a batch being carried out, a listed queue
with a follower, and a thread still to come; one object suffices because actions on
different objects do not interact, and an addition and a removal of the same one show
any change of order.  In `TapeDaemon` the handlers of two drives meet only in the
main loop; the drive and the maintenance process are already two children whose
deaths, signals and forks mix, and whose forks may all fail at once.  Two kinds of
fault are what it takes for a recovery to go wrong: a crash with a tape, and a drive
that cannot be put down after it.  Symmetry is used between workers, in a
run without liveness.

With two copies, a report or an update after the catalogue's that fails may leave a
request waiting for a sibling that is `Complete` (finding 2).  `SomeoneWillReport`,
`TransferredIsOnTape`, `StatusMatchesQueueUndisturbed` and, for several copies,
`FinallyAnswered` therefore speak of requests to which that has not happened
(`Undisturbed`).  `SuccessCoversEveryCopy` needs no such condition, and is proved
without.

Deadlock is not checked: all processes may have stopped, an answered request has
nothing left to do, and a daemon that has exited does nothing more.

Fairness.  In `ObjectOwnership` a running process carries on with the operation it
has started (`Continue`), and the maintenance loop looks for dead agents again and
again; fairness is strong because a lock that is free again and again is finally
got - the backends retry with a back-off and keep no queue of waiters.  Nothing
obliges a process to start, create, pop or shut down.  `DeadAgentsAreCollected`
assumes that some maintenance process keeps running: when all of them stop, so does
garbage collection, in the code as well.  In `ArchiveJobs`, sessions and reporters
that have not stopped keep serving their queues (the loops of the tape daemon and of
`MaintenanceHandler`), and dead agents are collected, which is what the other
module shows.  In `AgentReference` the threads run, the heartbeat thread keeps beating
(its loop has no other exit), and a collector that has taken the agent goes on or
dies; nothing makes a thread call or a watchdog give up.  In `TapeDaemon` the main
loop goes round, children that do not hang take their steps, and time passes; faults,
operators and SIGTERM are owed to nobody.

What the properties of `TapeDaemon` do not claim is what the code does not do.

* `NoChildLeftBehind` and `DrivesLeftDown` are for a daemon that reaches the catalogue
  when it shuts down: `DriveHandler::shutdown` opens it unguarded, and the exception
  leaves the loop with the later drives not reached; a put-down that fails is only
  logged.
* `DrivesLeftDown` excepts a daemon all of whose forks fail in one pass.  The comments
  of both `fork` functions say of a failed fork that the SIGTERM the handler sends
  itself "will ensure the shutdown-kill sequence" (`DriveHandler.cpp:128-130`,
  `MaintenanceHandler.cpp:67-69`).  But when every handler has failed, every one is
  complete, and `runSigChildManagement` or `runShutdownManagement` exits before or
  without the shutdown (`ProcessManager.cpp:226-235`), with the drives as they were.
  Nor does it speak of an operator who puts a drive up again after the shutdown.
* `NoMountOverTape` is for sessions that do not die before their first report (their
  successors do not know that they were the first, or waiting), that can put their
  drive down when they have to, and for operators who wait until a session has seen
  the drive down, which is what makes it probe the drive.
* `TermEndsDaemon` leaves out a daemon one of whose drives has reported `Fatal`: that
  request is never cleared, each round then overwrites the kill that the signal
  handler asks for, and with a hung maintenance process the daemon never ends.
* `HungSessionEnds` speaks of the states with a timeout, which the time before the
  first report is not.

## 4. What does not hold

1. *Two verdicts* (`ArchiveTwoVerdicts`).  One copy fails for good and is reported;
   the other is then transferred and reported as a success, because
   `asyncUpdateTransferSuccessful` looks for `reportdecided` in a payload that was
   never fetched (`ArchiveRequest.cpp:721`).  The request is deleted with it.
2. *The wrong job fails* (`ArchiveWrongJobFailed`).  `addReportFailure` returns in
   the first round of its loop (`ArchiveRequest.cpp:183`): when the success report
   of the second copy fails once, that copy becomes `Complete` and sits on the
   report queue.  If the process stops just then, the request is never answered:
   `FinallyAnswered` has an exception for this.
3. *A reference taken back* (`OwnershipUnlockFailure`).  A `CouldNotUnlock` after a
   written update is taken for a failure when a job is put on a queue
   (`Algorithms.hpp:67`, `:151`), and for a success when it is popped (`:400`).
4. *Unlisted too early* (`OwnershipPartialFailure`).  The set of requests to collect
   one by one is forgotten between two batches (`GarbageCollector.cpp:562`).
5. *The lost VID* (`TapeLostVid`).  After a crash with a tape in the drive the next
   session "will be a cleaner session" (`DriveHandler.cpp:787-789`).  It never is: the
   `TapeServerReporter` sends the VID of a copy of the volume made before the mount
   was known (`TapeServerReporter.hpp:147`, `DataTransferSession.cpp:107` and `:205`),
   so the VID is empty and the drive is put down instead (`DriveHandler.cpp:902-927`).
   The same goes for the cleaner of `DriveHandler::shutdown`.  Nothing is mounted over
   the tape; it waits for the operator.

## 5. Proofs

The theorems hold for every value of the constants.  Those about `ObjectOwnership`
are for any number of processes, requests, copies and queues and for any bounds on
deaths, errors and failed unlocks, under the assumptions named in the module: the
kinds of names are disjoint, and two copies of one request never share a queue (`SiblingsDoNotShareQueues`, which
`ArchiveRequest::commit` enforces by refusing two copies with one tape pool).

| Theorem | Statement |
|---|---|
| `TypeCorrect` | `Spec => []TypeOK` |
| `AgentsStayReachable` | `Spec => []AgentIsReachable` |
| `QueuedJobsAreReferenced` | `Spec => [](unlockFailures = 0 => QueuedJobIsReferenced)` |
| `HoldersAreOwners` | `Spec => []HolderIsOwner` |
| `HandoverIsSafe` | `Spec => HandoverByOwnerOrCollector`: the step is one in which the owner, or the collector of the dead owner, lets go of the job |
| `OwnedJobsAreListed` | with one copy per request, or without failed accesses and unlocks, `Spec => []OwnedJobIsListed` |
| `IndInvariant` | under the same condition, `Spec => []IndInv` |
| `SuccessIsSafe` (`ArchiveJobs`) | `Spec => []SuccessCoversEveryCopy` |
| `AttemptsAreBounded` | with one copy, or while no report and no move has failed, `TypeOK`, which bounds the attempts |
| `QueuesTellTheStatus` | `Spec => []StatusMatchesQueueUndisturbed` |
| `CatalogueIsAhead` | `Spec => []TransferredIsOnTape` |
| `SiblingsDoNotAllWait` | `Spec => []SomeoneWillReport` |
| `ReportsAreGivenUp` | with one copy, `ReportRetriesAreBounded` |
| `RepeatedReportsAreExplained` | with one copy, `RepeatsAreExplained` |
| `AgentReferenceTyped` (`AgentReference`) | `Spec => []TypeOK` |
| `LeadersTakeTurns` | `Spec => []ListedUntilItsTurn` |
| `BatchesImplementPromise` | `Spec => CallsAreOrdered`, the refinement of `AgentUpdates` |
| `DaemonTyped` (`TapeDaemon`) | `Spec => []TypeOK` |
| `HandlersForkOnce` | `Spec => []OneChildEach` |
| `ExitLeavesNoChild` | `Spec => []NoChildLeftBehind` |
| `ExitLeavesDrivesDown` | `Spec => []DrivesLeftDown` |
| `MountsFindDriveEmpty` | `Spec => []NoMountOverTape` |
| `CleanerNeverStarts` | `Spec => []NoCleanerStarts` |

The conditions are not there for convenience.  Findings 3 and 4 are what happens to
`ObjectOwnership` without them.  Finding 2 is behind those on `ArchiveJobs`: with two
copies, once a report has failed `addReportFailure` gives a copy the status of the
first one.  A copy out of attempts may then be tried again (`TypeOK`), the failures of
the second copy's reports are never counted (`ReportRetriesAreBounded` says nothing of it), and both
verdicts may be sent (`RepeatsAreExplained`).

For `ObjectOwnership` the argument is one inductive invariant in three layers, each proved from those
before it, and each checked by TLC first (`IndInv`).

* `AgentInv`.  That an agent object is reachable is not inductive: it depends on
  where a collector stands with the agent it collects.  `CollectorOwnsTarget` says,
  for each step of a collection, which of the three links (list of the collector,
  owner of the agent, untracked set) exist, so that every prefix of the steps leaves
  a way to the agent; `AgentLife` ties the object to the life of its process;
  `LockExclusion` says that two collectors never work on one agent;
  `DroppedAgentsLeft` that an address is unlisted only when it has ceased to matter.
* `JobInv`.  A queue drops the references of exactly those jobs that are not its
  own, so the invariant records, for each outcome in a batch, who the owner is
  (`Popping`, `Requeueing`, `Returning`), that references are only ever on queues
  that fit (`ReferencesFit`, with which a removal by address cannot hit a sibling),
  and that a process that writes a whole request back has a current copy of it
  (`ImageIsCurrent`, `Creating`) although it did not fetch it again.  Two parts hold
  only while no update was written and then failed to unlock (`unlockFailures = 0`):
  that a failed update has not changed the owner, and with it that queued jobs are
  referenced.  Who holds a job and who may hand it over does not depend on them.
* `ListInv`.  An address leaves a list only when no job of it is left
  (`DroppedRequestsLeft`).  For a collector this needs to know that all the jobs
  of a request went through its batches (`NothingSkipped`), or that there is only
  one.  A failure to switch an owner, real or reported, sends a request down the path
  on which requests are collected one by one, so the first is for runs without any
  (`NoFailures`).

The proof that a step keeps a layer has one step per action; what an action leaves
alone is settled by lemmas on groups of actions.

For `ArchiveJobs`, `SuccessCoversEveryCopy` speaks of a message already sent, so the
invariant `Settled` has to follow the verdict back to where it was decided.  Call a
copy done when it is on tape or out of attempts: nothing makes a done copy undone.
`Settled` says that every status but `ToTransfer`, a place on the report queue or on
the way to it, and a reporter at work all stand for a copy that is done, and that the
status `ToReportTransfer` and a reporter about to send a success stand for all copies
being done, because `OtherJobsToTransfer` was read under the lock of the request.  It
holds with any number of lost updates, failed reports and stops, which is more than
the runs have.  It assumes that the names of processes are not names of queues (`NamesAssumption`).

The statuses of a request are a second invariant on top of it, `Reliable`, which has
three parts.  `Tally` are the remaining types.  `InOrder` says of each process what
the status of the job in its hands is at each step, which report it is about to send,
that it is the job's one owner and has not stopped, and that the queue it has chosen
fits the status; `Accurate` says of each copy that its queue, its attempts and the
catalogue fit its status.  The two need each other: the status is written before the
queue, so what a queue promises comes from the process that is about to fill it, and
what the process knows comes from the queue it popped from.  `SomeoneLeft` is the
argument of two sessions finishing together: the last one under the lock sees no
sibling left to transfer.  All of it is relative to `Trusted`: one copy, or no failed
report or move yet.  For one copy, `OneCopy` adds the report: `Accounted` counts the
messages sent against the reporters that stopped in between and the failures seen,
which takes the cardinality of the set of processes that have ended, and `GivenUp` ties
the failed reports to the status.

For `AgentReference`, `Chain` says that one leader waits and its queue is the listed
one, that one batch is carried out, and that the promises lead from the second to the
first; `Followers` that each follower stands in one place of one queue whose leader is
there; `Known` that actions and answers are what they should be and that the leader
which holds the lock has in hand the list in the store with the first of its batch
applied.  The last is why the list is changed one action at a time, as in the code,
and not by one operator over the batch: what the whole batch does follows from the
steps, without an induction over sequences.  For the refinement the calls pending are,
in order, those of the batch and those of the listed queue, and each step is one of
`AgentUpdates` or none: entering appends a call, `Commit` records the oldest calls,
`BatchFails` refuses them, `Return` returns, and what is left only passes the
answer on.  The theorem covers the whole specification, since `AgentUpdates` states no
fairness: that every call returns is a property of its own.

For `TapeDaemon`, `Children` says that a handler which asks for a fork, or says that
its shutdown is complete, has no child.  `Orderly` is about the ways out of the main
loop: a shutdown that has gone round leaves all drives down and complete; a handler
that is complete without one is one whose fork failed, and then either a SIGTERM is
on its way and some handler keeps the loop going until it is obeyed, or all of them
have failed; a kill is only asked for after a shutdown.  `Watched` is about the tape:
what the handler knows from the reports read covers what is in the drive (`Informed`),
and a session that would take an empty drive for granted has one, or the drive is down
(`Guarded`).  The second holds as long as no session has ended unheard and no operator
was in a hurry.  `Unnamed` follows the VID: no report under way, no handler and no
record of a previous session has one.

The theorems about `ArchiveJobs` are for any number of copies, sessions, reporters and
faults, those about `AgentReference` for any number of threads, objects, calls and
faults, those about `TapeDaemon` for any set of drives and of faults, with any number of failed
forks.  The invariants
were checked by TLC before they were proved, on instances of the runs.

Only model-checked: the liveness properties (`DeadAgentsAreCollected`,
`FinallyAnswered`, `EveryCallReturns`, `CollectedProcessExits`, `TermEndsDaemon`,
`HungSessionEnds`, `DeadChildrenReaped`), because fairness and `ENABLED` are outside
the prover's reach; and `OwnedJobIsListed` for requests with several copies when an
unlock fails, which holds with two copies (`OwnershipTwoCopies`).

## 6. Not modelled, and the plan

Hazards without a property are listed in `PROJECT.json` with the reason.  In order:

1. Theorems: an abstract specification "a job has one owner, or is being handed over",
   and `ObjectOwnership` shown to implement it; what remains true of a request with
   several copies after a failed report.
2. Queue objects: `RootEntry`, `Helpers::getLockedAndFetchedQueue`,
   `trimEmptyQueues`, shards and their crash consistency.
3. The migration session: injector, memory blocks, disk and tape threads, report
   packer; ends under every error, all blocks back.
4. `RetrieveRequest`: one active copy at a time, next copy on failure.
5. `MemQueues`: leader and followers, much like `AgentReference`.

Left to other tools: the bytes written to tape and the SCSI commands, SQL (the
catalogue and its schemas are the larger part of the repository), parsing and
formatting in the frontend and the command line, and the tests themselves.  These
make up most of the lines, and have little control of their own to model: what is
modelled is a small share of the repository and the part in which the order of the
steps of several processes decides whether files are lost.
