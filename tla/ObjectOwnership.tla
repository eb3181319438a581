--------------------------- MODULE ObjectOwnership ---------------------------
(***************************************************************************)
(* The ownership protocol of the CTA object store (src/objectstore), for   *)
(* archive requests.                                                       *)
(*                                                                         *)
(* Every process of CTA has an agent object in the store, entered in the   *)
(* agent register.  Each job of an archive request has one owner: a queue  *)
(* object, or the agent of the process working on it.  Whoever owns a job  *)
(* must also point to it - a queue by a reference, an agent by the         *)
(* ownership list of its agent object - because the store cannot be        *)
(* searched: a job nobody points to is lost.  The two sides are distinct   *)
(* objects, each written atomically under its own lock, and a process may  *)
(* die between the two writes; the garbage collector of another process    *)
(* then returns what the dead agent owned to the queues.                   *)
(*                                                                         *)
(* One action is one committed write, or one lock-protected section whose  *)
(* only effect on the store is one write.  Processes are fail-stop: an     *)
(* agent is collected only after its process has stopped (a stalled        *)
(* process is the subject of Agent::isBeingGarbageCollected, and is not    *)
(* modelled here).  Job statuses are abstracted to the set of queues a job *)
(* may be put on; ArchiveJobs models the statuses.                         *)
(***************************************************************************)
EXTENDS Naturals, FiniteSets

CONSTANTS
    Frontends,       \* processes that create and cancel requests
    Workers,         \* tape sessions and reporters: pop jobs and requeue them
    Collectors,      \* maintenance processes running the garbage collector
    Requests,        \* addresses of archive requests
    Jobs,            \* jobs: one per copy of a request
    Queues,          \* archive queues, all kinds
    RequestOf,       \* the request of a job
    QueuesOf,        \* the queues the statuses of a job can lead it to
    TransferQueueOf, \* the queue a job is put on when its request is created
    Register,        \* the address of the agent register
    NoOwner,         \* the empty owner string of a completed job
    None,            \* "no lock held", "no object worked on"
    MaxCrashes,      \* bound: processes that may die
    MaxErrors,       \* bound: object store accesses that may fail
    MaxUnlockFailures \* bound: updates committed but followed by CouldNotUnlock

Agents == Frontends \cup Workers \cup Collectors
Owners == Agents \cup Queues \cup {NoOwner}

ASSUME ConstantsAssumption ==
    /\ Frontends \cap Workers = {}
    /\ Frontends \cap Collectors = {}
    /\ Workers \cap Collectors = {}
    /\ Agents \cap Queues = {}
    /\ Agents \cap Requests = {}
    /\ NoOwner \notin Agents \cup Queues
    /\ Register \notin Agents
    /\ None \notin Agents \cup Queues \cup Requests
    /\ RequestOf \in [Jobs -> Requests]
    /\ QueuesOf \in [Jobs -> SUBSET Queues]
    /\ TransferQueueOf \in [Jobs -> Queues]
    /\ \A j \in Jobs : TransferQueueOf[j] \in QueuesOf[j]

ASSUME BoundsAssumption ==
    MaxCrashes \in Nat /\ MaxErrors \in Nat /\ MaxUnlockFailures \in Nat

\* ArchiveRequest::commit refuses two jobs with the same tape pool, and the
\* queues of a user's request are kept by tape pool or by tape.  It matters:
\* queues drop references by the address of the request, not by copy.
ASSUME SiblingsDoNotShareQueues ==
    \A j1, j2 \in Jobs :
        RequestOf[j1] = RequestOf[j2] /\ j1 # j2 => QueuesOf[j1] \cap QueuesOf[j2] = {}

JobsOf(r) == {j \in Jobs : RequestOf[j] = r}
RequestsOf(S) == {RequestOf[j] : j \in S}
\* The jobs a queue forgets when it removes references for the jobs in S.
SameAddress(S) == {j \in Jobs : RequestOf[j] \in RequestsOf(S)}

VARIABLES
    agents,     \* AgentRegister: all registered agents
    untracked,  \* AgentRegister: the agents no collector has taken over
    agentObjs,  \* the agent objects in the store
    agOwner,    \* header owner of an agent object: the register or a collector
    owned,      \* ownership list of an agent object: addresses
    created,    \* request addresses already used
    reqs,       \* the archive requests in the store
    jobOwner,   \* the owner recorded in each job
    orphans,    \* jobs given up with an error log (history variable)
    refs,       \* the references held by each queue
    proc,       \* life of each process
    pc,         \* where its current operation stands
    lockq,      \* the queue it has locked
    cur,        \* the single object it works on
    image,      \* its in-memory copy of the owners in the request it has locked
    target,     \* the dead agent a collector cleans up, locked
    todo, ok, gone, err,  \* the batch: owner updates to do, done, refused, failed
    held,       \* the jobs handed to the layers above by a pop
    pending,    \* collector: jobs of the target still to be requeued
    others,     \* collector: objects of the target to collect one by one
    drop,       \* addresses to take off an ownership list next
    crashes, errors, unlockFailures

register == <<agents, untracked>>
agentVars == <<agentObjs, agOwner, owned>>
requestVars == <<created, reqs, jobOwner, orphans>>
batch == <<todo, ok, gone, err>>
gcVars == <<target, pending, others>>
faults == <<crashes, errors, unlockFailures>>
vars == <<register, agentVars, requestVars, refs, proc, pc, lockq, cur, image,
          batch, held, gcVars, drop, faults>>

-----------------------------------------------------------------------------
(***************************************************************************)
(* Locks.  Backend locks belong to a process and go with it, so who holds  *)
(* a lock is a function of where each running process stands.              *)
(***************************************************************************)
Up(p) == proc[p] = "up"
\* The bottom half of queueArchive and ArchiveRequest::garbageCollect keep the
\* request locked while they link its jobs.
Linking == {"link", "commit", "glink", "gcommit"}
ReqFree(r) == \A p \in Agents : ~(pc[p] \in Linking /\ cur[p] = r)
QueueFree(q) == \A p \in Agents : lockq[p] # q
AgentFree(a) == \A g \in Collectors : target[g] # a
\* insertAndRegisterSelf keeps the register locked until the object is in.
RegisterFree == \A p \in Agents : proc[p] # "starting"

NoJobs == [j \in Jobs |-> NoOwner]

Init ==
    /\ agents = {} /\ untracked = {} /\ agentObjs = {}
    /\ agOwner = [a \in Agents |-> Register]
    /\ owned = [a \in Agents |-> {}]
    /\ created = {} /\ reqs = {} /\ orphans = {}
    /\ jobOwner = NoJobs
    /\ refs = [q \in Queues |-> {}]
    /\ proc = [p \in Agents |-> "unborn"]
    /\ pc = [p \in Agents |-> "idle"]
    /\ lockq = [p \in Agents |-> None]
    /\ cur = [p \in Agents |-> None]
    /\ image = [p \in Agents |-> NoJobs]
    /\ target = [p \in Agents |-> None]
    /\ todo = [p \in Agents |-> {}] /\ ok = [p \in Agents |-> {}]
    /\ gone = [p \in Agents |-> {}] /\ err = [p \in Agents |-> {}]
    /\ held = [p \in Agents |-> {}]
    /\ pending = [p \in Agents |-> {}] /\ others = [p \in Agents |-> {}]
    /\ drop = [p \in Agents |-> {}]
    /\ crashes = 0 /\ errors = 0 /\ unlockFailures = 0

-----------------------------------------------------------------------------
(***************************************************************************)
(* Life of a process: Agent::insertAndRegisterSelf at start, at the end    *)
(* Agent::removeAndUnregisterSelf, or a request to be garbage collected    *)
(* when the agent still owns something (~BackendPopulator).                *)
(***************************************************************************)
RegisterAgent(p) ==
    /\ proc[p] = "unborn" /\ RegisterFree
    /\ proc' = [proc EXCEPT ![p] = "starting"]
    /\ agents' = agents \cup {p}
    /\ untracked' = untracked \cup {p}
    /\ UNCHANGED <<agentVars, requestVars, refs, pc, lockq, cur, image, batch, held,
                   gcVars, drop, faults>>

InsertAgent(p) ==
    /\ proc[p] = "starting"
    /\ proc' = [proc EXCEPT ![p] = "up"]
    /\ agentObjs' = agentObjs \cup {p}
    /\ agOwner' = [agOwner EXCEPT ![p] = Register]
    /\ UNCHANGED <<register, owned, requestVars, refs, pc, lockq, cur, image, batch, held,
                   gcVars, drop, faults>>

Shutdown(p) ==
    /\ Up(p) /\ pc[p] = "idle" /\ held[p] = {}
    /\ agentObjs' = IF owned[p] = {} THEN agentObjs \ {p} ELSE agentObjs
    /\ proc' = [proc EXCEPT ![p] = IF owned[p] = {} THEN "leaving" ELSE "down"]
    /\ UNCHANGED <<register, agOwner, owned, requestVars, refs, pc, lockq, cur, image, batch,
                   held, gcVars, drop, faults>>

Unregister(p) ==
    /\ proc[p] = "leaving" /\ RegisterFree
    /\ agents' = agents \ {p}
    /\ untracked' = untracked \ {p}
    /\ proc' = [proc EXCEPT ![p] = "down"]
    /\ UNCHANGED <<agentVars, requestVars, refs, pc, lockq, cur, image, batch, held,
                   gcVars, drop, faults>>

\* The process is gone: its locks and all it had in memory go with it.
Stop(p) ==
    /\ proc' = [proc EXCEPT ![p] = "down"]
    /\ pc' = [pc EXCEPT ![p] = "idle"]
    /\ lockq' = [lockq EXCEPT ![p] = None]
    /\ cur' = [cur EXCEPT ![p] = None]
    /\ image' = [image EXCEPT ![p] = NoJobs]
    /\ target' = [target EXCEPT ![p] = None]
    /\ todo' = [todo EXCEPT ![p] = {}] /\ ok' = [ok EXCEPT ![p] = {}]
    /\ gone' = [gone EXCEPT ![p] = {}] /\ err' = [err EXCEPT ![p] = {}]
    /\ held' = [held EXCEPT ![p] = {}]
    /\ pending' = [pending EXCEPT ![p] = {}] /\ others' = [others EXCEPT ![p] = {}]
    /\ drop' = [drop EXCEPT ![p] = {}]

Crash(p) ==
    /\ crashes < MaxCrashes
    /\ proc[p] \in {"starting", "up", "leaving"}
    /\ crashes' = crashes + 1
    /\ Stop(p)
    /\ UNCHANGED <<register, agentVars, requestVars, refs, errors, unlockFailures>>

\* AgentReference::removeFromOwnership / removeBatchFromOwnership, the last
\* step of every operation that gave objects away.
Unown(p) ==
    /\ Up(p) /\ pc[p] = "unown"
    /\ owned' = [owned EXCEPT ![p] = @ \ drop[p]]
    /\ drop' = [drop EXCEPT ![p] = {}]
    /\ pc' = [pc EXCEPT ![p] = "idle"]
    /\ UNCHANGED <<register, agentObjs, agOwner, requestVars, refs, proc, lockq, cur, image,
                   batch, held, gcVars, faults>>

-----------------------------------------------------------------------------
(***************************************************************************)
(* OStoreDB::queueArchive.  The top half lists the request, then inserts   *)
(* it with all its jobs owned by the agent.  The bottom half, in another   *)
(* thread, locks the request again and, job by job, references it in its   *)
(* queue and commits the new owner with the queue still locked.            *)
(***************************************************************************)
CreateOwn(f, r) ==
    /\ Up(f) /\ pc[f] = "idle"
    /\ r \notin created
    /\ created' = created \cup {r}
    /\ owned' = [owned EXCEPT ![f] = @ \cup {r}]
    /\ cur' = [cur EXCEPT ![f] = r]
    /\ pc' = [pc EXCEPT ![f] = "listed"]
    /\ UNCHANGED <<register, agentObjs, agOwner, reqs, jobOwner, orphans, refs, proc, lockq,
                   image, batch, held, gcVars, drop, faults>>

CreateInsert(f) ==
    /\ Up(f) /\ pc[f] = "listed"
    /\ reqs' = reqs \cup {cur[f]}
    /\ jobOwner' = [j \in Jobs |-> IF RequestOf[j] = cur[f] THEN f ELSE jobOwner[j]]
    /\ image' = [image EXCEPT ![f] = [j \in Jobs |-> IF RequestOf[j] = cur[f] THEN f ELSE NoOwner]]
    /\ pc' = [pc EXCEPT ![f] = "inserted"]
    /\ UNCHANGED <<register, agentVars, created, orphans, refs, proc, lockq, cur, batch, held,
                   gcVars, drop, faults>>

\* The lock is taken again, but the request is not fetched again.
CreateRelock(f) ==
    /\ Up(f) /\ pc[f] = "inserted"
    /\ cur[f] \in reqs /\ ReqFree(cur[f])
    /\ todo' = [todo EXCEPT ![f] = JobsOf(cur[f])]
    /\ pc' = [pc EXCEPT ![f] = "link"]
    /\ UNCHANGED <<register, agentVars, requestVars, refs, proc, lockq, cur, image, ok, gone,
                   err, held, gcVars, drop, faults>>

\* Cancelled meanwhile: the exception leaves the address listed.
CreateRelockGone(f) ==
    /\ Up(f) /\ pc[f] = "inserted"
    /\ cur[f] \notin reqs
    /\ cur' = [cur EXCEPT ![f] = None]
    /\ image' = [image EXCEPT ![f] = NoJobs]
    /\ pc' = [pc EXCEPT ![f] = "idle"]
    /\ UNCHANGED <<register, agentVars, requestVars, refs, proc, lockq, batch, held, gcVars,
                   drop, faults>>

CreateLink(f, j) ==
    /\ Up(f) /\ pc[f] = "link" /\ j \in todo[f]
    /\ QueueFree(TransferQueueOf[j])
    /\ lockq' = [lockq EXCEPT ![f] = TransferQueueOf[j]]
    /\ refs' = [refs EXCEPT ![TransferQueueOf[j]] = @ \cup {j}]
    /\ todo' = [todo EXCEPT ![f] = @ \ {j}]
    /\ ok' = [ok EXCEPT ![f] = {j}]
    /\ pc' = [pc EXCEPT ![f] = "commit"]
    /\ UNCHANGED <<register, agentVars, requestVars, proc, cur, image, gone, err, held, gcVars,
                   drop, faults>>

\* ObjectOps::commit writes the whole in-memory request back: the owners of
\* all its jobs, not only of the one just queued.
Relinked(p) == [j \in Jobs |-> IF j \in ok[p] THEN lockq[p] ELSE image[p][j]]
CommitRequest(p) ==
    /\ image' = [image EXCEPT ![p] = Relinked(p)]
    /\ jobOwner' = [j \in Jobs |-> IF RequestOf[j] = cur[p] THEN Relinked(p)[j] ELSE jobOwner[j]]
    /\ lockq' = [lockq EXCEPT ![p] = None]
    /\ ok' = [ok EXCEPT ![p] = {}]

CreateCommit(f) ==
    /\ Up(f) /\ pc[f] = "commit"
    /\ CommitRequest(f)
    /\ pc' = [pc EXCEPT ![f] = "link"]
    /\ UNCHANGED <<register, agentVars, created, reqs, orphans, refs, proc, cur, todo, gone,
                   err, held, gcVars, drop, faults>>

CreateRelease(f) ==
    /\ Up(f) /\ pc[f] = "link" /\ todo[f] = {}
    /\ drop' = [drop EXCEPT ![f] = {cur[f]}]
    /\ cur' = [cur EXCEPT ![f] = None]
    /\ image' = [image EXCEPT ![f] = NoJobs]
    /\ pc' = [pc EXCEPT ![f] = "unown"]
    /\ UNCHANGED <<register, agentVars, requestVars, refs, proc, lockq, batch, held, gcVars,
                   faults>>

\* OStoreDB::cancelArchive, run by any frontend at any time.
Cancel(r) ==
    /\ \E f \in Frontends : Up(f)
    /\ r \in reqs /\ ReqFree(r)
    /\ reqs' = reqs \ {r}
    /\ UNCHANGED <<register, agentVars, created, jobOwner, orphans, refs, proc, pc, lockq, cur,
                   image, batch, held, gcVars, drop, faults>>

-----------------------------------------------------------------------------
(***************************************************************************)
(* ContainerAlgorithms::switchElementsOwnership and the update callback of *)
(* ArchiveRequest::asyncUpdateJobOwner: each job of the batch is updated   *)
(* on its own, and the update goes through only if the owner is still the  *)
(* previous one (or is already the new one).                               *)
(***************************************************************************)
Switching == {"pop", "requeue", "gswitch"}
NewOwner(p) == IF pc[p] = "pop" THEN p ELSE lockq[p]
\* Faulty: a collector names itself instead of the dead agent.
PreviousOwnerSelf(p) == IF pc[p] = "pop" THEN lockq[p] ELSE p

PreviousOwner(p) == CASE pc[p] = "pop" -> lockq[p]
                      [] pc[p] = "requeue" -> p
                      [] OTHER -> target[p]

\* Faulty: the previous owner is not checked.
SwitchableUnchecked(p, j) == RequestOf[j] \in reqs

Switchable(p, j) ==
    RequestOf[j] \in reqs /\ jobOwner[j] \in {NewOwner(p), PreviousOwner(p)}

SwitchOwner(p, j) ==
    /\ Up(p) /\ pc[p] \in Switching /\ j \in todo[p]
    /\ ReqFree(RequestOf[j]) /\ Switchable(p, j)
    /\ jobOwner' = [jobOwner EXCEPT ![j] = NewOwner(p)]
    /\ todo' = [todo EXCEPT ![p] = @ \ {j}]
    /\ ok' = [ok EXCEPT ![p] = @ \cup {j}]
    /\ UNCHANGED <<register, agentVars, created, reqs, orphans, refs, proc, pc, lockq, cur,
                   image, gone, err, held, gcVars, drop, faults>>

\* NoSuchObject or WrongPreviousOwner.
SwitchRefused(p, j) ==
    /\ Up(p) /\ pc[p] \in Switching /\ j \in todo[p]
    /\ ReqFree(RequestOf[j]) /\ ~Switchable(p, j)
    /\ todo' = [todo EXCEPT ![p] = @ \ {j}]
    /\ gone' = [gone EXCEPT ![p] = @ \cup {j}]
    /\ UNCHANGED <<register, agentVars, requestVars, refs, proc, pc, lockq, cur, image, ok,
                   err, held, gcVars, drop, faults>>

\* Any other exception, before the update is written.
SwitchError(p, j) ==
    /\ Up(p) /\ pc[p] \in Switching /\ j \in todo[p]
    /\ errors < MaxErrors
    /\ errors' = errors + 1
    /\ todo' = [todo EXCEPT ![p] = @ \ {j}]
    /\ err' = [err EXCEPT ![p] = @ \cup {j}]
    /\ UNCHANGED <<register, agentVars, requestVars, refs, proc, pc, lockq, cur, image, ok,
                   gone, held, gcVars, drop, crashes, unlockFailures>>

\* The lock of an asynchronous update is given up after a second (Rados).
SwitchTimeout(p, j) ==
    /\ Up(p) /\ pc[p] \in Switching /\ j \in todo[p]
    /\ ~ReqFree(RequestOf[j])
    /\ todo' = [todo EXCEPT ![p] = @ \ {j}]
    /\ err' = [err EXCEPT ![p] = @ \cup {j}]
    /\ UNCHANGED <<register, agentVars, requestVars, refs, proc, pc, lockq, cur, image, ok,
                   gone, held, gcVars, drop, faults>>

\* Backend::CouldNotUnlock: the update is written, the exception comes after.
\* popNextBatch knows that such a job is fine; the two functions that put jobs
\* on a queue count it among the failures.
SwitchUnlockFailed(p, j) ==
    /\ Up(p) /\ pc[p] \in Switching /\ j \in todo[p]
    /\ unlockFailures < MaxUnlockFailures
    /\ ReqFree(RequestOf[j]) /\ Switchable(p, j)
    /\ unlockFailures' = unlockFailures + 1
    /\ jobOwner' = [jobOwner EXCEPT ![j] = NewOwner(p)]
    /\ todo' = [todo EXCEPT ![p] = @ \ {j}]
    /\ ok' = [ok EXCEPT ![p] = IF pc[p] = "pop" THEN @ \cup {j} ELSE @]
    /\ err' = [err EXCEPT ![p] = IF pc[p] = "pop" THEN @ ELSE @ \cup {j}]
    /\ UNCHANGED <<register, agentVars, created, reqs, orphans, refs, proc, pc, lockq, cur,
                   image, gone, held, gcVars, drop, crashes, errors>>

-----------------------------------------------------------------------------
(***************************************************************************)
(* ContainerAlgorithms::popNextBatch: lock the queue, list the candidates, *)
(* switch their owners, drop the references, unlock, and unlist the        *)
(* candidates that could not be had.  No job of a candidate's request      *)
(* belongs to the process already: a tape session pops from the queue of   *)
(* one tape pool, and a reporter pops again only when it is rid of its     *)
(* batch.  It is rid of it even when a requeue fails, since that ends it:  *)
(* reportArchiveJobsBatch catches NoSuchObject alone, anything else leaves *)
(* MaintenanceHandler::exceptionThrowingRunChild and the process exits.    *)
(***************************************************************************)
NoJobYet(p, S) == \A r \in RequestsOf(S) : \A j \in JobsOf(r) : jobOwner[j] # p

PopSelect(w, q, S) ==
    /\ Up(w) /\ pc[w] = "idle" /\ QueueFree(q)
    /\ S # {} /\ S \subseteq refs[q] /\ NoJobYet(w, S)
    /\ lockq' = [lockq EXCEPT ![w] = q]
    /\ owned' = [owned EXCEPT ![w] = @ \cup RequestsOf(S)]
    /\ todo' = [todo EXCEPT ![w] = S]
    /\ pc' = [pc EXCEPT ![w] = "pop"]
    /\ UNCHANGED <<register, agentObjs, agOwner, requestVars, refs, proc, cur, image, ok, gone,
                   err, held, gcVars, drop, faults>>

\* Faulty: the whole batch is dereferenced.
ReleaseQueueOfBatch(p, S) ==
    /\ refs' = [refs EXCEPT ![lockq[p]] = @ \ SameAddress(ok[p] \cup gone[p] \cup err[p])]
    /\ lockq' = [lockq EXCEPT ![p] = None]
    /\ ok' = [ok EXCEPT ![p] = {}]
    /\ gone' = [gone EXCEPT ![p] = {}]
    /\ err' = [err EXCEPT ![p] = {}]

\* What every use of the queue ends with: forget the references of S, unlock.
ReleaseQueue(p, S) ==
    /\ refs' = [refs EXCEPT ![lockq[p]] = @ \ SameAddress(S)]
    /\ lockq' = [lockq EXCEPT ![p] = None]
    /\ ok' = [ok EXCEPT ![p] = {}]
    /\ gone' = [gone EXCEPT ![p] = {}]
    /\ err' = [err EXCEPT ![p] = {}]

PopFinish(w) ==
    /\ Up(w) /\ pc[w] = "pop" /\ todo[w] = {}
    /\ ReleaseQueue(w, ok[w] \cup gone[w])
    /\ held' = [held EXCEPT ![w] = @ \cup ok[w]]
    /\ drop' = [drop EXCEPT ![w] = RequestsOf(gone[w] \cup err[w])]
    /\ pc' = [pc EXCEPT ![w] = "unown"]
    /\ UNCHANGED <<register, agentVars, requestVars, proc, cur, image, todo, gcVars, faults>>

(***************************************************************************)
(* ContainerAlgorithms::referenceAndSwitchOwnership, called by             *)
(* failTransfer, failReport, setJobBatchTransferred and                    *)
(* setArchiveJobBatchReported.  Jobs that failed stay owned and listed.    *)
(***************************************************************************)
Requeue(w, q, S) ==
    /\ Up(w) /\ pc[w] = "idle" /\ QueueFree(q)
    /\ S # {} /\ S \subseteq held[w] /\ \A j \in S : q \in QueuesOf[j]
    /\ lockq' = [lockq EXCEPT ![w] = q]
    /\ refs' = [refs EXCEPT ![q] = @ \cup S]
    /\ todo' = [todo EXCEPT ![w] = S]
    /\ held' = [held EXCEPT ![w] = @ \ S]
    /\ pc' = [pc EXCEPT ![w] = "requeue"]
    /\ UNCHANGED <<register, agentVars, requestVars, proc, cur, image, ok, gone, err, gcVars,
                   drop, faults>>

RequeueFinish(w) ==
    /\ Up(w) /\ pc[w] = "requeue" /\ todo[w] = {}
    /\ ReleaseQueue(w, gone[w] \cup err[w])
    /\ drop' = [drop EXCEPT ![w] = RequestsOf(ok[w])]
    /\ pc' = [pc EXCEPT ![w] = "unown"]
    /\ UNCHANGED <<register, agentVars, requestVars, proc, cur, image, todo, held, gcVars,
                   faults>>

\* asyncUpdateTransferSuccessful for a copy that needs no report.
Complete(w, j) ==
    /\ Up(w) /\ pc[w] = "idle" /\ j \in held[w]
    /\ RequestOf[j] \in reqs /\ ReqFree(RequestOf[j])
    /\ jobOwner' = [jobOwner EXCEPT ![j] = NoOwner]
    /\ held' = [held EXCEPT ![w] = @ \ {j}]
    /\ drop' = [drop EXCEPT ![w] = {RequestOf[j]}]
    /\ pc' = [pc EXCEPT ![w] = "unown"]
    /\ UNCHANGED <<register, agentVars, created, reqs, orphans, refs, proc, lockq, cur, image,
                   batch, gcVars, faults>>

\* setArchiveJobBatchReported, completion report: the request is deleted.
DeleteReported(w, j) ==
    /\ Up(w) /\ pc[w] = "idle" /\ j \in held[w]
    /\ RequestOf[j] \in reqs /\ ReqFree(RequestOf[j])
    /\ reqs' = reqs \ {RequestOf[j]}
    /\ held' = [held EXCEPT ![w] = @ \ {j}]
    /\ drop' = [drop EXCEPT ![w] = {RequestOf[j]}]
    /\ pc' = [pc EXCEPT ![w] = "unown"]
    /\ UNCHANGED <<register, agentVars, created, jobOwner, orphans, refs, proc, lockq, cur,
                   image, batch, gcVars, faults>>

\* The deletion fails: the request is unlisted all the same, and stays behind.
DeleteFailed(w, j) ==
    /\ Up(w) /\ pc[w] = "idle" /\ j \in held[w]
    /\ errors < MaxErrors
    /\ errors' = errors + 1
    /\ orphans' = orphans \cup {j}
    /\ held' = [held EXCEPT ![w] = @ \ {j}]
    /\ drop' = [drop EXCEPT ![w] = {RequestOf[j]}]
    /\ pc' = [pc EXCEPT ![w] = "unown"]
    /\ UNCHANGED <<register, agentVars, created, reqs, jobOwner, refs, proc, lockq, cur, image,
                   batch, gcVars, crashes, unlockFailures>>

\* The request is found gone (NoSuchObject), or the operation threw before it
\* wrote anything: the job is forgotten, the address stays listed.
LeaveOwned(w, j) ==
    /\ Up(w) /\ pc[w] = "idle" /\ j \in held[w]
    /\ RequestOf[j] \in reqs => errors < MaxErrors
    /\ errors' = IF RequestOf[j] \in reqs THEN errors + 1 ELSE errors
    /\ held' = [held EXCEPT ![w] = @ \ {j}]
    /\ UNCHANGED <<register, agentVars, requestVars, refs, proc, pc, lockq, cur, image, batch,
                   gcVars, drop, crashes, unlockFailures>>

-----------------------------------------------------------------------------
(***************************************************************************)
(* GarbageCollector::cleanupDeadAgent.  The agent object stays locked from *)
(* GcClaim until it is removed.                                            *)
(***************************************************************************)
GcClaim(g, a) ==
    /\ Up(g) /\ pc[g] = "idle"
    /\ a \in untracked /\ a \in agentObjs /\ proc[a] = "down" /\ AgentFree(a)
    /\ agOwner[a] = Register
    /\ owned' = [owned EXCEPT ![g] = @ \cup {a}]
    /\ target' = [target EXCEPT ![g] = a]
    /\ pc' = [pc EXCEPT ![g] = "claimed"]
    /\ UNCHANGED <<register, agentObjs, agOwner, requestVars, refs, proc, lockq, cur, image,
                   batch, held, pending, others, drop, faults>>

GcTake(g) ==
    /\ Up(g) /\ pc[g] = "claimed"
    /\ agOwner' = [agOwner EXCEPT ![target[g]] = g]
    /\ pc' = [pc EXCEPT ![g] = "taken"]
    /\ UNCHANGED <<register, agentObjs, owned, requestVars, refs, proc, lockq, cur, image,
                   batch, held, gcVars, drop, faults>>

GcTrack(g) ==
    /\ Up(g) /\ pc[g] = "taken" /\ RegisterFree
    /\ untracked' = untracked \ {target[g]}
    /\ pc' = [pc EXCEPT ![g] = "tracked"]
    /\ UNCHANGED <<agents, agentVars, requestVars, refs, proc, lockq, cur, image, batch, held,
                   gcVars, drop, faults>>

\* What a listed object still has to do with the dead agent a.
JobsLeft(a, x) == {j \in JobsOf(x) : x \in reqs /\ jobOwner[j] = a}

StillOwned(a, x) == JobsLeft(a, x) # {} \/ (x \in agentObjs /\ agOwner[x] = a)

\* fetchOwnedObjects and sortFetchedObjects.  Objects that cannot be read are
\* skipped and stay listed; objects that are gone or have another owner are
\* unlisted; the others are sorted.
GcFetchAndSort(g, skipped) ==
    LET t == target[g]
        mine == {x \in owned[t] \ skipped : StillOwned(t, x)}
    IN  /\ Up(g) /\ pc[g] = "tracked"
        /\ skipped \subseteq owned[t]
        /\ skipped # {} => errors < MaxErrors
        /\ errors' = IF skipped = {} THEN errors ELSE errors + 1
        /\ owned' = [owned EXCEPT ![t] = mine \cup skipped]
        /\ pending' = [pending EXCEPT ![g] = UNION {JobsLeft(t, x) : x \in mine}]
        /\ others' = [others EXCEPT ![g] = mine \cap Agents]
        /\ pc' = [pc EXCEPT ![g] = "sorted"]
        /\ UNCHANGED <<register, agentObjs, agOwner, requestVars, refs, proc, lockq, cur,
                       image, batch, held, target, drop, crashes, unlockFailures>>

\* lockFetchAndUpdateArchiveJobs, one batch for one queue:
\* referenceAndSwitchOwnershipIfNecessary with the dead agent as previous owner.
GcReference(g, q, S) ==
    /\ Up(g) /\ pc[g] = "sorted" /\ QueueFree(q)
    /\ S # {} /\ S \subseteq pending[g] /\ \A j \in S : q \in QueuesOf[j]
    /\ lockq' = [lockq EXCEPT ![g] = q]
    /\ refs' = [refs EXCEPT ![q] = @ \cup S]
    /\ todo' = [todo EXCEPT ![g] = S]
    /\ pending' = [pending EXCEPT ![g] = @ \ S]
    /\ pc' = [pc EXCEPT ![g] = "gswitch"]
    /\ UNCHANGED <<register, agentVars, requestVars, proc, cur, image, ok, gone, err, held,
                   target, others, drop, faults>>

\* Faulty: other batches of the same request are forgotten.
EveryReference(g) == RequestsOf(ok[g] \cup gone[g])

\* The requests of this batch that are in no batch to come (use_count() == 1)
\* and had no unexpected error in this one.
LastReferences(g) ==
    RequestsOf(ok[g] \cup gone[g]) \ (RequestsOf(pending[g]) \cup RequestsOf(err[g]))

GcFinish(g) ==
    /\ Up(g) /\ pc[g] = "gswitch" /\ todo[g] = {}
    /\ ReleaseQueue(g, gone[g] \cup err[g])
    /\ others' = [others EXCEPT ![g] = @ \cup RequestsOf(err[g])]
    /\ drop' = [drop EXCEPT ![g] = LastReferences(g)]
    /\ pc' = [pc EXCEPT ![g] = "gdrop"]
    /\ UNCHANGED <<register, agentVars, requestVars, proc, cur, image, todo, held, target,
                   pending, faults>>

GcDrop(g) ==
    /\ Up(g) /\ pc[g] = "gdrop"
    /\ owned' = [owned EXCEPT ![target[g]] = @ \ drop[g]]
    /\ drop' = [drop EXCEPT ![g] = {}]
    /\ pc' = [pc EXCEPT ![g] = "sorted"]
    /\ UNCHANGED <<register, agentObjs, agOwner, requestVars, refs, proc, lockq, cur, image,
                   batch, held, gcVars, faults>>

(***************************************************************************)
(* lockFetchAndUpdateOtherObjects: once the batches are done, the objects  *)
(* collected one by one, with their own garbageCollect method: agents the  *)
(* dead collector was cleaning up, and requests whose batch update failed. *)
(***************************************************************************)
GcOther(g, x) == Up(g) /\ pc[g] = "sorted" /\ pending[g] = {} /\ x \in others[g]

\* No such object any more, or an agent that is not the dead agent's.
GcOtherSkip(g, x) ==
    /\ GcOther(g, x)
    /\ x \notin reqs /\ ~(x \in agentObjs /\ agOwner[x] = target[g])
    /\ drop' = [drop EXCEPT ![g] = {x}]
    /\ pc' = [pc EXCEPT ![g] = "odrop"]
    /\ UNCHANGED <<register, agentVars, requestVars, refs, proc, lockq, cur, image, batch, held,
                   gcVars, faults>>

\* Faulty: the agent is not made visible again to the collectors.
GcUntrackForgotten(g, a) ==
    /\ GcOther(g, a) /\ RegisterFree
    /\ a \in agentObjs /\ agOwner[a] = target[g]
    /\ cur' = [cur EXCEPT ![g] = a]
    /\ pc' = [pc EXCEPT ![g] = "gowner"]
    /\ UNCHANGED <<register, agentVars, requestVars, refs, proc, lockq, image, batch, held,
                   gcVars, drop, faults>>

\* Agent::garbageCollect, first write: back among the untracked.
GcUntrack(g, a) ==
    /\ GcOther(g, a) /\ RegisterFree
    /\ a \in agentObjs /\ agOwner[a] = target[g]
    /\ untracked' = untracked \cup {a}
    /\ cur' = [cur EXCEPT ![g] = a]
    /\ pc' = [pc EXCEPT ![g] = "gowner"]
    /\ UNCHANGED <<agents, agentVars, requestVars, refs, proc, lockq, image, batch, held,
                   gcVars, drop, faults>>

\* Faulty: the owner is cleared instead of set.
GcClearOwner(g) ==
    /\ Up(g) /\ pc[g] = "gowner"
    /\ agOwner' = [agOwner EXCEPT ![cur[g]] = NoOwner]
    /\ drop' = [drop EXCEPT ![g] = {cur[g]}]
    /\ cur' = [cur EXCEPT ![g] = None]
    /\ pc' = [pc EXCEPT ![g] = "odrop"]
    /\ UNCHANGED <<register, agentObjs, owned, requestVars, refs, proc, lockq, image, batch,
                   held, gcVars, faults>>

\* Second write: the register owns the agent again.
GcSetOwner(g) ==
    /\ Up(g) /\ pc[g] = "gowner"
    /\ agOwner' = [agOwner EXCEPT ![cur[g]] = Register]
    /\ drop' = [drop EXCEPT ![g] = {cur[g]}]
    /\ cur' = [cur EXCEPT ![g] = None]
    /\ pc' = [pc EXCEPT ![g] = "odrop"]
    /\ UNCHANGED <<register, agentObjs, owned, requestVars, refs, proc, lockq, image, batch,
                   held, gcVars, faults>>

\* ArchiveRequest::garbageCollect: the request is locked and fetched, and each
\* job of the dead agent is referenced in its queue and committed.
GcLock(g, r) ==
    /\ GcOther(g, r)
    /\ r \in reqs /\ ReqFree(r)
    /\ cur' = [cur EXCEPT ![g] = r]
    /\ image' = [image EXCEPT ![g] = [j \in Jobs |-> IF RequestOf[j] = r THEN jobOwner[j] ELSE NoOwner]]
    /\ todo' = [todo EXCEPT ![g] = {j \in JobsOf(r) : jobOwner[j] = target[g]}]
    /\ pc' = [pc EXCEPT ![g] = "glink"]
    /\ UNCHANGED <<register, agentVars, requestVars, refs, proc, lockq, ok, gone, err, held,
                   gcVars, drop, faults>>

GcLink(g, j, q) ==
    /\ Up(g) /\ pc[g] = "glink" /\ j \in todo[g]
    /\ q \in QueuesOf[j] /\ QueueFree(q)
    /\ lockq' = [lockq EXCEPT ![g] = q]
    /\ refs' = [refs EXCEPT ![q] = @ \cup {j}]
    /\ todo' = [todo EXCEPT ![g] = @ \ {j}]
    /\ ok' = [ok EXCEPT ![g] = {j}]
    /\ pc' = [pc EXCEPT ![g] = "gcommit"]
    /\ UNCHANGED <<register, agentVars, requestVars, proc, cur, image, gone, err, held, gcVars,
                   drop, faults>>

GcCommit(g) ==
    /\ Up(g) /\ pc[g] = "gcommit"
    /\ CommitRequest(g)
    /\ pc' = [pc EXCEPT ![g] = "glink"]
    /\ UNCHANGED <<register, agentVars, created, reqs, orphans, refs, proc, cur, todo, gone,
                   err, held, gcVars, drop, faults>>

\* The queue cannot be had: the job is marked failed, "the job is now orphaned".
GcOrphan(g, j) ==
    /\ Up(g) /\ pc[g] = "glink" /\ j \in todo[g]
    /\ errors < MaxErrors
    /\ errors' = errors + 1
    /\ orphans' = orphans \cup {j}
    /\ todo' = [todo EXCEPT ![g] = @ \ {j}]
    /\ UNCHANGED <<register, agentVars, created, reqs, jobOwner, refs, proc, pc, lockq, cur,
                   image, ok, gone, err, held, gcVars, drop, crashes, unlockFailures>>

GcUnlock(g) ==
    /\ Up(g) /\ pc[g] = "glink" /\ todo[g] = {}
    /\ drop' = [drop EXCEPT ![g] = {cur[g]}]
    /\ cur' = [cur EXCEPT ![g] = None]
    /\ image' = [image EXCEPT ![g] = NoJobs]
    /\ pc' = [pc EXCEPT ![g] = "odrop"]
    /\ UNCHANGED <<register, agentVars, requestVars, refs, proc, lockq, batch, held, gcVars,
                   faults>>

GcOtherDrop(g) ==
    /\ Up(g) /\ pc[g] = "odrop"
    /\ owned' = [owned EXCEPT ![target[g]] = @ \ drop[g]]
    /\ others' = [others EXCEPT ![g] = @ \ drop[g]]
    /\ drop' = [drop EXCEPT ![g] = {}]
    /\ pc' = [pc EXCEPT ![g] = "sorted"]
    /\ UNCHANGED <<register, agentObjs, agOwner, requestVars, refs, proc, lockq, cur, image,
                   batch, held, target, pending, faults>>

GcAllDone(g) == Up(g) /\ pc[g] = "sorted" /\ pending[g] = {} /\ others[g] = {}

\* Agent::removeAndUnregisterSelf on the dead agent's object.
GcRemove(g) ==
    /\ GcAllDone(g) /\ owned[target[g]] = {}
    /\ agentObjs' = agentObjs \ {target[g]}
    /\ pc' = [pc EXCEPT ![g] = "removed"]
    /\ UNCHANGED <<register, agOwner, owned, requestVars, refs, proc, lockq, cur, image, batch,
                   held, gcVars, drop, faults>>

\* AgentStillOwnsObjects goes up to MaintenanceHandler and ends the process.
GcStillOwns(g) ==
    /\ GcAllDone(g) /\ owned[target[g]] # {}
    /\ Stop(g)
    /\ UNCHANGED <<register, agentVars, requestVars, refs, faults>>

GcUnregister(g) ==
    /\ Up(g) /\ pc[g] = "removed" /\ RegisterFree
    /\ agents' = agents \ {target[g]}
    /\ untracked' = untracked \ {target[g]}
    /\ drop' = [drop EXCEPT ![g] = {target[g]}]
    /\ target' = [target EXCEPT ![g] = None]
    /\ pc' = [pc EXCEPT ![g] = "unown"]
    /\ UNCHANGED <<agentVars, requestVars, refs, proc, lockq, cur, image, batch, held, pending,
                   others, faults>>

-----------------------------------------------------------------------------
Lifecycle(p) == RegisterAgent(p) \/ InsertAgent(p) \/ Shutdown(p) \/ Unregister(p)

FrontendStep(f) ==
    \/ \E r \in Requests : CreateOwn(f, r)
    \/ CreateInsert(f) \/ CreateRelock(f) \/ CreateRelockGone(f)
    \/ \E j \in Jobs : CreateLink(f, j)
    \/ CreateCommit(f) \/ CreateRelease(f)

SwitchStep(p) ==
    \E j \in Jobs : SwitchOwner(p, j) \/ SwitchRefused(p, j) \/ SwitchTimeout(p, j)
                    \/ SwitchError(p, j) \/ SwitchUnlockFailed(p, j)

WorkerStep(w) ==
    \/ \E q \in Queues : \E S \in SUBSET refs[q] : PopSelect(w, q, S)
    \/ \E q \in Queues : \E S \in SUBSET held[w] : Requeue(w, q, S)
    \/ PopFinish(w) \/ RequeueFinish(w)
    \/ \E j \in Jobs : Complete(w, j) \/ DeleteReported(w, j) \/ DeleteFailed(w, j)
                       \/ LeaveOwned(w, j)

CollectorStep(g) ==
    \/ \E a \in Agents : GcClaim(g, a) \/ GcUntrack(g, a)
    \/ GcTake(g) \/ GcTrack(g)
    \/ \E skipped \in SUBSET (Requests \cup Agents) : GcFetchAndSort(g, skipped)
    \/ \E q \in Queues : \E S \in SUBSET pending[g] : GcReference(g, q, S)
    \/ GcFinish(g) \/ GcDrop(g)
    \/ \E x \in Requests \cup Agents : GcOtherSkip(g, x)
    \/ GcSetOwner(g)
    \/ \E r \in Requests : GcLock(g, r)
    \/ \E j \in Jobs, q \in Queues : GcLink(g, j, q)
    \/ GcCommit(g)
    \/ \E j \in Jobs : GcOrphan(g, j)
    \/ GcUnlock(g) \/ GcOtherDrop(g)
    \/ GcRemove(g) \/ GcStillOwns(g) \/ GcUnregister(g)

Next ==
    \/ \E p \in Agents : Lifecycle(p) \/ Crash(p) \/ Unown(p) \/ SwitchStep(p)
    \/ \E f \in Frontends : FrontendStep(f)
    \/ \E w \in Workers : WorkerStep(w)
    \/ \E g \in Collectors : CollectorStep(g)
    \/ \E r \in Requests : Cancel(r)

Spec == Init /\ [][Next]_vars

-----------------------------------------------------------------------------
(***************************************************************************)
(* Properties.                                                             *)
(***************************************************************************)
PcLabels == {"idle", "listed", "inserted", "unown", "claimed", "taken", "tracked", "sorted",
             "gdrop", "gowner", "odrop", "removed"} \cup Linking \cup Switching
Addresses == Requests \cup Agents

TypeOK ==
    /\ agents \subseteq Agents /\ untracked \subseteq Agents /\ agentObjs \subseteq Agents
    /\ agOwner \in [Agents -> Agents \cup {Register}]
    /\ owned \in [Agents -> SUBSET Addresses]
    /\ created \subseteq Requests /\ reqs \subseteq Requests /\ orphans \subseteq Jobs
    /\ jobOwner \in [Jobs -> Owners]
    /\ refs \in [Queues -> SUBSET Jobs]
    /\ proc \in [Agents -> {"unborn", "starting", "up", "leaving", "down"}]
    /\ pc \in [Agents -> PcLabels]
    /\ lockq \in [Agents -> Queues \cup {None}]
    /\ cur \in [Agents -> Addresses \cup {None}]
    /\ image \in [Agents -> [Jobs -> Owners]]
    /\ target \in [Agents -> Agents \cup {None}]
    /\ todo \in [Agents -> SUBSET Jobs] /\ ok \in [Agents -> SUBSET Jobs]
    /\ gone \in [Agents -> SUBSET Jobs] /\ err \in [Agents -> SUBSET Jobs]
    /\ held \in [Agents -> SUBSET Jobs] /\ pending \in [Agents -> SUBSET Jobs]
    /\ others \in [Agents -> SUBSET Addresses] /\ drop \in [Agents -> SUBSET Addresses]
    /\ crashes \in 0..MaxCrashes /\ errors \in 0..MaxErrors
    /\ unlockFailures \in 0..MaxUnlockFailures

\* A job in the store owned by an agent is found from that agent: the agent
\* object exists and lists the request (Agent ownership list).  This is what
\* listing before, and unlisting after, every change of owner is for.
OwnedJobIsListed ==
    \A j \in Jobs \ orphans :
        RequestOf[j] \in reqs /\ jobOwner[j] \in Agents =>
            jobOwner[j] \in agentObjs /\ RequestOf[j] \in owned[jobOwner[j]]

\* A job in the store owned by a queue is referenced by that queue, whatever
\* pops, requeues, collections, failed updates and crashes came before.
QueuedJobIsReferenced ==
    \A j \in Jobs : RequestOf[j] \in reqs =>
        \A q \in Queues : jobOwner[j] = q => j \in refs[q]

\* Every agent object can be found by a collector: it is registered, and it is
\* among the untracked, or listed by the collector that took it over, whose own
\* object then exists (GarbageCollector::cleanupDeadAgent, Agent::garbageCollect).
AgentIsReachable ==
    \A a \in agentObjs :
        /\ a \in agents
        /\ agOwner[a] = Register => a \in untracked
        /\ agOwner[a] # Register => agOwner[a] \in agentObjs /\ a \in owned[agOwner[a]]

\* A job given to a process by a pop stays that process's until it lets go of
\* it: no other process, and no write of a stale copy of the request, takes it
\* away.  So no copy is ever written or reported by two processes at once.
HolderIsOwner ==
    \A w \in Workers : \A j \in held[w] : RequestOf[j] \in reqs => jobOwner[j] = w

\* The step is one of p, which was busy with the job and is done with it.
LetsGo(p, j) ==
    /\ Up(p)
    /\ \/ j \in todo[p] /\ j \notin todo'[p]
       \/ j \in ok[p] /\ j \notin ok'[p]
       \/ j \in held[p] /\ j \notin held'[p]

Handover ==
    \A j \in Jobs :
        jobOwner[j] \in Agents /\ jobOwner'[j] # jobOwner[j] =>
            /\ jobOwner'[j] \notin Agents
            /\ \/ LetsGo(jobOwner[j], j)
               \/ /\ proc[jobOwner[j]] = "down"
                  /\ \E g \in Collectors : target[g] = jobOwner[j] /\ LetsGo(g, j)

\* A job leaves an agent only in a step of that agent, which has the job in its
\* batch or holds it, or of the collector that has the dead agent locked, and
\* never goes straight to another agent (switchElementsOwnership,
\* asyncUpdateTransferSuccessful, ArchiveRequest::commit).
HandoverByOwnerOrCollector == [][Handover]_vars

\* What the collector promises of a request whose update failed: "Removing from
\* queue and will re-run individual garbage collection", "Before that, we will
\* NOT remove the object from agent's ownership" (GarbageCollector.cpp).
ListedUntilIndividuallyCollected ==
    \A g \in Collectors : others[g] # {} => others[g] \subseteq owned[target[g]]

-----------------------------------------------------------------------------
(***************************************************************************)
(* Fairness.  A running process carries on with the operation it is in,    *)
(* and gets a lock that is released again and again (strong fairness:      *)
(* backends retry with a back-off and keep no order among the waiters).    *)
(* The maintenance process calls runOnePass in a loop.  Nothing obliges a  *)
(* process to start, to pop, to create or to stop.                         *)
(***************************************************************************)
Continue(p) ==
    \/ InsertAgent(p) \/ Unregister(p) \/ Unown(p)
    \/ CreateInsert(p) \/ CreateRelock(p) \/ CreateRelockGone(p)
    \/ \E j \in Jobs : CreateLink(p, j)
    \/ CreateCommit(p) \/ CreateRelease(p)
    \/ \E j \in Jobs : SwitchOwner(p, j) \/ SwitchRefused(p, j) \/ SwitchTimeout(p, j)
    \/ PopFinish(p) \/ RequeueFinish(p)
    \/ GcTake(p) \/ GcTrack(p) \/ GcFetchAndSort(p, {})
    \/ \E q \in Queues : \E S \in SUBSET pending[p] : GcReference(p, q, S)
    \/ GcFinish(p) \/ GcDrop(p)
    \/ \E x \in Addresses : GcOtherSkip(p, x) \/ GcUntrack(p, x)
    \/ GcSetOwner(p)
    \/ \E r \in Requests : GcLock(p, r)
    \/ \E j \in Jobs, q \in Queues : GcLink(p, j, q)
    \/ GcCommit(p) \/ GcUnlock(p) \/ GcOtherDrop(p)
    \/ GcRemove(p) \/ GcStillOwns(p) \/ GcUnregister(p)

Fairness ==
    /\ \A p \in Agents : SF_vars(Continue(p))
    /\ \A g \in Collectors : SF_vars(\E a \in Agents : GcClaim(g, a))

FairSpec == Spec /\ Fairness

\* As long as some maintenance process keeps running, there comes a time, again
\* and again, when nothing is left with any dead process: its jobs are back on
\* the queues and its agent object is gone, even when collectors die while they
\* collect (runOnePass, cleanupDeadAgent).
DeadAgentsAreCollected ==
    <>[](\E g \in Collectors : Up(g)) =>
        []<>(\A a \in Agents : proc[a] = "down" =>
                /\ a \notin agentObjs
                /\ \A j \in Jobs \ orphans : jobOwner[j] = a => RequestOf[j] \notin reqs)
====
