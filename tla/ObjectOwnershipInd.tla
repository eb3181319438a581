-------------------------- MODULE ObjectOwnershipInd --------------------------
(***************************************************************************)
(* The inductive invariant of ObjectOwnership, in named parts.  TLC checks *)
(* it on the instances of MCObjectOwnership; OwnershipAgentProofs,         *)
(* OwnershipJobProofs and OwnershipListProofs prove it for all.            *)
(***************************************************************************)
EXTENDS ObjectOwnership

HasQueue == {"commit", "gcommit"} \cup Switching
Collecting == {"claimed", "taken", "tracked", "sorted", "gswitch", "gdrop", "gowner", "glink",
               "gcommit", "odrop", "removed"}

\* Which local state goes with which point of an operation.
ProcessShape ==
    \A p \in Agents :
        /\ pc[p] # "idle" => Up(p)
        /\ held[p] # {} => Up(p) /\ p \in Workers
        /\ p \in Frontends => pc[p] \in {"idle", "listed", "inserted", "link", "commit", "unown"}
        /\ p \in Workers => pc[p] \in {"idle", "pop", "requeue", "unown"}
        /\ p \in Collectors => pc[p] \in {"idle", "unown"} \cup Collecting
        /\ lockq[p] # None <=> pc[p] \in HasQueue
        /\ target[p] # None <=> pc[p] \in Collecting
        /\ pc[p] \in {"listed", "inserted"} \cup Linking => cur[p] \in Requests
        /\ pc[p] = "gowner" => cur[p] \in Agents
        /\ pc[p] \notin HasQueue => ok[p] = {}
        /\ pc[p] \notin Switching => gone[p] = {} /\ err[p] = {}
        /\ pc[p] \notin Switching \cup Linking => todo[p] = {}
        /\ pc[p] \notin {"unown", "gdrop", "odrop"} => drop[p] = {}
        /\ pc[p] \notin Collecting \ {"removed"} => pending[p] = {} /\ others[p] = {}

\* Queues, dead agents and requests are locked by one process at a time.
LockExclusion ==
    \A p1, p2 \in Agents : p1 # p2 =>
        /\ lockq[p1] = lockq[p2] => lockq[p1] = None
        /\ target[p1] = target[p2] => target[p1] = None
        /\ pc[p1] \in Linking /\ pc[p2] \in Linking => cur[p1] # cur[p2]

\* The agent object of a process over its life.
AgentLife ==
    \A p \in Agents :
        /\ proc[p] = "starting" => p \in agents /\ p \in untracked
        /\ Up(p) => p \in agentObjs
        /\ proc[p] \in {"unborn", "starting", "leaving"} => p \notin agentObjs
        /\ proc[p] # "down" => agOwner[p] = Register

\* A collector at work: the agent it collects is dead, is its own from GcTake
\* on, and is listed by it until it is gone.
CollectorOwnsTarget ==
    \A g \in Collectors : pc[g] \in Collecting =>
        /\ proc[target[g]] = "down"
        /\ pc[g] = "claimed" => target[g] \in agentObjs /\ agOwner[target[g]] = Register
        /\ pc[g] \notin {"claimed", "removed"} =>
               target[g] \in agentObjs /\ agOwner[target[g]] = g
        /\ pc[g] = "removed" => target[g] \notin agentObjs
        /\ pc[g] # "removed" => target[g] \in owned[g]
        /\ pc[g] = "gowner" =>
               /\ cur[g] \in agentObjs /\ agOwner[cur[g]] = target[g]
               /\ cur[g] \in untracked

\* The agent whose list the addresses in drop[p] are about to leave.
Dropper(p) == IF pc[p] = "unown" THEN p ELSE target[p]

DroppedAgentsLeft ==
    \A p \in Agents : \A x \in drop[p] \cap Agents :
        x \notin agentObjs \/ agOwner[x] # Dropper(p)

\* The part of the invariant about the register and the agent objects.
AgentInv ==
    /\ TypeOK /\ ProcessShape /\ LockExclusion
    /\ AgentLife /\ CollectorOwnsTarget /\ DroppedAgentsLeft /\ AgentIsReachable

-----------------------------------------------------------------------------
Fresh(r) == r \notin created \/ \E p \in Agents : pc[p] = "listed" /\ cur[p] = r

\* A request that is not yet in the store is known to its creator only.
FreshRequests ==
    /\ reqs \subseteq created
    /\ \A p \in Agents : pc[p] = "listed" => cur[p] \in created /\ cur[p] \notin reqs
    /\ \A p1, p2 \in Agents :
           p1 # p2 /\ pc[p1] = "listed" /\ pc[p2] = "listed" => cur[p1] # cur[p2]
    /\ \A j \in Jobs : Fresh(RequestOf[j]) => jobOwner[j] = NoOwner

ReferencesFit == \A q \in Queues : \A j \in refs[q] : q \in QueuesOf[j]

HeldJobsOwned == \A p \in Agents : \A j \in held[p] : jobOwner[j] = p

OneJobPerRequest ==
    \A w \in Workers : \A i, j \in Jobs :
        RequestOf[i] = RequestOf[j] /\ jobOwner[i] = w /\ jobOwner[j] = w => i = j

\* While a process has a request locked, its copy of the owners is the truth.
ImageIsCurrent ==
    \A p \in Agents : pc[p] \in Linking =>
        /\ cur[p] \in reqs
        /\ todo[p] \cup ok[p] \subseteq JobsOf(cur[p])
        /\ pc[p] \in {"commit", "gcommit"} => ok[p] \subseteq refs[lockq[p]]
        /\ \A j \in JobsOf(cur[p]) : image[p][j] = jobOwner[j]

Creating ==
    \A f \in Frontends :
        /\ pc[f] = "inserted" => \A j \in JobsOf(cur[f]) : image[f][j] = f /\ jobOwner[j] = f
        /\ pc[f] \in Linking => \A j \in JobsOf(cur[f]) :
               /\ jobOwner[j] \in {f} \cup Queues
               /\ jobOwner[j] = f => j \in todo[f] \cup ok[f]

Batch(p) == todo[p] \cup ok[p] \cup gone[p] \cup err[p]
Failed(p) == gone[p] \cup err[p]

BatchShape ==
    \A p \in Agents : pc[p] \in Switching =>
        /\ \A j \in Batch(p) : lockq[p] \in QueuesOf[j]
        /\ todo[p] \cap (ok[p] \cup Failed(p)) = {} /\ ok[p] \cap Failed(p) = {}

Popping ==
    \A w \in Workers : pc[w] = "pop" =>
        /\ \A j \in Batch(w) : RequestOf[j] \in owned[w]
        /\ \A j \in ok[w] : jobOwner[j] = w
        /\ \A j \in gone[w] : RequestOf[j] \in reqs => jobOwner[j] # lockq[w]
        /\ \A i \in Batch(w) : \A j \in Jobs :
               RequestOf[i] = RequestOf[j] /\ jobOwner[j] = w => j \in ok[w]

\* A failed update has not changed the owner, unless it was written and then
\* failed to unlock.
Requeueing ==
    \A w \in Workers : pc[w] = "requeue" =>
        /\ \A j \in todo[w] \cup gone[w] : jobOwner[j] = w
        /\ unlockFailures = 0 => \A j \in err[w] : jobOwner[j] = w
        /\ todo[w] \subseteq refs[lockq[w]] /\ todo[w] \cap held[w] = {}
        /\ \A i \in ok[w] : \A j \in Jobs : RequestOf[i] = RequestOf[j] => jobOwner[j] # w

\* Jobs a collector still has to return are the dead agent's.
Returning ==
    \A g \in Collectors : pc[g] \in Collecting =>
        /\ \A j \in pending[g] : jobOwner[j] = target[g]
        /\ pending[g] \cap (todo[g] \cup ok[g]) = {}
        /\ pc[g] = "gswitch" =>
               /\ \A j \in todo[g] \cup gone[g] : jobOwner[j] = target[g]
               /\ unlockFailures = 0 => \A j \in err[g] : jobOwner[j] = target[g]
               /\ \A j \in gone[g] : RequestOf[j] \notin reqs
               /\ \A j \in ok[g] : jobOwner[j] # target[g]
               /\ todo[g] \subseteq refs[lockq[g]]
        /\ pc[g] \in Linking =>
               /\ pending[g] = {} /\ todo[g] \cap ok[g] = {}
               /\ \A j \in todo[g] \cup ok[g] : jobOwner[j] = target[g]
               /\ \A j \in JobsOf(cur[g]) :
                      jobOwner[j] = target[g] => j \in todo[g] \cup ok[g] \cup orphans

\* The part about where jobs are; it needs no assumption on copies or faults,
\* but for the references that an unlock failure makes a queue forget.
JobInv ==
    /\ FreshRequests /\ ReferencesFit /\ HeldJobsOwned /\ OneJobPerRequest
    /\ ImageIsCurrent /\ Creating /\ BatchShape /\ Popping /\ Requeueing /\ Returning
    /\ unlockFailures = 0 => QueuedJobIsReferenced

-----------------------------------------------------------------------------
\* An address about to be unlisted has no job left with the lister.
DroppedRequestsLeft ==
    \A p \in Agents : \A j \in Jobs :
        RequestOf[j] \in drop[p] /\ jobOwner[j] = Dropper(p) =>
            RequestOf[j] \notin reqs \/ j \in orphans

SingleCopy == \A i, j \in Jobs : RequestOf[i] = RequestOf[j] => i = j

Sorted == {"sorted", "gswitch", "gdrop", "gowner", "glink", "gcommit", "odrop", "removed"}

NoFailures == MaxErrors = 0 /\ MaxUnlockFailures = 0

\* Without failures a collector has all the jobs of its target in its batches.
NothingSkipped ==
    NoFailures => \A g \in Collectors :
        /\ err[g] = {} /\ others[g] \subseteq Agents
        /\ pc[g] \notin {"glink", "gcommit"}
        /\ pc[g] \in Sorted => \A j \in Jobs \ orphans :
               jobOwner[j] = target[g] /\ RequestOf[j] \in reqs => j \in pending[g] \cup todo[g]

\* A request is on its creator's list before it is in the store.
ListedFirst == \A f \in Frontends : pc[f] = "listed" => cur[f] \in owned[f]

\* The part about ownership lists.
ListInv == ListedFirst /\ DroppedRequestsLeft /\ NothingSkipped /\ OwnedJobIsListed

\* What every write of the protocol keeps true, and what the safety properties
\* follow from: at each point of queueArchive, popNextBatch, the requeueing of
\* jobs and cleanupDeadAgent, which objects point to the agent or job at hand.
IndInv == AgentInv /\ JobInv /\ ListInv
=============================================================================
