--------------------------- MODULE AgentReference ---------------------------
(***************************************************************************)
(* How the threads of one process share the updates of their agent object  *)
(* (src/objectstore/AgentReference.cpp), with the heartbeat thread         *)
(* (AgentHeartbeatThread.cpp) among them and a garbage collector watching  *)
(* from another process (AgentWatchdog.hpp, GarbageCollector.cpp).         *)
(*                                                                         *)
(* A thread that finds a queue listed adds its action to it and waits: it  *)
(* is a follower.  A thread that finds none lists a new queue and leads    *)
(* it: it waits for the previous queue to be done, unlists its own, and    *)
(* carries out its own action and then the followers' under the lock of    *)
(* the agent object, in one write.  Queues are chained by promises, each   *)
(* set when the queue that left it is done, failed or not.                 *)
(*                                                                         *)
(* A queue is named by the thread that leads it, and a promise by the      *)
(* thread that must set it: a future is the set holding that thread, empty *)
(* once the promise is set.  The heartbeat counter is only ever compared   *)
(* with the value last seen by the watchdog, so it is one bit.  Times are  *)
(* left out: the watchdog may find the counter still at any moment, and a  *)
(* heartbeat may be late at any moment.                                    *)
(***************************************************************************)
EXTENDS Naturals, Sequences

CONSTANTS
    Threads,            \* the threads of the process
    HeartbeatThread,    \* the one that runs AgentHeartbeatThread::run
    Objects,            \* addresses of objects the agent may own
    None,               \* no thread
    Collector,          \* the garbage collector, as holder of the agent's lock
    MaxCalls,           \* bound: calls of all threads but the heartbeat's
    MaxErrors,          \* bound: batches that fail on an object store error
    MaxCollectorDeaths  \* bound: collections that stop half way

ASSUME ThreadsAssumption ==
    /\ HeartbeatThread \in Threads
    /\ None \notin Threads
    /\ Collector \notin Threads \cup {None}
ASSUME BoundsAssumption ==
    MaxCalls \in Nat /\ MaxErrors \in Nat /\ MaxCollectorDeaths \in Nat

VARIABLES
    pc,                 \* where each thread is in queueAndExecuteAction
    action,             \* the action each thread asked for
    result,             \* what its batch, or its promise, gave the thread
    currentQueue,       \* m_currentQueue: the leader of the listed queue
    queue,              \* the followers of each leader's queue
    future,             \* futureForThisQueue of each leader
    nextFuture,         \* m_nextQueueExecutionFuture
    ownershipSet,       \* the list in the memory of the leader that has the lock
    applied,            \* how many actions of its batch it has applied there
    agentLock,          \* holder of the exclusive lock of the agent object
    exists,             \* the agent object is in the object store
    owned,              \* its ownership list
    beating,            \* its heartbeat has moved since the watchdog looked
    collected,          \* isBeingGarbageCollected
    exited,             \* the process is gone
    calls,              \* calls made, heartbeats aside
    errors,             \* failures so far
    deaths

batchVars == <<ownershipSet, applied>>
threadVars == <<pc, action, result, currentQueue, queue, future, nextFuture, batchVars>>
agentVars == <<agentLock, exists, owned, beating, collected>>
counters == <<calls, errors, deaths>>
vars == <<threadVars, agentVars, exited, counters>>

Changes == [op : {"Add", "Remove"}, objs : (SUBSET Objects) \ {{}}]
Heartbeat == [op |-> "Heartbeat", objs |-> {}]
NoAction == [op |-> "None", objs |-> {}]

TypeOK ==
    /\ pc \in [Threads -> {"idle", "follower", "waiting", "batch", "fetched",
                           "written", "failed", "releasing", "returned"}]
    /\ action \in [Threads -> Changes \cup {Heartbeat, NoAction}]
    /\ result \in [Threads -> {"none", "ok", "failed"}]
    /\ currentQueue \in Threads \cup {None}
    /\ queue \in [Threads -> Seq(Threads)]
    /\ future \in [Threads -> SUBSET Threads]
    /\ nextFuture \in SUBSET Threads
    /\ ownershipSet \in SUBSET Objects
    /\ applied \in Nat
    /\ agentLock \in Threads \cup {None, Collector}
    /\ owned \in SUBSET Objects
    /\ {exists, beating, collected, exited} \subseteq BOOLEAN
    /\ calls \in 0..MaxCalls
    /\ errors \in 0..MaxErrors
    /\ deaths \in 0..MaxCollectorDeaths

\* The constructor sets the first promise itself.
Init ==
    /\ pc = [t \in Threads |-> "idle"]
    /\ action = [t \in Threads |-> NoAction]
    /\ result = [t \in Threads |-> "none"]
    /\ currentQueue = None
    /\ queue = [t \in Threads |-> <<>>]
    /\ future = [t \in Threads |-> {}]
    /\ nextFuture = {}
    /\ ownershipSet = {}
    /\ applied = 0
    /\ agentLock = None
    /\ exists = TRUE
    /\ owned = {}
    /\ beating = FALSE
    /\ collected = FALSE
    /\ exited = FALSE
    /\ calls = 0
    /\ errors = 0
    /\ deaths = 0

(***************************************************************************)
(* The actions: additions and removals, of one object or of a batch, and   *)
(* the heartbeat.  appyAction changes the copy of the list in memory.      *)
(***************************************************************************)
ActionsOf(t) == IF t = HeartbeatThread THEN {Heartbeat} ELSE Changes

\* Variant: a batch is added as if it were one address.
appyActionBatchAsOne(list, a) ==
    CASE a.op = "Add" -> list \cup {a.objs}
      [] a.op = "Remove" -> list \ {a.objs}
      [] OTHER -> list

appyAction(list, a) ==
    CASE a.op = "Add" -> list \cup a.objs
      [] a.op = "Remove" -> list \ a.objs
      [] OTHER -> list

\* Variant: the leader's own action is carried out last.
BatchLeaderLast(t) == queue[t] \o <<t>>

\* The leader's own action first, then the queue's in their order.
Batch(t) == <<t>> \o queue[t]

(***************************************************************************)
(* Entering, under m_currentQueueMutex: join the listed queue or list and  *)
(* lead a new one, leaving a promise behind for the next.                  *)
(***************************************************************************)
Call(t, a) ==
    /\ pc[t] = "idle"
    /\ t # HeartbeatThread => calls < MaxCalls
    /\ calls' = IF t = HeartbeatThread THEN calls ELSE calls + 1
    /\ action' = [action EXCEPT ![t] = a]
    /\ UNCHANGED <<result, batchVars, agentVars, exited, errors, deaths>>

Join(t, a) ==
    /\ currentQueue # None
    /\ Call(t, a)
    /\ queue' = [queue EXCEPT ![currentQueue] = Append(@, t)]
    /\ pc' = [pc EXCEPT ![t] = "follower"]
    /\ UNCHANGED <<currentQueue, future, nextFuture>>

Lead(t, a) ==
    /\ currentQueue = None
    /\ Call(t, a)
    /\ currentQueue' = t
    /\ queue' = [queue EXCEPT ![t] = <<>>]
    /\ future' = [future EXCEPT ![t] = nextFuture]
    /\ nextFuture' = {t}
    /\ pc' = [pc EXCEPT ![t] = "waiting"]

(***************************************************************************)
(* The turn of the queue: the previous one is done.  The queue is expected *)
(* to be the listed one still (see ListedUntilItsTurn).                    *)
(***************************************************************************)
\* Variant: a leader does not wait for the queue before its own.
TurnAtOnce(t) == pc[t] = "waiting"

Turn(t) == future[t] = {}

Unlist(t) ==
    /\ pc[t] = "waiting"
    /\ Turn(t)
    /\ currentQueue' = None
    /\ pc' = [pc EXCEPT ![t] = "batch"]
    /\ UNCHANGED <<action, result, queue, future, nextFuture, batchVars, agentVars, exited,
                   counters>>

(***************************************************************************)
(* The batch.  The process does not survive the sight of its agent in the  *)
(* hands of a garbage collector.                                           *)
(***************************************************************************)
LockAndFetch(t) ==
    /\ pc[t] = "batch"
    /\ agentLock = None
    /\ exists
    /\ IF collected
       THEN /\ exited' = TRUE
            /\ UNCHANGED <<pc, agentLock, batchVars>>
       ELSE /\ agentLock' = t
            /\ pc' = [pc EXCEPT ![t] = "fetched"]
            /\ ownershipSet' = owned
            /\ applied' = 0
            /\ UNCHANGED exited
    /\ UNCHANGED <<action, result, currentQueue, queue, future, nextFuture,
                   exists, owned, beating, collected, counters>>

ApplyNext(t) ==
    /\ pc[t] = "fetched"
    /\ applied < Len(Batch(t))
    /\ ownershipSet' = appyAction(ownershipSet, action[Batch(t)[applied + 1]])
    /\ applied' = applied + 1
    /\ UNCHANGED <<pc, action, result, currentQueue, queue, future, nextFuture, agentVars,
                   exited, counters>>

\* resetOwnership is only called for a batch that changes the list, which makes
\* no difference to the list that is written.
Commit(t) ==
    /\ pc[t] = "fetched"
    /\ applied = Len(Batch(t))
    /\ owned' = ownershipSet
    /\ ownershipSet' = {} /\ applied' = 0
    /\ beating' = (beating \/ \E i \in 1..Len(Batch(t)) : action[Batch(t)[i]] = Heartbeat)
    /\ agentLock' = None
    /\ result' = [result EXCEPT ![t] = "ok"]
    /\ pc' = [pc EXCEPT ![t] = "written"]
    /\ UNCHANGED <<action, currentQueue, queue, future, nextFuture,
                   exists, collected, exited, counters>>

\* Locking, fetching or committing throws: the object store fails, or the
\* agent object has been deleted by the collector.
BatchFails(t) ==
    /\ \/ /\ pc[t] = "batch" /\ agentLock = None /\ ~exists
          /\ UNCHANGED errors
       \/ /\ pc[t] \in {"batch", "fetched"} /\ errors < MaxErrors
          /\ errors' = errors + 1
    /\ agentLock' = IF agentLock = t THEN None ELSE agentLock
    /\ ownershipSet' = {} /\ applied' = 0
    /\ result' = [result EXCEPT ![t] = "failed"]
    /\ pc' = [pc EXCEPT ![t] = "failed"]
    /\ UNCHANGED <<action, currentQueue, queue, future, nextFuture,
                   exists, owned, beating, collected, exited, calls, deaths>>

(***************************************************************************)
(* Done or failed, the leader passes the token to the next queue, whether  *)
(* or not it exists already, then answers its followers one by one.        *)
(***************************************************************************)
\* Variant: the next queue is only released after a success.
ReleaseNextIfWritten(t) ==
    /\ pc[t] \in {"written", "failed"}
    /\ future' = [u \in Threads |-> IF pc[t] = "written" THEN future[u] \ {t} ELSE future[u]]
    /\ nextFuture' = IF pc[t] = "written" THEN nextFuture \ {t} ELSE nextFuture
    /\ pc' = [pc EXCEPT ![t] = "releasing"]
    /\ UNCHANGED <<action, result, currentQueue, queue, batchVars, agentVars, exited, counters>>

ReleaseNext(t) ==
    /\ pc[t] \in {"written", "failed"}
    /\ future' = [u \in Threads |-> future[u] \ {t}]
    /\ nextFuture' = nextFuture \ {t}
    /\ pc' = [pc EXCEPT ![t] = "releasing"]
    /\ UNCHANGED <<action, result, currentQueue, queue, batchVars, agentVars, exited, counters>>

ReleaseFollower(t) ==
    /\ pc[t] = "releasing"
    /\ queue[t] # <<>>
    /\ LET f == Head(queue[t])
       IN  /\ result' = [result EXCEPT ![f] = result[t]]
           /\ pc' = [pc EXCEPT ![f] = "returned"]
    /\ queue' = [queue EXCEPT ![t] = Tail(@)]
    /\ UNCHANGED <<action, currentQueue, future, nextFuture, batchVars, agentVars, exited, counters>>

AllReleased(t) ==
    /\ pc[t] = "releasing"
    /\ queue[t] = <<>>
    /\ pc' = [pc EXCEPT ![t] = "returned"]
    /\ UNCHANGED <<action, result, currentQueue, queue, future, nextFuture, batchVars,
                   agentVars, exited, counters>>

(***************************************************************************)
(* Back in the caller.  The heartbeat thread takes the process down when   *)
(* its action failed, or when it took too long.                            *)
(***************************************************************************)
\* Variant: the heartbeat thread goes on after a failure.
ReturnWhatever(t) ==
    /\ pc[t] = "returned"
    /\ pc' = [pc EXCEPT ![t] = "idle"]
    /\ action' = [action EXCEPT ![t] = NoAction]
    /\ result' = [result EXCEPT ![t] = "none"]
    /\ UNCHANGED <<currentQueue, queue, future, nextFuture, batchVars, agentVars, exited, counters>>

Return(t) ==
    /\ pc[t] = "returned"
    /\ t = HeartbeatThread => result[t] = "ok"
    /\ pc' = [pc EXCEPT ![t] = "idle"]
    /\ action' = [action EXCEPT ![t] = NoAction]
    /\ result' = [result EXCEPT ![t] = "none"]
    /\ UNCHANGED <<currentQueue, queue, future, nextFuture, batchVars, agentVars, exited, counters>>

HeartbeatGivesUp ==
    /\ pc[HeartbeatThread] = "returned"
    /\ exited' = TRUE
    /\ UNCHANGED <<threadVars, agentVars, counters>>

ThreadStep(t) ==
    /\ ~exited
    /\ \/ Unlist(t) \/ LockAndFetch(t) \/ ApplyNext(t) \/ Commit(t) \/ BatchFails(t)
       \/ ReleaseNext(t) \/ ReleaseFollower(t) \/ AllReleased(t)
       \/ Return(t)
       \/ t = HeartbeatThread /\ HeartbeatGivesUp

Enter(t) ==
    /\ ~exited
    /\ \E a \in ActionsOf(t) : Join(t, a) \/ Lead(t, a)

(***************************************************************************)
(* The garbage collector: checkAlive notes a heartbeat that has moved;     *)
(* cleanupDeadAgent keeps the lock of the agent it has taken until it has  *)
(* emptied and deleted it.  It may stop on the way, which frees the lock.  *)
(***************************************************************************)
WatchdogSeesBeat ==
    /\ exists /\ ~collected /\ beating
    /\ beating' = FALSE
    /\ UNCHANGED <<threadVars, agentLock, exists, owned, collected, exited, counters>>

TakeAgent ==
    /\ exists /\ agentLock = None
    /\ collected \/ ~beating
    /\ agentLock' = Collector
    /\ collected' = TRUE
    /\ UNCHANGED <<threadVars, exists, owned, beating, exited, counters>>

FinishCollection ==
    /\ agentLock = Collector
    /\ owned' = {}
    /\ exists' = FALSE
    /\ agentLock' = None
    /\ UNCHANGED <<threadVars, beating, collected, exited, counters>>

CollectorDies ==
    /\ agentLock = Collector
    /\ deaths < MaxCollectorDeaths
    /\ deaths' = deaths + 1
    /\ owned' \in SUBSET owned
    /\ agentLock' = None
    /\ UNCHANGED <<threadVars, exists, beating, collected, exited, calls, errors>>

Collecting == FinishCollection \/ CollectorDies

Next ==
    \/ \E t \in Threads : Enter(t) \/ ThreadStep(t)
    \/ WatchdogSeesBeat
    \/ TakeAgent
    \/ Collecting

Spec == Init /\ [][Next]_vars

(***************************************************************************)
(* The threads run, the heartbeat thread keeps beating, and a collector    *)
(* that has taken the agent goes on or stops.  Nothing makes the others    *)
(* call, and nothing makes the watchdog find the agent dead.               *)
(***************************************************************************)
FairSpec ==
    /\ Spec
    /\ \A t \in Threads : WF_vars(ThreadStep(t))
    /\ WF_vars(Enter(HeartbeatThread))
    /\ WF_vars(Collecting)

-----------------------------------------------------------------------------
(***************************************************************************)
(* The refinement mapping.  A batch takes effect when it is written, or    *)
(* refused when it fails: what is pending is the batch being carried out,  *)
(* then the listed queue.                                                  *)
(***************************************************************************)
InBatch == {t \in Threads : pc[t] \in {"batch", "fetched"}}
Executing == {t \in Threads : pc[t] \in {"batch", "fetched", "written", "failed"}}
Answered(t) == pc[t] \in {"written", "failed", "releasing", "returned"}

CallsOf(t) == [i \in 1..Len(Batch(t)) |->
                 [by |-> Batch(t)[i], what |-> action[Batch(t)[i]]]]

PendingCalls ==
    (IF InBatch = {} THEN <<>> ELSE CallsOf(CHOOSE t \in InBatch : TRUE))
      \o (IF currentQueue = None THEN <<>> ELSE CallsOf(currentQueue))

LeaderOf(t) == CHOOSE l \in Threads : \E i \in 1..Len(queue[l]) : queue[l][i] = t

AnswerOf(t) ==
    CASE pc[t] = "idle" -> "idle"
      [] Answered(t) -> result[t]
      [] pc[t] = "follower" /\ Answered(LeaderOf(t)) -> result[LeaderOf(t)]
      [] OTHER -> "pending"

Abstract == INSTANCE AgentUpdates
    WITH pending <- PendingCalls,
         answer <- [t \in Threads |-> AnswerOf(t)],
         frozen <- collected,
         stopped <- exited

(***************************************************************************)
(* The chain of batches implements the promise: changes are carried out in *)
(* the order of the calls, together with their whole batch or not at all,  *)
(* each caller is told what happened to its own, and none is recorded once *)
(* the collector has the agent.                                            *)
(***************************************************************************)
CallsAreOrdered == Abstract!Spec

(***************************************************************************)
(* The leader finds its queue listed when its turn comes (what the         *)
(* exception in queueAndExecuteAction says cannot be otherwise), and no    *)
(* two queues are carried out at the same time.                            *)
(***************************************************************************)
ListedUntilItsTurn ==
    /\ \A t \in Threads : pc[t] = "waiting" <=> currentQueue = t
    /\ \A t, u \in Executing : t = u

(***************************************************************************)
(* Every thread that asked gets its answer, unless the process exits, also *)
(* after batches that failed.                                              *)
(***************************************************************************)
EveryCallReturns ==
    \A t \in Threads : pc[t] # "idle" ~> (pc[t] = "idle" \/ exited)

(***************************************************************************)
(* A process whose agent was taken while it was stalled exits, even if     *)
(* none of its other threads ever touches the agent again.                 *)
(***************************************************************************)
CollectedProcessExits == collected ~> exited
=============================================================================
