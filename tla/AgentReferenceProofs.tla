------------------------ MODULE AgentReferenceProofs ------------------------
(***************************************************************************)
(* The threads that share the updates of an agent object, for any number   *)
(* of threads, objects, calls and failures: the queues follow one another, *)
(* one batch is carried out at a time, and every follower has a leader.    *)
(***************************************************************************)
EXTENDS AgentReference, SequenceTheorems, TLAPS

\* One leader waits, and the queue it leads is the one that is listed; one batch
\* is carried out at a time; and the promises chain the two.
OneListed == \A t \in Threads : pc[t] = "waiting" <=> currentQueue = t
OneExecuting == \A t, u \in Executing : t = u
Chained ==
    /\ nextFuture = IF currentQueue = None THEN Executing ELSE {currentQueue}
    /\ currentQueue # None => future[currentQueue] = Executing

\* The followers: each waits in one place of one queue, whose leader is there.
Leading == {"waiting", "batch", "fetched", "written", "failed", "releasing"}
Place(l) == 1 .. Len(queue[l])
FollowersWait == \A l \in Threads : \A i \in Place(l) : pc[queue[l][i]] = "follower"
FollowersPlaced ==
    \A t \in Threads : pc[t] = "follower" => \E l \in Threads : \E i \in Place(l) : queue[l][i] = t
OnePlace ==
    \A l, m \in Threads : \A i \in Place(l), j \in Place(m) : queue[l][i] = queue[m][j] => l = m /\ i = j
QueuesLed == \A l \in Threads : queue[l] # <<>> => pc[l] \in Leading

\* What the callers asked for, and what they are told.
CallsKnown == \A t \in Threads : pc[t] # "idle" => action[t] \in Changes \cup {Heartbeat}
AnswersKnown == \A t \in Threads : Answered(t) => result[t] \in {"ok", "failed"}

\* The leader that has the lock works on the list as it is in the object store.
FirstCalls(t, n) == [i \in 1..n |-> [by |-> Batch(t)[i], what |-> action[Batch(t)[i]]]]
ListInHand ==
    \A t \in Threads : pc[t] = "fetched" =>
        /\ agentLock = t /\ ~collected
        /\ applied <= Len(Batch(t))
        /\ ownershipSet = Abstract!After(owned, FirstCalls(t, applied))
CollectorHolds == agentLock = Collector => collected

-----------------------------------------------------------------------------
(***************************************************************************)
(* Types.                                                                  *)
(***************************************************************************)
Stages == {"idle", "follower", "waiting", "batch", "fetched",
           "written", "failed", "releasing", "returned"}

LEMMA InitTyped == Init => TypeOK
<1> SUFFICES ASSUME Init PROVE TypeOK
  OBVIOUS
<1>1. <<>> \in Seq(Threads)
  OBVIOUS
<1>2. 0 \in 0..MaxCalls /\ 0 \in 0..MaxErrors /\ 0 \in 0..MaxCollectorDeaths
  BY BoundsAssumption
<1> QED
  BY <1>1, <1>2 DEF Init, TypeOK

\* appyAction changes the list by addresses of objects only.
LEMMA AppliedTyped ==
    ASSUME NEW list \in SUBSET Objects, NEW a \in Changes \cup {Heartbeat, NoAction}
    PROVE  appyAction(list, a) \in SUBSET Objects
<1>1. a.objs \subseteq Objects
  BY DEF Changes, Heartbeat, NoAction
<1> QED
  BY <1>1 DEF appyAction

\* A batch is the leader and its followers.
LEMMA BatchTyped ==
    ASSUME TypeOK, NEW t \in Threads
    PROVE  /\ Batch(t) \in Seq(Threads)
           /\ Len(Batch(t)) = 1 + Len(queue[t]) /\ Len(queue[t]) \in Nat
           /\ Batch(t)[1] = t
           /\ \A i \in 1 .. Len(queue[t]) : Batch(t)[i + 1] = queue[t][i] /\ queue[t][i] \in Threads
<1>1. queue[t] \in Seq(Threads) /\ <<t>> \in Seq(Threads) /\ Len(<<t>>) = 1 /\ <<t>>[1] = t
  BY DEF TypeOK
<1>2. Len(queue[t]) \in Nat /\ \A i \in 1 .. Len(queue[t]) : queue[t][i] \in Threads
  BY <1>1
<1>3. /\ Batch(t) \in Seq(Threads) /\ Len(Batch(t)) = 1 + Len(queue[t])
      /\ \A i \in 1 .. 1 + Len(queue[t]) :
           Batch(t)[i] = IF i <= 1 THEN <<t>>[i] ELSE queue[t][i - 1]
  BY <1>1, ConcatProperties DEF Batch
<1>4. Batch(t)[1] = t
  BY <1>1, <1>2, <1>3
<1>5. ASSUME NEW i \in 1 .. Len(queue[t]) PROVE Batch(t)[i + 1] = queue[t][i]
  <2>1. i + 1 \in 1 .. 1 + Len(queue[t]) /\ ~(i + 1 <= 1) /\ (i + 1) - 1 = i
    BY <1>2
  <2> QED
    BY <1>3, <2>1
<1> QED
  BY <1>2, <1>3, <1>4, <1>5

LEMMA EnterTyped ==
    ASSUME TypeOK, NEW t \in Threads, Enter(t)
    PROVE  TypeOK'
<1>1. PICK a \in ActionsOf(t) : Join(t, a) \/ Lead(t, a)
  BY DEF Enter
<1>2. a \in Changes \cup {Heartbeat, NoAction}
  BY DEF ActionsOf
<1>2a. calls' \in 0..MaxCalls
  <2>1. /\ t # HeartbeatThread => calls < MaxCalls
        /\ calls' = IF t = HeartbeatThread THEN calls ELSE calls + 1
    BY <1>1 DEF Join, Lead, Call
  <2> QED
    BY <2>1, BoundsAssumption DEF TypeOK
<1>3. /\ action' \in [Threads -> Changes \cup {Heartbeat, NoAction}]
      /\ UNCHANGED <<result, ownershipSet, applied, agentLock, exists, owned, beating, collected,
                     exited, errors, deaths>>
  <2>1. Call(t, a)
    BY <1>1 DEF Join, Lead
  <2>2. action' = [action EXCEPT ![t] = a]
    BY <2>1 DEF Call
  <2>3. action' \in [Threads -> Changes \cup {Heartbeat, NoAction}]
    BY <1>2, <2>2 DEF TypeOK
  <2> QED
    BY <2>1, <2>3 DEF Call, batchVars, agentVars
<1>4. pc' \in [Threads -> Stages]
  BY <1>1 DEF Join, Lead, TypeOK, Stages
<1>5. /\ queue' \in [Threads -> Seq(Threads)] /\ currentQueue' \in Threads \cup {None}
      /\ future' \in [Threads -> SUBSET Threads] /\ nextFuture' \in SUBSET Threads
  <2>1. CASE Join(t, a)
    <3>1. currentQueue \in Threads /\ queue[currentQueue] \in Seq(Threads)
      BY <2>1 DEF Join, TypeOK
    <3>2. Append(queue[currentQueue], t) \in Seq(Threads)
      BY <3>1
    <3> QED
      BY <2>1, <3>1, <3>2 DEF Join, TypeOK
  <2>2. CASE Lead(t, a)
    <3>1. <<>> \in Seq(Threads)
      OBVIOUS
    <3> QED
      BY <2>2, <3>1 DEF Lead, TypeOK
  <2> QED
    BY <1>1, <2>1, <2>2
<1> QED
  BY <1>2a, <1>3, <1>4, <1>5 DEF TypeOK, Stages

LEMMA ThreadTyped ==
    ASSUME TypeOK, NEW t \in Threads, ThreadStep(t)
    PROVE  TypeOK'
<1> USE DEF batchVars, agentVars, counters
<1>1. CASE Unlist(t)
  BY <1>1 DEF Unlist, TypeOK
<1>2. CASE LockAndFetch(t)
  <2>1. CASE collected
    BY <1>2, <2>1 DEF LockAndFetch, TypeOK
  <2>2. CASE ~collected
    <3>1. /\ agentLock' = t /\ pc' = [pc EXCEPT ![t] = "fetched"]
          /\ ownershipSet' = owned /\ applied' = 0
          /\ UNCHANGED <<action, result, currentQueue, queue, future, nextFuture, exited,
                         exists, owned, beating, collected, calls, errors, deaths>>
      BY <1>2, <2>2 DEF LockAndFetch
    <3> QED
      BY <3>1 DEF TypeOK
  <2> QED
    BY <2>1, <2>2
<1>3. CASE ApplyNext(t)
  <2>1. Batch(t)[applied + 1] \in Threads
    BY <1>3, BatchTyped DEF ApplyNext, TypeOK
  <2>2. ownershipSet' \in SUBSET Objects
    BY <1>3, <2>1, AppliedTyped DEF ApplyNext, TypeOK
  <2> QED
    BY <1>3, <2>2 DEF ApplyNext, TypeOK
<1>4. CASE Commit(t)
  BY <1>4 DEF Commit, TypeOK
<1>5. CASE BatchFails(t)
  BY <1>5, BoundsAssumption DEF BatchFails, TypeOK
<1>6. CASE ReleaseNext(t)
  BY <1>6 DEF ReleaseNext, TypeOK
<1>7. CASE ReleaseFollower(t)
  <2>1. Head(queue[t]) \in Threads /\ Tail(queue[t]) \in Seq(Threads)
    BY <1>7 DEF ReleaseFollower, TypeOK
  <2>2. /\ result' \in [Threads -> {"none", "ok", "failed"}]
        /\ pc' \in [Threads -> Stages]
        /\ queue' \in [Threads -> Seq(Threads)]
    BY <1>7, <2>1 DEF ReleaseFollower, TypeOK, Stages
  <2> QED
    BY <1>7, <2>2 DEF ReleaseFollower, TypeOK, Stages
<1>8. CASE AllReleased(t)
  BY <1>8 DEF AllReleased, TypeOK
<1>9. CASE Return(t)
  BY <1>9 DEF Return, TypeOK
<1>10. CASE HeartbeatGivesUp
  BY <1>10 DEF HeartbeatGivesUp, threadVars, TypeOK
<1> QED
  BY <1>1, <1>2, <1>3, <1>4, <1>5, <1>6, <1>7, <1>8, <1>9, <1>10 DEF ThreadStep

LEMMA CollectorTyped ==
    ASSUME TypeOK, WatchdogSeesBeat \/ TakeAgent \/ Collecting
    PROVE  TypeOK'
<1> USE DEF threadVars, batchVars, counters
<1>1. CASE WatchdogSeesBeat
  BY <1>1 DEF WatchdogSeesBeat, TypeOK
<1>2. CASE TakeAgent
  BY <1>2 DEF TakeAgent, TypeOK
<1>3. CASE FinishCollection
  BY <1>3 DEF FinishCollection, TypeOK
<1>4. CASE CollectorDies
  BY <1>4, BoundsAssumption DEF CollectorDies, TypeOK
<1> QED
  BY <1>1, <1>2, <1>3, <1>4 DEF Collecting

LEMMA StepTyped == TypeOK /\ [Next]_vars => TypeOK'
<1> SUFFICES ASSUME TypeOK, [Next]_vars PROVE TypeOK'
  OBVIOUS
<1>1. CASE UNCHANGED vars
  BY <1>1 DEF vars, threadVars, batchVars, agentVars, counters, TypeOK
<1>2. CASE Next
  BY <1>2, EnterTyped, ThreadTyped, CollectorTyped DEF Next
<1> QED
  BY <1>1, <1>2

\* The threads, the queues, the promises and the agent object only ever have the
\* values that the code gives them (TypeOK): what is written to the ownership
\* list of the agent are addresses, one for each object of a batch.
THEOREM AgentReferenceTyped == Spec => []TypeOK
<1> QED
  BY InitTyped, StepTyped, PTL DEF Spec

-----------------------------------------------------------------------------
(***************************************************************************)
(* The chain.  A leader leaves a promise for the next and waits for the    *)
(* one before it, so that the listed queue waits for the batch that is     *)
(* being carried out, and for no other.                                    *)
(***************************************************************************)
Chain == OneListed /\ OneExecuting /\ Chained

LEMMA InitChain == Init => Chain
<1> QED
  BY ThreadsAssumption DEF Init, Chain, OneListed, OneExecuting, Chained, Executing

\* Where a step keeps the executing thread executing, and changes neither the
\* listed queue nor the promises, the chain stays as it is.
LEMMA ChainStays ==
    ASSUME TypeOK, Chain, Executing' = Executing,
           \A t \in Threads : pc'[t] = "waiting" <=> pc[t] = "waiting",
           UNCHANGED <<currentQueue, future, nextFuture>>
    PROVE  Chain'
<1> QED
  BY DEF Chain, OneListed, OneExecuting, Chained

LEMMA EnterChain ==
    ASSUME TypeOK, Chain, NEW t \in Threads, Enter(t)
    PROVE  Chain'
<1>1. PICK a \in ActionsOf(t) : Join(t, a) \/ Lead(t, a)
  BY DEF Enter
<1>2. pc[t] = "idle"
  BY <1>1 DEF Join, Lead, Call
<1>3. Executing' = Executing
  BY <1>1, <1>2 DEF Join, Lead, Executing, TypeOK
<1>4. CASE Join(t, a)
  <2>1. \A u \in Threads : pc'[u] = "waiting" <=> pc[u] = "waiting"
    BY <1>2, <1>4 DEF Join, TypeOK
  <2> QED
    BY <1>3, <1>4, <2>1, ChainStays DEF Join
<1>5. CASE Lead(t, a)
  <2>1. /\ currentQueue = None /\ currentQueue' = t /\ nextFuture' = {t}
        /\ future' = [future EXCEPT ![t] = nextFuture]
        /\ pc' = [pc EXCEPT ![t] = "waiting"]
    BY <1>5 DEF Lead
  <2>2. OneListed'
    BY <2>1, ThreadsAssumption DEF Chain, OneListed, TypeOK
  <2>3. Chained'
    <3>1. nextFuture = Executing /\ t # None
      BY <2>1, ThreadsAssumption DEF Chain, Chained
    <3> QED
      BY <1>3, <2>1, <3>1 DEF Chained, TypeOK
  <2> QED
    BY <1>3, <2>2, <2>3 DEF Chain, OneExecuting
<1> QED
  BY <1>1, <1>4, <1>5

-----------------------------------------------------------------------------
(***************************************************************************)
(* The followers.                                                          *)
(***************************************************************************)
Followers == FollowersWait /\ FollowersPlaced /\ OnePlace /\ QueuesLed

LEMMA InitFollowers == Init => Followers
<1> SUFFICES ASSUME Init PROVE Followers
  OBVIOUS
<1>1. \A l \in Threads : queue[l] = <<>> /\ Place(l) = {} /\ pc[l] = "idle"
  BY DEF Init, Place
<1> QED
  BY <1>1 DEF Followers, FollowersWait, FollowersPlaced, OnePlace, QueuesLed

LEMMA FollowersStay ==
    ASSUME TypeOK, Followers, queue' = queue,
           \A u \in Threads : pc'[u] = "follower" <=> pc[u] = "follower",
           \A u \in Threads : pc[u] \in Leading => pc'[u] \in Leading \/ queue[u] = <<>>
    PROVE  Followers'
<1>1. \A l \in Threads : Place(l)' = Place(l) /\ \A i \in Place(l) : queue[l][i] \in Threads
  BY DEF Place, TypeOK
<1>2. FollowersWait' /\ FollowersPlaced' /\ OnePlace'
  BY <1>1 DEF Followers, FollowersWait, FollowersPlaced, OnePlace
<1> QED
  BY <1>2 DEF Followers, QueuesLed

\* A thread that joins takes the last place of the listed queue.
LEMMA JoinPlaces ==
    ASSUME TypeOK, NEW t \in Threads, NEW a, Join(t, a), NEW c \in Threads, c = currentQueue
    PROVE  /\ \A l \in Threads : \A i \in Place(l) : i \in Place(l)' /\ queue'[l][i] = queue[l][i]
           /\ \A l \in Threads : \A i \in Place(l)' :
                \/ i \in Place(l) /\ queue'[l][i] = queue[l][i]
                \/ l = c /\ i = Len(queue[l]) + 1 /\ queue'[l][i] = t
           /\ Len(queue[c]) + 1 \in Place(c)' /\ queue'[c][Len(queue[c]) + 1] = t
           /\ Len(queue'[c]) = Len(queue[c]) + 1 /\ Len(queue[c]) \in Nat
<1> DEFINE q == queue[c]
           n == Len(q)
<1>1. queue' = [queue EXCEPT ![c] = Append(q, t)]
  BY DEF Join
<1>2. q \in Seq(Threads) /\ n \in Nat
  BY DEF TypeOK
<1>3. queue'[c] = Append(q, t) /\ \A l \in Threads : l # c => queue'[l] = queue[l]
  BY <1>1 DEF TypeOK
<1>4. /\ Len(Append(q, t)) = n + 1 /\ Append(q, t)[n + 1] = t
      /\ \A i \in 1..n : Append(q, t)[i] = q[i]
  BY <1>2
<1>5. Place(c)' = 1 .. n + 1 /\ Place(c) = 1 .. n
  BY <1>3, <1>4 DEF Place
<1>6. \A l \in Threads : l # c => Place(l)' = Place(l)
  BY <1>3 DEF Place
<1>7. /\ \A i \in 1 .. n : i \in 1 .. n + 1
      /\ \A i \in 1 .. n + 1 : i \in 1 .. n \/ i = n + 1
      /\ n + 1 \in 1 .. n + 1
  BY <1>2
<1>8. ASSUME NEW l \in Threads
      PROVE  \A i \in Place(l) : i \in Place(l)' /\ queue'[l][i] = queue[l][i]
  BY <1>3, <1>4, <1>5, <1>6, <1>7
<1>9. ASSUME NEW l \in Threads, NEW i \in Place(l)'
      PROVE  \/ i \in Place(l) /\ queue'[l][i] = queue[l][i]
             \/ l = c /\ i = Len(queue[l]) + 1 /\ queue'[l][i] = t
  BY <1>3, <1>4, <1>5, <1>6, <1>7
<1> QED
  BY <1>2, <1>3, <1>4, <1>5, <1>7, <1>8, <1>9

LEMMA EnterFollowers ==
    ASSUME TypeOK, Chain, Followers, NEW t \in Threads, Enter(t)
    PROVE  Followers'
<1>1. PICK a \in ActionsOf(t) : Join(t, a) \/ Lead(t, a)
  BY DEF Enter
<1>2. pc[t] = "idle"
  BY <1>1 DEF Join, Lead, Call
<1>3. CASE Lead(t, a)
  <2>1. queue[t] = <<>>
    BY <1>2 DEF Followers, QueuesLed, Leading
  <2>2. queue' = queue /\ pc' = [pc EXCEPT ![t] = "waiting"]
    BY <1>3, <2>1 DEF Lead, TypeOK
  <2> QED
    BY <1>2, <2>2, FollowersStay DEF TypeOK, Leading
<1>4. CASE Join(t, a)
  <2>1. PICK c \in Threads : c = currentQueue
    BY <1>4 DEF Join, TypeOK
  <2>2. pc[c] = "waiting" /\ pc' = [pc EXCEPT ![t] = "follower"] /\ c # t
    BY <1>2, <1>4, <2>1 DEF Chain, OneListed, Join
  <2>3. /\ \A u \in Threads : u # t => pc'[u] = pc[u]
        /\ pc'[t] = "follower"
    BY <2>2 DEF TypeOK
  <2>4. \A l \in Threads : \A i \in Place(l) : queue[l][i] # t /\ queue[l][i] \in Threads
    BY <1>2 DEF Followers, FollowersWait, Place, TypeOK
  <2>5. /\ \A l \in Threads : \A i \in Place(l) : i \in Place(l)' /\ queue'[l][i] = queue[l][i]
        /\ \A l \in Threads : \A i \in Place(l)' :
             \/ i \in Place(l) /\ queue'[l][i] = queue[l][i]
             \/ l = c /\ i = Len(queue[l]) + 1 /\ queue'[l][i] = t
        /\ Len(queue[c]) + 1 \in Place(c)' /\ queue'[c][Len(queue[c]) + 1] = t
    BY <1>4, <2>1, JoinPlaces
  <2>6. FollowersWait'
    BY <2>3, <2>4, <2>5 DEF Followers, FollowersWait
  <2>7. FollowersPlaced'
    BY <2>3, <2>5 DEF Followers, FollowersPlaced
  <2>8. OnePlace'
    BY <2>4, <2>5 DEF Followers, OnePlace
  <2>9. QueuesLed'
    <3>1. \A l \in Threads : l # c => queue'[l] = queue[l]
      BY <1>4, <2>1 DEF Join, TypeOK
    <3>2. pc'[c] = "waiting"
      BY <2>2, <2>3
    <3> QED
      BY <1>2, <2>3, <3>1, <3>2 DEF Followers, QueuesLed, Leading
  <2> QED
    BY <2>6, <2>7, <2>8, <2>9 DEF Followers
<1> QED
  BY <1>1, <1>3, <1>4

\* A follower that is answered leaves the first place, and the others move up.
LEMMA ReleasePlaces ==
    ASSUME TypeOK, NEW t \in Threads, ReleaseFollower(t)
    PROVE  /\ 1 \in Place(t) /\ Head(queue[t]) = queue[t][1] /\ Head(queue[t]) \in Threads
           /\ \A l \in Threads : l # t => queue'[l] = queue[l] /\ Place(l)' = Place(l)
           /\ \A i \in Place(t)' : i + 1 \in Place(t) /\ queue'[t][i] = queue[t][i + 1]
           /\ \A i \in Place(t) : i # 1 =>
                \E j \in Place(t)' : i = j + 1 /\ queue'[t][j] = queue[t][i]
           /\ Place(t)' \subseteq Nat \ {0}
<1> DEFINE q == queue[t]
           n == Len(q)
<1>1. q \in Seq(Threads) /\ q # <<>> /\ queue' = [queue EXCEPT ![t] = Tail(q)]
  BY DEF ReleaseFollower, TypeOK
<1>2. n \in Nat /\ n # 0 /\ Head(q) = q[1] /\ Head(q) \in Threads
  BY <1>1
<1>3. Len(Tail(q)) = n - 1 /\ \A i \in 1 .. n - 1 : Tail(q)[i] = q[i + 1]
  BY <1>1, <1>2
<1>4. queue'[t] = Tail(q) /\ \A l \in Threads : l # t => queue'[l] = queue[l]
  BY <1>1 DEF TypeOK
<1>5. Place(t)' = 1 .. n - 1 /\ Place(t) = 1 .. n
  BY <1>3, <1>4 DEF Place
<1>6. \A l \in Threads : l # t => Place(l)' = Place(l)
  BY <1>4 DEF Place
<1> HIDE DEF n
<1>7. /\ 1 \in 1 .. n /\ \A i \in 1 .. n - 1 : i + 1 \in 1 .. n
      /\ \A i \in 1 .. n : i # 1 => i - 1 \in 1 .. n - 1 /\ i = (i - 1) + 1
  BY <1>2
<1>8. \A i \in Place(t)' : i + 1 \in Place(t) /\ queue'[t][i] = queue[t][i + 1]
  BY <1>3, <1>4, <1>5, <1>7
<1>9. ASSUME NEW i \in Place(t), i # 1
      PROVE  \E j \in Place(t)' : i = j + 1 /\ queue'[t][j] = queue[t][i]
  <2>1. i - 1 \in Place(t)' /\ i = (i - 1) + 1
    BY <1>5, <1>7, <1>9
  <2>2. queue'[t][i - 1] = queue[t][(i - 1) + 1]
    BY <1>8, <2>1
  <2> QED
    BY <2>1, <2>2
<1>10. Place(t)' \subseteq Nat \ {0}
  BY <1>2, <1>5
<1> QED
  BY <1>2, <1>4, <1>5, <1>6, <1>7, <1>8, <1>9, <1>10

LEMMA ThreadFollowers ==
    ASSUME TypeOK, Chain, Followers, NEW t \in Threads, ThreadStep(t)
    PROVE  Followers'
<1>1. CASE ~ReleaseFollower(t)
  <2>1. queue' = queue
    BY <1>1 DEF ThreadStep, Unlist, LockAndFetch, ApplyNext, Commit, BatchFails, ReleaseNext,
       AllReleased, Return, HeartbeatGivesUp, threadVars
  <2>2. \/ pc' = pc
        \/ \E st \in Stages :
             /\ pc' = [pc EXCEPT ![t] = st] /\ st # "follower" /\ pc[t] # "follower"
             /\ st \in Leading \/ pc[t] \notin Leading \/ queue[t] = <<>>
    BY <1>1 DEF ThreadStep, Unlist, LockAndFetch, ApplyNext, Commit, BatchFails, ReleaseNext,
       AllReleased, Return, HeartbeatGivesUp, threadVars, Stages, Leading
  <2> QED
    BY <2>1, <2>2, FollowersStay DEF TypeOK
<1>2. CASE ReleaseFollower(t)
  <2> DEFINE f == Head(queue[t])
  <2>1. pc[t] = "releasing" /\ pc' = [pc EXCEPT ![f] = "returned"]
    BY <1>2 DEF ReleaseFollower
  <2>2. /\ 1 \in Place(t) /\ f = queue[t][1] /\ f \in Threads
        /\ \A l \in Threads : l # t => queue'[l] = queue[l] /\ Place(l)' = Place(l)
        /\ \A i \in Place(t)' : i + 1 \in Place(t) /\ queue'[t][i] = queue[t][i + 1]
        /\ \A i \in Place(t) : i # 1 =>
             \E j \in Place(t)' : i = j + 1 /\ queue'[t][j] = queue[t][i]
        /\ Place(t)' \subseteq Nat \ {0}
    BY <1>2, ReleasePlaces
  <2> HIDE DEF f
  <2>3. pc[f] = "follower" /\ f # t
    BY <2>1, <2>2 DEF Followers, FollowersWait
  <2>4. /\ \A u \in Threads : u # f => pc'[u] = pc[u]
        /\ pc'[f] = "returned"
    BY <2>1, <2>2 DEF TypeOK
  <2>5. \A l \in Threads : \A i \in Place(l) :
          queue[l][i] \in Threads /\ (queue[l][i] = f => l = t /\ i = 1)
    <3>1. \A l \in Threads : \A i \in Place(l) : queue[l][i] \in Threads
      BY DEF Place, TypeOK
    <3> QED
      BY <2>2, <3>1 DEF Followers, OnePlace
  <2>6. \A i \in Place(t)' : i + 1 # 1
    BY <2>2
  <2>7. FollowersWait'
    <3>1. ASSUME NEW l \in Threads, NEW i \in Place(l)' PROVE pc'[queue'[l][i]] = "follower"
      <4>1. CASE l = t
        BY <2>2, <2>4, <2>5, <2>6, <4>1 DEF Followers, FollowersWait
      <4>2. CASE l # t
        BY <2>2, <2>4, <2>5, <4>2 DEF Followers, FollowersWait
      <4> QED
        BY <4>1, <4>2
    <3> QED
      BY <3>1 DEF FollowersWait
  <2>8. FollowersPlaced'
    <3>1. ASSUME NEW u \in Threads, pc'[u] = "follower"
          PROVE  \E l \in Threads : \E i \in Place(l)' : queue'[l][i] = u
      <4>1. u # f /\ pc[u] = "follower"
        BY <2>4, <3>1
      <4>2. PICK l \in Threads : \E i \in Place(l) : queue[l][i] = u
        BY <4>1 DEF Followers, FollowersPlaced
      <4> QED
        BY <2>2, <4>1, <4>2
    <3> QED
      BY <3>1 DEF FollowersPlaced
  <2>9. OnePlace'
    <3>1. ASSUME NEW l \in Threads, NEW m \in Threads, NEW i \in Place(l)', NEW j \in Place(m)',
                 queue'[l][i] = queue'[m][j]
          PROVE  l = m /\ i = j
      <4>1. CASE l = t /\ m = t
        <5>1. i + 1 = j + 1 /\ i \in Nat /\ j \in Nat
          BY <2>2, <3>1, <4>1 DEF Followers, OnePlace
        <5> QED
          BY <4>1, <5>1
      <4>2. CASE l # t \/ m # t
        BY <2>2, <3>1, <4>2 DEF Followers, OnePlace
      <4> QED
        BY <4>1, <4>2
    <3> QED
      BY <3>1 DEF OnePlace
  <2>10. QueuesLed'
    <3>1. pc'[t] = "releasing"
      BY <2>1, <2>3, <2>4
    <3>2. queue[f] = <<>>
      BY <2>2, <2>3 DEF Followers, QueuesLed, Leading
    <3> QED
      BY <2>2, <2>3, <2>4, <3>1, <3>2 DEF Followers, QueuesLed, Leading
  <2> QED
    BY <2>7, <2>8, <2>9, <2>10 DEF Followers
<1> QED
  BY <1>1, <1>2

LEMMA ThreadChain ==
    ASSUME TypeOK, Chain, Followers, NEW t \in Threads, ThreadStep(t)
    PROVE  Chain'
<1>1. CASE Unlist(t)
  <2>1. /\ pc[t] = "waiting" /\ future[t] = {} /\ currentQueue' = None
        /\ pc' = [pc EXCEPT ![t] = "batch"] /\ UNCHANGED <<future, nextFuture>>
    BY <1>1 DEF Unlist, Turn
  <2>2. currentQueue = t /\ t # None
    BY <2>1, ThreadsAssumption DEF Chain, OneListed
  <2>3. Executing = {} /\ nextFuture = {t}
    BY <2>1, <2>2 DEF Chain, Chained
  <2>4. Executing' = {t}
    BY <2>1, <2>3 DEF Executing, TypeOK
  <2>5. OneListed'
    BY <2>1, <2>2, ThreadsAssumption DEF Chain, OneListed, TypeOK
  <2> QED
    BY <2>1, <2>3, <2>4, <2>5 DEF Chain, OneExecuting, Chained
<1>2. CASE ReleaseNext(t)
  <2>1. /\ pc[t] \in {"written", "failed"} /\ pc' = [pc EXCEPT ![t] = "releasing"]
        /\ future' = [u \in Threads |-> future[u] \ {t}]
        /\ nextFuture' = nextFuture \ {t} /\ currentQueue' = currentQueue
    BY <1>2 DEF ReleaseNext
  <2>2. Executing = {t} /\ Executing' = {}
    BY <2>1 DEF Executing, TypeOK, Chain, OneExecuting
  <2>3. OneListed'
    BY <2>1 DEF Chain, OneListed, TypeOK
  <2>4. currentQueue # t
    BY <2>1 DEF Chain, OneListed
  <2>5. Chained'
    <3>1. CASE currentQueue = None
      BY <2>1, <2>2, <3>1 DEF Chain, Chained
    <3>2. CASE currentQueue # None
      <4>1. currentQueue \in Threads /\ nextFuture = {currentQueue} /\ future[currentQueue] = {t}
        BY <2>2, <3>2 DEF Chain, Chained, TypeOK
      <4> QED
        BY <2>1, <2>2, <2>4, <3>2, <4>1 DEF Chained
    <3> QED
      BY <3>1, <3>2
  <2> QED
    BY <2>2, <2>3, <2>5 DEF Chain, OneExecuting
<1>3. CASE \/ LockAndFetch(t) \/ ApplyNext(t) \/ Commit(t) \/ BatchFails(t)
           \/ AllReleased(t) \/ Return(t) \/ (t = HeartbeatThread /\ HeartbeatGivesUp)
  <2>1. UNCHANGED <<currentQueue, future, nextFuture>>
    BY <1>3 DEF LockAndFetch, ApplyNext, Commit, BatchFails, AllReleased, Return,
       HeartbeatGivesUp, threadVars
  <2>2. \/ pc' = pc
        \/ \E st \in Stages :
             /\ pc' = [pc EXCEPT ![t] = st] /\ st # "waiting" /\ pc[t] # "waiting"
             /\ t \in Executing <=> st \in {"batch", "fetched", "written", "failed"}
    BY <1>3 DEF LockAndFetch, ApplyNext, Commit, BatchFails, AllReleased, Return,
       HeartbeatGivesUp, threadVars, Executing, Stages
  <2>3. Executing' = Executing /\ \A u \in Threads : pc'[u] = "waiting" <=> pc[u] = "waiting"
    BY <2>2 DEF Executing, TypeOK
  <2> QED
    BY <2>1, <2>3, ChainStays
<1>4. CASE ReleaseFollower(t)
  <2> DEFINE f == Head(queue[t])
  <2>1. /\ pc' = [pc EXCEPT ![f] = "returned"]
        /\ UNCHANGED <<currentQueue, future, nextFuture>>
    BY <1>4 DEF ReleaseFollower
  <2>2. 1 \in Place(t) /\ f = queue[t][1] /\ f \in Threads
    BY <1>4, ReleasePlaces
  <2>3. pc[f] = "follower"
    BY <2>2 DEF Followers, FollowersWait
  <2>4. Executing' = Executing /\ \A u \in Threads : pc'[u] = "waiting" <=> pc[u] = "waiting"
    BY <2>1, <2>2, <2>3 DEF Executing, TypeOK
  <2> QED
    BY <2>1, <2>4, ChainStays
<1> QED
  BY <1>1, <1>2, <1>3, <1>4 DEF ThreadStep

\* The collector does not touch the threads.
LEMMA StepChain == TypeOK /\ Chain /\ Followers /\ [Next]_vars => Chain' /\ Followers'
<1> SUFFICES ASSUME TypeOK, Chain, Followers, [Next]_vars PROVE Chain' /\ Followers'
  OBVIOUS
<1>1. CASE UNCHANGED vars \/ WatchdogSeesBeat \/ TakeAgent \/ Collecting
  <2>1. UNCHANGED <<pc, currentQueue, queue, future, nextFuture>>
    BY <1>1 DEF vars, threadVars, WatchdogSeesBeat, TakeAgent, Collecting, FinishCollection,
       CollectorDies
  <2>2. Executing' = Executing
    BY <2>1 DEF Executing
  <2> QED
    BY <2>1, <2>2, ChainStays, FollowersStay
<1>2. CASE Next
  BY <1>1, <1>2, EnterChain, EnterFollowers, ThreadChain, ThreadFollowers DEF Next
<1> QED
  BY <1>1, <1>2

LEMMA AlwaysChain == Spec => [](TypeOK /\ Chain /\ Followers)
<1>1. Init => TypeOK /\ Chain /\ Followers
  BY InitTyped, InitChain, InitFollowers
<1>2. TypeOK /\ Chain /\ Followers /\ [Next]_vars => (TypeOK /\ Chain /\ Followers)'
  BY StepTyped, StepChain
<1> QED
  BY <1>1, <1>2, PTL DEF Spec

\* A leader whose turn has come finds its queue listed, which the exception in
\* queueAndExecuteAction takes for granted, and no two batches are carried out
\* at the same time (ListedUntilItsTurn).
THEOREM LeadersTakeTurns == Spec => []ListedUntilItsTurn
<1>1. Chain => ListedUntilItsTurn
  BY DEF Chain, OneListed, OneExecuting, ListedUntilItsTurn
<1> QED
  BY <1>1, AlwaysChain, PTL

-----------------------------------------------------------------------------
(***************************************************************************)
(* The list in hand.  The list after n + 1 calls is the list after n of    *)
(* them, changed by the last: carrying out a batch one action at a time    *)
(* gives what AgentUpdates says of the whole.                              *)
(***************************************************************************)
LEMMA AfterNone ==
    ASSUME NEW list \in SUBSET Objects, NEW sq, DOMAIN sq = {}
    PROVE  Abstract!After(list, sq) = list
<1> QED
  BY DEF Abstract!After

LEMMA AfterOneMore ==
    ASSUME NEW list \in SUBSET Objects, NEW n \in Nat, NEW sq, NEW longer,
           DOMAIN sq = 1..n, DOMAIN longer = 1..n + 1,
           \A i \in 1..n : longer[i] = sq[i],
           longer[n + 1].what \in Changes \cup {Heartbeat}
    PROVE  Abstract!After(list, longer)
             = appyAction(Abstract!After(list, sq), longer[n + 1].what)
<1> DEFINE a == longer[n + 1].what
           before == Abstract!After(list, sq)
           after == Abstract!After(list, longer)
<1>1. a.objs \subseteq Objects /\ (a.op = "Add" \/ a.op = "Remove" \/ (a.op = "Heartbeat" /\ a.objs = {}))
  BY DEF Changes, Heartbeat
<1>2. /\ n + 1 \in 1..n + 1 /\ \A i \in 1..n : i \in 1..n + 1 /\ n + 1 > i /\ ~(i > n + 1)
      /\ ~(n + 1 > n + 1)
      /\ \A i \in 1..n + 1 : i \in 1..n \/ i = n + 1
  OBVIOUS
<1>3. after \subseteq Objects /\ before \subseteq Objects
  BY DEF Abstract!After
<1>4. ASSUME NEW o \in Objects, o \in a.objs
      PROVE  o \in after <=> a.op = "Add"
  <2>1. o \in after <=>
          \/ \E i \in 1..n + 1 :
               /\ longer[i].what.op = "Add" /\ o \in longer[i].what.objs
               /\ \A j \in 1..n + 1 : j > i => o \notin longer[j].what.objs
          \/ /\ o \in list
             /\ \A i \in 1..n + 1 : o \notin longer[i].what.objs
    BY DEF Abstract!After
  <2> QED
    BY <1>2, <1>4, <2>1
<1>5. ASSUME NEW o \in Objects, o \notin a.objs
      PROVE  o \in after <=> o \in before
  <2>1. o \in after <=>
          \/ \E i \in 1..n + 1 :
               /\ longer[i].what.op = "Add" /\ o \in longer[i].what.objs
               /\ \A j \in 1..n + 1 : j > i => o \notin longer[j].what.objs
          \/ /\ o \in list
             /\ \A i \in 1..n + 1 : o \notin longer[i].what.objs
    BY DEF Abstract!After
  <2>2. o \in before <=>
          \/ \E i \in 1..n :
               /\ sq[i].what.op = "Add" /\ o \in sq[i].what.objs
               /\ \A j \in 1..n : j > i => o \notin sq[j].what.objs
          \/ /\ o \in list
             /\ \A i \in 1..n : o \notin sq[i].what.objs
    BY DEF Abstract!After
  <2> QED
    BY <1>2, <1>5, <2>1, <2>2
<1> HIDE DEF a, before, after
<1>6. after = appyAction(before, a)
  <2>1. CASE a.op = "Add"
    BY <1>1, <1>3, <1>4, <1>5, <2>1 DEF appyAction
  <2>2. CASE a.op = "Remove"
    BY <1>1, <1>3, <1>4, <1>5, <2>2 DEF appyAction
  <2>3. CASE a.op = "Heartbeat" /\ a.objs = {}
    BY <1>1, <1>3, <1>4, <1>5, <2>3 DEF appyAction
  <2> QED
    BY <1>1, <2>1, <2>2, <2>3
<1> QED
  BY <1>6 DEF a, before, after

\* Everyone in a batch has asked for something: the leader or a follower.
LEMMA BatchMembers ==
    ASSUME TypeOK, Followers, NEW t \in Threads, NEW i \in 1..Len(Batch(t))
    PROVE  Batch(t)[i] \in Threads /\ (Batch(t)[i] = t \/ pc[Batch(t)[i]] = "follower")
<1>1. /\ Len(Batch(t)) = 1 + Len(queue[t]) /\ Len(queue[t]) \in Nat /\ Batch(t)[1] = t
      /\ \A j \in 1 .. Len(queue[t]) : Batch(t)[j + 1] = queue[t][j] /\ queue[t][j] \in Threads
  BY BatchTyped
<1>2. CASE i = 1
  BY <1>1, <1>2
<1>3. CASE i # 1
  <2>1. i - 1 \in 1 .. Len(queue[t]) /\ (i - 1) + 1 = i
    BY <1>1, <1>3
  <2>2. Batch(t)[i] = queue[t][i - 1] /\ queue[t][i - 1] \in Threads
    BY <1>1, <2>1
  <2> QED
    BY <2>1, <2>2 DEF Followers, FollowersWait, Place
<1> QED
  BY <1>2, <1>3

\* A batch whose queue and whose callers' actions stay asks for the same calls.
LEMMA CallsStay ==
    ASSUME TypeOK, Followers, NEW t \in Threads, queue'[t] = queue[t],
           \A u \in Threads : u = t \/ pc[u] = "follower" => action'[u] = action[u]
    PROVE  /\ Batch(t)' = Batch(t) /\ CallsOf(t)' = CallsOf(t)
           /\ \A n \in 0..Len(Batch(t)) : FirstCalls(t, n)' = FirstCalls(t, n)
<1>1. Batch(t)' = Batch(t)
  BY DEF Batch
<1>2. \A i \in 1..Len(Batch(t)) : action'[Batch(t)[i]] = action[Batch(t)[i]]
  BY BatchMembers
<1>3. CallsOf(t)' = CallsOf(t)
  BY <1>1, <1>2 DEF CallsOf
<1>4. ASSUME NEW n \in 0..Len(Batch(t)) PROVE FirstCalls(t, n)' = FirstCalls(t, n)
  <2>1. \A i \in 1..n : i \in 1..Len(Batch(t))
    BY BatchTyped
  <2> QED
    BY <1>1, <1>2, <2>1 DEF FirstCalls
<1> QED
  BY <1>1, <1>3, <1>4

Known == CallsKnown /\ AnswersKnown /\ ListInHand /\ CollectorHolds

LEMMA InitKnown == Init => Known
<1> QED
  BY ThreadsAssumption DEF Init, Known, CallsKnown, AnswersKnown, ListInHand, CollectorHolds,
     Answered

LEMMA EnterKnown ==
    ASSUME TypeOK, Chain, Followers, Known, NEW t \in Threads, Enter(t)
    PROVE  Known'
<1>1. PICK a \in ActionsOf(t) : Join(t, a) \/ Lead(t, a)
  BY DEF Enter
<1>2. /\ pc[t] = "idle" /\ action' = [action EXCEPT ![t] = a]
      /\ UNCHANGED <<result, ownershipSet, applied, agentLock, owned, collected>>
      /\ \E st \in {"follower", "waiting"} : pc' = [pc EXCEPT ![t] = st]
  BY <1>1 DEF Join, Lead, Call, batchVars, agentVars
<1>3. CallsKnown'
  BY <1>2 DEF ActionsOf, Known, CallsKnown, TypeOK
<1>4. AnswersKnown'
  BY <1>2 DEF Known, AnswersKnown, Answered, TypeOK
<1>5. ListInHand'
  <2> SUFFICES ASSUME NEW u \in Threads, pc'[u] = "fetched"
               PROVE  /\ agentLock' = u /\ ~collected'
                      /\ applied' <= Len(Batch(u)')
                      /\ ownershipSet' = Abstract!After(owned, FirstCalls(u, applied))'
    BY DEF ListInHand
  <2>1. pc[u] = "fetched" /\ u # t
    BY <1>2 DEF TypeOK
  <2>2. queue'[u] = queue[u]
    BY <1>1, <2>1 DEF Join, Lead, TypeOK, Chain, OneListed
  <2>3. \A v \in Threads : v = u \/ pc[v] = "follower" => action'[v] = action[v]
    BY <1>2, <2>1 DEF TypeOK
  <2>4. PICK n \in Nat : n = applied
    BY DEF TypeOK
  <2>5. n <= Len(Batch(u)) /\ Len(Batch(u)) \in Nat
    BY <2>1, <2>4, BatchTyped DEF Known, ListInHand
  <2>6. Batch(u)' = Batch(u) /\ FirstCalls(u, n)' = FirstCalls(u, n)
    BY <2>2, <2>3, <2>5, CallsStay
  <2> QED
    BY <1>2, <2>1, <2>4, <2>6 DEF Known, ListInHand
<1>6. CollectorHolds'
  BY <1>2 DEF Known, CollectorHolds
<1> QED
  BY <1>3, <1>4, <1>5, <1>6 DEF Known

\* What the threads ask for and are told, while one of them takes a step.
LEMMA ThreadAnswers ==
    ASSUME TypeOK, Followers, Known, NEW t \in Threads, ThreadStep(t)
    PROVE  CallsKnown' /\ AnswersKnown' /\ CollectorHolds'
<1> USE DEF batchVars, agentVars, threadVars
<1>1. CollectorHolds'
  <2>1. agentLock' \in {agentLock, t, None} /\ collected' = collected
    BY DEF ThreadStep, Unlist, LockAndFetch, ApplyNext, Commit, BatchFails, ReleaseNext,
       ReleaseFollower, AllReleased, Return, HeartbeatGivesUp
  <2> QED
    BY <2>1, ThreadsAssumption DEF Known, CollectorHolds
<1>2. CASE ReleaseFollower(t)
  <2> DEFINE f == Head(queue[t])
  <2>1. 1 \in Place(t) /\ f = queue[t][1] /\ f \in Threads
    BY <1>2, ReleasePlaces
  <2>2. /\ pc[t] = "releasing" /\ pc' = [pc EXCEPT ![f] = "returned"]
        /\ result' = [result EXCEPT ![f] = result[t]] /\ action' = action
    BY <1>2 DEF ReleaseFollower
  <2>3. pc[f] = "follower"
    BY <2>1 DEF Followers, FollowersWait
  <2> HIDE DEF f
  <2>4. CallsKnown'
    BY <2>1, <2>2, <2>3 DEF Known, CallsKnown, TypeOK
  <2>5. AnswersKnown'
    BY <2>1, <2>2 DEF Known, AnswersKnown, Answered, TypeOK
  <2> QED
    BY <1>1, <2>4, <2>5
<1>3. CASE Return(t)
  BY <1>1, <1>3 DEF Return, Known, CallsKnown, AnswersKnown, Answered, TypeOK
<1>4. CASE Commit(t) \/ BatchFails(t)
  <2>1. /\ pc[t] \in {"batch", "fetched"} /\ action' = action
        /\ \E st \in {"written", "failed"} : pc' = [pc EXCEPT ![t] = st]
        /\ \E r \in {"ok", "failed"} : result' = [result EXCEPT ![t] = r]
    BY <1>4 DEF Commit, BatchFails
  <2> QED
    BY <1>1, <2>1 DEF Known, CallsKnown, AnswersKnown, Answered, TypeOK
<1>5. CASE \/ Unlist(t) \/ LockAndFetch(t) \/ ApplyNext(t) \/ ReleaseNext(t) \/ AllReleased(t)
           \/ (t = HeartbeatThread /\ HeartbeatGivesUp)
  <2>1. action' = action /\ result' = result
    BY <1>5 DEF Unlist, LockAndFetch, ApplyNext, ReleaseNext, AllReleased, HeartbeatGivesUp
  <2>2. \/ pc' = pc
        \/ \E st \in Stages :
             /\ pc' = [pc EXCEPT ![t] = st] /\ pc[t] # "idle"
             /\ st \in {"releasing", "returned"} => pc[t] \in {"written", "failed", "releasing"}
             /\ st \notin {"written", "failed"}
    BY <1>5 DEF Unlist, LockAndFetch, ApplyNext, ReleaseNext, AllReleased, HeartbeatGivesUp,
       Stages
  <2>3. CallsKnown'
    BY <2>1, <2>2 DEF Known, CallsKnown, TypeOK
  <2>4. AnswersKnown'
    BY <2>1, <2>2 DEF Known, AnswersKnown, Answered, TypeOK
  <2> QED
    BY <1>1, <2>3, <2>4
<1> QED
  BY <1>2, <1>3, <1>4, <1>5 DEF ThreadStep

\* Only the leader that has the lock touches the list in its hands.
LEMMA ThreadInHand ==
    ASSUME TypeOK, Chain, Followers, Known, Chain', NEW t \in Threads, ThreadStep(t)
    PROVE  ListInHand'
<1> USE DEF batchVars, agentVars, threadVars
<1> SUFFICES ASSUME NEW u \in Threads, pc'[u] = "fetched"
             PROVE  /\ agentLock' = u /\ ~collected'
                    /\ applied' <= Len(Batch(u)')
                    /\ ownershipSet' = Abstract!After(owned, FirstCalls(u, applied))'
  BY DEF ListInHand
<1>1. CASE LockAndFetch(t) /\ pc[u] # "fetched"
  <2>1. /\ u = t /\ agentLock' = t /\ ~collected' /\ ownershipSet' = owned
        /\ applied' = 0 /\ owned' = owned /\ queue' = queue
    BY <1>1 DEF LockAndFetch, TypeOK
  <2>2. 0 <= Len(Batch(u)')
    <3>1. Batch(u)' = Batch(u)
      BY <2>1 DEF Batch
    <3> QED
      BY <3>1, BatchTyped
  <2>3. FirstCalls(u, applied)' = [i \in {} |-> [by |-> Batch(t)'[i], what |-> action'[Batch(t)'[i]]]]
    BY <2>1 DEF FirstCalls
  <2>4. DOMAIN (FirstCalls(u, applied)') = {}
    BY <2>3
  <2>5. Abstract!After(owned, FirstCalls(u, applied))' = owned
    BY <2>1, <2>4, AfterNone DEF TypeOK, Abstract!After
  <2> QED
    BY <2>1, <2>2, <2>5
<1>2. CASE ApplyNext(t)
  <2>1. /\ pc[t] = "fetched" /\ UNCHANGED <<pc, action, queue, agentLock, collected, owned>>
        /\ applied < Len(Batch(t)) /\ applied' = applied + 1
        /\ ownershipSet' = appyAction(ownershipSet, action[Batch(t)[applied + 1]])
    BY <1>2 DEF ApplyNext
  <2>2. u = t
    BY <2>1 DEF Chain, OneExecuting, Executing
  <2>3. PICK n \in Nat : n = applied
    BY DEF TypeOK
  <2>4. n < Len(Batch(u)) /\ Len(Batch(u)) \in Nat
    BY <2>1, <2>2, <2>3, BatchTyped
  <2>5. Batch(u)' = Batch(u) /\ FirstCalls(u, applied)' = FirstCalls(u, n + 1)
    BY <2>1, <2>3 DEF Batch, FirstCalls
  <2>6. ownershipSet = Abstract!After(owned, FirstCalls(u, n)) /\ agentLock = u /\ ~collected
    BY <2>1, <2>2, <2>3 DEF Known, ListInHand
  <2>7. Batch(u)[n + 1] \in Threads /\ pc[Batch(u)[n + 1]] # "idle"
    <3>1. n + 1 \in 1..Len(Batch(u))
      BY <2>4
    <3> QED
      BY <2>1, <2>2, <3>1, BatchMembers
  <2>8. FirstCalls(u, n + 1)[n + 1].what = action[Batch(u)[n + 1]]
    BY DEF FirstCalls
  <2>9. FirstCalls(u, n + 1)[n + 1].what \in Changes \cup {Heartbeat}
    BY <2>7, <2>8 DEF Known, CallsKnown
  <2>10. /\ DOMAIN FirstCalls(u, n) = 1..n /\ DOMAIN FirstCalls(u, n + 1) = 1..n + 1
         /\ \A i \in 1..n : FirstCalls(u, n + 1)[i] = FirstCalls(u, n)[i]
    BY DEF FirstCalls
  <2>11. Abstract!After(owned, FirstCalls(u, n + 1))
           = appyAction(Abstract!After(owned, FirstCalls(u, n)), FirstCalls(u, n + 1)[n + 1].what)
    <3>1. owned \in SUBSET Objects
      BY DEF TypeOK
    <3> QED
      BY <2>9, <2>10, <3>1, AfterOneMore
  <2>12. ownershipSet' = Abstract!After(owned, FirstCalls(u, n + 1))
    BY <2>1, <2>2, <2>3, <2>6, <2>8, <2>11
  <2>13. Abstract!After(owned, FirstCalls(u, applied))' = Abstract!After(owned, FirstCalls(u, n + 1))
    BY <2>1, <2>5 DEF Abstract!After
  <2> QED
    BY <2>1, <2>3, <2>4, <2>5, <2>6, <2>12, <2>13
<1>3. CASE pc[u] = "fetched" /\ ~ApplyNext(t)
  <2>1. u \in Executing /\ u \in Executing'
    BY <1>3 DEF Executing
  <2>2. t = u => t = HeartbeatThread /\ HeartbeatGivesUp
    BY <1>3 DEF ThreadStep, Unlist, LockAndFetch, Commit, BatchFails, ReleaseNext,
       ReleaseFollower, AllReleased, Return, TypeOK
  <2>3. t # u => t \notin Executing /\ t \notin Executing'
    BY <2>1 DEF Chain, OneExecuting
  <2>4. \/ ReleaseFollower(t) \/ AllReleased(t) \/ Return(t)
        \/ (t = HeartbeatThread /\ HeartbeatGivesUp)
    BY <1>3, <2>2, <2>3 DEF ThreadStep, Unlist, LockAndFetch, Commit, BatchFails,
       ReleaseNext, Executing, TypeOK
  <2>5. UNCHANGED <<agentLock, collected, owned, ownershipSet, applied>>
    BY <2>4 DEF ReleaseFollower, AllReleased, Return, HeartbeatGivesUp
  <2>6. queue'[u] = queue[u]
    BY <1>3, <2>4 DEF ReleaseFollower, AllReleased, Return, HeartbeatGivesUp, TypeOK
  <2>7. \A v \in Threads : v = u \/ pc[v] = "follower" => action'[v] = action[v]
    BY <1>3, <2>4 DEF ReleaseFollower, AllReleased, Return, HeartbeatGivesUp, TypeOK
  <2>8. PICK n \in Nat : n = applied
    BY DEF TypeOK
  <2>9. n <= Len(Batch(u)) /\ Len(Batch(u)) \in Nat
    BY <1>3, <2>8, BatchTyped DEF Known, ListInHand
  <2>10. Batch(u)' = Batch(u) /\ FirstCalls(u, n)' = FirstCalls(u, n)
    BY <2>6, <2>7, <2>9, CallsStay
  <2> QED
    BY <1>3, <2>5, <2>8, <2>10 DEF Known, ListInHand
<1>4. pc[u] = "fetched" \/ LockAndFetch(t)
  BY DEF ThreadStep, Unlist, LockAndFetch, ApplyNext, Commit, BatchFails, ReleaseNext,
     ReleaseFollower, AllReleased, Return, HeartbeatGivesUp, TypeOK
<1> QED
  BY <1>1, <1>2, <1>3, <1>4

LEMMA CollectorKnown ==
    ASSUME TypeOK, Known, WatchdogSeesBeat \/ TakeAgent \/ Collecting \/ UNCHANGED vars
    PROVE  Known'
<1>1. UNCHANGED <<pc, action, result, queue, ownershipSet, applied>>
  BY DEF vars, threadVars, batchVars, WatchdogSeesBeat, TakeAgent, Collecting, FinishCollection,
     CollectorDies
<1>2. CallsKnown' /\ AnswersKnown'
  BY <1>1 DEF Known, CallsKnown, AnswersKnown, Answered
<1>3. CollectorHolds'
  BY ThreadsAssumption DEF vars, agentVars, WatchdogSeesBeat, TakeAgent, Collecting,
     FinishCollection, CollectorDies, Known, CollectorHolds
<1>4. ASSUME NEW t \in Threads, pc[t] = "fetched"
      PROVE  UNCHANGED <<agentLock, collected, owned>>
  <2>1. agentLock = t
    BY <1>4 DEF Known, ListInHand
  <2> QED
    BY <2>1, ThreadsAssumption DEF vars, agentVars, WatchdogSeesBeat, TakeAgent, Collecting,
       FinishCollection, CollectorDies
<1>5. ListInHand'
  <2>1. \A t \in Threads : Batch(t)' = Batch(t) /\ FirstCalls(t, applied)' = FirstCalls(t, applied)
    BY <1>1 DEF Batch, FirstCalls
  <2> QED
    BY <1>1, <1>4, <2>1 DEF Known, ListInHand, Abstract!After
<1> QED
  BY <1>2, <1>3, <1>5 DEF Known

Consistent == TypeOK /\ Chain /\ Followers /\ Known

LEMMA AlwaysConsistent == Spec => []Consistent
<1>1. Init => Consistent
  BY InitTyped, InitChain, InitFollowers, InitKnown DEF Consistent
<1>2. ASSUME Consistent, [Next]_vars PROVE Consistent'
  <2>1. TypeOK' /\ Chain' /\ Followers'
    BY <1>2, StepTyped, StepChain DEF Consistent
  <2>2. Known'
    BY <1>2, <2>1, EnterKnown, ThreadAnswers, ThreadInHand, CollectorKnown DEF Consistent, Next, Known
  <2> QED
    BY <2>1, <2>2 DEF Consistent
<1> QED
  BY <1>1, <1>2, PTL DEF Spec
=============================================================================
