----------------------- MODULE AgentRefinementProofs -----------------------
(***************************************************************************)
(* The batches of AgentReference implement the promise of AgentUpdates,    *)
(* for any number of threads, objects, calls and failures.                 *)
(***************************************************************************)
EXTENDS AgentReferenceProofs

\* What each thread is told, without the choice of a leader.
AnswersExplained ==
    \A t \in Threads :
        /\ pc[t] = "idle" => AnswerOf(t) = "idle"
        /\ pc[t] \in {"waiting", "batch", "fetched"} => AnswerOf(t) = "pending"
        /\ Answered(t) => AnswerOf(t) = result[t]
        /\ \A i \in Place(t) :
             AnswerOf(queue[t][i]) = IF Answered(t) THEN result[t] ELSE "pending"

LEMMA LeaderFound ==
    ASSUME TypeOK, Followers, NEW l \in Threads, NEW i \in Place(l)
    PROVE  LeaderOf(queue[l][i]) = l
<1> DEFINE m == LeaderOf(queue[l][i])
<1>1. m \in Threads /\ \E j \in 1..Len(queue[m]) : queue[m][j] = queue[l][i]
  BY DEF LeaderOf, Place
<1>2. PICK j \in Place(m) : queue[m][j] = queue[l][i]
  BY <1>1 DEF Place
<1> HIDE DEF m
<1>3. m = l
  BY <1>1, <1>2 DEF Followers, OnePlace
<1> QED
  BY <1>3 DEF m

LEMMA AnswersAreExplained == Consistent => AnswersExplained
<1> SUFFICES ASSUME Consistent, NEW t \in Threads
             PROVE  /\ pc[t] = "idle" => AnswerOf(t) = "idle"
                    /\ pc[t] \in {"waiting", "batch", "fetched"} => AnswerOf(t) = "pending"
                    /\ Answered(t) => AnswerOf(t) = result[t]
                    /\ \A i \in Place(t) :
                         AnswerOf(queue[t][i]) = IF Answered(t) THEN result[t] ELSE "pending"
  BY DEF AnswersExplained
<1>1. pc[t] = "idle" => AnswerOf(t) = "idle"
  BY DEF AnswerOf, Answered
<1>2. pc[t] \in {"waiting", "batch", "fetched"} => AnswerOf(t) = "pending"
  BY DEF AnswerOf, Answered
<1>3. Answered(t) => AnswerOf(t) = result[t]
  BY DEF AnswerOf, Answered
<1>4. ASSUME NEW i \in Place(t)
      PROVE  AnswerOf(queue[t][i]) = IF Answered(t) THEN result[t] ELSE "pending"
  <2>1. LeaderOf(queue[t][i]) = t
    BY LeaderFound DEF Consistent
  <2>2. pc[queue[t][i]] = "follower"
    BY DEF Consistent, Followers, FollowersWait
  <2>3. ~Answered(queue[t][i]) /\ pc[queue[t][i]] # "idle"
    BY <2>2 DEF Answered
  <2>4. CASE Answered(t)
    BY <2>1, <2>2, <2>3, <2>4 DEF AnswerOf
  <2>5. CASE ~Answered(t)
    BY <2>1, <2>2, <2>3, <2>5 DEF AnswerOf
  <2> QED
    BY <2>4, <2>5
<1> QED
  BY <1>1, <1>2, <1>3, <1>4

LEMMA NextAnswersAreExplained == Consistent' => AnswersExplained'
<1> QED
  BY AnswersAreExplained, PTL

\* A thread whose own state, or whose leader's, says the same is told the same.
LEMMA AnswerStays ==
    ASSUME Consistent, Consistent', NEW u \in Threads,
           \/ /\ pc[u] # "follower" /\ pc'[u] # "follower"
              /\ pc'[u] = "idle" <=> pc[u] = "idle"
              /\ Answered(u)' <=> Answered(u)
              /\ Answered(u) => result'[u] = result[u]
           \/ \E l \in Threads :
                /\ \E i \in Place(l) : queue[l][i] = u
                /\ \E j \in Place(l)' : queue'[l][j] = u
                /\ Answered(l)' <=> Answered(l)
                /\ Answered(l) => result'[l] = result[l]
    PROVE  AnswerOf(u)' = AnswerOf(u)
<1>1. AnswersExplained /\ AnswersExplained'
  BY AnswersAreExplained, NextAnswersAreExplained
<1>2. CASE \E l \in Threads :
             /\ \E i \in Place(l) : queue[l][i] = u
             /\ \E j \in Place(l)' : queue'[l][j] = u
             /\ Answered(l)' <=> Answered(l)
             /\ Answered(l) => result'[l] = result[l]
  <2>1. PICK l \in Threads :
             /\ \E i \in Place(l) : queue[l][i] = u
             /\ \E j \in Place(l)' : queue'[l][j] = u
             /\ Answered(l)' <=> Answered(l)
             /\ Answered(l) => result'[l] = result[l]
    BY <1>2
  <2>2. AnswerOf(u) = IF Answered(l) THEN result[l] ELSE "pending"
    BY <1>1, <2>1 DEF AnswersExplained
  <2>3. AnswerOf(u)' = IF Answered(l)' THEN result'[l] ELSE "pending"
    <3>1. PICK j \in Place(l)' : queue'[l][j] = u
      BY <2>1
    <3>2. AnswerOf(queue[l][j])' = IF Answered(l)' THEN result'[l] ELSE "pending"
      BY <1>1 DEF AnswersExplained
    <3>3. AnswerOf(queue[l][j])' = AnswerOf(u)'
      BY <3>1 DEF AnswerOf, Answered, LeaderOf
    <3> QED
      BY <3>2, <3>3
  <2> QED
    BY <2>1, <2>2, <2>3
<1>3. CASE /\ pc[u] # "follower" /\ pc'[u] # "follower"
           /\ pc'[u] = "idle" <=> pc[u] = "idle"
           /\ Answered(u)' <=> Answered(u)
           /\ Answered(u) => result'[u] = result[u]
  <2>1. /\ pc[u] \in Stages /\ pc'[u] \in Stages
    BY DEF Consistent, TypeOK, Stages
  <2>2. CASE pc[u] = "idle"
    BY <1>1, <1>3, <2>2 DEF AnswersExplained
  <2>3. CASE Answered(u)
    BY <1>1, <1>3, <2>3 DEF AnswersExplained
  <2>4. CASE pc[u] # "idle" /\ ~Answered(u)
    <3>1. pc[u] \in {"waiting", "batch", "fetched"} /\ pc'[u] \in {"waiting", "batch", "fetched"}
      BY <1>3, <2>1, <2>4 DEF Stages, Answered
    <3> QED
      BY <1>1, <3>1 DEF AnswersExplained
  <2> QED
    BY <2>2, <2>3, <2>4
<1> QED
  BY <1>2, <1>3

\* The same for all threads, where the queues stay as they are.
LEMMA AnswersStay ==
    ASSUME Consistent, Consistent', queue' = queue,
           \A u \in Threads :
              /\ pc'[u] = "follower" <=> pc[u] = "follower"
              /\ pc'[u] = "idle" <=> pc[u] = "idle"
              /\ Answered(u)' <=> Answered(u)
              /\ Answered(u) => result'[u] = result[u]
    PROVE  \A u \in Threads : AnswerOf(u)' = AnswerOf(u)
<1> SUFFICES ASSUME NEW u \in Threads PROVE AnswerOf(u)' = AnswerOf(u)
  OBVIOUS
<1>1. CASE pc[u] = "follower"
  <2>1. PICK l \in Threads : \E i \in Place(l) : queue[l][i] = u
    BY <1>1 DEF Consistent, Followers, FollowersPlaced
  <2>2. \E j \in Place(l)' : queue'[l][j] = u
    BY <2>1 DEF Place
  <2> QED
    BY <2>1, <2>2, AnswerStays
<1>2. CASE pc[u] # "follower"
  BY <1>2, AnswerStays
<1> QED
  BY <1>1, <1>2

-----------------------------------------------------------------------------
(***************************************************************************)
(* What is pending: the calls of the batch, then those of the listed queue.*)
(***************************************************************************)
Listed == IF currentQueue = None THEN <<>> ELSE CallsOf(currentQueue)

PendingExplained ==
    /\ Listed \in Seq(Abstract!Calls)
    /\ InBatch = {} => PendingCalls = Listed
    /\ \A t \in InBatch : CallsOf(t) \in Seq(Abstract!Calls) /\ PendingCalls = CallsOf(t) \o Listed

LEMMA CallsTyped ==
    ASSUME Consistent, NEW t \in Threads, pc[t] # "idle"
    PROVE  CallsOf(t) \in Seq(Abstract!Calls) /\ Len(CallsOf(t)) = Len(Batch(t))
<1> DEFINE n == Len(Batch(t))
<1>1. n \in Nat
  BY BatchTyped DEF Consistent
<1>2. ASSUME NEW i \in 1..n
      PROVE  [by |-> Batch(t)[i], what |-> action[Batch(t)[i]]] \in Abstract!Calls
  <2>1. Batch(t)[i] \in Threads /\ pc[Batch(t)[i]] # "idle"
    BY BatchMembers DEF Consistent
  <2>2. action[Batch(t)[i]] \in Changes \cup {Heartbeat}
    BY <2>1 DEF Consistent, Known, CallsKnown
  <2> QED
    BY <2>1, <2>2 DEF Abstract!Calls, Abstract!Changes, Abstract!Heartbeat, Changes, Heartbeat
<1> HIDE DEF n
<1>3. CallsOf(t) \in [1..n -> Abstract!Calls]
  BY <1>2 DEF CallsOf, n
<1> QED
  BY <1>1, <1>3 DEF n

LEMMA PendingIsExplained == Consistent => PendingExplained
<1> SUFFICES ASSUME Consistent PROVE PendingExplained
  OBVIOUS
<1>1. Listed \in Seq(Abstract!Calls)
  <2>1. CASE currentQueue = None
    BY <2>1 DEF Listed
  <2>2. CASE currentQueue # None
    <3>1. currentQueue \in Threads /\ pc[currentQueue] = "waiting"
      BY <2>2 DEF Consistent, TypeOK, Chain, OneListed
    <3> QED
      BY <2>2, <3>1, CallsTyped DEF Listed
  <2> QED
    BY <2>1, <2>2
<1>2. ASSUME InBatch = {} PROVE PendingCalls = Listed
  <2>1. PendingCalls = <<>> \o Listed
    BY <1>2 DEF PendingCalls, Listed
  <2> QED
    BY <1>1, <2>1, ConcatEmptySeq
<1>3. ASSUME NEW t \in InBatch
      PROVE  CallsOf(t) \in Seq(Abstract!Calls) /\ PendingCalls = CallsOf(t) \o Listed
  <2>1. t \in Threads /\ pc[t] # "idle" /\ t \in Executing
    BY DEF InBatch, Executing
  <2>2. (CHOOSE u \in InBatch : TRUE) \in InBatch
    BY <1>3
  <2>3. (CHOOSE u \in InBatch : TRUE) = t
    BY <2>1, <2>2 DEF InBatch, Executing, Consistent, Chain, OneExecuting
  <2>4. PendingCalls = CallsOf(t) \o Listed
    BY <2>3 DEF PendingCalls, Listed
  <2> QED
    BY <2>1, <2>4, CallsTyped
<1> QED
  BY <1>1, <1>2, <1>3 DEF PendingExplained

LEMMA NextPendingIsExplained == Consistent' => PendingExplained'
<1> QED
  BY PendingIsExplained, PTL

\* Nothing arrives and nothing is carried out.
LEMMA PendingStays ==
    ASSUME Consistent, Consistent', InBatch' = InBatch, currentQueue' = currentQueue,
           \A t \in Threads : t \in InBatch \/ t = currentQueue => queue'[t] = queue[t],
           \A t \in Threads : pc[t] \in Leading \/ pc[t] = "follower" => action'[t] = action[t]
    PROVE  PendingCalls' = PendingCalls
<1>1. ASSUME NEW t \in Threads, t \in InBatch \/ t = currentQueue PROVE CallsOf(t)' = CallsOf(t)
  <2>1. pc[t] \in Leading
    BY <1>1 DEF InBatch, Leading, Consistent, Chain, OneListed
  <2> QED
    BY <1>1, <2>1, CallsStay DEF Consistent
<1>2. Listed' = Listed
  <2>1. CASE currentQueue = None
    BY <2>1 DEF Listed
  <2>2. CASE currentQueue # None
    <3>1. PICK c \in Threads : c = currentQueue
      BY <2>2 DEF Consistent, TypeOK
    <3>2. Listed = CallsOf(c) /\ Listed' = CallsOf(c)'
      BY <2>2, <3>1 DEF Listed, CallsOf, Batch
    <3> QED
      BY <1>1, <3>1, <3>2
  <2> QED
    BY <2>1, <2>2
<1>3. PendingExplained /\ PendingExplained'
  BY PendingIsExplained, NextPendingIsExplained
<1>4. CASE InBatch = {}
  BY <1>2, <1>3, <1>4 DEF PendingExplained
<1>5. CASE InBatch # {}
  <2>1. PICK t \in InBatch : TRUE
    BY <1>5
  <2>2. t \in Threads
    BY DEF InBatch
  <2>3. PendingCalls = CallsOf(t) \o Listed /\ PendingCalls' = CallsOf(t)' \o Listed'
    BY <1>3, <2>1 DEF PendingExplained
  <2> QED
    BY <1>1, <1>2, <2>1, <2>2, <2>3
<1> QED
  BY <1>4, <1>5

-----------------------------------------------------------------------------
(***************************************************************************)
(* The steps that AgentUpdates does not see.                               *)
(***************************************************************************)
Told == [t \in Threads |-> AnswerOf(t)]

LEMMA QuietSteps ==
    ASSUME Consistent, Consistent', NEW t \in Threads,
           \/ LockAndFetch(t) \/ ApplyNext(t) \/ ReleaseNext(t) \/ AllReleased(t)
           \/ HeartbeatGivesUp
    PROVE  PendingCalls' = PendingCalls /\ Told' = Told
<1>1. UNCHANGED <<action, result, currentQueue, queue>>
  BY DEF LockAndFetch, ApplyNext, ReleaseNext, AllReleased, HeartbeatGivesUp, threadVars
<1>2. \/ pc' = pc
      \/ /\ pc' = [pc EXCEPT ![t] = "fetched"] /\ pc[t] = "batch"
      \/ /\ pc' = [pc EXCEPT ![t] = "releasing"] /\ pc[t] \in {"written", "failed"}
      \/ /\ pc' = [pc EXCEPT ![t] = "returned"] /\ pc[t] = "releasing"
  BY DEF LockAndFetch, ApplyNext, ReleaseNext, AllReleased, HeartbeatGivesUp, threadVars
<1>3. InBatch' = InBatch
  BY <1>2 DEF InBatch, Consistent, TypeOK
<1>4. PendingCalls' = PendingCalls
  BY <1>1, <1>3, PendingStays
<1>5. \A u \in Threads :
        /\ pc'[u] = "follower" <=> pc[u] = "follower"
        /\ pc'[u] = "idle" <=> pc[u] = "idle"
        /\ Answered(u)' <=> Answered(u)
  BY <1>2 DEF Answered, Consistent, TypeOK
<1>6. \A u \in Threads : AnswerOf(u)' = AnswerOf(u)
  BY <1>1, <1>5, AnswersStay
<1> QED
  BY <1>4, <1>6 DEF Told

LEMMA UnlistIsQuiet ==
    ASSUME Consistent, Consistent', NEW t \in Threads, Unlist(t)
    PROVE  PendingCalls' = PendingCalls /\ Told' = Told
<1>1. /\ pc[t] = "waiting" /\ future[t] = {} /\ currentQueue' = None
      /\ pc' = [pc EXCEPT ![t] = "batch"] /\ UNCHANGED <<action, result, queue>>
  BY DEF Unlist, Turn
<1>2. currentQueue = t /\ t # None /\ Executing = {}
  BY <1>1, ThreadsAssumption DEF Consistent, Chain, OneListed, Chained
<1>3. InBatch = {} /\ t \in InBatch'
  BY <1>1, <1>2 DEF InBatch, Executing, Consistent, TypeOK
<1>4. PendingCalls = CallsOf(t) /\ CallsOf(t) \in Seq(Abstract!Calls)
  BY <1>2, <1>3, PendingIsExplained DEF PendingExplained, Listed
<1>5. PendingCalls' = CallsOf(t)' \o <<>>
  <2>1. Listed' = <<>>
    BY <1>1 DEF Listed
  <2> QED
    BY <1>3, <2>1, NextPendingIsExplained DEF PendingExplained
<1>6. CallsOf(t)' = CallsOf(t)
  BY <1>1, CallsStay DEF Consistent
<1>7. PendingCalls' = PendingCalls
  BY <1>4, <1>5, <1>6, ConcatEmptySeq
<1>8. \A u \in Threads :
        /\ pc'[u] = "follower" <=> pc[u] = "follower"
        /\ pc'[u] = "idle" <=> pc[u] = "idle"
        /\ Answered(u)' <=> Answered(u)
  BY <1>1 DEF Answered, Consistent, TypeOK
<1>9. \A u \in Threads : AnswerOf(u)' = AnswerOf(u)
  BY <1>1, <1>8, AnswersStay
<1> QED
  BY <1>7, <1>9 DEF Told

\* A follower is told what its leader was told.
LEMMA ReleaseIsQuiet ==
    ASSUME Consistent, Consistent', NEW t \in Threads, ReleaseFollower(t)
    PROVE  PendingCalls' = PendingCalls /\ Told' = Told
<1>1. PICK f \in Threads : f = Head(queue[t])
  BY ReleasePlaces DEF Consistent
<1>2. /\ pc[t] = "releasing" /\ pc' = [pc EXCEPT ![f] = "returned"]
      /\ result' = [result EXCEPT ![f] = result[t]]
      /\ UNCHANGED <<action, currentQueue>>
  BY <1>1 DEF ReleaseFollower
<1>3. /\ 1 \in Place(t) /\ f = queue[t][1] /\ f \in Threads
      /\ \A l \in Threads : l # t => queue'[l] = queue[l] /\ Place(l)' = Place(l)
      /\ \A i \in Place(t) : i # 1 =>
           \E j \in Place(t)' : i = j + 1 /\ queue'[t][j] = queue[t][i]
  BY <1>1, ReleasePlaces DEF Consistent
<1>4. pc[f] = "follower" /\ f # t
  BY <1>2, <1>3 DEF Consistent, Followers, FollowersWait
<1>5. /\ \A u \in Threads : u # f => pc'[u] = pc[u] /\ result'[u] = result[u]
      /\ pc'[f] = "returned" /\ result'[f] = result[t]
  BY <1>2, <1>3 DEF Consistent, TypeOK
<1>6. InBatch' = InBatch /\ t \notin InBatch /\ currentQueue # t
  BY <1>2, <1>3, <1>4, <1>5 DEF InBatch, Consistent, Chain, OneListed
<1>7. PendingCalls' = PendingCalls
  BY <1>2, <1>3, <1>6, PendingStays
<1>8. ASSUME NEW u \in Threads PROVE AnswerOf(u)' = AnswerOf(u)
  <2>1. CASE u = f
    <3>1. AnswerOf(f) = result[t]
      <4>1. Answered(t)
        BY <1>2 DEF Answered
      <4> QED
        BY <1>3, <4>1, AnswersAreExplained DEF AnswersExplained
    <3>2. AnswerOf(f)' = result'[f]
      <4>1. Answered(f)'
        BY <1>5 DEF Answered
      <4> QED
        BY <1>3, <4>1, NextAnswersAreExplained DEF AnswersExplained
    <3> QED
      BY <1>5, <2>1, <3>1, <3>2
  <2>2. CASE u # f /\ pc[u] # "follower"
    BY <1>5, <2>2, AnswerStays DEF Answered
  <2>3. CASE u # f /\ pc[u] = "follower"
    <3>1. PICK l \in Threads : \E i \in Place(l) : queue[l][i] = u
      BY <2>3 DEF Consistent, Followers, FollowersPlaced
    <3>2. \E j \in Place(l)' : queue'[l][j] = u
      BY <1>3, <2>3, <3>1
    <3>3. l # f
      <4>1. queue[f] = <<>>
        BY <1>4 DEF Consistent, Followers, QueuesLed, Leading
      <4>2. Place(f) = {}
        BY <4>1 DEF Place
      <4> QED
        BY <3>1, <4>2
    <3>4. (Answered(l)' <=> Answered(l)) /\ (Answered(l) => result'[l] = result[l])
      BY <1>5, <3>3 DEF Answered
    <3> QED
      BY <3>1, <3>2, <3>4, AnswerStays
  <2> QED
    BY <2>1, <2>2, <2>3
<1> QED
  BY <1>7, <1>8 DEF Told

-----------------------------------------------------------------------------
(***************************************************************************)
(* The steps that it sees.                                                 *)
(***************************************************************************)
LEMMA ReturnReturns ==
    ASSUME Consistent, Consistent', NEW t \in Threads, Return(t)
    PROVE  Abstract!Return(t)
<1>1. /\ pc[t] = "returned" /\ pc' = [pc EXCEPT ![t] = "idle"]
      /\ action' = [action EXCEPT ![t] = NoAction] /\ result' = [result EXCEPT ![t] = "none"]
      /\ UNCHANGED <<currentQueue, queue, owned, collected, exited>>
  BY DEF Return, agentVars
<1>2. /\ \A u \in Threads : u # t => pc'[u] = pc[u] /\ result'[u] = result[u] /\ action'[u] = action[u]
      /\ pc'[t] = "idle"
  BY <1>1 DEF Consistent, TypeOK
<1>3. InBatch' = InBatch
  BY <1>1, <1>2 DEF InBatch
<1>4. PendingCalls' = PendingCalls
  <2>1. \A u \in Threads : pc[u] \in Leading \/ pc[u] = "follower" => action'[u] = action[u]
    BY <1>1, <1>2 DEF Leading
  <2> QED
    BY <1>1, <1>3, <2>1, PendingStays
<1>5. AnswerOf(t) = result[t] /\ result[t] \in {"ok", "failed"}
  <2>1. Answered(t)
    BY <1>1 DEF Answered
  <2> QED
    BY <2>1, AnswersAreExplained DEF AnswersExplained, Consistent, Known, AnswersKnown
<1>6. AnswerOf(t)' = "idle"
  BY <1>2, NextAnswersAreExplained DEF AnswersExplained
<1>7. ASSUME NEW u \in Threads, u # t PROVE AnswerOf(u)' = AnswerOf(u)
  <2>1. CASE pc[u] # "follower"
    BY <1>2, <1>7, <2>1, AnswerStays DEF Answered
  <2>2. CASE pc[u] = "follower"
    <3>1. PICK l \in Threads : \E i \in Place(l) : queue[l][i] = u
      BY <2>2 DEF Consistent, Followers, FollowersPlaced
    <3>2. \E j \in Place(l)' : queue'[l][j] = u
      BY <1>1, <3>1 DEF Place
    <3>3. l # t
      BY <1>1, <3>1 DEF Consistent, Followers, QueuesLed, Leading, Place, TypeOK
    <3>4. (Answered(l)' <=> Answered(l)) /\ (Answered(l) => result'[l] = result[l])
      BY <1>2, <3>3 DEF Answered
    <3> QED
      BY <3>1, <3>2, <3>4, AnswerStays
  <2> QED
    BY <2>1, <2>2
<1>8. Told' = [Told EXCEPT ![t] = "idle"] /\ Told[t] \in {"ok", "failed"}
  BY <1>5, <1>6, <1>7 DEF Told
<1> QED
  BY <1>1, <1>4, <1>8 DEF Abstract!Return, Told

\* A call arrives: it is the last of the listed queue, which may be listed for it.
LEMMA EnterAsks ==
    ASSUME Consistent, Consistent', NEW t \in Threads, NEW a \in ActionsOf(t),
           Join(t, a) \/ Lead(t, a)
    PROVE  \E c \in Abstract!Calls : Abstract!Ask(c)
<1> DEFINE call == [by |-> t, what |-> a]
<1>1. /\ pc[t] = "idle" /\ action' = [action EXCEPT ![t] = a]
      /\ UNCHANGED <<result, owned, collected, exited>>
      /\ \E st \in {"follower", "waiting"} : pc' = [pc EXCEPT ![t] = st]
  BY DEF Join, Lead, Call, agentVars
<1>2. /\ \A u \in Threads : u # t => pc'[u] = pc[u] /\ action'[u] = action[u]
      /\ action'[t] = a /\ pc'[t] \in {"follower", "waiting"}
  BY <1>1 DEF Consistent, TypeOK
<1>3. call \in Abstract!Calls
  BY DEF ActionsOf, Abstract!Calls, Abstract!Changes, Abstract!Heartbeat, Changes, Heartbeat
<1>4. InBatch' = InBatch /\ t \notin InBatch
  BY <1>1, <1>2 DEF InBatch
<1>5. /\ \A l \in Threads : \A i \in Place(l) : i \in Place(l)' /\ queue'[l][i] = queue[l][i]
      /\ \A b \in InBatch : queue'[b] = queue[b]
  <2>1. CASE Lead(t, a)
    <3>1. queue[t] = <<>>
      BY <1>1 DEF Consistent, Followers, QueuesLed, Leading
    <3>2. queue' = queue
      BY <2>1, <3>1 DEF Lead, Consistent, TypeOK
    <3> QED
      BY <3>2 DEF Place
  <2>2. CASE Join(t, a)
    <3>1. PICK c \in Threads : c = currentQueue
      BY <2>2 DEF Join, Consistent, TypeOK
    <3>2. c \notin InBatch /\ queue' = [queue EXCEPT ![c] = Append(@, t)]
      BY <2>2, <3>1 DEF Join, Consistent, Chain, OneListed, InBatch
    <3>3. \A b \in InBatch : queue'[b] = queue[b]
      BY <3>2 DEF InBatch, Consistent, TypeOK
    <3> QED
      BY <2>2, <3>1, <3>3, JoinPlaces DEF Consistent
  <2> QED
    BY <2>1, <2>2
<1>6. Listed' = Append(Listed, call)
  <2>1. CASE Lead(t, a)
    <3>1. Listed = <<>> /\ currentQueue' = t /\ queue'[t] = <<>> /\ t # None
      BY <2>1, ThreadsAssumption DEF Lead, Listed, Consistent, TypeOK
    <3>2. Batch(t)' = <<t>>
      <4>1. Batch(t)' = <<t>> \o <<>> /\ <<t>> \in Seq(Threads)
        BY <3>1 DEF Batch
      <4> QED
        BY <4>1, ConcatEmptySeq
    <3>3. Listed' = [i \in 1..1 |-> call]
      <4>1. Listed' = [i \in 1..Len(<<t>>) |-> [by |-> <<t>>[i], what |-> action'[<<t>>[i]]]]
        BY <3>1, <3>2 DEF Listed, CallsOf, Batch
      <4> QED
        BY <1>2, <4>1
    <3>4. Append(<<>>, call) = [i \in 1..1 |-> call]
      <4>1. /\ Append(<<>>, call) \in Seq(Abstract!Calls) /\ Len(Append(<<>>, call)) = 1
            /\ Append(<<>>, call)[1] = call
        BY <1>3
      <4>2. [i \in 1..1 |-> call] \in Seq(Abstract!Calls) /\ Len([i \in 1..1 |-> call]) = 1
        BY <1>3
      <4> QED
        BY <4>1, <4>2, SeqEqual
    <3> QED
      BY <3>1, <3>3, <3>4
  <2>2. CASE Join(t, a)
    <3>1. PICK c \in Threads : c = currentQueue
      BY <2>2 DEF Join, Consistent, TypeOK
    <3>2. c # None /\ currentQueue' = c /\ pc[c] = "waiting" /\ c # t
      BY <1>1, <2>2, <3>1 DEF Join, Consistent, Chain, OneListed
    <3>3. Listed = CallsOf(c) /\ Listed' = CallsOf(c)'
      BY <3>1, <3>2 DEF Listed, CallsOf, Batch
    <3> DEFINE n == Len(Batch(c))
    <3>4. /\ Listed \in Seq(Abstract!Calls) /\ Len(Listed) = n /\ n \in Nat
      BY <3>2, <3>3, CallsTyped, BatchTyped DEF Consistent
    <3>5. Batch(c)' = Append(Batch(c), t)
      <4>1. queue'[c] = Append(queue[c], t) /\ queue[c] \in Seq(Threads)
        BY <2>2, <3>1 DEF Join, Consistent, TypeOK
      <4>2. Append(queue[c], t) = queue[c] \o <<t>> /\ <<t>> \in Seq(Threads) /\ <<c>> \in Seq(Threads)
        BY <4>1, AppendIsConcat
      <4>3. Batch(c)' = <<c>> \o (queue[c] \o <<t>>)
        BY <4>1, <4>2 DEF Batch
      <4>4. Batch(c)' = Batch(c) \o <<t>>
        <5>1. (<<c>> \o queue[c]) \o <<t>> = <<c>> \o (queue[c] \o <<t>>)
          <6>1. \A x, y, z \in Seq(Threads) : (x \o y) \o z = x \o (y \o z)
            BY ConcatAssociative
          <6> QED
            BY <4>1, <4>2, <6>1, Zenon
        <5>2. Batch(c) = <<c>> \o queue[c]
          BY DEF Batch
        <5> QED
          BY <4>3, <5>1, <5>2
      <4> QED
        BY <4>4, BatchTyped, AppendIsConcat DEF Consistent
    <3>6. /\ Len(Batch(c)') = n + 1 /\ Batch(c)'[n + 1] = t
          /\ \A i \in 1..n : Batch(c)'[i] = Batch(c)[i]
      BY <3>5, BatchTyped, AppendProperties DEF Consistent
    <3>7. \A i \in 1..n : action'[Batch(c)[i]] = action[Batch(c)[i]]
      BY <1>1, <1>2, <3>2, BatchMembers DEF Consistent
    <3> HIDE DEF n, call
    <3>8. Listed' = [i \in 1..n + 1 |-> [by |-> Batch(c)'[i], what |-> action'[Batch(c)'[i]]]]
      BY <3>3, <3>6 DEF CallsOf
    <3>9. \A i \in 1..n : Listed'[i] = Listed[i]
      <4>1. \A i \in 1..n : Listed[i] = [by |-> Batch(c)[i], what |-> action[Batch(c)[i]]]
        BY <3>3 DEF CallsOf, n
      <4>2. \A i \in 1..n : i \in 1..n + 1
        BY <3>4
      <4> QED
        BY <3>6, <3>7, <3>8, <4>1, <4>2
    <3>10. Listed'[n + 1] = call
      BY <1>2, <3>4, <3>6, <3>8 DEF call
    <3>11. Listed' \in Seq(Abstract!Calls) /\ Len(Listed') = n + 1
      <4>1. Listed' \in Seq(Abstract!Calls)
        BY NextPendingIsExplained DEF PendingExplained
      <4> QED
        BY <3>4, <3>8, <4>1
    <3>12. /\ Append(Listed, call) \in Seq(Abstract!Calls) /\ Len(Append(Listed, call)) = n + 1
           /\ \A i \in 1..n : Append(Listed, call)[i] = Listed[i]
           /\ Append(Listed, call)[n + 1] = call
      BY <1>3, <3>4, AppendProperties
    <3>13. \A i \in 1..n + 1 : i \in 1..n \/ i = n + 1
      BY <3>4
    <3> QED
      BY <3>9, <3>10, <3>11, <3>12, <3>13, SeqEqual
  <2> QED
    BY <2>1, <2>2
<1> HIDE DEF call
<1>7. PendingCalls' = Append(PendingCalls, call)
  <2>1. PendingExplained /\ PendingExplained'
    BY PendingIsExplained, NextPendingIsExplained
  <2>2. CASE InBatch = {}
    BY <1>4, <1>6, <2>1, <2>2 DEF PendingExplained
  <2>3. CASE InBatch # {}
    <3>1. PICK b \in InBatch : b \in Threads
      BY <2>3 DEF InBatch
    <3>2. CallsOf(b)' = CallsOf(b)
      <4>1. \A u \in Threads : u = b \/ pc[u] = "follower" => action'[u] = action[u]
        BY <1>1, <1>2, <1>4, <3>1
      <4> QED
        BY <1>5, <3>1, <4>1, CallsStay DEF Consistent
    <3>3. /\ CallsOf(b) \in Seq(Abstract!Calls) /\ Listed \in Seq(Abstract!Calls)
          /\ PendingCalls = CallsOf(b) \o Listed
          /\ PendingCalls' = CallsOf(b) \o Append(Listed, call)
      BY <1>4, <1>6, <2>1, <3>1, <3>2 DEF PendingExplained
    <3>4. <<call>> \in Seq(Abstract!Calls) /\ PendingCalls \in Seq(Abstract!Calls)
      BY <1>3, <3>3, ConcatProperties
    <3>5. PendingCalls' = CallsOf(b) \o (Listed \o <<call>>)
      BY <1>3, <3>3, AppendIsConcat
    <3>6. PendingCalls' = PendingCalls \o <<call>>
      BY <3>3, <3>4, <3>5, ConcatAssociative
    <3> QED
      BY <1>3, <3>4, <3>6, AppendIsConcat
  <2> QED
    BY <2>2, <2>3
<1>8. AnswerOf(t) = "idle"
  BY <1>1, AnswersAreExplained DEF AnswersExplained
<1>9. AnswerOf(t)' = "pending"
  <2>1. AnswersExplained'
    BY NextAnswersAreExplained
  <2>2. CASE Lead(t, a)
    <3>1. pc'[t] = "waiting"
      BY <2>2 DEF Lead, Consistent, TypeOK
    <3> QED
      BY <2>1, <3>1 DEF AnswersExplained
  <2>3. CASE Join(t, a)
    <3>1. PICK c \in Threads : c = currentQueue
      BY <2>3 DEF Join, Consistent, TypeOK
    <3>2. pc[c] = "waiting" /\ c # t
      BY <1>1, <2>3, <3>1 DEF Join, Consistent, Chain, OneListed
    <3>3. ~Answered(c)'
      BY <1>2, <3>2 DEF Answered
    <3>4. PICK j \in Place(c)' : queue'[c][j] = t
      BY <2>3, <3>1, JoinPlaces DEF Consistent
    <3>5. AnswerOf(queue[c][j])' = "pending"
      BY <2>1, <3>3, <3>4 DEF AnswersExplained
    <3>6. AnswerOf(queue[c][j])' = AnswerOf(t)'
      BY <3>4 DEF AnswerOf, Answered, LeaderOf
    <3> QED
      BY <3>5, <3>6
  <2> QED
    BY <2>2, <2>3
<1>10. ASSUME NEW u \in Threads, u # t PROVE AnswerOf(u)' = AnswerOf(u)
  <2>1. CASE pc[u] # "follower"
    BY <1>1, <1>2, <1>10, <2>1, AnswerStays DEF Answered
  <2>2. CASE pc[u] = "follower"
    <3>1. PICK l \in Threads : \E i \in Place(l) : queue[l][i] = u
      BY <2>2 DEF Consistent, Followers, FollowersPlaced
    <3>2. \E j \in Place(l)' : queue'[l][j] = u
      BY <1>5, <3>1
    <3>3. l # t
      <4>1. queue[t] = <<>>
        BY <1>1 DEF Consistent, Followers, QueuesLed, Leading
      <4>2. Place(t) = {}
        BY <4>1 DEF Place
      <4> QED
        BY <3>1, <4>2
    <3>4. (Answered(l)' <=> Answered(l)) /\ (Answered(l) => result'[l] = result[l])
      BY <1>1, <1>2, <3>3 DEF Answered
    <3> QED
      BY <3>1, <3>2, <3>4, AnswerStays
  <2> QED
    BY <2>1, <2>2
<1>11. Told' = [Told EXCEPT ![t] = "pending"] /\ Told[t] = "idle"
  BY <1>8, <1>9, <1>10 DEF Told
<1>12. call.by = t
  BY DEF call
<1>13. Abstract!Ask(call)
  BY <1>1, <1>7, <1>11, <1>12 DEF Abstract!Ask, Told
<1> QED
  BY <1>3, <1>13

\* The calls of a batch are the oldest that are pending.
LEMMA BatchIsOldest ==
    ASSUME Consistent, NEW t \in InBatch
    PROVE  LET n == Len(Batch(t))
           IN  /\ n \in 1..Len(PendingCalls)
               /\ SubSeq(PendingCalls, 1, n) = CallsOf(t)
               /\ SubSeq(PendingCalls, n + 1, Len(PendingCalls)) = Listed
               /\ \A i \in 1..n : PendingCalls[i].by = Batch(t)[i]
<1> DEFINE n == Len(Batch(t))
           m == Len(Listed)
<1>1. t \in Threads /\ pc[t] # "idle"
  BY DEF InBatch
<1>2. n \in Nat /\ n >= 1
  BY <1>1, BatchTyped DEF Consistent
<1>3. /\ CallsOf(t) \in Seq(Abstract!Calls) /\ Len(CallsOf(t)) = n
      /\ Listed \in Seq(Abstract!Calls) /\ m \in Nat
      /\ PendingCalls = CallsOf(t) \o Listed
  BY <1>1, CallsTyped, PendingIsExplained DEF PendingExplained
<1>4. /\ PendingCalls \in Seq(Abstract!Calls) /\ Len(PendingCalls) = n + m
      /\ \A i \in 1..n + m : PendingCalls[i] = IF i <= n THEN CallsOf(t)[i] ELSE Listed[i - n]
  BY <1>3, ConcatProperties
<1>5. \A i \in 1..n : CallsOf(t)[i].by = Batch(t)[i]
  BY DEF CallsOf
<1> HIDE DEF n, m
<1>6. n \in 1..n + m /\ \A i \in 1..n : i \in 1..n + m /\ i <= n
  BY <1>2, <1>3
<1>7. SubSeq(PendingCalls, 1, n) = CallsOf(t)
  <2>1. \A i \in 1..n : PendingCalls[i] \in Abstract!Calls
    BY <1>4, <1>6
  <2>2. /\ SubSeq(PendingCalls, 1, n) \in Seq(Abstract!Calls)
        /\ Len(SubSeq(PendingCalls, 1, n)) = n
        /\ \A i \in 1..n : SubSeq(PendingCalls, 1, n)[i] = PendingCalls[i]
    <3>1. 1 <= n /\ n - 1 + 1 = n /\ 1 \in Int /\ n \in Int
      BY <1>2
    <3>2. \A i \in 1..n : 1 + i - 1 = i
      OBVIOUS
    <3> QED
      BY <2>1, <3>1, <3>2, SubSeqProperties
  <2> QED
    BY <1>3, <1>4, <1>6, <2>2, SeqEqual
<1>8. SubSeq(PendingCalls, n + 1, n + m) = Listed
  <2>1. \A i \in n + 1..n + m : PendingCalls[i] \in Abstract!Calls
    <3>1. \A i \in n + 1..n + m : i \in 1..n + m
      BY <1>2, <1>3
    <3> QED
      BY <1>4, <3>1
  <2>2. n + 1 \in Int /\ n + m \in Int /\ (n + m) - (n + 1) + 1 = m /\ (n + 1 <= n + m <=> m # 0)
    BY <1>2, <1>3
  <2>3. /\ SubSeq(PendingCalls, n + 1, n + m) \in Seq(Abstract!Calls)
        /\ Len(SubSeq(PendingCalls, n + 1, n + m)) = IF n + 1 <= n + m THEN (n + m) - (n + 1) + 1 ELSE 0
        /\ \A i \in 1..(n + m) - (n + 1) + 1 :
             SubSeq(PendingCalls, n + 1, n + m)[i] = PendingCalls[(n + 1) + i - 1]
    BY <2>1, <2>2, SubSeqProperties
  <2>4. Len(SubSeq(PendingCalls, n + 1, n + m)) = m
    BY <2>2, <2>3
  <2>5. ASSUME NEW i \in 1..m
        PROVE  SubSeq(PendingCalls, n + 1, n + m)[i] = Listed[i]
    <3>1. /\ (n + 1) + i - 1 = n + i /\ n + i \in 1..n + m /\ ~(n + i <= n) /\ (n + i) - n = i
      BY <1>2, <1>3
    <3>2. SubSeq(PendingCalls, n + 1, n + m)[i] = PendingCalls[n + i]
      BY <2>2, <2>3, <3>1
    <3> QED
      BY <1>4, <3>1, <3>2
  <2> QED
    BY <1>3, <2>3, <2>4, <2>5, SeqEqual DEF m
<1>9. \A i \in 1..n : PendingCalls[i].by = Batch(t)[i]
  BY <1>4, <1>5, <1>6
<1> QED
  BY <1>4, <1>6, <1>7, <1>8, <1>9 DEF n

\* A batch ends, one way or the other: those who are in it are told, the listed
\* queue is what remains.
LEMMA BatchEnds ==
    ASSUME Consistent, Consistent', NEW t \in InBatch,
           NEW r \in {"ok", "failed"}, NEW st \in {"written", "failed"},
           pc' = [pc EXCEPT ![t] = st], result' = [result EXCEPT ![t] = r],
           UNCHANGED <<action, currentQueue, queue>>
    PROVE  Abstract!Answer(Len(Batch(t)), r)
<1> DEFINE n == Len(Batch(t))
           callers == {PendingCalls[i].by : i \in 1..n}
<1>1. /\ t \in Threads /\ pc[t] \in {"batch", "fetched"}
      /\ \A u \in Threads : u # t => pc'[u] = pc[u] /\ result'[u] = result[u]
      /\ pc'[t] = st /\ result'[t] = r
  BY DEF InBatch, Consistent, TypeOK
<1>2. PendingCalls' = SubSeq(PendingCalls, n + 1, Len(PendingCalls))
  <2>1. InBatch' = {}
    BY <1>1 DEF InBatch, Executing, Consistent, Chain, OneExecuting
  <2>2. Listed' = Listed
    <3>1. CASE currentQueue = None
      BY <3>1 DEF Listed
    <3>2. CASE currentQueue # None
      BY <3>2 DEF Listed, CallsOf, Batch
    <3> QED
      BY <3>1, <3>2
  <2> QED
    BY <2>1, <2>2, BatchIsOldest, NextPendingIsExplained DEF PendingExplained
<1>3. \A i \in 1..n : PendingCalls[i].by = Batch(t)[i]
  BY BatchIsOldest
<1>4. /\ n = 1 + Len(queue[t]) /\ Len(queue[t]) \in Nat /\ Batch(t)[1] = t
      /\ \A i \in Place(t) : Batch(t)[i + 1] = queue[t][i]
  BY <1>1, BatchTyped DEF Consistent, Place
<1> HIDE DEF n
<1>5. \A u : u \in callers <=> u = t \/ \E i \in Place(t) : queue[t][i] = u
  <2>1. ASSUME NEW u \in callers PROVE u = t \/ \E i \in Place(t) : queue[t][i] = u
    <3>1. PICK j \in 1..n : u = Batch(t)[j]
      BY <1>3
    <3>2. j = 1 \/ (j - 1 \in Place(t) /\ (j - 1) + 1 = j)
      BY <1>4 DEF Place
    <3> QED
      BY <1>4, <3>1, <3>2
  <2>2. t \in callers
    <3>1. 1 \in 1..n
      BY <1>4
    <3> QED
      BY <1>3, <1>4, <3>1
  <2>3. ASSUME NEW i \in Place(t) PROVE queue[t][i] \in callers
    <3>1. i + 1 \in 1..n
      BY <1>4 DEF Place
    <3> QED
      BY <1>3, <1>4, <3>1
  <2> QED
    BY <2>1, <2>2, <2>3
<1> HIDE DEF callers
<1>6. AnswersExplained /\ AnswersExplained'
  BY AnswersAreExplained, NextAnswersAreExplained
<1>7. Answered(t)' /\ ~Answered(t)
  BY <1>1 DEF Answered
<1>8. ASSUME NEW u \in Threads PROVE AnswerOf(u)' = IF u \in callers THEN r ELSE AnswerOf(u)
  <2>1. CASE u = t
    BY <1>1, <1>5, <1>6, <1>7, <2>1 DEF AnswersExplained
  <2>2. CASE \E i \in Place(t) : queue[t][i] = u
    <3>1. PICK i \in Place(t) : queue[t][i] = u
      BY <2>2
    <3>2. i \in Place(t)' /\ queue'[t][i] = u
      BY <3>1 DEF Place
    <3>3. AnswerOf(queue[t][i])' = r
      BY <1>1, <1>6, <1>7, <3>2 DEF AnswersExplained
    <3>4. AnswerOf(queue[t][i])' = AnswerOf(u)'
      BY <3>2 DEF AnswerOf, Answered, LeaderOf
    <3> QED
      BY <1>5, <3>1, <3>3, <3>4
  <2>3. CASE u # t /\ ~ \E i \in Place(t) : queue[t][i] = u
    <3>1. u \notin callers
      BY <1>5, <2>3
    <3>2. CASE pc[u] # "follower"
      BY <1>1, <2>3, <3>1, <3>2, AnswerStays DEF Answered
    <3>3. CASE pc[u] = "follower"
      <4>1. PICK l \in Threads : \E i \in Place(l) : queue[l][i] = u
        BY <3>3 DEF Consistent, Followers, FollowersPlaced
      <4>2. \E j \in Place(l)' : queue'[l][j] = u
        BY <4>1 DEF Place
      <4>3. l # t
        BY <2>3, <4>1
      <4>4. (Answered(l)' <=> Answered(l)) /\ (Answered(l) => result'[l] = result[l])
        BY <1>1, <4>3 DEF Answered
      <4>5. AnswerOf(u)' = AnswerOf(u)
        BY <4>1, <4>2, <4>4, AnswerStays
      <4> QED
        BY <3>1, <4>5
    <3> QED
      BY <3>2, <3>3
  <2> QED
    BY <2>1, <2>2, <2>3
<1>9. Told' = [u \in Threads |-> IF u \in callers THEN r ELSE Told[u]]
  BY <1>8 DEF Told
<1> QED
  BY <1>2, <1>9 DEF Abstract!Answer, Told, callers, n

LEMMA CommitRecords ==
    ASSUME Consistent, Consistent', NEW t \in Threads, Commit(t)
    PROVE  \E n \in 1..Len(PendingCalls) : Abstract!Record(n)
<1>1. /\ pc[t] = "fetched" /\ applied = Len(Batch(t)) /\ owned' = ownershipSet
      /\ result' = [result EXCEPT ![t] = "ok"] /\ pc' = [pc EXCEPT ![t] = "written"]
      /\ UNCHANGED <<action, currentQueue, queue, collected, exited>>
  BY DEF Commit
<1>2. t \in InBatch
  BY <1>1 DEF InBatch
<1>3. PICK n \in Nat : n = Len(Batch(t))
  BY BatchTyped DEF Consistent
<1>4. n \in 1..Len(PendingCalls) /\ SubSeq(PendingCalls, 1, n) = CallsOf(t)
  BY <1>2, <1>3, BatchIsOldest
<1>5. ~collected /\ ownershipSet = Abstract!After(owned, CallsOf(t))
  <2>1. FirstCalls(t, applied) = CallsOf(t)
    BY <1>1 DEF FirstCalls, CallsOf
  <2> QED
    BY <1>1, <2>1 DEF Consistent, Known, ListInHand
<1>6. Abstract!Answer(n, "ok")
  BY <1>1, <1>2, <1>3, BatchEnds
<1>7. Abstract!Record(n)
  BY <1>1, <1>4, <1>5, <1>6 DEF Abstract!Record
<1> QED
  BY <1>4, <1>7

LEMMA FailureRefuses ==
    ASSUME Consistent, Consistent', NEW t \in Threads, BatchFails(t)
    PROVE  \E n \in 1..Len(PendingCalls) : Abstract!Refuse(n)
<1>1. /\ pc[t] \in {"batch", "fetched"}
      /\ result' = [result EXCEPT ![t] = "failed"] /\ pc' = [pc EXCEPT ![t] = "failed"]
      /\ UNCHANGED <<action, currentQueue, queue, owned, collected, exited>>
  BY DEF BatchFails
<1>2. t \in InBatch
  BY <1>1 DEF InBatch
<1>3. PICK n \in Nat : n = Len(Batch(t))
  BY BatchTyped DEF Consistent
<1>4. n \in 1..Len(PendingCalls)
  BY <1>2, <1>3, BatchIsOldest
<1>5. Abstract!Answer(n, "failed")
  BY <1>1, <1>2, <1>3, BatchEnds
<1>6. Abstract!Refuse(n)
  BY <1>1, <1>5 DEF Abstract!Refuse
<1> QED
  BY <1>4, <1>6

\* The collector changes neither what is pending nor what the threads are told.
LEMMA CollectorIsApart ==
    ASSUME Consistent, Consistent', UNCHANGED threadVars
    PROVE  PendingCalls' = PendingCalls /\ Told' = Told
<1>1. UNCHANGED <<pc, action, result, currentQueue, queue>>
  BY DEF threadVars
<1>2. InBatch' = InBatch /\ \A u \in Threads : Answered(u)' <=> Answered(u)
  BY <1>1 DEF InBatch, Answered
<1>3. PendingCalls' = PendingCalls
  BY <1>1, <1>2, PendingStays
<1>4. \A u \in Threads : AnswerOf(u)' = AnswerOf(u)
  BY <1>1, <1>2, AnswersStay
<1> QED
  BY <1>3, <1>4 DEF Told

-----------------------------------------------------------------------------
(***************************************************************************)
(* Every step is one of AgentUpdates, or none.                             *)
(***************************************************************************)
LEMMA InitialPromise == Init => Abstract!Init
<1> SUFFICES ASSUME Init PROVE Abstract!Init
  OBVIOUS
<1>1. InBatch = {} /\ currentQueue = None
  BY DEF Init, InBatch
<1>2. PendingCalls = <<>> \o <<>>
  BY <1>1 DEF PendingCalls
<1>3. PendingCalls = <<>>
  <2>1. <<>> \in Seq(Threads)
    OBVIOUS
  <2> QED
    BY <1>2, <2>1, ConcatEmptySeq
<1>4. \A t \in Threads : AnswerOf(t) = "idle"
  BY DEF Init, AnswerOf, Answered
<1> QED
  BY <1>3, <1>4 DEF Init, Abstract!Init

LEMMA ThreadKeepsPromise ==
    ASSUME Consistent, Consistent', NEW t \in Threads, ThreadStep(t)
    PROVE  [Abstract!Next]_(Abstract!vars)
<1> USE DEF Abstract!vars
<1>0. ~exited
  BY DEF ThreadStep
<1>1. CASE Unlist(t)
  <2>1. UNCHANGED <<owned, collected, exited>>
    BY <1>1 DEF Unlist, agentVars
  <2> QED
    BY <1>1, <2>1, UnlistIsQuiet DEF Told
<1>2. CASE LockAndFetch(t)
  <2>1. /\ UNCHANGED <<owned, collected>> /\ (exited' = TRUE \/ UNCHANGED exited)
    BY <1>2 DEF LockAndFetch
  <2>2. PendingCalls' = PendingCalls /\ Told' = Told
    BY <1>2, QuietSteps
  <2>3. CASE exited' = TRUE
    <3>1. Abstract!Stop
      BY <2>1, <2>2, <2>3 DEF Abstract!Stop, Told
    <3> QED
      BY <1>0, <3>1 DEF Abstract!Next
  <2>4. CASE UNCHANGED exited
    BY <2>1, <2>2, <2>4 DEF Told
  <2> QED
    BY <2>1, <2>3, <2>4
<1>3. CASE ApplyNext(t) \/ ReleaseNext(t) \/ AllReleased(t)
  <2>1. UNCHANGED <<owned, collected, exited>>
    BY <1>3 DEF ApplyNext, ReleaseNext, AllReleased, agentVars
  <2> QED
    BY <1>3, <2>1, QuietSteps DEF Told
<1>4. CASE Commit(t)
  BY <1>0, <1>4, CommitRecords DEF Abstract!Next
<1>5. CASE BatchFails(t)
  BY <1>0, <1>5, FailureRefuses DEF Abstract!Next
<1>6. CASE ReleaseFollower(t)
  <2>1. UNCHANGED <<owned, collected, exited>>
    BY <1>6 DEF ReleaseFollower, agentVars
  <2> QED
    BY <1>6, <2>1, ReleaseIsQuiet DEF Told
<1>7. CASE Return(t)
  BY <1>0, <1>7, ReturnReturns DEF Abstract!Next
<1>8. CASE HeartbeatGivesUp
  <2>1. exited' = TRUE /\ UNCHANGED <<owned, collected>>
    BY <1>8 DEF HeartbeatGivesUp, agentVars
  <2>2. Abstract!Stop
    BY <1>8, <2>1, QuietSteps DEF Abstract!Stop, Told
  <2> QED
    BY <1>0, <2>2 DEF Abstract!Next
<1> QED
  BY <1>1, <1>2, <1>3, <1>4, <1>5, <1>6, <1>7, <1>8 DEF ThreadStep

LEMMA CollectorKeepsPromise ==
    ASSUME Consistent, Consistent',
           WatchdogSeesBeat \/ TakeAgent \/ Collecting \/ UNCHANGED vars
    PROVE  [Abstract!Next]_(Abstract!vars)
<1> USE DEF Abstract!vars
<1>1. PendingCalls' = PendingCalls /\ Told' = Told
  <2>1. UNCHANGED threadVars
    BY DEF WatchdogSeesBeat, TakeAgent, Collecting, FinishCollection, CollectorDies, vars
  <2> QED
    BY <2>1, CollectorIsApart
<1>2. CASE WatchdogSeesBeat \/ UNCHANGED vars
  <2>1. UNCHANGED <<owned, collected, exited>>
    BY <1>2 DEF WatchdogSeesBeat, vars, agentVars
  <2> QED
    BY <1>1, <2>1 DEF Told
<1>3. CASE TakeAgent
  <2>1. Abstract!Freeze
    BY <1>1, <1>3 DEF TakeAgent, Abstract!Freeze, Told
  <2> QED
    BY <2>1 DEF Abstract!Next
<1>4. CASE Collecting
  <2>1. collected /\ owned' \subseteq owned /\ UNCHANGED <<collected, exited>>
    BY <1>4 DEF Collecting, FinishCollection, CollectorDies, Consistent, Known, CollectorHolds
  <2>2. Abstract!Collect
    BY <1>1, <2>1 DEF Abstract!Collect, Told
  <2> QED
    BY <2>2 DEF Abstract!Next
<1> QED
  BY <1>2, <1>3, <1>4

LEMMA StepKeepsPromise ==
    Consistent /\ Consistent' /\ [Next]_vars => [Abstract!Next]_(Abstract!vars)
<1> SUFFICES ASSUME Consistent, Consistent', [Next]_vars
             PROVE  [Abstract!Next]_(Abstract!vars)
  OBVIOUS
<1>1. CASE \E t \in Threads : Enter(t)
  <2>1. PICK t \in Threads : Enter(t)
    BY <1>1
  <2>2. ~exited /\ \E a \in ActionsOf(t) : Join(t, a) \/ Lead(t, a)
    BY <2>1 DEF Enter
  <2>3. \E c \in Abstract!Calls : Abstract!Ask(c)
    BY <2>2, EnterAsks
  <2> QED
    BY <2>2, <2>3 DEF Abstract!Next
<1>2. CASE \E t \in Threads : ThreadStep(t)
  BY <1>2, ThreadKeepsPromise
<1>3. CASE WatchdogSeesBeat \/ TakeAgent \/ Collecting \/ UNCHANGED vars
  BY <1>3, CollectorKeepsPromise
<1> QED
  BY <1>1, <1>2, <1>3 DEF Next

\* The batches implement the promise of AgentUpdates (CallsAreOrdered): however
\* many threads call, join queues and fail together, the changes are carried out
\* in the order of the calls, a batch as a whole or not at all, every caller is
\* told what became of its own call, and nothing is recorded once a garbage
\* collector has taken the agent.
THEOREM BatchesImplementPromise == Spec => CallsAreOrdered
<1> QED
  BY InitialPromise, AlwaysConsistent, StepKeepsPromise, PTL DEF Spec, CallsAreOrdered, Abstract!Spec
=============================================================================
