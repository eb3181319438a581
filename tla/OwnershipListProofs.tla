------------------------ MODULE OwnershipListProofs -------------------------
(***************************************************************************)
(* Proofs about ObjectOwnership, third part: the ownership lists.  ListInv *)
(* is inductive relative to the other two parts when requests have one     *)
(* copy, or when no access and no unlock fails: OwnershipPartialFailure    *)
(* shows that with several copies and one failure the list may be left too *)
(* early.                                                                  *)
(***************************************************************************)
EXTENDS OwnershipJobProofs

USE DEF register, agentVars, requestVars, batch, gcVars, faults

\* Addresses are listed before the request is inserted, and stay listed until
\* then.
LEMMA ListedFirstStep == AgentInv /\ JobInv /\ ListInv /\ (SingleCopy \/ NoFailures) /\ [Next]_vars => ListedFirst'
<1> SUFFICES ASSUME AgentInv, JobInv, ListInv, SingleCopy \/ NoFailures, [Next]_vars PROVE ListedFirst'
    OBVIOUS
<1> USE Kinds, Addressing, JobFacts
<1>1. ASSUME NEW p \in Agents, NEW j \in Jobs, SwitchUnlockFailed(p, j) PROVE ListedFirst'
    BY <1>1 DEF SwitchUnlockFailed, ListInv, ListedFirst
<1>2. ASSUME NEW g \in Collectors, NEW skipped \in SUBSET (Requests \cup Agents), GcFetchAndSort(g, skipped) PROVE ListedFirst'
  <2>1. proc[target[g]] = "down" /\ ListedFirst /\ cur' = cur
    BY <1>2 DEF GcFetchAndSort, AgentInv, CollectorOwnsTarget, Collecting, ListInv
  <2>2. \A f \in Frontends : pc[f] = "listed" => f # target[g]
    BY <2>1 DEF AgentInv, ProcessShape, Up
  <2>3. \A f \in Frontends : pc'[f] = pc[f] /\ (f # target[g] => owned'[f] = owned[f])
    BY <1>2 DEF GcFetchAndSort, AgentInv, TypeOK
  <2> QED
    BY <2>1, <2>2, <2>3 DEF ListedFirst
<1>3. ASSUME NEW g \in Collectors, GcDrop(g) PROVE ListedFirst'
  <2>1. proc[target[g]] = "down" /\ ListedFirst /\ cur' = cur
    BY <1>3 DEF GcDrop, AgentInv, CollectorOwnsTarget, Collecting, ListInv
  <2>2. \A f \in Frontends : pc[f] = "listed" => f # target[g]
    BY <2>1 DEF AgentInv, ProcessShape, Up
  <2>3. \A f \in Frontends : pc'[f] = pc[f] /\ (f # target[g] => owned'[f] = owned[f])
    BY <1>3 DEF GcDrop, AgentInv, TypeOK
  <2> QED
    BY <2>1, <2>2, <2>3 DEF ListedFirst
<1>4. ASSUME NEW g \in Collectors, GcOtherDrop(g) PROVE ListedFirst'
  <2>1. proc[target[g]] = "down" /\ ListedFirst /\ cur' = cur
    BY <1>4 DEF GcOtherDrop, AgentInv, CollectorOwnsTarget, Collecting, ListInv
  <2>2. \A f \in Frontends : pc[f] = "listed" => f # target[g]
    BY <2>1 DEF AgentInv, ProcessShape, Up
  <2>3. \A f \in Frontends : pc'[f] = pc[f] /\ (f # target[g] => owned'[f] = owned[f])
    BY <1>4 DEF GcOtherDrop, AgentInv, TypeOK
  <2> QED
    BY <2>1, <2>2, <2>3 DEF ListedFirst
<1> USE DEF AgentInv, JobInv, TypeOK, ProcessShape, Up, Linking, Switching, HasQueue,
            Collecting, ListInv, ListedFirst
<1>5. ASSUME NEW p \in Agents, RegisterAgent(p) PROVE ListedFirst'
    BY <1>5 DEF RegisterAgent, RegisterFree
<1>6. ASSUME NEW p \in Agents, InsertAgent(p) PROVE ListedFirst'
    BY <1>6 DEF InsertAgent
<1>7. ASSUME NEW p \in Agents, Shutdown(p) PROVE ListedFirst'
    BY <1>7 DEF Shutdown
<1>8. ASSUME NEW p \in Agents, Unregister(p) PROVE ListedFirst'
    BY <1>8 DEF Unregister, RegisterFree
<1>9. ASSUME NEW p \in Agents, Crash(p) PROVE ListedFirst'
    BY <1>9 DEF Crash, Stop
<1>10. ASSUME NEW p \in Agents, Unown(p) PROVE ListedFirst'
    BY <1>10 DEF Unown
<1>11. ASSUME NEW p \in Agents, NEW j \in Jobs, SwitchOwner(p, j) PROVE ListedFirst'
    BY <1>11 DEF SwitchOwner, ReqFree, Switchable, NewOwner, PreviousOwner
<1>12. ASSUME NEW p \in Agents, NEW j \in Jobs, SwitchRefused(p, j) PROVE ListedFirst'
    BY <1>12 DEF SwitchRefused, ReqFree, Switchable, NewOwner, PreviousOwner
<1>13. ASSUME NEW p \in Agents, NEW j \in Jobs, SwitchTimeout(p, j) PROVE ListedFirst'
    BY <1>13 DEF SwitchTimeout
<1>14. ASSUME NEW p \in Agents, NEW j \in Jobs, SwitchError(p, j) PROVE ListedFirst'
    BY <1>14 DEF SwitchError
<1>15. ASSUME NEW f \in Frontends, NEW r \in Requests, CreateOwn(f, r) PROVE ListedFirst'
    BY <1>15 DEF CreateOwn
<1>16. ASSUME NEW f \in Frontends, CreateInsert(f) PROVE ListedFirst'
    BY <1>16 DEF CreateInsert
<1>17. ASSUME NEW f \in Frontends, CreateRelock(f) PROVE ListedFirst'
    BY <1>17 DEF CreateRelock, ReqFree
<1>18. ASSUME NEW f \in Frontends, CreateRelockGone(f) PROVE ListedFirst'
    BY <1>18 DEF CreateRelockGone
<1>19. ASSUME NEW f \in Frontends, NEW j \in Jobs, CreateLink(f, j) PROVE ListedFirst'
    BY <1>19 DEF CreateLink, QueueFree
<1>20. ASSUME NEW f \in Frontends, CreateCommit(f) PROVE ListedFirst'
    BY <1>20 DEF CreateCommit, CommitRequest, Relinked
<1>21. ASSUME NEW f \in Frontends, CreateRelease(f) PROVE ListedFirst'
    BY <1>21 DEF CreateRelease
<1>22. ASSUME NEW r \in Requests, Cancel(r) PROVE ListedFirst'
    BY <1>22 DEF Cancel, ReqFree
<1>23. ASSUME NEW w \in Workers, NEW q \in Queues, NEW S \in SUBSET refs[q], PopSelect(w, q, S) PROVE ListedFirst'
    BY <1>23 DEF PopSelect, QueueFree, NoJobYet
<1>24. ASSUME NEW w \in Workers, PopFinish(w) PROVE ListedFirst'
    BY <1>24 DEF PopFinish, ReleaseQueue
<1>25. ASSUME NEW w \in Workers, NEW q \in Queues, NEW S \in SUBSET held[w], Requeue(w, q, S) PROVE ListedFirst'
    BY <1>25 DEF Requeue, QueueFree
<1>26. ASSUME NEW w \in Workers, RequeueFinish(w) PROVE ListedFirst'
    BY <1>26 DEF RequeueFinish, ReleaseQueue
<1>27. ASSUME NEW w \in Workers, NEW j \in Jobs, Complete(w, j) PROVE ListedFirst'
    BY <1>27 DEF Complete, ReqFree
<1>28. ASSUME NEW w \in Workers, NEW j \in Jobs, DeleteReported(w, j) PROVE ListedFirst'
    BY <1>28 DEF DeleteReported, ReqFree
<1>29. ASSUME NEW w \in Workers, NEW j \in Jobs, DeleteFailed(w, j) PROVE ListedFirst'
    BY <1>29 DEF DeleteFailed
<1>30. ASSUME NEW w \in Workers, NEW j \in Jobs, LeaveOwned(w, j) PROVE ListedFirst'
    BY <1>30 DEF LeaveOwned
<1>31. ASSUME NEW g \in Collectors, NEW a \in Agents, GcClaim(g, a) PROVE ListedFirst'
    BY <1>31 DEF GcClaim, AgentFree
<1>32. ASSUME NEW g \in Collectors, GcTake(g) PROVE ListedFirst'
    BY <1>32 DEF GcTake
<1>33. ASSUME NEW g \in Collectors, GcTrack(g) PROVE ListedFirst'
    BY <1>33 DEF GcTrack, RegisterFree
<1>34. ASSUME NEW g \in Collectors, NEW q \in Queues, NEW S \in SUBSET pending[g], GcReference(g, q, S) PROVE ListedFirst'
    BY <1>34 DEF GcReference, QueueFree
<1>35. ASSUME NEW g \in Collectors, GcFinish(g) PROVE ListedFirst'
    BY <1>35 DEF GcFinish, ReleaseQueue
<1>36. ASSUME NEW g \in Collectors, NEW x \in Requests \cup Agents, GcOtherSkip(g, x) PROVE ListedFirst'
    BY <1>36 DEF GcOtherSkip, GcOther
<1>37. ASSUME NEW g \in Collectors, NEW a \in Agents, GcUntrack(g, a) PROVE ListedFirst'
    BY <1>37 DEF GcUntrack, GcOther, RegisterFree
<1>38. ASSUME NEW g \in Collectors, GcSetOwner(g) PROVE ListedFirst'
    BY <1>38 DEF GcSetOwner
<1>39. ASSUME NEW g \in Collectors, NEW r \in Requests, GcLock(g, r) PROVE ListedFirst'
    BY <1>39 DEF GcLock, GcOther, ReqFree
<1>40. ASSUME NEW g \in Collectors, NEW j \in Jobs, NEW q \in Queues, GcLink(g, j, q) PROVE ListedFirst'
    BY <1>40 DEF GcLink, QueueFree
<1>41. ASSUME NEW g \in Collectors, GcCommit(g) PROVE ListedFirst'
    BY <1>41 DEF GcCommit, CommitRequest, Relinked
<1>42. ASSUME NEW g \in Collectors, NEW j \in Jobs, GcOrphan(g, j) PROVE ListedFirst'
    BY <1>42 DEF GcOrphan
<1>43. ASSUME NEW g \in Collectors, GcUnlock(g) PROVE ListedFirst'
    BY <1>43 DEF GcUnlock
<1>44. ASSUME NEW g \in Collectors, GcRemove(g) PROVE ListedFirst'
    BY <1>44 DEF GcRemove, GcAllDone
<1>45. ASSUME NEW g \in Collectors, GcStillOwns(g) PROVE ListedFirst'
    BY <1>45 DEF GcStillOwns, GcAllDone, Stop
<1>46. ASSUME NEW g \in Collectors, GcUnregister(g) PROVE ListedFirst'
    BY <1>46 DEF GcUnregister, RegisterFree
<1>47. CASE UNCHANGED vars
    BY <1>47 DEF vars
<1> HIDE DEF AgentInv, JobInv, TypeOK, ProcessShape, Up, Linking, Switching, HasQueue,
             Collecting, ListInv, ListedFirst
<1> QED
    BY <1>1, <1>2, <1>3, <1>4, <1>5, <1>6, <1>7, <1>8, <1>9, <1>10, <1>11, <1>12, <1>13,
       <1>14, <1>15, <1>16, <1>17, <1>18, <1>19, <1>20, <1>21, <1>22, <1>23, <1>24, <1>25,
       <1>26, <1>27, <1>28, <1>29, <1>30, <1>31, <1>32, <1>33, <1>34, <1>35, <1>36, <1>37,
       <1>38, <1>39, <1>40, <1>41, <1>42, <1>43, <1>44, <1>45, <1>46, <1>47
    DEF Next, Lifecycle, FrontendStep, SwitchStep, WorkerStep, CollectorStep

\* An address about to be taken off a list has no job left with the agent that
\* lists it; for a collector this is what LastReferences decides.
LEMMA DroppedRequestsStep == AgentInv /\ JobInv /\ ListInv /\ (SingleCopy \/ NoFailures) /\ [Next]_vars => DroppedRequestsLeft'
<1> SUFFICES ASSUME AgentInv, JobInv, ListInv, SingleCopy \/ NoFailures, [Next]_vars PROVE DroppedRequestsLeft'
    OBVIOUS
<1> USE Kinds, Addressing, JobFacts
<1>1. ASSUME NEW p \in Agents, NEW j \in Jobs, SwitchOwner(p, j) PROVE DroppedRequestsLeft'
  <2>1. OwnerWrite(p) /\ DroppedRequestsLeft
    BY <1>1, SwitchWrites DEF ListInv
  <2>2. drop' = drop /\ pc'[p] # "unown" /\ target' = target /\ drop[p] = {}
    BY <1>1 DEF SwitchOwner, CommitRequest, AgentInv, TypeOK, ProcessShape, Switching
  <2>3. \A a \in Agents : a # p /\ drop[a] # {} => Dropper(a)' = Dropper(a) /\ Dropper(a) # p
    BY <2>1, <2>2, DropperFacts, BusyFacts DEF OwnerWrite, SameLocals, Dropper, AgentInv, ProcessShape, Up
  <2>4. \A a \in Agents : drop[a] # {} => Dropper(a) \in Agents
    BY DropperFacts DEF AgentInv
  <2> QED
    BY <2>1, <2>2, <2>3, <2>4 DEF DroppedRequestsLeft, OwnerWrite
<1>2. ASSUME NEW p \in Agents, NEW j \in Jobs, SwitchUnlockFailed(p, j) PROVE DroppedRequestsLeft'
  <2>1. OwnerWrite(p) /\ DroppedRequestsLeft
    BY <1>2, UnlockFailedWrites DEF ListInv
  <2>2. drop' = drop /\ pc'[p] # "unown" /\ target' = target /\ drop[p] = {}
    BY <1>2 DEF SwitchUnlockFailed, CommitRequest, AgentInv, TypeOK, ProcessShape, Switching
  <2>3. \A a \in Agents : a # p /\ drop[a] # {} => Dropper(a)' = Dropper(a) /\ Dropper(a) # p
    BY <2>1, <2>2, DropperFacts, BusyFacts DEF OwnerWrite, SameLocals, Dropper, AgentInv, ProcessShape, Up
  <2>4. \A a \in Agents : drop[a] # {} => Dropper(a) \in Agents
    BY DropperFacts DEF AgentInv
  <2> QED
    BY <2>1, <2>2, <2>3, <2>4 DEF DroppedRequestsLeft, OwnerWrite
<1>3. ASSUME NEW f \in Frontends, CreateInsert(f) PROVE DroppedRequestsLeft'
  <2>1. DroppedRequestsLeft /\ f \in Agents /\ pc[f] = "listed" /\ Up(f) /\ drop[f] = {}
    BY <1>3 DEF ListInv, CreateInsert, AgentInv, ProcessShape
  <2>2. /\ reqs' = reqs \cup {cur[f]} /\ orphans' = orphans /\ drop' = drop /\ target' = target
        /\ \A j \in Jobs : jobOwner'[j] = IF RequestOf[j] = cur[f] THEN f ELSE jobOwner[j]
        /\ \A a \in Agents : a # f => pc'[a] = pc[a]
    BY <1>3 DEF CreateInsert, AgentInv, TypeOK
  <2>3. \A a \in Agents : drop[a] # {} => a # f /\ Dropper(a)' = Dropper(a)
    BY <2>1, <2>2 DEF Dropper
  <2>4. \A a \in Agents : drop[a] # {} => Dropper(a) # f
    BY <2>1, <2>3, DropperFacts DEF AgentInv, Up
  <2> QED
    BY <2>1, <2>2, <2>3, <2>4 DEF DroppedRequestsLeft
<1>4. ASSUME NEW f \in Frontends, CreateCommit(f) PROVE DroppedRequestsLeft'
  <2>1. OwnerWrite(f) /\ DroppedRequestsLeft
    BY <1>4, CreateWrites DEF ListInv
  <2>2. drop' = drop /\ pc'[f] # "unown" /\ target' = target /\ drop[f] = {}
    BY <1>4, ZenonT(40) DEF CreateCommit, CommitRequest, AgentInv, TypeOK, ProcessShape, Switching
  <2>3. \A a \in Agents : a # f /\ drop[a] # {} => Dropper(a)' = Dropper(a) /\ Dropper(a) # f
    BY <2>1, <2>2, DropperFacts, BusyFacts DEF OwnerWrite, SameLocals, Dropper, AgentInv, ProcessShape, Up
  <2>4. \A a \in Agents : drop[a] # {} => Dropper(a) \in Agents
    BY DropperFacts DEF AgentInv
  <2> QED
    BY <2>1, <2>2, <2>3, <2>4 DEF DroppedRequestsLeft, OwnerWrite
<1>5. ASSUME NEW f \in Frontends, CreateRelease(f) PROVE DroppedRequestsLeft'
  <2> DEFINE dropped == {cur[f]}
  <2>1. DroppedRequestsLeft
    BY DEF ListInv
  <2>2. /\ f \in Agents /\ pc'[f] = "unown" /\ drop'[f] = dropped
        /\ jobOwner' = jobOwner /\ reqs' = reqs /\ orphans' = orphans /\ target' = target
        /\ \A a \in Agents : a # f => drop'[a] = drop[a] /\ pc'[a] = pc[a]
    <3>1. /\ drop' = [drop EXCEPT ![f] = dropped] /\ pc' = [pc EXCEPT ![f] = "unown"]
          /\ jobOwner' = jobOwner /\ reqs' = reqs /\ orphans' = orphans /\ target' = target
      BY <1>5 DEF CreateRelease, ReleaseQueue
    <3>2. drop \in [Agents -> SUBSET Addresses] /\ pc \in [Agents -> PcLabels]
      BY DEF AgentInv, TypeOK
    <3> HIDE DEF dropped
    <3> QED
      BY <3>1, <3>2
  <2>3. \A j \in Jobs : RequestOf[j] \in dropped => jobOwner[j] # f
    BY <1>5 DEF CreateRelease, AgentInv, ProcessShape, HasQueue, Switching, JobInv, Creating, Linking, JobsOf
  <2> HIDE DEF dropped
  <2> QED
    BY <2>1, <2>2, <2>3 DEF DroppedRequestsLeft, Dropper
<1>6. ASSUME NEW w \in Workers, PopFinish(w) PROVE DroppedRequestsLeft'
  <2> DEFINE dropped == RequestsOf(gone[w] \cup err[w])
  <2>1. DroppedRequestsLeft
    BY DEF ListInv
  <2>2. /\ w \in Agents /\ pc'[w] = "unown" /\ drop'[w] = dropped
        /\ jobOwner' = jobOwner /\ reqs' = reqs /\ orphans' = orphans /\ target' = target
        /\ \A a \in Agents : a # w => drop'[a] = drop[a] /\ pc'[a] = pc[a]
    <3>1. /\ drop' = [drop EXCEPT ![w] = dropped] /\ pc' = [pc EXCEPT ![w] = "unown"]
          /\ jobOwner' = jobOwner /\ reqs' = reqs /\ orphans' = orphans /\ target' = target
      BY <1>6 DEF PopFinish, ReleaseQueue
    <3>2. drop \in [Agents -> SUBSET Addresses] /\ pc \in [Agents -> PcLabels]
      BY DEF AgentInv, TypeOK
    <3> HIDE DEF dropped
    <3> QED
      BY <3>1, <3>2
  <2>3. \A j \in Jobs : RequestOf[j] \in dropped => jobOwner[j] # w
    <3> SUFFICES ASSUME NEW j \in Jobs, jobOwner[j] = w, NEW i \in gone[w] \cup err[w],
                        RequestOf[i] = RequestOf[j]
                 PROVE  FALSE
      BY DEF RequestsOf
    <3>1. pc[w] = "pop" /\ lockq[w] \in Queues /\ i \in Jobs
      BY <1>6 DEF PopFinish, AgentInv, TypeOK, ProcessShape, HasQueue, Switching
    <3>2. i \in Batch(w) /\ j \in ok[w] /\ j \in Batch(w)
      BY <3>1 DEF JobInv, Popping, Batch
    <3>3. lockq[w] \in QueuesOf[i] /\ lockq[w] \in QueuesOf[j] /\ j \notin gone[w] \cup err[w]
      BY <3>1, <3>2, <2>2 DEF JobInv, BatchShape, Switching, Failed
    <3> QED
      BY <3>1, <3>3
  <2> HIDE DEF dropped
  <2> QED
    BY <2>1, <2>2, <2>3 DEF DroppedRequestsLeft, Dropper
<1>7. ASSUME NEW w \in Workers, RequeueFinish(w) PROVE DroppedRequestsLeft'
  <2> DEFINE dropped == RequestsOf(ok[w])
  <2>1. DroppedRequestsLeft
    BY DEF ListInv
  <2>2. /\ w \in Agents /\ pc'[w] = "unown" /\ drop'[w] = dropped
        /\ jobOwner' = jobOwner /\ reqs' = reqs /\ orphans' = orphans /\ target' = target
        /\ \A a \in Agents : a # w => drop'[a] = drop[a] /\ pc'[a] = pc[a]
    <3>1. /\ drop' = [drop EXCEPT ![w] = dropped] /\ pc' = [pc EXCEPT ![w] = "unown"]
          /\ jobOwner' = jobOwner /\ reqs' = reqs /\ orphans' = orphans /\ target' = target
      BY <1>7 DEF RequeueFinish, ReleaseQueue
    <3>2. drop \in [Agents -> SUBSET Addresses] /\ pc \in [Agents -> PcLabels]
      BY DEF AgentInv, TypeOK
    <3> HIDE DEF dropped
    <3> QED
      BY <3>1, <3>2
  <2>3. \A j \in Jobs : RequestOf[j] \in dropped => jobOwner[j] # w
    BY <1>7 DEF RequeueFinish, JobInv, Requeueing, RequestsOf
  <2> HIDE DEF dropped
  <2> QED
    BY <2>1, <2>2, <2>3 DEF DroppedRequestsLeft, Dropper
<1>8. ASSUME NEW w \in Workers, NEW j \in Jobs, DeleteFailed(w, j) PROVE DroppedRequestsLeft'
  <2>1. DroppedRequestsLeft
    BY DEF ListInv
  <2>2. /\ w \in Agents /\ pc'[w] = "unown" /\ drop'[w] = {RequestOf[j]} /\ jobOwner' = jobOwner
        /\ reqs' = reqs /\ orphans' = orphans \cup {j} /\ target' = target
        /\ \A a \in Agents : a # w => drop'[a] = drop[a] /\ pc'[a] = pc[a]
    BY <1>8 DEF DeleteFailed, AgentInv, TypeOK
  <2>3. \A i \in Jobs : RequestOf[i] = RequestOf[j] /\ jobOwner[i] = w => i = j
    BY <1>8, <2>2 DEF DeleteFailed, JobInv, HeldJobsOwned, OneJobPerRequest
  <2> QED
    BY <2>1, <2>2, <2>3 DEF DroppedRequestsLeft, Dropper
<1>9. ASSUME NEW g \in Collectors, NEW a \in Agents, GcClaim(g, a) PROVE DroppedRequestsLeft'
  <2>1. DroppedRequestsLeft /\ drop[g] = {}
    BY <1>9 DEF ListInv, GcClaim, AgentInv, ProcessShape
  <2>2. \A a1 \in Agents : a1 # g => pc'[a1] = pc[a1] /\ target'[a1] = target[a1]
    BY <1>9 DEF GcClaim, AgentInv, TypeOK
  <2> QED
    BY <1>9, <2>1, <2>2 DEF GcClaim, DroppedRequestsLeft, Dropper
<1>10. ASSUME NEW g \in Collectors, GcFinish(g) PROVE DroppedRequestsLeft'
  <2> DEFINE dropped == LastReferences(g)
  <2>1. DroppedRequestsLeft
    BY DEF ListInv
  <2>2. /\ g \in Agents /\ pc'[g] = "gdrop" /\ drop'[g] = dropped
        /\ jobOwner' = jobOwner /\ reqs' = reqs /\ orphans' = orphans /\ target' = target
        /\ \A a \in Agents : a # g => drop'[a] = drop[a] /\ pc'[a] = pc[a]
    <3>1. /\ drop' = [drop EXCEPT ![g] = dropped] /\ pc' = [pc EXCEPT ![g] = "gdrop"]
          /\ jobOwner' = jobOwner /\ reqs' = reqs /\ orphans' = orphans /\ target' = target
      BY <1>10 DEF GcFinish, ReleaseQueue
    <3>2. drop \in [Agents -> SUBSET Addresses] /\ pc \in [Agents -> PcLabels]
      BY DEF AgentInv, TypeOK
    <3> HIDE DEF dropped
    <3> QED
      BY <3>1, <3>2
  <2>3. \A j \in Jobs : RequestOf[j] \in dropped /\ jobOwner[j] = target[g] =>
            RequestOf[j] \notin reqs \/ j \in orphans
    <3> SUFFICES ASSUME NEW j \in Jobs, RequestOf[j] \in LastReferences(g), jobOwner[j] = target[g],
                        RequestOf[j] \in reqs, j \notin orphans
                 PROVE  FALSE
      OBVIOUS
    <3>1. pc[g] = "gswitch" /\ todo[g] = {}
      BY <1>10 DEF GcFinish
    <3>2. CASE SingleCopy
      <4>1. PICK i \in ok[g] \cup gone[g] : RequestOf[i] = RequestOf[j]
        BY DEF LastReferences, RequestsOf
      <4>2. i = j
        BY <3>2, <4>1, <2>2 DEF SingleCopy, AgentInv, TypeOK
      <4> QED
        BY <3>1, <4>1, <4>2 DEF JobInv, Returning, Collecting
    <3>3. CASE NoFailures
      <4>1. j \in pending[g]
        BY <3>1, <3>3 DEF ListInv, NothingSkipped, Sorted
      <4> QED
        BY <4>1 DEF LastReferences, RequestsOf
    <3> QED
      BY <3>2, <3>3
  <2> HIDE DEF dropped
  <2> QED
    BY <2>1, <2>2, <2>3 DEF DroppedRequestsLeft, Dropper
<1>11. ASSUME NEW g \in Collectors, GcCommit(g) PROVE DroppedRequestsLeft'
  <2>1. OwnerWrite(g) /\ DroppedRequestsLeft
    BY <1>11, CollectWrites DEF ListInv
  <2>2. drop' = drop /\ pc'[g] # "unown" /\ target' = target /\ drop[g] = {}
    BY <1>11, ZenonT(40) DEF GcCommit, CommitRequest, AgentInv, TypeOK, ProcessShape, Switching
  <2>3. \A a \in Agents : a # g /\ drop[a] # {} => Dropper(a)' = Dropper(a) /\ Dropper(a) # g
    BY <2>1, <2>2, DropperFacts, BusyFacts DEF OwnerWrite, SameLocals, Dropper, AgentInv, ProcessShape, Up
  <2>4. \A a \in Agents : drop[a] # {} => Dropper(a) \in Agents
    BY DropperFacts DEF AgentInv
  <2> QED
    BY <2>1, <2>2, <2>3, <2>4 DEF DroppedRequestsLeft, OwnerWrite
<1>12. ASSUME NEW g \in Collectors, GcUnlock(g) PROVE DroppedRequestsLeft'
  <2> DEFINE dropped == {cur[g]}
  <2>1. DroppedRequestsLeft
    BY DEF ListInv
  <2>2. /\ g \in Agents /\ pc'[g] = "odrop" /\ drop'[g] = dropped
        /\ jobOwner' = jobOwner /\ reqs' = reqs /\ orphans' = orphans /\ target' = target
        /\ \A a \in Agents : a # g => drop'[a] = drop[a] /\ pc'[a] = pc[a]
    <3>1. /\ drop' = [drop EXCEPT ![g] = dropped] /\ pc' = [pc EXCEPT ![g] = "odrop"]
          /\ jobOwner' = jobOwner /\ reqs' = reqs /\ orphans' = orphans /\ target' = target
      BY <1>12 DEF GcUnlock, ReleaseQueue
    <3>2. drop \in [Agents -> SUBSET Addresses] /\ pc \in [Agents -> PcLabels]
      BY DEF AgentInv, TypeOK
    <3> HIDE DEF dropped
    <3> QED
      BY <3>1, <3>2
  <2>3. \A j \in Jobs : RequestOf[j] \in dropped /\ jobOwner[j] = target[g] => j \in orphans
    BY <1>12 DEF GcUnlock, AgentInv, ProcessShape, HasQueue, Switching, JobInv, Returning, Linking,
                 Collecting, JobsOf
  <2> HIDE DEF dropped
  <2> QED
    BY <2>1, <2>2, <2>3 DEF DroppedRequestsLeft, Dropper
<1> USE DEF AgentInv, JobInv, TypeOK, ProcessShape, Up, Linking, Switching, HasQueue,
            Collecting, ListInv, DroppedRequestsLeft, Dropper
<1>13. ASSUME NEW p \in Agents, RegisterAgent(p) PROVE DroppedRequestsLeft'
    BY <1>13 DEF RegisterAgent, RegisterFree
<1>14. ASSUME NEW p \in Agents, InsertAgent(p) PROVE DroppedRequestsLeft'
    BY <1>14 DEF InsertAgent
<1>15. ASSUME NEW p \in Agents, Shutdown(p) PROVE DroppedRequestsLeft'
    BY <1>15 DEF Shutdown
<1>16. ASSUME NEW p \in Agents, Unregister(p) PROVE DroppedRequestsLeft'
    BY <1>16 DEF Unregister, RegisterFree
<1>17. ASSUME NEW p \in Agents, Crash(p) PROVE DroppedRequestsLeft'
    BY <1>17 DEF Crash, Stop
<1>18. ASSUME NEW p \in Agents, Unown(p) PROVE DroppedRequestsLeft'
    BY <1>18 DEF Unown
<1>19. ASSUME NEW p \in Agents, NEW j \in Jobs, SwitchRefused(p, j) PROVE DroppedRequestsLeft'
    BY <1>19 DEF SwitchRefused, ReqFree, Switchable, NewOwner, PreviousOwner
<1>20. ASSUME NEW p \in Agents, NEW j \in Jobs, SwitchTimeout(p, j) PROVE DroppedRequestsLeft'
    BY <1>20 DEF SwitchTimeout
<1>21. ASSUME NEW p \in Agents, NEW j \in Jobs, SwitchError(p, j) PROVE DroppedRequestsLeft'
    BY <1>21 DEF SwitchError
<1>22. ASSUME NEW f \in Frontends, NEW r \in Requests, CreateOwn(f, r) PROVE DroppedRequestsLeft'
    BY <1>22 DEF CreateOwn
<1>23. ASSUME NEW f \in Frontends, CreateRelock(f) PROVE DroppedRequestsLeft'
    BY <1>23 DEF CreateRelock, ReqFree
<1>24. ASSUME NEW f \in Frontends, CreateRelockGone(f) PROVE DroppedRequestsLeft'
    BY <1>24 DEF CreateRelockGone
<1>25. ASSUME NEW f \in Frontends, NEW j \in Jobs, CreateLink(f, j) PROVE DroppedRequestsLeft'
    BY <1>25 DEF CreateLink, QueueFree
<1>26. ASSUME NEW r \in Requests, Cancel(r) PROVE DroppedRequestsLeft'
    BY <1>26 DEF Cancel, ReqFree
<1>27. ASSUME NEW w \in Workers, NEW q \in Queues, NEW S \in SUBSET refs[q], PopSelect(w, q, S) PROVE DroppedRequestsLeft'
    BY <1>27 DEF PopSelect, QueueFree, NoJobYet
<1>28. ASSUME NEW w \in Workers, NEW q \in Queues, NEW S \in SUBSET held[w], Requeue(w, q, S) PROVE DroppedRequestsLeft'
    BY <1>28 DEF Requeue, QueueFree
<1>29. ASSUME NEW w \in Workers, NEW j \in Jobs, Complete(w, j) PROVE DroppedRequestsLeft'
    BY <1>29 DEF Complete, ReqFree, HeldJobsOwned, OneJobPerRequest
<1>30. ASSUME NEW w \in Workers, NEW j \in Jobs, DeleteReported(w, j) PROVE DroppedRequestsLeft'
    BY <1>30 DEF DeleteReported, ReqFree
<1>31. ASSUME NEW w \in Workers, NEW j \in Jobs, LeaveOwned(w, j) PROVE DroppedRequestsLeft'
    BY <1>31 DEF LeaveOwned
<1>32. ASSUME NEW g \in Collectors, GcTake(g) PROVE DroppedRequestsLeft'
    BY <1>32 DEF GcTake
<1>33. ASSUME NEW g \in Collectors, GcTrack(g) PROVE DroppedRequestsLeft'
    BY <1>33 DEF GcTrack, RegisterFree
<1>34. ASSUME NEW g \in Collectors, NEW skipped \in SUBSET (Requests \cup Agents), GcFetchAndSort(g, skipped) PROVE DroppedRequestsLeft'
    BY <1>34 DEF GcFetchAndSort
<1>35. ASSUME NEW g \in Collectors, NEW q \in Queues, NEW S \in SUBSET pending[g], GcReference(g, q, S) PROVE DroppedRequestsLeft'
    BY <1>35 DEF GcReference, QueueFree
<1>36. ASSUME NEW g \in Collectors, GcDrop(g) PROVE DroppedRequestsLeft'
    BY <1>36 DEF GcDrop
<1>37. ASSUME NEW g \in Collectors, NEW x \in Requests \cup Agents, GcOtherSkip(g, x) PROVE DroppedRequestsLeft'
    BY <1>37 DEF GcOtherSkip, GcOther
<1>38. ASSUME NEW g \in Collectors, NEW a \in Agents, GcUntrack(g, a) PROVE DroppedRequestsLeft'
    BY <1>38 DEF GcUntrack, GcOther, RegisterFree
<1>39. ASSUME NEW g \in Collectors, GcSetOwner(g) PROVE DroppedRequestsLeft'
    BY <1>39 DEF GcSetOwner
<1>40. ASSUME NEW g \in Collectors, NEW r \in Requests, GcLock(g, r) PROVE DroppedRequestsLeft'
    BY <1>40 DEF GcLock, GcOther, ReqFree
<1>41. ASSUME NEW g \in Collectors, NEW j \in Jobs, NEW q \in Queues, GcLink(g, j, q) PROVE DroppedRequestsLeft'
    BY <1>41 DEF GcLink, QueueFree
<1>42. ASSUME NEW g \in Collectors, NEW j \in Jobs, GcOrphan(g, j) PROVE DroppedRequestsLeft'
    BY <1>42 DEF GcOrphan
<1>43. ASSUME NEW g \in Collectors, GcOtherDrop(g) PROVE DroppedRequestsLeft'
    BY <1>43 DEF GcOtherDrop
<1>44. ASSUME NEW g \in Collectors, GcRemove(g) PROVE DroppedRequestsLeft'
    BY <1>44 DEF GcRemove, GcAllDone
<1>45. ASSUME NEW g \in Collectors, GcStillOwns(g) PROVE DroppedRequestsLeft'
    BY <1>45 DEF GcStillOwns, GcAllDone, Stop
<1>46. ASSUME NEW g \in Collectors, GcUnregister(g) PROVE DroppedRequestsLeft'
    BY <1>46 DEF GcUnregister, RegisterFree
<1>47. CASE UNCHANGED vars
    BY <1>47 DEF vars
<1> HIDE DEF AgentInv, JobInv, TypeOK, ProcessShape, Up, Linking, Switching, HasQueue,
             Collecting, ListInv, DroppedRequestsLeft, Dropper
<1> QED
    BY <1>1, <1>2, <1>3, <1>4, <1>5, <1>6, <1>7, <1>8, <1>9, <1>10, <1>11, <1>12, <1>13,
       <1>14, <1>15, <1>16, <1>17, <1>18, <1>19, <1>20, <1>21, <1>22, <1>23, <1>24, <1>25,
       <1>26, <1>27, <1>28, <1>29, <1>30, <1>31, <1>32, <1>33, <1>34, <1>35, <1>36, <1>37,
       <1>38, <1>39, <1>40, <1>41, <1>42, <1>43, <1>44, <1>45, <1>46, <1>47
    DEF Next, Lifecycle, FrontendStep, SwitchStep, WorkerStep, CollectorStep

\* Without failures, nobody keeps a request of a collector's batch locked.
LEMMA NoTimeout ==
    ASSUME AgentInv, JobInv, NothingSkipped, NoFailures, NEW g \in Collectors, NEW j \in Jobs
    PROVE  ~SwitchTimeout(g, j)
<1> SUFFICES ASSUME SwitchTimeout(g, j) PROVE FALSE
    OBVIOUS
<1>1. pc[g] = "gswitch" /\ j \in todo[g] /\ g \in Agents
    BY Kinds DEF SwitchTimeout, AgentInv, ProcessShape, Switching, Collecting
<1>2. jobOwner[j] = target[g] /\ target[g] \in Agents /\ proc[target[g]] = "down"
    BY <1>1, OnlyCollectorsCollect DEF JobInv, Returning, Collecting, AgentInv, CollectorOwnsTarget
<1>3. PICK p \in Agents : pc[p] \in Linking /\ cur[p] = RequestOf[j]
    BY DEF SwitchTimeout, ReqFree
<1>4. p \in Frontends
  <2>1. CASE p \in Workers
    BY <1>3, <2>1 DEF Linking, AgentInv, ProcessShape
  <2>2. CASE p \in Collectors
    BY <1>3, <2>2 DEF NothingSkipped, Linking, Collecting, AgentInv, ProcessShape
  <2> QED
    BY <2>1, <2>2 DEF Agents
<1>5. jobOwner[j] \in {p} \cup Queues
    BY <1>3, <1>4 DEF JobInv, Creating, JobsOf
<1>6. proc[p] = "up"
    BY <1>3 DEF AgentInv, ProcessShape, Up, Linking
<1> QED
    BY <1>2, <1>5, <1>6, Addressing

\* What one collector must have in its batches.
AllInBatches(g) ==
    pc[g] \in Sorted => \A j \in Jobs \ orphans :
        jobOwner[j] = target[g] /\ RequestOf[j] \in reqs => j \in pending[g] \cup todo[g]

\* The owner writes of one process do not concern the targets of the others.
LEMMA AllInBatchesKept ==
    ASSUME AgentInv, NEW p \in Agents, OwnerWrite(p), NEW g \in Collectors, g # p,
           AllInBatches(g)
    PROVE  AllInBatches(g)'
<1>1. g \in Agents /\ SameLocals(g)
    BY Kinds DEF OwnerWrite
<1>2. CASE pc[g] \notin Sorted
    BY <1>1, <1>2 DEF SameLocals, AllInBatches
<1>3. CASE pc[g] \in Sorted
  <2>1. target[g] \in Agents
    BY <1>1, <1>3, OnlyCollectorsCollect DEF AgentInv, Sorted, Collecting
  <2>2. target[g] # target[p] /\ target[g] # p
    BY <1>1, <1>3, <2>1, BusyFacts DEF OwnerWrite, Sorted
  <2>3. \A j \in Jobs : jobOwner'[j] = target[g] <=> jobOwner[j] = target[g]
    BY <2>1, <2>2, Addressing DEF OwnerWrite
  <2> QED
    BY <1>1, <1>3, <2>3 DEF AllInBatches, SameLocals, OwnerWrite
<1> QED
    BY <1>2, <1>3

\* Without failures every job of the dead agent is in a batch of its collector:
\* the fetch finds all of them in the list, and none is left behind by a failed
\* update.
LEMMA NothingSkippedStep == AgentInv /\ JobInv /\ ListInv /\ (SingleCopy \/ NoFailures) /\ [Next]_vars => NothingSkipped'
<1> SUFFICES ASSUME AgentInv, JobInv, ListInv, SingleCopy \/ NoFailures, [Next]_vars PROVE NothingSkipped'
    OBVIOUS
<1> USE Kinds, Addressing, JobFacts
<1>1. ASSUME NEW p \in Agents, NEW j \in Jobs, SwitchOwner(p, j) PROVE NothingSkipped'
  <2> SUFFICES ASSUME NoFailures PROVE NothingSkipped'
    BY DEF NothingSkipped
  <2>1. OwnerWrite(p) /\ NothingSkipped
    BY <1>1, SwitchWrites DEF ListInv
  <2>2. /\ err' = err /\ others' = others /\ pc'[p] \notin {"glink", "gcommit"}
        /\ \A a \in Agents : a # p => pc'[a] = pc[a]
    BY <1>1, <2>1 DEF SwitchOwner, CommitRequest, AgentInv, TypeOK, NothingSkipped, Switching
  <2>3. \A c \in Collectors : AllInBatches(c)
    BY <2>1 DEF NothingSkipped, AllInBatches
  <2>4. \A c \in Collectors : c # p => AllInBatches(c)'
    BY <2>1, <2>3, AllInBatchesKept
  <2>5. p \in Collectors => AllInBatches(p)'
    <3> SUFFICES ASSUME p \in Collectors PROVE AllInBatches(p)'
      OBVIOUS
    <3>1. CollectorSwitch(p)
      BY <1>1, SwitchKinds DEF SwitchOwner, PopSwitch, RequeueSwitch, CollectorSwitch
    <3>2. jobOwner' = [jobOwner EXCEPT ![j] = lockq[p]] /\ lockq[p] # target[p]
      BY <1>1, <3>1 DEF SwitchOwner, CollectorSwitch
    <3>3. /\ todo'[p] = todo[p] \ {j} /\ pc' = pc /\ target' = target /\ pending' = pending
          /\ reqs' = reqs /\ orphans' = orphans /\ jobOwner \in [Jobs -> Owners]
      BY <1>1 DEF SwitchOwner, AgentInv, TypeOK
    <3> QED
      BY <2>3, <3>2, <3>3 DEF AllInBatches
  <2> QED
    BY <2>1, <2>2, <2>4, <2>5 DEF NothingSkipped, AllInBatches
<1>2. ASSUME NEW p \in Agents, NEW j \in Jobs, SwitchTimeout(p, j) PROVE NothingSkipped'
  <2> SUFFICES ASSUME NoFailures PROVE NothingSkipped'
    BY DEF NothingSkipped
  <2>1. p \notin Collectors /\ NothingSkipped
    BY <1>2, NoTimeout DEF ListInv
  <2> QED
    BY <1>2, <2>1 DEF SwitchTimeout, NothingSkipped, AgentInv, TypeOK
<1>3. ASSUME NEW p \in Agents, NEW j \in Jobs, SwitchUnlockFailed(p, j) PROVE NothingSkipped'
  <2> SUFFICES ASSUME NoFailures PROVE FALSE
    BY DEF NothingSkipped
  <2> QED
    BY <1>3 DEF SwitchUnlockFailed, NoFailures, AgentInv, TypeOK
<1>4. ASSUME NEW f \in Frontends, CreateCommit(f) PROVE NothingSkipped'
  <2> SUFFICES ASSUME NoFailures PROVE NothingSkipped'
    BY DEF NothingSkipped
  <2>1. OwnerWrite(f) /\ NothingSkipped
    BY <1>4, CreateWrites DEF ListInv
  <2>2. /\ err' = err /\ others' = others /\ pc'[f] \notin {"glink", "gcommit"}
        /\ \A a \in Agents : a # f => pc'[a] = pc[a]
    BY <1>4, <2>1 DEF CreateCommit, CommitRequest, AgentInv, TypeOK, NothingSkipped, Switching
  <2>3. \A c \in Collectors : AllInBatches(c)
    BY <2>1 DEF NothingSkipped, AllInBatches
  <2>4. \A c \in Collectors : c # f => AllInBatches(c)'
    BY <2>1, <2>3, AllInBatchesKept
  <2>5. f \in Collectors => AllInBatches(f)'
    OBVIOUS
  <2> QED
    BY <2>1, <2>2, <2>4, <2>5 DEF NothingSkipped, AllInBatches
<1>5. ASSUME NEW g \in Collectors, NEW skipped \in SUBSET (Requests \cup Agents), GcFetchAndSort(g, skipped) PROVE NothingSkipped'
  <2> SUFFICES ASSUME NoFailures PROVE NothingSkipped'
    BY DEF NothingSkipped
  <2>1. NothingSkipped /\ OwnedJobIsListed
    BY DEF ListInv
  <2>2. skipped = {} /\ pc[g] = "tracked" /\ target[g] \in Agents /\ g \in Agents
    BY <1>5, OnlyCollectorsCollect DEF GcFetchAndSort, AgentInv, TypeOK, Collecting, NoFailures
  <2>3. /\ err' = err /\ todo' = todo /\ target' = target /\ jobOwner' = jobOwner /\ reqs' = reqs
        /\ orphans' = orphans /\ pc'[g] = "sorted" /\ others'[g] \subseteq Agents
        /\ pending'[g] = UNION {JobsLeft(target[g], x) :
                                  x \in {y \in owned[target[g]] : StillOwned(target[g], y)}}
        /\ \A c \in Agents : c # g =>
               pc'[c] = pc[c] /\ others'[c] = others[c] /\ pending'[c] = pending[c]
    BY <1>5, <2>2 DEF GcFetchAndSort, AgentInv, TypeOK
  <2>4. \A j \in Jobs \ orphans :
            jobOwner[j] = target[g] /\ RequestOf[j] \in reqs => j \in pending'[g]
    <3> SUFFICES ASSUME NEW j \in Jobs \ orphans, jobOwner[j] = target[g], RequestOf[j] \in reqs
                 PROVE  j \in pending'[g]
      OBVIOUS
    <3>1. RequestOf[j] \in owned[target[g]]
      BY <2>1, <2>2 DEF OwnedJobIsListed
    <3>2. j \in JobsLeft(target[g], RequestOf[j])
      BY DEF JobsLeft, JobsOf
    <3> QED
      BY <2>3, <3>1, <3>2 DEF StillOwned
  <2> QED
    BY <2>1, <2>2, <2>3, <2>4 DEF NothingSkipped
<1>6. ASSUME NEW g \in Collectors, NEW q \in Queues, NEW S \in SUBSET pending[g], GcReference(g, q, S) PROVE NothingSkipped'
  <2>1. NothingSkipped /\ g \in Agents /\ pc[g] = "sorted" /\ todo[g] = {}
    BY <1>6 DEF GcReference, ListInv, AgentInv, ProcessShape, Switching, Linking
  <2>2. /\ err' = err /\ others' = others /\ target' = target /\ jobOwner' = jobOwner
        /\ reqs' = reqs /\ orphans' = orphans
        /\ pc'[g] = "gswitch" /\ pending'[g] = pending[g] \ S /\ todo'[g] = S
        /\ \A c \in Agents : c # g =>
               pc'[c] = pc[c] /\ todo'[c] = todo[c] /\ pending'[c] = pending[c]
    BY <1>6 DEF GcReference, AgentInv, TypeOK
  <2> QED
    BY <2>1, <2>2 DEF NothingSkipped, Sorted
<1>7. ASSUME NEW g \in Collectors, NEW r \in Requests, GcLock(g, r) PROVE NothingSkipped'
  <2> SUFFICES ASSUME NoFailures PROVE FALSE
    BY DEF NothingSkipped
  <2> QED
    BY <1>7 DEF GcLock, GcOther, ListInv, NothingSkipped
<1>8. ASSUME NEW g \in Collectors, NEW j \in Jobs, NEW q \in Queues, GcLink(g, j, q) PROVE NothingSkipped'
  <2> SUFFICES ASSUME NoFailures PROVE FALSE
    BY DEF NothingSkipped
  <2> QED
    BY <1>8 DEF GcLink, GcOther, ListInv, NothingSkipped
<1>9. ASSUME NEW g \in Collectors, GcCommit(g) PROVE NothingSkipped'
  <2> SUFFICES ASSUME NoFailures PROVE FALSE
    BY DEF NothingSkipped
  <2> QED
    BY <1>9 DEF GcCommit, GcOther, ListInv, NothingSkipped
<1>10. ASSUME NEW g \in Collectors, NEW j \in Jobs, GcOrphan(g, j) PROVE NothingSkipped'
  <2> SUFFICES ASSUME NoFailures PROVE FALSE
    BY DEF NothingSkipped
  <2> QED
    BY <1>10 DEF GcOrphan, GcOther, ListInv, NothingSkipped
<1> USE DEF AgentInv, JobInv, TypeOK, ProcessShape, Up, Linking, Switching, HasQueue,
            Collecting, ListInv, NothingSkipped, Sorted
<1>11. ASSUME NEW p \in Agents, RegisterAgent(p) PROVE NothingSkipped'
    BY <1>11 DEF RegisterAgent, RegisterFree
<1>12. ASSUME NEW p \in Agents, InsertAgent(p) PROVE NothingSkipped'
    BY <1>12 DEF InsertAgent
<1>13. ASSUME NEW p \in Agents, Shutdown(p) PROVE NothingSkipped'
    BY <1>13 DEF Shutdown
<1>14. ASSUME NEW p \in Agents, Unregister(p) PROVE NothingSkipped'
    BY <1>14 DEF Unregister, RegisterFree
<1>15. ASSUME NEW p \in Agents, Crash(p) PROVE NothingSkipped'
    BY <1>15 DEF Crash, Stop
<1>16. ASSUME NEW p \in Agents, Unown(p) PROVE NothingSkipped'
    BY <1>16 DEF Unown
<1>17. ASSUME NEW p \in Agents, NEW j \in Jobs, SwitchRefused(p, j) PROVE NothingSkipped'
    BY <1>17 DEF SwitchRefused, ReqFree, Switchable, NewOwner, PreviousOwner, Returning
<1>18. ASSUME NEW p \in Agents, NEW j \in Jobs, SwitchError(p, j) PROVE NothingSkipped'
    BY <1>18 DEF SwitchError, NoFailures
<1>19. ASSUME NEW f \in Frontends, NEW r \in Requests, CreateOwn(f, r) PROVE NothingSkipped'
    BY <1>19 DEF CreateOwn
<1>20. ASSUME NEW f \in Frontends, CreateInsert(f) PROVE NothingSkipped'
    BY <1>20 DEF CreateInsert, FreshRequests, Fresh, CollectorOwnsTarget
<1>21. ASSUME NEW f \in Frontends, CreateRelock(f) PROVE NothingSkipped'
    BY <1>21 DEF CreateRelock, ReqFree
<1>22. ASSUME NEW f \in Frontends, CreateRelockGone(f) PROVE NothingSkipped'
    BY <1>22 DEF CreateRelockGone
<1>23. ASSUME NEW f \in Frontends, NEW j \in Jobs, CreateLink(f, j) PROVE NothingSkipped'
    BY <1>23 DEF CreateLink, QueueFree
<1>24. ASSUME NEW f \in Frontends, CreateRelease(f) PROVE NothingSkipped'
    BY <1>24 DEF CreateRelease
<1>25. ASSUME NEW r \in Requests, Cancel(r) PROVE NothingSkipped'
    BY <1>25 DEF Cancel, ReqFree
<1>26. ASSUME NEW w \in Workers, NEW q \in Queues, NEW S \in SUBSET refs[q], PopSelect(w, q, S) PROVE NothingSkipped'
    BY <1>26 DEF PopSelect, QueueFree, NoJobYet
<1>27. ASSUME NEW w \in Workers, PopFinish(w) PROVE NothingSkipped'
    BY <1>27 DEF PopFinish, ReleaseQueue
<1>28. ASSUME NEW w \in Workers, NEW q \in Queues, NEW S \in SUBSET held[w], Requeue(w, q, S) PROVE NothingSkipped'
    BY <1>28 DEF Requeue, QueueFree
<1>29. ASSUME NEW w \in Workers, RequeueFinish(w) PROVE NothingSkipped'
    BY <1>29 DEF RequeueFinish, ReleaseQueue
<1>30. ASSUME NEW w \in Workers, NEW j \in Jobs, Complete(w, j) PROVE NothingSkipped'
    BY <1>30 DEF Complete, ReqFree, HeldJobsOwned
<1>31. ASSUME NEW w \in Workers, NEW j \in Jobs, DeleteReported(w, j) PROVE NothingSkipped'
    BY <1>31 DEF DeleteReported, ReqFree
<1>32. ASSUME NEW w \in Workers, NEW j \in Jobs, DeleteFailed(w, j) PROVE NothingSkipped'
    BY <1>32 DEF DeleteFailed
<1>33. ASSUME NEW w \in Workers, NEW j \in Jobs, LeaveOwned(w, j) PROVE NothingSkipped'
    BY <1>33 DEF LeaveOwned
<1>34. ASSUME NEW g \in Collectors, NEW a \in Agents, GcClaim(g, a) PROVE NothingSkipped'
    BY <1>34 DEF GcClaim, AgentFree
<1>35. ASSUME NEW g \in Collectors, GcTake(g) PROVE NothingSkipped'
    BY <1>35 DEF GcTake
<1>36. ASSUME NEW g \in Collectors, GcTrack(g) PROVE NothingSkipped'
    BY <1>36 DEF GcTrack, RegisterFree
<1>37. ASSUME NEW g \in Collectors, GcFinish(g) PROVE NothingSkipped'
    BY <1>37 DEF GcFinish, ReleaseQueue, RequestsOf
<1>38. ASSUME NEW g \in Collectors, GcDrop(g) PROVE NothingSkipped'
    BY <1>38 DEF GcDrop
<1>39. ASSUME NEW g \in Collectors, NEW x \in Requests \cup Agents, GcOtherSkip(g, x) PROVE NothingSkipped'
    BY <1>39 DEF GcOtherSkip, GcOther
<1>40. ASSUME NEW g \in Collectors, NEW a \in Agents, GcUntrack(g, a) PROVE NothingSkipped'
    BY <1>40 DEF GcUntrack, GcOther, RegisterFree
<1>41. ASSUME NEW g \in Collectors, GcSetOwner(g) PROVE NothingSkipped'
    BY <1>41 DEF GcSetOwner
<1>42. ASSUME NEW g \in Collectors, GcUnlock(g) PROVE NothingSkipped'
    BY <1>42 DEF GcUnlock
<1>43. ASSUME NEW g \in Collectors, GcOtherDrop(g) PROVE NothingSkipped'
    BY <1>43 DEF GcOtherDrop
<1>44. ASSUME NEW g \in Collectors, GcRemove(g) PROVE NothingSkipped'
    BY <1>44 DEF GcRemove, GcAllDone
<1>45. ASSUME NEW g \in Collectors, GcStillOwns(g) PROVE NothingSkipped'
    BY <1>45 DEF GcStillOwns, GcAllDone, Stop
<1>46. ASSUME NEW g \in Collectors, GcUnregister(g) PROVE NothingSkipped'
    BY <1>46 DEF GcUnregister, RegisterFree
<1>47. CASE UNCHANGED vars
    BY <1>47 DEF vars
<1> HIDE DEF AgentInv, JobInv, TypeOK, ProcessShape, Up, Linking, Switching, HasQueue,
             Collecting, ListInv, NothingSkipped, Sorted
<1> QED
    BY <1>1, <1>2, <1>3, <1>4, <1>5, <1>6, <1>7, <1>8, <1>9, <1>10, <1>11, <1>12, <1>13,
       <1>14, <1>15, <1>16, <1>17, <1>18, <1>19, <1>20, <1>21, <1>22, <1>23, <1>24, <1>25,
       <1>26, <1>27, <1>28, <1>29, <1>30, <1>31, <1>32, <1>33, <1>34, <1>35, <1>36, <1>37,
       <1>38, <1>39, <1>40, <1>41, <1>42, <1>43, <1>44, <1>45, <1>46, <1>47
    DEF Next, Lifecycle, FrontendStep, SwitchStep, WorkerStep, CollectorStep

\* No step removes the address of a job from the list of its owner, removes the
\* agent object, or gives a job to an agent that does not list it.
LEMMA OwnedJobStep == AgentInv /\ JobInv /\ ListInv /\ (SingleCopy \/ NoFailures) /\ [Next]_vars => OwnedJobIsListed'
<1> SUFFICES ASSUME AgentInv, JobInv, ListInv, SingleCopy \/ NoFailures, [Next]_vars PROVE OwnedJobIsListed'
    OBVIOUS
<1> USE Kinds, Addressing, JobFacts
<1>1. ASSUME NEW p \in Agents, NEW j \in Jobs, SwitchOwner(p, j) PROVE OwnedJobIsListed'
  <2>1. OwnedJobIsListed /\ reqs' = reqs /\ orphans' = orphans /\ agentObjs' = agentObjs /\ owned' = owned
    BY <1>1 DEF SwitchOwner, ListInv
  <2>2. jobOwner' = [jobOwner EXCEPT ![j] = NewOwner(p)] /\ jobOwner \in [Jobs -> Owners]
    BY <1>1 DEF SwitchOwner, AgentInv, TypeOK
  <2>3. NewOwner(p) \in Agents => NewOwner(p) = p /\ p \in agentObjs /\ RequestOf[j] \in owned[p]
    <3>1. CASE PopSwitch(p)
      <4>1. p \in agentObjs
        BY <1>1 DEF SwitchOwner, AgentInv, AgentLife
      <4>2. RequestOf[j] \in owned[p]
        BY <1>1, <3>1 DEF SwitchOwner, PopSwitch, JobInv, Popping, Batch
      <4> QED
        BY <3>1, <4>1, <4>2 DEF PopSwitch
    <3>2. CASE RequeueSwitch(p) \/ CollectorSwitch(p)
      BY <3>2 DEF RequeueSwitch, CollectorSwitch
    <3> QED
      BY <1>1, <3>1, <3>2, SwitchKinds DEF SwitchOwner
  <2> QED
    BY <2>1, <2>2, <2>3 DEF OwnedJobIsListed
<1>2. ASSUME NEW p \in Agents, NEW j \in Jobs, SwitchUnlockFailed(p, j) PROVE OwnedJobIsListed'
  <2>1. OwnedJobIsListed /\ reqs' = reqs /\ orphans' = orphans /\ agentObjs' = agentObjs /\ owned' = owned
    BY <1>2 DEF SwitchUnlockFailed, ListInv
  <2>2. jobOwner' = [jobOwner EXCEPT ![j] = NewOwner(p)] /\ jobOwner \in [Jobs -> Owners]
    BY <1>2 DEF SwitchUnlockFailed, AgentInv, TypeOK
  <2>3. NewOwner(p) \in Agents => NewOwner(p) = p /\ p \in agentObjs /\ RequestOf[j] \in owned[p]
    <3>1. CASE PopSwitch(p)
      <4>1. p \in agentObjs
        BY <1>2 DEF SwitchUnlockFailed, AgentInv, AgentLife
      <4>2. RequestOf[j] \in owned[p]
        BY <1>2, <3>1 DEF SwitchUnlockFailed, PopSwitch, JobInv, Popping, Batch
      <4> QED
        BY <3>1, <4>1, <4>2 DEF PopSwitch
    <3>2. CASE RequeueSwitch(p) \/ CollectorSwitch(p)
      BY <3>2 DEF RequeueSwitch, CollectorSwitch
    <3> QED
      BY <1>2, <3>1, <3>2, SwitchKinds DEF SwitchUnlockFailed
  <2> QED
    BY <2>1, <2>2, <2>3 DEF OwnedJobIsListed
<1>3. ASSUME NEW f \in Frontends, CreateInsert(f) PROVE OwnedJobIsListed'
    BY <1>3 DEF CreateInsert, AgentInv, TypeOK, ListInv, OwnedJobIsListed, ListedFirst, AgentLife, Up
<1>4. ASSUME NEW f \in Frontends, CreateCommit(f) PROVE OwnedJobIsListed'
  <2>1. OwnedJobIsListed /\ reqs' = reqs /\ orphans' = orphans /\ agentObjs' = agentObjs /\ owned' = owned
    BY <1>4 DEF CreateCommit, ListInv
  <2>2. \A j \in Jobs : jobOwner'[j] \in Agents => jobOwner'[j] = jobOwner[j]
    BY <1>4, FrontendCommit
  <2> QED
    BY <2>1, <2>2 DEF OwnedJobIsListed
<1>5. ASSUME NEW g \in Collectors, NEW skipped \in SUBSET (Requests \cup Agents), GcFetchAndSort(g, skipped) PROVE OwnedJobIsListed'
    BY <1>5, OnlyCollectorsCollect DEF GcFetchAndSort, AgentInv, TypeOK, ListInv, OwnedJobIsListed, StillOwned, JobsLeft, JobsOf, Collecting
<1>6. ASSUME NEW g \in Collectors, GcCommit(g) PROVE OwnedJobIsListed'
  <2>1. OwnedJobIsListed /\ reqs' = reqs /\ orphans' = orphans /\ agentObjs' = agentObjs /\ owned' = owned
    BY <1>6 DEF GcCommit, ListInv
  <2>2. \A j \in Jobs : jobOwner'[j] \in Agents => jobOwner'[j] = jobOwner[j]
    BY <1>6, CollectorCommit
  <2> QED
    BY <2>1, <2>2 DEF OwnedJobIsListed
<1> USE DEF AgentInv, JobInv, TypeOK, ProcessShape, Up, Linking, Switching, HasQueue,
            Collecting, ListInv, OwnedJobIsListed, DroppedRequestsLeft, Dropper
<1>7. ASSUME NEW p \in Agents, RegisterAgent(p) PROVE OwnedJobIsListed'
    BY <1>7 DEF RegisterAgent, RegisterFree
<1>8. ASSUME NEW p \in Agents, InsertAgent(p) PROVE OwnedJobIsListed'
    BY <1>8 DEF InsertAgent
<1>9. ASSUME NEW p \in Agents, Shutdown(p) PROVE OwnedJobIsListed'
    BY <1>9 DEF Shutdown
<1>10. ASSUME NEW p \in Agents, Unregister(p) PROVE OwnedJobIsListed'
    BY <1>10 DEF Unregister, RegisterFree
<1>11. ASSUME NEW p \in Agents, Crash(p) PROVE OwnedJobIsListed'
    BY <1>11 DEF Crash, Stop
<1>12. ASSUME NEW p \in Agents, Unown(p) PROVE OwnedJobIsListed'
    BY <1>12 DEF Unown
<1>13. ASSUME NEW p \in Agents, NEW j \in Jobs, SwitchRefused(p, j) PROVE OwnedJobIsListed'
    BY <1>13 DEF SwitchRefused, ReqFree, Switchable, NewOwner, PreviousOwner
<1>14. ASSUME NEW p \in Agents, NEW j \in Jobs, SwitchTimeout(p, j) PROVE OwnedJobIsListed'
    BY <1>14 DEF SwitchTimeout
<1>15. ASSUME NEW p \in Agents, NEW j \in Jobs, SwitchError(p, j) PROVE OwnedJobIsListed'
    BY <1>15 DEF SwitchError
<1>16. ASSUME NEW f \in Frontends, NEW r \in Requests, CreateOwn(f, r) PROVE OwnedJobIsListed'
    BY <1>16 DEF CreateOwn
<1>17. ASSUME NEW f \in Frontends, CreateRelock(f) PROVE OwnedJobIsListed'
    BY <1>17 DEF CreateRelock, ReqFree
<1>18. ASSUME NEW f \in Frontends, CreateRelockGone(f) PROVE OwnedJobIsListed'
    BY <1>18 DEF CreateRelockGone
<1>19. ASSUME NEW f \in Frontends, NEW j \in Jobs, CreateLink(f, j) PROVE OwnedJobIsListed'
    BY <1>19 DEF CreateLink, QueueFree
<1>20. ASSUME NEW f \in Frontends, CreateRelease(f) PROVE OwnedJobIsListed'
    BY <1>20 DEF CreateRelease
<1>21. ASSUME NEW r \in Requests, Cancel(r) PROVE OwnedJobIsListed'
    BY <1>21 DEF Cancel, ReqFree
<1>22. ASSUME NEW w \in Workers, NEW q \in Queues, NEW S \in SUBSET refs[q], PopSelect(w, q, S) PROVE OwnedJobIsListed'
    BY <1>22 DEF PopSelect, QueueFree, NoJobYet
<1>23. ASSUME NEW w \in Workers, PopFinish(w) PROVE OwnedJobIsListed'
    BY <1>23 DEF PopFinish, ReleaseQueue
<1>24. ASSUME NEW w \in Workers, NEW q \in Queues, NEW S \in SUBSET held[w], Requeue(w, q, S) PROVE OwnedJobIsListed'
    BY <1>24 DEF Requeue, QueueFree
<1>25. ASSUME NEW w \in Workers, RequeueFinish(w) PROVE OwnedJobIsListed'
    BY <1>25 DEF RequeueFinish, ReleaseQueue
<1>26. ASSUME NEW w \in Workers, NEW j \in Jobs, Complete(w, j) PROVE OwnedJobIsListed'
    BY <1>26 DEF Complete, ReqFree
<1>27. ASSUME NEW w \in Workers, NEW j \in Jobs, DeleteReported(w, j) PROVE OwnedJobIsListed'
    BY <1>27 DEF DeleteReported, ReqFree
<1>28. ASSUME NEW w \in Workers, NEW j \in Jobs, DeleteFailed(w, j) PROVE OwnedJobIsListed'
    BY <1>28 DEF DeleteFailed
<1>29. ASSUME NEW w \in Workers, NEW j \in Jobs, LeaveOwned(w, j) PROVE OwnedJobIsListed'
    BY <1>29 DEF LeaveOwned
<1>30. ASSUME NEW g \in Collectors, NEW a \in Agents, GcClaim(g, a) PROVE OwnedJobIsListed'
    BY <1>30 DEF GcClaim, AgentFree
<1>31. ASSUME NEW g \in Collectors, GcTake(g) PROVE OwnedJobIsListed'
    BY <1>31 DEF GcTake
<1>32. ASSUME NEW g \in Collectors, GcTrack(g) PROVE OwnedJobIsListed'
    BY <1>32 DEF GcTrack, RegisterFree
<1>33. ASSUME NEW g \in Collectors, NEW q \in Queues, NEW S \in SUBSET pending[g], GcReference(g, q, S) PROVE OwnedJobIsListed'
    BY <1>33 DEF GcReference, QueueFree
<1>34. ASSUME NEW g \in Collectors, GcFinish(g) PROVE OwnedJobIsListed'
    BY <1>34 DEF GcFinish, ReleaseQueue
<1>35. ASSUME NEW g \in Collectors, GcDrop(g) PROVE OwnedJobIsListed'
    BY <1>35 DEF GcDrop, CollectorOwnsTarget
<1>36. ASSUME NEW g \in Collectors, NEW x \in Requests \cup Agents, GcOtherSkip(g, x) PROVE OwnedJobIsListed'
    BY <1>36 DEF GcOtherSkip, GcOther
<1>37. ASSUME NEW g \in Collectors, NEW a \in Agents, GcUntrack(g, a) PROVE OwnedJobIsListed'
    BY <1>37 DEF GcUntrack, GcOther, RegisterFree
<1>38. ASSUME NEW g \in Collectors, GcSetOwner(g) PROVE OwnedJobIsListed'
    BY <1>38 DEF GcSetOwner
<1>39. ASSUME NEW g \in Collectors, NEW r \in Requests, GcLock(g, r) PROVE OwnedJobIsListed'
    BY <1>39 DEF GcLock, GcOther, ReqFree
<1>40. ASSUME NEW g \in Collectors, NEW j \in Jobs, NEW q \in Queues, GcLink(g, j, q) PROVE OwnedJobIsListed'
    BY <1>40 DEF GcLink, QueueFree
<1>41. ASSUME NEW g \in Collectors, NEW j \in Jobs, GcOrphan(g, j) PROVE OwnedJobIsListed'
    BY <1>41 DEF GcOrphan
<1>42. ASSUME NEW g \in Collectors, GcUnlock(g) PROVE OwnedJobIsListed'
    BY <1>42 DEF GcUnlock
<1>43. ASSUME NEW g \in Collectors, GcOtherDrop(g) PROVE OwnedJobIsListed'
    BY <1>43 DEF GcOtherDrop, CollectorOwnsTarget
<1>44. ASSUME NEW g \in Collectors, GcRemove(g) PROVE OwnedJobIsListed'
    BY <1>44 DEF GcRemove, GcAllDone
<1>45. ASSUME NEW g \in Collectors, GcStillOwns(g) PROVE OwnedJobIsListed'
    BY <1>45 DEF GcStillOwns, GcAllDone, Stop
<1>46. ASSUME NEW g \in Collectors, GcUnregister(g) PROVE OwnedJobIsListed'
    BY <1>46 DEF GcUnregister, RegisterFree
<1>47. CASE UNCHANGED vars
    BY <1>47 DEF vars
<1> HIDE DEF AgentInv, JobInv, TypeOK, ProcessShape, Up, Linking, Switching, HasQueue,
             Collecting, ListInv, OwnedJobIsListed, DroppedRequestsLeft, Dropper
<1> QED
    BY <1>1, <1>2, <1>3, <1>4, <1>5, <1>6, <1>7, <1>8, <1>9, <1>10, <1>11, <1>12, <1>13,
       <1>14, <1>15, <1>16, <1>17, <1>18, <1>19, <1>20, <1>21, <1>22, <1>23, <1>24, <1>25,
       <1>26, <1>27, <1>28, <1>29, <1>30, <1>31, <1>32, <1>33, <1>34, <1>35, <1>36, <1>37,
       <1>38, <1>39, <1>40, <1>41, <1>42, <1>43, <1>44, <1>45, <1>46, <1>47
    DEF Next, Lifecycle, FrontendStep, SwitchStep, WorkerStep, CollectorStep

\* The lists are empty at the beginning.
LEMMA ListInvInit == Init => ListInv
    BY Kinds, Addressing
    DEF Init, NoJobs, ListInv, ListedFirst, DroppedRequestsLeft, NothingSkipped, Sorted,
        OwnedJobIsListed

\* The three layers together are an invariant (IndInv): where every process stands
\* in its writes to agents, queues, requests and lists accounts for each link that
\* is missing or not yet undone, with any number of crashes, for requests with one
\* copy whatever accesses and unlocks fail, for requests with several when none
\* does.
THEOREM IndInvariant ==
    SingleCopy \/ NoFailures => (Spec => []IndInv)
<1> SUFFICES ASSUME SingleCopy \/ NoFailures PROVE Spec => []IndInv
    OBVIOUS
<1>1. Init => IndInv
    BY AgentInvInit, JobInvInit, ListInvInit DEF IndInv
<1>2. IndInv /\ [Next]_vars => IndInv'
  <2> SUFFICES ASSUME AgentInv, JobInv, ListInv, [Next]_vars PROVE IndInv'
    BY DEF IndInv
  <2>1. AgentInv' /\ JobInv'
    BY AgentInvStep, JobInvStep
  <2>2. ListedFirst' /\ DroppedRequestsLeft' /\ NothingSkipped' /\ OwnedJobIsListed'
    BY ListedFirstStep, DroppedRequestsStep, NothingSkippedStep, OwnedJobStep
  <2> QED
    BY <2>1, <2>2 DEF IndInv, ListInv
<1> QED
    BY <1>1, <1>2, PTL DEF Spec

\* A job owned by a process is always found from that process's agent object, so
\* the garbage collector finds it when the process dies: with any number of
\* crashes, for requests with one copy whatever accesses and unlocks fail, for
\* requests with several copies when none does.
THEOREM OwnedJobsAreListed ==
    SingleCopy \/ NoFailures => (Spec => []OwnedJobIsListed)
<1>1. IndInv => OwnedJobIsListed
    BY DEF IndInv, ListInv
<1> QED
    BY <1>1, IndInvariant, PTL

=============================================================================
