------------------------- MODULE OwnershipJobProofs -------------------------
(***************************************************************************)
(* Proofs about ObjectOwnership, second part: where the jobs are.  JobInv  *)
(* is inductive relative to AgentInv.  That queued jobs are referenced is  *)
(* part of it as long as no update was committed and then reported as      *)
(* failed (unlockFailures = 0): the run OwnershipUnlockFailure shows that  *)
(* it fails otherwise.                                                     *)
(***************************************************************************)
EXTENDS OwnershipAgentProofs

USE DEF register, agentVars, requestVars, batch, gcVars, faults

\* Jobs and their queues.
LEMMA JobFacts ==
    /\ \A j \in Jobs : TransferQueueOf[j] \in QueuesOf[j]
    /\ \A j \in Jobs : QueuesOf[j] \subseteq Queues
    /\ \A i, j \in Jobs : \A q \in Queues :
           RequestOf[i] = RequestOf[j] /\ q \in QueuesOf[i] /\ q \in QueuesOf[j] => i = j
    BY ConstantsAssumption, SiblingsDoNotShareQueues

\* The three uses of an owner switch.
PopSwitch(p) ==
    /\ p \in Workers /\ pc[p] = "pop" /\ lockq[p] \in Queues
    /\ NewOwner(p) = p /\ PreviousOwner(p) = lockq[p]
RequeueSwitch(p) ==
    /\ p \in Workers /\ pc[p] = "requeue" /\ lockq[p] \in Queues
    /\ NewOwner(p) = lockq[p] /\ PreviousOwner(p) = p
CollectorSwitch(p) ==
    /\ p \in Collectors /\ pc[p] = "gswitch" /\ lockq[p] \in Queues
    /\ target[p] \in Agents /\ proc[target[p]] = "down"
    /\ NewOwner(p) = lockq[p] /\ PreviousOwner(p) = target[p]

\* A process switching owners is a worker that pops or requeues, or a collector.
LEMMA SwitchKinds ==
    ASSUME AgentInv, NEW p \in Agents, pc[p] \in Switching
    PROVE  PopSwitch(p) \/ RequeueSwitch(p) \/ CollectorSwitch(p)
<1>1. lockq[p] \in Queues
    BY DEF AgentInv, TypeOK, ProcessShape, HasQueue
<1>2. \/ p \in Workers /\ pc[p] \in {"pop", "requeue"}
      \/ p \in Collectors /\ pc[p] = "gswitch"
  <2>1. CASE p \in Frontends
    BY <2>1 DEF AgentInv, ProcessShape, Switching
  <2>2. CASE p \in Workers
    BY <2>2 DEF AgentInv, ProcessShape, Switching
  <2>3. CASE p \in Collectors
    BY <2>3, Kinds DEF AgentInv, ProcessShape, Switching, Collecting
  <2> QED
    BY <2>1, <2>2, <2>3 DEF Agents
<1>3. pc[p] = "gswitch" => target[p] \in Agents /\ proc[target[p]] = "down"
    BY OnlyCollectorsCollect DEF AgentInv, CollectorOwnsTarget, Collecting
<1> QED
    BY <1>1, <1>2, <1>3
    DEF PopSwitch, RequeueSwitch, CollectorSwitch, NewOwner, PreviousOwner

\* What the commit of a locked request does to the owners: it changes the job
\* just linked and no other, although it writes the whole in-memory copy.
LEMMA CommitFacts ==
    ASSUME AgentInv, ImageIsCurrent, NEW p \in Agents, pc[p] \in {"commit", "gcommit"},
           CommitRequest(p)
    PROVE  /\ lockq[p] \in Queues
           /\ jobOwner' = [j \in Jobs |-> IF j \in ok[p] THEN lockq[p] ELSE jobOwner[j]]
           /\ ok[p] \subseteq refs[lockq[p]] /\ ok[p] \subseteq JobsOf(cur[p])
<1>1. lockq[p] \in Queues
    BY DEF AgentInv, TypeOK, ProcessShape, HasQueue
<1>2. ok[p] \subseteq refs[lockq[p]] /\ ok[p] \subseteq JobsOf(cur[p])
    BY DEF ImageIsCurrent, Linking
<1>3. \A j \in JobsOf(cur[p]) : image[p][j] = jobOwner[j]
    BY DEF ImageIsCurrent, Linking
<1> QED
    BY <1>1, <1>2, <1>3 DEF CommitRequest, Relinked, JobsOf, AgentInv, TypeOK

\* The commits of queueArchive take jobs from the frontend, or leave them queued.
LEMMA FrontendCommit ==
    ASSUME AgentInv, JobInv, NEW f \in Frontends, CreateCommit(f)
    PROVE  /\ lockq[f] \in Queues
           /\ jobOwner' = [j \in Jobs |-> IF j \in ok[f] THEN lockq[f] ELSE jobOwner[j]]
           /\ ok[f] \subseteq refs[lockq[f]] /\ ok[f] \subseteq JobsOf(cur[f])
           /\ \A j \in ok[f] : jobOwner[j] \in {f} \cup Queues
<1>1. f \in Agents /\ pc[f] = "commit" /\ CommitRequest(f)
    BY Kinds DEF CreateCommit
<1>2. ImageIsCurrent /\ Creating
    BY DEF JobInv
<1>3. ok[f] \subseteq JobsOf(cur[f])
    BY <1>1, <1>2, CommitFacts
<1>4. \A j \in ok[f] : jobOwner[j] \in {f} \cup Queues
    BY <1>1, <1>2, <1>3 DEF Creating, Linking
<1> QED
    BY <1>1, <1>2, <1>4, CommitFacts

\* The commits of ArchiveRequest::garbageCollect take jobs from the dead agent.
LEMMA CollectorCommit ==
    ASSUME AgentInv, JobInv, NEW g \in Collectors, GcCommit(g)
    PROVE  /\ lockq[g] \in Queues /\ target[g] \in Agents /\ proc[target[g]] = "down"
           /\ jobOwner' = [j \in Jobs |-> IF j \in ok[g] THEN lockq[g] ELSE jobOwner[j]]
           /\ ok[g] \subseteq refs[lockq[g]] /\ ok[g] \subseteq JobsOf(cur[g])
           /\ \A j \in ok[g] : jobOwner[j] = target[g]
<1>1. g \in Agents /\ pc[g] = "gcommit" /\ CommitRequest(g)
    BY Kinds DEF GcCommit
<1>2. ImageIsCurrent /\ Returning
    BY DEF JobInv
<1>3. target[g] \in Agents /\ proc[target[g]] = "down"
    BY <1>1, OnlyCollectorsCollect DEF AgentInv, CollectorOwnsTarget, Collecting
<1>4. \A j \in ok[g] : jobOwner[j] = target[g]
    BY <1>1, <1>2 DEF Returning, Linking, Collecting
<1> QED
    BY <1>1, <1>2, <1>3, <1>4, CommitFacts

\* Only running workers hold jobs.
LEMMA HolderFacts ==
    AgentInv => \A p \in Agents : held[p] # {} => p \in Workers /\ proc[p] = "up"
    BY DEF AgentInv, ProcessShape, Up

\* An unlock failure is not forgotten.
LEMMA FailuresCounted ==
    ASSUME AgentInv, [Next]_vars
    PROVE  /\ unlockFailures' = 0 => unlockFailures = 0
           /\ \A p \in Agents, j \in Jobs : SwitchUnlockFailed(p, j) => unlockFailures' # 0
<1>1. unlockFailures \in Nat
    BY BoundsAssumption DEF AgentInv, TypeOK
<1>2. unlockFailures' = unlockFailures \/ unlockFailures' = unlockFailures + 1
  <2>1. ASSUME NEW p \in Agents, Lifecycle(p) \/ Crash(p) \/ Unown(p) PROVE unlockFailures' = unlockFailures
    BY <2>1, Zenon DEF Lifecycle, RegisterAgent, InsertAgent, Shutdown, Unregister, Crash, Unown
  <2>2. ASSUME NEW p \in Agents, SwitchStep(p)
        PROVE  unlockFailures' = unlockFailures \/ unlockFailures' = unlockFailures + 1
    BY <2>2, Zenon DEF SwitchStep, SwitchOwner, SwitchRefused, SwitchTimeout, SwitchError,
                       SwitchUnlockFailed
  <2>3. ASSUME NEW f \in Frontends, FrontendStep(f) PROVE unlockFailures' = unlockFailures
    BY <2>3, Zenon DEF FrontendStep, CreateOwn, CreateInsert, CreateRelock, CreateRelockGone,
                       CreateLink, CreateCommit, CreateRelease
  <2>4. ASSUME NEW w \in Workers, WorkerStep(w) PROVE unlockFailures' = unlockFailures
    BY <2>4, Zenon DEF WorkerStep, PopSelect, PopFinish, Requeue, RequeueFinish, Complete,
                       DeleteReported, DeleteFailed, LeaveOwned
  <2>5. ASSUME NEW g \in Collectors, CollectorStep(g) PROVE unlockFailures' = unlockFailures
    BY <2>5, Zenon DEF CollectorStep, GcClaim, GcTake, GcTrack, GcFetchAndSort, GcReference,
                       GcFinish, GcDrop, GcOtherSkip, GcUntrack, GcSetOwner, GcLock, GcLink,
                       GcCommit, GcOrphan, GcUnlock, GcOtherDrop, GcRemove, GcStillOwns, Stop,
                       GcUnregister
  <2>6. ASSUME NEW r \in Requests, Cancel(r) PROVE unlockFailures' = unlockFailures
    BY <2>6, Zenon DEF Cancel
  <2>7. CASE UNCHANGED vars
    BY <2>7, Zenon DEF vars
  <2> QED
    BY <2>1, <2>2, <2>3, <2>4, <2>5, <2>6, <2>7, Zenon DEF Next
<1> QED
    BY <1>1, <1>2 DEF SwitchUnlockFailed

\* A request is known to its creator only until it is inserted, and then all
\* its jobs are the creator's.
LEMMA FreshStep == AgentInv /\ JobInv /\ [Next]_vars => FreshRequests'
<1> SUFFICES ASSUME AgentInv, JobInv, [Next]_vars PROVE FreshRequests'
    OBVIOUS
<1> USE Kinds, Addressing, JobFacts
<1>1. ASSUME NEW p \in Agents, NEW j \in Jobs, SwitchUnlockFailed(p, j) PROVE FreshRequests'
    BY <1>1 DEF SwitchUnlockFailed, ReqFree, Switchable, NewOwner, PreviousOwner, AgentInv, JobInv,
                TypeOK, ProcessShape, Up, Linking, Switching, HasQueue, FreshRequests, Fresh
<1> USE DEF AgentInv, JobInv, TypeOK, ProcessShape, Up, Linking, Switching, HasQueue,
            Collecting, FreshRequests, Fresh, HeldJobsOwned, ImageIsCurrent
<1>2. ASSUME NEW p \in Agents, RegisterAgent(p) PROVE FreshRequests'
    BY <1>2 DEF RegisterAgent, RegisterFree
<1>3. ASSUME NEW p \in Agents, InsertAgent(p) PROVE FreshRequests'
    BY <1>3 DEF InsertAgent
<1>4. ASSUME NEW p \in Agents, Shutdown(p) PROVE FreshRequests'
    BY <1>4 DEF Shutdown
<1>5. ASSUME NEW p \in Agents, Unregister(p) PROVE FreshRequests'
    BY <1>5 DEF Unregister, RegisterFree
<1>6. ASSUME NEW p \in Agents, Crash(p) PROVE FreshRequests'
    BY <1>6 DEF Crash, Stop
<1>7. ASSUME NEW p \in Agents, Unown(p) PROVE FreshRequests'
    BY <1>7 DEF Unown
<1>8. ASSUME NEW p \in Agents, NEW j \in Jobs, SwitchOwner(p, j) PROVE FreshRequests'
    BY <1>8 DEF SwitchOwner, ReqFree, Switchable, NewOwner, PreviousOwner
<1>9. ASSUME NEW p \in Agents, NEW j \in Jobs, SwitchRefused(p, j) PROVE FreshRequests'
    BY <1>9 DEF SwitchRefused, ReqFree, Switchable, NewOwner, PreviousOwner
<1>10. ASSUME NEW p \in Agents, NEW j \in Jobs, SwitchTimeout(p, j) PROVE FreshRequests'
    BY <1>10 DEF SwitchTimeout
<1>11. ASSUME NEW p \in Agents, NEW j \in Jobs, SwitchError(p, j) PROVE FreshRequests'
    BY <1>11 DEF SwitchError
<1>12. ASSUME NEW f \in Frontends, NEW r \in Requests, CreateOwn(f, r) PROVE FreshRequests'
    BY <1>12 DEF CreateOwn
<1>13. ASSUME NEW f \in Frontends, CreateInsert(f) PROVE FreshRequests'
    BY <1>13 DEF CreateInsert
<1>14. ASSUME NEW f \in Frontends, CreateRelock(f) PROVE FreshRequests'
    BY <1>14 DEF CreateRelock, ReqFree
<1>15. ASSUME NEW f \in Frontends, CreateRelockGone(f) PROVE FreshRequests'
    BY <1>15 DEF CreateRelockGone
<1>16. ASSUME NEW f \in Frontends, NEW j \in Jobs, CreateLink(f, j) PROVE FreshRequests'
    BY <1>16 DEF CreateLink, QueueFree
<1>17. ASSUME NEW f \in Frontends, CreateCommit(f) PROVE FreshRequests'
    BY <1>17 DEF CreateCommit, CommitRequest, Relinked
<1>18. ASSUME NEW f \in Frontends, CreateRelease(f) PROVE FreshRequests'
    BY <1>18 DEF CreateRelease
<1>19. ASSUME NEW r \in Requests, Cancel(r) PROVE FreshRequests'
    BY <1>19 DEF Cancel, ReqFree
<1>20. ASSUME NEW w \in Workers, NEW q \in Queues, NEW S \in SUBSET refs[q], PopSelect(w, q, S) PROVE FreshRequests'
    BY <1>20 DEF PopSelect, QueueFree, NoJobYet
<1>21. ASSUME NEW w \in Workers, PopFinish(w) PROVE FreshRequests'
    BY <1>21 DEF PopFinish, ReleaseQueue
<1>22. ASSUME NEW w \in Workers, NEW q \in Queues, NEW S \in SUBSET held[w], Requeue(w, q, S) PROVE FreshRequests'
    BY <1>22 DEF Requeue, QueueFree
<1>23. ASSUME NEW w \in Workers, RequeueFinish(w) PROVE FreshRequests'
    BY <1>23 DEF RequeueFinish, ReleaseQueue
<1>24. ASSUME NEW w \in Workers, NEW j \in Jobs, Complete(w, j) PROVE FreshRequests'
    BY <1>24 DEF Complete, ReqFree
<1>25. ASSUME NEW w \in Workers, NEW j \in Jobs, DeleteReported(w, j) PROVE FreshRequests'
    BY <1>25 DEF DeleteReported, ReqFree
<1>26. ASSUME NEW w \in Workers, NEW j \in Jobs, DeleteFailed(w, j) PROVE FreshRequests'
    BY <1>26 DEF DeleteFailed
<1>27. ASSUME NEW w \in Workers, NEW j \in Jobs, LeaveOwned(w, j) PROVE FreshRequests'
    BY <1>27 DEF LeaveOwned
<1>28. ASSUME NEW g \in Collectors, NEW a \in Agents, GcClaim(g, a) PROVE FreshRequests'
    BY <1>28 DEF GcClaim, AgentFree
<1>29. ASSUME NEW g \in Collectors, GcTake(g) PROVE FreshRequests'
    BY <1>29 DEF GcTake
<1>30. ASSUME NEW g \in Collectors, GcTrack(g) PROVE FreshRequests'
    BY <1>30 DEF GcTrack, RegisterFree
<1>31. ASSUME NEW g \in Collectors, NEW skipped \in SUBSET (Requests \cup Agents), GcFetchAndSort(g, skipped) PROVE FreshRequests'
    BY <1>31 DEF GcFetchAndSort
<1>32. ASSUME NEW g \in Collectors, NEW q \in Queues, NEW S \in SUBSET pending[g], GcReference(g, q, S) PROVE FreshRequests'
    BY <1>32 DEF GcReference, QueueFree
<1>33. ASSUME NEW g \in Collectors, GcFinish(g) PROVE FreshRequests'
    BY <1>33 DEF GcFinish, ReleaseQueue
<1>34. ASSUME NEW g \in Collectors, GcDrop(g) PROVE FreshRequests'
    BY <1>34 DEF GcDrop
<1>35. ASSUME NEW g \in Collectors, NEW x \in Requests \cup Agents, GcOtherSkip(g, x) PROVE FreshRequests'
    BY <1>35 DEF GcOtherSkip, GcOther
<1>36. ASSUME NEW g \in Collectors, NEW a \in Agents, GcUntrack(g, a) PROVE FreshRequests'
    BY <1>36 DEF GcUntrack, GcOther, RegisterFree
<1>37. ASSUME NEW g \in Collectors, GcSetOwner(g) PROVE FreshRequests'
    BY <1>37 DEF GcSetOwner
<1>38. ASSUME NEW g \in Collectors, NEW r \in Requests, GcLock(g, r) PROVE FreshRequests'
    BY <1>38 DEF GcLock, GcOther, ReqFree
<1>39. ASSUME NEW g \in Collectors, NEW j \in Jobs, NEW q \in Queues, GcLink(g, j, q) PROVE FreshRequests'
    BY <1>39 DEF GcLink, QueueFree
<1>40. ASSUME NEW g \in Collectors, GcCommit(g) PROVE FreshRequests'
    BY <1>40 DEF GcCommit, CommitRequest, Relinked
<1>41. ASSUME NEW g \in Collectors, NEW j \in Jobs, GcOrphan(g, j) PROVE FreshRequests'
    BY <1>41 DEF GcOrphan
<1>42. ASSUME NEW g \in Collectors, GcUnlock(g) PROVE FreshRequests'
    BY <1>42 DEF GcUnlock
<1>43. ASSUME NEW g \in Collectors, GcOtherDrop(g) PROVE FreshRequests'
    BY <1>43 DEF GcOtherDrop
<1>44. ASSUME NEW g \in Collectors, GcRemove(g) PROVE FreshRequests'
    BY <1>44 DEF GcRemove, GcAllDone
<1>45. ASSUME NEW g \in Collectors, GcStillOwns(g) PROVE FreshRequests'
    BY <1>45 DEF GcStillOwns, GcAllDone, Stop
<1>46. ASSUME NEW g \in Collectors, GcUnregister(g) PROVE FreshRequests'
    BY <1>46 DEF GcUnregister, RegisterFree
<1>47. CASE UNCHANGED vars
    BY <1>47 DEF vars
<1> HIDE DEF AgentInv, JobInv, TypeOK, ProcessShape, Up, Linking, Switching, HasQueue,
             Collecting, FreshRequests, Fresh, HeldJobsOwned, ImageIsCurrent
<1> QED
    BY <1>1, <1>2, <1>3, <1>4, <1>5, <1>6, <1>7, <1>8, <1>9, <1>10, <1>11, <1>12, <1>13,
       <1>14, <1>15, <1>16, <1>17, <1>18, <1>19, <1>20, <1>21, <1>22, <1>23, <1>24, <1>25,
       <1>26, <1>27, <1>28, <1>29, <1>30, <1>31, <1>32, <1>33, <1>34, <1>35, <1>36, <1>37,
       <1>38, <1>39, <1>40, <1>41, <1>42, <1>43, <1>44, <1>45, <1>46, <1>47
    DEF Next, Lifecycle, FrontendStep, SwitchStep, WorkerStep, CollectorStep

\* Queues reference jobs whose status can lead them there.
LEMMA ReferencesStep == AgentInv /\ JobInv /\ [Next]_vars => ReferencesFit'
<1> SUFFICES ASSUME AgentInv, JobInv, [Next]_vars PROVE ReferencesFit'
    OBVIOUS
<1> USE Kinds, Addressing, JobFacts
<1>1. ASSUME NEW p \in Agents, NEW j \in Jobs, SwitchUnlockFailed(p, j) PROVE ReferencesFit'
    BY <1>1 DEF SwitchUnlockFailed, JobInv, ReferencesFit
<1> USE DEF AgentInv, JobInv, TypeOK, ProcessShape, Up, Linking, Switching, HasQueue,
            Collecting, ReferencesFit
<1>2. ASSUME NEW p \in Agents, RegisterAgent(p) PROVE ReferencesFit'
    BY <1>2 DEF RegisterAgent, RegisterFree
<1>3. ASSUME NEW p \in Agents, InsertAgent(p) PROVE ReferencesFit'
    BY <1>3 DEF InsertAgent
<1>4. ASSUME NEW p \in Agents, Shutdown(p) PROVE ReferencesFit'
    BY <1>4 DEF Shutdown
<1>5. ASSUME NEW p \in Agents, Unregister(p) PROVE ReferencesFit'
    BY <1>5 DEF Unregister, RegisterFree
<1>6. ASSUME NEW p \in Agents, Crash(p) PROVE ReferencesFit'
    BY <1>6 DEF Crash, Stop
<1>7. ASSUME NEW p \in Agents, Unown(p) PROVE ReferencesFit'
    BY <1>7 DEF Unown
<1>8. ASSUME NEW p \in Agents, NEW j \in Jobs, SwitchOwner(p, j) PROVE ReferencesFit'
    BY <1>8 DEF SwitchOwner, ReqFree, Switchable, NewOwner, PreviousOwner
<1>9. ASSUME NEW p \in Agents, NEW j \in Jobs, SwitchRefused(p, j) PROVE ReferencesFit'
    BY <1>9 DEF SwitchRefused, ReqFree, Switchable, NewOwner, PreviousOwner
<1>10. ASSUME NEW p \in Agents, NEW j \in Jobs, SwitchTimeout(p, j) PROVE ReferencesFit'
    BY <1>10 DEF SwitchTimeout
<1>11. ASSUME NEW p \in Agents, NEW j \in Jobs, SwitchError(p, j) PROVE ReferencesFit'
    BY <1>11 DEF SwitchError
<1>12. ASSUME NEW f \in Frontends, NEW r \in Requests, CreateOwn(f, r) PROVE ReferencesFit'
    BY <1>12 DEF CreateOwn
<1>13. ASSUME NEW f \in Frontends, CreateInsert(f) PROVE ReferencesFit'
    BY <1>13 DEF CreateInsert
<1>14. ASSUME NEW f \in Frontends, CreateRelock(f) PROVE ReferencesFit'
    BY <1>14 DEF CreateRelock, ReqFree
<1>15. ASSUME NEW f \in Frontends, CreateRelockGone(f) PROVE ReferencesFit'
    BY <1>15 DEF CreateRelockGone
<1>16. ASSUME NEW f \in Frontends, NEW j \in Jobs, CreateLink(f, j) PROVE ReferencesFit'
    BY <1>16 DEF CreateLink, QueueFree
<1>17. ASSUME NEW f \in Frontends, CreateCommit(f) PROVE ReferencesFit'
    BY <1>17 DEF CreateCommit, CommitRequest, Relinked
<1>18. ASSUME NEW f \in Frontends, CreateRelease(f) PROVE ReferencesFit'
    BY <1>18 DEF CreateRelease
<1>19. ASSUME NEW r \in Requests, Cancel(r) PROVE ReferencesFit'
    BY <1>19 DEF Cancel, ReqFree
<1>20. ASSUME NEW w \in Workers, NEW q \in Queues, NEW S \in SUBSET refs[q], PopSelect(w, q, S) PROVE ReferencesFit'
    BY <1>20 DEF PopSelect, QueueFree, NoJobYet
<1>21. ASSUME NEW w \in Workers, PopFinish(w) PROVE ReferencesFit'
    BY <1>21 DEF PopFinish, ReleaseQueue
<1>22. ASSUME NEW w \in Workers, NEW q \in Queues, NEW S \in SUBSET held[w], Requeue(w, q, S) PROVE ReferencesFit'
    BY <1>22 DEF Requeue, QueueFree
<1>23. ASSUME NEW w \in Workers, RequeueFinish(w) PROVE ReferencesFit'
    BY <1>23 DEF RequeueFinish, ReleaseQueue
<1>24. ASSUME NEW w \in Workers, NEW j \in Jobs, Complete(w, j) PROVE ReferencesFit'
    BY <1>24 DEF Complete, ReqFree
<1>25. ASSUME NEW w \in Workers, NEW j \in Jobs, DeleteReported(w, j) PROVE ReferencesFit'
    BY <1>25 DEF DeleteReported, ReqFree
<1>26. ASSUME NEW w \in Workers, NEW j \in Jobs, DeleteFailed(w, j) PROVE ReferencesFit'
    BY <1>26 DEF DeleteFailed
<1>27. ASSUME NEW w \in Workers, NEW j \in Jobs, LeaveOwned(w, j) PROVE ReferencesFit'
    BY <1>27 DEF LeaveOwned
<1>28. ASSUME NEW g \in Collectors, NEW a \in Agents, GcClaim(g, a) PROVE ReferencesFit'
    BY <1>28 DEF GcClaim, AgentFree
<1>29. ASSUME NEW g \in Collectors, GcTake(g) PROVE ReferencesFit'
    BY <1>29 DEF GcTake
<1>30. ASSUME NEW g \in Collectors, GcTrack(g) PROVE ReferencesFit'
    BY <1>30 DEF GcTrack, RegisterFree
<1>31. ASSUME NEW g \in Collectors, NEW skipped \in SUBSET (Requests \cup Agents), GcFetchAndSort(g, skipped) PROVE ReferencesFit'
    BY <1>31 DEF GcFetchAndSort
<1>32. ASSUME NEW g \in Collectors, NEW q \in Queues, NEW S \in SUBSET pending[g], GcReference(g, q, S) PROVE ReferencesFit'
    BY <1>32 DEF GcReference, QueueFree
<1>33. ASSUME NEW g \in Collectors, GcFinish(g) PROVE ReferencesFit'
    BY <1>33 DEF GcFinish, ReleaseQueue
<1>34. ASSUME NEW g \in Collectors, GcDrop(g) PROVE ReferencesFit'
    BY <1>34 DEF GcDrop
<1>35. ASSUME NEW g \in Collectors, NEW x \in Requests \cup Agents, GcOtherSkip(g, x) PROVE ReferencesFit'
    BY <1>35 DEF GcOtherSkip, GcOther
<1>36. ASSUME NEW g \in Collectors, NEW a \in Agents, GcUntrack(g, a) PROVE ReferencesFit'
    BY <1>36 DEF GcUntrack, GcOther, RegisterFree
<1>37. ASSUME NEW g \in Collectors, GcSetOwner(g) PROVE ReferencesFit'
    BY <1>37 DEF GcSetOwner
<1>38. ASSUME NEW g \in Collectors, NEW r \in Requests, GcLock(g, r) PROVE ReferencesFit'
    BY <1>38 DEF GcLock, GcOther, ReqFree
<1>39. ASSUME NEW g \in Collectors, NEW j \in Jobs, NEW q \in Queues, GcLink(g, j, q) PROVE ReferencesFit'
    BY <1>39 DEF GcLink, QueueFree
<1>40. ASSUME NEW g \in Collectors, GcCommit(g) PROVE ReferencesFit'
    BY <1>40 DEF GcCommit, CommitRequest, Relinked
<1>41. ASSUME NEW g \in Collectors, NEW j \in Jobs, GcOrphan(g, j) PROVE ReferencesFit'
    BY <1>41 DEF GcOrphan
<1>42. ASSUME NEW g \in Collectors, GcUnlock(g) PROVE ReferencesFit'
    BY <1>42 DEF GcUnlock
<1>43. ASSUME NEW g \in Collectors, GcOtherDrop(g) PROVE ReferencesFit'
    BY <1>43 DEF GcOtherDrop
<1>44. ASSUME NEW g \in Collectors, GcRemove(g) PROVE ReferencesFit'
    BY <1>44 DEF GcRemove, GcAllDone
<1>45. ASSUME NEW g \in Collectors, GcStillOwns(g) PROVE ReferencesFit'
    BY <1>45 DEF GcStillOwns, GcAllDone, Stop
<1>46. ASSUME NEW g \in Collectors, GcUnregister(g) PROVE ReferencesFit'
    BY <1>46 DEF GcUnregister, RegisterFree
<1>47. CASE UNCHANGED vars
    BY <1>47 DEF vars
<1> HIDE DEF AgentInv, JobInv, TypeOK, ProcessShape, Up, Linking, Switching, HasQueue,
             Collecting, ReferencesFit
<1> QED
    BY <1>1, <1>2, <1>3, <1>4, <1>5, <1>6, <1>7, <1>8, <1>9, <1>10, <1>11, <1>12, <1>13,
       <1>14, <1>15, <1>16, <1>17, <1>18, <1>19, <1>20, <1>21, <1>22, <1>23, <1>24, <1>25,
       <1>26, <1>27, <1>28, <1>29, <1>30, <1>31, <1>32, <1>33, <1>34, <1>35, <1>36, <1>37,
       <1>38, <1>39, <1>40, <1>41, <1>42, <1>43, <1>44, <1>45, <1>46, <1>47
    DEF Next, Lifecycle, FrontendStep, SwitchStep, WorkerStep, CollectorStep

\* A job handed to a process by a pop is that process's.
LEMMA HeldStep == AgentInv /\ JobInv /\ [Next]_vars => HeldJobsOwned'
<1> SUFFICES ASSUME AgentInv, JobInv, [Next]_vars PROVE HeldJobsOwned'
    OBVIOUS
<1> USE Kinds, Addressing, JobFacts
<1>1. ASSUME NEW p \in Agents, NEW j \in Jobs, SwitchOwner(p, j) PROVE HeldJobsOwned'
  <2>1. /\ jobOwner[j] \in {NewOwner(p), PreviousOwner(p)} /\ j \in todo[p] /\ held' = held
        /\ jobOwner' = [jobOwner EXCEPT ![j] = NewOwner(p)]
    BY <1>1 DEF SwitchOwner, Switchable
  <2>2. /\ HeldJobsOwned /\ held \in [Agents -> SUBSET Jobs] /\ jobOwner \in [Jobs -> Owners]
    BY DEF AgentInv, TypeOK, JobInv
  <2>3. \A o \in Agents : j \in held[o] => NewOwner(p) = o
    <3>1. CASE PopSwitch(p)
      BY <2>1, <2>2, <3>1, Kinds, Addressing DEF PopSwitch, HeldJobsOwned
    <3>2. CASE RequeueSwitch(p)
      BY <2>1, <2>2, <3>2 DEF RequeueSwitch, HeldJobsOwned, JobInv, Requeueing
    <3>3. CASE CollectorSwitch(p)
      BY <2>1, <2>2, <3>3, HolderFacts DEF CollectorSwitch, HeldJobsOwned
    <3> QED
      BY <1>1, <3>1, <3>2, <3>3, SwitchKinds DEF SwitchOwner
  <2> QED
    BY <2>1, <2>2, <2>3 DEF HeldJobsOwned
<1>2. ASSUME NEW p \in Agents, NEW j \in Jobs, SwitchUnlockFailed(p, j) PROVE HeldJobsOwned'
  <2>1. /\ jobOwner[j] \in {NewOwner(p), PreviousOwner(p)} /\ j \in todo[p] /\ held' = held
        /\ jobOwner' = [jobOwner EXCEPT ![j] = NewOwner(p)]
    BY <1>2 DEF SwitchUnlockFailed, Switchable
  <2>2. /\ HeldJobsOwned /\ held \in [Agents -> SUBSET Jobs] /\ jobOwner \in [Jobs -> Owners]
    BY DEF AgentInv, TypeOK, JobInv
  <2>3. \A o \in Agents : j \in held[o] => NewOwner(p) = o
    <3>1. CASE PopSwitch(p)
      BY <2>1, <2>2, <3>1, Kinds, Addressing DEF PopSwitch, HeldJobsOwned
    <3>2. CASE RequeueSwitch(p)
      BY <2>1, <2>2, <3>2 DEF RequeueSwitch, HeldJobsOwned, JobInv, Requeueing
    <3>3. CASE CollectorSwitch(p)
      BY <2>1, <2>2, <3>3, HolderFacts DEF CollectorSwitch, HeldJobsOwned
    <3> QED
      BY <1>2, <3>1, <3>2, <3>3, SwitchKinds DEF SwitchUnlockFailed
  <2> QED
    BY <2>1, <2>2, <2>3 DEF HeldJobsOwned
<1>3. ASSUME NEW f \in Frontends, CreateCommit(f) PROVE HeldJobsOwned'
  <2>1. HeldJobsOwned /\ held' = held
    BY <1>3 DEF JobInv, CreateCommit
  <2>2. held \in [Agents -> SUBSET Jobs]
    BY DEF AgentInv, TypeOK
  <2> QED
    BY <1>3, <2>1, <2>2, FrontendCommit, HolderFacts DEF HeldJobsOwned
<1>4. ASSUME NEW g \in Collectors, GcCommit(g) PROVE HeldJobsOwned'
  <2>1. HeldJobsOwned /\ held' = held
    BY <1>4 DEF JobInv, GcCommit
  <2>2. held \in [Agents -> SUBSET Jobs]
    BY DEF AgentInv, TypeOK
  <2> QED
    BY <1>4, <2>1, <2>2, CollectorCommit, HolderFacts DEF HeldJobsOwned
<1> USE DEF AgentInv, JobInv, TypeOK, ProcessShape, Up, Linking, Switching, HasQueue,
            Collecting, HeldJobsOwned, FreshRequests, Fresh, ImageIsCurrent, Popping, Requeueing
<1>5. ASSUME NEW p \in Agents, RegisterAgent(p) PROVE HeldJobsOwned'
    BY <1>5 DEF RegisterAgent, RegisterFree
<1>6. ASSUME NEW p \in Agents, InsertAgent(p) PROVE HeldJobsOwned'
    BY <1>6 DEF InsertAgent
<1>7. ASSUME NEW p \in Agents, Shutdown(p) PROVE HeldJobsOwned'
    BY <1>7 DEF Shutdown
<1>8. ASSUME NEW p \in Agents, Unregister(p) PROVE HeldJobsOwned'
    BY <1>8 DEF Unregister, RegisterFree
<1>9. ASSUME NEW p \in Agents, Crash(p) PROVE HeldJobsOwned'
    BY <1>9 DEF Crash, Stop
<1>10. ASSUME NEW p \in Agents, Unown(p) PROVE HeldJobsOwned'
    BY <1>10 DEF Unown
<1>11. ASSUME NEW p \in Agents, NEW j \in Jobs, SwitchRefused(p, j) PROVE HeldJobsOwned'
    BY <1>11 DEF SwitchRefused, ReqFree, Switchable, NewOwner, PreviousOwner
<1>12. ASSUME NEW p \in Agents, NEW j \in Jobs, SwitchTimeout(p, j) PROVE HeldJobsOwned'
    BY <1>12 DEF SwitchTimeout
<1>13. ASSUME NEW p \in Agents, NEW j \in Jobs, SwitchError(p, j) PROVE HeldJobsOwned'
    BY <1>13 DEF SwitchError
<1>14. ASSUME NEW f \in Frontends, NEW r \in Requests, CreateOwn(f, r) PROVE HeldJobsOwned'
    BY <1>14 DEF CreateOwn
<1>15. ASSUME NEW f \in Frontends, CreateInsert(f) PROVE HeldJobsOwned'
    BY <1>15 DEF CreateInsert
<1>16. ASSUME NEW f \in Frontends, CreateRelock(f) PROVE HeldJobsOwned'
    BY <1>16 DEF CreateRelock, ReqFree
<1>17. ASSUME NEW f \in Frontends, CreateRelockGone(f) PROVE HeldJobsOwned'
    BY <1>17 DEF CreateRelockGone
<1>18. ASSUME NEW f \in Frontends, NEW j \in Jobs, CreateLink(f, j) PROVE HeldJobsOwned'
    BY <1>18 DEF CreateLink, QueueFree
<1>19. ASSUME NEW f \in Frontends, CreateRelease(f) PROVE HeldJobsOwned'
    BY <1>19 DEF CreateRelease
<1>20. ASSUME NEW r \in Requests, Cancel(r) PROVE HeldJobsOwned'
    BY <1>20 DEF Cancel, ReqFree
<1>21. ASSUME NEW w \in Workers, NEW q \in Queues, NEW S \in SUBSET refs[q], PopSelect(w, q, S) PROVE HeldJobsOwned'
    BY <1>21 DEF PopSelect, QueueFree, NoJobYet
<1>22. ASSUME NEW w \in Workers, PopFinish(w) PROVE HeldJobsOwned'
    BY <1>22 DEF PopFinish, ReleaseQueue
<1>23. ASSUME NEW w \in Workers, NEW q \in Queues, NEW S \in SUBSET held[w], Requeue(w, q, S) PROVE HeldJobsOwned'
    BY <1>23 DEF Requeue, QueueFree
<1>24. ASSUME NEW w \in Workers, RequeueFinish(w) PROVE HeldJobsOwned'
    BY <1>24 DEF RequeueFinish, ReleaseQueue
<1>25. ASSUME NEW w \in Workers, NEW j \in Jobs, Complete(w, j) PROVE HeldJobsOwned'
    BY <1>25 DEF Complete, ReqFree
<1>26. ASSUME NEW w \in Workers, NEW j \in Jobs, DeleteReported(w, j) PROVE HeldJobsOwned'
    BY <1>26 DEF DeleteReported, ReqFree
<1>27. ASSUME NEW w \in Workers, NEW j \in Jobs, DeleteFailed(w, j) PROVE HeldJobsOwned'
    BY <1>27 DEF DeleteFailed
<1>28. ASSUME NEW w \in Workers, NEW j \in Jobs, LeaveOwned(w, j) PROVE HeldJobsOwned'
    BY <1>28 DEF LeaveOwned
<1>29. ASSUME NEW g \in Collectors, NEW a \in Agents, GcClaim(g, a) PROVE HeldJobsOwned'
    BY <1>29 DEF GcClaim, AgentFree
<1>30. ASSUME NEW g \in Collectors, GcTake(g) PROVE HeldJobsOwned'
    BY <1>30 DEF GcTake
<1>31. ASSUME NEW g \in Collectors, GcTrack(g) PROVE HeldJobsOwned'
    BY <1>31 DEF GcTrack, RegisterFree
<1>32. ASSUME NEW g \in Collectors, NEW skipped \in SUBSET (Requests \cup Agents), GcFetchAndSort(g, skipped) PROVE HeldJobsOwned'
    BY <1>32 DEF GcFetchAndSort
<1>33. ASSUME NEW g \in Collectors, NEW q \in Queues, NEW S \in SUBSET pending[g], GcReference(g, q, S) PROVE HeldJobsOwned'
    BY <1>33 DEF GcReference, QueueFree
<1>34. ASSUME NEW g \in Collectors, GcFinish(g) PROVE HeldJobsOwned'
    BY <1>34 DEF GcFinish, ReleaseQueue
<1>35. ASSUME NEW g \in Collectors, GcDrop(g) PROVE HeldJobsOwned'
    BY <1>35 DEF GcDrop
<1>36. ASSUME NEW g \in Collectors, NEW x \in Requests \cup Agents, GcOtherSkip(g, x) PROVE HeldJobsOwned'
    BY <1>36 DEF GcOtherSkip, GcOther
<1>37. ASSUME NEW g \in Collectors, NEW a \in Agents, GcUntrack(g, a) PROVE HeldJobsOwned'
    BY <1>37 DEF GcUntrack, GcOther, RegisterFree
<1>38. ASSUME NEW g \in Collectors, GcSetOwner(g) PROVE HeldJobsOwned'
    BY <1>38 DEF GcSetOwner
<1>39. ASSUME NEW g \in Collectors, NEW r \in Requests, GcLock(g, r) PROVE HeldJobsOwned'
    BY <1>39 DEF GcLock, GcOther, ReqFree
<1>40. ASSUME NEW g \in Collectors, NEW j \in Jobs, NEW q \in Queues, GcLink(g, j, q) PROVE HeldJobsOwned'
    BY <1>40 DEF GcLink, QueueFree
<1>41. ASSUME NEW g \in Collectors, NEW j \in Jobs, GcOrphan(g, j) PROVE HeldJobsOwned'
    BY <1>41 DEF GcOrphan
<1>42. ASSUME NEW g \in Collectors, GcUnlock(g) PROVE HeldJobsOwned'
    BY <1>42 DEF GcUnlock
<1>43. ASSUME NEW g \in Collectors, GcOtherDrop(g) PROVE HeldJobsOwned'
    BY <1>43 DEF GcOtherDrop
<1>44. ASSUME NEW g \in Collectors, GcRemove(g) PROVE HeldJobsOwned'
    BY <1>44 DEF GcRemove, GcAllDone
<1>45. ASSUME NEW g \in Collectors, GcStillOwns(g) PROVE HeldJobsOwned'
    BY <1>45 DEF GcStillOwns, GcAllDone, Stop
<1>46. ASSUME NEW g \in Collectors, GcUnregister(g) PROVE HeldJobsOwned'
    BY <1>46 DEF GcUnregister, RegisterFree
<1>47. CASE UNCHANGED vars
    BY <1>47 DEF vars
<1> HIDE DEF AgentInv, JobInv, TypeOK, ProcessShape, Up, Linking, Switching, HasQueue,
             Collecting, HeldJobsOwned, FreshRequests, Fresh, ImageIsCurrent, Popping,
             Requeueing
<1> QED
    BY <1>1, <1>2, <1>3, <1>4, <1>5, <1>6, <1>7, <1>8, <1>9, <1>10, <1>11, <1>12, <1>13,
       <1>14, <1>15, <1>16, <1>17, <1>18, <1>19, <1>20, <1>21, <1>22, <1>23, <1>24, <1>25,
       <1>26, <1>27, <1>28, <1>29, <1>30, <1>31, <1>32, <1>33, <1>34, <1>35, <1>36, <1>37,
       <1>38, <1>39, <1>40, <1>41, <1>42, <1>43, <1>44, <1>45, <1>46, <1>47
    DEF Next, Lifecycle, FrontendStep, SwitchStep, WorkerStep, CollectorStep

\* A worker has at most one job of a request: it pops from a queue one job of a
\* request can be on.
LEMMA OneJobStep == AgentInv /\ JobInv /\ [Next]_vars => OneJobPerRequest'
<1> SUFFICES ASSUME AgentInv, JobInv, [Next]_vars PROVE OneJobPerRequest'
    OBVIOUS
<1> USE Kinds, Addressing, JobFacts
<1>1. ASSUME NEW p \in Agents, NEW j \in Jobs, SwitchOwner(p, j) PROVE OneJobPerRequest'
  <2> USE <1>1 DEF SwitchOwner, Switchable, JobInv, AgentInv, TypeOK, OneJobPerRequest
  <2>1. CASE PopSwitch(p)
    <3>1. \A i \in Jobs : RequestOf[i] = RequestOf[j] /\ jobOwner[i] = p => i = j
      <4> SUFFICES ASSUME NEW i \in Jobs, RequestOf[i] = RequestOf[j], jobOwner[i] = p PROVE i = j
        OBVIOUS
      <4>1. j \in Batch(p) /\ Popping /\ BatchShape
        BY DEF Batch
      <4>2. i \in Batch(p)
        BY <2>1, <4>1 DEF PopSwitch, Popping, Batch
      <4>3. lockq[p] \in QueuesOf[i] /\ lockq[p] \in QueuesOf[j]
        BY <2>1, <4>1, <4>2 DEF PopSwitch, BatchShape
      <4> QED
        BY <2>1, <4>3 DEF PopSwitch
    <3> QED
      BY <2>1, <3>1 DEF PopSwitch
  <2>2. CASE RequeueSwitch(p)
    BY <2>2 DEF RequeueSwitch
  <2>3. CASE CollectorSwitch(p)
    BY <2>3 DEF CollectorSwitch
  <2> QED
    BY <2>1, <2>2, <2>3, SwitchKinds
<1>2. ASSUME NEW p \in Agents, NEW j \in Jobs, SwitchUnlockFailed(p, j) PROVE OneJobPerRequest'
  <2> USE <1>2 DEF SwitchUnlockFailed, Switchable, JobInv, AgentInv, TypeOK, OneJobPerRequest
  <2>1. CASE PopSwitch(p)
    <3>1. \A i \in Jobs : RequestOf[i] = RequestOf[j] /\ jobOwner[i] = p => i = j
      <4> SUFFICES ASSUME NEW i \in Jobs, RequestOf[i] = RequestOf[j], jobOwner[i] = p PROVE i = j
        OBVIOUS
      <4>1. j \in Batch(p) /\ Popping /\ BatchShape
        BY DEF Batch
      <4>2. i \in Batch(p)
        BY <2>1, <4>1 DEF PopSwitch, Popping, Batch
      <4>3. lockq[p] \in QueuesOf[i] /\ lockq[p] \in QueuesOf[j]
        BY <2>1, <4>1, <4>2 DEF PopSwitch, BatchShape
      <4> QED
        BY <2>1, <4>3 DEF PopSwitch
    <3> QED
      BY <2>1, <3>1 DEF PopSwitch
  <2>2. CASE RequeueSwitch(p)
    BY <2>2 DEF RequeueSwitch
  <2>3. CASE CollectorSwitch(p)
    BY <2>3 DEF CollectorSwitch
  <2> QED
    BY <2>1, <2>2, <2>3, SwitchKinds
<1>3. ASSUME NEW f \in Frontends, CreateCommit(f) PROVE OneJobPerRequest'
  <2>1. OneJobPerRequest
    BY DEF JobInv
  <2> QED
    BY <1>3, <2>1, FrontendCommit DEF OneJobPerRequest
<1>4. ASSUME NEW g \in Collectors, GcCommit(g) PROVE OneJobPerRequest'
  <2>1. OneJobPerRequest
    BY DEF JobInv
  <2> QED
    BY <1>4, <2>1, CollectorCommit DEF OneJobPerRequest
<1> USE DEF AgentInv, JobInv, TypeOK, ProcessShape, Up, Linking, Switching, HasQueue,
            Collecting, OneJobPerRequest, FreshRequests, ImageIsCurrent, Popping, BatchShape,
            Batch
<1>5. ASSUME NEW p \in Agents, RegisterAgent(p) PROVE OneJobPerRequest'
    BY <1>5 DEF RegisterAgent, RegisterFree
<1>6. ASSUME NEW p \in Agents, InsertAgent(p) PROVE OneJobPerRequest'
    BY <1>6 DEF InsertAgent
<1>7. ASSUME NEW p \in Agents, Shutdown(p) PROVE OneJobPerRequest'
    BY <1>7 DEF Shutdown
<1>8. ASSUME NEW p \in Agents, Unregister(p) PROVE OneJobPerRequest'
    BY <1>8 DEF Unregister, RegisterFree
<1>9. ASSUME NEW p \in Agents, Crash(p) PROVE OneJobPerRequest'
    BY <1>9 DEF Crash, Stop
<1>10. ASSUME NEW p \in Agents, Unown(p) PROVE OneJobPerRequest'
    BY <1>10 DEF Unown
<1>11. ASSUME NEW p \in Agents, NEW j \in Jobs, SwitchRefused(p, j) PROVE OneJobPerRequest'
    BY <1>11 DEF SwitchRefused, ReqFree, Switchable, NewOwner, PreviousOwner
<1>12. ASSUME NEW p \in Agents, NEW j \in Jobs, SwitchTimeout(p, j) PROVE OneJobPerRequest'
    BY <1>12 DEF SwitchTimeout
<1>13. ASSUME NEW p \in Agents, NEW j \in Jobs, SwitchError(p, j) PROVE OneJobPerRequest'
    BY <1>13 DEF SwitchError
<1>14. ASSUME NEW f \in Frontends, NEW r \in Requests, CreateOwn(f, r) PROVE OneJobPerRequest'
    BY <1>14 DEF CreateOwn
<1>15. ASSUME NEW f \in Frontends, CreateInsert(f) PROVE OneJobPerRequest'
    BY <1>15 DEF CreateInsert
<1>16. ASSUME NEW f \in Frontends, CreateRelock(f) PROVE OneJobPerRequest'
    BY <1>16 DEF CreateRelock, ReqFree
<1>17. ASSUME NEW f \in Frontends, CreateRelockGone(f) PROVE OneJobPerRequest'
    BY <1>17 DEF CreateRelockGone
<1>18. ASSUME NEW f \in Frontends, NEW j \in Jobs, CreateLink(f, j) PROVE OneJobPerRequest'
    BY <1>18 DEF CreateLink, QueueFree
<1>19. ASSUME NEW f \in Frontends, CreateRelease(f) PROVE OneJobPerRequest'
    BY <1>19 DEF CreateRelease
<1>20. ASSUME NEW r \in Requests, Cancel(r) PROVE OneJobPerRequest'
    BY <1>20 DEF Cancel, ReqFree
<1>21. ASSUME NEW w \in Workers, NEW q \in Queues, NEW S \in SUBSET refs[q], PopSelect(w, q, S) PROVE OneJobPerRequest'
    BY <1>21 DEF PopSelect, QueueFree, NoJobYet
<1>22. ASSUME NEW w \in Workers, PopFinish(w) PROVE OneJobPerRequest'
    BY <1>22 DEF PopFinish, ReleaseQueue
<1>23. ASSUME NEW w \in Workers, NEW q \in Queues, NEW S \in SUBSET held[w], Requeue(w, q, S) PROVE OneJobPerRequest'
    BY <1>23 DEF Requeue, QueueFree
<1>24. ASSUME NEW w \in Workers, RequeueFinish(w) PROVE OneJobPerRequest'
    BY <1>24 DEF RequeueFinish, ReleaseQueue
<1>25. ASSUME NEW w \in Workers, NEW j \in Jobs, Complete(w, j) PROVE OneJobPerRequest'
    BY <1>25 DEF Complete, ReqFree
<1>26. ASSUME NEW w \in Workers, NEW j \in Jobs, DeleteReported(w, j) PROVE OneJobPerRequest'
    BY <1>26 DEF DeleteReported, ReqFree
<1>27. ASSUME NEW w \in Workers, NEW j \in Jobs, DeleteFailed(w, j) PROVE OneJobPerRequest'
    BY <1>27 DEF DeleteFailed
<1>28. ASSUME NEW w \in Workers, NEW j \in Jobs, LeaveOwned(w, j) PROVE OneJobPerRequest'
    BY <1>28 DEF LeaveOwned
<1>29. ASSUME NEW g \in Collectors, NEW a \in Agents, GcClaim(g, a) PROVE OneJobPerRequest'
    BY <1>29 DEF GcClaim, AgentFree
<1>30. ASSUME NEW g \in Collectors, GcTake(g) PROVE OneJobPerRequest'
    BY <1>30 DEF GcTake
<1>31. ASSUME NEW g \in Collectors, GcTrack(g) PROVE OneJobPerRequest'
    BY <1>31 DEF GcTrack, RegisterFree
<1>32. ASSUME NEW g \in Collectors, NEW skipped \in SUBSET (Requests \cup Agents), GcFetchAndSort(g, skipped) PROVE OneJobPerRequest'
    BY <1>32 DEF GcFetchAndSort
<1>33. ASSUME NEW g \in Collectors, NEW q \in Queues, NEW S \in SUBSET pending[g], GcReference(g, q, S) PROVE OneJobPerRequest'
    BY <1>33 DEF GcReference, QueueFree
<1>34. ASSUME NEW g \in Collectors, GcFinish(g) PROVE OneJobPerRequest'
    BY <1>34 DEF GcFinish, ReleaseQueue
<1>35. ASSUME NEW g \in Collectors, GcDrop(g) PROVE OneJobPerRequest'
    BY <1>35 DEF GcDrop
<1>36. ASSUME NEW g \in Collectors, NEW x \in Requests \cup Agents, GcOtherSkip(g, x) PROVE OneJobPerRequest'
    BY <1>36 DEF GcOtherSkip, GcOther
<1>37. ASSUME NEW g \in Collectors, NEW a \in Agents, GcUntrack(g, a) PROVE OneJobPerRequest'
    BY <1>37 DEF GcUntrack, GcOther, RegisterFree
<1>38. ASSUME NEW g \in Collectors, GcSetOwner(g) PROVE OneJobPerRequest'
    BY <1>38 DEF GcSetOwner
<1>39. ASSUME NEW g \in Collectors, NEW r \in Requests, GcLock(g, r) PROVE OneJobPerRequest'
    BY <1>39 DEF GcLock, GcOther, ReqFree
<1>40. ASSUME NEW g \in Collectors, NEW j \in Jobs, NEW q \in Queues, GcLink(g, j, q) PROVE OneJobPerRequest'
    BY <1>40 DEF GcLink, QueueFree
<1>41. ASSUME NEW g \in Collectors, NEW j \in Jobs, GcOrphan(g, j) PROVE OneJobPerRequest'
    BY <1>41 DEF GcOrphan
<1>42. ASSUME NEW g \in Collectors, GcUnlock(g) PROVE OneJobPerRequest'
    BY <1>42 DEF GcUnlock
<1>43. ASSUME NEW g \in Collectors, GcOtherDrop(g) PROVE OneJobPerRequest'
    BY <1>43 DEF GcOtherDrop
<1>44. ASSUME NEW g \in Collectors, GcRemove(g) PROVE OneJobPerRequest'
    BY <1>44 DEF GcRemove, GcAllDone
<1>45. ASSUME NEW g \in Collectors, GcStillOwns(g) PROVE OneJobPerRequest'
    BY <1>45 DEF GcStillOwns, GcAllDone, Stop
<1>46. ASSUME NEW g \in Collectors, GcUnregister(g) PROVE OneJobPerRequest'
    BY <1>46 DEF GcUnregister, RegisterFree
<1>47. CASE UNCHANGED vars
    BY <1>47 DEF vars
<1> HIDE DEF AgentInv, JobInv, TypeOK, ProcessShape, Up, Linking, Switching, HasQueue,
             Collecting, OneJobPerRequest, FreshRequests, ImageIsCurrent, Popping, BatchShape,
             Batch
<1> QED
    BY <1>1, <1>2, <1>3, <1>4, <1>5, <1>6, <1>7, <1>8, <1>9, <1>10, <1>11, <1>12, <1>13,
       <1>14, <1>15, <1>16, <1>17, <1>18, <1>19, <1>20, <1>21, <1>22, <1>23, <1>24, <1>25,
       <1>26, <1>27, <1>28, <1>29, <1>30, <1>31, <1>32, <1>33, <1>34, <1>35, <1>36, <1>37,
       <1>38, <1>39, <1>40, <1>41, <1>42, <1>43, <1>44, <1>45, <1>46, <1>47
    DEF Next, Lifecycle, FrontendStep, SwitchStep, WorkerStep, CollectorStep

\* While a request is locked by queueArchive or by
\* ArchiveRequest::garbageCollect, the owners in the in-memory copy are those
\* in the store: the other writers of the request wait for the lock.
LEMMA ImageStep == AgentInv /\ JobInv /\ [Next]_vars => ImageIsCurrent'
<1> SUFFICES ASSUME AgentInv, JobInv, [Next]_vars PROVE ImageIsCurrent'
    OBVIOUS
<1> USE Kinds, Addressing, JobFacts
<1>1. ASSUME NEW p \in Agents, NEW j \in Jobs, SwitchOwner(p, j) PROVE ImageIsCurrent'
    BY <1>1 DEF SwitchOwner, AgentInv, JobInv, TypeOK, LockExclusion, ImageIsCurrent, ReqFree, JobsOf, ProcessShape, Linking, Switching
<1>2. ASSUME NEW p \in Agents, NEW j \in Jobs, SwitchUnlockFailed(p, j) PROVE ImageIsCurrent'
    BY <1>2 DEF SwitchUnlockFailed, AgentInv, JobInv, TypeOK, LockExclusion, ImageIsCurrent, ReqFree, JobsOf, ProcessShape, Linking, Switching
<1> USE DEF AgentInv, JobInv, TypeOK, ProcessShape, Up, Linking, Switching, HasQueue,
            Collecting, ImageIsCurrent, JobsOf, LockExclusion
<1>3. ASSUME NEW p \in Agents, RegisterAgent(p) PROVE ImageIsCurrent'
    BY <1>3 DEF RegisterAgent, RegisterFree
<1>4. ASSUME NEW p \in Agents, InsertAgent(p) PROVE ImageIsCurrent'
    BY <1>4 DEF InsertAgent
<1>5. ASSUME NEW p \in Agents, Shutdown(p) PROVE ImageIsCurrent'
    BY <1>5 DEF Shutdown
<1>6. ASSUME NEW p \in Agents, Unregister(p) PROVE ImageIsCurrent'
    BY <1>6 DEF Unregister, RegisterFree
<1>7. ASSUME NEW p \in Agents, Crash(p) PROVE ImageIsCurrent'
    BY <1>7 DEF Crash, Stop
<1>8. ASSUME NEW p \in Agents, Unown(p) PROVE ImageIsCurrent'
    BY <1>8 DEF Unown
<1>9. ASSUME NEW p \in Agents, NEW j \in Jobs, SwitchRefused(p, j) PROVE ImageIsCurrent'
    BY <1>9 DEF SwitchRefused, ReqFree, Switchable, NewOwner, PreviousOwner
<1>10. ASSUME NEW p \in Agents, NEW j \in Jobs, SwitchTimeout(p, j) PROVE ImageIsCurrent'
    BY <1>10 DEF SwitchTimeout
<1>11. ASSUME NEW p \in Agents, NEW j \in Jobs, SwitchError(p, j) PROVE ImageIsCurrent'
    BY <1>11 DEF SwitchError
<1>12. ASSUME NEW f \in Frontends, NEW r \in Requests, CreateOwn(f, r) PROVE ImageIsCurrent'
    BY <1>12 DEF CreateOwn
<1>13. ASSUME NEW f \in Frontends, CreateInsert(f) PROVE ImageIsCurrent'
    BY <1>13 DEF CreateInsert, FreshRequests
<1>14. ASSUME NEW f \in Frontends, CreateRelock(f) PROVE ImageIsCurrent'
    BY <1>14 DEF CreateRelock, ReqFree, Creating
<1>15. ASSUME NEW f \in Frontends, CreateRelockGone(f) PROVE ImageIsCurrent'
    BY <1>15 DEF CreateRelockGone
<1>16. ASSUME NEW f \in Frontends, NEW j \in Jobs, CreateLink(f, j) PROVE ImageIsCurrent'
    BY <1>16 DEF CreateLink, QueueFree
<1>17. ASSUME NEW f \in Frontends, CreateCommit(f) PROVE ImageIsCurrent'
    BY <1>17 DEF CreateCommit, CommitRequest, Relinked
<1>18. ASSUME NEW f \in Frontends, CreateRelease(f) PROVE ImageIsCurrent'
    BY <1>18 DEF CreateRelease
<1>19. ASSUME NEW r \in Requests, Cancel(r) PROVE ImageIsCurrent'
    BY <1>19 DEF Cancel, ReqFree
<1>20. ASSUME NEW w \in Workers, NEW q \in Queues, NEW S \in SUBSET refs[q], PopSelect(w, q, S) PROVE ImageIsCurrent'
    BY <1>20 DEF PopSelect, QueueFree, NoJobYet
<1>21. ASSUME NEW w \in Workers, PopFinish(w) PROVE ImageIsCurrent'
    BY <1>21 DEF PopFinish, ReleaseQueue
<1>22. ASSUME NEW w \in Workers, NEW q \in Queues, NEW S \in SUBSET held[w], Requeue(w, q, S) PROVE ImageIsCurrent'
    BY <1>22 DEF Requeue, QueueFree
<1>23. ASSUME NEW w \in Workers, RequeueFinish(w) PROVE ImageIsCurrent'
    BY <1>23 DEF RequeueFinish, ReleaseQueue
<1>24. ASSUME NEW w \in Workers, NEW j \in Jobs, Complete(w, j) PROVE ImageIsCurrent'
    BY <1>24 DEF Complete, ReqFree
<1>25. ASSUME NEW w \in Workers, NEW j \in Jobs, DeleteReported(w, j) PROVE ImageIsCurrent'
    BY <1>25 DEF DeleteReported, ReqFree
<1>26. ASSUME NEW w \in Workers, NEW j \in Jobs, DeleteFailed(w, j) PROVE ImageIsCurrent'
    BY <1>26 DEF DeleteFailed
<1>27. ASSUME NEW w \in Workers, NEW j \in Jobs, LeaveOwned(w, j) PROVE ImageIsCurrent'
    BY <1>27 DEF LeaveOwned
<1>28. ASSUME NEW g \in Collectors, NEW a \in Agents, GcClaim(g, a) PROVE ImageIsCurrent'
    BY <1>28 DEF GcClaim, AgentFree
<1>29. ASSUME NEW g \in Collectors, GcTake(g) PROVE ImageIsCurrent'
    BY <1>29 DEF GcTake
<1>30. ASSUME NEW g \in Collectors, GcTrack(g) PROVE ImageIsCurrent'
    BY <1>30 DEF GcTrack, RegisterFree
<1>31. ASSUME NEW g \in Collectors, NEW skipped \in SUBSET (Requests \cup Agents), GcFetchAndSort(g, skipped) PROVE ImageIsCurrent'
    BY <1>31 DEF GcFetchAndSort
<1>32. ASSUME NEW g \in Collectors, NEW q \in Queues, NEW S \in SUBSET pending[g], GcReference(g, q, S) PROVE ImageIsCurrent'
    BY <1>32 DEF GcReference, QueueFree
<1>33. ASSUME NEW g \in Collectors, GcFinish(g) PROVE ImageIsCurrent'
    BY <1>33 DEF GcFinish, ReleaseQueue
<1>34. ASSUME NEW g \in Collectors, GcDrop(g) PROVE ImageIsCurrent'
    BY <1>34 DEF GcDrop
<1>35. ASSUME NEW g \in Collectors, NEW x \in Requests \cup Agents, GcOtherSkip(g, x) PROVE ImageIsCurrent'
    BY <1>35 DEF GcOtherSkip, GcOther
<1>36. ASSUME NEW g \in Collectors, NEW a \in Agents, GcUntrack(g, a) PROVE ImageIsCurrent'
    BY <1>36 DEF GcUntrack, GcOther, RegisterFree
<1>37. ASSUME NEW g \in Collectors, GcSetOwner(g) PROVE ImageIsCurrent'
    BY <1>37 DEF GcSetOwner
<1>38. ASSUME NEW g \in Collectors, NEW r \in Requests, GcLock(g, r) PROVE ImageIsCurrent'
    BY <1>38 DEF GcLock, GcOther, ReqFree
<1>39. ASSUME NEW g \in Collectors, NEW j \in Jobs, NEW q \in Queues, GcLink(g, j, q) PROVE ImageIsCurrent'
    BY <1>39 DEF GcLink, QueueFree
<1>40. ASSUME NEW g \in Collectors, GcCommit(g) PROVE ImageIsCurrent'
    BY <1>40 DEF GcCommit, CommitRequest, Relinked
<1>41. ASSUME NEW g \in Collectors, NEW j \in Jobs, GcOrphan(g, j) PROVE ImageIsCurrent'
    BY <1>41 DEF GcOrphan
<1>42. ASSUME NEW g \in Collectors, GcUnlock(g) PROVE ImageIsCurrent'
    BY <1>42 DEF GcUnlock
<1>43. ASSUME NEW g \in Collectors, GcOtherDrop(g) PROVE ImageIsCurrent'
    BY <1>43 DEF GcOtherDrop
<1>44. ASSUME NEW g \in Collectors, GcRemove(g) PROVE ImageIsCurrent'
    BY <1>44 DEF GcRemove, GcAllDone
<1>45. ASSUME NEW g \in Collectors, GcStillOwns(g) PROVE ImageIsCurrent'
    BY <1>45 DEF GcStillOwns, GcAllDone, Stop
<1>46. ASSUME NEW g \in Collectors, GcUnregister(g) PROVE ImageIsCurrent'
    BY <1>46 DEF GcUnregister, RegisterFree
<1>47. CASE UNCHANGED vars
    BY <1>47 DEF vars
<1> HIDE DEF AgentInv, JobInv, TypeOK, ProcessShape, Up, Linking, Switching, HasQueue,
             Collecting, ImageIsCurrent, JobsOf, LockExclusion
<1> QED
    BY <1>1, <1>2, <1>3, <1>4, <1>5, <1>6, <1>7, <1>8, <1>9, <1>10, <1>11, <1>12, <1>13,
       <1>14, <1>15, <1>16, <1>17, <1>18, <1>19, <1>20, <1>21, <1>22, <1>23, <1>24, <1>25,
       <1>26, <1>27, <1>28, <1>29, <1>30, <1>31, <1>32, <1>33, <1>34, <1>35, <1>36, <1>37,
       <1>38, <1>39, <1>40, <1>41, <1>42, <1>43, <1>44, <1>45, <1>46, <1>47
    DEF Next, Lifecycle, FrontendStep, SwitchStep, WorkerStep, CollectorStep

\* The jobs of a request being created are the frontend's until it links them,
\* and queued after that.
LEMMA CreatingStep == AgentInv /\ JobInv /\ [Next]_vars => Creating'
<1> SUFFICES ASSUME AgentInv, JobInv, [Next]_vars PROVE Creating'
    OBVIOUS
<1> USE Kinds, Addressing, JobFacts
<1>1. ASSUME NEW p \in Agents, NEW j \in Jobs, SwitchOwner(p, j) PROVE Creating'
  <2> USE <1>1 DEF SwitchOwner, Switchable, AgentInv, JobInv, TypeOK, ProcessShape, Up, Creating, JobsOf, ReqFree, Linking
  <2>1. CASE PopSwitch(p)
    BY <2>1 DEF PopSwitch
  <2>2. CASE RequeueSwitch(p)
    BY <2>2 DEF RequeueSwitch
  <2>3. CASE CollectorSwitch(p)
    BY <2>3 DEF CollectorSwitch
  <2> QED
    BY <2>1, <2>2, <2>3, SwitchKinds
<1>2. ASSUME NEW p \in Agents, NEW j \in Jobs, SwitchUnlockFailed(p, j) PROVE Creating'
  <2> USE <1>2 DEF SwitchUnlockFailed, Switchable, AgentInv, JobInv, TypeOK, ProcessShape, Up, Creating, JobsOf, ReqFree, Linking
  <2>1. CASE PopSwitch(p)
    BY <2>1 DEF PopSwitch
  <2>2. CASE RequeueSwitch(p)
    BY <2>2 DEF RequeueSwitch
  <2>3. CASE CollectorSwitch(p)
    BY <2>3 DEF CollectorSwitch
  <2> QED
    BY <2>1, <2>2, <2>3, SwitchKinds
<1>3. ASSUME NEW f \in Frontends, CreateInsert(f) PROVE Creating'
  <2>1. Creating /\ ImageIsCurrent /\ FreshRequests
    BY DEF JobInv
  <2>2. cur[f] \notin reqs /\ \A j \in JobsOf(cur[f]) : jobOwner[j] = NoOwner
    BY <1>3, <2>1 DEF CreateInsert, FreshRequests, Fresh, JobsOf
  <2>3. \A p \in Frontends : pc[p] \in {"inserted"} \cup Linking =>
            \A j \in JobsOf(cur[p]) : RequestOf[j] # cur[f]
    BY <2>1, <2>2 DEF Creating, ImageIsCurrent, JobsOf
  <2>4. \A p \in Frontends : p # f => pc'[p] = pc[p] /\ image'[p] = image[p]
    BY <1>3 DEF CreateInsert, AgentInv, TypeOK
  <2>5. pc'[f] = "inserted" /\ image'[f] = [j \in Jobs |-> IF RequestOf[j] = cur[f] THEN f ELSE NoOwner]
    BY <1>3, ZenonT(40) DEF CreateInsert, AgentInv, TypeOK
  <2> QED
    BY <1>3, <2>1, <2>3, <2>4, <2>5 DEF CreateInsert, Creating, JobsOf, Linking
<1>4. ASSUME NEW f \in Frontends, NEW j \in Jobs, CreateLink(f, j) PROVE Creating'
  <2>1. ok[f] = {}
    BY <1>4 DEF CreateLink, AgentInv, ProcessShape, HasQueue, Switching
  <2> QED
    BY <1>4, <2>1 DEF CreateLink, AgentInv, JobInv, TypeOK, Creating, Linking
<1>5. ASSUME NEW f \in Frontends, CreateCommit(f) PROVE Creating'
  <2>1. Creating /\ LockExclusion
    BY DEF JobInv, AgentInv
  <2>2. \A p \in Frontends : p # f => cur'[p] = cur[p] /\ pc'[p] = pc[p] /\ image'[p] = image[p]
                                     /\ todo'[p] = todo[p] /\ ok'[p] = ok[p]
    BY <1>5 DEF CreateCommit, CommitRequest, AgentInv, TypeOK
  <2>3. \A p \in Frontends : p # f /\ pc[p] \in Linking =>
            \A j \in JobsOf(cur[p]) : j \notin ok[f]
    <3>1. pc[f] \in Linking
      BY <1>5 DEF CreateCommit, Linking
    <3>2. \A p \in Frontends : p # f /\ pc[p] \in Linking => cur[p] # cur[f]
      BY <2>1, <3>1 DEF LockExclusion
    <3>3. ok[f] \subseteq JobsOf(cur[f])
      BY <1>5, FrontendCommit
    <3> QED
      BY <3>2, <3>3 DEF JobsOf

  <2>4. todo'[f] = todo[f] /\ ok'[f] = {} /\ cur'[f] = cur[f] /\ pc'[f] = "link" /\ pc[f] = "commit"
    BY <1>5 DEF CreateCommit, CommitRequest, AgentInv, TypeOK
  <2>5. \A p \in Frontends : p # f => Creating!(p)'
    BY <1>5, <2>1, <2>2, <2>3, FrontendCommit DEF Creating, JobsOf
  <2>6. Creating!(f)'
    BY <1>5, <2>1, <2>4, FrontendCommit DEF Creating, JobsOf, Linking
  <2> QED
    BY <2>5, <2>6 DEF Creating
<1>6. ASSUME NEW g \in Collectors, GcCommit(g) PROVE Creating'
  <2>1. Creating /\ LockExclusion
    BY DEF JobInv, AgentInv
  <2>2. \A p \in Frontends : p # g => cur'[p] = cur[p] /\ pc'[p] = pc[p] /\ image'[p] = image[p]
                                     /\ todo'[p] = todo[p] /\ ok'[p] = ok[p]
    BY <1>6 DEF GcCommit, CommitRequest, AgentInv, TypeOK
  <2>3. \A p \in Frontends : p # g /\ pc[p] \in Linking =>
            \A j \in JobsOf(cur[p]) : j \notin ok[g]
    <3>1. pc[g] \in Linking
      BY <1>6 DEF GcCommit, Linking
    <3>2. \A p \in Frontends : p # g /\ pc[p] \in Linking => cur[p] # cur[g]
      BY <2>1, <3>1 DEF LockExclusion
    <3>3. ok[g] \subseteq JobsOf(cur[g])
      BY <1>6, CollectorCommit
    <3> QED
      BY <3>2, <3>3 DEF JobsOf

  <2>4. \A p \in Frontends : pc[p] = "inserted" => proc[p] = "up"
    BY DEF AgentInv, ProcessShape, Up
  <2> QED
    BY <1>6, <2>1, <2>2, <2>3, <2>4, CollectorCommit DEF Creating, JobsOf
<1> USE DEF AgentInv, JobInv, TypeOK, ProcessShape, Up, Linking, Switching, HasQueue,
            Collecting, Creating, JobsOf
<1>7. ASSUME NEW p \in Agents, RegisterAgent(p) PROVE Creating'
    BY <1>7 DEF RegisterAgent, RegisterFree
<1>8. ASSUME NEW p \in Agents, InsertAgent(p) PROVE Creating'
    BY <1>8 DEF InsertAgent
<1>9. ASSUME NEW p \in Agents, Shutdown(p) PROVE Creating'
    BY <1>9 DEF Shutdown
<1>10. ASSUME NEW p \in Agents, Unregister(p) PROVE Creating'
    BY <1>10 DEF Unregister, RegisterFree
<1>11. ASSUME NEW p \in Agents, Crash(p) PROVE Creating'
    BY <1>11 DEF Crash, Stop
<1>12. ASSUME NEW p \in Agents, Unown(p) PROVE Creating'
    BY <1>12 DEF Unown
<1>13. ASSUME NEW p \in Agents, NEW j \in Jobs, SwitchRefused(p, j) PROVE Creating'
    BY <1>13 DEF SwitchRefused, ReqFree, Switchable, NewOwner, PreviousOwner
<1>14. ASSUME NEW p \in Agents, NEW j \in Jobs, SwitchTimeout(p, j) PROVE Creating'
    BY <1>14 DEF SwitchTimeout
<1>15. ASSUME NEW p \in Agents, NEW j \in Jobs, SwitchError(p, j) PROVE Creating'
    BY <1>15 DEF SwitchError
<1>16. ASSUME NEW f \in Frontends, NEW r \in Requests, CreateOwn(f, r) PROVE Creating'
    BY <1>16 DEF CreateOwn
<1>17. ASSUME NEW f \in Frontends, CreateRelock(f) PROVE Creating'
    BY <1>17 DEF CreateRelock, ReqFree
<1>18. ASSUME NEW f \in Frontends, CreateRelockGone(f) PROVE Creating'
    BY <1>18 DEF CreateRelockGone
<1>19. ASSUME NEW f \in Frontends, CreateRelease(f) PROVE Creating'
    BY <1>19 DEF CreateRelease
<1>20. ASSUME NEW r \in Requests, Cancel(r) PROVE Creating'
    BY <1>20 DEF Cancel, ReqFree
<1>21. ASSUME NEW w \in Workers, NEW q \in Queues, NEW S \in SUBSET refs[q], PopSelect(w, q, S) PROVE Creating'
    BY <1>21 DEF PopSelect, QueueFree, NoJobYet
<1>22. ASSUME NEW w \in Workers, PopFinish(w) PROVE Creating'
    BY <1>22 DEF PopFinish, ReleaseQueue
<1>23. ASSUME NEW w \in Workers, NEW q \in Queues, NEW S \in SUBSET held[w], Requeue(w, q, S) PROVE Creating'
    BY <1>23 DEF Requeue, QueueFree
<1>24. ASSUME NEW w \in Workers, RequeueFinish(w) PROVE Creating'
    BY <1>24 DEF RequeueFinish, ReleaseQueue
<1>25. ASSUME NEW w \in Workers, NEW j \in Jobs, Complete(w, j) PROVE Creating'
    BY <1>25 DEF Complete, ReqFree, HeldJobsOwned
<1>26. ASSUME NEW w \in Workers, NEW j \in Jobs, DeleteReported(w, j) PROVE Creating'
    BY <1>26 DEF DeleteReported, ReqFree
<1>27. ASSUME NEW w \in Workers, NEW j \in Jobs, DeleteFailed(w, j) PROVE Creating'
    BY <1>27 DEF DeleteFailed
<1>28. ASSUME NEW w \in Workers, NEW j \in Jobs, LeaveOwned(w, j) PROVE Creating'
    BY <1>28 DEF LeaveOwned
<1>29. ASSUME NEW g \in Collectors, NEW a \in Agents, GcClaim(g, a) PROVE Creating'
    BY <1>29 DEF GcClaim, AgentFree
<1>30. ASSUME NEW g \in Collectors, GcTake(g) PROVE Creating'
    BY <1>30 DEF GcTake
<1>31. ASSUME NEW g \in Collectors, GcTrack(g) PROVE Creating'
    BY <1>31 DEF GcTrack, RegisterFree
<1>32. ASSUME NEW g \in Collectors, NEW skipped \in SUBSET (Requests \cup Agents), GcFetchAndSort(g, skipped) PROVE Creating'
    BY <1>32 DEF GcFetchAndSort
<1>33. ASSUME NEW g \in Collectors, NEW q \in Queues, NEW S \in SUBSET pending[g], GcReference(g, q, S) PROVE Creating'
    BY <1>33 DEF GcReference, QueueFree
<1>34. ASSUME NEW g \in Collectors, GcFinish(g) PROVE Creating'
    BY <1>34 DEF GcFinish, ReleaseQueue
<1>35. ASSUME NEW g \in Collectors, GcDrop(g) PROVE Creating'
    BY <1>35 DEF GcDrop
<1>36. ASSUME NEW g \in Collectors, NEW x \in Requests \cup Agents, GcOtherSkip(g, x) PROVE Creating'
    BY <1>36 DEF GcOtherSkip, GcOther
<1>37. ASSUME NEW g \in Collectors, NEW a \in Agents, GcUntrack(g, a) PROVE Creating'
    BY <1>37 DEF GcUntrack, GcOther, RegisterFree
<1>38. ASSUME NEW g \in Collectors, GcSetOwner(g) PROVE Creating'
    BY <1>38 DEF GcSetOwner
<1>39. ASSUME NEW g \in Collectors, NEW r \in Requests, GcLock(g, r) PROVE Creating'
    BY <1>39 DEF GcLock, GcOther, ReqFree
<1>40. ASSUME NEW g \in Collectors, NEW j \in Jobs, NEW q \in Queues, GcLink(g, j, q) PROVE Creating'
    BY <1>40 DEF GcLink, QueueFree
<1>41. ASSUME NEW g \in Collectors, NEW j \in Jobs, GcOrphan(g, j) PROVE Creating'
    BY <1>41 DEF GcOrphan
<1>42. ASSUME NEW g \in Collectors, GcUnlock(g) PROVE Creating'
    BY <1>42 DEF GcUnlock
<1>43. ASSUME NEW g \in Collectors, GcOtherDrop(g) PROVE Creating'
    BY <1>43 DEF GcOtherDrop
<1>44. ASSUME NEW g \in Collectors, GcRemove(g) PROVE Creating'
    BY <1>44 DEF GcRemove, GcAllDone
<1>45. ASSUME NEW g \in Collectors, GcStillOwns(g) PROVE Creating'
    BY <1>45 DEF GcStillOwns, GcAllDone, Stop
<1>46. ASSUME NEW g \in Collectors, GcUnregister(g) PROVE Creating'
    BY <1>46 DEF GcUnregister, RegisterFree
<1>47. CASE UNCHANGED vars
    BY <1>47 DEF vars
<1> HIDE DEF AgentInv, JobInv, TypeOK, ProcessShape, Up, Linking, Switching, HasQueue,
             Collecting, Creating, JobsOf
<1> QED
    BY <1>1, <1>2, <1>3, <1>4, <1>5, <1>6, <1>7, <1>8, <1>9, <1>10, <1>11, <1>12, <1>13,
       <1>14, <1>15, <1>16, <1>17, <1>18, <1>19, <1>20, <1>21, <1>22, <1>23, <1>24, <1>25,
       <1>26, <1>27, <1>28, <1>29, <1>30, <1>31, <1>32, <1>33, <1>34, <1>35, <1>36, <1>37,
       <1>38, <1>39, <1>40, <1>41, <1>42, <1>43, <1>44, <1>45, <1>46, <1>47
    DEF Next, Lifecycle, FrontendStep, SwitchStep, WorkerStep, CollectorStep

\* The jobs of a batch can be on the queue that is locked, and each is in one
\* of the four sets.
LEMMA BatchShapeStep == AgentInv /\ JobInv /\ [Next]_vars => BatchShape'
<1> SUFFICES ASSUME AgentInv, JobInv, [Next]_vars PROVE BatchShape'
    OBVIOUS
<1> USE Kinds, Addressing, JobFacts
<1>1. ASSUME NEW p \in Agents, NEW j \in Jobs, SwitchUnlockFailed(p, j) PROVE BatchShape'
    BY <1>1 DEF SwitchUnlockFailed, AgentInv, JobInv, TypeOK, Switching, BatchShape, Batch, Failed
<1>2. ASSUME NEW w \in Workers, NEW q \in Queues, NEW S \in SUBSET refs[q], PopSelect(w, q, S) PROVE BatchShape'
  <2>1. w \in Agents /\ ok[w] = {} /\ gone[w] = {} /\ err[w] = {}
    BY <1>2 DEF PopSelect, AgentInv, ProcessShape, HasQueue, Switching
  <2>2. /\ lockq'[w] = q /\ todo'[w] = S
        /\ ok' = ok /\ gone' = gone /\ err' = err /\ S \subseteq Jobs
        /\ \A p \in Agents : p # w => pc'[p] = pc[p] /\ lockq'[p] = lockq[p] /\ todo'[p] = todo[p]
    BY <1>2 DEF PopSelect, AgentInv, TypeOK
  <2>3. \A j \in S : q \in QueuesOf[j]
    BY <1>2 DEF PopSelect, JobInv, ReferencesFit
  <2>4. BatchShape
    BY DEF JobInv
  <2> QED
    BY <2>1, <2>2, <2>3, <2>4 DEF BatchShape, Batch, Failed
<1>3. ASSUME NEW w \in Workers, NEW q \in Queues, NEW S \in SUBSET held[w], Requeue(w, q, S) PROVE BatchShape'
  <2>1. w \in Agents /\ ok[w] = {} /\ gone[w] = {} /\ err[w] = {}
    BY <1>3 DEF Requeue, AgentInv, ProcessShape, HasQueue, Switching
  <2>2. /\ lockq'[w] = q /\ todo'[w] = S
        /\ ok' = ok /\ gone' = gone /\ err' = err /\ S \subseteq Jobs
        /\ \A p \in Agents : p # w => pc'[p] = pc[p] /\ lockq'[p] = lockq[p] /\ todo'[p] = todo[p]
    BY <1>3 DEF Requeue, AgentInv, TypeOK
  <2>3. \A j \in S : q \in QueuesOf[j]
    BY <1>3 DEF Requeue
  <2>4. BatchShape
    BY DEF JobInv
  <2> QED
    BY <2>1, <2>2, <2>3, <2>4 DEF BatchShape, Batch, Failed
<1>4. ASSUME NEW g \in Collectors, NEW q \in Queues, NEW S \in SUBSET pending[g], GcReference(g, q, S) PROVE BatchShape'
  <2>1. g \in Agents /\ ok[g] = {} /\ gone[g] = {} /\ err[g] = {}
    BY <1>4 DEF GcReference, AgentInv, ProcessShape, HasQueue, Switching
  <2>2. /\ lockq'[g] = q /\ todo'[g] = S
        /\ ok' = ok /\ gone' = gone /\ err' = err /\ S \subseteq Jobs
        /\ \A p \in Agents : p # g => pc'[p] = pc[p] /\ lockq'[p] = lockq[p] /\ todo'[p] = todo[p]
    BY <1>4 DEF GcReference, AgentInv, TypeOK
  <2>3. \A j \in S : q \in QueuesOf[j]
    BY <1>4 DEF GcReference
  <2>4. BatchShape
    BY DEF JobInv
  <2> QED
    BY <2>1, <2>2, <2>3, <2>4 DEF BatchShape, Batch, Failed
<1> USE DEF AgentInv, JobInv, TypeOK, ProcessShape, Up, Linking, Switching, HasQueue,
            Collecting, BatchShape, Batch, Failed
<1>5. ASSUME NEW p \in Agents, RegisterAgent(p) PROVE BatchShape'
    BY <1>5 DEF RegisterAgent, RegisterFree
<1>6. ASSUME NEW p \in Agents, InsertAgent(p) PROVE BatchShape'
    BY <1>6 DEF InsertAgent
<1>7. ASSUME NEW p \in Agents, Shutdown(p) PROVE BatchShape'
    BY <1>7 DEF Shutdown
<1>8. ASSUME NEW p \in Agents, Unregister(p) PROVE BatchShape'
    BY <1>8 DEF Unregister, RegisterFree
<1>9. ASSUME NEW p \in Agents, Crash(p) PROVE BatchShape'
    BY <1>9 DEF Crash, Stop
<1>10. ASSUME NEW p \in Agents, Unown(p) PROVE BatchShape'
    BY <1>10 DEF Unown
<1>11. ASSUME NEW p \in Agents, NEW j \in Jobs, SwitchOwner(p, j) PROVE BatchShape'
    BY <1>11 DEF SwitchOwner, ReqFree, Switchable, NewOwner, PreviousOwner
<1>12. ASSUME NEW p \in Agents, NEW j \in Jobs, SwitchRefused(p, j) PROVE BatchShape'
    BY <1>12 DEF SwitchRefused, ReqFree, Switchable, NewOwner, PreviousOwner
<1>13. ASSUME NEW p \in Agents, NEW j \in Jobs, SwitchTimeout(p, j) PROVE BatchShape'
    BY <1>13 DEF SwitchTimeout
<1>14. ASSUME NEW p \in Agents, NEW j \in Jobs, SwitchError(p, j) PROVE BatchShape'
    BY <1>14 DEF SwitchError
<1>15. ASSUME NEW f \in Frontends, NEW r \in Requests, CreateOwn(f, r) PROVE BatchShape'
    BY <1>15 DEF CreateOwn
<1>16. ASSUME NEW f \in Frontends, CreateInsert(f) PROVE BatchShape'
    BY <1>16 DEF CreateInsert
<1>17. ASSUME NEW f \in Frontends, CreateRelock(f) PROVE BatchShape'
    BY <1>17 DEF CreateRelock, ReqFree
<1>18. ASSUME NEW f \in Frontends, CreateRelockGone(f) PROVE BatchShape'
    BY <1>18 DEF CreateRelockGone
<1>19. ASSUME NEW f \in Frontends, NEW j \in Jobs, CreateLink(f, j) PROVE BatchShape'
    BY <1>19 DEF CreateLink, QueueFree
<1>20. ASSUME NEW f \in Frontends, CreateCommit(f) PROVE BatchShape'
    BY <1>20 DEF CreateCommit, CommitRequest, Relinked
<1>21. ASSUME NEW f \in Frontends, CreateRelease(f) PROVE BatchShape'
    BY <1>21 DEF CreateRelease
<1>22. ASSUME NEW r \in Requests, Cancel(r) PROVE BatchShape'
    BY <1>22 DEF Cancel, ReqFree
<1>23. ASSUME NEW w \in Workers, PopFinish(w) PROVE BatchShape'
    BY <1>23 DEF PopFinish, ReleaseQueue
<1>24. ASSUME NEW w \in Workers, RequeueFinish(w) PROVE BatchShape'
    BY <1>24 DEF RequeueFinish, ReleaseQueue
<1>25. ASSUME NEW w \in Workers, NEW j \in Jobs, Complete(w, j) PROVE BatchShape'
    BY <1>25 DEF Complete, ReqFree
<1>26. ASSUME NEW w \in Workers, NEW j \in Jobs, DeleteReported(w, j) PROVE BatchShape'
    BY <1>26 DEF DeleteReported, ReqFree
<1>27. ASSUME NEW w \in Workers, NEW j \in Jobs, DeleteFailed(w, j) PROVE BatchShape'
    BY <1>27 DEF DeleteFailed
<1>28. ASSUME NEW w \in Workers, NEW j \in Jobs, LeaveOwned(w, j) PROVE BatchShape'
    BY <1>28 DEF LeaveOwned
<1>29. ASSUME NEW g \in Collectors, NEW a \in Agents, GcClaim(g, a) PROVE BatchShape'
    BY <1>29 DEF GcClaim, AgentFree
<1>30. ASSUME NEW g \in Collectors, GcTake(g) PROVE BatchShape'
    BY <1>30 DEF GcTake
<1>31. ASSUME NEW g \in Collectors, GcTrack(g) PROVE BatchShape'
    BY <1>31 DEF GcTrack, RegisterFree
<1>32. ASSUME NEW g \in Collectors, NEW skipped \in SUBSET (Requests \cup Agents), GcFetchAndSort(g, skipped) PROVE BatchShape'
    BY <1>32 DEF GcFetchAndSort
<1>33. ASSUME NEW g \in Collectors, GcFinish(g) PROVE BatchShape'
    BY <1>33 DEF GcFinish, ReleaseQueue
<1>34. ASSUME NEW g \in Collectors, GcDrop(g) PROVE BatchShape'
    BY <1>34 DEF GcDrop
<1>35. ASSUME NEW g \in Collectors, NEW x \in Requests \cup Agents, GcOtherSkip(g, x) PROVE BatchShape'
    BY <1>35 DEF GcOtherSkip, GcOther
<1>36. ASSUME NEW g \in Collectors, NEW a \in Agents, GcUntrack(g, a) PROVE BatchShape'
    BY <1>36 DEF GcUntrack, GcOther, RegisterFree
<1>37. ASSUME NEW g \in Collectors, GcSetOwner(g) PROVE BatchShape'
    BY <1>37 DEF GcSetOwner
<1>38. ASSUME NEW g \in Collectors, NEW r \in Requests, GcLock(g, r) PROVE BatchShape'
    BY <1>38 DEF GcLock, GcOther, ReqFree
<1>39. ASSUME NEW g \in Collectors, NEW j \in Jobs, NEW q \in Queues, GcLink(g, j, q) PROVE BatchShape'
    BY <1>39 DEF GcLink, QueueFree
<1>40. ASSUME NEW g \in Collectors, GcCommit(g) PROVE BatchShape'
    BY <1>40 DEF GcCommit, CommitRequest, Relinked
<1>41. ASSUME NEW g \in Collectors, NEW j \in Jobs, GcOrphan(g, j) PROVE BatchShape'
    BY <1>41 DEF GcOrphan
<1>42. ASSUME NEW g \in Collectors, GcUnlock(g) PROVE BatchShape'
    BY <1>42 DEF GcUnlock
<1>43. ASSUME NEW g \in Collectors, GcOtherDrop(g) PROVE BatchShape'
    BY <1>43 DEF GcOtherDrop
<1>44. ASSUME NEW g \in Collectors, GcRemove(g) PROVE BatchShape'
    BY <1>44 DEF GcRemove, GcAllDone
<1>45. ASSUME NEW g \in Collectors, GcStillOwns(g) PROVE BatchShape'
    BY <1>45 DEF GcStillOwns, GcAllDone, Stop
<1>46. ASSUME NEW g \in Collectors, GcUnregister(g) PROVE BatchShape'
    BY <1>46 DEF GcUnregister, RegisterFree
<1>47. CASE UNCHANGED vars
    BY <1>47 DEF vars
<1> HIDE DEF AgentInv, JobInv, TypeOK, ProcessShape, Up, Linking, Switching, HasQueue,
             Collecting, BatchShape, Batch, Failed
<1> QED
    BY <1>1, <1>2, <1>3, <1>4, <1>5, <1>6, <1>7, <1>8, <1>9, <1>10, <1>11, <1>12, <1>13,
       <1>14, <1>15, <1>16, <1>17, <1>18, <1>19, <1>20, <1>21, <1>22, <1>23, <1>24, <1>25,
       <1>26, <1>27, <1>28, <1>29, <1>30, <1>31, <1>32, <1>33, <1>34, <1>35, <1>36, <1>37,
       <1>38, <1>39, <1>40, <1>41, <1>42, <1>43, <1>44, <1>45, <1>46, <1>47
    DEF Next, Lifecycle, FrontendStep, SwitchStep, WorkerStep, CollectorStep

\* The steps that write owners of jobs in the store: SwitchOwner,
\* SwitchUnlockFailed, CreateCommit and GcCommit.  They take jobs from the
\* process itself, its target and queues only, give them to itself or to the
\* queue it has locked, and leave the local state of all other processes alone.
SameLocals(a) ==
    /\ pc'[a] = pc[a] /\ lockq'[a] = lockq[a] /\ cur'[a] = cur[a] /\ target'[a] = target[a]
    /\ todo'[a] = todo[a] /\ ok'[a] = ok[a] /\ gone'[a] = gone[a] /\ err'[a] = err[a]
    /\ held'[a] = held[a] /\ pending'[a] = pending[a]

OwnerWrite(p) ==
    /\ pc[p] # "idle" /\ lockq[p] \in Queues
    /\ \A j \in Jobs : jobOwner'[j] # jobOwner[j] =>
           jobOwner[j] \in {p, target[p]} \cup Queues /\ jobOwner'[j] \in {p, lockq[p]}
    /\ refs' = refs /\ reqs' = reqs /\ owned' = owned /\ orphans' = orphans /\ proc' = proc
    /\ unlockFailures' = 0 => unlockFailures = 0
    /\ \A a \in Agents : a # p => SameLocals(a)

\* An owner switch is such a step.
LEMMA SwitchWrites ==
    ASSUME AgentInv, NEW p \in Agents, NEW j \in Jobs, SwitchOwner(p, j) PROVE OwnerWrite(p)
<1>1. pc[p] # "idle" /\ lockq[p] \in Queues /\ NewOwner(p) \in {p, lockq[p]}
      /\ PreviousOwner(p) \in {p, target[p]} \cup Queues
    BY SwitchKinds DEF SwitchOwner, PopSwitch, RequeueSwitch, CollectorSwitch, Switching
<1>2. jobOwner[j] \in {p, target[p]} \cup Queues /\ jobOwner' = [jobOwner EXCEPT ![j] = NewOwner(p)]
    BY <1>1 DEF SwitchOwner, Switchable
<1>3. \A a \in Agents : a # p => SameLocals(a)
    BY DEF SwitchOwner, SameLocals, AgentInv, TypeOK
<1>4. jobOwner \in [Jobs -> Owners]
    BY DEF AgentInv, TypeOK
<1> QED
    BY <1>1, <1>2, <1>3, <1>4 DEF OwnerWrite, SwitchOwner

\* So is one that fails to unlock after the update was written.
LEMMA UnlockFailedWrites ==
    ASSUME AgentInv, NEW p \in Agents, NEW j \in Jobs, SwitchUnlockFailed(p, j) PROVE OwnerWrite(p)
<1>1. pc[p] # "idle" /\ lockq[p] \in Queues /\ NewOwner(p) \in {p, lockq[p]}
      /\ PreviousOwner(p) \in {p, target[p]} \cup Queues
    BY SwitchKinds DEF SwitchUnlockFailed, PopSwitch, RequeueSwitch, CollectorSwitch, Switching
<1>2. jobOwner[j] \in {p, target[p]} \cup Queues /\ jobOwner' = [jobOwner EXCEPT ![j] = NewOwner(p)]
    BY <1>1 DEF SwitchUnlockFailed, Switchable
<1>3. \A a \in Agents : a # p => SameLocals(a)
    BY DEF SwitchUnlockFailed, SameLocals, AgentInv, TypeOK
<1>4. jobOwner \in [Jobs -> Owners]
    BY DEF AgentInv, TypeOK
<1>5. unlockFailures' = unlockFailures + 1 /\ unlockFailures \in Nat
    BY BoundsAssumption DEF SwitchUnlockFailed, AgentInv, TypeOK
<1> QED
    BY <1>1, <1>2, <1>3, <1>4, <1>5 DEF OwnerWrite, SwitchUnlockFailed

\* So is a commit of queueArchive.
LEMMA CreateWrites ==
    ASSUME AgentInv, JobInv, NEW f \in Frontends, CreateCommit(f) PROVE OwnerWrite(f)
<1>1. \A a \in Agents : a # f => SameLocals(a)
    BY DEF CreateCommit, CommitRequest, SameLocals, AgentInv, TypeOK
<1>2. pc[f] # "idle" /\ refs' = refs /\ reqs' = reqs /\ owned' = owned /\ orphans' = orphans
      /\ proc' = proc /\ unlockFailures' = unlockFailures
    BY DEF CreateCommit
<1> QED
    BY <1>1, <1>2, FrontendCommit DEF OwnerWrite

\* And a commit of ArchiveRequest::garbageCollect.
LEMMA CollectWrites ==
    ASSUME AgentInv, JobInv, NEW g \in Collectors, GcCommit(g) PROVE OwnerWrite(g)
<1>1. \A a \in Agents : a # g => SameLocals(a)
    BY DEF GcCommit, CommitRequest, SameLocals, AgentInv, TypeOK
<1>2. pc[g] # "idle" /\ refs' = refs /\ reqs' = reqs /\ owned' = owned /\ orphans' = orphans
      /\ proc' = proc /\ unlockFailures' = unlockFailures
    BY DEF GcCommit
<1> QED
    BY <1>1, <1>2, CollectorCommit DEF OwnerWrite

\* Who is busy is not the target of a collector, and no lock is held twice.
LEMMA BusyFacts ==
    ASSUME AgentInv, NEW p \in Agents, NEW a \in Agents, a # p, pc[a] # "idle", pc[p] # "idle",
           lockq[p] \in Queues
    PROVE  /\ a # target[p] /\ p # target[a] /\ lockq[a] # lockq[p]
           /\ target[a] \in Agents => target[a] # target[p]
<1>1. proc[a] = "up" /\ proc[p] = "up"
    BY DEF AgentInv, ProcessShape, Up
<1>2. \A c \in Agents : target[c] \in Agents => proc[target[c]] = "down"
    BY OnlyCollectorsCollect, Kinds DEF AgentInv, CollectorOwnsTarget
<1>3. a # target[p] /\ p # target[a]
    BY <1>1, <1>2
<1>4. lockq[a] # lockq[p] /\ (target[a] \in Agents => target[a] # target[p])
    BY Kinds DEF AgentInv, LockExclusion
<1> QED
    BY <1>3, <1>4

\* The batches of the other processes are not disturbed by such a step.
LEMMA PoppingKept ==
    ASSUME AgentInv, Popping, NEW p \in Agents, OwnerWrite(p), NEW w \in Workers, w # p
    PROVE  Popping!(w)'
<1>1. w \in Agents /\ SameLocals(w)
    BY Kinds DEF OwnerWrite
<1>2. CASE pc[w] # "pop"
    BY <1>1, <1>2 DEF SameLocals
<1>3. CASE pc[w] = "pop"
  <2>1. w # target[p] /\ lockq[w] # lockq[p]
    BY <1>1, <1>3, BusyFacts DEF OwnerWrite
  <2>2. \A j \in Jobs : jobOwner'[j] = w <=> jobOwner[j] = w
    BY <2>1, <1>1, Addressing DEF OwnerWrite
  <2>3. \A j \in Jobs : jobOwner'[j] = lockq[w] => jobOwner[j] = lockq[w]
    BY <2>1, <1>1, <1>3, Addressing DEF OwnerWrite, AgentInv, ProcessShape, HasQueue, Switching, TypeOK
  <2>4. todo[w] \subseteq Jobs /\ ok[w] \subseteq Jobs /\ gone[w] \subseteq Jobs /\ err[w] \subseteq Jobs
    BY <1>1 DEF AgentInv, TypeOK
  <2> QED
    BY <1>1, <1>3, <2>2, <2>3, <2>4 DEF Popping, Batch, SameLocals, OwnerWrite
<1> QED
    BY <1>2, <1>3

\* The same for a requeue in progress.
LEMMA RequeueingKept ==
    ASSUME AgentInv, Requeueing, NEW p \in Agents, OwnerWrite(p), NEW w \in Workers, w # p
    PROVE  Requeueing!(w)'
<1>1. w \in Agents /\ SameLocals(w)
    BY Kinds DEF OwnerWrite
<1>2. CASE pc[w] # "requeue"
    BY <1>1, <1>2 DEF SameLocals
<1>3. CASE pc[w] = "requeue"
  <2>1. w # target[p]
    BY <1>1, <1>3, BusyFacts DEF OwnerWrite
  <2>2. \A j \in Jobs : jobOwner'[j] = w <=> jobOwner[j] = w
    BY <2>1, <1>1, Addressing DEF OwnerWrite
  <2>3. todo[w] \subseteq Jobs /\ ok[w] \subseteq Jobs /\ gone[w] \subseteq Jobs /\ err[w] \subseteq Jobs
    BY <1>1 DEF AgentInv, TypeOK
  <2> QED
    BY <1>1, <1>3, <2>2, <2>3 DEF Requeueing, Failed, SameLocals, OwnerWrite
<1> QED
    BY <1>2, <1>3

\* The same for a collection in progress.
LEMMA ReturningKept ==
    ASSUME AgentInv, Returning, NEW p \in Agents, OwnerWrite(p), NEW g \in Collectors, g # p
    PROVE  Returning!(g)'
<1>1. g \in Agents /\ SameLocals(g)
    BY Kinds DEF OwnerWrite
<1>2. CASE pc[g] \notin Collecting
    BY <1>1, <1>2 DEF SameLocals
<1>3. CASE pc[g] \in Collecting
  <2>1. target[g] \in Agents
    BY <1>1, <1>3, OnlyCollectorsCollect DEF AgentInv
  <2>2. target[g] # target[p] /\ target[g] # p
    BY <1>1, <1>3, <2>1, BusyFacts DEF OwnerWrite, Collecting
  <2>3. \A j \in Jobs : jobOwner'[j] = target[g] <=> jobOwner[j] = target[g]
    BY <2>1, <2>2, Addressing DEF OwnerWrite
  <2>4. /\ todo[g] \subseteq Jobs /\ ok[g] \subseteq Jobs /\ gone[g] \subseteq Jobs
        /\ err[g] \subseteq Jobs /\ pending[g] \subseteq Jobs
    BY <1>1 DEF AgentInv, TypeOK
  <2> QED
    BY <1>1, <1>3, <2>3, <2>4 DEF Returning, Failed, SameLocals, OwnerWrite, JobsOf
<1> QED
    BY <1>2, <1>3

\* During popNextBatch: the candidates are listed, the switched ones are the
\* process's, and no other job of their requests is.
LEMMA PoppingStep == AgentInv /\ JobInv /\ [Next]_vars => Popping'
<1> SUFFICES ASSUME AgentInv, JobInv, [Next]_vars PROVE Popping'
    OBVIOUS
<1> USE Kinds, Addressing, JobFacts
<1>1. ASSUME NEW p \in Agents, NEW j \in Jobs, SwitchOwner(p, j) PROVE Popping'
  <2>1. OwnerWrite(p) /\ Popping
    BY <1>1, SwitchWrites DEF JobInv
  <2>2. \A w \in Workers : w # p => Popping!(w)'
    BY <2>1, PoppingKept
  <2>3. p \in Workers => Popping!(p)'
    <3> SUFFICES ASSUME p \in Workers, pc[p] = "pop" PROVE Popping!(p)'
      BY <1>1 DEF SwitchOwner
    <3>1. PopSwitch(p)
      BY <1>1, SwitchKinds DEF SwitchOwner, PopSwitch, RequeueSwitch, CollectorSwitch
    <3>2. jobOwner' = [jobOwner EXCEPT ![j] = p]
      BY <1>1, <3>1 DEF SwitchOwner, PopSwitch
    <3>3. /\ todo'[p] = todo[p] \ {j} /\ ok'[p] = ok[p] \cup {j} /\ gone' = gone /\ err' = err
          /\ lockq' = lockq /\ owned' = owned /\ j \in todo[p] /\ reqs' = reqs
      BY <1>1 DEF SwitchOwner, AgentInv, TypeOK
    <3>4. jobOwner \in [Jobs -> Owners] /\ lockq[p] # p
      BY <3>1 DEF AgentInv, TypeOK, PopSwitch
    <3> QED
      BY <2>1, <3>2, <3>3, <3>4 DEF Popping, Batch
  <2> QED
    BY <2>2, <2>3 DEF Popping
<1>2. ASSUME NEW p \in Agents, NEW j \in Jobs, SwitchUnlockFailed(p, j) PROVE Popping'
  <2>1. OwnerWrite(p) /\ Popping
    BY <1>2, UnlockFailedWrites DEF JobInv
  <2>2. \A w \in Workers : w # p => Popping!(w)'
    BY <2>1, PoppingKept
  <2>3. p \in Workers => Popping!(p)'
    <3> SUFFICES ASSUME p \in Workers, pc[p] = "pop" PROVE Popping!(p)'
      BY <1>2 DEF SwitchUnlockFailed
    <3>1. PopSwitch(p)
      BY <1>2, SwitchKinds DEF SwitchUnlockFailed, PopSwitch, RequeueSwitch, CollectorSwitch
    <3>2. jobOwner' = [jobOwner EXCEPT ![j] = p]
      BY <1>2, <3>1 DEF SwitchUnlockFailed, PopSwitch
    <3>3. /\ todo'[p] = todo[p] \ {j} /\ ok'[p] = ok[p] \cup {j} /\ gone' = gone /\ err' = err
          /\ lockq' = lockq /\ owned' = owned /\ j \in todo[p] /\ reqs' = reqs
      BY <1>2 DEF SwitchUnlockFailed, AgentInv, TypeOK
    <3>4. jobOwner \in [Jobs -> Owners] /\ lockq[p] # p
      BY <3>1 DEF AgentInv, TypeOK, PopSwitch
    <3> QED
      BY <2>1, <3>2, <3>3, <3>4 DEF Popping, Batch
  <2> QED
    BY <2>2, <2>3 DEF Popping
<1>3. ASSUME NEW f \in Frontends, CreateCommit(f) PROVE Popping'
  <2>1. OwnerWrite(f) /\ Popping
    BY <1>3, CreateWrites DEF JobInv
  <2>2. \A w \in Workers : w # f => Popping!(w)'
    BY <2>1, PoppingKept
  <2>3. f \in Workers => Popping!(f)'
    OBVIOUS
  <2> QED
    BY <2>2, <2>3 DEF Popping
<1>4. ASSUME NEW w \in Workers, NEW q \in Queues, NEW S \in SUBSET refs[q], PopSelect(w, q, S) PROVE Popping'
  <2>1. w \in Agents /\ ok[w] = {} /\ gone[w] = {} /\ err[w] = {}
    BY <1>4 DEF PopSelect, AgentInv, ProcessShape, HasQueue, Switching
  <2>2. /\ todo'[w] = S /\ ok' = ok /\ gone' = gone /\ err' = err
        /\ owned'[w] = owned[w] \cup RequestsOf(S) /\ S \subseteq Jobs
        /\ \A p \in Agents : p # w => /\ pc'[p] = pc[p] /\ lockq'[p] = lockq[p]
                                      /\ todo'[p] = todo[p] /\ owned'[p] = owned[p]
    BY <1>4 DEF PopSelect, AgentInv, TypeOK
  <2>3. \A i \in S : \A j \in Jobs : RequestOf[i] = RequestOf[j] => jobOwner[j] # w
    BY <1>4 DEF PopSelect, NoJobYet, RequestsOf, JobsOf
  <2>4. Popping /\ jobOwner' = jobOwner /\ reqs' = reqs
    BY <1>4 DEF JobInv, PopSelect
  <2> QED
    BY <2>1, <2>2, <2>3, <2>4 DEF Popping, Batch, RequestsOf
<1>5. ASSUME NEW g \in Collectors, GcDrop(g) PROVE Popping'
  <2>1. proc[target[g]] = "down"
    BY <1>5 DEF GcDrop, AgentInv, CollectorOwnsTarget, Collecting
  <2>2. \A w \in Workers : pc[w] = "pop" => owned'[w] = owned[w]
    BY <1>5, <2>1, ZenonT(40) DEF GcDrop, AgentInv, TypeOK, ProcessShape, Up
  <2>3. \A w \in Workers : pc'[w] = pc[w]
    BY <1>5 DEF GcDrop, AgentInv, TypeOK
  <2>4. Popping
    BY DEF JobInv
  <2> QED
    BY <1>5, <2>2, <2>3, <2>4 DEF GcDrop, Popping, Batch
<1>6. ASSUME NEW g \in Collectors, GcCommit(g) PROVE Popping'
  <2>1. OwnerWrite(g) /\ Popping
    BY <1>6, CollectWrites DEF JobInv
  <2>2. \A w \in Workers : w # g => Popping!(w)'
    BY <2>1, PoppingKept
  <2>3. g \in Workers => Popping!(g)'
    OBVIOUS
  <2> QED
    BY <2>2, <2>3 DEF Popping
<1> USE DEF AgentInv, JobInv, TypeOK, ProcessShape, Up, Linking, Switching, HasQueue,
            Collecting, Popping, Batch
<1>7. ASSUME NEW p \in Agents, RegisterAgent(p) PROVE Popping'
    BY <1>7 DEF RegisterAgent, RegisterFree
<1>8. ASSUME NEW p \in Agents, InsertAgent(p) PROVE Popping'
    BY <1>8 DEF InsertAgent
<1>9. ASSUME NEW p \in Agents, Shutdown(p) PROVE Popping'
    BY <1>9 DEF Shutdown
<1>10. ASSUME NEW p \in Agents, Unregister(p) PROVE Popping'
    BY <1>10 DEF Unregister, RegisterFree
<1>11. ASSUME NEW p \in Agents, Crash(p) PROVE Popping'
    BY <1>11 DEF Crash, Stop
<1>12. ASSUME NEW p \in Agents, Unown(p) PROVE Popping'
    BY <1>12 DEF Unown
<1>13. ASSUME NEW p \in Agents, NEW j \in Jobs, SwitchRefused(p, j) PROVE Popping'
    BY <1>13 DEF SwitchRefused, ReqFree, Switchable, NewOwner, PreviousOwner
<1>14. ASSUME NEW p \in Agents, NEW j \in Jobs, SwitchTimeout(p, j) PROVE Popping'
    BY <1>14 DEF SwitchTimeout
<1>15. ASSUME NEW p \in Agents, NEW j \in Jobs, SwitchError(p, j) PROVE Popping'
    BY <1>15 DEF SwitchError
<1>16. ASSUME NEW f \in Frontends, NEW r \in Requests, CreateOwn(f, r) PROVE Popping'
    BY <1>16 DEF CreateOwn
<1>17. ASSUME NEW f \in Frontends, CreateInsert(f) PROVE Popping'
    BY <1>17 DEF CreateInsert, FreshRequests, Fresh
<1>18. ASSUME NEW f \in Frontends, CreateRelock(f) PROVE Popping'
    BY <1>18 DEF CreateRelock, ReqFree
<1>19. ASSUME NEW f \in Frontends, CreateRelockGone(f) PROVE Popping'
    BY <1>19 DEF CreateRelockGone
<1>20. ASSUME NEW f \in Frontends, NEW j \in Jobs, CreateLink(f, j) PROVE Popping'
    BY <1>20 DEF CreateLink, QueueFree
<1>21. ASSUME NEW f \in Frontends, CreateRelease(f) PROVE Popping'
    BY <1>21 DEF CreateRelease
<1>22. ASSUME NEW r \in Requests, Cancel(r) PROVE Popping'
    BY <1>22 DEF Cancel, ReqFree
<1>23. ASSUME NEW w \in Workers, PopFinish(w) PROVE Popping'
    BY <1>23 DEF PopFinish, ReleaseQueue, LockExclusion
<1>24. ASSUME NEW w \in Workers, NEW q \in Queues, NEW S \in SUBSET held[w], Requeue(w, q, S) PROVE Popping'
    BY <1>24 DEF Requeue, QueueFree
<1>25. ASSUME NEW w \in Workers, RequeueFinish(w) PROVE Popping'
    BY <1>25 DEF RequeueFinish, ReleaseQueue, LockExclusion
<1>26. ASSUME NEW w \in Workers, NEW j \in Jobs, Complete(w, j) PROVE Popping'
    BY <1>26 DEF Complete, ReqFree, HeldJobsOwned
<1>27. ASSUME NEW w \in Workers, NEW j \in Jobs, DeleteReported(w, j) PROVE Popping'
    BY <1>27 DEF DeleteReported, ReqFree
<1>28. ASSUME NEW w \in Workers, NEW j \in Jobs, DeleteFailed(w, j) PROVE Popping'
    BY <1>28 DEF DeleteFailed
<1>29. ASSUME NEW w \in Workers, NEW j \in Jobs, LeaveOwned(w, j) PROVE Popping'
    BY <1>29 DEF LeaveOwned
<1>30. ASSUME NEW g \in Collectors, NEW a \in Agents, GcClaim(g, a) PROVE Popping'
    BY <1>30 DEF GcClaim, AgentFree
<1>31. ASSUME NEW g \in Collectors, GcTake(g) PROVE Popping'
    BY <1>31 DEF GcTake
<1>32. ASSUME NEW g \in Collectors, GcTrack(g) PROVE Popping'
    BY <1>32 DEF GcTrack, RegisterFree
<1>33. ASSUME NEW g \in Collectors, NEW skipped \in SUBSET (Requests \cup Agents), GcFetchAndSort(g, skipped) PROVE Popping'
    BY <1>33, SMTT(30) DEF GcFetchAndSort, CollectorOwnsTarget
<1>34. ASSUME NEW g \in Collectors, NEW q \in Queues, NEW S \in SUBSET pending[g], GcReference(g, q, S) PROVE Popping'
    BY <1>34 DEF GcReference, QueueFree
<1>35. ASSUME NEW g \in Collectors, GcFinish(g) PROVE Popping'
    BY <1>35 DEF GcFinish, ReleaseQueue, LockExclusion
<1>36. ASSUME NEW g \in Collectors, NEW x \in Requests \cup Agents, GcOtherSkip(g, x) PROVE Popping'
    BY <1>36 DEF GcOtherSkip, GcOther
<1>37. ASSUME NEW g \in Collectors, NEW a \in Agents, GcUntrack(g, a) PROVE Popping'
    BY <1>37 DEF GcUntrack, GcOther, RegisterFree
<1>38. ASSUME NEW g \in Collectors, GcSetOwner(g) PROVE Popping'
    BY <1>38 DEF GcSetOwner
<1>39. ASSUME NEW g \in Collectors, NEW r \in Requests, GcLock(g, r) PROVE Popping'
    BY <1>39 DEF GcLock, GcOther, ReqFree
<1>40. ASSUME NEW g \in Collectors, NEW j \in Jobs, NEW q \in Queues, GcLink(g, j, q) PROVE Popping'
    BY <1>40 DEF GcLink, QueueFree
<1>41. ASSUME NEW g \in Collectors, NEW j \in Jobs, GcOrphan(g, j) PROVE Popping'
    BY <1>41 DEF GcOrphan
<1>42. ASSUME NEW g \in Collectors, GcUnlock(g) PROVE Popping'
    BY <1>42 DEF GcUnlock
<1>43. ASSUME NEW g \in Collectors, GcOtherDrop(g) PROVE Popping'
    BY <1>43, SMTT(30) DEF GcOtherDrop, CollectorOwnsTarget
<1>44. ASSUME NEW g \in Collectors, GcRemove(g) PROVE Popping'
    BY <1>44 DEF GcRemove, GcAllDone
<1>45. ASSUME NEW g \in Collectors, GcStillOwns(g) PROVE Popping'
    BY <1>45 DEF GcStillOwns, GcAllDone, Stop
<1>46. ASSUME NEW g \in Collectors, GcUnregister(g) PROVE Popping'
    BY <1>46 DEF GcUnregister, RegisterFree
<1>47. CASE UNCHANGED vars
    BY <1>47 DEF vars
<1> HIDE DEF AgentInv, JobInv, TypeOK, ProcessShape, Up, Linking, Switching, HasQueue,
             Collecting, Popping, Batch
<1> QED
    BY <1>1, <1>2, <1>3, <1>4, <1>5, <1>6, <1>7, <1>8, <1>9, <1>10, <1>11, <1>12, <1>13,
       <1>14, <1>15, <1>16, <1>17, <1>18, <1>19, <1>20, <1>21, <1>22, <1>23, <1>24, <1>25,
       <1>26, <1>27, <1>28, <1>29, <1>30, <1>31, <1>32, <1>33, <1>34, <1>35, <1>36, <1>37,
       <1>38, <1>39, <1>40, <1>41, <1>42, <1>43, <1>44, <1>45, <1>46, <1>47
    DEF Next, Lifecycle, FrontendStep, SwitchStep, WorkerStep, CollectorStep

\* During referenceAndSwitchOwnership: the jobs not switched are the process's,
\* and of the switched ones' requests it has no other job.
LEMMA RequeueingStep == AgentInv /\ JobInv /\ [Next]_vars => Requeueing'
<1> SUFFICES ASSUME AgentInv, JobInv, [Next]_vars PROVE Requeueing'
    OBVIOUS
<1> USE Kinds, Addressing, JobFacts
<1>1. ASSUME NEW p \in Agents, NEW j \in Jobs, SwitchOwner(p, j) PROVE Requeueing'
  <2>1. OwnerWrite(p) /\ Requeueing
    BY <1>1, SwitchWrites DEF JobInv
  <2>2. \A w \in Workers : w # p => Requeueing!(w)'
    BY <2>1, RequeueingKept
  <2>3. p \in Workers => Requeueing!(p)'
    <3> SUFFICES ASSUME p \in Workers, pc[p] = "requeue" PROVE Requeueing!(p)'
      BY <1>1 DEF SwitchOwner
    <3>1. RequeueSwitch(p)
      BY <1>1, SwitchKinds DEF SwitchOwner, PopSwitch, RequeueSwitch, CollectorSwitch
    <3>2. jobOwner' = [jobOwner EXCEPT ![j] = lockq[p]] /\ lockq[p] # p
      BY <1>1, <3>1 DEF SwitchOwner, RequeueSwitch
    <3>3. /\ todo'[p] = todo[p] \ {j} /\ ok'[p] = ok[p] \cup {j} /\ gone' = gone /\ err' = err
          /\ unlockFailures' = unlockFailures /\ lockq' = lockq /\ held' = held /\ refs' = refs /\ j \in todo[p] /\ todo[p] \subseteq Jobs
      BY <1>1 DEF SwitchOwner, AgentInv, TypeOK
    <3>4. jobOwner \in [Jobs -> Owners]
      BY DEF AgentInv, TypeOK
    <3>5. j \notin Failed(p)
      BY <3>1, <3>3 DEF JobInv, BatchShape, RequeueSwitch, Switching
    <3>6. \A i \in Jobs : RequestOf[i] = RequestOf[j] /\ i # j => jobOwner[i] # p
      BY <2>1, <3>1, <3>3 DEF JobInv, OneJobPerRequest, Requeueing, RequeueSwitch
    <3> QED
      BY <2>1, <3>2, <3>3, <3>4, <3>5, <3>6 DEF Requeueing, Failed
  <2> QED
    BY <2>2, <2>3 DEF Requeueing
<1>2. ASSUME NEW p \in Agents, NEW j \in Jobs, SwitchUnlockFailed(p, j) PROVE Requeueing'
  <2>1. OwnerWrite(p) /\ Requeueing
    BY <1>2, UnlockFailedWrites DEF JobInv
  <2>2. \A w \in Workers : w # p => Requeueing!(w)'
    BY <2>1, RequeueingKept
  <2>3. p \in Workers => Requeueing!(p)'
    <3> SUFFICES ASSUME p \in Workers, pc[p] = "requeue" PROVE Requeueing!(p)'
      BY <1>2 DEF SwitchUnlockFailed
    <3>1. RequeueSwitch(p)
      BY <1>2, SwitchKinds DEF SwitchUnlockFailed, PopSwitch, RequeueSwitch, CollectorSwitch
    <3>2. jobOwner' = [jobOwner EXCEPT ![j] = lockq[p]] /\ lockq[p] # p
      BY <1>2, <3>1 DEF SwitchUnlockFailed, RequeueSwitch
    <3>3. /\ todo'[p] = todo[p] \ {j} /\ ok'[p] = ok[p] /\ gone' = gone /\ err'[p] = err[p] \cup {j}
          /\ lockq' = lockq /\ held' = held /\ refs' = refs /\ j \in todo[p] /\ todo[p] \subseteq Jobs
      BY <1>2, <3>1 DEF SwitchUnlockFailed, RequeueSwitch, AgentInv, TypeOK
    <3>4. jobOwner \in [Jobs -> Owners]
      BY DEF AgentInv, TypeOK
    <3>5. j \notin Failed(p)
      BY <3>1, <3>3 DEF JobInv, BatchShape, RequeueSwitch, Switching
    <3>6. \A i \in Jobs : RequestOf[i] = RequestOf[j] /\ i # j => jobOwner[i] # p
      BY <2>1, <3>1, <3>3 DEF JobInv, OneJobPerRequest, Requeueing, RequeueSwitch
    <3>7. unlockFailures' # 0
      BY <1>2, FailuresCounted
    <3> QED
      BY <2>1, <3>2, <3>3, <3>4, <3>5, <3>6, <3>7 DEF Requeueing, Failed
  <2> QED
    BY <2>2, <2>3 DEF Requeueing
<1>3. ASSUME NEW f \in Frontends, CreateCommit(f) PROVE Requeueing'
  <2>1. OwnerWrite(f) /\ Requeueing
    BY <1>3, CreateWrites DEF JobInv
  <2>2. \A w \in Workers : w # f => Requeueing!(w)'
    BY <2>1, RequeueingKept
  <2>3. f \in Workers => Requeueing!(f)'
    OBVIOUS
  <2> QED
    BY <2>2, <2>3 DEF Requeueing
<1>4. ASSUME NEW g \in Collectors, GcCommit(g) PROVE Requeueing'
  <2>1. OwnerWrite(g) /\ Requeueing
    BY <1>4, CollectWrites DEF JobInv
  <2>2. \A w \in Workers : w # g => Requeueing!(w)'
    BY <2>1, RequeueingKept
  <2>3. g \in Workers => Requeueing!(g)'
    OBVIOUS
  <2> QED
    BY <2>2, <2>3 DEF Requeueing
<1> USE DEF AgentInv, JobInv, TypeOK, ProcessShape, Up, Linking, Switching, HasQueue,
            Collecting, Requeueing, Failed
<1>5. ASSUME NEW p \in Agents, RegisterAgent(p) PROVE Requeueing'
    BY <1>5 DEF RegisterAgent, RegisterFree
<1>6. ASSUME NEW p \in Agents, InsertAgent(p) PROVE Requeueing'
    BY <1>6 DEF InsertAgent
<1>7. ASSUME NEW p \in Agents, Shutdown(p) PROVE Requeueing'
    BY <1>7 DEF Shutdown
<1>8. ASSUME NEW p \in Agents, Unregister(p) PROVE Requeueing'
    BY <1>8 DEF Unregister, RegisterFree
<1>9. ASSUME NEW p \in Agents, Crash(p) PROVE Requeueing'
    BY <1>9 DEF Crash, Stop
<1>10. ASSUME NEW p \in Agents, Unown(p) PROVE Requeueing'
    BY <1>10 DEF Unown
<1>11. ASSUME NEW p \in Agents, NEW j \in Jobs, SwitchRefused(p, j) PROVE Requeueing'
    BY <1>11 DEF SwitchRefused, ReqFree, Switchable, NewOwner, PreviousOwner
<1>12. ASSUME NEW p \in Agents, NEW j \in Jobs, SwitchTimeout(p, j) PROVE Requeueing'
    BY <1>12 DEF SwitchTimeout
<1>13. ASSUME NEW p \in Agents, NEW j \in Jobs, SwitchError(p, j) PROVE Requeueing'
    BY <1>13 DEF SwitchError
<1>14. ASSUME NEW f \in Frontends, NEW r \in Requests, CreateOwn(f, r) PROVE Requeueing'
    BY <1>14 DEF CreateOwn
<1>15. ASSUME NEW f \in Frontends, CreateInsert(f) PROVE Requeueing'
    BY <1>15 DEF CreateInsert, FreshRequests, Fresh
<1>16. ASSUME NEW f \in Frontends, CreateRelock(f) PROVE Requeueing'
    BY <1>16 DEF CreateRelock, ReqFree
<1>17. ASSUME NEW f \in Frontends, CreateRelockGone(f) PROVE Requeueing'
    BY <1>17 DEF CreateRelockGone
<1>18. ASSUME NEW f \in Frontends, NEW j \in Jobs, CreateLink(f, j) PROVE Requeueing'
    BY <1>18 DEF CreateLink, QueueFree
<1>19. ASSUME NEW f \in Frontends, CreateRelease(f) PROVE Requeueing'
    BY <1>19 DEF CreateRelease
<1>20. ASSUME NEW r \in Requests, Cancel(r) PROVE Requeueing'
    BY <1>20 DEF Cancel, ReqFree
<1>21. ASSUME NEW w \in Workers, NEW q \in Queues, NEW S \in SUBSET refs[q], PopSelect(w, q, S) PROVE Requeueing'
    BY <1>21 DEF PopSelect, QueueFree, NoJobYet
<1>22. ASSUME NEW w \in Workers, PopFinish(w) PROVE Requeueing'
    BY <1>22 DEF PopFinish, ReleaseQueue, LockExclusion
<1>23. ASSUME NEW w \in Workers, NEW q \in Queues, NEW S \in SUBSET held[w], Requeue(w, q, S) PROVE Requeueing'
  <2>1. pc[w] = "idle" /\ gone[w] = {} /\ err[w] = {} /\ ok[w] = {}
    BY <1>23 DEF Requeue
  <2>4. \A j \in S : jobOwner[j] = w
    BY <1>23 DEF HeldJobsOwned
  <2>2. \A p \in Workers : p # w => Requeueing!(p)'
    BY <1>23 DEF Requeue, QueueFree
  <2>3. Requeueing!(w)'
    BY <1>23, <2>1, <2>4 DEF Requeue
  <2> HIDE DEF AgentInv, JobInv, TypeOK, ProcessShape
  <2> QED
    BY <2>2, <2>3
<1>24. ASSUME NEW w \in Workers, RequeueFinish(w) PROVE Requeueing'
    BY <1>24 DEF RequeueFinish, ReleaseQueue, LockExclusion
<1>25. ASSUME NEW w \in Workers, NEW j \in Jobs, Complete(w, j) PROVE Requeueing'
    BY <1>25 DEF Complete, ReqFree, HeldJobsOwned
<1>26. ASSUME NEW w \in Workers, NEW j \in Jobs, DeleteReported(w, j) PROVE Requeueing'
    BY <1>26 DEF DeleteReported, ReqFree
<1>27. ASSUME NEW w \in Workers, NEW j \in Jobs, DeleteFailed(w, j) PROVE Requeueing'
    BY <1>27 DEF DeleteFailed
<1>28. ASSUME NEW w \in Workers, NEW j \in Jobs, LeaveOwned(w, j) PROVE Requeueing'
    BY <1>28 DEF LeaveOwned
<1>29. ASSUME NEW g \in Collectors, NEW a \in Agents, GcClaim(g, a) PROVE Requeueing'
    BY <1>29 DEF GcClaim, AgentFree
<1>30. ASSUME NEW g \in Collectors, GcTake(g) PROVE Requeueing'
    BY <1>30 DEF GcTake
<1>31. ASSUME NEW g \in Collectors, GcTrack(g) PROVE Requeueing'
    BY <1>31 DEF GcTrack, RegisterFree
<1>32. ASSUME NEW g \in Collectors, NEW skipped \in SUBSET (Requests \cup Agents), GcFetchAndSort(g, skipped) PROVE Requeueing'
    BY <1>32 DEF GcFetchAndSort
<1>33. ASSUME NEW g \in Collectors, NEW q \in Queues, NEW S \in SUBSET pending[g], GcReference(g, q, S) PROVE Requeueing'
    BY <1>33 DEF GcReference, QueueFree
<1>34. ASSUME NEW g \in Collectors, GcFinish(g) PROVE Requeueing'
    BY <1>34 DEF GcFinish, ReleaseQueue, LockExclusion
<1>35. ASSUME NEW g \in Collectors, GcDrop(g) PROVE Requeueing'
    BY <1>35 DEF GcDrop
<1>36. ASSUME NEW g \in Collectors, NEW x \in Requests \cup Agents, GcOtherSkip(g, x) PROVE Requeueing'
    BY <1>36 DEF GcOtherSkip, GcOther
<1>37. ASSUME NEW g \in Collectors, NEW a \in Agents, GcUntrack(g, a) PROVE Requeueing'
    BY <1>37 DEF GcUntrack, GcOther, RegisterFree
<1>38. ASSUME NEW g \in Collectors, GcSetOwner(g) PROVE Requeueing'
    BY <1>38 DEF GcSetOwner
<1>39. ASSUME NEW g \in Collectors, NEW r \in Requests, GcLock(g, r) PROVE Requeueing'
    BY <1>39 DEF GcLock, GcOther, ReqFree
<1>40. ASSUME NEW g \in Collectors, NEW j \in Jobs, NEW q \in Queues, GcLink(g, j, q) PROVE Requeueing'
    BY <1>40 DEF GcLink, QueueFree
<1>41. ASSUME NEW g \in Collectors, NEW j \in Jobs, GcOrphan(g, j) PROVE Requeueing'
    BY <1>41 DEF GcOrphan
<1>42. ASSUME NEW g \in Collectors, GcUnlock(g) PROVE Requeueing'
    BY <1>42 DEF GcUnlock
<1>43. ASSUME NEW g \in Collectors, GcOtherDrop(g) PROVE Requeueing'
    BY <1>43 DEF GcOtherDrop
<1>44. ASSUME NEW g \in Collectors, GcRemove(g) PROVE Requeueing'
    BY <1>44 DEF GcRemove, GcAllDone
<1>45. ASSUME NEW g \in Collectors, GcStillOwns(g) PROVE Requeueing'
    BY <1>45 DEF GcStillOwns, GcAllDone, Stop
<1>46. ASSUME NEW g \in Collectors, GcUnregister(g) PROVE Requeueing'
    BY <1>46 DEF GcUnregister, RegisterFree
<1>47. CASE UNCHANGED vars
    BY <1>47 DEF vars
<1> HIDE DEF AgentInv, JobInv, TypeOK, ProcessShape, Up, Linking, Switching, HasQueue,
             Collecting, Requeueing, Failed
<1> QED
    BY <1>1, <1>2, <1>3, <1>4, <1>5, <1>6, <1>7, <1>8, <1>9, <1>10, <1>11, <1>12, <1>13,
       <1>14, <1>15, <1>16, <1>17, <1>18, <1>19, <1>20, <1>21, <1>22, <1>23, <1>24, <1>25,
       <1>26, <1>27, <1>28, <1>29, <1>30, <1>31, <1>32, <1>33, <1>34, <1>35, <1>36, <1>37,
       <1>38, <1>39, <1>40, <1>41, <1>42, <1>43, <1>44, <1>45, <1>46, <1>47
    DEF Next, Lifecycle, FrontendStep, SwitchStep, WorkerStep, CollectorStep

\* The jobs a collector still has to return are the dead agent's, and stay so
\* until the collector switches them.
LEMMA ReturningStep == AgentInv /\ JobInv /\ [Next]_vars => Returning'
<1> SUFFICES ASSUME AgentInv, JobInv, [Next]_vars PROVE Returning'
    OBVIOUS
<1> USE Kinds, Addressing, JobFacts
<1>1. ASSUME NEW p \in Agents, NEW j \in Jobs, SwitchOwner(p, j) PROVE Returning'
  <2>1. OwnerWrite(p) /\ Returning
    BY <1>1, SwitchWrites DEF JobInv
  <2>2. \A g1 \in Collectors : g1 # p => Returning!(g1)'
    BY <2>1, ReturningKept
  <2>3. p \in Collectors => Returning!(p)'
    <3> SUFFICES ASSUME p \in Collectors PROVE Returning!(p)'
      OBVIOUS
    <3>1. CollectorSwitch(p)
      BY <1>1, SwitchKinds DEF SwitchOwner, PopSwitch, RequeueSwitch, CollectorSwitch
    <3>2. jobOwner' = [jobOwner EXCEPT ![j] = lockq[p]] /\ lockq[p] # target[p]
      BY <1>1, <3>1 DEF SwitchOwner, CollectorSwitch
    <3>3. /\ todo'[p] = todo[p] \ {j} /\ ok'[p] = ok[p] \cup {j} /\ gone' = gone /\ err' = err
          /\ unlockFailures' = unlockFailures /\ pc' = pc /\ lockq' = lockq /\ target' = target /\ pending' = pending /\ refs' = refs
          /\ reqs' = reqs /\ j \in todo[p] /\ todo[p] \subseteq Jobs
      BY <1>1 DEF SwitchOwner, AgentInv, TypeOK
    <3>4. jobOwner \in [Jobs -> Owners]
      BY DEF AgentInv, TypeOK
    <3>5. j \notin Failed(p) /\ j \notin pending[p]
      BY <2>1, <3>1, <3>3 DEF JobInv, BatchShape, CollectorSwitch, Switching, Returning, Collecting
    <3>6. pc[p] = "gswitch" /\ pc[p] \in Collecting /\ pc[p] \notin Linking
      BY <3>1 DEF CollectorSwitch, Collecting, Linking
    <3> QED
      BY <2>1, <3>2, <3>3, <3>4, <3>5, <3>6 DEF Returning, Failed
  <2> QED
    BY <2>2, <2>3 DEF Returning
<1>2. ASSUME NEW p \in Agents, NEW j \in Jobs, SwitchUnlockFailed(p, j) PROVE Returning'
  <2>1. OwnerWrite(p) /\ Returning
    BY <1>2, UnlockFailedWrites DEF JobInv
  <2>2. \A g1 \in Collectors : g1 # p => Returning!(g1)'
    BY <2>1, ReturningKept
  <2>3. p \in Collectors => Returning!(p)'
    <3> SUFFICES ASSUME p \in Collectors PROVE Returning!(p)'
      OBVIOUS
    <3>1. CollectorSwitch(p)
      BY <1>2, SwitchKinds DEF SwitchUnlockFailed, PopSwitch, RequeueSwitch, CollectorSwitch
    <3>2. jobOwner' = [jobOwner EXCEPT ![j] = lockq[p]] /\ lockq[p] # target[p]
      BY <1>2, <3>1 DEF SwitchUnlockFailed, CollectorSwitch
    <3>3. /\ todo'[p] = todo[p] \ {j} /\ ok'[p] = ok[p] /\ gone' = gone /\ err'[p] = err[p] \cup {j}
          /\ pc' = pc /\ lockq' = lockq /\ target' = target /\ pending' = pending /\ refs' = refs
          /\ reqs' = reqs /\ j \in todo[p] /\ todo[p] \subseteq Jobs
      BY <1>2, <3>1 DEF SwitchUnlockFailed, CollectorSwitch, AgentInv, TypeOK
    <3>4. jobOwner \in [Jobs -> Owners]
      BY DEF AgentInv, TypeOK
    <3>5. j \notin Failed(p) /\ j \notin pending[p]
      BY <2>1, <3>1, <3>3 DEF JobInv, BatchShape, CollectorSwitch, Switching, Returning, Collecting
    <3>6. pc[p] = "gswitch" /\ pc[p] \in Collecting /\ pc[p] \notin Linking
      BY <3>1 DEF CollectorSwitch, Collecting, Linking
    <3>7. unlockFailures' # 0
      BY <1>2, FailuresCounted
    <3> QED
      BY <2>1, <3>2, <3>3, <3>4, <3>5, <3>6, <3>7 DEF Returning, Failed
  <2> QED
    BY <2>2, <2>3 DEF Returning
<1>3. ASSUME NEW f \in Frontends, CreateCommit(f) PROVE Returning'
  <2>1. OwnerWrite(f) /\ Returning
    BY <1>3, CreateWrites DEF JobInv
  <2>2. \A g1 \in Collectors : g1 # f => Returning!(g1)'
    BY <2>1, ReturningKept
  <2>3. f \in Collectors => Returning!(f)'
    OBVIOUS
  <2> QED
    BY <2>2, <2>3 DEF Returning
<1>4. ASSUME NEW g \in Collectors, GcCommit(g) PROVE Returning'
  <2>1. OwnerWrite(g) /\ Returning
    BY <1>4, CollectWrites DEF JobInv
  <2>2. \A g1 \in Collectors : g1 # g => Returning!(g1)'
    BY <2>1, ReturningKept
  <2>3. g \in Collectors => Returning!(g)'
    <3>1. /\ jobOwner' = [j \in Jobs |-> IF j \in ok[g] THEN lockq[g] ELSE jobOwner[j]]
          /\ lockq[g] \in Queues /\ target[g] \in Agents
      BY <1>4, CollectorCommit
    <3>2. /\ pc[g] = "gcommit" /\ pc'[g] = "glink" /\ ok'[g] = {} /\ todo'[g] = todo[g]
          /\ target' = target /\ pending' = pending /\ cur' = cur /\ orphans' = orphans
      BY <1>4 DEF GcCommit, CommitRequest, AgentInv, TypeOK
    <3>3. todo[g] \subseteq Jobs
      BY DEF AgentInv, TypeOK
    <3> QED
      BY <2>1, <3>1, <3>2, <3>3 DEF Returning, Linking, Collecting, JobsOf
  <2> QED
    BY <2>2, <2>3 DEF Returning
<1> USE DEF AgentInv, JobInv, TypeOK, ProcessShape, Up, Linking, Switching, HasQueue,
            Collecting, Returning, Failed, CollectorOwnsTarget, JobsOf
<1>5. ASSUME NEW p \in Agents, RegisterAgent(p) PROVE Returning'
    BY <1>5 DEF RegisterAgent, RegisterFree
<1>6. ASSUME NEW p \in Agents, InsertAgent(p) PROVE Returning'
    BY <1>6 DEF InsertAgent
<1>7. ASSUME NEW p \in Agents, Shutdown(p) PROVE Returning'
    BY <1>7 DEF Shutdown
<1>8. ASSUME NEW p \in Agents, Unregister(p) PROVE Returning'
    BY <1>8 DEF Unregister, RegisterFree
<1>9. ASSUME NEW p \in Agents, Crash(p) PROVE Returning'
    BY <1>9, SMTT(30) DEF Crash, Stop
<1>10. ASSUME NEW p \in Agents, Unown(p) PROVE Returning'
    BY <1>10 DEF Unown
<1>11. ASSUME NEW p \in Agents, NEW j \in Jobs, SwitchRefused(p, j) PROVE Returning'
    BY <1>11 DEF SwitchRefused, ReqFree, Switchable, NewOwner, PreviousOwner
<1>12. ASSUME NEW p \in Agents, NEW j \in Jobs, SwitchTimeout(p, j) PROVE Returning'
    BY <1>12 DEF SwitchTimeout
<1>13. ASSUME NEW p \in Agents, NEW j \in Jobs, SwitchError(p, j) PROVE Returning'
    BY <1>13 DEF SwitchError
<1>14. ASSUME NEW f \in Frontends, NEW r \in Requests, CreateOwn(f, r) PROVE Returning'
    BY <1>14 DEF CreateOwn
<1>15. ASSUME NEW f \in Frontends, CreateInsert(f) PROVE Returning'
    BY <1>15 DEF CreateInsert, FreshRequests, Fresh
<1>16. ASSUME NEW f \in Frontends, CreateRelock(f) PROVE Returning'
    BY <1>16 DEF CreateRelock, ReqFree
<1>17. ASSUME NEW f \in Frontends, CreateRelockGone(f) PROVE Returning'
    BY <1>17 DEF CreateRelockGone
<1>18. ASSUME NEW f \in Frontends, NEW j \in Jobs, CreateLink(f, j) PROVE Returning'
    BY <1>18 DEF CreateLink, QueueFree
<1>19. ASSUME NEW f \in Frontends, CreateRelease(f) PROVE Returning'
    BY <1>19 DEF CreateRelease
<1>20. ASSUME NEW r \in Requests, Cancel(r) PROVE Returning'
    BY <1>20 DEF Cancel, ReqFree
<1>21. ASSUME NEW w \in Workers, NEW q \in Queues, NEW S \in SUBSET refs[q], PopSelect(w, q, S) PROVE Returning'
    BY <1>21 DEF PopSelect, QueueFree, NoJobYet
<1>22. ASSUME NEW w \in Workers, PopFinish(w) PROVE Returning'
    BY <1>22 DEF PopFinish, ReleaseQueue, LockExclusion
<1>23. ASSUME NEW w \in Workers, NEW q \in Queues, NEW S \in SUBSET held[w], Requeue(w, q, S) PROVE Returning'
    BY <1>23 DEF Requeue, QueueFree
<1>24. ASSUME NEW w \in Workers, RequeueFinish(w) PROVE Returning'
    BY <1>24 DEF RequeueFinish, ReleaseQueue, LockExclusion
<1>25. ASSUME NEW w \in Workers, NEW j \in Jobs, Complete(w, j) PROVE Returning'
    BY <1>25 DEF Complete, ReqFree, HeldJobsOwned
<1>26. ASSUME NEW w \in Workers, NEW j \in Jobs, DeleteReported(w, j) PROVE Returning'
    BY <1>26 DEF DeleteReported, ReqFree
<1>27. ASSUME NEW w \in Workers, NEW j \in Jobs, DeleteFailed(w, j) PROVE Returning'
    BY <1>27 DEF DeleteFailed
<1>28. ASSUME NEW w \in Workers, NEW j \in Jobs, LeaveOwned(w, j) PROVE Returning'
    BY <1>28 DEF LeaveOwned
<1>29. ASSUME NEW g \in Collectors, NEW a \in Agents, GcClaim(g, a) PROVE Returning'
    BY <1>29 DEF GcClaim, AgentFree
<1>30. ASSUME NEW g \in Collectors, GcTake(g) PROVE Returning'
    BY <1>30 DEF GcTake
<1>31. ASSUME NEW g \in Collectors, GcTrack(g) PROVE Returning'
    BY <1>31 DEF GcTrack, RegisterFree
<1>32. ASSUME NEW g \in Collectors, NEW skipped \in SUBSET (Requests \cup Agents), GcFetchAndSort(g, skipped) PROVE Returning'
    BY <1>32 DEF GcFetchAndSort, JobsLeft
<1>33. ASSUME NEW g \in Collectors, NEW q \in Queues, NEW S \in SUBSET pending[g], GcReference(g, q, S) PROVE Returning'
    BY <1>33 DEF GcReference, QueueFree
<1>34. ASSUME NEW g \in Collectors, GcFinish(g) PROVE Returning'
    BY <1>34 DEF GcFinish, ReleaseQueue, LockExclusion
<1>35. ASSUME NEW g \in Collectors, GcDrop(g) PROVE Returning'
    BY <1>35 DEF GcDrop
<1>36. ASSUME NEW g \in Collectors, NEW x \in Requests \cup Agents, GcOtherSkip(g, x) PROVE Returning'
    BY <1>36 DEF GcOtherSkip, GcOther
<1>37. ASSUME NEW g \in Collectors, NEW a \in Agents, GcUntrack(g, a) PROVE Returning'
    BY <1>37 DEF GcUntrack, GcOther, RegisterFree
<1>38. ASSUME NEW g \in Collectors, GcSetOwner(g) PROVE Returning'
    BY <1>38 DEF GcSetOwner
<1>39. ASSUME NEW g \in Collectors, NEW r \in Requests, GcLock(g, r) PROVE Returning'
    BY <1>39 DEF GcLock, GcOther, ReqFree
<1>40. ASSUME NEW g \in Collectors, NEW j \in Jobs, NEW q \in Queues, GcLink(g, j, q) PROVE Returning'
    BY <1>40 DEF GcLink, QueueFree
<1>41. ASSUME NEW g \in Collectors, NEW j \in Jobs, GcOrphan(g, j) PROVE Returning'
    BY <1>41 DEF GcOrphan
<1>42. ASSUME NEW g \in Collectors, GcUnlock(g) PROVE Returning'
    BY <1>42 DEF GcUnlock
<1>43. ASSUME NEW g \in Collectors, GcOtherDrop(g) PROVE Returning'
    BY <1>43 DEF GcOtherDrop
<1>44. ASSUME NEW g \in Collectors, GcRemove(g) PROVE Returning'
    BY <1>44 DEF GcRemove, GcAllDone
<1>45. ASSUME NEW g \in Collectors, GcStillOwns(g) PROVE Returning'
    BY <1>45, SMTT(30) DEF GcStillOwns, GcAllDone, Stop
<1>46. ASSUME NEW g \in Collectors, GcUnregister(g) PROVE Returning'
    BY <1>46 DEF GcUnregister, RegisterFree
<1>47. CASE UNCHANGED vars
    BY <1>47 DEF vars
<1> HIDE DEF AgentInv, JobInv, TypeOK, ProcessShape, Up, Linking, Switching, HasQueue,
             Collecting, Returning, Failed, CollectorOwnsTarget, JobsOf
<1> QED
    BY <1>1, <1>2, <1>3, <1>4, <1>5, <1>6, <1>7, <1>8, <1>9, <1>10, <1>11, <1>12, <1>13,
       <1>14, <1>15, <1>16, <1>17, <1>18, <1>19, <1>20, <1>21, <1>22, <1>23, <1>24, <1>25,
       <1>26, <1>27, <1>28, <1>29, <1>30, <1>31, <1>32, <1>33, <1>34, <1>35, <1>36, <1>37,
       <1>38, <1>39, <1>40, <1>41, <1>42, <1>43, <1>44, <1>45, <1>46, <1>47
    DEF Next, Lifecycle, FrontendStep, SwitchStep, WorkerStep, CollectorStep

\* No step takes the reference of a queued job from its queue, or gives a job
\* to a queue that has no reference to it.
LEMMA QueuedStep == unlockFailures' = 0 /\ AgentInv /\ JobInv /\ [Next]_vars => QueuedJobIsReferenced'
<1> SUFFICES ASSUME unlockFailures' = 0, AgentInv, JobInv, [Next]_vars PROVE QueuedJobIsReferenced'
    OBVIOUS
<1>0. unlockFailures = 0
    BY FailuresCounted
<1> USE <1>0, Kinds, Addressing, JobFacts
<1>1. ASSUME NEW p \in Agents, NEW j \in Jobs, SwitchOwner(p, j) PROVE QueuedJobIsReferenced'
  <2> USE <1>1 DEF SwitchOwner, Switchable, AgentInv, JobInv, TypeOK, ProcessShape, Up, QueuedJobIsReferenced, Requeueing, Returning, Collecting
  <2>1. CASE PopSwitch(p)
    BY <2>1 DEF PopSwitch
  <2>2. CASE RequeueSwitch(p)
    BY <2>2 DEF RequeueSwitch
  <2>3. CASE CollectorSwitch(p)
    BY <2>3 DEF CollectorSwitch
  <2> QED
    BY <2>1, <2>2, <2>3, SwitchKinds
<1>2. ASSUME NEW p \in Agents, NEW j \in Jobs, SwitchUnlockFailed(p, j) PROVE QueuedJobIsReferenced'
    BY <1>2, FailuresCounted
<1>3. ASSUME NEW f \in Frontends, CreateCommit(f) PROVE QueuedJobIsReferenced'
  <2>1. QueuedJobIsReferenced
    BY DEF JobInv
  <2>2. refs' = refs /\ reqs' = reqs
    BY <1>3 DEF CreateCommit
  <2> QED
    BY <1>3, <2>1, <2>2, FrontendCommit DEF QueuedJobIsReferenced
<1>4. ASSUME NEW w \in Workers, PopFinish(w) PROVE QueuedJobIsReferenced'
  <2>1. QueuedJobIsReferenced /\ ReferencesFit /\ BatchShape /\ Popping
    BY DEF JobInv
  <2>2. w \in Agents /\ lockq[w] \in Queues /\ pc[w] = "pop" /\ reqs' = reqs /\ jobOwner' = jobOwner
    BY <1>4 DEF PopFinish, AgentInv, TypeOK, ProcessShape, HasQueue, Switching
  <2>3. refs' = [refs EXCEPT ![lockq[w]] = @ \ SameAddress(ok[w] \cup gone[w])]
    BY <1>4 DEF PopFinish, ReleaseQueue
  <2>4. \A i \in (ok[w] \cup gone[w]) : i \in Jobs /\ lockq[w] \in QueuesOf[i]
    BY <2>1, <2>2 DEF BatchShape, Batch, Switching, AgentInv, TypeOK
  <2>5. \A i \in (ok[w] \cup gone[w]) : RequestOf[i] \in reqs => jobOwner[i] # lockq[w]
    BY <2>1, <2>2 DEF Popping, Batch, AgentInv, TypeOK
  <2>6. \A j \in Jobs : j \in refs[lockq[w]] /\ j \in SameAddress(ok[w] \cup gone[w]) => j \in (ok[w] \cup gone[w])
    BY <2>1, <2>2, <2>4 DEF SameAddress, RequestsOf, ReferencesFit
  <2>7. refs \in [Queues -> SUBSET Jobs]
    BY DEF AgentInv, TypeOK
  <2> SUFFICES ASSUME NEW j \in Jobs, RequestOf[j] \in reqs, jobOwner[j] \in Queues
               PROVE  j \in refs'[jobOwner[j]]
    BY <2>2 DEF QueuedJobIsReferenced
  <2>8. j \in refs[jobOwner[j]]
    BY <2>1 DEF QueuedJobIsReferenced
  <2>9. CASE jobOwner[j] = lockq[w]
    <3>1. refs'[lockq[w]] = refs[lockq[w]] \ SameAddress(ok[w] \cup gone[w])
      BY <2>2, <2>3, <2>7
    <3>2. j \notin SameAddress(ok[w] \cup gone[w])
      BY <2>5, <2>6, <2>8, <2>9
    <3> QED
      BY <2>8, <2>9, <3>1, <3>2
  <2>10. CASE jobOwner[j] # lockq[w]
    <3>1. refs'[jobOwner[j]] = refs[jobOwner[j]]
      BY <2>2, <2>3, <2>7, <2>10
    <3> QED
      BY <2>8, <3>1
  <2> QED
    BY <2>9, <2>10
<1>5. ASSUME NEW w \in Workers, RequeueFinish(w) PROVE QueuedJobIsReferenced'
  <2>1. QueuedJobIsReferenced /\ ReferencesFit /\ BatchShape /\ Requeueing
    BY DEF JobInv
  <2>2. w \in Agents /\ lockq[w] \in Queues /\ pc[w] = "requeue" /\ reqs' = reqs /\ jobOwner' = jobOwner
    BY <1>5 DEF RequeueFinish, AgentInv, TypeOK, ProcessShape, HasQueue, Switching
  <2>3. refs' = [refs EXCEPT ![lockq[w]] = @ \ SameAddress(gone[w] \cup err[w])]
    BY <1>5 DEF RequeueFinish, ReleaseQueue
  <2>4. \A i \in (gone[w] \cup err[w]) : i \in Jobs /\ lockq[w] \in QueuesOf[i]
    BY <2>1, <2>2 DEF BatchShape, Batch, Switching, AgentInv, TypeOK
  <2>5. \A i \in (gone[w] \cup err[w]) : RequestOf[i] \in reqs => jobOwner[i] # lockq[w]
    BY <2>1, <2>2 DEF Requeueing, Failed, AgentInv, TypeOK
  <2>6. \A j \in Jobs : j \in refs[lockq[w]] /\ j \in SameAddress(gone[w] \cup err[w]) => j \in (gone[w] \cup err[w])
    BY <2>1, <2>2, <2>4 DEF SameAddress, RequestsOf, ReferencesFit
  <2>7. refs \in [Queues -> SUBSET Jobs]
    BY DEF AgentInv, TypeOK
  <2> SUFFICES ASSUME NEW j \in Jobs, RequestOf[j] \in reqs, jobOwner[j] \in Queues
               PROVE  j \in refs'[jobOwner[j]]
    BY <2>2 DEF QueuedJobIsReferenced
  <2>8. j \in refs[jobOwner[j]]
    BY <2>1 DEF QueuedJobIsReferenced
  <2>9. CASE jobOwner[j] = lockq[w]
    <3>1. refs'[lockq[w]] = refs[lockq[w]] \ SameAddress(gone[w] \cup err[w])
      BY <2>2, <2>3, <2>7
    <3>2. j \notin SameAddress(gone[w] \cup err[w])
      BY <2>5, <2>6, <2>8, <2>9
    <3> QED
      BY <2>8, <2>9, <3>1, <3>2
  <2>10. CASE jobOwner[j] # lockq[w]
    <3>1. refs'[jobOwner[j]] = refs[jobOwner[j]]
      BY <2>2, <2>3, <2>7, <2>10
    <3> QED
      BY <2>8, <3>1
  <2> QED
    BY <2>9, <2>10
<1>6. ASSUME NEW g \in Collectors, GcFinish(g) PROVE QueuedJobIsReferenced'
  <2>1. QueuedJobIsReferenced /\ ReferencesFit /\ BatchShape /\ Returning
    BY DEF JobInv
  <2>2. g \in Agents /\ lockq[g] \in Queues /\ pc[g] = "gswitch" /\ reqs' = reqs /\ jobOwner' = jobOwner
    BY <1>6 DEF GcFinish, AgentInv, TypeOK, ProcessShape, HasQueue, Switching
  <2>3. refs' = [refs EXCEPT ![lockq[g]] = @ \ SameAddress(gone[g] \cup err[g])]
    BY <1>6 DEF GcFinish, ReleaseQueue
  <2>4. \A i \in (gone[g] \cup err[g]) : i \in Jobs /\ lockq[g] \in QueuesOf[i]
    BY <2>1, <2>2 DEF BatchShape, Batch, Switching, AgentInv, TypeOK
  <2>5. \A i \in (gone[g] \cup err[g]) : RequestOf[i] \in reqs => jobOwner[i] # lockq[g]
    BY <2>1, <2>2 DEF Returning, Failed, Collecting, AgentInv, TypeOK
  <2>6. \A j \in Jobs : j \in refs[lockq[g]] /\ j \in SameAddress(gone[g] \cup err[g]) => j \in (gone[g] \cup err[g])
    BY <2>1, <2>2, <2>4 DEF SameAddress, RequestsOf, ReferencesFit
  <2>7. refs \in [Queues -> SUBSET Jobs]
    BY DEF AgentInv, TypeOK
  <2> SUFFICES ASSUME NEW j \in Jobs, RequestOf[j] \in reqs, jobOwner[j] \in Queues
               PROVE  j \in refs'[jobOwner[j]]
    BY <2>2 DEF QueuedJobIsReferenced
  <2>8. j \in refs[jobOwner[j]]
    BY <2>1 DEF QueuedJobIsReferenced
  <2>9. CASE jobOwner[j] = lockq[g]
    <3>1. refs'[lockq[g]] = refs[lockq[g]] \ SameAddress(gone[g] \cup err[g])
      BY <2>2, <2>3, <2>7
    <3>2. j \notin SameAddress(gone[g] \cup err[g])
      BY <2>5, <2>6, <2>8, <2>9
    <3> QED
      BY <2>8, <2>9, <3>1, <3>2
  <2>10. CASE jobOwner[j] # lockq[g]
    <3>1. refs'[jobOwner[j]] = refs[jobOwner[j]]
      BY <2>2, <2>3, <2>7, <2>10
    <3> QED
      BY <2>8, <3>1
  <2> QED
    BY <2>9, <2>10
<1>7. ASSUME NEW g \in Collectors, GcCommit(g) PROVE QueuedJobIsReferenced'
  <2>1. QueuedJobIsReferenced
    BY DEF JobInv
  <2>2. refs' = refs /\ reqs' = reqs
    BY <1>7 DEF GcCommit
  <2> QED
    BY <1>7, <2>1, <2>2, CollectorCommit DEF QueuedJobIsReferenced
<1> USE DEF AgentInv, JobInv, TypeOK, ProcessShape, Up, Linking, Switching, HasQueue,
            Collecting, QueuedJobIsReferenced
<1>8. ASSUME NEW p \in Agents, RegisterAgent(p) PROVE QueuedJobIsReferenced'
    BY <1>8 DEF RegisterAgent, RegisterFree
<1>9. ASSUME NEW p \in Agents, InsertAgent(p) PROVE QueuedJobIsReferenced'
    BY <1>9 DEF InsertAgent
<1>10. ASSUME NEW p \in Agents, Shutdown(p) PROVE QueuedJobIsReferenced'
    BY <1>10 DEF Shutdown
<1>11. ASSUME NEW p \in Agents, Unregister(p) PROVE QueuedJobIsReferenced'
    BY <1>11 DEF Unregister, RegisterFree
<1>12. ASSUME NEW p \in Agents, Crash(p) PROVE QueuedJobIsReferenced'
    BY <1>12 DEF Crash, Stop
<1>13. ASSUME NEW p \in Agents, Unown(p) PROVE QueuedJobIsReferenced'
    BY <1>13 DEF Unown
<1>14. ASSUME NEW p \in Agents, NEW j \in Jobs, SwitchRefused(p, j) PROVE QueuedJobIsReferenced'
    BY <1>14 DEF SwitchRefused, ReqFree, Switchable, NewOwner, PreviousOwner
<1>15. ASSUME NEW p \in Agents, NEW j \in Jobs, SwitchTimeout(p, j) PROVE QueuedJobIsReferenced'
    BY <1>15 DEF SwitchTimeout
<1>16. ASSUME NEW p \in Agents, NEW j \in Jobs, SwitchError(p, j) PROVE QueuedJobIsReferenced'
    BY <1>16 DEF SwitchError
<1>17. ASSUME NEW f \in Frontends, NEW r \in Requests, CreateOwn(f, r) PROVE QueuedJobIsReferenced'
    BY <1>17 DEF CreateOwn
<1>18. ASSUME NEW f \in Frontends, CreateInsert(f) PROVE QueuedJobIsReferenced'
    BY <1>18 DEF CreateInsert
<1>19. ASSUME NEW f \in Frontends, CreateRelock(f) PROVE QueuedJobIsReferenced'
    BY <1>19 DEF CreateRelock, ReqFree
<1>20. ASSUME NEW f \in Frontends, CreateRelockGone(f) PROVE QueuedJobIsReferenced'
    BY <1>20 DEF CreateRelockGone
<1>21. ASSUME NEW f \in Frontends, NEW j \in Jobs, CreateLink(f, j) PROVE QueuedJobIsReferenced'
    BY <1>21 DEF CreateLink, QueueFree
<1>22. ASSUME NEW f \in Frontends, CreateRelease(f) PROVE QueuedJobIsReferenced'
    BY <1>22 DEF CreateRelease
<1>23. ASSUME NEW r \in Requests, Cancel(r) PROVE QueuedJobIsReferenced'
    BY <1>23 DEF Cancel, ReqFree
<1>24. ASSUME NEW w \in Workers, NEW q \in Queues, NEW S \in SUBSET refs[q], PopSelect(w, q, S) PROVE QueuedJobIsReferenced'
    BY <1>24 DEF PopSelect, QueueFree, NoJobYet
<1>25. ASSUME NEW w \in Workers, NEW q \in Queues, NEW S \in SUBSET held[w], Requeue(w, q, S) PROVE QueuedJobIsReferenced'
    BY <1>25 DEF Requeue, QueueFree
<1>26. ASSUME NEW w \in Workers, NEW j \in Jobs, Complete(w, j) PROVE QueuedJobIsReferenced'
    BY <1>26 DEF Complete, ReqFree
<1>27. ASSUME NEW w \in Workers, NEW j \in Jobs, DeleteReported(w, j) PROVE QueuedJobIsReferenced'
    BY <1>27 DEF DeleteReported, ReqFree
<1>28. ASSUME NEW w \in Workers, NEW j \in Jobs, DeleteFailed(w, j) PROVE QueuedJobIsReferenced'
    BY <1>28 DEF DeleteFailed
<1>29. ASSUME NEW w \in Workers, NEW j \in Jobs, LeaveOwned(w, j) PROVE QueuedJobIsReferenced'
    BY <1>29 DEF LeaveOwned
<1>30. ASSUME NEW g \in Collectors, NEW a \in Agents, GcClaim(g, a) PROVE QueuedJobIsReferenced'
    BY <1>30 DEF GcClaim, AgentFree
<1>31. ASSUME NEW g \in Collectors, GcTake(g) PROVE QueuedJobIsReferenced'
    BY <1>31 DEF GcTake
<1>32. ASSUME NEW g \in Collectors, GcTrack(g) PROVE QueuedJobIsReferenced'
    BY <1>32 DEF GcTrack, RegisterFree
<1>33. ASSUME NEW g \in Collectors, NEW skipped \in SUBSET (Requests \cup Agents), GcFetchAndSort(g, skipped) PROVE QueuedJobIsReferenced'
    BY <1>33 DEF GcFetchAndSort
<1>34. ASSUME NEW g \in Collectors, NEW q \in Queues, NEW S \in SUBSET pending[g], GcReference(g, q, S) PROVE QueuedJobIsReferenced'
    BY <1>34 DEF GcReference, QueueFree
<1>35. ASSUME NEW g \in Collectors, GcDrop(g) PROVE QueuedJobIsReferenced'
    BY <1>35 DEF GcDrop
<1>36. ASSUME NEW g \in Collectors, NEW x \in Requests \cup Agents, GcOtherSkip(g, x) PROVE QueuedJobIsReferenced'
    BY <1>36 DEF GcOtherSkip, GcOther
<1>37. ASSUME NEW g \in Collectors, NEW a \in Agents, GcUntrack(g, a) PROVE QueuedJobIsReferenced'
    BY <1>37 DEF GcUntrack, GcOther, RegisterFree
<1>38. ASSUME NEW g \in Collectors, GcSetOwner(g) PROVE QueuedJobIsReferenced'
    BY <1>38 DEF GcSetOwner
<1>39. ASSUME NEW g \in Collectors, NEW r \in Requests, GcLock(g, r) PROVE QueuedJobIsReferenced'
    BY <1>39 DEF GcLock, GcOther, ReqFree
<1>40. ASSUME NEW g \in Collectors, NEW j \in Jobs, NEW q \in Queues, GcLink(g, j, q) PROVE QueuedJobIsReferenced'
    BY <1>40 DEF GcLink, QueueFree
<1>41. ASSUME NEW g \in Collectors, NEW j \in Jobs, GcOrphan(g, j) PROVE QueuedJobIsReferenced'
    BY <1>41 DEF GcOrphan
<1>42. ASSUME NEW g \in Collectors, GcUnlock(g) PROVE QueuedJobIsReferenced'
    BY <1>42 DEF GcUnlock
<1>43. ASSUME NEW g \in Collectors, GcOtherDrop(g) PROVE QueuedJobIsReferenced'
    BY <1>43 DEF GcOtherDrop
<1>44. ASSUME NEW g \in Collectors, GcRemove(g) PROVE QueuedJobIsReferenced'
    BY <1>44 DEF GcRemove, GcAllDone
<1>45. ASSUME NEW g \in Collectors, GcStillOwns(g) PROVE QueuedJobIsReferenced'
    BY <1>45 DEF GcStillOwns, GcAllDone, Stop
<1>46. ASSUME NEW g \in Collectors, GcUnregister(g) PROVE QueuedJobIsReferenced'
    BY <1>46 DEF GcUnregister, RegisterFree
<1>47. CASE UNCHANGED vars
    BY <1>47 DEF vars
<1> HIDE DEF AgentInv, JobInv, TypeOK, ProcessShape, Up, Linking, Switching, HasQueue,
             Collecting, QueuedJobIsReferenced
<1> QED
    BY <1>1, <1>2, <1>3, <1>4, <1>5, <1>6, <1>7, <1>8, <1>9, <1>10, <1>11, <1>12, <1>13,
       <1>14, <1>15, <1>16, <1>17, <1>18, <1>19, <1>20, <1>21, <1>22, <1>23, <1>24, <1>25,
       <1>26, <1>27, <1>28, <1>29, <1>30, <1>31, <1>32, <1>33, <1>34, <1>35, <1>36, <1>37,
       <1>38, <1>39, <1>40, <1>41, <1>42, <1>43, <1>44, <1>45, <1>46, <1>47
    DEF Next, Lifecycle, FrontendStep, SwitchStep, WorkerStep, CollectorStep

\* A job leaves an agent in a step of that agent, or of the collector that has the
\* dead agent locked, and goes to a queue or is completed.
LEMMA HandoverStep == AgentInv /\ JobInv /\ [Next]_vars => Handover
<1> SUFFICES ASSUME AgentInv, JobInv, [Next]_vars PROVE Handover
    OBVIOUS
<1> USE Kinds, Addressing, JobFacts
<1>1. ASSUME NEW p \in Agents, NEW j \in Jobs,
             SwitchOwner(p, j) \/ SwitchUnlockFailed(p, j)
      PROVE  Handover
  <2>1. Up(p) /\ pc[p] \in Switching /\ jobOwner[j] \in {NewOwner(p), PreviousOwner(p)}
    BY <1>1 DEF SwitchOwner, SwitchUnlockFailed, Switchable
  <2>2. jobOwner' = [jobOwner EXCEPT ![j] = NewOwner(p)]
    BY <1>1 DEF SwitchOwner, SwitchUnlockFailed
  <2>3. LetsGo(p, j)
    BY <1>1, <2>1 DEF SwitchOwner, SwitchUnlockFailed, LetsGo, AgentInv, TypeOK
  <2>4. CASE PopSwitch(p)
    BY <2>1, <2>2, <2>4 DEF PopSwitch, Handover, AgentInv, TypeOK
  <2>5. CASE RequeueSwitch(p)
    BY <2>1, <2>2, <2>3, <2>5 DEF RequeueSwitch, Handover, AgentInv, TypeOK
  <2>6. CASE CollectorSwitch(p)
    BY <2>1, <2>2, <2>3, <2>6 DEF CollectorSwitch, Handover, AgentInv, TypeOK
  <2> QED
    BY <2>1, <2>4, <2>5, <2>6, SwitchKinds
<1>3. ASSUME NEW f \in Frontends, CreateInsert(f) PROVE Handover
  <2>1. FreshRequests
    BY DEF JobInv
  <2>2. \A j \in Jobs : RequestOf[j] = cur[f] => jobOwner[j] = NoOwner
    BY <1>3, <2>1 DEF CreateInsert, FreshRequests, Fresh
  <2> QED
    BY <1>3, <2>2 DEF CreateInsert, Handover, AgentInv, TypeOK
<1>4. ASSUME NEW f \in Frontends, CreateCommit(f) PROVE Handover
  <2>1. \A j \in ok[f] : LetsGo(f, j)
    BY <1>4 DEF CreateCommit, CommitRequest, LetsGo, AgentInv, TypeOK
  <2>2. \A j \in Jobs : jobOwner[j] \in Agents /\ jobOwner'[j] # jobOwner[j] =>
            j \in ok[f] /\ jobOwner[j] = f /\ jobOwner'[j] \notin Agents
    BY <1>4, FrontendCommit
  <2> QED
    BY <2>1, <2>2 DEF Handover
<1>5. ASSUME NEW w \in Workers, NEW j \in Jobs, Complete(w, j) PROVE Handover
  <2>1. LetsGo(w, j)
    BY <1>5 DEF Complete, LetsGo, AgentInv, TypeOK
  <2>2. jobOwner[j] = w /\ jobOwner' = [jobOwner EXCEPT ![j] = NoOwner]
    BY <1>5 DEF Complete, Up, JobInv, HeldJobsOwned
  <2> QED
    BY <2>1, <2>2 DEF Handover, AgentInv, TypeOK
<1>6. ASSUME NEW g \in Collectors, GcCommit(g) PROVE Handover
  <2>1. \A j \in ok[g] : LetsGo(g, j)
    BY <1>6 DEF GcCommit, CommitRequest, LetsGo, AgentInv, TypeOK
  <2>2. \A j \in Jobs : jobOwner[j] \in Agents /\ jobOwner'[j] # jobOwner[j] =>
            j \in ok[g] /\ jobOwner[j] = target[g] /\ jobOwner'[j] \notin Agents
    BY <1>6, CollectorCommit
  <2>3. proc[target[g]] = "down"
    BY <1>6, CollectorCommit
  <2> QED
    BY <2>1, <2>2, <2>3 DEF Handover
<1> USE DEF AgentInv, JobInv, TypeOK, ProcessShape, Up, Linking, Switching, HasQueue,
            Collecting, Handover
<1>7. ASSUME NEW p \in Agents, RegisterAgent(p) PROVE Handover
    BY <1>7 DEF RegisterAgent, RegisterFree
<1>8. ASSUME NEW p \in Agents, InsertAgent(p) PROVE Handover
    BY <1>8 DEF InsertAgent
<1>9. ASSUME NEW p \in Agents, Shutdown(p) PROVE Handover
    BY <1>9 DEF Shutdown
<1>10. ASSUME NEW p \in Agents, Unregister(p) PROVE Handover
    BY <1>10 DEF Unregister, RegisterFree
<1>11. ASSUME NEW p \in Agents, Crash(p) PROVE Handover
    BY <1>11 DEF Crash, Stop
<1>12. ASSUME NEW p \in Agents, Unown(p) PROVE Handover
    BY <1>12 DEF Unown
<1>13. ASSUME NEW p \in Agents, NEW j \in Jobs, SwitchRefused(p, j) PROVE Handover
    BY <1>13 DEF SwitchRefused, ReqFree, Switchable, NewOwner, PreviousOwner
<1>14. ASSUME NEW p \in Agents, NEW j \in Jobs, SwitchTimeout(p, j) PROVE Handover
    BY <1>14 DEF SwitchTimeout
<1>15. ASSUME NEW p \in Agents, NEW j \in Jobs, SwitchError(p, j) PROVE Handover
    BY <1>15 DEF SwitchError
<1>16. ASSUME NEW f \in Frontends, NEW r \in Requests, CreateOwn(f, r) PROVE Handover
    BY <1>16 DEF CreateOwn
<1>17. ASSUME NEW f \in Frontends, CreateRelock(f) PROVE Handover
    BY <1>17 DEF CreateRelock, ReqFree
<1>18. ASSUME NEW f \in Frontends, CreateRelockGone(f) PROVE Handover
    BY <1>18 DEF CreateRelockGone
<1>19. ASSUME NEW f \in Frontends, NEW j \in Jobs, CreateLink(f, j) PROVE Handover
    BY <1>19 DEF CreateLink, QueueFree
<1>20. ASSUME NEW f \in Frontends, CreateRelease(f) PROVE Handover
    BY <1>20 DEF CreateRelease
<1>21. ASSUME NEW r \in Requests, Cancel(r) PROVE Handover
    BY <1>21 DEF Cancel, ReqFree
<1>22. ASSUME NEW w \in Workers, NEW q \in Queues, NEW S \in SUBSET refs[q], PopSelect(w, q, S) PROVE Handover
    BY <1>22 DEF PopSelect, QueueFree, NoJobYet
<1>23. ASSUME NEW w \in Workers, PopFinish(w) PROVE Handover
    BY <1>23 DEF PopFinish, ReleaseQueue
<1>24. ASSUME NEW w \in Workers, NEW q \in Queues, NEW S \in SUBSET held[w], Requeue(w, q, S) PROVE Handover
    BY <1>24 DEF Requeue, QueueFree
<1>25. ASSUME NEW w \in Workers, RequeueFinish(w) PROVE Handover
    BY <1>25 DEF RequeueFinish, ReleaseQueue
<1>26. ASSUME NEW w \in Workers, NEW j \in Jobs, DeleteReported(w, j) PROVE Handover
    BY <1>26 DEF DeleteReported, ReqFree
<1>27. ASSUME NEW w \in Workers, NEW j \in Jobs, DeleteFailed(w, j) PROVE Handover
    BY <1>27 DEF DeleteFailed
<1>28. ASSUME NEW w \in Workers, NEW j \in Jobs, LeaveOwned(w, j) PROVE Handover
    BY <1>28 DEF LeaveOwned
<1>29. ASSUME NEW g \in Collectors, NEW a \in Agents, GcClaim(g, a) PROVE Handover
    BY <1>29 DEF GcClaim, AgentFree
<1>30. ASSUME NEW g \in Collectors, GcTake(g) PROVE Handover
    BY <1>30 DEF GcTake
<1>31. ASSUME NEW g \in Collectors, GcTrack(g) PROVE Handover
    BY <1>31 DEF GcTrack, RegisterFree
<1>32. ASSUME NEW g \in Collectors, NEW skipped \in SUBSET (Requests \cup Agents), GcFetchAndSort(g, skipped) PROVE Handover
    BY <1>32 DEF GcFetchAndSort
<1>33. ASSUME NEW g \in Collectors, NEW q \in Queues, NEW S \in SUBSET pending[g], GcReference(g, q, S) PROVE Handover
    BY <1>33 DEF GcReference, QueueFree
<1>34. ASSUME NEW g \in Collectors, GcFinish(g) PROVE Handover
    BY <1>34 DEF GcFinish, ReleaseQueue
<1>35. ASSUME NEW g \in Collectors, GcDrop(g) PROVE Handover
    BY <1>35 DEF GcDrop
<1>36. ASSUME NEW g \in Collectors, NEW x \in Requests \cup Agents, GcOtherSkip(g, x) PROVE Handover
    BY <1>36 DEF GcOtherSkip, GcOther
<1>37. ASSUME NEW g \in Collectors, NEW a \in Agents, GcUntrack(g, a) PROVE Handover
    BY <1>37 DEF GcUntrack, GcOther, RegisterFree
<1>38. ASSUME NEW g \in Collectors, GcSetOwner(g) PROVE Handover
    BY <1>38 DEF GcSetOwner
<1>39. ASSUME NEW g \in Collectors, NEW r \in Requests, GcLock(g, r) PROVE Handover
    BY <1>39 DEF GcLock, GcOther, ReqFree
<1>40. ASSUME NEW g \in Collectors, NEW j \in Jobs, NEW q \in Queues, GcLink(g, j, q) PROVE Handover
    BY <1>40 DEF GcLink, QueueFree
<1>41. ASSUME NEW g \in Collectors, NEW j \in Jobs, GcOrphan(g, j) PROVE Handover
    BY <1>41 DEF GcOrphan
<1>42. ASSUME NEW g \in Collectors, GcUnlock(g) PROVE Handover
    BY <1>42 DEF GcUnlock
<1>43. ASSUME NEW g \in Collectors, GcOtherDrop(g) PROVE Handover
    BY <1>43 DEF GcOtherDrop
<1>44. ASSUME NEW g \in Collectors, GcRemove(g) PROVE Handover
    BY <1>44 DEF GcRemove, GcAllDone
<1>45. ASSUME NEW g \in Collectors, GcStillOwns(g) PROVE Handover
    BY <1>45 DEF GcStillOwns, GcAllDone, Stop
<1>46. ASSUME NEW g \in Collectors, GcUnregister(g) PROVE Handover
    BY <1>46 DEF GcUnregister, RegisterFree
<1>47. CASE UNCHANGED vars
    BY <1>47 DEF vars
<1> HIDE DEF AgentInv, JobInv, TypeOK, ProcessShape, Up, Linking, Switching, HasQueue,
             Collecting, Handover
<1> QED
    BY <1>1, <1>3, <1>4, <1>5, <1>6, <1>7, <1>8, <1>9, <1>10, <1>11, <1>12, <1>13,
       <1>14, <1>15, <1>16, <1>17, <1>18, <1>19, <1>20, <1>21, <1>22, <1>23, <1>24, <1>25,
       <1>26, <1>27, <1>28, <1>29, <1>30, <1>31, <1>32, <1>33, <1>34, <1>35, <1>36, <1>37,
       <1>38, <1>39, <1>40, <1>41, <1>42, <1>43, <1>44, <1>45, <1>46, <1>47
    DEF Next, Lifecycle, FrontendStep, SwitchStep, WorkerStep, CollectorStep

\* No job, no batch and no reference at the beginning.
LEMMA JobInvInit == Init => JobInv
<1> SUFFICES ASSUME Init PROVE JobInv
    OBVIOUS
<1> USE Kinds, Addressing DEF Init, NoJobs
<1>1. FreshRequests /\ ReferencesFit /\ HeldJobsOwned /\ OneJobPerRequest
    BY DEF FreshRequests, ReferencesFit, HeldJobsOwned, OneJobPerRequest
<1>2. ImageIsCurrent /\ Creating /\ BatchShape
    BY DEF ImageIsCurrent, Creating, BatchShape, Linking, Switching
<1>3. Popping /\ Requeueing /\ Returning
    BY DEF Popping, Requeueing, Returning, Collecting
<1>4. QueuedJobIsReferenced
    BY DEF QueuedJobIsReferenced
<1> QED
    BY <1>1, <1>2, <1>3, <1>4 DEF JobInv

\* The steps above, put together.
LEMMA JobInvStep ==
    AgentInv /\ JobInv /\ [Next]_vars => JobInv'
<1> SUFFICES ASSUME AgentInv, JobInv, [Next]_vars PROVE JobInv'
    OBVIOUS
<1>1. FreshRequests' /\ ReferencesFit' /\ HeldJobsOwned' /\ OneJobPerRequest'
    BY FreshStep, ReferencesStep, HeldStep, OneJobStep
<1>2. ImageIsCurrent' /\ Creating' /\ BatchShape'
    BY ImageStep, CreatingStep, BatchShapeStep
<1>3. Popping' /\ Requeueing' /\ Returning'
    BY PoppingStep, RequeueingStep, ReturningStep
<1>4. unlockFailures' = 0 => QueuedJobIsReferenced'
    BY QueuedStep
<1> QED
    BY <1>1, <1>2, <1>3, <1>4 DEF JobInv

\* Both parts together are an invariant.
LEMMA JobInvariant == Spec => [](AgentInv /\ JobInv)
<1>1. Init => AgentInv /\ JobInv
    BY AgentInvInit, JobInvInit
<1>2. AgentInv /\ JobInv /\ [Next]_vars => (AgentInv /\ JobInv)'
    BY AgentInvStep, JobInvStep
<1> QED
    BY <1>1, <1>2, PTL DEF Spec

\* Until an update was written and then failed to unlock, no job owned by a queue
\* is missing from it (QueuedJobIsReferenced), for any number of copies,
\* processes and crashes and whatever updates fail or time out: a reference is
\* written before the owner (addJobsAndCommit, then switchElementsOwnership) and
\* taken back only for jobs whose owner is not the queue.
THEOREM QueuedJobsAreReferenced == Spec => [](unlockFailures = 0 => QueuedJobIsReferenced)
<1>1. AgentInv /\ JobInv => (unlockFailures = 0 => QueuedJobIsReferenced)
    BY DEF JobInv
<1> QED
    BY <1>1, JobInvariant, PTL

\* Two processes never work on the same copy: what popNextBatch handed out
\* belongs to the process that popped it (HolderIsOwner), although creators and
\* collectors write whole requests back from memory (ArchiveRequest::commit), and
\* although an update may be written and then taken for a failure.
THEOREM HoldersAreOwners == Spec => []HolderIsOwner
<1>1. AgentInv /\ JobInv => HolderIsOwner
    BY Kinds DEF JobInv, HeldJobsOwned, HolderIsOwner
<1> QED
    BY <1>1, JobInvariant, PTL

\* A job leaves an agent only in a step of that agent itself, which had the job in
\* its batch or in hand, or, the agent being dead, in a step of the collector that
\* holds its lock; and it never goes to another agent directly
\* (asyncUpdateJobOwner, ArchiveRequest::commit, ArchiveRequest::garbageCollect).
THEOREM HandoverIsSafe == Spec => HandoverByOwnerOrCollector
<1> SUFFICES Spec => [][Handover]_vars
    BY DEF HandoverByOwnerOrCollector
<1>1. AgentInv /\ JobInv /\ [Next]_vars => [Handover]_vars
    BY HandoverStep
<1> QED
    BY <1>1, JobInvariant, PTL DEF Spec

=============================================================================
