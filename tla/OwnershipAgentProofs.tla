------------------------ MODULE OwnershipAgentProofs ------------------------
(***************************************************************************)
(* Proofs about ObjectOwnership, first part: the register, the agent       *)
(* objects and the locks.  AgentInv is inductive by itself; each of its    *)
(* conjuncts has a lemma with one step per action, the actions that can    *)
(* disturb it first.                                                       *)
(***************************************************************************)
EXTENDS ObjectOwnershipInd, TLAPS

USE DEF register, agentVars, requestVars, batch, gcVars, faults

\* The facts about the constants the proofs use.
LEMMA Kinds ==
    /\ Frontends \subseteq Agents /\ Workers \subseteq Agents /\ Collectors \subseteq Agents
    /\ \A p \in Frontends : p \notin Workers /\ p \notin Collectors
    /\ \A p \in Workers : p \notin Collectors
    /\ None \notin Agents /\ None \notin Queues /\ None \notin Requests
    BY ConstantsAssumption DEF Agents

\* Agents, requests, queues and owners have distinct addresses.
LEMMA Addressing ==
    /\ Requests \subseteq Addresses /\ Agents \subseteq Addresses
    /\ \A x \in Agents : x \notin Requests
    /\ Agents \subseteq Owners /\ Queues \subseteq Owners /\ NoOwner \in Owners
    /\ \A x \in Agents : x \notin Queues /\ x # NoOwner /\ x # Register
    /\ NoOwner \notin Queues
    /\ \A j \in Jobs : RequestOf[j] \in Requests /\ TransferQueueOf[j] \in Queues
    BY ConstantsAssumption DEF Addresses, Owners

\* The types of all variables are kept by every step; what a process has in its
\* local variables (ProcessShape) is needed for the objects it writes.
LEMMA TypeStep == TypeOK /\ ProcessShape /\ [Next]_vars => TypeOK'
<1> SUFFICES ASSUME TypeOK, ProcessShape, [Next]_vars PROVE TypeOK'
    OBVIOUS
<1> USE Kinds, Addressing, BoundsAssumption
<1> USE DEF Linking, Switching, HasQueue, Collecting, TypeOK, ProcessShape, PcLabels
<1>1. ASSUME NEW p \in Agents, RegisterAgent(p) PROVE TypeOK'
    BY <1>1 DEF RegisterAgent, RegisterFree
<1>2. ASSUME NEW p \in Agents, InsertAgent(p) PROVE TypeOK'
    BY <1>2 DEF InsertAgent
<1>3. ASSUME NEW p \in Agents, Shutdown(p) PROVE TypeOK'
    BY <1>3 DEF Shutdown, Up
<1>4. ASSUME NEW p \in Agents, Unregister(p) PROVE TypeOK'
    BY <1>4 DEF Unregister, RegisterFree
<1>5. ASSUME NEW p \in Agents, Crash(p) PROVE TypeOK'
    BY <1>5 DEF Crash, Stop, NoJobs
<1>6. ASSUME NEW p \in Agents, Unown(p) PROVE TypeOK'
    BY <1>6 DEF Unown, Up
<1>7. ASSUME NEW p \in Agents, NEW j \in Jobs, SwitchOwner(p, j) PROVE TypeOK'
    BY <1>7 DEF SwitchOwner, Up, ReqFree, Switchable, NewOwner, PreviousOwner
<1>8. ASSUME NEW p \in Agents, NEW j \in Jobs, SwitchRefused(p, j) PROVE TypeOK'
    BY <1>8 DEF SwitchRefused, Up, ReqFree, Switchable, NewOwner, PreviousOwner
<1>9. ASSUME NEW p \in Agents, NEW j \in Jobs, SwitchTimeout(p, j) PROVE TypeOK'
    BY <1>9 DEF SwitchTimeout, Up
<1>10. ASSUME NEW p \in Agents, NEW j \in Jobs, SwitchError(p, j) PROVE TypeOK'
    BY <1>10 DEF SwitchError, Up
<1>11. ASSUME NEW p \in Agents, NEW j \in Jobs, SwitchUnlockFailed(p, j) PROVE TypeOK'
    BY <1>11 DEF SwitchUnlockFailed, Up, ReqFree, Switchable, NewOwner, PreviousOwner
<1>12. ASSUME NEW f \in Frontends, NEW r \in Requests, CreateOwn(f, r) PROVE TypeOK'
    BY <1>12 DEF CreateOwn, Up
<1>13. ASSUME NEW f \in Frontends, CreateInsert(f) PROVE TypeOK'
    BY <1>13 DEF CreateInsert, Up
<1>14. ASSUME NEW f \in Frontends, CreateRelock(f) PROVE TypeOK'
    BY <1>14 DEF CreateRelock, Up, ReqFree, JobsOf
<1>15. ASSUME NEW f \in Frontends, CreateRelockGone(f) PROVE TypeOK'
    BY <1>15 DEF CreateRelockGone, Up, NoJobs
<1>16. ASSUME NEW f \in Frontends, NEW j \in Jobs, CreateLink(f, j) PROVE TypeOK'
    BY <1>16 DEF CreateLink, Up, QueueFree
<1>17. ASSUME NEW f \in Frontends, CreateCommit(f) PROVE TypeOK'
    BY <1>17 DEF CreateCommit, Up, CommitRequest, Relinked
<1>18. ASSUME NEW f \in Frontends, CreateRelease(f) PROVE TypeOK'
    BY <1>18 DEF CreateRelease, Up, NoJobs
<1>19. ASSUME NEW r \in Requests, Cancel(r) PROVE TypeOK'
    BY <1>19 DEF Cancel, Up, ReqFree
<1>20. ASSUME NEW w \in Workers, NEW q \in Queues, NEW S \in SUBSET refs[q], PopSelect(w, q, S) PROVE TypeOK'
    BY <1>20 DEF PopSelect, Up, QueueFree, NoJobYet, RequestsOf
<1>21. ASSUME NEW w \in Workers, PopFinish(w) PROVE TypeOK'
    BY <1>21 DEF PopFinish, Up, ReleaseQueue, RequestsOf
<1>22. ASSUME NEW w \in Workers, NEW q \in Queues, NEW S \in SUBSET held[w], Requeue(w, q, S) PROVE TypeOK'
    BY <1>22 DEF Requeue, Up, QueueFree
<1>23. ASSUME NEW w \in Workers, RequeueFinish(w) PROVE TypeOK'
    BY <1>23 DEF RequeueFinish, Up, ReleaseQueue, RequestsOf
<1>24. ASSUME NEW w \in Workers, NEW j \in Jobs, Complete(w, j) PROVE TypeOK'
    BY <1>24 DEF Complete, Up, ReqFree
<1>25. ASSUME NEW w \in Workers, NEW j \in Jobs, DeleteReported(w, j) PROVE TypeOK'
    BY <1>25 DEF DeleteReported, Up, ReqFree
<1>26. ASSUME NEW w \in Workers, NEW j \in Jobs, DeleteFailed(w, j) PROVE TypeOK'
    BY <1>26 DEF DeleteFailed, Up
<1>27. ASSUME NEW w \in Workers, NEW j \in Jobs, LeaveOwned(w, j) PROVE TypeOK'
    BY <1>27 DEF LeaveOwned, Up
<1>28. ASSUME NEW g \in Collectors, NEW a \in Agents, GcClaim(g, a) PROVE TypeOK'
    BY <1>28 DEF GcClaim, Up, AgentFree
<1>29. ASSUME NEW g \in Collectors, GcTake(g) PROVE TypeOK'
    BY <1>29 DEF GcTake, Up
<1>30. ASSUME NEW g \in Collectors, GcTrack(g) PROVE TypeOK'
    BY <1>30 DEF GcTrack, Up, RegisterFree
<1>31. ASSUME NEW g \in Collectors, NEW skipped \in SUBSET (Requests \cup Agents), GcFetchAndSort(g, skipped) PROVE TypeOK'
    BY <1>31 DEF GcFetchAndSort, Up, RequestsOf, JobsLeft, JobsOf
<1>32. ASSUME NEW g \in Collectors, NEW q \in Queues, NEW S \in SUBSET pending[g], GcReference(g, q, S) PROVE TypeOK'
    BY <1>32 DEF GcReference, Up, QueueFree
<1>33. ASSUME NEW g \in Collectors, GcFinish(g) PROVE TypeOK'
    BY <1>33 DEF GcFinish, Up, ReleaseQueue, RequestsOf, LastReferences
<1>34. ASSUME NEW g \in Collectors, GcDrop(g) PROVE TypeOK'
    BY <1>34 DEF GcDrop, Up
<1>35. ASSUME NEW g \in Collectors, NEW x \in Requests \cup Agents, GcOtherSkip(g, x) PROVE TypeOK'
    BY <1>35 DEF GcOtherSkip, Up, GcOther
<1>36. ASSUME NEW g \in Collectors, NEW a \in Agents, GcUntrack(g, a) PROVE TypeOK'
    BY <1>36 DEF GcUntrack, Up, GcOther, RegisterFree
<1>37. ASSUME NEW g \in Collectors, GcSetOwner(g) PROVE TypeOK'
    BY <1>37 DEF GcSetOwner, Up
<1>38. ASSUME NEW g \in Collectors, NEW r \in Requests, GcLock(g, r) PROVE TypeOK'
    BY <1>38 DEF GcLock, Up, GcOther, ReqFree, JobsOf
<1>39. ASSUME NEW g \in Collectors, NEW j \in Jobs, NEW q \in Queues, GcLink(g, j, q) PROVE TypeOK'
    BY <1>39 DEF GcLink, Up, QueueFree
<1>40. ASSUME NEW g \in Collectors, GcCommit(g) PROVE TypeOK'
    BY <1>40 DEF GcCommit, Up, CommitRequest, Relinked
<1>41. ASSUME NEW g \in Collectors, NEW j \in Jobs, GcOrphan(g, j) PROVE TypeOK'
    BY <1>41 DEF GcOrphan, Up
<1>42. ASSUME NEW g \in Collectors, GcUnlock(g) PROVE TypeOK'
    BY <1>42 DEF GcUnlock, Up, NoJobs
<1>43. ASSUME NEW g \in Collectors, GcOtherDrop(g) PROVE TypeOK'
    BY <1>43 DEF GcOtherDrop, Up
<1>44. ASSUME NEW g \in Collectors, GcRemove(g) PROVE TypeOK'
    BY <1>44 DEF GcRemove, Up, GcAllDone
<1>45. ASSUME NEW g \in Collectors, GcStillOwns(g) PROVE TypeOK'
    BY <1>45 DEF GcStillOwns, Up, GcAllDone, Stop, NoJobs
<1>46. ASSUME NEW g \in Collectors, GcUnregister(g) PROVE TypeOK'
    BY <1>46 DEF GcUnregister, Up, RegisterFree
<1>47. CASE UNCHANGED vars
    BY <1>47 DEF vars
<1> HIDE DEF Linking, Switching, HasQueue, Collecting, TypeOK, ProcessShape, PcLabels
<1> QED
    BY <1>1, <1>2, <1>3, <1>4, <1>5, <1>6, <1>7, <1>8, <1>9, <1>10, <1>11, <1>12, <1>13,
       <1>14, <1>15, <1>16, <1>17, <1>18, <1>19, <1>20, <1>21, <1>22, <1>23, <1>24, <1>25,
       <1>26, <1>27, <1>28, <1>29, <1>30, <1>31, <1>32, <1>33, <1>34, <1>35, <1>36, <1>37,
       <1>38, <1>39, <1>40, <1>41, <1>42, <1>43, <1>44, <1>45, <1>46, <1>47
    DEF Next, Lifecycle, FrontendStep, SwitchStep, WorkerStep, CollectorStep

\* Which local state goes with which point of an operation is kept by every
\* step.
LEMMA ShapeStep == TypeOK /\ ProcessShape /\ [Next]_vars => ProcessShape'
<1> SUFFICES ASSUME TypeOK, ProcessShape, [Next]_vars PROVE ProcessShape'
    OBVIOUS
<1> USE Kinds
<1> USE DEF Linking, Switching, HasQueue, Collecting, TypeOK, ProcessShape, Up
<1>1. ASSUME NEW p \in Agents, RegisterAgent(p) PROVE ProcessShape'
    BY <1>1 DEF RegisterAgent, RegisterFree
<1>2. ASSUME NEW p \in Agents, InsertAgent(p) PROVE ProcessShape'
    BY <1>2 DEF InsertAgent
<1>3. ASSUME NEW p \in Agents, Shutdown(p) PROVE ProcessShape'
    BY <1>3 DEF Shutdown
<1>4. ASSUME NEW p \in Agents, Unregister(p) PROVE ProcessShape'
    BY <1>4 DEF Unregister, RegisterFree
<1>5. ASSUME NEW p \in Agents, Crash(p) PROVE ProcessShape'
    BY <1>5 DEF Crash, Stop
<1>6. ASSUME NEW p \in Agents, Unown(p) PROVE ProcessShape'
    BY <1>6 DEF Unown
<1>7. ASSUME NEW p \in Agents, NEW j \in Jobs, SwitchOwner(p, j) PROVE ProcessShape'
    BY <1>7 DEF SwitchOwner, ReqFree, Switchable, NewOwner, PreviousOwner
<1>8. ASSUME NEW p \in Agents, NEW j \in Jobs, SwitchRefused(p, j) PROVE ProcessShape'
    BY <1>8 DEF SwitchRefused, ReqFree, Switchable, NewOwner, PreviousOwner
<1>9. ASSUME NEW p \in Agents, NEW j \in Jobs, SwitchTimeout(p, j) PROVE ProcessShape'
    BY <1>9 DEF SwitchTimeout
<1>10. ASSUME NEW p \in Agents, NEW j \in Jobs, SwitchError(p, j) PROVE ProcessShape'
    BY <1>10 DEF SwitchError
<1>11. ASSUME NEW p \in Agents, NEW j \in Jobs, SwitchUnlockFailed(p, j) PROVE ProcessShape'
    BY <1>11 DEF SwitchUnlockFailed, ReqFree, Switchable, NewOwner, PreviousOwner
<1>12. ASSUME NEW f \in Frontends, NEW r \in Requests, CreateOwn(f, r) PROVE ProcessShape'
    BY <1>12 DEF CreateOwn
<1>13. ASSUME NEW f \in Frontends, CreateInsert(f) PROVE ProcessShape'
    BY <1>13 DEF CreateInsert
<1>14. ASSUME NEW f \in Frontends, CreateRelock(f) PROVE ProcessShape'
    BY <1>14 DEF CreateRelock, ReqFree
<1>15. ASSUME NEW f \in Frontends, CreateRelockGone(f) PROVE ProcessShape'
    BY <1>15 DEF CreateRelockGone
<1>16. ASSUME NEW f \in Frontends, NEW j \in Jobs, CreateLink(f, j) PROVE ProcessShape'
    BY <1>16 DEF CreateLink, QueueFree
<1>17. ASSUME NEW f \in Frontends, CreateCommit(f) PROVE ProcessShape'
    BY <1>17 DEF CreateCommit, CommitRequest, Relinked
<1>18. ASSUME NEW f \in Frontends, CreateRelease(f) PROVE ProcessShape'
    BY <1>18 DEF CreateRelease
<1>19. ASSUME NEW r \in Requests, Cancel(r) PROVE ProcessShape'
    BY <1>19 DEF Cancel, ReqFree
<1>20. ASSUME NEW w \in Workers, NEW q \in Queues, NEW S \in SUBSET refs[q], PopSelect(w, q, S) PROVE ProcessShape'
    BY <1>20 DEF PopSelect, QueueFree, NoJobYet
<1>21. ASSUME NEW w \in Workers, PopFinish(w) PROVE ProcessShape'
    BY <1>21 DEF PopFinish, ReleaseQueue
<1>22. ASSUME NEW w \in Workers, NEW q \in Queues, NEW S \in SUBSET held[w], Requeue(w, q, S) PROVE ProcessShape'
    BY <1>22 DEF Requeue, QueueFree
<1>23. ASSUME NEW w \in Workers, RequeueFinish(w) PROVE ProcessShape'
    BY <1>23 DEF RequeueFinish, ReleaseQueue
<1>24. ASSUME NEW w \in Workers, NEW j \in Jobs, Complete(w, j) PROVE ProcessShape'
    BY <1>24 DEF Complete, ReqFree
<1>25. ASSUME NEW w \in Workers, NEW j \in Jobs, DeleteReported(w, j) PROVE ProcessShape'
    BY <1>25 DEF DeleteReported, ReqFree
<1>26. ASSUME NEW w \in Workers, NEW j \in Jobs, DeleteFailed(w, j) PROVE ProcessShape'
    BY <1>26 DEF DeleteFailed
<1>27. ASSUME NEW w \in Workers, NEW j \in Jobs, LeaveOwned(w, j) PROVE ProcessShape'
    BY <1>27 DEF LeaveOwned
<1>28. ASSUME NEW g \in Collectors, NEW a \in Agents, GcClaim(g, a) PROVE ProcessShape'
    BY <1>28 DEF GcClaim, AgentFree
<1>29. ASSUME NEW g \in Collectors, GcTake(g) PROVE ProcessShape'
    BY <1>29 DEF GcTake
<1>30. ASSUME NEW g \in Collectors, GcTrack(g) PROVE ProcessShape'
    BY <1>30 DEF GcTrack, RegisterFree
<1>31. ASSUME NEW g \in Collectors, NEW skipped \in SUBSET (Requests \cup Agents), GcFetchAndSort(g, skipped) PROVE ProcessShape'
    BY <1>31 DEF GcFetchAndSort
<1>32. ASSUME NEW g \in Collectors, NEW q \in Queues, NEW S \in SUBSET pending[g], GcReference(g, q, S) PROVE ProcessShape'
    BY <1>32 DEF GcReference, QueueFree
<1>33. ASSUME NEW g \in Collectors, GcFinish(g) PROVE ProcessShape'
    BY <1>33 DEF GcFinish, ReleaseQueue
<1>34. ASSUME NEW g \in Collectors, GcDrop(g) PROVE ProcessShape'
    BY <1>34 DEF GcDrop
<1>35. ASSUME NEW g \in Collectors, NEW x \in Requests \cup Agents, GcOtherSkip(g, x) PROVE ProcessShape'
    BY <1>35 DEF GcOtherSkip, GcOther
<1>36. ASSUME NEW g \in Collectors, NEW a \in Agents, GcUntrack(g, a) PROVE ProcessShape'
    BY <1>36 DEF GcUntrack, GcOther, RegisterFree
<1>37. ASSUME NEW g \in Collectors, GcSetOwner(g) PROVE ProcessShape'
    BY <1>37 DEF GcSetOwner
<1>38. ASSUME NEW g \in Collectors, NEW r \in Requests, GcLock(g, r) PROVE ProcessShape'
    BY <1>38 DEF GcLock, GcOther, ReqFree
<1>39. ASSUME NEW g \in Collectors, NEW j \in Jobs, NEW q \in Queues, GcLink(g, j, q) PROVE ProcessShape'
    BY <1>39 DEF GcLink, QueueFree
<1>40. ASSUME NEW g \in Collectors, GcCommit(g) PROVE ProcessShape'
    BY <1>40 DEF GcCommit, CommitRequest, Relinked
<1>41. ASSUME NEW g \in Collectors, NEW j \in Jobs, GcOrphan(g, j) PROVE ProcessShape'
    BY <1>41 DEF GcOrphan
<1>42. ASSUME NEW g \in Collectors, GcUnlock(g) PROVE ProcessShape'
    BY <1>42 DEF GcUnlock
<1>43. ASSUME NEW g \in Collectors, GcOtherDrop(g) PROVE ProcessShape'
    BY <1>43 DEF GcOtherDrop
<1>44. ASSUME NEW g \in Collectors, GcRemove(g) PROVE ProcessShape'
    BY <1>44 DEF GcRemove, GcAllDone
<1>45. ASSUME NEW g \in Collectors, GcStillOwns(g) PROVE ProcessShape'
    BY <1>45 DEF GcStillOwns, GcAllDone, Stop
<1>46. ASSUME NEW g \in Collectors, GcUnregister(g) PROVE ProcessShape'
    BY <1>46 DEF GcUnregister, RegisterFree
<1>47. CASE UNCHANGED vars
    BY <1>47 DEF vars
<1> HIDE DEF Linking, Switching, HasQueue, Collecting, TypeOK, ProcessShape, Up
<1> QED
    BY <1>1, <1>2, <1>3, <1>4, <1>5, <1>6, <1>7, <1>8, <1>9, <1>10, <1>11, <1>12, <1>13,
       <1>14, <1>15, <1>16, <1>17, <1>18, <1>19, <1>20, <1>21, <1>22, <1>23, <1>24, <1>25,
       <1>26, <1>27, <1>28, <1>29, <1>30, <1>31, <1>32, <1>33, <1>34, <1>35, <1>36, <1>37,
       <1>38, <1>39, <1>40, <1>41, <1>42, <1>43, <1>44, <1>45, <1>46, <1>47
    DEF Next, Lifecycle, FrontendStep, SwitchStep, WorkerStep, CollectorStep

\* Only collectors have a target, and it is an agent.
LEMMA OnlyCollectorsCollect ==
    TypeOK /\ ProcessShape =>
        \A p \in Agents : pc[p] \in Collecting \/ target[p] # None =>
            p \in Collectors /\ target[p] \in Agents /\ pc[p] \in Collecting
    BY DEF TypeOK, ProcessShape, Agents, Collecting

\* Whoever is about to unlist something does so for itself or for a dead agent.
LEMMA DropperFacts ==
    TypeOK /\ ProcessShape /\ CollectorOwnsTarget =>
        \A p \in Agents : drop[p] # {} =>
            /\ Dropper(p) \in Agents
            /\ Dropper(p) # p => pc[p] \in Collecting /\ proc[Dropper(p)] = "down"
    BY OnlyCollectorsCollect DEF ProcessShape, CollectorOwnsTarget, Dropper, Collecting

\* Mutual exclusion of the backend locks on queues, dead agents and requests.
LEMMA LockStep == TypeOK /\ ProcessShape /\ LockExclusion /\ [Next]_vars => LockExclusion'
<1> SUFFICES ASSUME TypeOK, ProcessShape, LockExclusion, [Next]_vars PROVE LockExclusion'
    OBVIOUS
<1> USE Kinds
<1>1. ASSUME NEW g \in Collectors, NEW a \in Agents, GcClaim(g, a) PROVE LockExclusion'
  <2>1. \A p \in Agents : target[p] # a
    BY <1>1, OnlyCollectorsCollect, Kinds DEF GcClaim, AgentFree
  <2> QED
    BY <1>1, <2>1 DEF GcClaim, TypeOK, LockExclusion, Linking
<1> USE DEF TypeOK, ProcessShape, Up, Linking, Switching, HasQueue, Collecting, LockExclusion
<1>2. ASSUME NEW p \in Agents, RegisterAgent(p) PROVE LockExclusion'
    BY <1>2 DEF RegisterAgent, RegisterFree
<1>3. ASSUME NEW p \in Agents, InsertAgent(p) PROVE LockExclusion'
    BY <1>3 DEF InsertAgent
<1>4. ASSUME NEW p \in Agents, Shutdown(p) PROVE LockExclusion'
    BY <1>4 DEF Shutdown
<1>5. ASSUME NEW p \in Agents, Unregister(p) PROVE LockExclusion'
    BY <1>5 DEF Unregister, RegisterFree
<1>6. ASSUME NEW p \in Agents, Crash(p) PROVE LockExclusion'
    BY <1>6 DEF Crash, Stop
<1>7. ASSUME NEW p \in Agents, Unown(p) PROVE LockExclusion'
    BY <1>7 DEF Unown
<1>8. ASSUME NEW p \in Agents, NEW j \in Jobs, SwitchOwner(p, j) PROVE LockExclusion'
    BY <1>8 DEF SwitchOwner, ReqFree, Switchable, NewOwner, PreviousOwner
<1>9. ASSUME NEW p \in Agents, NEW j \in Jobs, SwitchRefused(p, j) PROVE LockExclusion'
    BY <1>9 DEF SwitchRefused, ReqFree, Switchable, NewOwner, PreviousOwner
<1>10. ASSUME NEW p \in Agents, NEW j \in Jobs, SwitchTimeout(p, j) PROVE LockExclusion'
    BY <1>10 DEF SwitchTimeout
<1>11. ASSUME NEW p \in Agents, NEW j \in Jobs, SwitchError(p, j) PROVE LockExclusion'
    BY <1>11 DEF SwitchError
<1>12. ASSUME NEW p \in Agents, NEW j \in Jobs, SwitchUnlockFailed(p, j) PROVE LockExclusion'
    BY <1>12 DEF SwitchUnlockFailed, ReqFree, Switchable, NewOwner, PreviousOwner
<1>13. ASSUME NEW f \in Frontends, NEW r \in Requests, CreateOwn(f, r) PROVE LockExclusion'
    BY <1>13 DEF CreateOwn
<1>14. ASSUME NEW f \in Frontends, CreateInsert(f) PROVE LockExclusion'
    BY <1>14 DEF CreateInsert
<1>15. ASSUME NEW f \in Frontends, CreateRelock(f) PROVE LockExclusion'
    BY <1>15 DEF CreateRelock, ReqFree
<1>16. ASSUME NEW f \in Frontends, CreateRelockGone(f) PROVE LockExclusion'
    BY <1>16 DEF CreateRelockGone
<1>17. ASSUME NEW f \in Frontends, NEW j \in Jobs, CreateLink(f, j) PROVE LockExclusion'
    BY <1>17 DEF CreateLink, QueueFree
<1>18. ASSUME NEW f \in Frontends, CreateCommit(f) PROVE LockExclusion'
    BY <1>18 DEF CreateCommit, CommitRequest, Relinked
<1>19. ASSUME NEW f \in Frontends, CreateRelease(f) PROVE LockExclusion'
    BY <1>19 DEF CreateRelease
<1>20. ASSUME NEW r \in Requests, Cancel(r) PROVE LockExclusion'
    BY <1>20 DEF Cancel, ReqFree
<1>21. ASSUME NEW w \in Workers, NEW q \in Queues, NEW S \in SUBSET refs[q], PopSelect(w, q, S) PROVE LockExclusion'
    BY <1>21 DEF PopSelect, QueueFree, NoJobYet
<1>22. ASSUME NEW w \in Workers, PopFinish(w) PROVE LockExclusion'
    BY <1>22 DEF PopFinish, ReleaseQueue
<1>23. ASSUME NEW w \in Workers, NEW q \in Queues, NEW S \in SUBSET held[w], Requeue(w, q, S) PROVE LockExclusion'
    BY <1>23 DEF Requeue, QueueFree
<1>24. ASSUME NEW w \in Workers, RequeueFinish(w) PROVE LockExclusion'
    BY <1>24 DEF RequeueFinish, ReleaseQueue
<1>25. ASSUME NEW w \in Workers, NEW j \in Jobs, Complete(w, j) PROVE LockExclusion'
    BY <1>25 DEF Complete, ReqFree
<1>26. ASSUME NEW w \in Workers, NEW j \in Jobs, DeleteReported(w, j) PROVE LockExclusion'
    BY <1>26 DEF DeleteReported, ReqFree
<1>27. ASSUME NEW w \in Workers, NEW j \in Jobs, DeleteFailed(w, j) PROVE LockExclusion'
    BY <1>27 DEF DeleteFailed
<1>28. ASSUME NEW w \in Workers, NEW j \in Jobs, LeaveOwned(w, j) PROVE LockExclusion'
    BY <1>28 DEF LeaveOwned
<1>29. ASSUME NEW g \in Collectors, GcTake(g) PROVE LockExclusion'
    BY <1>29 DEF GcTake
<1>30. ASSUME NEW g \in Collectors, GcTrack(g) PROVE LockExclusion'
    BY <1>30 DEF GcTrack, RegisterFree
<1>31. ASSUME NEW g \in Collectors, NEW skipped \in SUBSET (Requests \cup Agents), GcFetchAndSort(g, skipped) PROVE LockExclusion'
    BY <1>31 DEF GcFetchAndSort
<1>32. ASSUME NEW g \in Collectors, NEW q \in Queues, NEW S \in SUBSET pending[g], GcReference(g, q, S) PROVE LockExclusion'
    BY <1>32 DEF GcReference, QueueFree
<1>33. ASSUME NEW g \in Collectors, GcFinish(g) PROVE LockExclusion'
    BY <1>33 DEF GcFinish, ReleaseQueue
<1>34. ASSUME NEW g \in Collectors, GcDrop(g) PROVE LockExclusion'
    BY <1>34 DEF GcDrop
<1>35. ASSUME NEW g \in Collectors, NEW x \in Requests \cup Agents, GcOtherSkip(g, x) PROVE LockExclusion'
    BY <1>35 DEF GcOtherSkip, GcOther
<1>36. ASSUME NEW g \in Collectors, NEW a \in Agents, GcUntrack(g, a) PROVE LockExclusion'
    BY <1>36 DEF GcUntrack, GcOther, RegisterFree
<1>37. ASSUME NEW g \in Collectors, GcSetOwner(g) PROVE LockExclusion'
    BY <1>37 DEF GcSetOwner
<1>38. ASSUME NEW g \in Collectors, NEW r \in Requests, GcLock(g, r) PROVE LockExclusion'
    BY <1>38 DEF GcLock, GcOther, ReqFree
<1>39. ASSUME NEW g \in Collectors, NEW j \in Jobs, NEW q \in Queues, GcLink(g, j, q) PROVE LockExclusion'
    BY <1>39 DEF GcLink, QueueFree
<1>40. ASSUME NEW g \in Collectors, GcCommit(g) PROVE LockExclusion'
    BY <1>40 DEF GcCommit, CommitRequest, Relinked
<1>41. ASSUME NEW g \in Collectors, NEW j \in Jobs, GcOrphan(g, j) PROVE LockExclusion'
    BY <1>41 DEF GcOrphan
<1>42. ASSUME NEW g \in Collectors, GcUnlock(g) PROVE LockExclusion'
    BY <1>42 DEF GcUnlock
<1>43. ASSUME NEW g \in Collectors, GcOtherDrop(g) PROVE LockExclusion'
    BY <1>43 DEF GcOtherDrop
<1>44. ASSUME NEW g \in Collectors, GcRemove(g) PROVE LockExclusion'
    BY <1>44 DEF GcRemove, GcAllDone
<1>45. ASSUME NEW g \in Collectors, GcStillOwns(g) PROVE LockExclusion'
    BY <1>45 DEF GcStillOwns, GcAllDone, Stop
<1>46. ASSUME NEW g \in Collectors, GcUnregister(g) PROVE LockExclusion'
    BY <1>46 DEF GcUnregister, RegisterFree
<1>47. CASE UNCHANGED vars
    BY <1>47 DEF vars
<1> HIDE DEF TypeOK, ProcessShape, Up, Linking, Switching, HasQueue, Collecting, LockExclusion
<1> QED
    BY <1>1, <1>2, <1>3, <1>4, <1>5, <1>6, <1>7, <1>8, <1>9, <1>10, <1>11, <1>12, <1>13,
       <1>14, <1>15, <1>16, <1>17, <1>18, <1>19, <1>20, <1>21, <1>22, <1>23, <1>24, <1>25,
       <1>26, <1>27, <1>28, <1>29, <1>30, <1>31, <1>32, <1>33, <1>34, <1>35, <1>36, <1>37,
       <1>38, <1>39, <1>40, <1>41, <1>42, <1>43, <1>44, <1>45, <1>46, <1>47
    DEF Next, Lifecycle, FrontendStep, SwitchStep, WorkerStep, CollectorStep

\* insertAndRegisterSelf, removeAndUnregisterSelf and a crash at any point of
\* them keep register and agent objects in step with the life of the process.
LEMMA AgentLifeStep == TypeOK /\ ProcessShape /\ LockExclusion /\ AgentLife /\ CollectorOwnsTarget /\ [Next]_vars => AgentLife'
<1> SUFFICES ASSUME TypeOK, ProcessShape, LockExclusion, AgentLife, CollectorOwnsTarget, [Next]_vars PROVE AgentLife'
    OBVIOUS
<1> USE Kinds, Addressing
<1> USE DEF TypeOK, ProcessShape, Up, Linking, Switching, HasQueue, Collecting, AgentLife,
            CollectorOwnsTarget
<1>1. ASSUME NEW p \in Agents, RegisterAgent(p) PROVE AgentLife'
    BY <1>1 DEF RegisterAgent, RegisterFree
<1>2. ASSUME NEW p \in Agents, InsertAgent(p) PROVE AgentLife'
    BY <1>2 DEF InsertAgent
<1>3. ASSUME NEW p \in Agents, Shutdown(p) PROVE AgentLife'
    BY <1>3 DEF Shutdown
<1>4. ASSUME NEW p \in Agents, Unregister(p) PROVE AgentLife'
    BY <1>4 DEF Unregister, RegisterFree
<1>5. ASSUME NEW p \in Agents, Crash(p) PROVE AgentLife'
    BY <1>5 DEF Crash, Stop
<1>6. ASSUME NEW p \in Agents, Unown(p) PROVE AgentLife'
    BY <1>6 DEF Unown
<1>7. ASSUME NEW p \in Agents, NEW j \in Jobs, SwitchOwner(p, j) PROVE AgentLife'
    BY <1>7 DEF SwitchOwner, ReqFree, Switchable, NewOwner, PreviousOwner
<1>8. ASSUME NEW p \in Agents, NEW j \in Jobs, SwitchRefused(p, j) PROVE AgentLife'
    BY <1>8 DEF SwitchRefused, ReqFree, Switchable, NewOwner, PreviousOwner
<1>9. ASSUME NEW p \in Agents, NEW j \in Jobs, SwitchTimeout(p, j) PROVE AgentLife'
    BY <1>9 DEF SwitchTimeout
<1>10. ASSUME NEW p \in Agents, NEW j \in Jobs, SwitchError(p, j) PROVE AgentLife'
    BY <1>10 DEF SwitchError
<1>11. ASSUME NEW p \in Agents, NEW j \in Jobs, SwitchUnlockFailed(p, j) PROVE AgentLife'
    BY <1>11 DEF SwitchUnlockFailed, ReqFree, Switchable, NewOwner, PreviousOwner
<1>12. ASSUME NEW f \in Frontends, NEW r \in Requests, CreateOwn(f, r) PROVE AgentLife'
    BY <1>12 DEF CreateOwn
<1>13. ASSUME NEW f \in Frontends, CreateInsert(f) PROVE AgentLife'
    BY <1>13 DEF CreateInsert
<1>14. ASSUME NEW f \in Frontends, CreateRelock(f) PROVE AgentLife'
    BY <1>14 DEF CreateRelock, ReqFree
<1>15. ASSUME NEW f \in Frontends, CreateRelockGone(f) PROVE AgentLife'
    BY <1>15 DEF CreateRelockGone
<1>16. ASSUME NEW f \in Frontends, NEW j \in Jobs, CreateLink(f, j) PROVE AgentLife'
    BY <1>16 DEF CreateLink, QueueFree
<1>17. ASSUME NEW f \in Frontends, CreateCommit(f) PROVE AgentLife'
    BY <1>17 DEF CreateCommit, CommitRequest, Relinked
<1>18. ASSUME NEW f \in Frontends, CreateRelease(f) PROVE AgentLife'
    BY <1>18 DEF CreateRelease
<1>19. ASSUME NEW r \in Requests, Cancel(r) PROVE AgentLife'
    BY <1>19 DEF Cancel, ReqFree
<1>20. ASSUME NEW w \in Workers, NEW q \in Queues, NEW S \in SUBSET refs[q], PopSelect(w, q, S) PROVE AgentLife'
    BY <1>20 DEF PopSelect, QueueFree, NoJobYet
<1>21. ASSUME NEW w \in Workers, PopFinish(w) PROVE AgentLife'
    BY <1>21 DEF PopFinish, ReleaseQueue
<1>22. ASSUME NEW w \in Workers, NEW q \in Queues, NEW S \in SUBSET held[w], Requeue(w, q, S) PROVE AgentLife'
    BY <1>22 DEF Requeue, QueueFree
<1>23. ASSUME NEW w \in Workers, RequeueFinish(w) PROVE AgentLife'
    BY <1>23 DEF RequeueFinish, ReleaseQueue
<1>24. ASSUME NEW w \in Workers, NEW j \in Jobs, Complete(w, j) PROVE AgentLife'
    BY <1>24 DEF Complete, ReqFree
<1>25. ASSUME NEW w \in Workers, NEW j \in Jobs, DeleteReported(w, j) PROVE AgentLife'
    BY <1>25 DEF DeleteReported, ReqFree
<1>26. ASSUME NEW w \in Workers, NEW j \in Jobs, DeleteFailed(w, j) PROVE AgentLife'
    BY <1>26 DEF DeleteFailed
<1>27. ASSUME NEW w \in Workers, NEW j \in Jobs, LeaveOwned(w, j) PROVE AgentLife'
    BY <1>27 DEF LeaveOwned
<1>28. ASSUME NEW g \in Collectors, NEW a \in Agents, GcClaim(g, a) PROVE AgentLife'
    BY <1>28 DEF GcClaim, AgentFree
<1>29. ASSUME NEW g \in Collectors, GcTake(g) PROVE AgentLife'
    BY <1>29 DEF GcTake
<1>30. ASSUME NEW g \in Collectors, GcTrack(g) PROVE AgentLife'
    BY <1>30 DEF GcTrack, RegisterFree
<1>31. ASSUME NEW g \in Collectors, NEW skipped \in SUBSET (Requests \cup Agents), GcFetchAndSort(g, skipped) PROVE AgentLife'
    BY <1>31 DEF GcFetchAndSort
<1>32. ASSUME NEW g \in Collectors, NEW q \in Queues, NEW S \in SUBSET pending[g], GcReference(g, q, S) PROVE AgentLife'
    BY <1>32 DEF GcReference, QueueFree
<1>33. ASSUME NEW g \in Collectors, GcFinish(g) PROVE AgentLife'
    BY <1>33 DEF GcFinish, ReleaseQueue
<1>34. ASSUME NEW g \in Collectors, GcDrop(g) PROVE AgentLife'
    BY <1>34 DEF GcDrop
<1>35. ASSUME NEW g \in Collectors, NEW x \in Requests \cup Agents, GcOtherSkip(g, x) PROVE AgentLife'
    BY <1>35 DEF GcOtherSkip, GcOther
<1>36. ASSUME NEW g \in Collectors, NEW a \in Agents, GcUntrack(g, a) PROVE AgentLife'
    BY <1>36 DEF GcUntrack, GcOther, RegisterFree
<1>37. ASSUME NEW g \in Collectors, GcSetOwner(g) PROVE AgentLife'
    BY <1>37 DEF GcSetOwner
<1>38. ASSUME NEW g \in Collectors, NEW r \in Requests, GcLock(g, r) PROVE AgentLife'
    BY <1>38 DEF GcLock, GcOther, ReqFree
<1>39. ASSUME NEW g \in Collectors, NEW j \in Jobs, NEW q \in Queues, GcLink(g, j, q) PROVE AgentLife'
    BY <1>39 DEF GcLink, QueueFree
<1>40. ASSUME NEW g \in Collectors, GcCommit(g) PROVE AgentLife'
    BY <1>40 DEF GcCommit, CommitRequest, Relinked
<1>41. ASSUME NEW g \in Collectors, NEW j \in Jobs, GcOrphan(g, j) PROVE AgentLife'
    BY <1>41 DEF GcOrphan
<1>42. ASSUME NEW g \in Collectors, GcUnlock(g) PROVE AgentLife'
    BY <1>42 DEF GcUnlock
<1>43. ASSUME NEW g \in Collectors, GcOtherDrop(g) PROVE AgentLife'
    BY <1>43 DEF GcOtherDrop
<1>44. ASSUME NEW g \in Collectors, GcRemove(g) PROVE AgentLife'
    BY <1>44 DEF GcRemove, GcAllDone
<1>45. ASSUME NEW g \in Collectors, GcStillOwns(g) PROVE AgentLife'
    BY <1>45 DEF GcStillOwns, GcAllDone, Stop
<1>46. ASSUME NEW g \in Collectors, GcUnregister(g) PROVE AgentLife'
    BY <1>46 DEF GcUnregister, RegisterFree
<1>47. CASE UNCHANGED vars
    BY <1>47 DEF vars
<1> HIDE DEF TypeOK, ProcessShape, Up, Linking, Switching, HasQueue, Collecting, AgentLife,
             CollectorOwnsTarget
<1> QED
    BY <1>1, <1>2, <1>3, <1>4, <1>5, <1>6, <1>7, <1>8, <1>9, <1>10, <1>11, <1>12, <1>13,
       <1>14, <1>15, <1>16, <1>17, <1>18, <1>19, <1>20, <1>21, <1>22, <1>23, <1>24, <1>25,
       <1>26, <1>27, <1>28, <1>29, <1>30, <1>31, <1>32, <1>33, <1>34, <1>35, <1>36, <1>37,
       <1>38, <1>39, <1>40, <1>41, <1>42, <1>43, <1>44, <1>45, <1>46, <1>47
    DEF Next, Lifecycle, FrontendStep, SwitchStep, WorkerStep, CollectorStep

\* From cleanupDeadAgent's claim to the removal, a collector's target is dead,
\* is owned by it and is on its list.
LEMMA TargetStep == TypeOK /\ ProcessShape /\ LockExclusion /\ AgentLife /\ CollectorOwnsTarget /\ [Next]_vars => CollectorOwnsTarget'
<1> SUFFICES ASSUME TypeOK, ProcessShape, LockExclusion, AgentLife, CollectorOwnsTarget, [Next]_vars PROVE CollectorOwnsTarget'
    OBVIOUS
<1> USE Kinds, Addressing
<1> USE DEF TypeOK, ProcessShape, Up, Linking, Switching, HasQueue, Collecting, LockExclusion,
            AgentLife, CollectorOwnsTarget
<1>1. ASSUME NEW p \in Agents, RegisterAgent(p) PROVE CollectorOwnsTarget'
    BY <1>1 DEF RegisterAgent, RegisterFree
<1>2. ASSUME NEW p \in Agents, InsertAgent(p) PROVE CollectorOwnsTarget'
    BY <1>2 DEF InsertAgent
<1>3. ASSUME NEW p \in Agents, Shutdown(p) PROVE CollectorOwnsTarget'
    BY <1>3 DEF Shutdown
<1>4. ASSUME NEW p \in Agents, Unregister(p) PROVE CollectorOwnsTarget'
    BY <1>4 DEF Unregister, RegisterFree
<1>5. ASSUME NEW p \in Agents, Crash(p) PROVE CollectorOwnsTarget'
    BY <1>5 DEF Crash, Stop
<1>6. ASSUME NEW p \in Agents, Unown(p) PROVE CollectorOwnsTarget'
    BY <1>6 DEF Unown
<1>7. ASSUME NEW p \in Agents, NEW j \in Jobs, SwitchOwner(p, j) PROVE CollectorOwnsTarget'
    BY <1>7 DEF SwitchOwner, ReqFree, Switchable, NewOwner, PreviousOwner
<1>8. ASSUME NEW p \in Agents, NEW j \in Jobs, SwitchRefused(p, j) PROVE CollectorOwnsTarget'
    BY <1>8 DEF SwitchRefused, ReqFree, Switchable, NewOwner, PreviousOwner
<1>9. ASSUME NEW p \in Agents, NEW j \in Jobs, SwitchTimeout(p, j) PROVE CollectorOwnsTarget'
    BY <1>9 DEF SwitchTimeout
<1>10. ASSUME NEW p \in Agents, NEW j \in Jobs, SwitchError(p, j) PROVE CollectorOwnsTarget'
    BY <1>10 DEF SwitchError
<1>11. ASSUME NEW p \in Agents, NEW j \in Jobs, SwitchUnlockFailed(p, j) PROVE CollectorOwnsTarget'
    BY <1>11 DEF SwitchUnlockFailed, ReqFree, Switchable, NewOwner, PreviousOwner
<1>12. ASSUME NEW f \in Frontends, NEW r \in Requests, CreateOwn(f, r) PROVE CollectorOwnsTarget'
    BY <1>12 DEF CreateOwn
<1>13. ASSUME NEW f \in Frontends, CreateInsert(f) PROVE CollectorOwnsTarget'
    BY <1>13 DEF CreateInsert
<1>14. ASSUME NEW f \in Frontends, CreateRelock(f) PROVE CollectorOwnsTarget'
    BY <1>14 DEF CreateRelock, ReqFree
<1>15. ASSUME NEW f \in Frontends, CreateRelockGone(f) PROVE CollectorOwnsTarget'
    BY <1>15 DEF CreateRelockGone
<1>16. ASSUME NEW f \in Frontends, NEW j \in Jobs, CreateLink(f, j) PROVE CollectorOwnsTarget'
    BY <1>16 DEF CreateLink, QueueFree
<1>17. ASSUME NEW f \in Frontends, CreateCommit(f) PROVE CollectorOwnsTarget'
    BY <1>17 DEF CreateCommit, CommitRequest, Relinked
<1>18. ASSUME NEW f \in Frontends, CreateRelease(f) PROVE CollectorOwnsTarget'
    BY <1>18 DEF CreateRelease
<1>19. ASSUME NEW r \in Requests, Cancel(r) PROVE CollectorOwnsTarget'
    BY <1>19 DEF Cancel, ReqFree
<1>20. ASSUME NEW w \in Workers, NEW q \in Queues, NEW S \in SUBSET refs[q], PopSelect(w, q, S) PROVE CollectorOwnsTarget'
    BY <1>20 DEF PopSelect, QueueFree, NoJobYet
<1>21. ASSUME NEW w \in Workers, PopFinish(w) PROVE CollectorOwnsTarget'
    BY <1>21 DEF PopFinish, ReleaseQueue
<1>22. ASSUME NEW w \in Workers, NEW q \in Queues, NEW S \in SUBSET held[w], Requeue(w, q, S) PROVE CollectorOwnsTarget'
    BY <1>22 DEF Requeue, QueueFree
<1>23. ASSUME NEW w \in Workers, RequeueFinish(w) PROVE CollectorOwnsTarget'
    BY <1>23 DEF RequeueFinish, ReleaseQueue
<1>24. ASSUME NEW w \in Workers, NEW j \in Jobs, Complete(w, j) PROVE CollectorOwnsTarget'
    BY <1>24 DEF Complete, ReqFree
<1>25. ASSUME NEW w \in Workers, NEW j \in Jobs, DeleteReported(w, j) PROVE CollectorOwnsTarget'
    BY <1>25 DEF DeleteReported, ReqFree
<1>26. ASSUME NEW w \in Workers, NEW j \in Jobs, DeleteFailed(w, j) PROVE CollectorOwnsTarget'
    BY <1>26 DEF DeleteFailed
<1>27. ASSUME NEW w \in Workers, NEW j \in Jobs, LeaveOwned(w, j) PROVE CollectorOwnsTarget'
    BY <1>27 DEF LeaveOwned
<1>28. ASSUME NEW g \in Collectors, NEW a \in Agents, GcClaim(g, a) PROVE CollectorOwnsTarget'
    BY <1>28 DEF GcClaim, AgentFree
<1>29. ASSUME NEW g \in Collectors, GcTake(g) PROVE CollectorOwnsTarget'
    BY <1>29 DEF GcTake
<1>30. ASSUME NEW g \in Collectors, GcTrack(g) PROVE CollectorOwnsTarget'
    BY <1>30 DEF GcTrack, RegisterFree
<1>31. ASSUME NEW g \in Collectors, NEW skipped \in SUBSET (Requests \cup Agents), GcFetchAndSort(g, skipped) PROVE CollectorOwnsTarget'
    BY <1>31 DEF GcFetchAndSort
<1>32. ASSUME NEW g \in Collectors, NEW q \in Queues, NEW S \in SUBSET pending[g], GcReference(g, q, S) PROVE CollectorOwnsTarget'
    BY <1>32 DEF GcReference, QueueFree
<1>33. ASSUME NEW g \in Collectors, GcFinish(g) PROVE CollectorOwnsTarget'
    BY <1>33 DEF GcFinish, ReleaseQueue
<1>34. ASSUME NEW g \in Collectors, GcDrop(g) PROVE CollectorOwnsTarget'
    BY <1>34, SMTT(30) DEF GcDrop
<1>35. ASSUME NEW g \in Collectors, NEW x \in Requests \cup Agents, GcOtherSkip(g, x) PROVE CollectorOwnsTarget'
    BY <1>35 DEF GcOtherSkip, GcOther
<1>36. ASSUME NEW g \in Collectors, NEW a \in Agents, GcUntrack(g, a) PROVE CollectorOwnsTarget'
    BY <1>36 DEF GcUntrack, GcOther, RegisterFree
<1>37. ASSUME NEW g \in Collectors, GcSetOwner(g) PROVE CollectorOwnsTarget'
    BY <1>37 DEF GcSetOwner
<1>38. ASSUME NEW g \in Collectors, NEW r \in Requests, GcLock(g, r) PROVE CollectorOwnsTarget'
    BY <1>38 DEF GcLock, GcOther, ReqFree
<1>39. ASSUME NEW g \in Collectors, NEW j \in Jobs, NEW q \in Queues, GcLink(g, j, q) PROVE CollectorOwnsTarget'
    BY <1>39 DEF GcLink, QueueFree
<1>40. ASSUME NEW g \in Collectors, GcCommit(g) PROVE CollectorOwnsTarget'
    BY <1>40 DEF GcCommit, CommitRequest, Relinked
<1>41. ASSUME NEW g \in Collectors, NEW j \in Jobs, GcOrphan(g, j) PROVE CollectorOwnsTarget'
    BY <1>41 DEF GcOrphan
<1>42. ASSUME NEW g \in Collectors, GcUnlock(g) PROVE CollectorOwnsTarget'
    BY <1>42 DEF GcUnlock
<1>43. ASSUME NEW g \in Collectors, GcOtherDrop(g) PROVE CollectorOwnsTarget'
    BY <1>43, SMTT(30) DEF GcOtherDrop
<1>44. ASSUME NEW g \in Collectors, GcRemove(g) PROVE CollectorOwnsTarget'
    BY <1>44 DEF GcRemove, GcAllDone
<1>45. ASSUME NEW g \in Collectors, GcStillOwns(g) PROVE CollectorOwnsTarget'
    BY <1>45 DEF GcStillOwns, GcAllDone, Stop
<1>46. ASSUME NEW g \in Collectors, GcUnregister(g) PROVE CollectorOwnsTarget'
    BY <1>46 DEF GcUnregister, RegisterFree
<1>47. CASE UNCHANGED vars
    BY <1>47 DEF vars
<1> HIDE DEF TypeOK, ProcessShape, Up, Linking, Switching, HasQueue, Collecting, LockExclusion,
             AgentLife, CollectorOwnsTarget
<1> QED
    BY <1>1, <1>2, <1>3, <1>4, <1>5, <1>6, <1>7, <1>8, <1>9, <1>10, <1>11, <1>12, <1>13,
       <1>14, <1>15, <1>16, <1>17, <1>18, <1>19, <1>20, <1>21, <1>22, <1>23, <1>24, <1>25,
       <1>26, <1>27, <1>28, <1>29, <1>30, <1>31, <1>32, <1>33, <1>34, <1>35, <1>36, <1>37,
       <1>38, <1>39, <1>40, <1>41, <1>42, <1>43, <1>44, <1>45, <1>46, <1>47
    DEF Next, Lifecycle, FrontendStep, SwitchStep, WorkerStep, CollectorStep

\* An agent object about to be unlisted is gone, or belongs to someone else
\* already.
LEMMA DroppedAgentsStep == AgentInv /\ [Next]_vars => DroppedAgentsLeft'
<1> SUFFICES ASSUME AgentInv, [Next]_vars PROVE DroppedAgentsLeft'
    OBVIOUS
<1> USE Kinds, Addressing
<1>1. ASSUME NEW p \in Agents, InsertAgent(p) PROVE DroppedAgentsLeft'
    BY <1>1, DropperFacts DEF InsertAgent, AgentInv, TypeOK, DroppedAgentsLeft, Dropper
<1>2. ASSUME NEW g \in Collectors, NEW a \in Agents, GcClaim(g, a) PROVE DroppedAgentsLeft'
  <2>1. drop[g] = {}
    BY <1>2, Kinds DEF GcClaim, AgentInv, ProcessShape
  <2>2. \A p \in Agents : p # g => pc'[p] = pc[p] /\ target'[p] = target[p]
    BY <1>2 DEF GcClaim, AgentInv, TypeOK
  <2> QED
    BY <1>2, <2>1, <2>2 DEF GcClaim, AgentInv, DroppedAgentsLeft, Dropper
<1>3. ASSUME NEW g \in Collectors, GcTake(g) PROVE DroppedAgentsLeft'
  <2>1. drop[g] = {}
    BY <1>3, Kinds DEF GcTake, AgentInv, ProcessShape
  <2>2. \A p \in Agents : p # g => pc'[p] = pc[p] /\ target'[p] = target[p]
    BY <1>3 DEF GcTake, AgentInv, TypeOK
  <2>3. \A p \in Agents : drop[p] # {} => Dropper(p) # g
    BY <1>3, <2>1, DropperFacts DEF GcTake, Up, AgentInv
  <2> QED
    BY <1>3, <2>1, <2>2, <2>3 DEF GcTake, AgentInv, TypeOK, DroppedAgentsLeft, Dropper
<1>4. ASSUME NEW g \in Collectors, GcSetOwner(g) PROVE DroppedAgentsLeft'
  <2>1. target[g] \in Agents
    BY <1>4, OnlyCollectorsCollect DEF GcSetOwner, AgentInv, Collecting
  <2>2. \A p \in Agents : p # g =>
            pc'[p] = pc[p] /\ target'[p] = target[p] /\ drop'[p] = drop[p]
    BY <1>4 DEF GcSetOwner, AgentInv, TypeOK
  <2>3. drop'[g] = {cur[g]} /\ Dropper(g)' = target[g]
    BY <1>4 DEF GcSetOwner, AgentInv, TypeOK, Dropper
  <2>4. \A x \in Agents : agOwner'[x] = IF x = cur[g] THEN Register ELSE agOwner[x]
    BY <1>4 DEF GcSetOwner, AgentInv, TypeOK
  <2>5. agentObjs' = agentObjs
    BY <1>4 DEF GcSetOwner
  <2> QED
    BY <2>1, <2>2, <2>3, <2>4, <2>5, DropperFacts DEF AgentInv, DroppedAgentsLeft, Dropper
<1> USE DEF TypeOK, ProcessShape, Up, Linking, Switching, HasQueue, Collecting, AgentInv,
            AgentLife, CollectorOwnsTarget, DroppedAgentsLeft, Dropper
<1>5. ASSUME NEW p \in Agents, RegisterAgent(p) PROVE DroppedAgentsLeft'
    BY <1>5 DEF RegisterAgent, RegisterFree
<1>6. ASSUME NEW p \in Agents, Shutdown(p) PROVE DroppedAgentsLeft'
    BY <1>6 DEF Shutdown
<1>7. ASSUME NEW p \in Agents, Unregister(p) PROVE DroppedAgentsLeft'
    BY <1>7 DEF Unregister, RegisterFree
<1>8. ASSUME NEW p \in Agents, Crash(p) PROVE DroppedAgentsLeft'
    BY <1>8 DEF Crash, Stop
<1>9. ASSUME NEW p \in Agents, Unown(p) PROVE DroppedAgentsLeft'
    BY <1>9 DEF Unown
<1>10. ASSUME NEW p \in Agents, NEW j \in Jobs, SwitchOwner(p, j) PROVE DroppedAgentsLeft'
    BY <1>10 DEF SwitchOwner, ReqFree, Switchable, NewOwner, PreviousOwner
<1>11. ASSUME NEW p \in Agents, NEW j \in Jobs, SwitchRefused(p, j) PROVE DroppedAgentsLeft'
    BY <1>11 DEF SwitchRefused, ReqFree, Switchable, NewOwner, PreviousOwner
<1>12. ASSUME NEW p \in Agents, NEW j \in Jobs, SwitchTimeout(p, j) PROVE DroppedAgentsLeft'
    BY <1>12 DEF SwitchTimeout
<1>13. ASSUME NEW p \in Agents, NEW j \in Jobs, SwitchError(p, j) PROVE DroppedAgentsLeft'
    BY <1>13 DEF SwitchError
<1>14. ASSUME NEW p \in Agents, NEW j \in Jobs, SwitchUnlockFailed(p, j) PROVE DroppedAgentsLeft'
    BY <1>14 DEF SwitchUnlockFailed, ReqFree, Switchable, NewOwner, PreviousOwner
<1>15. ASSUME NEW f \in Frontends, NEW r \in Requests, CreateOwn(f, r) PROVE DroppedAgentsLeft'
    BY <1>15 DEF CreateOwn
<1>16. ASSUME NEW f \in Frontends, CreateInsert(f) PROVE DroppedAgentsLeft'
    BY <1>16 DEF CreateInsert
<1>17. ASSUME NEW f \in Frontends, CreateRelock(f) PROVE DroppedAgentsLeft'
    BY <1>17 DEF CreateRelock, ReqFree
<1>18. ASSUME NEW f \in Frontends, CreateRelockGone(f) PROVE DroppedAgentsLeft'
    BY <1>18 DEF CreateRelockGone
<1>19. ASSUME NEW f \in Frontends, NEW j \in Jobs, CreateLink(f, j) PROVE DroppedAgentsLeft'
    BY <1>19 DEF CreateLink, QueueFree
<1>20. ASSUME NEW f \in Frontends, CreateCommit(f) PROVE DroppedAgentsLeft'
    BY <1>20 DEF CreateCommit, CommitRequest, Relinked
<1>21. ASSUME NEW f \in Frontends, CreateRelease(f) PROVE DroppedAgentsLeft'
    BY <1>21 DEF CreateRelease
<1>22. ASSUME NEW r \in Requests, Cancel(r) PROVE DroppedAgentsLeft'
    BY <1>22 DEF Cancel, ReqFree
<1>23. ASSUME NEW w \in Workers, NEW q \in Queues, NEW S \in SUBSET refs[q], PopSelect(w, q, S) PROVE DroppedAgentsLeft'
    BY <1>23 DEF PopSelect, QueueFree, NoJobYet
<1>24. ASSUME NEW w \in Workers, PopFinish(w) PROVE DroppedAgentsLeft'
    BY <1>24 DEF PopFinish, ReleaseQueue, RequestsOf
<1>25. ASSUME NEW w \in Workers, NEW q \in Queues, NEW S \in SUBSET held[w], Requeue(w, q, S) PROVE DroppedAgentsLeft'
    BY <1>25 DEF Requeue, QueueFree
<1>26. ASSUME NEW w \in Workers, RequeueFinish(w) PROVE DroppedAgentsLeft'
    BY <1>26 DEF RequeueFinish, ReleaseQueue, RequestsOf
<1>27. ASSUME NEW w \in Workers, NEW j \in Jobs, Complete(w, j) PROVE DroppedAgentsLeft'
    BY <1>27 DEF Complete, ReqFree
<1>28. ASSUME NEW w \in Workers, NEW j \in Jobs, DeleteReported(w, j) PROVE DroppedAgentsLeft'
    BY <1>28 DEF DeleteReported, ReqFree
<1>29. ASSUME NEW w \in Workers, NEW j \in Jobs, DeleteFailed(w, j) PROVE DroppedAgentsLeft'
    BY <1>29 DEF DeleteFailed
<1>30. ASSUME NEW w \in Workers, NEW j \in Jobs, LeaveOwned(w, j) PROVE DroppedAgentsLeft'
    BY <1>30 DEF LeaveOwned
<1>31. ASSUME NEW g \in Collectors, GcTrack(g) PROVE DroppedAgentsLeft'
    BY <1>31 DEF GcTrack, RegisterFree
<1>32. ASSUME NEW g \in Collectors, NEW skipped \in SUBSET (Requests \cup Agents), GcFetchAndSort(g, skipped) PROVE DroppedAgentsLeft'
    BY <1>32 DEF GcFetchAndSort
<1>33. ASSUME NEW g \in Collectors, NEW q \in Queues, NEW S \in SUBSET pending[g], GcReference(g, q, S) PROVE DroppedAgentsLeft'
    BY <1>33 DEF GcReference, QueueFree
<1>34. ASSUME NEW g \in Collectors, GcFinish(g) PROVE DroppedAgentsLeft'
    BY <1>34 DEF GcFinish, ReleaseQueue, RequestsOf, LastReferences
<1>35. ASSUME NEW g \in Collectors, GcDrop(g) PROVE DroppedAgentsLeft'
    BY <1>35 DEF GcDrop
<1>36. ASSUME NEW g \in Collectors, NEW x \in Requests \cup Agents, GcOtherSkip(g, x) PROVE DroppedAgentsLeft'
    BY <1>36 DEF GcOtherSkip, GcOther
<1>37. ASSUME NEW g \in Collectors, NEW a \in Agents, GcUntrack(g, a) PROVE DroppedAgentsLeft'
    BY <1>37 DEF GcUntrack, GcOther, RegisterFree
<1>38. ASSUME NEW g \in Collectors, NEW r \in Requests, GcLock(g, r) PROVE DroppedAgentsLeft'
    BY <1>38 DEF GcLock, GcOther, ReqFree
<1>39. ASSUME NEW g \in Collectors, NEW j \in Jobs, NEW q \in Queues, GcLink(g, j, q) PROVE DroppedAgentsLeft'
    BY <1>39 DEF GcLink, QueueFree
<1>40. ASSUME NEW g \in Collectors, GcCommit(g) PROVE DroppedAgentsLeft'
    BY <1>40 DEF GcCommit, CommitRequest, Relinked
<1>41. ASSUME NEW g \in Collectors, NEW j \in Jobs, GcOrphan(g, j) PROVE DroppedAgentsLeft'
    BY <1>41 DEF GcOrphan
<1>42. ASSUME NEW g \in Collectors, GcUnlock(g) PROVE DroppedAgentsLeft'
    BY <1>42 DEF GcUnlock
<1>43. ASSUME NEW g \in Collectors, GcOtherDrop(g) PROVE DroppedAgentsLeft'
    BY <1>43 DEF GcOtherDrop
<1>44. ASSUME NEW g \in Collectors, GcRemove(g) PROVE DroppedAgentsLeft'
    BY <1>44 DEF GcRemove, GcAllDone
<1>45. ASSUME NEW g \in Collectors, GcStillOwns(g) PROVE DroppedAgentsLeft'
    BY <1>45 DEF GcStillOwns, GcAllDone, Stop
<1>46. ASSUME NEW g \in Collectors, GcUnregister(g) PROVE DroppedAgentsLeft'
    BY <1>46 DEF GcUnregister, RegisterFree
<1>47. CASE UNCHANGED vars
    BY <1>47 DEF vars
<1> HIDE DEF TypeOK, ProcessShape, Up, Linking, Switching, HasQueue, Collecting, AgentInv,
             AgentLife, CollectorOwnsTarget, DroppedAgentsLeft, Dropper
<1> QED
    BY <1>1, <1>2, <1>3, <1>4, <1>5, <1>6, <1>7, <1>8, <1>9, <1>10, <1>11, <1>12, <1>13,
       <1>14, <1>15, <1>16, <1>17, <1>18, <1>19, <1>20, <1>21, <1>22, <1>23, <1>24, <1>25,
       <1>26, <1>27, <1>28, <1>29, <1>30, <1>31, <1>32, <1>33, <1>34, <1>35, <1>36, <1>37,
       <1>38, <1>39, <1>40, <1>41, <1>42, <1>43, <1>44, <1>45, <1>46, <1>47
    DEF Next, Lifecycle, FrontendStep, SwitchStep, WorkerStep, CollectorStep

\* No step makes an agent object unreachable for the collectors.
LEMMA ReachableStep == AgentInv /\ [Next]_vars => AgentIsReachable'
<1> SUFFICES ASSUME AgentInv, [Next]_vars PROVE AgentIsReachable'
    OBVIOUS
<1> USE Kinds, Addressing
<1>1. ASSUME NEW g \in Collectors, NEW skipped \in SUBSET (Requests \cup Agents), GcFetchAndSort(g, skipped) PROVE AgentIsReachable'
    BY <1>1, OnlyCollectorsCollect
    DEF GcFetchAndSort, StillOwned, AgentInv, TypeOK, AgentIsReachable, Collecting
<1> USE DEF TypeOK, ProcessShape, Up, Linking, Switching, HasQueue, Collecting, AgentInv,
            AgentLife, CollectorOwnsTarget, DroppedAgentsLeft, Dropper, AgentIsReachable
<1>2. ASSUME NEW p \in Agents, RegisterAgent(p) PROVE AgentIsReachable'
    BY <1>2 DEF RegisterAgent, RegisterFree
<1>3. ASSUME NEW p \in Agents, InsertAgent(p) PROVE AgentIsReachable'
    BY <1>3 DEF InsertAgent
<1>4. ASSUME NEW p \in Agents, Shutdown(p) PROVE AgentIsReachable'
    BY <1>4 DEF Shutdown
<1>5. ASSUME NEW p \in Agents, Unregister(p) PROVE AgentIsReachable'
    BY <1>5 DEF Unregister, RegisterFree
<1>6. ASSUME NEW p \in Agents, Crash(p) PROVE AgentIsReachable'
    BY <1>6 DEF Crash, Stop
<1>7. ASSUME NEW p \in Agents, Unown(p) PROVE AgentIsReachable'
    BY <1>7 DEF Unown
<1>8. ASSUME NEW p \in Agents, NEW j \in Jobs, SwitchOwner(p, j) PROVE AgentIsReachable'
    BY <1>8 DEF SwitchOwner, ReqFree, Switchable, NewOwner, PreviousOwner
<1>9. ASSUME NEW p \in Agents, NEW j \in Jobs, SwitchRefused(p, j) PROVE AgentIsReachable'
    BY <1>9 DEF SwitchRefused, ReqFree, Switchable, NewOwner, PreviousOwner
<1>10. ASSUME NEW p \in Agents, NEW j \in Jobs, SwitchTimeout(p, j) PROVE AgentIsReachable'
    BY <1>10 DEF SwitchTimeout
<1>11. ASSUME NEW p \in Agents, NEW j \in Jobs, SwitchError(p, j) PROVE AgentIsReachable'
    BY <1>11 DEF SwitchError
<1>12. ASSUME NEW p \in Agents, NEW j \in Jobs, SwitchUnlockFailed(p, j) PROVE AgentIsReachable'
    BY <1>12 DEF SwitchUnlockFailed, ReqFree, Switchable, NewOwner, PreviousOwner
<1>13. ASSUME NEW f \in Frontends, NEW r \in Requests, CreateOwn(f, r) PROVE AgentIsReachable'
    BY <1>13 DEF CreateOwn
<1>14. ASSUME NEW f \in Frontends, CreateInsert(f) PROVE AgentIsReachable'
    BY <1>14 DEF CreateInsert
<1>15. ASSUME NEW f \in Frontends, CreateRelock(f) PROVE AgentIsReachable'
    BY <1>15 DEF CreateRelock, ReqFree
<1>16. ASSUME NEW f \in Frontends, CreateRelockGone(f) PROVE AgentIsReachable'
    BY <1>16 DEF CreateRelockGone
<1>17. ASSUME NEW f \in Frontends, NEW j \in Jobs, CreateLink(f, j) PROVE AgentIsReachable'
    BY <1>17 DEF CreateLink, QueueFree
<1>18. ASSUME NEW f \in Frontends, CreateCommit(f) PROVE AgentIsReachable'
    BY <1>18 DEF CreateCommit, CommitRequest, Relinked
<1>19. ASSUME NEW f \in Frontends, CreateRelease(f) PROVE AgentIsReachable'
    BY <1>19 DEF CreateRelease
<1>20. ASSUME NEW r \in Requests, Cancel(r) PROVE AgentIsReachable'
    BY <1>20 DEF Cancel, ReqFree
<1>21. ASSUME NEW w \in Workers, NEW q \in Queues, NEW S \in SUBSET refs[q], PopSelect(w, q, S) PROVE AgentIsReachable'
    BY <1>21 DEF PopSelect, QueueFree, NoJobYet
<1>22. ASSUME NEW w \in Workers, PopFinish(w) PROVE AgentIsReachable'
    BY <1>22 DEF PopFinish, ReleaseQueue
<1>23. ASSUME NEW w \in Workers, NEW q \in Queues, NEW S \in SUBSET held[w], Requeue(w, q, S) PROVE AgentIsReachable'
    BY <1>23 DEF Requeue, QueueFree
<1>24. ASSUME NEW w \in Workers, RequeueFinish(w) PROVE AgentIsReachable'
    BY <1>24 DEF RequeueFinish, ReleaseQueue
<1>25. ASSUME NEW w \in Workers, NEW j \in Jobs, Complete(w, j) PROVE AgentIsReachable'
    BY <1>25 DEF Complete, ReqFree
<1>26. ASSUME NEW w \in Workers, NEW j \in Jobs, DeleteReported(w, j) PROVE AgentIsReachable'
    BY <1>26 DEF DeleteReported, ReqFree
<1>27. ASSUME NEW w \in Workers, NEW j \in Jobs, DeleteFailed(w, j) PROVE AgentIsReachable'
    BY <1>27 DEF DeleteFailed
<1>28. ASSUME NEW w \in Workers, NEW j \in Jobs, LeaveOwned(w, j) PROVE AgentIsReachable'
    BY <1>28 DEF LeaveOwned
<1>29. ASSUME NEW g \in Collectors, NEW a \in Agents, GcClaim(g, a) PROVE AgentIsReachable'
    BY <1>29 DEF GcClaim, AgentFree
<1>30. ASSUME NEW g \in Collectors, GcTake(g) PROVE AgentIsReachable'
    BY <1>30 DEF GcTake
<1>31. ASSUME NEW g \in Collectors, GcTrack(g) PROVE AgentIsReachable'
    BY <1>31 DEF GcTrack, RegisterFree
<1>32. ASSUME NEW g \in Collectors, NEW q \in Queues, NEW S \in SUBSET pending[g], GcReference(g, q, S) PROVE AgentIsReachable'
    BY <1>32 DEF GcReference, QueueFree
<1>33. ASSUME NEW g \in Collectors, GcFinish(g) PROVE AgentIsReachable'
    BY <1>33 DEF GcFinish, ReleaseQueue
<1>34. ASSUME NEW g \in Collectors, GcDrop(g) PROVE AgentIsReachable'
    BY <1>34 DEF GcDrop
<1>35. ASSUME NEW g \in Collectors, NEW x \in Requests \cup Agents, GcOtherSkip(g, x) PROVE AgentIsReachable'
    BY <1>35 DEF GcOtherSkip, GcOther
<1>36. ASSUME NEW g \in Collectors, NEW a \in Agents, GcUntrack(g, a) PROVE AgentIsReachable'
    BY <1>36 DEF GcUntrack, GcOther, RegisterFree
<1>37. ASSUME NEW g \in Collectors, GcSetOwner(g) PROVE AgentIsReachable'
    BY <1>37 DEF GcSetOwner
<1>38. ASSUME NEW g \in Collectors, NEW r \in Requests, GcLock(g, r) PROVE AgentIsReachable'
    BY <1>38 DEF GcLock, GcOther, ReqFree
<1>39. ASSUME NEW g \in Collectors, NEW j \in Jobs, NEW q \in Queues, GcLink(g, j, q) PROVE AgentIsReachable'
    BY <1>39 DEF GcLink, QueueFree
<1>40. ASSUME NEW g \in Collectors, GcCommit(g) PROVE AgentIsReachable'
    BY <1>40 DEF GcCommit, CommitRequest, Relinked
<1>41. ASSUME NEW g \in Collectors, NEW j \in Jobs, GcOrphan(g, j) PROVE AgentIsReachable'
    BY <1>41 DEF GcOrphan
<1>42. ASSUME NEW g \in Collectors, GcUnlock(g) PROVE AgentIsReachable'
    BY <1>42 DEF GcUnlock
<1>43. ASSUME NEW g \in Collectors, GcOtherDrop(g) PROVE AgentIsReachable'
    BY <1>43 DEF GcOtherDrop
<1>44. ASSUME NEW g \in Collectors, GcRemove(g) PROVE AgentIsReachable'
    BY <1>44 DEF GcRemove, GcAllDone
<1>45. ASSUME NEW g \in Collectors, GcStillOwns(g) PROVE AgentIsReachable'
    BY <1>45 DEF GcStillOwns, GcAllDone, Stop
<1>46. ASSUME NEW g \in Collectors, GcUnregister(g) PROVE AgentIsReachable'
    BY <1>46 DEF GcUnregister, RegisterFree
<1>47. CASE UNCHANGED vars
    BY <1>47 DEF vars
<1> HIDE DEF TypeOK, ProcessShape, Up, Linking, Switching, HasQueue, Collecting, AgentInv,
             AgentLife, CollectorOwnsTarget, DroppedAgentsLeft, Dropper, AgentIsReachable
<1> QED
    BY <1>1, <1>2, <1>3, <1>4, <1>5, <1>6, <1>7, <1>8, <1>9, <1>10, <1>11, <1>12, <1>13,
       <1>14, <1>15, <1>16, <1>17, <1>18, <1>19, <1>20, <1>21, <1>22, <1>23, <1>24, <1>25,
       <1>26, <1>27, <1>28, <1>29, <1>30, <1>31, <1>32, <1>33, <1>34, <1>35, <1>36, <1>37,
       <1>38, <1>39, <1>40, <1>41, <1>42, <1>43, <1>44, <1>45, <1>46, <1>47
    DEF Next, Lifecycle, FrontendStep, SwitchStep, WorkerStep, CollectorStep

\* The part of the invariant about agents holds initially and is kept.
LEMMA AgentInvInit == Init => AgentInv
<1> SUFFICES ASSUME Init PROVE AgentInv
    OBVIOUS
<1> USE Kinds, Addressing DEF Init
<1>1. TypeOK
    BY BoundsAssumption DEF TypeOK, NoJobs, PcLabels
<1>2. ProcessShape /\ LockExclusion
    BY DEF ProcessShape, LockExclusion, Linking, Switching, HasQueue, Collecting
<1>3. AgentLife /\ CollectorOwnsTarget
    BY DEF AgentLife, CollectorOwnsTarget, Collecting, Up
<1>4. DroppedAgentsLeft /\ AgentIsReachable
    BY DEF DroppedAgentsLeft, AgentIsReachable
<1> QED
    BY <1>1, <1>2, <1>3, <1>4 DEF AgentInv

\* The steps above, put together.
LEMMA AgentInvStep == AgentInv /\ [Next]_vars => AgentInv'
    BY TypeStep, ShapeStep, LockStep, AgentLifeStep, TargetStep, DroppedAgentsStep, ReachableStep
    DEF AgentInv

\* The part of the invariant about agents is an invariant of the protocol.
LEMMA AgentInvariant == Spec => []AgentInv
    BY AgentInvInit, AgentInvStep, PTL DEF Spec

\* Type correctness of the ownership protocol, for any number of processes,
\* requests, copies and queues, and any number of crashes and errors.
THEOREM TypeCorrect == Spec => []TypeOK
<1>1. AgentInv => TypeOK
    BY DEF AgentInv
<1> QED
    BY <1>1, AgentInvariant, PTL

\* Whatever processes die, and wherever collectors die while they collect other
\* collectors, every agent object left in the store can be found: from the
\* register, or from the list of the collector that took it over
\* (Agent::insertAndRegisterSelf, GarbageCollector::cleanupDeadAgent,
\* Agent::garbageCollect, Agent::removeAndUnregisterSelf).
THEOREM AgentsStayReachable == Spec => []AgentIsReachable
<1>1. AgentInv => AgentIsReachable
    BY DEF AgentInv
<1> QED
    BY <1>1, AgentInvariant, PTL
=============================================================================
