-------------------------- MODULE TapeDaemonProofs --------------------------
(***************************************************************************)
(* The daemon of a tape server and its children, for any set of drives and *)
(* any of the faults: no drive has two sessions, what a daemon that exits  *)
(* leaves behind, when a session may send for a tape while its drive holds *)
(* one, and that no cleaner session is ever started.                       *)
(***************************************************************************)
EXTENDS TapeDaemon, Integers, SequenceTheorems, TLAPS

\* What the handler of a drive keeps, as TypeOK has it.
HandlerType ==
    [state : SessionStates, type : SessionTypes,
     previous : {"Initiating", "Up", "Crashed"},
     previousTape : BOOLEAN, previousCleanup : BOOLEAN,
     vid : BOOLEAN, previousVid : BOOLEAN,
     fork : BOOLEAN, shutdown : BOOLEAN, complete : BOOLEAN]
ReportType == [state : Reported, type : SessionTypes, vid : BOOLEAN]
Processes == Live \cup Zombies \cup {"none"}
SignalType == [requested : BOOLEAN, acknowledged : BOOLEAN, shutdown : BOOLEAN,
               kill : BOOLEAN, sigChild : BOOLEAN]
MaintenanceType == [shuttingDown : BOOLEAN, fork : BOOLEAN, complete : BOOLEAN]

\* TypeOK with these names.
Typed ==
    /\ loop \in {"sigchild", "shutdown", "kill", "fork", "timeouts", "epoll", "exited"}
    /\ signals \subseteq {"TERM", "CHLD"}
    /\ sh \in SignalType
    /\ killClock \in {"off", "armed", "due"}
    /\ dh \in [Drives -> HandlerType]
    /\ clock \in [Drives -> {"off", "armed", "due"}]
    /\ socket \in [Drives -> BOOLEAN]
    /\ mh \in MaintenanceType
    /\ proc \in [Drives -> Processes]
    /\ hung \subseteq Drives
    /\ reports \in [Drives -> Seq(ReportType)]
    /\ tapeIn \subseteq Drives
    /\ desiredUp \subseteq Drives
    /\ mproc \in {"none", "running"} \cup Zombies
    /\ mtold \in BOOLEAN /\ mhung \in BOOLEAN
    /\ faults \subseteq Faults

-----------------------------------------------------------------------------
(***************************************************************************)
(* Types.                                                                  *)
(***************************************************************************)
LEMMA TypedIsTypeOK == (TypeOK <=> Typed) /\ (TypeOK' <=> Typed')
<1> QED
  BY DEF TypeOK, Typed, HandlerType, ReportType, Processes, SignalType, MaintenanceType

LEMMA InitTyped == Init => TypeOK
<1> SUFFICES ASSUME Init PROVE TypeOK
  OBVIOUS
<1>1. dh \in [Drives -> HandlerType]
  BY DEF Init, HandlerType, SessionStates, SessionTypes
<1>2. reports \in [Drives -> Seq(ReportType)]
  BY DEF Init
<1>3. proc \in [Drives -> Processes]
  BY DEF Init, Processes
<1> QED
  BY <1>1, <1>2, <1>3 DEF Init, TypeOK, HandlerType, ReportType, Processes

\* resetToDefault gives a handler of the same type, with a clean slate.
LEMMA ResetTyped ==
    ASSUME NEW h \in HandlerType, NEW how \in {"Up", "Crashed"},
           NEW r, r = [resetToDefault(h, how) EXCEPT !.fork = TRUE]
    PROVE  /\ r \in HandlerType
           /\ r.previous = how /\ r.state = "PendingFork" /\ ~r.complete
           /\ r.previousTape = (h.state \in RequiringCleaner)
           /\ r.previousCleanup = (h.type = "Cleanup")
           /\ r.previousVid = h.vid /\ ~r.vid
<1> DEFINE tape == h.state \in RequiringCleaner
           cleanup == h.type = "Cleanup"
<1>1. tape \in BOOLEAN /\ cleanup \in BOOLEAN
  OBVIOUS
<1>2. r = [h EXCEPT !.previous = how, !.previousTape = tape, !.previousCleanup = cleanup,
                    !.previousVid = h.vid,
                    !.state = "PendingFork", !.type = "Undetermined", !.vid = FALSE,
                    !.fork = TRUE, !.shutdown = FALSE, !.complete = FALSE]
  BY DEF resetToDefault, HandlerType
<1> HIDE DEF tape, cleanup
<1>3. /\ r \in HandlerType
      /\ r.previous = how /\ r.state = "PendingFork" /\ ~r.complete
      /\ r.previousTape = tape /\ r.previousCleanup = cleanup
      /\ r.previousVid = h.vid /\ ~r.vid
  BY <1>1, <1>2 DEF HandlerType, SessionStates, SessionTypes
<1> QED
  BY <1>3 DEF tape, cleanup

LEMMA NoReports == <<>> \in Seq(ReportType)
<1> QED
  OBVIOUS

LEMMA SigChildTyped ==
    ASSUME TypeOK, SigChildManagement
    PROVE  TypeOK'
<1>1. CASE ~sh.sigChild
  BY <1>1 DEF TypeOK, SigChildManagement, driveVars
<1>2. CASE sh.sigChild
  <2>1. Reap
    BY <1>2 DEF SigChildManagement
  <2>2. dh' \in [Drives -> HandlerType]
    <3>1. ASSUME NEW d \in Drives PROVE DriveSigChild(d) \in HandlerType
      <4>1. dh[d] \in HandlerType
        BY DEF TypeOK, HandlerType
      <4>2. [dh[d] EXCEPT !.fork = FALSE] \in HandlerType
        BY <4>1 DEF HandlerType
      <4> QED
        BY <4>1, <4>2, ResetTyped DEF DriveSigChild
    <3> QED
      BY <2>1, <3>1 DEF Reap
  <2>3. reports' \in [Drives -> Seq(ReportType)]
    BY <2>1, NoReports DEF Reap, TypeOK, ReportType
  <2>4. proc' \in [Drives -> Processes]
    BY <2>1 DEF Reap, TypeOK, Processes
  <2>5. mh' \in [shuttingDown : BOOLEAN, fork : BOOLEAN, complete : BOOLEAN]
    BY <2>1 DEF Reap, TypeOK, MaintenanceSigChild
  <2>6. mproc' \in {"none", "running"} \cup Zombies
    BY <2>1 DEF Reap, TypeOK
  <2>7. clock' \in [Drives -> {"off", "armed", "due"}] /\ socket' \in [Drives -> BOOLEAN]
    BY <2>1 DEF Reap, TypeOK
  <2>8. sh' \in [requested : BOOLEAN, acknowledged : BOOLEAN, shutdown : BOOLEAN,
                 kill : BOOLEAN, sigChild : BOOLEAN]
    BY <2>1 DEF Reap, TypeOK
  <2>9. /\ loop' \in {"shutdown", "exited"}
        /\ UNCHANGED <<signals, killClock, hung, tapeIn, desiredUp, mtold, mhung, faults>>
    BY DEF SigChildManagement, driveVars
  <2> QED
    BY <2>2, <2>3, <2>4, <2>5, <2>6, <2>7, <2>8, <2>9
    DEF TypeOK, HandlerType, ReportType, Processes
<1> QED
  BY <1>1, <1>2

LEMMA ShutdownTyped ==
    ASSUME TypeOK, ShutdownManagement
    PROVE  TypeOK'
<1>1. CASE ~Asked
  BY <1>1 DEF TypeOK, ShutdownManagement, sessionVars, driveVars, maintenanceVars
<1>2. CASE Asked /\ ShutdownAll
  <2>1. ShutdownDrives(Drives)
    BY <1>2 DEF ShutdownAll
  <2>2. dh' \in [Drives -> HandlerType]
    <3>1. ASSUME NEW d \in Drives PROVE DriveShutdown(d) \in HandlerType
      <4>1. dh[d] \in HandlerType
        BY DEF TypeOK, HandlerType
      <4> QED
        BY <4>1 DEF DriveShutdown, HandlerType, SessionStates
    <3> QED
      BY <2>1, <3>1 DEF ShutdownDrives
  <2>3. reports' \in [Drives -> Seq(ReportType)]
    BY <2>1, NoReports DEF ShutdownDrives, TypeOK, ReportType
  <2>4. proc' \in [Drives -> Processes]
    BY <2>1 DEF ShutdownDrives, TypeOK, Processes, Killed
  <2>5. clock' \in [Drives -> {"off", "armed", "due"}] /\ socket' \in [Drives -> BOOLEAN]
    BY <2>1 DEF ShutdownDrives, TypeOK
  <2>6. /\ hung' \subseteq Drives /\ tapeIn' \subseteq Drives /\ desiredUp' \subseteq Drives
        /\ signals' \subseteq {"TERM", "CHLD"}
    BY <2>1 DEF ShutdownDrives, TypeOK, UpAfterShutdown, CleanedTapes
  <2>7. sh' \in [requested : BOOLEAN, acknowledged : BOOLEAN, shutdown : BOOLEAN,
                 kill : BOOLEAN, sigChild : BOOLEAN]
    BY <1>2 DEF ShutdownAll, TypeOK
  <2>8. /\ loop' \in {"exited", "kill"}
        /\ mh' \in [shuttingDown : BOOLEAN, fork : BOOLEAN, complete : BOOLEAN]
        /\ mproc' \in {"none", "running"} \cup Zombies
        /\ mtold' \in BOOLEAN /\ mhung' \in BOOLEAN
    BY <1>2 DEF ShutdownAll, LeaveByException, MaintenanceShutdown, TypeOK
  <2>9. faults' \subseteq Faults /\ killClock' = killClock
    BY <2>1 DEF ShutdownDrives, Trouble, Fault, ShutdownManagement, TypeOK
  <2> QED
    BY <2>2, <2>3, <2>4, <2>5, <2>6, <2>7, <2>8, <2>9
    DEF TypeOK, HandlerType, ReportType, Processes
<1>3. CASE Asked /\ ShutdownFails
  <2>1. PICK d \in Drives :
          /\ proc' = [proc EXCEPT ![d] = "none"]
          /\ hung' = hung \ {d}
          /\ socket' = [socket EXCEPT ![d] = FALSE]
          /\ reports' = [reports EXCEPT ![d] = <<>>]
    BY <1>3 DEF ShutdownFails, Killed
  <2>2. reports' \in [Drives -> Seq(ReportType)]
    BY <2>1, NoReports DEF TypeOK, ReportType
  <2>3. proc' \in [Drives -> Processes]
    BY <2>1 DEF TypeOK, Processes
  <2>4. hung' \subseteq Drives /\ socket' \in [Drives -> BOOLEAN]
    BY <2>1 DEF TypeOK
  <2>5. faults' \subseteq Faults
    BY <1>3 DEF ShutdownFails, Trouble, Fault, TypeOK
  <2>6. /\ UNCHANGED <<signals, sh, dh, clock, tapeIn, desiredUp, mh, mtold, killClock>>
        /\ loop' = "exited" /\ mproc' = "none" /\ mhung' = FALSE
    BY <1>3 DEF ShutdownFails, LeaveByException, driveVars, ShutdownManagement
  <2> QED
    BY <2>2, <2>3, <2>4, <2>5, <2>6 DEF TypeOK, ReportType, Processes
<1> QED
  BY <1>1, <1>2, <1>3 DEF ShutdownManagement

LEMMA KillTyped ==
    ASSUME TypeOK, KillManagement
    PROVE  TypeOK'
<1>1. CASE ~sh.kill
  BY <1>1 DEF TypeOK, KillManagement, sessionVars, driveVars
<1>2. CASE sh.kill
  <2>1. reports' \in [Drives -> Seq(ReportType)]
    BY <1>2, NoReports DEF KillManagement
  <2>2. proc' \in [Drives -> Processes]
    BY <1>2 DEF KillManagement, Processes, Killed
  <2>3. /\ mproc' = "none" /\ hung' = {} /\ mhung' = FALSE /\ loop' = "exited"
        /\ socket' = [d \in Drives |-> FALSE]
        /\ UNCHANGED <<signals, sh, killClock, dh, clock, mh, tapeIn, desiredUp, mtold, faults>>
    BY <1>2 DEF KillManagement, driveVars
  <2> QED
    BY <2>1, <2>2, <2>3 DEF TypeOK, ReportType, Processes
<1> QED
  BY <1>1, <1>2

\* The forks of a pass: some of them may fail, and then SIGTERM follows.
LEMMA ForksSome ==
    ASSUME ForkManagement
    PROVE  \E cannot \in SUBSET DriveForks, mcannot \in {FALSE, mh.fork} :
               /\ ForkAll(cannot, mcannot)
               /\ \/ cannot = {} /\ ~mcannot /\ UNCHANGED <<signals, faults>>
                  \/ signals' = signals \cup {"TERM"} /\ Trouble("fork")
<1>1. CASE ForkAll({}, FALSE) /\ UNCHANGED <<signals, faults>>
  BY <1>1
<1> QED
  BY <1>1 DEF ForkManagement

LEMMA ForkTyped ==
    ASSUME TypeOK, ForkManagement
    PROVE  TypeOK'
<1>0. PICK cannot \in SUBSET DriveForks, mcannot \in {FALSE, mh.fork} :
        /\ ForkAll(cannot, mcannot)
        /\ \/ UNCHANGED <<signals, faults>>
           \/ signals' = signals \cup {"TERM"} /\ Trouble("fork")
  BY ForksSome
<1>1. \A d \in Drives :
        /\ [dh[d] EXCEPT !.fork = FALSE] \in HandlerType
        /\ DriveForkFailed(dh[d]) \in HandlerType
  <2> SUFFICES ASSUME NEW d \in Drives
               PROVE  /\ [dh[d] EXCEPT !.fork = FALSE] \in HandlerType
                      /\ DriveForkFailed(dh[d]) \in HandlerType
    OBVIOUS
  <2>1. dh[d] \in HandlerType
    BY DEF TypeOK, HandlerType
  <2> QED
    BY <2>1 DEF DriveForkFailed, HandlerType, SessionStates
<1>2. dh' \in [Drives -> HandlerType]
  BY <1>0, <1>1 DEF ForkAll
<1>3. proc' \in [Drives -> Processes]
  <2>1. \A d \in Drives : proc[d] \in Processes /\ "start" \in Processes
    BY DEF TypeOK, Processes, Live
  <2> QED
    BY <1>0, <2>1 DEF ForkAll
<1>4. socket' \in [Drives -> BOOLEAN] /\ mtold' \in BOOLEAN
  BY <1>0 DEF ForkAll
<1>5. /\ mh' \in [shuttingDown : BOOLEAN, fork : BOOLEAN, complete : BOOLEAN]
      /\ mproc' \in {"none", "running"} \cup Zombies
  <2>1. PICK c \in BOOLEAN : mh' = [mh EXCEPT !.fork = FALSE, !.complete = c]
    BY <1>0 DEF ForkAll
  <2>2. mproc' = mproc \/ mproc' = "running"
    BY <1>0 DEF ForkAll
  <2> QED
    BY <2>1, <2>2 DEF TypeOK
<1>6. signals' \subseteq {"TERM", "CHLD"} /\ faults' \subseteq Faults
  BY <1>0 DEF TypeOK, Trouble, Fault
<1>7. loop' = "timeouts" /\ UNCHANGED <<sh, killClock, clock, hung, reports, tapeIn, desiredUp, mhung>>
  BY DEF ForkManagement, driveVars
<1> QED
  BY <1>2, <1>3, <1>4, <1>5, <1>6, <1>7 DEF TypeOK, HandlerType, Processes

LEMMA TimeoutsTyped ==
    ASSUME TypeOK, Timeouts
    PROVE  TypeOK'
<1>0. UNCHANGED <<killClock, socket, mh, reports, tapeIn, desiredUp, mproc, mtold, mhung, faults>>
  BY DEF Timeouts, driveVars, maintenanceVars
<1>1. CASE killClock = "due"
  <2>1. /\ sh' = [sh EXCEPT !.shutdown = FALSE, !.kill = TRUE, !.sigChild = FALSE]
        /\ loop' = "sigchild"
        /\ UNCHANGED <<clock, proc, hung, signals, dh>>
    BY <1>1 DEF Timeouts
  <2> QED
    BY <1>0, <2>1 DEF TypeOK
<1>2. CASE killClock # "due"
  <2>1. proc' \in [Drives -> Processes]
    BY <1>2 DEF TypeOK, Timeouts, Processes, Zombies
  <2>2. clock' \in [Drives -> {"off", "armed", "due"}]
    BY <1>2 DEF TypeOK, Timeouts
  <2>3. /\ hung' \subseteq Drives /\ signals' \subseteq {"TERM", "CHLD"}
        /\ loop' = "epoll" /\ sh' = sh /\ dh' = dh
    BY <1>2 DEF TypeOK, Timeouts
  <2> QED
    BY <1>0, <2>1, <2>2, <2>3 DEF TypeOK, Processes
<1> QED
  BY <1>1, <1>2

LEMMA EpollTyped ==
    ASSUME TypeOK, Epoll
    PROVE  TypeOK'
<1> DEFINE told == {d \in Drives : socket[d] /\ reports[d] # <<>>}
<1>1. signals' \subseteq {"TERM", "CHLD"} /\ killClock' \in {"off", "armed", "due"}
  BY DEF TypeOK, Epoll, ReadSignal, KillClockOnce
<1>2. sh' \in [requested : BOOLEAN, acknowledged : BOOLEAN, shutdown : BOOLEAN,
               kill : BOOLEAN, sigChild : BOOLEAN]
  <2>1. CASE signals = {}
    BY <2>1 DEF TypeOK, Epoll, ReadSignal
  <2>2. CASE signals # {}
    <3> DEFINE s == IF "TERM" \in signals THEN "TERM" ELSE "CHLD"
               r == sh.requested \/ s = "TERM"
               w == r /\ ~sh.acknowledged
               c == sh.sigChild \/ s = "CHLD"
    <3>1. r \in BOOLEAN /\ w \in BOOLEAN /\ c \in BOOLEAN
      OBVIOUS
    <3>2. sh' = [sh EXCEPT !.requested = r, !.shutdown = w, !.kill = FALSE, !.sigChild = c]
      BY <2>2 DEF Epoll, ReadSignal
    <3> HIDE DEF r, w, c
    <3> QED
      BY <3>1, <3>2 DEF TypeOK
  <2> QED
    BY <2>1, <2>2
<1>3. ASSUME NEW d \in told
      PROVE  /\ DriveEvent(d) \in HandlerType
             /\ Tail(reports[d]) \in Seq(ReportType)
  <2>1. dh[d] \in HandlerType /\ reports[d] \in Seq(ReportType) /\ reports[d] # <<>>
    BY DEF TypeOK, HandlerType, ReportType
  <2>2. Head(reports[d]) \in ReportType /\ Tail(reports[d]) \in Seq(ReportType)
    BY <2>1
  <2>3. PICK w \in BOOLEAN, v \in BOOLEAN : DriveEvent(d) =
            [dh[d] EXCEPT !.state = Head(reports[d]).state, !.type = Head(reports[d]).type,
                          !.vid = v, !.shutdown = w]
    BY DEF DriveEvent
  <2> QED
    BY <2>1, <2>2, <2>3 DEF HandlerType, ReportType, SessionStates
<1>4. dh' \in [Drives -> HandlerType]
  BY <1>3 DEF Epoll, TypeOK, HandlerType
<1>5. reports' \in [Drives -> Seq(ReportType)]
  BY <1>3 DEF Epoll, TypeOK, ReportType
<1>6. clock' \in [Drives -> {"off", "armed", "due"}] /\ socket' \in [Drives -> BOOLEAN]
  BY DEF Epoll, TypeOK, nextTimeout
<1>7. /\ loop' = "sigchild"
      /\ UNCHANGED <<mh, proc, hung, tapeIn, desiredUp, mproc, mtold, mhung, faults>>
  BY DEF Epoll, driveVars, maintenanceVars
<1> QED
  BY <1>1, <1>2, <1>4, <1>5, <1>6, <1>7 DEF TypeOK, HandlerType, ReportType, Processes

\* What the steps of a session leave alone, and what they may do to the rest.
LEMMA SessionFrame ==
    ASSUME TypeOK, NEW d \in Drives, SessionStep(d) \/ SessionFault(d)
    PROVE  /\ UNCHANGED <<loop, sh, killClock, dh, clock, socket, mh, mproc, mtold, mhung>>
           /\ \E to \in Processes : proc' = [proc EXCEPT ![d] = to]
           /\ hung' \subseteq hung \cup {d}
           /\ signals' = signals \/ signals' = signals \cup {"CHLD"}
           /\ tapeIn' = tapeIn \/ tapeIn' = tapeIn \ {d} \/ tapeIn' = tapeIn \cup {d}
           /\ desiredUp' = desiredUp \/ desiredUp' = desiredUp \ {d}
           /\ faults' = faults \/ \E k \in Faults : faults' = faults \cup {k}
<1> USE DEF Processes, Live, TapeSteps, Zombies
<1>1. ASSUME NEW from, NEW to \in Processes, Session(d, from, to)
      PROVE  /\ UNCHANGED <<loop, sh, killClock, dh, clock, socket, mh, mproc, mtold, mhung>>
             /\ \E t \in Processes : proc' = [proc EXCEPT ![d] = t]
             /\ hung' \subseteq hung \cup {d}
  BY <1>1 DEF Session, maintenanceVars
<1>2. CASE RunChild(d)
  BY <1>2, <1>1 DEF RunChild, SessionKind, driveVars
<1>4. CASE SeeDown(d)
  BY <1>4, <1>1 DEF SeeDown, driveVars
<1>5. CASE SeeUp(d)
  BY <1>5, <1>1 DEF SeeUp, driveVars
<1>6. CASE Probe(d)
  BY <1>6, <1>1 DEF Probe, PutDown, driveVars
<1>7. CASE Schedule(d)
  BY <1>7, <1>1 DEF Schedule, PutDown, driveVars
<1>8. CASE MountTape(d)
  BY <1>8, <1>1 DEF MountTape, driveVars
<1>9. CASE RunTape(d)
  BY <1>9, <1>1 DEF RunTape, driveVars
<1>10. CASE Unload(d)
  BY <1>10, <1>1 DEF Unload, driveVars
<1>11. CASE Dismount(d)
  BY <1>11, <1>1 DEF Dismount, driveVars
<1>12. CASE Leave(d)
  BY <1>12, <1>1 DEF Leave, driveVars
<1>13. CASE StorageFails(d)
  BY <1>13, <1>1 DEF StorageFails, Trouble, Fault, driveVars
<1>14. CASE UnmountFails(d)
  BY <1>14, <1>1 DEF UnmountFails, Trouble, Fault, PutDown, driveVars
<1>15. CASE Crash(d)
  BY <1>15, <1>1 DEF Crash, Fault, driveVars
<1>16. CASE Hang(d)
  <2>1. proc' = [proc EXCEPT ![d] = proc[d]] /\ proc[d] \in Processes
    BY <1>16 DEF Hang, TypeOK
  <2> QED
    BY <1>16, <2>1 DEF Hang, Fault, daemonVars, maintenanceVars, driveVars
<1> QED
  BY <1>2, <1>4, <1>5, <1>6, <1>7, <1>8, <1>9, <1>10, <1>11, <1>12, <1>13, <1>14, <1>15, <1>16
     DEF SessionStep, SessionFault

\* What a session may do to its reports.
MountReports == <<StateReport("Scheduling", "Undetermined"), StateReport("Mounting", "Transfer")>>
Reports(d) ==
    \/ UNCHANGED reports
    \/ \E st \in Reported, ty \in SessionTypes : Report(d, st, ty)
    \/ reports' = [reports EXCEPT ![d] = @ \o MountReports]

LEMMA SessionReports ==
    ASSUME NEW d \in Drives, SessionStep(d) \/ SessionFault(d)
    PROVE  Reports(d)
<1>1. CASE SessionFault(d)
  BY <1>1 DEF SessionFault, StorageFails, UnmountFails, Crash, Hang, Reported, SessionTypes, Reports
<1>2. CASE RunChild(d) \/ SeeDown(d) \/ SeeUp(d) \/ Probe(d) \/ Leave(d)
  BY <1>2 DEF RunChild, SeeDown, SeeUp, Probe, Leave, Reports
<1>3. CASE Schedule(d)
  BY <1>3 DEF Schedule, Reported, SessionTypes, Reports, MountReports
<1>4. CASE MountTape(d) \/ RunTape(d) \/ Unload(d) \/ Dismount(d)
  BY <1>4 DEF MountTape, RunTape, Unload, Dismount, Reported, SessionTypes, Reports
<1> QED
  BY <1>1, <1>2, <1>3, <1>4 DEF SessionStep

\* A report without a VID is all that a session ever sends.
Vidless == [state : Reported, type : SessionTypes, vid : {FALSE}]

LEMMA ReportsVidless ==
    ASSUME NEW S, Vidless \subseteq S, reports \in [Drives -> Seq(S)],
           NEW d \in Drives, Reports(d)
    PROVE  reports' \in [Drives -> Seq(S)]
<1>0. reports[d] \in Seq(S)
  OBVIOUS
<1>1. ASSUME NEW st \in Reported, NEW ty \in SessionTypes PROVE StateReport(st, ty) \in S
  BY DEF StateReport, ReportedVid, Vidless
<1>2. CASE \E st \in Reported, ty \in SessionTypes : Report(d, st, ty)
  <2>1. PICK st \in Reported, ty \in SessionTypes : Report(d, st, ty)
    BY <1>2
  <2>2. Append(reports[d], StateReport(st, ty)) \in Seq(S)
    BY <1>0, <1>1
  <2> QED
    BY <2>1, <2>2 DEF Report
<1>3. CASE reports' = [reports EXCEPT ![d] = @ \o MountReports]
  <2>1. MountReports \in Seq(S)
    BY <1>1 DEF MountReports, Reported, SessionTypes
  <2>2. reports[d] \o MountReports \in Seq(S)
    BY <1>0, <2>1
  <2> QED
    BY <1>3, <2>2
<1> QED
  BY <1>2, <1>3 DEF Reports

LEMMA SessionTyped ==
    ASSUME TypeOK, NEW d \in Drives, SessionStep(d) \/ SessionFault(d)
    PROVE  TypeOK'
<1>0. /\ UNCHANGED <<loop, sh, killClock, dh, clock, socket, mh, mproc, mtold, mhung>>
      /\ \E to \in Processes : proc' = [proc EXCEPT ![d] = to]
      /\ hung' \subseteq hung \cup {d}
      /\ signals' = signals \/ signals' = signals \cup {"CHLD"}
      /\ tapeIn' = tapeIn \/ tapeIn' = tapeIn \ {d} \/ tapeIn' = tapeIn \cup {d}
      /\ desiredUp' = desiredUp \/ desiredUp' = desiredUp \ {d}
      /\ faults' = faults \/ \E k \in Faults : faults' = faults \cup {k}
  BY SessionFrame
<1> Typed
  BY TypedIsTypeOK
<1>1. proc' \in [Drives -> Processes]
  BY <1>0 DEF Typed
<1>2. /\ hung' \subseteq Drives /\ signals' \subseteq {"TERM", "CHLD"}
      /\ tapeIn' \subseteq Drives /\ desiredUp' \subseteq Drives /\ faults' \subseteq Faults
  BY <1>0 DEF Typed
<1>3. reports' \in [Drives -> Seq(ReportType)]
  <2>1. Vidless \subseteq ReportType
    BY DEF Vidless, ReportType
  <2> QED
    BY <2>1, SessionReports, ReportsVidless DEF Typed
<1> QED
  BY <1>0, <1>1, <1>2, <1>3, TypedIsTypeOK DEF Typed

\* The maintenance process, the clocks, an operator and SIGTERM.
Elsewhere ==
    \/ MaintenanceStops \/ MaintenanceCrashes \/ MaintenanceHangs
    \/ KillClockRunsOut \/ Terminate
    \/ \E d \in Drives : OperatorPutsUp(d) \/ ClockRunsOut(d)

LEMMA ElsewhereTyped ==
    ASSUME TypeOK, Elsewhere
    PROVE  TypeOK'
<1> USE DEF daemonVars, sessionVars, driveVars, maintenanceVars
<1> SUFFICES Typed'
  BY TypedIsTypeOK
<1> Typed
  BY TypedIsTypeOK
<1>1. CASE MaintenanceStops
  BY <1>1 DEF MaintenanceStops, MaintenanceEnds, Typed, Zombies
<1>2. CASE MaintenanceCrashes
  BY <1>2 DEF MaintenanceCrashes, MaintenanceEnds, Fault, Typed, Zombies
<1>3. CASE MaintenanceHangs
  BY <1>3 DEF MaintenanceHangs, Fault, Typed
<1>4. CASE KillClockRunsOut
  BY <1>4 DEF KillClockRunsOut, Typed
<1>5. CASE Terminate
  BY <1>5 DEF Terminate, Typed
<1>6. ASSUME NEW d \in Drives, OperatorPutsUp(d) PROVE Typed'
  BY <1>6 DEF OperatorPutsUp, Fault, Typed
<1>7. ASSUME NEW d \in Drives, ClockRunsOut(d) PROVE Typed'
  BY <1>7 DEF ClockRunsOut, Typed
<1> QED
  BY <1>1, <1>2, <1>3, <1>4, <1>5, <1>6, <1>7 DEF Elsewhere

LEMMA NextSplits ==
    Next => \/ SigChildManagement \/ ShutdownManagement \/ KillManagement
            \/ ForkManagement \/ Timeouts \/ Epoll \/ Elsewhere
            \/ \E d \in Drives : SessionStep(d) \/ SessionFault(d)
<1> QED
  BY DEF Next, MainLoop, Elsewhere

LEMMA StepTyped == TypeOK /\ [Next]_vars => TypeOK'
<1> SUFFICES ASSUME TypeOK, [Next]_vars PROVE TypeOK'
  OBVIOUS
<1>1. CASE UNCHANGED vars
  BY <1>1, TypedIsTypeOK DEF vars, daemonVars, sessionVars, driveVars, maintenanceVars, Typed
<1>2. CASE Next
  BY <1>2, NextSplits, SigChildTyped, ShutdownTyped, KillTyped, ForkTyped, TimeoutsTyped,
     EpollTyped, SessionTyped, ElsewhereTyped
<1> QED
  BY <1>1, <1>2

\* The handlers, the clocks, the processes and their reports only ever have the
\* values that the code gives them (TypeOK), whatever the drives and the faults.
THEOREM DaemonTyped == Spec => []TypeOK
<1> QED
  BY InitTyped, StepTyped, PTL DEF Spec

-----------------------------------------------------------------------------
(***************************************************************************)
(* What each part of the main loop does to the handler of one drive.       *)
(***************************************************************************)
LEMMA ReapDrive ==
    ASSUME Typed, Reap, NEW d \in Drives
    PROVE  /\ proc[d] \notin Zombies =>
                /\ dh'[d] = dh[d] /\ proc'[d] = proc[d]
                /\ clock'[d] = clock[d] /\ reports'[d] = reports[d]
           /\ proc[d] \in Zombies =>
                proc'[d] = "none" /\ clock'[d] = "off" /\ reports'[d] = <<>>
           /\ proc[d] \in Zombies /\ dh[d].state # "Shutdown" =>
                /\ ~dh'[d].complete /\ dh'[d].state = "PendingFork"
                /\ dh'[d].previous = IF proc[d] = "exited" THEN "Up" ELSE "Crashed"
                /\ dh'[d].previousTape = (dh[d].state \in RequiringCleaner)
           /\ dh'[d].vid => dh[d].vid
           /\ dh'[d].previousVid => dh[d].vid \/ dh[d].previousVid
           /\ proc[d] \in Zombies /\ ~dh[d].complete => ~dh'[d].complete
<1>0. dh[d] \in HandlerType
  BY DEF Typed
<1>1. dh'[d] = DriveSigChild(d)
  BY DEF Reap
<1>2. CASE proc[d] \notin Zombies
  BY <1>1, <1>2 DEF Reap, DriveSigChild, Zombies
<1>3. CASE proc[d] \in Zombies
  <2>1. proc'[d] = "none" /\ clock'[d] = "off" /\ reports'[d] = <<>>
    BY <1>3 DEF Reap
  <2>2. CASE proc[d] = "exited" /\ dh[d].state = "Shutdown"
    <3>1. dh'[d] = [dh[d] EXCEPT !.fork = FALSE]
      BY <1>1, <2>2 DEF DriveSigChild
    <3> QED
      BY <1>0, <1>3, <2>1, <2>2, <3>1 DEF HandlerType
  <2>3. CASE proc[d] = "exited" /\ dh[d].state # "Shutdown"
    <3>1. dh'[d] = [resetToDefault(dh[d], "Up") EXCEPT !.fork = TRUE]
      BY <1>1, <2>3 DEF DriveSigChild
    <3>2. /\ dh'[d].previous = "Up" /\ dh'[d].state = "PendingFork" /\ ~dh'[d].complete
          /\ dh'[d].previousTape = (dh[d].state \in RequiringCleaner)
          /\ dh'[d].previousVid = dh[d].vid /\ ~dh'[d].vid
      BY <1>0, <3>1, ResetTyped
    <3> QED
      BY <1>3, <2>1, <2>3, <3>2
  <2>4. CASE proc[d] = "crashed"
    <3>1. dh'[d] = [resetToDefault(dh[d], "Crashed") EXCEPT !.fork = TRUE]
      BY <1>1, <2>4 DEF DriveSigChild
    <3>2. /\ dh'[d].previous = "Crashed" /\ dh'[d].state = "PendingFork" /\ ~dh'[d].complete
          /\ dh'[d].previousTape = (dh[d].state \in RequiringCleaner)
          /\ dh'[d].previousVid = dh[d].vid /\ ~dh'[d].vid
      BY <1>0, <3>1, ResetTyped
    <3> QED
      BY <1>3, <2>1, <2>4, <3>2
  <2> QED
    BY <1>3, <2>2, <2>3, <2>4 DEF Zombies
<1> QED
  BY <1>2, <1>3

LEMMA ShutdownDrive ==
    ASSUME Typed, ShutdownDrives(Drives), NEW d \in Drives
    PROVE  /\ proc'[d] = "none" /\ clock'[d] = "off" /\ reports'[d] = <<>>
           /\ dh'[d].complete /\ ~dh'[d].fork /\ dh'[d].state = "Shutdown"
           /\ dh'[d].vid = dh[d].vid /\ dh'[d].previousVid = dh[d].previousVid
<1>1. dh[d] \in HandlerType /\ dh'[d] = DriveShutdown(d)
  BY DEF Typed, ShutdownDrives
<1>2. /\ dh'[d].complete /\ ~dh'[d].fork /\ dh'[d].state = "Shutdown"
      /\ dh'[d].vid = dh[d].vid /\ dh'[d].previousVid = dh[d].previousVid
  BY <1>1 DEF DriveShutdown, HandlerType
<1> QED
  BY <1>2 DEF ShutdownDrives, Killed

LEMMA ForkDrive ==
    ASSUME Typed, ForkManagement, NEW d \in Drives
    PROVE  /\ ~dh'[d].fork
           /\ dh'[d].vid = dh[d].vid /\ dh'[d].previousVid = dh[d].previousVid
           /\ \/ /\ dh'[d] = [dh[d] EXCEPT !.fork = FALSE]
                 /\ proc'[d] = IF dh[d].fork THEN "start" ELSE proc[d]
              \/ /\ dh[d].fork /\ proc'[d] = proc[d]
                 /\ dh'[d].complete /\ dh'[d].state = "Shutdown"
<1>0. PICK cannot \in SUBSET DriveForks, mcannot \in {FALSE, mh.fork} : ForkAll(cannot, mcannot)
  BY ForksSome
<1>1. dh[d] \in HandlerType
  BY DEF Typed
<1>2. \/ /\ dh'[d] = [dh[d] EXCEPT !.fork = FALSE]
         /\ proc'[d] = IF dh[d].fork THEN "start" ELSE proc[d]
      \/ /\ dh[d].fork /\ proc'[d] = proc[d]
         /\ dh'[d] = DriveForkFailed(dh[d])
  BY <1>0 DEF ForkAll, DriveForks
<1> QED
  BY <1>1, <1>2 DEF DriveForkFailed, HandlerType

\* What a pass of forks does to the maintenance process, and to the faults.
LEMMA ForkMaintenance ==
    ASSUME Typed, ForkManagement
    PROVE  /\ faults \subseteq faults' /\ faults' \subseteq faults \cup {"fork"}
           /\ mh'.shuttingDown = mh.shuttingDown /\ ~mh'.fork
           /\ \/ mh'.complete = mh.complete /\ mproc' = IF mh.fork THEN "running" ELSE mproc
              \/ mh.fork /\ mh'.complete /\ mproc' = mproc /\ "fork" \in faults'
<1>0. PICK cannot \in SUBSET DriveForks, mcannot \in {FALSE, mh.fork} :
        /\ ForkAll(cannot, mcannot)
        /\ \/ cannot = {} /\ ~mcannot /\ UNCHANGED <<signals, faults>>
           \/ signals' = signals \cup {"TERM"} /\ Trouble("fork")
  BY ForksSome
<1>1. /\ faults \subseteq faults' /\ faults' \subseteq faults \cup {"fork"}
      /\ mcannot => "fork" \in faults'
  BY <1>0 DEF Trouble, Fault
<1>2. CASE ~mcannot
  <2>1. mh' = [mh EXCEPT !.fork = FALSE, !.complete = mh.complete]
    BY <1>0, <1>2 DEF ForkAll, Typed, MaintenanceType
  <2>2. mproc' = IF mh.fork THEN "running" ELSE mproc
    BY <1>0, <1>2 DEF ForkAll
  <2> QED
    BY <1>1, <2>1, <2>2 DEF Typed, MaintenanceType
<1>3. CASE mcannot
  <2>1. mh.fork /\ mproc' = mproc /\ mh' = [mh EXCEPT !.fork = FALSE, !.complete = TRUE]
    BY <1>0, <1>3 DEF ForkAll
  <2> QED
    BY <1>1, <1>3, <2>1 DEF Typed, MaintenanceType
<1> QED
  BY <1>2, <1>3

LEMMA EventDrive ==
    ASSUME Typed, Epoll, NEW d \in Drives
    PROVE  /\ \/ UNCHANGED <<dh[d], clock[d], reports[d]>>
              \/ /\ reports[d] # <<>> /\ reports'[d] = Tail(reports[d])
                 /\ dh'[d].state = Head(reports[d]).state
           /\ dh'[d].fork = dh[d].fork /\ dh'[d].complete = dh[d].complete
           /\ dh'[d].previous = dh[d].previous /\ dh'[d].previousTape = dh[d].previousTape
           /\ dh'[d].previousCleanup = dh[d].previousCleanup
           /\ dh'[d].vid => dh[d].vid \/ (reports[d] # <<>> /\ Head(reports[d]).vid)
           /\ dh'[d].previousVid = dh[d].previousVid
<1>1. dh[d] \in HandlerType
  BY DEF Typed
<1>2. \/ dh'[d] = dh[d] /\ clock'[d] = clock[d] /\ reports'[d] = reports[d]
      \/ /\ reports[d] # <<>> /\ reports'[d] = Tail(reports[d])
         /\ dh'[d] = DriveEvent(d)
  BY DEF Epoll
<1>3. /\ DriveEvent(d).state = Head(reports[d]).state
      /\ DriveEvent(d).fork = dh[d].fork /\ DriveEvent(d).complete = dh[d].complete
      /\ DriveEvent(d).previous = dh[d].previous
      /\ DriveEvent(d).previousTape = dh[d].previousTape
      /\ DriveEvent(d).previousCleanup = dh[d].previousCleanup
      /\ DriveEvent(d).vid => Head(reports[d]).vid
      /\ DriveEvent(d).previousVid = dh[d].previousVid
  BY <1>1 DEF DriveEvent, HandlerType
<1> QED
  BY <1>2, <1>3

-----------------------------------------------------------------------------
(***************************************************************************)
(* One child for each handler: a handler that wants to fork has none, and  *)
(* one that says that its shutdown is complete has none and forks no more. *)
(***************************************************************************)
DriveChild(d) ==
    /\ dh[d].fork => proc[d] = "none"
    /\ dh[d].complete => proc[d] = "none" /\ ~dh[d].fork
MaintenanceChild ==
    /\ mh.fork => mproc = "none"
    /\ mh.complete => mproc = "none" /\ ~mh.fork
Children == (\A d \in Drives : DriveChild(d)) /\ MaintenanceChild

LEMMA InitChildren == Init => Children
<1> QED
  BY DEF Init, Children, DriveChild, MaintenanceChild

LEMMA SigChildChildren ==
    ASSUME Typed, Children, SigChildManagement
    PROVE  Children'
<1>1. CASE ~sh.sigChild
  BY <1>1 DEF SigChildManagement, Children, DriveChild, MaintenanceChild
<1>2. CASE sh.sigChild
  <2>1. Reap
    BY <1>2 DEF SigChildManagement
  <2>2. ASSUME NEW d \in Drives PROVE DriveChild(d)'
    BY <2>1, ReapDrive DEF Children, DriveChild, Zombies
  <2>3. MaintenanceChild'
    <3>1. CASE MaintenanceEnded
      <4>1. /\ mproc' = "none"
            /\ \/ mh' = [mh EXCEPT !.fork = FALSE, !.complete = TRUE]
               \/ mh' = [mh EXCEPT !.fork = TRUE] /\ ~mh.complete
        BY <2>1, <3>1 DEF Reap, MaintenanceSigChild, MaintenanceEnded, Zombies, Children,
           MaintenanceChild
      <4> QED
        BY <4>1 DEF Typed, MaintenanceType, MaintenanceChild
    <3>2. CASE ~MaintenanceEnded
      BY <2>1, <3>2 DEF Reap, MaintenanceSigChild, Children, MaintenanceChild
    <3> QED
      BY <3>1, <3>2
  <2> QED
    BY <2>2, <2>3 DEF Children
<1> QED
  BY <1>1, <1>2

LEMMA ShutdownChildren ==
    ASSUME Typed, Children, ShutdownManagement
    PROVE  Children'
<1>1. CASE ~Asked
  BY <1>1 DEF ShutdownManagement, sessionVars, maintenanceVars, Children, DriveChild,
     MaintenanceChild
<1>2. CASE Asked /\ ShutdownAll
  <2>1. ASSUME NEW d \in Drives PROVE DriveChild(d)'
    BY <1>2, ShutdownDrive DEF ShutdownAll, DriveChild
  <2>2. /\ mproc' = mproc \/ mproc' = "none"
        /\ mh' = mh \/ mh' = [mh EXCEPT !.shuttingDown = TRUE]
    BY <1>2 DEF ShutdownAll, LeaveByException, MaintenanceShutdown
  <2>3. MaintenanceChild'
    BY <2>2 DEF Typed, MaintenanceType, Children, MaintenanceChild
  <2> QED
    BY <2>1, <2>3 DEF Children
<1>3. CASE Asked /\ ShutdownFails
  <2>1. /\ dh' = dh /\ mh' = mh /\ mproc' = "none"
        /\ \E d \in Drives : proc' = [proc EXCEPT ![d] = "none"]
    BY <1>3 DEF ShutdownFails, LeaveByException, Killed
  <2>2. \A d \in Drives : proc'[d] = proc[d] \/ proc'[d] = "none"
    BY <2>1 DEF Typed
  <2> QED
    BY <2>1, <2>2 DEF Children, DriveChild, MaintenanceChild
<1> QED
  BY <1>1, <1>2, <1>3 DEF ShutdownManagement

LEMMA LoopChildren ==
    ASSUME Typed, Children, KillManagement \/ ForkManagement \/ Timeouts \/ Epoll
    PROVE  Children'
<1>1. CASE KillManagement
  BY <1>1 DEF KillManagement, sessionVars, Killed, Children, DriveChild, MaintenanceChild
<1>2. CASE ForkManagement
  <2>1. ASSUME NEW d \in Drives PROVE DriveChild(d)'
    <3>1. dh[d] \in HandlerType
      BY DEF Typed
    <3> QED
      BY <1>2, <3>1, ForkDrive DEF Children, DriveChild, HandlerType
  <2>3. MaintenanceChild'
    BY <1>2, ForkMaintenance DEF Children, MaintenanceChild
  <2> QED
    BY <2>1, <2>3 DEF Children
<1>3. CASE Timeouts
  <2>1. /\ dh' = dh /\ mh' = mh /\ mproc' = mproc
        /\ \A d \in Drives : proc[d] = "none" => proc'[d] = "none"
    BY <1>3 DEF Timeouts, maintenanceVars, Live, TapeSteps
  <2> QED
    BY <2>1 DEF Children, DriveChild, MaintenanceChild
<1>4. CASE Epoll
  <2>1. mh' = mh /\ mproc' = mproc /\ proc' = proc
    BY <1>4 DEF Epoll, maintenanceVars
  <2> QED
    BY <1>4, <2>1, EventDrive DEF Children, DriveChild, MaintenanceChild
<1> QED
  BY <1>1, <1>2, <1>3, <1>4

\* A session that is not there takes no step, and no session starts another.
LEMMA SessionLives ==
    ASSUME Typed, NEW d \in Drives, SessionStep(d) \/ SessionFault(d)
    PROVE  proc[d] \in Live /\ proc'[d] \in Live \cup Zombies
<1> QED
  BY DEF SessionStep, SessionFault, RunChild, SeeDown, SeeUp, Probe, Schedule,
     MountTape, RunTape, Unload, Dismount, Leave, StorageFails, UnmountFails, Crash, Hang,
     Session, Typed, Live, TapeSteps, Zombies

LEMMA SessionChildren ==
    ASSUME Typed, Children, NEW d \in Drives, SessionStep(d) \/ SessionFault(d)
    PROVE  Children'
<1>1. /\ UNCHANGED <<dh, mh, mproc>>
      /\ \E to \in Processes : proc' = [proc EXCEPT ![d] = to]
  BY SessionFrame, TypedIsTypeOK
<1>2. proc[d] # "none"
  BY SessionLives DEF Live, TapeSteps
<1>3. \A e \in Drives : e = d \/ proc'[e] = proc[e]
  BY <1>1 DEF Typed
<1> QED
  BY <1>1, <1>2, <1>3 DEF Children, DriveChild, MaintenanceChild

LEMMA ElsewhereChildren ==
    ASSUME Typed, Children, Elsewhere
    PROVE  Children'
<1>1. /\ dh' = dh /\ mh' = mh /\ proc' = proc
      /\ mproc = "none" => mproc' = "none"
  BY DEF Elsewhere, MaintenanceStops, MaintenanceCrashes, MaintenanceEnds, MaintenanceHangs,
     KillClockRunsOut, Terminate, OperatorPutsUp, ClockRunsOut,
     daemonVars, sessionVars, maintenanceVars
<1> QED
  BY <1>1 DEF Children, DriveChild, MaintenanceChild

LEMMA StepChildren == Typed /\ Children /\ [Next]_vars => Children'
<1> SUFFICES ASSUME Typed, Children, [Next]_vars PROVE Children'
  OBVIOUS
<1>1. CASE UNCHANGED vars
  BY <1>1 DEF vars, daemonVars, sessionVars, maintenanceVars, Children, DriveChild,
     MaintenanceChild
<1>2. CASE Next
  BY <1>2, NextSplits, SigChildChildren, ShutdownChildren, LoopChildren, SessionChildren,
     ElsewhereChildren
<1> QED
  BY <1>1, <1>2

LEMMA AlwaysChildren == Spec => [](Typed /\ Children)
<1>1. Init => Typed /\ Children
  BY InitTyped, InitChildren, TypedIsTypeOK
<1>2. Typed /\ Children /\ [Next]_vars => (Typed /\ Children)'
  BY StepTyped, StepChildren, TypedIsTypeOK
<1> QED
  BY <1>1, <1>2, PTL DEF Spec

\* ProcessManager::runForkManagement forks for no handler that has a child:
\* no drive ever has two sessions, and no child is forgotten (OneChildEach).
THEOREM HandlersForkOnce == Spec => []OneChildEach
<1>1. Children => OneChildEach
  BY DEF Children, DriveChild, MaintenanceChild, OneChildEach, DriveForks
<1> QED
  BY <1>1, AlwaysChildren, PTL

-----------------------------------------------------------------------------
(***************************************************************************)
(* The ways out of the main loop.  Every handler is complete after a       *)
(* shutdown, which has put the drives down; a handler whose fork failed is *)
(* complete without one, and when all of them are, the daemon leaves its   *)
(* loop although no shutdown was done.  A kill, finally, is only asked for *)
(* after a shutdown, since the signal that starts the kill clock also asks *)
(* for the shutdown, and no other signal is read between.                  *)
(***************************************************************************)
Settled == faults \cap {"catalogue", "hasty"} = {}

ShutdownDone ==
    mh.shuttingDown => /\ \A d \in Drives : dh[d].complete
                       /\ Settled => desiredUp = {}
ForkFailures ==
    loop # "exited" /\ ~mh.shuttingDown /\ mh.complete => "fork" \in faults
TermObeyed ==
    /\ loop # "exited" /\ sh.acknowledged => mh.shuttingDown
    /\ loop # "exited" /\ sh.requested /\ ~sh.acknowledged
          => loop \in {"sigchild", "shutdown"} /\ sh.shutdown /\ ~sh.sigChild
    /\ sh.sigChild => loop \in {"sigchild", "exited"}
KillIsLast ==
    /\ killClock # "off" => sh.requested
    /\ sh.kill => sh.acknowledged
LeftInOrder ==
    loop = "exited" =>
        /\ "catalogue" \notin faults => /\ \A d \in Drives : proc[d] \notin Live
                                       /\ mproc # "running"
        /\ Settled => desiredUp = {} \/ ("fork" \in faults /\ NothingForked)
Orderly == ShutdownDone /\ ForkFailures /\ TermObeyed /\ KillIsLast /\ LeftInOrder

LEMMA InitOrderly == Init => Orderly
<1> QED
  BY DEF Init, Orderly, ShutdownDone, ForkFailures, TermObeyed, KillIsLast, LeftInOrder

\* When all handlers are complete a shutdown was done, or nothing was forked.
LEMMA CompleteIsOrderly ==
    ASSUME Typed, Children, ShutdownDone, ForkFailures, TermObeyed, loop # "exited",
           AllComplete(dh, mh)
    PROVE  /\ (\A d \in Drives : proc[d] = "none") /\ mproc = "none"
           /\ Settled => desiredUp = {} \/ ("fork" \in faults /\ NothingForked)
<1>1. Settled => desiredUp = {} \/ ("fork" \in faults /\ NothingForked)
  <2>1. CASE mh.shuttingDown
    BY <2>1 DEF ShutdownDone
  <2>2. CASE ~mh.shuttingDown
    BY <2>2 DEF ForkFailures, TermObeyed, AllComplete, NothingForked
  <2> QED
    BY <2>1, <2>2
<1> QED
  BY <1>1 DEF Children, DriveChild, MaintenanceChild, AllComplete

LEMMA SigChildOrderly ==
    ASSUME Typed, Children, Typed', Children', Orderly, SigChildManagement
    PROVE  Orderly'
<1>0. /\ loop = "sigchild"
      /\ loop' = IF AllComplete(dh', mh') THEN "exited" ELSE "shutdown"
      /\ UNCHANGED <<killClock, desiredUp, faults>>
  BY DEF SigChildManagement, driveVars
<1>1. /\ sh'.requested = sh.requested /\ sh'.acknowledged = sh.acknowledged
      /\ ~sh'.sigChild /\ (sh.sigChild \/ sh' = sh) /\ (sh'.kill => sh.kill)
  BY DEF SigChildManagement, Reap, Typed, SignalType
<1>2. /\ mh'.shuttingDown = mh.shuttingDown
      /\ mh'.complete => mh.complete \/ mh.shuttingDown
  <2>1. CASE ~sh.sigChild
    BY <2>1 DEF SigChildManagement
  <2>2. CASE sh.sigChild
    <3>1. mh' = MaintenanceSigChild
      BY <2>2 DEF SigChildManagement, Reap
    <3>2. \/ mh' = mh
          \/ mh.shuttingDown /\ mh' = [mh EXCEPT !.fork = FALSE, !.complete = TRUE]
          \/ mh' = [mh EXCEPT !.fork = TRUE]
      BY <3>1 DEF MaintenanceSigChild
    <3> QED
      BY <3>2 DEF Typed, MaintenanceType
  <2> QED
    BY <2>1, <2>2
<1>3. \A d \in Drives : dh'[d].complete <=> dh[d].complete
  <2>1. CASE ~sh.sigChild
    BY <2>1 DEF SigChildManagement
  <2>2. CASE sh.sigChild
    <3>1. Reap
      BY <2>2 DEF SigChildManagement
    <3> QED
      BY <3>1, ReapDrive DEF Children, DriveChild, Zombies
  <2> QED
    BY <2>1, <2>2
<1>4. ShutdownDone'
  BY <1>0, <1>2, <1>3 DEF Orderly, ShutdownDone, Settled
<1>5. AllComplete(dh', mh') /\ ~mh.shuttingDown => ("fork" \in faults /\ NothingForked)'
  BY <1>0, <1>1, <1>2 DEF AllComplete, NothingForked, Orderly, ForkFailures, TermObeyed
<1>6. LeftInOrder'
  <2>1. loop' = "exited" => AllComplete(dh', mh')
    BY <1>0
  <2>2. AllComplete(dh', mh') => (\A d \in Drives : proc'[d] = "none") /\ mproc' = "none"
    BY DEF AllComplete, Children, DriveChild, MaintenanceChild
  <2>3. mh.shuttingDown => (Settled => desiredUp = {})'
    BY <1>2, <1>4 DEF ShutdownDone
  <2> QED
    BY <1>0, <1>5, <2>1, <2>2, <2>3 DEF LeftInOrder, Live, TapeSteps
<1>7. ForkFailures'
  BY <1>0, <1>2, <1>3 DEF Orderly, ForkFailures
<1>8. TermObeyed'
  BY <1>0, <1>1, <1>2 DEF Orderly, TermObeyed
<1>9. KillIsLast'
  BY <1>0, <1>1 DEF Orderly, KillIsLast
<1> QED
  BY <1>4, <1>6, <1>7, <1>8, <1>9 DEF Orderly

LEMMA ShutdownOrderly ==
    ASSUME Typed, Children, Typed', Children', Orderly, ShutdownManagement
    PROVE  Orderly'
<1>0. loop = "shutdown" /\ killClock' = killClock
  BY DEF ShutdownManagement
<1>1. CASE ~Asked
  <2>1. /\ loop' = IF AllComplete(dh, mh) THEN "exited" ELSE "kill"
        /\ UNCHANGED <<sh, dh, mh, proc, desiredUp, mproc, faults>>
    BY <1>1 DEF ShutdownManagement, sessionVars, driveVars, maintenanceVars
  <2>2. ShutdownDone' /\ ForkFailures' /\ KillIsLast'
    BY <1>0, <2>1 DEF Orderly, ShutdownDone, ForkFailures, KillIsLast, Settled
  <2>3. TermObeyed'
    BY <1>0, <1>1, <2>1 DEF Orderly, TermObeyed, Asked
  <2>4. LeftInOrder'
    BY <1>0, <2>1, CompleteIsOrderly
    DEF Orderly, LeftInOrder, Settled, NothingForked, AllComplete, Live, TapeSteps
  <2> QED
    BY <2>2, <2>3, <2>4 DEF Orderly
<1>2. CASE Asked /\ ShutdownAll
  <2>1. ShutdownDrives(Drives)
    BY <1>2 DEF ShutdownAll
  <2>2. \A d \in Drives : proc'[d] = "none" /\ dh'[d].complete
    BY <2>1, ShutdownDrive
  <2>3. Settled' => desiredUp' = {}
    BY <2>1 DEF ShutdownDrives, UpAfterShutdown, Trouble, Fault, Settled, Typed
  <2>4. /\ sh'.acknowledged /\ ~sh'.kill /\ sh'.requested = sh.requested
        /\ sh'.sigChild = sh.sigChild
    BY <1>2 DEF ShutdownAll, Typed, SignalType
  <2>5. \/ loop' = "exited" /\ mproc' = "none" /\ mh' = mh
        \/ /\ mh'.shuttingDown
           /\ loop' = IF AllComplete(dh', mh') THEN "exited" ELSE "kill"
    BY <1>2 DEF ShutdownAll, LeaveByException, MaintenanceShutdown, Typed, MaintenanceType
  <2>6. ShutdownDone' /\ ForkFailures'
    BY <2>2, <2>3, <2>5 DEF ShutdownDone, ForkFailures
  <2>7. TermObeyed' /\ KillIsLast'
    BY <1>0, <2>4, <2>5 DEF Orderly, TermObeyed, KillIsLast
  <2>8. LeftInOrder'
    <3>1. AllComplete(dh', mh') => mproc' = "none"
      BY DEF AllComplete, Children, MaintenanceChild
    <3> QED
      BY <2>2, <2>3, <2>5, <3>1 DEF LeftInOrder, Live, TapeSteps
  <2> QED
    BY <2>6, <2>7, <2>8 DEF Orderly
<1>3. CASE Asked /\ ShutdownFails
  <2>1. /\ loop' = "exited" /\ "catalogue" \in faults'
        /\ UNCHANGED <<sh, dh, mh, desiredUp>>
    BY <1>3 DEF ShutdownFails, LeaveByException, Trouble, Fault, driveVars
  <2> QED
    BY <1>0, <2>1
    DEF Orderly, ShutdownDone, ForkFailures, TermObeyed, KillIsLast, LeftInOrder, Settled
<1> QED
  BY <1>1, <1>2, <1>3 DEF ShutdownManagement

LEMMA KillOrderly ==
    ASSUME Typed, Orderly, KillManagement
    PROVE  Orderly'
<1>1. /\ loop = "kill" /\ loop' \in {"exited", "fork"}
      /\ UNCHANGED <<sh, killClock, dh, mh, desiredUp, faults>>
  BY DEF KillManagement, driveVars
<1>2. loop' = "exited" => /\ sh.kill /\ mproc' = "none"
                          /\ \A d \in Drives : proc'[d] = "none"
  BY DEF KillManagement, Killed
<1>3. LeftInOrder'
  BY <1>1, <1>2
  DEF Orderly, KillIsLast, TermObeyed, ShutdownDone, LeftInOrder, Settled, Live, TapeSteps
<1> QED
  BY <1>1, <1>3 DEF Orderly, ShutdownDone, ForkFailures, TermObeyed, KillIsLast, Settled

LEMMA ForkOrderly ==
    ASSUME Typed, Children, Orderly, ForkManagement
    PROVE  Orderly'
<1>1. /\ loop = "fork" /\ loop' = "timeouts"
      /\ UNCHANGED <<sh, killClock, desiredUp>>
  BY DEF ForkManagement, driveVars
<1>2. /\ faults \subseteq faults' /\ mh'.shuttingDown = mh.shuttingDown
      /\ mh'.complete => mh.complete \/ "fork" \in faults'
  BY ForkMaintenance DEF Typed, MaintenanceType
<1>3. \A d \in Drives : dh[d].complete => dh'[d].complete
  <2> SUFFICES ASSUME NEW d \in Drives PROVE dh[d].complete => dh'[d].complete
    OBVIOUS
  <2>1. dh[d] \in HandlerType
    BY DEF Typed
  <2> QED
    BY <2>1, ForkDrive DEF HandlerType
<1> QED
  BY <1>1, <1>2, <1>3
  DEF Orderly, ShutdownDone, ForkFailures, TermObeyed, KillIsLast, LeftInOrder, Settled

LEMMA TimeoutsOrderly ==
    ASSUME Typed, Orderly, Timeouts
    PROVE  Orderly'
<1>1. /\ loop = "timeouts" /\ loop' \in {"sigchild", "epoll"}
      /\ UNCHANGED <<killClock, mh, dh, desiredUp, faults>>
  BY DEF Timeouts, driveVars
<1>2. /\ sh'.requested = sh.requested /\ sh'.acknowledged = sh.acknowledged
      /\ sh'.sigChild => sh.sigChild
      /\ sh'.kill => sh.kill \/ killClock = "due"
  BY DEF Timeouts, Typed, SignalType
<1>3. sh.requested => sh.acknowledged
  BY <1>1 DEF Orderly, TermObeyed
<1>4. ShutdownDone' /\ ForkFailures' /\ LeftInOrder'
  BY <1>1 DEF Orderly, ShutdownDone, ForkFailures, LeftInOrder, Settled
<1>5. TermObeyed'
  BY <1>1, <1>2, <1>3 DEF Orderly, TermObeyed
<1>6. KillIsLast'
  BY <1>1, <1>2, <1>3 DEF Orderly, KillIsLast
<1> QED
  BY <1>4, <1>5, <1>6 DEF Orderly

\* At this point every shutdown asked for by a signal has been done, and no
\* SIGCHLD waits, so that a SIGTERM read here is obeyed in the next round.
LEMMA EpollOrderly ==
    ASSUME Typed, Orderly, Epoll
    PROVE  Orderly'
<1>1. loop = "epoll" /\ loop' = "sigchild" /\ UNCHANGED <<mh, desiredUp, faults>>
  BY DEF Epoll, driveVars
<1>2. \A d \in Drives : dh'[d].complete = dh[d].complete
  BY EventDrive
<1>3. (sh.requested => sh.acknowledged) /\ ~sh.sigChild
  BY <1>1 DEF Orderly, TermObeyed
<1>4. /\ sh.requested => sh'.requested
      /\ sh'.acknowledged = sh.acknowledged
      /\ sh'.requested => sh.requested \/ ((sh'.shutdown \/ sh.acknowledged) /\ ~sh'.sigChild)
      /\ sh'.kill => sh.kill
      /\ killClock' = killClock \/ sh'.requested
  <2>1. CASE signals = {}
    BY <2>1 DEF Epoll, ReadSignal
  <2>2. CASE signals # {}
    <3> DEFINE sg == IF "TERM" \in signals THEN "TERM" ELSE "CHLD"
               r == sh.requested \/ sg = "TERM"
               w == r /\ ~sh.acknowledged
               c == sh.sigChild \/ sg = "CHLD"
    <3>1. /\ sh' = [sh EXCEPT !.requested = r, !.shutdown = w, !.kill = FALSE, !.sigChild = c]
          /\ killClock' = IF r /\ killClock = "off" THEN "armed" ELSE killClock
      BY <2>2 DEF Epoll, ReadSignal, KillClockOnce
    <3>2. /\ sh'.requested = r /\ sh'.shutdown = w /\ sh'.kill = FALSE /\ sh'.sigChild = c
          /\ sh'.acknowledged = sh.acknowledged
      <4> HIDE DEF r, w, c
      <4> QED
        BY <3>1 DEF Typed, SignalType
    <3>3. (sh.requested => r) /\ (r => sh.requested \/ ~c) /\ (r => w \/ sh.acknowledged)
      BY <1>3
    <3> HIDE DEF r, w, c
    <3> QED
      BY <3>1, <3>2, <3>3
  <2> QED
    BY <2>1, <2>2
<1>5. ShutdownDone' /\ ForkFailures' /\ LeftInOrder'
  BY <1>1, <1>2 DEF Orderly, ShutdownDone, ForkFailures, LeftInOrder, Settled
<1>6. TermObeyed'
  BY <1>1, <1>3, <1>4 DEF Orderly, TermObeyed
<1>7. KillIsLast'
  BY <1>1, <1>4 DEF Orderly, KillIsLast
<1> QED
  BY <1>5, <1>6, <1>7 DEF Orderly

LEMMA SessionOrderly ==
    ASSUME Typed, Orderly, NEW d \in Drives, SessionStep(d) \/ SessionFault(d)
    PROVE  Orderly'
<1>1. /\ UNCHANGED <<loop, sh, killClock, dh, mh, mproc>>
      /\ \E to \in Processes : proc' = [proc EXCEPT ![d] = to]
      /\ desiredUp' \subseteq desiredUp /\ faults \subseteq faults'
  BY SessionFrame, TypedIsTypeOK
<1>2. proc[d] \in Live
  BY SessionLives
<1>3. LeftInOrder'
  BY <1>1, <1>2 DEF Orderly, LeftInOrder, Settled, NothingForked, AllComplete
<1> QED
  BY <1>1, <1>3 DEF Orderly, ShutdownDone, ForkFailures, TermObeyed, KillIsLast, Settled

LEMMA ElsewhereOrderly ==
    ASSUME Typed, Children, Orderly, Elsewhere
    PROVE  Orderly'
<1> USE DEF daemonVars, sessionVars, driveVars, maintenanceVars, Settled, NothingForked, AllComplete
<1>1. ASSUME NEW d \in Drives, OperatorPutsUp(d) PROVE Orderly'
  <2>1. UNCHANGED <<loop, sh, killClock, dh, mh, proc, mproc>> /\ faults \subseteq faults'
    BY <1>1 DEF OperatorPutsUp, Fault
  <2>2. CASE proc[d] = "down"
    <3>1. ~dh[d].complete /\ faults' = faults
      BY <1>1, <2>2 DEF OperatorPutsUp, Children, DriveChild
    <3> QED
      BY <2>1, <2>2, <3>1
      DEF Orderly, ShutdownDone, ForkFailures, TermObeyed, KillIsLast, LeftInOrder, Live
  <2>3. CASE proc[d] # "down"
    <3>1. ~Settled'
      BY <1>1, <2>3 DEF OperatorPutsUp, Fault
    <3> QED
      BY <2>1, <3>1 DEF Orderly, ShutdownDone, ForkFailures, TermObeyed, KillIsLast, LeftInOrder
  <2> QED
    BY <2>2, <2>3
<1>2. CASE \E d \in Drives : ClockRunsOut(d)
  BY <1>2 DEF ClockRunsOut, Orderly, ShutdownDone, ForkFailures, TermObeyed, KillIsLast,
     LeftInOrder
<1>3. CASE KillClockRunsOut \/ Terminate
  BY <1>3 DEF KillClockRunsOut, Terminate, Orderly, ShutdownDone, ForkFailures, TermObeyed,
     KillIsLast, LeftInOrder
<1>4. CASE MaintenanceStops \/ MaintenanceCrashes \/ MaintenanceHangs
  <2>1. /\ mproc' # "running" \/ mproc' = mproc
        /\ faults \subseteq faults'
        /\ UNCHANGED <<loop, sh, killClock, dh, mh, proc, desiredUp>>
    BY <1>4 DEF MaintenanceStops, MaintenanceCrashes, MaintenanceHangs, MaintenanceEnds, Fault
  <2> QED
    BY <2>1 DEF Orderly, ShutdownDone, ForkFailures, TermObeyed, KillIsLast, LeftInOrder
<1> QED
  BY <1>1, <1>2, <1>3, <1>4 DEF Elsewhere

LEMMA StepOrderly ==
    ASSUME Typed, Children, Typed', Children', Orderly, [Next]_vars
    PROVE  Orderly'
<1>1. CASE UNCHANGED vars
  BY <1>1 DEF vars, daemonVars, sessionVars, driveVars, maintenanceVars, Orderly, ShutdownDone,
     ForkFailures, TermObeyed, KillIsLast, LeftInOrder, Settled, NothingForked, AllComplete
<1>2. CASE Next
  BY <1>2, NextSplits, SigChildOrderly, ShutdownOrderly, KillOrderly, ForkOrderly,
     TimeoutsOrderly, EpollOrderly, SessionOrderly, ElsewhereOrderly
<1> QED
  BY <1>1, <1>2

LEMMA AlwaysOrderly == Spec => []Orderly
<1>1. Init => Orderly
  BY InitOrderly
<1>2. (Typed /\ Children) /\ (Typed /\ Children)' /\ Orderly /\ [Next]_vars => Orderly'
  BY StepOrderly
<1> QED
  BY <1>1, <1>2, AlwaysChildren, PTL DEF Spec

\* A daemon that has exited has left no session and no maintenance process
\* behind, by whichever way it left its loop, unless a shutdown found no
\* catalogue (NoChildLeftBehind).
THEOREM ExitLeavesNoChild == Spec => []NoChildLeftBehind
<1>1. Orderly => NoChildLeftBehind
  BY DEF Orderly, LeftInOrder, NoChildLeftBehind
<1> QED
  BY <1>1, AlwaysOrderly, PTL

\* A daemon that has exited has put all its drives down in the catalogue, by
\* whichever way it left its loop, unless the catalogue failed it, an operator
\* put one up before a session had seen it down, or the forks of all handlers
\* failed in one pass, before any shutdown (DrivesLeftDown).
THEOREM ExitLeavesDrivesDown == Spec => []DrivesLeftDown
<1>1. Orderly => DrivesLeftDown
  BY DEF Orderly, LeftInOrder, DrivesLeftDown, Settled
<1> QED
  BY <1>1, AlwaysOrderly, PTL

-----------------------------------------------------------------------------
(***************************************************************************)
(* No mount over a tape.  While a tape may be in the drive, either the     *)
(* handler knows it from the reports, and has the next session put the     *)
(* drive down, or the drive is down, and whoever puts it up again has the  *)
(* session probe the drive first.                                          *)
(***************************************************************************)
Unheard == faults \cap {"early", "storage", "hasty"} = {}
TapeMeansDown(d) == d \in tapeIn => d \notin desiredUp

\* The session has sent its first report, or is past doing so.
Started == TapeSteps \cup {"leaving"} \cup Zombies

CleanerReports == [state : RequiringCleaner, type : SessionTypes, vid : BOOLEAN]
TapeKnown(d) == dh[d].state \in RequiringCleaner /\ reports[d] \in Seq(CleanerReports)
MountAnnounced(d) ==
    IF reports[d] = <<>> THEN dh[d].state = "Mounting"
    ELSE reports[d][Len(reports[d])].state = "Mounting"

\* A session started by such a handler uses the drive without looking into it.
Trusting(d) == SessionKind(dh[d]) = "transfer" /\ dh[d].previous # "Initiating"

Informed(d) ==
    /\ dh[d].state = "Shutdown" => dh[d].complete
    /\ reports[d] # <<>> => proc[d] \in Started
    /\ loop # "exited" /\ clock[d] # "off" => proc[d] \in Started
    /\ proc[d] = "mounting" => MountAnnounced(d)
    /\ proc[d] \in {"loaded", "running", "unmounting"} => TapeKnown(d)

Guarded(d) ==
    /\ proc[d] \in {"scheduling", "mounting"} => d \notin tapeIn
    /\ proc[d] \in {"deciding", "leaving", "exited"} => TapeMeansDown(d)
    /\ proc[d] = "start" /\ Trusting(d) => TapeMeansDown(d)
    /\ proc[d] = "none" /\ loop # "exited" /\ ~dh[d].complete /\ Trusting(d) => TapeMeansDown(d)
    /\ proc[d] = "crashed" => TapeMeansDown(d) \/ TapeKnown(d)

Careful(d) == Informed(d) /\ (Unheard => Guarded(d))
Watched == \A d \in Drives : Careful(d)

\* Reading the first of some reports leaves the last one where it was.
LEMMA TailLast ==
    ASSUME NEW S, NEW q \in Seq(S), q # <<>>
    PROVE  /\ Head(q) \in S /\ Tail(q) \in Seq(S)
           /\ Len(q) \in Nat /\ Len(q) # 0
           /\ Len(q) = 1 => Tail(q) = <<>> /\ Head(q) = q[Len(q)]
           /\ Len(q) # 1 => Tail(q) # <<>> /\ Tail(q)[Len(Tail(q))] = q[Len(q)]
<1>1. Len(q) \in Nat /\ Len(q) # 0
  OBVIOUS
<1>2. Head(q) = q[1] /\ Head(q) \in S
  BY <1>1
<1>3. Tail(q) \in Seq(S) /\ Len(Tail(q)) = Len(q) - 1
  BY <1>1
<1>4. \A i \in 1 .. Len(q) - 1 : Tail(q)[i] = q[i + 1]
  BY <1>1
<1>5. Len(q) = 1 => Tail(q) = <<>>
  <2>1. Tail(q) # <<>> => Len(Tail(q)) \in Nat \ {0}
    BY <1>3, EmptySeq, Zenon
  <2>2. Len(q) = 1 => Len(Tail(q)) = 0
    BY <1>3
  <2> QED
    BY <2>1, <2>2
<1>6. Len(q) # 1 => Tail(q) # <<>> /\ Tail(q)[Len(Tail(q))] = q[Len(q)]
  <2> SUFFICES ASSUME Len(q) # 1 PROVE  Tail(q) # <<>> /\ Tail(q)[Len(Tail(q))] = q[Len(q)]
    OBVIOUS
  <2>1. Len(q) - 1 \in 1 .. Len(q) - 1 /\ (Len(q) - 1) + 1 = Len(q)
    <3> DEFINE n == Len(q)
    <3>1. n \in Nat /\ n # 0 /\ n # 1
      BY <1>1
    <3> HIDE DEF n
    <3>2. n - 1 \in 1 .. n - 1 /\ (n - 1) + 1 = n
      BY <3>1
    <3> QED
      BY <3>2 DEF n
  <2>2. Tail(q)[Len(q) - 1] = q[Len(q)]
    BY <1>4, <2>1
  <2> QED
    BY <1>1, <1>3, <2>1, <2>2
<1> QED
  BY <1>1, <1>2, <1>3, <1>5, <1>6

LEMMA InitWatched == Init => Watched
<1> SUFFICES ASSUME Init, NEW d \in Drives PROVE Careful(d)
  BY DEF Watched
<1>1. /\ proc[d] = "none" /\ reports[d] = <<>> /\ clock[d] = "off"
      /\ dh[d].state = "PendingFork" /\ dh[d].previous = "Initiating"
  BY DEF Init
<1> QED
  BY <1>1 DEF Careful, Informed, Guarded, Trusting

\* What concerns one drive alone leaves the others as they are.
LEMMA OthersWatched ==
    ASSUME NEW e \in Drives, Careful(e),
           proc'[e] = proc[e], reports'[e] = reports[e], dh'[e] = dh[e],
           clock'[e] # "off" => clock[e] # "off",
           loop # "exited" \/ loop' = "exited",
           e \in tapeIn' => e \in tapeIn, e \in desiredUp' => e \in desiredUp,
           faults \subseteq faults'
    PROVE  Careful(e)'
<1>1. Unheard' => Unheard
  BY DEF Unheard
<1>2. /\ TapeKnown(e) => TapeKnown(e)'
      /\ MountAnnounced(e) => MountAnnounced(e)'
      /\ Trusting(e)' => Trusting(e)
      /\ TapeMeansDown(e) => TapeMeansDown(e)'
  BY DEF TapeKnown, MountAnnounced, Trusting, SessionKind, TapeMeansDown
<1>3. Informed(e)'
  BY <1>2 DEF Careful, Informed
<1>4. Guarded(e) => Guarded(e)'
  BY <1>2 DEF Guarded
<1> QED
  BY <1>1, <1>3, <1>4 DEF Careful

\* A session that is over leaves a handler that knows of the tape, or a drive
\* that is down.
LEMMA SigChildWatched ==
    ASSUME Typed, Children, Watched, SigChildManagement
    PROVE  Watched'
<1> SUFFICES ASSUME NEW d \in Drives PROVE Careful(d)'
  BY DEF Watched
<1>0. loop = "sigchild" /\ UNCHANGED <<tapeIn, desiredUp, faults>> /\ Careful(d)
  BY DEF SigChildManagement, driveVars, Watched
<1>1. CASE ~sh.sigChild
  BY <1>0, <1>1, OthersWatched DEF SigChildManagement
<1>2. CASE sh.sigChild
  <2>1. Reap
    BY <1>2 DEF SigChildManagement
  <2>2. CASE proc[d] \notin Zombies
    BY <1>0, <2>1, <2>2, ReapDrive, OthersWatched
  <2>3. CASE proc[d] \in Zombies
    <3>1. dh[d].state # "Shutdown"
      BY <1>0, <2>3 DEF Careful, Informed, Children, DriveChild, Zombies
    <3>2. /\ proc'[d] = "none" /\ clock'[d] = "off" /\ reports'[d] = <<>>
          /\ dh'[d].state = "PendingFork"
          /\ dh'[d].previous = IF proc[d] = "exited" THEN "Up" ELSE "Crashed"
          /\ dh'[d].previousTape = (dh[d].state \in RequiringCleaner)
      BY <2>1, <2>3, <3>1, ReapDrive
    <3>3. Informed(d)'
      BY <3>2 DEF Informed
    <3>4. Unheard' => Guarded(d)'
      <4>1. Unheard' => Unheard
        BY <1>0 DEF Unheard
      <4>2. CASE proc[d] = "exited"
        BY <1>0, <3>2, <4>1, <4>2 DEF Careful, Guarded, TapeMeansDown
      <4>3. CASE proc[d] = "crashed" /\ dh[d].state \notin RequiringCleaner
        BY <1>0, <3>2, <4>1, <4>3 DEF Careful, Guarded, TapeMeansDown, TapeKnown
      <4>4. CASE proc[d] = "crashed" /\ dh[d].state \in RequiringCleaner
        <5>1. ~Trusting(d)'
          BY <3>2, <4>4 DEF Trusting, SessionKind
        <5> QED
          BY <3>2, <5>1 DEF Guarded
      <4> QED
        BY <2>3, <4>2, <4>3, <4>4 DEF Zombies
    <3> QED
      BY <3>3, <3>4 DEF Careful
  <2> QED
    BY <2>2, <2>3
<1> QED
  BY <1>1, <1>2

LEMMA ShutdownWatched ==
    ASSUME Typed, Watched, ShutdownManagement
    PROVE  Watched'
<1> SUFFICES ASSUME NEW d \in Drives PROVE Careful(d)'
  BY DEF Watched
<1>0. loop = "shutdown" /\ Careful(d)
  BY DEF ShutdownManagement, Watched
<1>1. CASE ~Asked
  BY <1>0, <1>1, OthersWatched DEF ShutdownManagement, sessionVars, driveVars
<1>2. CASE Asked /\ ShutdownAll
  <2>1. /\ proc'[d] = "none" /\ clock'[d] = "off" /\ reports'[d] = <<>>
        /\ dh'[d].complete /\ dh'[d].state = "Shutdown"
    BY <1>2, ShutdownDrive DEF ShutdownAll
  <2> QED
    BY <2>1 DEF Careful, Informed, Guarded
<1>3. CASE Asked /\ ShutdownFails
  <2>1. /\ loop' = "exited" /\ faults \subseteq faults'
        /\ UNCHANGED <<dh, clock, tapeIn, desiredUp>>
    BY <1>3 DEF ShutdownFails, LeaveByException, Trouble, Fault, driveVars
  <2>2. \/ proc'[d] = "none" /\ reports'[d] = <<>>
        \/ proc'[d] = proc[d] /\ reports'[d] = reports[d]
    BY <1>3 DEF ShutdownFails, Typed, Killed
  <2>3. CASE proc'[d] = "none" /\ reports'[d] = <<>>
    BY <1>0, <2>1, <2>3 DEF Careful, Informed, Guarded
  <2> QED
    BY <1>0, <2>1, <2>2, <2>3, OthersWatched
<1> QED
  BY <1>1, <1>2, <1>3 DEF ShutdownManagement

LEMMA KillWatched ==
    ASSUME Typed, Watched, KillManagement
    PROVE  Watched'
<1> SUFFICES ASSUME NEW d \in Drives PROVE Careful(d)'
  BY DEF Watched
<1>0. /\ loop = "kill" /\ Careful(d)
      /\ UNCHANGED <<dh, clock, tapeIn, desiredUp, faults>>
  BY DEF KillManagement, Watched, driveVars
<1>1. CASE ~sh.kill
  BY <1>0, <1>1, OthersWatched DEF KillManagement, sessionVars
<1>2. CASE sh.kill
  <2>1. proc'[d] = "none" /\ reports'[d] = <<>> /\ loop' = "exited"
    BY <1>2 DEF KillManagement, Killed
  <2> QED
    BY <1>0, <2>1 DEF Careful, Informed, Guarded
<1> QED
  BY <1>1, <1>2

LEMMA ForkWatched ==
    ASSUME Typed, Children, Watched, ForkManagement
    PROVE  Watched'
<1> SUFFICES ASSUME NEW d \in Drives PROVE Careful(d)'
  BY DEF Watched
<1>0. /\ loop = "fork" /\ loop' = "timeouts" /\ Careful(d)
      /\ UNCHANGED <<clock, reports, tapeIn, desiredUp>>
  BY DEF ForkManagement, Watched, driveVars
<1>1. dh[d] \in HandlerType
  BY DEF Typed
<1>2. Unheard' => Unheard
  BY ForkMaintenance DEF Unheard
<1>3. dh[d].fork => proc[d] = "none" /\ ~dh[d].complete
  BY DEF Children, DriveChild
<1>4. CASE /\ dh'[d] = [dh[d] EXCEPT !.fork = FALSE]
           /\ proc'[d] = IF dh[d].fork THEN "start" ELSE proc[d]
  <2>1. /\ dh'[d].state = dh[d].state /\ dh'[d].complete = dh[d].complete
        /\ dh'[d].previous = dh[d].previous /\ dh'[d].previousTape = dh[d].previousTape
        /\ dh'[d].previousCleanup = dh[d].previousCleanup
        /\ dh'[d].previousVid = dh[d].previousVid
    BY <1>1, <1>4 DEF HandlerType
  <2>2. /\ TapeKnown(d) => TapeKnown(d)'
        /\ MountAnnounced(d) => MountAnnounced(d)'
        /\ Trusting(d)' => Trusting(d)
        /\ TapeMeansDown(d) => TapeMeansDown(d)'
    BY <1>0, <2>1 DEF TapeKnown, MountAnnounced, Trusting, SessionKind, TapeMeansDown
  <2>3. CASE dh[d].fork
    <3>1. proc[d] = "none" /\ proc'[d] = "start" /\ ~dh[d].complete
      BY <1>3, <1>4, <2>3
    <3>2. Informed(d)'
      BY <1>0, <2>1, <3>1 DEF Careful, Informed, Started, TapeSteps, Zombies
    <3>3. Unheard => Guarded(d)'
      BY <1>0, <2>2, <3>1 DEF Careful, Guarded
    <3> QED
      BY <1>2, <3>2, <3>3 DEF Careful
  <2>4. CASE ~dh[d].fork
    <3>1. proc'[d] = proc[d]
      BY <1>4, <2>4
    <3>2. Informed(d)'
      BY <1>0, <2>1, <2>2, <3>1 DEF Careful, Informed
    <3>3. Unheard => Guarded(d)'
      BY <1>0, <2>1, <2>2, <3>1 DEF Careful, Guarded
    <3> QED
      BY <1>2, <3>2, <3>3 DEF Careful
  <2> QED
    BY <2>3, <2>4
<1>5. CASE /\ dh[d].fork /\ proc'[d] = proc[d]
           /\ dh'[d].complete /\ dh'[d].state = "Shutdown"
  <2>1. proc'[d] = "none" /\ proc[d] = "none"
    BY <1>3, <1>5
  <2> QED
    BY <1>0, <1>5, <2>1 DEF Careful, Informed, Guarded, Started, TapeSteps, Zombies
<1> QED
  BY <1>4, <1>5, ForkDrive

\* Only a session that has reported has a clock, so that one killed for being
\* late is one whose handler knows of its tape.
LEMMA TimeoutsWatched ==
    ASSUME Typed, Watched, Timeouts
    PROVE  Watched'
<1> SUFFICES ASSUME NEW d \in Drives PROVE Careful(d)'
  BY DEF Watched
<1>0. /\ loop = "timeouts" /\ loop' # "exited" /\ Careful(d)
      /\ UNCHANGED <<dh, reports, tapeIn, desiredUp, faults>>
  BY DEF Timeouts, Watched, driveVars
<1>1. \/ proc'[d] = proc[d] /\ clock'[d] \in {clock[d], "off"}
      \/ /\ clock[d] = "due" /\ proc[d] \in Live
         /\ proc'[d] = "crashed" /\ clock'[d] = "off"
  BY DEF Timeouts
<1>2. CASE proc'[d] = proc[d] /\ clock'[d] \in {clock[d], "off"}
  BY <1>0, <1>2, OthersWatched
<1>3. CASE /\ clock[d] = "due" /\ proc[d] \in Live
           /\ proc'[d] = "crashed" /\ clock'[d] = "off"
  <2>1. proc[d] \in TapeSteps \cup {"leaving"}
    BY <1>0, <1>3 DEF Careful, Informed, Started, Live, Zombies
  <2>2. Informed(d)'
    BY <1>0, <1>3 DEF Careful, Informed, Started, Zombies
  <2>3. Unheard => Guarded(d)'
    <3>1. Unheard => TapeMeansDown(d) \/ TapeKnown(d)
      BY <1>0, <2>1 DEF Careful, Informed, Guarded, TapeMeansDown, TapeSteps
    <3>2. /\ TapeMeansDown(d) => TapeMeansDown(d)'
          /\ TapeKnown(d) => TapeKnown(d)'
      BY <1>0 DEF TapeMeansDown, TapeKnown
    <3> QED
      BY <1>3, <3>1, <3>2 DEF Guarded
  <2> QED
    BY <1>0, <2>2, <2>3 DEF Careful, Unheard
<1> QED
  BY <1>1, <1>2, <1>3

\* A report that is read tells the handler what it told before of the tape.
LEMMA EpollWatched ==
    ASSUME Typed, Watched, Epoll
    PROVE  Watched'
<1> SUFFICES ASSUME NEW d \in Drives PROVE Careful(d)'
  BY DEF Watched
<1>0. /\ loop = "epoll" /\ loop' = "sigchild" /\ Careful(d)
      /\ UNCHANGED <<proc, tapeIn, desiredUp, faults>>
  BY DEF Epoll, Watched, driveVars
<1>1. CASE UNCHANGED <<dh[d], clock[d], reports[d]>>
  BY <1>0, <1>1, OthersWatched
<1>2. CASE /\ reports[d] # <<>> /\ reports'[d] = Tail(reports[d])
           /\ dh'[d].state = Head(reports[d]).state
  <2>1. reports[d] \in Seq(ReportType) /\ Head(reports[d]) \in ReportType
    <3>1. reports[d] \in Seq(ReportType)
      BY DEF Typed
    <3> QED
      BY <1>2, <3>1
  <2>2. Head(reports[d]).state # "Shutdown"
    BY <2>1 DEF ReportType, Reported
  <2>3. proc[d] \in Started
    BY <1>0, <1>2 DEF Careful, Informed
  <2>4. MountAnnounced(d) => MountAnnounced(d)'
    <3>1. CASE Len(reports[d]) = 1
      <4>1. Tail(reports[d]) = <<>> /\ Head(reports[d]) = reports[d][Len(reports[d])]
        BY <1>2, <2>1, <3>1, TailLast
      <4> QED
        BY <1>2, <4>1 DEF MountAnnounced
    <3>2. CASE Len(reports[d]) # 1
      <4>1. /\ Tail(reports[d]) # <<>>
            /\ Tail(reports[d])[Len(Tail(reports[d]))] = reports[d][Len(reports[d])]
        BY <1>2, <2>1, <3>2, TailLast
      <4> QED
        BY <1>2, <4>1 DEF MountAnnounced
    <3> QED
      BY <3>1, <3>2
  <2>5. TapeKnown(d) => TapeKnown(d)'
    <3> SUFFICES ASSUME reports[d] \in Seq(CleanerReports)
                 PROVE  /\ Head(reports[d]).state \in RequiringCleaner
                        /\ Tail(reports[d]) \in Seq(CleanerReports)
      BY <1>2 DEF TapeKnown
    <3>1. Head(reports[d]) \in CleanerReports /\ Tail(reports[d]) \in Seq(CleanerReports)
      BY <1>2
    <3> QED
      BY <3>1 DEF CleanerReports
  <2>6. Informed(d)'
    BY <1>0, <1>2, <2>2, <2>3, <2>4, <2>5, EventDrive DEF Careful, Informed
  <2>7. Unheard => Guarded(d)'
    BY <1>0, <2>3, <2>5 DEF Careful, Guarded, TapeMeansDown, Started, TapeSteps, Zombies
  <2> QED
    BY <1>0, <2>6, <2>7 DEF Careful, Unheard
<1> QED
  BY <1>1, <1>2, EventDrive

LEMMA ElsewhereWatched ==
    ASSUME Typed, Watched, Elsewhere
    PROVE  Watched'
<1> SUFFICES ASSUME NEW d \in Drives PROVE Careful(d)'
  BY DEF Watched
<1> USE DEF daemonVars, sessionVars, driveVars, maintenanceVars
<1>1. /\ UNCHANGED <<loop, dh, proc, reports, tapeIn>>
      /\ clock'[d] # "off" => clock[d] # "off"
      /\ faults \subseteq faults'
  BY DEF Elsewhere, MaintenanceStops, MaintenanceCrashes, MaintenanceEnds, MaintenanceHangs,
     Fault, KillClockRunsOut, Terminate, OperatorPutsUp, ClockRunsOut, Typed
<1>2. (d \in desiredUp' => d \in desiredUp) \/ proc[d] = "down" \/ ~Unheard'
  BY DEF Elsewhere, MaintenanceStops, MaintenanceCrashes, MaintenanceEnds, MaintenanceHangs,
     Fault, KillClockRunsOut, Terminate, OperatorPutsUp, ClockRunsOut, Unheard
<1>3. CASE d \in desiredUp' => d \in desiredUp
  BY <1>1, <1>3, OthersWatched DEF Watched
<1>4. CASE proc[d] = "down"
  BY <1>1, <1>4 DEF Watched, Careful, Informed, Guarded
<1>5. CASE ~Unheard'
  <2>1. /\ TapeKnown(d) => TapeKnown(d)'
        /\ MountAnnounced(d) => MountAnnounced(d)'
    BY <1>1 DEF TapeKnown, MountAnnounced
  <2> QED
    BY <1>1, <1>5, <2>1 DEF Watched, Careful, Informed
<1> QED
  BY <1>2, <1>3, <1>4, <1>5

\* A session reports where it is before anything that its handler must know.
LEMMA SessionInformed ==
    ASSUME Typed, NEW d \in Drives, Careful(d), SessionStep(d) \/ SessionFault(d)
    PROVE  Informed(d)'
<1>0. /\ UNCHANGED <<loop, dh, clock>> /\ proc[d] \in Live
      /\ \E to \in Processes : proc' = [proc EXCEPT ![d] = to]
  BY SessionFrame, SessionLives, TypedIsTypeOK
<1>1. proc[d] \notin Started => reports[d] = <<>> /\ (loop = "exited" \/ clock[d] = "off")
  BY DEF Careful, Informed
<1> USE DEF Started, TapeSteps, Zombies
<1>2. CASE /\ UNCHANGED <<proc, reports>>
  BY <1>0, <1>2 DEF Careful, Informed, MountAnnounced, TapeKnown
<1>3. CASE /\ proc[d] \notin Started /\ reports'[d] = reports[d]
           /\ proc'[d] \notin {"mounting", "loaded", "running", "unmounting"}
  BY <1>0, <1>1, <1>3 DEF Careful, Informed
<1>4. CASE proc'[d] \in {"leaving", "exited", "crashed"}
  BY <1>0, <1>4 DEF Careful, Informed
<1>5. CASE Schedule(d) /\ proc'[d] = "mounting"
  <2>1. reports[d] = <<>> /\ reports'[d] = reports[d] \o MountReports
    BY <1>1, <1>5 DEF Schedule, Session, Typed, MountReports
  <2>2. reports'[d] = MountReports
    BY <2>1 DEF MountReports
  <2>3. MountAnnounced(d)'
    BY <2>2 DEF MountAnnounced, MountReports, StateReport
  <2> QED
    BY <1>0, <1>5, <2>3 DEF Careful, Informed
<1>6. CASE MountTape(d) /\ proc'[d] = "loaded"
  <2>1. proc[d] = "mounting" /\ reports[d] = <<>> /\ reports' = reports
    BY <1>6 DEF MountTape, ReportsRead, Session, Typed
  <2>2. TapeKnown(d)'
    <3>1. <<>> \in Seq(CleanerReports)
      OBVIOUS
    <3> QED
      BY <1>0, <2>1, <3>1 DEF Careful, Informed, MountAnnounced, TapeKnown, RequiringCleaner
  <2> QED
    BY <1>0, <1>6, <2>1, <2>2 DEF Careful, Informed
<1>7. CASE RunTape(d) \/ Unload(d)
  <2>1. PICK st \in {"Running", "Unmounting"} :
          /\ proc[d] \in {"loaded", "running"} /\ proc'[d] \in {"running", "unmounting"}
          /\ reports'[d] = Append(reports[d], StateReport(st, "Transfer"))
    BY <1>7 DEF RunTape, Unload, Session, Report, Typed
  <2>2. TapeKnown(d)'
    <3>1. TapeKnown(d)
      BY <2>1 DEF Careful, Informed
    <3>2. StateReport(st, "Transfer") \in CleanerReports
      BY DEF CleanerReports, RequiringCleaner, SessionTypes, StateReport, ReportedVid
    <3>3. Append(reports[d], StateReport(st, "Transfer")) \in Seq(CleanerReports)
      BY <3>1, <3>2 DEF TapeKnown
    <3> QED
      BY <1>0, <2>1, <3>1, <3>3 DEF TapeKnown
  <2> QED
    BY <1>0, <2>1, <2>2 DEF Careful, Informed
<1>8. \/ UNCHANGED <<proc, reports>>
      \/ /\ proc[d] \notin Started /\ reports'[d] = reports[d]
         /\ proc'[d] \notin {"mounting", "loaded", "running", "unmounting"}
      \/ proc'[d] \in {"leaving", "exited", "crashed"}
      \/ Schedule(d) /\ proc'[d] = "mounting"
      \/ MountTape(d) /\ proc'[d] = "loaded"
      \/ RunTape(d) \/ Unload(d)
  <2>1. CASE SessionFault(d)
    BY <2>1 DEF SessionFault, StorageFails, UnmountFails, Crash, Hang, Session, Typed
  <2>2. CASE RunChild(d)
    BY <2>2 DEF RunChild, Session, Typed
  <2>3. CASE SeeDown(d) \/ SeeUp(d) \/ Probe(d)
    BY <2>3 DEF SeeDown, SeeUp, Probe, Session, Typed
  <2>4. CASE Schedule(d)
    BY <2>4 DEF Schedule, Session, Typed
  <2>5. CASE MountTape(d) \/ Dismount(d) \/ Leave(d)
    BY <2>5 DEF MountTape, Dismount, Leave, Session, Typed
  <2> QED
    BY <2>1, <2>2, <2>3, <2>4, <2>5 DEF SessionStep
<1> QED
  BY <1>2, <1>3, <1>4, <1>5, <1>6, <1>7, <1>8

\* No step of a session leaves a tape in a drive that is up, with nobody to
\* know of it, but for the faults that Unheard excepts.
LEMMA SessionGuarded ==
    ASSUME Typed, NEW d \in Drives, Careful(d), SessionStep(d) \/ SessionFault(d), Unheard'
    PROVE  Guarded(d)'
<1>0. UNCHANGED <<loop, dh>> /\ faults \subseteq faults'
  BY SessionFrame, TypedIsTypeOK
<1>1. Unheard /\ Guarded(d)
  BY <1>0 DEF Careful, Unheard
<1>2. Trusting(d)' <=> Trusting(d)
  BY <1>0 DEF Trusting, SessionKind
<1> USE DEF TapeMeansDown
<1>3. CASE RunChild(d)
  <2>1. proc[d] = "start" /\ proc'[d] \in {"leaving", "cleaner", "deciding"} /\ tapeIn' = tapeIn
    BY <1>3 DEF RunChild, Session, Typed
  <2>2. proc'[d] # "cleaner" => d \notin desiredUp' \/ (Trusting(d) /\ desiredUp' \subseteq desiredUp)
    BY <1>3 DEF RunChild, Session, Typed, Trusting, SessionKind
  <2> QED
    BY <1>1, <2>1, <2>2 DEF Guarded
<1>5. CASE SeeDown(d) \/ SeeUp(d) \/ Probe(d)
  BY <1>1, <1>5 DEF SeeDown, SeeUp, Probe, PutDown, Session, Typed, Guarded, driveVars
<1>6. CASE Schedule(d)
  BY <1>1, <1>6 DEF Schedule, PutDown, Session, Typed, Guarded
<1>7. CASE MountTape(d)
  BY <1>1, <1>7 DEF MountTape, Session, Typed, Guarded
<1>8. CASE RunTape(d) \/ Unload(d) \/ Dismount(d)
  BY <1>8 DEF RunTape, Unload, Dismount, Session, Typed, Guarded
<1>9. CASE Leave(d)
  BY <1>1, <1>9 DEF Leave, Session, Typed, Guarded, driveVars
<1>10. CASE StorageFails(d)
  BY <1>10 DEF StorageFails, Trouble, Fault, Unheard
<1>11. CASE UnmountFails(d)
  BY <1>11 DEF UnmountFails, Trouble, Fault, Unheard, PutDown, Session, Typed, Guarded
<1>12. CASE Crash(d)
  <2>1. /\ proc'[d] = "crashed" /\ UNCHANGED <<reports, tapeIn, desiredUp>>
        /\ proc[d] \in TapeSteps \cup {"leaving"}
    BY <1>12 DEF Crash, Fault, Unheard, Session, Typed, driveVars
  <2>2. d \notin tapeIn \/ d \notin desiredUp \/ TapeKnown(d)
    BY <1>1, <2>1 DEF Careful, Informed, Guarded, TapeSteps
  <2>3. TapeKnown(d) => TapeKnown(d)'
    BY <1>0, <2>1 DEF TapeKnown
  <2> QED
    BY <2>1, <2>2, <2>3 DEF Guarded
<1>13. CASE Hang(d)
  <2>1. UNCHANGED <<proc, reports, tapeIn, desiredUp>>
    BY <1>13 DEF Hang, driveVars
  <2> QED
    BY <1>0, <1>1, <1>2, <2>1 DEF Guarded, TapeKnown
<1> QED
  BY <1>3, <1>5, <1>6, <1>7, <1>8, <1>9, <1>10, <1>11, <1>12, <1>13
     DEF SessionStep, SessionFault

LEMMA SessionWatched ==
    ASSUME Typed, Watched, NEW d \in Drives, SessionStep(d) \/ SessionFault(d)
    PROVE  Watched'
<1> SUFFICES ASSUME NEW e \in Drives PROVE Careful(e)'
  BY DEF Watched
<1>1. CASE e = d
  BY <1>1, SessionInformed, SessionGuarded DEF Watched, Careful
<1>2. CASE e # d
  <2>1. /\ UNCHANGED <<loop, dh, clock>> /\ faults \subseteq faults'
        /\ \E to \in Processes : proc' = [proc EXCEPT ![d] = to]
        /\ tapeIn' = tapeIn \/ tapeIn' = tapeIn \ {d} \/ tapeIn' = tapeIn \cup {d}
        /\ desiredUp' \subseteq desiredUp
    BY SessionFrame, TypedIsTypeOK
  <2>2. reports'[e] = reports[e]
    BY <1>2 DEF SessionStep, SessionFault, RunChild, SeeDown, SeeUp, Probe, Schedule,
       MountTape, RunTape, Unload, Dismount, Leave, StorageFails, UnmountFails, Crash, Hang,
       Report, Typed
  <2> QED
    BY <1>2, <2>1, <2>2, OthersWatched DEF Watched
<1> QED
  BY <1>1, <1>2

LEMMA StepWatched ==
    ASSUME Typed, Children, Watched, [Next]_vars
    PROVE  Watched'
<1>1. CASE UNCHANGED vars
  <2>1. UNCHANGED <<loop, proc, reports, dh, clock, tapeIn, desiredUp, faults>>
    BY <1>1 DEF vars, daemonVars, sessionVars, driveVars
  <2> QED
    BY <2>1, OthersWatched DEF Watched
<1>2. CASE Next
  BY <1>2, NextSplits, SigChildWatched, ShutdownWatched, KillWatched, ForkWatched,
     TimeoutsWatched, EpollWatched, SessionWatched, ElsewhereWatched
<1> QED
  BY <1>1, <1>2

\* No session sends for a tape while its drive still holds one, whatever became
\* of the sessions before it, unless one died before it had reported, could not
\* put its drive down, or an operator put the drive up before a session had seen
\* it down (NoMountOverTape).
THEOREM MountsFindDriveEmpty == Spec => []NoMountOverTape
<1>1. Init => Watched
  BY InitWatched
<1>2. Typed /\ Children /\ Watched /\ [Next]_vars => Watched'
  BY StepWatched
<1>3. Watched /\ Typed => NoMountOverTape
  BY DEF Watched, Careful, Guarded, Unheard, NoMountOverTape, Typed
<1> QED
  BY <1>1, <1>2, <1>3, AlwaysChildren, PTL DEF Spec

-----------------------------------------------------------------------------
(***************************************************************************)
(* The lost VID: what is reported has none, so no handler ever has one to  *)
(* start a cleaner session with.                                           *)
(***************************************************************************)
NoVid(d) ==
    /\ ~dh[d].vid /\ ~dh[d].previousVid
    /\ proc[d] # "cleaner"
Unnamed == reports \in [Drives -> Seq(Vidless)] /\ \A d \in Drives : NoVid(d)

LEMMA InitUnnamed == Init => Unnamed
<1> SUFFICES ASSUME Init PROVE Unnamed
  OBVIOUS
<1>1. reports \in [Drives -> Seq(Vidless)]
  BY DEF Init
<1> QED
  BY <1>1 DEF Init, Unnamed, NoVid

LEMMA LoopUnnamed ==
    ASSUME Typed, Unnamed,
           SigChildManagement \/ ShutdownManagement \/ KillManagement \/ ForkManagement
             \/ Timeouts \/ Epoll
    PROVE  Unnamed'
<1>0. <<>> \in Seq(Vidless)
  OBVIOUS
<1>1. CASE SigChildManagement
  <2>1. CASE ~sh.sigChild
    BY <1>1, <2>1 DEF SigChildManagement, Unnamed, NoVid
  <2>2. CASE sh.sigChild
    <3>1. Reap
      BY <1>1, <2>2 DEF SigChildManagement
    <3>2. reports' \in [Drives -> Seq(Vidless)]
      BY <1>0, <3>1 DEF Reap, Unnamed
    <3> QED
      BY <3>1, <3>2, ReapDrive DEF Unnamed, NoVid, Zombies
  <2> QED
    BY <2>1, <2>2
<1>2. CASE ShutdownManagement
  <2>1. CASE ~Asked
    BY <1>2, <2>1 DEF ShutdownManagement, sessionVars, Unnamed, NoVid
  <2>2. CASE ShutdownAll
    <3>1. ShutdownDrives(Drives)
      BY <2>2 DEF ShutdownAll
    <3>2. reports' \in [Drives -> Seq(Vidless)]
      BY <1>0, <3>1 DEF ShutdownDrives, Unnamed
    <3> QED
      BY <3>1, <3>2, ShutdownDrive DEF Unnamed, NoVid
  <2>3. CASE ShutdownFails
    <3>1. PICK d \in Drives :
            /\ proc' = [proc EXCEPT ![d] = "none"]
            /\ reports' = [reports EXCEPT ![d] = <<>>]
      BY <2>3 DEF ShutdownFails, Killed
    <3>2. reports' \in [Drives -> Seq(Vidless)]
      BY <1>0, <3>1 DEF Unnamed
    <3>3. dh' = dh /\ \A e \in Drives : proc'[e] \in {proc[e], "none"}
      BY <2>3, <3>1 DEF ShutdownFails, Typed
    <3> QED
      BY <3>2, <3>3 DEF Unnamed, NoVid
  <2> QED
    BY <1>2, <2>1, <2>2, <2>3 DEF ShutdownManagement
<1>3. CASE KillManagement
  <2>1. reports' \in [Drives -> Seq(Vidless)]
    BY <1>0, <1>3 DEF KillManagement, sessionVars, Unnamed
  <2> QED
    BY <1>3, <2>1 DEF KillManagement, sessionVars, Killed, Unnamed, NoVid
<1>4. CASE ForkManagement
  <2>1. reports' = reports
    BY <1>4 DEF ForkManagement
  <2> QED
    BY <1>4, <2>1, ForkDrive DEF Unnamed, NoVid
<1>5. CASE Timeouts
  <2>1. /\ UNCHANGED <<dh, reports>>
        /\ \A d \in Drives : proc'[d] \in {proc[d], "crashed"}
    BY <1>5 DEF Timeouts
  <2> QED
    BY <2>1 DEF Unnamed, NoVid
<1>6. CASE Epoll
  <2>1. ASSUME NEW d \in Drives, reports[d] # <<>>
        PROVE  ~Head(reports[d]).vid /\ Tail(reports[d]) \in Seq(Vidless)
    <3>1. reports[d] \in Seq(Vidless)
      BY DEF Unnamed
    <3>2. Head(reports[d]) \in Vidless /\ Tail(reports[d]) \in Seq(Vidless)
      BY <2>1, <3>1
    <3> QED
      BY <3>2 DEF Vidless
  <2>2. reports' \in [Drives -> Seq(Vidless)]
    BY <1>6, <2>1 DEF Epoll, Unnamed
  <2>3. proc' = proc
    BY <1>6 DEF Epoll
  <2> QED
    BY <1>6, <2>1, <2>2, <2>3, EventDrive DEF Unnamed, NoVid
<1> QED
  BY <1>1, <1>2, <1>3, <1>4, <1>5, <1>6

LEMMA SessionUnnamed ==
    ASSUME Typed, Unnamed, NEW d \in Drives, SessionStep(d) \/ SessionFault(d)
    PROVE  Unnamed'
<1>1. reports' \in [Drives -> Seq(Vidless)]
  BY SessionReports, ReportsVidless DEF Unnamed
<1>2. /\ dh' = dh
      /\ \E to \in Processes : proc' = [proc EXCEPT ![d] = to]
  BY SessionFrame, TypedIsTypeOK
<1>3. proc'[d] # "cleaner"
  <2>1. CASE RunChild(d)
    <3>1. SessionKind(dh[d]) # "cleaner"
      BY DEF Unnamed, NoVid, SessionKind
    <3> QED
      BY <2>1, <3>1 DEF RunChild, Session, Typed
  <2>2. CASE Hang(d)
    BY <2>2 DEF Hang, Unnamed, NoVid
  <2>3. CASE ~RunChild(d) /\ ~Hang(d)
    BY <2>3 DEF SessionStep, SessionFault, SeeDown, SeeUp, Probe, Schedule, MountTape, RunTape,
       Unload, Dismount, Leave, StorageFails, UnmountFails, Crash, Session, Typed
  <2> QED
    BY <2>1, <2>2, <2>3
<1>4. \A e \in Drives : e = d \/ proc'[e] = proc[e]
  BY <1>2 DEF Typed
<1> QED
  BY <1>1, <1>2, <1>3, <1>4 DEF Unnamed, NoVid

LEMMA StepUnnamed ==
    ASSUME Typed, Unnamed, [Next]_vars
    PROVE  Unnamed'
<1>1. CASE UNCHANGED vars
  BY <1>1 DEF vars, daemonVars, sessionVars, Unnamed, NoVid
<1>2. CASE Elsewhere
  <2>1. UNCHANGED <<dh, proc, reports>>
    BY <1>2 DEF Elsewhere, MaintenanceStops, MaintenanceCrashes, MaintenanceEnds,
       MaintenanceHangs, KillClockRunsOut, Terminate, OperatorPutsUp, ClockRunsOut,
       daemonVars, sessionVars
  <2> QED
    BY <2>1 DEF Unnamed, NoVid
<1> QED
  BY <1>1, <1>2, NextSplits, LoopUnnamed, SessionUnnamed

\* No cleaner session is ever started, whatever the drives and the faults: the
\* VID that DriveHandler::runChild asks for is in no report (NoCleanerStarts).
THEOREM CleanerNeverStarts == Spec => []NoCleanerStarts
<1>1. Init => Unnamed
  BY InitUnnamed
<1>2. Typed /\ Unnamed /\ [Next]_vars => Unnamed'
  BY StepUnnamed
<1>3. Unnamed => NoCleanerStarts
  BY DEF Unnamed, NoVid, NoCleanerStarts
<1> QED
  BY <1>1, <1>2, <1>3, AlwaysChildren, PTL DEF Spec
=============================================================================
