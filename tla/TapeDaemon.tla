----------------------------- MODULE TapeDaemon -----------------------------
(***************************************************************************)
(* The processes of a tape server (src/tapeserver/daemon): the daemon's    *)
(* main loop (ProcessManager) with its signal handler, one handler for     *)
(* each drive and one for the maintenance process; and the child processes *)
(* themselves, as far as the daemon can tell what they do: a drive session *)
(* reports its states over a socket pair and exits, crashes or hangs; the  *)
(* maintenance process runs until it is told to stop.                      *)
(*                                                                         *)
(* One action per part of the main loop; the children take their steps in  *)
(* between.  A handler's m_pid is set exactly while its child is a process *)
(* or a zombie, so the child's state stands for it.  Of the VID of a       *)
(* session, only whether it is empty is kept.                              *)
(*                                                                         *)
(* Time: an armed clock may run out at any moment.  Heartbeats only arm a  *)
(* clock again and are left out.  The one timing assumption is ReportsRead *)
(* below: the robot takes longer to mount a tape than the main loop to     *)
(* read the reports sent before.                                           *)
(***************************************************************************)
EXTENDS Naturals, Sequences, FiniteSets

CONSTANTS
    Drives,         \* the configured drives
    Faults,         \* bound: the kinds of fault that happen
    MaxFaults       \* bound: how many of the kinds happen in one behaviour

\* crash: a session with a mount, or the maintenance process; early: a session
\* that has reported nothing yet; hang: a session or the maintenance process;
\* storage: a session cannot reach the central storage, to work or to put its
\* drive down; unmount: it cannot unmount; fork: forks fail; catalogue: a
\* shutdown cannot put drives down; hasty: an operator puts a drive up before
\* the session has seen it down.
FaultKinds == {"crash", "early", "hang", "storage", "unmount", "fork", "catalogue", "hasty"}

ASSUME FaultsAssumption == Faults \subseteq FaultKinds /\ MaxFaults \in Nat

VARIABLES
    loop,           \* the part of ProcessManager::run that comes next
    signals,        \* the signals pending on the daemon
    sh,             \* the signal handler and its status
    killClock,      \* its timeout after a shutdown request
    dh,             \* the handler of each drive and its status
    clock,          \* the timeout of each drive handler
    socket,         \* the drive handler's end of the socket pair is open
    mh,             \* the maintenance handler and its status
    proc,           \* the session process of each drive
    hung,           \* the sessions that will never do anything again
    reports,        \* the reports of each session not read yet
    tapeIn,         \* the drive holds a tape
    desiredUp,      \* the desired state of the drive in the catalogue
    mproc,          \* the maintenance process
    mtold,          \* it has been sent the shutdown message
    mhung,          \* it will never do anything again
    faults          \* the faults so far

daemonVars == <<loop, signals, sh, killClock, dh, clock, socket, mh>>
sessionVars == <<proc, hung, reports>>
driveVars == <<tapeIn, desiredUp>>
maintenanceVars == <<mproc, mtold, mhung>>
vars == <<daemonVars, sessionVars, driveVars, maintenanceVars, faults>>

\* The states a session reports, and those that leave a timeout running.
Reported == {"Scheduling", "Mounting", "Running", "Unmounting",
             "DrainingToDisk", "ShuttingDown", "Fatal"}
TimedStates == Reported \ {"Fatal"}
SessionStates == Reported \cup {"PendingFork", "Shutdown"}
SessionTypes == {"Undetermined", "Transfer", "Cleanup"}

\* The steps of a session process; the zombies await their handler.
Zombies == {"exited", "crashed"}
TapeSteps == {"mounting", "loaded", "running", "unmounting"}
Live == {"start", "cleaner", "deciding", "down", "scheduling", "leaving"} \cup TapeSteps

TypeOK ==
    /\ loop \in {"sigchild", "shutdown", "kill", "fork", "timeouts", "epoll", "exited"}
    /\ signals \subseteq {"TERM", "CHLD"}
    /\ sh \in [requested : BOOLEAN, acknowledged : BOOLEAN, shutdown : BOOLEAN,
               kill : BOOLEAN, sigChild : BOOLEAN]
    /\ killClock \in {"off", "armed", "due"}
    /\ dh \in [Drives -> [state : SessionStates, type : SessionTypes,
                          previous : {"Initiating", "Up", "Crashed"},
                          previousTape : BOOLEAN, previousCleanup : BOOLEAN,
                          vid : BOOLEAN, previousVid : BOOLEAN,
                          fork : BOOLEAN, shutdown : BOOLEAN, complete : BOOLEAN]]
    /\ clock \in [Drives -> {"off", "armed", "due"}]
    /\ socket \in [Drives -> BOOLEAN]
    /\ mh \in [shuttingDown : BOOLEAN, fork : BOOLEAN, complete : BOOLEAN]
    /\ proc \in [Drives -> Live \cup Zombies \cup {"none"}]
    /\ hung \subseteq Drives
    /\ reports \in [Drives -> Seq([state : Reported, type : SessionTypes, vid : BOOLEAN])]
    /\ tapeIn \subseteq Drives
    /\ desiredUp \subseteq Drives
    /\ mproc \in {"none", "running"} \cup Zombies
    /\ {mtold, mhung} \subseteq BOOLEAN
    /\ faults \subseteq Faults

Init ==
    /\ loop = "sigchild"
    /\ signals = {}
    /\ sh = [requested |-> FALSE, acknowledged |-> FALSE, shutdown |-> FALSE,
             kill |-> FALSE, sigChild |-> FALSE]
    /\ killClock = "off"
    /\ dh = [d \in Drives |->
               [state |-> "PendingFork", type |-> "Undetermined",
                previous |-> "Initiating", previousTape |-> FALSE,
                previousCleanup |-> FALSE, vid |-> FALSE, previousVid |-> FALSE,
                fork |-> TRUE, shutdown |-> FALSE, complete |-> FALSE]]
    /\ clock = [d \in Drives |-> "off"]
    /\ socket = [d \in Drives |-> FALSE]
    /\ mh = [shuttingDown |-> FALSE, fork |-> TRUE, complete |-> FALSE]
    /\ proc = [d \in Drives |-> "none"]
    /\ hung = {}
    /\ reports = [d \in Drives |-> <<>>]
    /\ tapeIn \in SUBSET Drives
    /\ desiredUp \in SUBSET Drives
    /\ mproc = "none"
    /\ mtold = FALSE
    /\ mhung = FALSE
    /\ faults = {}

\* A fault that happens once.
Fault(k) ==
    /\ k \in Faults \ faults
    /\ Cardinality(faults) < MaxFaults
    /\ faults' = faults \cup {k}

\* A trouble that, once there, comes back whenever it likes.
Trouble(k) == (k \in faults /\ UNCHANGED faults) \/ Fault(k)

-----------------------------------------------------------------------------
(***************************************************************************)
(* ProcessManager::runSigChildManagement: a SIGCHLD that was read is shown *)
(* to all handlers, each of which looks after its own child.               *)
(***************************************************************************)
AllComplete(handlers, m) == m.complete /\ \A d \in Drives : handlers[d].complete

\* Variant: a session that was unmounting needs no cleaner.
RequiringCleanerForgetful == {"Mounting", "Running"}

\* The states in which a tape may be in the drive.
RequiringCleaner == {"Mounting", "Running", "Unmounting"}

\* Of the state and the type of the session that ended, only what the next
\* session asks of them is kept.
resetToDefault(h, how) ==
    [h EXCEPT !.previous = how, !.previousTape = h.state \in RequiringCleaner,
              !.previousCleanup = h.type = "Cleanup", !.previousVid = h.vid,
              !.state = "PendingFork", !.type = "Undetermined", !.vid = FALSE,
              !.fork = FALSE, !.shutdown = FALSE, !.complete = FALSE]

\* Variant: a session that exits is recorded as having left its drive down.
DriveSigChildDown(d) ==
    CASE proc[d] = "exited" -> [resetToDefault(dh[d], "Down") EXCEPT !.fork = TRUE]
      [] proc[d] = "crashed" -> [resetToDefault(dh[d], "Crashed") EXCEPT !.fork = TRUE]
      [] OTHER -> dh[d]

\* DriveHandler::processSigChild
DriveSigChild(d) ==
    CASE proc[d] = "exited" /\ dh[d].state = "Shutdown" -> [dh[d] EXCEPT !.fork = FALSE]
      [] proc[d] = "exited" /\ dh[d].state # "Shutdown" ->
           [resetToDefault(dh[d], "Up") EXCEPT !.fork = TRUE]
      [] proc[d] = "crashed" -> [resetToDefault(dh[d], "Crashed") EXCEPT !.fork = TRUE]
      [] OTHER -> dh[d]

\* Variant: one child is looked after for each signal.
MaintenanceEndedAlone == mproc \in Zombies /\ \A d \in Drives : proc[d] \notin Zombies
MaintenanceEnded == mproc \in Zombies

\* Variant: a signal is taken for the end of the handler's own child.
MaintenanceSigChildAnyone ==
    IF mh.shuttingDown THEN [mh EXCEPT !.fork = FALSE, !.complete = TRUE]
    ELSE [mh EXCEPT !.fork = TRUE]

\* MaintenanceHandler::processSigChild
MaintenanceSigChild ==
    CASE MaintenanceEnded /\ mh.shuttingDown -> [mh EXCEPT !.fork = FALSE, !.complete = TRUE]
      [] MaintenanceEnded /\ ~mh.shuttingDown -> [mh EXCEPT !.fork = TRUE]
      [] OTHER -> mh

Reap ==
    LET ended == {d \in Drives : proc[d] \in Zombies}
    IN  /\ sh' = [sh EXCEPT !.sigChild = FALSE, !.shutdown = FALSE, !.kill = FALSE]
        /\ dh' = [d \in Drives |-> DriveSigChild(d)]
        /\ mh' = MaintenanceSigChild
        /\ clock' = [d \in Drives |-> IF d \in ended THEN "off" ELSE clock[d]]
        /\ socket' = [d \in Drives |-> socket[d] /\ d \notin ended]
        /\ reports' = [d \in Drives |-> IF d \in ended THEN <<>> ELSE reports[d]]
        /\ proc' = [d \in Drives |-> IF d \in ended THEN "none" ELSE proc[d]]
        /\ mproc' = IF MaintenanceEnded THEN "none" ELSE mproc

SigChildManagement ==
    /\ loop = "sigchild"
    /\ \/ sh.sigChild /\ Reap
       \/ ~sh.sigChild /\ UNCHANGED <<sh, dh, mh, clock, socket, reports, proc, mproc>>
    /\ loop' = IF AllComplete(dh', mh') THEN "exited" ELSE "shutdown"
    /\ UNCHANGED <<signals, killClock, hung, driveVars, mtold, mhung, faults>>

(***************************************************************************)
(* ProcessManager::runShutdownManagement: once any handler asks, shutdown  *)
(* is called on all of them, in the order in which they were added: the    *)
(* signal handler, the drives, maintenance.                                *)
(*                                                                         *)
(* A drive handler kills its session and waits for it, runs a cleaner      *)
(* where a tape of known VID may be in the drive, and puts the drive down. *)
(* A put-down that fails is logged, and the handler complete all the same. *)
(***************************************************************************)
\* Variant: the session is not killed.
KillNone(d) == proc[d]
\* DriveHandler::kill, and the signal the dead child leaves.
Killed(d) == "none"

DriveShutdown(d) ==
    [dh[d] EXCEPT !.state = "Shutdown", !.fork = FALSE, !.complete = TRUE]

\* Variant: only a drive that held a tape is put down.
UpAfterShutdownIdle(ds) == desiredUp \ {d \in ds : dh[d].state \in RequiringCleaner}
\* setDriveDownForShutdown
UpAfterShutdown(ds) == desiredUp \ ds

\* The cleaner that the daemon runs takes the tape out, or fails.
CleanedTapes(ds) == SUBSET {d \in ds : dh[d].state \in RequiringCleaner /\ dh[d].vid}

ShutdownDrives(ds) ==
    /\ dh' = [d \in Drives |-> IF d \in ds THEN DriveShutdown(d) ELSE dh[d]]
    /\ clock' = [d \in Drives |-> IF d \in ds THEN "off" ELSE clock[d]]
    /\ socket' = [d \in Drives |-> socket[d] /\ d \notin ds]
    /\ reports' = [d \in Drives |-> IF d \in ds THEN <<>> ELSE reports[d]]
    /\ proc' = [d \in Drives |-> IF d \in ds THEN Killed(d) ELSE proc[d]]
    /\ hung' = hung \ ds
    /\ \E cleaned \in CleanedTapes(ds) : tapeIn' = tapeIn \ cleaned
    /\ \/ desiredUp' = UpAfterShutdown(ds) /\ UNCHANGED faults
       \/ desiredUp' \in SUBSET desiredUp /\ Trouble("catalogue")
    /\ signals' = IF \E d \in ds : proc[d] \in Live THEN signals \cup {"CHLD"} ELSE signals

\* MaintenanceHandler::shutdown: the child is sent a message, which throws
\* when it has died already.  Nothing takes a requested fork back.
MaintenanceShutdown ==
    /\ mh' = [mh EXCEPT !.shuttingDown = TRUE]
    /\ mtold' = (mproc = "running" \/ mtold)
    /\ UNCHANGED <<mproc, mhung>>

\* An exception leaves the main loop: ~MaintenanceHandler kills its child,
\* ~DriveHandler does nothing.
LeaveByException ==
    /\ loop' = "exited"
    /\ mproc' = "none"
    /\ mhung' = FALSE
    /\ UNCHANGED <<mh, mtold>>

Asked == sh.shutdown \/ \E d \in Drives : dh[d].shutdown

ShutdownAll ==
    /\ ShutdownDrives(Drives)
    /\ sh' = [sh EXCEPT !.acknowledged = TRUE, !.shutdown = FALSE, !.kill = FALSE]
    /\ IF mproc \in Zombies
       THEN LeaveByException
       ELSE /\ MaintenanceShutdown
            /\ loop' = IF AllComplete(dh', mh') THEN "exited" ELSE "kill"

\* The catalogue cannot be opened: the first drive handler that needs it has
\* killed its session, the ones after it have not been reached.
ShutdownFails ==
    /\ Trouble("catalogue")
    /\ \E d \in Drives :
        /\ proc' = [proc EXCEPT ![d] = Killed(d)]
        /\ hung' = hung \ {d}
        /\ socket' = [socket EXCEPT ![d] = FALSE]
        /\ reports' = [reports EXCEPT ![d] = <<>>]
    /\ LeaveByException
    /\ UNCHANGED <<signals, sh, dh, clock, driveVars>>

ShutdownManagement ==
    /\ loop = "shutdown"
    /\ \/ Asked /\ (ShutdownAll \/ ShutdownFails)
       \/ /\ ~Asked
          /\ loop' = IF AllComplete(dh, mh) THEN "exited" ELSE "kill"
          /\ UNCHANGED <<signals, sh, dh, clock, socket, mh, sessionVars, driveVars,
                         maintenanceVars, faults>>
    /\ UNCHANGED killClock

\* ProcessManager::runKillManagement: kill is called on all handlers.
KillManagement ==
    /\ loop = "kill"
    /\ \/ /\ sh.kill
          /\ proc' = [d \in Drives |-> Killed(d)]
          /\ mproc' = "none"
          /\ hung' = {}
          /\ mhung' = FALSE
          /\ reports' = [d \in Drives |-> <<>>]
          /\ socket' = [d \in Drives |-> FALSE]
          /\ loop' = "exited"
       \/ /\ ~sh.kill
          /\ loop' = "fork"
          /\ UNCHANGED <<socket, sessionVars, mproc, mhung>>
    /\ UNCHANGED <<signals, sh, killClock, dh, clock, mh, driveVars, mtold, faults>>

(***************************************************************************)
(* ProcessManager::runForkManagement.  A handler that cannot fork declares *)
(* itself shut down and sends SIGTERM to its own process; the others are   *)
(* asked all the same.                                                     *)
(***************************************************************************)
DriveForkFailed(h) ==
    [h EXCEPT !.state = "Shutdown", !.fork = FALSE, !.shutdown = FALSE, !.complete = TRUE]

DriveForks == {d \in Drives : dh[d].fork}

\* cannot are the drives whose fork fails, mcannot whether maintenance's does.
ForkAll(cannot, mcannot) ==
    /\ dh' = [d \in Drives |-> IF d \in cannot THEN DriveForkFailed(dh[d])
                               ELSE [dh[d] EXCEPT !.fork = FALSE]]
    /\ proc' = [d \in Drives |-> IF d \in DriveForks \ cannot THEN "start" ELSE proc[d]]
    /\ socket' = [d \in Drives |-> socket[d] \/ d \in DriveForks \ cannot]
    /\ mh' = [mh EXCEPT !.fork = FALSE, !.complete = mh.complete \/ mcannot]
    /\ mproc' = IF mh.fork /\ ~mcannot THEN "running" ELSE mproc
    /\ mtold' = (mtold /\ ~mh.fork)

ForkManagement ==
    /\ loop = "fork"
    /\ loop' = "timeouts"
    /\ \/ ForkAll({}, FALSE) /\ UNCHANGED <<signals, faults>>
       \/ /\ \E cannot \in SUBSET DriveForks, mcannot \in {FALSE, mh.fork} :
              (cannot # {} \/ mcannot) /\ ForkAll(cannot, mcannot)
          /\ signals' = signals \cup {"TERM"}
          /\ Trouble("fork")
    /\ UNCHANGED <<sh, killClock, clock, hung, reports, driveVars, mhung>>

(***************************************************************************)
(* ProcessManager::runEventLoop, first part: timeouts.  The signal         *)
(* handler's asks for a kill and goes back to the top of the loop; a drive *)
(* handler's kills the session, which a SIGCHLD will tell.                 *)
(***************************************************************************)
Timeouts ==
    /\ loop = "timeouts"
    /\ IF killClock = "due"
       THEN /\ sh' = [sh EXCEPT !.shutdown = FALSE, !.kill = TRUE, !.sigChild = FALSE]
            /\ loop' = "sigchild"
            /\ UNCHANGED <<clock, proc, hung, signals, dh>>
       ELSE LET late == {d \in Drives : clock[d] = "due"}
                killed == {d \in late : proc[d] \in Live}
            IN  /\ proc' = [d \in Drives |-> IF d \in killed THEN "crashed" ELSE proc[d]]
                /\ hung' = hung \ killed
                /\ signals' = IF killed = {} THEN signals ELSE signals \cup {"CHLD"}
                /\ clock' = [d \in Drives |-> IF d \in late THEN "off" ELSE clock[d]]
                /\ loop' = "epoll"
                /\ UNCHANGED <<sh, dh>>
    /\ UNCHANGED <<killClock, socket, mh, reports, driveVars, maintenanceVars, faults>>

(***************************************************************************)
(* Second part: events, one signal and one report of each drive at a time. *)
(* The kernel gives the lower signal number first: SIGTERM, then SIGCHLD.  *)
(***************************************************************************)
\* Variant: nothing limits the time that a shutdown may take.
KillClockOnceNever(requested) == killClock
KillClockOnce(requested) == IF requested /\ killClock = "off" THEN "armed" ELSE killClock

\* SignalHandler::processEvent
ReadSignal ==
    IF signals = {} THEN UNCHANGED <<signals, sh, killClock>>
    ELSE LET s == IF "TERM" \in signals THEN "TERM" ELSE "CHLD"
             r == sh.requested \/ s = "TERM"
         IN  /\ signals' = signals \ {s}
             /\ sh' = [sh EXCEPT !.requested = r,
                                 !.shutdown = r /\ ~sh.acknowledged,
                                 !.kill = FALSE,
                                 !.sigChild = sh.sigChild \/ s = "CHLD"]
             /\ killClock' = KillClockOnce(r)

\* Variant: a session that moves data is not timed.
nextTimeoutMoving(s) == IF s \in TimedStates \ {"Running"} THEN "armed" ELSE "off"
\* DriveHandler::nextTimeout
nextTimeout(s) == IF s \in TimedStates THEN "armed" ELSE "off"

\* DriveHandler::processEvent and the process function of each state: those
\* of a tape keep the VID that is reported.
DriveEvent(d) ==
    LET r == Head(reports[d])
    IN  [dh[d] EXCEPT !.state = r.state, !.type = r.type,
                      !.vid = r.vid /\ r.state \in RequiringCleaner,
                      !.shutdown = dh[d].shutdown \/ r.state = "Fatal"]

Epoll ==
    /\ loop = "epoll"
    /\ loop' = "sigchild"
    /\ ReadSignal
    /\ LET told == {d \in Drives : socket[d] /\ reports[d] # <<>>}
           cut == {d \in Drives : socket[d] /\ reports[d] = <<>> /\ proc[d] \in Zombies}
       IN  /\ dh' = [d \in Drives |-> IF d \in told THEN DriveEvent(d) ELSE dh[d]]
           /\ clock' = [d \in Drives |->
                          IF d \in told THEN nextTimeout(dh'[d].state) ELSE clock[d]]
           /\ reports' = [d \in Drives |-> IF d \in told THEN Tail(reports[d]) ELSE reports[d]]
           /\ socket' = [d \in Drives |-> socket[d] /\ d \notin cut]
    /\ UNCHANGED <<mh, proc, hung, driveVars, maintenanceVars, faults>>

MainLoop ==
    SigChildManagement \/ ShutdownManagement \/ KillManagement \/ ForkManagement
      \/ Timeouts \/ Epoll

-----------------------------------------------------------------------------
(***************************************************************************)
(* The session of a drive: DriveHandler::runChild.                         *)
(***************************************************************************)
Session(d, from, to) ==
    /\ proc[d] = from /\ d \notin hung
    /\ proc' = [proc EXCEPT ![d] = to]
    /\ UNCHANGED <<loop, sh, killClock, dh, clock, socket, mh, hung, maintenanceVars>>

\* Variant: the reporter is given the volume after the mount is known.
ReportedVidKnown == TRUE
\* TapeServerReporter keeps a copy of the volume, made before its VID is set.
ReportedVid == FALSE

StateReport(s, t) == [state |-> s, type |-> t, vid |-> ReportedVid]
Report(d, s, t) == reports' = [reports EXCEPT ![d] = Append(@, StateReport(s, t))]
PutDown(d) == desiredUp' = desiredUp \ {d}

\* No report has the type Cleanup: the first case does not arise.
SessionKind(h) ==
    IF h.previous = "Crashed" /\ (h.previousCleanup \/ (h.previousTape /\ ~h.previousVid))
    THEN "down"
    ELSE IF h.previous = "Crashed" /\ h.previousTape THEN "cleaner"
    ELSE "transfer"

\* The central storage is reached, and the kind of session decided.  The
\* first session of all puts the drive down before anything else.  What a
\* cleaner session goes on to do is left out: NoCleanerStarts.
RunChild(d) ==
    LET kind == SessionKind(dh[d])
    IN  /\ Session(d, "start", CASE kind = "down" -> "leaving"
                                 [] kind = "cleaner" -> "cleaner"
                                 [] OTHER -> "deciding")
        /\ desiredUp' = IF kind = "down" \/ (kind = "transfer" /\ dh[d].previous = "Initiating")
                        THEN desiredUp \ {d} ELSE desiredUp
        /\ UNCHANGED <<signals, reports, tapeIn, faults>>

\* The central storage cannot be reached, or the drive not be put down.
StorageFails(d) ==
    /\ Session(d, "start", "leaving")
    /\ Trouble("storage")
    /\ Report(d, "Fatal", "Undetermined")
    /\ UNCHANGED <<signals, driveVars>>

(***************************************************************************)
(* DataTransferSession::execute.  A drive that was seen down is probed     *)
(* before it is used.                                                      *)
(***************************************************************************)
SeeDown(d) ==
    /\ d \notin desiredUp
    /\ Session(d, "deciding", "down")
    /\ UNCHANGED <<signals, reports, driveVars, faults>>

SeeUp(d) ==
    /\ d \in desiredUp
    /\ Session(d, "deciding", "scheduling")
    /\ UNCHANGED <<signals, reports, driveVars, faults>>

Probe(d) ==
    /\ d \in desiredUp
    /\ \/ Session(d, "down", "scheduling") /\ d \notin tapeIn /\ UNCHANGED desiredUp
       \/ Session(d, "down", "deciding") /\ d \in tapeIn /\ PutDown(d)
    /\ UNCHANGED <<signals, reports, tapeIn, faults>>

\* Nothing to mount, or nothing to do on the mount, or an error, or a drive
\* that is not found, or a mount.  The reporter is started with the session's
\* threads, and sends what was reported before only then or when it is bailed
\* out of a session whose drive is not found.
Schedule(d) ==
    /\ \/ Session(d, "scheduling", "deciding") /\ UNCHANGED <<reports, desiredUp>>
       \/ Session(d, "scheduling", "leaving") /\ UNCHANGED <<reports, desiredUp>>
       \/ Session(d, "scheduling", "leaving") /\ PutDown(d) /\ UNCHANGED reports
       \/ /\ Session(d, "scheduling", "leaving")
          /\ Report(d, "Scheduling", "Undetermined")
          /\ PutDown(d)
       \/ /\ Session(d, "scheduling", "mounting")
          /\ reports' = [reports EXCEPT ![d] =
                           @ \o <<StateReport("Scheduling", "Undetermined"),
                                  StateReport("Mounting", "Transfer")>>]
          /\ UNCHANGED desiredUp
    /\ UNCHANGED <<signals, tapeIn, faults>>

(***************************************************************************)
(* The tape thread (TapeWriteSingleThread, TapeReadSingleThread): mount,   *)
(* run, and ~TapeCleaning, which unloads and dismounts.                    *)
(***************************************************************************)
ReportsRead(d) == reports[d] = <<>>

MountTape(d) ==
    /\ ReportsRead(d)
    /\ \/ /\ Session(d, "mounting", "loaded")
          /\ tapeIn' = tapeIn \cup {d}
          /\ UNCHANGED reports
       \/ /\ Session(d, "mounting", "leaving")
          /\ Report(d, "ShuttingDown", "Transfer")
          /\ UNCHANGED tapeIn
    /\ UNCHANGED <<signals, desiredUp, faults>>

RunTape(d) ==
    /\ Session(d, "loaded", "running")
    /\ Report(d, "Running", "Transfer")
    /\ UNCHANGED <<signals, driveVars, faults>>

Unload(d) ==
    /\ \/ Session(d, "loaded", "unmounting")
       \/ Session(d, "running", "unmounting")
    /\ Report(d, "Unmounting", "Transfer")
    /\ UNCHANGED <<signals, driveVars, faults>>

Dismount(d) ==
    /\ Session(d, "unmounting", "leaving")
    /\ \E s \in {"ShuttingDown", "DrainingToDisk"} : Report(d, s, "Transfer")
    /\ tapeIn' = tapeIn \ {d}
    /\ UNCHANGED <<signals, desiredUp, faults>>

\* The report packer is asked to put the drive down, and the session waits
\* for it to end; it may have ended before, on an exception of its own.
UnmountFails(d) ==
    /\ \E step \in {"loaded", "running", "unmounting"} : Session(d, step, "leaving")
    /\ Report(d, "Fatal", "Transfer")
    /\ \/ Fault("unmount") /\ PutDown(d)
       \/ Trouble("storage") /\ UNCHANGED desiredUp
    /\ UNCHANGED <<signals, tapeIn>>

Leave(d) ==
    /\ Session(d, "leaving", "exited")
    /\ signals' = signals \cup {"CHLD"}
    /\ UNCHANGED <<reports, driveVars, faults>>

Crash(d) ==
    /\ proc[d] \in Live
    /\ Fault(IF proc[d] \in TapeSteps \cup {"leaving"} THEN "crash" ELSE "early")
    /\ Session(d, proc[d], "crashed")
    /\ signals' = signals \cup {"CHLD"}
    /\ UNCHANGED <<reports, driveVars>>

Hang(d) ==
    /\ proc[d] \in Live /\ d \notin hung
    /\ Fault("hang")
    /\ hung' = hung \cup {d}
    /\ UNCHANGED <<daemonVars, proc, reports, driveVars, maintenanceVars>>

SessionStep(d) ==
    \/ RunChild(d)
    \/ SeeDown(d) \/ SeeUp(d) \/ Probe(d) \/ Schedule(d)
    \/ MountTape(d) \/ RunTape(d) \/ Unload(d) \/ Dismount(d)
    \/ Leave(d)
SessionFault(d) == StorageFails(d) \/ UnmountFails(d) \/ Crash(d) \/ Hang(d)

-----------------------------------------------------------------------------
(***************************************************************************)
(* The maintenance process: exceptionThrowingRunChild ends at a message of *)
(* the daemon, or with an exception.                                       *)
(***************************************************************************)
MaintenanceEnds(how) ==
    /\ mproc = "running" /\ ~mhung
    /\ mproc' = how
    /\ signals' = signals \cup {"CHLD"}
    /\ UNCHANGED <<loop, sh, killClock, dh, clock, socket, mh, sessionVars, driveVars,
                   mtold, mhung>>

MaintenanceStops == mtold /\ MaintenanceEnds("exited") /\ UNCHANGED faults
MaintenanceCrashes == Fault("crash") /\ MaintenanceEnds("crashed")
MaintenanceHangs ==
    /\ mproc = "running" /\ ~mhung
    /\ Fault("hang")
    /\ mhung' = TRUE
    /\ UNCHANGED <<daemonVars, sessionVars, driveVars, mproc, mtold>>

-----------------------------------------------------------------------------
\* SIGTERM from outside; further ones are ignored by the signal handler.
Terminate ==
    /\ loop # "exited" /\ ~sh.requested
    /\ signals' = signals \cup {"TERM"}
    /\ UNCHANGED <<loop, sh, killClock, dh, clock, socket, mh, sessionVars, driveVars,
                   maintenanceVars, faults>>

\* An operator wants the drive up, after its session has seen it down or before.
OperatorPutsUp(d) ==
    /\ desiredUp' = desiredUp \cup {d}
    /\ IF proc[d] = "down" THEN UNCHANGED faults ELSE Fault("hasty")
    /\ UNCHANGED <<daemonVars, sessionVars, tapeIn, maintenanceVars>>

ClockRunsOut(d) ==
    /\ clock[d] = "armed"
    /\ clock' = [clock EXCEPT ![d] = "due"]
    /\ UNCHANGED <<loop, signals, sh, killClock, dh, socket, mh, sessionVars, driveVars,
                   maintenanceVars, faults>>

KillClockRunsOut ==
    /\ killClock = "armed"
    /\ killClock' = "due"
    /\ UNCHANGED <<loop, signals, sh, dh, clock, socket, mh, sessionVars, driveVars,
                   maintenanceVars, faults>>

Next ==
    \/ MainLoop
    \/ \E d \in Drives : SessionStep(d) \/ SessionFault(d) \/ OperatorPutsUp(d) \/ ClockRunsOut(d)
    \/ MaintenanceStops \/ MaintenanceCrashes \/ MaintenanceHangs
    \/ KillClockRunsOut
    \/ Terminate

Spec == Init /\ [][Next]_vars

(***************************************************************************)
(* The daemon's loop runs, processes that are not hung take their steps,   *)
(* and time passes.  Faults, operators and SIGTERM are not owed to anyone. *)
(***************************************************************************)
FairSpec ==
    /\ Spec
    /\ WF_vars(MainLoop)
    /\ \A d \in Drives : WF_vars(SessionStep(d)) /\ WF_vars(ClockRunsOut(d))
    /\ WF_vars(MaintenanceStops)
    /\ WF_vars(KillClockRunsOut)

-----------------------------------------------------------------------------
(***************************************************************************)
(* A daemon that has exited leaves no child process behind it, to hold a   *)
(* drive that the next daemon will use, as long as it could reach the      *)
(* catalogue: the exception that says otherwise skips the later drives.    *)
(***************************************************************************)
NoChildLeftBehind ==
    loop = "exited" /\ "catalogue" \notin faults
                    => /\ \A d \in Drives : proc[d] \notin Live
                       /\ mproc # "running"

(***************************************************************************)
(* A handler that is about to fork has no child any more: no drive has two *)
(* sessions, and no child is forgotten.                                    *)
(***************************************************************************)
OneChildEach ==
    loop = "fork" => /\ \A d \in DriveForks : proc[d] = "none"
                     /\ mh.fork => mproc = "none"

(***************************************************************************)
(* A session only sends for a tape when its drive is empty, whatever       *)
(* became of the sessions before it: killed, crashed with a tape, unable   *)
(* to unmount.  It is not so when a session died before it had reported    *)
(* anything, for its successor does not know what it was for; when the one *)
(* that should have put the drive down could not; and when an operator put *)
(* the drive up again before a session had seen it down and probed it.     *)
(***************************************************************************)
NoMountOverTape ==
    faults \cap {"early", "storage", "hasty"} = {}
        => \A d \in tapeIn : proc[d] # "mounting"

(***************************************************************************)
(* The daemon puts all its drives down before it exits, as long as it can  *)
(* reach the catalogue to do so and no operator puts them up again.  It is *)
(* not so when the forks of all its handlers fail at once: each is         *)
(* complete then, and the daemon exits before it has shut them down.       *)
(***************************************************************************)
NothingForked == ~sh.acknowledged /\ AllComplete(dh, mh)
DrivesLeftDown ==
    loop = "exited" /\ faults \cap {"catalogue", "hasty"} = {}
        => desiredUp = {} \/ ("fork" \in faults /\ NothingForked)

(***************************************************************************)
(* No cleaner session is ever started: a state is reported with an empty   *)
(* VID, so after a crash with a tape in the drive the next session puts    *)
(* the drive down and leaves the tape to the operator.                     *)
(***************************************************************************)
NoCleanerStarts == \A d \in Drives : proc[d] # "cleaner"

(***************************************************************************)
(* SIGTERM ends the daemon, also when a child hangs or cannot be forked,   *)
(* unless a drive handler has asked for the shutdown as well.              *)
(***************************************************************************)
TermEndsDaemon ==
    sh.requested ~> (loop = "exited" \/ \E d \in Drives : dh[d].shutdown)

(***************************************************************************)
(* A session that hangs in a state with a timeout is killed, and its death *)
(* noticed: it does not hold the drive for ever.                           *)
(***************************************************************************)
HungSessionEnds ==
    \A d \in Drives :
        (d \in hung /\ dh[d].state \in TimedStates) ~> (proc[d] = "none" \/ loop = "exited")

(***************************************************************************)
(* Every child that dies is reaped, although the kernel merges the signals *)
(* that announce it and SIGTERM is read first.                             *)
(***************************************************************************)
DeadChildrenReaped ==
    /\ \A d \in Drives : proc[d] \in Zombies ~> (proc[d] \notin Zombies \/ loop = "exited")
    /\ mproc \in Zombies ~> (mproc \notin Zombies \/ loop = "exited")

(***************************************************************************)
(* What DriveHandler::runChild says of itself: "If the previous session    *)
(* crashed, and a tape is potentially in the drive (after report of        *)
(* starting to mount and before a report of successful unmount), this      *)
(* session instance will be a cleaner session."                            *)
(***************************************************************************)
CleanerAfterCrash ==
    \A d \in Drives :
        dh[d].previous = "Crashed" /\ dh[d].previousTape
            => proc[d] \in {"none", "start", "cleaner"} \cup Zombies
=============================================================================
