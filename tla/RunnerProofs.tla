----------------------------- MODULE RunnerProofs -----------------------------
(***************************************************************************)
(* What the runner promises of the tools it starts, for every bound.  First *)
(* a run of an installed adapter and the cleanups of its handle: what they  *)
(* leave.  Then a bounded probe: its answer is whole, and its results keep  *)
(* the contract of a supervised run.  Then the gates of a run, for every    *)
(* set of commands: a program found on the PATH is started with the user's  *)
(* directories or credentials only after it was admitted, and the report    *)
(* tells what happened to the task.                                         *)
(***************************************************************************)
EXTENDS InstalledRun, ProbeRun, Forwarding, TLAPS

-----------------------------------------------------------------------------
(* The inductive invariant                                                  *)

\* The types of the directory and of what the processes do.
DirectoryType == dir \in [exists : BOOLEAN, prompt : BOOLEAN, extra : BOOLEAN, sock : BOOLEAN,
                         marker : BOOLEAN]

StepsType ==
    /\ doing \in [Processes -> RunSteps \cup CleanupSteps \cup AtRest \cup {"done"}]
    /\ faults \in 0..MaxFaults

\* The run and the cleanups do the steps of theirs, and the run reports once.
StepsAreTheirs ==
    /\ doing[Runner] \in RunSteps \cup {"done", "killed"}
    /\ \A c \in Cleanups : doing[c] \in CleanupSteps \cup AtRest
    /\ result # "none" <=> doing[Runner] = "done"

\* There is a cleanup, and a ticket, only of a reported handle.
CleanupsHaveHandle ==
    result # "handle" => ~ticket /\ \A c \in Cleanups : doing[c] = "idle"

\* The private directory is there from its creation to the end of the harness,
\* and holds nothing once it is gone.
DirectoryIsWhole ==
    /\ ~dir.exists => ~dir.prompt /\ ~dir.extra /\ ~dir.sock /\ ~dir.marker
    /\ doing[Runner] \in {"write", "prepare", "undo", "mark"} => dir.exists
    /\ doing[Runner] \in {"seal", "mark"} \/ result = "handle" => ~dir.prompt

\* The service: none before the launch, only of Prime, and its socket is there
\* until it has ended, as long as only the run looks at it.
ServiceHasSocket ==
    /\ doing[Runner] \in {"start", "write", "prepare", "undo", "ready"} => daemon = "none"
    /\ doing[Runner] \in {"start", "write", "prepare", "undo", "ready", "running"} =>
           supervised = "none"
    /\ adapter # "prime" => daemon = "none"
    /\ doing[Runner] \in {"running", "inspect", "connect", "probe", "scrub", "seal", "mark"}
       /\ daemon \in {"up", "stopping", "dead"} => dir.sock
    /\ dir.sock => daemon \in {"up", "stopping", "dead"}

\* The service of a completed harness has started, and has ended once the run
\* goes on to its result.
ServiceIsSettled ==
    /\ supervised = "ok" \/ doing[Runner] = "mark" \/ result = "handle" => daemon # "starting"
    /\ supervised = "ok" /\ (doing[Runner] = "finalize" \/ result = "ok") =>
           daemon \in {"none", "gone"}
    /\ result = "ok" => supervised = "ok"

\* The steps of a cleanup that has settled the service, or found that it was.
AfterSettle == {"recheck", "ticket", "link", "compare", "verify", "unmark", "unticket",
                "orphanscrub", "rmdir", "ticketrm", "cleaned"}

\* A live service of a reported handle is untouched.
LiveServiceIsWhole ==
    result = "handle" /\ daemon = "up" =>
        /\ dir.exists /\ dir.sock /\ dir.marker /\ ~ticket
        /\ \A c \in Cleanups : doing[c] \notin AfterSettle

\* A ticket goes after the directory.
TicketGoesLast == \A c \in Cleanups : doing[c] \in {"ticketrm", "cleaned"} => ~dir.exists

\* One cleanup at a time: what it has seen or made is still there.
AloneIsUndisturbed ==
    exclusive =>
        /\ \A c, d \in Cleanups : Running(c) /\ Running(d) => c = d
        /\ \A c \in Cleanups :
               /\ doing[c] \in {"ticket", "link", "compare", "verify", "unmark", "unticket"} =>
                      dir.marker
               /\ doing[c] \in {"unmark", "orphanscrub", "rmdir"} => ticket

\* What the invariant adds to the types.
InstalledParts ==
    /\ StepsAreTheirs /\ CleanupsHaveHandle /\ DirectoryIsWhole /\ ServiceHasSocket
    /\ ServiceIsSettled /\ LiveServiceIsWhole /\ TicketGoesLast /\ AloneIsUndisturbed
    /\ LeftoversAreReported /\ HandleStaysValidAlone

IInv == InstalledTypeOK /\ InstalledParts

-----------------------------------------------------------------------------
(* Every step keeps it                                                     *)

\* An absent directory has the type of one.
LEMMA AbsentType ==
  NoDirectory \in [exists : BOOLEAN, prompt : BOOLEAN, extra : BOOLEAN, sock : BOOLEAN,
                   marker : BOOLEAN]
BY DEF NoDirectory

\* The steps of the run.
LEMMA RunKeeps == ASSUME IInv, RunStep PROVE IInv'
<1> USE RunnerAssumption
    DEF IInv, InstalledTypeOK, InstalledParts, DirectoryType, StepsType, StepsAreTheirs,
        CleanupsHaveHandle, DirectoryIsWhole, ServiceHasSocket, ServiceIsSettled, LiveServiceIsWhole,
        TicketGoesLast, AloneIsUndisturbed, LeftoversAreReported, OkLeavesNothing,
        HandleStaysValidAlone, HandleStaysValid, AfterSettle, Running, Processes, RunSteps,
        CleanupSteps, AtRest, Results, NoDirectory, Goto, Report, Sound, Fault, NothingElse
<1>1. CASE RefuseLaunch
  BY <1>1 DEF RefuseLaunch
<1>2. CASE CreateDirectory
  <2>1. DirectoryType'
    BY <1>2 DEF CreateDirectory
  <2>2. ticket' \in BOOLEAN
    BY <1>2 DEF CreateDirectory
  <2>3. StepsType'
    BY <1>2 DEF CreateDirectory
  <2>4. InstalledTypeOK'
    BY <1>2, <2>1, <2>2, <2>3 DEF CreateDirectory
  <2>5. InstalledParts'
    BY <1>2 DEF CreateDirectory
  <2> QED
    BY <2>4, <2>5
<1>3. CASE WriteFiles
  <2>1. DirectoryType'
    BY <1>3 DEF WriteFiles
  <2>2. ticket' \in BOOLEAN
    BY <1>3 DEF WriteFiles
  <2>3. StepsType'
    BY <1>3 DEF WriteFiles
  <2>4. InstalledTypeOK'
    BY <1>3, <2>1, <2>2, <2>3 DEF WriteFiles
  <2>5. InstalledParts'
    BY <1>3 DEF WriteFiles
  <2> QED
    BY <2>4, <2>5
<1>4. CASE PrepareRest
  BY <1>4 DEF PrepareRest
<1>5. CASE Undo
  <2>1. DirectoryType'
    BY <1>5, AbsentType DEF Undo
  <2>2. ticket' \in BOOLEAN
    BY <1>5 DEF Undo
  <2>3. StepsType'
    BY <1>5 DEF Undo
  <2>4. InstalledTypeOK'
    BY <1>5, <2>1, <2>2, <2>3 DEF Undo
  <2>5. InstalledParts'
    BY <1>5 DEF Undo
  <2> QED
    BY <2>4, <2>5
<1>6. CASE Misconfigured
  <2>1. DirectoryType'
    BY <1>6, AbsentType DEF Misconfigured
  <2>2. ticket' \in BOOLEAN
    BY <1>6 DEF Misconfigured
  <2>3. StepsType'
    BY <1>6 DEF Misconfigured
  <2>4. InstalledTypeOK'
    BY <1>6, <2>1, <2>2, <2>3 DEF Misconfigured
  <2>5. InstalledParts'
    BY <1>6 DEF Misconfigured
  <2> QED
    BY <2>4, <2>5
<1>7. CASE Launch
  BY <1>7 DEF Launch
<1>8. CASE HarnessEnds
  BY <1>8 DEF HarnessEnds
<1>9. CASE Scrub
  <2>1. DirectoryType'
    BY <1>9, ZenonT(90) DEF Scrub
  <2>2. ticket' \in BOOLEAN
    BY <1>9 DEF Scrub
  <2>3. StepsType'
    BY <1>9 DEF Scrub
  <2>4. InstalledTypeOK'
    BY <1>9, <2>1, <2>2, <2>3 DEF Scrub
  <2>5. StepsAreTheirs'
    BY <1>9 DEF Scrub
  <2>6. DirectoryIsWhole'
    BY <1>9, ZenonT(90) DEF Scrub
  <2>7. ServiceHasSocket'
    BY <1>9, ZenonT(90) DEF Scrub
  <2>8. CleanupsHaveHandle' /\ ServiceIsSettled' /\ LiveServiceIsWhole' /\ TicketGoesLast'
    BY <1>9 DEF Scrub
  <2>9. AloneIsUndisturbed' /\ LeftoversAreReported' /\ HandleStaysValidAlone'
    BY <1>9 DEF Scrub
  <2> QED
    BY <2>4, <2>5, <2>6, <2>7, <2>8, <2>9
<1>10. CASE Seal
  <2>1. DirectoryType'
    BY <1>10, AbsentType DEF Seal
  <2>2. ticket' \in BOOLEAN
    BY <1>10 DEF Seal
  <2>3. StepsType'
    BY <1>10 DEF Seal
  <2>4. InstalledTypeOK'
    BY <1>10, <2>1, <2>2, <2>3 DEF Seal
  <2>5. InstalledParts'
    BY <1>10 DEF Seal
  <2> QED
    BY <2>4, <2>5
<1>11. CASE Mark
  <2>1. DirectoryType'
    BY <1>11, ZenonT(90) DEF Mark
  <2>2. ticket' \in BOOLEAN
    BY <1>11 DEF Mark
  <2>3. StepsType'
    BY <1>11 DEF Mark
  <2>4. InstalledTypeOK'
    BY <1>11, <2>1, <2>2, <2>3 DEF Mark
  <2>5. InstalledParts'
    BY <1>11 DEF Mark
  <2> QED
    BY <2>4, <2>5
<1>12. CASE Close
  <2>1. DirectoryType'
    BY <1>12, AbsentType DEF Close
  <2>2. ticket' \in BOOLEAN
    BY <1>12 DEF Close
  <2>3. StepsType'
    BY <1>12 DEF Close
  <2>4. InstalledTypeOK'
    BY <1>12, <2>1, <2>2, <2>3 DEF Close
  <2>5. InstalledParts'
    BY <1>12 DEF Close
  <2> QED
    BY <2>4, <2>5
<1>13. CASE Finalize
  <2>1. DirectoryType'
    BY <1>13, AbsentType DEF Finalize
  <2>2. ticket' \in BOOLEAN
    BY <1>13 DEF Finalize
  <2>3. StepsType'
    BY <1>13 DEF Finalize
  <2>4. InstalledTypeOK'
    BY <1>13, <2>1, <2>2, <2>3 DEF Finalize
  <2>5. InstalledParts'
    BY <1>13 DEF Finalize
  <2> QED
    BY <2>4, <2>5
<1> QED
  BY <1>1, <1>2, <1>3, <1>4, <1>5, <1>6, <1>7, <1>8, <1>9, <1>10, <1>11, <1>12, <1>13 DEF RunStep

\* The steps of the service.
LEMMA ServiceKeeps == ASSUME IInv, DaemonStep PROVE IInv'
<1> USE RunnerAssumption
    DEF IInv, InstalledTypeOK, InstalledParts, DirectoryType, StepsType, StepsAreTheirs,
        CleanupsHaveHandle, DirectoryIsWhole, ServiceHasSocket, ServiceIsSettled, LiveServiceIsWhole,
        TicketGoesLast, AloneIsUndisturbed, LeftoversAreReported, OkLeavesNothing,
        HandleStaysValidAlone, HandleStaysValid, AfterSettle, Running, Processes, RunSteps,
        CleanupSteps, AtRest, Results, NoDirectory, Goto, Report, Sound, Fault, NothingElse
<1>1. CASE DaemonBinds
  <2>1. InstalledTypeOK'
    BY <1>1 DEF DaemonBinds
  <2>2. StepsAreTheirs' /\ CleanupsHaveHandle' /\ DirectoryIsWhole'
    BY <1>1 DEF DaemonBinds
  <2>3. ServiceHasSocket' /\ ServiceIsSettled' /\ LiveServiceIsWhole'
    BY <1>1 DEF DaemonBinds
  <2>4. TicketGoesLast' /\ AloneIsUndisturbed' /\ LeftoversAreReported' /\ HandleStaysValidAlone'
    BY <1>1 DEF DaemonBinds
  <2> QED
    BY <2>1, <2>2, <2>3, <2>4
<1>2. CASE DaemonWrites
  <2>1. InstalledTypeOK'
    BY <1>2 DEF DaemonWrites
  <2>2. StepsAreTheirs' /\ CleanupsHaveHandle' /\ DirectoryIsWhole'
    BY <1>2 DEF DaemonWrites
  <2>3. ServiceHasSocket' /\ ServiceIsSettled' /\ LiveServiceIsWhole'
    BY <1>2 DEF DaemonWrites
  <2>4. TicketGoesLast' /\ AloneIsUndisturbed' /\ LeftoversAreReported' /\ HandleStaysValidAlone'
    BY <1>2 DEF DaemonWrites
  <2> QED
    BY <2>1, <2>2, <2>3, <2>4
<1>3. CASE DaemonExits
  <2>1. DirectoryType'
    BY <1>3 DEF DaemonExits
  <2>2. ticket' \in BOOLEAN
    BY <1>3 DEF DaemonExits
  <2>3. StepsType'
    BY <1>3 DEF DaemonExits
  <2>4. InstalledTypeOK'
    BY <1>3, <2>1, <2>2, <2>3 DEF DaemonExits
  <2>5. InstalledParts'
    BY <1>3 DEF DaemonExits
  <2> QED
    BY <2>4, <2>5
<1>4. CASE DaemonCrashes
  BY <1>4 DEF DaemonCrashes
<1> QED
  BY <1>1, <1>2, <1>3, <1>4 DEF DaemonStep

\* The run settles the service.
LEMMA RunSettleKeeps == ASSUME IInv, SettleStep(Runner) PROVE IInv'
<1> USE RunnerAssumption
    DEF IInv, InstalledTypeOK, InstalledParts, DirectoryType, StepsType, StepsAreTheirs,
        CleanupsHaveHandle, DirectoryIsWhole, ServiceHasSocket, ServiceIsSettled, LiveServiceIsWhole,
        TicketGoesLast, AloneIsUndisturbed, LeftoversAreReported, OkLeavesNothing,
        HandleStaysValidAlone, HandleStaysValid, AfterSettle, Running, Processes, RunSteps,
        CleanupSteps, AtRest, Results, NoDirectory, Goto, Report, Sound, Fault, NothingElse
<1>1. CASE Inspect(Runner)
  BY <1>1 DEF Inspect, SettledAt, NotSettled
<1>2. CASE Exchange(Runner)
  BY <1>2 DEF Exchange, SettledAt, NotSettled
<1>3. CASE Probe(Runner)
  BY <1>3 DEF Probe, SettledAt, NotSettled
<1> QED
  BY <1>1, <1>2, <1>3 DEF SettleStep

\* A cleanup settles the service.
LEMMA CleanupSettleKeeps == ASSUME IInv, NEW c \in Cleanups, SettleStep(c) PROVE IInv'
<1> USE RunnerAssumption
    DEF IInv, InstalledTypeOK, InstalledParts, DirectoryType, StepsType, StepsAreTheirs,
        CleanupsHaveHandle, DirectoryIsWhole, ServiceHasSocket, ServiceIsSettled, LiveServiceIsWhole,
        TicketGoesLast, AloneIsUndisturbed, LeftoversAreReported, OkLeavesNothing,
        HandleStaysValidAlone, HandleStaysValid, AfterSettle, Running, Processes, RunSteps,
        CleanupSteps, AtRest, Results, NoDirectory, Goto, Report, Sound, Fault, NothingElse
<1>1. CASE Inspect(c)
  BY <1>1 DEF Inspect, SettledAt, NotSettled
<1>2. CASE Exchange(c)
  BY <1>2 DEF Exchange, SettledAt, NotSettled
<1>3. CASE Probe(c)
  BY <1>3 DEF Probe, SettledAt, NotSettled
<1> QED
  BY <1>1, <1>2, <1>3 DEF SettleStep

\* The other steps of a cleanup.
LEMMA CleanupKeeps == ASSUME IInv, NEW c \in Cleanups, CleanupStep(c), ~SettleStep(c) PROVE IInv'
<1> USE RunnerAssumption
    DEF IInv, InstalledTypeOK, InstalledParts, DirectoryType, StepsType, StepsAreTheirs,
        CleanupsHaveHandle, DirectoryIsWhole, ServiceHasSocket, ServiceIsSettled, LiveServiceIsWhole,
        TicketGoesLast, AloneIsUndisturbed, LeftoversAreReported, OkLeavesNothing,
        HandleStaysValidAlone, HandleStaysValid, AfterSettle, Running, Processes, RunSteps,
        CleanupSteps, AtRest, Results, NoDirectory, Goto, Report, Sound, Fault, NothingElse
<1>1. CASE Look(c)
  BY <1>1 DEF Look
<1>2. CASE OpenDirectory(c)
  BY <1>2 DEF OpenDirectory
<1>3. CASE Read(c)
  BY <1>3 DEF Read
<1>4. CASE Recheck(c)
  <2>1. DirectoryType'
    BY <1>4, ZenonT(90) DEF Recheck
  <2>2. ticket' \in BOOLEAN
    BY <1>4 DEF Recheck
  <2>3. StepsType'
    BY <1>4 DEF Recheck
  <2>4. InstalledTypeOK'
    BY <1>4, <2>1, <2>2, <2>3 DEF Recheck
  <2>5. InstalledParts'
    BY <1>4 DEF Recheck
  <2> QED
    BY <2>4, <2>5
<1>5. CASE TicketExists(c)
  BY <1>5 DEF TicketExists
<1>6. CASE LinkTicket(c)
  <2>1. DirectoryType'
    BY <1>6 DEF LinkTicket
  <2>2. ticket' \in BOOLEAN
    BY <1>6 DEF LinkTicket
  <2>3. StepsType'
    BY <1>6 DEF LinkTicket
  <2>4. InstalledTypeOK'
    BY <1>6, <2>1, <2>2, <2>3 DEF LinkTicket
  <2>5. InstalledParts'
    BY <1>6 DEF LinkTicket
  <2> QED
    BY <2>4, <2>5
<1>7. CASE CompareTicket(c)
  BY <1>7 DEF CompareTicket
<1>8. CASE RemoveMarker(c)
  <2>1. DirectoryType'
    BY <1>8 DEF RemoveMarker
  <2>2. ticket' \in BOOLEAN
    BY <1>8 DEF RemoveMarker
  <2>3. StepsType'
    BY <1>8 DEF RemoveMarker
  <2>4. InstalledTypeOK'
    BY <1>8, <2>1, <2>2, <2>3 DEF RemoveMarker
  <2>5. InstalledParts'
    BY <1>8 DEF RemoveMarker
  <2> QED
    BY <2>4, <2>5
<1>9. CASE RemoveTicketAfterMarker(c)
  <2>1. DirectoryType'
    BY <1>9 DEF RemoveTicketAfterMarker
  <2>2. ticket' \in BOOLEAN
    BY <1>9 DEF RemoveTicketAfterMarker
  <2>3. StepsType'
    BY <1>9 DEF RemoveTicketAfterMarker
  <2>4. InstalledTypeOK'
    BY <1>9, <2>1, <2>2, <2>3 DEF RemoveTicketAfterMarker
  <2>5. InstalledParts'
    BY <1>9 DEF RemoveTicketAfterMarker
  <2> QED
    BY <2>4, <2>5
<1>10. CASE Orphan(c)
  BY <1>10 DEF Orphan
<1>11. CASE ScrubOrphan(c)
  <2>1. DirectoryType'
    BY <1>11 DEF ScrubOrphan
  <2>2. ticket' \in BOOLEAN
    BY <1>11 DEF ScrubOrphan
  <2>3. StepsType'
    BY <1>11 DEF ScrubOrphan
  <2>4. InstalledTypeOK'
    BY <1>11, <2>1, <2>2, <2>3 DEF ScrubOrphan
  <2>5. InstalledParts'
    BY <1>11 DEF ScrubOrphan
  <2> QED
    BY <2>4, <2>5
<1>12. CASE RemoveDirectory(c)
  <2>1. DirectoryType'
    BY <1>12, AbsentType DEF RemoveDirectory
  <2>2. ticket' \in BOOLEAN
    BY <1>12 DEF RemoveDirectory
  <2>3. StepsType'
    BY <1>12 DEF RemoveDirectory
  <2>4. InstalledTypeOK'
    BY <1>12, <2>1, <2>2, <2>3 DEF RemoveDirectory
  <2>5. InstalledParts'
    BY <1>12 DEF RemoveDirectory
  <2> QED
    BY <2>4, <2>5
<1>13. CASE RemoveTicket(c)
  <2>1. DirectoryType'
    BY <1>13 DEF RemoveTicket
  <2>2. ticket' \in BOOLEAN
    BY <1>13 DEF RemoveTicket
  <2>3. StepsType'
    BY <1>13 DEF RemoveTicket
  <2>4. InstalledTypeOK'
    BY <1>13, <2>1, <2>2, <2>3 DEF RemoveTicket
  <2>5. InstalledParts'
    BY <1>13 DEF RemoveTicket
  <2> QED
    BY <2>4, <2>5
<1> QED
  BY <1>1, <1>2, <1>3, <1>4, <1>5, <1>6, <1>7, <1>8, <1>9, <1>10, <1>11, <1>12, <1>13 DEF CleanupStep

\* A cleanup starts, or a process is killed.
LEMMA OthersKeep ==
  ASSUME IInv, NEW p \in Processes, (p \in Cleanups /\ StartCleanup(p)) \/ KillProcess(p)
  PROVE  IInv'
<1> USE RunnerAssumption
    DEF IInv, InstalledTypeOK, InstalledParts, DirectoryType, StepsType, StepsAreTheirs,
        CleanupsHaveHandle, DirectoryIsWhole, ServiceHasSocket, ServiceIsSettled, LiveServiceIsWhole,
        TicketGoesLast, AloneIsUndisturbed, LeftoversAreReported, OkLeavesNothing,
        HandleStaysValidAlone, HandleStaysValid, AfterSettle, Running, Processes, RunSteps,
        CleanupSteps, AtRest, Results, NoDirectory, Goto, Report, Sound, Fault, NothingElse
<1>1. CASE p \in Cleanups /\ StartCleanup(p)
  BY <1>1 DEF StartCleanup
<1>2. CASE KillProcess(p)
  BY <1>2 DEF KillProcess
<1> QED
  BY <1>1, <1>2

\* The invariant is inductive.
LEMMA Inductive == IInv /\ [InstalledNext]_installedVars => IInv'
<1> SUFFICES ASSUME IInv, [InstalledNext]_installedVars PROVE IInv'
  OBVIOUS
<1>1. CASE RunStep
  BY <1>1, RunKeeps
<1>2. CASE SettleStep(Runner)
  BY <1>2, RunSettleKeeps
<1>3. CASE DaemonStep
  BY <1>3, ServiceKeeps
<1>4. ASSUME NEW c \in Cleanups, StartCleanup(c) PROVE IInv'
  BY <1>4, OthersKeep DEF Processes
<1>5. ASSUME NEW c \in Cleanups, CleanupStep(c) PROVE IInv'
  BY <1>5, CleanupSettleKeeps, CleanupKeeps
<1>6. ASSUME NEW p \in Processes, KillProcess(p) PROVE IInv'
  BY <1>6, OthersKeep
<1>7. CASE UNCHANGED installedVars
  BY <1>7 DEF installedVars, IInv, InstalledTypeOK, InstalledParts, StepsAreTheirs,
     CleanupsHaveHandle, DirectoryIsWhole, ServiceHasSocket, ServiceIsSettled,
     LiveServiceIsWhole, TicketGoesLast, AloneIsUndisturbed, LeftoversAreReported,
     OkLeavesNothing, HandleStaysValidAlone, HandleStaysValid, Running
<1> QED
  BY <1>1, <1>2, <1>3, <1>4, <1>5, <1>6, <1>7 DEF InstalledNext

\* The invariant holds at the start.
LEMMA Initially == InstalledInit => IInv
<1> SUFFICES ASSUME InstalledInit PROVE IInv
  OBVIOUS
<1> USE RunnerAssumption
    DEF InstalledInit, Processes, RunSteps, CleanupSteps, AtRest, Results, NoDirectory
<1>1. DirectoryType /\ ticket \in BOOLEAN
  BY DEF DirectoryType
<1>2. StepsType
  BY DEF StepsType
<1>3. InstalledTypeOK
  BY <1>1, <1>2 DEF DirectoryType, StepsType, InstalledTypeOK
<1>4. InstalledParts
  BY DEF InstalledParts, StepsAreTheirs, CleanupsHaveHandle, DirectoryIsWhole,
         ServiceHasSocket, ServiceIsSettled, LiveServiceIsWhole, TicketGoesLast,
         AloneIsUndisturbed, LeftoversAreReported, OkLeavesNothing, HandleStaysValidAlone,
         HandleStaysValid, AfterSettle, Running
<1> QED
  BY <1>3, <1>4 DEF IInv

-----------------------------------------------------------------------------
(* The theorems                                                             *)

\* The invariant holds throughout.
LEMMA Invariant == InstalledSpec => []IInv
<1>1. InstalledInit => IInv
  BY Initially
<1>2. IInv /\ [InstalledNext]_installedVars => IInv'
  BY Inductive
<1> QED
  BY <1>1, <1>2, PTL DEF InstalledSpec

\* The variables keep their types.
THEOREM InstalledTypes == InstalledSpec => []InstalledTypeOK
<1>1. IInv => InstalledTypeOK
  BY DEF IInv
<1> QED
  BY <1>1, Invariant, PTL

\* No private directory and no service is left without a word: success means that
\* both are gone, and another result names what may still be there
\* (runner.rs execute_installed_adapter).
LEMMA LeftoversReported == InstalledSpec => []LeftoversAreReported
<1>1. IInv => LeftoversAreReported
  BY DEF IInv, InstalledParts
<1> QED
  BY <1>1, Invariant, PTL

\* A reported handle says the truth about the secrets and the service, whatever any
\* number of cleanups does at once (prime_owned_service.rs).
LEMMA HandleTruthful == InstalledSpec => []HandleSaysTrue
<1>1. IInv => HandleSaysTrue
  BY DEF IInv, InstalledParts, HandleSaysTrue, SecretsGone, DirectoryIsWhole, LiveServiceIsWhole
<1> QED
  BY <1>1, Invariant, PTL

\* A cleanup that reports "cleaned" has left neither directory nor live service,
\* whatever other cleanups do (prime_owned_service.rs recover_prime_owned_service).
LEMMA CleanedMeansClean == InstalledSpec => []CleanedIsClean
<1>1. IInv => CleanedIsClean
  <2> SUFFICES ASSUME IInv, NEW c \in Cleanups, doing[c] = "cleaned"
               PROVE  ~dir.exists /\ daemon # "up"
    BY DEF CleanedIsClean
  <2>1. ~dir.exists
    BY DEF IInv, InstalledParts, TicketGoesLast
  <2>2. result = "handle"
    BY DEF IInv, InstalledParts, CleanupsHaveHandle
  <2> QED
    BY <2>1, <2>2 DEF IInv, InstalledParts, LiveServiceIsWhole
<1> QED
  BY <1>1, Invariant, PTL

\* Cleanups run one at a time never lose the handle: while the directory is there,
\* marker or ticket makes it authentic, wherever a cleanup failed or was killed
\* (prime_owned_service.rs recover_prime_owned_service).
LEMMA HandleKept == InstalledSpec => []HandleStaysValidAlone
<1>1. IInv => HandleStaysValidAlone
  BY DEF IInv, InstalledParts
<1> QED
  BY <1>1, Invariant, PTL

\* A run of an adapter names what it leaves behind, and what it says of it stays
\* true (runner.rs execute_installed_adapter).
THEOREM LeftIsTold == InstalledSpec => []WhatIsLeftIsTold
BY LeftoversReported, HandleTruthful, PTL DEF WhatIsLeftIsTold

\* A cleanup says "cleaned" only of what is clean, and cleanups run one at a time
\* never lose the handle (prime_owned_service.rs recover_prime_owned_service).
THEOREM RecoverySafe == InstalledSpec => []RecoveryIsSafe
BY CleanedMeansClean, HandleKept, PTL DEF RecoveryIsSafe

-----------------------------------------------------------------------------
\* The inductive invariant.

\* Before the program runs there is nothing to read, to stop or to sweep.
NotStarted ==
    probeAt = "spawn" =>
        /\ tool = "unborn" /\ strays = {} /\ ~swept
        /\ \A s \in Outputs : reader[s] = "none" /\ fill[s] = 0 /\ poured[s] = 0 /\ taken[s] = 0
        /\ \A s \in Outputs : ~halt[s] /\ back[s] = "no"

\* While a reader reads, and once it came to the end, what was written is what
\* it kept and what is still in the pipe.
NothingIsLost ==
    \A s \in Outputs :
        /\ reader[s] \in {"none", "reading", "eof"} =>
              poured[s] = taken[s] + fill[s] /\ taken[s] <= ProbeLimit
        /\ reader[s] = "eof" => fill[s] = 0
        /\ reader[s] = "full" => taken[s] > ProbeLimit
        /\ reader[s] = "stopped" => halt[s]

\* A thread that was taken back has ended, and one that ended by itself was not
\* asked to.
BackIsEnded ==
    \A s \in Outputs :
        /\ back[s] \in {"natural", "forced"} => ReaderEnded(s)
        /\ back[s] = "natural" => ~halt[s]

\* A cause is found once, and kept while the group is terminated.
OneReason ==
    /\ probeAt \in {"spawn", "wait", "late", "group", "settle", "abandon", "judge"} =>
           reason = "none"
    /\ probeAt \in {"term", "kill", "readers"} => reason # "none"
    /\ probeAt = "done" <=> probeResult # "none"

\* A program is collected once, and a group that was seen to be empty stays so.
SweptIsEmpty ==
    /\ probeAt = "group" => tool = "gone"
    /\ swept \/ probeAt \in {"settle", "abandon", "judge"} => ToolGroupEmpty

\* On the way to an answer every output has its reader, and none is given up.
OnTheWay ==
    /\ probeAt \in {"wait", "late", "group", "settle", "judge"} =>
           ReadersRun = Probed(probing) /\ \A s \in Outputs : back[s] # "lost"
    /\ probeAt = "judge" => \A s \in ReadersRun : back[s] = "natural"

ProbeInv ==
    /\ ProbeTypeOK /\ NotStarted /\ NothingIsLost /\ BackIsEnded /\ OneReason
    /\ SweptIsEmpty /\ OnTheWay /\ AnswerIsWhole

-----------------------------------------------------------------------------
\* The steps by who takes them: the threads, the program and the clock leave the
\* probing thread where it is.

Alone == UNCHANGED <<probing, probeAt, reason, swept, halt, back, probeResult>>

LEMMA ThreadsAlone ==
  ASSUME NEW s \in Outputs, ReaderStep(s) \/ ReaderBreaks(s) \/ Pour(s)
  PROVE  Alone /\ UNCHANGED <<tool, toolExit, strays, slain, overdue>>
BY DEF ReaderStep, ReaderBreaks, Pour, ThreadOnly, processVars, Alone

LEMMA ToolAlone ==
  ASSUME ToolForks \/ ToolExits \/ (\E k \in StrayKinds : StrayDies(k)) \/ TimeIsUp
         \/ UNCHANGED probeVars
  PROVE  Alone /\ UNCHANGED <<fill, poured, reader, taken>>
BY DEF ToolForks, ToolExits, StrayDies, TimeIsUp, ToolOnly, threadVars, processVars, Alone,
       probeVars

\* What a step does to an output: nothing to the other one, and what it keeps,
\* pours and holds stays balanced.
LEMMA OutputStep ==
  ASSUME ProbeInv, NEW s \in Outputs, ReaderStep(s) \/ ReaderBreaks(s) \/ Pour(s)
  PROVE  /\ fill' \in [Outputs -> 0..1] /\ poured' \in [Outputs -> 0..ProbeLimit + 1]
         /\ taken' \in [Outputs -> 0..ProbeLimit + 1]
         /\ reader' \in [Outputs -> {"none", "reading"} \cup ReaderEnds]
         /\ NothingIsLost'
         /\ \A t \in Outputs : /\ reader'[t] = "none" <=> reader[t] = "none"
                               /\ ReaderEnded(t) => reader'[t] = reader[t]
                               /\ reader[t] = "eof" => /\ taken'[t] = taken[t]
                                                       /\ poured'[t] = poured[t]
<1>0. ProbeTypeOK /\ NothingIsLost /\ UNCHANGED halt
  BY ThreadsAlone DEF ProbeInv, Alone
<1>1. \A t \in Outputs : t # s =>
         /\ reader'[t] = reader[t] /\ fill'[t] = fill[t] /\ taken'[t] = taken[t]
         /\ poured'[t] = poured[t]
  BY <1>0 DEF ReaderStep, ReaderBreaks, Pour, ReadByte, EndOutput, BreakOutput, ProbeTypeOK
<1>2. reader[s] = "reading"
  BY DEF ReaderStep, ReaderBreaks, Pour, ReadByte, EndOutput, BreakOutput
<1>3. /\ fill[s] \in 0..1 /\ taken[s] \in 0..ProbeLimit /\ poured[s] = taken[s] + fill[s]
      /\ ProbeLimit \in Nat
  BY <1>0, <1>2, ProbeAssumption DEF ProbeTypeOK, NothingIsLost
<1>4. /\ fill'[s] \in 0..1 /\ poured'[s] \in 0..ProbeLimit + 1
      /\ taken'[s] \in 0..ProbeLimit + 1 /\ reader'[s] \in {"reading"} \cup ReaderEnds
      /\ reader'[s] \in {"reading", "eof"} =>
            poured'[s] = taken'[s] + fill'[s] /\ taken'[s] <= ProbeLimit
      /\ reader'[s] = "eof" => fill'[s] = 0
      /\ reader'[s] = "full" => taken'[s] > ProbeLimit
      /\ reader'[s] = "stopped" => halt[s]
  <2>1. CASE ReaderStep(s) /\ ReadByte(s)
    <3>1. fill[s] = 1 /\ fill'[s] = 0 /\ taken'[s] = taken[s] + 1 /\ poured'[s] = poured[s]
          /\ reader'[s] = IF taken[s] = ProbeLimit THEN "full" ELSE "reading"
      BY <1>0, <1>2, <1>3, <2>1 DEF ReadByte, ProbeTypeOK
    <3> QED
      BY <1>3, <3>1 DEF ReaderEnds
  <2>2. CASE ReaderStep(s) /\ EndOutput(s)
    <3>1. /\ fill[s] = 0 /\ fill'[s] = fill[s] /\ taken'[s] = taken[s] /\ poured'[s] = poured[s]
          /\ reader'[s] = "eof" \/ (reader'[s] = "stopped" /\ halt[s])
      BY <1>0, <2>2 DEF EndOutput, ProbeTypeOK
    <3> QED
      BY <1>3, <3>1 DEF ReaderEnds
  <2>3. CASE ReaderBreaks(s)
    <3>1. fill'[s] = 0 /\ taken'[s] = taken[s] /\ poured'[s] = poured[s] /\ reader'[s] = "error"
      BY <1>0, <2>3 DEF ReaderBreaks, BreakOutput, ProbeTypeOK
    <3> QED
      BY <1>3, <3>1 DEF ReaderEnds
  <2>4. CASE Pour(s)
    <3>1. /\ fill[s] = 0 /\ fill'[s] = 1 /\ taken'[s] = taken[s] /\ reader'[s] = "reading"
          /\ poured'[s] = IF poured[s] < ProbeLimit + 1 THEN poured[s] + 1 ELSE poured[s]
      BY <1>0, <1>2, <2>4 DEF Pour, ProbeTypeOK
    <3> QED
      BY <1>3, <3>1
  <2> QED
    BY <2>1, <2>2, <2>3, <2>4 DEF ReaderStep
<1>5. /\ \E f \in [Outputs -> 0..1] : fill' = f
      /\ poured' = [poured EXCEPT ![s] = poured'[s]] /\ taken' = [taken EXCEPT ![s] = taken'[s]]
      /\ reader' = [reader EXCEPT ![s] = reader'[s]]
  BY <1>0, <1>4 DEF ReaderStep, ReaderBreaks, Pour, ReadByte, EndOutput, BreakOutput, ProbeTypeOK
<1>6. /\ fill' \in [Outputs -> 0..1] /\ poured' \in [Outputs -> 0..ProbeLimit + 1]
      /\ taken' \in [Outputs -> 0..ProbeLimit + 1]
      /\ reader' \in [Outputs -> {"none", "reading"} \cup ReaderEnds]
  BY <1>0, <1>4, <1>5 DEF ProbeTypeOK
<1>7. NothingIsLost'
  <2>1. ASSUME NEW t \in Outputs
        PROVE  /\ reader'[t] \in {"none", "reading", "eof"} =>
                     poured'[t] = taken'[t] + fill'[t] /\ taken'[t] <= ProbeLimit
               /\ reader'[t] = "eof" => fill'[t] = 0
               /\ reader'[t] = "full" => taken'[t] > ProbeLimit
               /\ reader'[t] = "stopped" => halt[t]
    <3>1. CASE t = s
      BY <1>4, <3>1 DEF ReaderEnds
    <3>2. CASE t # s
      BY <1>0, <1>1, <3>2 DEF NothingIsLost
    <3> QED
      BY <3>1, <3>2
  <2> QED
    BY <1>0, <2>1 DEF NothingIsLost
<1>8. "none" \notin ReaderEnds /\ "reading" \notin ReaderEnds
  BY DEF ReaderEnds
<1> QED
  BY <1>1, <1>2, <1>4, <1>6, <1>7, <1>8 DEF ReaderEnded

LEMMA ProbeTypes == ASSUME ProbeInv, [ProbeNext]_probeVars PROVE ProbeTypeOK'
<1>0. ProbeTypeOK
  BY DEF ProbeInv
<1> USE DEF ProbeTypeOK
<1>1. CASE SpawnProbe
  BY <1>0, <1>1 DEF SpawnProbe, PipesStay, ProbeReturns, Proceeds, ReadersOf, ProbeFaults
<1>2. CASE SeeCancelled \/ LookExited \/ LookLate \/ LookGroup
  BY <1>0, <1>2 DEF SeeCancelled, LookExited, LookLate, LookGroup, Aborts, LooksOn, Proceeds,
     ProbeFaults, processVars, threadVars
<1>3. CASE KillGroup \/ HardStop \/ StopFails
  BY <1>0, <1>3 DEF KillGroup, HardStop, StopFails, Sweep, LooksOn, Proceeds, threadVars
<1>4. ASSUME NEW s \in Outputs, PressThread(s) \/ TakeThread(s) \/ LoseThread(s)
      PROVE  ProbeTypeOK'
  <2>1. /\ halt' \in [Outputs -> BOOLEAN]
        /\ back' \in [Outputs -> {"no", "natural", "forced", "lost"}]
    BY <1>0, <1>4 DEF PressThread, TakeThread, LoseThread, AsksToStop, TakesBack
  <2>2. /\ probeAt' \in {probeAt, "abandon"} /\ UNCHANGED <<probing, overdue, probeResult>>
        /\ UNCHANGED <<reason, swept, processVars, threadVars>>
    BY <1>4 DEF PressThread, TakeThread, LoseThread, AsksToStop, TakesBack, Proceeds,
         processVars, threadVars
  <2> QED
    BY <1>0, <2>1, <2>2 DEF processVars, threadVars
<1>5. CASE CleanedUp \/ GivenUp \/ OutputsEnded \/ JudgeAnswer
  BY <1>0, <1>5 DEF CleanedUp, GivenUp, OutputsEnded, JudgeAnswer, KeepRest, ProbeReturns,
     Proceeds, processVars, threadVars, ProbeFaults
<1>6. ASSUME NEW s \in Outputs, ReaderStep(s) \/ ReaderBreaks(s) \/ Pour(s)
      PROVE  ProbeTypeOK'
  BY <1>0, <1>6, OutputStep, ThreadsAlone DEF Alone
<1>7. CASE ToolForks \/ ToolExits \/ (\E k \in StrayKinds : StrayDies(k)) \/ TimeIsUp
  <2>1. Alone /\ UNCHANGED <<fill, poured, reader, taken>>
    BY <1>7, ToolAlone
  <2>2. /\ tool' \in {"unborn", "alive", "dead", "gone"} /\ strays' \subseteq StrayKinds
        /\ toolExit' \in {"none", "ok", "bad", "signal"} /\ UNCHANGED slain
        /\ overdue' \in BOOLEAN
    <3>1. CASE ToolForks
      BY <1>0, <3>1 DEF ToolForks, ToolOnly
    <3>2. CASE ToolExits
      BY <1>0, <3>2 DEF ToolExits, ToolOnly
    <3>3. CASE \E k \in StrayKinds : StrayDies(k)
      BY <1>0, <3>3 DEF StrayDies, ToolOnly
    <3>4. CASE TimeIsUp
      BY <1>0, <3>4 DEF TimeIsUp, processVars
    <3> QED
      BY <1>7, <3>1, <3>2, <3>3, <3>4
  <2> QED
    BY <1>0, <2>1, <2>2 DEF Alone
<1>8. CASE UNCHANGED probeVars
  BY <1>0, <1>8 DEF probeVars, processVars, threadVars
<1> QED
  BY <1>1, <1>2, <1>3, <1>4, <1>5, <1>6, <1>7, <1>8 DEF ProbeNext, ProberStep

\* Nobody is left to fork.
LEMMA EmptyGroupStays ==
  ASSUME ProbeInv, [ProbeNext]_probeVars, probeAt # "spawn", ToolGroupEmpty
  PROVE  ToolGroupEmpty'
<1> USE DEF ToolGroupEmpty, Grouped
<1>0. ProbeTypeOK
  BY DEF ProbeInv
<1>1. CASE ProberStep
  <2>1. strays' = strays /\ tool' \in {tool, "gone"}
    BY <1>1 DEF ProberStep, SpawnProbe, SeeCancelled, LookExited, LookLate, LookGroup, Aborts,
       LooksOn, KillGroup, HardStop, StopFails, Sweep, PressThread, TakeThread, LoseThread,
       AsksToStop, TakesBack, CleanedUp, GivenUp, OutputsEnded, JudgeAnswer, KeepRest,
       processVars
  <2> QED
    BY <2>1
<1>2. CASE \E s \in Outputs : ReaderStep(s) \/ ReaderBreaks(s) \/ Pour(s)
  BY <1>2, ThreadsAlone
<1>3. CASE ToolForks \/ ToolExits \/ (\E k \in StrayKinds : StrayDies(k)) \/ TimeIsUp
           \/ UNCHANGED probeVars
  BY <1>3 DEF ToolForks, ToolExits, StrayDies, TimeIsUp, processVars, probeVars
<1> QED
  BY <1>1, <1>2, <1>3 DEF ProbeNext

\* Steps of the others keep every part.
LEMMA OthersKeepProbe ==
  ASSUME ProbeInv, [ProbeNext]_probeVars, ~ProberStep
  PROVE  ProbeInv'
<1>0. /\ ProbeTypeOK /\ NotStarted /\ NothingIsLost /\ BackIsEnded /\ OneReason
      /\ SweptIsEmpty /\ OnTheWay /\ AnswerIsWhole /\ ProbeTypeOK'
  BY ProbeTypes DEF ProbeInv
<1>1. Alone
  BY ThreadsAlone, ToolAlone DEF ProbeNext
<1>2. /\ NothingIsLost'
      /\ \A t \in Outputs : /\ reader'[t] = "none" <=> reader[t] = "none"
                            /\ ReaderEnded(t) => reader'[t] = reader[t]
                            /\ reader[t] = "eof" => /\ taken'[t] = taken[t]
                                                    /\ poured'[t] = poured[t]
  <2>1. CASE \E s \in Outputs : ReaderStep(s) \/ ReaderBreaks(s) \/ Pour(s)
    BY <2>1, OutputStep
  <2>2. CASE ~\E s \in Outputs : ReaderStep(s) \/ ReaderBreaks(s) \/ Pour(s)
    <3>1. Alone /\ UNCHANGED <<fill, poured, reader, taken>>
      BY <2>2, ToolAlone DEF ProbeNext
    <3> QED
      BY <1>0, <3>1 DEF NothingIsLost, Alone
  <2> QED
    BY <2>1, <2>2
<1>3. probeAt # "spawn" /\ ToolGroupEmpty => ToolGroupEmpty'
  BY EmptyGroupStays
<1>4. ReadersRun' = ReadersRun
  BY <1>2 DEF ReadersRun
<1>5. NotStarted'
  <2>1. CASE probeAt = "spawn"
    <3>1. /\ tool = "unborn" /\ strays = {}
          /\ \A s \in Outputs : reader[s] = "none" /\ fill[s] = 0 /\ poured[s] = 0 /\ taken[s] = 0
      BY <1>0, <2>1 DEF NotStarted
    <3>2. UNCHANGED <<tool, strays, reader, fill, poured, taken>>
      <4>1. ~\E s \in Outputs : ReaderStep(s) \/ ReaderBreaks(s) \/ Pour(s)
        BY <3>1 DEF ReaderStep, ReaderBreaks, Pour, ReadByte, EndOutput, BreakOutput
      <4>2. ~ToolForks /\ ~ToolExits /\ ~(\E k \in StrayKinds : StrayDies(k))
        BY <3>1 DEF ToolForks, ToolExits, StrayDies
      <4> QED
        BY <4>1, <4>2 DEF ProbeNext, TimeIsUp, probeVars, processVars, threadVars
    <3> QED
      BY <1>0, <1>1, <2>1, <3>1, <3>2 DEF NotStarted, Alone
  <2>2. CASE probeAt # "spawn"
    BY <1>1, <2>2 DEF NotStarted, Alone
  <2> QED
    BY <2>1, <2>2
<1>6. BackIsEnded'
  BY <1>0, <1>1, <1>2 DEF BackIsEnded, Alone, ReaderEnded
<1>7. OneReason'
  BY <1>0, <1>1 DEF OneReason, Alone
<1>8. SweptIsEmpty'
  <2>1. swept => probeAt # "spawn"
    BY <1>0 DEF NotStarted
  <2>2. tool = "gone" => tool' = "gone"
    BY ThreadsAlone DEF ProbeNext, ToolForks, ToolExits, StrayDies, TimeIsUp, processVars,
       probeVars
  <2> QED
    BY <1>0, <1>1, <1>3, <2>1, <2>2 DEF SweptIsEmpty, Alone
<1>9. OnTheWay'
  BY <1>0, <1>1, <1>4 DEF OnTheWay, Alone, Probed
<1>10. AnswerIsWhole'
  <2>1. \A s \in ReadersRun : s \in Outputs
    BY DEF ReadersRun
  <2> QED
    BY <1>0, <1>1, <1>2, <1>3, <1>4, <2>1 DEF AnswerIsWhole, Alone, ReaderEnded, Probed
<1> QED
  BY <1>0, <1>2, <1>5, <1>6, <1>7, <1>8, <1>9, <1>10 DEF ProbeInv

\* The program is started, or not.
LEMMA SpawnKeepsProbe ==
  ASSUME ProbeInv, SpawnProbe, ProbeTypeOK'
  PROVE  ProbeInv'
<1>0. /\ ProbeTypeOK /\ NotStarted /\ OneReason
      /\ probeAt = "spawn" /\ UNCHANGED <<probing, fill, poured, taken, swept, strays, halt, back>>
  BY DEF ProbeInv, SpawnProbe, PipesStay, ProbeReturns, Proceeds
<1>1. /\ tool = "unborn" /\ strays = {} /\ ~swept /\ probeResult = "none" /\ reason = "none"
      /\ \A s \in Outputs : reader[s] = "none" /\ fill[s] = 0 /\ poured[s] = 0 /\ taken[s] = 0
      /\ \A s \in Outputs : ~halt[s] /\ back[s] = "no"
  BY <1>0 DEF NotStarted, OneReason
<1>2. /\ \A s \in Outputs : reader'[s] \in {"none", "reading"}
      /\ ProbeLimit \in Nat
  BY <1>1, ProbeAssumption DEF SpawnProbe, ReadersOf
<1>3. NothingIsLost' /\ BackIsEnded'
  BY <1>0, <1>1, <1>2 DEF NothingIsLost, BackIsEnded
<1>4. CASE \E r \in {"HarnessUnavailable", "ContainmentUnsupported"} :
              ProbeReturns(r) /\ UNCHANGED <<tool, reader, reason>>
  <2>1. /\ probeAt' = "done" /\ probeResult' \in {"HarnessUnavailable", "ContainmentUnsupported"}
        /\ UNCHANGED <<tool, reader, reason>>
    BY <1>4 DEF ProbeReturns
  <2>2. ReadersRun' = {} /\ ToolGroupEmpty'
    BY <1>0, <1>1, <2>1 DEF ReadersRun, ToolGroupEmpty, Grouped
  <2> QED
    BY <1>0, <1>1, <1>3, <2>1, <2>2 DEF ProbeInv, NotStarted, OneReason, SweptIsEmpty, OnTheWay,
       AnswerIsWhole
<1>5. CASE Proceeds("wait") /\ reader' = ReadersOf(Probed(probing)) /\ UNCHANGED reason
  <2>1. probeAt' = "wait" /\ probeResult' = "none" /\ reason' = "none"
    BY <1>1, <1>5 DEF Proceeds
  <2>2. ReadersRun' = Probed(probing)
    BY <1>5 DEF ReadersRun, ReadersOf, Probed, Outputs
  <2> QED
    BY <1>0, <1>1, <1>3, <2>1, <2>2 DEF ProbeInv, NotStarted, OneReason, SweptIsEmpty, OnTheWay,
       AnswerIsWhole, Probed
<1>6. CASE Proceeds("term") /\ reason' \in {"Internal", "ContainmentUnsupported"}
  <2>1. probeAt' = "term" /\ probeResult' = "none" /\ reason' # "none"
    BY <1>1, <1>6 DEF Proceeds
  <2> QED
    BY <1>0, <1>1, <1>3, <2>1 DEF ProbeInv, NotStarted, OneReason, SweptIsEmpty, OnTheWay,
       AnswerIsWhole
<1> QED
  BY <1>4, <1>5, <1>6 DEF SpawnProbe

\* The looks at the program and the termination of the group.
LEMMA LooksKeepProbe ==
  ASSUME ProbeInv, ProbeNext, ProbeTypeOK',
         SeeCancelled \/ LookExited \/ LookLate \/ LookGroup \/ KillGroup \/ HardStop
            \/ StopFails
  PROVE  ProbeInv'
<1>0. /\ ProbeTypeOK /\ NothingIsLost /\ BackIsEnded /\ OneReason
      /\ SweptIsEmpty /\ OnTheWay
  BY DEF ProbeInv
<1> USE DEF processVars, threadVars
<1>1. /\ probeAt \in {"wait", "late", "group", "term", "kill"}
      /\ probeAt' \in {"wait", "late", "group", "settle", "term", "kill", "readers"}
      /\ UNCHANGED <<probing, fill, poured, reader, taken, halt, back, probeResult>>
      /\ probeAt' \in {"term"} \/ reason' = reason
      /\ probeAt \in {"term", "kill"} => probeAt' \in {"kill", "readers"}
      /\ probeAt \in {"wait", "late", "group"} => probeAt' \notin {"kill", "readers"}
      /\ probeAt' = "term" => reason' # "none"
  BY DEF SeeCancelled, LookExited, LookLate, LookGroup, Aborts, LooksOn, Proceeds, KillGroup,
     HardStop, StopFails, Sweep
<1>2. NotStarted' /\ NothingIsLost' /\ BackIsEnded'
  BY <1>0, <1>1 DEF NotStarted, NothingIsLost, BackIsEnded, ReaderEnded
<1>3. OneReason'
  BY <1>0, <1>1 DEF OneReason
<1>4. SweptIsEmpty'
  <2>1. ToolGroupEmpty => ToolGroupEmpty'
    BY <1>1, EmptyGroupStays
  <2>2. probeAt' = "group" => tool' = "gone"
    BY <1>0 DEF SeeCancelled, LookExited, LookLate, LookGroup, Aborts, LooksOn, Proceeds,
       KillGroup, HardStop, StopFails, Sweep, SweptIsEmpty
  <2>3. probeAt' = "settle" => ToolGroupEmpty'
    <3>1. probeAt' = "settle" => /\ probeAt = "group" /\ Grouped = {}
                                 /\ UNCHANGED <<tool, strays>>
      BY <1>1 DEF SeeCancelled, LookExited, LookLate, LookGroup, Aborts, LooksOn, Proceeds,
         KillGroup, HardStop, StopFails, Sweep
    <3> QED
      BY <1>0, <3>1 DEF SweptIsEmpty, ToolGroupEmpty, Grouped
  <2>4. swept' => ToolGroupEmpty'
    <3>1. CASE HardStop
      BY <3>1 DEF HardStop, Sweep, ToolGroupEmpty, Grouped
    <3>2. CASE ~HardStop
      <4>1. swept' => swept
        BY <3>2 DEF SeeCancelled, LookExited, LookLate, LookGroup, Aborts, LooksOn, Proceeds,
           KillGroup, StopFails, Sweep
      <4> QED
        BY <1>0, <2>1, <4>1 DEF SweptIsEmpty
    <3> QED
      BY <3>1, <3>2
  <2> QED
    BY <1>1, <2>2, <2>3, <2>4 DEF SweptIsEmpty
<1>5. OnTheWay'
  <2>1. ReadersRun' = ReadersRun
    BY <1>1 DEF ReadersRun
  <2> QED
    BY <1>0, <1>1, <2>1 DEF OnTheWay, Probed
<1>6. AnswerIsWhole'
  BY <1>1 DEF AnswerIsWhole
<1> QED
  BY <1>2, <1>3, <1>4, <1>5, <1>6 DEF ProbeInv

\* The threads are taken back.
LEMMA ThreadsKeepProbe ==
  ASSUME ProbeInv, ProbeNext, ProbeTypeOK', NEW s \in Outputs,
         PressThread(s) \/ TakeThread(s) \/ LoseThread(s)
  PROVE  ProbeInv'
<1>0. /\ ProbeTypeOK /\ NothingIsLost /\ BackIsEnded /\ OneReason
      /\ SweptIsEmpty /\ OnTheWay
  BY DEF ProbeInv
<1> USE DEF processVars, threadVars
<1>1. /\ UNCHANGED <<probing, reason, swept, tool, strays, fill, poured, reader, taken,
                     probeResult>>
      /\ probeAt \in {"settle", "readers", "abandon"}
      /\ probeAt' = probeAt \/ (probeAt = "settle" /\ probeAt' = "abandon")
      /\ back[s] = "no"
  BY DEF PressThread, TakeThread, LoseThread, AsksToStop, TakesBack, Proceeds, NextBack
<1>2. \A t \in Outputs :
         /\ halt[t] => halt'[t]
         /\ halt'[t] => halt[t] \/ (t = s /\ back'[t] = "no")
         /\ back'[t] # back[t] =>
               /\ t = s /\ halt' = halt
               /\ \/ back'[t] \in {"natural", "forced"} /\ ReaderEnded(t)
                     /\ (back'[t] = "natural" => ~halt[t])
                  \/ back'[t] = "lost" /\ probeAt' # "settle"
  BY <1>0, <1>1 DEF PressThread, TakeThread, LoseThread, AsksToStop, TakesBack, Proceeds,
     ProbeTypeOK
<1>3. NotStarted' /\ OneReason'
  BY <1>0, <1>1 DEF NotStarted, OneReason
<1>4. NothingIsLost'
  BY <1>0, <1>1, <1>2 DEF NothingIsLost
<1>5. BackIsEnded'
  BY <1>0, <1>1, <1>2 DEF BackIsEnded, ReaderEnded
<1>6. SweptIsEmpty'
  BY <1>0, <1>1 DEF SweptIsEmpty, ToolGroupEmpty, Grouped
<1>7. OnTheWay'
  <2>1. ReadersRun' = ReadersRun
    BY <1>1 DEF ReadersRun
  <2>2. probeAt' = "settle" => \A t \in Outputs : back'[t] # "lost"
    BY <1>0, <1>1, <1>2 DEF OnTheWay
  <2> QED
    BY <1>0, <1>1, <2>1, <2>2 DEF OnTheWay, Probed
<1>8. AnswerIsWhole'
  BY <1>1 DEF AnswerIsWhole
<1> QED
  BY <1>3, <1>4, <1>5, <1>6, <1>7, <1>8 DEF ProbeInv

\* The verdict over the probe.
LEMMA VerdictKeepsProbe ==
  ASSUME ProbeInv, ProbeNext, ProbeTypeOK', CleanedUp \/ GivenUp \/ OutputsEnded \/ JudgeAnswer
  PROVE  ProbeInv'
<1>0. /\ ProbeTypeOK /\ NothingIsLost /\ BackIsEnded /\ OneReason
      /\ SweptIsEmpty /\ OnTheWay
  BY DEF ProbeInv
<1> USE DEF KeepRest, ProbeReturns, Proceeds, processVars, threadVars
<1>1. /\ UNCHANGED <<probing, reason, swept, tool, toolExit, strays, fill, poured, reader, taken,
                     halt, back>>
      /\ probeAt \in {"readers", "abandon", "settle", "judge"}
      /\ \/ probeAt' = "done" /\ probeResult' # "none"
         \/ probeAt' = "judge" /\ probeAt = "settle" /\ UNCHANGED probeResult
      /\ AllBack \/ probeAt = "judge"
  BY <1>0 DEF CleanedUp, GivenUp, OutputsEnded, JudgeAnswer, OneReason
<1>2. NotStarted' /\ NothingIsLost' /\ BackIsEnded'
  BY <1>0, <1>1 DEF NotStarted, NothingIsLost, BackIsEnded, ReaderEnded
<1>3. OneReason'
  BY <1>0, <1>1 DEF OneReason
<1>4. ReadersRun' = ReadersRun /\ (ToolGroupEmpty' <=> ToolGroupEmpty)
  BY <1>1 DEF ReadersRun, ToolGroupEmpty, Grouped
<1>5. SweptIsEmpty'
  BY <1>0, <1>1, <1>4 DEF SweptIsEmpty
<1>6. \A s \in ReadersRun : s \in Outputs
  BY DEF ReadersRun
<1>7. OnTheWay'
  <2>1. ASSUME probeAt' = "judge" PROVE \A s \in ReadersRun : back[s] = "natural"
    <3>1. OutputsEnded /\ probeAt = "settle" /\ AllBack /\ \A s \in ReadersRun : back[s] # "forced"
      BY <1>1, <2>1 DEF CleanedUp, GivenUp, OutputsEnded, JudgeAnswer
    <3>2. \A s \in ReadersRun : back[s] # "lost" /\ back[s] # "no"
      BY <1>0, <1>6, <3>1 DEF OnTheWay, AllBack
    <3> QED
      BY <1>0, <1>6, <3>1, <3>2 DEF ProbeTypeOK
  <2> QED
    BY <1>0, <1>1, <1>4, <2>1 DEF OnTheWay, Probed
<1>8. AnswerIsWhole'
  <2> SUFFICES ASSUME probeAt' = "done", probeResult' # "CleanupFailed"
      PROVE  /\ ToolGroupEmpty
             /\ \A s \in ReadersRun : ReaderEnded(s)
             /\ probeResult' = "Ok" =>
                   /\ ReadersRun = Probed(probing)
                   /\ \A s \in ReadersRun :
                         reader[s] = "eof" /\ taken[s] = poured[s] /\ poured[s] <= ProbeLimit
    BY <1>1, <1>4 DEF AnswerIsWhole, ReaderEnded, Probed
  <2>1. CASE CleanedUp
    <3>1. /\ swept /\ (\A s \in ReadersRun : back[s] # "lost") /\ probeResult' = reason /\ AllBack
      BY <2>1 DEF CleanedUp
    <3>2. \A s \in ReadersRun : back[s] \in {"natural", "forced"}
      BY <1>0, <1>6, <3>1 DEF AllBack, ProbeTypeOK
    <3>3. probeResult' # "Ok"
      BY <1>0, <3>1 DEF ProbeTypeOK, ProbeFaults
    <3> QED
      BY <1>0, <1>6, <3>1, <3>2, <3>3 DEF SweptIsEmpty, BackIsEnded
  <2>2. CASE JudgeAnswer
    <3>1. /\ probeAt = "judge" /\ \A s \in ReadersRun : back[s] = "natural"
          /\ ReadersRun = Probed(probing)
      BY <1>0, <2>2 DEF JudgeAnswer, OnTheWay
    <3>2. \A s \in ReadersRun : ReaderEnded(s) /\ ~halt[s]
      BY <1>0, <1>6, <3>1 DEF BackIsEnded
    <3>3. ASSUME probeResult' = "Ok", NEW s \in ReadersRun
          PROVE  reader[s] = "eof" /\ taken[s] = poured[s] /\ poured[s] <= ProbeLimit
      <4>1. reader[s] # "error" /\ AnswerFits
        BY <2>2, <3>3 DEF JudgeAnswer
      <4>2. taken[s] \in 0..ProbeLimit + 1 /\ ProbeLimit \in Nat
        BY <1>0, <1>6, ProbeAssumption DEF ProbeTypeOK
      <4>3. taken[s] <= ProbeLimit
        BY <1>6, <3>1, <4>1, <4>2 DEF AnswerFits, Probed
      <4>4. reader[s] # "full" /\ reader[s] # "stopped"
        BY <1>0, <1>6, <3>2, <4>2, <4>3 DEF NothingIsLost
      <4>5. reader[s] = "eof"
        BY <3>2, <4>1, <4>4 DEF ReaderEnded, ReaderEnds
      <4>6. poured[s] = taken[s] + fill[s] /\ fill[s] = 0
        BY <1>0, <1>6, <4>5 DEF NothingIsLost
      <4> QED
        BY <4>2, <4>3, <4>5, <4>6
    <3> QED
      BY <1>0, <3>1, <3>2, <3>3 DEF SweptIsEmpty
  <2>3. ~GivenUp /\ ~OutputsEnded
    BY DEF GivenUp, OutputsEnded
  <2> QED
    BY <2>1, <2>2, <2>3
<1> QED
  BY <1>2, <1>3, <1>5, <1>7, <1>8 DEF ProbeInv

-----------------------------------------------------------------------------
\* The theorems.

LEMMA ProbeInductive == ProbeInv /\ [ProbeNext]_probeVars => ProbeInv'
<1> SUFFICES ASSUME ProbeInv, [ProbeNext]_probeVars PROVE ProbeInv'
  OBVIOUS
<1>1. ProbeTypeOK'
  BY ProbeTypes
<1>2. CASE ProberStep
  BY <1>1, <1>2, SpawnKeepsProbe, LooksKeepProbe, ThreadsKeepProbe, VerdictKeepsProbe
     DEF ProberStep, ProbeNext
<1> QED
  BY <1>2, OthersKeepProbe

LEMMA ProbeInitially == ProbeInit => ProbeInv
<1> SUFFICES ASSUME ProbeInit PROVE ProbeInv
  OBVIOUS
<1>1. ProbeLimit \in Nat
  BY ProbeAssumption
<1>2. ProbeTypeOK
  <2>1. 0 \in 0..1 /\ 0 \in 0..ProbeLimit + 1
    BY <1>1
  <2>2. /\ fill \in [Outputs -> 0..1] /\ poured \in [Outputs -> 0..ProbeLimit + 1]
        /\ taken \in [Outputs -> 0..ProbeLimit + 1]
    BY <2>1 DEF ProbeInit
  <2>3. /\ reader \in [Outputs -> {"none", "reading"} \cup ReaderEnds]
        /\ halt \in [Outputs -> BOOLEAN]
        /\ back \in [Outputs -> {"no", "natural", "forced", "lost"}]
    BY DEF ProbeInit
  <2> QED
    BY <2>2, <2>3 DEF ProbeInit, ProbeTypeOK
<1>3. NotStarted /\ NothingIsLost /\ BackIsEnded
  BY <1>1 DEF ProbeInit, NotStarted, NothingIsLost, BackIsEnded
<1>4. OneReason /\ SweptIsEmpty /\ OnTheWay /\ AnswerIsWhole
  BY DEF ProbeInit, OneReason, SweptIsEmpty, OnTheWay, AnswerIsWhole
<1> QED
  BY <1>2, <1>3, <1>4 DEF ProbeInv

LEMMA ProbeInvariant == ProbeSpec => []ProbeInv
BY ProbeInitially, ProbeInductive, PTL DEF ProbeSpec

\* An answer is believed only if it is everything the program wrote, within the
\* limit, and a probe that does not report a failed cleanup has left neither
\* process nor thread, for every limit and any number of descendants
\* (supervisor.rs run_version_probe, probe_command).
THEOREM ProbeAnswerIsWhole == ProbeSpec => []AnswerIsWhole
<1>1. ProbeInv => AnswerIsWhole
  BY DEF ProbeInv
<1> QED
  BY <1>1, ProbeInvariant, PTL

-----------------------------------------------------------------------------
\* A probe implements SettledRun.

ProbePhase == CASE probeAt = "spawn" -> "idle" [] probeAt = "done" -> "ended"
                [] OTHER -> "running"
ProbeCause == IF reason = "CleanupFailed" THEN "none" ELSE reason
ProbeVerdicts == {"Ok", "HarnessIncompatible", "Internal"}

LEMMA PromiseStarts ==
  ASSUME probeAt = "spawn", probeAt' \notin {"spawn", "done"}, ~ToolGroupEmpty',
         UNCHANGED probeResult, reason' \in ProbeFaults \cup {"none"}
  PROVE  Promise!Next
<1>1. ProbeCause' \in ProbeFaults \cup {"none"}
  BY DEF ProbeCause
<1> QED
  BY <1>1 DEF Promise!Next, Promise!Start, ProbeCause

LEMMA PromiseRefuses ==
  ASSUME probeAt = "spawn", probeAt' = "done", probeResult' \in ProbeFaults,
         UNCHANGED reason, ToolGroupEmpty' <=> ToolGroupEmpty
  PROVE  Promise!Next
BY DEF Promise!Next, Promise!Refuse

LEMMA PromiseFails ==
  ASSUME probeAt \notin {"spawn", "done"}, probeAt' \notin {"spawn", "done"}, reason = "none",
         reason' \in ProbeFaults, UNCHANGED probeResult, ToolGroupEmpty => ToolGroupEmpty'
  PROVE  Promise!Next
BY DEF Promise!Next, Promise!Fail, ProbeFaults

LEMMA PromiseSettles ==
  ASSUME probeAt \notin {"spawn", "done"}, probeAt' = "done", ToolGroupEmpty, ToolGroupEmpty',
         UNCHANGED reason,
         \/ reason = "none" /\ probeResult' \in ProbeVerdicts
         \/ reason \in ProbeFaults /\ probeResult' = reason
  PROVE  Promise!Next
BY DEF Promise!Next, Promise!Settle, ProbeFaults, ProbeVerdicts

LEMMA PromiseGivesUp ==
  ASSUME probeAt \notin {"spawn", "done"}, probeAt' = "done", probeResult' = "CleanupFailed",
         UNCHANGED reason, ToolGroupEmpty => ToolGroupEmpty'
  PROVE  Promise!Next
BY DEF Promise!Next, Promise!GiveUp

LEMMA PromiseQuiet ==
  ASSUME \/ probeAt \notin {"spawn", "done"} /\ probeAt' \notin {"spawn", "done"}
         \/ probeAt' = probeAt,
         UNCHANGED probeResult, ProbeCause' = ProbeCause, ToolGroupEmpty => ToolGroupEmpty'
  PROVE  Promise!Next \/ UNCHANGED Promise!vars
BY DEF Promise!Next, Promise!Dies, Promise!vars, ProbeCause

LEMMA ProbeRefines ==
  ASSUME ProbeInv, ProbeInv', [ProbeNext]_probeVars
  PROVE  Promise!Next \/ UNCHANGED Promise!vars
<1>0. ProbeTypeOK /\ NotStarted /\ OneReason /\ OneReason' /\ SweptIsEmpty /\ OnTheWay
  BY DEF ProbeInv
<1>1. probeAt # "spawn" => (ToolGroupEmpty => ToolGroupEmpty')
  BY EmptyGroupStays
<1>2. CASE ~ProberStep
  <2>1. Alone
    BY <1>2, ThreadsAlone, ToolAlone DEF ProbeNext
  <2>2. ToolGroupEmpty => ToolGroupEmpty'
    <3>1. CASE probeAt = "spawn"
      <4>1. NotStarted'
        BY DEF ProbeInv
      <4>2. tool' = "unborn" /\ strays' = {}
        BY <2>1, <3>1, <4>1 DEF NotStarted, Alone
      <4> QED
        BY <4>2 DEF ToolGroupEmpty, Grouped
    <3> QED
      BY <1>1, <3>1
  <2> QED
    BY <2>1, <2>2, PromiseQuiet DEF Alone, ProbeCause
<1>3. CASE SpawnProbe
  <2>1. probeAt = "spawn" /\ tool = "unborn" /\ strays' = strays /\ reason = "none"
    BY <1>0, <1>3 DEF SpawnProbe, NotStarted, OneReason
  <2>2. CASE /\ probeAt' = "done" /\ UNCHANGED <<tool, reason>>
             /\ probeResult' \in {"HarnessUnavailable", "ContainmentUnsupported"}
    <3>1. probeResult' \in ProbeFaults
      BY <2>2 DEF ProbeFaults
    <3>2. ToolGroupEmpty' <=> ToolGroupEmpty
      BY <2>1, <2>2 DEF ToolGroupEmpty, Grouped
    <3> QED
      BY <2>1, <2>2, <3>1, <3>2, PromiseRefuses
  <2>3. CASE /\ probeAt' \in {"wait", "term"} /\ tool' = "alive" /\ UNCHANGED probeResult
             /\ reason' \in {"none", "Internal", "ContainmentUnsupported"}
    <3>1. reason' \in ProbeFaults \cup {"none"} /\ ~ToolGroupEmpty'
      BY <2>3 DEF ProbeFaults, ToolGroupEmpty
    <3> QED
      BY <2>1, <2>3, <3>1, PromiseStarts
  <2> QED
    BY <1>3, <2>1, <2>2, <2>3 DEF SpawnProbe, ProbeReturns, Proceeds
<1>4. CASE SeeCancelled \/ LookExited \/ LookLate \/ LookGroup
  <2>1. /\ probeAt \in {"wait", "late", "group"} /\ UNCHANGED probeResult
        /\ probeAt' \in {"wait", "late", "group", "settle", "term"}
        /\ reason' \in {reason, "Cancelled", "HarnessIncompatible", "Internal",
                        "StartupTimeout", "CleanupFailed"}
    BY <1>4 DEF SeeCancelled, LookExited, LookLate, LookGroup, Aborts, LooksOn, Proceeds
  <2>2. reason = "none"
    BY <1>0, <2>1 DEF OneReason
  <2>3. CASE reason' \in ProbeFaults
    BY <1>1, <2>1, <2>2, <2>3, PromiseFails
  <2>4. CASE reason' \in {"none", "CleanupFailed"}
    BY <1>1, <2>1, <2>2, <2>4, PromiseQuiet DEF ProbeCause
  <2> QED
    BY <2>1, <2>2, <2>3, <2>4 DEF ProbeFaults
<1>5. CASE KillGroup \/ HardStop \/ StopFails
           \/ \E s \in Outputs : PressThread(s) \/ TakeThread(s) \/ LoseThread(s)
  <2>1. /\ probeAt \notin {"spawn", "done"} /\ probeAt' \notin {"spawn", "done"}
        /\ UNCHANGED <<reason, probeResult>>
    BY <1>5 DEF KillGroup, HardStop, StopFails, Sweep, LooksOn, Proceeds, PressThread,
       TakeThread, LoseThread, AsksToStop, TakesBack
  <2> QED
    BY <1>1, <2>1, PromiseQuiet DEF ProbeCause
<1>6. CASE CleanedUp
  <2>1. /\ probeAt = "readers" /\ probeAt' = "done" /\ UNCHANGED reason
        /\ \/ swept /\ probeResult' = reason
           \/ probeResult' = "CleanupFailed"
    BY <1>6 DEF CleanedUp, KeepRest, ProbeReturns
  <2>2. reason \in ProbeFaults \cup {"CleanupFailed"}
    BY <1>0, <2>1 DEF ProbeTypeOK, OneReason
  <2>3. CASE swept /\ probeResult' = reason /\ reason \in ProbeFaults
    <3>1. ToolGroupEmpty
      BY <1>0, <2>3 DEF SweptIsEmpty
    <3> QED
      BY <1>1, <2>1, <2>3, <3>1, PromiseSettles
  <2>4. CASE probeResult' = "CleanupFailed"
    BY <1>1, <2>1, <2>4, PromiseGivesUp
  <2> QED
    BY <2>1, <2>2, <2>3, <2>4
<1>7. CASE GivenUp \/ OutputsEnded
  <2>1. /\ probeAt \in {"abandon", "settle"} /\ UNCHANGED reason
        /\ \/ probeAt' = "done" /\ probeResult' = "CleanupFailed"
           \/ probeAt' = "judge" /\ UNCHANGED probeResult
    BY <1>7 DEF GivenUp, OutputsEnded, KeepRest, ProbeReturns, Proceeds
  <2> QED
    BY <1>1, <2>1, PromiseGivesUp, PromiseQuiet DEF ProbeCause
<1>8. CASE JudgeAnswer
  <2>1. /\ probeAt = "judge" /\ probeAt' = "done" /\ UNCHANGED reason
        /\ probeResult' \in ProbeVerdicts
    BY <1>8 DEF JudgeAnswer, KeepRest, ProbeReturns, ProbeVerdicts
  <2>2. reason = "none" /\ ToolGroupEmpty
    BY <1>0, <2>1 DEF OneReason, SweptIsEmpty
  <2> QED
    BY <1>1, <2>1, <2>2, PromiseSettles
<1> QED
  BY <1>2, <1>3, <1>4, <1>5, <1>6, <1>7, <1>8 DEF ProberStep

LEMMA PromiseInitially == ProbeInit => Promise!Init
BY DEF ProbeInit, Promise!Init, ToolGroupEmpty, Grouped

\* A probe keeps the contract of a supervised run, step by step: one cause,
\* reported over an empty group, or CleanupFailed (supervisor.rs
\* cleanup_probe_after_failure).
THEOREM ProbeKeepsContract == ProbeSpec => ProbeSettled
<1>1. ProbeInv /\ ProbeInv' /\ [ProbeNext]_probeVars => [Promise!Next]_(Promise!vars)
  BY ProbeRefines
<1> QED
  BY <1>1, PromiseInitially, ProbeInvariant, PTL DEF ProbeSpec, ProbeSettled, Promise!Spec

-----------------------------------------------------------------------------
(* The gates of a run                                                       *)

\* What is started next is the number after the last.
NextNumber == Len(spawned) + 1

SpawnTypes ==
    /\ spawned \in Seq(SpawnRecords) /\ subject \in Harnesses
    /\ errand \in {"inventory", "selected"}
    /\ ask.harness \in Harnesses /\ ask.policy \in {"exact", "probe"}

Selected ==
    /\ errand = "selected" => subject = ask.harness
    /\ gate = "next" => errand = "inventory"

\* Past the probes of the selected harness it is trusted.
Cleared ==
    gate \in {"credentials", "login", "launch", "supervise"} =>
        errand = "selected" /\ Trusted(subject, NextNumber)

\* Between the two probes of Codex the answer of the first is the last word.
HalfWay ==
    gate = "capability" =>
        /\ Len(spawned) > 0
        /\ spawned[Len(spawned)].of = subject
        /\ spawned[Len(spawned)].what = "version"
        /\ spawned[Len(spawned)].answer \in {"admitted", "unqualified"}

GateInv == SpawnTypes /\ Selected /\ Cleared /\ HalfWay /\ GrantedOnlyWhenAdmitted

-----------------------------------------------------------------------------
\* What was found out before a process stays found out.
LEMMA TrustStays ==
  ASSUME spawned \in Seq(SpawnRecords), NEW e \in SpawnRecords,
         spawned' = Append(spawned, e), ask' = ask,
         NEW h, NEW n \in 1..Len(spawned) + 1, Trusted(h, n)
  PROVE  Trusted(h, n)'
<1>1. Len(spawned') = Len(spawned) + 1 /\ \A i \in 1..Len(spawned) : spawned'[i] = spawned[i]
  OBVIOUS
<1>2. Versions(h, n)' = Versions(h, n)
  BY <1>1 DEF Versions
<1>3. PICK j \in Versions(h, n) :
        /\ \A k \in Versions(h, n) : k <= j
        /\ \/ spawned[j].answer = "admitted"
           \/ /\ spawned[j].answer = "unqualified" /\ ask.policy = "probe"
              /\ \E k \in j + 1..n - 1 : /\ spawned[k].of = h /\ spawned[k].what = "capability"
                                         /\ spawned[k].answer = "complete"
  BY DEF Trusted
<1>4. j \in 1..n - 1 /\ spawned'[j] = spawned[j]
  BY <1>1, <1>3 DEF Versions
<1>5. \A k \in j + 1..n - 1 : spawned'[k] = spawned[k]
  BY <1>1, <1>4
<1>6. j \in Versions(h, n)' /\ \A k \in Versions(h, n)' : k <= j
  BY <1>2, <1>3
<1>7. \/ spawned'[j].answer = "admitted"
      \/ /\ spawned'[j].answer = "unqualified" /\ ask'.policy = "probe"
         /\ \E k \in j + 1..n - 1 : /\ spawned'[k].of = h /\ spawned'[k].what = "capability"
                                    /\ spawned'[k].answer = "complete"
  BY <1>3, <1>4, <1>5
<1> QED
  BY <1>6, <1>7 DEF Trusted

\* A process that is no probe of its version leaves a program trusted.
LEMMA TrustGoesOn ==
  ASSUME spawned \in Seq(SpawnRecords), NEW e \in SpawnRecords,
         spawned' = Append(spawned, e), ask' = ask, e.what # "version",
         NEW h, Trusted(h, NextNumber)
  PROVE  Trusted(h, NextNumber)'
<1>1. Len(spawned') = Len(spawned) + 1 /\ Len(spawned) \in Nat
  OBVIOUS
<1>2. /\ \A i \in 1..Len(spawned) : spawned'[i] = spawned[i]
      /\ spawned'[Len(spawned) + 1] = e
  OBVIOUS
<1>3. Versions(h, NextNumber)' = Versions(h, NextNumber)
  BY <1>1, <1>2 DEF Versions, NextNumber
<1>4. PICK j \in Versions(h, NextNumber) :
        /\ \A k \in Versions(h, NextNumber) : k <= j
        /\ \/ spawned[j].answer = "admitted"
           \/ /\ spawned[j].answer = "unqualified" /\ ask.policy = "probe"
              /\ \E k \in j + 1..NextNumber - 1 :
                    /\ spawned[k].of = h /\ spawned[k].what = "capability"
                    /\ spawned[k].answer = "complete"
  BY DEF Trusted
<1>5. j \in 1..Len(spawned) /\ spawned'[j] = spawned[j]
  BY <1>1, <1>2, <1>4 DEF Versions, NextNumber
<1>6. \A k \in j + 1..NextNumber - 1 : k \in j + 1..Len(spawned') /\ spawned'[k] = spawned[k]
  BY <1>1, <1>2, <1>5 DEF NextNumber
<1>7. \/ spawned'[j].answer = "admitted"
      \/ /\ spawned'[j].answer = "unqualified" /\ ask'.policy = "probe"
         /\ \E k \in j + 1..Len(spawned') :
               /\ spawned'[k].of = h /\ spawned'[k].what = "capability"
               /\ spawned'[k].answer = "complete"
  BY <1>4, <1>5, <1>6
<1>8. NextNumber' - 1 = Len(spawned')
  BY <1>1 DEF NextNumber
<1>9. j \in Versions(h, NextNumber)' /\ \A k \in Versions(h, NextNumber)' : k <= j
  BY <1>3, <1>4
<1> QED
  BY <1>7, <1>8, <1>9 DEF Trusted

\* A process that is given something was trusted with it when it was started.
LEMMA SpawnKeeps ==
  ASSUME GateInv, ask' = ask, subject' \in Harnesses, errand' \in {"inventory", "selected"},
         \/ spawned' = spawned
         \/ \E e \in SpawnRecords :
              /\ spawned' = Append(spawned, e)
              /\ e.given # {} => e.of = ask.harness /\ Trusted(e.of, NextNumber)
  PROVE  SpawnTypes' /\ GrantedOnlyWhenAdmitted'
<1>1. CASE spawned' = spawned
  BY <1>1 DEF GateInv, SpawnTypes, GrantedOnlyWhenAdmitted, Trusted, Versions
<1>2. CASE \E e \in SpawnRecords :
              /\ spawned' = Append(spawned, e)
              /\ e.given # {} => e.of = ask.harness /\ Trusted(e.of, NextNumber)
  <2>1. PICK e \in SpawnRecords :
              /\ spawned' = Append(spawned, e)
              /\ e.given # {} => e.of = ask.harness /\ Trusted(e.of, NextNumber)
    BY <1>2
  <2>2. spawned \in Seq(SpawnRecords)
    BY DEF GateInv, SpawnTypes
  <2>3. SpawnTypes'
    BY <2>1, <2>2 DEF GateInv, SpawnTypes
  <2>4. /\ DOMAIN spawned' = 1..Len(spawned) + 1 /\ DOMAIN spawned = 1..Len(spawned)
        /\ Len(spawned) \in Nat
        /\ \A i \in 1..Len(spawned) : spawned'[i] = spawned[i]
        /\ spawned'[Len(spawned) + 1] = e
    BY <2>1, <2>2
  <2>5. ASSUME NEW i \in DOMAIN spawned', spawned'[i].given # {}
        PROVE  spawned'[i].of = ask'.harness /\ Trusted(spawned[i].of, i)'
    <3>1. CASE i \in 1..Len(spawned)
      <4>1. spawned[i].of = ask.harness /\ Trusted(spawned[i].of, i)
        BY <2>4, <2>5, <3>1 DEF GateInv, GrantedOnlyWhenAdmitted
      <4>2. i \in 1..Len(spawned) + 1 /\ spawned'[i] = spawned[i]
        BY <2>4, <3>1
      <4>3. ASSUME NEW h, h = spawned[i].of PROVE Trusted(h, i)'
        <5>1. Trusted(h, i)
          BY <4>1, <4>3
        <5> QED
          BY <2>1, <2>2, <4>2, <5>1, TrustStays
      <4>4. \A h : h = spawned'[i].of => Trusted(h, i)'
        BY <4>2, <4>3
      <4> QED
        BY <4>1, <4>2, <4>4, <2>1
    <3>2. CASE i = Len(spawned) + 1
      <4>1. e.of = ask.harness /\ Trusted(e.of, i) /\ spawned'[i] = e
        BY <2>1, <2>4, <2>5, <3>2 DEF NextNumber
      <4>2. i \in 1..Len(spawned) + 1
        BY <2>4, <3>2
      <4>3. ASSUME NEW h, h = e.of PROVE Trusted(h, i)'
        <5>1. Trusted(h, i)
          BY <4>1, <4>3
        <5> QED
          BY <2>1, <2>2, <4>2, <5>1, TrustStays
      <4>4. \A h : h = spawned'[i].of => Trusted(h, i)'
        BY <4>1, <4>3
      <4> QED
        BY <4>1, <4>4, <2>1
    <3> QED
      BY <2>4, <3>1, <3>2
  <2> QED
    BY <2>3, <2>5 DEF GrantedOnlyWhenAdmitted
<1> QED
  BY <1>1, <1>2

\* A step that starts nothing and stops short of the harness keeps the rest.
LEMMA StillKeeps ==
  ASSUME GateInv, ask' = ask, UNCHANGED spawned, subject' \in Harnesses, Selected',
         errand' \in {"inventory", "selected"},
         \/ gate' \notin {"capability", "credentials", "login", "launch", "supervise"}
         \/ /\ gate \in {"credentials", "login", "launch", "supervise"}
            /\ gate' # "capability" /\ UNCHANGED <<errand, subject>>
  PROVE  GateInv'
<1>1. SpawnTypes' /\ GrantedOnlyWhenAdmitted'
  BY SpawnKeeps
<1>2. Cleared'
  BY DEF GateInv, Cleared, Trusted, Versions, NextNumber
<1>3. HalfWay'
  BY DEF HalfWay
<1> QED
  BY <1>1, <1>2, <1>3 DEF GateInv

\* So does a step that starts a program without the user's data, unless it goes on
\* to the harness.
LEMMA ProbeKeeps ==
  ASSUME GateInv, ask' = ask, UNCHANGED <<errand, subject>>,
         NEW e \in SpawnRecords, spawned' = Append(spawned, e), e.given = {},
         gate' \notin {"capability", "credentials", "login", "launch", "supervise", "next"}
  PROVE  GateInv'
<1>1. SpawnTypes' /\ GrantedOnlyWhenAdmitted'
  BY SpawnKeeps DEF GateInv, SpawnTypes
<1> QED
  BY <1>1 DEF GateInv, Selected, Cleared, HalfWay

\* A finding ends the inspection; only an untroubled run of the selected harness
\* goes on.
LEMMA FoundGates ==
  ASSUME NEW code, NEW seen, Found(code, seen)
  PROVE  /\ UNCHANGED <<ask, errand, subject>>
         /\ gate' \in {"next", "done", "launch"}
         /\ code # "OK" \/ errand = "inventory" => gate' # "launch"
         /\ gate' = "next" => errand = "inventory"
BY DEF Found, Ends

LEMMA NoFailureIsOK ==
  ASSUME NEW saying \in ProbeFailures
  PROVE  CodeOf(saying) # "OK"
<1>1. saying \in {"HarnessUnavailable", "HarnessIncompatible", "StartupTimeout", "CleanupFailed"}
  BY DEF ProbeFailures
<1>2. CASE saying = "HarnessUnavailable" BY <1>2 DEF CodeOf
<1>3. CASE saying = "HarnessIncompatible" BY <1>3 DEF CodeOf
<1>4. CASE saying = "StartupTimeout" BY <1>4 DEF CodeOf
<1>5. CASE saying = "CleanupFailed" BY <1>5 DEF CodeOf
<1> QED
  BY <1>1, <1>2, <1>3, <1>4, <1>5

-----------------------------------------------------------------------------
\* The first harness of a listing.
LEMMA WalkStarts == Head(Walk) \in Harnesses
BY DEF Walk, Harnesses, Installed, ToSet

\* A program that is started becomes the last entry.
LEMMA LastSpawn ==
  ASSUME spawned \in Seq(SpawnRecords), NEW e \in SpawnRecords, spawned' = Append(spawned, e)
  PROVE  /\ spawned'[Len(spawned')] = e /\ Len(spawned') = Len(spawned) + 1
         /\ \A i \in 1..Len(spawned) : spawned'[i] = spawned[i]
OBVIOUS

\* A version that was just admitted is trusted.
LEMMA AdmittedIsTrusted ==
  ASSUME spawned' \in Seq(SpawnRecords), NEW h, Len(spawned') > 0,
         spawned'[Len(spawned')].of = h, spawned'[Len(spawned')].what = "version",
         spawned'[Len(spawned')].answer = "admitted"
  PROVE  Trusted(h, NextNumber)'
<1>1. Len(spawned') \in Versions(h, NextNumber)' /\ Len(spawned') \in Nat
  BY DEF Versions, NextNumber
<1>2. \A k \in Versions(h, NextNumber)' : k <= Len(spawned')
  BY DEF Versions, NextNumber
<1> QED
  BY <1>1, <1>2 DEF Trusted

\* So is one that was just found to have the options, tried because the user
\* said so, or admitted before.
LEMMA CapableIsTrusted ==
  ASSUME HalfWay, gate = "capability", spawned \in Seq(SpawnRecords), ask' = ask,
         NEW e \in SpawnRecords, spawned' = Append(spawned, e), e.of = subject,
         e.what = "capability", e.answer = "complete", ask.policy = "probe", subject' = subject
  PROVE  Trusted(subject, NextNumber)'
<1> DEFINE j == Len(spawned)
<1>1. /\ j \in Nat /\ j > 0 /\ spawned[j].of = subject /\ spawned[j].what = "version"
      /\ spawned[j].answer \in {"admitted", "unqualified"}
  BY DEF HalfWay
<1>2. Len(spawned') = j + 1 /\ spawned'[j] = spawned[j] /\ spawned'[j + 1] = e
  BY <1>1
<1>3. NextNumber' - 1 = j + 1 /\ j + 1 \in j + 1..NextNumber' - 1
  BY <1>1, <1>2 DEF NextNumber
<1>4. j \in Versions(subject, NextNumber)'
  BY <1>1, <1>2, <1>3 DEF Versions
<1>5. \A k \in Versions(subject, NextNumber)' : k <= j
  BY <1>1, <1>2, <1>3 DEF Versions
<1> QED
  BY <1>1, <1>2, <1>3, <1>4, <1>5 DEF Trusted

\* A program started without the user's data.
LEMMA StartsBare ==
  ASSUME GateInv, UNCHANGED <<ask, errand, subject>>,
         NEW of \in Harnesses \cup {"bun"}, NEW what \in Purposes, NEW saying \in Sayings,
         StartsProgram(of, what, NoCredentials, saying)
  PROVE  /\ SpawnTypes' /\ GrantedOnlyWhenAdmitted'
         /\ \E e \in SpawnRecords : /\ spawned' = Append(spawned, e) /\ e.given = {} /\ e.of = of
                                    /\ e.what = what /\ e.answer = saying
<1> DEFINE e == [of |-> of, what |-> what, given |-> NoCredentials, answer |-> saying]
<1>1. e \in SpawnRecords /\ e.given = {}
  BY DEF SpawnRecords, NoCredentials
<1>2. spawned' = Append(spawned, e)
  BY DEF StartsProgram
<1>3. SpawnTypes' /\ GrantedOnlyWhenAdmitted'
  BY <1>1, <1>2, SpawnKeeps DEF GateInv, SpawnTypes
<1> QED
  BY <1>1, <1>2, <1>3

\* After a finding the harness is reached only with nothing found and trust.
LEMMA FoundKeeps ==
  ASSUME GateInv, NEW code, NEW seen, Found(code, seen), SpawnTypes', GrantedOnlyWhenAdmitted',
         code = "OK" /\ errand = "selected" => Trusted(subject, NextNumber)'
  PROVE  GateInv'
<1>1. /\ UNCHANGED <<ask, errand, subject>> /\ gate' \in {"next", "done", "launch"}
      /\ code # "OK" \/ errand = "inventory" => gate' # "launch"
      /\ gate' = "next" => errand = "inventory"
  BY FoundGates
<1>2. Selected' /\ HalfWay'
  BY <1>1 DEF GateInv, Selected, HalfWay
<1>3. Cleared'
  BY <1>1 DEF GateInv, SpawnTypes, Cleared
<1> QED
  BY <1>2, <1>3 DEF GateInv

LEMMA PassedKeeps ==
  ASSUME GateInv, Passed, SpawnTypes', GrantedOnlyWhenAdmitted',
         subject' = subject => Trusted(subject, NextNumber)'
  PROVE  GateInv'
<1>1. CASE errand = "inventory"
  <2>1. Found("OK", "available")
    BY <1>1 DEF Passed
  <2> QED
    BY <1>1, <2>1, FoundKeeps
<1>2. CASE errand # "inventory"
  <2>1. gate' = "credentials" /\ UNCHANGED <<ask, errand, subject>>
    BY <1>2 DEF Passed, Onward
  <2> QED
    BY <1>2, <2>1 DEF GateInv, SpawnTypes, Selected, Cleared, HalfWay
<1> QED
  BY <1>1, <1>2

-----------------------------------------------------------------------------
LEMMA InitGates == ForwardInit => GateInv
<1> SUFFICES ASSUME ForwardInit PROVE GateInv
  OBVIOUS
<1>1. ask \in AskRecords
  BY AskAssumption DEF ForwardInit
<1>2. ask.harness \in Harnesses /\ ask.policy \in {"exact", "probe"}
  BY <1>1 DEF AskRecords
<1>3. SpawnTypes
  BY <1>2 DEF ForwardInit, SpawnTypes
<1>4. Selected /\ Cleared /\ HalfWay /\ GrantedOnlyWhenAdmitted
  BY DEF ForwardInit, Selected, Cleared, HalfWay, GrantedOnlyWhenAdmitted
<1> QED
  BY <1>3, <1>4 DEF GateInv

\* The probes of a version and of the options.
LEMMA VersionKeeps ==
  ASSUME GateInv, ProbeVersion
  PROVE  GateInv'
<1>1. PICK saying \in VersionAnswers :
        /\ StartsProgram(subject, "version", NoCredentials, saying)
        /\ IF saying \in ProbeFailures THEN Found(CodeOf(saying), "incompatible")
           ELSE IF saying = "foreign" \/ (saying = "unqualified" /\ subject # "codex")
                THEN Found("HARNESS_INCOMPATIBLE", "incompatible")
           ELSE IF saying = "admitted" /\ (subject # "codex" \/ ask.policy = "exact")
                THEN Passed ELSE Onward("capability")
  BY DEF ProbeVersion
<1>2. UNCHANGED <<ask, errand, subject>>
  BY <1>1 DEF Found, Passed, Onward
<1>3. saying \in Sayings /\ subject \in Harnesses
  BY DEF VersionAnswers, Sayings, GateInv, SpawnTypes
<1>4. /\ SpawnTypes' /\ GrantedOnlyWhenAdmitted'
      /\ \E e \in SpawnRecords : /\ spawned' = Append(spawned, e) /\ e.given = {}
                                 /\ e.of = subject /\ e.what = "version" /\ e.answer = saying
  BY <1>1, <1>2, <1>3, StartsBare DEF Purposes
<1>5. CASE saying \in ProbeFailures
  <2>1. Found(CodeOf(saying), "incompatible") /\ CodeOf(saying) # "OK"
    BY <1>1, <1>5, NoFailureIsOK
  <2> QED
    BY <1>4, <2>1, FoundKeeps
<1>6. CASE /\ saying \notin ProbeFailures
           /\ saying = "foreign" \/ (saying = "unqualified" /\ subject # "codex")
  BY <1>1, <1>4, <1>6, FoundKeeps
<1>7. /\ spawned' \in Seq(SpawnRecords) /\ Len(spawned') > 0
      /\ spawned'[Len(spawned')].of = subject /\ spawned'[Len(spawned')].what = "version"
      /\ spawned'[Len(spawned')].answer = saying
  BY <1>4, LastSpawn DEF GateInv, SpawnTypes
<1>8. CASE /\ saying \notin ProbeFailures
           /\ saying = "admitted" /\ (subject # "codex" \/ ask.policy = "exact")
  <2>1. Passed
    BY <1>1, <1>8
  <2>2. Trusted(subject, NextNumber)'
    BY <1>2, <1>7, <1>8, AdmittedIsTrusted
  <2> QED
    BY <1>4, <2>1, <2>2, PassedKeeps
<1>9. CASE /\ saying \notin ProbeFailures /\ saying # "foreign"
           /\ ~(saying = "unqualified" /\ subject # "codex")
           /\ ~(saying = "admitted" /\ (subject # "codex" \/ ask.policy = "exact"))
  <2>1. gate' = "capability" /\ UNCHANGED <<ask, errand, subject>>
    BY <1>1, <1>9 DEF Onward
  <2>2. saying \in {"admitted", "unqualified"}
    BY <1>9 DEF VersionAnswers
  <2> QED
    BY <1>4, <1>7, <2>1, <2>2 DEF GateInv, Selected, Cleared, HalfWay
<1> QED
  BY <1>5, <1>6, <1>8, <1>9

LEMMA CapabilitiesKeep ==
  ASSUME GateInv, ProbeCapabilities
  PROVE  GateInv'
<1>1. CASE ask.host = "windows"
  <2>1. NoProcess /\ Found("TRANSPORT_UNSUPPORTED", "incompatible")
    BY <1>1 DEF ProbeCapabilities
  <2>2. SpawnTypes' /\ GrantedOnlyWhenAdmitted'
    BY <2>1, SpawnKeeps DEF Found, NoProcess, GateInv, SpawnTypes
  <2> QED
    BY <2>1, <2>2, FoundKeeps
<1>2. CASE ask.host # "windows"
  <2>1. PICK saying \in CapabilityAnswers :
          /\ StartsProgram(subject, "capability", NoCredentials, saying)
          /\ IF saying = "CleanupFailed" THEN Found("PROCESS_CLEANUP_FAILED", "incompatible")
             ELSE IF saying = "lacking" THEN Found("HARNESS_INCOMPATIBLE", "incompatible")
             ELSE IF saying # "complete" \/ ask.policy = "exact"
                  THEN Found("HARNESS_INCOMPATIBLE", "blocked")
             ELSE Passed
    BY <1>2 DEF ProbeCapabilities
  <2>2. UNCHANGED <<ask, errand, subject>>
    BY <2>1 DEF Found, Passed, Onward
  <2>3. saying \in Sayings /\ subject \in Harnesses
    BY DEF CapabilityAnswers, Sayings, GateInv, SpawnTypes
  <2>4. /\ SpawnTypes' /\ GrantedOnlyWhenAdmitted'
        /\ \E e \in SpawnRecords : /\ spawned' = Append(spawned, e) /\ e.given = {}
                                   /\ e.of = subject /\ e.what = "capability"
                                   /\ e.answer = saying
    BY <2>1, <2>2, <2>3, StartsBare DEF Purposes
  <2>5. CASE ~(saying = "complete" /\ ask.policy # "exact")
    BY <2>1, <2>4, <2>5, FoundKeeps
  <2>6. CASE saying = "complete" /\ ask.policy # "exact"
    <3>1. Passed
      BY <2>1, <2>6
    <3>2. Trusted(subject, NextNumber)'
      BY <2>2, <2>4, <2>6, CapableIsTrusted DEF GateInv, SpawnTypes, ProbeCapabilities
    <3> QED
      BY <2>4, <3>1, <3>2, PassedKeeps
  <2> QED
    BY <2>5, <2>6
<1> QED
  BY <1>1, <1>2

LEMMA RuntimeKeeps ==
  ASSUME GateInv, ProbeRuntime
  PROVE  GateInv'
<1>1. CASE NoProcess
  <2>1. CASE gate' = "version" /\ UNCHANGED <<ask, errand, subject>>
    BY <1>1, <2>1, StillKeeps DEF NoProcess, GateInv, SpawnTypes, Selected
  <2>2. ASSUME NEW code, code # "OK", NEW seen, Found(code, seen)
        PROVE  GateInv'
    <3>1. SpawnTypes' /\ GrantedOnlyWhenAdmitted'
      BY <1>1, <2>2, SpawnKeeps DEF Found, NoProcess, GateInv, SpawnTypes
    <3> QED
      BY <2>2, <3>1, FoundKeeps
  <2>3. ASSUME NEW saying, StartsProgram("bun", "runtime", NoCredentials, saying) PROVE FALSE
    BY <1>1, <2>3 DEF StartsProgram, NoProcess, GateInv, SpawnTypes
  <2> QED
    BY <2>1, <2>2, <2>3 DEF ProbeRuntime, Onward
<1>2. CASE ~NoProcess
  <2>1. PICK saying \in RuntimeAnswers :
          /\ StartsProgram("bun", "runtime", NoCredentials, saying)
          /\ IF saying = "CleanupFailed" THEN Found("PROCESS_CLEANUP_FAILED", "incompatible")
             ELSE IF saying = "admitted" /\ ~Unusable THEN Onward("version")
             ELSE Found("HARNESS_INCOMPATIBLE", Unused)
    BY <1>2 DEF ProbeRuntime
  <2>2. UNCHANGED <<ask, errand, subject>>
    BY <2>1 DEF Found, Onward
  <2>3. /\ SpawnTypes' /\ GrantedOnlyWhenAdmitted'
        /\ \E e \in SpawnRecords : spawned' = Append(spawned, e) /\ e.given = {}
    BY <2>1, <2>2, StartsBare DEF Sayings, Purposes
  <2>4. CASE Onward("version")
    BY <2>2, <2>3, <2>4, ProbeKeeps DEF Onward
  <2>5. CASE ~Onward("version")
    BY <2>1, <2>3, <2>5, FoundKeeps
  <2> QED
    BY <2>4, <2>5
<1> QED
  BY <1>1, <1>2

LEMMA CredentialsKeep ==
  ASSUME GateInv, CheckCredentials
  PROVE  GateInv'
<1>1. /\ errand = "selected" /\ Trusted(subject, NextNumber)
      /\ UNCHANGED <<ask, errand, subject, spawned>>
  BY DEF CheckCredentials, GateInv, Cleared, NoProcess, Found, Onward
<1>2. SpawnTypes' /\ GrantedOnlyWhenAdmitted'
  BY <1>1, SpawnKeeps DEF GateInv, SpawnTypes
<1>3. Trusted(subject, NextNumber)'
  BY <1>1 DEF Trusted, Versions, NextNumber
<1>4. CASE Onward("login")
  BY <1>1, <1>2, <1>3, <1>4 DEF Onward, GateInv, Selected, Cleared, HalfWay
<1>5. CASE ~Onward("login")
  BY <1>2, <1>3, <1>5, FoundKeeps DEF CheckCredentials
<1> QED
  BY <1>4, <1>5

\* What is given to a trusted, selected harness keeps everything.
LEMMA GrantKeeps ==
  ASSUME GateInv, gate \in {"login", "supervise"}, UNCHANGED <<ask, errand, subject>>,
         NEW what \in Purposes \ {"version"}, NEW saying \in Sayings,
         spawned' = Append(spawned, [of |-> subject, what |-> what,
                                     given |-> Granted(ask, subject), answer |-> saying])
  PROVE  SpawnTypes' /\ GrantedOnlyWhenAdmitted' /\ Trusted(subject, NextNumber)'
<1> DEFINE e == [of |-> subject, what |-> what, given |-> Granted(ask, subject),
                 answer |-> saying]
<1>1. /\ subject = ask.harness /\ Trusted(subject, NextNumber)
      /\ subject \in Harnesses /\ spawned \in Seq(SpawnRecords)
  BY DEF GateInv, SpawnTypes, Selected, Cleared
<1>2. Granted(ask, subject) \in SUBSET {"home", "key"}
  BY DEF Granted
<1>3. e \in SpawnRecords /\ e.of = subject /\ e.what # "version"
  BY <1>1, <1>2 DEF SpawnRecords
<1>4. SpawnTypes' /\ GrantedOnlyWhenAdmitted'
  BY <1>1, <1>3, SpawnKeeps DEF GateInv, SpawnTypes
<1>5. \A h : h = subject => Trusted(h, NextNumber)'
  BY <1>1, <1>3, TrustGoesOn
<1> QED
  BY <1>4, <1>5

LEMMA LoginKeeps ==
  ASSUME GateInv, ProbeLogin
  PROVE  GateInv'
<1>1. PICK saying \in LoginAnswers :
        /\ StartsProgram(subject, "login", Granted(ask, subject), saying)
        /\ Found(CASE saying = "ready" -> "OK" [] saying = "refused" -> "HARNESS_NEEDS_AUTH"
                   [] OTHER -> CodeOf(saying), "incompatible")
  BY DEF ProbeLogin
<1>2. UNCHANGED <<ask, errand, subject>> /\ gate = "login"
  BY <1>1 DEF Found, ProbeLogin
<1>3. SpawnTypes' /\ GrantedOnlyWhenAdmitted' /\ Trusted(subject, NextNumber)'
  BY <1>1, <1>2, GrantKeeps DEF StartsProgram, Sayings, Purposes
<1>4. PICK code : Found(code, "incompatible")
  BY <1>1
<1> QED
  BY <1>3, <1>4, FoundKeeps

LEMMA SuperviseKeeps ==
  ASSUME GateInv, Supervise
  PROVE  GateInv'
<1>1. /\ UNCHANGED <<ask, errand, subject>> /\ gate = "supervise"
      /\ gate' \in {"service", "files"}
  BY DEF Supervise
<1>2. PICK e \in RunEndings :
        spawned' = IF ~e.started THEN spawned
                   ELSE Append(spawned, [of |-> subject, what |-> "run",
                                         given |-> Granted(ask, subject), answer |-> e.kind])
  BY DEF Supervise
<1>3. e.kind \in Sayings
  BY DEF RunEndings, NotRun, Sayings
<1>4. SpawnTypes' /\ GrantedOnlyWhenAdmitted'
  <2>1. CASE e.started
    BY <1>1, <1>2, <1>3, <2>1, GrantKeeps DEF Purposes
  <2>2. CASE ~e.started
    BY <1>1, <1>2, <2>2, SpawnKeeps DEF GateInv, SpawnTypes
  <2> QED
    BY <2>1, <2>2
<1> QED
  BY <1>1, <1>4 DEF GateInv, Selected, Cleared, HalfWay

\* The steps that start no program.
LEMMA RestKeeps ==
  ASSUME GateInv,
         \/ TakeImage \/ ChooseRoute \/ StartListing \/ LookFirst \/ NextHarness
         \/ DoctorFacts \/ PrepareLaunch \/ SettleService \/ RemoveFiles \/ Conclude
  PROVE  GateInv'
<1>1. CASE TakeImage \/ ChooseRoute \/ DoctorFacts \/ SettleService \/ RemoveFiles \/ Conclude
  <2>1. /\ UNCHANGED <<ask, errand, subject, spawned>>
        /\ gate' \notin {"capability", "credentials", "login", "launch", "supervise", "next"}
    BY <1>1 DEF TakeImage, ChooseRoute, DoctorFacts, SettleService, RemoveFiles, Conclude,
                Quietly, Ends
  <2> QED
    BY <2>1, StillKeeps DEF GateInv, SpawnTypes, Selected
<1>2. CASE StartListing
  <2>1. /\ UNCHANGED <<ask, spawned>> /\ gate' \in {"look", "done"}
        /\ \/ UNCHANGED <<errand, subject>>
           \/ errand' = "inventory" /\ subject' = Head(Walk)
    BY <1>2 DEF StartListing, Ends
  <2> QED
    BY <2>1, WalkStarts, StillKeeps DEF GateInv, SpawnTypes, Selected
<1>3. CASE NextHarness
  <2>1. /\ UNCHANGED <<ask, spawned>> /\ gate' \in {"look", "facts", "done"}
        /\ \/ UNCHANGED <<errand, subject>>
           \/ errand' = "selected" /\ subject' = ask.harness
           \/ UNCHANGED errand /\ \E i \in 1..Len(Walk) - 1 : subject' = Walk[i + 1]
    BY <1>3 DEF NextHarness, Ends
  <2>2. \A i \in 1..Len(Walk) - 1 : Walk[i + 1] \in Harnesses
    BY DEF Walk, Harnesses, Installed, ToSet
  <2>3. errand = "inventory"
    BY <1>3 DEF NextHarness, GateInv, Selected
  <2> QED
    BY <2>1, <2>2, <2>3, StillKeeps DEF GateInv, SpawnTypes, Selected
<1>4. CASE LookFirst
  <2>1. UNCHANGED <<ask, errand, subject, spawned>>
    BY <1>4 DEF LookFirst, NoProcess, Found, Onward
  <2>2. SpawnTypes' /\ GrantedOnlyWhenAdmitted'
    BY <2>1, SpawnKeeps DEF GateInv, SpawnTypes
  <2>3. CASE errand = "selected" /\ Problem(subject) # "OK"
    <3>1. Found(Problem(subject), "incompatible")
      BY <1>4, <2>3 DEF LookFirst
    <3> QED
      BY <2>2, <2>3, <3>1, FoundKeeps
  <2>4. CASE ~(errand = "selected" /\ Problem(subject) # "OK")
    BY <1>4, <2>1, <2>4, StillKeeps DEF LookFirst, Onward, GateInv, SpawnTypes, Selected
  <2> QED
    BY <2>3, <2>4
<1>5. CASE PrepareLaunch
  <2>1. /\ UNCHANGED <<ask, errand, subject, spawned>> /\ gate = "launch"
        /\ gate' \in {"supervise", "done"}
    BY <1>5 DEF PrepareLaunch, Quietly, Ends
  <2> QED
    BY <2>1, StillKeeps DEF GateInv, SpawnTypes, Selected
<1> QED
  BY <1>1, <1>2, <1>3, <1>4, <1>5

\* Every step keeps the gates.
THEOREM GatesHold == ForwardSpec => []GateInv
<1>1. ForwardInit => GateInv
  BY InitGates
<1>2. GateInv /\ [ForwardNext]_forwardVars => GateInv'
  <2> SUFFICES ASSUME GateInv, [ForwardNext]_forwardVars PROVE GateInv'
    OBVIOUS
  <2>1. CASE UNCHANGED forwardVars
    BY <2>1 DEF forwardVars, GateInv, SpawnTypes, Selected, Cleared, HalfWay,
                GrantedOnlyWhenAdmitted, Trusted, Versions, NextNumber
  <2>2. CASE ForwardNext
    BY <2>2, RestKeeps, RuntimeKeeps, VersionKeeps, CapabilitiesKeep, CredentialsKeep,
       LoginKeeps, SuperviseKeeps DEF ForwardNext
  <2> QED
    BY <2>1, <2>2
<1> QED
  BY <1>1, <1>2, PTL DEF ForwardSpec

\* A program found on the PATH gets the user's directories and credentials only as
\* the selected harness, and after it was admitted or the user chose to try it and
\* it has the options: for every set of commands.
THEOREM Admitted == ForwardSpec => []GrantedOnlyWhenAdmitted
<1>1. GateInv => GrantedOnlyWhenAdmitted
  BY DEF GateInv
<1> QED
  BY <1>1, GatesHold, PTL

-----------------------------------------------------------------------------
(* What is reported                                                         *)

\* The gates of an inspection, and those after the supervision of a run.
Inspecting == {"look", "runtime", "version", "capability", "credentials", "login"}
Afterwards == {"service", "files", "conclude"}
Early      == {"image", "route", "next", "facts", "launch", "supervise"} \cup Inspecting

\* Only a listing looks at another harness than the selected one, and only a
\* run launches.
Errands ==
    /\ ask \in AskRecords /\ errand \in {"inventory", "selected"}
    /\ errand = "selected" => subject = ask.harness
    /\ Forwards => errand = "selected"
    /\ gate \in {"next", "facts"} => ~Forwards
    /\ gate \in {"launch", "supervise"} \cup Afterwards => ask.command = "run"
    /\ gate \in Early \cup Afterwards \cup {"done"}

\* Before the supervision nothing was watched, run, or left behind; afterwards
\* what was watched is what was started, and only its failed cleanup leaves
\* something.
Watching ==
    /\ gate \in Early => watched = NotRun /\ Runs = {} /\ left = {}
    /\ gate \in Afterwards =>
          /\ watched \in RunEndings /\ (watched.started <=> Runs # {})
          /\ left # {} => watched.kind = "CleanupFailed"

ReportInv ==
    /\ spawned \in Seq(SpawnRecords) /\ Errands /\ Watching /\ NoFallback /\ RunIsReported

\* A report r of a command a that leaves l, watched w and started runs.
Fits(r, a, l, w, runs) ==
    /\ l # {} /\ ~w.unconfirmed => r.code = "PROCESS_CLEANUP_FAILED"
    /\ r.class = "success" <=> a.command = "run" /\ r.code = "OK"
    /\ a.harness # "mock" =>
          /\ r.class = "success" => w.kind = "Ok" /\ r.terminal
          /\ r.started <=> runs # {}
          /\ r.class = "cancelled" => w.kind = "Cancelled"
          /\ r.class = "exit-code" => runs # {} /\ r.exited

LEMMA ReportFits ==
  ASSUME gate = "done" => Fits(report, ask, left, watched, Runs) /\ NoFallback
  PROVE  RunIsReported
BY DEF RunIsReported, Fits

LEMMA ReportFitsNext ==
  ASSUME gate' = "done" => Fits(report', ask', left', watched', Runs') /\ NoFallback'
  PROVE  RunIsReported'
BY DEF RunIsReported, Fits

\* The fields of a refusal and of a survey.
LEMMA Refused ==
  ASSUME NEW code
  PROVE  /\ Refusal(code).code = code /\ Refusal(code).started = FALSE
         /\ Refusal(code).class = "runner-error"
         /\ Survey(code).code = code /\ Survey(code).started = FALSE
         /\ Survey(code).class = "survey"
BY DEF Refusal, Survey, NoReport

\* A command that is refused, or that only looked, before anything is run.
LEMMA EndsUnrun ==
  ASSUME ReportInv, gate \in Early, NEW r, Ends(r), ask' = ask,
         errand' \in {"inventory", "selected"}, errand' = "selected" => subject' = ask.harness,
         Forwards => errand' = "selected",
         watched' = watched, spawned' \in Seq(SpawnRecords), NoFallback', Runs' = {},
         left' # {} => r.code = "PROCESS_CLEANUP_FAILED",
         r.class \in {"runner-error", "survey"}, r.started = FALSE,
         ask.command = "run" => r.code # "OK"
  PROVE  ReportInv'
<1>1. gate' = "done" /\ report' = r
  BY DEF Ends
<1>2. Errands' /\ Watching'
  BY <1>1 DEF ReportInv, Errands, Watching, Forwards, Early, Afterwards, Inspecting
<1>3. Fits(r, ask, left', watched', {})
  BY DEF Fits
<1>4. RunIsReported'
  BY <1>1, <1>3, ReportFitsNext
<1> QED
  BY <1>2, <1>4 DEF ReportInv

\* A step that goes on to another early gate and leaves nothing.
LEMMA GoesOn ==
  ASSUME ReportInv, gate \in Early, gate' \in Early, ask' = ask, watched' = watched,
         errand' \in {"inventory", "selected"}, errand' = "selected" => subject' = ask.harness,
         Forwards => errand' = "selected" /\ gate' \notin {"next", "facts"},
         gate' \in {"launch", "supervise"} => ask.command = "run",
         spawned' \in Seq(SpawnRecords), NoFallback', Runs' = {}, left' = {}
  PROVE  ReportInv'
<1>1. Errands' /\ Watching'
  BY DEF ReportInv, Errands, Watching, Forwards, Early, Afterwards, Inspecting
<1>2. gate' # "done"
  BY DEF Early, Inspecting
<1>3. RunIsReported'
  BY <1>2 DEF RunIsReported
<1> QED
  BY <1>1, <1>3 DEF ReportInv

LEMMA Unspawned ==
  ASSUME ReportInv, UNCHANGED <<spawned, ask>>
  PROVE  spawned' \in Seq(SpawnRecords) /\ NoFallback' /\ Runs' = Runs
BY DEF ReportInv, NoFallback, Runs, Forwards

\* A finding of an inspection goes on, or is the report.
LEMMA FoundReports ==
  ASSUME ReportInv, gate \in Inspecting, NEW code, NEW seen, Found(code, seen),
         spawned' \in Seq(SpawnRecords), NoFallback', Runs' = {},
         left' # {} => code = "PROCESS_CLEANUP_FAILED"
  PROVE  ReportInv'
<1>1. /\ UNCHANGED <<ask, errand, subject, watched>> /\ gate \in Early
      /\ errand \in {"inventory", "selected"} /\ (errand = "selected" => subject = ask.harness)
      /\ (Forwards => errand = "selected")
  BY DEF Found, ReportInv, Errands, Early
<1>2. CASE gate' = "next" /\ errand = "inventory" /\ code # "PROCESS_CLEANUP_FAILED"
  BY <1>1, <1>2, GoesOn DEF Early
<1>3. CASE gate' = "launch" /\ ask.command = "run" /\ code = "OK"
  BY <1>1, <1>3, GoesOn DEF Early
<1>4. CASE Ends(Refusal(code)) /\ (code = "OK" => ask.command # "run")
  <2> DEFINE r == Refusal(code)
  <2>1. r.code = code /\ r.started = FALSE /\ r.class = "runner-error" /\ Ends(r)
    BY <1>4, Refused
  <2> HIDE DEF r
  <2>2. (left' # {} => r.code = "PROCESS_CLEANUP_FAILED") /\ (ask.command = "run" => r.code # "OK")
    BY <1>4, <2>1
  <2> QED
    BY <1>1, <2>1, <2>2, EndsUnrun
<1>5. CASE Ends(Survey(code)) /\ ask.command # "run"
  BY <1>1, <1>5, Refused, EndsUnrun
<1> QED
  BY <1>2, <1>3, <1>4, <1>5 DEF Found

\* A probe starts no other program than the selected one or its runtime, and only a
\* failed cleanup of it leaves something.
LEMMA ProbeStarts ==
  ASSUME ReportInv, gate \in Inspecting, ask' = ask, NEW of \in {subject, "bun"},
         NEW what \in Purposes \ {"run"}, NEW given \in SUBSET {"home", "key"},
         NEW saying \in Sayings, StartsProgram(of, what, given, saying), subject \in Harnesses
  PROVE  /\ spawned' \in Seq(SpawnRecords) /\ NoFallback' /\ Runs' = {}
         /\ left' # {} => saying = "CleanupFailed"
<1> DEFINE e == [of |-> of, what |-> what, given |-> given, answer |-> saying]
<1>1. e \in SpawnRecords /\ e.what # "run" /\ e.of = of
  BY DEF SpawnRecords
<1>2. spawned' = Append(spawned, e) /\ spawned \in Seq(SpawnRecords)
  BY DEF StartsProgram, ReportInv
<1> HIDE DEF e
<1>3. spawned' \in Seq(SpawnRecords)
  BY <1>1, <1>2
<1>4. /\ DOMAIN spawned' = 1..Len(spawned) + 1 /\ DOMAIN spawned = 1..Len(spawned)
      /\ Len(spawned) \in Nat
      /\ \A i \in 1..Len(spawned) : spawned'[i] = spawned[i]
      /\ spawned'[Len(spawned) + 1] = e
  BY <1>2
<1>5. Runs = {} /\ left = {}
  BY DEF ReportInv, Watching, Early
<1>6. \A i \in DOMAIN spawned' : i \in DOMAIN spawned \/ i = Len(spawned) + 1
  BY <1>4
<1>7. Runs' = {}
  BY <1>1, <1>4, <1>5, <1>6 DEF Runs
<1>8. NoFallback'
  <2>1. Forwards => of \in {ask.harness, "bun"}
    BY DEF ReportInv, Errands
  <2>2. Forwards => \A i \in DOMAIN spawned : spawned[i].of \in {ask.harness, "bun"}
    BY DEF ReportInv, NoFallback
  <2> QED
    BY <1>1, <1>4, <1>6, <1>7, <2>1, <2>2 DEF NoFallback, Forwards
<1>9. left' # {} => saying = "CleanupFailed"
  BY <1>5 DEF StartsProgram
<1> QED
  BY <1>3, <1>7, <1>8, <1>9

\* A step of an inspection to its next probe.
LEMMA OnwardReports ==
  ASSUME ReportInv, gate \in Inspecting, NEW next \in Inspecting, Onward(next),
         spawned' \in Seq(SpawnRecords), NoFallback', Runs' = {}, left' = {}
  PROVE  ReportInv'
<1>1. /\ UNCHANGED <<ask, errand, subject, watched>> /\ gate \in Early /\ gate' \in Inspecting
      /\ errand \in {"inventory", "selected"} /\ (errand = "selected" => subject = ask.harness)
      /\ (Forwards => errand = "selected")
  BY DEF Onward, ReportInv, Errands, Early
<1>2. gate' \in Early /\ gate' \notin {"next", "facts", "launch", "supervise"}
  BY <1>1 DEF Early, Inspecting
<1> QED
  BY <1>1, <1>2, GoesOn

LEMMA PassedReports ==
  ASSUME ReportInv, gate \in Inspecting, Passed,
         spawned' \in Seq(SpawnRecords), NoFallback', Runs' = {}, left' = {}
  PROVE  ReportInv'
<1>1. CASE Found("OK", "available")
  BY <1>1, FoundReports
<1>2. CASE Onward("credentials")
  BY <1>2, OnwardReports DEF Inspecting
<1> QED
  BY <1>1, <1>2 DEF Passed

\* What every gate before the supervision starts from.
LEMMA Unbegun ==
  ASSUME ReportInv, gate \in Early
  PROVE  Runs = {} /\ left = {} /\ spawned \in Seq(SpawnRecords) /\ NoFallback
BY DEF ReportInv, Watching

LEMMA InspectionReports ==
  ASSUME ReportInv, subject \in Harnesses,
         \/ LookFirst \/ ProbeRuntime \/ ProbeVersion \/ ProbeCapabilities
         \/ CheckCredentials \/ ProbeLogin
  PROVE  ReportInv'
<1>0. gate \in Inspecting /\ gate \in Early
  BY DEF LookFirst, ProbeRuntime, ProbeVersion, ProbeCapabilities, CheckCredentials, ProbeLogin,
         Inspecting, Early
<1>u. Runs = {} /\ left = {} /\ spawned \in Seq(SpawnRecords) /\ NoFallback
  BY <1>0, Unbegun
<1>q. ASSUME NoProcess, ask' = ask
      PROVE  spawned' \in Seq(SpawnRecords) /\ NoFallback' /\ Runs' = {} /\ left' = {}
  BY <1>u, <1>q, Unspawned DEF NoProcess
<1>p. ASSUME NEW of \in {subject, "bun"}, NEW what \in Purposes \ {"run"},
             NEW given \in SUBSET {"home", "key"}, NEW saying \in Sayings,
             StartsProgram(of, what, given, saying), ask' = ask
      PROVE  /\ spawned' \in Seq(SpawnRecords) /\ NoFallback' /\ Runs' = {}
             /\ left' # {} => saying = "CleanupFailed"
  BY <1>0, <1>p, ProbeStarts
<1>1. ASSUME LookFirst PROVE ReportInv'
  <2>1. NoProcess /\ ask' = ask
        /\ ((\E code : Found(code, "incompatible")) \/ Onward("runtime"))
    BY <1>1 DEF LookFirst, Found, Onward
  <2>2. spawned' \in Seq(SpawnRecords) /\ NoFallback' /\ Runs' = {} /\ left' = {}
    BY <1>q, <2>1
  <2> QED
    BY <1>0, <2>1, <2>2, FoundReports, OnwardReports DEF Inspecting
<1>2. ASSUME ProbeRuntime PROVE ReportInv'
  <2>1. CASE /\ NoProcess
             /\ \/ Found("HARNESS_UNAVAILABLE", Unused) \/ Onward("version")
                \/ Found("HARNESS_INCOMPATIBLE", Unused)
    <3>1. spawned' \in Seq(SpawnRecords) /\ NoFallback' /\ Runs' = {} /\ left' = {}
      BY <1>q, <2>1 DEF Found, Onward
    <3> QED
      BY <1>0, <2>1, <3>1, FoundReports, OnwardReports DEF Inspecting
  <2>2. CASE \E saying \in RuntimeAnswers :
               /\ StartsProgram("bun", "runtime", NoCredentials, saying)
               /\ IF saying = "CleanupFailed" THEN Found("PROCESS_CLEANUP_FAILED", "incompatible")
                  ELSE IF saying = "admitted" /\ ~Unusable THEN Onward("version")
                  ELSE Found("HARNESS_INCOMPATIBLE", Unused)
    <3>1. PICK saying \in RuntimeAnswers :
               /\ StartsProgram("bun", "runtime", NoCredentials, saying)
               /\ IF saying = "CleanupFailed" THEN Found("PROCESS_CLEANUP_FAILED", "incompatible")
                  ELSE IF saying = "admitted" /\ ~Unusable THEN Onward("version")
                  ELSE Found("HARNESS_INCOMPATIBLE", Unused)
      BY <2>2
    <3>2. saying \in Sayings /\ ask' = ask /\ "runtime" \in Purposes \ {"run"}
          /\ NoCredentials \in SUBSET {"home", "key"}
      BY <3>1 DEF Sayings, Found, Onward, Purposes, NoCredentials
    <3>3. /\ spawned' \in Seq(SpawnRecords) /\ NoFallback' /\ Runs' = {}
          /\ left' # {} => saying = "CleanupFailed"
      BY <1>p, <3>1, <3>2
    <3> QED
      BY <1>0, <3>1, <3>3, FoundReports, OnwardReports DEF Inspecting
  <2> QED
    BY <1>2, <2>1, <2>2 DEF ProbeRuntime
<1>3. ASSUME ProbeVersion PROVE ReportInv'
  <2>1. PICK saying \in VersionAnswers :
          /\ StartsProgram(subject, "version", NoCredentials, saying)
          /\ IF saying \in ProbeFailures THEN Found(CodeOf(saying), "incompatible")
             ELSE IF saying = "foreign" \/ (saying = "unqualified" /\ subject # "codex")
                  THEN Found("HARNESS_INCOMPATIBLE", "incompatible")
             ELSE IF saying = "admitted" /\ (subject # "codex" \/ ask.policy = "exact")
                  THEN Passed ELSE Onward("capability")
    BY <1>3 DEF ProbeVersion
  <2>2. saying \in Sayings /\ ask' = ask /\ "version" \in Purposes \ {"run"}
        /\ NoCredentials \in SUBSET {"home", "key"}
    BY <2>1 DEF Sayings, Found, Onward, Passed, Purposes, NoCredentials
  <2>3. /\ spawned' \in Seq(SpawnRecords) /\ NoFallback' /\ Runs' = {}
        /\ left' # {} => saying = "CleanupFailed"
    BY <1>p, <2>1, <2>2
  <2>4. CASE saying \in ProbeFailures
    <3>1. saying = "CleanupFailed" => CodeOf(saying) = "PROCESS_CLEANUP_FAILED"
      BY DEF CodeOf
    <3> QED
      BY <1>0, <2>1, <2>3, <2>4, <3>1, FoundReports
  <2>5. CASE saying \notin ProbeFailures
    <3>1. saying # "CleanupFailed" /\ left' = {}
      BY <2>3, <2>5 DEF ProbeFailures
    <3> QED
      BY <1>0, <2>1, <2>3, <2>5, <3>1, FoundReports, OnwardReports, PassedReports DEF Inspecting
  <2> QED
    BY <2>4, <2>5
<1>4. ASSUME ProbeCapabilities PROVE ReportInv'
  <2>1. CASE NoProcess /\ Found("TRANSPORT_UNSUPPORTED", "incompatible")
    <3>1. spawned' \in Seq(SpawnRecords) /\ NoFallback' /\ Runs' = {} /\ left' = {}
      BY <1>q, <2>1 DEF Found
    <3> QED
      BY <1>0, <2>1, <3>1, FoundReports
  <2>2. CASE \E saying \in CapabilityAnswers :
               /\ StartsProgram(subject, "capability", NoCredentials, saying)
               /\ \/ saying = "CleanupFailed" /\ Found("PROCESS_CLEANUP_FAILED", "incompatible")
                  \/ /\ saying # "CleanupFailed"
                     /\ \/ Found("HARNESS_INCOMPATIBLE", "incompatible")
                        \/ Found("HARNESS_INCOMPATIBLE", "blocked") \/ Passed
    <3>1. PICK saying \in CapabilityAnswers :
               /\ StartsProgram(subject, "capability", NoCredentials, saying)
               /\ \/ saying = "CleanupFailed" /\ Found("PROCESS_CLEANUP_FAILED", "incompatible")
                  \/ /\ saying # "CleanupFailed"
                     /\ \/ Found("HARNESS_INCOMPATIBLE", "incompatible")
                        \/ Found("HARNESS_INCOMPATIBLE", "blocked") \/ Passed
      BY <2>2
    <3>2. saying \in Sayings /\ ask' = ask /\ "capability" \in Purposes \ {"run"}
          /\ NoCredentials \in SUBSET {"home", "key"}
      BY <3>1 DEF Sayings, Found, Onward, Passed, Purposes, NoCredentials
    <3>3. /\ spawned' \in Seq(SpawnRecords) /\ NoFallback' /\ Runs' = {}
          /\ left' # {} => saying = "CleanupFailed"
      BY <1>p, <3>1, <3>2
    <3> QED
      BY <1>0, <3>1, <3>3, FoundReports, PassedReports
  <2> QED
    BY <1>4, <2>1, <2>2 DEF ProbeCapabilities
<1>5. ASSUME CheckCredentials PROVE ReportInv'
  <2>1. /\ NoProcess /\ ask' = ask
        /\ \/ Found("HARNESS_NEEDS_AUTH", "needs-auth") \/ Onward("login")
           \/ Found("OK", "available")
    BY <1>5 DEF CheckCredentials, Found, Onward
  <2>2. spawned' \in Seq(SpawnRecords) /\ NoFallback' /\ Runs' = {} /\ left' = {}
    BY <1>q, <2>1
  <2> QED
    BY <1>0, <2>1, <2>2, FoundReports, OnwardReports DEF Inspecting
<1>6. ASSUME ProbeLogin PROVE ReportInv'
  <2>1. PICK saying \in LoginAnswers :
          /\ StartsProgram(subject, "login", Granted(ask, subject), saying)
          /\ Found(CASE saying = "ready" -> "OK" [] saying = "refused" -> "HARNESS_NEEDS_AUTH"
                     [] OTHER -> CodeOf(saying), "incompatible")
    BY <1>6 DEF ProbeLogin
  <2>2. saying \in Sayings /\ ask' = ask /\ "login" \in Purposes \ {"run"}
        /\ Granted(ask, subject) \in SUBSET {"home", "key"}
    BY <2>1 DEF Sayings, Found, Purposes, Granted
  <2>3. /\ spawned' \in Seq(SpawnRecords) /\ NoFallback' /\ Runs' = {}
        /\ left' # {} => saying = "CleanupFailed"
    BY <1>p, <2>1, <2>2
  <2>4. CASE saying = "CleanupFailed"
    <3>1. Found("PROCESS_CLEANUP_FAILED", "incompatible")
      BY <2>1, <2>4 DEF CodeOf
    <3> QED
      BY <1>0, <2>3, <3>1, FoundReports
  <2>5. CASE saying # "CleanupFailed"
    <3>1. \E code : Found(code, "incompatible")
      BY <2>1
    <3> QED
      BY <1>0, <2>3, <2>5, <3>1, FoundReports
  <2> QED
    BY <2>4, <2>5
<1> QED
  BY <1>1, <1>2, <1>3, <1>4, <1>5, <1>6

\* No supervision ends with the code of a success, and one that is called a
\* cancellation or a failed cleanup was one.
LEMMA CodesTell ==
  ASSUME NEW e \in RunEndings, e.kind # "Ok"
  PROVE  /\ CodeOf(e.kind) # "OK"
         /\ CodeOf(e.kind) = "CANCELLED" <=> e.kind = "Cancelled"
         /\ e.kind = "CleanupFailed" => CodeOf(e.kind) = "PROCESS_CLEANUP_FAILED"
<1>1. e.kind \in RunFailures
  BY DEF RunEndings, NotRun
<1>2. CASE e.kind \in ProbeFailures
  <2>1. e.kind \in {"HarnessUnavailable", "HarnessIncompatible", "StartupTimeout",
                    "CleanupFailed"}
    BY <1>2 DEF ProbeFailures
  <2>2. CASE e.kind = "HarnessUnavailable" BY <2>2 DEF CodeOf
  <2>3. CASE e.kind = "HarnessIncompatible" BY <2>3 DEF CodeOf
  <2>4. CASE e.kind = "StartupTimeout" BY <2>4 DEF CodeOf
  <2>5. CASE e.kind = "CleanupFailed" BY <2>5 DEF CodeOf
  <2> QED
    BY <2>1, <2>2, <2>3, <2>4, <2>5
<1>3. CASE e.kind \notin ProbeFailures
  <2>1. e.kind \in {"RecursiveInvocation", "RunTimeout", "HarnessFailed", "ProtocolMalformed",
                    "RecordTooLarge", "ProtocolTruncated", "Cancelled", "Internal"}
    BY <1>1, <1>3 DEF RunFailures
  <2>2. CASE e.kind = "RecursiveInvocation" BY <2>2 DEF CodeOf
  <2>3. CASE e.kind \in {"RunTimeout", "HarnessFailed", "RecordTooLarge"} BY <2>3 DEF CodeOf
  <2>4. CASE e.kind = "ProtocolMalformed" BY <2>4 DEF CodeOf
  <2>5. CASE e.kind = "ProtocolTruncated" BY <2>5 DEF CodeOf
  <2>6. CASE e.kind = "Cancelled" BY <2>6 DEF CodeOf
  <2>7. CASE e.kind = "Internal" BY <2>7 DEF CodeOf
  <2> QED
    BY <2>1, <2>2, <2>3, <2>4, <2>5, <2>6, <2>7
<1> QED
  BY <1>2, <1>3

\* The steps before a harness is looked at, and those of a listing.
LEMMA RouteReports ==
  ASSUME ReportInv, GateInv,
         TakeImage \/ ChooseRoute \/ StartListing \/ NextHarness \/ DoctorFacts \/ PrepareLaunch
  PROVE  ReportInv'
<1>1. gate \in Early /\ UNCHANGED <<ask, spawned, left, watched>>
  BY DEF TakeImage, ChooseRoute, StartListing, NextHarness, DoctorFacts, PrepareLaunch, Quietly,
         Early
<1>2. Runs = {} /\ left = {} /\ left' = {}
  BY <1>1, Unbegun
<1>3. spawned' \in Seq(SpawnRecords) /\ NoFallback' /\ Runs' = {}
  BY <1>1, <1>2, Unspawned
<1>4. /\ errand \in {"inventory", "selected"} /\ (errand = "selected" => subject = ask.harness)
      /\ (Forwards => errand = "selected")
  BY DEF ReportInv, Errands
<1>5. ASSUME NEW r, Ends(r), UNCHANGED <<errand, subject>>,
             \E code : \/ r = Refusal(code) /\ code # "OK"
                       \/ r = Survey(code) /\ ask.command # "run"
      PROVE  ReportInv'
  <2>1. /\ r.class \in {"runner-error", "survey"} /\ r.started = FALSE
        /\ (ask.command = "run" => r.code # "OK")
    <3>1. PICK code : \/ r = Refusal(code) /\ code # "OK"
                      \/ r = Survey(code) /\ ask.command # "run"
      BY <1>5
    <3>2. CASE r = Refusal(code) /\ code # "OK"
      BY <3>2, Refused
    <3>3. CASE r = Survey(code) /\ ask.command # "run"
      BY <3>3, Refused
    <3> QED
      BY <3>1, <3>2, <3>3
  <2> QED
    BY <1>1, <1>2, <1>3, <1>4, <1>5, <2>1, EndsUnrun
<1>6. ASSUME gate' \in {"route", "look", "supervise"}, UNCHANGED <<errand, subject>>,
             gate' = "supervise" => ask.command = "run"
      PROVE  ReportInv'
  <2>1. gate' \in Early /\ gate' \notin {"next", "facts", "launch"}
    BY <1>6 DEF Early, Inspecting
  <2> QED
    BY <1>1, <1>2, <1>3, <1>4, <1>6, <2>1, GoesOn
<1>7. CASE TakeImage
  <2>1. PreflightCode # "OK"
    BY DEF PreflightCode
  <2>2. \/ gate' = "route"
        \/ \E code \in {"KERNEL", "CANCELLED", "STARTUP_TIMEOUT", PreflightCode} :
              Ends(Refusal(code))
    BY <1>7 DEF TakeImage
  <2>3. UNCHANGED <<errand, subject>>
    BY <1>7 DEF TakeImage, Quietly
  <2> QED
    BY <1>5, <1>6, <2>1, <2>2, <2>3
<1>8. CASE ChooseRoute
  <2>1. UNCHANGED <<errand, subject>> /\ Forwards /\ gate = "route"
    BY <1>8 DEF ChooseRoute, Quietly
  <2>2. \/ \E code \in {"TRANSPORT_UNSUPPORTED", "CONFIG_INVALID", "HARNESS_UNAVAILABLE",
                        "HOSTED_UNAVAILABLE"} :
             Ends(Refusal(code)) \/ (ask.command = "dry" /\ Ends(Survey(code)))
        \/ ask.command = "dry" /\ Ends(Survey("OK"))
        \/ ask.harness = "mock" /\ ask.command # "dry" /\ Ends(MockRun)
        \/ gate' = "look"
    BY <1>8 DEF ChooseRoute, Declined
  <2>3. CASE ask.harness = "mock" /\ ask.command # "dry" /\ Ends(MockRun)
    <3> DEFINE r == MockRun
    <3>1. r.code = "OK" /\ r.class = "success"
      BY DEF MockRun, Refusal, NoReport
    <3>2. gate' = "done" /\ report' = r
      BY <2>3 DEF Ends
    <3> HIDE DEF r
    <3>3. ask.command = "run"
      BY <2>1, <2>3 DEF Forwards
    <3>4. Fits(r, ask, {}, watched, {})
      BY <2>3, <3>1, <3>3 DEF Fits
    <3>5. RunIsReported'
      BY <1>1, <1>2, <1>3, <3>2, <3>4, ReportFitsNext
    <3>6. Errands' /\ Watching'
      BY <1>1, <1>2, <2>1, <3>2 DEF ReportInv, Errands, Watching, Forwards, Early, Afterwards,
                               Inspecting
    <3> QED
      BY <1>3, <3>5, <3>6 DEF ReportInv
  <2> QED
    BY <1>5, <1>6, <2>1, <2>2, <2>3
<1>9. CASE StartListing
  <2>1. ~Forwards
    BY <1>9 DEF StartListing
  <2>2. CASE Ends(Refusal("TRANSPORT_UNSUPPORTED")) /\ UNCHANGED <<errand, subject>>
    BY <1>5, <2>2
  <2>3. CASE gate' = "look" /\ errand' = "inventory"
    <3>1. gate' \in Early /\ gate' \notin {"next", "facts", "launch", "supervise"}
      BY <2>3 DEF Early, Inspecting
    <3> QED
      BY <1>1, <1>2, <1>3, <2>1, <2>3, <3>1, GoesOn
  <2> QED
    BY <1>9, <2>2, <2>3 DEF StartListing
<1>10. CASE NextHarness
  <2>1. ~Forwards /\ errand = "inventory"
    BY <1>10 DEF NextHarness, ReportInv, Errands, GateInv, Selected
  <2>2. CASE gate' = "look" /\ UNCHANGED errand
    <3>1. gate' \in Early /\ gate' \notin {"next", "facts", "launch", "supervise"}
      BY <2>2 DEF Early, Inspecting
    <3> QED
      BY <1>1, <1>2, <1>3, <2>1, <2>2, <3>1, GoesOn
  <2>3. CASE Ends(Survey("OK")) /\ UNCHANGED <<errand, subject>>
    BY <1>5, <2>1, <2>3 DEF Forwards
  <2>4. CASE gate' = "facts" /\ errand' = "selected" /\ subject' = ask.harness
    <3>1. gate' \in Early /\ gate' \notin {"launch", "supervise"}
      BY <2>4 DEF Early, Inspecting
    <3> QED
      BY <1>1, <1>2, <1>3, <2>1, <2>4, <3>1, GoesOn
  <2> QED
    BY <1>10, <2>2, <2>3, <2>4 DEF NextHarness
<1>11. CASE DoctorFacts
  <2>1. ~Forwards
    BY <1>11 DEF DoctorFacts, ReportInv, Errands
  <2>2. UNCHANGED <<errand, subject>>
    BY <1>11 DEF DoctorFacts, Quietly
  <2>3. gate' = "look" \/ \E code : Ends(Survey(code))
    BY <1>11 DEF DoctorFacts
  <2> QED
    BY <1>5, <1>6, <2>1, <2>2, <2>3 DEF Forwards
<1>12. CASE PrepareLaunch
  <2>1. ask.command = "run"
    BY <1>12 DEF PrepareLaunch, ReportInv, Errands
  <2>2. UNCHANGED <<errand, subject>>
    BY <1>12 DEF PrepareLaunch, Quietly
  <2>3. gate' = "supervise" \/ \E code \in LaunchRefusals : Ends(Refusal(code))
    BY <1>12 DEF PrepareLaunch
  <2> QED
    BY <1>5, <1>6, <2>1, <2>2, <2>3 DEF LaunchRefusals
<1> QED
  BY <1>7, <1>8, <1>9, <1>10, <1>11, <1>12

\* The task is given once, to the selected harness.
LEMMA SuperviseReports ==
  ASSUME ReportInv, subject \in Harnesses, Supervise
  PROVE  ReportInv'
<1>1. /\ gate = "supervise" /\ gate \in Early /\ gate' \in {"service", "files"}
      /\ UNCHANGED <<ask, errand, subject>>
  BY DEF Supervise, Early
<1>2. /\ Runs = {} /\ left = {} /\ spawned \in Seq(SpawnRecords) /\ NoFallback
      /\ ask.command = "run" /\ Forwards /\ subject = ask.harness
  BY <1>1, Unbegun DEF ReportInv, Errands, Forwards
<1>3. PICK e \in RunEndings :
        /\ watched' = e
        /\ spawned' = IF ~e.started THEN spawned
                      ELSE Append(spawned, [of |-> subject, what |-> "run",
                                            given |-> Granted(ask, subject), answer |-> e.kind])
        /\ left' \in IF e.kind = "CleanupFailed" THEN {left, left \cup {"harness"}} ELSE {left}
  BY DEF Supervise
<1>4. e.kind \in Sayings /\ e.started \in BOOLEAN
  BY DEF RunEndings, NotRun, Sayings
<1>5. spawned' \in Seq(SpawnRecords) /\ NoFallback' /\ (e.started <=> Runs' # {})
  <2>1. CASE ~e.started
    BY <1>1, <1>2, <1>3, <2>1 DEF NoFallback, Runs, Forwards
  <2>2. CASE e.started
    <3> DEFINE r == [of |-> subject, what |-> "run", given |-> Granted(ask, subject),
                     answer |-> e.kind]
    <3>1. r \in SpawnRecords /\ r.what = "run" /\ r.of = subject
      BY <1>4 DEF SpawnRecords, Purposes, Granted
    <3>2. spawned' = Append(spawned, r)
      BY <1>3, <2>2
    <3> HIDE DEF r
    <3>3. /\ spawned' \in Seq(SpawnRecords) /\ Len(spawned) \in Nat
          /\ Len(spawned') = Len(spawned) + 1 /\ DOMAIN spawned = 1..Len(spawned)
          /\ DOMAIN spawned' = 1..Len(spawned) + 1 /\ spawned'[Len(spawned) + 1] = r
          /\ \A i \in 1..Len(spawned) : spawned'[i] = spawned[i]
      BY <1>2, <3>1, <3>2
    <3>4. \A i \in DOMAIN spawned' : i \in DOMAIN spawned \/ i = Len(spawned) + 1
      BY <3>3
    <3>5. Runs' = {Len(spawned) + 1}
      BY <1>2, <3>1, <3>3, <3>4 DEF Runs
    <3>6. \A i \in DOMAIN spawned' : spawned'[i].of \in {ask.harness, "bun"}
      BY <1>2, <3>1, <3>3, <3>4 DEF NoFallback
    <3> QED
      BY <1>1, <1>2, <2>2, <3>3, <3>5, <3>6 DEF NoFallback, Forwards
  <2> QED
    BY <1>4, <2>1, <2>2
<1>6. left' # {} => e.kind = "CleanupFailed"
  BY <1>2, <1>3
<1>7. Errands' /\ Watching' /\ gate' # "done"
  BY <1>1, <1>2, <1>3, <1>5, <1>6 DEF ReportInv, Errands, Watching, Forwards, Early, Afterwards,
                                 Inspecting
<1> QED
  BY <1>5, <1>7 DEF ReportInv, RunIsReported

\* What is told of a run after its supervision is what was watched.
LEMMA ToldFits ==
  ASSUME ReportInv, gate \in Afterwards, NEW code, Ends(Told(code)),
         UNCHANGED <<ask, errand, subject, spawned, watched>>,
         code = "OK" => watched.kind = "Ok", code = "CANCELLED" => watched.kind = "Cancelled",
         left' # {} /\ ~watched.unconfirmed => code = "PROCESS_CLEANUP_FAILED"
  PROVE  ReportInv'
<1> DEFINE r == Told(code)
<1>1. /\ gate' = "done" /\ report' = r /\ r.code = code /\ r.started = watched.started
      /\ r.terminal = watched.terminal /\ r.exited = watched.exited /\ r.class = ClassOf(code)
  BY DEF Ends, Told
<1>2. /\ r.class = "success" <=> code = "OK"
      /\ r.class = "cancelled" => code = "CANCELLED"
      /\ r.class = "exit-code" => watched.exited
  BY <1>1 DEF ClassOf
<1> HIDE DEF r
<1>3. /\ ask.command = "run" /\ watched \in RunEndings /\ (watched.started <=> Runs # {})
  BY DEF ReportInv, Errands, Watching
<1>4. (watched.exited => watched.started) /\ (watched.kind = "Ok" => watched.terminal)
  BY <1>3 DEF RunEndings, NotRun, RunFailures, ProbeFailures
<1>5. /\ Runs' = Runs /\ spawned' \in Seq(SpawnRecords) /\ NoFallback'
  BY Unspawned
<1>6. Fits(r, ask, left', watched, Runs)
  BY <1>1, <1>2, <1>3, <1>4 DEF Fits
<1>7. RunIsReported'
  BY <1>1, <1>5, <1>6, ReportFitsNext
<1>8. Errands' /\ Watching'
  BY <1>1 DEF ReportInv, Errands, Watching, Forwards, Early, Afterwards, Inspecting
<1> QED
  BY <1>5, <1>7, <1>8 DEF ReportInv

LEMMA ConclusionReports ==
  ASSUME ReportInv, SettleService \/ RemoveFiles \/ Conclude
  PROVE  ReportInv'
<1>1. gate \in Afterwards /\ UNCHANGED <<ask, errand, subject, spawned, watched>>
  BY DEF SettleService, RemoveFiles, Conclude, Quietly, Afterwards
<1>2. ASSUME gate' \in {"files", "conclude"}, left' = left
      PROVE  ReportInv'
  <2>1. /\ Runs' = Runs /\ spawned' \in Seq(SpawnRecords) /\ NoFallback'
    BY <1>1, Unspawned
  <2>2. Errands' /\ Watching' /\ gate' # "done"
    BY <1>1, <1>2, <2>1 DEF ReportInv, Errands, Watching, Forwards, Early, Afterwards, Inspecting
  <2> QED
    BY <2>1, <2>2 DEF ReportInv, RunIsReported
<1>3. CASE Ends(Told("PROCESS_CLEANUP_FAILED"))
  BY <1>1, <1>3, ToldFits
<1>4. CASE Conclude
  <2>1. PICK code \in IF watched.kind = "Ok" THEN Judgements ELSE {FailureCode} : Ends(Told(code))
    BY <1>4 DEF Conclude
  <2>2. watched \in RunEndings /\ (left # {} => watched.kind = "CleanupFailed") /\ left' = left
    BY <1>1, <1>4 DEF ReportInv, Watching, Conclude, Quietly
  <2>3. CASE watched.kind = "Ok"
    <3>1. code \notin {"CANCELLED"} /\ left' = {}
      BY <2>1, <2>2, <2>3 DEF Judgements
    <3> QED
      BY <1>1, <2>1, <2>3, <3>1, ToldFits
  <2>4. CASE watched.kind # "Ok"
    <3>1. code = FailureCode
      BY <2>1, <2>4
    <3>2. /\ code # "OK" /\ (code = "CANCELLED" => watched.kind = "Cancelled")
          /\ (left' # {} /\ ~watched.unconfirmed => code = "PROCESS_CLEANUP_FAILED")
      BY <2>2, <2>4, <3>1, CodesTell DEF FailureCode
    <3> QED
      BY <1>1, <2>1, <3>2, ToldFits
  <2> QED
    BY <2>3, <2>4
<1> QED
  BY <1>2, <1>3, <1>4 DEF SettleService, RemoveFiles, Quietly

\* The report tells what happened, for every command, setting and machine: what may be
\* alive is a failed cleanup, a success ran to its end, nothing else is a success,
\* and no other program stood in for the chosen one.
THEOREM RunReported == ForwardSpec => []RunIsReported
<1>1. ForwardInit => ReportInv
  <2> SUFFICES ASSUME ForwardInit PROVE ReportInv
    OBVIOUS
  <2>1. ask \in AskRecords /\ spawned = <<>> /\ gate = "image"
    BY AskAssumption DEF ForwardInit
  <2>2. spawned \in Seq(SpawnRecords) /\ Runs = {} /\ NoFallback
    BY <2>1 DEF Runs, NoFallback
  <2>3. Errands /\ Watching
    BY <2>1, <2>2 DEF ForwardInit, Errands, Watching, Early, Afterwards, Inspecting
  <2> QED
    BY <2>1, <2>2, <2>3 DEF ReportInv, RunIsReported
<1>2. ReportInv /\ GateInv /\ [ForwardNext]_forwardVars => ReportInv'
  <2> SUFFICES ASSUME ReportInv, GateInv, [ForwardNext]_forwardVars PROVE ReportInv'
    OBVIOUS
  <2>1. subject \in Harnesses
    BY DEF GateInv, SpawnTypes
  <2>2. CASE UNCHANGED forwardVars
    BY <2>2 DEF forwardVars, ReportInv, Errands, Watching, RunIsReported, NoFallback, Runs,
                Forwards
  <2>3. CASE ForwardNext
    BY <2>1, <2>3, RouteReports, InspectionReports, SuperviseReports, ConclusionReports
       DEF ForwardNext
  <2> QED
    BY <2>2, <2>3
<1>3. ReportInv => RunIsReported
  BY DEF ReportInv
<1> QED
  BY <1>1, <1>2, <1>3, GatesHold, PTL DEF ForwardSpec
=============================================================================
