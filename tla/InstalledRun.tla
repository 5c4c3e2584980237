----------------------------- MODULE InstalledRun -----------------------------
(***************************************************************************)
(* One run of an installed adapter from its preparation to its result, the  *)
(* private directory it keeps on disk, the Prime service it may leave       *)
(* behind, and the commands `cli cleanup prime <handle>` that settle such a *)
(* service later.  Source: runner.rs execute_installed_adapter,             *)
(* execute_prime_cleanup; installed_adapters.rs prepare_launch;             *)
(* prompt_files.rs; prime_owned_service.rs.                                 *)
(*                                                                          *)
(* The supervision of the harness itself is module Supervisor; here it is   *)
(* one step with two results.  A fault is a system call that fails, a       *)
(* service that does not answer in time, or a process that is killed;       *)
(* MaxFaults bounds how many of them one behaviour has.                     *)
(***************************************************************************)
EXTENDS Naturals

CONSTANTS Runner,      \* the process of the run
          Cleanups,    \* the processes of the cleanup commands
          Adapters,    \* kinds of adapters: subset of {"inline", "files", "prime"}
          MaxFaults    \* bound on faults

ASSUME RunnerAssumption == Runner \notin Cleanups /\ MaxFaults \in Nat

VARIABLES
    adapter,     \* "inline": no private files; "files": a directory; "prime": with a socket
    exclusive,   \* whether cleanup commands are run one at a time
    doing,          \* what each process does next
    supervised,  \* how the supervision of the harness ended
    result,      \* what the run reported
    dir,         \* the private directory
    ticket,      \* the retry ticket, beside the private directory
    daemon,      \* the Prime service of the run
    faults       \* faults that may still happen

installedVars == <<adapter, exclusive, doing, supervised, result, dir, ticket, daemon, faults>>

Processes == {Runner} \cup Cleanups

RunSteps == {"start", "write", "prepare", "undo", "ready", "running", "inspect", "connect",
             "probe", "scrub", "seal", "mark", "close", "finalize"}

CleanupSteps == {"look", "open", "read", "inspect", "connect", "probe", "recheck", "ticket",
                 "link", "compare", "verify", "unmark", "unticket", "orphan", "orphanscrub",
                 "rmdir", "ticketrm"}

\* How a cleanup command ends: "retry" is an error that names the handle again,
\* "refused" one that does not.
AtRest == {"idle", "cleaned", "retry", "refused", "killed"}

\* What the run reports: "files" and "service" are the two faces of
\* PROCESS_CLEANUP_FAILED without a handle, "handle" the one with it.
Results == {"none", "ok", "error", "files", "service", "handle"}

NoDirectory == [exists |-> FALSE, prompt |-> FALSE, extra |-> FALSE, sock |-> FALSE,
                marker |-> FALSE]

InstalledTypeOK ==
    /\ adapter \in Adapters
    /\ exclusive \in BOOLEAN
    /\ doing \in [Processes -> RunSteps \cup CleanupSteps \cup AtRest \cup {"done"}]
    /\ supervised \in {"none", "ok", "failed"}
    /\ result \in Results
    /\ dir \in [exists : BOOLEAN, prompt : BOOLEAN, extra : BOOLEAN, sock : BOOLEAN,
                marker : BOOLEAN]
    /\ ticket \in BOOLEAN
    /\ daemon \in {"none", "starting", "up", "stopping", "gone", "dead"}
    /\ faults \in 0..MaxFaults

InstalledInit ==
    /\ adapter \in Adapters
    /\ exclusive \in BOOLEAN
    /\ doing = [p \in Processes |-> IF p = Runner THEN "start" ELSE "idle"]
    /\ supervised = "none"
    /\ result = "none"
    /\ dir = NoDirectory
    /\ ticket = FALSE
    /\ daemon = "none"
    /\ faults = MaxFaults

\* A call that succeeds, and one that fails.
Sound == UNCHANGED faults
Fault == faults > 0 /\ faults' = faults - 1

Goto(p, step) == doing' = [doing EXCEPT ![p] = step]

Report(r) == result' = r /\ Goto(Runner, "done")

NothingElse == UNCHANGED <<adapter, exclusive>>

-----------------------------------------------------------------------------
(* Preparation of the launch                                                *)

\* Platform, discovery, authentication, size and text checks: nothing exists yet.
RefuseLaunch ==
    /\ doing[Runner] = "start"
    /\ Report("error")
    /\ NothingElse /\ UNCHANGED <<supervised, dir, ticket, daemon, faults>>

CreateDirectory ==
    /\ doing[Runner] = "start"
    /\ \/ adapter = "inline" /\ Goto(Runner, "ready") /\ Sound /\ UNCHANGED <<dir, result>>
       \/ /\ adapter # "inline"
          /\ \/ Goto(Runner, "write") /\ Sound
                /\ dir' = [dir EXCEPT !.exists = TRUE] /\ UNCHANGED result
             \/ Report("error") /\ Fault /\ UNCHANGED dir
    /\ NothingElse /\ UNCHANGED <<supervised, ticket, daemon>>

\* Permissions, image and task; a failure leaves what was written so far.
WriteFiles ==
    /\ doing[Runner] = "write"
    /\ \/ Sound /\ dir' = [dir EXCEPT !.prompt = TRUE] /\ Goto(Runner, "prepare")
       \/ Fault /\ dir' \in {dir, [dir EXCEPT !.prompt = TRUE]} /\ Goto(Runner, "undo")
    /\ NothingElse /\ UNCHANGED <<supervised, result, ticket, daemon>>

\* Control overlay, credential directory and argv limits.
PrepareRest ==
    /\ doing[Runner] = "prepare"
    /\ doing' \in {[doing EXCEPT ![Runner] = s] : s \in {"ready", "undo"}}
    /\ NothingElse /\ UNCHANGED <<supervised, result, dir, ticket, daemon, faults>>

\* Every error of the preparation removes the directory, and a removal that
\* fails replaces the error.
Undo ==
    /\ doing[Runner] = "undo"
    /\ \/ Sound /\ dir' = NoDirectory /\ Report("error")
       \/ Fault /\ dir' = dir /\ Report("files")
    /\ NothingElse /\ UNCHANGED <<supervised, ticket, daemon>>

\* Workspace profile, permission mode and native log are looked at after the
\* preparation; the launch is dropped, and Drop removes the directory or
\* ignores that it could not.
Misconfigured ==
    /\ doing[Runner] = "ready"
    /\ \/ Sound /\ dir' = NoDirectory
       \/ Fault /\ UNCHANGED dir
    /\ Report("error")
    /\ NothingElse /\ UNCHANGED <<supervised, ticket, daemon>>

-----------------------------------------------------------------------------
(* The harness and the service it starts                                    *)

Launch ==
    /\ doing[Runner] = "ready"
    /\ Goto(Runner, "running")
    /\ daemon' \in IF adapter = "prime" THEN {"none", "starting"} ELSE {"none"}
    /\ NothingElse /\ UNCHANGED <<supervised, result, dir, ticket, faults>>

\* The harness is settled; a run that completed has talked to its service.
HarnessEnds ==
    /\ doing[Runner] = "running"
    /\ \/ supervised' = "failed"
       \/ supervised' = "ok" /\ daemon # "starting"
    /\ Goto(Runner, IF adapter = "prime" THEN "inspect" ELSE "finalize")
    /\ NothingElse /\ UNCHANGED <<result, dir, ticket, daemon, faults>>

DaemonBinds ==
    /\ daemon = "starting"
    /\ \/ dir.exists /\ daemon' = "up" /\ dir' = [dir EXCEPT !.sock = TRUE]
       \/ daemon' = "gone" /\ UNCHANGED dir
    /\ NothingElse /\ UNCHANGED <<doing, supervised, result, ticket, faults>>

\* A file of the service in the private directory, its cache for instance.
DaemonWrites ==
    /\ daemon = "up" /\ dir.exists /\ ~dir.extra
    /\ dir' = [dir EXCEPT !.extra = TRUE]
    /\ NothingElse /\ UNCHANGED <<doing, supervised, result, ticket, daemon, faults>>

DaemonExits ==
    /\ daemon = "stopping"
    /\ daemon' = "gone" /\ dir' = [dir EXCEPT !.sock = FALSE]
    /\ NothingElse /\ UNCHANGED <<doing, supervised, result, ticket, faults>>

\* A service that dies leaves its socket, which refuses every connection.
DaemonCrashes ==
    /\ daemon \in {"up", "stopping"}
    /\ Fault /\ daemon' = "dead"
    /\ NothingElse /\ UNCHANGED <<doing, supervised, result, dir, ticket>>

-----------------------------------------------------------------------------
(* settle_prime_owned_service, called by the run and by every cleanup       *)

SettledAt(p) == Goto(p, IF p = Runner THEN "finalize" ELSE "recheck")

\* The run prepares a later recovery; a cleanup reports its handle again.
NotSettled(p) == Goto(p, IF p = Runner THEN "scrub" ELSE "retry")

Inspect(p) ==
    /\ doing[p] = "inspect"
    /\ \/ ~dir.exists /\ NotSettled(p) /\ Sound
       \/ dir.exists /\ ~dir.sock /\ SettledAt(p) /\ Sound
       \/ dir.exists /\ dir.sock /\ Goto(p, "connect") /\ Sound
       \/ NotSettled(p) /\ Fault
    /\ NothingElse /\ UNCHANGED <<supervised, result, dir, ticket, daemon>>

\* Connect, hello, shutdown command and its response.  A socket without a
\* listener refuses, which is not the disappearance of the socket.
Exchange(p) ==
    /\ doing[p] = "connect"
    /\ \/ ~dir.sock /\ SettledAt(p) /\ Sound /\ UNCHANGED daemon
       \/ dir.sock /\ daemon = "dead" /\ NotSettled(p) /\ Sound /\ UNCHANGED daemon
       \/ dir.sock /\ daemon \in {"up", "stopping"} /\ daemon' = "stopping"
          /\ Goto(p, "probe") /\ Sound
       \/ dir.sock /\ daemon = "stopping" /\ NotSettled(p) /\ Sound /\ UNCHANGED daemon
       \/ dir.sock /\ daemon = "up" /\ daemon' \in {"up", "stopping"}
          /\ NotSettled(p) /\ Fault
    /\ NothingElse /\ UNCHANGED <<supervised, result, dir, ticket>>

\* Connections until the socket is gone or the deadline has passed.
Probe(p) ==
    /\ doing[p] = "probe"
    /\ \/ ~dir.sock /\ SettledAt(p) /\ Sound
       \/ dir.sock /\ NotSettled(p) /\ (IF daemon = "dead" THEN Sound ELSE Fault)
    /\ NothingElse /\ UNCHANGED <<supervised, result, dir, ticket, daemon>>

-----------------------------------------------------------------------------
(* The end of the run                                                       *)

\* prepare_prime_recovery removes everything but the socket first.
Scrub ==
    /\ doing[Runner] = "scrub"
    /\ \/ Sound /\ dir' = [dir EXCEPT !.prompt = FALSE, !.extra = FALSE]
          /\ Goto(Runner, "seal")
       \/ Fault /\ dir' \in {dir, [dir EXCEPT !.prompt = FALSE]} /\ Goto(Runner, "close")
    /\ NothingElse /\ UNCHANGED <<supervised, result, ticket, daemon>>

\* Without a socket there is nothing to recover: the empty directory goes.
Seal ==
    /\ doing[Runner] = "seal"
    /\ \/ dir.sock /\ Goto(Runner, "mark") /\ UNCHANGED dir
       \/ ~dir.sock /\ Goto(Runner, "close")
          /\ dir' = IF dir.extra THEN dir ELSE NoDirectory
    /\ NothingElse /\ UNCHANGED <<supervised, result, ticket, daemon, faults>>

\* Mutant: a handle is reported whether its marker was written or not.
MarkHopeful ==
    /\ doing[Runner] = "mark"
    /\ \/ Sound /\ dir' = [dir EXCEPT !.marker = TRUE]
       \/ Fault /\ UNCHANGED dir
    /\ Report("handle")
    /\ NothingElse /\ UNCHANGED <<supervised, ticket, daemon>>

\* The marker makes the handle authentic; the directory is then preserved.
Mark ==
    /\ doing[Runner] = "mark"
    /\ \/ Sound /\ dir' = [dir EXCEPT !.marker = TRUE] /\ Report("handle")
       \/ Fault /\ UNCHANGED <<dir, result>> /\ Goto(Runner, "close")
    /\ NothingElse /\ UNCHANGED <<supervised, ticket, daemon>>

\* Mutant: the removal of the private directory is a best effort.
CloseIgnores ==
    /\ doing[Runner] = "close"
    /\ \/ Sound /\ dir' = NoDirectory
       \/ Fault /\ UNCHANGED dir
    /\ Report("service")
    /\ NothingElse /\ UNCHANGED <<supervised, ticket, daemon>>

\* No handle: the directory is removed whatever it holds.  Removing a directory
\* that Seal has removed already fails, and so counts as a failure.
Close ==
    /\ doing[Runner] = "close"
    /\ \/ dir.exists /\ Sound /\ dir' = NoDirectory /\ Report("service")
       \/ dir.exists /\ Fault /\ UNCHANGED dir /\ Report("files")
       \/ ~dir.exists /\ Sound /\ UNCHANGED dir /\ Report("files")
    /\ NothingElse /\ UNCHANGED <<supervised, ticket, daemon>>

\* The private files go before any result; then authentication, transport and
\* terminal may still fail a completed run.
Finalize ==
    /\ doing[Runner] = "finalize"
    /\ \/ Sound /\ dir' = NoDirectory
          /\ \/ supervised = "ok" /\ Report("ok")
             \/ Report("error")
       \/ dir.exists /\ Fault /\ UNCHANGED dir /\ Report("files")
    /\ NothingElse /\ UNCHANGED <<supervised, ticket, daemon>>

-----------------------------------------------------------------------------
(* cli cleanup prime <handle>                                               *)

Running(c) == doing[c] \notin AtRest

StartCleanup(c) ==
    /\ result = "handle" /\ ~Running(c)
    /\ exclusive => \A other \in Cleanups : ~Running(other)
    /\ Goto(c, "look")
    /\ NothingElse /\ UNCHANGED <<supervised, result, dir, ticket, daemon, faults>>

\* Without the directory only a ticket makes the handle authentic.
Look(c) ==
    /\ doing[c] = "look"
    /\ \/ Goto(c, IF dir.exists THEN "open" ELSE IF ticket THEN "ticketrm" ELSE "refused")
          /\ Sound
       \/ Goto(c, "refused") /\ Fault
    /\ NothingElse /\ UNCHANGED <<supervised, result, dir, ticket, daemon>>

OpenDirectory(c) ==
    /\ doing[c] = "open"
    /\ \/ Goto(c, IF ~dir.exists THEN "retry" ELSE IF dir.marker THEN "read" ELSE "orphan")
          /\ Sound
       \/ Goto(c, "refused") /\ Fault
    /\ NothingElse /\ UNCHANGED <<supervised, result, dir, ticket, daemon>>

\* The marker is read, and nothing but it and the socket may be there.
Read(c) ==
    /\ doing[c] = "read"
    /\ \/ Goto(c, IF dir.marker /\ ~dir.extra THEN "inspect" ELSE "refused") /\ Sound
       \/ Goto(c, "refused") /\ Fault
    /\ NothingElse /\ UNCHANGED <<supervised, result, dir, ticket, daemon>>

\* After the settlement the marker is read and compared again, and a socket
\* that is still there is removed.  Only a failed removal names the handle.
Recheck(c) ==
    /\ doing[c] = "recheck"
    /\ \/ dir.marker /\ ~dir.extra /\ Sound
          /\ dir' = [dir EXCEPT !.sock = FALSE] /\ Goto(c, "ticket")
       \/ ~(dir.marker /\ ~dir.extra) /\ Sound /\ UNCHANGED dir /\ Goto(c, "refused")
       \/ Fault /\ UNCHANGED dir /\ (Goto(c, "retry") \/ Goto(c, "refused"))
    /\ NothingElse /\ UNCHANGED <<supervised, result, ticket, daemon>>

TicketExists(c) ==
    /\ doing[c] = "ticket"
    /\ Goto(c, IF ticket THEN "compare" ELSE "link")
    /\ NothingElse /\ UNCHANGED <<supervised, result, dir, ticket, daemon, faults>>

\* The ticket is a hard link to the marker.
LinkTicket(c) ==
    /\ doing[c] = "link"
    /\ \/ dir.marker /\ ~ticket /\ Sound /\ ticket' = TRUE /\ Goto(c, "verify")
       \/ ~(dir.marker /\ ~ticket) /\ Sound /\ UNCHANGED ticket /\ Goto(c, "retry")
       \/ Fault /\ UNCHANGED ticket /\ Goto(c, "retry")
    /\ NothingElse /\ UNCHANGED <<supervised, result, dir, daemon>>

\* A ticket found must be equal to the marker; one just linked that cannot be
\* read is removed again.
CompareTicket(c) ==
    /\ doing[c] \in {"compare", "verify"}
    /\ \/ Sound /\ UNCHANGED ticket /\ Goto(c, IF ticket THEN "unmark" ELSE "retry")
       \/ Fault /\ ticket' = (ticket /\ doing[c] = "compare") /\ Goto(c, "retry")
    /\ NothingElse /\ UNCHANGED <<supervised, result, dir, daemon>>

RemoveMarker(c) ==
    /\ doing[c] = "unmark"
    /\ \/ dir.marker /\ Sound /\ dir' = [dir EXCEPT !.marker = FALSE] /\ Goto(c, "rmdir")
       \/ ~dir.marker /\ Sound /\ UNCHANGED dir /\ Goto(c, "unticket")
       \/ Fault /\ UNCHANGED dir /\ Goto(c, "unticket")
    /\ NothingElse /\ UNCHANGED <<supervised, result, ticket, daemon>>

\* A marker that could not be removed takes the ticket with it.
RemoveTicketAfterMarker(c) ==
    /\ doing[c] = "unticket"
    /\ \/ Sound /\ ticket' = FALSE
       \/ Fault /\ UNCHANGED ticket
    /\ Goto(c, "retry")
    /\ NothingElse /\ UNCHANGED <<supervised, result, dir, daemon>>

\* A directory without a marker belongs to an interrupted cleanup if there is a
\* ticket for it.
Orphan(c) ==
    /\ doing[c] = "orphan"
    /\ \/ Goto(c, IF ticket THEN "orphanscrub" ELSE "refused") /\ Sound
       \/ Goto(c, "refused") /\ Fault
    /\ NothingElse /\ UNCHANGED <<supervised, result, dir, ticket, daemon>>

ScrubOrphan(c) ==
    /\ doing[c] = "orphanscrub"
    /\ \/ dir.exists /\ Sound /\ Goto(c, "rmdir")
          /\ dir' = [NoDirectory EXCEPT !.exists = TRUE]
       \/ ~dir.exists /\ Sound /\ UNCHANGED dir /\ Goto(c, "retry")
       \/ Fault /\ UNCHANGED dir /\ Goto(c, "retry")
    /\ NothingElse /\ UNCHANGED <<supervised, result, ticket, daemon>>

RemoveDirectory(c) ==
    LET empty == dir = [NoDirectory EXCEPT !.exists = TRUE] IN
    /\ doing[c] = "rmdir"
    /\ \/ empty /\ Sound /\ dir' = NoDirectory /\ Goto(c, "ticketrm")
       \/ ~empty /\ Sound /\ UNCHANGED dir /\ Goto(c, "retry")
       \/ Fault /\ UNCHANGED dir /\ Goto(c, "retry")
    /\ NothingElse /\ UNCHANGED <<supervised, result, ticket, daemon>>

RemoveTicket(c) ==
    /\ doing[c] = "ticketrm"
    /\ \/ ticket /\ Sound /\ ticket' = FALSE /\ Goto(c, "cleaned")
       \/ ~ticket /\ Sound /\ UNCHANGED ticket /\ Goto(c, "retry")
       \/ Fault /\ UNCHANGED ticket /\ Goto(c, "retry")
    /\ NothingElse /\ UNCHANGED <<supervised, result, dir, daemon>>

\* A process killed between two of its calls.
KillProcess(p) ==
    /\ doing[p] \notin AtRest \cup {"start", "done"}
    /\ Fault /\ Goto(p, "killed")
    /\ NothingElse /\ UNCHANGED <<supervised, result, dir, ticket, daemon>>

-----------------------------------------------------------------------------

RunStep == \/ RefuseLaunch \/ CreateDirectory \/ WriteFiles \/ PrepareRest \/ Undo \/ Misconfigured
           \/ Launch \/ HarnessEnds \/ Scrub \/ Seal \/ Mark \/ Close \/ Finalize

SettleStep(p) == Inspect(p) \/ Exchange(p) \/ Probe(p)

CleanupStep(c) ==
    \/ SettleStep(c) \/ Look(c) \/ OpenDirectory(c) \/ Read(c) \/ Recheck(c) \/ TicketExists(c)
    \/ LinkTicket(c) \/ CompareTicket(c) \/ RemoveMarker(c) \/ RemoveTicketAfterMarker(c)
    \/ Orphan(c) \/ ScrubOrphan(c) \/ RemoveDirectory(c) \/ RemoveTicket(c)

DaemonStep == DaemonBinds \/ DaemonWrites \/ DaemonExits \/ DaemonCrashes

InstalledNext ==
    \/ RunStep \/ SettleStep(Runner) \/ DaemonStep
    \/ \E c \in Cleanups : StartCleanup(c) \/ CleanupStep(c)
    \/ \E p \in Processes : KillProcess(p)

InstalledSpec == InstalledInit /\ [][InstalledNext]_installedVars

\* A cleanup command that was started goes on, a service that was told to stop
\* stops, and the user follows SUPPORT.md: retry the same command.
InstalledFairness ==
    /\ \A c \in Cleanups : WF_installedVars(CleanupStep(c))
    /\ WF_installedVars(DaemonExits)
    /\ WF_installedVars(\E c \in Cleanups : StartCleanup(c))

InstalledFair == InstalledSpec /\ InstalledFairness

-----------------------------------------------------------------------------
(* Properties                                                               *)

\* A run that reports success has left neither its private directory nor its
\* service: runner.rs:2358-2462 settle both before the success result.
OkLeavesNothing ==
    result = "ok" => ~dir.exists /\ daemon \notin {"starting", "up", "dead"}

\* Nothing is left without a word: the same, and a run whose private directory is
\* still there once the harness was started reports a handle or
\* PROCESS_CLEANUP_FAILED, never success or another error (runner.rs:2358-2462).
LeftoversAreReported ==
    /\ OkLeavesNothing
    /\ result \in {"ok", "error", "service"} /\ supervised # "none" => ~dir.exists

\* A reported handle says sensitiveFilesRemoved: image, task and credentials are
\* gone before it is made, and no cleanup brings them back.
SecretsGone == result = "handle" => ~dir.prompt

\* A handle says the truth for as long as it is there: the secrets are gone, and
\* while the service is alive its socket is there to reach it by: no step of a
\* cleanup cuts it off.
HandleSaysTrue ==
    /\ SecretsGone
    /\ result = "handle" /\ daemon = "up" => dir.exists /\ dir.sock

\* What a run leaves behind it names, and what it says of it is true and stays so.
WhatIsLeftIsTold == LeftoversAreReported /\ HandleSaysTrue

\* A cleanup that reports "cleaned" has settled the service and removed the
\* directory, whatever other cleanups of the same handle did meanwhile.
CleanedIsClean ==
    \A c \in Cleanups : doing[c] = "cleaned" => ~dir.exists /\ daemon # "up"

\* As long as the directory of a reported handle is there, marker or ticket
\* makes the handle authentic, wherever a cleanup was interrupted or failed.
HandleStaysValid == result = "handle" /\ dir.exists => dir.marker \/ ticket

\* The same for a user who runs one cleanup at a time.
HandleStaysValidAlone == exclusive => HandleStaysValid

\* A cleanup says "cleaned" only of what is clean, and until then the handle stays
\* good for the next one.
RecoveryIsSafe == CleanedIsClean /\ HandleStaysValidAlone

\* Retried one at a time, the cleanup of a reported handle comes to its end,
\* however it was interrupted, unless the service crashed and left its socket,
\* or wrote into the directory after it had been scrubbed.
RetriesClean ==
    exclusive /\ result = "handle" ~> (~dir.exists /\ ~ticket) \/ daemon = "dead" \/ dir.extra
=============================================================================
