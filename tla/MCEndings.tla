------------------------------ MODULE MCEndings -------------------------------
(***************************************************************************)
(* The components that owe an end, side by side in one run: a supervised    *)
(* harness with the smallest protocol, one hosted submission, a device      *)
(* login, a run of an installed adapter with its recovery, a run on         *)
(* Windows, a probe.  A behaviour is a behaviour of one of them, and the    *)
(* others rest.                                                            *)
(***************************************************************************)
EXTENDS Supervisor, HostedRuns, MCRests

CONSTANT Enders    \* the components the run looks at

VARIABLE ender     \* the component of the behaviour

StartOnly == {"start"}
NoKinds   == {}

SupervisorRests ==
    /\ child = "unborn" /\ exit = "none" /\ desc = "none" /\ killed = FALSE
    /\ written = <<>> /\ nread = 0 /\ errs = 0 /\ nerr = 0
    /\ rd = [t \in Readers |-> "done"]
    /\ stop = [t \in Threads |-> FALSE]
    /\ chan = <<>> /\ dropped = FALSE
    /\ wr = "ok" /\ wq = 0 /\ wclose = FALSE /\ sent = 0 /\ delivered = 0
    /\ pc = "done" /\ status = "none"
    /\ started = FALSE /\ terminal = FALSE /\ admitted = <<>>
    /\ outEof = FALSE /\ errEof = FALSE
    /\ failure = "none" /\ after = "verdict" /\ cleanup = "none"
    /\ settled = [t \in Threads |-> "unset"]
    /\ outcome = "none"
    /\ cancelled = FALSE /\ startupDue = FALSE /\ runDue = FALSE

\* Before their first step, and with none to come, commands are idle.
RunsRest == RunsInit

\* A probe that found no program.
ProbeRests ==
    /\ probing = CHOOSE k \in ProbeKinds : TRUE
    /\ probeAt = "done" /\ reason = "none" /\ swept = FALSE
    /\ tool = "unborn" /\ toolExit = "none" /\ strays = {} /\ slain = FALSE
    /\ fill = [s \in Outputs |-> 0] /\ poured = fill
    /\ reader = [s \in Outputs |-> "none"] /\ taken = fill
    /\ halt = [s \in Outputs |-> FALSE] /\ back = [s \in Outputs |-> "no"]
    /\ overdue = FALSE
    /\ probeResult = "HarnessUnavailable"

EndingsInit ==
    /\ ender \in Enders
    /\ IF ender = "supervisor" THEN Init ELSE SupervisorRests
    /\ IF ender = "runs" THEN RunsInit ELSE RunsRest
    /\ IF ender = "login" THEN LoginInit ELSE LoginRests
    /\ IF ender = "installed" THEN InstalledInit ELSE InstalledRests
    /\ IF ender = "windows" THEN WindowsInit ELSE WindowsRests
    /\ IF ender = "probe" THEN ProbeInit ELSE ProbeRests

\* The others rest.
Rest(moving) ==
    /\ IF moving = "supervisor" THEN TRUE ELSE UNCHANGED vars
    /\ IF moving = "runs" THEN TRUE ELSE UNCHANGED runsVars
    /\ IF moving = "login" THEN TRUE ELSE UNCHANGED loginVars
    /\ IF moving = "installed" THEN TRUE ELSE UNCHANGED installedVars
    /\ IF moving = "windows" THEN TRUE ELSE UNCHANGED windowsVars
    /\ IF moving = "probe" THEN TRUE ELSE UNCHANGED probeVars

EndingsNext ==
    /\ UNCHANGED ender
    /\ \/ ender = "supervisor" /\ Next /\ Rest("supervisor")
       \/ ender = "runs" /\ RunsNext /\ Rest("runs")
       \/ ender = "login" /\ LoginNext /\ Rest("login")
       \/ ender = "installed" /\ InstalledNext /\ Rest("installed")
       \/ ender = "windows" /\ WindowsNext /\ Rest("windows")
       \/ ender = "probe" /\ ProbeNext /\ Rest("probe")

EndingsSpec ==
    /\ EndingsInit
    /\ [][EndingsNext]_<<ender, vars, runsVars, loginVars, installedVars, windowsVars, probeVars>>
    /\ Fairness /\ RunsFairness /\ LoginFairness /\ InstalledFairness /\ WindowsFairness
    /\ ProbeFairness

\* What owes an end comes to it, whatever its counterpart does or fails to do: a
\* supervision with its threads and its group (NothingGoesOn), a hosted command
\* (CommandsEnd), a login even if the store never answers (LoginEnds), retried
\* cleanups of a handle (RetriesClean), a run on Windows with its process tree
\* (WindowsSettles), a probe with its reader threads (ProbeEnds).
EverythingEnds ==
    NothingGoesOn /\ CommandsEnd /\ LoginEnds /\ RetriesClean /\ WindowsSettles /\ ProbeEnds
=============================================================================
