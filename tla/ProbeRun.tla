------------------------------- MODULE ProbeRun -------------------------------
(***************************************************************************)
(* A bounded probe on Unix: a program is started in a process group of its  *)
(* own to say its version (one output) or to answer a question (both), its  *)
(* output is read by helper threads up to a limit, and before anything is   *)
(* believed the group has to be empty and the threads have to be back.      *)
(*                                                                          *)
(* Source: prose-process-supervisor/src/supervisor.rs run_version_probe,    *)
(* probe_command, spawn_configured_probe_reader, ProbeReader::settle,       *)
(* cleanup_probe_after_failure; platform.rs.                                *)
(***************************************************************************)
EXTENDS Naturals, FiniteSets

CONSTANTS
    ProbeKinds,   \* "version" and "command"
    ProbeLimit,   \* max_output_bytes
    MaxStrays     \* descendants at a time

ASSUME ProbeAssumption ==
    ProbeKinds \subseteq {"version", "command"} /\ ProbeLimit \in Nat \ {0}

VARIABLES
    probing,   \* the kind of the probe
    probeAt,   \* the step of the probing thread
    reason,    \* the failure under cleanup, or "none"
    swept,     \* the termination of the group was verified
    tool,      \* the program: "unborn", "alive", "dead" (not collected), "gone"
    toolExit,  \* its exit status
    strays,    \* its descendants
    slain,     \* the group was sent SIGKILL
    fill,      \* bytes in each pipe
    poured,    \* bytes written to it, as far as they are told apart
    reader,    \* each reader thread, or how it ended
    taken,     \* bytes it kept
    halt,      \* it was asked to stop
    back,      \* the thread was taken back: "no", "natural", "forced", "lost"
    overdue,   \* the deadline has passed
    probeResult

processVars == <<tool, toolExit, strays, slain>>
threadVars == <<fill, poured, reader, taken>>
probeVars ==
    <<probing, probeAt, reason, swept, processVars, threadVars, halt, back, overdue,
      probeResult>>

Outputs == {"out", "err"}
Probed(kind) == IF kind = "version" THEN {"out"} ELSE Outputs

\* A descendant may stay in the group or leave it (setsid), with or without the
\* pipes.
StrayKinds == {"quiet", "holder", "runaway"}
Grouped == strays \cap {"quiet", "holder"}
OutputsHeld == (tool = "alive") \/ strays \cap {"holder", "runaway"} # {}
ToolGroupEmpty == tool \in {"unborn", "gone"} /\ Grouped = {}

ReaderEnds == {"eof", "full", "stopped", "error"}
ReadersRun == {s \in Outputs : reader[s] # "none"}
ReaderEnded(s) == reader[s] \in ReaderEnds

ProbeFaults ==
    {"HarnessUnavailable", "ContainmentUnsupported", "Internal", "Cancelled",
     "HarnessIncompatible", "StartupTimeout"}

ProbeTypeOK ==
    /\ probing \in ProbeKinds
    /\ probeAt \in {"spawn", "wait", "late", "group", "term", "kill", "readers", "settle",
                    "abandon", "judge", "done"}
    /\ reason \in ProbeFaults \cup {"none", "CleanupFailed"}
    /\ swept \in BOOLEAN
    /\ tool \in {"unborn", "alive", "dead", "gone"}
    /\ toolExit \in {"none", "ok", "bad", "signal"}
    /\ strays \subseteq StrayKinds
    /\ slain \in BOOLEAN
    /\ fill \in [Outputs -> 0..1]
    /\ poured \in [Outputs -> 0..ProbeLimit + 1]
    /\ reader \in [Outputs -> {"none", "reading"} \cup ReaderEnds]
    /\ taken \in [Outputs -> 0..ProbeLimit + 1]
    /\ halt \in [Outputs -> BOOLEAN]
    /\ back \in [Outputs -> {"no", "natural", "forced", "lost"}]
    /\ overdue \in BOOLEAN
    /\ probeResult \in ProbeFaults \cup {"none", "Ok", "CleanupFailed"}

ProbeInit ==
    /\ probing \in ProbeKinds
    /\ probeAt = "spawn" /\ reason = "none" /\ swept = FALSE
    /\ tool = "unborn" /\ toolExit = "none" /\ strays = {} /\ slain = FALSE
    /\ fill = [s \in Outputs |-> 0] /\ poured = fill
    /\ reader = [s \in Outputs |-> "none"] /\ taken = fill
    /\ halt = [s \in Outputs |-> FALSE] /\ back = [s \in Outputs |-> "no"]
    /\ overdue = FALSE
    /\ probeResult = "none"

Proceeds(step) ==
    probeAt' = step /\ UNCHANGED <<probing, overdue, probeResult>>
ProbeReturns(r) ==
    /\ probeAt' = "done" /\ probeResult' = r
    /\ UNCHANGED <<probing, overdue>>
PipesStay == UNCHANGED <<fill, poured, taken>>

-----------------------------------------------------------------------------
(* The probing thread.                                                      *)

ReadersOf(ss) == [s \in Outputs |-> IF s \in ss THEN "reading" ELSE "none"]

\* The program is started with its readers; a pipe that is missing or cannot be
\* made interruptible ends the probe, the readers that run included.
SpawnProbe ==
    /\ probeAt = "spawn" /\ PipesStay /\ UNCHANGED <<swept, toolExit, strays, slain, halt, back>>
    /\ \/ /\ \E r \in {"HarnessUnavailable", "ContainmentUnsupported"} : ProbeReturns(r)
          /\ UNCHANGED <<tool, reader, reason>>
       \/ /\ tool' = "alive"
          /\ \/ Proceeds("wait") /\ reader' = ReadersOf(Probed(probing)) /\ UNCHANGED reason
             \/ Proceeds("term") /\ reader' = ReadersOf({}) /\ reason' = "Internal"
             \/ /\ Proceeds("term") /\ reason' = "ContainmentUnsupported"
                /\ \E ss \in {{}, Probed(probing) \ {"err"}} :
                      ss # Probed(probing) /\ reader' = ReadersOf(ss)

\* What ends a probe from outside its answer: the group is terminated.
Aborts(cause) ==
    /\ Proceeds("term") /\ reason' = cause
    /\ UNCHANGED <<swept, processVars, threadVars, halt, back>>
LooksOn(step) == Proceeds(step) /\ UNCHANGED <<reason, swept, threadVars, halt, back>>

\* A cancellation comes when it will.
SeeCancelled == probeAt = "wait" /\ Aborts("Cancelled")

\* try_wait, which may fail.
LookExited ==
    /\ probeAt = "wait"
    /\ \/ /\ tool = "dead" /\ tool' = "gone" /\ LooksOn("group")
          /\ UNCHANGED <<toolExit, strays, slain>>
       \/ tool # "dead" /\ LooksOn("late") /\ UNCHANGED processVars
       \/ Aborts(IF probing = "version" THEN "HarnessIncompatible" ELSE "Internal")

LookLate ==
    /\ probeAt = "late"
    /\ IF overdue THEN Aborts("StartupTimeout") ELSE LooksOn("wait") /\ UNCHANGED processVars

\* Mutation of LookGroup: an exit is all that counts.
LookGroupNot == probeAt = "group" /\ LooksOn("settle") /\ UNCHANGED processVars

\* A program that exited and left members in its group failed.
LookGroup ==
    /\ probeAt = "group"
    /\ IF Grouped # {} THEN Aborts("CleanupFailed") ELSE LooksOn("settle") /\ UNCHANGED processVars

\* SIGTERM, a grace that ends early when the program is collected, SIGKILL.
KillGroup ==
    /\ probeAt = "term" /\ LooksOn("kill")
    /\ slain' = TRUE /\ tool' \in {tool, IF tool = "dead" THEN "gone" ELSE tool}
    /\ UNCHANGED <<toolExit, strays>>

\* Then the program has to be collected and the group empty; at the hard deadline
\* the program is waited for, and the group looked at once more.
Sweep(verified) ==
    /\ Proceeds("readers") /\ swept' = verified
    /\ UNCHANGED <<reason, toolExit, strays, slain, threadVars, halt, back>>
HardStop ==
    /\ probeAt = "kill" /\ tool \in {"dead", "gone"}
    /\ tool' = "gone" /\ Sweep(Grouped = {})
\* A wait that fails ends the termination where it is.
StopFails == probeAt \in {"term", "kill"} /\ Sweep(FALSE) /\ UNCHANGED tool

-----------------------------------------------------------------------------
(* The threads are taken back one after the other.                          *)

NextBack(s) ==
    /\ s \in ReadersRun /\ back[s] = "no"
    /\ s = "err" => "out" \notin ReadersRun \/ back["out"] # "no"

AsksToStop(s) ==
    /\ halt' = [halt EXCEPT ![s] = TRUE]
    /\ UNCHANGED <<probing, probeAt, reason, swept, processVars, threadVars, back, overdue,
                   probeResult>>
TakesBack(s, how, step) ==
    /\ back' = [back EXCEPT ![s] = how] /\ Proceeds(step)
    /\ UNCHANGED <<reason, swept, processVars, threadVars, halt>>

\* After a natural wait, or at once in a cleanup.
PressThread(s) ==
    probeAt \in {"settle", "readers", "abandon"} /\ NextBack(s) /\ ~halt[s] /\ AsksToStop(s)

TakeThread(s) ==
    /\ NextBack(s) /\ ReaderEnded(s)
    /\ \/ probeAt = "settle"
       \/ probeAt \in {"readers", "abandon"} /\ halt[s]
    /\ TakesBack(s, IF halt[s] THEN "forced" ELSE "natural", probeAt)

\* It did not stop in time: a probe whose program has exited asks the other one
\* to stop and fails.
LoseThread(s) ==
    /\ NextBack(s) /\ ~ReaderEnded(s) /\ halt[s] /\ probeAt \in {"settle", "readers", "abandon"}
    /\ TakesBack(s, "lost", IF probeAt = "settle" THEN "abandon" ELSE probeAt)

AllBack == \A s \in ReadersRun : back[s] # "no"
KeepRest == UNCHANGED <<reason, swept, processVars, threadVars, halt, back>>

CleanedUp ==
    /\ probeAt = "readers" /\ AllBack /\ KeepRest
    /\ IF swept /\ \A s \in ReadersRun : back[s] # "lost"
       THEN ProbeReturns(reason) ELSE ProbeReturns("CleanupFailed")
GivenUp == probeAt = "abandon" /\ AllBack /\ KeepRest /\ ProbeReturns("CleanupFailed")

\* Mutation of OutputsEnded: what a stopped reader kept is an answer.
OutputsForced ==
    /\ probeAt = "settle" /\ AllBack /\ Proceeds("judge")
    /\ KeepRest

\* Both outputs came to their ends by themselves.
OutputsEnded ==
    /\ probeAt = "settle" /\ AllBack /\ KeepRest
    /\ IF \E s \in ReadersRun : back[s] = "forced"
       THEN ProbeReturns("CleanupFailed") ELSE Proceeds("judge")

AnswerFits ==
    IF probing = "version"
    THEN toolExit = "ok" /\ taken["out"] \in 1..ProbeLimit
    ELSE toolExit # "signal" /\ \A s \in Outputs : taken[s] <= ProbeLimit

\* The text itself may still be refused.
JudgeAnswer ==
    /\ probeAt = "judge" /\ KeepRest
    /\ IF \E s \in ReadersRun : reader[s] = "error"
       THEN ProbeReturns(IF probing = "version" THEN "HarnessIncompatible" ELSE "Internal")
       ELSE \/ ProbeReturns("HarnessIncompatible")
            \/ AnswerFits /\ ProbeReturns("Ok")

-----------------------------------------------------------------------------
(* The reader threads.                                                      *)

\* One byte beyond the limit ends the reader; a stop is looked at only while
\* there is nothing to read.
ReadByte(s) ==
    /\ reader[s] = "reading" /\ fill[s] > 0
    /\ fill' = [fill EXCEPT ![s] = 0] /\ taken' = [taken EXCEPT ![s] = @ + 1]
    /\ reader' = [reader EXCEPT ![s] = IF taken[s] = ProbeLimit THEN "full" ELSE @]
    /\ UNCHANGED poured
EndOutput(s) ==
    /\ reader[s] = "reading" /\ fill[s] = 0
    /\ \/ ~OutputsHeld /\ reader' = [reader EXCEPT ![s] = "eof"]
       \/ OutputsHeld /\ halt[s] /\ reader' = [reader EXCEPT ![s] = "stopped"]
    /\ UNCHANGED <<fill, poured, taken>>
BreakOutput(s) ==
    /\ reader[s] = "reading" /\ reader' = [reader EXCEPT ![s] = "error"]
    /\ fill' = [fill EXCEPT ![s] = 0] /\ UNCHANGED <<poured, taken>>

ThreadOnly ==
    UNCHANGED <<probing, probeAt, reason, swept, processVars, halt, back, overdue, probeResult>>
ReaderStep(s) == ThreadOnly /\ (ReadByte(s) \/ EndOutput(s))
ReaderBreaks(s) == ThreadOnly /\ BreakOutput(s)

-----------------------------------------------------------------------------
(* The program and its descendants owe nothing.                             *)

Pour(s) ==
    /\ OutputsHeld /\ reader[s] = "reading" /\ fill[s] = 0
    /\ fill' = [fill EXCEPT ![s] = 1]
    /\ poured' = [poured EXCEPT ![s] = IF @ < ProbeLimit + 1 THEN @ + 1 ELSE @]
    /\ UNCHANGED <<reader, taken>> /\ ThreadOnly

ToolOnly ==
    UNCHANGED <<probing, probeAt, reason, swept, slain, threadVars, halt, back, overdue,
                probeResult>>
ToolForks ==
    /\ tool = "alive" /\ ~slain /\ Cardinality(strays) < MaxStrays /\ ToolOnly
    /\ \E k \in StrayKinds : strays' = strays \cup {k}
    /\ UNCHANGED <<tool, toolExit>>
ToolExits ==
    /\ tool = "alive" /\ tool' = "dead" /\ ToolOnly /\ UNCHANGED strays
    /\ toolExit' \in IF slain THEN {"signal"} ELSE {"ok", "bad", "signal"}
StrayDies(k) == k \in strays /\ strays' = strays \ {k} /\ ToolOnly /\ UNCHANGED <<tool, toolExit>>

TimeIsUp ==
    /\ probeAt \in {"wait", "late"} /\ ~overdue /\ overdue' = TRUE
    /\ UNCHANGED <<probing, probeAt, reason, swept, processVars, threadVars, halt, back,
                   probeResult>>

ProberStep ==
    \/ SpawnProbe \/ SeeCancelled \/ LookExited \/ LookLate \/ LookGroup
    \/ KillGroup \/ HardStop \/ StopFails
    \/ \E s \in Outputs : PressThread(s) \/ TakeThread(s) \/ LoseThread(s)
    \/ CleanedUp \/ GivenUp \/ OutputsEnded \/ JudgeAnswer

ProbeNext ==
    \/ ProberStep
    \/ \E s \in Outputs : ReaderStep(s) \/ ReaderBreaks(s) \/ Pour(s)
    \/ ToolForks \/ ToolExits \/ \E k \in StrayKinds : StrayDies(k)
    \/ TimeIsUp

Killed == slain /\ (ToolExits \/ \E k \in Grouped : StrayDies(k))

\* The threads run, the clock goes on, and who was sent SIGKILL dies.
ProbeFairness ==
    /\ WF_probeVars(ProberStep)
    /\ WF_probeVars((\E s \in Outputs : ReaderStep(s)) \/ TimeIsUp \/ Killed)

ProbeSpec == ProbeInit /\ [][ProbeNext]_probeVars
ProbeFair == ProbeSpec /\ ProbeFairness

-----------------------------------------------------------------------------
\* An answer is believed only if it is everything the program wrote to an output
\* that came to its end, within the limit, and no process of the group is left;
\* what is not a failed cleanup has its threads back as well, whatever exit,
\* output, deadline and cancellation come between.
AnswerIsWhole ==
    probeAt = "done" /\ probeResult # "CleanupFailed" =>
        /\ ToolGroupEmpty
        /\ \A s \in ReadersRun : ReaderEnded(s)
        /\ probeResult = "Ok" =>
              /\ ReadersRun = Probed(probing)
              /\ \A s \in ReadersRun :
                    reader[s] = "eof" /\ taken[s] = poured[s] /\ poured[s] <= ProbeLimit

\* A probe keeps the promise of a supervised run: one cause, reported only over
\* an empty group, and CleanupFailed otherwise.
Promise ==
    INSTANCE SettledRun WITH
        Causes   <- ProbeFaults,
        Verdicts <- {"Ok", "HarnessIncompatible", "Internal"},
        phase    <- CASE probeAt = "spawn" -> "idle" [] probeAt = "done" -> "ended"
                      [] OTHER -> "running",
        alive    <- ~ToolGroupEmpty,
        cause    <- IF reason = "CleanupFailed" THEN "none" ELSE reason,
        result   <- probeResult
ProbeSettled == Promise!Spec

\* Every probe returns, and no reader thread outlives it for ever, even if a
\* process that left the group holds the pipe or writes without end.
ProbeEnds == <>[](probeAt = "done" /\ \A s \in ReadersRun : ReaderEnded(s))
=============================================================================
