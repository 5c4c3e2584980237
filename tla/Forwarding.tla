------------------------------ MODULE Forwarding ------------------------------
(***************************************************************************)
(* The runner: from a resolved command to the process of a harness and the *)
(* report of how it went.  A run, a dry run, `cli doctor` and `cli harness  *)
(* list` pass the same gates: version, compatibility and login of a program *)
(* found on the PATH are probed by starting it.                             *)
(*                                                                          *)
(* Source: main.rs prepare, runner.rs execute_forward,                      *)
(* execute_runner_command, inspect_installed_adapter,                       *)
(* inspect_installed_binary, execute_installed_adapter; installed_adapters. *)
(* The supervision of a process is Supervisor, its protocol LiveOutput, its *)
(* private files and owned service InstalledRun.                            *)
(***************************************************************************)
EXTENDS Naturals, Sequences, SequencesExt

CONSTANT Asks   \* commands with their settings, and the machine they meet

VARIABLES
    ask,      \* the command
    gate,     \* the step of the runner
    errand,   \* whether every harness is inspected ("inventory") or the selected one
    subject,  \* the harness under inspection
    spawned,  \* the processes started so far: program, purpose, environment, answer
    tally,    \* the availability found for each harness
    left,     \* what was alive when its supervision or settlement gave up
    watched,  \* how the supervision of the harness ended
    report    \* what the command reports

forwardVars == <<ask, gate, errand, subject, spawned, tally, left, watched, report>>

Walk == <<"prime", "omp", "codex", "claude", "agents-sdk">>   \* order of a listing
Installed == ToSet(Walk)
Harnesses == Installed \cup {"openprose", "mock", "other"}

AskRecords ==
    [command : {"run", "dry", "doctor", "list"}, harness : Harnesses, byFlag : BOOLEAN,
     transport : {"auto", "own", "foreign"}, model : {"none", "bare", "full"},
     profile : {"none", "login", "key", "foreign"},
     key : {"absent", "empty", "blank", "set"}, policy : {"exact", "probe"},
     workspace : BOOLEAN, host : {"darwin", "linux", "windows", "unknown"},
     has : SUBSET (Installed \cup {"bun", "openprose", "mock", "other"}), sentinel : BOOLEAN]

ASSUME AskAssumption == Asks \subseteq AskRecords

Forwards == ask.command \in {"run", "dry"}

\* The platforms an adapter is made for.
Supported(h) ==
    \/ ask.host = "darwin"
    \/ ask.host = "linux" /\ h \in {"codex", "agents-sdk", "omp"}
    \/ ask.host = "windows" /\ h = "codex"

\* The exit codes of the taxonomy.
ExitOf(code) ==
    CASE code = "OK" -> 0
      [] code = "CONFIG_INVALID" -> 2
      [] code \in {"HARNESS_UNAVAILABLE", "HARNESS_INCOMPATIBLE", "HARNESS_NEEDS_AUTH",
                   "HOSTED_UNAVAILABLE"} -> 10
      [] code \in {"TRANSPORT_UNSUPPORTED", "RECURSIVE_INVOCATION", "KERNEL", "IMAGE"} -> 20
      [] code = "STARTUP_TIMEOUT" -> 21
      [] code \in {"PROTOCOL_MALFORMED", "PROTOCOL_TRUNCATED", "HARNESS_FAILED"} -> 22
      [] code = "CANCELLED" -> 24
      [] code = "PROCESS_CLEANUP_FAILED" -> 25
      [] OTHER -> 70

NoReport == [code |-> "none", exit |-> 0, started |-> FALSE, class |-> "none", terminal |-> FALSE,
             exited |-> FALSE]
Refusal(code) ==
    [NoReport EXCEPT !.code = code, !.exit = ExitOf(code), !.class = "runner-error"]

\* Answers of a version probe, of a probe that runs a command, and of the
\* supervision of a run; a supervision failure has its kind for an answer.
ProbeFailures == {"HarnessUnavailable", "HarnessIncompatible", "StartupTimeout", "CleanupFailed"}
RunFailures == ProbeFailures \cup
    {"RecursiveInvocation", "RunTimeout", "HarnessFailed", "ProtocolMalformed",
     "RecordTooLarge", "ProtocolTruncated", "Cancelled", "Internal"}

CodeOf(kind) ==
    CASE kind = "HarnessUnavailable" -> "HARNESS_UNAVAILABLE"
      [] kind = "HarnessIncompatible" -> "HARNESS_INCOMPATIBLE"
      [] kind = "RecursiveInvocation" -> "RECURSIVE_INVOCATION"
      [] kind = "StartupTimeout" -> "STARTUP_TIMEOUT"
      [] kind \in {"RunTimeout", "HarnessFailed", "RecordTooLarge"} -> "HARNESS_FAILED"
      [] kind = "ProtocolMalformed" -> "PROTOCOL_MALFORMED"
      [] kind = "ProtocolTruncated" -> "PROTOCOL_TRUNCATED"
      [] kind = "Cancelled" -> "CANCELLED"
      [] kind = "CleanupFailed" -> "PROCESS_CLEANUP_FAILED"
      [] OTHER -> "INTERNAL_RUNNER_FAULT"

\* What a program is started for, and what it can answer.
Purposes == {"runtime", "version", "capability", "login", "run"}
RuntimeAnswers == {"admitted", "foreign"} \cup ProbeFailures
VersionAnswers == {"admitted", "unqualified", "foreign"} \cup ProbeFailures
CapabilityAnswers == {"complete", "lacking", "exit"} \cup ProbeFailures
LoginAnswers == {"ready", "refused"} \cup ProbeFailures

Sayings == RuntimeAnswers \cup VersionAnswers \cup CapabilityAnswers \cup LoginAnswers
           \cup RunFailures \cup {"Ok"}

\* How a supervision ends: what was seen of the process when it failed.
NotRun == [kind |-> "none", started |-> FALSE, terminal |-> FALSE, exited |-> FALSE,
           unconfirmed |-> FALSE]
RunEndings ==
    {[NotRun EXCEPT !.kind = "Ok", !.started = TRUE, !.terminal = TRUE, !.exited = TRUE]}
    \cup {e \in [kind : RunFailures, started : BOOLEAN, terminal : BOOLEAN, exited : BOOLEAN,
                 unconfirmed : BOOLEAN] :
            /\ e.terminal \/ e.exited \/ e.unconfirmed => e.started
            /\ e.kind \in {"HarnessUnavailable", "RecursiveInvocation"} => ~e.started
            /\ e.kind \in {"RunTimeout", "HarnessFailed", "ProtocolMalformed",
                           "RecordTooLarge", "ProtocolTruncated"} => e.started
            /\ e.unconfirmed => e.kind \in {"HarnessFailed", "CleanupFailed"}}

SpawnRecords ==
    [of : Harnesses \cup {"bun"}, what : Purposes, given : SUBSET {"home", "key"}, answer : Sayings]

ForwardTypeOK ==
    /\ ask \in AskRecords
    /\ gate \in {"image", "route", "look", "runtime", "version", "capability", "credentials",
                 "login", "next", "facts", "launch", "supervise", "service", "files", "conclude",
                 "done"}
    /\ subject \in Harnesses
    /\ errand \in {"inventory", "selected"}
    /\ spawned \in Seq(SpawnRecords)
    /\ tally \in [Installed -> {"unknown", "available", "missing", "incompatible", "needs-auth",
                            "blocked"}]
    /\ left \subseteq {"probe", "harness", "service"}
    /\ watched.kind \in {"none", "Ok"} \cup RunFailures
    /\ report.exit \in {0, 2, 10, 20, 21, 22, 24, 25, 70}

ForwardInit ==
    /\ ask \in Asks
    /\ gate = "image" /\ errand = "selected" /\ subject = ask.harness
    /\ spawned = <<>> /\ left = {} /\ watched = NotRun
    /\ tally = [h \in Installed |-> "unknown"]
    /\ report = NoReport

-----------------------------------------------------------------------------
(* Settings that select a route.                                            *)

Rpc(h) == h \in {"prime", "omp"}

\* The credential group, the groups of an adapter, and whether the variables
\* of a group are there: only the SDK refuses a blank key.
Group(a, h) ==
    CASE a.profile # "none" -> a.profile
      [] h = "agents-sdk" -> "key"
      [] OTHER -> "login"
GroupRefused(a, h) ==
    \/ a.profile = "foreign"
    \/ h = "agents-sdk" /\ a.profile = "login"
    \/ Rpc(h) /\ a.profile = "none"
Ready(a, h) ==
    Group(a, h) = "login" \/ a.key = "set" \/ (a.key = "blank" /\ h # "agents-sdk")
OtherTransport(a) == a.transport = "foreign" /\ a.harness # "other"

NoCredentials == {}
Granted(a, h) == {"home"} \cup (IF Group(a, h) = "key" THEN {"key"} ELSE {})

Ends(r) == gate' = "done" /\ report' = r
Quietly == UNCHANGED <<ask, errand, subject, spawned, tally, left, watched>>

\* A process is started for a purpose with an environment, and answers.
StartsProgram(of, purpose, given, answer) ==
    /\ spawned' = Append(spawned, [of |-> of, what |-> purpose, given |-> given, answer |-> answer])
    /\ IF answer = "CleanupFailed" THEN \/ left' = left \cup {"probe"}
                                        \/ UNCHANGED left
                                   ELSE UNCHANGED left

-----------------------------------------------------------------------------
(* Before any program of the machine is touched.                            *)

\* The key of the SDK is checked before the kernel is fetched.
PreflightFails ==
    /\ Forwards /\ ask.harness = "agents-sdk"
    /\ \/ OtherTransport(ask) \/ GroupRefused(ask, "agents-sdk") \/ ~Ready(ask, "agents-sdk")
PreflightCode ==
    CASE OtherTransport(ask) -> "TRANSPORT_UNSUPPORTED"
      [] GroupRefused(ask, "agents-sdk") -> "CONFIG_INVALID"
      [] OTHER -> "HARNESS_NEEDS_AUTH"

\* The published kernel, for a forward of an installed harness; else the one
\* in the binary.
TakeImage ==
    /\ gate = "image" /\ Quietly
    /\ \/ PreflightFails /\ Ends(Refusal(PreflightCode))
       \/ ~PreflightFails /\ gate' = "route" /\ UNCHANGED report
       \/ /\ ~PreflightFails /\ Forwards /\ ask.harness \in Installed
          /\ \E code \in {"KERNEL", "CANCELLED", "STARTUP_TIMEOUT"} : Ends(Refusal(code))

\* Dry runs, lists and the doctor report what they found in a survey of their
\* own, with its problem.
Survey(code) == [Refusal(code) EXCEPT !.class = "survey"]
Declined(code) == IF ask.command = "dry" THEN Survey(code) ELSE Refusal(code)

\* The mock says what a run would say, and runs nothing.
MockRun == [Refusal("OK") EXCEPT !.started = TRUE, !.class = "success", !.terminal = TRUE,
                                 !.exited = TRUE]

\* The hosted harness runs no language command, the mock needs the explicit
\* flag, a build with test seams and the sentinel image.
ChooseRoute ==
    /\ gate = "route" /\ Forwards
    /\ Quietly
    /\ IF OtherTransport(ask) THEN Ends(Refusal("TRANSPORT_UNSUPPORTED"))
       ELSE CASE ask.harness = "mock" ->
                   Ends(IF ~ask.byFlag THEN Refusal("CONFIG_INVALID")
                        ELSE IF ~ask.sentinel THEN Refusal("HARNESS_UNAVAILABLE")
                        ELSE IF ask.command = "dry" THEN Survey("OK")
                        ELSE MockRun)
              [] ask.harness = "openprose" -> Ends(Declined("HOSTED_UNAVAILABLE"))
              [] ask.harness = "other" -> Ends(Declined("HARNESS_UNAVAILABLE"))
              [] OTHER -> gate' = "look" /\ UNCHANGED report

\* doctor checks the transport first; both commands inspect every harness.
StartListing ==
    /\ gate = "route" /\ ~Forwards
    /\ UNCHANGED <<ask, spawned, tally, left, watched>>
    /\ IF ask.command = "doctor" /\ OtherTransport(ask)
       THEN Ends(Refusal("TRANSPORT_UNSUPPORTED")) /\ UNCHANGED <<errand, subject>>
       ELSE /\ gate' = "look" /\ UNCHANGED report
            /\ errand' = "inventory" /\ subject' = Head(Walk)

-----------------------------------------------------------------------------
(* Inspection of a harness: of every one for a listing, and of the selected *)
(* one for a run, a dry run and doctor.                                     *)

\* What the doctor says of the selected harness; settings that are refused say
\* nothing about it.
Availability(code, seen, before) ==
    CASE errand = "inventory" \/ code = "HARNESS_INCOMPATIBLE" -> seen
      [] errand = "selected" /\ code = "OK" -> "available"
      [] errand = "selected" /\ code = "HARNESS_NEEDS_AUTH" -> "needs-auth"
      [] errand = "selected" /\ code = "HARNESS_UNAVAILABLE" -> "missing"
      [] errand = "selected" /\ code = "CONFIG_INVALID" -> before
      [] OTHER -> "incompatible"

\* The inspection of the subject found a problem, or none: "OK".  A listing
\* goes on, unless a probe may still be alive.
Found(code, seen) ==
    /\ UNCHANGED <<ask, errand, subject, watched>>
    /\ tally' = IF Forwards THEN tally
                ELSE [tally EXCEPT ![subject] = Availability(code, seen, @)]
    /\ IF errand = "inventory" /\ code # "PROCESS_CLEANUP_FAILED" THEN
            gate' = "next" /\ UNCHANGED report
       ELSE IF ask.command = "run" THEN
            IF code = "OK" THEN gate' = "launch" /\ UNCHANGED report ELSE Ends(Refusal(code))
       ELSE Ends(IF ask.command = "dry" \/ code # "PROCESS_CLEANUP_FAILED"
                 THEN Survey(code) ELSE Refusal(code))

Onward(next) == gate' = next /\ UNCHANGED <<ask, errand, subject, tally, watched, report>>
Passed == IF errand = "inventory" THEN Found("OK", "available") ELSE Onward("credentials")
NoProcess == UNCHANGED <<spawned, left>>

\* What a selected harness is refused for before a program is started.
Problem(h) ==
    IF ~Supported(h) THEN "HARNESS_INCOMPATIBLE"
    ELSE IF GroupRefused(ask, h) \/ (Rpc(h) /\ ask.model # "full") THEN "CONFIG_INVALID"
    ELSE IF h = "agents-sdk" /\ ~Ready(ask, h) THEN "HARNESS_NEEDS_AUTH"
    ELSE IF h \notin ask.has THEN "HARNESS_UNAVAILABLE"
    ELSE "OK"

LookFirst ==
    /\ gate = "look" /\ NoProcess
    /\ IF errand = "selected" /\ Problem(subject) # "OK"
       THEN Found(Problem(subject), "incompatible") ELSE Onward("runtime")

\* A listing looks for the runtime of a harness that cannot be used as well.
Unusable == ~Supported(subject) \/ subject \notin ask.has
Unused == IF Supported(subject) /\ subject \notin ask.has THEN "missing" ELSE "incompatible"

\* Mutation of ProbeRuntime: a probe that cannot be cleaned up is a runtime
\* that does not fit.
ProbeRuntimeAnyhow ==
    /\ gate = "runtime"
    /\ IF subject # "omp" THEN
            /\ NoProcess
            /\ IF Unusable THEN Found("HARNESS_UNAVAILABLE", Unused) ELSE Onward("version")
       ELSE IF "bun" \notin ask.has THEN NoProcess /\ Found("HARNESS_INCOMPATIBLE", Unused)
       ELSE \E answer \in RuntimeAnswers :
            /\ StartsProgram("bun", "runtime", NoCredentials, answer)
            /\ IF answer = "admitted" /\ ~Unusable THEN Onward("version")
               ELSE Found("HARNESS_INCOMPATIBLE", Unused)

\* Only OMP needs a runtime of its own.
ProbeRuntime ==
    /\ gate = "runtime"
    /\ IF subject # "omp" THEN
            /\ NoProcess
            /\ IF Unusable THEN Found("HARNESS_UNAVAILABLE", Unused) ELSE Onward("version")
       ELSE IF "bun" \notin ask.has THEN NoProcess /\ Found("HARNESS_INCOMPATIBLE", Unused)
       ELSE \E answer \in RuntimeAnswers :
            /\ StartsProgram("bun", "runtime", NoCredentials, answer)
            /\ IF answer = "CleanupFailed" THEN Found("PROCESS_CLEANUP_FAILED", "incompatible")
               ELSE IF answer = "admitted" /\ ~Unusable THEN Onward("version")
               ELSE Found("HARNESS_INCOMPATIBLE", Unused)

\* Codex of any version may go on to a probe of its capabilities.
ProbeVersion ==
    /\ gate = "version"
    /\ \E answer \in VersionAnswers :
          /\ StartsProgram(subject, "version", NoCredentials, answer)
          /\ IF answer \in ProbeFailures THEN Found(CodeOf(answer), "incompatible")
             ELSE IF answer = "foreign" \/ (answer = "unqualified" /\ subject # "codex")
                  THEN Found("HARNESS_INCOMPATIBLE", "incompatible")
             ELSE IF answer = "admitted" /\ (subject # "codex" \/ ask.policy = "exact")
                  THEN Passed ELSE Onward("capability")

\* Mutation of ProbeCapabilities: the policy is not asked again.
ProbeCapabilitiesPass ==
    /\ gate = "capability"
    /\ IF ask.host = "windows" THEN NoProcess /\ Found("TRANSPORT_UNSUPPORTED", "incompatible")
       ELSE \E answer \in CapabilityAnswers :
            /\ StartsProgram(subject, "capability", NoCredentials, answer)
            /\ IF answer = "CleanupFailed" THEN Found("PROCESS_CLEANUP_FAILED", "incompatible")
               ELSE IF answer = "lacking" THEN Found("HARNESS_INCOMPATIBLE", "incompatible")
               ELSE IF answer # "complete" THEN Found("HARNESS_INCOMPATIBLE", "blocked")
               ELSE Passed

\* An unqualified version needs the options and an explicit policy.
ProbeCapabilities ==
    /\ gate = "capability"
    /\ IF ask.host = "windows" THEN NoProcess /\ Found("TRANSPORT_UNSUPPORTED", "incompatible")
       ELSE \E answer \in CapabilityAnswers :
            /\ StartsProgram(subject, "capability", NoCredentials, answer)
            /\ IF answer = "CleanupFailed" THEN Found("PROCESS_CLEANUP_FAILED", "incompatible")
               ELSE IF answer = "lacking" THEN Found("HARNESS_INCOMPATIBLE", "incompatible")
               ELSE IF answer # "complete" \/ ask.policy = "exact"
                    THEN Found("HARNESS_INCOMPATIBLE", "blocked")
               ELSE Passed

\* A login of Codex or Claude can be asked for, with the granted environment.
CheckCredentials ==
    /\ gate = "credentials" /\ NoProcess
    /\ IF ~Ready(ask, subject) THEN Found("HARNESS_NEEDS_AUTH", "needs-auth")
       ELSE IF subject \in {"codex", "claude"} /\ Group(ask, subject) = "login" THEN Onward("login")
       ELSE Found("OK", "available")

ProbeLogin ==
    /\ gate = "login"
    /\ \E answer \in LoginAnswers :
          /\ StartsProgram(subject, "login", Granted(ask, subject), answer)
          /\ Found(CASE answer = "ready" -> "OK"
                     [] answer = "refused" -> "HARNESS_NEEDS_AUTH"
                     [] OTHER -> CodeOf(answer), "incompatible")

\* After the last harness a list is complete, and the doctor turns to the
\* selected one.
NextHarness ==
    /\ gate = "next"
    /\ UNCHANGED <<ask, spawned, tally, left, watched>>
    /\ IF subject # Last(Walk) THEN
            /\ \E i \in 1..Len(Walk) - 1 : Walk[i] = subject /\ subject' = Walk[i + 1]
            /\ gate' = "look" /\ UNCHANGED <<errand, report>>
       ELSE IF ask.command = "list" THEN Ends(Survey("OK")) /\ UNCHANGED <<errand, subject>>
       ELSE gate' = "facts" /\ errand' = "selected" /\ subject' = ask.harness /\ UNCHANGED report

DoctorFacts ==
    /\ gate = "facts" /\ Quietly
    /\ CASE ask.harness = "openprose" -> Ends(Survey("HOSTED_UNAVAILABLE"))
         [] ask.harness = "mock" -> 
                Ends(Survey(IF ask.sentinel THEN "OK" ELSE "HARNESS_UNAVAILABLE"))
         [] ask.harness = "other" -> Ends(Survey("HARNESS_UNAVAILABLE"))
         [] OTHER -> gate' = "look" /\ UNCHANGED report

-----------------------------------------------------------------------------
(* The run of an installed harness.                                         *)

\* Image, arguments, workspace profile, permission mode, native log and private
\* files are refused before the process starts.
LaunchRefusals == {"CONFIG_INVALID", "IMAGE", "INTERNAL_RUNNER_FAULT"}
PrepareLaunch ==
    /\ gate = "launch" /\ Quietly
    /\ \/ gate' = "supervise" /\ UNCHANGED report
       \/ \E code \in LaunchRefusals : Ends(Refusal(code))

\* A run of Claude with a key and the workspace profile has to confirm its
\* credential route.
Confirms == ask.harness = "claude" /\ ask.workspace /\ Group(ask, "claude") = "key"

Supervise ==
    /\ gate = "supervise"
    /\ \E e \in RunEndings :
          /\ e.unconfirmed => Confirms
          /\ watched' = e
          /\ spawned' = IF ~e.started THEN spawned
                        ELSE Append(spawned, [of |-> subject, what |-> "run",
                                              given |-> Granted(ask, subject), answer |-> e.kind])
          /\ left' \in IF e.kind = "CleanupFailed" THEN {left, left \cup {"harness"}} ELSE {left}
    /\ gate' = IF subject = "prime" THEN "service" ELSE "files"
    /\ UNCHANGED <<ask, errand, subject, tally, report>>

\* The report of a run whose supervision has ended.
ClassOf(code) ==
    CASE code = "OK" -> "success"
      [] code = "CANCELLED" -> "cancelled"
      [] code = "HARNESS_FAILED" /\ watched.exited -> "exit-code"
      [] OTHER -> "runner-error"
Told(code) ==
    [code |-> code, exit |-> ExitOf(code), started |-> watched.started,
     terminal |-> watched.terminal, exited |-> watched.exited, class |-> ClassOf(code)]

\* Prime's service is settled whatever the supervision brought.
SettleService ==
    /\ gate = "service" /\ UNCHANGED <<ask, errand, subject, spawned, tally, watched>>
    /\ \/ gate' = "files" /\ UNCHANGED <<left, report>>
       \/ left' = left \cup {"service"} /\ Ends(Told("PROCESS_CLEANUP_FAILED"))

RemoveFiles ==
    /\ gate = "files" /\ Quietly
    /\ \/ gate' = "conclude" /\ UNCHANGED report
       \/ Ends(Told("PROCESS_CLEANUP_FAILED"))

\* The outcome counts only if its route is confirmed, its records are those of a
\* completed run, and its text is complete and goes on from what was shown.
Judgements ==
    {"OK", "PROTOCOL_MALFORMED", "HARNESS_FAILED"}
    \cup (IF Confirms THEN {"HARNESS_NEEDS_AUTH"} ELSE {})

\* A route that was not confirmed is reported whatever else failed.
FailureCode == IF watched.unconfirmed THEN "HARNESS_NEEDS_AUTH" ELSE CodeOf(watched.kind)

Conclude ==
    /\ gate = "conclude" /\ Quietly
    /\ \E code \in IF watched.kind = "Ok" THEN Judgements ELSE {FailureCode} : Ends(Told(code))

ForwardNext ==
    \/ TakeImage \/ ChooseRoute \/ StartListing
    \/ LookFirst \/ ProbeRuntime \/ ProbeVersion \/ ProbeCapabilities \/ CheckCredentials
    \/ ProbeLogin \/ NextHarness \/ DoctorFacts
    \/ PrepareLaunch \/ Supervise \/ SettleService \/ RemoveFiles \/ Conclude

ForwardSpec == ForwardInit /\ [][ForwardNext]_forwardVars

-----------------------------------------------------------------------------
\* What was last found out about a program before the process with number n.
Versions(h, n) == {j \in 1..n - 1 : spawned[j].of = h /\ spawned[j].what = "version"}
Trusted(h, n) ==
    \E j \in Versions(h, n) :
        /\ \A k \in Versions(h, n) : k <= j
        /\ \/ spawned[j].answer = "admitted"
           \/ /\ spawned[j].answer = "unqualified" /\ ask.policy = "probe"
              /\ \E k \in j + 1..n - 1 : /\ spawned[k].of = h /\ spawned[k].what = "capability"
                                         /\ spawned[k].answer = "complete"

\* A program found on the PATH gets the user's directories and credentials only
\* as the selected harness, and after its version was admitted, or the user
\* chose to try it and it has the options (installed_adapters.rs, line 3415: "not
\* trusted with any credential name or credential-store path until its exact
\* version has been admitted").
GrantedOnlyWhenAdmitted ==
    \A i \in DOMAIN spawned :
        spawned[i].given # {} => spawned[i].of = ask.harness /\ Trusted(spawned[i].of, i)

Runs == {i \in DOMAIN spawned : spawned[i].what = "run"}

\* No other program stands in for the chosen one, and the task is given to it
\* once, at the end, and only by a run.
NoFallback ==
    /\ Forwards => \A i \in DOMAIN spawned : spawned[i].of \in {ask.harness, "bun"}
    /\ \A i \in Runs : i = Len(spawned) /\ ask.command = "run"

\* The report of a run or a survey tells what happened: what may be alive is a
\* failed cleanup, in a listing as in a run; a success ran to its end, and nothing
\* else is a success; a run has begun exactly if it says so; an exit code or a
\* cancellation is the one of the supervised process.  Excepted: a run
\* whose credential route was not confirmed (see NoCleanupIsHidden).
RunIsReported ==
    gate = "done" =>
        /\ left # {} /\ ~watched.unconfirmed => report.code = "PROCESS_CLEANUP_FAILED"
        /\ report.class = "success" <=> ask.command = "run" /\ report.code = "OK"
        /\ ask.harness # "mock" =>
              /\ report.class = "success" => watched.kind = "Ok" /\ report.terminal
              /\ report.started <=> Runs # {}
              /\ report.class = "cancelled" => watched.kind = "Cancelled"
              /\ report.class = "exit-code" => Runs # {} /\ report.exited
        /\ NoFallback

\* SPEC.md, line 1780: "detachment and cleanup failure are detected and reported
\* without risking unrelated processes": whatever failed before it.
NoCleanupIsHidden ==
    gate = "done" /\ left # {} => report.code = "PROCESS_CLEANUP_FAILED"
=============================================================================
