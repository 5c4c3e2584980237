------------------------------- MODULE MCParts --------------------------------
(***************************************************************************)
(* The components that are one command or one file of their own, side by    *)
(* side in one run: a behaviour is a behaviour of one of them, and the      *)
(* others rest in a state of theirs.                                        *)
(***************************************************************************)
EXTENDS JournalFile, PackageFetch, HostedJobs, LiveOutput, ServiceCommands, Transfer, Settings,
        UserConfig, Forwarding, PublishedKernel, ToolStream, MCRests

CONSTANT Parts   \* the components the run looks at

VARIABLE part    \* the component of the behaviour

\* Texts of one and two lines with every kind of line but one: a message has a
\* line that is not blank.
Speech == {<<"x", "y">>, <<"x", "end">>, <<"secret">>, <<"y", "half">>, <<"rest", "blank", "y">>,
           <<"json", "x">>, <<"end", "blank">>}

\* Messages of blank lines, and none.
BlankSpeech == {<<"x", "y">>, <<"x", "end">>, <<"blank">>, <<"empty">>}

\* Command lines of the hosted operations, with what each of them can be given.
Reading(op, gs) == {[op |-> op, given |-> g, preview |-> FALSE, yes |-> FALSE] : g \in gs}
Mutation(op, gs) ==
    {[op |-> op, given |-> g, preview |-> p, yes |-> y] : g \in gs, p \in BOOLEAN, y \in BOOLEAN}
Plainly == {{}}
Moving == {{}, {"moving"}}
Owned == {{}, {"me"}, {"other"}}
Away == {{}, {"away"}}

AllOrders ==
    UNION {Reading(op, Plainly) : op \in
        {"service.status", "model.list", "repo.list", "example.list", "run.list",
         "program.list", "job.list", "job.show", "job.deliveries", "job.contract.list",
         "wallet.balance", "wallet.events", "wallet.usage", "org.show"}}
    \cup Reading("example.show", {{"moving"}, {"moving", "file"}, {"moving", "slash"}})
    \cup Reading("program.show", {{}, {"moving"}, {"file"}, {"slash"}})
    \cup UNION {Reading(op, Moving) : op \in {"run.quote", "result.list", "org.member.list"}}
    \cup Reading("program.revisions", Owned)
    \cup UNION {Mutation(op, Plainly) : op \in
        {"job.update", "job.delete", "job.rotate-secret", "job.contract.detach",
         "wallet.redeem", "org.create", "org.rename", "org.default", "org.invite",
         "org.invitation.revoke", "org.invitation.accept"}}
    \cup UNION {Mutation(op, Away) : op \in {"run.input", "run.cancel"}}
    \cup UNION {Mutation(op, Moving) : op \in {"run.share", "org.member.role", "org.member.remove"}}
    \cup UNION {Mutation(op, Owned) : op \in
        {"program.save", "program.visibility", "program.delete", "result.publish",
         "result.unpublish"}}
    \cup Mutation("program.draft", {{}, {"model"}, {"file"}, {"slash"}})
    \cup Mutation("job.create", {{}, {"moving"}, {"free"}})
    \cup Mutation("wallet.topup", {{}, {"key"}})

TwoThings == <<"a", "b">>

\* Files of a run: two that fit together, one too many, one too large, and
\* lists that no directory can hold.
FileA == <<"a">>
FileB == <<"d", "b">>
FileD == <<"d">>
FileHuge == <<"h">>
FileLists == {<<>>, <<FileA, FileB>>, <<FileA, FileD>>, <<FileHuge>>, <<FileA, FileA>>,
              <<FileD, FileB>>, <<Marker>>}
Sizes == [p \in Paths |-> CASE p = FileB -> 1 [] p = FileHuge -> 3 [] OTHER -> 2]

\* Layers of settings that agree, disagree, belong to another harness, or are refused.
EmptyLayer == <<>>
MCUserFiles ==
    {EmptyLayer, Malformed,
     "harness" :> "claude" @@ "model" :> "m" @@ "authProfile" :> "claude-subscription",
     "harness" :> "codex" @@ "model" :> "m", "model" :> "m",
     "harness" :> "omp" @@ "model" :> "p/m" @@ "authProfile" :> "omp-harness-login",
     "authProfile" :> "openai-api-key", "timeout" :> "5m" @@ "nativeMaxTurns" :> "20"}
MCProjectFiles ==
    {EmptyLayer, "harness" :> "claude" @@ "nativeProfile" :> "claude-workspace-tools"
                @@ "nativeAddDirs" :> "relative",
     "harness" :> "codex" @@ "permissionMode" :> "read-only",
     "harness" :> "agents-sdk" @@ "timeout" :> "0m", "model" :> "m",
     "nativeAddDirs" :> "missing" @@ "nativeProfile" :> "claude-workspace-tools",
     "harness" :> "codex" @@ "model" :> "m"}
MCEnvironments ==
    {EmptyLayer, "harness" :> "claude", "model" :> "p/m", "authProfile" :> "openai-api-key",
     "timeout" :> "empty", "permissionMode" :> "acceptEdits"}
MCFlags ==
    {EmptyLayer, "harness" :> "codex", "harness" :> "agents-sdk" @@ "model" :> "m",
     "authProfile" :> "claude-subscription", "nativeAddDirs" :> "absolute"}

\* Choices of a harness, and files with and without the lines they replace.
MCBundles ==
    {"harness" :> "openprose",
     "harness" :> "codex" @@ "model" :> "m" @@ "authProfile" :> "openai-api-key"}
MCUnsetLists == {{"model"}, {"harness", "permissionMode"}}
MCTexts ==
    {Malformed,
     "harness" :> "claude" @@ "model" :> "m" @@ "note" :> "n" @@ "permissionMode" :> "acceptEdits",
     "timeout" :> "0m" @@ "model" :> "m"}

\* Commands with the settings that decide how they are routed, and with the
\* programs that are there.
Asking(c, h) ==
    [command |-> c, harness |-> h, byFlag |-> TRUE, transport |-> "auto",
     model |-> "full", profile |-> "login", key |-> "absent", policy |-> "exact",
     workspace |-> FALSE, host |-> "darwin", has |-> {h, "bun"}, sentinel |-> TRUE]

AskFor(c, hs) == {Asking(c, h) : h \in hs}

MCAsks ==
    LET asked == AskFor("run", Harnesses) \cup AskFor("dry", Harnesses)
        keyed == {[a EXCEPT !.profile = p, !.key = k] :
                    a \in AskFor("run", Installed), p \in {"none", "login", "key", "foreign"},
                    k \in {"absent", "blank", "set"}}
    IN asked \cup keyed
       \cup {[a EXCEPT !.transport = t, !.byFlag = f, !.sentinel = s] :
                a \in asked, t \in {"auto", "foreign"}, f \in BOOLEAN, s \in BOOLEAN}
       \cup {[a EXCEPT !.host = o, !.policy = "probe"] :
                a \in AskFor("run", Installed), o \in {"darwin", "linux", "windows", "unknown"}}
       \cup {[a EXCEPT !.has = {}] : a \in asked}
       \cup {[a EXCEPT !.has = @ \ {"bun"}, !.model = m] :
                a \in AskFor("run", {"omp", "prime"}), m \in {"none", "bare", "full"}}
       \cup {[Asking("run", "claude") EXCEPT !.workspace = TRUE, !.profile = "key", !.key = k] :
                k \in {"empty", "set"}}
       \cup {[a EXCEPT !.has = {"bun"} \cup h, !.transport = t, !.host = o, !.policy = p] :
                a \in AskFor("doctor", Harnesses) \cup AskFor("list", {"codex"}),
                h \in {{"omp"}, {"codex"}, {"prime", "claude"}},
                t \in {"auto", "foreign"}, o \in {"darwin", "linux"}, p \in {"exact", "probe"}}

\* One message of a child, and queues that are empty, that announce it, that hold
\* more, or that have an active action.
MCKids == {<<"kid", "name">>}
MCDeliveries == {[id |-> "i1", from |-> <<"kid", "name">>, about |-> "p1"]}
MCSnapshots ==
    {[count |-> 0, items |-> <<>>, active |-> x] : x \in Activities}
    \cup {[count |-> 1, items |-> <<"p1">>, active |-> x] : x \in {"none", "running"}}
    \cup {[count |-> 2, items |-> <<"p1", "q">>, active |-> "none"]}

JournalRests == Init

FetchRests ==
    /\ registry = "withdrawn"
    /\ fetch = [f \in Fetchers |-> "failed"]
    /\ pin = [f \in Fetchers |-> "any"]
    /\ receipt = [f \in Fetchers |-> "none"] /\ payload = receipt
    /\ staging = [f \in Fetchers |-> NoStaging]
    /\ target = Absent
    /\ fetchFaults = MaxFetchFaults

JobRests ==
    /\ stored = [kind |-> "webhook", bound |-> [r \in Refs |-> Unbound], interval |-> 10,
                 revision |-> 0]
    /\ merges = TRUE
    /\ command = [name |-> "configure", interval |-> 20, plan |-> TRUE]
    /\ at = "refused"
    /\ seen = stored.bound
    /\ body = Plain
    /\ changes = JobChanges

LiveRests ==
    /\ stream = "codex" /\ native = FALSE
    /\ norm = NoRecords
    /\ candidates = <<>> /\ shown = <<>> /\ stalled = FALSE
    /\ ending = "malformed"

ServiceRests ==
    /\ orders = <<CHOOSE c \in Orders : c.op = "service.status">>
    /\ todo = <<>> /\ aim = "none" /\ idemKey = 0 /\ exchange = "no"
    /\ flight = {} /\ landed = {} /\ told = FALSE
    /\ verdict = [code |-> "ok", names |-> {}]
    /\ there = ToSet(Things) /\ place = "clear" /\ stirs = MaxStirs

TransferRests ==
    /\ saver = [s \in Savers |-> [Begun("raw") EXCEPT !.at = "refused"]]
    /\ dirBy = "nobody"
    /\ disk = [p \in Paths |-> NoFile]

SettingsRest ==
    /\ layers = <<EmptyLayer, EmptyLayer, EmptyLayer, EmptyLayer>> /\ sameFile = FALSE
    /\ resolving = "failed"
    /\ setting = BuiltIn
    /\ history = [k \in SettingKeys |-> {Shown(BuiltIn[k])}]
    /\ blame = Nowhere

ConfigRests ==
    /\ canonical = NoText /\ legacy = NoText /\ canonicalBy = "editor"
    /\ writer = [w \in ConfigWriters |-> IdleWriter] /\ edits = MaxEdits

ForwardRests ==
    /\ ask = Asking("list", "codex") /\ gate = "done" /\ errand = "inventory" /\ subject = "codex"
    /\ spawned = <<>> /\ left = {} /\ watched = NotRun
    /\ tally = [h \in Installed |-> "missing"]
    /\ report = Survey("OK")

KernelRests ==
    /\ published = FALSE /\ pointer = "error" /\ stage = "done" /\ image = "embedded"
    /\ LET e == CHOOSE e \in Editions : TRUE IN
          shelf = [r \in Releases |-> [file \in KernelFiles |-> [release |-> r, edition |-> e]]]
    /\ got = NothingRead /\ alarm = {} /\ uploads = MaxUploads

ProbeRests == probing = CHOOSE k \in ProbeKinds : TRUE

ToolRests ==
    /\ contract = "omp" /\ greeted = {}
    /\ dialog = NoDialog
    /\ toolCalls = NoCalls /\ omittedResults = {}
    /\ agentQueue = NoQueue
    /\ toolVerdict = "malformed"
    /\ toolLedger = [k \in Tokens |-> "unasked"]
    /\ toolAccount = NoAccount

PartsInit ==
    /\ part \in Parts
    /\ IF part = "journal" THEN Init ELSE JournalRests
    /\ IF part = "login" THEN LoginInit ELSE LoginRests
    /\ IF part = "fetch" THEN FetchInit ELSE FetchRests
    /\ IF part = "jobs" THEN JobInit ELSE JobRests
    /\ IF part = "live" THEN LiveInit ELSE LiveRests
    /\ IF part = "installed" THEN InstalledInit ELSE InstalledRests
    /\ IF part = "windows" THEN WindowsInit ELSE WindowsRests
    /\ IF part = "service" THEN SvcInit ELSE ServiceRests
    /\ IF part = "transfer" THEN TransferInit ELSE TransferRests
    /\ IF part = "settings" THEN SettingsInit ELSE SettingsRest
    /\ IF part = "config" THEN ConfigInit ELSE ConfigRests
    /\ IF part = "forward" THEN ForwardInit ELSE ForwardRests
    /\ IF part = "kernel" THEN KernelInit ELSE KernelRests
    /\ IF part = "tools" THEN StreamInit ELSE ToolRests
    /\ ProbeInit
    /\ IF part = "probe" THEN TRUE ELSE ProbeRests

\* The others rest.
Rest(moving) ==
    /\ IF moving = "journal" THEN TRUE ELSE UNCHANGED vars
    /\ IF moving = "login" THEN TRUE ELSE UNCHANGED loginVars
    /\ IF moving = "fetch" THEN TRUE ELSE UNCHANGED fetchVars
    /\ IF moving = "jobs" THEN TRUE ELSE UNCHANGED jobVars
    /\ IF moving = "live" THEN TRUE ELSE UNCHANGED liveVars
    /\ IF moving = "installed" THEN TRUE ELSE UNCHANGED installedVars
    /\ IF moving = "windows" THEN TRUE ELSE UNCHANGED windowsVars
    /\ IF moving = "service" THEN TRUE ELSE UNCHANGED svcVars
    /\ IF moving = "transfer" THEN TRUE ELSE UNCHANGED transferVars
    /\ IF moving = "settings" THEN TRUE ELSE UNCHANGED settingsVars
    /\ IF moving = "config" THEN TRUE ELSE UNCHANGED configVars
    /\ IF moving = "forward" THEN TRUE ELSE UNCHANGED forwardVars
    /\ IF moving = "kernel" THEN TRUE ELSE UNCHANGED kernelVars
    /\ IF moving = "tools" THEN TRUE ELSE UNCHANGED toolVars
    /\ IF moving = "probe" THEN TRUE ELSE UNCHANGED probeVars

PartsNext ==
    /\ UNCHANGED part
    /\ \/ part = "journal" /\ Next /\ Rest("journal")
       \/ part = "login" /\ LoginNext /\ Rest("login")
       \/ part = "fetch" /\ FetchNext /\ Rest("fetch")
       \/ part = "jobs" /\ JobNext /\ Rest("jobs")
       \/ part = "live" /\ LiveNext /\ Rest("live")
       \/ part = "installed" /\ InstalledNext /\ Rest("installed")
       \/ part = "windows" /\ WindowsNext /\ Rest("windows")
       \/ part = "service" /\ SvcNext /\ Rest("service")
       \/ part = "transfer" /\ TransferNext /\ Rest("transfer")
       \/ part = "settings" /\ SettingsNext /\ Rest("settings")
       \/ part = "config" /\ ConfigNext /\ Rest("config")
       \/ part = "forward" /\ ForwardNext /\ Rest("forward")
       \/ part = "kernel" /\ KernelNext /\ Rest("kernel")
       \/ part = "tools" /\ StreamNext /\ Rest("tools")
       \/ part = "probe" /\ ProbeNext /\ Rest("probe")

partsVars ==
    <<part, vars, loginVars, fetchVars, jobVars, liveVars, installedVars, windowsVars,
      svcVars, transferVars, settingsVars, configVars, forwardVars, kernelVars, toolVars,
      probeVars>>

PartsSpec == PartsInit /\ [][PartsNext]_partsVars

\* The component that moves keeps the types of its variables.
PartsTypeOK ==
    CASE part = "journal" -> TypeOK
      [] part = "login" -> LoginTypeOK
      [] part = "fetch" -> FetchTypeOK
      [] part = "jobs" -> JobTypeOK
      [] part = "live" -> LiveTypeOK
      [] part = "installed" -> InstalledTypeOK
      [] part = "windows" -> WindowsTypeOK
      [] part = "service" -> SvcTypeOK
      [] part = "transfer" -> TransferTypeOK
      [] part = "settings" -> SettingsTypeOK
      [] part = "config" -> ConfigTypeOK
      [] part = "forward" -> ForwardTypeOK
      [] part = "kernel" -> KernelTypeOK
      [] part = "tools" -> StreamTypeOK
      [] part = "probe" -> ProbeTypeOK
=============================================================================
