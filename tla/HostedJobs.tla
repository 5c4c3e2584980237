------------------------------ MODULE HostedJobs ------------------------------
(***************************************************************************)
(* `cli job contract attach` and `cli job configure --interval-seconds`:    *)
(* both read the job, build a request from what they read and the options   *)
(* given, and send it.  Source: service/jobs.rs contract_attach,            *)
(* server_merge, client_merge_body, fresh_body, configuration_body.         *)
(*                                                                          *)
(* There are two kinds of services.  One that merges keeps every setting a  *)
(* request leaves out; an older one replaces the whole binding and does not *)
(* report its environment and stored files.  Other users change the job     *)
(* between any two requests of the command.                                 *)
(***************************************************************************)
EXTENDS Naturals, FiniteSets, TLC

CONSTANTS JobChanges,  \* bound on the changes other users make meanwhile
          Unset,       \* the value of a setting that is not set
          Unbound,     \* the binding of a program that is not bound
          Null         \* JSON null in a request: the setting is cleared

VARIABLES
    stored,        \* its type, the bindings of its programs, its interval and revision
    merges,     \* whether the service merges
    command,    \* the command and its options
    at,         \* what it does next
    seen,       \* the bindings it has read
    body,       \* the request it sends
    changes     \* changes others may still make

jobVars == <<stored, merges, command, at, seen, body, changes>>

Refs == {"p", "q"}        \* two revisions of a program; attach is given "p"
Repos == {"r1", "r2"}
Keys == {"k1", "k2"}

Settings == {"model", "repo", "output", "inputs", "environment", "files"}

\* A repository is an URL with a branch.
NoRepo == [url |-> Unset, branch |-> Unset]

Empty == [model |-> Unset, repo |-> NoRepo, output |-> Unset, inputs |-> {},
          environment |-> Unset, files |-> Unset]

Bindings == [model : {Unset, "m1", "m2"}, repo : [url : Repos \cup {Unset}, branch : {Unset, "dev"}],
             output : Repos \cup {Unset}, inputs : SUBSET Keys,
             environment : {Unset, "e1", "e2"}, files : {Unset, "f1", "f2"}]

\* Nothing, null and an unbound program are none of the values of a setting.
JobAssumption ==
    /\ JobChanges \in Nat
    /\ {Unset, Null} \cap (Repos \cup {"m1", "m2", "dev", "e1", "e2", "f1", "f2"}) = {}
    /\ Unset # Null /\ \A keys \in SUBSET Keys : Null # keys
    /\ \A url \in Repos \cup {Unset}, branch \in {Unset, "dev"} :
           Null # [url |-> url, branch |-> branch]
    /\ Unbound \notin Bindings
ASSUME JobAssumption

\* What each option can ask for; Unset stands for an option that is not given.
Options == [model : {Unset, "m2"}, repo : {Unset, Null} \cup [url : Repos, branch : {Unset, "dev"}],
            output : {Unset, Null} \cup Repos,
            inputs : {Unset} \cup {[add |-> {"k1"}, drop |-> {}], [add |-> {}, drop |-> {"k1"}]},
            environment : {Unset, "e2"}, files : {Unset, Null, "f2"}]

\* The settings given, at most two of them besides the environment.
Given == {g \in {[s \in {s \in Settings : o[s] # Unset} |-> o[s]] : o \in Options} :
             Cardinality(DOMAIN g \ {"environment"}) <= 2}

Attach == [name : {"attach"}, given : Given, replace : {"no"}, allow : {FALSE}, plan : {FALSE}]
          \cup [name : {"attach"}, given : {g \in Given : Cardinality(DOMAIN g \ {"environment"}) <= 1},
                replace : {"no"} \cup Refs, allow : BOOLEAN, plan : {FALSE}]
          \cup [name : {"attach"}, given : {g \in Given : DOMAIN g \subseteq {"model"}},
                replace : {"no"} \cup Refs, allow : {FALSE}, plan : {TRUE}]

Configure == [name : {"configure"}, interval : {20}, plan : BOOLEAN]

\* Options refused before any request.
Combined(given) ==
    DOMAIN given \cap {"repo", "output"} = {"repo", "output"} =>
        /\ given.repo = Null => given.output = Null
        /\ given.repo # Null /\ given.output # Null => given.repo.url = given.output

JobKinds == {"webhook", "schedule"}

Samples == {[Empty EXCEPT !.model = "m1", !.repo = [url |-> "r1", branch |-> "dev"], !.output = "r1",
                          !.inputs = Keys, !.environment = "e1", !.files = "f1"],
            [Empty EXCEPT !.repo = [url |-> "r2", branch |-> Unset], !.inputs = {"k2"}]}

\* A request: the settings, and the program it replaces.
Plain == [set |-> [s \in {} |-> Null], replace |-> "no"]

JobTypeOK ==
    /\ stored.kind \in JobKinds
    /\ stored.bound \in [Refs -> Bindings \cup {Unbound}]
    /\ stored.interval \in {10, 20} /\ stored.revision \in 0..(JobChanges + 1)
    /\ merges \in BOOLEAN
    /\ at \in {"read", "list", "send", "answered", "refused", "planned"}
    /\ changes \in 0..JobChanges

JobInit ==
    /\ stored \in {[kind |-> kind, bound |-> [r \in Refs |-> IF r \in bound THEN b ELSE Unbound],
                 interval |-> 10, revision |-> 0] :
                   kind \in JobKinds, bound \in SUBSET Refs, b \in Samples}
    /\ merges \in BOOLEAN
    /\ command \in {a \in Attach : Combined(a.given)} \cup Configure
    /\ at = "read"
    /\ seen = [r \in Refs |-> Unbound]
    /\ body = Plain
    /\ changes = JobChanges

-----------------------------------------------------------------------------
(* Building the request                                                     *)

\* What a listing says of a binding: an older service reports neither the
\* environment nor the files.
Listed(b) == IF b = Unbound \/ merges THEN b ELSE [b EXCEPT !.environment = Unset, !.files = Unset]
Listing == [r \in Refs |-> Listed(stored.bound[r])]

\* The service is known to merge when a listed program has an environment.
Merging(listed) == merges /\ \E r \in Refs : listed[r] # Unbound

Opts == command.given
SettingsGiven == DOMAIN Opts # {} \/ command.replace # "no" \/ command.allow
Moved == command.replace \in Refs \ {"p"}
Saved(listed) == listed[IF Moved THEN command.replace ELSE "p"]

\* With files and environment both given nothing unknown is left to be reset.
MayReset == command.allow \/ {"files", "environment"} \subseteq DOMAIN Opts

RepoGiven == "repo" \in DOMAIN Opts /\ Opts.repo # Null
ClearRepo == "repo" \in DOMAIN Opts /\ Opts.repo = Null
CommitGiven == "output" \in DOMAIN Opts /\ Opts.output # Null

\* Mutant: the saved branch is forgotten.
NewRepoPlain(saved) == Opts.repo

\* --repo keeps the saved branch of the same repository.
NewRepo(saved) ==
    [Opts.repo EXCEPT !.branch = IF @ = Unset /\ saved.repo.url = Opts.repo.url
                                 THEN saved.repo.branch ELSE @]

MergedInputs(saved) == (saved.inputs \cup Opts.inputs.add) \ Opts.inputs.drop

\* check_commit_output, check_repo_output: the commit goes to the repository read.
OutputAgrees(saved) ==
    /\ CommitGiven => Opts.output = IF RepoGiven THEN Opts.repo.url ELSE saved.repo.url
    /\ RepoGiven /\ saved.output \notin {Unset, Opts.repo.url} => "output" \in DOMAIN Opts

\* Only the settings the options change, with nulls for what they clear.
ServerMerge(saved) ==
    [s \in DOMAIN Opts \cup (IF ClearRepo THEN {"output"} ELSE {}) |->
        CASE s = "repo" /\ RepoGiven -> NewRepo(saved)
          [] s = "output" /\ ClearRepo -> Null
          [] s = "inputs" -> MergedInputs(saved)
          [] OTHER -> Opts[s]]

\* The saved settings with the options applied; what is cleared is left out.
ClientMerge(saved) ==
    LET changed == ServerMerge(saved)
        kept == Settings \ ({"files"} \cup (IF Moved THEN {} ELSE {"environment"}))
        value == [s \in DOMAIN changed \cup kept |->
                     IF s \in DOMAIN changed THEN changed[s] ELSE saved[s]]
    IN [s \in {s \in DOMAIN value : value[s] \notin {Null, Empty[s]}} |-> value[s]]

\* A program that is not bound: the options alone, without nulls.
Fresh ==
    LET value == [s \in DOMAIN Opts |-> IF s = "inputs" THEN MergedInputs(Empty) ELSE Opts[s]]
    IN [s \in {s \in DOMAIN value : value[s] \notin {Null, Empty[s]}} |-> value[s]]

\* The reasons to stop once the listing is read: a program that is bound would
\* be reset, or would lose what the service does not report, or commits would
\* go to another repository than the one read.
Refused(listed) ==
    LET saved == Saved(listed) IN
    \/ Moved /\ listed["p"] # Unbound
    \/ saved = Unbound /\ CommitGiven /\ ~RepoGiven
    \/ /\ saved # Unbound
       /\ \/ ~Merging(listed) /\ ~MayReset
          \/ Moved /\ saved.files # Unset /\ "files" \notin DOMAIN Opts /\ ~command.allow
          \/ ~OutputAgrees(saved)

\* Mutant: the whole binding is sent to every service.
SentWhole(listed) ==
    LET saved == Saved(listed) IN
    IF stored.kind # "webhook" THEN Plain
    ELSE IF saved = Unbound THEN [set |-> Fresh, replace |-> command.replace]
    ELSE [set |-> ClientMerge(saved) @@ ServerMerge(saved), replace |-> IF Moved THEN command.replace ELSE "p"]

\* The route: a bare request, the options alone, the whole binding, or the changes.
Sent(listed) ==
    LET saved == Saved(listed) IN
    IF stored.kind # "webhook" THEN Plain
    ELSE IF saved = Unbound THEN [set |-> Fresh, replace |-> command.replace]
    ELSE IF Moved \/ ~Merging(listed) THEN [set |-> ClientMerge(saved), replace |-> command.replace]
    ELSE IF DOMAIN Opts = {} THEN Plain
    ELSE [set |-> ServerMerge(saved), replace |-> "p"]

-----------------------------------------------------------------------------
(* The command                                                              *)

\* Settings apply to webhook jobs only.
ReadJob ==
    /\ at = "read" /\ command.name = "attach"
    /\ at' = IF SettingsGiven /\ stored.kind # "webhook" THEN "refused" ELSE "list"
    /\ UNCHANGED <<stored, merges, command, seen, body, changes>>

ListContracts ==
    /\ at = "list"
    /\ seen' = Listing
    /\ IF stored.kind = "webhook" /\ Refused(Listing)
       THEN at' = "refused" /\ UNCHANGED body
       ELSE at' = "send" /\ body' = Sent(Listing)
    /\ UNCHANGED <<stored, merges, command, changes>>

\* An interval goes to a schedule job, with the bindings and the revision read.
ReadConfiguration ==
    /\ at = "read" /\ command.name = "configure"
    /\ IF stored.kind = "schedule" /\ stored.bound # [r \in Refs |-> Unbound]
       THEN /\ seen' = stored.bound /\ at' = "send"
            /\ body' = [interval |-> command.interval, revision |-> stored.revision,
                        bound |-> stored.bound]
       ELSE at' = "refused" /\ UNCHANGED <<seen, body>>
    /\ UNCHANGED <<stored, merges, command, changes>>

\* Without --yes the command ends with the plan.
Gate ==
    /\ at = "send" /\ command.plan /\ at' = "planned"
    /\ UNCHANGED <<stored, merges, command, seen, body, changes>>

Apply(binding, set) ==
    [s \in Settings |-> IF s \notin DOMAIN set THEN binding[s]
                        ELSE IF set[s] = Null THEN Empty[s] ELSE set[s]]

\* The service binds p.  A request that replaces another program is refused
\* unless that one is bound and p is not.
Bind(request) ==
    LET old == stored.bound["p"]
        base == IF old # Unbound /\ merges /\ request.replace # "q" THEN old ELSE Empty
    IN /\ request.replace = "q" => stored.bound["q"] # Unbound /\ old = Unbound
       /\ stored' = [stored EXCEPT !.bound["p"] = Apply(base, request.set),
                             !.bound["q"] = IF request.replace = "q" THEN Unbound ELSE @,
                             !.revision = @ + 1]

SendAttach ==
    /\ at = "send" /\ command.name = "attach" /\ ~command.plan
    /\ \/ Bind(body) /\ at' = "answered"
       \/ at' = "refused" /\ UNCHANGED stored
    /\ UNCHANGED <<merges, command, seen, body, changes>>

\* The service refuses a configuration that was made for an earlier revision.
Configured(request) ==
    /\ request.revision = stored.revision
    /\ stored' = [stored EXCEPT !.interval = request.interval, !.bound = request.bound,
                          !.revision = @ + 1]

\* Mutant: the revision is read again before the configuration is sent.
SendConfigurationAnew ==
    /\ at = "send" /\ command.name = "configure" /\ ~command.plan
    /\ \/ Configured([body EXCEPT !.revision = stored.revision]) /\ at' = "answered"
       \/ at' = "refused" /\ UNCHANGED stored
    /\ UNCHANGED <<merges, command, seen, body, changes>>

SendConfiguration ==
    /\ at = "send" /\ command.name = "configure" /\ ~command.plan
    /\ \/ Configured(body) /\ at' = "answered"
       \/ at' = "refused" /\ UNCHANGED stored
    /\ UNCHANGED <<merges, command, seen, body, changes>>

\* Another user attaches, detaches, or changes one setting, while the command runs.
OthersChange ==
    /\ at \in {"read", "list", "send"}
    /\ changes > 0 /\ changes' = changes - 1
    /\ \E r \in Refs, b \in Samples :
          \/ stored' = [stored EXCEPT !.bound[r] = IF @ = Unbound THEN b ELSE Unbound,
                                !.revision = @ + 1]
          \/ /\ stored.bound[r] # Unbound
             /\ \E s \in Settings :
                   stored' = [stored EXCEPT !.bound[r] = [@ EXCEPT ![s] = b[s]], !.revision = @ + 1]
    /\ UNCHANGED <<merges, command, at, seen, body>>

JobNext ==
    \/ ReadJob \/ ListContracts \/ ReadConfiguration \/ Gate \/ SendAttach \/ SendConfiguration
    \/ OthersChange

JobSpec == JobInit /\ [][JobNext]_jobVars

-----------------------------------------------------------------------------
(* Properties                                                               *)

Attached == at = "send" /\ at' = "answered" /\ command.name = "attach"

\* What the options ask for, of a binding.
Wanted(old) ==
    [model |-> IF "model" \in DOMAIN Opts THEN Opts.model ELSE old.model,
     repo |-> IF ClearRepo THEN NoRepo ELSE IF ~RepoGiven THEN old.repo
              ELSE IF Opts.repo = [url |-> old.repo.url, branch |-> Unset] THEN old.repo
              ELSE Opts.repo,
     output |-> IF CommitGiven THEN Opts.output
                ELSE IF ClearRepo \/ "output" \in DOMAIN Opts THEN Unset ELSE old.output,
     inputs |-> IF "inputs" \in DOMAIN Opts
                THEN {k \in Keys : k \in Opts.inputs.add \/ k \in old.inputs \ Opts.inputs.drop}
                ELSE old.inputs,
     environment |-> IF "environment" \in DOMAIN Opts THEN Opts.environment ELSE old.environment,
     files |-> IF "files" \notin DOMAIN Opts THEN old.files
               ELSE IF Opts.files = Null THEN Unset ELSE Opts.files]

\* Re-attaching a program changes the options given and nothing else, on a service
\* that merges as on an older one, in place as with --replace, when nobody changed
\* the job since it was listed; only --allow-reset gives up the environment and the
\* files that an older service or a move would lose (cli/CHANGELOG.md:49-57).  Runs
\* that did not read one repository and commit to another do not begin to.
OutputInRepo(b) == b.output \in {Unset, b.repo.url}

AttachIsExact ==
    LET old == Saved(stored.bound)
        new == stored'.bound["p"]
        lost == IF command.allow /\ (Moved \/ ~merges) THEN {"environment", "files"} \ DOMAIN Opts
                ELSE {}
    IN Attached /\ stored.kind = "webhook" /\ seen = Listing =>
           /\ \A s \in Settings \ lost :
                  new[s] = Wanted(IF old = Unbound THEN Empty ELSE old)[s]
           /\ stored'.bound["q"] = IF Moved /\ old # Unbound THEN Unbound ELSE stored.bound["q"]
           /\ (old # Unbound => OutputInRepo(old)) => OutputInRepo(new)

AttachesExactly == [][AttachIsExact]_jobVars

\* On a service that merges, an attach in place undoes no change that another user
\* made to a setting it was not asked about, however old its listing is.
KeepsOthersSettings ==
    LET old == stored.bound["p"]
        given == DOMAIN Opts \cup (IF ClearRepo THEN {"output"} ELSE {})
    IN Attached /\ merges /\ ~Moved /\ old # Unbound =>
           \A s \in Settings \ given : stored'.bound["p"][s] = old[s]

NoSettingUndone == [][KeepsOthersSettings]_jobVars

\* An interval that is accepted changes the interval alone: the bindings sent along
\* never undo what others changed since the job was read.
ConfigureKeepsBindings ==
    [][at = "send" /\ at' = "answered" /\ command.name = "configure"
        => stored'.bound = stored.bound]_jobVars

\* A change of a job changes what it was asked to change: the three above.
ChangesOnlyWhatIsAsked == AttachesExactly /\ NoSettingUndone /\ ConfigureKeepsBindings
=============================================================================
