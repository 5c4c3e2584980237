# Verification of the OpenProse CLI

TLA+ models of the parts of `prose` (this repository's CLI) where time,
processes, files and failures interleave, the TLC runs that check them on small
instances, and the theorems about them that TLAPS checks for every value of the
constants. Paths are relative to the repository; `ps/` stands for
`cli/rust/crates/prose-process-supervisor/src/`, `rc/` for
`cli/rust/crates/prose-runner-core/src/`, `wh/` for
`cli/platform/windows-process-host/src/`. Every definition is translated from
the Rust implementation; `PROJECT.json` maps each one to its lines.

To check: `tlc -config X.cfg M` for each run of section 3, `tlapm M.tla` for each
of the eight proof modules of section 5.

## 1. Inventory

`prose` runs a program in one of two ways: locally, by spawning a *harness*
(Claude, Codex, OMP, Prime, the packaged Agents SDK) and supervising it, or on the
hosted service, by submitting a *run* and following its event stream. Around
these stand settings, accounts, packages, jobs and some forty other hosted
commands.

| Component | State it keeps | Operations | Talks to | Hard behaviours | What makes it correct |
|---|---|---|---|---|---|
| Process supervisor, Unix (`ps/supervisor.rs`, `framing.rs`, `platform.rs`) | child and its process group; protocol state; stop and close flags; a bounded channel; a two-slot frame queue | `supervise_direct`: spawn, receive loop, termination, settlement, verdict; threads for stdout, stderr, stdin; `run_version_probe`, `probe_command` | harness by pipes and signals; adapter observer by callback; signal handler by a shared flag | five threads and two processes race; exit, cancel, two deadlines; a full channel; a harness that never reads; descendants that keep the pipes or leave the group | one truthful result, nothing left behind, every record admitted in order, always returns |
| Staged stdin controllers (`rc/runner.rs` observers of OMP, Prime) | stage of the dialogue | answer an admitted record with a frame, a close request or a refusal | called by the supervisor's loop | order of frames, closing and terminal record | stdin stays open as long as the dialogue needs it |
| Windows supervision (`ps/windows_*.rs`, `wh/windows.rs`) | Job object; host loop and threads; client loop | start, pump, drain, join, report; verdict of the client | client and host by a control channel; harness by pipes | crash of either side; deadlines against late answers; joins against full channels | nothing lives on in the Job unless the report says so |
| Runner (`rc/runner.rs`, `cli/rust/crates/prose-cli/src/main.rs`) | one invocation: gates passed, programs started, the report | run, dry run, doctor, harness list; order of settlements | everything else | probes that fail to clean up, several failures at once | no credentials before admission; one truthful report |
| Installed adapters (`rc/installed_adapters.rs`) | automata over record streams; text shown so far | normalize, complete a prefix, recover the terminal envelope | supervisor's records; live output | guesses about the end of a stream that goes on | a valid stream is accepted and what is withheld stays so |
| Streams with native tools (`rc/installed_adapters/native_tools.rs`) | turn, open message, calls of the last message, history of the segment; Prime's queue, children and pending restart | one record at a time, until the stream ends | a complete stream of OMP or Prime | Prime leaves out markers and results; the queue is shown late; a run goes on after it stopped | an accepted stream left no call, message or queued action open |
| Prime owned service, prompt files (`rc/prime_owned_service.rs`, `ps/prompt_files.rs`) | private directory, marker, ticket, a service process | prepare, settle, `cli cleanup prime` | file system, the service | a fault or kill between any two removals; overlapping cleanups | what may be left is told, and can be found and removed |
| Hosted runs (`rc/service/runs.rs`, `http.rs`, `sse.rs`) | per command: session, run, last sequence, deadline, cancellation | `run submit`, `run watch` | service over HTTP and SSE; the journal; a helper thread for `--wait` | lost answers, late admissions, resubmission, replayed events, Ctrl-C, kills | at most one paid run, recoverable, every event once, truthful exit |
| Run journal (`rc/service/journal.rs`) | a file per session: run and last sequence | write, get, find_run, prune | shared by all commands of a machine | kills and power failures within a write; two writers | a reader finds a whole entry; it never loses the run |
| Other hosted commands (`rc/service/*`) | an idempotency key; the commands a user repeats | some forty operations: reads, changes with preview and `--yes`, drafts, top-ups | service over HTTP; output files | an answer that is lost after the change was made; a repeat | only confirmed changes; the report is true; nothing is charged twice |
| Saved files (`rc/service/run_records.rs`, `results.rs`, `fs.rs`) | a directory with its marker; one file | `run download`, `run show`, `result show --output-file` | service, file system | cut bodies, kills, power failures, two commands | a marker means the whole run |
| Hosted jobs (`rc/service/jobs.rs`) | none; settings live in the service | `job contract attach`, `job configure` | service that merges or replaces | the job changes between read and write | only what was asked changes |
| Account login and store (`rc/service_account.rs`, `credential_store.rs`) | device code, expiry, stored key | login, logout, status | service, OS key store | poll against expiry and cancel; a write whose outcome is unknown | what it says about the key is true |
| Package registry (`rc/registry.rs`) | staging directories, destinations | fetch, publish, search, show | registry, file system | a registry that changes its answer, a rename that must not replace, kills | a published directory is whole and has one owner |
| Published kernel (`rc/kernel_startup.rs`, `image.rs`) | an image | fetch four files, verify, fall back | package site | republished between two requests | one edition of one release, or nothing |
| Configuration (`rc/config.rs`) | layers of settings; the user's file, canonical and legacy | resolve and explain; `harness use`, `config unset`, `config migrate` | file system, an editor | defaults that depend on another layer; concurrent replacement, kills | a value fits the harness it is used with; the user's file is whole |
| Invocation, output, errors; rendering; weave host; Bun runner; release tooling | - | - | - | - | see section 7 |

`PROJECT.json` has the same list with the state of each component, and under
`hazards` what in this code is hard to test, each at its line with the
properties that would notice.

## 2. Modules

```
SettledRun  <--refines-- Supervisor, ProbeRun          (what a run promises its caller)
AtomicEntry <--refines-- JournalFile ... assumed by ... HostedRuns
ServiceScripts <- ServiceCommands        SettingRules <- Settings, UserConfig

MCSupervisor, MCHostedRuns    one component in several instances
MCRests -> MCEndings          six components that owe an end, side by side
MCRests -> MCParts            fifteen components of one command each, side by side
```

Components that share no state are put side by side in one run: a behaviour of
`MCParts` or `MCEndings` is a behaviour of one component while the others rest, so
the states add and never multiply, and one instance answers the questions of all.

### Supervisor, SettledRun

One call of `supervise_direct` with the threads it starts and the harness it
runs. `pc` is the supervising thread; an action is what happens between
two places where another thread or process can interfere.

| Code | Model |
|---|---|
| entry checks, spawn, pipe preparation and its failures | `MainEntry`, `SetupRefused`, `Spawn(missing)` |
| top of the loop: cancellation, deadlines, `try_wait` | `MainPoll` |
| `recv_timeout`, `ProtocolState::observe`, observer, `request_write`, `request_close` | `MainReceive`, `MainIdle` |
| failure path: stdin stop, natural exit, group termination, drain | `MainStop`, `MainNatural`, `Kill`, `ReapedInTime`, `ReapDeadline`, `ReapWait`, `Drain`, `ForceReaders`, `ReadersSettled` |
| success path and verdicts | `MainClose`, `Settle(t)`, `SuccessVerdict`, `FailureVerdict` |
| `framing.rs` readers; stdin writer thread | `ReadStdout`, `StdoutEnds`, `ReadStderr`, `StderrEnds`, `Send(t)`; `Writer` |
| harness, a descendant (group with pipes, group without, escaped), signal | `Harness`, `Cancel`, `KilledDies` (external) |

A record is its kind; what adapters allow is in constants, so one module covers
each protocol. Waits are not clocks: a wait succeeds or gives up, at any moment.
`SettledRun` is what the caller is promised (`cli/SPEC.md` section 10, items 12
to 15): a run starts once, the first cause that ends it is the one reported, and
any report but `CleanupFailed` means that the group is gone.

Abstracted: errors of `try_wait` and `wait`; reuse of a collected process id;
`cancel_after_start` (a conformance control); setup failures are a free choice
among the kinds; `allow_unlisted_nonterminal_events` is `Allowed` = all kinds;
SIGTERM obliges nobody; one descendant at a time stands for many.

### ProbeRun

The bounded probe of a version or of a capability: program in its own group, one
or two readers up to a limit, settlement before belief. `ProberStep` is the
probing thread (spawn, poll, sweep, settle, answer), `ReaderStep` a helper
thread, `Pour`, `ToolForks`, `ToolExits`, `StrayDies` the program and what
it leaves behind. It implements `SettledRun`, too. Cancellation is a choice at the
place where the code looks; a pipe holds one byte; a program that leaves
the group may survive (best effort, as the code says). The probe of an identity
on Windows (`run_bounded_probe`, whose joins have no deadline) is not modelled.

### WindowsRun

Client, process host and Job: `HostStep`, `HostThread`, `HostKills` are the host's loop,
threads and its ending of the tree, `ClientStep`, `ClientStops`, `ClientGivesUp` the
client's loop, `HostCrashes` and `ClientDies` the crashes. Records are `start`,
`terminal` and `huge`; `kin` are descendants. Standard error takes the same
way under its own limit and is left out. Two things the code does and the
properties allow for: after the host's io deadline the tail of stdout may be
lost, and counts of host and client may disagree, so that an empty Job is
reported as a failed cleanup (it errs on the safe side).

### InstalledRun

A run of an installed adapter from preparation to result (`RunStep`), its private
directory, the Prime service (`DaemonStep`), the settlement (`SettleStep`) and the
cleanups `cli cleanup prime <handle>` (`StartCleanup`, `CleanupStep`), with
`MaxFaults` failing calls or kills (`KillProcess`). A run that ends as misconfigured
after its preparation ignores a removal that fails, as the code does.
A handle stays valid through cleanups one at a time only: overlapping
cleanups can lose it, and no doc promises otherwise.

### HostedRuns

Several CLI processes of one machine, their journal, and the service with the
network. A command is a record in `cli`; `pc` is the place in `submit`, `watch`,
`consume`, `record`. `RecordRead` and `RecordWrite` are two actions because the
code reads the entry and writes it back. `Deadline`, `Grace` and `HelperCancels` are
the `--wait` deadline with its helper thread. A POST may be lost, refused,
answered, served with its answer lost, or stay in the network (`flight`) and be
admitted later, even after the command gave up: `http.rs` leaves the exchange
thread running. The service keys runs by session and owes nothing.

### JournalFile, AtomicEntry

`Journal::write` with `write_private` and `get`: remove the leftover temporary
file, create, write, sync, rename, with kills in between and power failures that
undo renames and cut unsynced data. `Overlap` says whether two
processes may write the same entry at once. `AtomicEntry` is the promise of the
comment at `rc/service/journal.rs`, line 155; `HostedRuns` takes a replacement as
one step, which `Atomic` justifies while writers take turns.

### ServiceScripts, ServiceCommands

`ServiceScripts` lists for every hosted operation the steps its handler takes in
order (read, gate, key, change, save, ...). `ServiceCommands` runs them against
a service that others change too: exchanges that are answered, refused, lost,
malformed or interrupted (`Answered`, `GiveUp`, `Interrupt`), requests the service
handles later (`Handle`), the confirmation gate, and the user who repeats a
command (`Repeat`), up to three command lines. A status 4xx means not applied;
reads are atomic; a repeated command resolves moving names anew.

### Transfer

Downloads into a directory and single output files, with several commands on one
destination: `Preflight`, `ReadManifest`, `MakeDirectory`, `CreateFile`, `AskFile`,
`ReadSome`, `SyncFile`, `WritePartial`, `LinkMarker`, `UnlinkPartial`, and kills and power
failures. `result show --raw` creates its file before the request; the marker stands
even if its temporary name cannot be removed; directory entries are taken to be as
durable as the synced file.

### HostedJobs

`job contract attach` and `job configure` as read, gate and write, against
`OthersChange`, for services that merge and services that replace. Others
change the job only while the command runs; a plan is made only where the code
makes one (`given` within `{"model"}`).

### DeviceLogin

The login against `Expiry`, cancellation and the stores of Linux (one write) and
macOS (remove, then add; prompts that may be denied, an old key that may be
lost). A write may land after the tool that asked for it was killed (`WriteLands`).

### PackageFetch, PublishedKernel

`package fetch`: two requests, staging file by file, one rename that replaces
nothing, cleanup by name; the registry, a foreign program and kills interfere.
`OneFetchWins` is `FetchedIsMine` (a success owns the destination) with `LostRaceIsClean`
(a loser leaves nothing unless its own call failed). `PublishedKernel`:
descriptor, inventory and kernel asked for while a publisher uploads
(`Upload`); releases are meant to be immutable, but the site may upload one
again. An alarm after the last file was read no longer stops the image.

### SettingRules, Settings, UserConfig

Resolution of eight of the nineteen settings, which stand for their kinds, from
user file, project file, environment and flags, with defaults that depend on
the harness, the cross checks and the explanation (`Settings`); and the commands
that change the user's file (`UserConfig`): locate, read, edit, write a temporary
file, sync, install by rename or hard link, remove the temporary name. The
candidates that explain a setting are a set: there is at most one of each layer,
and the layers' ranks give the order the code keeps them in.

### Forwarding

From a resolved command to the report: image, route, probes of version,
capabilities and login, launch, supervision, settlement (`ChooseRoute` ...
`Conclude`) for runs, dry runs, doctor and listings; `spawned` is every program
started, with what it was given and what it answered.

### LiveOutput

The record streams of five adapters as automata, and the live output that completes
every prefix, normalizes it and shows what the final rendering would show
(`Observe`, `Settle`). A text is a sequence of kinds of lines. Streams with tools
are in `ToolStream`.

### ToolStream

The acceptance of a stream of an RPC harness with native tools (`normalize_mode` and
`PrimeDrain`): one action per kind of record that is taken, for three readers (`contract`):
OMP, Prime, and Prime while it drains its queue.

| Code | Model |
|---|---|
| preliminaries before the run | `ReadyShown`, `Commands`, `SessionState`, `Inventory`, `PromptTaken` |
| run, turns and messages | `AgentStarts`, `TurnStarts`, `TurnEnds`, `UserStarts` ... `AssistantEnds(stop, asks)` |
| calls of tools and their results | `ToolStarts`, `ToolEnds`, `ResultStarts`, `ResultEnds` |
| what Prime may leave out before the next message | `TurnImplied`, `MarkersImplied`, `ResultImplied` |
| queue snapshots and names of children | `QueueShown`, `ChildShown` |
| the end of a segment, with its history | `PlainEnds`, `SegmentPauses`, `RunEnds`, `RestartPromised`; `PlainHistory`, `LedHistory` |
| the restart for a queued message of a child | `QueueMoves`, `AgentRestarts`, `TurnRestarts`, `DeliveryStarts`, `DeliveryEnds` |
| refusal, failure of the harness, end of the stream | `RefuseRecord`, `HarnessFails`, `StreamEnds` |

`toolLedger` and `toolAccount` are history variables: what the records said of each
call and of the queue, whatever the reader keeps of it. Abstracted: the fields of a
record (a record of a wrong shape is `RefuseRecord`, which may come at any time), increments of
a text, and the comparison of a repeated history with what was streamed: it is the same,
or the record is refused.

## 3. Runs

| Run | Question | Properties | Bounds |
|---|---|---|---|
| `supervisor_prime` | Does the Prime protocol, with descendants, refusals, partial records and cancellation, keep the contract of a supervised run? | `TypeOK`, `NothingLeftBehind`, `OkIsEarned`, `Settled` | candidate terminals, a group of descendants, cancellation or the run deadline, one of the two in a run (`OneExpiry`) |
| `supervisor_staged` | Does the OMP dialogue lose, reorder or cut anything? | `RetainedStdin`, `StreamIsAdmitted` | a record allowed after the terminal one, huge records, one-slot channel, the startup deadline |
| `hosted_shared` | Two commands that submit, watch or resubmit one session at once: what do exits, screen and journal say? | `RunsTypeOK`, `Recoverable`, `ShownExactlyOnce`, `ReportedOrFree`, `JournalKeepsRun` | 1 session, 1 event before the end, status `completed`, one of the two commands ended from outside (`OneIsEnded`) |
| `endings` | Do six kinds of components come to an end beside a counterpart that owes nothing? | `PaidAndTruthful`, `EverythingEnds` | smallest instance of each; one submission with two sessions |
| `single_commands` | Fifteen components of one command or file each | see below | see below |
| `supervisor_blank_line` | Is an empty line a malformed record? | `WholeStreamAdmitted` violated | finding 1 |
| `hosted_unconfirmed` | Is an unconfirmed submission always ambiguous? | `UnconfirmedIsAmbiguous` violated | finding 2 |
| `journal_shared` | Is an entry replaced atomically by two writers at once? | `EntryStays` violated | finding 3 |
| `draft_refused` | Does a paid draft ever end in a local refusal? | `PaidIsNotRefused` violated | finding 4 |
| `live_blank` | Does the live output accept every valid stream? | `LiveAcceptsValid` violated | finding 5; `single_commands` checks it, and `ValidAccepted` proves it, for messages with a line that is not blank and, of OMP, with one block of text |
| `windows_joins` | Do the joins of the host end? | `JoinsEnd` violated | finding 6 |
| `cleanup_hidden` | Is a failed cleanup always reported? | `NoCleanupIsHidden` violated | finding 7 |

`single_commands` asks, component by component:

| Component | Properties | Bounds |
|---|---|---|
| `JournalFile` | `NeverBlocked`, `Atomic` | 2 writers in turn, 3 writes, 2 outages |
| `DeviceLogin` | `UnconfirmedClaim` | expiry 5, interval 1 to 3, slow-down 2, 3 polls |
| `PackageFetch` | `FetchedIsWhole`, `OneFetchWins` | 2 fetches, 2 artifacts, 2 files, 1 fault |
| `HostedJobs` | `ChangesOnlyWhatIsAsked` | 1 change of others |
| `LiveOutput` | `LiveAcceptsValid`, `NothingProtectedShown` | 5 streams, 3 messages, 1 block, 3 lines |
| `InstalledRun` | `WhatIsLeftIsTold`, `RecoveryIsSafe` | 2 cleanups, 4 faults |
| `WindowsRun` | `WindowsOkIsEarned`, `TreeIsAccountedFor` | queue 1, limit 2, 2 chunks |
| `ServiceCommands` | `OnlyConfirmedChanges`, `ReportIsTrue`, `TopUpOnce`, `OutputIsKept` | every operation, 2 things, 1 change of others, 3 command lines |
| `Transfer` | `TransferIsWhole` | 2 commands, files to 2 bytes, runs to 3, 7 lists of files |
| `Settings` | `SettledSettings` | 4 layers of 5 to 8 contents each |
| `UserConfig` | `UserFileIsSound`, `UserFileKept` | 2 commands, 2 bundles, 1 edit |
| `Forwarding` | `GrantedOnlyWhenAdmitted`, `RunIsReported` | 443 commands |
| `PublishedKernel` | `KernelIsWhole` | 2 releases, 2 editions, 2 uploads |
| `ToolStream` | `ToolRunIsSettled` | 3 readers, 2 names of calls, 2 messages of the assistant, 1 child with 1 message, 8 states of the queue |
| `ProbeRun` | `AnswerIsWhole`, `ProbeSettled` | limit 1, 1 descendant |

`PartsTypeOK` is the type invariant of the component that moves.

Some properties are conjunctions of statements about one subject, named after it:
`StreamIsAdmitted` (order, and completeness before a success), `PaidAndTruthful` (one paid run,
true outcome), `ReportedOrFree` (a named run is reported, a refused one is free),
`ShownExactlyOnce` (screen and journal), `WhatIsLeftIsTold` and `RecoveryIsSafe`,
`RunIsReported` (with `NoFallback`), `TransferIsWhole` (marker and single files),
`SettledSettings`, `ChangesOnlyWhatIsAsked`, `EverythingEnds` (one end per component).

Why the bounds are enough. A one-slot channel is full at the second message, so
every blocking order of two readers occurs with two messages. Three records
allow a record before, at and after the terminal one. Of the expiries only the
first matters to the loop; `cancel`, `run` and `startup` each occur in some run, as
does each kind of descendant (those in the group in `supervisor_prime`, quiet and
escaped ones in `endings` and `supervisor_staged`). The hosted commands branch on "no event",
"first event" and "a later or terminal event", which one event before the end gives, and two
commands give every overlap of `record` with itself; the other statuses and the
interrupt are in `endings`, a second session too (for the defect of resubmitting
with another one), and the theorems of section 5 hold without these bounds. Three
writes give an old, a current and a next entry. Two fetches, cleanups,
savers or writers give every race of two; a third adds no new pair. Four faults
reach each chain of failing removals of a run. Three messages of three lines give
an envelope before, within and after a text. Three command lines are a plan, its
confirmed form and a repeat.

Deadlock is checked in the supervisor runs, whose last state is a `Done`
stutter. `CHECK_DEADLOCK FALSE` stands where everything really may stop: commands
have ended and the bounds are used up. `hosted_shared` uses symmetry of commands; no
run of a liveness property does.

Readings that need care:

- `JournalKeepsRun` excepts sessions that are submitted again: a resubmission may write
  a fresh entry over one that names the run, since the test and the write are two
  steps.
- `OkIsEarned` says that nobody holds the pipes; a process that left the
  group and closed them is out of the supervisor's sight, as `cli/SPEC.md` says.
- A dead Prime service whose socket stays refuses every connection, so its handle
  can never be settled; the end of cleanups excepts it.
- `WindowsOkIsEarned` excepts runs whose host gave up draining at its io deadline.
- `ReportIsTrue` excepts the file of a draft that was removed by somebody else.

## 4. Fairness

Only what the code schedules is fair; counterparts owe nothing.

- `Supervisor`: the supervising thread and its helpers; a blocked read or write only
  once its stop flag is set or the other end is gone, which is when the code's
  polling ends it; the run deadline (`run_timeout` is always finite); a process
  that was sent SIGKILL dies. Harness and descendants need not read, write or
  exit.
- `HostedRuns`: own steps of a process, and its clock (deadline, connect timeout,
  helper thread). An exchange ends in some way; a read of the stream need not:
  only `ConsumeCancelled` is fair there, because the read is polled against
  the token.
- `DeviceLogin`: steps of the command, and time. The store owes no answer.
- `InstalledRun`: a cleanup goes on, a service that was told to stop stops, and the user
  tries again, as `SUPPORT.md` tells them to.
- `WindowsRun`: threads and clocks of client and host, and the kernel's ending of the
  members of a condemned Job. The harness owes nothing.
- `ProbeRun`: the prober, its readers, the clock, and the death of what was killed.

## 5. Proofs

Checked by TLAPS for every value of the constants, from the named assumptions
about them; each theorem says `Spec => []Inv` or `Spec => Property` of the same
definition that a run checks.

A theorem over behaviours (`Spec => []Inv`) is always reached the same way: an
inductive invariant that says why the property holds, one lemma per action (or
per part of the invariant and action), and one temporal step.

### SupervisorProofs (`SupervisorAssumption`)

The invariant for types and processes is `IInv`: `TypeOK` with the parts that say
where each thread can be in each phase of `pc`. It gives `TypeCorrect` and
`NothingIsLeftBehind`; `Inductive` is its induction step.

Everything about the result rests on a second invariant, `Account`. Its
conjuncts: what the loop has counted is what it received (`Unspent`), what a
reader said is what happened to its pipe (`ReadersSay`, `ReadersAtWork`), the
first cause is kept (`CauseIsKept`), a status is the child's (`StatusIsExit`), the
end of stdout is its end (`EndIsEnd`), stdin is closed only on request
(`ClosedOnRequest`), and *the stream*: what was admitted, then what the channel
holds, then what the reader holds, then the pipe, is what the harness wrote
(`Stream`, `Channel`, `Ended`, `SuccessStays`). Reader and channel mix stdout with
the messages of the other threads, so `Channel` says that there is a numbering of
the channel's places that is strictly increasing over the records. From it follow

- `SuccessIsEarned` (`OkIsEarned`), `StdinIsRetained` (`RetainedStdin`);
- `StreamInOrder`: what was admitted is a prefix of what was written, always;
- `StreamAdmitted` (`StreamIsAdmitted`): a success admitted it all. It assumes that
  the protocol has no empty line (`"empty" \notin Kinds`): with one the statement
  is false, which is finding 1;
- `RunSettles`: `Supervisor` implements `SettledRun`, each step a step of the
  abstract run or a stutter.

So all six properties of the two passing supervisor runs hold for every
protocol, capacity, harness and bound.

### RunnerProofs (`RunnerAssumption`, `ProbeAssumption`, `AskAssumption`)

Of an installed run and its recovery: `InstalledTypes`, `LeftIsTold`
(`WhatIsLeftIsTold`), `RecoverySafe` (`RecoveryIsSafe`), for any number of cleanups and
faults, overlapping cleanups included where the statement allows them.

Of a probe: `ProbeInv` adds to the types that nothing is lost before the start, on
the way or at the end of a reader (`NotStarted`, `NothingIsLost`, `OnTheWay`,
`BackIsEnded`), that one reason ends a probe (`OneReason`), and that a sweep empties the group
(`SweptIsEmpty`). `ProbeAnswerIsWhole` and the refinement `ProbeKeepsContract` follow.

Of the gates of a run: a run at a gate has behind it what the gates before it asked
(`Selected`, `Cleared`, `HalfWay`), read off the programs it started (`GatesHold`); `Admitted`
(`GrantedOnlyWhenAdmitted`) follows. `RunReported` (`RunIsReported`) rests on `ReportInv`: which
programs each command looks at (`Errands`), what was watched and left behind (`Watching`), and
that no other program stands in for the chosen one (`NoFallback`).

### AdapterProofs (`LiveAssumption`, `StreamAssumption`)

*The live output.* What it shows is flattened from a sequence of texts of any length, so its
lemmas need induction. No operator is a parameter of it here: `Least` gets the least
element of a set of numbers from the well-foundedness of the strict subset order on finite
sets (each number stands for the interval below it), and `Everywhere` is induction over
a set. `FlattenSeq` is then known by its equation (`FlatDef`, `FlatStep`, `FlatConcat`), and so are
rendering (`RenderingConcat`, `RenderingGrows`) and what may be shown of it (`VisibleType`, `VisibleIs`).

`NothingLeaks` (`NothingProtectedShown`), for every set of texts: a text is shown only after
`Safe` has seen all of it, so the work is in a protected value that is split between two messages.
`ShownFits` says that what is shown is no longer than a rendering of the messages heard; when
these grow, what was shown before such a split stays before it (`SplitStays`). `LiveTyped` is the type
of the state, through every record of the five normalizers and the completion of each prefix.

`ValidAccepted` (`LiveAcceptsValid`). A record that breaks nothing is accepted when its prefix
is completed, and what is then heard (`Heard`: the messages, of a streamed one its text so far)
follows what was heard before (`StepHeard`, one lemma per adapter). What may be shown of messages
that follow others begins with what was shown (`VisibleGrows`), which is the invariant
(`Heeded`). Two hypotheses, which the run `single_commands` satisfies: every message has a line that
is not blank (`HasLines`; without it the statement is false, finding 5), and a message of OMP has at
most one block of text (`OneBlock`; without it it is false too, see the observations in section 6).

*A stream with tools.* That a stream was accepted is decided at its end, from what the
reader kept, so `ToolInv` ties that to the ledger. The calls of the last message stand where
the ledger has them and those of earlier messages are told, or owed by the history of the
segment (`LedgerFollows`, `HistoryOwes`); the flags of the dialogue exclude each other
(`DialogShape`); what the reader holds of the queue covers what the queue announced, and it is
idle only if it was shown so after the last stop (`QueueFollows`); a delivery that is due is the
one the pending restart expects (`RestartShape`). `ToolRunsSettle` (`ToolRunIsSettled`) holds
for any number of calls, messages, children and states of the queue.

### HostedRunsProofs (`HostedAssumption`)

The invariant `RunsInv` relates four places that know of a run: the service, the
network, the journal and the record of each command. `Logs`: the log of a run
is well formed. `Commands`: every command `Fits` the program text, `Follows` the
run it has (a prefix of the log) and `Tells` at its exit what it knew. `Counted`
and `Payments`: a command's requests, in the network and served, account for the
runs it paid for. `Journalled`: a run exists only for a session whose entry exists.
`OneSubmits`, `NamedByOne`: who may resubmit, and whom a run was named to. Each
operation is first shown to *land* in a sound command; growth of runs, the
network, the journal and the counts are then dealt with once each from a
summary of the step. It yields the five properties of `hosted_shared`
(`RunsTypeCorrect`, `RunsRecoverable`, `RunsShowOnce`, `RunsReportedOrFree`, and the
action property `RunsJournalKept`) and `endings`' `PaidAndTruthful` (`RunsPayOnce`, of
which `OutcomesAreTrue` is one half).

### FileProofs (`JournalAssumption`, `ConfigAssumption`, `SettingsAssumption`)

*The journal*, under `~Overlap` besides. While writers take turns (`Alone`), the temporary
name stands for the file of the writer (`OwnsTmp`), file identities are fresh (`Fresh`), and
what the entry may name, now or after a power failure, is complete and synced
(`Durable`). `Invariance` gives `NeverBlockedHolds` and the refinement `AtomicHolds`. With
overlapping writers both are false (finding 3).

*The user's file*, for any number of commands, edits, texts and bundles. `ConfigInv`: each command is
`Sane` (it works from a file it has read, from its write on it vouches for its text, and
its temporary file holds that text), and the published file is the editor's or what
its publisher vouches for. `UserFileSound` (`UserFileIsSound`) and `UserFileReplaced` (`UserFileKept`).

*The settings*, for any contents of the layers. `SettingsInv`: after `n` layers the resolution is a
function of these layers (`After(n)`) and so are the candidates (`Offers(n)`), whatever
was recorded on the way (`InLayers`); then come the defaults (`Defaulted`). From it follows
`SettingsSettled` (`SettledSettings`): the value in use is a candidate that no rule
removes, it is the one marked, and in the report of a refusal a lower layer's value
stands in for the refused one.

### WindowsRunProofs

`IInv` says that a Job without host is condemned (`GoneIsCondemned`), that the account a
host gave is true (`AccountIsTrue`), and that the client's verdict is based on one of the
two: `TreeAccounted` (`TreeIsAccountedFor`).

`OkInv` is about the stream between four threads in two processes: while nobody gave up
or was disturbed, what the client has accepted, then the wire, the events, the host's
channel and the pipe, is what the harness wrote (`Undropped`), a reported end comes
after all of it (`EndOfFile`), and a cancellation has a cause (`CancelHasCause`). It gives
`WindowsSuccess` (`WindowsOkIsEarned`), for every queue, limit and length of stream.

### FetchProofs (`FetchAssumption`, `KernelAssumption`, `TransferAssumption`)

`FetchTypes`, `PublishedWhole` (`FetchedIsWhole`) and `OneWins` (`OneFetchWins`): each staging
directory belongs to one fetch, which has checked what it holds so far; the
destination is what exactly one of them renamed. `KernelInvariance` and `KernelWhole`
(`KernelIsWhole`): what was read so far is of the edition the descriptor
named (`ReadSoFar`), and the image was decided once for a reason that still holds
(`Decided`), though releases are uploaded again in between. `SavedWhole` (`TransferIsWhole`): by
`TransferInv` what is in a directory is its owner's (`OwnFiles`), and each command is `Sound`:
the files it has done with are whole and synced before its marker can appear, kills and
power failures included, for any number of commands and files.

### CommandProofs (`ServiceAssumption`, `JobAssumption`)

What a command has still to do is a suffix of its script, so the invariant says of each
suffix what must be behind it (`Ahead`: no change ahead of a gate that was not passed, a key
before what is keyed by it, a file created before it is written). That every script has this shape is
proved once per form of script, and every step takes the head off. `SvcInv` joins it with
what is in the network and at the service (`Commands`, `Changes`), with top-ups, whose
repeats carry one key (`TopUps`), and with the place where each command is (`Phase`). Theorems, for any number of repeats, of
things and of changes by others: `ConfirmedChanges` (`OnlyConfirmedChanges`), `TrueReports`
(`ReportIsTrue`), `OneTopUp` (`TopUpOnce`) and `OutputKept` (`OutputIsKept`).

`JobInv`: what an attach sends follows from the listing it read (`Attaching`); a configuration
carries the bindings of the revision it names, so that the service can tell whether they
are still the job's (`Configuring`). `JobChangesAreExact` (`ChangesOnlyWhatIsAsked`), for services
that merge and services that replace.

A login: `NothingWasStored` (`UnconfirmedClaim`): one that says nothing was stored has no write under
way (`WriteIsWatched`).

### What is only model-checked

- `EverythingEnds`: liveness under fairness, which needs ENABLED.
- `PartsTypeOK`: the sum of the components' type invariants; each is a conjunct of the
  inductive invariant of its component where there is a proof about it.

Every other property of a passing run is a theorem.

## 6. Findings

Seven places where the code disagrees with what the repository says of it; each
is a run whose counterexample shows it.

1. `supervisor_blank_line`: on Unix an empty line ends the reading of stdout as if the stream
   had ended (`ps/framing.rs:85`); later records are lost, and the run may succeed. The
   Bun tests and the Windows assembler call it malformed.
2. `hosted_unconfirmed`: after a dropped first attempt, a refusal of the second is reported as a
   refusal (`rc/service/runs.rs:2384`), although the first may still be admitted.
   `docs/hosted-service-client.md:35` says such an end is ambiguous.
3. `journal_shared`: one fixed temporary name per session (`rc/service/journal.rs:162`) lets two
   processes rename each other's unfinished entry, against the comment at line 155.
4. `draft_refused`: a file name that ends in a slash passes the preflight
   (`rc/service/programs.rs:79`) and is refused after the paid run, against the comment there.
5. `live_blank`: a message of blank lines is withheld as the place of the envelope and shown
   once another follows (`rc/runner.rs:1429`), so a valid run fails.
6. `windows_joins`: the host joins the stdin writer before it drains the channel
   (`wh/windows.rs:408`); a writer with a broken pipe waits for room there and the host
   never reports.
7. `cleanup_hidden`: a failed cleanup is reported as `HARNESS_NEEDS_AUTH` when the init record
   did not confirm the credential route (`rc/runner.rs:2463`).

Observed while modelling, without a sentence of the repository against it (or not
checked by a run):

- Hosted: a login cancelled after the key was stored reports the reason for its end; `run
  input` mints a new id per invocation, so a repeat may send twice; a malformed draft
  event ends without the run's id; `write_new_file` leaves a partial file behind;
  `org member remove N` repeated names another member; a lost answer of rotate-secret
  or invite loses a secret that is shown once.
- Configuration: `config unset harness` leaves a model of the other harness behind;
  `harness use` does not test the next resolution against other layers; a failed report
  may show values without the candidate they came from; `config migrate` validates a second
  read of the legacy file (`rc/config.rs:475`, 481) and copies the first; an
  installed file whose temporary name cannot be removed is reported as a failure;
  commands in replace mode may lose each other's change; directories are made
  canonical after candidates are recorded (lines 1242 and 1644).
- Live output: the deltas of an OMP message are joined to one text, but its end may bring it in
  two blocks, which are two messages (`rc/installed_adapters.rs:1163`); `reconcile_candidates` then
  refuses the stream as changed (`rc/runner.rs:1402`). With `MaxBlocks = 2` TLC finds `LiveAcceptsValid`
  violated this way. No test or doc of the repository shows such a stream.
- Runner: `doctor` with an invalid configuration says `available` and drops the detected
  version; a normalization failure after exit code 0 is classified `exit-code`.
- Supervisor and store: the writer looks at its close flag before its queue
  (`ps/supervisor.rs:1447`); a signal goes to a group by number after its leader was collected
  (`ps/platform.rs:58`); the journal's prune removes by name the entry it judged by
  content (`rc/service/journal.rs:224`); a foreign key is stored again by remove
  and add (`rc/credential_store.rs:1032`). No adapter, or no second actor of this
  repository, reaches these today.

## 7. Not modelled

Parsing of arguments, rendering, hints and triage are functions of their input;
pruning of the journal, field shapes, digests and argv are data. The Windows
credential store and the probe of an identity on Windows have neither a counterpart
on the other systems nor tests to compare with. The weave host is an experiment, the Bun runner a second
implementation of the same specification, and release and conformance tooling is
not part of the program. `PROJECT.json` has the reason for each component.

## 8. What is left

- The rendering of hosted commands would extend `LiveOutput`.
- `run input`, `org member remove` and the account's key store on a foreign entry are in
  `hazards` without a property.
