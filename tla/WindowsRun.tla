----------------------------- MODULE WindowsRun ------------------------------
(***************************************************************************)
(* A supervised run on Windows: the client in the runner, the process host  *)
(* it starts, and the process tree in the host's Job object.                *)
(* Source: prose-process-supervisor windows_supervision.rs, windows_host.rs *)
(* (client); cli/platform/windows-process-host/src/windows.rs (host).       *)
(*                                                                          *)
(* The host looks at its control channel, its clock and one message of its  *)
(* threads in turn, ends the tree, joins its threads and reports the end    *)
(* with the state of the Job; its error path closes the Job instead.  The   *)
(* client turns what it hears and when it stops waiting into a verdict.     *)
(* Both loops poll, and a poll that finds nothing is no step; deadlines     *)
(* pass at any time.  A chunk of stdout is one record of the harness, or a  *)
(* huge one beyond the limit.  Standard error takes the same way under a    *)
(* limit of its own, and is left out.                                       *)
(***************************************************************************)
EXTENDS Naturals, Sequences

CONSTANTS Queue,       \* capacity of the host's channels (max_queued_chunks)
          OutLimit,    \* output the request allows, a record counting 1
          MaxChunks    \* bound: chunks the harness writes

VARIABLES
    hostAt,      \* what the host's main thread does next
    cause,       \* why the host ends the tree: "none" is a natural end
    io,          \* channel from the host's readers and stdin writer
    input,       \* the host's stdin writer
    pumped,      \* the reader has sent its end of file
    ended,       \* the main thread has seen it
    counted,     \* output the main thread has counted
    remaining,   \* whether the Job still had a process when the host gave up on it
    events,      \* channel to the host's event writer
    hostExit,    \* exit of the host process, "none" while it runs
    leader,       \* the harness: "none", "running", or how it exited
    kin,         \* descendants in the Job that have outlived the harness
    condemned,   \* the kernel was told to end the members of the Job
    pipe,        \* what the harness wrote and nobody read
    wrote,       \* everything it wrote
    wire,        \* event lines on their way to the client
    diagnosed,   \* the host's error line: "no", "written", "read"
    control,     \* what the client did to the host's stdin: "open", "cancel", "eof"
    clientAt,    \* what the client does next
    pending,     \* the client's first cause to stop
    cancelSent,  \* the cancel line was written, and the settlement deadline set
    decoder,     \* the client's decoder of event lines
    records,     \* records the protocol has accepted
    returned      \* what supervise returned

hostVars    == <<hostAt, cause, io, input, pumped, ended, counted, remaining, events,
                 hostExit>>
treeVars    == <<leader, kin, condemned, pipe, wrote>>
lineVars    == <<wire, diagnosed, control>>
clientVars  == <<clientAt, pending, cancelSent, decoder, records, returned>>
windowsVars == <<hostVars, treeVars, lineVars, clientVars>>

OutKinds == {"start", "terminal", "huge"}

Size(m) == IF m = "huge" THEN OutLimit + 1 ELSE 1

HostSteps == {"none", "request", "loop", "killing", "cleanup", "emptying", "joinInput", "settle",
              "joinReaders", "flush", "gone"}

Terminations == {"none", "cancelled", "parent-disconnected", "timeout", "output-limit",
                 "io-failure", "backpressure"}

\* Members of the Job.
Alive == leader = "running" \/ kin

\* get_or_insert: the first cause stays.
First(old, new) == IF old = "none" THEN new ELSE old

NoLines == [started |-> FALSE, out |-> 0, evidence |-> FALSE, poisoned |-> FALSE]

WindowsTypeOK ==
    /\ hostAt \in HostSteps /\ cause \in Terminations
    /\ io \in Seq(OutKinds \cup {"end", "stdinFailed"}) /\ Len(io) <= Queue
    /\ input \in {"writing", "failing", "done"}
    /\ pumped \in BOOLEAN /\ ended \in BOOLEAN /\ (ended => pumped)
    /\ counted \in 0..(MaxChunks * (OutLimit + 1))
    /\ remaining \in BOOLEAN
    /\ Len(events) <= Queue
    /\ hostExit \in {"none", "clean", "unclean", "failed", "crashed"}
    /\ leader \in {"none", "running", "exit0", "exit1"} /\ kin \in BOOLEAN
    /\ condemned \in BOOLEAN
    /\ wrote \in Seq(OutKinds)
    /\ diagnosed \in {"no", "written", "read"} /\ control \in {"open", "cancel", "eof"}
    /\ clientAt \in {"start", "loop", "verdict", "done", "killed"}
    /\ cancelSent \in BOOLEAN
    /\ decoder \in [started : BOOLEAN, out : 0..MaxChunks, evidence : BOOLEAN,
                    poisoned : BOOLEAN]

WindowsInit ==
    /\ hostAt = "none" /\ cause = "none" /\ io = <<>> /\ input = "writing"
    /\ pumped = FALSE /\ ended = FALSE /\ counted = 0 /\ remaining = FALSE
    /\ events = <<>> /\ hostExit = "none"
    /\ leader = "none" /\ kin = FALSE /\ condemned = FALSE
    /\ pipe = <<>> /\ wrote = <<>>
    /\ wire = <<>> /\ diagnosed = "no" /\ control = "open"
    /\ clientAt = "start" /\ pending = "none" /\ cancelSent = FALSE
    /\ decoder = NoLines /\ records = <<>> /\ returned = "none"

-----------------------------------------------------------------------------
(* The harness, its descendants and the kernel                              *)

HostRuns == hostAt \notin {"none", "request", "gone"}

\* What it writes once the host is gone reaches nobody.
TreeWrites ==
    /\ leader = "running" /\ HostRuns /\ Len(wrote) < MaxChunks
    /\ \E k \in OutKinds : pipe' = Append(pipe, k) /\ wrote' = Append(wrote, k)
    /\ UNCHANGED <<hostVars, leader, kin, condemned, lineVars, clientVars>>

\* On its own, at CTRL_BREAK, or ended by the kernel; what it started may live
\* on in the Job, and makes no difference before.
ChildEnds ==
    /\ leader = "running"
    /\ leader' \in IF condemned THEN {"exit1"} ELSE {"exit0", "exit1"}
    /\ kin' \in BOOLEAN
    /\ UNCHANGED <<hostVars, condemned, pipe, wrote, lineVars, clientVars>>

KinEnds ==
    /\ kin /\ kin' = FALSE
    /\ UNCHANGED <<hostVars, leader, condemned, pipe, wrote, lineVars, clientVars>>

-----------------------------------------------------------------------------
(* Threads of the host                                                      *)

\* spawn_reader: a full channel blocks it; the end of the file is a message.
Pump ==
    /\ HostRuns /\ ~pumped /\ Len(io) < Queue
    /\ \/ /\ pipe # <<>>
          /\ io' = Append(io, Head(pipe)) /\ pipe' = Tail(pipe) /\ UNCHANGED pumped
       \/ /\ pipe = <<>> /\ ~Alive
          /\ io' = Append(io, "end") /\ pumped' = TRUE /\ UNCHANGED pipe
    /\ UNCHANGED <<hostAt, cause, input, ended, counted, remaining, events, hostExit,
                   leader, kin, condemned, wrote, lineVars, clientVars>>

\* spawn_stdin_writer: the task is read by the tree, or the pipe breaks and
\* that is a message, too.
WriteInput ==
    /\ HostRuns
    /\ \/ input = "writing" /\ input' = "done" /\ UNCHANGED io
       \/ input = "writing" /\ ~Alive /\ input' = "failing" /\ UNCHANGED io
       \/ input = "failing" /\ Len(io) < Queue /\ input' = "done"
          /\ io' = Append(io, "stdinFailed")
    /\ UNCHANGED <<hostAt, cause, pumped, ended, counted, remaining, events, hostExit,
                   treeVars, lineVars, clientVars>>

\* spawn_event_writer, with a client that reads.
WriteEvent ==
    /\ HostRuns /\ events # <<>> /\ clientAt # "killed"
    /\ wire' = Append(wire, Head(events)) /\ events' = Tail(events)
    /\ UNCHANGED <<hostAt, cause, io, input, pumped, ended, counted, remaining,
                   hostExit, treeVars, diagnosed, control, clientVars>>

-----------------------------------------------------------------------------
(* The host's main thread                                                   *)

\* The process ends: its Job, its pipes and its channels are closed, and its
\* threads end with it.
HostEnds(exit) ==
    /\ hostAt' = "gone" /\ hostExit' = exit /\ condemned' = TRUE
    /\ io' = <<>> /\ events' = <<>> /\ pipe' = <<>>
    /\ input' = "done" /\ pumped' = TRUE

\* An error of run_inner: one line on stderr; the event writer may be cut in
\* the middle of a line.
HostFails ==
    /\ HostEnds("failed") /\ diagnosed' = "written"
    /\ wire' \in IF events = <<>> THEN {wire} ELSE {wire, Append(wire, "cut")}

HostGoes(next) ==
    hostAt' = next /\ UNCHANGED <<hostExit, diagnosed, condemned, wire, pipe, input, pumped>>

\* enqueue_event never waits: a full queue or a lost client is an error.
CanSend == Len(events) < Queue /\ clientAt # "killed"

\* The request is refused, or the harness cannot be started: no tree.
HostRefuses ==
    /\ hostAt = "request" /\ HostFails
    /\ UNCHANGED <<cause, ended, counted, remaining, leader,
                   kin, wrote, control, clientVars>>

\* The harness is created suspended, put into the Job and resumed.
HostStarts ==
    /\ hostAt = "request"
    /\ hostAt' = "loop" /\ leader' = "running" /\ events' = <<"started">>
    /\ UNCHANGED <<cause, io, input, pumped, ended, counted, remaining, hostExit,
                   kin, condemned, pipe, wrote, lineVars, clientVars>>

\* Writer status, control and clock; only the first cause counts.  The control
\* event of any cause follows in the same round, and starts the grace.
HostSeesCause ==
    /\ hostAt = "loop" /\ cause = "none"
    /\ \/ clientAt = "killed" /\ events # <<>> /\ cause' = "backpressure"
       \/ control = "cancel" /\ cause' = "cancelled"
       \/ control = "eof" /\ cause' = "parent-disconnected"
       \/ cause' = "timeout"
    /\ UNCHANGED <<hostAt, io, input, pumped, ended, counted, remaining, events, hostExit,
                   treeVars, lineVars, clientVars>>

\* apply_io_message, then on to the next step or out by an error.
Admit(m, next) ==
    \/ /\ m = "end" /\ ended' = TRUE
       /\ io' = Tail(io) /\ HostGoes(next) /\ UNCHANGED <<cause, counted, events>>
    \/ /\ m = "stdinFailed" /\ cause' = First(cause, "io-failure")
       /\ io' = Tail(io) /\ HostGoes(next) /\ UNCHANGED <<ended, counted, events>>
    \/ /\ m \in OutKinds /\ counted' = counted + Size(m)
       /\ \/ /\ counted' > OutLimit /\ cause' = First(cause, "output-limit")
             /\ io' = Tail(io) /\ HostGoes(next) /\ UNCHANGED events
          \/ /\ counted' <= OutLimit /\ CanSend /\ events' = Append(events, m)
             /\ io' = Tail(io) /\ HostGoes(next) /\ UNCHANGED cause
          \/ counted' <= OutLimit /\ ~CanSend /\ HostFails /\ UNCHANGED cause
       /\ UNCHANGED ended

HostDrains ==
    /\ hostAt = "loop" /\ io # <<>> /\ Admit(Head(io), "loop")
    /\ UNCHANGED <<remaining, leader, kin, wrote, control, clientVars>>

\* The harness has ended, by itself or after the control event.
HostCollects ==
    /\ hostAt = "loop" /\ leader # "running"
    /\ hostAt' = "cleanup"
    /\ UNCHANGED <<cause, io, input, pumped, ended, counted, remaining, events, hostExit,
                   treeVars, lineVars, clientVars>>

\* The grace is over.
HostKills ==
    /\ hostAt = "loop" /\ cause # "none" /\ leader = "running"
    /\ condemned' = TRUE /\ hostAt' = "killing"
    /\ UNCHANGED <<cause, io, input, pumped, ended, counted, remaining, events,
                   hostExit, leader, kin, pipe, wrote, lineVars, clientVars>>

HostKilled ==
    /\ hostAt = "killing"
    /\ \/ leader # "running" /\ HostGoes("cleanup") /\ UNCHANGED <<io, events>>
       \/ leader = "running" /\ HostFails
    /\ UNCHANGED <<cause, ended, counted, remaining, leader, kin, wrote,
                   control, clientVars>>

\* What is left of the tree when its root has ended.
HostCleans ==
    /\ hostAt = "cleanup"
    /\ condemned' = (condemned \/ kin) /\ hostAt' = "emptying"
    /\ UNCHANGED <<cause, io, input, pumped, ended, counted, remaining, events,
                   hostExit, leader, kin, pipe, wrote, lineVars, clientVars>>

\* Until the Job is empty, or for as long as the request allows.
HostEmpties ==
    /\ hostAt = "emptying"
    /\ remaining' = Alive /\ hostAt' = "joinInput"
    /\ UNCHANGED <<cause, io, input, pumped, ended, counted, events, hostExit,
                   treeVars, lineVars, clientVars>>

HostJoinsInput ==
    /\ hostAt = "joinInput" /\ input = "done"
    /\ hostAt' = "settle"
    /\ UNCHANGED <<cause, io, input, pumped, ended, counted, remaining, events,
                   hostExit, treeVars, lineVars, clientVars>>

\* The channel is drained until both ends of file or a deadline.
HostSettles ==
    /\ hostAt = "settle"
    /\ \/ io # <<>> /\ ~ended /\ Admit(Head(io), "settle")
       \/ HostGoes("joinReaders") /\ UNCHANGED <<cause, io, ended, counted, events>>
    /\ UNCHANGED <<remaining, leader, kin, wrote, control, clientVars>>

\* The readers are joined, and the end of the run is an event.
HostReports ==
    /\ hostAt = "joinReaders" /\ pumped
    /\ \/ /\ CanSend /\ events' = Append(events, "exited")
          /\ HostGoes("flush") /\ UNCHANGED io
       \/ ~CanSend /\ HostFails
    /\ UNCHANGED <<cause, ended, counted, remaining, leader, kin, wrote,
                   control, clientVars>>

\* The event writer is joined; the exit of the host closes the Job.
HostExits ==
    /\ hostAt = "flush" /\ (events = <<>> \/ clientAt = "killed")
    /\ HostEnds(IF remaining THEN "unclean" ELSE "clean")
    /\ UNCHANGED <<cause, ended, counted, remaining, leader, kin, wrote,
                   lineVars, clientVars>>

\* The host is killed from outside, or crashes.
HostCrashes ==
    /\ HostRuns
    /\ HostEnds("crashed")
    /\ wire' \in {wire, Append(wire, "cut")}
    /\ UNCHANGED <<cause, ended, counted, remaining, leader, kin, wrote,
                   diagnosed, control, clientVars>>

-----------------------------------------------------------------------------
(* The client                                                               *)

\* Arguments, host digest, identity and version probe, and the request itself.
ClientStarts ==
    /\ clientAt = "start"
    /\ \/ returned' = "refused" /\ clientAt' = "done" /\ UNCHANGED hostAt
       \/ hostAt' = "request" /\ clientAt' = "loop" /\ UNCHANGED returned
    /\ UNCHANGED <<cause, io, input, pumped, ended, counted, remaining, events,
                   hostExit, treeVars, lineVars, pending, cancelSent, decoder, records>>

\* The first cause sends the cancel line and sets the settlement deadline.
SendCancel == cancelSent' = TRUE /\ control' = "cancel"

\* The user cancels, or the startup or the run deadline passes.
ClientStops ==
    /\ clientAt = "loop" /\ pending = "none"
    /\ pending' = "stopped" /\ SendCancel
    /\ UNCHANGED <<hostVars, treeVars, wire, diagnosed, clientAt, decoder, records, returned>>

\* What was heard is the cause.
ClientCancels ==
    /\ clientAt = "loop" /\ pending # "none" /\ ~cancelSent /\ SendCancel
    /\ UNCHANGED <<hostVars, treeVars, wire, diagnosed, clientAt, pending, decoder, records,
                   returned>>

\* What the protocol says to one more record of the harness.
ProtocolError(k) ==
    \/ k = "start" /\ records # <<>>
    \/ k = "terminal" /\ (records = <<>> \/ records[Len(records)] = "terminal")

\* The count of the end is that of the client, or it is over the limit and the
\* host says so.
CountsAgree == counted = decoder.out \/ (cause = "output-limit" /\ counted > OutLimit)

\* A line the decoder does not accept, now or ever after.
Unexpected(m) ==
    \/ decoder.poisoned \/ decoder.evidence
    \/ decoder.started = (m = "started")
    \/ m = "exited" /\ ~CountsAgree

\* accept_line and what the loop does with it.
Hear(m) ==
    CASE m = "cut" ->
            pending' = First(pending, "ProtocolTruncated") /\ UNCHANGED <<decoder, records>>
      [] m # "cut" /\ Unexpected(m) ->
            /\ decoder' = [decoder EXCEPT !.poisoned = TRUE]
            /\ pending' = First(pending, "ProtocolMalformed") /\ UNCHANGED records
      [] m = "started" /\ ~Unexpected(m) ->
            decoder' = [decoder EXCEPT !.started = TRUE] /\ UNCHANGED <<pending, records>>
      [] m = "exited" /\ ~Unexpected(m) ->
            decoder' = [decoder EXCEPT !.evidence = TRUE] /\ UNCHANGED <<pending, records>>
      [] m \in OutKinds /\ ~Unexpected(m) ->
            /\ decoder' = [decoder EXCEPT !.out = @ + 1]
            /\ pending' = IF ProtocolError(m) THEN First(pending, "ProtocolMalformed") ELSE pending
            /\ records' = IF ProtocolError(m) THEN records ELSE Append(records, m)

\* One message of either reader.
ClientHears ==
    /\ clientAt = "loop"
    /\ \/ wire # <<>> /\ wire' = Tail(wire) /\ Hear(Head(wire)) /\ UNCHANGED diagnosed
       \/ diagnosed = "written" /\ diagnosed' = "read"
          /\ UNCHANGED <<wire, decoder, pending, records>>
    /\ UNCHANGED <<hostVars, treeVars, control, clientAt, cancelSent, returned>>

\* The host is collected and both of its streams have ended.
HostHeard == hostAt = "gone" /\ wire = <<>> /\ diagnosed # "written"

ClientEnds ==
    /\ clientAt = "loop" /\ HostHeard
    /\ clientAt' = "verdict"
    /\ UNCHANGED <<hostVars, treeVars, lineVars, pending, cancelSent, decoder, records, returned>>

\* Mutant: the host is left to itself.
ClientLeaves ==
    /\ clientAt = "loop" /\ cancelSent /\ ~HostHeard
    /\ returned' = "CleanupFailed" /\ clientAt' = "done"
    /\ UNCHANGED <<hostVars, treeVars, lineVars, pending, cancelSent, decoder, records>>

\* The settlement deadline: the host is killed.
ClientGivesUp ==
    /\ clientAt = "loop" /\ cancelSent /\ ~HostHeard
    /\ returned' = "CleanupFailed" /\ clientAt' = "done"
    /\ HostEnds(IF hostAt = "gone" THEN hostExit ELSE "crashed")
    /\ UNCHANGED <<cause, ended, counted, remaining, leader, kin, wrote,
                   lineVars, pending, cancelSent, decoder, records>>

\* What the host's own account of the end becomes (WindowsHostClient::finish).
HostAccount ==
    CASE hostExit # "clean"                             -> "HarnessFailed"
      [] hostExit = "clean" /\ cause = "none"           -> "natural"
      [] hostExit = "clean" /\ cause \in {"cancelled", "timeout"} -> "stopped"
      [] hostExit = "clean" /\ cause = "output-limit"   ->
            IF counted > OutLimit THEN "ProtocolMalformed" ELSE "HarnessFailed"
      [] hostExit = "clean" /\ cause = "parent-disconnected" -> "Internal"
      [] OTHER                                          -> "HarnessFailed"

\* Mutant: the terminal record is believed whatever the exit.
RunVerdictByRecords ==
    IF \E i \in 1..Len(records) : records[i] = "terminal" THEN "Ok" ELSE "ProtocolTruncated"

\* The end of a natural run, by its records and its exit (supervise_windows).
RunVerdict ==
    CASE \A i \in 1..Len(records) : records[i] # "terminal" -> "ProtocolTruncated"
      [] \E i \in 1..Len(records) : records[i] = "terminal"  ->
            IF leader = "exit0" THEN "Ok" ELSE "HarnessFailed"

\* The order of the returns at the end of execute_host.
Settlement ==
    LET proved == decoder.evidence /\ ~remaining IN
    CASE decoder.poisoned ->
            IF proved /\ hostExit = "clean" THEN First(pending, "ProtocolMalformed")
            ELSE "CleanupFailed"
      [] ~decoder.poisoned /\ decoder.evidence /\ remaining -> "CleanupFailed"
      [] ~decoder.poisoned /\ ~decoder.evidence /\ diagnosed = "read" -> "Bootstrap"
      [] ~decoder.poisoned /\ proved /\ diagnosed = "read" -> "ProtocolMalformed"
      [] ~decoder.poisoned /\ ~decoder.evidence /\ diagnosed # "read" -> "CleanupFailed"
      [] ~decoder.poisoned /\ proved /\ diagnosed # "read" ->
            IF HostAccount \in {"natural", "stopped"} /\ pending # "none"
            THEN pending
            ELSE IF HostAccount = "natural" THEN RunVerdict ELSE HostAccount

ClientSettles ==
    /\ clientAt = "verdict" /\ clientAt' = "done"
    /\ returned' = Settlement
    /\ UNCHANGED <<hostVars, treeVars, lineVars, pending, cancelSent, decoder, records>>

\* The runner is killed: its memory is gone, and its ends of the pipes close.
ClientDies ==
    /\ clientAt \in {"loop", "verdict"} /\ clientAt' = "killed"
    /\ control' = IF control = "open" THEN "eof" ELSE control
    /\ wire' = <<>> /\ pending' = "none" /\ decoder' = NoLines /\ records' = <<>>
    /\ UNCHANGED <<hostVars, treeVars, diagnosed, cancelSent, returned>>

-----------------------------------------------------------------------------

TreeStep == TreeWrites \/ ChildEnds \/ KinEnds

HostThread == Pump \/ WriteInput \/ WriteEvent

HostStep ==
    \/ HostRefuses \/ HostStarts \/ HostSeesCause \/ HostDrains \/ HostCollects \/ HostKilled
    \/ HostCleans \/ HostEmpties \/ HostJoinsInput \/ HostSettles \/ HostReports \/ HostExits

ClientStep == ClientStarts \/ ClientCancels \/ ClientHears \/ ClientEnds \/ ClientSettles

WindowsNext ==
    \/ TreeStep \/ HostThread \/ HostStep \/ HostKills \/ HostCrashes
    \/ ClientStep \/ ClientStops \/ ClientGivesUp \/ ClientDies

WindowsSpec == WindowsInit /\ [][WindowsNext]_windowsVars

\* The threads and the clocks go on, and the kernel ends what it was told to
\* end; the harness and its descendants owe nothing.
WindowsFairness ==
    /\ WF_windowsVars(ClientStep \/ ClientStops \/ ClientGivesUp)
    /\ WF_windowsVars(HostStep \/ HostKills \/ WriteEvent \/ Pump
                               \/ (input = "failing" /\ WriteInput))
    /\ WF_windowsVars(condemned /\ (ChildEnds \/ KinEnds))

WindowsFair == WindowsSpec /\ WindowsFairness

-----------------------------------------------------------------------------
(* Properties                                                               *)

\* A run that succeeds ended by itself: every record the harness wrote was
\* accepted unless the host stopped draining at its deadline, it exited with 0,
\* its Job is empty and nothing asked for an end.
WindowsOkIsEarned ==
    returned = "Ok" =>
        /\ records = wrote \/ ~ended
        /\ leader = "exit0" /\ ~kin
        /\ pending = "none" /\ cause = "none"

\* What supervise returns with the host's account, the Job is empty; a failure
\* of the host or of the wait for it has at least closed the Job.
TreeIsAccountedFor ==
    returned \notin {"none", "refused"} =>
        ~Alive \/ (returned \in {"Bootstrap", "CleanupFailed"} /\ condemned)

\* Every run returns, even where the host is stuck, and the process tree ends,
\* even where the runner was killed.
WindowsSettles == <>[](clientAt \in {"done", "killed"} /\ ~Alive)

\* The joins of the host end: no thread it waits for waits for room in the
\* channel that nobody drains any more.
JoinsEnd ==
    /\ hostAt = "joinInput" => ~(input = "failing" /\ Len(io) = Queue)
    /\ hostAt = "joinReaders" => ~(~pumped /\ Len(io) = Queue)
=============================================================================
