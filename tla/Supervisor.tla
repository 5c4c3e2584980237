------------------------------ MODULE Supervisor ------------------------------
(***************************************************************************)
(* One supervised harness process: prose-process-supervisor's              *)
(* supervise_direct (supervisor.rs) with the threads it starts.            *)
(*                                                                         *)
(*   child, descendant   the harness and one process it may start: in its  *)
(*                       process group (holding its pipes, or quiet), or   *)
(*                       escaped from the group with setsid                *)
(*   stdout, stderr      reader threads (framing.rs) that share one        *)
(*                       bounded channel to the supervising thread         *)
(*   stdin               the writer thread that delivers the prompt and    *)
(*                       the frames of a staged adapter                    *)
(*   pc                  the supervising thread: the receive loop, the     *)
(*                       failure path, the success path, the verdict       *)
(*                                                                         *)
(* Time is the choice of when a deadline passes; every wait of the code    *)
(* has a deadline, so a wait that has not succeeded may always give up.    *)
(***************************************************************************)
EXTENDS Naturals, Sequences, SequencesExt

CONSTANTS
    Kinds,         \* kinds of structured record the harness may write
    Allowed,       \* JsonlProtocol.allowed_events
    AllowedAfter,  \* JsonlProtocol.allowed_after_terminal_events
    Candidate,     \* JsonlProtocol.terminal_is_candidate
    Lifecycle,     \* "none" (no stdin) or a StdinLifecycle
    WriteOn,       \* records after which the observer hands over a stdin frame
    Frames,        \* stdin frames the observer has to hand over
    CloseOn,       \* records after which the observer wants stdin closed
    QueueCap,      \* StreamLimits.max_queued_records
    MaxStderr,     \* StreamLimits.max_stderr_bytes, in chunks
    Descendants,   \* kinds of descendant the harness starts
    Expiries,      \* which of cancellation and the two deadlines may come
    MaxOut,        \* bound: records the harness writes
    MaxErr         \* bound: stderr chunks the harness writes

ASSUME SupervisorAssumption ==
    /\ QueueCap \in Nat \ {0}
    /\ Frames \in Nat /\ MaxStderr \in Nat /\ MaxOut \in Nat /\ MaxErr \in Nat
    /\ Candidate \in BOOLEAN
    /\ Lifecycle \in {"none", "close-after-write", "close-after-terminal"}
    /\ Descendants \subseteq {"group", "quiet", "escaped"}
    /\ Expiries \subseteq {"cancel", "startup", "run"}
    /\ Kinds \subseteq {"start", "event", "ack", "terminal", "failure",
                        "refused", "other", "bad", "empty", "huge", "partial"}

VARIABLES
    child,      \* "unborn", "running", "zombie" (exited), "reaped" (collected)
    exit,       \* exit status: "none", "good", "bad"
    desc,       \* the living descendant: "none", or one of Descendants
    killed,     \* SIGKILL was sent to the process group
    written,    \* records written to the stdout pipe so far
    nread,      \* how many of them the stdout reader took
    errs,       \* stderr chunks written but not read
    nerr,       \* stderr chunks read
    rd,         \* reader thread -> "reading", "done" or the message it sends
    stop,       \* thread -> its stop flag
    chan,       \* the bounded channel of ReaderMessage
    dropped,    \* the receiving end of the channel is gone
    wr,         \* writer thread: "writing", "loop", "recv", "ok", "err"
    wq,         \* frames queued for the writer (capacity 2)
    wclose,     \* the writer's close flag
    sent,       \* frames handed to request_write
    delivered,  \* frames written completely to the stdin pipe
    pc,         \* where the supervising thread is
    status,     \* process_status: the collected exit status
    started, terminal, admitted,      \* ProtocolState
    outEof, errEof,
    failure,    \* the FailureKind that ended the loop or the setup
    after,      \* what a finished termination returns to
    cleanup,    \* result of terminate_original_process_group
    settled,    \* thread -> outcome of settle
    outcome,    \* what supervise returns: "none" while it runs
    cancelled, startupDue, runDue

childVars  == <<child, exit, desc, killed>>
pipeVars   == <<written, nread, errs, nerr>>
chanVars   == <<chan, dropped>>
writerVars == <<wr, wq, wclose, sent, delivered>>
protoVars  == <<started, terminal, admitted, outEof, errEof>>
endVars    == <<failure, after, cleanup, settled, outcome>>
clockVars  == <<cancelled, startupDue, runDue>>
vars == <<childVars, pipeVars, rd, stop, chanVars, writerVars, pc, status,
          protoVars, endVars, clockVars>>

Readers == {"stdout", "stderr"}
Threads == Readers \cup {"stdin"}

\* ReaderMessage (framing.rs): a record is its kind.
Finals   == {"eof", "truncated", "limit", "errEof", "errLimit"}
Messages == Kinds \cup {"errChunk"} \cup Finals

FailureKinds == {"Cancelled", "RecursiveInvocation", "HarnessUnavailable",
                 "ContainmentUnsupported", "Internal", "StartupTimeout",
                 "RunTimeout", "ProtocolMalformed", "ProtocolTruncated",
                 "HarnessFailed", "CleanupFailed"}
Outcomes == FailureKinds \cup {"none", "Ok"}

-----------------------------------------------------------------------------
\* Processes and pipes.

ChildLives  == child = "running"
\* platform.rs original_process_group_is_empty: kill(-pgid, 0) fails only when
\* the group has no member left, an uncollected child included.
InGroup     == desc \in {"group", "quiet"}
GroupEmpty  == child \in {"unborn", "reaped"} /\ ~InGroup
\* Somebody still holds the harness's end of the three pipes.
Inherited   == desc \in {"group", "escaped"}
PipesHeld   == ChildLives \/ Inherited

Finished(t) == IF t = "stdin" THEN wr \in {"ok", "err"} ELSE rd[t] = "done"

\* Collecting the child's status (try_wait, wait) when it has exited.
Reaped   == IF child = "zombie" THEN "reaped" ELSE child
Collected == IF child \in {"zombie", "reaped"} THEN exit ELSE "none"

Init ==
    /\ child = "unborn" /\ exit = "none" /\ desc = "none" /\ killed = FALSE
    /\ written = <<>> /\ nread = 0 /\ errs = 0 /\ nerr = 0
    /\ rd = [t \in Readers |-> "done"]
    /\ stop = [t \in Threads |-> FALSE]
    /\ chan = <<>> /\ dropped = FALSE
    /\ wr = "ok" /\ wq = 0 /\ wclose = FALSE /\ sent = 0 /\ delivered = 0
    /\ pc = "entry" /\ status = "none"
    /\ started = FALSE /\ terminal = FALSE /\ admitted = <<>>
    /\ outEof = FALSE /\ errEof = FALSE
    /\ failure = "none" /\ after = "verdict" /\ cleanup = "none"
    /\ settled = [t \in Threads |-> "unset"]
    /\ outcome = "none"
    /\ cancelled = FALSE /\ startupDue = FALSE /\ runDue = FALSE

-----------------------------------------------------------------------------
\* The harness (external): it writes records and diagnostics, starts one
\* descendant at a time, and exits when it likes; SIGKILL ends every group member.

ChildWrites(k) ==
    /\ ChildLives /\ ~killed /\ rd["stdout"] \notin {"done", "eof", "truncated"}
    /\ Len(written) < MaxOut
    /\ \A i \in DOMAIN written : written[i] # "partial"
    /\ written' = Append(written, k)
    /\ UNCHANGED <<childVars, nread, errs, nerr, rd, stop, chanVars, writerVars,
                   pc, status, protoVars, endVars, clockVars>>

ChildComplains ==
    /\ ChildLives /\ ~killed /\ errs + nerr < MaxErr
    /\ errs' = errs + 1
    /\ UNCHANGED <<childVars, written, nread, nerr, rd, stop, chanVars, writerVars,
                   pc, status, protoVars, endVars, clockVars>>

ChildForks(where) ==
    /\ ChildLives /\ ~killed /\ desc = "none"
    /\ desc' = where
    /\ UNCHANGED <<child, exit, killed, pipeVars, rd, stop, chanVars, writerVars,
                   pc, status, protoVars, endVars, clockVars>>

ChildExits(code) ==
    /\ ChildLives
    /\ killed => code = "bad"
    /\ child' = "zombie" /\ exit' = code
    /\ UNCHANGED <<desc, killed, pipeVars, rd, stop, chanVars, writerVars,
                   pc, status, protoVars, endVars, clockVars>>

DescendantExits ==
    /\ desc # "none"
    /\ desc' = "none"
    /\ UNCHANGED <<child, exit, killed, pipeVars, rd, stop, chanVars, writerVars,
                   pc, status, protoVars, endVars, clockVars>>

Harness ==
    \/ \E k \in Kinds : ChildWrites(k)
    \/ ChildComplains
    \/ \E where \in Descendants : ChildForks(where)
    \/ \E code \in {"good", "bad"} : ChildExits(code)
    \/ DescendantExits

\* The signal handler sets the cancellation token; the two deadlines pass. The
\* supervising thread looks at them in its loop and nowhere later.
Watched == pc \in {"entry", "setup", "poll", "recv"}

Cancel ==
    /\ "cancel" \in Expiries
    /\ Watched /\ ~cancelled /\ cancelled' = TRUE
    /\ UNCHANGED <<childVars, pipeVars, rd, stop, chanVars, writerVars, pc, status,
                   protoVars, endVars, startupDue, runDue>>

StartupDeadline ==
    /\ "startup" \in Expiries
    /\ Watched /\ child # "unborn" /\ ~started /\ ~startupDue /\ startupDue' = TRUE
    /\ UNCHANGED <<childVars, pipeVars, rd, stop, chanVars, writerVars, pc, status,
                   protoVars, endVars, cancelled, runDue>>

RunDeadline ==
    /\ "run" \in Expiries
    /\ Watched /\ child # "unborn" /\ ~runDue /\ runDue' = TRUE
    /\ UNCHANGED <<childVars, pipeVars, rd, stop, chanVars, writerVars, pc, status,
                   protoVars, endVars, cancelled, startupDue>>

-----------------------------------------------------------------------------
\* Reader threads (framing.rs read_jsonl, read_stderr).

\* A reader returns after its final message; read_jsonl also returns, without
\* any message, at an empty record.
ReadStdout ==
    /\ rd["stdout"] = "reading" /\ ~stop["stdout"] /\ nread < Len(written)
    /\ LET k == written[nread + 1] IN
       /\ nread' = nread + 1
       /\ rd' = [rd EXCEPT !["stdout"] =
                   CASE k = "empty"   -> "done"
                     [] k = "huge"    -> "limit"
                     [] k = "partial" -> "reading"
                     [] OTHER         -> k]
    /\ UNCHANGED <<childVars, written, errs, nerr, stop, chanVars, writerVars,
                   pc, status, protoVars, endVars, clockVars>>

\* End of file, or the stop flag that InterruptibleReader turns into one. A
\* harness may close its stdout before it exits, if no descendant inherited it.
StdoutEnds ==
    /\ rd["stdout"] = "reading"
    /\ stop["stdout"] \/ (nread = Len(written) /\ ~Inherited)
    /\ rd' = [rd EXCEPT !["stdout"] =
                IF nread > 0 /\ written[nread] = "partial" THEN "truncated" ELSE "eof"]
    /\ UNCHANGED <<childVars, pipeVars, stop, chanVars, writerVars, pc, status,
                   protoVars, endVars, clockVars>>

ReadStderr ==
    /\ rd["stderr"] = "reading" /\ ~stop["stderr"] /\ errs > 0
    /\ errs' = errs - 1 /\ nerr' = nerr + 1
    /\ rd' = [rd EXCEPT !["stderr"] =
                IF nerr + 1 > MaxStderr THEN "errLimit" ELSE "errChunk"]
    /\ UNCHANGED <<childVars, written, nread, stop, chanVars, writerVars, pc, status,
                   protoVars, endVars, clockVars>>

StderrEnds ==
    /\ rd["stderr"] = "reading"
    /\ stop["stderr"] \/ (errs = 0 /\ ~PipesHeld)
    /\ rd' = [rd EXCEPT !["stderr"] = "errEof"]
    /\ UNCHANGED <<childVars, pipeVars, stop, chanVars, writerVars, pc, status,
                   protoVars, endVars, clockVars>>

\* Mutations of Send: a channel without its bound, and a try_send that loses
\* what does not fit.
SendUnbounded(t) ==
    /\ rd[t] \in Messages
    /\ \/ dropped /\ rd' = [rd EXCEPT ![t] = "done"] /\ UNCHANGED chan
       \/ /\ ~dropped
          /\ chan' = Append(chan, rd[t])
          /\ rd' = [rd EXCEPT ![t] = IF rd[t] \in Finals THEN "done" ELSE "reading"]
    /\ UNCHANGED <<childVars, pipeVars, stop, dropped, writerVars, pc, status,
                   protoVars, endVars, clockVars>>

SendLossy(t) ==
    /\ rd[t] \in Messages
    /\ chan' = IF dropped \/ Len(chan) = QueueCap THEN chan ELSE Append(chan, rd[t])
    /\ rd' = [rd EXCEPT ![t] = IF rd[t] \in Finals THEN "done" ELSE "reading"]
    /\ UNCHANGED <<childVars, pipeVars, stop, dropped, writerVars, pc, status,
                   protoVars, endVars, clockVars>>

\* SyncSender::send blocks while the channel is full and fails once the
\* receiver is gone.
Send(t) ==
    /\ rd[t] \in Messages
    /\ \/ dropped /\ rd' = [rd EXCEPT ![t] = "done"] /\ UNCHANGED chan
       \/ /\ ~dropped /\ Len(chan) < QueueCap
          /\ chan' = Append(chan, rd[t])
          /\ rd' = [rd EXCEPT ![t] = IF rd[t] \in Finals THEN "done" ELSE "reading"]
    /\ UNCHANGED <<childVars, pipeVars, stop, dropped, writerVars, pc, status,
                   protoVars, endVars, clockVars>>

-----------------------------------------------------------------------------
\* The stdin writer thread (spawn_stdin_writer).

\* A whole frame is in the pipe: the harness, or a descendant, reads or the
\* pipe has room. Nothing obliges the harness to read.
FrameWritten ==
    /\ wr = "writing" /\ ~stop["stdin"] /\ PipesHeld
    /\ delivered' = delivered + 1
    /\ wr' = IF Lifecycle = "close-after-write" THEN "ok" ELSE "loop"
    /\ UNCHANGED <<childVars, pipeVars, rd, stop, chanVars, wq, wclose, sent, pc,
                   status, protoVars, endVars, clockVars>>

\* Mutation of FrameFails: a blocked write does not look at the stop flag.
FrameFailsUnstopped ==
    /\ wr = "writing" /\ ~PipesHeld
    /\ wr' = "err"
    /\ UNCHANGED <<childVars, pipeVars, rd, stop, chanVars, wq, wclose, sent, delivered,
                   pc, status, protoVars, endVars, clockVars>>

\* The stop flag, or a broken pipe: a living harness may close its stdin, too.
FrameFails ==
    /\ wr = "writing"
    /\ wr' = "err"
    /\ UNCHANGED <<childVars, pipeVars, rd, stop, chanVars, wq, wclose, sent, delivered,
                   pc, status, protoVars, endVars, clockVars>>

\* Mutation of WriterChecks: an idle writer closes the pipe.
WriterChecksIdle ==
    /\ wr = "loop"
    /\ wr' = CASE stop["stdin"] -> "err" [] ~stop["stdin"] /\ (wclose \/ wq = 0) -> "ok"
               [] OTHER -> "recv"
    /\ UNCHANGED <<childVars, pipeVars, rd, stop, chanVars, wq, wclose, sent, delivered,
                   pc, status, protoVars, endVars, clockVars>>

\* Between frames the writer looks at stop, then at close, then at its queue.
WriterChecks ==
    /\ wr = "loop"
    /\ wr' = CASE stop["stdin"] -> "err" [] ~stop["stdin"] /\ wclose -> "ok"
               [] OTHER -> "recv"
    /\ UNCHANGED <<childVars, pipeVars, rd, stop, chanVars, wq, wclose, sent, delivered,
                   pc, status, protoVars, endVars, clockVars>>

WriterTakes ==
    /\ wr = "recv"
    /\ wr' = IF wq > 0 THEN "writing" ELSE "loop"
    /\ wq' = IF wq > 0 THEN wq - 1 ELSE wq
    /\ UNCHANGED <<childVars, pipeVars, rd, stop, chanVars, wclose, sent, delivered,
                   pc, status, protoVars, endVars, clockVars>>

Writer == FrameWritten \/ FrameFails \/ WriterChecks \/ WriterTakes

-----------------------------------------------------------------------------
\* ProtocolState::accept: the failure a record earns, "none" when admitted.

Verdict(k) ==
    CASE k = "bad" -> "ProtocolMalformed"
      [] k # "bad" /\ terminal /\ ~Candidate ->
            IF k \in AllowedAfter THEN "none" ELSE "ProtocolMalformed"
      [] k = "failure" /\ ~(terminal /\ ~Candidate) -> "HarnessFailed"
      [] OTHER ->
            IF \/ ~started /\ k # "start"
               \/ started /\ k = "start" /\ k \notin Allowed
               \/ started /\ k \notin Allowed \cup {"start", "terminal"}
            THEN "ProtocolMalformed" ELSE "none"

\* handle_message: the failure a message of the channel causes. The observer
\* sees a record that was accepted, and may still refuse it.
MessageFailure(m) ==
    CASE m \in Kinds     -> IF Verdict(m) = "none" /\ m = "refused"
                            THEN "HarnessFailed" ELSE Verdict(m)
      [] m = "truncated" -> "ProtocolTruncated"
      [] m = "limit"     -> "ProtocolMalformed"
      [] m = "errLimit"  -> "HarnessFailed"
      [] OTHER           -> "none"

\* ManagedStdin::request_write of the frame the observer holds.
WriteFailure ==
    CASE Lifecycle = "none"                        -> "Internal"
      [] Lifecycle # "none" /\ Finished("stdin")   -> "HarnessFailed"
      [] OTHER -> IF wq = 2 THEN "Internal" ELSE "none"

HasFrame(m) == m \in WriteOn /\ sent < Frames

-----------------------------------------------------------------------------
\* The supervising thread: setup.

MainEntry ==
    /\ pc = "entry"
    /\ IF cancelled THEN pc' = "done" /\ outcome' = "Cancelled"
                    ELSE pc' = "setup" /\ UNCHANGED outcome
    /\ UNCHANGED <<childVars, pipeVars, rd, stop, chanVars, writerVars, status,
                   protoVars, failure, after, cleanup, settled, clockVars>>

\* Resolution, recursion and containment refusals: nothing was spawned.
SetupRefused(kind) ==
    /\ pc = "setup"
    /\ pc' = "done" /\ outcome' = kind
    /\ UNCHANGED <<childVars, pipeVars, rd, stop, chanVars, writerVars, status,
                   protoVars, failure, after, cleanup, settled, clockVars>>

\* The child runs with its writer and readers, or one of its pipes could not
\* be prepared ("stdin", "stdout", "stderr") and the child is terminated.
Spawn(missing) ==
    /\ pc = "setup"
    /\ missing = "stdin" => Lifecycle # "none"
    /\ child' = "running"
    /\ LET writes == Lifecycle # "none" /\ missing # "stdin"
           reads  == CASE missing = "none"   -> Readers
                       [] missing = "stderr" -> {"stdout"}
                       [] OTHER              -> {}
       IN /\ rd' = [t \in Readers |-> IF t \in reads THEN "reading" ELSE "done"]
          /\ wr' = IF writes THEN "writing" ELSE "ok"
          /\ settled' = [t \in Threads |->
                           IF t \in reads \/ (t = "stdin" /\ writes) THEN "unset" ELSE "clean"]
    /\ wclose' = (Lifecycle = "close-after-write")
    /\ IF missing = "none"
       THEN pc' = "poll" /\ UNCHANGED <<failure, after, stop>>
       ELSE /\ pc' = "term" /\ after' = "setup"
            /\ failure' = "ContainmentUnsupported"
            /\ stop' = [stop EXCEPT !["stdin"] = (missing # "stdin")]
    /\ UNCHANGED <<exit, desc, killed, pipeVars, chanVars, wq, sent, delivered, status,
                   protoVars, cleanup, outcome, clockVars>>

-----------------------------------------------------------------------------
\* The receive loop: try_wait, cancellation, deadlines; then one message.

Expired ==
    CASE cancelled                            -> "Cancelled"
      [] ~cancelled /\ ~started /\ startupDue -> "StartupTimeout"
      [] OTHER -> IF runDue THEN "RunTimeout" ELSE "none"

MainPoll ==
    /\ pc = "poll"
    /\ child' = Reaped /\ status' = Collected
    /\ failure' = Expired
    /\ pc' = IF Expired = "none" THEN "recv" ELSE "stop"
    /\ UNCHANGED <<exit, desc, killed, pipeVars, rd, stop, chanVars, writerVars,
                   protoVars, after, cleanup, settled, outcome, clockVars>>

\* handle_message, the observer's stdin frame and close request, and the
\* close at an accepted terminal record.
MainReceive ==
    /\ pc = "recv" /\ chan # <<>>
    /\ LET m        == Head(chan)
           accepted == m \in Kinds /\ Verdict(m) = "none"
           observed == accepted /\ MessageFailure(m) = "none"
           frame    == observed /\ HasFrame(m)
           fail     == IF frame THEN WriteFailure ELSE MessageFailure(m)
       IN /\ chan' = Tail(chan)
          /\ admitted' = IF accepted THEN Append(admitted, m) ELSE admitted
          /\ started' = (started \/ accepted)
          /\ terminal' = (terminal \/ (accepted /\ m = "terminal"))
          /\ outEof' = (outEof \/ m = "eof")
          /\ errEof' = (errEof \/ m = "errEof")
          /\ wq' = IF frame /\ fail = "none" THEN wq + 1 ELSE wq
          /\ sent' = IF frame /\ fail = "none" THEN sent + 1 ELSE sent
          /\ wclose' = \/ wclose
                       \/ observed /\ m \in CloseOn
                       \/ fail = "none" /\ terminal' /\ ~Candidate
          /\ failure' = fail
          /\ pc' = CASE fail # "none" -> "stop"
                     [] fail = "none" /\ status # "none" /\ outEof' /\ errEof' -> "close"
                     [] OTHER -> "poll"
    /\ UNCHANGED <<childVars, pipeVars, rd, stop, dropped, wr, delivered, status,
                   after, cleanup, settled, outcome, clockVars>>

\* recv_timeout found nothing: every sender gone counts as both ends of file.
MainIdle ==
    /\ pc = "recv" /\ chan = <<>>
    /\ LET hungUp == \A t \in Readers : rd[t] = "done"
       IN /\ outEof' = (outEof \/ hungUp) /\ errEof' = (errEof \/ hungUp)
          /\ pc' = IF status # "none" /\ outEof' /\ errEof' THEN "close" ELSE "poll"
    /\ UNCHANGED <<childVars, pipeVars, rd, stop, chanVars, writerVars, status, started,
                   terminal, admitted, endVars, clockVars>>

-----------------------------------------------------------------------------
\* The failure path, up to the termination of the process group.

\* request_stdin_stop; a protocol failure first gives the child a moment to
\* exit by itself.
MainStop ==
    /\ pc = "stop"
    /\ stop' = [stop EXCEPT !["stdin"] = TRUE]
    /\ after' = "fail"
    /\ pc' = IF /\ status = "none"
                /\ failure \in {"ProtocolMalformed", "ProtocolTruncated", "HarnessFailed"}
             THEN "natural" ELSE "term"
    /\ UNCHANGED <<childVars, pipeVars, rd, chanVars, writerVars, status, protoVars,
                   failure, cleanup, settled, outcome, clockVars>>

\* wait_for_natural_process_exit: the exit is collected, or 250 ms pass.
MainNatural ==
    /\ pc = "natural"
    /\ child' = Reaped /\ status' = Collected
    /\ pc' = "term"
    /\ UNCHANGED <<exit, desc, killed, pipeVars, rd, stop, chanVars, writerVars,
                   protoVars, endVars, clockVars>>

-----------------------------------------------------------------------------
\* platform.rs terminate_original_process_group.

\* SIGTERM obliges nobody; the grace ends when the child is collected or the
\* time is over; then SIGKILL goes to the whole group in any case.
Kill ==
    /\ pc = "term"
    /\ child' = Reaped
    /\ killed' = TRUE
    /\ pc' = "reap"
    /\ UNCHANGED <<exit, desc, pipeVars, rd, stop, chanVars, writerVars, status, protoVars,
                   endVars, clockVars>>

\* Where a finished termination returns to.
Terminated(result) ==
    /\ cleanup' = result
    /\ CASE after = "fail"     -> pc' = "drain"  /\ UNCHANGED <<outcome, chanVars>>
         [] after = "setup"    -> /\ pc' = "settle" /\ dropped' = TRUE /\ chan' = <<>>
                                  /\ UNCHANGED outcome
         [] after = "leftover" -> /\ pc' = "done" /\ outcome' = "CleanupFailed"
                                  /\ UNCHANGED chanVars

\* The child is collected and the group is gone before the hard deadline.
ReapedInTime ==
    /\ pc = "reap"
    /\ child \in {"zombie", "reaped"} /\ ~InGroup
    /\ child' = "reaped"
    /\ Terminated("clean")
    /\ UNCHANGED <<exit, desc, killed, pipeVars, rd, stop, writerVars, status, protoVars,
                   failure, after, settled, clockVars>>

ReapDeadline ==
    /\ pc = "reap"
    /\ child' = Reaped /\ pc' = "wait"
    /\ UNCHANGED <<exit, desc, killed, pipeVars, rd, stop, chanVars, writerVars, status,
                   protoVars, endVars, clockVars>>

\* child.wait blocks until the killed child has exited; the group is tested
\* one last time.
ReapWait ==
    /\ pc = "wait" /\ child \in {"zombie", "reaped"}
    /\ child' = "reaped"
    /\ Terminated(IF InGroup THEN "failed" ELSE "clean")
    /\ UNCHANGED <<exit, desc, killed, pipeVars, rd, stop, writerVars, status, protoVars,
                   failure, after, settled, clockVars>>

-----------------------------------------------------------------------------
\* Settling the helper threads.

\* settle_readers_with_diagnostics (failure path) keeps draining the channel,
\* so that no reader stays blocked in send.
Drain ==
    /\ pc = "drain" /\ chan # <<>>
    /\ chan' = Tail(chan)
    /\ UNCHANGED <<childVars, pipeVars, rd, stop, dropped, writerVars, pc, status,
                   protoVars, endVars, clockVars>>

\* The natural deadline: unfinished readers are told to stop, both at once.
ForceReaders ==
    /\ pc = "drain"
    /\ \A t \in Readers : settled[t] \in {"unset", "clean"}
    /\ \E t \in Readers : settled[t] = "unset" /\ ~Finished(t)
    /\ settled' = [t \in Threads |-> IF t \in Readers /\ ~Finished(t) THEN "forcing"
                                     ELSE settled[t]]
    /\ stop' = [t \in Threads |-> stop[t] \/ (t \in Readers /\ ~Finished(t))]
    /\ UNCHANGED <<childVars, pipeVars, rd, chanVars, writerVars, pc, status, protoVars,
                   failure, after, cleanup, outcome, clockVars>>

\* Both readers finished, or the second deadline passed; the receiver goes.
ReadersSettled ==
    /\ pc = "drain"
    /\ \/ \A t \in Readers : Finished(t)
       \/ \E t \in Readers : settled[t] = "forcing"
    /\ settled' = [t \in Threads |->
         CASE t = "stdin" -> settled[t]
           [] t # "stdin" /\ settled[t] = "forcing" -> IF Finished(t) THEN "forced" ELSE "lost"
           [] OTHER -> "clean"]
    /\ dropped' = TRUE /\ chan' = <<>>
    /\ pc' = "settle"
    /\ UNCHANGED <<childVars, pipeVars, rd, stop, writerVars, status, protoVars,
                   failure, after, cleanup, outcome, clockVars>>

\* The success path: release stdin, drop the receiver, settle each thread.
MainClose ==
    /\ pc = "close"
    /\ wclose' = TRUE /\ dropped' = TRUE /\ chan' = <<>>
    /\ pc' = "settle"
    /\ UNCHANGED <<childVars, pipeVars, rd, stop, wr, wq, sent, delivered, status,
                   protoVars, endVars, clockVars>>

\* ManagedReader::settle and ManagedStdin::settle, one thread after another.
Turn(t) ==
    /\ pc = "settle"
    /\ settled[t] \in {"unset", "forcing"}
    /\ t # "stdout" => settled["stdout"] \notin {"unset", "forcing"}
    /\ t = "stdin"  => settled["stderr"] \notin {"unset", "forcing"}

Settle(t) ==
    /\ Turn(t)
    /\ CASE settled[t] = "unset" /\ Finished(t) ->
              settled' = [settled EXCEPT ![t] = "clean"] /\ UNCHANGED stop
         [] settled[t] = "unset" /\ ~Finished(t) ->
              /\ settled' = [settled EXCEPT ![t] = "forcing"]
              /\ stop' = [stop EXCEPT ![t] = TRUE]
         [] settled[t] = "forcing" ->
              /\ settled' = [settled EXCEPT ![t] = IF Finished(t) THEN "forced" ELSE "lost"]
              /\ UNCHANGED stop
    /\ UNCHANGED <<childVars, pipeVars, rd, chanVars, writerVars, pc, status, protoVars,
                   failure, after, cleanup, outcome, clockVars>>

-----------------------------------------------------------------------------
\* The verdict.

AllSettled == \A t \in Threads : settled[t] \notin {"unset", "forcing"}
AllClean   == \A t \in Threads : settled[t] = "clean"

\* Mutations of FailureVerdict: the cleanup is not looked at; the exit status of
\* the child that was killed wins over the cause it was killed for.
FailureVerdictUnchecked ==
    /\ pc = "settle" /\ after \in {"fail", "setup"} /\ AllSettled
    /\ outcome' = failure /\ pc' = "done"
    /\ UNCHANGED <<childVars, pipeVars, rd, stop, chanVars, writerVars, status, protoVars,
                   failure, after, cleanup, settled, clockVars>>

FailureVerdictBlamesExit ==
    /\ pc = "settle" /\ after \in {"fail", "setup"} /\ AllSettled
    /\ outcome' = CASE cleanup # "clean" \/ ~AllClean -> "CleanupFailed"
                     [] cleanup = "clean" /\ AllClean /\ exit = "bad" -> "HarnessFailed"
                     [] OTHER -> failure
    /\ pc' = "done"
    /\ UNCHANGED <<childVars, pipeVars, rd, stop, chanVars, writerVars, status, protoVars,
                   failure, after, cleanup, settled, clockVars>>

\* A failed run keeps its failure only when nothing was left behind.
FailureVerdict ==
    /\ pc = "settle" /\ after \in {"fail", "setup"} /\ AllSettled
    /\ outcome' = IF cleanup = "clean" /\ AllClean THEN failure ELSE "CleanupFailed"
    /\ pc' = "done"
    /\ UNCHANGED <<childVars, pipeVars, rd, stop, chanVars, writerVars, status, protoVars,
                   failure, after, cleanup, settled, clockVars>>

\* Mutation of StreamVerdict: the terminal record outweighs the exit status.
StreamVerdictAnyExit ==
    CASE wr = "err"               -> "HarnessFailed"
      [] wr # "err" /\ ~terminal  -> "ProtocolTruncated"
      [] OTHER                    -> "Ok"

\* A run whose streams ended: leftovers first, then input delivery, then the
\* terminal record, then the exit status.
StreamVerdict ==
    CASE wr = "err"                          -> "HarnessFailed"
      [] wr # "err" /\ ~terminal             -> "ProtocolTruncated"
      [] OTHER -> IF status = "good" THEN "Ok" ELSE "HarnessFailed"

SuccessVerdict ==
    /\ pc = "settle" /\ after = "verdict" /\ AllSettled
    /\ IF AllClean /\ GroupEmpty
       THEN pc' = "done" /\ outcome' = StreamVerdict /\ UNCHANGED after
       ELSE pc' = "term" /\ after' = "leftover" /\ UNCHANGED outcome
    /\ UNCHANGED <<childVars, pipeVars, rd, stop, chanVars, writerVars, status, protoVars,
                   failure, cleanup, settled, clockVars>>

Supervise ==
    \/ MainEntry
    \/ \E kind \in {"RecursiveInvocation", "HarnessUnavailable", "ContainmentUnsupported"} :
          SetupRefused(kind)
    \/ \E missing \in {"none", "stdin", "stdout", "stderr"} : Spawn(missing)
    \/ MainPoll \/ MainReceive \/ MainIdle
    \/ MainStop \/ MainNatural
    \/ Kill \/ ReapedInTime \/ ReapDeadline \/ ReapWait
    \/ Drain \/ ForceReaders \/ ReadersSettled
    \/ MainClose \/ (\E t \in Threads : Settle(t))
    \/ FailureVerdict \/ SuccessVerdict

Done == pc = "done" /\ UNCHANGED vars

Next ==
    \/ Harness
    \/ Cancel \/ StartupDeadline \/ RunDeadline
    \/ ReadStdout \/ StdoutEnds \/ ReadStderr \/ StderrEnds
    \/ (\E t \in Readers : Send(t))
    \/ Writer
    \/ Supervise
    \/ Done

Spec == Init /\ [][Next]_vars

\* The threads are scheduled, the run deadline comes, and what was killed
\* dies. Neither the harness nor its descendant owes anything else: it need
\* not read, write or exit.
KilledDies ==
    /\ killed
    /\ ChildExits("bad") \/ (InGroup /\ DescendantExits)

Fairness ==
    /\ WF_vars(Supervise)
    /\ WF_vars(ReadStdout \/ ((stop["stdout"] \/ ~PipesHeld) /\ StdoutEnds) \/ Send("stdout"))
    /\ WF_vars(ReadStderr \/ StderrEnds \/ Send("stderr"))
    /\ WF_vars(WriterChecks \/ WriterTakes \/ ((stop["stdin"] \/ ~PipesHeld) /\ FrameFails))
    /\ WF_vars(RunDeadline)
    /\ WF_vars(KilledDies)

FairSpec == Spec /\ Fairness

-----------------------------------------------------------------------------
\* Properties.

TypeOK ==
    /\ child \in {"unborn", "running", "zombie", "reaped"}
    /\ exit \in {"none", "good", "bad"} /\ status \in {"none", "good", "bad"}
    /\ desc \in {"none", "group", "quiet", "escaped"} /\ killed \in BOOLEAN
    /\ written \in Seq(Kinds) /\ admitted \in Seq(Kinds)
    /\ nread \in Nat /\ errs \in Nat /\ nerr \in Nat
    /\ rd \in [Readers -> {"reading", "done"} \cup Messages]
    /\ stop \in [Threads -> BOOLEAN]
    /\ chan \in Seq(Messages) /\ Len(chan) <= QueueCap /\ dropped \in BOOLEAN
    /\ wr \in {"writing", "loop", "recv", "ok", "err"}
    /\ wq \in 0..2 /\ wclose \in BOOLEAN /\ sent \in Nat /\ delivered \in Nat
    /\ pc \in {"entry", "setup", "poll", "recv", "stop", "natural", "term", "reap", "wait", "drain", "close", "settle", "done"}
    /\ started \in BOOLEAN /\ terminal \in BOOLEAN
    /\ outEof \in BOOLEAN /\ errEof \in BOOLEAN
    /\ failure \in FailureKinds \cup {"none"}
    /\ after \in {"verdict", "fail", "setup", "leftover"}
    /\ cleanup \in {"none", "clean", "failed"}
    /\ settled \in [Threads -> {"unset", "forcing", "clean", "forced", "lost"}]
    /\ outcome \in Outcomes
    /\ cancelled \in BOOLEAN /\ startupDue \in BOOLEAN /\ runDue \in BOOLEAN

\* Whatever supervise returns, unless it says CleanupFailed, the original
\* process group is gone and no helper thread is left (SPEC section 10, 15).
NothingLeftBehind ==
    outcome \notin {"none", "CleanupFailed"} =>
        GroupEmpty /\ \A t \in Threads : Finished(t)

\* Success needs a terminal record and an accepted exit of the real child, all
\* input delivered without error, and no descendant that keeps the pipes, an
\* escaped one included (SPEC section 10, 13 to 15).
OkIsEarned ==
    outcome = "Ok" =>
        terminal /\ exit = "good" /\ wr = "ok" /\ ~PipesHeld

\* The reader, the channel and the loop neither lose, reorder nor duplicate:
\* what was admitted is what the harness wrote first.
AdmittedInOrder == IsPrefix(admitted, written)

\* A successful run admitted every record the harness wrote.
WholeStreamAdmitted == outcome = "Ok" => admitted = written

\* The stream of the harness is admitted in its order, and whole before a success.
StreamIsAdmitted == AdmittedInOrder /\ WholeStreamAdmitted

\* Stdin kept open for a staged adapter is not closed under a healthy run: its
\* end waits for the terminal record or for the observer's request.
RetainedStdin ==
    Lifecycle = "close-after-terminal" /\ wr = "ok" /\ pc \in {"poll", "recv"} =>
        terminal \/ \E i \in DOMAIN admitted : admitted[i] \in CloseOn

\* supervise_direct keeps the promise of SettledRun through every race of exit,
\* cancellation, deadlines, readers and writer (SPEC section 10, 12 to 15).
Contract ==
    INSTANCE SettledRun WITH
        Causes   <- FailureKinds \ {"CleanupFailed"},
        Verdicts <- {"Ok", "HarnessFailed", "ProtocolTruncated"},
        phase    <- CASE outcome # "none" -> "ended"
                      [] outcome = "none" /\ child = "unborn" -> "idle"
                      [] OTHER -> "running",
        alive    <- ~GroupEmpty,
        cause    <- failure,
        result   <- outcome

Settled == Contract!Spec

\* Every supervision returns: neither a full channel, a blocked writer, a
\* silent child nor a descendant that keeps the pipes can hold it for ever.
Termination == <>(pc = "done")

\* No helper thread outlives the run for good, a forced or lost one included.
ThreadsEnd == <>[](\A t \in Threads : Finished(t))

\* No member of the original process group survives, CleanupFailed included.
GroupEnds == <>[]GroupEmpty

\* Nothing of a supervision goes on for good: it returns, its helper threads
\* end, and so does its group.
NothingGoesOn == Termination /\ ThreadsEnd /\ GroupEnds
=============================================================================
