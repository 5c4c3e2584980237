------------------------------ MODULE HostedRuns ------------------------------
(***************************************************************************)
(* Hosted runs: `run submit` and `run watch` (service/runs.rs) of several   *)
(* CLI processes on one machine, the run journal they share (journal.rs),   *)
(* and the service with the network before it (external).                   *)
(*                                                                         *)
(*   run, flight   the service: the run of each session with its event log, *)
(*                 and POSTs that a dropped connection left in the network  *)
(*   journal       one entry per session; an entry is replaced atomically,  *)
(*                 but `record` reads it and writes it back in two steps    *)
(*   cli           one record per process: program counter, Follow,         *)
(*                 Deadline, the cancellation token, the exit code          *)
(*                                                                         *)
(* The service keys runs by session ("the same session never starts a      *)
(* second run", runs.rs), so a run is named by its session here.            *)
(***************************************************************************)
EXTENDS Naturals, Sequences, FiniteSets

CONSTANTS
    Procs,       \* CLI processes
    Sessions,    \* session uuids
    None,        \* no session, no run, no journal entry
    Modes,       \* commands a process may be: "submit", "resume", "watch"
    Statuses,    \* how a run may end: "completed", "failed", "cancelled"
    Refusals,    \* answers to a POST that admit nothing: "refused", "conflict"
    MaxEvents,   \* bound: events of a run before its terminal event
    Ends         \* what may end a command early: "interrupt", "deadline", "crash"

Entries == [run : Sessions \cup {None}, last : Nat]

ASSUME HostedAssumption ==
    /\ None \notin Sessions \cup Procs \cup Entries
    /\ Modes \subseteq {"submit", "resume", "watch"}
    /\ Statuses \subseteq {"completed", "failed", "cancelled"}
    /\ Refusals \subseteq {"refused", "conflict"}
    /\ MaxEvents \in Nat
    /\ Ends \subseteq {"interrupt", "deadline", "crash"}

VARIABLES run, flight, journal, cli
runsVars == <<run, flight, journal, cli>>

EventKinds   == {"status", "error", "run_complete"}
NoRun   == [status |-> "none", log |-> <<>>, owner |-> None]
Fresh   == [run |-> None, last |-> 0]
Ended(s) == run[s].status \in {"completed", "failed", "cancelled"}

\* Outcomes of consume that end an attempt, and the exit codes of a command.
Outs  == {"none", "terminal", "error_end", "closed", "lost", "detached", "deadline",
          "interrupted", "protocol", "reused", "readmitted"}
Codes == {"none", "reused", "detached", "completed", "failed", "cancelled", "lost",
          "deadline", "ambiguous", "refused", "protocol", "journal", "elsewhere"}
Places == {"idle", "reuse", "entry", "write", "post", "stream", "read", "put",
           "deliver", "settle", "exit", "crashed"}

Idle == [pc |-> "idle", mode |-> None, session |-> None, run |-> None, start |-> 0,
         after |-> 0, cursor |-> 0, seen |-> <<>>, error |-> FALSE, again |-> FALSE,
         detach |-> FALSE, create |-> FALSE, snap |-> Fresh, out |-> "none",
         code |-> "none", hit |-> FALSE, grace |-> FALSE, token |-> FALSE]

RunsInit ==
    /\ run = [s \in Sessions |-> NoRun]
    /\ flight = {}
    /\ journal = [s \in Sessions |-> None]
    /\ cli = [p \in Procs |-> Idle]

At(p, place) == cli[p].pc = place
Active(p)    == cli[p].pc \notin {"idle", "exit", "crashed"}
Submits(p)   == cli[p].mode \in {"submit", "resume"}

\* p goes on with its record changed to c; p leaves with an exit code.
Goes(p, c)    == cli' = [cli EXCEPT ![p] = c]
\* Of a command that ended, what it was, what it showed and what it said stays.
Leave(c, x)   ==
    [Idle EXCEPT !.pc = "exit", !.code = x, !.mode = c.mode, !.session = c.session,
                 !.run = c.run, !.start = c.start, !.seen = c.seen, !.again = c.again]
\* An attempt is over: the journal is brought up to date, then it is judged.
Over(c, o)    == [c EXCEPT !.pc = "read", !.create = FALSE, !.out = o]

-----------------------------------------------------------------------------
\* The service (external).

Admitted(s, p) == [status |-> "live", log |-> <<>>, owner |-> p]

Emit(s, kind) ==
    /\ run[s].status = "live" /\ Len(run[s].log) < MaxEvents
    /\ run' = [run EXCEPT ![s].log = Append(@, kind)]
    /\ UNCHANGED <<flight, journal, cli>>

Finish(s, status) ==
    /\ run[s].status = "live"
    /\ run' = [run EXCEPT ![s].status = status, ![s].log = Append(@, "run_complete")]
    /\ UNCHANGED <<flight, journal, cli>>

\* A run may end with an error event and no terminal event.
Abort(s) ==
    /\ run[s].status = "live" /\ run[s].log # <<>>
    /\ run[s].log[Len(run[s].log)] = "error"
    /\ run' = [run EXCEPT ![s].status = "failed"]
    /\ UNCHANGED <<flight, journal, cli>>

\* A POST that a dropped connection left behind is admitted late, or never.
LateAdmission(s, p) ==
    /\ <<s, p>> \in flight
    /\ flight' = flight \ {<<s, p>>}
    /\ run' = IF run[s].status = "none" THEN [run EXCEPT ![s] = Admitted(s, p)] ELSE run
    /\ UNCHANGED <<journal, cli>>

Service ==
    \/ \E s \in Sessions : \E kind \in {"status", "error"} : Emit(s, kind)
    \/ \E s \in Sessions : \E status \in Statuses : Finish(s, status)
    \/ \E s \in Sessions : Abort(s)
    \/ \E s \in Sessions, p \in Procs : LateAdmission(s, p)

-----------------------------------------------------------------------------
\* Starting a command.

\* A fresh uuid; --wait, the detach flag and the request are set.
StartSubmit(p, s, detach) ==
    /\ "submit" \in Modes /\ At(p, "idle")
    /\ \A q \in Procs : cli[q].session # s
    /\ journal[s] = None /\ run[s] = NoRun
    /\ Goes(p, [Idle EXCEPT !.pc = "write", !.mode = "submit", !.session = s,
                            !.detach = detach])
    /\ UNCHANGED <<run, flight, journal>>

\* `run submit --session S` of a session some command of this machine used.
StartResume(p, s, detach) ==
    /\ "resume" \in Modes /\ At(p, "idle")
    /\ \E q \in Procs : cli[q].session = s
    /\ Goes(p, [Idle EXCEPT !.pc = "reuse", !.mode = "resume", !.session = s,
                            !.detach = detach])
    /\ UNCHANGED <<run, flight, journal>>

\* `run watch RUN [--after N]`: the session is that of the journal entry which
\* names the run; without one the run record is read instead.
StartWatch(p, s, after) ==
    /\ "watch" \in Modes /\ At(p, "idle") /\ run[s].status # "none"
    /\ journal[s] # None /\ journal[s].run = s
    /\ after \in {0, journal[s].last}
    /\ Goes(p, [Idle EXCEPT !.pc = "post", !.mode = "watch", !.session = s, !.run = s,
                            !.start = after, !.after = after, !.cursor = after])
    /\ UNCHANGED <<run, flight, journal>>

WatchRecord(p, s) ==
    /\ "watch" \in Modes /\ At(p, "idle") /\ run[s].status # "none"
    /\ journal[s] = None \/ journal[s].run # s
    /\ LET c == [Idle EXCEPT !.mode = "watch", !.session = s, !.run = s]
       IN Goes(p, Leave(c, IF Ended(s) THEN run[s].status ELSE "elsewhere"))
    /\ UNCHANGED <<run, flight, journal>>

-----------------------------------------------------------------------------
\* submit, before anything is sent.

\* The journal already maps the session to a run: nothing is sent again.
CheckReuse(p) ==
    /\ At(p, "reuse")
    /\ LET c == cli[p]
           e == journal[c.session]
       IN IF e # None /\ e.run # None
          THEN Goes(p, Leave([c EXCEPT !.run = e.run, !.after = e.last], "reused"))
          ELSE Goes(p, [c EXCEPT !.pc = "entry"])
    /\ UNCHANGED <<run, flight, journal>>

\* An entry that exists by now is kept.
CheckEntry(p) ==
    /\ At(p, "entry")
    /\ Goes(p, [cli[p] EXCEPT !.pc = IF journal[cli[p].session] = None THEN "write" ELSE "post"])
    /\ UNCHANGED <<run, flight, journal>>

\* Mutation of WriteAhead: the journal is best effort.
WriteAheadTries(p) ==
    /\ At(p, "write")
    /\ journal' \in {journal, [journal EXCEPT ![cli[p].session] = Fresh]}
    /\ Goes(p, [cli[p] EXCEPT !.pc = "post"])
    /\ UNCHANGED <<run, flight>>

\* The entry is written ahead of the submission; a failure ends the command.
WriteAhead(p) ==
    /\ At(p, "write")
    /\ \/ /\ journal' = [journal EXCEPT ![cli[p].session] = Fresh]
          /\ Goes(p, [cli[p] EXCEPT !.pc = "post"])
       \/ Goes(p, Leave(cli[p], "journal")) /\ UNCHANGED journal
    /\ UNCHANGED <<run, flight>>

-----------------------------------------------------------------------------
\* open_stream.

\* deadline_error or interrupted: a cancelled command whose run is not known
\* cannot tell whether there is one.
Stopped(c, how) ==
    CASE c.run = None                         -> "ambiguous"
      [] c.run # None /\ how = "deadline"    -> "deadline"
      [] OTHER                                -> "lost"

\* Which of the two is decided by the deadline flag alone.
Why(c) == IF c.hit THEN "deadline" ELSE "interrupted"

\* What a submission that stops at its POST may leave in the network.
LeftBehind(p) ==
    IF At(p, "post") /\ Submits(p) THEN {flight, flight \cup {<<cli[p].session, p>>}}
                                  ELSE {flight}

\* The token is looked at before the request and while it is under way.
OpenCancelled(p) ==
    /\ At(p, "post") /\ cli[p].token
    /\ flight' \in LeftBehind(p)
    /\ Goes(p, Leave(cli[p], Stopped(cli[p], Why(cli[p]))))
    /\ UNCHANGED <<run, journal>>

\* Mutation of Dropped: the second attempt takes a fresh session.
DroppedAfresh(c) ==
    CASE c.mode = "watch" -> Leave(c, "lost")
      [] c.mode # "watch" /\ c.again -> Leave(c, "ambiguous")
      [] OTHER -> [c EXCEPT !.again = TRUE,
                            !.session = CHOOSE s \in Sessions : s # c.session]

\* No answer: submit tries once more, with the same session; watch gives up.
Dropped(c) ==
    CASE c.mode = "watch" -> Leave(c, "lost")
      [] c.mode # "watch" /\ c.again -> Leave(c, "ambiguous")
      [] OTHER -> [c EXCEPT !.again = TRUE]

\* The request never arrived; it is still under way; it was served and its
\* answer was lost.
RequestLost(p) ==
    /\ At(p, "post")
    /\ Goes(p, Dropped(cli[p]))
    /\ UNCHANGED <<run, flight, journal>>

RequestDelayed(p) ==
    /\ At(p, "post") /\ Submits(p)
    /\ flight' = flight \cup {<<cli[p].session, p>>}
    /\ Goes(p, Dropped(cli[p]))
    /\ UNCHANGED <<run, journal>>

AnswerLost(p) ==
    /\ At(p, "post") /\ Submits(p) /\ run[cli[p].session].status = "none"
    /\ run' = [run EXCEPT ![cli[p].session] = Admitted(cli[p].session, p)]
    /\ Goes(p, Dropped(cli[p]))
    /\ UNCHANGED <<flight, journal>>

\* An answer that admits nothing, whatever the session has: a 409 of another
\* kind after a lost attempt stays ambiguous, everything else is classified.
Refused(p, answer) ==
    /\ At(p, "post")
    /\ Goes(p, Leave(cli[p], IF Submits(p) /\ answer = "conflict" /\ cli[p].again
                             THEN "ambiguous" ELSE "refused"))
    /\ UNCHANGED <<run, flight, journal>>

\* The duplicate-session 409, which may or may not name the run.
Duplicate(p, named) ==
    /\ At(p, "post") /\ Submits(p) /\ run[cli[p].session].status # "none"
    /\ LET c      == cli[p]
           given  == c.mode = "resume"
           reused == IF given /\ ~c.again THEN "reused" ELSE "readmitted"
       IN Goes(p, CASE ~c.again /\ ~given -> Leave(c, "refused")
                    [] (c.again \/ given) /\ ~named -> Leave(c, "ambiguous")
                    [] OTHER -> [c EXCEPT !.run = c.session, !.pc = "read",
                                          !.create = TRUE, !.out = reused])
    /\ UNCHANGED <<run, flight, journal>>

\* The stream of a newly admitted run; its header may name the run.
Accepted(p, named) ==
    /\ At(p, "post") /\ Submits(p) /\ run[cli[p].session].status = "none"
    /\ run' = [run EXCEPT ![cli[p].session] = Admitted(cli[p].session, p)]
    /\ Goes(p, [cli[p] EXCEPT !.run = IF named THEN cli[p].session ELSE None,
                              !.pc = IF named THEN "read" ELSE "stream",
                              !.create = named, !.out = "none"])
    /\ UNCHANGED <<flight, journal>>

\* watch: the events after `after`; the service may start earlier.
Watching(p, from) ==
    /\ At(p, "post") /\ cli[p].mode = "watch" /\ from <= cli[p].cursor
    /\ Goes(p, [cli[p] EXCEPT !.pc = "stream", !.cursor = from])
    /\ UNCHANGED <<run, flight, journal>>

Open(p) ==
    \/ OpenCancelled(p)
    \/ RequestLost(p) \/ RequestDelayed(p) \/ AnswerLost(p)
    \/ \E answer \in Refusals : Refused(p, answer)
    \/ \E named \in BOOLEAN : Duplicate(p, named) \/ Accepted(p, named)
    \/ \E from \in 0..MaxEvents + 1 : Watching(p, from)

-----------------------------------------------------------------------------
\* record: read the entry, then write it back with the run and the sequence.

\* The header, the first event, or the end of an attempt was recorded.
Recorded(c) ==
    CASE c.out # "none"              -> "settle"
      [] c.out = "none" /\ c.create  -> "stream"
      [] OTHER                       -> "deliver"

\* Mutation of Update: only the record that may create the entry names the run.
UpdateForgets(base, c) ==
    [run  |-> IF c.create THEN c.run ELSE None,
     last |-> IF c.after > base.last THEN c.after ELSE base.last]

\* The entry as it is written back.
Update(base, c) ==
    [run |-> c.run, last |-> IF c.after > base.last THEN c.after ELSE base.last]

\* Nothing is written without an entry (unless one may be created), nor over
\* the entry of another run.
RecordRead(p) ==
    /\ At(p, "read")
    /\ LET c    == cli[p]
           e    == journal[c.session]
           base == IF e = None /\ c.create THEN Fresh ELSE e
       IN IF base = None \/ (base # None /\ base.run \notin {None, c.run})
          THEN Goes(p, [c EXCEPT !.pc = Recorded(c)])
          ELSE Goes(p, [c EXCEPT !.pc = "put",
                          !.snap = Update(base, c)])
    /\ UNCHANGED <<run, flight, journal>>

\* A failing write is ignored.
RecordWrite(p) ==
    /\ At(p, "put")
    /\ journal' \in {journal, [journal EXCEPT ![cli[p].session] = cli[p].snap]}
    /\ Goes(p, [cli[p] EXCEPT !.pc = Recorded(cli[p]), !.snap = Fresh])
    /\ UNCHANGED <<run, flight>>

-----------------------------------------------------------------------------
\* consume.

ConsumeCancelled(p) ==
    /\ At(p, "stream") /\ cli[p].token
    /\ Goes(p, Over(cli[p], Why(cli[p])))
    /\ UNCHANGED <<run, flight, journal>>

\* Mutation of Skipped: a replayed event is delivered again.
SkippedNever(c, n, kind) == FALSE

\* An event at or below `after` is skipped unless it is the terminal one.
Skipped(c, n, kind) == n <= c.after /\ kind # "run_complete"

\* Mutation of Named: the event that names the run counts as delivered.
NamedCounted(c, n) == [c EXCEPT !.run = c.session, !.pc = "read", !.create = FALSE,
                                !.out = "none", !.after = n]

\* The first event names the run, which is recorded before it is delivered.
Named(c, n) == [c EXCEPT !.run = c.session, !.pc = "read", !.create = FALSE, !.out = "none"]

\* The next event of the log; sequence numbers count from 1.
NextEvent(p) ==
    LET c       == cli[p]
        n       == c.cursor + 1
        kind    == run[c.session].log[n]
        skipped == Skipped(c, n, kind)
        shown   == [c EXCEPT !.pc = "stream", !.cursor = n, !.after = n,
                             !.seen = Append(@, n), !.error = c.error \/ kind = "error"]
        ended   == [c EXCEPT !.cursor = n, !.after = IF n > @ THEN n ELSE @]
    IN CASE skipped -> [c EXCEPT !.pc = "stream", !.cursor = n]
         [] ~skipped /\ c.run = None -> Named(c, n)
         [] ~skipped /\ c.run # None /\ kind = "run_complete" -> Over(ended, "terminal")
         [] OTHER -> CASE c.detach            -> Over(shown, "detached")
                       [] ~c.detach /\ c.hit  -> Over(shown, "deadline")
                       [] OTHER               -> shown

ConsumeEvent(p) ==
    /\ At(p, "stream") /\ ~cli[p].token
    /\ cli[p].cursor < Len(run[cli[p].session].log)
    /\ Goes(p, NextEvent(p))
    /\ UNCHANGED <<run, flight, journal>>

\* The first event again, now that the run it names is recorded: the token is
\* not looked at in between.
Deliver(p) ==
    /\ At(p, "deliver")
    /\ Goes(p, NextEvent(p))
    /\ UNCHANGED <<run, flight, journal>>

\* The service closes the stream cleanly once the run ended and everything was
\* sent.
ConsumeClosed(p) ==
    /\ At(p, "stream") /\ ~cli[p].token
    /\ Ended(cli[p].session) /\ cli[p].cursor >= Len(run[cli[p].session].log)
    /\ Goes(p, Over(cli[p], IF cli[p].error THEN "error_end" ELSE "closed"))
    /\ UNCHANGED <<run, flight, journal>>

\* The stream is lost, idle for too long, or not what it should be.
ConsumeFails(p, how) ==
    /\ At(p, "stream") /\ ~cli[p].token
    /\ Goes(p, Over(cli[p], how))
    /\ UNCHANGED <<run, flight, journal>>

Consume(p) ==
    \/ ConsumeCancelled(p) \/ ConsumeEvent(p) \/ ConsumeClosed(p)
    \/ \E how \in {"lost", "protocol"} : ConsumeFails(p, how)

-----------------------------------------------------------------------------
\* What an attempt that is over means for the command.

Unread(c) == c.run = None /\ c.seen = <<>>

\* Mutation of Retries: a run that was named is submitted again, too.
RetriesNamed(c) ==
    \/ c.mode # "watch" /\ c.out \in {"closed", "lost"} /\ c.seen = <<>> /\ ~c.again
    \/ c.mode = "watch" /\ c.out = "closed" /\ ~c.again /\ c.start > 0

\* A stream that ended before its first event is submitted once more; watch
\* replays once from 0 after a clean end with nothing past --after.
Retries(c) ==
    \/ c.mode # "watch" /\ c.out \in {"closed", "lost"} /\ Unread(c) /\ ~c.again
    \/ c.mode = "watch" /\ c.out = "closed" /\ ~c.again /\ c.start > 0

\* Mutant: a run that is still live is reported with its status.
ExitCodeLive(c) ==
    CASE c.out \in {"terminal", "readmitted"} -> run[c.session].status
      [] c.out = "error_end"   -> "failed"
      [] c.out = "detached"    -> "detached"
      [] c.out = "reused"      -> "reused"
      [] c.out = "protocol"    -> "protocol"
      [] c.out \in {"deadline", "interrupted"} -> Stopped(c, c.out)
      [] OTHER -> IF c.run = None THEN "ambiguous" ELSE "lost"

ExitCode(c) ==
    CASE c.out = "terminal"    -> run[c.session].status
      [] c.out = "error_end"   -> "failed"
      [] c.out = "detached"    -> "detached"
      [] c.out = "reused"      -> "reused"
      [] c.out = "readmitted"  -> IF c.detach THEN "detached" ELSE "lost"
      [] c.out = "protocol"    -> "protocol"
      [] c.out \in {"deadline", "interrupted"} -> Stopped(c, c.out)
      [] OTHER -> CASE c.run = None                          -> "ambiguous"
                    [] c.mode = "watch" /\ c.out = "closed"  -> "protocol"
                    [] OTHER                                 -> "lost"

EndCommand(p) ==
    /\ At(p, "settle")
    /\ LET c == cli[p]
       IN Goes(p, IF Retries(c)
                  THEN [c EXCEPT !.pc = "post", !.again = TRUE, !.cursor = 0, !.out = "none"]
                  ELSE Leave(c, ExitCode(c)))
    /\ UNCHANGED <<run, flight, journal>>

-----------------------------------------------------------------------------
\* Ctrl-C, the --wait deadline with its helper thread, and the end of a process.

Interrupt(p) ==
    /\ "interrupt" \in Ends /\ Active(p) /\ ~cli[p].token
    /\ Goes(p, [cli[p] EXCEPT !.token = TRUE])
    /\ UNCHANGED <<run, flight, journal>>

\* The deadline exists once the submission has been journalled.
Deadline(p) ==
    /\ "deadline" \in Ends /\ Active(p) /\ cli[p].pc \notin {"reuse", "entry", "write"} /\ ~cli[p].hit
    /\ Goes(p, [cli[p] EXCEPT !.hit = TRUE])
    /\ UNCHANGED <<run, flight, journal>>

\* Mutation of HelperCancels: it waits for the run to become known.
HelperCancelsKnown(p) ==
    /\ Active(p) /\ cli[p].hit /\ ~cli[p].token /\ cli[p].run # None
    /\ Goes(p, [cli[p] EXCEPT !.token = TRUE])
    /\ UNCHANGED <<run, flight, journal>>

\* The helper cancels at the deadline when the run is known, and after the
\* connect timeout in any case.
HelperCancels(p) ==
    /\ Active(p) /\ cli[p].hit /\ ~cli[p].token
    /\ cli[p].run # None \/ cli[p].grace
    /\ Goes(p, [cli[p] EXCEPT !.token = TRUE])
    /\ UNCHANGED <<run, flight, journal>>

Grace(p) ==
    /\ Active(p) /\ cli[p].hit /\ ~cli[p].grace /\ cli[p].run = None
    /\ Goes(p, [cli[p] EXCEPT !.grace = TRUE])
    /\ UNCHANGED <<run, flight, journal>>

Crash(p) ==
    /\ "crash" \in Ends /\ Active(p)
    /\ flight' \in LeftBehind(p)
    /\ Goes(p, [Leave(cli[p], "none") EXCEPT !.pc = "crashed"])
    /\ UNCHANGED <<run, journal>>

Start(p) ==
    \E s \in Sessions :
       \/ \E detach \in BOOLEAN : StartSubmit(p, s, detach) \/ StartResume(p, s, detach)
       \/ \E after \in 0..MaxEvents + 1 : StartWatch(p, s, after)
       \/ WatchRecord(p, s)

Command(p) ==
    \/ CheckReuse(p) \/ CheckEntry(p) \/ WriteAhead(p)
    \/ Open(p)
    \/ RecordRead(p) \/ RecordWrite(p)
    \/ Consume(p) \/ Deliver(p)
    \/ EndCommand(p)

RunsNext ==
    \/ Service
    \/ \E p \in Procs :
         \/ Start(p) \/ Command(p)
         \/ Interrupt(p) \/ Deadline(p) \/ HelperCancels(p) \/ Grace(p)
         \/ Crash(p)

RunsSpec == RunsInit /\ [][RunsNext]_runsVars

\* The clock runs, the helper thread is scheduled, and the process takes its
\* steps. The service owes nothing: a live stream may stay silent for ever. A
\* read that waits is ended by the token alone, so Consume is fair only there.
OwnStep(p) ==
    \/ CheckReuse(p) \/ CheckEntry(p) \/ WriteAhead(p) \/ Open(p) \/ RecordRead(p)
    \/ RecordWrite(p) \/ ConsumeCancelled(p) \/ Deliver(p) \/ EndCommand(p)

RunsFairness ==
    \A p \in Procs :
       /\ WF_runsVars(OwnStep(p))
       /\ WF_runsVars(Deadline(p) \/ Grace(p) \/ HelperCancels(p))

RunsFairSpec == RunsSpec /\ RunsFairness

-----------------------------------------------------------------------------
\* Properties.

Records ==
    [pc : Places, mode : Modes \cup {None}, session : Sessions \cup {None},
     run : Sessions \cup {None}, start : Nat, after : Nat, cursor : Nat,
     seen : Seq(Nat), error : BOOLEAN, again : BOOLEAN, detach : BOOLEAN,
     create : BOOLEAN, snap : Entries, out : Outs, code : Codes,
     hit : BOOLEAN, grace : BOOLEAN, token : BOOLEAN]

RunRecords ==
    [status : {"none", "live", "completed", "failed", "cancelled"},
     log : Seq(EventKinds), owner : Procs \cup {None}]

RunsTypeOK ==
    /\ run \in [Sessions -> RunRecords]
    /\ flight \subseteq Sessions \X Procs
    /\ journal \in [Sessions -> Entries \cup {None}]
    /\ cli \in [Procs -> Records]

\* One command starts at most one paid run, late admissions of a lost first
\* attempt included (SPEC section on runs: resubmits with the same session).
PaidOnce == \A p \in Procs : Cardinality({s \in Sessions : run[s].owner = p}) <= 1

\* Whatever is killed when, a run the service admitted has a journal entry on
\* the machine that submitted it: the session to recover it with is not lost.
Recoverable == \A s \in Sessions : run[s].status # "none" => journal[s] # None

\* Events reach the user once, in order and without a gap after --after,
\* whatever is replayed or sent twice.
DeliveredOnce ==
    \A p \in Procs : \A i \in DOMAIN cli[p].seen : cli[p].seen[i] = cli[p].start + i

\* The last sequence in the journal is safe to resume from: every event up to
\* it was shown by some command of this machine (terminal events included).
Shown(s) == UNION {{cli[p].seen[i] : i \in DOMAIN cli[p].seen} :
                      p \in {q \in Procs : cli[q].session = s}}
JournalSkipsNothing ==
    \A s \in Sessions : journal[s] # None =>
        \A i \in 1..journal[s].last :
            i \in Shown(s) \/ (run[s].log[i] = "run_complete")

\* Neither twice nor never: what a command shows, and what the journal says was shown.
ShownExactlyOnce == DeliveredOnce /\ JournalSkipsNothing

\* A reported end is the run's end.
OutcomeTruthful ==
    \A p \in Procs :
        cli[p].code \in {"completed", "failed", "cancelled"} =>
            run[cli[p].session].status = cli[p].code

\* What one submission costs and says, for every status a run can end with:
\* it pays at most once, and its outcome is true.
PaidAndTruthful == PaidOnce /\ OutcomeTruthful

\* A run that was named to the command is named by its exit: never reported as
\* ambiguous or refused, and never submitted again.
NamedRunIsReported ==
    \A p \in Procs : cli[p].run # None =>
        /\ run[cli[p].run].status # "none"
        /\ Submits(p) => cli[p].pc # "post" /\ cli[p].code \notin {"ambiguous", "refused"}

\* An answer that the submission was refused (or was never sent for want of a
\* journal), with no attempt lost before it, means that nothing was or will be
\* paid for.
RefusedIsFree ==
    \A p \in Procs :
        Submits(p) /\ cli[p].code \in {"refused", "journal"} /\ ~cli[p].again =>
            \A s \in Sessions : run[s].owner # p /\ <<s, p>> \notin flight

\* What a command says of its run is right, whether there is one or not.
ReportedOrFree == NamedRunIsReported /\ RefusedIsFree

\* docs/hosted-service-client.md, line 35: "If a submission cannot be confirmed
\* after a dropped connection, the CLI exits RUN_SUBMISSION_AMBIGUOUS": so it
\* does while the dropped attempt may still become a run.
UnconfirmedIsAmbiguous ==
    \A p \in Procs :
        /\ At(p, "exit") /\ Submits(p) /\ cli[p].again /\ cli[p].run = None
        /\ <<cli[p].session, p>> \in flight
        => cli[p].code = "ambiguous"

\* The journal never forgets the run of a session, nor replaces it by another, as
\* long as nobody submits the session again: a second submission may have read the
\* entry before it named the run, and writes it back as it was (runs.rs:1329).
JournalKeepsRun ==
    [][\A s \in Sessions :
         /\ journal[s] # None /\ journal[s].run # None
         /\ \A p \in Procs : cli[p].session = s => cli[p].mode # "resume"
         => journal'[s] # None /\ journal'[s].run = journal[s].run]_runsVars

\* Every command ends: neither a silent stream nor a service that never names
\* the run holds it past --wait and the connect timeout.
CommandsEnd == \A p \in Procs : Active(p) ~> ~Active(p)
=============================================================================
