------------------------------ MODULE ToolStream ------------------------------
(***************************************************************************)
(* The records of an RPC harness that uses its own tools: when a complete   *)
(* stream of them is accepted as a run.  OMP and Prime report every message *)
(* and every call of a tool; Prime when it drains its queue may leave out   *)
(* the notification of one result or of a turn, end a segment and go on,    *)
(* and restart once for a message of a child that was queued at the stop.   *)
(*                                                                          *)
(* Whatever a record holds beside its kind may be malformed; what the end   *)
(* of a segment repeats of the messages is the same as was streamed, or the *)
(* record is malformed.                                                     *)
(*                                                                          *)
(* Source: native_tools.rs normalize_mode and PrimeDrain.                   *)
(***************************************************************************)
EXTENDS Naturals, Sequences, FiniteSets

CONSTANTS
    ToolIds,        \* names a message may give to its calls
    Previews,       \* lines that stand for the queued actions
    Announcements,  \* those of them that announce a message of a child
    Kids,           \* sessions of children with their names
    Deliveries,     \* messages of children: an id, the child, the announcement
    Snapshots,      \* states of the queue that a record may show
    MaxAsked,       \* bound on the messages of the assistant
    Nothing

\* What the active action is: a turn in one of its phases, a command, or none.
Activities == {"none", "preparing", "committing", "running", "command"}

ValidSnapshot(a) ==
    a \in [count : Nat, items : Seq(Previews), active : Activities]

ASSUME StreamAssumption ==
    /\ Announcements \subseteq Previews
    /\ \A a \in Snapshots : ValidSnapshot(a)
    /\ \A m \in Deliveries : m.from \in Kids /\ m.about \in Announcements
    /\ MaxAsked \in Nat
    /\ Nothing \notin ToolIds /\ Nothing \notin Previews
    /\ Nothing \notin Deliveries

VARIABLES
    contract,       \* what reads the stream: "omp", "prime", or "drain" for Prime's queue
    greeted,        \* the preliminaries that were seen
    dialog,         \* the run, its turn and the message that is open
    toolCalls,      \* what was seen of each call of the last message
    omittedResults, \* calls whose result was not notified: the history must hold it
    agentQueue,     \* Prime's queue, its children, and the restart that is pending
    toolVerdict,
    toolLedger,     \* what the records said of every call, whoever reads them
    toolAccount     \* what they said of the queue

toolVars == <<contract, greeted, dialog, toolCalls, omittedResults, agentQueue, toolVerdict,
              toolLedger, toolAccount>>

Preliminaries == {"ready", "commands", "session", "inventory", "ack"}
Roles == {"none", "user", "custom", "delivery", "assistant", "result"}
CallStages == {"absent", "declared", "started", "ended", "told"}
RestartPhases == {"none", "preparing", "committing", "agent", "running", "turn", "open", "close"}
Tokens == (1..MaxAsked) \X ToolIds

NoMessage == [role |-> "none", of |-> Nothing]
Opened(role) == [role |-> role, of |-> Nothing]
NoCalls == [t \in ToolIds |-> "absent"]
Members(s) == {s[i] : i \in DOMAIN s}

NoDialog == [started |-> FALSE, turn |-> FALSE, user |-> FALSE, ended |-> FALSE,
             closed |-> FALSE, resumed |-> FALSE, open |-> NoMessage,
             answer |-> "none", lastStop |-> "none"]
NoQueue == [seen |-> "unknown", current |-> {}, previews |-> {}, usedPreviews |-> {},
            used |-> {}, children |-> {}, phase |-> "none", expected |-> Nothing,
            continued |-> FALSE]
NoAccount == [asked |-> 0, segments |-> 0, everSeen |-> FALSE, idleSince |-> FALSE,
              announced |-> {}, due |-> {}]

DialogType ==
    [started : BOOLEAN, turn : BOOLEAN, user : BOOLEAN, ended : BOOLEAN, closed : BOOLEAN,
     resumed : BOOLEAN, open : [role : Roles, of : {Nothing} \cup ToolIds \cup Deliveries],
     answer : {"none", "stop", "toolUse"}, lastStop : {"none", "stop", "toolUse"}]
QueueType ==
    [seen : {"unknown", "busy", "idle"}, current : SUBSET Snapshots,
     previews : SUBSET Previews, usedPreviews : SUBSET Previews,
     used : SUBSET {m.id : m \in Deliveries}, children : SUBSET Kids,
     phase : RestartPhases, expected : {Nothing} \cup Announcements, continued : BOOLEAN]
AccountType ==
    [asked : 0..MaxAsked, segments : 0..2, everSeen : BOOLEAN, idleSince : BOOLEAN,
     announced : SUBSET Previews, due : SUBSET Previews]

StreamTypeOK ==
    /\ contract \in {"omp", "prime", "drain"}
    /\ greeted \subseteq Preliminaries
    /\ dialog \in DialogType
    /\ toolCalls \in [ToolIds -> CallStages]
    /\ omittedResults \subseteq Tokens
    /\ agentQueue \in QueueType
    /\ toolVerdict \in {"reading", "accepted", "malformed", "failed"}
    /\ toolLedger \in [Tokens -> {"unasked", "declared", "begun", "done", "told", "broken"}]
    /\ toolAccount \in AccountType

StreamInit ==
    /\ contract \in {"omp", "prime", "drain"}
    /\ greeted = IF contract = "omp" THEN {} ELSE {"ready", "commands", "inventory"}
    /\ dialog = NoDialog
    /\ toolCalls = NoCalls /\ omittedResults = {}
    /\ agentQueue = NoQueue
    /\ toolVerdict = "reading"
    /\ toolLedger = [k \in Tokens |-> "unasked"]
    /\ toolAccount = NoAccount

-----------------------------------------------------------------------------
(* What is read                                                             *)

OmpReads == contract = "omp"
Drains == contract = "drain"
Listening == toolVerdict = "reading"

\* The records of the run itself come after the preliminaries and before the
\* end; while a restart is pending no other record is taken.
Admits ==
    /\ Listening
    /\ "inventory" \in greeted /\ (OmpReads \/ "ack" \in greeted)
    /\ ~dialog.ended /\ agentQueue.phase = "none"

Quiet == dialog.open.role = "none"
InTurn == dialog.turn /\ Quiet
CallsAsked == {t \in ToolIds : toolCalls[t] # "absent"}
AllTold == \A t \in CallsAsked : toolCalls[t] = "told"

\* The call of the last message that a record names.
Token(t) == <<toolAccount.asked, t>>
Noted(t, from, to) ==
    [toolLedger EXCEPT ![Token(t)] = IF @ = from THEN to ELSE "broken"]

-----------------------------------------------------------------------------
(* The preliminaries                                                        *)

Greet(what) ==
    /\ what \notin greeted
    /\ greeted' = greeted \cup {what}
    /\ UNCHANGED <<contract, dialog, toolCalls, omittedResults, agentQueue, toolVerdict,
                   toolLedger, toolAccount>>

ReadyShown == Listening /\ Greet("ready")
Commands == Listening /\ OmpReads /\ "ready" \in greeted /\ ~dialog.started /\ Greet("commands")
SessionState == Listening /\ Drains /\ Greet("session")
Inventory == Listening /\ OmpReads /\ "commands" \in greeted /\ Greet("inventory")

PromptExpected ==
    /\ "commands" \in greeted /\ "ack" \notin greeted
    /\ OmpReads => "inventory" \in greeted
    /\ Drains => "session" \in greeted

PromptTaken == Listening /\ PromptExpected /\ Greet("ack")

-----------------------------------------------------------------------------
(* Turns and messages                                                       *)

AgentStarts ==
    /\ Admits /\ ~dialog.started
    /\ dialog' = [dialog EXCEPT !.started = TRUE]
    /\ UNCHANGED <<contract, greeted, toolCalls, omittedResults, agentQueue, toolVerdict,
                   toolLedger, toolAccount>>

\* Prime goes on after a segment that ended in calls: a segment of its own,
\* whose history starts anew and after which the queue must be seen idle again.
Reopens ==
    /\ agentQueue' = IF dialog.closed THEN [agentQueue EXCEPT !.seen = "busy"] ELSE agentQueue
    /\ omittedResults' = IF dialog.closed THEN {} ELSE omittedResults

Reopened == [dialog EXCEPT !.closed = FALSE, !.resumed = @ \/ dialog.closed]

TurnStarts ==
    /\ Admits /\ dialog.started /\ ~dialog.turn /\ Quiet /\ dialog.lastStop # "stop"
    /\ dialog' = [Reopened EXCEPT !.turn = TRUE, !.answer = "none"]
    /\ toolCalls' = NoCalls
    /\ Reopens
    /\ UNCHANGED <<contract, greeted, toolVerdict, toolLedger, toolAccount>>

Opens(d) ==
    /\ dialog' = d
    /\ UNCHANGED <<contract, greeted, toolVerdict, toolLedger, toolAccount>>

UserStarts ==
    /\ Admits /\ InTurn /\ ~dialog.user /\ dialog.answer = "none"
    /\ Opens([dialog EXCEPT !.open = Opened("user")])
    /\ UNCHANGED <<toolCalls, omittedResults, agentQueue>>

CustomStarts ==
    /\ Admits /\ InTurn /\ OmpReads /\ dialog.answer = "none"
    /\ Opens([dialog EXCEPT !.open = Opened("custom")])
    /\ UNCHANGED <<toolCalls, omittedResults, agentQueue>>

ResultStarts(t) ==
    /\ Admits /\ InTurn /\ toolCalls[t] = "ended"
    /\ Opens([dialog EXCEPT !.open = [role |-> "result", of |-> t]])
    /\ UNCHANGED <<toolCalls, omittedResults, agentQueue>>

AssistantStarts ==
    /\ Admits /\ InTurn /\ dialog.user /\ dialog.answer = "none"
    /\ Opens([dialog EXCEPT !.open = Opened("assistant")])
    /\ UNCHANGED <<toolCalls, omittedResults, agentQueue>>

\* The next message of the assistant begins, and a marker before it is missing.
Infers(d) ==
    /\ dialog.user
    /\ Opens([d EXCEPT !.turn = TRUE, !.answer = "none", !.lastStop = "toolUse",
                       !.open = Opened("assistant")])
    /\ toolCalls' = NoCalls

\* The start of the turn.
TurnImplied ==
    /\ Admits /\ ~OmpReads /\ dialog.started /\ ~dialog.turn /\ Quiet
    /\ dialog.lastStop = "toolUse" /\ CallsAsked # {} /\ AllTold
    /\ Infers(Reopened) /\ Reopens

\* The end of a turn and the start of the next.
MarkersImplied ==
    /\ Admits /\ Drains /\ dialog.started /\ InTurn
    /\ dialog.answer = "toolUse" /\ CallsAsked # {} /\ AllTold
    /\ Infers(dialog) /\ UNCHANGED <<omittedResults, agentQueue>>

\* The result of the only call, or its end: the history must hold it.
ResultImplied(t) ==
    /\ Admits /\ Drains /\ dialog.started /\ dialog.turn
    /\ dialog.open.role \in {"none", "result"}
    /\ dialog.answer = "toolUse" /\ CallsAsked = {t} /\ toolCalls[t] = "ended"
    /\ omittedResults' = omittedResults \cup {Token(t)}
    /\ Infers(dialog) /\ UNCHANGED agentQueue

UserEnds ==
    /\ Admits /\ dialog.open.role = "user"
    /\ dialog' = [dialog EXCEPT !.user = TRUE, !.open = NoMessage]
    /\ UNCHANGED <<contract, greeted, toolCalls, omittedResults, agentQueue, toolVerdict,
                   toolLedger, toolAccount>>

CustomEnds ==
    /\ Admits /\ OmpReads /\ dialog.open.role = "custom"
    /\ dialog' = [dialog EXCEPT !.open = NoMessage]
    /\ UNCHANGED <<contract, greeted, toolCalls, omittedResults, agentQueue, toolVerdict,
                   toolLedger, toolAccount>>

\* A message of the assistant asks for calls, or stops.
AssistantEnds(stop, asks) ==
    /\ Admits /\ dialog.open.role = "assistant"
    /\ \A t \in asks : toolCalls[t] = "absent"
    /\ stop = "toolUse" <=> CallsAsked \cup asks # {}
    /\ toolAccount.asked < MaxAsked
    /\ toolCalls' = [t \in ToolIds |-> IF t \in asks THEN "declared" ELSE toolCalls[t]]
    /\ dialog' = [dialog EXCEPT !.answer = stop, !.open = NoMessage]
    /\ toolAccount' = [toolAccount EXCEPT !.asked = @ + 1]
    /\ toolLedger' = [k \in Tokens |->
                        IF k[1] = toolAccount.asked + 1 /\ k[2] \in asks THEN "declared"
                        ELSE toolLedger[k]]
    /\ UNCHANGED <<contract, greeted, omittedResults, agentQueue, toolVerdict>>

-----------------------------------------------------------------------------
(* Calls                                                                    *)

\* A record moves a call on.
CallMoves(t, from, to) ==
    /\ toolCalls[t] = from
    /\ toolCalls' = [toolCalls EXCEPT ![t] = to]
    /\ UNCHANGED <<contract, greeted, omittedResults, agentQueue, toolVerdict, toolAccount>>

ToolStarts(t) ==
    /\ Admits /\ InTurn /\ CallMoves(t, "declared", "started")
    /\ toolLedger' = Noted(t, "declared", "begun")
    /\ UNCHANGED dialog

ToolEnds(t) ==
    /\ Admits /\ InTurn /\ CallMoves(t, "started", "ended")
    /\ toolLedger' = Noted(t, "begun", "done")
    /\ UNCHANGED dialog

ResultEnds(t) ==
    /\ Admits /\ dialog.open.role = "result" /\ dialog.open.of = t
    /\ CallMoves(t, "ended", "told")
    /\ toolLedger' = Noted(t, "done", "told")
    /\ dialog' = [dialog EXCEPT !.open = NoMessage]

TurnEnds ==
    /\ Admits /\ InTurn /\ dialog.answer # "none" /\ AllTold
    /\ dialog' = [dialog EXCEPT !.turn = FALSE, !.lastStop = dialog.answer]
    /\ UNCHANGED <<contract, greeted, toolCalls, omittedResults, agentQueue, toolVerdict,
                   toolLedger, toolAccount>>

-----------------------------------------------------------------------------
(* Prime's queue and the messages of its children                           *)

NothingQueued(a) == a.count = 0 /\ a.items = <<>>
Idle(a) == NothingQueued(a) /\ a.active = "none"

HoldsOnly(a, p) == a.count = 1 /\ a.active = "none" /\ a.items = <<p>>

\* A record shows the queue; what was shown last is current, if anything was.
Shows(q, a) ==
    [q EXCEPT !.seen = IF Idle(a) THEN "idle" ELSE "busy", !.current = {a},
              !.previews = @ \cup (Members(a.items) \ q.usedPreviews)]
Observes(a) ==
    toolAccount' = [toolAccount EXCEPT !.everSeen = TRUE, !.idleSince = Idle(a),
                                       !.announced = Members(a.items)]

\* After the end only an idle queue may be shown, after the one restart no
\* more queued work.
QueueShown(a) ==
    /\ Listening /\ "ack" \in greeted /\ agentQueue.phase = "none"
    /\ Drains /\ dialog.started
    /\ dialog.ended => Idle(a)
    /\ agentQueue.continued => NothingQueued(a) /\ a.active \in {"none", "running"}
    /\ agentQueue' = Shows(agentQueue, a)
    /\ Observes(a)
    /\ UNCHANGED <<contract, greeted, dialog, toolCalls, omittedResults, toolVerdict, toolLedger>>

\* A child tells its name: it has one at a time.
ChildShown(c) ==
    /\ Admits /\ Drains /\ dialog.started
    /\ agentQueue' = [agentQueue EXCEPT !.children = {k \in @ : k[1] # c[1]} \cup {c}]
    /\ UNCHANGED <<contract, greeted, dialog, toolCalls, omittedResults, toolVerdict, toolLedger,
                   toolAccount>>

\* A message that a known child sent, that was announced, and that is new.
Awaited(q, m) ==
    /\ m.id \notin q.used /\ m.from \in q.children
    /\ m.about \in q.previews \ q.usedPreviews

Consumed(q, m) ==
    [q EXCEPT !.used = @ \cup {m.id}, !.previews = @ \ {m.about},
              !.usedPreviews = @ \cup {m.about},
              !.current = {a \in @ : ~HoldsOnly(a, m.about)}]
Delivered(a, m) == [a EXCEPT !.announced = @ \ {m.about}, !.due = @ \ {m.about}]

-----------------------------------------------------------------------------
(* The end of a segment                                                     *)

Rests == dialog.started /\ ~dialog.turn /\ Quiet /\ AllTold

\* OMP, and Prime when it does not drain: the end is the end of the run.
PlainEnds ==
    /\ Admits /\ ~Drains /\ Rests /\ dialog.lastStop = "stop"
    /\ dialog' = [dialog EXCEPT !.ended = TRUE]
    /\ toolAccount' = [toolAccount EXCEPT !.segments = IF @ < 2 THEN @ + 1 ELSE @,
                                          !.idleSince = FALSE]
    /\ UNCHANGED <<contract, greeted, toolCalls, omittedResults, agentQueue, toolVerdict,
                   toolLedger>>

\* The segment ends: it repeats what was streamed, with each result that was not
\* notified in its place.
SegmentEnds(d, q, a) ==
    /\ Admits /\ Drains /\ Rests /\ ~dialog.closed
    /\ dialog' = d /\ agentQueue' = q
    /\ toolAccount' = [a EXCEPT !.segments = IF @ < 2 THEN @ + 1 ELSE @, !.idleSince = FALSE]
    /\ toolLedger' = [k \in Tokens |->
                        IF k \notin omittedResults THEN toolLedger[k]
                        ELSE IF toolLedger[k] = "done" THEN "told" ELSE "broken"]
    /\ UNCHANGED <<contract, greeted, toolCalls, omittedResults, toolVerdict>>

\* The last message asked for calls: the run goes on.
SegmentPauses(q, a) ==
    /\ dialog.lastStop = "toolUse"
    /\ SegmentEnds([dialog EXCEPT !.closed = TRUE], q, a)

\* What the queue showed last holds one message of a child, or nothing.
PromisesNothing(q) == q.continued \/ \A a \in q.current : NothingQueued(a)
PromisesOne(q, p) ==
    /\ ~q.continued /\ \E a \in q.current : HoldsOnly(a, p)
    /\ q.children # {} /\ p \in Announcements /\ p \notin q.usedPreviews

\* Mutant of RunEnds: an idle queue that was seen before the stop counts.
RunEndsHopeful(q, a) ==
    /\ dialog.lastStop = "stop" /\ PromisesNothing(q)
    /\ SegmentEnds([dialog EXCEPT !.ended = TRUE], q, [a EXCEPT !.due = @ \cup a.announced])

\* The run stops: an idle queue that was seen earlier does not count.
RunEnds(q, a) ==
    /\ dialog.lastStop = "stop" /\ PromisesNothing(q)
    /\ SegmentEnds([dialog EXCEPT !.ended = TRUE],
                   [q EXCEPT !.seen = IF @ = "unknown" THEN @ ELSE "busy"],
                   [a EXCEPT !.due = @ \cup a.announced])

\* The run stops with one message of a child queued: it must restart for it.
RestartPromised(q, a, p) ==
    /\ dialog.lastStop = "stop" /\ PromisesOne(q, p)
    /\ SegmentEnds([dialog EXCEPT !.closed = TRUE],
                   [q EXCEPT !.seen = "busy", !.expected = p, !.phase = "preparing",
                             !.continued = TRUE],
                   [a EXCEPT !.due = @ \cup a.announced])

AnyEnd(q, a) ==
    \/ SegmentPauses(q, a) \/ RunEnds(q, a)
    \/ \E p \in Announcements : RestartPromised(q, a, p)

PlainHistory == AnyEnd(agentQueue, toolAccount)

\* In a segment that was reopened, the message of a child that reopened it may
\* come first.
LedHistory(m) ==
    /\ dialog.resumed /\ Awaited(agentQueue, m)
    /\ AnyEnd(Consumed(agentQueue, m), Delivered(toolAccount, m))

-----------------------------------------------------------------------------
(* The restart: record by record                                            *)

Pending(phase) == Listening /\ Drains /\ agentQueue.phase = phase

NextPhase(phase) ==
    CASE phase = "preparing" -> "committing" [] phase = "committing" -> "agent"
      [] phase = "running" -> "turn"

QueueMoves(a) ==
    /\ agentQueue.phase \in {"preparing", "committing", "running"} /\ Pending(a.active)
    /\ NothingQueued(a)
    /\ agentQueue' = [Shows(agentQueue, a) EXCEPT !.phase = NextPhase(@)]
    /\ Observes(a)
    /\ UNCHANGED <<contract, greeted, dialog, toolCalls, omittedResults, toolVerdict, toolLedger>>

AgentRestarts ==
    /\ Pending("agent") /\ dialog.started /\ ~dialog.turn /\ Quiet
    /\ dialog' = [dialog EXCEPT !.answer = "none", !.lastStop = "none", !.user = FALSE,
                                !.closed = FALSE, !.resumed = TRUE]
    /\ toolCalls' = NoCalls /\ omittedResults' = {}
    /\ agentQueue' = [agentQueue EXCEPT !.phase = "running"]
    /\ UNCHANGED <<contract, greeted, toolVerdict, toolLedger, toolAccount>>

TurnRestarts ==
    /\ Pending("turn") /\ ~dialog.turn /\ Quiet
    /\ dialog' = [dialog EXCEPT !.turn = TRUE]
    /\ agentQueue' = [agentQueue EXCEPT !.phase = "open"]
    /\ UNCHANGED <<contract, greeted, toolCalls, omittedResults, toolVerdict, toolLedger,
                   toolAccount>>

DeliveryStarts(m) ==
    /\ Pending("open") /\ InTurn /\ ~dialog.user /\ dialog.answer = "none"
    /\ Awaited(agentQueue, m) /\ m.about = agentQueue.expected
    /\ dialog' = [dialog EXCEPT !.open = [role |-> "delivery", of |-> m]]
    /\ agentQueue' = [agentQueue EXCEPT !.phase = "close"]
    /\ UNCHANGED <<contract, greeted, toolCalls, omittedResults, toolVerdict, toolLedger,
                   toolAccount>>

DeliveryEnds(m) ==
    /\ Pending("close") /\ dialog.open.role = "delivery" /\ dialog.open.of = m
    /\ Awaited(agentQueue, m) /\ m.about = agentQueue.expected
    /\ dialog' = [dialog EXCEPT !.open = NoMessage, !.user = TRUE]
    /\ agentQueue' = [Consumed(agentQueue, m) EXCEPT !.phase = "none", !.expected = Nothing]
    /\ toolAccount' = Delivered(toolAccount, m)
    /\ UNCHANGED <<contract, greeted, toolCalls, omittedResults, toolVerdict, toolLedger>>

-----------------------------------------------------------------------------
(* Verdicts                                                                 *)

Judged(verdict) ==
    /\ Listening /\ toolVerdict' = verdict
    /\ UNCHANGED <<contract, greeted, dialog, toolCalls, omittedResults, agentQueue, toolLedger,
                   toolAccount>>

\* Any record may be of a wrong shape or come where it must not.
RefuseRecord == Judged("malformed")

\* A request of OMP's user interface, a refused request, a message that ended
\* otherwise than in a stop or in calls, an end that is not the last.
HarnessFails ==
    /\ OmpReads \/ PromptExpected \/ (Admits /\ dialog.open.role = "assistant")
    /\ Judged("failed")

\* Nothing of the queue was seen, or it was seen idle after the stop.
QueueSettled ==
    /\ agentQueue.phase = "none" /\ agentQueue.expected = Nothing
    /\ dialog.resumed \/ agentQueue.seen # "unknown" => agentQueue.seen = "idle"

StreamEnds ==
    Judged(IF dialog.ended /\ "ack" \in greeted /\ (Drains => QueueSettled)
           THEN "accepted" ELSE "malformed")

StreamNext ==
    \/ ReadyShown \/ Commands \/ SessionState \/ Inventory \/ PromptTaken
    \/ AgentStarts \/ TurnStarts \/ TurnEnds \/ PlainEnds
    \/ UserStarts \/ UserEnds \/ CustomStarts \/ CustomEnds
    \/ AssistantStarts \/ TurnImplied \/ MarkersImplied
    \/ \E stop \in {"stop", "toolUse"}, asks \in SUBSET ToolIds : AssistantEnds(stop, asks)
    \/ \E t \in ToolIds : \/ ToolStarts(t) \/ ToolEnds(t) \/ ResultStarts(t) \/ ResultEnds(t)
                          \/ ResultImplied(t)
    \/ \E a \in Snapshots : QueueShown(a) \/ QueueMoves(a)
    \/ \E c \in Kids : ChildShown(c)
    \/ AgentRestarts \/ TurnRestarts
    \/ \E m \in Deliveries : DeliveryStarts(m) \/ DeliveryEnds(m)
    \/ RefuseRecord \/ HarnessFails \/ StreamEnds
    \/ PlainHistory \/ \E m \in Deliveries : LedHistory(m)

StreamSpec == StreamInit /\ [][StreamNext]_toolVars

-----------------------------------------------------------------------------
(* What an accepted stream is                                               *)

\* Every call the assistant asked for was begun, came to its end and was told,
\* each once and in this order.
CallsSettled == \A k \in Tokens : toolLedger[k] \in {"unasked", "told"}

\* A stream that is accepted left nothing under way: every call was settled,
\* no message of a child that the queue announced at a stop is undelivered, and
\* if the queue was ever shown, or the run went on after a stop, it was shown
\* idle after the last stop (normalize_mode, whatever markers Prime leaves out).
ToolRunIsSettled ==
    toolVerdict = "accepted" =>
        /\ CallsSettled
        /\ toolAccount.due = {}
        /\ Drains /\ (toolAccount.everSeen \/ toolAccount.segments > 1) => toolAccount.idleSince
=============================================================================
