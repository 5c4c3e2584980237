------------------------------ MODULE LiveOutput ------------------------------
(***************************************************************************)
(* The record streams of the installed adapters, and the live human output  *)
(* made from them while the harness still runs.  Source: installed_adapters *)
(* normalize_transport_mode, normalize_prime_rpc, normalize_omp_rpc,        *)
(* admitted_assistant_messages, recover_terminal; runner.rs                 *)
(* InstalledHumanStream.                                                    *)
(*                                                                          *)
(* After every record the live output completes the records so far with the *)
(* end they do not have yet, normalizes the whole, and shows what the final *)
(* rendering would show; the settled output must then extend what was       *)
(* shown.  A normalizer reads its records from left to right, so it is kept *)
(* here as the state after the records so far.                              *)
(*                                                                          *)
(* A text is a sequence of lines, a line is one of a few kinds.  Streams    *)
(* with tools (native_tools.rs) are in ToolStream.                          *)
(***************************************************************************)
EXTENDS Naturals, Sequences, SequencesExt

CONSTANTS Streams,      \* adapters: subset of {"codex", "sdk", "claude", "prime", "omp"}
          Messages,     \* texts an assistant message may have
          MaxMessages,  \* bound on the assistant messages of a run
          MaxBlocks,    \* bound on the text blocks of an assistant message
          MaxLines      \* bound on the lines of a streamed message

VARIABLES
    stream,     \* the adapter
    native,     \* whether the output contract is "native" instead of the image's envelope
    norm,       \* the normalizer after the records so far
    candidates, \* the assistant messages the live output has seen
    shown,      \* the text it has written
    stalled,    \* whether it withholds everything from now on
    ending      \* how the run ended

liveVars == <<stream, native, norm, candidates, shown, stalled, ending>>

\* "end" is the terminal envelope of the image, "json" any other line that begins
\* like JSON, "secret" contains a protected value; "half" and "rest" are the two
\* parts of a protected value.
Kinds == {"x", "y", "blank", "empty", "json", "end", "secret", "half", "rest"}

\* A line that is empty may still become any other, and half a protected value
\* the whole one.
Growth == {<<k, k>> : k \in Kinds} \cup {<<"empty", k>> : k \in Kinds} \cup {<<"half", "secret">>}

\* A text has a line, which may be empty.
Text == Seq(Kinds) \ {<<>>}

ASSUME LiveAssumption ==
    /\ Streams \subseteq {"codex", "sdk", "claude", "prime", "omp"}
    /\ Messages \subseteq Text
    /\ MaxMessages \in Nat /\ MaxBlocks \in Nat /\ MaxLines \in Nat

\* The text p is a beginning of the text t.
Starts(t, p) ==
    p # <<>> => /\ Len(p) <= Len(t)
                /\ SubSeq(t, 1, Len(p) - 1) = Front(p)
                /\ <<Last(p), t[Len(p)]>> \in Growth

NoRecords == [at |-> "first", messages |-> <<>>, text |-> <<>>, ack |-> FALSE]

Phases == {"first", "turn", "items", "tools", "chat", "notified", "commands", "state", "agent",
           "user", "userend", "assistant", "thinking?", "thinking", "textstart", "textdelta",
           "textdeltas", "messageend", "turnend", "agentend", "complete", "malformed", "failed"}

LiveTypeOK ==
    /\ stream \in Streams
    /\ native \in BOOLEAN
    /\ norm.at \in Phases /\ norm.ack \in BOOLEAN
    /\ Len(norm.messages) <= MaxMessages + MaxBlocks
    /\ \A i \in DOMAIN candidates : \A l \in DOMAIN candidates[i] : candidates[i][l] \in Kinds
    /\ \A l \in DOMAIN shown : shown[l] \in Kinds
    /\ stalled \in BOOLEAN
    /\ ending \in {"running", "refused", "sink", "malformed", "mismatch", "ok"}

\* The live output is off for native runs of Claude and Prime.
LiveInit ==
    /\ stream \in Streams
    /\ native \in IF stream \in {"claude", "prime"} THEN {FALSE} ELSE BOOLEAN
    /\ norm = NoRecords
    /\ candidates = <<>> /\ shown = <<>> /\ stalled = FALSE
    /\ ending = "running"

-----------------------------------------------------------------------------
(* Normalization of the records.  A record has a kind and the texts it      *)
(* carries; every record that is invalid, unknown or out of order is        *)
(* malformed, and so is every one that follows it.                          *)

Bad(n) == [n EXCEPT !.at = "malformed"]
At(n, phase) == [n EXCEPT !.at = phase]
Said(n, texts) == [n EXCEPT !.messages = @ \o texts]

Codex(n, r) ==
    CASE n.at = "first" /\ r.kind = "thread.started" -> At(n, "turn")
      [] n.at = "turn" /\ r.kind = "turn.started" -> At(n, "items")
      [] n.at = "items" /\ r.kind = "item" -> n
      [] n.at = "items" /\ r.kind = "agent_message" -> Said(n, r.texts)
      [] n.at \in {"turn", "items"} /\ r.kind = "failed" -> At(n, "failed")
      [] n.at = "items" /\ r.kind = "turn.completed" -> At(n, "complete")
      [] OTHER -> Bad(n)

Sdk(n, r) ==
    CASE n.at = "first" /\ r.kind = "start" -> At(n, "tools")
      [] n.at = "tools" /\ r.kind = "tool" -> n
      [] n.at = "tools" /\ r.kind = "error" -> At(n, "failed")
      [] n.at = "tools" /\ r.kind = "final" -> At(Said(n, r.texts), "complete")
      [] OTHER -> Bad(n)

\* Session, shape and subtype of every record are part of its kind; a repeated
\* init is only valid directly after a task notification.
Claude(n, r) ==
    CASE n.at = "first" /\ r.kind = "init" -> At(n, "chat")
      [] n.at = "notified" /\ r.kind = "init" -> At(n, "chat")
      [] n.at \in {"chat", "notified"} /\ r.kind = "assistant" -> At(Said(n, r.texts), "chat")
      [] n.at \in {"chat", "notified"} /\ r.kind = "information" -> At(n, "chat")
      [] n.at \in {"chat", "notified"} /\ r.kind = "task_notification" -> At(n, "notified")
      [] n.at \in {"chat", "notified"} /\ r.kind = "result" -> At(n, "complete")
      [] n.at \in {"chat", "notified"} /\ r.kind = "error_result" -> At(n, "failed")
      [] OTHER -> Bad(n)

\* PrimeLifecycle: the records in their order, each from its phases to the next.
PrimeOrder ==
    [response |-> <<{"first"}, "agent">>,
     agent_start |-> <<{"agent"}, "turn">>,
     turn_start |-> <<{"turn"}, "user">>,
     user_start |-> <<{"user"}, "userend">>,
     user_end |-> <<{"userend"}, "assistant">>,
     assistant_start |-> <<{"assistant"}, "thinking?">>,
     thinking_start |-> <<{"thinking?"}, "thinking">>,
     thinking_delta |-> <<{"thinking"}, "thinking">>,
     thinking_end |-> <<{"thinking"}, "textstart">>,
     text_start |-> <<{"thinking?", "textstart"}, "textdelta">>,
     text_delta |-> <<{"textdelta", "textdeltas"}, "textdeltas">>,
     text_end |-> <<{"textdelta", "textdeltas"}, "messageend">>,
     assistant_end |-> <<{"messageend"}, "turnend">>,
     turn_end |-> <<{"turnend"}, "agentend">>,
     agent_end |-> <<{"agentend"}, "complete">>]

\* A text_end settles the deltas, or brings the text if there were none; the end
\* of the message repeats it.
Prime(n, r) ==
    LET text == IF r.kind \in {"text_delta", "text_end", "assistant_end"} THEN r.texts[1] ELSE n.text
        right == CASE r.kind = "text_delta" -> text # <<"empty">> /\ Starts(text, n.text)
                   [] r.kind = "text_end" -> text # <<"empty">> /\ n.text \in {<<>>, text}
                   [] r.kind = "assistant_end" -> text = n.text
                   [] OTHER -> TRUE
    IN IF \/ r.kind = "refused" /\ n.at = "first"
          \/ r.kind = "extension_ui_request" /\ n.at # "first"
       THEN At(n, "failed")
       ELSE IF r.kind \notin DOMAIN PrimeOrder THEN Bad(n)
       ELSE IF n.at \notin PrimeOrder[r.kind][1] \/ ~right THEN Bad(n)
       ELSE [n EXCEPT !.at = PrimeOrder[r.kind][2], !.text = text,
                      !.messages = IF r.kind = "agent_end" THEN <<text>> ELSE @]

OmpOrder ==
    [ready |-> <<"first", "commands">>,
     available_commands_update |-> <<"commands", "state">>,
     state |-> <<"state", "agent">>,
     agent_start |-> <<"agent", "turn">>,
     turn_start |-> <<"turn", "user">>,
     user_start |-> <<"user", "userend">>,
     user_end |-> <<"userend", "assistant">>,
     assistant_start |-> <<"assistant", "messageend">>,
     text_delta |-> <<"messageend", "messageend">>,
     update |-> <<"messageend", "messageend">>,
     assistant_end |-> <<"messageend", "turnend">>,
     turn_end |-> <<"turnend", "agentend">>,
     agent_end |-> <<"agentend", "complete">>]

\* The prompt is answered once, at any time after the state; presentation is
\* allowed at any time, interaction never.  The text of the deltas is not
\* compared with the end of the message.
Omp(n, r) ==
    CASE r.kind = "presentation" /\ n.at # "first" -> n
      [] r.kind = "interaction" /\ n.at # "first" -> At(n, "failed")
      [] r.kind \in {"response", "refused"} ->
            IF n.ack \/ n.at \in {"first", "commands", "state"} THEN Bad(n)
            ELSE IF r.kind = "refused" THEN At(n, "failed") ELSE [n EXCEPT !.ack = TRUE]
      [] r.kind \in {"state_failed", "nonterminal"} ->
            IF n.at = (IF r.kind = "nonterminal" THEN "agentend" ELSE "state")
            THEN At(n, "failed") ELSE Bad(n)
      [] r.kind \in DOMAIN OmpOrder /\ n.at = OmpOrder[r.kind][1] ->
            [n EXCEPT !.at = OmpOrder[r.kind][2],
                      !.text = IF r.kind = "text_delta" THEN r.texts[1] ELSE @,
                      !.messages = IF r.kind = "assistant_end" THEN r.texts ELSE @]
      [] OTHER -> Bad(n)

Normalize(n, r) ==
    IF n.at \in {"malformed", "failed"} THEN n
    ELSE CASE stream = "codex" -> Codex(n, r)
           [] stream = "sdk" -> Sdk(n, r)
           [] stream = "claude" -> Claude(n, r)
           [] stream = "prime" -> Prime(n, r)
           [] stream = "omp" -> Omp(n, r)

Accepted(n) == n.at = "complete" /\ (stream = "omp" => n.ack)

-----------------------------------------------------------------------------
(* The records a harness may send next                                      *)

Record(kind, texts) == [kind |-> kind, texts |-> texts]
Bare(kinds) == {Record(k, <<>>) : k \in kinds}
Texts(kind, ts) == {Record(kind, <<t>>) : t \in ts}

\* A streamed text grows in its last line or by a line.
Grown(text) ==
    {t \in {Append(text, k) : k \in Kinds}
           \cup {IF text = <<>> THEN text ELSE Append(Front(text), k) : k \in Kinds} :
        Starts(t, text) /\ t # text /\ Len(t) <= MaxLines}

Blocks == UNION {[1..n -> Messages] : n \in 0..MaxBlocks}

\* What a text becomes when it is sent in one or two blocks.
Split(text) ==
    {<<text>>} \cup (IF MaxBlocks < 2 THEN {} ELSE
        {<<SubSeq(text, 1, i), SubSeq(text, i + 1, Len(text))>> : i \in 1..(Len(text) - 1)})

Records ==
    CASE stream = "codex" ->
            Bare({"thread.started", "turn.started", "item", "failed", "turn.completed", "unknown"})
            \cup Texts("agent_message", Messages)
      [] stream = "sdk" -> Bare({"start", "tool", "error", "unknown"}) \cup Texts("final", Messages)
      [] stream = "claude" ->
            Bare({"init", "information", "task_notification", "result", "error_result", "unknown"})
            \cup {Record("assistant", ts) : ts \in Blocks}
      [] stream = "prime" ->
            Bare((DOMAIN PrimeOrder \ {"text_delta", "text_end", "assistant_end"})
                 \cup {"refused", "extension_ui_request", "unknown"})
            \cup Texts("text_delta", Grown(norm.text))
            \cup Texts("text_end", (Messages \cup {norm.text}) \ {<<>>})
            \cup Texts("assistant_end", (Messages \cup {norm.text}) \ {<<>>})
      [] stream = "omp" ->
            Bare((DOMAIN OmpOrder \ {"text_delta", "assistant_end"})
                 \cup {"presentation", "interaction", "response", "refused", "state_failed",
                       "nonterminal", "unknown"})
            \cup Texts("text_delta", Grown(norm.text))
            \cup {Record("assistant_end", ts) :
                     ts \in IF norm.text = <<>> THEN Blocks ELSE Split(norm.text)}

-----------------------------------------------------------------------------
(* The live output                                                          *)

\* Records at which the live output looks for messages.
Looked(r) ==
    r.kind \in CASE stream = "codex" -> {"agent_message"}
                 [] stream = "sdk" -> {"final"}
                 [] stream = "claude" -> {"assistant"}
                 [] stream = "prime" -> {"text_delta", "text_end", "assistant_end"}
                 [] stream = "omp" -> {"text_delta", "assistant_end"}

\* Mutant: the prompt of OMP is taken to be answered before its message.
CompletedAcked(n, r) ==
    LET told == IF stream = "prime" /\ r.kind = "text_delta"
                THEN Normalize(n, Record("text_end", r.texts)) ELSE n
        said == IF r.kind = "assistant_end" THEN told
                ELSE Normalize(told, Record("assistant_end", r.texts))
    IN CASE stream = "codex" -> Normalize(n, Record("turn.completed", <<>>))
         [] stream = "sdk" -> n
         [] stream = "claude" -> Normalize(n, Record("result", <<>>))
         [] stream \in {"prime", "omp"} ->
               Normalize(Normalize(said, Record("turn_end", <<>>)), Record("agent_end", <<>>))

\* The stream with the end it does not have yet, after its last record r.
Completed(n, r) ==
    LET told == IF stream = "prime" /\ r.kind = "text_delta"
                THEN Normalize(n, Record("text_end", r.texts)) ELSE n
        said == IF r.kind = "assistant_end" THEN told
                ELSE Normalize(told, Record("assistant_end", r.texts))
        over == Normalize(Normalize(said, Record("turn_end", <<>>)), Record("agent_end", <<>>))
    IN CASE stream = "codex" -> Normalize(n, Record("turn.completed", <<>>))
         [] stream = "sdk" -> n
         [] stream = "claude" -> Normalize(n, Record("result", <<>>))
         [] stream = "prime" -> over
         [] stream = "omp" -> IF n.ack THEN over ELSE Normalize(over, Record("response", <<>>))

IsBlank(line) == line \in {"blank", "empty"}
HasLine(text) == \E i \in DOMAIN text : ~IsBlank(text[i])
LastLine(text) == CHOOSE i \in DOMAIN text :
                     ~IsBlank(text[i]) /\ \A j \in (i + 1)..Len(text) : IsBlank(text[j])
Carrier(ms) == CHOOSE i \in DOMAIN ms :
                  HasLine(ms[i]) /\ \A j \in (i + 1)..Len(ms) : ~HasLine(ms[j])

\* A text without its last line and the blank lines before it.
Stripped(text) ==
    LET before == SubSeq(text, 1, LastLine(text) - 1)
    IN IF HasLine(before) THEN SubSeq(before, 1, LastLine(before)) ELSE <<>>

\* A message that is empty is left out.
Rendering(ms) == FlattenSeq([i \in DOMAIN ms |-> IF ms[i] = <<"empty">> THEN <<>> ELSE ms[i]])

\* The messages without their last line, which is or may be the envelope.
Visible(ms) ==
    IF ~\E i \in DOMAIN ms : HasLine(ms[i]) THEN <<>>
    ELSE Rendering([ms EXCEPT ![Carrier(ms)] = Stripped(@)])

\* A protected value is split between the end of a message and the next one.
Crosses(ms) == \E i \in 1..(Len(ms) - 1) : Last(ms[i]) = "half" /\ Head(ms[i + 1]) = "rest"

\* Mutant: only protected values are withheld.
SafeFromSecrets(text) == \A i \in DOMAIN text : text[i] # "secret"

Safe(text) == \A i \in DOMAIN text : text[i] \notin {"secret", "json", "end"}

\* What was admitted may only grow in its last message, and not once another follows.
Changed(ms) ==
    \/ Len(ms) < Len(candidates)
    \/ \E i \in DOMAIN candidates :
          IF Len(ms) = Len(candidates) /\ i = Len(ms) THEN ~Starts(ms[i], candidates[i])
          ELSE ms[i] # candidates[i]

Refuse == ending' = "refused" /\ UNCHANGED <<candidates, shown, stalled>>
Keep == UNCHANGED <<shown, stalled, ending>>

\* Once something is withheld everything after it is, so that nothing is reordered.
Reconcile(ms) ==
    IF Changed(ms) THEN Refuse
    ELSE /\ candidates' = ms
         /\ \/ Crosses(ms) /\ stalled' = TRUE /\ UNCHANGED <<shown, ending>>
            \/ ~Crosses(ms) /\ stalled /\ Keep
            \/ /\ ~Crosses(ms) /\ ~stalled
               /\ \/ ~Starts(Visible(ms), shown) /\ ending' = "refused" /\ UNCHANGED <<shown, stalled>>
                  \/ Visible(ms) = shown /\ Keep
                  \/ /\ Starts(Visible(ms), shown) /\ Visible(ms) # shown
                     /\ \/ ~Safe(Visible(ms)) /\ stalled' = TRUE /\ UNCHANGED <<shown, ending>>
                        \/ Safe(Visible(ms)) /\ shown' = Visible(ms) /\ UNCHANGED <<stalled, ending>>
                        \/ Safe(Visible(ms)) /\ ending' = "sink" /\ UNCHANGED <<shown, stalled>>

Observe ==
    /\ ending = "running" /\ Len(norm.messages) < MaxMessages
    /\ \E r \in Records :
          LET n == Normalize(norm, r)
              whole == Completed(n, r)
          IN /\ norm' = n
             /\ IF ~Looked(r) THEN UNCHANGED candidates /\ Keep
                ELSE IF ~Accepted(whole) THEN Refuse
                ELSE IF whole.messages = <<>> THEN UNCHANGED candidates /\ Keep
                ELSE Reconcile(whole.messages)
    /\ UNCHANGED <<stream, native>>

\* The terminal envelope is the last line that is not blank.
EndsWithEnvelope(ms) ==
    \E i \in DOMAIN ms : HasLine(ms[i]) /\ LET m == ms[Carrier(ms)] IN m[LastLine(m)] = "end"

\* A native run renders its messages as they are.
Rendered(ms) == IF native THEN FlattenSeq(ms) ELSE Visible(ms)

\* The harness has ended: the whole stream is normalized and its text rendered
\* after what was shown.
Settle ==
    /\ ending = "running"
    /\ ending' = IF ~Accepted(norm) \/ (~native /\ ~EndsWithEnvelope(norm.messages)) THEN "malformed"
                 ELSE IF ~Starts(Rendered(norm.messages), shown) THEN "mismatch" ELSE "ok"
    /\ UNCHANGED <<stream, native, norm, candidates, shown, stalled>>

LiveNext == Observe \/ Settle

LiveSpec == LiveInit /\ [][LiveNext]_liveVars

-----------------------------------------------------------------------------
(* Properties                                                               *)

\* Human output only withholds (cli/README.md:391): it never refuses a run whose
\* records and messages are valid, at none of the records it looks at and not
\* when the settled text is compared with what was shown.
LiveAcceptsValid ==
    /\ ending = "refused" => norm.at \in {"malformed", "failed"}
    /\ ending # "mismatch"

\* No terminal envelope, no line that begins like JSON and no protected value is
\* shown, in one piece or split between two messages, however it was streamed.
NothingProtectedShown ==
    /\ \A l \in DOMAIN shown : shown[l] \in {"x", "y", "blank", "empty", "half", "rest"}
    /\ \A i \in DOMAIN candidates :
          Crosses(SubSeq(candidates, 1, i)) =>
              Len(shown) <= Len(Rendering(SubSeq(candidates, 1, i - 1)))
=============================================================================
