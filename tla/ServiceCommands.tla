---------------------------- MODULE ServiceCommands ----------------------------
(***************************************************************************)
(* One hosted command at a time against a service that others change, too: *)
(* the steps of ServiceScripts, the exchange of each request (an answer, a *)
(* refusal, a lost or a malformed answer, an interrupt), the confirmation  *)
(* gate, and the user who repeats the command: with --yes after its plan,  *)
(* as it was after an answer that decides nothing, and with the reported   *)
(* idempotency key.  A request that the client gave up may be handled by   *)
(* the service at any later time.                                          *)
(***************************************************************************)
EXTENDS ServiceScripts, Integers, SequencesExt

CONSTANTS
    Orders,     \* the command lines of the run
    Things,     \* the members, runs, revisions ... there may be, in their order
    MaxStirs    \* bound: changes by others

VARIABLES
    orders,     \* the command lines given so far; the last is the current one
    todo,       \* its steps not yet taken
    aim,        \* what its change is about
    idemKey,    \* the idempotency key it uses, 0: none
    exchange,   \* the request of the step: "no", "sent", then how it was answered
    flight,     \* changes the service has received and not yet handled
    landed,     \* changes it has made
    told,       \* the stream has told the run of the draft
    verdict,    \* [code, names]: how the command ended, and what its report names
    there,      \* those of the things that are there
    place,      \* the place of the output file: "clear", "taken", "mine", "part"
    stirs       \* changes by others so far

svcVars == <<orders, todo, aim, idemKey, exchange, flight, landed, told, verdict, there,
             place, stirs>>

NoVerdict == [code |-> "none", names |-> {}]

\* The operations of shared/service/operations.v1.json by their mutation flag.
Readings == {"service.status", "model.list", "repo.list", "example.list", "example.show",
             "run.quote", "run.list", "program.list", "program.show", "program.revisions",
             "result.list", "job.list", "job.show", "job.deliveries", "job.contract.list",
             "wallet.balance", "wallet.events", "wallet.usage", "org.show", "org.member.list"}
Mutations == {"run.input", "run.cancel", "run.share", "program.save", "program.visibility",
              "program.delete", "program.draft", "result.publish", "result.unpublish",
              "job.create", "job.update", "job.delete", "job.rotate-secret",
              "job.contract.detach", "wallet.redeem", "wallet.topup", "org.create",
              "org.rename", "org.default", "org.member.role", "org.member.remove",
              "org.invite", "org.invitation.revoke", "org.invitation.accept"}

\* The invocation as the user typed it.
Order == [op : Readings \cup Mutations, given : SUBSET Says, preview : BOOLEAN, yes : BOOLEAN]

\* What the command line takes: one OWNER, where there is an OWNER/SLUG, and
\* --output-file where there is one file.
TakesOwner == {"program.revisions", "program.save", "program.visibility", "program.delete",
               "result.publish", "result.unpublish"}
TakesFile == {"example.show", "program.show", "program.draft"}
Typed(c) ==
    /\ "other" \in c.given => c.op \in TakesOwner /\ "me" \notin c.given
    /\ c.given \cap {"file", "slash"} # {} => c.op \in TakesFile

ServiceAssumption == \A c \in Orders : c \in Order /\ Typed(c)
ASSUME ServiceAssumption
current == orders[Len(orders)]

Codes == {"none", "ok", "preview", "confirm", "usage", "denied", "missing", "conflict",
          "unclear", "runfailed", "cancelled"}

-----------------------------------------------------------------------------
Script(c) ==
    CASE c.op = "service.status" -> ServiceStatus(c)
      [] c.op = "model.list" -> ModelList(c)
      [] c.op = "repo.list" -> RepoList(c)
      [] c.op = "example.list" -> ExampleList(c)
      [] c.op = "example.show" -> ExampleShow(c)
      [] c.op = "run.quote" -> RunQuote(c)
      [] c.op = "run.list" -> RunList(c)
      [] c.op = "run.input" -> RunInput(c)
      [] c.op = "run.cancel" -> RunCancel(c)
      [] c.op = "run.share" -> RunShare(c)
      [] c.op = "program.list" -> ProgramList(c)
      [] c.op = "program.show" -> ProgramShow(c)
      [] c.op = "program.revisions" -> ProgramRevisions(c)
      [] c.op = "program.save" -> ProgramSave(c)
      [] c.op = "program.visibility" -> ProgramVisibility(c)
      [] c.op = "program.delete" -> ProgramDelete(c)
      [] c.op = "program.draft" -> ProgramDraft(c)
      [] c.op = "result.list" -> ResultList(c)
      [] c.op = "result.publish" -> ResultPublish(c)
      [] c.op = "result.unpublish" -> ResultUnpublish(c)
      [] c.op = "job.list" -> JobList(c)
      [] c.op = "job.show" -> JobShow(c)
      [] c.op = "job.deliveries" -> JobDeliveries(c)
      [] c.op = "job.contract.list" -> ContractList(c)
      [] c.op = "job.create" -> JobCreate(c)
      [] c.op = "job.update" -> JobUpdate(c)
      [] c.op = "job.delete" -> JobDelete(c)
      [] c.op = "job.rotate-secret" -> JobRotateSecret(c)
      [] c.op = "job.contract.detach" -> ContractDetach(c)
      [] c.op = "wallet.balance" -> WalletBalance(c)
      [] c.op = "wallet.events" -> WalletEvents(c)
      [] c.op = "wallet.usage" -> WalletUsage(c)
      [] c.op = "wallet.redeem" -> WalletRedeem(c)
      [] c.op = "wallet.topup" -> WalletTopup(c)
      [] c.op = "org.show" -> OrgShow(c)
      [] c.op = "org.member.list" -> MemberList(c)
      [] c.op = "org.create" -> OrgCreate(c)
      [] c.op = "org.rename" -> OrgRename(c)
      [] c.op = "org.default" -> OrgDefault(c)
      [] c.op = "org.member.role" -> MemberRole(c)
      [] c.op = "org.member.remove" -> MemberRemove(c)
      [] c.op = "org.invite" -> OrgInvite(c)
      [] c.op = "org.invitation.revoke" -> InvitationRevoke(c)
      [] c.op = "org.invitation.accept" -> InvitationAccept(c)

\* confirm-class: every mutation but program save needs --yes.
NeedsYes(op) == op # "program.save"

\* The changes that take their thing away, and those of them whose command
\* takes a missing thing for the goal.
Removals == {"program.delete", "job.delete", "result.unpublish", "job.contract.detach",
             "org.member.remove", "org.invitation.revoke"}
AbsentIsDone == {"program.delete", "job.delete"}

\* A run that is there is live; run input and run cancel are about live runs.
Steering == {"run.input", "run.cancel"}

-----------------------------------------------------------------------------
Step == IF todo = <<>> THEN "report" ELSE Head(todo)
Underway == verdict = NoVerdict

Proceed == todo' = Tail(todo) /\ exchange' = "no"

EndAs(code, names) ==
    /\ verdict' = [code |-> code, names |-> names]
    /\ todo' = <<>> /\ exchange' = "no"

\* The steps that send a request.
Requests == {"own", "find", "live", "ask", "model", "hint", "change", "draft", "ended", "settle"}

\* What an error of this step says of a change already made.
Named ==
    CASE Step = "draft" /\ told -> {"run"}
      [] Step = "settle" -> {"accepted"}
      [] Step = "change" /\ idemKey # 0 -> {"key"}
      [] OTHER -> {}

NewOrder(c) ==
    /\ todo = Script(c)
    /\ aim = IF "moving" \in c.given THEN "none" ELSE Head(Things)
    /\ idemKey = IF "key" \in c.given THEN 1 ELSE 0

SvcInit ==
    /\ \E c \in Orders : orders = <<c>> /\ NewOrder(c)
    /\ exchange = "no" /\ flight = {} /\ landed = {} /\ told = FALSE
    /\ verdict = NoVerdict
    /\ there = ToSet(Things)
    /\ place \in IF orders[1].given \cap {"file", "slash"} = {} THEN {"clear"}
                 ELSE {"clear", "taken"}
    /\ stirs = 0

-----------------------------------------------------------------------------
\* Local steps.

\* Arguments, files and credentials that are not in order end the command.
CheckArguments ==
    /\ Underway /\ Step = "local"
    /\ \/ Proceed /\ UNCHANGED verdict
       \/ EndAs("usage", {})
    /\ UNCHANGED <<orders, aim, idemKey, flight, landed, told, there, place, stirs>>

\* preflight_output does not mind a name that ends in a slash, check_new_file
\* of example show does.
SpotTaken == place # "clear" \/ ("slash" \in current.given /\ current.op = "example.show")

CheckSpot ==
    /\ Underway /\ Step = "spot"
    /\ IF SpotTaken THEN EndAs("usage", {}) ELSE Proceed /\ UNCHANGED verdict
    /\ UNCHANGED <<orders, aim, idemKey, flight, landed, told, there, place, stirs>>

\* Mutant: --yes is looked at before --preview.
ConfirmGateEager ==
    /\ Underway /\ Step = "gate"
    /\ IF current.yes
       THEN Proceed /\ UNCHANGED verdict
       ELSE EndAs(IF current.preview THEN "preview" ELSE "confirm", {})
    /\ UNCHANGED <<orders, aim, idemKey, flight, landed, told, there, place, stirs>>

ConfirmGate ==
    /\ Underway /\ Step = "gate"
    /\ IF current.preview
       THEN EndAs("preview", {})
       ELSE IF NeedsYes(current.op) /\ ~current.yes
       THEN EndAs("confirm", {})
       ELSE Proceed /\ UNCHANGED verdict
    /\ UNCHANGED <<orders, aim, idemKey, flight, landed, told, there, place, stirs>>

\* Mutant: every invocation mints a key of its own.
MintKeyAnew ==
    /\ Underway /\ Step = "key"
    /\ idemKey' = Len(orders)
    /\ Proceed
    /\ UNCHANGED <<orders, aim, verdict, flight, landed, told, there, place, stirs>>

MintKey ==
    /\ Underway /\ Step = "key"
    /\ idemKey' = IF idemKey = 0 THEN Len(orders) ELSE idemKey
    /\ Proceed
    /\ UNCHANGED <<orders, aim, verdict, flight, landed, told, there, place, stirs>>

\* Mutant: the file is opened for writing, whether it exists or not.
WriteFileOver ==
    /\ Underway /\ Step = "save"
    /\ \/ "slash" \notin current.given /\ place' = "mine" /\ Proceed /\ UNCHANGED verdict
       \/ place' = "part" /\ EndAs("usage", {})
    /\ UNCHANGED <<orders, aim, idemKey, flight, landed, told, there, stirs>>

\* write_new_file creates the file exclusively; a failed write leaves what it
\* wrote.
WriteFile ==
    /\ Underway /\ Step = "save"
    /\ \/ /\ place = "clear" /\ "slash" \notin current.given
          /\ \/ place' = "mine" /\ Proceed /\ UNCHANGED verdict
             \/ place' = "part" /\ EndAs("usage", {})
       \/ /\ place # "clear" \/ "slash" \in current.given
          /\ EndAs("usage", {}) /\ UNCHANGED place
    /\ UNCHANGED <<orders, aim, idemKey, flight, landed, told, there, stirs>>

ReportDone ==
    /\ Underway /\ Step = "report"
    /\ EndAs("ok", {})
    /\ UNCHANGED <<orders, aim, idemKey, flight, landed, told, there, place, stirs>>

-----------------------------------------------------------------------------
\* Reads: the answer is what the service has at that moment.

\* No answer, one that cannot be read, a refusal, or an interrupt.
Failures == {"denied", "unclear", "cancelled"}

ReadFails(code) == EndAs(code, Named)

\* An OWNER that the caller's own listing of the slug does not name, or that
\* no listing can confirm, never reaches a change.
CheckOwner ==
    /\ Underway /\ Step = "own"
    /\ \/ /\ "me" \in current.given /\ aim \in there
          /\ Proceed /\ UNCHANGED verdict
       \/ /\ "other" \in current.given \/ aim \notin there
          /\ EndAs("usage", {})
       \/ \E code \in Failures : ReadFails(code)
    /\ UNCHANGED <<orders, aim, idemKey, flight, landed, told, there, place, stirs>>

\* A member number counts from the one that joined first; latest, a revision
\* or a label means the newest.
ByAge(op) == op \in {"org.member.role", "org.member.remove", "org.member.list"}
Meant ==
    LET present == {i \in DOMAIN Things : Things[i] \in there}
    IN Things[IF ByAge(current.op) THEN Min(present) ELSE Max(present)]

ResolveName ==
    /\ Underway /\ Step = "find"
    /\ \/ there # {} /\ aim' = Meant /\ Proceed /\ UNCHANGED verdict
       \/ /\ there = {}
          /\ EndAs(IF ByAge(current.op) THEN "usage" ELSE "missing", {})
          /\ UNCHANGED aim
       \/ (\E code \in Failures : ReadFails(code)) /\ UNCHANGED aim
    /\ UNCHANGED <<orders, idemKey, flight, landed, told, there, place, stirs>>

\* Without a session here the record decides: an ended run needs no cancel and
\* takes no instruction, and a live one is steered where its session is.
ReadRecord ==
    /\ Underway /\ Step = "live"
    /\ \/ /\ aim \notin there
          /\ EndAs(IF current.op = "run.cancel" THEN "ok" ELSE "conflict", {})
       \/ aim \in there /\ EndAs("usage", {})
       \/ \E code \in Failures : ReadFails(code)
    /\ UNCHANGED <<orders, aim, idemKey, flight, landed, told, there, place, stirs>>

Ask ==
    /\ Underway /\ Step \in {"ask", "settle"}
    /\ \/ Proceed /\ UNCHANGED verdict
       \/ \E code \in Failures \cup {"missing"} : ReadFails(code)
    /\ UNCHANGED <<orders, aim, idemKey, flight, landed, told, there, place, stirs>>

\* check_model and advisory_quote: the service's own check applies when the
\* look-up fails.
AskInPassing ==
    /\ Underway /\ Step \in {"model", "hint"}
    /\ \/ Proceed /\ UNCHANGED verdict
       \/ Step = "model" /\ EndAs("usage", {})
       \/ EndAs("cancelled", {})
    /\ UNCHANGED <<orders, aim, idemKey, flight, landed, told, there, place, stirs>>

\* already_ended: a record that is not written yet will do.
ReadEnded ==
    /\ Underway /\ Step = "ended"
    /\ \/ EndAs("ok", {})
       \/ \E code \in Failures : ReadFails(code)
    /\ UNCHANGED <<orders, aim, idemKey, flight, landed, told, there, place, stirs>>

-----------------------------------------------------------------------------
\* The change.

\* Without a usable key nothing is sent.
Send ==
    /\ Underway /\ Step \in {"change", "draft"} /\ exchange = "no"
    /\ \/ /\ flight' = flight \cup {[try |-> Len(orders), aim |-> aim, key |-> idemKey]}
          /\ exchange' = "sent"
          /\ UNCHANGED <<todo, verdict>>
       \/ EndAs("denied", Named) /\ UNCHANGED flight
    /\ UNCHANGED <<orders, aim, idemKey, landed, told, there, place, stirs>>

\* What the service makes of a change: its thing may be gone, a top-up with a
\* known key is the earlier one, and anything may be refused.
AboutThings == Removals \cup Steering \cup {"org.member.role", "run.share", "program.visibility"}

Replied(f) == exchange' = IF f.try = Len(orders) /\ exchange = "sent" /\ Underway
                          THEN IF f \in landed' THEN "accepted"
                               ELSE IF f.aim \in there \/ current.op \notin AboutThings
                               THEN "denied"
                               ELSE IF current.op \in Steering THEN "ended" ELSE "missing"
                          ELSE exchange

Handle ==
    \E f \in flight :
        /\ flight' = flight \ {f}
        /\ \/ /\ current.op \in AboutThings => f.aim \in there
              /\ landed' = landed \cup {f}
              /\ there' = IF current.op \in Removals THEN there \ {f.aim} ELSE there
           \/ UNCHANGED <<landed, there>>
        /\ Replied(f)
        /\ UNCHANGED <<orders, todo, aim, idemKey, told, verdict, place, stirs>>

\* Mutant: a dropped answer of a removal is taken for a refusal.
GiveUpRefused ==
    /\ Underway /\ Step \in {"change", "draft"} /\ exchange # "no"
    /\ EndAs(IF current.op \in Removals THEN "denied" ELSE "unclear", Named)
    /\ UNCHANGED <<orders, aim, idemKey, flight, landed, told, there, place, stirs>>

\* The answer arrives; a success that does not have its form decides nothing.
Answered ==
    /\ Underway /\ Step = "change"
    /\ \/ exchange = "accepted" /\ Proceed /\ UNCHANGED verdict
       \/ exchange = "accepted" /\ EndAs("unclear", Named)
       \/ exchange = "denied" /\ EndAs("denied", Named)
       \/ /\ exchange = "missing"
          /\ EndAs(IF current.op \in AbsentIsDone THEN "ok" ELSE "missing", Named)
       \/ exchange = "ended" /\ current.op = "run.input" /\ EndAs("conflict", Named)
       \/ /\ exchange = "ended" /\ current.op = "run.cancel"
          /\ todo' = <<"ended">> /\ exchange' = "no" /\ UNCHANGED verdict
    /\ UNCHANGED <<orders, aim, idemKey, flight, landed, told, there, place, stirs>>

\* A connection that fails, a timeout, or an answer of the 5xx kind.
GiveUp ==
    /\ Underway /\ Step \in {"change", "draft"} /\ exchange # "no"
    /\ EndAs("unclear", Named)
    /\ UNCHANGED <<orders, aim, idemKey, flight, landed, told, there, place, stirs>>

\* check() before a request, while it is waited for, and after its answer.
Interrupt ==
    /\ Underway /\ Step \in {"change", "draft"}
    /\ EndAs("cancelled", Named)
    /\ UNCHANGED <<orders, aim, idemKey, flight, landed, told, there, place, stirs>>

-----------------------------------------------------------------------------
\* The events of a draft.

DraftRefused ==
    /\ Underway /\ Step = "draft" /\ exchange = "denied"
    /\ EndAs("denied", {})
    /\ UNCHANGED <<orders, aim, idemKey, flight, landed, told, there, place, stirs>>

TellRun ==
    /\ Underway /\ Step = "draft" /\ exchange = "accepted" /\ ~told
    /\ told' = TRUE
    /\ UNCHANGED <<orders, todo, aim, idemKey, exchange, flight, landed, verdict, there,
                   place, stirs>>

\* The run completes with a program, fails or returns none, or an event
\* cannot be read.
DraftEnds ==
    /\ Underway /\ Step = "draft" /\ exchange = "accepted"
    /\ \/ Proceed /\ UNCHANGED verdict
       \/ EndAs("runfailed", Named)
       \/ EndAs("unclear", {})
    /\ UNCHANGED <<orders, aim, idemKey, flight, landed, told, there, place, stirs>>

-----------------------------------------------------------------------------
\* Others, and the user.

OthersStir ==
    /\ Underway /\ stirs < MaxStirs
    /\ \/ \E t \in there : there' = there \ {t} /\ UNCHANGED place
       \/ /\ current.given \cap {"file", "slash"} # {} /\ place = "clear"
          /\ place' = "taken" /\ UNCHANGED there
    /\ stirs' = stirs + 1
    /\ UNCHANGED <<orders, todo, aim, idemKey, exchange, flight, landed, told, verdict>>

\* confirmArgv, or the same command again after an answer that decides
\* nothing, with the idempotency key that was reported.
Again ==
    IF verdict.code \in {"preview", "confirm"}
    THEN [current EXCEPT !.preview = FALSE, !.yes = TRUE]
    ELSE [current EXCEPT !.given = @ \cup (verdict.names \cap {"key"})]

Repeat ==
    /\ verdict.code \in {"preview", "confirm", "unclear", "cancelled"}
    /\ Len(orders) < 3
    /\ orders' = Append(orders, Again)
    /\ todo' = Script(Again)
    /\ aim' = IF "moving" \in Again.given THEN "none" ELSE Head(Things)
    /\ idemKey' = IF "key" \in Again.given THEN idemKey ELSE 0
    /\ exchange' = "no" /\ told' = FALSE /\ verdict' = NoVerdict
    /\ UNCHANGED <<flight, landed, there, place, stirs>>

SvcNext ==
    \/ CheckArguments \/ CheckSpot \/ ConfirmGate \/ MintKey \/ WriteFile \/ ReportDone
    \/ CheckOwner \/ ResolveName \/ ReadRecord \/ Ask \/ AskInPassing \/ ReadEnded
    \/ Send \/ Handle \/ Answered \/ GiveUp \/ Interrupt
    \/ DraftRefused \/ TellRun \/ DraftEnds
    \/ OthersStir \/ Repeat

SvcSpec == SvcInit /\ [][SvcNext]_svcVars

-----------------------------------------------------------------------------
SvcTypeOK ==
    /\ orders \in Seq(Order) /\ Len(orders) \in 1..3
    /\ \A i \in DOMAIN todo : todo[i] \in Requests \cup {"local", "spot", "gate", "key", "save"}
    /\ aim \in Range(Things) \cup {"none"} /\ idemKey \in 0..3
    /\ exchange \in {"no", "sent", "accepted", "denied", "missing", "ended"}
    /\ \A f \in flight \cup landed : f.try \in 1..Len(orders) /\ f.aim \in Range(Things)
    /\ told \in BOOLEAN
    /\ verdict.code \in Codes /\ verdict.names \subseteq {"key", "run", "accepted"}
    /\ there \subseteq Range(Things)
    /\ place \in {"clear", "taken", "mine", "part"} /\ stirs \in 0..MaxStirs

Made(t) == \E f \in landed : f.try = t
MayStillBeMade(t) == \E f \in flight : f.try = t

\* Nothing is changed by a plan, without --yes where it is needed, or under an
\* OWNER that is not confirmed to be the caller: not now and not later.
OnlyConfirmedChanges ==
    \A f \in flight \cup landed :
        LET c == orders[f.try]
        IN /\ ~c.preview /\ (NeedsYes(c.op) => c.yes)
           /\ "other" \notin c.given

\* A change that is reported as made was made (or its thing was gone), and one
\* that is reported as refused, missing or only planned is not made and will
\* not be.  A run that was paid for or cancelled before a later step failed is
\* named, except when the file of a draft could not be written.
ReportIsTrue ==
    LET t == Len(orders)
        changes == "gate" \in ToSet(Script(current))
        late == (current.op = "program.draft" /\ verdict.code = "usage") \/ verdict.names # {}
    IN /\ verdict.code = "ok" /\ changes =>
              Made(t) \/ (current.op \in AbsentIsDone \cup {"run.cancel"} /\ aim \notin there)
       /\ verdict.code \in {"preview", "confirm"} => ~Made(t) /\ ~MayStillBeMade(t)
       /\ verdict.code \in {"usage", "denied", "missing", "conflict"} /\ ~late =>
              ~Made(t) /\ ~MayStillBeMade(t)
       /\ verdict.code \in {"runfailed", "cancelled"} /\ told => "run" \in verdict.names

\* A top-up repeated with the key that was reported opens one checkout session,
\* however late the service handles the requests.
TopUpOnce ==
    current.op = "wallet.topup" => Cardinality({f.key : f \in landed \cup flight}) <= 1

\* The file is the whole result or it is not the command's: a report of success
\* has written it, and the file of somebody else is never touched.
OutputIsKept ==
    [][/\ place = "taken" => place' = "taken"
       /\ (verdict'.code = "ok" /\ verdict = NoVerdict
           /\ current.given \cap {"file", "slash"} # {}) => place = "mine"]_svcVars

\* What the checks before the request are for: while its place stays free, a
\* paid draft never ends in a refusal of the place.  A name that ends in a
\* slash gets that far.
PaidIsNotRefused ==
    verdict.code = "usage" /\ place = "clear" => ~Made(Len(orders))
=============================================================================
