---------------------------- MODULE ServiceScripts ----------------------------
(***************************************************************************)
(* The hosted operations other than run submit and run watch, each as the  *)
(* steps its handler takes in order.  A step is local, a request, or the   *)
(* confirmation gate:                                                      *)
(*   "local"   arguments and input files are checked                       *)
(*   "spot"    the place of --output-file is looked at                     *)
(*   "own"     OWNER of OWNER/SLUG is checked against the caller           *)
(*   "find"    a name that moves is resolved to what it means now          *)
(*   "live"    a run without a session here: its record decides            *)
(*   "ask"     a read the command cannot do without                        *)
(*   "model"   --model is looked up; only an unknown one stops             *)
(*   "hint"    an advisory read; only an interrupt stops                   *)
(*   "gate"    --preview ends with the plan, no --yes ends with a refusal  *)
(*   "key"     the idempotency key is minted unless it was given           *)
(*   "change"  the request that changes the service                        *)
(*   "draft"   the request that starts a paid run and streams its events   *)
(*   "ended"   the record of a run that could not be cancelled             *)
(*   "settle"  a read after the change was accepted                        *)
(*   "save"    the result is written to --output-file                      *)
(***************************************************************************)
EXTENDS Sequences, FiniteSets

\* What a command line can say: "moving" a name whose meaning moves (a member
\* number, latest, a revision), "me" and "other" an OWNER, "model" --model,
\* "file" --output-file with a proper name and "slash" with one that ends in a
\* slash, "away" a run whose session another machine has, "free" a job that
\* starts no paid runs, "key" --idempotency-key.
Says == {"moving", "me", "other", "model", "file", "slash", "away", "free", "key"}

If(c, what, steps) == IF what \in c.given THEN steps ELSE <<>>
IfNot(c, what, steps) == IF what \in c.given THEN <<>> ELSE steps

\* Some reads are made for the plan only.
ForThePlan(c, steps) == IF c.preview \/ ~c.yes THEN steps ELSE <<>>

\* OWNER of an own program is confirmed before the gate.
Owner(c) == IF c.given \cap {"me", "other"} # {} THEN <<"own">> ELSE <<>>

Spot(c) == IF c.given \cap {"file", "slash"} # {} THEN <<"spot">> ELSE <<>>
Save(c) == IF c.given \cap {"file", "slash"} # {} THEN <<"save">> ELSE <<>>

-----------------------------------------------------------------------------
\* Reads.

ServiceStatus(c) == <<"ask">>
ModelList(c)     == <<"ask">>
RepoList(c)      == <<"ask">>
ExampleList(c)   == <<"ask">>

\* The list resolves an id or a label to an example.
ExampleShow(c) == <<"local">> \o Spot(c) \o <<"find", "ask">> \o Save(c)

RunQuote(c) == <<"local", "ask">> \o If(c, "moving", <<"find">>) \o <<"ask">>
RunList(c)  == <<"local", "ask">>

ProgramList(c) == <<"ask">>
ProgramShow(c) == <<"local">> \o Spot(c) \o If(c, "moving", <<"find">>) \o <<"ask">> \o Save(c)

\* The listing itself names the owner.
ProgramRevisions(c) == <<"local">> \o (IF c.given = {} THEN <<"ask">> ELSE <<"own">>)

ResultList(c) == <<"local">> \o If(c, "moving", <<"find">>) \o <<"ask">>

OrgShow(c)    == <<"local", "ask">>
MemberList(c) == IfNot(c, "moving", <<"local">>) \o If(c, "moving", <<"find">>) \o <<"ask">>

JobList(c)       == <<"ask">>
JobShow(c)       == <<"local", "ask">>
JobDeliveries(c) == <<"local", "ask">>
ContractList(c)  == <<"local", "ask">>

WalletBalance(c) == <<"ask">>
WalletEvents(c)  == <<"local", "ask">>
WalletUsage(c)   == <<"local", "ask">>

-----------------------------------------------------------------------------
\* Runs.

RunInput(c)  == <<"local">> \o If(c, "away", <<"live">>) \o <<"gate", "change">>
RunCancel(c) == <<"local">> \o If(c, "away", <<"live">>) \o <<"gate", "change", "settle">>

\* RUN_ID is a name of its own, or latest, which the newest run answers to.
RunName(c)  == If(c, "moving", <<"find">>) \o IfNot(c, "moving", <<"local">>)
RunShare(c) == RunName(c) \o <<"gate", "change">>

-----------------------------------------------------------------------------
\* Programs and their published results.

ProgramSave(c)       == <<"local">> \o Owner(c) \o <<"gate", "change">>
ProgramVisibility(c) == <<"local">> \o Owner(c) \o <<"gate", "change">>
ProgramDelete(c)     == <<"local">> \o Owner(c) \o <<"gate", "change">>
ProgramDraft(c) ==
    <<"local">> \o Spot(c) \o If(c, "model", <<"model">>) \o ForThePlan(c, <<"hint">>)
    \o <<"gate", "draft">> \o Save(c)

ResultPublish(c)   == <<"local">> \o Owner(c) \o <<"gate", "change">>
ResultUnpublish(c) == <<"local">> \o Owner(c) \o <<"gate", "change">>

-----------------------------------------------------------------------------
\* Jobs (job configure and job contract attach have a module of their own).

JobCreate(c) ==
    <<"local">> \o If(c, "moving", <<"find">>)
    \o IfNot(c, "free", ForThePlan(c, <<"ask">>)) \o <<"gate", "change">>
JobUpdate(c)       == <<"local", "gate", "change">>
JobDelete(c)       == <<"local", "gate", "change">>
JobRotateSecret(c) == <<"local", "gate", "change">>
ContractDetach(c)  == <<"local", "gate", "change">>

-----------------------------------------------------------------------------
\* The wallet.

WalletRedeem(c) == <<"local", "gate", "change">>
WalletTopup(c)  == <<"local", "gate", "key", "change">>

-----------------------------------------------------------------------------
\* Organizations: the member is resolved before the gate, so the plan names it.

OrgCreate(c)     == <<"local", "gate", "change">>
OrgRename(c)     == <<"local", "gate", "change">>
OrgDefault(c)    == <<"local", "gate", "change">>
MemberRole(c)    == <<"local">> \o If(c, "moving", <<"find">>) \o <<"gate", "change">>
MemberRemove(c)  == <<"local">> \o If(c, "moving", <<"find">>) \o <<"gate", "change">>
OrgInvite(c)     == <<"local", "gate", "change">>
InvitationRevoke(c) == <<"local", "gate", "change">>
InvitationAccept(c) == <<"local", "gate", "change">>
=============================================================================
