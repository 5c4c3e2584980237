---------------------------- MODULE CommandProofs -----------------------------
(***************************************************************************)
(* What a hosted command does and says, for any set of command lines, any   *)
(* number of things and of changes by others: nothing is changed without    *)
(* the confirmation it needs, reports are true, a repeated top-up stays one *)
(* and the output file is the command's own.                                *)
(*                                                                          *)
(* The scripts are sequences of steps.  The first part shows what each of   *)
(* them looks like (Ahead): checks and reads, the check of another OWNER    *)
(* among them, then the gate, then the change.  The second part follows a   *)
(* command through its phases.                                              *)
(*                                                                          *)
(* The third part is about the commands that change a job.  Each setting of *)
(* each of the three requests an attach can send (Fresh, ServerMerge,       *)
(* ClientMerge) is computed, and compared with what the options want of it  *)
(* (Wanted); the invariant JobInv says that what is about to be sent was    *)
(* made of what was read last, and how old that may be.                     *)
(*                                                                          *)
(* The last part is about the login, for every expiry and interval: one     *)
(* that says nothing was stored has stored nothing.                         *)
(***************************************************************************)
EXTENDS ServiceCommands, HostedJobs, DeviceLogin, SequenceTheorems, FiniteSetTheorems, TLAPS

\* The shape of a script: checks and reads, then the gate and the change, or
\* the result of a reading.
FileGiven(c) == c.given \cap {"file", "slash"} # {}
Checks == {"local", "spot", "own", "find", "live", "ask", "model", "hint"}
Quiet(c) == IF c.op = "wallet.topup" THEN {"local"} ELSE Checks
Final(c) ==
    IF c.op = "program.draft"
    THEN IF FileGiven(c) THEN <<"gate", "draft", "save">> ELSE <<"gate", "draft">>
    ELSE IF c.op = "wallet.topup" THEN <<"gate", "key", "change">>
    ELSE IF c.op = "run.cancel" THEN <<"gate", "change", "settle">>
    ELSE IF c.op \in Mutations THEN <<"gate", "change">>
    ELSE IF FileGiven(c) THEN <<"save">> ELSE <<>>

\* An OWNER other than the caller is checked before the gate.
Owning(P, c) ==
    "other" \in c.given /\ c.op \in Mutations => \E i \in 1..Len(P) : P[i] = "own"

\* What is left of a script whose gate is still ahead.
Ahead(s, c) == \E P \in Seq(Quiet(c)) : s = P \o Final(c) /\ Owning(P, c)

LEMMA Glue2 ==
  ASSUME NEW a, NEW b, NEW d
  PROVE  <<a>> \o <<b, d>> = <<a, b, d>>
<1> DEFINE S == {a, b, d}
<1>1. <<a>> \in Seq(S) /\ <<b, d>> \in Seq(S) /\ <<a, b, d>> \in Seq(S)
  OBVIOUS
<1>2. Len(<<a>>) = 1 /\ Len(<<b, d>>) = 2 /\ Len(<<a, b, d>>) = 3
  OBVIOUS
<1>3. /\ <<a>> \o <<b, d>> \in Seq(S)
      /\ Len(<<a>> \o <<b, d>>) = 3
      /\ \A i \in 1..3 : (<<a>> \o <<b, d>>)[i] = IF i <= 1 THEN <<a>>[i] ELSE <<b, d>>[i - 1]
  BY <1>1, <1>2, ConcatProperties
<1>4. \A i \in 1..3 : (<<a>> \o <<b, d>>)[i] = <<a, b, d>>[i]
  BY <1>3
<1>5. QED
  BY <1>1, <1>2, <1>3, <1>4, SeqEqual
LEMMA Glue3 ==
  ASSUME NEW a, NEW b, NEW d, NEW e
  PROVE  <<a>> \o <<b, d, e>> = <<a, b, d, e>>
<1> DEFINE S == {a, b, d, e}
<1>1. <<a>> \in Seq(S) /\ <<b, d, e>> \in Seq(S) /\ <<a, b, d, e>> \in Seq(S)
  OBVIOUS
<1>2. Len(<<a>>) = 1 /\ Len(<<b, d, e>>) = 3 /\ Len(<<a, b, d, e>>) = 4
  OBVIOUS
<1>3. /\ <<a>> \o <<b, d, e>> \in Seq(S)
      /\ Len(<<a>> \o <<b, d, e>>) = 4
      /\ \A i \in 1..4 : (<<a>> \o <<b, d, e>>)[i] = IF i <= 1 THEN <<a>>[i] ELSE <<b, d, e>>[i - 1]
  BY <1>1, <1>2, ConcatProperties
<1>4. \A i \in 1..4 : (<<a>> \o <<b, d, e>>)[i] = <<a, b, d, e>>[i]
  BY <1>3
<1>5. QED
  BY <1>1, <1>2, <1>3, <1>4, SeqEqual
LEMMA Glue21 ==
  ASSUME NEW a, NEW b, NEW d
  PROVE  <<a, b>> \o <<d>> = <<a, b, d>>
<1> DEFINE S == {a, b, d}
<1>1. <<a, b>> \in Seq(S) /\ <<d>> \in Seq(S) /\ <<a, b, d>> \in Seq(S)
  OBVIOUS
<1>2. Len(<<a, b>>) = 2 /\ Len(<<d>>) = 1 /\ Len(<<a, b, d>>) = 3
  OBVIOUS
<1>3. /\ <<a, b>> \o <<d>> \in Seq(S)
      /\ Len(<<a, b>> \o <<d>>) = 3
      /\ \A i \in 1..3 : (<<a, b>> \o <<d>>)[i] = IF i <= 2 THEN <<a, b>>[i] ELSE <<d>>[i - 2]
  BY <1>1, <1>2, ConcatProperties
<1>4. \A i \in 1..3 : (<<a, b>> \o <<d>>)[i] = <<a, b, d>>[i]
  BY <1>3
<1>5. QED
  BY <1>1, <1>2, <1>3, <1>4, SeqEqual
LEMMA Single == \A S : \A x \in S : <<x>> \in Seq(S)
OBVIOUS
LEMMA Pair == \A S : \A x, y \in S : <<x, y>> \in Seq(S)
OBVIOUS
LEMMA Joined == \A S : \A s, t \in Seq(S) : s \o t \in Seq(S)
BY ConcatProperties

LEMMA SaveForm == \A S : \A c : "save" \in S => Save(c) \in Seq(S)
<1>1. TAKE S
<1>2. TAKE c
<1>3. HAVE "save" \in S
<1>4. <<"save">> \in Seq(S)
  BY <1>3, Single
<1>5. <<>> \in Seq(S)
  OBVIOUS
<1>6. QED
  BY <1>4, <1>5 DEF Save

LEMMA Parts ==
  ASSUME NEW c
  PROVE  /\ \A w : \A x \in Checks : If(c, w, <<x>>) \in Seq(Checks)
         /\ \A w : \A x \in Checks : IfNot(c, w, <<x>>) \in Seq(Checks)
         /\ \A x \in Checks : ForThePlan(c, <<x>>) \in Seq(Checks)
         /\ Owner(c) \in Seq(Checks)
         /\ Spot(c) \in Seq(Checks)
<1>1. <<>> \in Seq(Checks)
  OBVIOUS
<1>2. \A x \in Checks : <<x>> \in Seq(Checks)
  BY Single
<1>3. "own" \in Checks /\ "spot" \in Checks
  BY DEF Checks
<1>4. \A w : \A x \in Checks : If(c, w, <<x>>) \in Seq(Checks)
  BY <1>1, <1>2 DEF If
<1>5. \A w : \A x \in Checks : IfNot(c, w, <<x>>) \in Seq(Checks)
  BY <1>1, <1>2 DEF IfNot
<1>6. \A x \in Checks : ForThePlan(c, <<x>>) \in Seq(Checks)
  BY <1>1, <1>2 DEF ForThePlan
<1>7. Owner(c) \in Seq(Checks) /\ Spot(c) \in Seq(Checks)
  BY <1>1, <1>2, <1>3 DEF Owner, Spot
<1>8. QED
  BY <1>4, <1>5, <1>6, <1>7

\* Scripts that end with the gate and the change.
LEMMA MutationScript ==
  ASSUME NEW c \in Order, Typed(c), c.op \in Mutations
  PROVE  Ahead(Script(c), c)
<1> DEFINE G == <<"gate", "change">>
<1>0. /\ <<"local">> \in Seq(Checks) /\ <<>> \in Seq(Checks)
      /\ "local" \in Checks /\ "own" \in Checks /\ "find" \in Checks /\ "live" \in Checks
      /\ "ask" \in Checks /\ "model" \in Checks /\ "hint" \in Checks
  BY Single DEF Checks
<1>1. CASE c.op \in {"job.update", "job.delete", "job.rotate-secret", "job.contract.detach",
                     "wallet.redeem", "org.create", "org.rename", "org.default", "org.invite",
                     "org.invitation.revoke", "org.invitation.accept"}
  <2>1. Script(c) = <<"local", "gate", "change">>
    BY <1>1 DEF Script, JobUpdate, JobDelete, JobRotateSecret, ContractDetach, WalletRedeem,
                OrgCreate, OrgRename, OrgDefault, OrgInvite, InvitationRevoke, InvitationAccept
  <2>2. Final(c) = G /\ Quiet(c) = Checks
    BY <1>1 DEF Final, Quiet
  <2>3. Owning(<<"local">>, c)
    BY <1>1 DEF Owning, Typed, TakesOwner
  <2>4. QED
    BY <1>0, <2>1, <2>2, <2>3, Glue2 DEF Ahead
<1>2. CASE c.op \in {"run.input"}
  <2>1. Script(c) = (<<"local">> \o If(c, "away", <<"live">>)) \o G
    BY <1>2 DEF Script, RunInput
  <2>2. Final(c) = G /\ Quiet(c) = Checks
    BY <1>2 DEF Final, Quiet
  <2>3. (<<"local">> \o If(c, "away", <<"live">>)) \in Seq(Checks)
    BY <1>0, Joined, Parts
  <2>4. Owning(<<"local">> \o If(c, "away", <<"live">>), c)
    BY <1>2 DEF Owning, Typed, TakesOwner
  <2>5. QED
    BY <2>1, <2>2, <2>3, <2>4 DEF Ahead
<1>3. CASE c.op = "run.cancel"
  <2>1. Script(c) = (<<"local">> \o If(c, "away", <<"live">>)) \o Final(c)
    BY <1>3 DEF Script, RunCancel, Final
  <2>2. Quiet(c) = Checks
    BY <1>3 DEF Quiet
  <2>3. (<<"local">> \o If(c, "away", <<"live">>)) \in Seq(Checks)
    BY <1>0, Joined, Parts
  <2>4. Owning(<<"local">> \o If(c, "away", <<"live">>), c)
    BY <1>3 DEF Owning, Typed, TakesOwner
  <2>5. QED
    BY <2>1, <2>2, <2>3, <2>4 DEF Ahead
<1>4. CASE c.op = "run.share"
  <2> DEFINE P == If(c, "moving", <<"find">>) \o IfNot(c, "moving", <<"local">>)
  <2>1. Script(c) = P \o G
    BY <1>4 DEF Script, RunShare, RunName
  <2>2. Final(c) = G /\ Quiet(c) = Checks
    BY <1>4 DEF Final, Quiet
  <2>3. P \in Seq(Checks)
    BY <1>0, Joined, Parts
  <2>4. Owning(P, c)
    BY <1>4 DEF Owning, Typed, TakesOwner
  <2> HIDE DEF P
  <2>5. QED
    BY <2>1, <2>2, <2>3, <2>4 DEF Ahead
<1>5. CASE c.op \in {"program.save", "program.visibility", "program.delete", "result.publish",
                     "result.unpublish"}
  <2> DEFINE P == <<"local">> \o Owner(c)
  <2>1. Script(c) = P \o G
    BY <1>5 DEF Script, ProgramSave, ProgramVisibility, ProgramDelete, ResultPublish,
                ResultUnpublish
  <2>2. Final(c) = G /\ Quiet(c) = Checks
    BY <1>5 DEF Final, Quiet
  <2>3. Owner(c) \in Seq(Checks)
    BY Parts
  <2>4. P \in Seq(Checks) /\ Len(P) = 1 + Len(Owner(c))
        /\ \A i \in 1..(1 + Len(Owner(c))) :
              P[i] = IF i <= 1 THEN <<"local">>[i] ELSE Owner(c)[i - 1]
    BY <1>0, <2>3, ConcatProperties
  <2>5. Owning(P, c)
    <3>1. SUFFICES ASSUME "other" \in c.given PROVE \E i \in 1..Len(P) : P[i] = "own"
      BY DEF Owning
    <3>2. Owner(c) = <<"own">>
      BY <3>1 DEF Owner
    <3>3. Len(Owner(c)) = 1 /\ Owner(c)[1] = "own"
      BY <3>2
    <3> HIDE DEF P
    <3>4. P[2] = "own" /\ 2 \in 1..Len(P)
      BY <2>4, <3>3
    <3>5. QED
      BY <3>4
  <2> HIDE DEF P
  <2>6. QED
    BY <2>1, <2>2, <2>4, <2>5 DEF Ahead
<1>6. CASE c.op = "program.draft"
  <2> DEFINE P == <<"local">> \o Spot(c) \o If(c, "model", <<"model">>)
                    \o ForThePlan(c, <<"hint">>)
             All == Checks \cup {"gate", "draft", "save"}
  <2>1. Script(c) = (P \o <<"gate", "draft">>) \o Save(c)
    BY <1>6 DEF Script, ProgramDraft
  <2>2. Quiet(c) = Checks
    BY <1>6 DEF Quiet
  <2>3. P \in Seq(Checks)
    <3>1. <<"local">> \o Spot(c) \in Seq(Checks)
      BY <1>0, Joined, Parts
    <3>2. <<"local">> \o Spot(c) \o If(c, "model", <<"model">>) \in Seq(Checks)
      BY <1>0, <3>1, Joined, Parts
    <3>3. QED
      BY <1>0, <3>2, Joined, Parts
  <2>4. Owning(P, c)
    BY <1>6 DEF Owning, Typed, TakesOwner
  <2> HIDE DEF P
  <2>5. P \in Seq(All) /\ <<"gate", "draft">> \in Seq(All) /\ Save(c) \in Seq(All)
    <3>1. P \in Seq(All)
      BY <2>3, SeqMonotonic
    <3>2. <<"gate", "draft">> \in Seq(All)
      OBVIOUS
    <3>3. Save(c) \in Seq(All)
      BY SaveForm DEF All
    <3>4. QED
      BY <3>1, <3>2, <3>3
  <2>6. Script(c) = P \o (<<"gate", "draft">> \o Save(c))
    BY <2>1, <2>5, ConcatAssociative
  <2>7. <<"gate", "draft">> \o Save(c) = Final(c)
    <3>1. CASE FileGiven(c)
      <4>1. Save(c) = <<"save">>
        BY <3>1 DEF FileGiven, Save
      <4>2. QED
        BY <1>6, <3>1, <4>1, Glue21 DEF Final
    <3>2. CASE ~FileGiven(c)
      <4>1. Save(c) = <<>>
        BY <3>2 DEF FileGiven, Save
      <4>2. QED
        BY <1>6, <3>2, <4>1, <2>5, ConcatEmptySeq DEF Final
    <3>3. QED
      BY <3>1, <3>2
  <2>8. QED
    BY <2>2, <2>3, <2>4, <2>6, <2>7 DEF Ahead
<1>7. CASE c.op = "job.create"
  <2> DEFINE Quote == IfNot(c, "free", ForThePlan(c, <<"ask">>))
             P == <<"local">> \o If(c, "moving", <<"find">>) \o Quote
  <2>1. Script(c) = P \o G
    BY <1>7 DEF Script, JobCreate
  <2>2. Final(c) = G /\ Quiet(c) = Checks
    BY <1>7 DEF Final, Quiet
  <2>3. P \in Seq(Checks)
    <3>1. ForThePlan(c, <<"ask">>) \in Seq(Checks)
      BY <1>0, Parts
    <3>2. Quote \in Seq(Checks)
      BY <1>0, <3>1 DEF IfNot
    <3>3. <<"local">> \o If(c, "moving", <<"find">>) \in Seq(Checks)
      BY <1>0, Joined, Parts
    <3> HIDE DEF Quote
    <3>4. QED
      BY <3>2, <3>3, Joined
  <2>4. Owning(P, c)
    BY <1>7 DEF Owning, Typed, TakesOwner
  <2> HIDE DEF P
  <2>5. QED
    BY <2>1, <2>2, <2>3, <2>4 DEF Ahead
<1>8. CASE c.op \in {"org.member.role", "org.member.remove"}
  <2> DEFINE P == <<"local">> \o If(c, "moving", <<"find">>)
  <2>1. Script(c) = P \o G
    BY <1>8 DEF Script, MemberRole, MemberRemove
  <2>2. Final(c) = G /\ Quiet(c) = Checks
    BY <1>8 DEF Final, Quiet
  <2>3. P \in Seq(Checks)
    BY <1>0, Joined, Parts
  <2>4. Owning(P, c)
    BY <1>8 DEF Owning, Typed, TakesOwner
  <2> HIDE DEF P
  <2>5. QED
    BY <2>1, <2>2, <2>3, <2>4 DEF Ahead
<1>9. CASE c.op = "wallet.topup"
  <2>1. Script(c) = <<"local", "gate", "key", "change">>
    BY <1>9 DEF Script, WalletTopup
  <2>2. Final(c) = <<"gate", "key", "change">> /\ Quiet(c) = {"local"}
    BY <1>9 DEF Final, Quiet
  <2>3. <<"local">> \in Seq({"local"}) /\ Owning(<<"local">>, c)
    BY <1>9, Single DEF Owning, Typed, TakesOwner
  <2>4. QED
    BY <2>1, <2>2, <2>3, Glue3, ZenonT(90) DEF Ahead
<1>10. QED
  BY <1>1, <1>2, <1>3, <1>4, <1>5, <1>6, <1>7, <1>8, <1>9 DEF Mutations

\* Scripts of readings.
LEMMA ReadingScript ==
  ASSUME NEW c \in Order, Typed(c), c.op \in Readings
  PROVE  Ahead(Script(c), c) /\ Script(c) \in Seq(Checks \cup {"save"})
<1>1. /\ <<"local">> \in Seq(Checks) /\ <<"ask">> \in Seq(Checks) /\ <<"own">> \in Seq(Checks)
      /\ <<"local", "ask">> \in Seq(Checks) /\ <<"find", "ask">> \in Seq(Checks)
      /\ <<>> \in Seq(Checks)
      /\ "local" \in Checks /\ "find" \in Checks /\ "ask" \in Checks
  BY Single, Pair DEF Checks
<1>2. c.op \notin Mutations /\ Quiet(c) = Checks
  BY DEF Readings, Mutations, Quiet
<1>3. \A P : Owning(P, c)
  BY <1>2 DEF Owning
<1>4. Final(c) = IF FileGiven(c) THEN <<"save">> ELSE <<>>
  BY <1>2 DEF Final, Mutations
<1>5. ASSUME NEW P \in Seq(Checks), Script(c) = P \o Save(c)
      PROVE  Ahead(Script(c), c) /\ Script(c) \in Seq(Checks \cup {"save"})
  <2>1. Save(c) = Final(c)
    BY <1>4 DEF Save, FileGiven
  <2>2. Save(c) \in Seq(Checks \cup {"save"})
    BY SaveForm
  <2>3. P \in Seq(Checks \cup {"save"})
    BY SeqMonotonic
  <2>4. QED
    BY <1>2, <1>3, <1>5, <2>1, <2>2, <2>3, Joined DEF Ahead
<1>6. CASE c.op \in {"example.show"}
  <2>1. Spot(c) \in Seq(Checks)
    BY Parts
  <2>2. <<"local">> \o Spot(c) \in Seq(Checks)
    BY <1>1, <2>1, Joined
  <2>3. <<"local">> \o Spot(c) \o <<"find", "ask">> \in Seq(Checks)
    BY <1>1, <2>2, Joined
  <2>4. Script(c) = <<"local">> \o Spot(c) \o <<"find", "ask">> \o Save(c)
    BY <1>6 DEF Script, ExampleShow
  <2>5. QED
    BY <1>5, <2>3, <2>4
<1>7. CASE c.op = "program.show"
  <2>1. Spot(c) \in Seq(Checks) /\ If(c, "moving", <<"find">>) \in Seq(Checks)
    BY <1>1, Parts
  <2>2. <<"local">> \o Spot(c) \in Seq(Checks)
    BY <1>1, <2>1, Joined
  <2>3. <<"local">> \o Spot(c) \o If(c, "moving", <<"find">>) \in Seq(Checks)
    BY <2>1, <2>2, Joined
  <2>4. <<"local">> \o Spot(c) \o If(c, "moving", <<"find">>) \o <<"ask">> \in Seq(Checks)
    BY <1>1, <2>3, Joined
  <2>5. Script(c) = <<"local">> \o Spot(c) \o If(c, "moving", <<"find">>) \o <<"ask">> \o Save(c)
    BY <1>7 DEF Script, ProgramShow
  <2>6. QED
    BY <1>5, <2>4, <2>5
<1>8. ASSUME c.op \notin {"example.show", "program.show"}, Script(c) \in Seq(Checks)
      PROVE  Ahead(Script(c), c) /\ Script(c) \in Seq(Checks \cup {"save"})
  <2>1. ~FileGiven(c)
    BY <1>8, <1>2 DEF Typed, TakesFile, FileGiven, Mutations
  <2>2. Save(c) = <<>>
    BY <2>1 DEF Save, FileGiven
  <2>3. Script(c) = Script(c) \o Save(c)
    BY <1>8, <2>2, ConcatEmptySeq
  <2>4. QED
    BY <1>5, <1>8, <2>3
<1>9. CASE c.op \in {"service.status", "model.list", "repo.list", "example.list", "program.list",
                     "job.list", "wallet.balance"}
  <2>1. Script(c) = <<"ask">>
    BY <1>9 DEF Script, ServiceStatus, ModelList, RepoList, ExampleList, ProgramList, JobList,
                WalletBalance
  <2>2. QED
    BY <1>1, <1>8, <1>9, <2>1
<1>10. CASE c.op \in {"run.list", "job.show", "job.deliveries", "job.contract.list",
                      "wallet.events", "wallet.usage", "org.show"}
  <2>1. Script(c) = <<"local", "ask">>
    BY <1>10 DEF Script, RunList, JobShow, JobDeliveries, ContractList, WalletEvents,
                 WalletUsage, OrgShow
  <2>2. QED
    BY <1>1, <1>8, <1>10, <2>1
<1>11. CASE c.op = "run.quote"
  <2>1. Script(c) = <<"local", "ask">> \o If(c, "moving", <<"find">>) \o <<"ask">>
    BY <1>11 DEF Script, RunQuote
  <2>2. If(c, "moving", <<"find">>) \in Seq(Checks)
    BY <1>1, Parts
  <2>3. <<"local", "ask">> \o If(c, "moving", <<"find">>) \in Seq(Checks)
    BY <1>1, <2>2, Joined
  <2>4. Script(c) \in Seq(Checks)
    BY <1>1, <2>1, <2>3, Joined
  <2>5. QED
    BY <1>8, <1>11, <2>4
<1>12. CASE c.op = "program.revisions"
  <2>1. Script(c) = <<"local">> \o (IF c.given = {} THEN <<"ask">> ELSE <<"own">>)
    BY <1>12 DEF Script, ProgramRevisions
  <2>2. Script(c) \in Seq(Checks)
    BY <1>1, <2>1, Joined
  <2>3. QED
    BY <1>8, <1>12, <2>2
<1>13. CASE c.op = "result.list"
  <2>1. Script(c) = <<"local">> \o If(c, "moving", <<"find">>) \o <<"ask">>
    BY <1>13 DEF Script, ResultList
  <2>2. If(c, "moving", <<"find">>) \in Seq(Checks)
    BY <1>1, Parts
  <2>3. <<"local">> \o If(c, "moving", <<"find">>) \in Seq(Checks)
    BY <1>1, <2>2, Joined
  <2>4. Script(c) \in Seq(Checks)
    BY <1>1, <2>1, <2>3, Joined
  <2>5. QED
    BY <1>8, <1>13, <2>4
<1>14. CASE c.op = "org.member.list"
  <2>1. Script(c) = IfNot(c, "moving", <<"local">>) \o If(c, "moving", <<"find">>) \o <<"ask">>
    BY <1>14 DEF Script, MemberList
  <2>2. /\ If(c, "moving", <<"find">>) \in Seq(Checks)
        /\ IfNot(c, "moving", <<"local">>) \in Seq(Checks)
    BY <1>1, Parts
  <2>3. IfNot(c, "moving", <<"local">>) \o If(c, "moving", <<"find">>) \in Seq(Checks)
    BY <2>2, Joined
  <2>4. Script(c) \in Seq(Checks)
    BY <1>1, <2>1, <2>3, Joined
  <2>5. QED
    BY <1>8, <1>14, <2>4
<1>15. QED
  BY <1>6, <1>7, <1>9, <1>10, <1>11, <1>12, <1>13, <1>14 DEF Readings

\* Every command starts with its gate ahead.
LEMMA ScriptAhead ==
  ASSUME NEW c \in Order, Typed(c)
  PROVE  Ahead(Script(c), c)
BY MutationScript, ReadingScript DEF Order

\* A script of a reading has no gate.
LEMMA ReadingHasNoGate ==
  ASSUME NEW c \in Order, Typed(c), c.op \in Readings
  PROVE  "gate" \notin ToSet(Script(c))
<1>1. Script(c) \in Seq(Checks \cup {"save"})
  BY ReadingScript
<1>2. \A i \in DOMAIN Script(c) : Script(c)[i] \in Checks \cup {"save"}
  BY <1>1, LenProperties
<1>3. QED
  BY <1>2 DEF ToSet, Checks

\* Heads and tails of what is ahead.
LEMMA TailOfJoined ==
  ASSUME NEW S, NEW P \in Seq(S), NEW F \in Seq(S), P # <<>>
  PROVE  /\ P \o F # <<>>
         /\ Head(P \o F) = Head(P)
         /\ Tail(P \o F) = Tail(P) \o F
<1>1. Len(P) \in Nat \ {0} /\ Len(F) \in Nat
  BY EmptySeq, LenProperties
<1>2. /\ P \o F \in Seq(S) /\ Len(P \o F) = Len(P) + Len(F)
      /\ \A i \in 1..Len(P) + Len(F) : (P \o F)[i] = IF i <= Len(P) THEN P[i] ELSE F[i - Len(P)]
  BY ConcatProperties
<1>3. P \o F # <<>>
  BY <1>1, <1>2, EmptySeq
<1>4. Head(P \o F) = Head(P)
  BY <1>1, <1>2, <1>3
<1>5. /\ Tail(P) \in Seq(S) /\ Len(Tail(P)) = Len(P) - 1
      /\ \A i \in 1..Len(Tail(P)) : Tail(P)[i] = P[i + 1]
  BY HeadTailProperties
<1>6. /\ Tail(P \o F) \in Seq(S) /\ Len(Tail(P \o F)) = Len(P) + Len(F) - 1
      /\ \A i \in 1..Len(Tail(P \o F)) : Tail(P \o F)[i] = (P \o F)[i + 1]
  BY <1>2, <1>3, HeadTailProperties
<1>7. /\ Tail(P) \o F \in Seq(S) /\ Len(Tail(P) \o F) = Len(P) - 1 + Len(F)
      /\ \A i \in 1..(Len(P) - 1) + Len(F) :
           (Tail(P) \o F)[i] = IF i <= Len(P) - 1 THEN Tail(P)[i] ELSE F[i - (Len(P) - 1)]
  BY <1>5, ConcatProperties
<1>8. \A i \in 1..Len(Tail(P \o F)) : Tail(P \o F)[i] = (Tail(P) \o F)[i]
  BY <1>1, <1>2, <1>5, <1>6, <1>7
<1>9. QED
  BY <1>1, <1>3, <1>4, <1>6, <1>7, <1>8, SeqEqual

LEMMA AheadCases ==
  ASSUME NEW c, NEW s, Ahead(s, c)
  PROVE  \/ s = Final(c) /\ ~("other" \in c.given /\ c.op \in Mutations)
         \/ /\ s # <<>> /\ Head(s) \in Quiet(c)
            /\ Head(s) # "own" \/ "other" \notin c.given => Ahead(Tail(s), c)
<1> DEFINE All == Checks \cup {"gate", "key", "change", "settle", "draft", "save"}
<1>1. PICK P \in Seq(Quiet(c)) : s = P \o Final(c) /\ Owning(P, c)
  BY DEF Ahead
<1>2. Quiet(c) \subseteq All
  BY DEF Quiet, Checks
<1>3. P \in Seq(All)
  BY <1>2, SeqMonotonic
<1>4. Final(c) \in Seq(All)
  <2>1. /\ <<"gate", "draft", "save">> \in Seq(All) /\ <<"gate", "draft">> \in Seq(All)
        /\ <<"gate", "key", "change">> \in Seq(All) /\ <<"gate", "change">> \in Seq(All)
        /\ <<"gate", "change", "settle">> \in Seq(All) /\ <<>> \in Seq(All)
    OBVIOUS
  <2>2. <<"save">> \in Seq(All)
    BY Single
  <2> HIDE DEF All
  <2>3. QED
    BY <2>1, <2>2 DEF Final
<1> HIDE DEF All
<1>5. CASE P = <<>>
  <2>1. s = Final(c)
    BY <1>1, <1>4, <1>5, ConcatEmptySeq
  <2>2. Len(P) = 0
    BY <1>5
  <2>3. QED
    BY <1>1, <2>1, <2>2 DEF Owning
<1>6. CASE P # <<>>
  <2>1. s # <<>> /\ Head(s) = Head(P) /\ Tail(s) = Tail(P) \o Final(c)
    BY <1>1, <1>3, <1>4, <1>6, TailOfJoined
  <2>2. /\ Head(P) \in Quiet(c) /\ Tail(P) \in Seq(Quiet(c)) /\ Len(Tail(P)) = Len(P) - 1
        /\ \A i \in 1..Len(Tail(P)) : Tail(P)[i] = P[i + 1]
    BY <1>6, HeadTailProperties
  <2>3. ASSUME Head(s) # "own" \/ "other" \notin c.given PROVE Owning(Tail(P), c)
    <3>1. SUFFICES ASSUME "other" \in c.given, c.op \in Mutations
                   PROVE \E i \in 1..Len(Tail(P)) : Tail(P)[i] = "own"
      BY DEF Owning
    <3>2. PICK i \in 1..Len(P) : P[i] = "own"
      BY <1>1, <3>1 DEF Owning
    <3>3. P[1] # "own"
      BY <2>1, <2>3, <3>1, <1>6
    <3>4. Len(P) \in Nat
      BY LenProperties
    <3>5. i - 1 \in 1..Len(Tail(P)) /\ (i - 1) + 1 = i
      BY <2>2, <3>2, <3>3, <3>4
    <3>6. Tail(P)[i - 1] = "own"
      BY <2>2, <3>2, <3>5
    <3>7. QED
      BY <3>5, <3>6
  <2>4. QED
    BY <2>1, <2>2, <2>3 DEF Ahead
<1>7. QED
  BY <1>5, <1>6

-----------------------------------------------------------------------------
Confirmed(c) == ~c.preview /\ (NeedsYes(c.op) => c.yes) /\ "other" \notin c.given
SentBy(t) == \E f \in flight \cup landed : f.try = t
Latest == Len(orders)
ChangeOf(c) ==
    IF c.op = "program.draft" THEN IF FileGiven(c) THEN <<"draft", "save">> ELSE <<"draft">>
    ELSE IF c.op = "run.cancel" THEN <<"change", "settle">> ELSE <<"change">>

\* Where the current command is, and what it has done so far.
Nothing == exchange = "no" /\ ~told /\ ~SentBy(Latest)
Early == Nothing /\ Ahead(todo, current)
Keying ==
    /\ current.op = "wallet.topup" /\ todo = <<"key", "change">>
    /\ Nothing /\ Confirmed(current)
Exchanged ==
    /\ exchange \in {"no", "sent", "accepted", "denied", "missing", "ended"}
    /\ exchange \in {"no", "denied", "missing", "ended"} => ~SentBy(Latest)
    /\ exchange = "sent" => ~Made(Latest)
    /\ exchange = "accepted" => Made(Latest)
    /\ exchange \in {"missing", "ended"} => aim \notin there
    /\ exchange = "ended" => current.op \in Steering
    /\ \A f \in flight : f.try = Latest => f.aim = aim
Changing ==
    /\ current.op \in Mutations /\ todo = ChangeOf(current) /\ Confirmed(current)
    /\ current.op = "wallet.topup" => idemKey # 0
    /\ told => current.op = "program.draft" /\ exchange = "accepted"
    /\ Exchanged
Settling ==
    /\ current.op = "run.cancel" /\ todo = <<"settle">> /\ exchange = "no" /\ ~told
    /\ Made(Latest)
Ending == current.op = "run.cancel" /\ todo = <<"ended">> /\ Nothing /\ aim \notin there
Saving ==
    /\ current.op = "program.draft" /\ FileGiven(current) /\ todo = <<"save">>
    /\ exchange = "no" /\ Made(Latest)
Done ==
    /\ todo = <<>> /\ exchange = "no"
    /\ current.op \in Mutations => Made(Latest)
    /\ FileGiven(current) => place = "mine"
Concluded == todo = <<>> /\ exchange = "no" /\ ReportIsTrue
Phase ==
    IF Underway
    THEN Early \/ Keying \/ Changing \/ Settling \/ Ending \/ Saving \/ Done
    ELSE Concluded

\* The commands of a top-up share one key once a change has been sent.
TopUps ==
    current.op = "wallet.topup" =>
        /\ \A f \in flight \cup landed :
               idemKey # 0 /\ f.key = idemKey /\ ("key" \in current.given \/ f.try = Latest)
        /\ verdict.code \in {"unclear", "cancelled"} => "key" \in current.given \cup verdict.names
        /\ "key" \in current.given \cup verdict.names => idemKey # 0

\* What the orders and the changes are, whatever the current command does.
Commands ==
    /\ orders \in Seq(Order) /\ orders # <<>>
    /\ \A i \in 1..Len(orders) : Typed(orders[i])
Changes ==
    /\ \A f \in flight \cup landed : f.try \in 1..Latest
    /\ \A f, g \in flight \cup landed : f.try = g.try => f = g
    /\ flight \cap landed = {}

SvcInv == Commands /\ Changes /\ OnlyConfirmedChanges /\ TopUps /\ Phase

LEMMA CurrentOrder ==
  ASSUME Commands
  PROVE  current \in Order /\ Typed(current) /\ Latest \in Nat \ {0} /\ Latest \in 1..Latest
<1>1. Len(orders) \in Nat \ {0}
  BY EmptySeq, LenProperties DEF Commands
<1>2. Len(orders) \in 1..Len(orders)
  BY <1>1
<1>3. orders[Len(orders)] \in Order
  BY <1>2, ElementOfSeq DEF Commands
<1>4. QED
  BY <1>1, <1>2, <1>3 DEF Commands, current, Latest

\* Which phase the next step belongs to.
LEMMA Where ==
  ASSUME SvcInv, Underway
  PROVE  /\ Step \in Checks =>
              /\ Nothing /\ todo # <<>>
              /\ Step # "own" \/ "other" \notin current.given => Ahead(Tail(todo), current)
              /\ current.op = "wallet.topup" => Step = "local"
         /\ Step = "gate" =>
              /\ Nothing /\ current.op \in Mutations /\ "other" \notin current.given
              /\ todo = Final(current)
         /\ Step = "key" => Keying
         /\ Step \in {"change", "draft"} => Changing
         /\ Step = "settle" => Settling
         /\ Step = "ended" => Ending
         /\ Step = "save" =>
              \/ Saving
              \/ Nothing /\ current.op \in Readings /\ todo = <<"save">>
         /\ Step = "report" =>
              \/ Done
              \/ Nothing /\ current.op \in Readings /\ ~FileGiven(current) /\ todo = <<>>
<1>0. current \in Order /\ Typed(current)
  BY CurrentOrder DEF SvcInv
<1>1. CASE Early
  <2>1. Nothing /\ Ahead(todo, current)
    BY <1>1 DEF Early
  <2>2. \/ todo = Final(current) /\ ~("other" \in current.given /\ current.op \in Mutations)
        \/ /\ todo # <<>> /\ Head(todo) \in Quiet(current)
           /\ Head(todo) # "own" \/ "other" \notin current.given => Ahead(Tail(todo), current)
    BY <2>1, AheadCases
  <2>3. CASE todo # <<>> /\ Head(todo) \in Quiet(current)
             /\ (Head(todo) # "own" \/ "other" \notin current.given
                    => Ahead(Tail(todo), current))
    <3>1. Step = Head(todo) /\ Step \in Checks /\ (current.op = "wallet.topup" => Step = "local")
      BY <2>3 DEF Step, Quiet, Checks
    <3>2. QED
      BY <2>1, <2>3, <3>1 DEF Checks
  <2>4. CASE todo = Final(current) /\ ~("other" \in current.given /\ current.op \in Mutations)
    <3>1. CASE current.op \in Mutations
      <4>1. Step = "gate"
        BY <2>4, <3>1 DEF Step, Final
      <4>2. QED
        BY <2>1, <2>4, <3>1, <4>1 DEF Checks
    <3>2. CASE current.op \in Readings
      <4>1. todo = IF FileGiven(current) THEN <<"save">> ELSE <<>>
        BY <2>4, <3>2 DEF Final, Readings, Mutations
      <4>2. Step = IF FileGiven(current) THEN "save" ELSE "report"
        BY <4>1 DEF Step
      <4>3. QED
        BY <2>1, <3>2, <4>1, <4>2 DEF Checks
    <3>3. QED
      BY <1>0, <3>1, <3>2 DEF Order
  <2>5. QED
    BY <2>2, <2>3, <2>4
<1>2. CASE Keying
  <2>1. Step = "key"
    BY <1>2 DEF Keying, Step
  <2>2. QED
    BY <1>2, <2>1 DEF Checks
<1>3. CASE Changing
  <2>1. Step \in {"change", "draft"}
    BY <1>3 DEF Changing, ChangeOf, Step
  <2>2. QED
    BY <1>3, <2>1 DEF Checks
<1>4. CASE Settling
  <2>1. Step = "settle"
    BY <1>4 DEF Settling, Step
  <2>2. QED
    BY <1>4, <2>1 DEF Checks
<1>5. CASE Ending
  <2>1. Step = "ended"
    BY <1>5 DEF Ending, Step
  <2>2. QED
    BY <1>5, <2>1 DEF Checks
<1>6. CASE Saving
  <2>1. Step = "save"
    BY <1>6 DEF Saving, Step
  <2>2. QED
    BY <1>6, <2>1 DEF Checks
<1>7. CASE Done
  <2>1. Step = "report"
    BY <1>7 DEF Done, Step
  <2>2. QED
    BY <1>7, <2>1 DEF Checks
<1>8. QED
  BY <1>1, <1>2, <1>3, <1>4, <1>5, <1>6, <1>7 DEF SvcInv, Phase

\* Only a mutation has a gate.
LEMMA GateOfMutation ==
  ASSUME Commands
  PROVE  "gate" \in ToSet(Script(current)) => current.op \in Mutations
<1>1. current \in Order /\ Typed(current)
  BY CurrentOrder
<1>2. QED
  BY <1>1, ReadingHasNoGate DEF Order

\* A step that changes neither the orders nor the changes.
LEMMA StillConfirmed ==
  ASSUME Commands, Changes, OnlyConfirmedChanges, UNCHANGED <<orders, flight, landed>>
  PROVE  Commands' /\ Changes' /\ OnlyConfirmedChanges'
BY DEF Commands, Changes, OnlyConfirmedChanges, Latest

\* What an end has to be in order.
InOrder(code, names) ==
    /\ code \in Codes \ {"none"}
    /\ code = "ok" /\ current.op \in Mutations =>
           Made(Latest) \/ (current.op \in AbsentIsDone \cup {"run.cancel"} /\ aim \notin there)
    /\ code \in {"preview", "confirm"} => ~SentBy(Latest)
    /\ code \in {"usage", "denied", "missing", "conflict"} =>
           ~SentBy(Latest) \/ names # {} \/ (current.op = "program.draft" /\ code = "usage")
    /\ code \in {"runfailed", "cancelled"} /\ told => "run" \in names
    /\ current.op = "wallet.topup" /\ code \in {"unclear", "cancelled"} =>
           "key" \in current.given \cup names
    /\ current.op = "wallet.topup" /\ "key" \in names => idemKey # 0

LEMMA EndsInOrder ==
  ASSUME SvcInv, NEW code, NEW names, InOrder(code, names), EndAs(code, names),
         UNCHANGED <<orders, aim, idemKey, flight, landed, told, there>>
  PROVE  SvcInv'
<1>1. Commands' /\ Changes' /\ OnlyConfirmedChanges'
  BY StillConfirmed DEF SvcInv
<1>2. verdict' = [code |-> code, names |-> names] /\ todo' = <<>> /\ exchange' = "no"
  BY DEF EndAs
<1>3. verdict'.code = code /\ verdict'.names = names
  BY <1>2
<1>4. ~Underway'
  BY <1>3 DEF InOrder, Underway, NoVerdict
<1>5. TopUps'
  BY <1>3 DEF SvcInv, TopUps, InOrder, current, Latest
<1>6. "gate" \in ToSet(Script(current)) => current.op \in Mutations
  BY GateOfMutation DEF SvcInv
<1>7. ReportIsTrue'
  <2>1. current' = current /\ Latest' = Latest /\ (Made(Latest))' = Made(Latest)
        /\ (MayStillBeMade(Latest))' = MayStillBeMade(Latest)
    BY DEF current, Latest, Made, MayStillBeMade
  <2>2. Made(Latest) \/ MayStillBeMade(Latest) => SentBy(Latest)
    BY DEF Made, MayStillBeMade, SentBy
  <2>3. QED
    BY <1>3, <1>6, <2>1, <2>2 DEF ReportIsTrue, InOrder, Latest
<1>8. QED
  BY <1>1, <1>2, <1>4, <1>5, <1>7 DEF SvcInv, Phase, Concluded

\* An end before anything was sent, other than success, is in order.
LEMMA EarlyEnd ==
  ASSUME Nothing, NEW code, NEW names, code \in Codes \ {"none", "ok"},
         current.op = "wallet.topup" => code \notin {"unclear", "cancelled"},
         "key" \notin names
  PROVE  InOrder(code, names)
BY DEF InOrder, Nothing

\* A step of the commands before the gate that goes on.
LEMMA EarlyGoesOn ==
  ASSUME SvcInv, Underway, Nothing, Ahead(Tail(todo), current), Proceed,
         UNCHANGED <<orders, idemKey, flight, landed, told, verdict>>
  PROVE  SvcInv'
<1>1. Commands' /\ Changes' /\ OnlyConfirmedChanges'
  BY StillConfirmed DEF SvcInv
<1>2. TopUps'
  BY DEF SvcInv, TopUps, current, Latest
<1>3. Underway' /\ current' = current
  BY DEF Underway, current
<1>4. todo' = Tail(todo) /\ exchange' = "no"
  BY DEF Proceed
<1>5. Nothing'
  BY <1>4 DEF Nothing, SentBy, Latest
<1>6. Early'
  BY <1>3, <1>4, <1>5 DEF Early
<1>7. QED
  BY <1>1, <1>2, <1>3, <1>6 DEF SvcInv, Phase

\* A step to another phase that changes neither the orders nor the changes.
LEMMA GoesOn ==
  ASSUME SvcInv, Underway, UNCHANGED <<orders, flight, landed, verdict>>,
         (Keying \/ Changing \/ Settling \/ Ending \/ Saving \/ Done)',
         idemKey' = idemKey \/ (idemKey = 0 /\ idemKey' # 0)
  PROVE  SvcInv'
<1>1. Commands' /\ Changes' /\ OnlyConfirmedChanges'
  BY StillConfirmed DEF SvcInv
<1>2. TopUps'
  BY DEF SvcInv, TopUps, current, Latest
<1>3. Underway'
  BY DEF Underway
<1>4. QED
  BY <1>1, <1>2, <1>3 DEF SvcInv, Phase

LEMMA CheckArgumentsStep == SvcInv /\ CheckArguments => SvcInv'
<1>1. SUFFICES ASSUME SvcInv, CheckArguments PROVE SvcInv'
  OBVIOUS
<1>2. Underway /\ Step = "local"
      /\ UNCHANGED <<orders, aim, idemKey, flight, landed, told, there, place, stirs>>
  BY <1>1 DEF CheckArguments
<1>3. Nothing /\ Ahead(Tail(todo), current)
  BY <1>1, <1>2, Where DEF Checks
<1>4. CASE Proceed /\ UNCHANGED verdict
  BY <1>1, <1>2, <1>3, <1>4, EarlyGoesOn
<1>5. CASE EndAs("usage", {})
  <2>1. InOrder("usage", {})
    BY <1>3, EarlyEnd DEF Codes
  <2>2. QED
    BY <1>1, <1>2, <1>5, <2>1, EndsInOrder
<1>6. QED
  BY <1>1, <1>4, <1>5 DEF CheckArguments

LEMMA CheckSpotStep == SvcInv /\ CheckSpot => SvcInv'
<1>1. SUFFICES ASSUME SvcInv, CheckSpot PROVE SvcInv'
  OBVIOUS
<1>2. Underway /\ Step = "spot"
      /\ UNCHANGED <<orders, aim, idemKey, flight, landed, told, there, place, stirs>>
  BY <1>1 DEF CheckSpot
<1>3. Nothing /\ Ahead(Tail(todo), current)
  BY <1>1, <1>2, Where DEF Checks
<1>4. CASE Proceed /\ UNCHANGED verdict
  BY <1>1, <1>2, <1>3, <1>4, EarlyGoesOn
<1>5. CASE EndAs("usage", {})
  <2>1. InOrder("usage", {})
    BY <1>3, EarlyEnd DEF Codes
  <2>2. QED
    BY <1>1, <1>2, <1>5, <2>1, EndsInOrder
<1>6. QED
  BY <1>1, <1>4, <1>5 DEF CheckSpot

LEMMA ConfirmGateStep == SvcInv /\ ConfirmGate => SvcInv'
<1>1. SUFFICES ASSUME SvcInv, ConfirmGate PROVE SvcInv'
  OBVIOUS
<1>2. Underway /\ Step = "gate"
      /\ UNCHANGED <<orders, aim, idemKey, flight, landed, told, there, place, stirs>>
  BY <1>1 DEF ConfirmGate
<1>3. /\ Nothing /\ current.op \in Mutations /\ "other" \notin current.given
      /\ todo = Final(current)
  BY <1>1, <1>2, Where
<1>4. CASE EndAs("preview", {})
  <2>1. InOrder("preview", {})
    BY <1>3, EarlyEnd DEF Codes
  <2>2. QED
    BY <1>1, <1>2, <1>4, <2>1, EndsInOrder
<1>5. CASE EndAs("confirm", {})
  <2>1. InOrder("confirm", {})
    BY <1>3, EarlyEnd DEF Codes
  <2>2. QED
    BY <1>1, <1>2, <1>5, <2>1, EndsInOrder
<1>6. CASE /\ ~current.preview /\ ~(NeedsYes(current.op) /\ ~current.yes)
           /\ Proceed /\ UNCHANGED verdict
  <2>1. Confirmed(current)
    BY <1>3, <1>6 DEF Confirmed
  <2>2. current' = current /\ Latest' = Latest /\ todo' = Tail(Final(current))
        /\ exchange' = "no" /\ ~told' /\ (SentBy(Latest))' = SentBy(Latest)
        /\ (Made(Latest))' = Made(Latest)
    BY <1>2, <1>3, <1>6 DEF Proceed, current, Latest, Nothing, SentBy, Made
  <2>3. Nothing'
    BY <1>3, <2>2 DEF Nothing
  <2>4. CASE current.op = "wallet.topup"
    <3>1. todo' = <<"key", "change">>
      BY <2>2, <2>4 DEF Final
    <3>2. Keying'
      BY <2>1, <2>2, <2>3, <2>4, <3>1 DEF Keying
    <3>3. QED
      BY <1>1, <1>2, <1>6, <3>2, GoesOn
  <2>5. CASE current.op # "wallet.topup"
    <3>1. todo' = ChangeOf(current)
      BY <1>3, <2>2, <2>5 DEF Final, ChangeOf
    <3>2. \A f \in flight : f.try # Latest
      BY <1>3 DEF Nothing, SentBy
    <3>3. Exchanged'
      BY <1>2, <1>3, <2>2, <3>2 DEF Exchanged, Nothing
    <3>4. Changing'
      BY <1>3, <2>1, <2>2, <2>5, <3>1, <3>3 DEF Changing
    <3>5. QED
      BY <1>1, <1>2, <1>6, <3>4, GoesOn
  <2>6. QED
    BY <2>4, <2>5
<1>7. QED
  BY <1>1, <1>4, <1>5, <1>6 DEF ConfirmGate

LEMMA MintKeyStep == SvcInv /\ MintKey => SvcInv'
<1>1. SUFFICES ASSUME SvcInv, MintKey PROVE SvcInv'
  OBVIOUS
<1>2. Underway /\ Step = "key" /\ Proceed
      /\ UNCHANGED <<orders, aim, verdict, flight, landed, told, there, place, stirs>>
      /\ idemKey' = IF idemKey = 0 THEN Len(orders) ELSE idemKey
  BY <1>1 DEF MintKey
<1>3. Keying
  BY <1>1, <1>2, Where
<1>4. Latest \in Nat \ {0}
  BY <1>1, CurrentOrder DEF SvcInv
<1>5. current' = current /\ Latest' = Latest /\ todo' = Tail(todo)
      /\ exchange' = "no" /\ ~told' /\ (SentBy(Latest))' = SentBy(Latest)
      /\ (Made(Latest))' = Made(Latest)
  BY <1>2, <1>3 DEF Proceed, current, Latest, Nothing, SentBy, Made, Keying
<1>6. todo' = ChangeOf(current)
  BY <1>3, <1>5 DEF ChangeOf, Keying
<1>7. Exchanged'
  <2>1. \A f \in flight : f.try # Latest
    BY <1>3 DEF Nothing, SentBy, Keying
  <2>2. QED
    BY <1>2, <1>3, <1>5, <2>1 DEF Exchanged, Nothing, Keying
<1>8. Changing'
  BY <1>2, <1>3, <1>4, <1>5, <1>6, <1>7 DEF Changing, Keying, Mutations, Latest
<1>9. QED
  BY <1>1, <1>2, <1>4, <1>8, GoesOn DEF Latest

LEMMA WriteFileStep == SvcInv /\ WriteFile => SvcInv'
<1>1. SUFFICES ASSUME SvcInv, WriteFile PROVE SvcInv'
  OBVIOUS
<1>2. Underway /\ Step = "save"
      /\ UNCHANGED <<orders, aim, idemKey, flight, landed, told, there, stirs>>
  BY <1>1 DEF WriteFile
<1>3. \/ Saving
      \/ Nothing /\ current.op \in Readings /\ todo = <<"save">>
  BY <1>1, <1>2, Where
<1>4. CASE place' = "mine" /\ Proceed /\ UNCHANGED verdict
  <2>1. todo' = <<>> /\ exchange' = "no"
    BY <1>3, <1>4 DEF Proceed, Saving
  <2>2. current.op \in Mutations => Made(Latest)
    BY <1>3 DEF Saving, Readings, Mutations
  <2>3. Done'
    BY <1>2, <1>4, <2>1, <2>2 DEF Done, Made, Latest, current
  <2>4. QED
    BY <1>1, <1>2, <1>4, <2>3, GoesOn
<1>5. CASE EndAs("usage", {})
  <2>1. InOrder("usage", {})
    <3>1. CASE Saving
      BY <3>1 DEF Saving, InOrder, Codes
    <3>2. CASE Nothing
      BY <3>2, EarlyEnd DEF Codes
    <3>3. QED
      BY <1>3, <3>1, <3>2
  <2>2. QED
    BY <1>1, <1>2, <1>5, <2>1, EndsInOrder
<1>6. QED
  BY <1>1, <1>4, <1>5 DEF WriteFile

LEMMA ReportDoneStep == SvcInv /\ ReportDone => SvcInv'
<1>1. SUFFICES ASSUME SvcInv, ReportDone PROVE SvcInv'
  OBVIOUS
<1>2. Underway /\ Step = "report" /\ EndAs("ok", {})
      /\ UNCHANGED <<orders, aim, idemKey, flight, landed, told, there, place, stirs>>
  BY <1>1 DEF ReportDone
<1>3. current.op \in Mutations => Made(Latest)
  BY <1>1, <1>2, Where DEF Done, Readings, Mutations
<1>4. InOrder("ok", {})
  BY <1>3 DEF InOrder, Codes
<1>5. QED
  BY <1>1, <1>2, <1>4, EndsInOrder

\* The failures of a read before the gate.
LEMMA ReadFailsEarly ==
  ASSUME SvcInv, Underway, Step \in Checks, Step # "local", Nothing,
         NEW code \in Failures \cup {"missing"}, ReadFails(code),
         UNCHANGED <<orders, aim, idemKey, flight, landed, told, there>>
  PROVE  SvcInv'
<1>1. current.op # "wallet.topup"
  BY Where
<1>2. Named = {}
  BY DEF Named, Checks
<1>3. InOrder(code, {})
  BY <1>1, EarlyEnd DEF Codes, Failures
<1>4. QED
  BY <1>2, <1>3, EndsInOrder DEF ReadFails

LEMMA CheckOwnerStep == SvcInv /\ CheckOwner => SvcInv'
<1>1. SUFFICES ASSUME SvcInv, CheckOwner PROVE SvcInv'
  OBVIOUS
<1>2. Underway /\ Step = "own"
      /\ UNCHANGED <<orders, aim, idemKey, flight, landed, told, there, place, stirs>>
  BY <1>1 DEF CheckOwner
<1>3. Nothing /\ ("other" \notin current.given => Ahead(Tail(todo), current))
      /\ current.op # "wallet.topup"
  BY <1>1, <1>2, Where DEF Checks
<1>4. CASE "me" \in current.given /\ aim \in there /\ Proceed /\ UNCHANGED verdict
  <2>1. "other" \notin current.given
    BY <1>1, <1>4, CurrentOrder DEF Typed, SvcInv
  <2>2. QED
    BY <1>1, <1>2, <1>3, <1>4, <2>1, EarlyGoesOn
<1>5. CASE EndAs("usage", {})
  <2>1. InOrder("usage", {})
    BY <1>3, EarlyEnd DEF Codes
  <2>2. QED
    BY <1>1, <1>2, <1>5, <2>1, EndsInOrder
<1>6. CASE \E code \in Failures : ReadFails(code)
  BY <1>1, <1>2, <1>3, <1>6, ReadFailsEarly DEF Checks
<1>7. QED
  BY <1>1, <1>4, <1>5, <1>6 DEF CheckOwner

LEMMA ResolveNameStep == SvcInv /\ ResolveName => SvcInv'
<1>1. SUFFICES ASSUME SvcInv, ResolveName PROVE SvcInv'
  OBVIOUS
<1>2. Underway /\ Step = "find"
      /\ UNCHANGED <<orders, idemKey, flight, landed, told, there, place, stirs>>
  BY <1>1 DEF ResolveName
<1>3. Nothing /\ Ahead(Tail(todo), current) /\ current.op # "wallet.topup"
  BY <1>1, <1>2, Where DEF Checks
<1>4. CASE Proceed /\ UNCHANGED verdict
  BY <1>1, <1>2, <1>3, <1>4, EarlyGoesOn
<1>5. CASE EndAs(IF ByAge(current.op) THEN "usage" ELSE "missing", {}) /\ UNCHANGED aim
  <2>1. InOrder("usage", {}) /\ InOrder("missing", {})
    BY <1>3, EarlyEnd DEF Codes
  <2>2. QED
    BY <1>1, <1>2, <1>5, <2>1, EndsInOrder
<1>6. CASE (\E code \in Failures : ReadFails(code)) /\ UNCHANGED aim
  BY <1>1, <1>2, <1>3, <1>6, ReadFailsEarly DEF Checks
<1>7. QED
  BY <1>1, <1>4, <1>5, <1>6 DEF ResolveName

LEMMA ReadRecordStep == SvcInv /\ ReadRecord => SvcInv'
<1>1. SUFFICES ASSUME SvcInv, ReadRecord PROVE SvcInv'
  OBVIOUS
<1>2. Underway /\ Step = "live"
      /\ UNCHANGED <<orders, aim, idemKey, flight, landed, told, there, place, stirs>>
  BY <1>1 DEF ReadRecord
<1>3. Nothing /\ current.op # "wallet.topup"
  BY <1>1, <1>2, Where DEF Checks
<1>4. CASE aim \notin there /\ current.op = "run.cancel" /\ EndAs("ok", {})
  <2>1. InOrder("ok", {})
    BY <1>4 DEF InOrder, Codes
  <2>2. QED
    BY <1>1, <1>2, <1>4, <2>1, EndsInOrder
<1>5. CASE EndAs("conflict", {})
  <2>1. InOrder("conflict", {})
    BY <1>3, EarlyEnd DEF Codes
  <2>2. QED
    BY <1>1, <1>2, <1>5, <2>1, EndsInOrder
<1>6. CASE EndAs("usage", {})
  <2>1. InOrder("usage", {})
    BY <1>3, EarlyEnd DEF Codes
  <2>2. QED
    BY <1>1, <1>2, <1>6, <2>1, EndsInOrder
<1>7. CASE \E code \in Failures : ReadFails(code)
  BY <1>1, <1>2, <1>3, <1>7, ReadFailsEarly DEF Checks
<1>8. QED
  BY <1>1, <1>4, <1>5, <1>6, <1>7 DEF ReadRecord

LEMMA AskStep == SvcInv /\ Ask => SvcInv'
<1>1. SUFFICES ASSUME SvcInv, Ask PROVE SvcInv'
  OBVIOUS
<1>2. Underway /\ Step \in {"ask", "settle"}
      /\ UNCHANGED <<orders, aim, idemKey, flight, landed, told, there, place, stirs>>
  BY <1>1 DEF Ask
<1>3. CASE Step = "ask"
  <2>1. Nothing /\ Ahead(Tail(todo), current)
    BY <1>1, <1>2, <1>3, Where DEF Checks
  <2>2. CASE Proceed /\ UNCHANGED verdict
    BY <1>1, <1>2, <2>1, <2>2, EarlyGoesOn
  <2>3. CASE \E code \in Failures \cup {"missing"} : ReadFails(code)
    BY <1>1, <1>2, <1>3, <2>1, <2>3, ReadFailsEarly DEF Checks
  <2>4. QED
    BY <1>1, <2>2, <2>3 DEF Ask
<1>4. CASE Step = "settle"
  <2>1. Settling
    BY <1>1, <1>2, <1>4, Where
  <2>2. CASE Proceed /\ UNCHANGED verdict
    <3>1. todo' = <<>> /\ exchange' = "no"
      BY <2>1, <2>2 DEF Proceed, Settling
    <3>2. ~FileGiven(current)
      BY <1>1, <2>1, CurrentOrder DEF SvcInv, Settling, FileGiven, Typed, TakesFile
    <3>3. Done'
      BY <1>2, <2>1, <3>1, <3>2 DEF Done, Settling, Made, Latest, current, FileGiven
    <3>4. QED
      BY <1>1, <1>2, <2>2, <3>3, GoesOn
  <2>3. CASE \E code \in Failures \cup {"missing"} : ReadFails(code)
    <3>1. PICK code \in Failures \cup {"missing"} : ReadFails(code)
      BY <2>3
    <3>2. Named = {"accepted"}
      BY <1>4 DEF Named
    <3>3. InOrder(code, {"accepted"})
      BY <2>1, <3>1 DEF InOrder, Settling, Codes, Failures
    <3>4. QED
      BY <1>1, <1>2, <3>1, <3>2, <3>3, EndsInOrder DEF ReadFails
  <2>4. QED
    BY <1>1, <2>2, <2>3 DEF Ask
<1>5. QED
  BY <1>2, <1>3, <1>4

LEMMA AskInPassingStep == SvcInv /\ AskInPassing => SvcInv'
<1>1. SUFFICES ASSUME SvcInv, AskInPassing PROVE SvcInv'
  OBVIOUS
<1>2. Underway /\ Step \in {"model", "hint"}
      /\ UNCHANGED <<orders, aim, idemKey, flight, landed, told, there, place, stirs>>
  BY <1>1 DEF AskInPassing
<1>3. Nothing /\ Ahead(Tail(todo), current) /\ current.op # "wallet.topup"
  BY <1>1, <1>2, Where DEF Checks
<1>4. CASE Proceed /\ UNCHANGED verdict
  BY <1>1, <1>2, <1>3, <1>4, EarlyGoesOn
<1>5. CASE EndAs("usage", {}) \/ EndAs("cancelled", {})
  <2>1. InOrder("usage", {}) /\ InOrder("cancelled", {})
    BY <1>3, EarlyEnd DEF Codes
  <2>2. QED
    BY <1>1, <1>2, <1>5, <2>1, EndsInOrder
<1>6. QED
  BY <1>1, <1>4, <1>5 DEF AskInPassing

LEMMA ReadEndedStep == SvcInv /\ ReadEnded => SvcInv'
<1>1. SUFFICES ASSUME SvcInv, ReadEnded PROVE SvcInv'
  OBVIOUS
<1>2. Underway /\ Step = "ended"
      /\ UNCHANGED <<orders, aim, idemKey, flight, landed, told, there, place, stirs>>
  BY <1>1 DEF ReadEnded
<1>3. Ending
  BY <1>1, <1>2, Where
<1>4. CASE EndAs("ok", {})
  <2>1. InOrder("ok", {})
    BY <1>3 DEF InOrder, Codes, Ending
  <2>2. QED
    BY <1>1, <1>2, <1>4, <2>1, EndsInOrder
<1>5. CASE \E code \in Failures : ReadFails(code)
  <2>1. PICK code \in Failures : ReadFails(code)
    BY <1>5
  <2>2. Named = {}
    BY <1>2 DEF Named
  <2>3. InOrder(code, {})
    BY <1>3, <2>1, EarlyEnd DEF Codes, Failures, Ending
  <2>4. QED
    BY <1>1, <1>2, <2>1, <2>2, <2>3, EndsInOrder DEF ReadFails
<1>6. QED
  BY <1>1, <1>4, <1>5 DEF ReadEnded

-----------------------------------------------------------------------------
\* The change.

\* What an error of the change names.
LEMMA NamedOfChange ==
  ASSUME SvcInv, Changing, Step \in {"change", "draft"}
  PROVE  /\ Step = "draft" <=> current.op = "program.draft"
         /\ told => "run" \in Named
         /\ current.op = "wallet.topup" => "key" \in Named
         /\ "key" \in Named => idemKey # 0
<1>1. Step = IF current.op = "program.draft" THEN "draft" ELSE "change"
  BY DEF Changing, ChangeOf, Step
<1>2. told => current.op = "program.draft"
  BY DEF Changing
<1>3. current.op = "wallet.topup" => idemKey # 0
  BY DEF Changing
<1>4. Named = IF Step = "draft" /\ told THEN {"run"}
              ELSE IF Step = "change" /\ idemKey # 0 THEN {"key"} ELSE {}
  BY DEF Named
<1>5. QED
  BY <1>1, <1>2, <1>3, <1>4

\* A refusal of a change that was not made, and any end that decides nothing.
LEMMA RefusalInOrder ==
  ASSUME SvcInv, Changing, Step \in {"change", "draft"}, ~SentBy(Latest),
         NEW code \in {"denied", "missing", "conflict"}
  PROVE  InOrder(code, Named)
BY NamedOfChange DEF InOrder, Codes

LEMMA UndecidedInOrder ==
  ASSUME SvcInv, Changing, Step \in {"change", "draft"},
         NEW code \in {"unclear", "cancelled", "runfailed"}
  PROVE  InOrder(code, Named)
BY NamedOfChange DEF InOrder, Codes

LEMMA SendStep == SvcInv /\ Send => SvcInv'
<1>1. SUFFICES ASSUME SvcInv, Send PROVE SvcInv'
  OBVIOUS
<1>2. Underway /\ Step \in {"change", "draft"} /\ exchange = "no"
      /\ UNCHANGED <<orders, aim, idemKey, landed, told, there, place, stirs>>
  BY <1>1 DEF Send
<1>3. Changing
  BY <1>1, <1>2, Where
<1>4. ~SentBy(Latest) /\ ~told
  BY <1>2, <1>3 DEF Changing, Exchanged
<1>5. CASE EndAs("denied", Named) /\ UNCHANGED flight
  BY <1>1, <1>2, <1>3, <1>4, <1>5, RefusalInOrder, EndsInOrder
<1>6. CASE /\ flight' = flight \cup {[try |-> Len(orders), aim |-> aim, key |-> idemKey]}
           /\ exchange' = "sent" /\ UNCHANGED <<todo, verdict>>
  <2> DEFINE new == [try |-> Latest, aim |-> aim, key |-> idemKey]
  <2>1. new.try = Latest /\ new.aim = aim /\ new.key = idemKey
    OBVIOUS
  <2>2. flight' = flight \cup {new} /\ landed' = landed
    BY <1>2, <1>6 DEF Latest
  <2> HIDE DEF new
  <2>3. current' = current /\ Latest' = Latest /\ Latest \in 1..Latest
    BY <1>1, <1>2, CurrentOrder DEF current, Latest, SvcInv
  <2>4. \A f \in flight \cup landed : f.try # Latest
    BY <1>4 DEF SentBy
  <2>5. Commands'
    BY <1>1, <1>2 DEF SvcInv, Commands
  <2>6. Changes'
    <3>1. new \notin landed /\ new \notin flight
      BY <2>1, <2>4
    <3>2. QED
      BY <1>1, <2>1, <2>2, <2>3, <2>4, <3>1 DEF SvcInv, Changes
  <2>7. OnlyConfirmedChanges'
    <3>1. orders[Latest] = current
      BY DEF Latest, current
    <3>2. ~current.preview /\ (NeedsYes(current.op) => current.yes)
          /\ "other" \notin current.given
      BY <1>3 DEF Changing, Confirmed
    <3>3. \A f \in flight' \cup landed' : f \in flight \cup landed \/ f.try = Latest
      BY <2>1, <2>2
    <3>4. QED
      BY <1>1, <1>2, <3>1, <3>2, <3>3 DEF SvcInv, OnlyConfirmedChanges
  <2>8. TopUps'
    <3>1. current.op = "wallet.topup" => idemKey # 0
      BY <1>3 DEF Changing
    <3>2. verdict' = verdict /\ idemKey' = idemKey
      BY <1>2, <1>6
    <3>3. QED
      BY <1>1, <2>1, <2>2, <2>3, <3>1, <3>2 DEF SvcInv, TopUps
  <2>9. Exchanged'
    <3>1. ~Made(Latest)
      BY <2>4 DEF Made
    <3>2. ~(Made(Latest))'
      BY <2>2, <2>3, <3>1 DEF Made
    <3>3. \A f \in flight' : f.try = Latest' => f.aim = aim'
      BY <1>2, <2>1, <2>2, <2>3, <2>4
    <3>4. QED
      BY <1>6, <3>2, <3>3 DEF Exchanged
  <2>10. Changing'
    BY <1>2, <1>3, <1>4, <1>6, <2>3, <2>9 DEF Changing
  <2>11. QED
    BY <1>2, <1>6, <2>5, <2>6, <2>7, <2>8, <2>10 DEF SvcInv, Phase, Underway
<1>7. QED
  BY <1>1, <1>5, <1>6 DEF Send

\* The service handles a change, or refuses it.
LEMMA HandleStep == SvcInv /\ Handle => SvcInv'
<1>1. SUFFICES ASSUME SvcInv, Handle PROVE SvcInv'
  OBVIOUS
<1>2. PICK f \in flight :
        /\ flight' = flight \ {f}
        /\ \/ /\ current.op \in AboutThings => f.aim \in there
              /\ landed' = landed \cup {f}
              /\ there' = IF current.op \in Removals THEN there \ {f.aim} ELSE there
           \/ UNCHANGED <<landed, there>>
        /\ Replied(f)
        /\ UNCHANGED <<orders, todo, aim, idemKey, told, verdict, place, stirs>>
  BY <1>1 DEF Handle
<1>3. /\ current' = current /\ Latest' = Latest
      /\ Step' = Step /\ Underway' = Underway
      /\ flight' \cup landed' \subseteq flight \cup landed
      /\ landed \subseteq landed' /\ there' \subseteq there /\ flight' \subseteq flight
  BY <1>2 DEF current, Latest, Step, Underway
<1>4. Commands'
  BY <1>1, <1>2 DEF SvcInv, Commands
<1>5. Changes'
  <2>1. flight' \cap landed' = {}
    BY <1>1, <1>2 DEF SvcInv, Changes
  <2>2. QED
    BY <1>1, <1>3, <2>1 DEF SvcInv, Changes
<1>6. OnlyConfirmedChanges'
  BY <1>1, <1>2, <1>3 DEF SvcInv, OnlyConfirmedChanges
<1>7. TopUps'
  BY <1>1, <1>2, <1>3 DEF SvcInv, TopUps
<1>8. /\ \A t : (\E g \in landed : g.try = t) => (\E g \in landed' : g.try = t)
      /\ \A t : (\E g \in flight' \cup landed' : g.try = t) => SentBy(t)
  BY <1>3 DEF SentBy
<1>9. /\ Made(Latest) => (Made(Latest))'
      /\ (SentBy(Latest))' => SentBy(Latest)
  BY <1>3, <1>8 DEF Made, SentBy
<1>10. Phase'
  <2>1. CASE ~Underway
    <3>1. Concluded
      BY <1>1, <2>1 DEF SvcInv, Phase
    <3>2. exchange' = exchange
      BY <1>2, <2>1 DEF Replied
    <3>3. (Made(Latest) \/ MayStillBeMade(Latest))' => Made(Latest) \/ MayStillBeMade(Latest)
      BY <1>3, <1>8 DEF Made, MayStillBeMade, SentBy
    <3>4. Made(Latest) => (Made(Latest))'
      BY <1>9
    <3>5. ReportIsTrue'
      BY <1>2, <1>3, <3>1, <3>3, <3>4 DEF Concluded, ReportIsTrue, Latest
    <3>6. QED
      BY <1>2, <1>3, <2>1, <3>1, <3>2, <3>5 DEF Phase, Concluded
  <2>2. CASE Underway /\ ~Changing
    <3>1. Early \/ Keying \/ Settling \/ Ending \/ Saving \/ Done
      BY <1>1, <2>2 DEF SvcInv, Phase
    <3>2. exchange = "no"
      BY <3>1 DEF Early, Keying, Settling, Ending, Saving, Done, Nothing
    <3>3. exchange' = "no"
      BY <1>2, <3>2 DEF Replied
    <3>4. Nothing => Nothing'
      BY <1>2, <1>9, <3>3 DEF Nothing
    <3>5. (Early \/ Keying \/ Settling \/ Ending \/ Saving \/ Done)'
      <4>1. CASE Early
        BY <1>2, <1>3, <3>4, <4>1 DEF Early
      <4>2. CASE Keying
        BY <1>2, <1>3, <3>4, <4>2 DEF Keying
      <4>3. CASE Settling
        BY <1>2, <1>3, <1>9, <3>3, <4>3 DEF Settling
      <4>4. CASE Ending
        BY <1>2, <1>3, <3>4, <4>4 DEF Ending
      <4>5. CASE Saving
        BY <1>2, <1>3, <1>9, <3>3, <4>5 DEF Saving
      <4>6. CASE Done
        BY <1>2, <1>3, <1>9, <3>3, <4>6 DEF Done
      <4>7. QED
        BY <3>1, <4>1, <4>2, <4>3, <4>4, <4>5, <4>6
    <3>6. QED
      BY <1>3, <2>2, <3>5 DEF Phase
  <2>3. CASE Underway /\ Changing
    <3>1. Exchanged
      BY <2>3 DEF Changing
    <3>2. \A g \in flight' : g.try = Latest' => g.aim = aim'
      BY <1>2, <1>3, <3>1 DEF Exchanged
    <3>3. ASSUME f.try = Latest PROVE Exchanged'
      <4>1. SentBy(Latest) /\ f \in flight
        BY <3>3 DEF SentBy
      <4>2. f.aim = aim
        BY <1>2, <3>1, <3>3 DEF Exchanged
      <4>3. \A g \in flight \cup landed : g.try = Latest => g = f
        BY <1>1, <3>3 DEF SvcInv, Changes
      <4>4. f \notin landed
        BY <1>1 DEF SvcInv, Changes
      <4>5. ~Made(Latest)
        BY <4>3, <4>4 DEF Made
      <4>6. exchange = "sent"
        BY <3>1, <4>1, <4>5 DEF Exchanged
      <4>7. exchange' = IF f \in landed' THEN "accepted"
                        ELSE IF f.aim \in there \/ current.op \notin AboutThings THEN "denied"
                        ELSE IF current.op \in Steering THEN "ended" ELSE "missing"
        BY <1>2, <2>3, <3>3, <4>6 DEF Replied, Latest
      <4>8. CASE f \in landed'
        <5>1. (Made(Latest))'
          BY <1>3, <3>3, <4>8 DEF Made
        <5>2. QED
          BY <3>2, <4>7, <4>8, <5>1 DEF Exchanged
      <4>9. CASE f \notin landed'
        <5>1. there' = there /\ landed' = landed
          BY <1>2, <4>9
        <5>2. ~(SentBy(Latest))'
          BY <1>2, <1>3, <4>3, <4>4, <5>1 DEF SentBy
        <5>3. exchange' \in {"missing", "ended"} => aim' \notin there'
          BY <1>2, <4>2, <4>7, <4>9, <5>1
        <5>4. exchange' = "ended" => current'.op \in Steering
          BY <1>3, <4>7, <4>9
        <5>5. exchange' \in {"denied", "missing", "ended"}
          BY <4>7, <4>9
        <5>6. QED
          BY <3>2, <5>2, <5>3, <5>4, <5>5 DEF Exchanged
      <4>10. QED
        BY <4>8, <4>9
    <3>4. ASSUME f.try # Latest PROVE Exchanged'
      <4>1. exchange' = exchange
        BY <1>2, <3>4 DEF Replied, Latest
      <4>2. (Made(Latest))' = Made(Latest)
        BY <1>2, <1>3, <3>4 DEF Made
      <4>3. QED
        BY <1>2, <1>3, <1>9, <3>1, <3>2, <4>1, <4>2 DEF Exchanged
    <3>5. Exchanged'
      BY <3>3, <3>4
    <3>6. told => exchange' = "accepted"
      <4>1. SUFFICES ASSUME told PROVE exchange' = "accepted"
        OBVIOUS
      <4>2. exchange = "accepted"
        BY <2>3, <4>1 DEF Changing
      <4>3. QED
        BY <1>2, <4>2 DEF Replied
    <3>7. Changing'
      BY <1>2, <1>3, <2>3, <3>5, <3>6 DEF Changing
    <3>8. QED
      BY <1>3, <2>3, <3>7 DEF Phase
  <2>4. QED
    BY <2>1, <2>2, <2>3
<1>11. QED
  BY <1>4, <1>5, <1>6, <1>7, <1>10 DEF SvcInv

LEMMA AnsweredStep == SvcInv /\ Answered => SvcInv'
<1>1. SUFFICES ASSUME SvcInv, Answered PROVE SvcInv'
  OBVIOUS
<1>2. Underway /\ Step = "change"
      /\ UNCHANGED <<orders, aim, idemKey, flight, landed, told, there, place, stirs>>
  BY <1>1 DEF Answered
<1>3. Changing /\ Exchanged
  BY <1>1, <1>2, Where DEF Changing
<1>4. current.op # "program.draft" /\ ~told /\ current.op \in Mutations
  BY <1>1, <1>2, <1>3, NamedOfChange DEF Changing
<1>5. ~FileGiven(current)
  BY <1>1, <1>4, CurrentOrder DEF SvcInv, FileGiven, Typed, TakesFile, Mutations
<1>6. current' = current /\ Latest' = Latest /\ (Made(Latest))' = Made(Latest)
      /\ (SentBy(Latest))' = SentBy(Latest)
  BY <1>2 DEF current, Latest, Made, SentBy
<1>7. CASE exchange = "accepted" /\ Proceed /\ UNCHANGED verdict
  <2>1. Made(Latest)
    BY <1>3, <1>7 DEF Exchanged
  <2>2. todo' = Tail(todo) /\ exchange' = "no"
    BY <1>7 DEF Proceed
  <2>3. CASE current.op = "run.cancel"
    <3>1. todo' = <<"settle">>
      BY <1>3, <2>2, <2>3 DEF Changing, ChangeOf
    <3>2. Settling'
      BY <1>2, <1>4, <1>6, <2>1, <2>2, <2>3, <3>1 DEF Settling
    <3>3. QED
      BY <1>1, <1>2, <1>7, <3>2, GoesOn
  <2>4. CASE current.op # "run.cancel"
    <3>1. todo' = <<>>
      BY <1>3, <1>4, <2>2, <2>4 DEF Changing, ChangeOf
    <3>2. Done'
      BY <1>5, <1>6, <2>1, <2>2, <3>1 DEF Done
    <3>3. QED
      BY <1>1, <1>2, <1>7, <3>2, GoesOn
  <2>5. QED
    BY <2>3, <2>4
<1>8. CASE exchange = "accepted" /\ EndAs("unclear", Named)
  BY <1>1, <1>2, <1>3, <1>8, UndecidedInOrder, EndsInOrder
<1>9. CASE exchange = "denied" /\ EndAs("denied", Named)
  <2>1. ~SentBy(Latest)
    BY <1>3, <1>9 DEF Exchanged
  <2>2. QED
    BY <1>1, <1>2, <1>3, <1>9, <2>1, RefusalInOrder, EndsInOrder
<1>10. CASE /\ exchange = "missing"
            /\ EndAs(IF current.op \in AbsentIsDone THEN "ok" ELSE "missing", Named)
  <2>1. ~SentBy(Latest) /\ aim \notin there
    BY <1>3, <1>10 DEF Exchanged
  <2>2. CASE current.op \in AbsentIsDone
    <3>1. InOrder("ok", Named)
      BY <1>1, <1>2, <1>3, <2>1, <2>2, NamedOfChange DEF InOrder, Codes
    <3>2. QED
      BY <1>1, <1>2, <1>10, <2>2, <3>1, EndsInOrder
  <2>3. CASE current.op \notin AbsentIsDone
    BY <1>1, <1>2, <1>3, <1>10, <2>1, <2>3, RefusalInOrder, EndsInOrder
  <2>4. QED
    BY <2>2, <2>3
<1>11. CASE exchange = "ended" /\ current.op = "run.input" /\ EndAs("conflict", Named)
  <2>1. ~SentBy(Latest)
    BY <1>3, <1>11 DEF Exchanged
  <2>2. QED
    BY <1>1, <1>2, <1>3, <1>11, <2>1, RefusalInOrder, EndsInOrder
<1>12. CASE /\ exchange = "ended" /\ current.op = "run.cancel"
            /\ todo' = <<"ended">> /\ exchange' = "no" /\ UNCHANGED verdict
  <2>1. ~SentBy(Latest) /\ aim \notin there
    BY <1>3, <1>12 DEF Exchanged
  <2>2. Nothing'
    BY <1>2, <1>4, <1>6, <1>12, <2>1 DEF Nothing
  <2>3. Ending'
    BY <1>2, <1>6, <1>12, <2>1, <2>2 DEF Ending
  <2>4. QED
    BY <1>1, <1>2, <1>12, <2>3, GoesOn
<1>13. QED
  BY <1>1, <1>7, <1>8, <1>9, <1>10, <1>11, <1>12 DEF Answered

LEMMA GiveUpStep == SvcInv /\ GiveUp => SvcInv'
<1>1. SUFFICES ASSUME SvcInv, GiveUp PROVE SvcInv'
  OBVIOUS
<1>2. Underway /\ Step \in {"change", "draft"} /\ EndAs("unclear", Named)
      /\ UNCHANGED <<orders, aim, idemKey, flight, landed, told, there, place, stirs>>
  BY <1>1 DEF GiveUp
<1>3. Changing
  BY <1>1, <1>2, Where
<1>4. QED
  BY <1>1, <1>2, <1>3, UndecidedInOrder, EndsInOrder

LEMMA InterruptStep == SvcInv /\ Interrupt => SvcInv'
<1>1. SUFFICES ASSUME SvcInv, Interrupt PROVE SvcInv'
  OBVIOUS
<1>2. Underway /\ Step \in {"change", "draft"} /\ EndAs("cancelled", Named)
      /\ UNCHANGED <<orders, aim, idemKey, flight, landed, told, there, place, stirs>>
  BY <1>1 DEF Interrupt
<1>3. Changing
  BY <1>1, <1>2, Where
<1>4. QED
  BY <1>1, <1>2, <1>3, UndecidedInOrder, EndsInOrder

LEMMA DraftRefusedStep == SvcInv /\ DraftRefused => SvcInv'
<1>1. SUFFICES ASSUME SvcInv, DraftRefused PROVE SvcInv'
  OBVIOUS
<1>2. Underway /\ Step = "draft" /\ exchange = "denied" /\ EndAs("denied", {})
      /\ UNCHANGED <<orders, aim, idemKey, flight, landed, told, there, place, stirs>>
  BY <1>1 DEF DraftRefused
<1>3. Changing
  BY <1>1, <1>2, Where
<1>4. ~SentBy(Latest)
  BY <1>2, <1>3 DEF Changing, Exchanged
<1>5. InOrder("denied", {})
  BY <1>4 DEF InOrder, Codes
<1>6. QED
  BY <1>1, <1>2, <1>5, EndsInOrder

LEMMA TellRunStep == SvcInv /\ TellRun => SvcInv'
<1>1. SUFFICES ASSUME SvcInv, TellRun PROVE SvcInv'
  OBVIOUS
<1>2. Underway /\ Step = "draft" /\ exchange = "accepted"
      /\ UNCHANGED <<orders, todo, aim, idemKey, exchange, flight, landed, verdict, there,
                     place, stirs>>
  BY <1>1 DEF TellRun
<1>3. Changing /\ current.op = "program.draft"
  BY <1>1, <1>2, Where, NamedOfChange
<1>4. current' = current /\ Latest' = Latest /\ (Made(Latest))' = Made(Latest)
      /\ (SentBy(Latest))' = SentBy(Latest)
  BY <1>2 DEF current, Latest, Made, SentBy
<1>5. Exchanged'
  BY <1>2, <1>3, <1>4 DEF Changing, Exchanged
<1>6. Changing'
  BY <1>2, <1>3, <1>4, <1>5 DEF Changing
<1>7. QED
  BY <1>1, <1>2, <1>6, GoesOn

LEMMA DraftEndsStep == SvcInv /\ DraftEnds => SvcInv'
<1>1. SUFFICES ASSUME SvcInv, DraftEnds PROVE SvcInv'
  OBVIOUS
<1>2. Underway /\ Step = "draft" /\ exchange = "accepted"
      /\ UNCHANGED <<orders, aim, idemKey, flight, landed, told, there, place, stirs>>
  BY <1>1 DEF DraftEnds
<1>3. Changing /\ current.op = "program.draft"
  BY <1>1, <1>2, Where, NamedOfChange
<1>4. Made(Latest)
  BY <1>2, <1>3 DEF Changing, Exchanged
<1>5. CASE Proceed /\ UNCHANGED verdict
  <2>1. current' = current /\ (Made(Latest))' = Made(Latest) /\ exchange' = "no"
        /\ todo' = Tail(todo)
    BY <1>2, <1>5 DEF current, Latest, Made, Proceed
  <2>2. CASE FileGiven(current)
    <3>1. todo' = <<"save">>
      BY <1>3, <2>1, <2>2 DEF Changing, ChangeOf
    <3>2. Saving'
      BY <1>3, <1>4, <2>1, <2>2, <3>1 DEF Saving
    <3>3. QED
      BY <1>1, <1>2, <1>5, <3>2, GoesOn
  <2>3. CASE ~FileGiven(current)
    <3>1. todo' = <<>>
      BY <1>3, <2>1, <2>3 DEF Changing, ChangeOf
    <3>2. Done'
      BY <1>4, <2>1, <2>3, <3>1 DEF Done
    <3>3. QED
      BY <1>1, <1>2, <1>5, <3>2, GoesOn
  <2>4. QED
    BY <2>2, <2>3
<1>6. CASE EndAs("runfailed", Named)
  BY <1>1, <1>2, <1>3, <1>6, UndecidedInOrder, EndsInOrder
<1>7. CASE EndAs("unclear", {})
  <2>1. InOrder("unclear", {})
    BY <1>3 DEF InOrder, Codes
  <2>2. QED
    BY <1>1, <1>2, <1>7, <2>1, EndsInOrder
<1>8. QED
  BY <1>1, <1>5, <1>6, <1>7 DEF DraftEnds

-----------------------------------------------------------------------------
\* Others, and the user.
LEMMA OthersStirStep == SvcInv /\ OthersStir => SvcInv'
<1>1. SUFFICES ASSUME SvcInv, OthersStir PROVE SvcInv'
  OBVIOUS
<1>2. Underway /\ there' \subseteq there /\ (place = "mine" => place' = "mine")
      /\ UNCHANGED <<orders, todo, aim, idemKey, exchange, flight, landed, told, verdict>>
  BY <1>1 DEF OthersStir
<1>3. current' = current /\ Latest' = Latest /\ (Made(Latest))' = Made(Latest)
      /\ (SentBy(Latest))' = SentBy(Latest) /\ Underway' = Underway
  BY <1>2 DEF current, Latest, Made, SentBy, Underway
<1>4. Commands' /\ Changes' /\ OnlyConfirmedChanges'
  BY <1>1, <1>2, StillConfirmed DEF SvcInv
<1>5. TopUps'
  BY <1>1, <1>2, <1>3 DEF SvcInv, TopUps
<1>6. Nothing => Nothing'
  BY <1>2, <1>3 DEF Nothing
<1>7. (Early \/ Keying \/ Changing \/ Settling \/ Ending \/ Saving \/ Done)'
  <2>1. CASE Early
    BY <1>2, <1>3, <1>6, <2>1 DEF Early
  <2>2. CASE Keying
    BY <1>2, <1>3, <1>6, <2>2 DEF Keying
  <2>3. CASE Changing
    <3>1. Exchanged'
      BY <1>2, <1>3, <2>3 DEF Changing, Exchanged
    <3>2. QED
      BY <1>2, <1>3, <2>3, <3>1 DEF Changing
  <2>4. CASE Settling
    BY <1>2, <1>3, <2>4 DEF Settling
  <2>5. CASE Ending
    BY <1>2, <1>3, <1>6, <2>5 DEF Ending
  <2>6. CASE Saving
    BY <1>2, <1>3, <2>6 DEF Saving
  <2>7. CASE Done
    BY <1>2, <1>3, <2>7 DEF Done
  <2>8. QED
    BY <1>1, <1>2, <2>1, <2>2, <2>3, <2>4, <2>5, <2>6, <2>7 DEF SvcInv, Phase
<1>8. QED
  BY <1>2, <1>3, <1>4, <1>5, <1>7 DEF SvcInv, Phase

\* What the user types next is a command line like the one before.
LEMMA AgainIsAnOrder ==
  ASSUME Commands
  PROVE  /\ Again \in Order /\ Typed(Again) /\ Again.op = current.op
         /\ Again.given = IF verdict.code \in {"preview", "confirm"} THEN current.given
                          ELSE current.given \cup (verdict.names \cap {"key"})
<1>1. current \in Order /\ Typed(current)
  BY CurrentOrder
<1>2. "key" \in Says
  BY DEF Says
<1>3. DOMAIN current = {"op", "given", "preview", "yes"}
  BY <1>1 DEF Order
<1>4. CASE verdict.code \in {"preview", "confirm"}
  <2>1. Again = [current EXCEPT !.preview = FALSE, !.yes = TRUE]
    BY <1>4 DEF Again
  <2>2. Again \in Order /\ Again.op = current.op /\ Again.given = current.given
    BY <1>1, <2>1 DEF Order
  <2>3. QED
    BY <1>1, <1>4, <2>2 DEF Typed
<1>5. CASE verdict.code \notin {"preview", "confirm"}
  <2>1. Again = [current EXCEPT !.given = @ \cup (verdict.names \cap {"key"})]
    BY <1>5 DEF Again
  <2>2. Again.op = current.op
        /\ Again.given = current.given \cup (verdict.names \cap {"key"})
    BY <1>1, <2>1 DEF Order
  <2>3. current.given \cup (verdict.names \cap {"key"}) \in SUBSET Says
    BY <1>1, <1>2 DEF Order
  <2>4. Again \in Order
    BY <1>1, <2>1, <2>3 DEF Order
  <2>5. Typed(Again)
    BY <1>1, <2>2 DEF Typed
  <2>6. QED
    BY <1>5, <2>2, <2>4, <2>5
<1>6. QED
  BY <1>4, <1>5

LEMMA RepeatStep == SvcInv /\ Repeat => SvcInv'
<1>1. SUFFICES ASSUME SvcInv, Repeat PROVE SvcInv'
  OBVIOUS
<1>2. /\ verdict.code \in {"preview", "confirm", "unclear", "cancelled"}
      /\ orders' = Append(orders, Again)
      /\ todo' = Script(Again)
      /\ idemKey' = IF "key" \in Again.given THEN idemKey ELSE 0
      /\ exchange' = "no" /\ told' = FALSE /\ verdict' = NoVerdict
      /\ UNCHANGED <<flight, landed>>
  BY <1>1 DEF Repeat
<1>3. Concluded
  BY <1>1, <1>2 DEF SvcInv, Phase, Underway, NoVerdict
<1>4. orders \in Seq(Order) /\ Latest \in Nat \ {0} /\ Again \in Order
  BY <1>1, CurrentOrder, AgainIsAnOrder DEF SvcInv, Commands
<1>5. /\ orders' \in Seq(Order) /\ Len(orders') = Len(orders) + 1
      /\ \A i \in 1..Len(orders) : orders'[i] = orders[i]
      /\ orders'[Len(orders) + 1] = Again
  BY <1>2, <1>4, AppendProperties
<1>6. Latest' = Latest + 1 /\ current' = Again
  BY <1>5 DEF Latest, current
<1>7. Commands'
  <2>1. \A i \in 1..Len(orders') : i \in 1..Len(orders) \/ i = Len(orders) + 1
    BY <1>4, <1>5 DEF Latest
  <2>2. Typed(Again) /\ \A i \in 1..Len(orders) : Typed(orders[i])
    BY <1>1, AgainIsAnOrder DEF SvcInv, Commands
  <2>3. \A i \in 1..Len(orders') : Typed(orders'[i])
    BY <1>5, <2>1, <2>2
  <2>4. orders' # <<>>
    BY <1>4, <1>5 DEF Latest
  <2>5. QED
    BY <1>5, <2>3, <2>4 DEF Commands
<1>8. \A f \in flight \cup landed : f.try \in 1..Latest
  BY <1>1 DEF SvcInv, Changes
<1>9. Changes'
  <2>1. 1..Latest \subseteq 1..Latest'
    BY <1>4, <1>6
  <2>2. QED
    BY <1>1, <1>2, <1>8, <2>1 DEF SvcInv, Changes
<1>10. OnlyConfirmedChanges'
  BY <1>1, <1>2, <1>5, <1>8 DEF SvcInv, OnlyConfirmedChanges, Latest
<1>11. TopUps'
  <2>1. SUFFICES ASSUME current.op = "wallet.topup"
                 PROVE  /\ \A f \in flight \cup landed :
                              idemKey' # 0 /\ f.key = idemKey' /\ "key" \in Again.given
                        /\ "key" \in Again.given => idemKey' # 0
    <3>1. Again.op = current.op
      BY <1>1, AgainIsAnOrder DEF SvcInv
    <3>2. verdict'.code \notin {"unclear", "cancelled"} /\ verdict'.names = {}
      BY <1>2 DEF NoVerdict
    <3>3. QED
      BY <1>2, <1>6, <3>1, <3>2 DEF TopUps
  <2>2. /\ \A f \in flight \cup landed :
               idemKey # 0 /\ f.key = idemKey /\ ("key" \in current.given \/ f.try = Latest)
        /\ verdict.code \in {"unclear", "cancelled"} => "key" \in current.given \cup verdict.names
        /\ "key" \in current.given \cup verdict.names => idemKey # 0
    BY <1>1, <2>1 DEF SvcInv, TopUps
  <2>3. /\ "key" \in Again.given => "key" \in current.given \cup verdict.names
        /\ "key" \in current.given => "key" \in Again.given
    BY <1>1, AgainIsAnOrder DEF SvcInv
  <2>4. CASE verdict.code \in {"preview", "confirm"}
    <3>1. \A f \in flight \cup landed : f.try # Latest
      BY <1>3, <2>4 DEF Concluded, ReportIsTrue, Made, MayStillBeMade, Latest
    <3>2. QED
      BY <1>2, <2>2, <2>3, <3>1
  <2>5. CASE verdict.code \in {"unclear", "cancelled"}
    <3>1. "key" \in Again.given
      BY <1>1, <2>2, <2>5, AgainIsAnOrder DEF SvcInv
    <3>2. QED
      BY <1>2, <2>2, <2>3, <3>1
  <2>6. QED
    BY <1>2, <2>4, <2>5
<1>12. Early'
  <2>1. Ahead(Script(Again), Again)
    BY <1>1, AgainIsAnOrder, ScriptAhead DEF SvcInv
  <2>2. \A f \in flight \cup landed : f.try # Latest + 1
    BY <1>4, <1>8
  <2>3. Nothing'
    BY <1>2, <1>6, <2>2 DEF Nothing, SentBy
  <2>4. QED
    BY <1>2, <1>6, <2>1, <2>3 DEF Early
<1>13. QED
  BY <1>2, <1>7, <1>9, <1>10, <1>11, <1>12 DEF SvcInv, Phase, Underway

-----------------------------------------------------------------------------
LEMMA SvcStarts == SvcInit => SvcInv
<1>1. SUFFICES ASSUME SvcInit PROVE SvcInv
  OBVIOUS
<1>2. PICK c \in Orders : orders = <<c>> /\ NewOrder(c)
  BY <1>1 DEF SvcInit
<1>3. exchange = "no" /\ flight = {} /\ landed = {} /\ told = FALSE /\ verdict = NoVerdict
  BY <1>1 DEF SvcInit
<1>4. c \in Order /\ Typed(c)
  BY <1>2, ServiceAssumption DEF ServiceAssumption
<1>5. orders \in Seq(Order) /\ Len(orders) = 1 /\ orders[1] = c /\ orders # <<>>
  BY <1>2, <1>4
<1>6. current = c /\ Latest = 1
  BY <1>5 DEF current, Latest
<1>7. Commands
  BY <1>4, <1>5 DEF Commands
<1>8. Changes /\ OnlyConfirmedChanges
  BY <1>3 DEF Changes, OnlyConfirmedChanges
<1>9. TopUps
  <2>1. "key" \in c.given => idemKey = 1
    BY <1>2 DEF NewOrder
  <2>2. QED
    BY <1>3, <1>6, <2>1 DEF TopUps, NoVerdict
<1>10. Early
  <2>1. todo = Script(c) /\ Ahead(Script(c), c)
    BY <1>2, <1>4, ScriptAhead DEF NewOrder
  <2>2. QED
    BY <1>3, <1>6, <2>1 DEF Early, Nothing, SentBy
<1>11. QED
  BY <1>3, <1>7, <1>8, <1>9, <1>10 DEF SvcInv, Phase, Underway

LEMMA SvcStutters == SvcInv /\ UNCHANGED svcVars => SvcInv'
BY DEF SvcInv, svcVars, Commands, Changes, OnlyConfirmedChanges, TopUps, Phase, Early, Keying,
       Changing, Settling, Ending, Saving, Done, Concluded, Nothing, Exchanged, Underway, SentBy,
       Made, MayStillBeMade, ReportIsTrue, current, Latest

LEMMA SvcStays == SvcInv /\ [SvcNext]_svcVars => SvcInv'
BY CheckArgumentsStep, CheckSpotStep, ConfirmGateStep, MintKeyStep, WriteFileStep,
   ReportDoneStep, CheckOwnerStep, ResolveNameStep, ReadRecordStep, AskStep, AskInPassingStep,
   ReadEndedStep, SendStep, HandleStep, AnsweredStep, GiveUpStep, InterruptStep,
   DraftRefusedStep, TellRunStep, DraftEndsStep, OthersStirStep, RepeatStep, SvcStutters
   DEF SvcNext

LEMMA SvcInvariance == SvcSpec => []SvcInv
<1>1. SvcInit => SvcInv
  BY SvcStarts
<1>2. SvcInv /\ [SvcNext]_svcVars => SvcInv'
  BY SvcStays
<1>3. QED
  BY <1>1, <1>2, PTL DEF SvcSpec

\* Nothing is changed by a plan, without --yes where it is needed, or under an
\* OWNER that is not confirmed to be the caller, whatever the command lines,
\* the interruptions and the moment at which the service handles a request.
THEOREM ConfirmedChanges == SvcSpec => []OnlyConfirmedChanges
<1>1. SvcInv => OnlyConfirmedChanges
  BY DEF SvcInv
<1>2. QED
  BY <1>1, SvcInvariance, PTL

\* A command says that a change was made, refused or only planned when that is
\* what became of its request, now and later.
THEOREM TrueReports == SvcSpec => []ReportIsTrue
<1>1. SvcInv => ReportIsTrue
  <2>1. CASE Underway
    BY <2>1 DEF Underway, NoVerdict, ReportIsTrue
  <2>2. CASE ~Underway
    BY <2>2 DEF SvcInv, Phase, Concluded
  <2>3. QED
    BY <2>1, <2>2
<1>2. QED
  BY <1>1, SvcInvariance, PTL

\* However often an undecided top-up is repeated with the key it reported, the
\* service sees one idempotency key.
THEOREM OneTopUp == SvcSpec => []TopUpOnce
<1>1. SvcInv => TopUpOnce
  <2>1. SUFFICES ASSUME SvcInv, current.op = "wallet.topup"
                 PROVE  Cardinality({f.key : f \in landed \cup flight}) <= 1
    BY DEF TopUpOnce
  <2>2. \A f \in landed \cup flight : f.key = idemKey
    BY <2>1 DEF SvcInv, TopUps
  <2>3. CASE landed \cup flight = {}
    <3>1. {f.key : f \in landed \cup flight} = {}
      BY <2>3
    <3>2. QED
      BY <3>1, FS_EmptySet
  <2>4. CASE landed \cup flight # {}
    <3>1. {f.key : f \in landed \cup flight} = {idemKey}
      BY <2>2, <2>4
    <3>2. \A x : Cardinality({x}) = 1
      BY FS_Singleton
    <3>3. QED
      BY <3>1, <3>2
  <2>5. QED
    BY <2>3, <2>4
<1>2. QED
  BY <1>1, SvcInvariance, PTL

\* A command that ends well has had nothing to write, or has written it.
LEMMA EndsWellWritten ==
  ASSUME SvcInv, SvcNext, Underway, verdict'.code = "ok", FileGiven(current)
  PROVE  place = "mine"
<1>1. current.op \in TakesFile /\ current.op \notin AbsentIsDone \cup {"run.cancel"}
  BY CurrentOrder DEF SvcInv, Typed, FileGiven, TakesFile, AbsentIsDone
<1>2. verdict.code = "none"
  BY DEF Underway, NoVerdict
<1>3. \A code, names : EndAs(code, names) => code = "ok"
  BY DEF EndAs
<1>4. Step # "ended"
  BY <1>1, Where DEF Ending
<1>5. ReportDone
  <2>1. ~(UNCHANGED verdict)
    BY <1>2
  <2>2. ~(Repeat \/ OthersStir \/ Handle \/ TellRun)
    BY <1>2, <2>1 DEF Repeat, OthersStir, Handle, TellRun
  <2>3. ~(CheckArguments \/ CheckSpot \/ ConfirmGate \/ MintKey \/ WriteFile)
    BY <1>3, <2>1 DEF CheckArguments, CheckSpot, ConfirmGate, MintKey, WriteFile
  <2>4. ~(CheckOwner \/ ResolveName \/ ReadRecord \/ Ask \/ AskInPassing \/ ReadEnded)
    BY <1>1, <1>3, <1>4, <2>1 DEF CheckOwner, ResolveName, ReadRecord, Ask, AskInPassing,
       ReadEnded, ReadFails, Failures
  <2>5. ~(Send \/ Answered \/ GiveUp \/ Interrupt \/ DraftRefused \/ DraftEnds)
    BY <1>1, <1>3, <2>1 DEF Send, Answered, GiveUp, Interrupt, DraftRefused, DraftEnds
  <2>6. QED
    BY <2>2, <2>3, <2>4, <2>5 DEF SvcNext
<1>6. Step = "report"
  BY <1>5 DEF ReportDone
<1>7. QED
  BY <1>6, Where DEF Done

\* A file that somebody else has put in the place of the output stays as it is,
\* and success is only reported once the result has been written.
THEOREM OutputKept == SvcSpec => OutputIsKept
<1> DEFINE A == /\ place = "taken" => place' = "taken"
                /\ (verdict'.code = "ok" /\ verdict = NoVerdict
                    /\ current.given \cap {"file", "slash"} # {}) => place = "mine"
<1>1. SvcInv /\ [SvcNext]_svcVars => [A]_svcVars
  <2>1. SUFFICES ASSUME SvcInv, SvcNext PROVE A
    OBVIOUS
  <2>2. ASSUME place = "taken" PROVE place' = "taken"
    BY <2>1, <2>2 DEF SvcNext, CheckArguments, CheckSpot, ConfirmGate, MintKey, WriteFile,
       ReportDone, CheckOwner, ResolveName, ReadRecord, Ask, AskInPassing, ReadEnded, Send,
       Handle, Answered, GiveUp, Interrupt, DraftRefused, TellRun, DraftEnds, OthersStir, Repeat
  <2>3. ASSUME verdict'.code = "ok", verdict = NoVerdict,
               current.given \cap {"file", "slash"} # {}
        PROVE  place = "mine"
    BY <2>1, <2>3, EndsWellWritten DEF Underway, FileGiven
  <2>4. QED
    BY <2>2, <2>3
<1> HIDE DEF A
<1>2. SvcSpec => [][A]_svcVars
  BY <1>1, SvcInvariance, PTL DEF SvcSpec
<1>3. QED
  BY <1>2 DEF OutputIsKept, A

-----------------------------------------------------------------------------
(* Commands that change a job. *)

\* What the options given are.
OptsForm ==
    /\ DOMAIN Opts \subseteq Settings
    /\ "model" \in DOMAIN Opts => Opts["model"] = "m2"
    /\ "repo" \in DOMAIN Opts =>
           Opts["repo"] \in {Null} \cup [url : Repos, branch : {Unset, "dev"}]
    /\ "output" \in DOMAIN Opts => Opts["output"] \in {Null} \cup Repos
    /\ "inputs" \in DOMAIN Opts =>
           Opts["inputs"] \in {[add |-> {"k1"}, drop |-> {}], [add |-> {}, drop |-> {"k1"}]}
    /\ "environment" \in DOMAIN Opts => Opts["environment"] = "e2"
    /\ "files" \in DOMAIN Opts => Opts["files"] \in {Null, "f2"}

AttachCommand ==
    /\ command.name = "attach" /\ command.replace \in {"no"} \cup Refs
    /\ OptsForm /\ Combined(Opts)

\* The job as it is while the command runs.
StoredTyped ==
    /\ stored = [kind |-> stored.kind, bound |-> stored.bound, interval |-> stored.interval,
                 revision |-> stored.revision]
    /\ stored.bound \in [Refs -> Bindings \cup {Unbound}]
    /\ stored.revision \in Nat

JobsTyped ==
    /\ at \in {"read", "list", "send"} => StoredTyped
    /\ command.name \in {"attach", "configure"}
    /\ command.name = "attach" => AttachCommand

\* What a command is about to send: an attach what follows from the listing, a
\* configuration the bindings of the revision it names.
Attaching ==
    /\ at = "list" => command.name = "attach"
    /\ at = "send" /\ command.name = "attach" =>
           body = Sent(seen) /\ (stored.kind = "webhook" => ~Refused(seen))
Configuring ==
    at = "send" /\ command.name = "configure" =>
        /\ body.revision \in Nat /\ body.revision <= stored.revision
        /\ body.revision = stored.revision => body.bound = stored.bound

JobInv == JobsTyped /\ Attaching /\ Configuring

LEMMA GivenForm ==
  ASSUME NEW g \in Given, command.given = g
  PROVE  OptsForm
<1>1. PICK o \in Options : g = [s \in {s \in Settings : o[s] # Unset} |-> o[s]]
  BY DEF Given
<1>2. DOMAIN g = {s \in Settings : o[s] # Unset} /\ \A s \in DOMAIN g : g[s] = o[s]
  BY <1>1
<1>3. /\ o.model \in {Unset, "m2"}
      /\ o.repo \in {Unset, Null} \cup [url : Repos, branch : {Unset, "dev"}]
      /\ o.output \in {Unset, Null} \cup Repos
      /\ o.inputs \in {Unset} \cup {[add |-> {"k1"}, drop |-> {}], [add |-> {}, drop |-> {"k1"}]}
      /\ o.environment \in {Unset, "e2"} /\ o.files \in {Unset, Null, "f2"}
  BY DEF Options
<1>4. QED
  BY <1>2, <1>3 DEF OptsForm, Opts

\* What the service makes of each setting of a request.
LEMMA Applied ==
  ASSUME NEW base, NEW set, NEW s \in Settings
  PROVE  Apply(base, set)[s] = IF s \notin DOMAIN set THEN base[s]
                               ELSE IF set[s] = Null THEN Empty[s] ELSE set[s]
BY DEF Apply

\* The three requests on the binding they are meant for.
LEMMA FreshApplied ==
  ASSUME OptsForm, NEW s \in Settings
  PROVE  Apply(Empty, Fresh)[s] =
           IF s \notin DOMAIN Opts THEN Empty[s]
           ELSE IF s = "inputs" THEN MergedInputs(Empty)
           ELSE IF Opts[s] = Null THEN Empty[s] ELSE Opts[s]
<1> DEFINE value == [t \in DOMAIN Opts |-> IF t = "inputs" THEN MergedInputs(Empty) ELSE Opts[t]]
           kept == {t \in DOMAIN value : value[t] \notin {Null, Empty[t]}}
<1>1. Fresh = [t \in kept |-> value[t]]
  BY DEF Fresh
<1>2. DOMAIN Fresh = kept /\ \A t \in kept : Fresh[t] = value[t]
  BY <1>1
<1>3. \A t \in kept : value[t] \notin {Null, Empty[t]}
  OBVIOUS
<1>4. Apply(Empty, Fresh)[s] = IF s \notin kept THEN Empty[s] ELSE value[s]
  BY <1>2, <1>3, Applied
<1>5. CASE s \notin DOMAIN Opts
  BY <1>4, <1>5
<1>6. CASE s \in DOMAIN Opts
  <2>1. value[s] = IF s = "inputs" THEN MergedInputs(Empty) ELSE Opts[s]
    BY <1>6
  <2>2. s \notin kept => value[s] = Null \/ value[s] = Empty[s]
    BY <1>6
  <2>3. s = "inputs" => MergedInputs(Empty) # Null
    <3>1. SUFFICES ASSUME s = "inputs" PROVE MergedInputs(Empty) \in SUBSET Keys
      BY JobAssumption DEF JobAssumption
    <3>2. Opts["inputs"] \in {[add |-> {"k1"}, drop |-> {}], [add |-> {}, drop |-> {"k1"}]}
      BY <1>6, <3>1 DEF OptsForm
    <3>3. QED
      BY <3>2 DEF MergedInputs, Empty, Keys
  <2> HIDE DEF value, kept
  <2>4. QED
    BY <1>3, <1>4, <1>6, <2>1, <2>2, <2>3
<1>7. QED
  BY <1>5, <1>6

\* Options are never unset or null where they give a value.
LEMMA OptsValues ==
  ASSUME OptsForm
  PROVE  /\ "model" \in DOMAIN Opts => Opts["model"] # Null
         /\ "environment" \in DOMAIN Opts => Opts["environment"] # Null
         /\ RepoGiven => /\ Opts["repo"] \in [url : Repos, branch : {Unset, "dev"}]
                         /\ Opts["repo"].url \in Repos
         /\ CommitGiven => Opts["output"] \in Repos
         /\ \A saved : "inputs" \in DOMAIN Opts =>
              /\ Opts["inputs"].add \subseteq Keys
              /\ saved.inputs \subseteq Keys => MergedInputs(saved) \in SUBSET Keys
BY JobAssumption DEF JobAssumption, OptsForm, RepoGiven, CommitGiven, MergedInputs, Keys

LEMMA ServerForm ==
  ASSUME OptsForm, NEW saved, NEW s \in Settings
  PROVE  /\ s \in DOMAIN ServerMerge(saved)
              <=> s \in DOMAIN Opts \/ (ClearRepo /\ s = "output")
         /\ s \in DOMAIN ServerMerge(saved) =>
              ServerMerge(saved)[s] =
                IF s = "repo" /\ RepoGiven THEN NewRepo(saved)
                ELSE IF s = "output" /\ ClearRepo THEN Null
                ELSE IF s = "inputs" THEN MergedInputs(saved) ELSE Opts[s]
BY DEF ServerMerge

LEMMA ServerApplied ==
  ASSUME OptsForm, NEW base, NEW saved, NEW s \in Settings,
         saved.inputs \subseteq Keys, saved.repo.branch \in {Unset, "dev"}
  PROVE  Apply(base, ServerMerge(saved))[s] =
           IF s \notin DOMAIN Opts /\ ~(ClearRepo /\ s = "output") THEN base[s]
           ELSE IF s = "repo" /\ RepoGiven THEN NewRepo(saved)
           ELSE IF s = "output" /\ ClearRepo THEN Unset
           ELSE IF s = "inputs" THEN MergedInputs(saved)
           ELSE IF Opts[s] = Null THEN Empty[s] ELSE Opts[s]
<1>1. RepoGiven => NewRepo(saved) # Null
  <2>1. SUFFICES ASSUME RepoGiven PROVE NewRepo(saved) # Null
    OBVIOUS
  <2>2. Opts["repo"] \in [url : Repos, branch : {Unset, "dev"}]
    BY <2>1, OptsValues
  <2>3. NewRepo(saved) \in [url : Repos, branch : {Unset, "dev"}]
    BY <2>2 DEF NewRepo
  <2>4. QED
    BY <2>3, JobAssumption DEF JobAssumption
<1>2. "inputs" \in DOMAIN Opts => MergedInputs(saved) # Null
  BY OptsValues, JobAssumption DEF JobAssumption
<1>3. Empty["output"] = Unset
  BY DEF Empty
<1>4. QED
  BY <1>1, <1>2, <1>3, ServerForm, Applied

LEMMA ClientApplied ==
  ASSUME OptsForm, NEW saved, NEW s \in Settings,
         saved.inputs \subseteq Keys, saved.repo.branch \in {Unset, "dev"}
  PROVE  Apply(Empty, ClientMerge(saved))[s] =
           IF s \notin DOMAIN Opts /\ ~(ClearRepo /\ s = "output")
           THEN IF s = "files" \/ (s = "environment" /\ ~Moved) \/ saved[s] = Null
                THEN Empty[s] ELSE saved[s]
           ELSE Apply(Empty, ServerMerge(saved))[s]
<1> DEFINE changed == ServerMerge(saved)
           held == Settings \ ({"files"} \cup (IF Moved THEN {} ELSE {"environment"}))
           value == [t \in DOMAIN changed \cup held |->
                        IF t \in DOMAIN changed THEN changed[t] ELSE saved[t]]
           kept == {t \in DOMAIN value : value[t] \notin {Null, Empty[t]}}
<1>1. ClientMerge(saved) = [t \in kept |-> value[t]]
  BY DEF ClientMerge
<1>2. DOMAIN ClientMerge(saved) = kept /\ \A t \in kept : ClientMerge(saved)[t] = value[t]
  BY <1>1
<1>3. \A t \in kept : value[t] \notin {Null, Empty[t]}
  OBVIOUS
<1>4. s \in DOMAIN value /\ s \notin kept => value[s] = Null \/ value[s] = Empty[s]
  OBVIOUS
<1>5. kept \subseteq DOMAIN value /\ DOMAIN value = DOMAIN changed \cup held
  OBVIOUS
<1>6. /\ s \in DOMAIN changed => value[s] = changed[s]
      /\ s \in held \ DOMAIN changed => value[s] = saved[s]
  OBVIOUS
<1>7. s \in held <=> ~(s = "files" \/ (s = "environment" /\ ~Moved))
  BY DEF Settings
<1> HIDE DEF kept, value, held
<1>8. Apply(Empty, ClientMerge(saved))[s] = IF s \notin kept THEN Empty[s] ELSE value[s]
  BY <1>2, <1>3, Applied
<1>9. CASE s \notin DOMAIN changed
  BY <1>3, <1>4, <1>5, <1>6, <1>7, <1>8, <1>9, ServerForm
<1>10. CASE s \in DOMAIN changed
  <2>1. Apply(Empty, changed)[s] = IF changed[s] = Null THEN Empty[s] ELSE changed[s]
    BY <1>10, Applied
  <2>2. QED
    BY <1>3, <1>4, <1>5, <1>6, <1>8, <1>10, <2>1, ServerForm
<1>11. QED
  BY <1>9, <1>10

\* Two repositories with the same URL and branch are one.
LEMMA SameRepo ==
  ASSUME NEW U, NEW B, NEW r \in [url : U, branch : B], NEW q \in [url : U, branch : B],
         r.url = q.url, r.branch = q.branch
  PROVE  r = q
OBVIOUS

\* The changes of a request are what the options want of the binding read.
LEMMA ServerWanted ==
  ASSUME OptsForm, Combined(Opts),
         NEW base, NEW saved, NEW old \in Bindings, NEW s \in Settings,
         saved.inputs = old.inputs, saved.repo = old.repo,
         base[s] = old[s] \/ s \in DOMAIN Opts \/ (ClearRepo /\ s = "output")
  PROVE  Apply(base, ServerMerge(saved))[s] = Wanted(old)[s]
<1>1. /\ old.inputs \subseteq Keys
      /\ old.repo \in [url : Repos \cup {Unset}, branch : {Unset, "dev"}]
      /\ old.repo.branch \in {Unset, "dev"}
  BY DEF Bindings
<1>2. Apply(base, ServerMerge(saved))[s] =
           IF s \notin DOMAIN Opts /\ ~(ClearRepo /\ s = "output") THEN base[s]
           ELSE IF s = "repo" /\ RepoGiven THEN NewRepo(saved)
           ELSE IF s = "output" /\ ClearRepo THEN Unset
           ELSE IF s = "inputs" THEN MergedInputs(saved)
           ELSE IF Opts[s] = Null THEN Empty[s] ELSE Opts[s]
  BY <1>1, ServerApplied
<1>3. CASE s = "model"
  BY <1>2, <1>3, OptsValues DEF Wanted
<1>4. CASE s = "repo"
  <2>1. Wanted(old)[s] = IF ClearRepo THEN NoRepo ELSE IF ~RepoGiven THEN old.repo
                         ELSE IF Opts.repo = [url |-> old.repo.url, branch |-> Unset]
                         THEN old.repo ELSE Opts.repo
    BY <1>4 DEF Wanted
  <2>2. Empty["repo"] = NoRepo
    BY DEF Empty
  <2>3. CASE ~RepoGiven
    BY <1>2, <1>4, <2>1, <2>2, <2>3 DEF RepoGiven, ClearRepo
  <2>4. CASE RepoGiven
    <3>1. Opts["repo"] \in [url : Repos, branch : {Unset, "dev"}] /\ "repo" \in DOMAIN Opts
          /\ ~ClearRepo
      BY <2>4, OptsValues DEF RepoGiven, ClearRepo
    <3>2. NewRepo(saved) \in [url : Repos \cup {Unset}, branch : {Unset, "dev"}]
          /\ NewRepo(saved).url = Opts["repo"].url
          /\ NewRepo(saved).branch = IF Opts["repo"].branch = Unset
                                        /\ old.repo.url = Opts["repo"].url
                                     THEN old.repo.branch ELSE Opts["repo"].branch
      BY <1>1, <3>1 DEF NewRepo
    <3>3. Opts["repo"] = [url |-> old.repo.url, branch |-> Unset]
            <=> Opts["repo"].branch = Unset /\ old.repo.url = Opts["repo"].url
      BY <1>1, <3>1
    <3>4. Opts["repo"] \in [url : Repos \cup {Unset}, branch : {Unset, "dev"}]
      BY <3>1
    <3>5. NewRepo(saved) = IF Opts["repo"] = [url |-> old.repo.url, branch |-> Unset]
                           THEN old.repo ELSE Opts["repo"]
      BY <1>1, <3>2, <3>3, <3>4, SameRepo
    <3>6. QED
      BY <1>2, <1>4, <2>1, <2>4, <3>1, <3>5
  <2>5. QED
    BY <2>3, <2>4
<1>5. CASE s = "output"
  <2>1. Empty["output"] = Unset
    BY DEF Empty
  <2>2. Wanted(old)[s] = IF CommitGiven THEN Opts.output
                ELSE IF ClearRepo \/ "output" \in DOMAIN Opts THEN Unset ELSE old.output
    BY <1>5 DEF Wanted
  <2>3. ClearRepo => ~CommitGiven
    BY DEF ClearRepo, CommitGiven, Combined
  <2>4. QED
    BY <1>2, <1>5, <2>1, <2>2, <2>3 DEF CommitGiven
<1>6. CASE s = "inputs"
  <2>1. Wanted(old)[s] = IF "inputs" \in DOMAIN Opts
                THEN {k \in Keys : k \in Opts.inputs.add \/ k \in old.inputs \ Opts.inputs.drop}
                ELSE old.inputs
    BY <1>6 DEF Wanted
  <2>2. CASE "inputs" \notin DOMAIN Opts
    BY <1>2, <1>6, <2>1, <2>2
  <2>3. CASE "inputs" \in DOMAIN Opts
    <3>1. Opts["inputs"] \in {[add |-> {"k1"}, drop |-> {}], [add |-> {}, drop |-> {"k1"}]}
      BY <2>3 DEF OptsForm
    <3>2. MergedInputs(saved) =
            {k \in Keys : k \in Opts["inputs"].add \/ k \in old.inputs \ Opts["inputs"].drop}
      BY <1>1, <3>1 DEF MergedInputs, Keys
    <3>3. QED
      BY <1>2, <1>6, <2>1, <2>3, <3>2
  <2>4. QED
    BY <2>2, <2>3
<1>7. CASE s = "environment"
  BY <1>2, <1>7, OptsValues DEF Wanted
<1>8. CASE s = "files"
  <2>1. Empty["files"] = Unset
    BY DEF Empty
  <2>2. QED
    BY <1>2, <1>8, <2>1 DEF Wanted
<1>9. QED
  BY <1>3, <1>4, <1>5, <1>6, <1>7, <1>8 DEF Settings

\* What a listing shows of a binding.
LEMMA ListedForm ==
  ASSUME NEW b \in Bindings \cup {Unbound}
  PROVE  /\ Listed(b) = Unbound <=> b = Unbound
         /\ b # Unbound =>
              /\ Listed(b) \in Bindings
              /\ Listed(b).inputs = b.inputs /\ Listed(b).repo = b.repo
              /\ Listed(b).output = b.output /\ Listed(b).model = b.model
              /\ merges => Listed(b) = b
              /\ \A s \in Settings \ {"environment", "files"} : Listed(b)[s] = b[s]
BY JobAssumption, ZenonT(90) DEF JobAssumption, Listed, Bindings, Settings

\* A request made of the options alone, on an empty binding.
LEMMA FreshWanted ==
  ASSUME OptsForm, Combined(Opts), NEW s \in Settings
  PROVE  Apply(Empty, Fresh)[s] = Wanted(Empty)[s]
<1>1. Apply(Empty, Fresh)[s] =
           IF s \notin DOMAIN Opts THEN Empty[s]
           ELSE IF s = "inputs" THEN MergedInputs(Empty)
           ELSE IF Opts[s] = Null THEN Empty[s] ELSE Opts[s]
  BY FreshApplied
<1>2. /\ Empty["model"] = Unset /\ Empty["repo"] = NoRepo /\ Empty["output"] = Unset
      /\ Empty["inputs"] = {} /\ Empty["environment"] = Unset /\ Empty["files"] = Unset
      /\ NoRepo.url = Unset /\ NoRepo.branch = Unset
  BY DEF Empty, NoRepo
<1>3. CASE s = "model"
  BY <1>1, <1>2, <1>3, OptsValues DEF Wanted
<1>4. CASE s = "repo"
  <2>1. Wanted(Empty)[s] = IF ClearRepo THEN NoRepo ELSE IF ~RepoGiven THEN NoRepo
                         ELSE IF Opts["repo"] = [url |-> Unset, branch |-> Unset]
                         THEN NoRepo ELSE Opts["repo"]
    BY <1>2, <1>4 DEF Wanted
  <2>2. RepoGiven => Opts["repo"] # [url |-> Unset, branch |-> Unset]
    <3>1. Unset \notin Repos
      BY JobAssumption DEF JobAssumption
    <3>2. QED
      BY <3>1, OptsValues
  <2>3. QED
    BY <1>1, <1>2, <1>4, <2>1, <2>2 DEF RepoGiven, ClearRepo
<1>5. CASE s = "output"
  <2>1. Wanted(Empty)[s] = IF CommitGiven THEN Opts["output"] ELSE Unset
    BY <1>2, <1>5 DEF Wanted
  <2>2. QED
    BY <1>1, <1>2, <1>5, <2>1 DEF CommitGiven
<1>6. CASE s = "inputs"
  <2>1. Wanted(Empty)[s] = IF "inputs" \in DOMAIN Opts
                THEN {k \in Keys : k \in Opts["inputs"].add \/ k \in {} \ Opts["inputs"].drop}
                ELSE {}
    BY <1>2, <1>6 DEF Wanted
  <2>2. CASE "inputs" \notin DOMAIN Opts
    BY <1>1, <1>2, <1>6, <2>1, <2>2
  <2>3. CASE "inputs" \in DOMAIN Opts
    <3>1. Opts["inputs"] \in {[add |-> {"k1"}, drop |-> {}], [add |-> {}, drop |-> {"k1"}]}
      BY <2>3 DEF OptsForm
    <3>2. MergedInputs(Empty) =
            {k \in Keys : k \in Opts["inputs"].add \/ k \in {} \ Opts["inputs"].drop}
      BY <1>2, <3>1 DEF MergedInputs, Keys
    <3>3. QED
      BY <1>1, <1>6, <2>1, <2>3, <3>2
  <2>4. QED
    BY <2>2, <2>3
<1>7. CASE s = "environment"
  BY <1>1, <1>2, <1>7, OptsValues DEF Wanted
<1>8. CASE s = "files"
  BY <1>1, <1>2, <1>8 DEF Wanted
<1>9. QED
  BY <1>3, <1>4, <1>5, <1>6, <1>7, <1>8 DEF Settings

\* A binding has no null.
LEMMA NoNullInBindings ==
  ASSUME NEW b \in Bindings, NEW s \in Settings
  PROVE  b[s] # Null
<1>1. s \in {"model", "repo", "output", "inputs", "environment", "files"}
  BY DEF Settings
<1>2. CASE s = "repo"
  <2>1. b["repo"] \in [url : Repos \cup {Unset}, branch : {Unset, "dev"}]
    BY DEF Bindings
  <2>2. b["repo"] = [url |-> b["repo"].url, branch |-> b["repo"].branch]
    BY <2>1
  <2>3. QED
    BY <1>2, <2>1, <2>2, JobAssumption DEF JobAssumption
<1>3. CASE s = "inputs"
  BY <1>3, JobAssumption DEF JobAssumption, Bindings
<1>4. CASE s \notin {"repo", "inputs"}
  BY <1>1, <1>4, JobAssumption DEF JobAssumption, Bindings
<1>5. QED
  BY <1>2, <1>3, <1>4

-----------------------------------------------------------------------------
\* What others change a binding to is a binding.
LEMMA SamplesAreBindings == Samples \subseteq Bindings
<1> DEFINE whole == [Empty EXCEPT !.model = "m1", !.repo = [url |-> "r1", branch |-> "dev"],
                      !.output = "r1", !.inputs = Keys, !.environment = "e1", !.files = "f1"]
           spare == [Empty EXCEPT !.repo = [url |-> "r2", branch |-> Unset], !.inputs = {"k2"}]
           Places == [url : Repos \cup {Unset}, branch : {Unset, "dev"}]
<1>1. /\ [url |-> "r1", branch |-> "dev"] \in Places /\ [url |-> "r2", branch |-> Unset] \in Places
      /\ Keys \in SUBSET Keys /\ {"k2"} \in SUBSET Keys /\ "r1" \in Repos
  BY DEF Keys, Repos
<1>2. /\ DOMAIN Empty = {"model", "repo", "output", "inputs", "environment", "files"}
      /\ Empty.model = Unset /\ Empty.output = Unset /\ Empty.environment = Unset
      /\ Empty.files = Unset
  BY DEF Empty
<1>3. /\ DOMAIN whole = DOMAIN Empty /\ whole.model = "m1" /\ whole.output = "r1"
      /\ whole.repo = [url |-> "r1", branch |-> "dev"] /\ whole.inputs = Keys
      /\ whole.environment = "e1" /\ whole.files = "f1"
      /\ whole = [t \in DOMAIN Empty |-> whole[t]]
  BY <1>2
<1>4. /\ DOMAIN spare = DOMAIN Empty /\ spare.model = Unset /\ spare.output = Unset
      /\ spare.repo = [url |-> "r2", branch |-> Unset] /\ spare.inputs = {"k2"}
      /\ spare.environment = Unset /\ spare.files = Unset
      /\ spare = [t \in DOMAIN Empty |-> spare[t]]
  BY <1>2
<1>5. Samples = {whole, spare}
  BY DEF Samples
<1> HIDE DEF whole, spare
<1>6. whole \in Bindings
  BY <1>1, <1>2, <1>3 DEF Bindings
<1>7. spare \in Bindings
  BY <1>1, <1>2, <1>4 DEF Bindings
<1>8. QED
  BY <1>5, <1>6, <1>7

\* A setting taken from another binding makes a binding.
LEMMA SettingChanged ==
  ASSUME NEW a \in Bindings, NEW b \in Bindings, NEW s \in Settings
  PROVE  [a EXCEPT ![s] = b[s]] \in Bindings
BY DEF Bindings, Settings

\* The invariant holds at the start and is kept.
LEMMA JobStarts == JobInit => JobInv
<1>1. SUFFICES ASSUME JobInit PROVE JobInv
  OBVIOUS
<1>2. Samples \subseteq Bindings
  BY SamplesAreBindings
<1>3. PICK kind \in JobKinds, bound \in SUBSET Refs, b \in Samples :
        stored = [kind |-> kind, bound |-> [r \in Refs |-> IF r \in bound THEN b ELSE Unbound],
                  interval |-> 10, revision |-> 0]
  BY <1>1 DEF JobInit
<1>4. /\ stored.bound \in [Refs -> Bindings \cup {Unbound}] /\ stored.revision = 0
      /\ stored = [kind |-> stored.kind, bound |-> stored.bound, interval |-> stored.interval,
                   revision |-> stored.revision]
  BY <1>2, <1>3
<1>5. command.name \in {"attach", "configure"} /\ (command.name = "attach" => AttachCommand)
  <2>1. command \in {a \in Attach : Combined(a.given)} \cup Configure
    BY <1>1 DEF JobInit
  <2>2. CASE command \in Configure
    BY <2>2 DEF Configure
  <2>3. CASE command \in {a \in Attach : Combined(a.given)}
    <3>1. /\ command.name = "attach" /\ command.replace \in {"no"} \cup Refs
          /\ command.given \in Given
      BY <2>3 DEF Attach
    <3>2. QED
      BY <2>3, <3>1, GivenForm DEF AttachCommand, Opts
  <2>4. QED
    BY <2>1, <2>2, <2>3
<1>6. at = "read" /\ merges \in BOOLEAN
  BY <1>1 DEF JobInit
<1>7. QED
  BY <1>4, <1>5, <1>6 DEF JobInv, JobsTyped, StoredTyped, Attaching, Configuring

\* Nothing changes the command.
LEMMA CommandStays ==
  ASSUME command' = command, command.name = "attach" => AttachCommand
  PROVE  command'.name = "attach" => AttachCommand'
BY DEF AttachCommand, OptsForm, Opts, Combined

\* What is sent depends on the command, the service and the kind of the job.
LEMMA SentStays ==
  ASSUME UNCHANGED <<command, merges>>, stored'.kind = stored.kind
  PROVE  (Sent(seen))' = Sent(seen') /\ (Refused(seen))' = Refused(seen')
BY DEF Sent, Refused, Saved, Moved, Merging, MayReset, Opts, RepoGiven, ClearRepo, CommitGiven,
       OutputAgrees, Fresh, ClientMerge, ServerMerge, NewRepo, MergedInputs

\* A step that leaves the job and the command alone.
LEMMA TypedStays ==
  ASSUME JobsTyped, UNCHANGED <<stored, merges, command>>,
         at \in {"read", "list", "send"} \/ at' \notin {"read", "list", "send"}
  PROVE  JobsTyped'
BY CommandStays DEF JobsTyped, StoredTyped

LEMMA ReadJobStep == JobInv /\ ReadJob => JobInv'
<1>1. SUFFICES ASSUME JobInv, ReadJob PROVE JobInv'
  OBVIOUS
<1>2. /\ UNCHANGED <<stored, merges, command>> /\ at' # "send" /\ at = "read"
      /\ command.name = "attach"
  BY <1>1 DEF ReadJob
<1>3. QED
  BY <1>1, <1>2, TypedStays DEF JobInv, Attaching, Configuring

LEMMA ListContractsStep == JobInv /\ ListContracts => JobInv'
<1>1. SUFFICES ASSUME JobInv, ListContracts PROVE JobInv'
  OBVIOUS
<1>2. UNCHANGED <<stored, merges, command, changes>> /\ seen' = Listing /\ at = "list"
      /\ at' # "list" /\ command.name = "attach"
  BY <1>1 DEF ListContracts, JobInv, Attaching
<1>3. at' = "send" => body' = Sent(seen') /\ (stored.kind = "webhook" => ~Refused(seen'))
  BY <1>1, <1>2 DEF ListContracts
<1>4. (Sent(seen))' = Sent(seen') /\ (Refused(seen))' = Refused(seen')
  BY <1>2, SentStays
<1>5. JobsTyped'
  BY <1>1, <1>2, TypedStays DEF JobInv
<1>6. Attaching'
  BY <1>2, <1>3, <1>4 DEF Attaching
<1>7. QED
  BY <1>2, <1>5, <1>6 DEF JobInv, Configuring

LEMMA ReadConfigurationStep == JobInv /\ ReadConfiguration => JobInv'
<1>1. SUFFICES ASSUME JobInv, ReadConfiguration PROVE JobInv'
  OBVIOUS
<1>2. /\ UNCHANGED <<stored, merges, command>> /\ at = "read" /\ at' \in {"send", "refused"}
      /\ command.name = "configure"
      /\ at' = "send" => body' = [interval |-> command.interval, revision |-> stored.revision,
                                  bound |-> stored.bound]
  BY <1>1 DEF ReadConfiguration
<1>3. JobsTyped'
  BY <1>1, <1>2, TypedStays DEF JobInv
<1>4. stored.revision \in Nat
  BY <1>1, <1>2 DEF JobInv, JobsTyped, StoredTyped
<1>5. Configuring'
  BY <1>2, <1>4 DEF Configuring
<1>6. QED
  BY <1>2, <1>3, <1>5 DEF JobInv, Attaching

LEMMA AtItsEnd ==
  ASSUME JobInv, at' \in {"planned", "answered", "refused"}, UNCHANGED command
  PROVE  JobInv'
BY CommandStays DEF JobInv, JobsTyped, Attaching, Configuring

LEMMA OthersChangeStep == JobInv /\ OthersChange => JobInv'
<1>1. SUFFICES ASSUME JobInv, OthersChange PROVE JobInv'
  OBVIOUS
<1>2. UNCHANGED <<merges, command, at, seen, body>> /\ at \in {"read", "list", "send"}
  BY <1>1 DEF OthersChange
<1>3. StoredTyped
  BY <1>1, <1>2 DEF JobInv, JobsTyped
<1>4. PICK r \in Refs, b \in Samples :
          \/ stored' = [stored EXCEPT !.bound[r] = IF @ = Unbound THEN b ELSE Unbound,
                                      !.revision = @ + 1]
          \/ /\ stored.bound[r] # Unbound
             /\ \E s \in Settings :
                   stored' = [stored EXCEPT !.bound[r] = [@ EXCEPT ![s] = b[s]],
                                            !.revision = @ + 1]
  BY <1>1 DEF OthersChange
<1>5. b \in Bindings
  BY <1>4, SamplesAreBindings
<1>6. \E new \in Bindings \cup {Unbound} :
        stored' = [stored EXCEPT !.bound = [stored.bound EXCEPT ![r] = new],
                                 !.revision = stored.revision + 1]
  <2>1. CASE stored' = [stored EXCEPT !.bound[r] = IF @ = Unbound THEN b ELSE Unbound,
                                      !.revision = @ + 1]
    BY <1>3, <1>5, <2>1 DEF StoredTyped
  <2>2. CASE /\ stored.bound[r] # Unbound
             /\ \E s \in Settings :
                   stored' = [stored EXCEPT !.bound[r] = [@ EXCEPT ![s] = b[s]],
                                            !.revision = @ + 1]
    <3>1. PICK s \in Settings : stored' = [stored EXCEPT !.bound[r] = [@ EXCEPT ![s] = b[s]],
                                                         !.revision = @ + 1]
      BY <2>2
    <3>2. stored.bound[r] \in Bindings
      BY <1>3, <2>2 DEF StoredTyped
    <3>3. [stored.bound[r] EXCEPT ![s] = b[s]] \in Bindings
      BY <1>5, <3>2, SettingChanged
    <3>4. QED
      BY <1>3, <3>1, <3>3 DEF StoredTyped
  <2>3. QED
    BY <1>4, <2>1, <2>2
<1>7. PICK new \in Bindings \cup {Unbound} :
        stored' = [stored EXCEPT !.bound = [stored.bound EXCEPT ![r] = new],
                                 !.revision = stored.revision + 1]
  BY <1>6
<1>8. /\ stored'.kind = stored.kind /\ stored'.revision = stored.revision + 1
      /\ stored'.bound = [stored.bound EXCEPT ![r] = new]
      /\ stored'.interval = stored.interval
      /\ stored' = [kind |-> stored'.kind, bound |-> stored'.bound, interval |-> stored'.interval,
                    revision |-> stored'.revision]
  BY <1>3, <1>7 DEF StoredTyped
<1>9. JobsTyped'
  <2>1. StoredTyped'
    BY <1>3, <1>8 DEF StoredTyped
  <2>2. QED
    BY <1>1, <1>2, <2>1, CommandStays DEF JobInv, JobsTyped
<1>10. Attaching'
  <2>1. (Sent(seen))' = Sent(seen') /\ (Refused(seen))' = Refused(seen')
    BY <1>2, <1>8, SentStays
  <2>2. QED
    BY <1>1, <1>2, <1>8, <2>1 DEF JobInv, Attaching
<1>11. Configuring'
  BY <1>1, <1>2, <1>3, <1>8 DEF JobInv, Configuring, StoredTyped
<1>12. QED
  BY <1>9, <1>10, <1>11 DEF JobInv

LEMMA JobStays == JobInv /\ [JobNext]_jobVars => JobInv'
<1>1. SUFFICES ASSUME JobInv, [JobNext]_jobVars PROVE JobInv'
  OBVIOUS
<1>2. CASE Gate
  BY <1>1, <1>2, AtItsEnd DEF Gate
<1>3. CASE SendAttach
  BY <1>1, <1>3, AtItsEnd DEF SendAttach
<1>4. CASE SendConfiguration
  BY <1>1, <1>4, AtItsEnd DEF SendConfiguration
<1>5. CASE UNCHANGED jobVars
  <2>1. JobsTyped' /\ Configuring'
    BY <1>1, <1>5, TypedStays DEF JobInv, jobVars, JobsTyped, StoredTyped, Configuring
  <2>2. (Sent(seen))' = Sent(seen') /\ (Refused(seen))' = Refused(seen')
    BY <1>5, SentStays DEF jobVars
  <2>3. QED
    BY <1>1, <1>5, <2>1, <2>2 DEF JobInv, Attaching, jobVars
<1>6. QED
  BY <1>1, <1>2, <1>3, <1>4, <1>5, ReadJobStep, ListContractsStep, ReadConfigurationStep,
     OthersChangeStep DEF JobNext

LEMMA JobInvariance == JobSpec => []JobInv
<1>1. JobInit => JobInv
  BY JobStarts
<1>2. JobInv /\ [JobNext]_jobVars => JobInv'
  BY JobStays
<1>3. QED
  BY <1>1, <1>2, PTL DEF JobSpec

-----------------------------------------------------------------------------
\* The service has made the change of an attach.
LEMMA AttachMade ==
  ASSUME JobInv, SendAttach, at' = "answered"
  PROVE  /\ StoredTyped /\ AttachCommand
         /\ body = Sent(seen) /\ (stored.kind = "webhook" => ~Refused(seen))
         /\ Bind(body)
BY DEF JobInv, JobsTyped, Attaching, SendAttach

\* What Bind makes of a request.
LEMMA BindMade ==
  ASSUME StoredTyped, NEW request, Bind(request)
  PROVE  LET old == stored.bound["p"]
             base == IF old # Unbound /\ merges /\ request.replace # "q" THEN old ELSE Empty
         IN  /\ request.replace = "q" => stored.bound["q"] # Unbound /\ old = Unbound
             /\ stored'.bound["p"] = Apply(base, request.set)
             /\ stored'.bound["q"] = IF request.replace = "q" THEN Unbound
                                     ELSE stored.bound["q"]
<1> DEFINE old == stored.bound["p"]
           base == IF old # Unbound /\ merges /\ request.replace # "q" THEN old ELSE Empty
           new == Apply(base, request.set)
<1>1. /\ request.replace = "q" => stored.bound["q"] # Unbound /\ old = Unbound
      /\ stored' = [stored EXCEPT !.bound["p"] = new,
                             !.bound["q"] = IF request.replace = "q" THEN Unbound ELSE @,
                             !.revision = @ + 1]
  BY DEF Bind
<1> HIDE DEF new
<1>2. stored'.bound["p"] = new
      /\ stored'.bound["q"] = IF request.replace = "q" THEN Unbound ELSE stored.bound["q"]
  BY <1>1 DEF StoredTyped, Refs
<1>3. QED
  BY <1>1, <1>2 DEF new

\* A setting nobody asked about keeps what others made of it.
LEMMA OthersSettingsKept ==
  ASSUME JobInv, SendAttach
  PROVE  KeepsOthersSettings
<1> DEFINE old == stored.bound["p"]
           given == DOMAIN Opts \cup (IF ClearRepo THEN {"output"} ELSE {})
<1>1. SUFFICES ASSUME at' = "answered", merges, ~Moved, old # Unbound,
                      NEW s \in Settings \ given
               PROVE  stored'.bound["p"][s] = old[s]
  BY DEF KeepsOthersSettings, Attached
<1>2. /\ StoredTyped /\ AttachCommand
      /\ body = Sent(seen) /\ Bind(body)
  BY <1>1, AttachMade
<1>3. command.replace # "q"
  BY <1>1 DEF Moved, Refs
<1>4. body.replace # "q" /\ s \notin DOMAIN body.set
  <2>1. Saved(seen) # Unbound => Merging(seen)
    BY <1>1 DEF Saved, Merging, Refs
  <2>2. s \notin DOMAIN Plain.set /\ Plain.replace = "no"
    BY DEF Plain
  <2>3. s \notin DOMAIN Fresh
    BY <1>1 DEF Fresh
  <2>4. s \notin DOMAIN ServerMerge(Saved(seen))
    BY <1>1, <1>2, ServerForm DEF AttachCommand
  <2>5. \/ body = Plain \/ body = [set |-> Fresh, replace |-> command.replace]
        \/ body = [set |-> ServerMerge(Saved(seen)), replace |-> "p"]
    BY <1>1, <1>2, <2>1 DEF Sent
  <2>6. QED
    BY <1>3, <2>2, <2>3, <2>4, <2>5
<1>5. stored'.bound["p"] = Apply(old, body.set)
  BY <1>1, <1>2, <1>4, BindMade
<1>6. QED
  BY <1>4, <1>5, Applied

\* What the options do not ask about stays.
LEMMA WantedKept ==
  ASSUME OptsForm, NEW b, NEW s \in Settings, s \notin DOMAIN Opts, ~(ClearRepo /\ s = "output")
  PROVE  Wanted(b)[s] = b[s]
BY DEF Wanted, Settings, ClearRepo, RepoGiven, CommitGiven

\* A commit goes to the repository that is read, if it did before.
LEMMA OutputStays ==
  ASSUME OptsForm, Combined(Opts), NEW b, NEW saved, NEW new,
         saved.repo = b.repo, saved.output = b.output, OutputAgrees(saved), OutputInRepo(b),
         new["repo"] = Wanted(b)["repo"], new["output"] = Wanted(b)["output"]
  PROVE  OutputInRepo(new)
<1>1. Wanted(b)["repo"] = IF ClearRepo THEN NoRepo ELSE IF ~RepoGiven THEN b.repo
                          ELSE IF Opts["repo"] = [url |-> b.repo.url, branch |-> Unset] THEN b.repo
                          ELSE Opts["repo"]
  BY DEF Wanted
<1>2. Wanted(b)["output"] = IF CommitGiven THEN Opts["output"]
                            ELSE IF ClearRepo \/ "output" \in DOMAIN Opts THEN Unset ELSE b.output
  BY DEF Wanted
<1>3. RepoGiven => new["repo"].url = Opts["repo"].url /\ ~ClearRepo
  BY <1>1 DEF RepoGiven, ClearRepo
<1>4. CommitGiven => ~ClearRepo
  BY DEF ClearRepo, CommitGiven, Combined
<1>5. CASE CommitGiven
  <2>1. new["output"] = IF RepoGiven THEN Opts["repo"].url ELSE b.repo.url
    BY <1>2, <1>5 DEF OutputAgrees
  <2>2. new["output"] = new["repo"].url
    BY <1>1, <1>3, <1>4, <1>5, <2>1
  <2>3. QED
    BY <2>2 DEF OutputInRepo
<1>6. CASE ~CommitGiven /\ (ClearRepo \/ "output" \in DOMAIN Opts)
  BY <1>2, <1>6 DEF OutputInRepo
<1>7. CASE ~CommitGiven /\ ~ClearRepo /\ "output" \notin DOMAIN Opts
  <2>1. new["output"] = b.output
    BY <1>2, <1>7
  <2>2. CASE RepoGiven
    <3>1. b.output \in {Unset, Opts["repo"].url}
      BY <1>7, <2>2 DEF OutputAgrees
    <3>2. QED
      BY <1>3, <2>1, <2>2, <3>1 DEF OutputInRepo
  <2>3. CASE ~RepoGiven
    <3>1. new["repo"] = b.repo
      BY <1>1, <1>7, <2>3
    <3>2. QED
      BY <2>1, <3>1 DEF OutputInRepo
  <2>4. QED
    BY <2>2, <2>3
<1>8. QED
  BY <1>5, <1>6, <1>7

\* Re-attaching a program does what its options ask for, and nothing else.
LEMMA Exactly ==
  ASSUME JobInv, SendAttach
  PROVE  AttachIsExact
<1> DEFINE old == Saved(stored.bound)
           saved == Saved(seen)
           new == stored'.bound["p"]
           lost == IF command.allow /\ (Moved \/ ~merges)
                   THEN {"environment", "files"} \ DOMAIN Opts ELSE {}
           basis == IF old = Unbound THEN Empty ELSE old
<1>1. SUFFICES ASSUME at' = "answered", stored.kind = "webhook", seen = Listing
               PROVE  /\ \A s \in Settings \ lost : new[s] = Wanted(basis)[s]
                      /\ stored'.bound["q"] = IF Moved /\ old # Unbound THEN Unbound
                                              ELSE stored.bound["q"]
                      /\ (old # Unbound => OutputInRepo(old)) => OutputInRepo(new)
  BY DEF AttachIsExact, Attached
<1>2. /\ StoredTyped /\ AttachCommand
      /\ body = Sent(seen) /\ ~Refused(seen) /\ Bind(body)
  BY <1>1, AttachMade
<1>3. OptsForm /\ Combined(Opts)
  BY <1>2 DEF AttachCommand
<1>4. /\ stored.bound["p"] \in Bindings \cup {Unbound}
      /\ stored.bound["q"] \in Bindings \cup {Unbound}
      /\ old \in Bindings \cup {Unbound}
      /\ command.replace \in {"no", "p", "q"} /\ (Moved <=> command.replace = "q")
  BY <1>2 DEF StoredTyped, Refs, Saved, Moved, AttachCommand
<1>5. saved = Listed(old) /\ seen["p"] = Listed(stored.bound["p"])
  BY <1>1 DEF Listing, Saved, Moved, Refs
<1>6. /\ saved = Unbound <=> old = Unbound
      /\ seen["p"] = Unbound <=> stored.bound["p"] = Unbound
  BY <1>4, <1>5, ListedForm
<1>7. Moved => stored.bound["p"] = Unbound
  BY <1>2, <1>6 DEF Refused
<1>8. ~Moved => old = stored.bound["p"]
  BY <1>4 DEF Saved
<1>9. Moved => old = stored.bound["q"]
  BY <1>4 DEF Saved
<1> HIDE DEF old, saved, new, lost
<1>10. CASE old = Unbound
  <2>1. body = [set |-> Fresh, replace |-> command.replace]
    BY <1>1, <1>2, <1>6, <1>10 DEF Sent, saved
  <2>2. body.set = Fresh /\ body.replace = command.replace
    BY <2>1
  <2>3. ~Moved
    BY <1>2, <1>4, <1>9, <1>10, <2>2, BindMade
  <2>4. new = Apply(Empty, Fresh) /\ stored'.bound["q"] = stored.bound["q"]
    BY <1>2, <1>4, <1>8, <1>10, <2>2, <2>3, BindMade DEF new
  <2>5. \A s \in Settings : new[s] = Wanted(Empty)[s]
    BY <1>3, <2>4, FreshWanted
  <2>6. OutputInRepo(new)
    <3>1. Empty.output = Unset /\ OutputInRepo(Empty)
      BY DEF OutputInRepo, Empty
    <3>2. CommitGiven => RepoGiven
      BY <1>2, <1>6, <1>10 DEF Refused, saved
    <3>3. OutputAgrees(Empty)
      BY <1>3, <3>1, <3>2 DEF OutputAgrees, Combined, RepoGiven, CommitGiven
    <3>4. new["repo"] = Wanted(Empty)["repo"] /\ new["output"] = Wanted(Empty)["output"]
      BY <2>5 DEF Settings
    <3>5. QED
      BY <1>3, <3>1, <3>3, <3>4, OutputStays
  <2>7. QED
    BY <1>10, <2>3, <2>4, <2>5, <2>6
<1>11. ASSUME old # Unbound
       PROVE  /\ old \in Bindings /\ saved \in Bindings /\ saved # Unbound
              /\ saved.inputs = old.inputs /\ saved.repo = old.repo /\ saved.output = old.output
              /\ merges => saved = old
              /\ \A s \in Settings \ {"environment", "files"} : saved[s] = old[s]
              /\ saved.inputs \subseteq Keys /\ saved.repo.branch \in {Unset, "dev"}
  <2>1. /\ old \in Bindings /\ saved \in Bindings /\ saved # Unbound
        /\ saved.inputs = old.inputs /\ saved.repo = old.repo /\ saved.output = old.output
        /\ merges => saved = old
        /\ \A s \in Settings \ {"environment", "files"} : saved[s] = old[s]
    BY <1>4, <1>5, <1>6, <1>11, ListedForm
  <2>2. saved.inputs \subseteq Keys /\ saved.repo.branch \in {Unset, "dev"}
    BY <2>1 DEF Bindings
  <2>3. QED
    BY <2>1, <2>2
<1>12. ASSUME old # Unbound, \A s \in Settings \ lost : new[s] = Wanted(old)[s]
       PROVE  OutputInRepo(old) => OutputInRepo(new)
  <2>1. OutputAgrees(saved)
    BY <1>2, <1>11, <1>12 DEF Refused, saved
  <2>2. new["repo"] = Wanted(old)["repo"] /\ new["output"] = Wanted(old)["output"]
    BY <1>12 DEF Settings, lost
  <2>3. QED
    BY <1>3, <1>11, <1>12, <2>1, <2>2, OutputStays
<1>13. CASE old # Unbound /\ (Moved \/ ~Merging(seen))
  <2>1. body = [set |-> ClientMerge(saved), replace |-> command.replace]
    BY <1>1, <1>2, <1>11, <1>13 DEF Sent, saved
  <2>2. body.set = ClientMerge(saved) /\ body.replace = command.replace
    BY <2>1
  <2>3. ~Moved => ~merges
    <3>1. ~Moved => seen["p"] # Unbound
      BY <1>4, <1>6, <1>8, <1>13
    <3>2. QED
      BY <1>13, <3>1 DEF Merging, Refs
  <2>4. new = Apply(Empty, ClientMerge(saved))
        /\ stored'.bound["q"] = IF Moved THEN Unbound ELSE stored.bound["q"]
    BY <1>2, <1>4, <1>7, <2>2, <2>3, BindMade DEF new
  <2>5. ASSUME NEW s \in Settings \ lost PROVE new[s] = Wanted(old)[s]
    <3>1. new[s] =
           IF s \notin DOMAIN Opts /\ ~(ClearRepo /\ s = "output")
           THEN IF s = "files" \/ (s = "environment" /\ ~Moved) \/ saved[s] = Null
                THEN Empty[s] ELSE saved[s]
           ELSE Apply(Empty, ServerMerge(saved))[s]
      BY <1>3, <1>11, <1>13, <2>4, ClientApplied
    <3>2. CASE ~(s \notin DOMAIN Opts /\ ~(ClearRepo /\ s = "output"))
      BY <1>3, <1>11, <1>13, <3>1, <3>2, ServerWanted
    <3>3. CASE s \notin DOMAIN Opts /\ ~(ClearRepo /\ s = "output")
      <4>1. Wanted(old)[s] = old[s]
        BY <1>3, <3>3, WantedKept
      <4>2. saved[s] # Null
        BY <1>11, <1>13, NoNullInBindings
      <4>3. CASE s \notin {"environment", "files"}
        BY <1>11, <1>13, <3>1, <3>3, <4>1, <4>2, <4>3
      <4>4. CASE s \in {"environment", "files"}
        <5>1. ~(command.allow /\ (Moved \/ ~merges))
          BY <2>5, <3>3, <4>4 DEF lost
        <5>2. ~MayReset \/ command.allow
          BY <3>3, <4>4 DEF MayReset
        <5>3. Merging(seen) \/ MayReset
          BY <1>2, <1>11, <1>13 DEF Refused, saved
        <5>4. Moved /\ ~command.allow /\ merges
          BY <2>3, <5>1, <5>2, <5>3 DEF Merging
        <5>5. saved = old
          BY <1>11, <1>13, <5>4
        <5>6. s = "files" => saved.files = Unset
          BY <1>2, <1>11, <1>13, <3>3, <5>4 DEF Refused, saved
        <5>7. Empty["files"] = Unset
          BY DEF Empty
        <5>8. QED
          BY <3>1, <3>3, <4>1, <4>2, <4>4, <5>4, <5>5, <5>6, <5>7
      <4>5. QED
        BY <4>3, <4>4
    <3>4. QED
      BY <3>2, <3>3
  <2>6. QED
    BY <1>12, <1>13, <2>4, <2>5
<1>14. CASE old # Unbound /\ ~Moved /\ Merging(seen)
  <2>1. merges /\ saved = old
    BY <1>11, <1>14 DEF Merging
  <2>2. \/ DOMAIN Opts = {} /\ body = Plain
        \/ body = [set |-> ServerMerge(saved), replace |-> "p"]
    BY <1>1, <1>2, <1>11, <1>14 DEF Sent, saved
  <2>3. body.replace # "q"
    BY <2>2 DEF Plain
  <2>4. new = Apply(old, body.set) /\ stored'.bound["q"] = stored.bound["q"]
    BY <1>2, <1>8, <1>14, <2>1, <2>3, BindMade DEF new
  <2>5. ASSUME NEW s \in Settings PROVE new[s] = Wanted(old)[s]
    <3>1. CASE DOMAIN Opts = {} /\ body = Plain
      <4>1. s \notin DOMAIN body.set
        BY <3>1 DEF Plain
      <4>2. new[s] = old[s]
        BY <2>4, <4>1, Applied
      <4>3. Wanted(old)[s] = old[s]
        BY <1>3, <3>1, WantedKept DEF ClearRepo
      <4>4. QED
        BY <4>2, <4>3
    <3>2. CASE body = [set |-> ServerMerge(saved), replace |-> "p"]
      BY <1>3, <1>11, <1>14, <2>4, <3>2, ServerWanted
    <3>3. QED
      BY <2>2, <3>1, <3>2
  <2>6. QED
    BY <1>12, <1>14, <2>4, <2>5
<1>15. QED
  BY <1>10, <1>13, <1>14

\* A configuration is accepted for the revision it was made from.
LEMMA BindingsKept ==
  ASSUME JobInv, SendConfiguration, at' = "answered"
  PROVE  stored'.bound = stored.bound
<1>1. /\ StoredTyped /\ Configured(body)
      /\ body.revision = stored.revision => body.bound = stored.bound
  BY DEF JobInv, JobsTyped, Configuring, SendConfiguration
<1>2. body.bound = stored.bound
  BY <1>1 DEF Configured
<1>3. stored' = [stored EXCEPT !.interval = body.interval, !.bound = body.bound,
                               !.revision = @ + 1]
  BY <1>1 DEF Configured
<1>4. stored'.bound = body.bound
  BY <1>1, <1>3 DEF StoredTyped
<1>5. QED
  BY <1>2, <1>4

\* A change of a job changes what it was asked to change and nothing else, on
\* services that merge and on those that replace, whatever others change between
\* any two requests (jobs.rs contract_attach, configure).
THEOREM JobChangesAreExact == JobSpec => ChangesOnlyWhatIsAsked
<1> DEFINE Kept == at = "send" /\ at' = "answered" /\ command.name = "configure"
                     => stored'.bound = stored.bound
<1>1. JobInv /\ [JobNext]_jobVars =>
        [AttachIsExact]_jobVars /\ [KeepsOthersSettings]_jobVars /\ [Kept]_jobVars
  <2>1. SUFFICES ASSUME JobInv, JobNext
                 PROVE  AttachIsExact /\ KeepsOthersSettings /\ Kept
    OBVIOUS
  <2>2. CASE SendAttach
    <3>1. command.name # "configure"
      BY <2>2 DEF SendAttach
    <3>2. QED
      BY <2>1, <2>2, <3>1, Exactly, OthersSettingsKept
  <2>3. CASE SendConfiguration
    <3>1. command.name # "attach"
      BY <2>3 DEF SendConfiguration
    <3>2. QED
      BY <2>1, <2>3, <3>1, BindingsKept DEF AttachIsExact, KeepsOthersSettings, Attached
  <2>4. CASE ReadJob \/ ListContracts \/ ReadConfiguration \/ Gate \/ OthersChange
    <3>1. ~(at = "send" /\ at' = "answered")
      BY <2>4 DEF ReadJob, ListContracts, ReadConfiguration, Gate, OthersChange
    <3>2. QED
      BY <3>1 DEF AttachIsExact, KeepsOthersSettings, Attached
  <2>5. QED
    BY <2>1, <2>2, <2>3, <2>4 DEF JobNext
<1> HIDE DEF Kept
<1>2. JobSpec => /\ [][AttachIsExact]_jobVars /\ [][KeepsOthersSettings]_jobVars
                 /\ [][Kept]_jobVars
  BY <1>1, JobInvariance, PTL DEF JobSpec
<1>3. QED
  BY <1>2 DEF ChangesOnlyWhatIsAsked, AttachesExactly, NoSettingUndone, ConfigureKeepsBindings,
              Kept

-----------------------------------------------------------------------------
(* The device login                                                         *)

\* The granted key is in the store only by the one write, and until the store
\* has confirmed that, a write that is not taken back is being waited for, or its
\* fate was reported as unknown or as a failure of the store.
WriteIsWatched ==
    /\ key = "granted" => write = "done"
    /\ write # "no" /\ ~confirmed =>
          \/ step = "wait"
          \/ step = "done" /\ said \in {"unknown", "store"}
    /\ step \in {"look", "device", "round", "pause", "poll", "receive", "set", "remove", "add"} =>
          write = "no" /\ ~confirmed
    /\ step = "wait" => ~confirmed /\ write # "no"
    /\ step = "verify" => confirmed
    /\ step # "done" => said = "running"

LEMMA WatchedAtFirst == LoginInit => WriteIsWatched
BY DEF LoginInit, WriteIsWatched

LEMMA WatchedOn == WriteIsWatched /\ [LoginNext]_loginVars => WriteIsWatched'
<1> SUFFICES ASSUME WriteIsWatched, [LoginNext]_loginVars PROVE WriteIsWatched'
  OBVIOUS
<1> USE DEF WriteIsWatched, Clock, Store, World, End, GoOn, CheckError
<1>1. CASE LookInStore \/ AskCode
  BY <1>1 DEF LookInStore, AskCode
<1>2. CASE BeginRound \/ PauseEnds \/ SendPoll
  BY <1>2 DEF BeginRound, PauseEnds, SendPoll
<1>3. CASE ReceiveAnswer
  BY <1>3 DEF ReceiveAnswer, AnswerTaken
<1>4. CASE BeginSet
  BY <1>4 DEF BeginSet
<1>5. CASE RemoveItem \/ RemoveCut
  BY <1>5 DEF RemoveItem, RemoveCut, WriteCancelled, WriteTimedOut
<1>6. CASE BeginWrite
  BY <1>6 DEF BeginWrite
<1>7. CASE WriteLands
  BY <1>7 DEF WriteLands
<1>8. CASE WriteAnswered \/ WriteCut
  BY <1>8 DEF WriteAnswered, WriteCut, WriteCancelled, WriteTimedOut
<1>9. CASE Verify
  BY <1>9 DEF Verify
<1>10. CASE Approve \/ LoginCancel \/ SignOutElsewhere \/ Tick
  BY <1>10 DEF Approve, LoginCancel, SignOutElsewhere, Tick
<1>11. CASE UNCHANGED loginVars
  BY <1>11 DEF loginVars
<1> QED
  BY <1>1, <1>2, <1>3, <1>4, <1>5, <1>6, <1>7, <1>8, <1>9, <1>10, <1>11 DEF LoginNext, Login

\* A login that says "nothing was stored" before the store confirmed anything is
\* right, and stays right: no write of it is under way, whatever expires, is
\* cancelled or is killed when (service_account.rs login_ended).
THEOREM NothingWasStored == LoginSpec => []UnconfirmedClaim
<1>1. WriteIsWatched => UnconfirmedClaim
  BY DEF WriteIsWatched, UnconfirmedClaim, SaysNothingStored
<1> QED
  BY <1>1, WatchedAtFirst, WatchedOn, PTL DEF LoginSpec
=============================================================================
