------------------------------ MODULE FetchProofs -----------------------------
(***************************************************************************)
(* What is fetched is whole.  A package that is published is one artifact,   *)
(* and one fetch wins, for every number of fetches side by side, files,      *)
(* artifacts and faults; the kernel a run is given is one edition of one     *)
(* release, for every number of releases, editions and uploads; what is      *)
(* saved of a hosted run is whole where the command says so, for every       *)
(* manifest, size and number of savers.                                      *)
(***************************************************************************)
EXTENDS PackageFetch, PublishedKernel, Transfer, TLAPS

-----------------------------------------------------------------------------
(* The inductive invariant                                                  *)

\* The steps at which a fetch has its receipt, its bytes, and nothing staged.
WithReceipt == {"artifact", "mkdir", "open", "write", "publish"}
WithPayload == {"mkdir", "open", "write", "publish"}
Unstaged    == {"look", "receipt", "artifact", "mkdir"}

\* Receipt and bytes are those of one artifact, the pinned one.
VerifiedTogether ==
    \A f \in Fetchers :
        /\ fetch[f] \in WithReceipt => receipt[f] \in Artifacts /\ pin[f] \in {receipt[f], "any"}
        /\ fetch[f] \in WithPayload => payload[f] = receipt[f]

\* What is staged grows file by file, each of them recorded.
StagedInOrder ==
    \A f \in Fetchers :
        /\ fetch[f] \in Unstaged => staging[f] = NoStaging
        /\ fetch[f] \in {"open", "write", "publish"} => staging[f].recorded = staging[f].files
        /\ fetch[f] \in {"open", "write"} => staging[f].files < FileCount
        /\ fetch[f] = "publish" => staging[f].files = FileCount

\* Without a fault the cleanup knows every file.
CleanupKnowsAll ==
    fetchFaults = MaxFetchFaults =>
        \A f \in Fetchers :
            /\ fetch[f] = "undo" => staging[f].recorded = staging[f].files
            /\ fetch[f] = "undodir" => staging[f].files = 0

FetchParts ==
    /\ VerifiedTogether /\ StagedInOrder /\ CleanupKnowsAll
    /\ FetchedIsWhole /\ OneFetchWins

IInv == FetchTypeOK /\ FetchParts

-----------------------------------------------------------------------------
(* Every step keeps it                                                      *)

\* The types of a private directory: a step changes that of its fetch.
Stagings == [made : BOOLEAN, files : 0..FileCount, recorded : 0..FileCount]

LEMMA StagingType ==
  ASSUME IInv, NEW f \in Fetchers,
         MakeStaging(f) \/ WriteStaged(f) \/ PublishStaged(f) \/ UndoStaging(f)
  PROVE  staging' \in [Fetchers -> Stagings]
<1> USE FetchAssumption
<1> DEFINE Staged(m, n) == [staging EXCEPT ![f].files = m, ![f].recorded = n]
<1>1. staging \in [Fetchers -> Stagings] /\ NoStaging \in Stagings
  BY DEF IInv, FetchTypeOK, Stagings, NoStaging
<1>2. \A s \in Stagings : [s EXCEPT !.made = TRUE] \in Stagings
  BY DEF Stagings
<1>3. \A s \in Stagings, m \in 0..FileCount :
         [s EXCEPT !.files = m] \in Stagings /\ [s EXCEPT !.recorded = m] \in Stagings
  BY DEF Stagings
<1>4. \A m, n \in 0..FileCount : Staged(m, n) \in [Fetchers -> Stagings]
  <2> TAKE m, n \in 0..FileCount
  <2>1. [staging EXCEPT ![f].files = m] \in [Fetchers -> Stagings]
    BY <1>1, <1>3
  <2> QED
    BY <2>1, <1>3
<1>5. CASE MakeStaging(f)
  <2>1. staging' = staging \/ staging' = [staging EXCEPT ![f] = [staging[f] EXCEPT !.made = TRUE]]
    BY <1>5 DEF MakeStaging
  <2> QED
    BY <1>1, <1>2, <2>1
<1>6. CASE WriteStaged(f)
  <2>1. /\ staging[f].files + 1 \in 0..FileCount
        /\ staging[f].recorded \in 0..FileCount /\ staging[f].recorded + 1 \in 0..FileCount
    BY <1>1, <1>6 DEF WriteStaged, IInv, FetchTypeOK, FetchParts, StagedInOrder, Stagings
  <2>2. \/ staging' = staging
        \/ staging' = Staged(staging[f].files + 1, staging[f].recorded)
        \/ staging' = Staged(staging[f].files + 1, staging[f].recorded + 1)
    BY <1>6 DEF WriteStaged
  <2> HIDE DEF Staged
  <2> QED
    BY <1>1, <1>4, <2>1, <2>2
<1>7. CASE PublishStaged(f) \/ UndoStaging(f)
  <2>1. staging' = staging \/ staging' = [staging EXCEPT ![f] = NoStaging]
    BY <1>7 DEF PublishStaged, UndoStaging
  <2> QED
    BY <1>1, <2>1
<1> QED
  BY <1>5, <1>6, <1>7

\* The steps of one fetch.
LEMMA FetchKeeps ==
  ASSUME IInv, NEW f \in Fetchers, FetchStep(f) \/ KillFetch(f)
  PROVE  IInv'
<1> USE FetchAssumption
    DEF IInv, FetchTypeOK, FetchParts, VerifiedTogether, StagedInOrder, CleanupKnowsAll,
        FetchedIsWhole, OneFetchWins, FetchedIsMine, LostRaceIsClean, WithReceipt, WithPayload,
        Unstaged, NoStaging, Absent, Foreign, FetchEnded, To, Works, Breaks, Request, Local
<1>1. CASE LookForTarget(f)
  <2>1. FetchTypeOK'
    BY <1>1 DEF LookForTarget
  <2>2. FetchParts'
    BY <1>1 DEF LookForTarget
  <2> QED
    BY <2>1, <2>2
<1>2. CASE AskReceipt(f)
  <2>1. FetchTypeOK'
    BY <1>2, SMTT(60) DEF AskReceipt, ReceiptSuits
  <2>2. FetchParts'
    BY <1>2 DEF AskReceipt, ReceiptSuits
  <2> QED
    BY <2>1, <2>2
<1>3. CASE AskArtifact(f)
  <2>1. staging' \in [Fetchers -> [made : BOOLEAN, files : 0..FileCount, recorded : 0..FileCount]]
    BY <1>3 DEF AskArtifact, ArtifactSuits
  <2>2. \A g \in Fetchers : g # f => staging'[g] = staging[g] /\ fetch'[g] = fetch[g]
    BY <1>3 DEF AskArtifact, ArtifactSuits
  <2>3. payload' \in [Fetchers -> Artifacts \cup {"none"}]
    BY <1>3 DEF AskArtifact, ArtifactSuits
  <2>4. FetchTypeOK'
    BY <1>3, <2>1, <2>2, <2>3 DEF AskArtifact, ArtifactSuits
  <2>5. VerifiedTogether'
    BY <1>3, <2>1, <2>2 DEF AskArtifact, ArtifactSuits
  <2>6. StagedInOrder'
    BY <1>3, <2>1, <2>2 DEF AskArtifact, ArtifactSuits
  <2>7. CleanupKnowsAll'
    BY <1>3, <2>1, <2>2 DEF AskArtifact, ArtifactSuits
  <2>8. FetchedIsWhole'
    BY <1>3, <2>1, <2>2 DEF AskArtifact, ArtifactSuits
  <2>9. OneFetchWins'
    BY <1>3, <2>1, <2>2 DEF AskArtifact, ArtifactSuits
  <2> QED
    BY <2>4, <2>5, <2>6, <2>7, <2>8, <2>9
<1>4. CASE MakeStaging(f)
  <2>1. staging' \in [Fetchers -> [made : BOOLEAN, files : 0..FileCount, recorded : 0..FileCount]]
    BY <1>4, StagingType DEF Stagings
  <2>2. \A g \in Fetchers : g # f => staging'[g] = staging[g] /\ fetch'[g] = fetch[g]
    BY <1>4 DEF MakeStaging
  <2>3. payload' \in [Fetchers -> Artifacts \cup {"none"}]
    BY <1>4 DEF MakeStaging
  <2>4. FetchTypeOK'
    <3>1. \A g \in Fetchers : staging'[g].recorded <= staging'[g].files
      BY <1>4, <2>2, SMTT(60) DEF MakeStaging
    <3>2. target' \in {Absent, Foreign} \cup [by : Fetchers, files : 0..FileCount,
                                            receipt : Artifacts, payload : Artifacts]
      BY <1>4 DEF MakeStaging
    <3>3. /\ registry' = registry /\ pin' = pin /\ receipt' = receipt
          /\ fetchFaults' \in 0..MaxFetchFaults
          /\ fetch' \in [Fetchers -> {"look", "receipt", "artifact", "mkdir", "open", "write",
                                      "publish", "undo", "undodir"} \cup FetchEnded]
      BY <1>4 DEF MakeStaging
    <3> HIDE DEF Absent, Foreign, FetchEnded
    <3> QED
      BY <2>1, <2>3, <3>1, <3>2, <3>3
  <2>5. VerifiedTogether'
    BY <1>4, <2>1, <2>2 DEF MakeStaging
  <2>6. StagedInOrder'
    BY <1>4, <2>1, <2>2 DEF MakeStaging
  <2>7. CleanupKnowsAll'
    BY <1>4, <2>1, <2>2 DEF MakeStaging
  <2>8. FetchedIsWhole'
    BY <1>4, <2>1, <2>2 DEF MakeStaging
  <2>9. OneFetchWins'
    BY <1>4, <2>1, <2>2 DEF MakeStaging
  <2> QED
    BY <2>4, <2>5, <2>6, <2>7, <2>8, <2>9
<1>5. CASE OpenStaging(f)
  <2>1. FetchTypeOK'
    BY <1>5, SMTT(60) DEF OpenStaging
  <2>2. FetchParts'
    BY <1>5 DEF OpenStaging
  <2> QED
    BY <2>1, <2>2
<1>6. CASE WriteStaged(f)
  <2>1. staging' \in [Fetchers -> [made : BOOLEAN, files : 0..FileCount, recorded : 0..FileCount]]
    BY <1>6, StagingType DEF Stagings
  <2>2. \A g \in Fetchers : g # f => staging'[g] = staging[g] /\ fetch'[g] = fetch[g]
    BY <1>6 DEF WriteStaged
  <2>3. payload' \in [Fetchers -> Artifacts \cup {"none"}]
    BY <1>6 DEF WriteStaged
  <2>4. FetchTypeOK'
    <3>1. \A g \in Fetchers : staging'[g].recorded <= staging'[g].files
      BY <1>6, <2>2 DEF WriteStaged
    <3>2. target' \in {Absent, Foreign} \cup [by : Fetchers, files : 0..FileCount,
                                            receipt : Artifacts, payload : Artifacts]
      BY <1>6 DEF WriteStaged
    <3>3. /\ registry' = registry /\ pin' = pin /\ receipt' = receipt
          /\ fetchFaults' \in 0..MaxFetchFaults
          /\ fetch' \in [Fetchers -> {"look", "receipt", "artifact", "mkdir", "open", "write",
                                      "publish", "undo", "undodir"} \cup FetchEnded]
      BY <1>6 DEF WriteStaged
    <3> HIDE DEF Absent, Foreign, FetchEnded
    <3> QED
      BY <2>1, <2>3, <3>1, <3>2, <3>3
  <2>5. VerifiedTogether'
    BY <1>6, <2>1, <2>2 DEF WriteStaged
  <2>6. StagedInOrder'
    BY <1>6, <2>1, <2>2 DEF WriteStaged
  <2>7. CleanupKnowsAll'
    BY <1>6, <2>1, <2>2 DEF WriteStaged
  <2>8. FetchedIsWhole'
    BY <1>6, <2>1, <2>2 DEF WriteStaged
  <2>9. OneFetchWins'
    BY <1>6, <2>1, <2>2 DEF WriteStaged
  <2> QED
    BY <2>4, <2>5, <2>6, <2>7, <2>8, <2>9
<1>7. CASE PublishStaged(f)
  <2>1. staging' \in [Fetchers -> [made : BOOLEAN, files : 0..FileCount, recorded : 0..FileCount]]
    BY <1>7, StagingType DEF Stagings
  <2>2. \A g \in Fetchers : g # f => staging'[g] = staging[g] /\ fetch'[g] = fetch[g]
    BY <1>7 DEF PublishStaged
  <2>3. payload' \in [Fetchers -> Artifacts \cup {"none"}]
    BY <1>7 DEF PublishStaged
  <2>4. FetchTypeOK'
    <3>1. \A g \in Fetchers : staging'[g].recorded <= staging'[g].files
      BY <1>7, <2>2 DEF PublishStaged
    <3>2. target' \in {Absent, Foreign} \cup [by : Fetchers, files : 0..FileCount,
                                            receipt : Artifacts, payload : Artifacts]
      BY <1>7 DEF PublishStaged
    <3>3. /\ registry' = registry /\ pin' = pin /\ receipt' = receipt
          /\ fetchFaults' \in 0..MaxFetchFaults
          /\ fetch' \in [Fetchers -> {"look", "receipt", "artifact", "mkdir", "open", "write",
                                      "publish", "undo", "undodir"} \cup FetchEnded]
      BY <1>7, SMTT(60) DEF PublishStaged
    <3> HIDE DEF Absent, Foreign, FetchEnded
    <3> QED
      BY <2>1, <2>3, <3>1, <3>2, <3>3
  <2>5. VerifiedTogether'
    BY <1>7, <2>1, <2>2 DEF PublishStaged
  <2>6. StagedInOrder'
    BY <1>7, <2>1, <2>2 DEF PublishStaged
  <2>7. CleanupKnowsAll'
    BY <1>7, <2>1, <2>2 DEF PublishStaged
  <2>8. FetchedIsWhole'
    BY <1>7, <2>1, <2>2 DEF PublishStaged
  <2>9. OneFetchWins'
    BY <1>7, <2>1, <2>2 DEF PublishStaged
  <2> QED
    BY <2>4, <2>5, <2>6, <2>7, <2>8, <2>9
<1>8. CASE UndoFiles(f)
  <2>1. staging' \in [Fetchers -> [made : BOOLEAN, files : 0..FileCount, recorded : 0..FileCount]]
    BY <1>8, SMTT(60) DEF UndoFiles
  <2>2. \A g \in Fetchers : g # f => staging'[g] = staging[g] /\ fetch'[g] = fetch[g]
    BY <1>8 DEF UndoFiles
  <2>3. payload' \in [Fetchers -> Artifacts \cup {"none"}]
    BY <1>8 DEF UndoFiles
  <2>4. FetchTypeOK'
    BY <1>8, <2>1, <2>2, <2>3 DEF UndoFiles
  <2>5. VerifiedTogether'
    BY <1>8, <2>1, <2>2 DEF UndoFiles
  <2>6. StagedInOrder'
    <3> HIDE DEF NoStaging
    <3>1. fetch'[f] = "undodir"
      BY <1>8 DEF UndoFiles
    <3> QED
      BY <2>2, <3>1
  <2>7. CleanupKnowsAll'
    BY <1>8, <2>1, <2>2 DEF UndoFiles
  <2>8. FetchedIsWhole'
    BY <1>8, <2>1, <2>2 DEF UndoFiles
  <2>9. OneFetchWins'
    <3> HIDE DEF NoStaging
    <3>1. fetch'[f] = "undodir" /\ fetch[f] = "undo" /\ target' = target
      BY <1>8 DEF UndoFiles
    <3> QED
      BY <1>8, <2>2, <3>1 DEF UndoFiles
  <2> QED
    BY <2>4, <2>5, <2>6, <2>7, <2>8, <2>9
<1>9. CASE UndoStaging(f)
  <2>1. staging' \in [Fetchers -> [made : BOOLEAN, files : 0..FileCount, recorded : 0..FileCount]]
    BY <1>9, StagingType DEF Stagings
  <2>2. \A g \in Fetchers : g # f => staging'[g] = staging[g] /\ fetch'[g] = fetch[g]
    BY <1>9 DEF UndoStaging
  <2>3. payload' \in [Fetchers -> Artifacts \cup {"none"}]
    BY <1>9 DEF UndoStaging
  <2>4. FetchTypeOK'
    <3>1. \A g \in Fetchers : staging'[g].recorded <= staging'[g].files
      BY <1>9, <2>2 DEF UndoStaging
    <3>2. target' \in {Absent, Foreign} \cup [by : Fetchers, files : 0..FileCount,
                                            receipt : Artifacts, payload : Artifacts]
      BY <1>9 DEF UndoStaging
    <3>3. /\ registry' = registry /\ pin' = pin /\ receipt' = receipt
          /\ fetchFaults' \in 0..MaxFetchFaults
          /\ fetch' \in [Fetchers -> {"look", "receipt", "artifact", "mkdir", "open", "write",
                                      "publish", "undo", "undodir"} \cup FetchEnded]
      BY <1>9 DEF UndoStaging
    <3> HIDE DEF Absent, Foreign, FetchEnded
    <3> QED
      BY <2>1, <2>3, <3>1, <3>2, <3>3
  <2>5. VerifiedTogether'
    BY <1>9, <2>1, <2>2 DEF UndoStaging
  <2>6. StagedInOrder'
    <3> HIDE DEF NoStaging
    <3>1. fetch'[f] = "failed"
      BY <1>9 DEF UndoStaging
    <3> QED
      BY <2>2, <3>1
  <2>7. CleanupKnowsAll'
    BY <1>9, <2>1, <2>2 DEF UndoStaging
  <2>8. FetchedIsWhole'
    BY <1>9, <2>1, <2>2 DEF UndoStaging
  <2>9. OneFetchWins'
    <3> HIDE DEF NoStaging
    <3>1. fetch'[f] = "failed" /\ fetch[f] = "undodir" /\ target' = target
      BY <1>9 DEF UndoStaging
    <3>2. fetchFaults' = MaxFetchFaults => staging'[f] = NoStaging
      BY <1>9 DEF UndoStaging
    <3> QED
      BY <1>9, <2>2, <3>1, <3>2 DEF UndoStaging
  <2> QED
    BY <2>4, <2>5, <2>6, <2>7, <2>8, <2>9
<1>10. CASE KillFetch(f)
  <2>1. FetchTypeOK'
    BY <1>10 DEF KillFetch
  <2>2. FetchParts'
    BY <1>10 DEF KillFetch
  <2> QED
    BY <2>1, <2>2
<1> QED
  BY <1>1, <1>2, <1>3, <1>4, <1>5, <1>6, <1>7, <1>8, <1>9, <1>10 DEF FetchStep

\* The registry and other programs.
LEMMA WorldKeeps == ASSUME IInv, Withdraw \/ AnswerOther \/ MakeForeign PROVE IInv'
<1> USE FetchAssumption
    DEF IInv, FetchTypeOK, FetchParts, VerifiedTogether, StagedInOrder, CleanupKnowsAll,
        FetchedIsWhole, OneFetchWins, FetchedIsMine, LostRaceIsClean, Absent, Foreign
<1>1. CASE Withdraw
  BY <1>1 DEF Withdraw
<1>2. CASE AnswerOther
  BY <1>2 DEF AnswerOther
<1>3. CASE MakeForeign
  BY <1>3 DEF MakeForeign
<1> QED
  BY <1>1, <1>2, <1>3

\* The invariant is inductive.
LEMMA Inductive == IInv /\ [FetchNext]_fetchVars => IInv'
<1> SUFFICES ASSUME IInv, [FetchNext]_fetchVars PROVE IInv'
  OBVIOUS
<1>1. CASE FetchNext
  BY <1>1, FetchKeeps, WorldKeeps DEF FetchNext
<1>2. CASE UNCHANGED fetchVars
  BY <1>2 DEF fetchVars, IInv, FetchTypeOK, FetchParts, VerifiedTogether, StagedInOrder,
     CleanupKnowsAll, FetchedIsWhole, OneFetchWins, FetchedIsMine, LostRaceIsClean
<1> QED
  BY <1>1, <1>2

\* The invariant holds at the start.
LEMMA Initially == FetchInit => IInv
BY FetchAssumption
   DEF FetchInit, IInv, FetchTypeOK, FetchParts, VerifiedTogether, StagedInOrder,
       CleanupKnowsAll, FetchedIsWhole, OneFetchWins, FetchedIsMine, LostRaceIsClean,
       WithReceipt, WithPayload, Unstaged, NoStaging, Absent, Foreign, FetchEnded

-----------------------------------------------------------------------------
(* The theorems                                                             *)

\* The invariant holds throughout.
LEMMA Invariant == FetchSpec => []IInv
<1> QED
  BY Initially, Inductive, PTL DEF FetchSpec

\* The variables keep their types.
THEOREM FetchTypes == FetchSpec => []FetchTypeOK
<1>1. IInv => FetchTypeOK
  BY DEF IInv
<1> QED
  BY <1>1, Invariant, PTL

\* Every published package is whole and is one artifact, the pinned one, whatever
\* the registry answered between the requests (registry.rs execute, materialize).
THEOREM PublishedWhole == FetchSpec => []FetchedIsWhole
<1>1. IInv => FetchedIsWhole
  BY DEF IInv, FetchParts
<1> QED
  BY <1>1, Invariant, PTL

\* Of any number of fetches side by side exactly the one that has the destination
\* succeeds, and a loser leaves nothing unless a call of its own failed
\* (registry.rs materialize, remove_owned_entry).
THEOREM OneWins == FetchSpec => []OneFetchWins
<1>1. IInv => OneFetchWins
  BY DEF IInv, FetchParts
<1> QED
  BY <1>1, Invariant, PTL
-----------------------------------------------------------------------------
(* The published kernel                                                     *)

\* What has been read so far agrees with what named it.
ReadSoFar ==
    /\ stage \in KernelFiles \cup {"verify"} \/ image = "kernel" => got.release \in Releases
    /\ stage \in {"inventory", "kernel", "verify"} \/ image = "kernel" =>
          got.descriptor \in Content /\ got.descriptor.release = got.release
    /\ stage \in {"kernel", "verify"} \/ image = "kernel" => got.inventory = got.descriptor
    /\ stage = "verify" \/ image = "kernel" => got.kernel = got.inventory

\* The image is decided once, for a reason that still holds.
Decided ==
    /\ stage # "done" => image = "none"
    /\ stage \in {"entry", "verify"} \cup KernelFiles => published
    /\ image = "embedded" => ~published
    /\ image = "CANCELLED" => "cancel" \in alarm
    /\ image = "STARTUP_TIMEOUT" => "deadline" \in alarm /\ "cancel" \notin alarm

KernelInv == KernelTypeOK /\ ReadSoFar /\ Decided

USE DEF KernelFiles, Refusals

LEMMA RefusalKeeps ==
  ASSUME KernelInv, NEW code \in {"KERNEL_RETRIEVAL_FAILED", "IMAGE_INVALID", "IMAGE_TOO_LARGE"},
         stage # "done", Site, RefuseKernel(code)
  PROVE  KernelInv'
<1>1. image' \in Refusals
  BY DEF KernelInv, KernelTypeOK, RefuseKernel, Site
<1>2. /\ image' = "CANCELLED" => "cancel" \in alarm
      /\ image' = "STARTUP_TIMEOUT" => "deadline" \in alarm /\ "cancel" \notin alarm
  BY DEF RefuseKernel
<1> QED
  BY <1>1, <1>2 DEF KernelInv, KernelTypeOK, ReadSoFar, Decided, RefuseKernel, Site

LEMMA FileKeeps ==
  ASSUME KernelInv, NEW file \in KernelFiles, AskKernelFile(file)
  PROVE  KernelInv'
<1>1. CASE \E code \in {"IMAGE_INVALID", "KERNEL_RETRIEVAL_FAILED", "IMAGE_TOO_LARGE"} :
              RefuseKernel(code)
  BY <1>1, RefusalKeeps DEF AskKernelFile
<1>2. CASE /\ Genuine(file, shelf[got.release][file])
           /\ got' = [got EXCEPT ![file] = shelf[got.release][file]]
           /\ stage' = After(file) /\ UNCHANGED image
  <2> DEFINE c == shelf[got.release][file]
  <2>1. c \in Content \cup {NoContent} /\ Site /\ stage = file
    BY DEF AskKernelFile, KernelInv, KernelTypeOK, ReadSoFar
  <2> HIDE DEF c
  <2>2. CASE file = "descriptor"
    BY <1>2, <2>1, <2>2 DEF KernelInv, KernelTypeOK, ReadSoFar, Decided, Site, Genuine, After, c
  <2>3. CASE file = "inventory"
    BY <1>2, <2>1, <2>3 DEF KernelInv, KernelTypeOK, ReadSoFar, Decided, Site, Genuine, After, c
  <2>4. CASE file = "kernel"
    BY <1>2, <2>1, <2>4 DEF KernelInv, KernelTypeOK, ReadSoFar, Decided, Site, Genuine, After, c
  <2> QED
    BY <2>2, <2>3, <2>4
<1> QED
  BY <1>1, <1>2 DEF AskKernelFile

\* The retrieval of a published kernel keeps the inductive invariant: every file
\* it holds is the one its descriptor names, whatever it was answered before.
THEOREM KernelInvariance == KernelSpec => []KernelInv
<1>1. KernelInit => KernelInv
  <2> SUFFICES ASSUME KernelInit PROVE KernelInv
    OBVIOUS
  <2>1. shelf \in [Releases -> [KernelFiles -> Content \cup {NoContent}]]
    BY DEF KernelInit, Content
  <2>2. 0 \in 0..MaxUploads
    BY KernelAssumption
  <2> QED
    BY <2>1, <2>2 DEF KernelInit, KernelInv, KernelTypeOK, ReadSoFar, Decided, NothingRead
<1>2. KernelInv /\ [KernelNext]_kernelVars => KernelInv'
  <2> SUFFICES ASSUME KernelInv, [KernelNext]_kernelVars PROVE KernelInv'
    OBVIOUS
  <2>1. CASE Upload
    <3>1. uploads' \in 0..MaxUploads
      BY <2>1, KernelAssumption DEF Upload, KernelInv, KernelTypeOK
    <3>2. shelf' \in [Releases -> [KernelFiles -> Content \cup {NoContent}]]
      BY <2>1 DEF Upload, KernelInv, KernelTypeOK
    <3> QED
      BY <2>1, <3>1, <3>2 DEF Upload, KernelInv, KernelTypeOK, ReadSoFar, Decided
  <2>2. CASE \E what \in {"cancel", "deadline"} : Alarm(what)
    BY <2>2 DEF Alarm, KernelInv, KernelTypeOK, ReadSoFar, Decided
  <2>3. CASE ChooseImage
    BY <2>3 DEF ChooseImage, Site, KernelInv, KernelTypeOK, ReadSoFar, Decided
  <2>4. CASE Interrupted
    BY <2>4, RefusalKeeps DEF Interrupted
  <2>5. CASE AskEntry
    <3>1. CASE \E code \in {"IMAGE_INVALID", "KERNEL_RETRIEVAL_FAILED"} : RefuseKernel(code)
      BY <2>5, <3>1, RefusalKeeps DEF AskEntry
    <3>2. CASE /\ pointer \in Releases
               /\ got' = [got EXCEPT !.release = pointer]
               /\ stage' = "descriptor" /\ UNCHANGED image
      BY <2>5, <3>2 DEF AskEntry, Site, KernelInv, KernelTypeOK, ReadSoFar, Decided
    <3> QED
      BY <2>5, <3>1, <3>2 DEF AskEntry
  <2>6. CASE \E file \in KernelFiles : AskKernelFile(file)
    BY <2>6, FileKeeps
  <2>7. CASE VerifyImage
    <3>1. CASE \E code \in {"IMAGE_INVALID", "IMAGE_TOO_LARGE"} : RefuseKernel(code)
      BY <2>7, <3>1, RefusalKeeps DEF VerifyImage
    <3>2. CASE stage' = "done" /\ image' = "kernel" /\ UNCHANGED got
      BY <2>7, <3>2 DEF VerifyImage, Site, KernelInv, KernelTypeOK, ReadSoFar, Decided
    <3> QED
      BY <2>7, <3>1, <3>2 DEF VerifyImage
  <2>8. CASE UNCHANGED kernelVars
    BY <2>8 DEF kernelVars, KernelInv, KernelTypeOK, ReadSoFar, Decided
  <2> QED
    BY <2>1, <2>2, <2>3, <2>4, <2>5, <2>6, <2>7, <2>8 DEF KernelNext
<1> QED
  BY <1>1, <1>2, PTL DEF KernelSpec

\* Whatever is uploaded between the requests, a run is given one edition of the
\* release that was chosen, or nothing.
THEOREM KernelWhole == KernelSpec => []KernelIsWhole
<1>1. KernelInv => KernelIsWhole
  BY DEF KernelInv, ReadSoFar, Decided, KernelIsWhole
<1> QED
  BY <1>1, KernelInvariance, PTL
-----------------------------------------------------------------------------
(* Saved files                                                              *)

\* Where a download has no directory yet, where it has it, where it has all
\* its files, and where a command has the one file.
Before  == {"start", "manifest", "mkdir"}
InDir   == {"create", "ask", "read", "marker", "link", "unlink", "ok"}
AllRead == {"marker", "link", "unlink", "ok"}
HasFile == {"ask", "read", "remove", "ok"}
Filling == {"ask", "read"}

Places == Over \cup {"start", "manifest", "mkdir", "create", "ask", "read",
                     "remove", "marker", "link", "unlink"}
Commands == [kind : SaveKinds, at : Places, list : Manifests \cup {<<>>},
             next : Nat \ {0}, got : Nat, total : Nat]
Files == [by : Savers \cup {"nobody"}, size : Nat, synced : BOOLEAN]
Disks == [Paths -> Files]

\* Destination, limit and size of what a command c reads.
Want(c)  == IF c.kind \in OneFile THEN SavedFile ELSE c.list[c.next]
Limit(c) == IF c.kind \in OneFile \/ MaxRun - c.total > MaxFile
            THEN MaxFile ELSE MaxRun - c.total
Body(c)  == SizeOf[IF c.kind = "raw" THEN SavedFile ELSE c.list[c.next]]

\* The owner s of the directory: the files before the next one are whole for
\* good, and the marker comes last.
Owns(s, c, d) ==
    /\ c.kind = "download" /\ c.at \notin {"start", "manifest", "mkdir", "remove"}
    /\ PathsInOrder(c.list) /\ c.total <= MaxRun
    /\ \A i \in DOMAIN c.list : i < c.next => d[c.list[i]] = Written(s, SizeOf[c.list[i]], TRUE)
    /\ c.at \in Filling => c.next <= Len(c.list)
    /\ c.at \in AllRead => c.next > Len(c.list)
    /\ c.at = "link" => d[Partial] = Written(s, 1, TRUE)
    /\ c.at \in {"unlink", "ok"} => d[Marker] # NoFile
    /\ d[Marker] # NoFile =>
          /\ d[Marker] = Written(s, 1, TRUE) /\ c.next > Len(c.list)
          /\ c.at \notin {"create", "ask", "read", "marker", "link"}

\* A command with one file: while it has it, nobody else does.
HasOne(s, c, d) ==
    /\ c.at \notin {"marker", "link", "unlink", "mkdir"} /\ c.next = 1
    /\ c.at \in HasFile => d[SavedFile].by = s
    /\ c.kind = "show" /\ c.at \in {"create", "ask", "read", "ok"} => c.list # <<>>
    /\ c.at = "ok" => d[SavedFile] = Written(s, Body(c), TRUE) /\ Body(c) <= MaxFile

Sound(s, c, owner, d) ==
    /\ c.kind = "download" /\ c.at \in InDir => owner = s
    /\ owner = s => Owns(s, c, d)
    /\ c.kind \in OneFile => HasOne(s, c, d)
    /\ c.kind = "download" /\ c.at \in Before => c.next = 1 /\ c.total = 0
    /\ c.kind = "download" /\ c.at = "mkdir" => PathsInOrder(c.list)
    /\ c.at \in Filling => d[Want(c)] = Written(s, c.got, FALSE) /\ c.got <= Limit(c)

\* What is in the directory is its owner's.
OwnFiles(owner, d) ==
    \A p \in Paths \ {SavedFile} : d[p] # NoFile => owner # "nobody" /\ d[p].by = owner

SavedTypes ==
    /\ saver \in [Savers -> Commands]
    /\ \A s \in Savers : saver[s].next <= Len(saver[s].list) + 1
    /\ dirBy \in Savers \cup {"nobody"} /\ disk \in Disks

TransferInv ==
    /\ SavedTypes /\ OwnFiles(dirBy, disk)
    /\ \A s \in Savers : Sound(s, saver[s], dirBy, disk)

\* Lists are sequences of paths that are not the one file's.
LEMMA Listed ==
  ASSUME NEW c \in Commands
  PROVE  /\ c.list \in Seq(Paths) /\ DOMAIN c.list = 1..Len(c.list) /\ Len(c.list) \in Nat
         /\ \A i \in DOMAIN c.list : c.list[i] \in Paths /\ c.list[i] # SavedFile
<1>1. c.list \in Manifests \/ c.list = <<>>
  BY DEF Commands
<1>2. c.list \in Seq(Paths)
  <2>1. CASE c.list \in Manifests
    BY <2>1, TransferAssumption
  <2>2. CASE c.list = <<>>
    BY <2>2
  <2> QED
    BY <1>1, <2>1, <2>2
<1>3. \A i \in DOMAIN c.list : c.list[i] # SavedFile
  BY <1>1, TransferAssumption
<1> QED
  BY <1>2, <1>3

LEMMA Distinct ==
  /\ Marker # Partial /\ Marker # SavedFile /\ Partial # SavedFile
  /\ {Marker, Partial, SavedFile} \subseteq Paths
<1>1. <<"marker">>[1] # <<"partial">>[1] /\ <<"marker">>[1] # <<"saved">>[1]
      /\ <<"partial">>[1] # <<"saved">>[1]
  OBVIOUS
<1> QED
  BY <1>1 DEF Marker, Partial, SavedFile, Paths

\* What may change beside a command: nothing, the owner of a free directory,
\* files of another one's directory, or a file that is not its own.
Beside(s, owner, owner2, d, e) ==
    \/ owner2 = owner /\ e = d
    \/ owner = "nobody" /\ owner2 = s /\ e = d
    \/ owner = s /\ owner2 = s /\ e[SavedFile] = d[SavedFile]
    \/ /\ owner2 = owner /\ d[SavedFile].by \in {s, "nobody"}
       /\ \A p \in Paths \ {SavedFile} : e[p] = d[p]

LEMMA Undisturbed ==
  ASSUME NEW s \in Savers, NEW t \in Savers \ {s}, NEW c \in Commands,
         NEW d \in Disks, NEW e \in Disks,
         NEW owner \in Savers \cup {"nobody"}, NEW owner2 \in Savers \cup {"nobody"},
         c.next <= Len(c.list) + 1,
         Sound(t, c, owner, d), Beside(s, owner, owner2, d, e)
  PROVE  Sound(t, c, owner2, e)
<1> USE TransferAssumption
<1>k. c.kind \in {"download", "show", "raw"} /\ c.next \in Nat \ {0} /\ t # "nobody" /\ s # t
  BY DEF Commands
<1>1. CASE owner2 = owner /\ e = d
  BY <1>1
<1>2. CASE owner = "nobody" /\ owner2 = s /\ e = d
  BY <1>2, <1>k DEF Sound
<1>3. CASE owner = s /\ owner2 = s /\ e[SavedFile] = d[SavedFile]
  <2>1. c.at \in Filling => c.kind \in OneFile
    BY <1>3, <1>k DEF Sound, Filling, InDir, OneFile
  <2> QED
    BY <1>3, <1>k, <2>1 DEF Sound, HasOne, Want
<1>4. CASE /\ owner2 = owner /\ d[SavedFile].by \in {s, "nobody"}
           /\ \A p \in Paths \ {SavedFile} : e[p] = d[p]
  <2>1. c.kind \in OneFile => c.at \notin HasFile
    BY <1>4, <1>k DEF Sound, HasOne
  <2>2. c.at \in Filling => c.kind = "download" /\ owner = t
    BY <2>1, <1>k DEF Sound, HasFile, Filling, InDir, OneFile
  <2>3. c.at \in Filling => Want(c) \in Paths \ {SavedFile}
    <3>l. DOMAIN c.list = 1..Len(c.list) /\ Len(c.list) \in Nat
      BY Listed
    <3>m. c.at \in Filling => c.next <= Len(c.list)
      BY <2>2 DEF Sound, Owns
    <3>1. c.at \in Filling => c.next \in DOMAIN c.list /\ Want(c) = c.list[c.next]
      BY <2>2, <1>k, <3>l, <3>m DEF Want, OneFile
    <3> QED
      BY <3>1, Listed
  <2>4. owner = t => Owns(t, c, e)
    BY <1>4, Listed, Distinct DEF Sound, Owns
  <2>5. c.kind \in OneFile => HasOne(t, c, e)
    BY <2>1 DEF Sound, HasOne, HasFile
  <2> QED
    BY <1>4, <2>2, <2>3, <2>4, <2>5 DEF Sound
<1> QED
  BY <1>1, <1>2, <1>3, <1>4 DEF Beside

\* A step of s that leaves s sound, beside the others, keeps the invariant.
LEMMA SoundStep ==
  ASSUME TransferInv, NEW s \in Savers, NEW c \in Commands, c.next <= Len(c.list) + 1,
         saver' = [saver EXCEPT ![s] = c], dirBy' \in Savers \cup {"nobody"}, disk' \in Disks,
         Beside(s, dirBy, dirBy', disk, disk'), OwnFiles(dirBy', disk'),
         Sound(s, c, dirBy', disk')
  PROVE  TransferInv'
<1>1. /\ saver \in [Savers -> Commands] /\ disk \in Disks /\ dirBy \in Savers \cup {"nobody"}
      /\ \A t \in Savers : saver[t].next <= Len(saver[t].list) + 1
      /\ \A t \in Savers : Sound(t, saver[t], dirBy, disk)
  BY DEF TransferInv, SavedTypes
<1>2. /\ saver' \in [Savers -> Commands] /\ saver'[s] = c
      /\ \A t \in Savers \ {s} : saver'[t] = saver[t]
  BY <1>1
<1>3. \A t \in Savers \ {s} : Sound(t, saver[t], dirBy', disk')
  BY <1>1, Undisturbed
<1>4. \A t \in Savers : Sound(t, saver'[t], dirBy', disk')
  BY <1>2, <1>3
<1>5. SavedTypes'
  BY <1>1, <1>2 DEF SavedTypes
<1> QED
  BY <1>4, <1>5 DEF TransferInv

\* What a command's record is, and what its next one is.
LEMMA Facts ==
  ASSUME TransferInv, NEW s \in Savers
  PROVE  /\ saver[s] \in Commands /\ saver[s].next <= Len(saver[s].list) + 1
         /\ saver[s].kind \in {"download", "show", "raw"} /\ s # "nobody"
         /\ saver[s].next \in Nat \ {0} /\ saver[s].got \in Nat /\ saver[s].total \in Nat
         /\ DOMAIN saver[s].list = 1..Len(saver[s].list) /\ Len(saver[s].list) \in Nat
         /\ \A i \in DOMAIN saver[s].list :
               saver[s].list[i] \in Paths /\ saver[s].list[i] # SavedFile
         /\ disk \in Disks /\ dirBy \in Savers \cup {"nobody"}
         /\ OwnFiles(dirBy, disk) /\ Sound(s, saver[s], dirBy, disk)
         /\ MaxFile \in Nat /\ MaxRun \in Nat /\ SizeOf \in [Paths -> Nat]
<1>1. saver[s] \in Commands
  BY DEF TransferInv, SavedTypes
<1>2. /\ DOMAIN saver[s].list = 1..Len(saver[s].list) /\ Len(saver[s].list) \in Nat
      /\ \A i \in DOMAIN saver[s].list :
            saver[s].list[i] \in Paths /\ saver[s].list[i] # SavedFile
  BY <1>1, Listed
<1>3. /\ saver[s].kind \in {"download", "show", "raw"}
      /\ saver[s].next \in Nat \ {0} /\ saver[s].got \in Nat /\ saver[s].total \in Nat
  BY <1>1, TransferAssumption DEF Commands
<1> QED
  BY <1>1, <1>2, <1>3, TransferAssumption DEF TransferInv, SavedTypes

\* A step that only moves s on.
LEMMA MovesOn ==
  ASSUME TransferInv, NEW s \in Savers, NEW at \in Places,
         Go(s, at), UNCHANGED <<dirBy, disk>>,
         Sound(s, [saver[s] EXCEPT !.at = at], dirBy, disk)
  PROVE  TransferInv'
<1> DEFINE c == [saver[s] EXCEPT !.at = at]
<1>1. /\ saver[s] \in Commands /\ saver[s].next <= Len(saver[s].list) + 1
      /\ saver \in [Savers -> Commands]
  BY DEF TransferInv, SavedTypes
<1>2. c \in Commands /\ c.next = saver[s].next /\ c.list = saver[s].list
  BY <1>1 DEF Commands
<1>3. saver' = [saver EXCEPT ![s] = c]
  BY <1>1 DEF Go
<1>4. Sound(s, c, dirBy, disk)
  OBVIOUS
<1> HIDE DEF c
<1>5. Beside(s, dirBy, dirBy', disk, disk')
  BY DEF Beside
<1>6. /\ dirBy' \in Savers \cup {"nobody"} /\ disk' \in Disks
      /\ OwnFiles(dirBy', disk') /\ Sound(s, c, dirBy', disk')
  BY <1>4 DEF TransferInv, SavedTypes
<1>7. c.next <= Len(c.list) + 1
  BY <1>1, <1>2
<1> QED
  BY <1>2, <1>3, <1>5, <1>6, <1>7, SoundStep

\* A command may end anywhere.
LEMMA Ends ==
  ASSUME TransferInv, NEW s \in Savers, NEW at \in {"refused", "incomplete", "failed", "killed"},
         Go(s, at), UNCHANGED <<dirBy, disk>>
  PROVE  TransferInv'
<1> DEFINE c == [saver[s] EXCEPT !.at = at]
<1>1. saver[s] \in Commands /\ Sound(s, saver[s], dirBy, disk)
  BY Facts
<1>2. /\ c.at = at /\ c.kind = saver[s].kind /\ c.list = saver[s].list
      /\ c.next = saver[s].next /\ c.total = saver[s].total
  BY <1>1 DEF Commands
<1> HIDE DEF c
<1>3. Sound(s, c, dirBy, disk)
  BY <1>1, <1>2 DEF Sound, Owns, HasOne, Before, InDir, AllRead, HasFile, Filling
<1>4. at \in Places
  BY DEF Places, Over
<1> QED
  BY <1>3, <1>4, MovesOn DEF c

\* After an error the one file is removed; a download keeps what it has.
LEMMA FailsKeeps ==
  ASSUME TransferInv, NEW s \in Savers, saver[s].at \in Filling, Fails(s), UNCHANGED <<dirBy, disk>>
  PROVE  TransferInv'
<1> DEFINE c == [saver[s] EXCEPT !.at = "remove"]
<1>1. CASE saver[s].kind \in OneFile
  <2>1. saver[s] \in Commands /\ Sound(s, saver[s], dirBy, disk)
    BY Facts
  <2>2. /\ c.at = "remove" /\ c.kind = saver[s].kind /\ c.list = saver[s].list
        /\ c.next = saver[s].next /\ c.total = saver[s].total
    BY <2>1 DEF Commands
  <2> HIDE DEF c
  <2>3. Sound(s, c, dirBy, disk)
    BY <1>1, <2>1, <2>2 DEF Sound, Owns, HasOne, Before, InDir, AllRead, HasFile, Filling, OneFile
  <2>4. "remove" \in Places /\ Go(s, "remove")
    BY <1>1 DEF Places, Fails
  <2> QED
    BY <2>3, <2>4, MovesOn DEF c
<1>2. CASE saver[s].kind \notin OneFile
  BY <1>2, Ends DEF Fails
<1> QED
  BY <1>1, <1>2

LEMMA PreflightKeeps ==
  ASSUME TransferInv, NEW s \in Savers, Preflight(s)
  PROVE  TransferInv'
<1> DEFINE c == [saver[s] EXCEPT !.at = "manifest"]
<1>1. saver[s] \in Commands /\ Sound(s, saver[s], dirBy, disk)
  BY Facts
<1>2. /\ c.at = "manifest" /\ c.kind = saver[s].kind /\ c.list = saver[s].list
      /\ c.next = saver[s].next /\ c.total = saver[s].total
  BY <1>1 DEF Commands
<1>3. saver[s].at = "start" /\ UNCHANGED <<dirBy, disk>>
      /\ (Go(s, "manifest") \/ Go(s, "refused"))
  BY DEF Preflight, Here
<1> HIDE DEF c
<1>4. Sound(s, c, dirBy, disk)
  BY <1>1, <1>2, <1>3 DEF Sound, Owns, HasOne, Before, InDir, AllRead, HasFile, Filling
<1>5. CASE Go(s, "manifest")
  <2>1. "manifest" \in Places
    BY DEF Places
  <2> QED
    BY <1>3, <1>4, <1>5, <2>1, MovesOn DEF c
<1>6. CASE Go(s, "refused")
  BY <1>3, <1>6, Ends
<1> QED
  BY <1>3, <1>5, <1>6

LEMMA ReadManifestKeeps ==
  ASSUME TransferInv, NEW s \in Savers, ReadManifest(s)
  PROVE  TransferInv'
<1>1. saver[s] \in Commands /\ Sound(s, saver[s], dirBy, disk) /\ saver[s].at = "manifest"
      /\ saver[s].kind \in {"download", "show"} /\ UNCHANGED <<dirBy, disk>>
      /\ saver \in [Savers -> Commands]
  BY Facts DEF ReadManifest, Here, TransferInv, SavedTypes
<1>2. CASE Go(s, "refused")
  BY <1>1, <1>2, Ends
<1>3. CASE \E m \in Manifests :
             saver' = [saver EXCEPT
                 ![s].list = m,
                 ![s].at = IF saver[s].kind = "show"
                           THEN IF m = <<>> THEN "refused" ELSE "create"
                           ELSE IF PathsInOrder(m) THEN "mkdir" ELSE "refused"]
  <2>1. PICK m \in Manifests :
             saver' = [saver EXCEPT
                 ![s].list = m,
                 ![s].at = IF saver[s].kind = "show"
                           THEN IF m = <<>> THEN "refused" ELSE "create"
                           ELSE IF PathsInOrder(m) THEN "mkdir" ELSE "refused"]
    BY <1>3
  <2> DEFINE at == IF saver[s].kind = "show" THEN IF m = <<>> THEN "refused" ELSE "create"
                   ELSE IF PathsInOrder(m) THEN "mkdir" ELSE "refused"
             c  == [saver[s] EXCEPT !.list = m, !.at = at]
  <2>2. at \in Places /\ at \in {"refused", "create", "mkdir"}
        /\ (saver[s].kind = "show" => at \in {"refused", "create"} /\ (at = "create" => m # <<>>))
        /\ (saver[s].kind = "download" => at \in {"refused", "mkdir"})
        /\ (at = "mkdir" => PathsInOrder(m))
    BY DEF Places, Over
  <2>3. /\ c.at = at /\ c.kind = saver[s].kind /\ c.list = m
        /\ c.next = saver[s].next /\ c.total = saver[s].total /\ c \in Commands
    BY <1>1, <2>2 DEF Commands
  <2>4. saver' = [saver EXCEPT ![s] = c]
    BY <1>1, <2>1
  <2> HIDE DEF at, c
  <2>5. dirBy # s
    BY <1>1 DEF Sound, Owns
  <2>6. Sound(s, c, dirBy, disk)
    BY <1>1, <2>2, <2>3, <2>5 DEF Sound, HasOne, Before, InDir, HasFile, Filling, OneFile
  <2>7. c.next <= Len(c.list) + 1
    <3>1. c.next \in Nat \ {0} /\ Len(c.list) \in Nat
      BY <2>3, Listed DEF Commands
    <3>2. c.next = 1
      BY <1>1, <2>3 DEF Sound, HasOne, OneFile, Before
    <3> QED
      BY <3>1, <3>2
  <2>8. /\ dirBy' \in Savers \cup {"nobody"} /\ disk' \in Disks /\ OwnFiles(dirBy', disk')
        /\ Sound(s, c, dirBy', disk') /\ Beside(s, dirBy, dirBy', disk, disk')
    BY <1>1, <2>6 DEF TransferInv, SavedTypes, Beside
  <2> QED
    BY <2>3, <2>4, <2>7, <2>8, SoundStep
<1> QED
  BY <1>1, <1>2, <1>3 DEF ReadManifest

LEMMA MakeDirectoryKeeps ==
  ASSUME TransferInv, NEW s \in Savers, MakeDirectory(s)
  PROVE  TransferInv'
<1>1. saver[s] \in Commands /\ Sound(s, saver[s], dirBy, disk) /\ saver[s].at = "mkdir"
      /\ saver[s].kind = "download" /\ disk' = disk /\ saver \in [Savers -> Commands]
      /\ saver[s].next <= Len(saver[s].list) + 1 /\ Len(saver[s].list) \in Nat
      /\ OwnFiles(dirBy, disk) /\ disk \in Disks
      /\ DOMAIN saver[s].list = 1..Len(saver[s].list) /\ MaxRun \in Nat
  BY Facts DEF MakeDirectory, Here, TransferInv, SavedTypes
<1>2. CASE Go(s, "refused") /\ UNCHANGED dirBy
  BY <1>1, <1>2, Ends
<1>3. CASE dirBy = "nobody" /\ dirBy' = s /\ Go(s, "create")
  <2> DEFINE c == [saver[s] EXCEPT !.at = "create"]
  <2>1. "create" \in Places
    BY DEF Places
  <2>2. /\ c.at = "create" /\ c.kind = "download" /\ c.list = saver[s].list
        /\ c.next = 1 /\ c.total = 0 /\ c \in Commands
    BY <1>1, <2>1 DEF Commands, Sound, Before
  <2>3. saver' = [saver EXCEPT ![s] = c] /\ c.next <= Len(c.list) + 1
    BY <1>1, <1>3, <2>2 DEF Go
  <2> HIDE DEF c
  <2>4. PathsInOrder(c.list)
    BY <1>1, <2>2 DEF Sound, Before
  <2>5. disk[Marker] = NoFile
    BY <1>1, <1>3, Distinct DEF OwnFiles
  <2>6. \A i \in DOMAIN c.list : ~(i < c.next)
    <3>1. DOMAIN c.list = 1..Len(c.list) /\ c.next = 1
      BY <1>1, <2>2
    <3> QED
      BY <3>1
  <2>9. Owns(s, c, disk)
    <3>1. c.total <= MaxRun
      BY <1>1, <2>2
    <3> QED
      BY <2>2, <2>4, <2>5, <2>6, <3>1 DEF Owns, Filling, AllRead
  <2>7. Sound(s, c, s, disk)
    BY <2>2, <2>9 DEF Sound, OneFile, Before, Filling
  <2>8. /\ dirBy' \in Savers \cup {"nobody"} /\ disk' \in Disks /\ OwnFiles(dirBy', disk')
        /\ Sound(s, c, dirBy', disk') /\ Beside(s, dirBy, dirBy', disk, disk')
    BY <1>1, <1>3, <2>7 DEF OwnFiles, Beside
  <2> QED
    BY <2>2, <2>3, <2>8, SoundStep
<1> QED
  BY <1>1, <1>2, <1>3 DEF MakeDirectory

\* A step of a command that writes files: the owner of the directory writes
\* there, and the one file is written by the command that has it, or is free.
LEMMA WriteStep ==
  ASSUME TransferInv, NEW s \in Savers, NEW c \in Commands, c.next <= Len(c.list) + 1,
         saver' = [saver EXCEPT ![s] = c], dirBy' = dirBy, disk' \in Disks,
         \/ dirBy = s /\ disk'[SavedFile] = disk[SavedFile]
         \/ /\ disk[SavedFile].by \in {s, "nobody"}
            /\ \A p \in Paths \ {SavedFile} : disk'[p] = disk[p],
         \A p \in Paths \ {SavedFile} : disk'[p] # disk[p] /\ disk'[p] # NoFile => disk'[p].by = s,
         Sound(s, c, dirBy, disk')
  PROVE  TransferInv'
<1>1. OwnFiles(dirBy, disk) /\ dirBy \in Savers \cup {"nobody"} /\ s # "nobody"
  BY Facts
<1>2. OwnFiles(dirBy', disk')
  BY <1>1 DEF OwnFiles
<1>3. Beside(s, dirBy, dirBy', disk, disk')
  BY DEF Beside
<1> QED
  BY <1>1, <1>2, <1>3, SoundStep

LEMMA CreateFileKeeps ==
  ASSUME TransferInv, NEW s \in Savers, CreateFile(s)
  PROVE  TransferInv'
<1>1. /\ saver[s] \in Commands /\ Sound(s, saver[s], dirBy, disk) /\ s # "nobody"
      /\ dirBy' = dirBy /\ saver \in [Savers -> Commands] /\ disk \in Disks
      /\ saver[s].kind \in {"download", "show", "raw"}
      /\ IF saver[s].kind = "raw" THEN saver[s].at = "start" ELSE saver[s].at = "create"
  BY Facts DEF CreateFile, Here, TransferInv, SavedTypes
<1>2. /\ saver[s].next <= Len(saver[s].list) + 1 /\ Len(saver[s].list) \in Nat
      /\ saver[s].next \in Nat \ {0} /\ saver[s].total \in Nat
      /\ DOMAIN saver[s].list = 1..Len(saver[s].list) /\ MaxRun \in Nat /\ MaxFile \in Nat
      /\ \A i \in DOMAIN saver[s].list : saver[s].list[i] \in Paths /\ saver[s].list[i] # SavedFile
  BY Facts
<1>3. CASE saver[s].kind = "download" /\ saver[s].next > Len(saver[s].list)
  <2> DEFINE c == [saver[s] EXCEPT !.at = "marker"]
  <2>1. "marker" \in Places /\ Go(s, "marker") /\ UNCHANGED <<dirBy, disk>>
    BY <1>1, <1>3 DEF Places, CreateFile
  <2>2. /\ c.at = "marker" /\ c.kind = saver[s].kind /\ c.list = saver[s].list
        /\ c.next = saver[s].next /\ c.total = saver[s].total
    BY <1>1 DEF Commands
  <2> HIDE DEF c
  <2>3. Sound(s, c, dirBy, disk)
    BY <1>1, <1>2, <1>3, <2>2 DEF Sound, Owns, Before, InDir, AllRead, Filling, OneFile
  <2> QED
    BY <2>1, <2>3, MovesOn DEF c
<1>4. CASE ~(saver[s].kind = "download" /\ saver[s].next > Len(saver[s].list))
  <2>1. CASE Go(s, IF saver[s].kind = "download" THEN "incomplete" ELSE "refused") /\ UNCHANGED disk
    BY <1>1, <2>1, Ends
  <2>2. CASE /\ Room(Target(s))
             /\ disk' = [disk EXCEPT ![Target(s)] = Written(s, 0, FALSE)]
             /\ saver' = [saver EXCEPT ![s].at = "ask", ![s].got = 0]
    <3> DEFINE c == [saver[s] EXCEPT !.at = "ask", !.got = 0]
               w == Written(s, 0, FALSE)
    <3>1. "ask" \in Places /\ w \in Files
      BY DEF Places, Files, Written
    <3>2. /\ c.at = "ask" /\ c.got = 0 /\ c.kind = saver[s].kind /\ c.list = saver[s].list
          /\ c.next = saver[s].next /\ c.total = saver[s].total /\ c \in Commands
      BY <1>1, <3>1 DEF Commands
    <3>3. saver' = [saver EXCEPT ![s] = c] /\ c.next <= Len(c.list) + 1
      BY <1>1, <1>2, <2>2, <3>2
    <3> DEFINE q == Want(c)
    <3>4. Target(s) = q
      BY <3>2 DEF Target, Want
    <3> HIDE DEF c, q
    <3>5. /\ q \in Paths /\ (c.kind \in OneFile => q = SavedFile)
          /\ c.kind = "download" =>
                q # SavedFile /\ c.next \in DOMAIN c.list /\ q = c.list[c.next]
      BY <1>1, <1>2, <1>4, <3>2, Distinct DEF q, Want, OneFile
    <3>6. disk[q] = NoFile /\ disk' = [disk EXCEPT ![q] = w] /\ disk' \in Disks
      BY <1>1, <2>2, <3>1, <3>4, <3>5 DEF Room, Disks
    <3>7. disk'[q] = w /\ \A p \in Paths \ {q} : disk'[p] = disk[p]
      BY <1>1, <3>5, <3>6 DEF Disks
    <3>8. 0 <= Limit(c)
      <4>1. c.kind = "download" => c.total <= MaxRun
        BY <1>1, <3>2 DEF Sound, Owns, InDir
      <4> QED
        BY <1>1, <1>2, <3>2, <4>1 DEF Limit, OneFile
    <3>9. c.kind \in OneFile => HasOne(s, c, disk') /\ dirBy # s
      <4>1. w.by = s
        BY DEF Written
      <4> QED
        BY <1>1, <3>2, <3>5, <3>7, <4>1 DEF Sound, Owns, HasOne, OneFile, HasFile
    <3>10. c.kind = "download" => dirBy = s /\ Owns(s, c, disk')
      <4> SUFFICES ASSUME c.kind = "download" PROVE dirBy = s /\ Owns(s, c, disk')
        OBVIOUS
      <4>1. dirBy = s /\ Owns(s, saver[s], disk) /\ saver[s].at = "create"
        BY <1>1, <3>2 DEF Sound, InDir
      <4>2. q \notin {Marker, Partial} /\ \A i \in DOMAIN c.list : i # c.next => c.list[i] # q
        BY <3>2, <3>5, <4>1 DEF Owns, PathsInOrder
      <4>3. disk'[Marker] = disk[Marker] /\ disk[Marker] = NoFile
        BY <3>7, <4>1, <4>2, Distinct DEF Owns
      <4>4. \A i \in DOMAIN c.list : i < c.next => disk'[c.list[i]] = disk[c.list[i]]
        BY <1>2, <3>2, <3>7, <4>2
      <4>5. c.next <= Len(c.list) /\ c.at = "ask" /\ c.kind = "download"
        BY <1>2, <1>4, <3>2
      <4>6. PathsInOrder(c.list) /\ c.total <= MaxRun
        BY <3>2, <4>1 DEF Owns
      <4>7. \A i \in DOMAIN c.list : i < c.next =>
               disk'[c.list[i]] = Written(s, SizeOf[c.list[i]], TRUE)
        BY <3>2, <4>1, <4>4 DEF Owns
      <4> QED
        BY <4>1, <4>3, <4>5, <4>6, <4>7 DEF Owns, Filling, AllRead
    <3>11. Sound(s, c, dirBy, disk')
      BY <1>1, <3>2, <3>5, <3>7, <3>8, <3>9, <3>10 DEF Sound, Before, Filling, OneFile, q
    <3>12. \A p \in Paths \ {SavedFile} : disk'[p] # disk[p] => disk'[p].by = s
      BY <3>7 DEF Written
    <3>13. \/ dirBy = s /\ disk'[SavedFile] = disk[SavedFile]
           \/ /\ disk[SavedFile].by \in {s, "nobody"}
              /\ \A p \in Paths \ {SavedFile} : disk'[p] = disk[p]
      <4>1. CASE c.kind = "download"
        <5>1. SavedFile \in Paths \ {q}
          BY <3>5, <4>1, Distinct
        <5>2. disk'[SavedFile] = disk[SavedFile]
          BY <3>7, <5>1
        <5> QED
          BY <3>10, <4>1, <5>2
      <4>2. CASE c.kind \in OneFile
        <5>1. q = SavedFile /\ disk[q].by = "nobody"
          BY <3>5, <3>6, <4>2 DEF NoFile
        <5> QED
          BY <3>7, <5>1
      <4> QED
        BY <1>1, <3>2, <4>1, <4>2 DEF OneFile
    <3> QED
      BY <1>1, <3>2, <3>3, <3>6, <3>11, <3>12, <3>13, WriteStep
  <2> QED
    BY <1>4, <2>1, <2>2 DEF CreateFile
<1> QED
  BY <1>3, <1>4

\* What is known of a command that asks for a file or reads it.
LEMMA Reading ==
  ASSUME TransferInv, NEW s \in Savers, saver[s].at \in Filling
  PROVE  LET c == saver[s]
             q == Want(c)
         IN /\ Target(s) = q /\ Cap(s) = Limit(c) /\ BodySize(s) = Body(c)
            /\ q \in Paths /\ disk[q] = Written(s, c.got, FALSE) /\ c.got <= Limit(c)
            /\ c.kind \in OneFile => q = SavedFile /\ dirBy # s /\ HasOne(s, c, disk)
            /\ c.kind \notin OneFile =>
                  /\ c.kind = "download" /\ dirBy = s /\ Owns(s, c, disk)
                  /\ c.next \in DOMAIN c.list /\ q = c.list[c.next]
                  /\ q \notin {SavedFile, Marker, Partial} /\ disk[Marker] = NoFile
                  /\ \A i \in DOMAIN c.list : i # c.next => c.list[i] # q
<1> DEFINE c == saver[s]
           q == Want(c)
<1>1. /\ c \in Commands /\ Sound(s, c, dirBy, disk) /\ c.at \in {"ask", "read"}
      /\ c.kind \in {"download", "show", "raw"} /\ c.next \in Nat \ {0}
      /\ DOMAIN c.list = 1..Len(c.list) /\ Len(c.list) \in Nat
      /\ \A i \in DOMAIN c.list : c.list[i] \in Paths /\ c.list[i] # SavedFile
  BY Facts DEF Filling
<1>2. Target(s) = q /\ Cap(s) = Limit(c) /\ BodySize(s) = Body(c)
  BY DEF Target, Want, Cap, Limit, BodySize, Body
<1> HIDE DEF c
<1>3. disk[q] = Written(s, c.got, FALSE) /\ c.got <= Limit(c)
  BY <1>1 DEF Sound, Filling
<1>4. c.kind \in OneFile => q = SavedFile /\ dirBy # s /\ HasOne(s, c, disk)
  BY <1>1 DEF Sound, Want, OneFile, Owns
<1>5. ASSUME c.kind \notin OneFile
      PROVE  /\ c.kind = "download" /\ dirBy = s /\ Owns(s, c, disk)
             /\ c.next \in DOMAIN c.list /\ q = c.list[c.next]
  <2>1. c.kind = "download" /\ dirBy = s /\ Owns(s, c, disk)
    BY <1>1, <1>5 DEF Sound, OneFile, InDir
  <2>2. c.next <= Len(c.list)
    BY <1>1, <2>1 DEF Owns, Filling
  <2> QED
    BY <1>1, <1>5, <2>1, <2>2 DEF Want
<1> HIDE DEF q
<1>6. ASSUME c.kind \notin OneFile
      PROVE  /\ q \notin {SavedFile, Marker, Partial} /\ disk[Marker] = NoFile
             /\ \A i \in DOMAIN c.list : i # c.next => c.list[i] # q
  BY <1>1, <1>5, <1>6 DEF Owns, PathsInOrder
<1>7. q \in Paths
  BY <1>1, <1>4, <1>5, Distinct
<1> QED
  BY <1>2, <1>3, <1>4, <1>5, <1>6, <1>7 DEF c, q

\* A step of the command that reads: its file is written, and it goes on with c.
LEMMA Overwrites ==
  ASSUME TransferInv, NEW s \in Savers, saver[s].at \in Filling, NEW c \in Commands,
         c.next <= Len(c.list) + 1, NEW w \in Files, w.by = s,
         disk' = [disk EXCEPT ![Want(saver[s])] = w], dirBy' = dirBy,
         saver' = [saver EXCEPT ![s] = c], Sound(s, c, dirBy, disk')
  PROVE  TransferInv'
<1> DEFINE q == Want(saver[s])
<1>1. /\ q \in Paths /\ disk[q] = Written(s, saver[s].got, FALSE)
      /\ saver[s].kind \in OneFile => q = SavedFile
      /\ saver[s].kind \notin OneFile => dirBy = s /\ q # SavedFile
  BY Reading
<1>2. disk \in Disks /\ disk' = [disk EXCEPT ![q] = w]
  BY Facts
<1> HIDE DEF q
<1>3. disk' \in Disks /\ disk'[q] = w /\ \A p \in Paths \ {q} : disk'[p] = disk[p]
  BY <1>1, <1>2 DEF Disks
<1>4. disk[q].by = s
  BY <1>1 DEF Written
<1>5. \/ dirBy = s /\ disk'[SavedFile] = disk[SavedFile]
      \/ /\ disk[SavedFile].by \in {s, "nobody"}
         /\ \A p \in Paths \ {SavedFile} : disk'[p] = disk[p]
  <2>1. CASE saver[s].kind \in OneFile
    BY <1>1, <1>3, <1>4, <2>1
  <2>2. CASE saver[s].kind \notin OneFile
    <3>1. SavedFile \in Paths \ {q}
      BY <1>1, <2>2, Distinct
    <3> QED
      BY <1>1, <1>3, <2>2, <3>1
  <2> QED
    BY <2>1, <2>2
<1>6. \A p \in Paths \ {SavedFile} : disk'[p] # disk[p] => disk'[p].by = s
  BY <1>3
<1> QED
  BY <1>3, <1>5, <1>6, WriteStep

\* The files before the one that is written stay whole.
LEMMA OwnsStill ==
  ASSUME NEW s \in Savers, NEW b \in Commands, NEW c \in Commands, NEW d \in Disks, NEW e \in Disks,
         Owns(s, b, d), c.list = b.list, c.next = b.next, c.total = b.total, c.kind = b.kind,
         b.at \in Filling, c.at \in Filling, NEW q \in Paths \ {Marker},
         \A i \in DOMAIN c.list : i # c.next => c.list[i] # q,
         d[Marker] = NoFile, \A p \in Paths \ {q} : e[p] = d[p]
  PROVE  Owns(s, c, e)
<1>1. e[Marker] = NoFile
  BY Distinct
<1>2. DOMAIN c.list = 1..Len(c.list) /\ \A i \in DOMAIN c.list : c.list[i] \in Paths
  BY Listed
<1>3. c.next \in Nat
  BY DEF Commands
<1>5. \A i \in DOMAIN c.list : i < c.next => i # c.next
  BY <1>2, <1>3
<1>6. \A i \in DOMAIN c.list : i < c.next => e[c.list[i]] = d[c.list[i]]
  BY <1>2, <1>5
<1>4. \A i \in DOMAIN c.list : i < c.next => e[c.list[i]] = Written(s, SizeOf[c.list[i]], TRUE)
  BY <1>6 DEF Owns
<1> QED
  BY <1>1, <1>4 DEF Owns, Filling, AllRead

LEMMA AskFileKeeps ==
  ASSUME TransferInv, NEW s \in Savers, AskFile(s)
  PROVE  TransferInv'
<1> DEFINE c == [saver[s] EXCEPT !.at = "read"]
<1>1. saver[s] \in Commands /\ Sound(s, saver[s], dirBy, disk)
  BY Facts
<1>2. /\ c.at = "read" /\ c.kind = saver[s].kind /\ c.list = saver[s].list
      /\ c.next = saver[s].next /\ c.total = saver[s].total /\ c.got = saver[s].got
  BY <1>1 DEF Commands
<1>3. saver[s].at = "ask" /\ UNCHANGED <<dirBy, disk>> /\ (Go(s, "read") \/ Fails(s))
  BY DEF AskFile
<1> HIDE DEF c
<1>4. Sound(s, c, dirBy, disk)
  <2>1. Want(c) = Want(saver[s]) /\ Limit(c) = Limit(saver[s])
    BY <1>2 DEF Want, Limit
  <2> QED
    BY <1>1, <1>2, <1>3, <2>1 DEF Sound, Owns, HasOne, Before, InDir, AllRead, HasFile, Filling
<1>5. CASE Go(s, "read")
  <2>1. "read" \in Places
    BY DEF Places
  <2> QED
    BY <1>3, <1>4, <1>5, <2>1, MovesOn DEF c
<1>6. CASE Fails(s)
  BY <1>3, <1>6, FailsKeeps DEF Filling
<1> QED
  BY <1>3, <1>5, <1>6

LEMMA ReadSomeKeeps ==
  ASSUME TransferInv, NEW s \in Savers, ReadSome(s)
  PROVE  TransferInv'
<1> DEFINE c == [saver[s] EXCEPT !.got = @ + 1]
           w == Written(s, saver[s].got + 1, FALSE)
           q == Want(saver[s])
<1>1. /\ saver[s] \in Commands /\ Sound(s, saver[s], dirBy, disk) /\ saver[s].got \in Nat
      /\ saver \in [Savers -> Commands] /\ saver[s].next <= Len(saver[s].list) + 1
      /\ MaxFile \in Nat /\ MaxRun \in Nat /\ saver[s].total \in Nat /\ disk \in Disks
  BY Facts DEF TransferInv, SavedTypes
<1>2. saver[s].at = "read" /\ dirBy' = dirBy /\ saver[s].at \in Filling
  BY DEF ReadSome, Filling
<1>3. CASE Fails(s) /\ UNCHANGED disk
  BY <1>2, <1>3, FailsKeeps
<1>4. CASE /\ saver[s].got < Cap(s)
           /\ saver' = [saver EXCEPT ![s].got = @ + 1]
           /\ disk' = [disk EXCEPT ![Target(s)] = w]
  <2>1. /\ c.at = "read" /\ c.kind = saver[s].kind /\ c.list = saver[s].list
        /\ c.next = saver[s].next /\ c.total = saver[s].total /\ c.got = saver[s].got + 1
        /\ c \in Commands
    BY <1>1, <1>2 DEF Commands
  <2>2. saver' = [saver EXCEPT ![s] = c] /\ c.next <= Len(c.list) + 1
    BY <1>1, <1>4, <2>1
  <2> HIDE DEF c
  <2>3. Want(c) = q /\ Limit(c) = Limit(saver[s]) /\ c.got <= Limit(c)
    <3>1. Want(c) = q /\ Limit(c) = Limit(saver[s])
      BY <2>1 DEF Want, Limit
    <3>2. saver[s].got < Limit(c)
      BY <1>2, <1>4, <3>1, Reading
    <3> QED
      BY <1>1, <2>1, <3>1, <3>2 DEF Limit
  <2>4. w \in Files /\ w.by = s
    BY <1>1 DEF Files, Written
  <2>5. /\ Target(s) = q /\ Cap(s) = Limit(c) /\ q \in Paths
        /\ c.kind \in OneFile => q = SavedFile /\ dirBy # s /\ HasOne(s, saver[s], disk)
        /\ c.kind \notin OneFile =>
              /\ c.kind = "download" /\ dirBy = s /\ Owns(s, saver[s], disk)
              /\ c.next \in DOMAIN c.list /\ q = c.list[c.next]
              /\ q \notin {SavedFile, Marker, Partial} /\ disk[Marker] = NoFile
              /\ \A i \in DOMAIN c.list : i # c.next => c.list[i] # q
    BY <1>2, <2>1, <2>3, Reading
  <2> HIDE DEF q
  <2>6. disk' = [disk EXCEPT ![q] = w] /\ disk'[q] = w /\ \A p \in Paths \ {q} : disk'[p] = disk[p]
    BY <1>1, <1>4, <2>5 DEF Disks
  <2>7. c.kind \in OneFile => HasOne(s, c, disk')
    BY <1>2, <2>1, <2>4, <2>5, <2>6 DEF HasOne, HasFile
  <2>8. c.kind \notin OneFile => Owns(s, c, disk')
    <3> SUFFICES ASSUME c.kind \notin OneFile PROVE Owns(s, c, disk')
      OBVIOUS
    <3>1. q \in Paths \ {Marker} /\ Owns(s, saver[s], disk) /\ disk[Marker] = NoFile
          /\ \A i \in DOMAIN c.list : i # c.next => c.list[i] # q
      BY <2>5
    <3>2. disk' \in Disks
      BY <1>1, <2>4, <2>5, <2>6 DEF Disks
    <3>3. c.at \in Filling /\ saver[s].at \in Filling /\ c \in Commands /\ saver[s] \in Commands
          /\ c.list = saver[s].list /\ c.next = saver[s].next /\ c.total = saver[s].total
          /\ c.kind = saver[s].kind
      BY <1>1, <1>2, <2>1 DEF Filling
    <3>4. \A p \in Paths \ {q} : disk'[p] = disk[p]
      BY <2>6
    <3>5. disk \in Disks
      BY <1>1
    <3> QED
      BY <3>1, <3>2, <3>3, <3>4, <3>5, OwnsStill
  <2>9. Sound(s, c, dirBy, disk')
    BY <1>1, <1>4, <2>1, <2>3, <2>5, <2>6, <2>7, <2>8 DEF Sound, Before, OneFile, Filling
  <2> QED
    BY <1>2, <2>1, <2>2, <2>4, <2>6, <2>9, Overwrites DEF q
<1> QED
  BY <1>2, <1>3, <1>4 DEF ReadSome

LEMMA SyncFileKeeps ==
  ASSUME TransferInv, NEW s \in Savers, SyncFile(s)
  PROVE  TransferInv'
<1> DEFINE b == saver[s]
           w == Written(s, saver[s].got, TRUE)
           q == Want(saver[s])
<1>1. /\ b \in Commands /\ b.got \in Nat /\ b.next \in Nat \ {0} /\ s # "nobody"
      /\ saver \in [Savers -> Commands] /\ b.next <= Len(b.list) + 1
      /\ MaxFile \in Nat /\ MaxRun \in Nat /\ b.total \in Nat /\ disk \in Disks
      /\ Len(b.list) \in Nat /\ DOMAIN b.list = 1..Len(b.list)
      /\ \A i \in DOMAIN b.list : b.list[i] \in Paths
  BY Facts DEF TransferInv, SavedTypes
<1>2. b.at = "read" /\ dirBy' = dirBy /\ b.at \in Filling /\ b.got = BodySize(s)
  BY DEF SyncFile, Filling
<1>3. /\ Target(s) = q /\ BodySize(s) = Body(b) /\ q \in Paths /\ b.got <= Limit(b)
      /\ disk[q] = Written(s, b.got, FALSE)
      /\ b.kind \in OneFile => q = SavedFile /\ dirBy # s /\ HasOne(s, b, disk)
      /\ b.kind \notin OneFile =>
            /\ b.kind = "download" /\ dirBy = s /\ Owns(s, b, disk)
            /\ b.next \in DOMAIN b.list /\ q = b.list[b.next]
            /\ q \notin {SavedFile, Marker, Partial} /\ disk[Marker] = NoFile
            /\ \A i \in DOMAIN b.list : i # b.next => b.list[i] # q
  BY <1>2, Reading
<1>4. CASE Fails(s) /\ UNCHANGED disk
  BY <1>2, <1>4, FailsKeeps
<1>5. ASSUME /\ disk' = [disk EXCEPT ![Target(s)] = w]
             /\ saver' = IF saver[s].kind \in OneFile THEN [saver EXCEPT ![s].at = "ok"]
                         ELSE [saver EXCEPT ![s].at = "create", ![s].next = @ + 1,
                                            ![s].total = @ + saver[s].got]
      PROVE  TransferInv'
  <2>1. w \in Files /\ w.by = s
    BY <1>1 DEF Files, Written
  <2>2. disk' = [disk EXCEPT ![q] = w]
    BY <1>3, <1>5
  <2> HIDE DEF q, w
  <2>3. disk' \in Disks /\ disk'[q] = w /\ \A p \in Paths \ {q} : disk'[p] = disk[p]
    BY <1>1, <1>3, <2>1, <2>2 DEF Disks
  <2>4. CASE b.kind \in OneFile
    <3> DEFINE c == [saver[s] EXCEPT !.at = "ok"]
    <3>1. "ok" \in Places
      BY DEF Places, Over
    <3>2. /\ c.at = "ok" /\ c.kind = b.kind /\ c.list = b.list /\ c.next = b.next
          /\ c.total = b.total /\ c.got = b.got /\ c \in Commands
      BY <1>1, <3>1 DEF Commands
    <3>3. saver' = [saver EXCEPT ![s] = c]
      BY <1>1, <1>5, <2>4
    <3> HIDE DEF c
    <3>4. Body(c) = b.got /\ b.got <= MaxFile
      BY <1>2, <1>3, <2>4, <3>2 DEF Body, Limit
    <3>5. HasOne(s, c, disk')
      BY <1>2, <1>3, <2>1, <2>3, <2>4, <3>2, <3>4 DEF HasOne, w
    <3>6. Sound(s, c, dirBy, disk')
      BY <1>3, <2>4, <3>2, <3>5 DEF Sound, Before, Filling, OneFile
    <3>7. c.next <= Len(c.list) + 1
      BY <1>1, <3>2
    <3> QED
      BY <1>2, <2>1, <2>2, <3>2, <3>3, <3>6, <3>7, Overwrites DEF q
  <2>5. CASE b.kind \notin OneFile
    <3> DEFINE c == [saver[s] EXCEPT !.at = "create", !.next = @ + 1, !.total = @ + saver[s].got]
    <3>1. "create" \in Places
      BY DEF Places
    <3>2. /\ c.at = "create" /\ c.kind = b.kind /\ c.list = b.list /\ c.next = b.next + 1
          /\ c.total = b.total + b.got /\ c \in Commands
      <4>1. b.next + 1 \in Nat \ {0} /\ b.total + b.got \in Nat
        BY <1>1
      <4> QED
        BY <1>1, <3>1, <4>1 DEF Commands
    <3>3. saver' = [saver EXCEPT ![s] = c]
      BY <1>1, <1>5, <2>5
    <3> HIDE DEF c
    <3>4. c.next <= Len(c.list) + 1
      BY <1>1, <1>3, <2>5, <3>2
    <3>5. c.total <= MaxRun
      <4>1. b.total <= MaxRun
        BY <1>3, <2>5 DEF Owns
      <4> QED
        BY <1>1, <1>3, <2>5, <3>2, <4>1 DEF Limit
    <3>6. disk'[Marker] = NoFile
      BY <1>3, <2>3, <2>5, Distinct
    <3>7. \A i \in DOMAIN c.list : i < c.next =>
             disk'[c.list[i]] = Written(s, SizeOf[c.list[i]], TRUE)
      <4> SUFFICES ASSUME NEW i \in DOMAIN b.list, i < b.next + 1
                   PROVE  disk'[b.list[i]] = Written(s, SizeOf[b.list[i]], TRUE)
        BY <3>2
      <4>0. i \in Nat /\ (i < b.next => i # b.next)
        BY <1>1
      <4>1. CASE i = b.next
        BY <1>2, <1>3, <2>3, <2>5, <4>1 DEF Body, OneFile, w
      <4>2. CASE i < b.next
        <5>1. b.list[i] \in Paths \ {q} /\ disk[b.list[i]] = Written(s, SizeOf[b.list[i]], TRUE)
          BY <1>1, <1>3, <2>5, <4>2, <4>0 DEF Owns
        <5> QED
          BY <2>3, <5>1
      <4>3. i = b.next \/ i < b.next
        BY <1>1, <4>0
      <4> QED
        BY <4>1, <4>2, <4>3
    <3>8. Owns(s, c, disk')
      <4>1. PathsInOrder(c.list) /\ c.kind = "download"
        BY <1>3, <2>5, <3>2 DEF Owns
      <4> QED
        BY <3>2, <3>5, <3>6, <3>7, <4>1 DEF Owns, Filling, AllRead
    <3>9. Sound(s, c, dirBy, disk')
      BY <1>3, <2>5, <3>2, <3>8 DEF Sound, Before, Filling, OneFile
    <3> QED
      BY <1>2, <2>1, <2>2, <3>2, <3>3, <3>4, <3>9, Overwrites DEF q
  <2> QED
    BY <2>4, <2>5
<1> QED
  BY <1>4, <1>5 DEF SyncFile

LEMMA RemoveFileKeeps ==
  ASSUME TransferInv, NEW s \in Savers, RemoveFile(s)
  PROVE  TransferInv'
<1> DEFINE c == [saver[s] EXCEPT !.at = "failed"]
<1>1. /\ saver[s] \in Commands /\ Sound(s, saver[s], dirBy, disk) /\ disk \in Disks
      /\ saver \in [Savers -> Commands] /\ saver[s].next <= Len(saver[s].list) + 1
      /\ SavedFile \in Paths /\ s # "nobody"
  BY Facts, Distinct DEF TransferInv, SavedTypes
<1>2. saver[s].at = "remove" /\ saver[s].kind \in OneFile /\ Go(s, "failed") /\ dirBy' = dirBy
  BY DEF RemoveFile, Here
<1>3. disk[SavedFile].by = s /\ dirBy # s
  BY <1>1, <1>2 DEF Sound, HasOne, HasFile, Owns
<1>4. "failed" \in Places /\ NoFile \in Files
  BY DEF Places, Over, NoFile, Files
<1>5. /\ c.at = "failed" /\ c.kind = saver[s].kind /\ c.list = saver[s].list
      /\ c.next = saver[s].next /\ c.total = saver[s].total /\ c \in Commands
  BY <1>1, <1>4 DEF Commands
<1>6. saver' = [saver EXCEPT ![s] = c]
  BY <1>1, <1>2 DEF Go
<1> HIDE DEF c
<1>7. CASE UNCHANGED disk
  BY <1>2, <1>7, Ends
<1>8. CASE disk' = [disk EXCEPT ![SavedFile] = NoFile]
  <2>1. disk' \in Disks /\ \A p \in Paths \ {SavedFile} : disk'[p] = disk[p]
    BY <1>1, <1>4, <1>8 DEF Disks
  <2>2. Sound(s, c, dirBy, disk')
    BY <1>1, <1>2, <1>3, <1>5 DEF Sound, HasOne, HasFile, Before, Filling, OneFile
  <2>3. c.next <= Len(c.list) + 1
    BY <1>1, <1>5
  <2> QED
    BY <1>2, <1>3, <1>5, <1>6, <2>1, <2>2, <2>3, WriteStep
<1> QED
  BY <1>7, <1>8 DEF RemoveFile

\* A download that has read everything may write the marker's two names.
LEMMA MarkerStep ==
  ASSUME TransferInv, NEW s \in Savers, saver[s].kind = "download", saver[s].at \in AllRead,
         NEW at \in AllRead \cup {"incomplete"}, Go(s, at), dirBy' = dirBy, disk' \in Disks,
         \A p \in Paths \ {Marker, Partial} : disk'[p] = disk[p],
         \A p \in {Marker, Partial} : disk'[p] # NoFile => disk'[p].by = s,
         at = "link" => disk'[Partial] = Written(s, 1, TRUE),
         at \in {"unlink", "ok"} => disk'[Marker] # NoFile,
         disk'[Marker] # NoFile =>
             disk'[Marker] = Written(s, 1, TRUE) /\ at \notin {"marker", "link"}
  PROVE  TransferInv'
<1> DEFINE c == [saver[s] EXCEPT !.at = at]
<1>1. /\ saver[s] \in Commands /\ Sound(s, saver[s], dirBy, disk)
      /\ saver \in [Savers -> Commands] /\ saver[s].next <= Len(saver[s].list) + 1
      /\ \A i \in DOMAIN saver[s].list : saver[s].list[i] \in Paths
  BY Facts DEF TransferInv, SavedTypes
<1>2. at \in Places
  BY DEF Places, Over, AllRead
<1>3. /\ c.at = at /\ c.kind = "download" /\ c.list = saver[s].list
      /\ c.next = saver[s].next /\ c.total = saver[s].total /\ c \in Commands
  BY <1>1, <1>2 DEF Commands
<1>4. saver' = [saver EXCEPT ![s] = c]
  BY <1>1 DEF Go
<1> HIDE DEF c
<1>5. dirBy = s /\ Owns(s, saver[s], disk)
  BY <1>1 DEF Sound, AllRead, InDir
<1>6. \A i \in DOMAIN c.list : disk'[c.list[i]] = disk[c.list[i]]
  BY <1>1, <1>3, <1>5 DEF Owns, PathsInOrder
<1>7. Owns(s, c, disk')
  <2>1. c.next > Len(c.list)
    BY <1>3, <1>5 DEF Owns
  <2>2. \A i \in DOMAIN c.list :
          i < c.next => disk'[c.list[i]] = Written(s, SizeOf[c.list[i]], TRUE)
    BY <1>3, <1>5, <1>6 DEF Owns
  <2>3. PathsInOrder(c.list) /\ c.total <= MaxRun
    BY <1>3, <1>5 DEF Owns
  <2> QED
    BY <1>3, <2>1, <2>2, <2>3 DEF Owns, Filling, AllRead
<1>8. Sound(s, c, dirBy, disk')
  BY <1>3, <1>5, <1>7 DEF Sound, OneFile, Before, Filling, AllRead
<1>9. disk'[SavedFile] = disk[SavedFile]
  BY Distinct
<1>10. c.next <= Len(c.list) + 1
  BY <1>1, <1>3
<1>11. \A p \in Paths \ {SavedFile} : disk'[p] # disk[p] /\ disk'[p] # NoFile => disk'[p].by = s
  OBVIOUS
<1> QED
  BY <1>3, <1>4, <1>5, <1>8, <1>9, <1>10, <1>11, WriteStep

LEMMA MarkerKeeps ==
  ASSUME TransferInv, NEW s \in Savers, WritePartial(s) \/ LinkMarker(s) \/ UnlinkPartial(s)
  PROVE  TransferInv'
<1>1. /\ saver[s].kind = "download" /\ saver[s].at \in {"marker", "link", "unlink"}
      /\ saver[s].at \in AllRead /\ dirBy' = dirBy
      /\ disk \in Disks /\ s # "nobody" /\ s \in Savers
  BY Facts DEF WritePartial, LinkMarker, UnlinkPartial, Here, AllRead
<1>2. /\ dirBy = s /\ OwnFiles(dirBy, disk)
      /\ disk[Marker] # NoFile => disk[Marker] = Written(s, 1, TRUE)
      /\ saver[s].at \in {"marker", "link"} => disk[Marker] = NoFile
      /\ saver[s].at = "link" => disk[Partial] = Written(s, 1, TRUE)
      /\ saver[s].at = "unlink" => disk[Marker] # NoFile
  BY <1>1, Facts DEF Sound, Owns, AllRead, InDir
<1>3. \A p \in {Marker, Partial} : disk[p] # NoFile => disk[p].by = s
  BY <1>2, Distinct DEF OwnFiles
<1>4. NoFile \in Files /\ \A n \in {0, 1}, b \in BOOLEAN :
         Written(s, n, b) \in Files /\ Written(s, n, b).by = s /\ Written(s, n, b) # NoFile
  BY <1>1 DEF Files, NoFile, Written
<1>5. ASSUME Go(s, "incomplete"), UNCHANGED disk PROVE TransferInv'
  BY <1>1, <1>5, Ends
<1>6. ASSUME WritePartial(s) PROVE TransferInv'
  <2>1. ASSUME NEW w \in Files, w.by = s, NEW at \in {"link", "incomplete"}, Go(s, at),
               disk' = [disk EXCEPT ![Partial] = w], at = "link" => w = Written(s, 1, TRUE)
        PROVE  TransferInv'
    <3>1. /\ disk' \in Disks /\ disk'[Partial] = w
          /\ \A p \in Paths \ {Partial} : disk'[p] = disk[p]
      BY <1>1, <2>1, Distinct DEF Disks
    <3>2. disk'[Marker] = NoFile
      BY <1>2, <1>6, <3>1, Distinct DEF WritePartial, Here
    <3>3. at \in AllRead \cup {"incomplete"}
      BY DEF AllRead
    <3> QED
      BY <1>1, <2>1, <3>1, <3>2, <3>3, MarkerStep
  <2>2. CASE disk' = [disk EXCEPT ![Partial] = Written(s, 1, TRUE)] /\ Go(s, "link")
    BY <1>4, <2>1, <2>2
  <2>3. CASE \E some \in 0..1 :
                disk' = [disk EXCEPT ![Partial] = Written(s, some, FALSE)] /\ Go(s, "incomplete")
    <3>0. \A n \in 0..1 : n \in {0, 1}
      OBVIOUS
    <3>1. PICK some \in {0, 1} :
             disk' = [disk EXCEPT ![Partial] = Written(s, some, FALSE)] /\ Go(s, "incomplete")
      BY <2>3, <3>0
    <3> QED
      BY <1>4, <2>1, <3>1
  <2> QED
    BY <1>5, <1>6, <2>2, <2>3 DEF WritePartial
<1>7. ASSUME LinkMarker(s) PROVE TransferInv'
  <2>0. saver[s].at = "link"
    BY <1>7 DEF LinkMarker, Here
  <2>1. ASSUME NEW at \in {"unlink", "ok"}, Go(s, at), disk' \in Disks,
               disk'[Marker] = disk[Partial], disk'[Partial] \in {disk[Partial], NoFile},
               \A p \in Paths \ {Marker, Partial} : disk'[p] = disk[p]
        PROVE  TransferInv'
    <3>1. disk'[Marker] = Written(s, 1, TRUE) /\ disk'[Marker] # NoFile
          /\ \A p \in {Marker, Partial} : disk'[p] # NoFile => disk'[p].by = s
      BY <1>2, <1>4, <2>0, <2>1
    <3>2. at \in AllRead \cup {"incomplete"}
      BY DEF AllRead
    <3> QED
      BY <1>1, <2>1, <3>1, <3>2, MarkerStep
  <2>2. CASE disk' = [disk EXCEPT ![Marker] = disk[Partial]] /\ Go(s, "unlink")
    <3>1. disk' \in Disks /\ disk'[Marker] = disk[Partial] /\ disk'[Partial] = disk[Partial]
          /\ \A p \in Paths \ {Marker, Partial} : disk'[p] = disk[p]
      BY <1>1, <2>2, Distinct DEF Disks
    <3> QED
      BY <2>1, <2>2, <3>1
  <2>3. CASE disk' = [disk EXCEPT ![Marker] = disk[Partial], ![Partial] = NoFile] /\ Go(s, "ok")
    <3>1. disk' \in Disks /\ disk'[Marker] = disk[Partial] /\ disk'[Partial] = NoFile
          /\ \A p \in Paths \ {Marker, Partial} : disk'[p] = disk[p]
      BY <1>1, <1>4, <2>3, Distinct DEF Disks
    <3> QED
      BY <2>1, <2>3, <3>1
  <2> QED
    BY <1>5, <1>7, <2>2, <2>3 DEF LinkMarker
<1>8. ASSUME UnlinkPartial(s) PROVE TransferInv'
  <2>1. CASE disk' = [disk EXCEPT ![Partial] = NoFile] /\ Go(s, "ok")
    <3>1. /\ disk' \in Disks /\ disk'[Partial] = NoFile
          /\ \A p \in Paths \ {Partial} : disk'[p] = disk[p]
      BY <1>1, <1>4, <2>1, Distinct DEF Disks
    <3>2. /\ disk'[Marker] = disk[Marker] /\ disk[Marker] # NoFile
          /\ disk[Marker] = Written(s, 1, TRUE)
      BY <1>2, <1>8, <3>1, Distinct DEF UnlinkPartial, Here
    <3>3. "ok" \in AllRead \cup {"incomplete"}
      BY DEF AllRead
    <3> QED
      BY <1>1, <1>3, <2>1, <3>1, <3>2, <3>3, MarkerStep
  <2> QED
    BY <1>5, <1>8, <2>1 DEF UnlinkPartial
<1> QED
  BY <1>6, <1>7, <1>8

\* A power failure ends every command and cuts only what was not synced.
LEMMA PowerFailureKeeps ==
  ASSUME TransferInv, TransferPowerFails
  PROVE  TransferInv'
<1>1. saver' = [s \in Savers |-> [saver[s] EXCEPT !.at = "killed"]] /\ dirBy' = dirBy
      /\ saver \in [Savers -> Commands] /\ disk \in Disks
  BY DEF TransferPowerFails, TransferInv, SavedTypes
<1>2. PICK cut \in SUBSET {p \in Paths : disk[p].size > 0 /\ ~disk[p].synced} :
           disk' = [p \in Paths |-> IF p \in cut THEN [disk[p] EXCEPT !.size = 0] ELSE disk[p]]
  BY DEF TransferPowerFails
<1>3. \A s \in Savers :
         /\ saver'[s].at = "killed" /\ saver'[s].kind = saver[s].kind
         /\ saver'[s].list = saver[s].list /\ saver'[s].next = saver[s].next
         /\ saver'[s].total = saver[s].total /\ saver'[s] \in Commands
  BY <1>1 DEF Commands, Places, Over
<1>4. disk' \in Disks
  BY <1>1, <1>2 DEF Disks, Files
<1>5. \A p \in Paths : /\ disk[p].synced => disk'[p] = disk[p]
                       /\ disk'[p].by = disk[p].by
                       /\ disk[p] = NoFile => disk'[p] = NoFile
  <2> SUFFICES ASSUME NEW p \in Paths
               PROVE  /\ disk[p].synced => disk'[p] = disk[p]
                      /\ disk'[p].by = disk[p].by
                      /\ disk[p] = NoFile => disk'[p] = NoFile
    OBVIOUS
  <2>1. disk[p] \in Files
    BY <1>1 DEF Disks
  <2>2. disk'[p] = IF p \in cut THEN [disk[p] EXCEPT !.size = 0] ELSE disk[p]
    BY <1>2
  <2>3. p \in cut => ~disk[p].synced /\ disk[p].size > 0
    BY <1>2
  <2>4. [disk[p] EXCEPT !.size = 0].by = disk[p].by
    BY <2>1 DEF Files
  <2>5. disk[p] = NoFile => p \notin cut
    BY <2>3 DEF NoFile
  <2> QED
    BY <2>2, <2>3, <2>4, <2>5
<1>6. \A s \in Savers, n \in Nat : Written(s, n, TRUE).synced
  BY DEF Written
<1>7. OwnFiles(dirBy', disk')
  BY <1>1, <1>5 DEF OwnFiles, TransferInv
<1>8. ASSUME NEW s \in Savers PROVE Sound(s, saver'[s], dirBy', disk')
  <2>1. Sound(s, saver[s], dirBy, disk) /\ SizeOf \in [Paths -> Nat]
        /\ \A i \in DOMAIN saver[s].list : saver[s].list[i] \in Paths
    BY Facts
  <2>2. ASSUME dirBy = s PROVE Owns(s, saver'[s], disk')
    <3>1. Owns(s, saver[s], disk)
      BY <2>1, <2>2 DEF Sound
    <3>2. \A i \in DOMAIN saver[s].list : i < saver[s].next =>
             disk'[saver[s].list[i]] = Written(s, SizeOf[saver[s].list[i]], TRUE)
      BY <1>5, <1>6, <2>1, <3>1, ZenonT(90) DEF Owns
    <3>3. disk'[Marker] # NoFile => /\ disk'[Marker] = Written(s, 1, TRUE)
                                    /\ saver[s].next > Len(saver[s].list)
      BY <1>5, <1>6, <3>1, Distinct DEF Owns
    <3> QED
      BY <1>3, <3>1, <3>2, <3>3 DEF Owns, Filling, AllRead
  <2>3. saver[s].kind \in OneFile => HasOne(s, saver'[s], disk')
    BY <1>3, <2>1 DEF Sound, HasOne, HasFile
  <2> QED
    BY <1>1, <1>3, <2>2, <2>3 DEF Sound, InDir, Before, Filling
<1>9. SavedTypes'
  BY <1>1, <1>3, <1>4 DEF SavedTypes, TransferInv
<1> QED
  BY <1>7, <1>8, <1>9 DEF TransferInv

\* For every set of commands, lists of files and limits: a marker stands only
\* over the whole run, and who reports success has saved what it says.
THEOREM SavedWhole == TransferSpec => []TransferIsWhole
<1>1. TransferInit => TransferInv
  <2> SUFFICES ASSUME TransferInit PROVE TransferInv
    OBVIOUS
  <2>1. PICK k \in [Savers -> SaveKinds] : saver = [s \in Savers |-> Begun(k[s])]
    BY DEF TransferInit
  <2>2. /\ dirBy = "nobody" /\ disk = [p \in Paths |-> NoFile]
        /\ NoFile \in Files /\ "nobody" \notin Savers
    BY TransferAssumption DEF TransferInit, NoFile, Files
  <2>3. \A s \in Savers :
           /\ saver[s].kind \in SaveKinds /\ saver[s].at = "start" /\ saver[s].list = <<>>
           /\ saver[s].next = 1 /\ saver[s].got = 0 /\ saver[s].total = 0
           /\ saver[s] \in Commands
    BY <2>1 DEF Begun, Commands, Places
  <2>4. saver \in [Savers -> Commands]
    BY <2>1, <2>3
  <2>5. disk \in Disks /\ OwnFiles(dirBy, disk)
    BY <2>2 DEF Disks, OwnFiles
  <2>6. \A s \in Savers : Sound(s, saver[s], dirBy, disk)
    BY <2>2, <2>3 DEF Sound, HasOne, InDir, HasFile, Filling
  <2>7. \A s \in Savers : saver[s].next <= Len(saver[s].list) + 1
    BY <2>3
  <2> QED
    BY <2>2, <2>4, <2>5, <2>6, <2>7 DEF TransferInv, SavedTypes
<1>2. TransferInv /\ [TransferNext]_transferVars => TransferInv'
  <2> SUFFICES ASSUME TransferInv, TransferNext PROVE TransferInv'
    BY DEF transferVars, TransferInv, SavedTypes
  <2>1. CASE TransferPowerFails
    BY <2>1, PowerFailureKeeps
  <2>2. ASSUME NEW s \in Savers, TransferKilled(s) PROVE TransferInv'
    BY <2>2, Ends DEF TransferKilled
  <2> QED
    BY <2>1, <2>2, PreflightKeeps, ReadManifestKeeps, MakeDirectoryKeeps, CreateFileKeeps,
       AskFileKeeps, ReadSomeKeeps, SyncFileKeeps, RemoveFileKeeps, MarkerKeeps DEF TransferNext
<1>3. TransferInv => TransferIsWhole
  <2> SUFFICES ASSUME TransferInv PROVE TransferIsWhole
    OBVIOUS
  <2>1. MarkerMeansWhole
    <3> SUFFICES ASSUME disk[Marker] # NoFile
                 PROVE  LET s == disk[Marker].by
                        IN /\ dirBy = s /\ disk[Marker].size = 1
                           /\ \A i \in DOMAIN saver[s].list :
                                 Whole(s, saver[s].list[i], SizeOf[saver[s].list[i]])
      BY DEF MarkerMeansWhole
    <3>1. dirBy \in Savers /\ disk[Marker].by = dirBy
      BY Distinct DEF TransferInv, SavedTypes, OwnFiles
    <3>2. /\ Owns(dirBy, saver[dirBy], disk)
          /\ DOMAIN saver[dirBy].list = 1..Len(saver[dirBy].list)
          /\ Len(saver[dirBy].list) \in Nat /\ saver[dirBy].next \in Nat
      BY <3>1, Facts DEF Sound
    <3>3. disk[Marker].size = 1 /\ saver[dirBy].next > Len(saver[dirBy].list)
      BY <3>2 DEF Owns, Written
    <3>4. \A i \in DOMAIN saver[dirBy].list : i < saver[dirBy].next
      BY <3>2, <3>3
    <3> QED
      BY <3>1, <3>2, <3>3, <3>4 DEF Owns, Whole
  <2>2. SavedIsWhole
    <3> SUFFICES ASSUME NEW s \in Savers, saver[s].at = "ok"
                 PROVE  IF saver[s].kind = "download"
                        THEN disk[Marker].by = s /\ saver[s].total <= MaxRun
                        ELSE Whole(s, SavedFile, BodySize(s)) /\ BodySize(s) <= MaxFile
      BY DEF SavedIsWhole
    <3>1. Sound(s, saver[s], dirBy, disk) /\ saver[s].kind \in {"download", "show", "raw"}
      BY Facts
    <3>2. CASE saver[s].kind = "download"
      <4>1. Owns(s, saver[s], disk)
        BY <3>1, <3>2 DEF Sound, InDir
      <4> QED
        BY <3>2, <4>1 DEF Owns, Written
    <3>3. CASE saver[s].kind # "download"
      BY <3>1, <3>3 DEF Sound, HasOne, OneFile, Whole, BodySize, Body
    <3> QED
      BY <3>2, <3>3
  <2> QED
    BY <2>1, <2>2 DEF TransferIsWhole
<1> QED
  BY <1>1, <1>2, <1>3, PTL DEF TransferSpec
=============================================================================
