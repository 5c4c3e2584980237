----------------------------- MODULE PackageFetch -----------------------------
(***************************************************************************)
(* `cli package fetch`: receipt and artifact of a version are read from the *)
(* registry in two requests, verified against each other, staged in a       *)
(* private directory and published by one rename that replaces nothing.     *)
(* Source: registry.rs execute (fetch), materialize, remove_owned_entry.    *)
(*                                                                          *)
(* Fetches run side by side for one destination; the version may be         *)
(* withdrawn or answered with other content between two requests, a system  *)
(* call may fail, a process may be killed, and another program may make the *)
(* destination.  An artifact is known by its digest.                        *)
(***************************************************************************)
EXTENDS Naturals

CONSTANTS Fetchers,       \* processes running the command
          Artifacts,      \* digests the registry may answer with
          FileCount,      \* files of a package, its receipt the last one
          MaxFetchFaults  \* bound on failing calls and killed processes

ASSUME FetchAssumption ==
    /\ FileCount \in Nat \ {0} /\ MaxFetchFaults \in Nat
    /\ "none" \notin Fetchers /\ "other" \notin Fetchers

VARIABLES
    registry,   \* what the registry answers: an artifact, or "withdrawn"
    fetch,      \* what each fetch does next
    pin,        \* the digest of --sha256, or "any"
    receipt,    \* the artifact the receipt of a fetch names
    payload,    \* the artifact whose bytes a fetch has received
    staging,    \* its private directory: how many files, made or recorded
    target,     \* the destination
    fetchFaults

fetchVars == <<registry, fetch, pin, receipt, payload, staging, target, fetchFaults>>

\* "none": no directory.  A file is recorded once its identity is known.
NoStaging == [made |-> FALSE, files |-> 0, recorded |-> 0]

Absent == [by |-> "none", files |-> 0, receipt |-> "none", payload |-> "none"]
Foreign == [Absent EXCEPT !.by = "other"]

FetchEnded == {"fetched", "failed", "gone"}

FetchTypeOK ==
    /\ registry \in Artifacts \cup {"withdrawn"}
    /\ fetch \in [Fetchers -> {"look", "receipt", "artifact", "mkdir", "open", "write",
                               "publish", "undo", "undodir"} \cup FetchEnded]
    /\ pin \in [Fetchers -> Artifacts \cup {"any"}]
    /\ receipt \in [Fetchers -> Artifacts \cup {"none"}]
    /\ payload \in [Fetchers -> Artifacts \cup {"none"}]
    /\ staging \in [Fetchers -> [made : BOOLEAN, files : 0..FileCount, recorded : 0..FileCount]]
    /\ \A f \in Fetchers : staging[f].recorded <= staging[f].files
    /\ target \in {Absent, Foreign} \cup [by : Fetchers, files : 0..FileCount,
                                          receipt : Artifacts, payload : Artifacts]
    /\ fetchFaults \in 0..MaxFetchFaults

FetchInit ==
    /\ registry \in Artifacts
    /\ fetch = [f \in Fetchers |-> "look"]
    /\ pin \in [Fetchers -> Artifacts \cup {"any"}]
    /\ receipt = [f \in Fetchers |-> "none"] /\ payload = receipt
    /\ staging = [f \in Fetchers |-> NoStaging]
    /\ target = Absent
    /\ fetchFaults = MaxFetchFaults

To(f, step) == fetch' = [fetch EXCEPT ![f] = step]

Works == UNCHANGED fetchFaults
Breaks == fetchFaults > 0 /\ fetchFaults' = fetchFaults - 1

Request == UNCHANGED <<registry, pin, staging, target>>
Local == UNCHANGED <<registry, pin, receipt, payload>>

-----------------------------------------------------------------------------
(* Before anything is written                                               *)

\* The destination must not exist and its parent must be a real directory.
LookForTarget(f) ==
    /\ fetch[f] = "look"
    /\ \/ target = Absent /\ Works /\ To(f, "receipt")
       \/ target # Absent /\ Works /\ To(f, "failed")
       \/ Breaks /\ To(f, "failed")
    /\ Local /\ UNCHANGED <<staging, target>>

\* The receipt must name the reference asked for and the digest of --sha256.
ReceiptSuits(f) == registry # "withdrawn" /\ pin[f] \in {registry, "any"}

AskReceipt(f) ==
    /\ fetch[f] = "receipt"
    /\ \/ /\ ReceiptSuits(f) /\ Works
          /\ receipt' = [receipt EXCEPT ![f] = registry] /\ To(f, "artifact")
       \/ ~ReceiptSuits(f) /\ Works /\ To(f, "failed") /\ UNCHANGED receipt
       \/ Breaks /\ To(f, "failed") /\ UNCHANGED receipt
    /\ Request /\ UNCHANGED payload

\* Mutant: the bytes are taken for those the receipt names.
AskArtifactTrusting(f) ==
    /\ fetch[f] = "artifact"
    /\ \/ registry # "withdrawn" /\ Works /\ To(f, "mkdir")
          /\ payload' = [payload EXCEPT ![f] = registry]
       \/ registry = "withdrawn" /\ Works /\ To(f, "failed") /\ UNCHANGED payload
       \/ Breaks /\ To(f, "failed") /\ UNCHANGED payload
    /\ Request /\ UNCHANGED receipt

\* The bytes must have the digest the receipt names, and be a package of which
\* the receipt lists the files.
ArtifactSuits(f) == registry = receipt[f]

\* Cancellation is looked at once more.
AskArtifact(f) ==
    /\ fetch[f] = "artifact"
    /\ \/ ArtifactSuits(f) /\ Works /\ To(f, "mkdir")
          /\ payload' = [payload EXCEPT ![f] = registry]
       \/ ~ArtifactSuits(f) /\ Works /\ To(f, "failed") /\ UNCHANGED payload
       \/ Breaks /\ To(f, "failed") /\ UNCHANGED payload
    /\ Request /\ UNCHANGED receipt

-----------------------------------------------------------------------------
(* materialize                                                              *)

MakeStaging(f) ==
    /\ fetch[f] = "mkdir"
    /\ \/ Works /\ staging' = [staging EXCEPT ![f].made = TRUE] /\ To(f, "open")
       \/ Breaks /\ UNCHANGED staging /\ To(f, "failed")
    /\ Local /\ UNCHANGED target

\* A directory that cannot be opened again is left where it is.
OpenStaging(f) ==
    /\ fetch[f] = "open"
    /\ \/ Works /\ To(f, "write")
       \/ Breaks /\ To(f, "failed")
    /\ Local /\ UNCHANGED <<staging, target>>

\* Create, record, write, sync; a failure before the record leaves a file that
\* the cleanup does not know.
WriteStaged(f) ==
    LET s == staging[f]
        Stage(files, recorded) ==
            staging' = [staging EXCEPT ![f].files = files, ![f].recorded = recorded]
    IN
    /\ fetch[f] = "write"
    /\ \/ Works /\ Stage(s.files + 1, s.recorded + 1)
          /\ To(f, IF s.files + 1 = FileCount THEN "publish" ELSE "write")
       \/ Breaks /\ To(f, "undo")
          /\ (UNCHANGED staging \/ Stage(s.files + 1, s.recorded) \/ Stage(s.files + 1, s.recorded + 1))
    /\ Local /\ UNCHANGED target

\* Mutant: the rename replaces what is there.
PublishReplacing(f) ==
    /\ fetch[f] = "publish"
    /\ \/ /\ Works
          /\ target' = [by |-> f, files |-> staging[f].files, receipt |-> receipt[f],
                        payload |-> payload[f]]
          /\ staging' = [staging EXCEPT ![f] = NoStaging] /\ To(f, "fetched")
       \/ Breaks /\ To(f, "undo") /\ UNCHANGED <<staging, target>>
    /\ Local

\* The name is looked up once more, and renamed without replacing anything.
PublishStaged(f) ==
    /\ fetch[f] = "publish"
    /\ \/ /\ target = Absent /\ Works
          /\ target' = [by |-> f, files |-> staging[f].files, receipt |-> receipt[f],
                        payload |-> payload[f]]
          /\ staging' = [staging EXCEPT ![f] = NoStaging] /\ To(f, "fetched")
       \/ target # Absent /\ Works /\ To(f, "undo") /\ UNCHANGED <<staging, target>>
       \/ Breaks /\ To(f, "undo") /\ UNCHANGED <<staging, target>>
    /\ Local

\* The recorded files, each of which may stay, and then the directory, which
\* only goes when it is empty.
UndoFiles(f) ==
    LET s == staging[f] IN
    /\ fetch[f] = "undo" /\ To(f, "undodir")
    /\ \/ Works /\ staging' = [staging EXCEPT ![f].files = s.files - s.recorded, ![f].recorded = 0]
       \/ Breaks /\ s.recorded > 0
          /\ staging' = [staging EXCEPT ![f].files = s.files - s.recorded + 1, ![f].recorded = 0]
    /\ Local /\ UNCHANGED target

UndoStaging(f) ==
    /\ fetch[f] = "undodir" /\ To(f, "failed")
    /\ \/ Works /\ staging' = IF staging[f].files = 0 THEN [staging EXCEPT ![f] = NoStaging]
                              ELSE staging
       \/ Breaks /\ UNCHANGED staging
    /\ Local /\ UNCHANGED target

-----------------------------------------------------------------------------
(* The world around                                                         *)

KillFetch(f) ==
    /\ fetch[f] \notin FetchEnded
    /\ Breaks /\ To(f, "gone")
    /\ Local /\ UNCHANGED <<staging, target>>

Withdraw ==
    /\ registry # "withdrawn" /\ registry' = "withdrawn"
    /\ UNCHANGED <<fetch, pin, receipt, payload, staging, target, fetchFaults>>

\* A registry that answers the same version with other content.
AnswerOther ==
    /\ registry' \in Artifacts \ {registry}
    /\ UNCHANGED <<fetch, pin, receipt, payload, staging, target, fetchFaults>>

MakeForeign ==
    /\ target = Absent /\ target' = Foreign
    /\ UNCHANGED <<registry, fetch, pin, receipt, payload, staging, fetchFaults>>

FetchStep(f) ==
    \/ LookForTarget(f) \/ AskReceipt(f) \/ AskArtifact(f) \/ MakeStaging(f) \/ OpenStaging(f)
    \/ WriteStaged(f) \/ PublishStaged(f) \/ UndoFiles(f) \/ UndoStaging(f)

FetchNext ==
    \/ \E f \in Fetchers : FetchStep(f) \/ KillFetch(f)
    \/ Withdraw \/ AnswerOther \/ MakeForeign

FetchSpec == FetchInit /\ [][FetchNext]_fetchVars

-----------------------------------------------------------------------------
(* Properties                                                               *)

\* What a fetch has published is whole and is one artifact: every file and the
\* receipt, the bytes those the receipt names, the digest the pinned one, whatever
\* the registry answered in between and whatever failed on the way.
FetchedIsWhole ==
    target.by \in Fetchers =>
        /\ target.files = FileCount
        /\ target.receipt = target.payload
        /\ pin[target.by] \in {target.payload, "any"}

\* The command succeeds exactly when the destination is its own, and of fetches
\* side by side and other programs only one has it.
FetchedIsMine == \A f \in Fetchers : fetch[f] = "fetched" <=> target.by = f

\* A fetch that fails leaves its private directory only when one of its own calls
\* failed as well: losing the race for the destination leaves nothing.
LostRaceIsClean ==
    fetchFaults = MaxFetchFaults =>
        \A f \in Fetchers : fetch[f] = "failed" => staging[f] = NoStaging

\* The race for a destination has one winner, who is told so, and the losers
\* leave nothing behind.
OneFetchWins == FetchedIsMine /\ LostRaceIsClean
=============================================================================
