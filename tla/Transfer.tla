------------------------------- MODULE Transfer --------------------------------
(***************************************************************************)
(* The commands that save a run's or a publication's files: run download    *)
(* into a directory of its own, run show --output-file and result show      *)
(* --raw --output-file into one file.  Several commands with one            *)
(* destination run side by side, beside a service whose answers fail in the *)
(* middle, a disk that fails, kills at any step and a power failure.        *)
(***************************************************************************)
EXTENDS Naturals, Sequences, FiniteSets

CONSTANTS
    Savers,     \* the commands
    SaveKinds,      \* what they are: subset of {"download", "show", "raw"}
    Manifests,  \* the lists of files a run may have
    SizeOf,     \* the size of each file
    MaxFile,    \* bytes of a file the client accepts
    MaxRun      \* bytes of all files of a run it accepts

\* A path is a sequence of segments; the destination file of the other two
\* commands is a path, too.
Marker  == <<"marker">>
Partial == <<"partial">>
SavedFile   == <<"saved">>

VARIABLES
    saver,      \* what each command does and has done
    dirBy,      \* who made the directory: a command, or "nobody"
    disk        \* the files there are: by whom, how many bytes, synced or not

transferVars == <<saver, dirBy, disk>>

NoFile == [by |-> "nobody", size |-> 0, synced |-> FALSE]
Paths == {Marker, Partial, SavedFile}
            \cup UNION {{m[i] : i \in DOMAIN m} : m \in Manifests}

\* Destinations differ: no file of a run is the one file of another command.
ASSUME TransferAssumption ==
    /\ MaxFile \in Nat /\ MaxRun \in Nat
    /\ SaveKinds \subseteq {"download", "show", "raw"} /\ "nobody" \notin Savers
    /\ \A m \in Manifests : m \in Seq(Paths) /\ \A i \in DOMAIN m : m[i] # SavedFile
    /\ SizeOf \in [Paths -> Nat]

\* got: bytes of the current file; total: bytes of the files before it.
Begun(kind) == [kind |-> kind, at |-> "start", list |-> <<>>, next |-> 1, got |-> 0,
                total |-> 0]

TransferInit ==
    /\ \E k \in [Savers -> SaveKinds] : saver = [s \in Savers |-> Begun(k[s])]
    /\ dirBy = "nobody"
    /\ disk = [p \in Paths |-> NoFile]

-----------------------------------------------------------------------------
Go(s, at) == saver' = [saver EXCEPT ![s].at = at]
Here(s, at, kinds) == saver[s].at = at /\ saver[s].kind \in kinds
OneFile == {"show", "raw"}

\* A path may not be listed twice, lie under another listed one, or be the
\* marker's.
Under(p, q) == Len(p) < Len(q) /\ SubSeq(q, 1, Len(p)) = p
PathsInOrder(m) ==
    /\ \A i \in DOMAIN m : m[i] \notin {Marker, Partial}
    /\ \A i, j \in DOMAIN m : i # j => m[i] # m[j] /\ ~Under(m[i], m[j])

\* create_new: nothing is there, and no file where a directory has to be.
Room(p) == disk[p] = NoFile /\ \A q \in Paths : Under(q, p) => disk[q] = NoFile

Target(s) == IF saver[s].kind \in OneFile THEN SavedFile ELSE saver[s].list[saver[s].next]

\* The cap of the current file: what is left of the run's, for a download.
Cap(s) ==
    IF saver[s].kind \in OneFile \/ MaxRun - saver[s].total > MaxFile
    THEN MaxFile ELSE MaxRun - saver[s].total

-----------------------------------------------------------------------------
\* An existing destination is refused before any request; result show --raw
\* creates its file instead.
Preflight(s) ==
    /\ Here(s, "start", {"download", "show"})
    /\ LET free == IF saver[s].kind = "download" THEN dirBy = "nobody" ELSE disk[SavedFile] = NoFile
       IN Go(s, IF free THEN "manifest" ELSE "refused")
    /\ UNCHANGED <<dirBy, disk>>

\* The manifest of the run; result show reads the publication after its file
\* is created.
ReadManifest(s) ==
    /\ Here(s, "manifest", {"download", "show"})
    /\ \/ \E m \in Manifests :
             saver' = [saver EXCEPT
                 ![s].list = m,
                 ![s].at = IF saver[s].kind = "show"
                           THEN IF m = <<>> THEN "refused" ELSE "create"
                           ELSE IF PathsInOrder(m) THEN "mkdir" ELSE "refused"]
       \/ Go(s, "refused")
    /\ UNCHANGED <<dirBy, disk>>

MakeDirectory(s) ==
    /\ Here(s, "mkdir", {"download"})
    /\ \/ dirBy = "nobody" /\ dirBy' = s /\ Go(s, "create")
       \/ Go(s, "refused") /\ UNCHANGED dirBy
    /\ UNCHANGED disk

Written(s, size, synced) == [by |-> s, size |-> size, synced |-> synced]

\* A failed creation of the one file is a refusal; in a directory it leaves
\* the download incomplete.
CreateFile(s) ==
    /\ \/ Here(s, "create", {"download", "show"})
       \/ Here(s, "start", {"raw"})
    /\ IF saver[s].kind = "download" /\ saver[s].next > Len(saver[s].list)
       THEN Go(s, "marker") /\ UNCHANGED disk
       ELSE \/ /\ Room(Target(s))
               /\ disk' = [disk EXCEPT ![Target(s)] = Written(s, 0, FALSE)]
               /\ saver' = [saver EXCEPT ![s].at = "ask", ![s].got = 0]
            \/ /\ Go(s, IF saver[s].kind = "download" THEN "incomplete" ELSE "refused")
               /\ UNCHANGED disk
    /\ UNCHANGED dirBy

\* After its error a command removes the one file it created, by name, and
\* keeps what a download wrote.
Fails(s) == Go(s, IF saver[s].kind \in OneFile THEN "remove" ELSE "incomplete")

AskFile(s) ==
    /\ saver[s].at = "ask"
    /\ Go(s, "read") \/ Fails(s)
    /\ UNCHANGED <<dirBy, disk>>

\* Size of the body of the current answer.
BodySize(s) == SizeOf[IF saver[s].kind = "raw" THEN SavedFile ELSE saver[s].list[saver[s].next]]

\* One buffer of the body, unless it exceeds the cap, the connection fails, or
\* the disk does.
ReadSome(s) ==
    /\ saver[s].at = "read" /\ saver[s].got < BodySize(s)
    /\ \/ /\ saver[s].got < Cap(s)
          /\ saver' = [saver EXCEPT ![s].got = @ + 1]
          /\ disk' = [disk EXCEPT ![Target(s)] = Written(s, saver[s].got + 1, FALSE)]
       \/ Fails(s) /\ UNCHANGED disk
    /\ UNCHANGED dirBy

\* Mutant: a connection that closes ends the body.
SyncFileEarly(s) ==
    /\ saver[s].at = "read" /\ saver[s].got <= BodySize(s)
    /\ disk' = [disk EXCEPT ![Target(s)] = Written(s, saver[s].got, TRUE)]
    /\ saver' = IF saver[s].kind \in OneFile THEN [saver EXCEPT ![s].at = "ok"]
                ELSE [saver EXCEPT ![s].at = "create", ![s].next = @ + 1,
                                   ![s].total = @ + saver[s].got]
    /\ UNCHANGED dirBy

\* The end of the body: the file is synced before anything is said of it.
SyncFile(s) ==
    /\ saver[s].at = "read" /\ saver[s].got = BodySize(s)
    /\ \/ /\ disk' = [disk EXCEPT ![Target(s)] = Written(s, saver[s].got, TRUE)]
          /\ saver' = IF saver[s].kind \in OneFile THEN [saver EXCEPT ![s].at = "ok"]
                      ELSE [saver EXCEPT ![s].at = "create", ![s].next = @ + 1,
                                         ![s].total = @ + saver[s].got]
       \/ Fails(s) /\ UNCHANGED disk
    /\ UNCHANGED dirBy

\* The handle is dropped and the name removed; a failure of it is not reported.
RemoveFile(s) ==
    /\ Here(s, "remove", OneFile)
    /\ disk' = [disk EXCEPT ![SavedFile] = NoFile] \/ UNCHANGED disk
    /\ Go(s, "failed")
    /\ UNCHANGED dirBy

-----------------------------------------------------------------------------
\* The marker is written under another name, synced, and linked.

WritePartial(s) ==
    /\ Here(s, "marker", {"download"})
    /\ \/ disk' = [disk EXCEPT ![Partial] = Written(s, 1, TRUE)] /\ Go(s, "link")
       \/ \E some \in 0..1 :
              disk' = [disk EXCEPT ![Partial] = Written(s, some, FALSE)] /\ Go(s, "incomplete")
       \/ Go(s, "incomplete") /\ UNCHANGED disk
    /\ UNCHANGED dirBy

\* A file system without links renames.
LinkMarker(s) ==
    /\ Here(s, "link", {"download"})
    /\ \/ disk[Marker] = NoFile /\ disk' = [disk EXCEPT ![Marker] = disk[Partial]]
          /\ Go(s, "unlink")
       \/ disk' = [disk EXCEPT ![Marker] = disk[Partial], ![Partial] = NoFile] /\ Go(s, "ok")
       \/ Go(s, "incomplete") /\ UNCHANGED disk
    /\ UNCHANGED dirBy

\* The marker stands even when its other name cannot be removed.
UnlinkPartial(s) ==
    /\ Here(s, "unlink", {"download"})
    /\ \/ disk' = [disk EXCEPT ![Partial] = NoFile] /\ Go(s, "ok")
       \/ Go(s, "incomplete") /\ UNCHANGED disk
    /\ UNCHANGED dirBy

-----------------------------------------------------------------------------
Over == {"ok", "refused", "incomplete", "failed", "killed"}

\* kill -9 (an interrupt ends a command like any other error).
TransferKilled(s) ==
    /\ saver[s].at \notin Over
    /\ Go(s, "killed")
    /\ UNCHANGED <<dirBy, disk>>

\* Only what was synced is there in full after a power failure.
TransferPowerFails ==
    /\ \E s \in Savers : saver[s].at # "killed"
    /\ saver' = [s \in Savers |-> [saver[s] EXCEPT !.at = "killed"]]
    /\ \E cut \in SUBSET {p \in Paths : disk[p].size > 0 /\ ~disk[p].synced} :
           disk' = [p \in Paths |-> IF p \in cut THEN [disk[p] EXCEPT !.size = 0] ELSE disk[p]]
    /\ UNCHANGED dirBy

TransferNext ==
    \/ \E s \in Savers :
          \/ Preflight(s) \/ ReadManifest(s) \/ MakeDirectory(s) \/ CreateFile(s)
          \/ AskFile(s) \/ ReadSome(s) \/ SyncFile(s) \/ RemoveFile(s)
          \/ WritePartial(s) \/ LinkMarker(s) \/ UnlinkPartial(s) \/ TransferKilled(s)
    \/ TransferPowerFails

TransferSpec == TransferInit /\ [][TransferNext]_transferVars

-----------------------------------------------------------------------------
TransferTypeOK ==
    /\ \A s \in Savers :
          /\ saver[s].at \in Over \cup {"start", "manifest", "mkdir", "create", "ask", "read",
                                        "remove", "marker", "link", "unlink"}
          /\ saver[s].list \in Manifests \cup {<<>>}
          /\ saver[s].next \in 1..(Len(saver[s].list) + 1)
    /\ dirBy \in Savers \cup {"nobody"}
    /\ \A p \in Paths : disk[p].by \in Savers \cup {"nobody"} /\ disk[p].size \in Nat

Whole(s, p, size) == disk[p] = Written(s, size, TRUE)

\* "The marker is the completion signal" (docs/service/run-records.md:45):
\* whatever was killed or failed, and after a power failure, a directory with
\* a marker has every file of the run in full, written by the same download.
MarkerMeansWhole ==
    disk[Marker] # NoFile =>
        LET s == disk[Marker].by
        IN /\ dirBy = s /\ disk[Marker].size = 1
           /\ \A i \in DOMAIN saver[s].list :
                 Whole(s, saver[s].list[i], SizeOf[saver[s].list[i]])

\* A command that reports success has saved the whole file or the whole run,
\* within the limits, and a destination of two commands belongs to one.
SavedIsWhole ==
    \A s \in Savers : saver[s].at = "ok" =>
        IF saver[s].kind = "download" THEN disk[Marker].by = s /\ saver[s].total <= MaxRun
        ELSE Whole(s, SavedFile, BodySize(s)) /\ BodySize(s) <= MaxFile

TransferIsWhole == MarkerMeansWhole /\ SavedIsWhole
=============================================================================
