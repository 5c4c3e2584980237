------------------------------ MODULE JournalFile ------------------------------
(***************************************************************************)
(* How the run journal replaces the entry of one session (journal.rs       *)
(* write, write_private, get): a temporary file with a fixed name is        *)
(* removed, created, written, synced and renamed over the entry, by         *)
(* processes that may die between any two steps, on a machine that may      *)
(* lose power. The n-th write creates file n and its content is entry n.    *)
(***************************************************************************)
EXTENDS Naturals

CONSTANTS
    Writers,     \* processes that write the entry of this session
    None,        \* no readable entry
    Overlap,     \* may two of them write at the same time?
    MaxWrites,   \* bound: writes
    MaxOutages   \* bound: power failures

ASSUME JournalAssumption ==
    /\ Overlap \in BOOLEAN
    /\ MaxWrites \in Nat /\ MaxOutages \in Nat
    /\ None \notin 1..MaxWrites

VARIABLES
    tmp, path,   \* file under the temporary name and under the entry's, or 0
    data,        \* file -> "none", "empty", "partial", "full", "synced"
    older,       \* files the entry's name may stand for after a power failure
    pc, job,     \* writer -> its place in write, its file
    writes, outages

vars == <<tmp, path, data, older, pc, job, writes, outages>>

Files    == 1..MaxWrites
Contents == {"none", "empty", "partial", "full", "synced"}
Places   == {"idle", "remove", "create", "write", "sync", "rename"}

Init ==
    /\ tmp = 0 /\ path = 0 /\ older = {0}
    /\ data = [i \in Files |-> "none"]
    /\ pc = [w \in Writers |-> "idle"] /\ job = [w \in Writers |-> 0]
    /\ writes = 0 /\ outages = 0

\* get: bytes that are not a complete entry read as no entry.
Entry(i) == IF i # 0 /\ data[i] \in {"full", "synced"} THEN i ELSE None

Goes(w, place) == pc' = [pc EXCEPT ![w] = place]

Begin(w) ==
    /\ pc[w] = "idle" /\ writes < MaxWrites
    /\ Overlap \/ \A v \in Writers : pc[v] = "idle"
    /\ writes' = writes + 1 /\ job' = [job EXCEPT ![w] = writes + 1]
    /\ Goes(w, "remove")
    /\ UNCHANGED <<tmp, path, data, older, outages>>

\* Mutation of RemoveLeftover: a leftover temporary file stays.
RemoveLeftoverNot(w) ==
    /\ pc[w] = "remove" /\ Goes(w, "create")
    /\ UNCHANGED <<tmp, path, data, older, job, writes, outages>>

RemoveLeftover(w) ==
    /\ pc[w] = "remove" /\ Goes(w, "create")
    /\ tmp' = 0
    /\ UNCHANGED <<path, data, older, job, writes, outages>>

\* create_new fails when the name is taken, and with it the write.
Create(w) ==
    /\ pc[w] = "create"
    /\ IF tmp = 0
       THEN /\ tmp' = job[w] /\ data' = [data EXCEPT ![job[w]] = "empty"]
            /\ Goes(w, "write")
       ELSE Goes(w, "idle") /\ UNCHANGED <<tmp, data>>
    /\ UNCHANGED <<path, older, job, writes, outages>>

\* write_all goes on through the open file, whatever its name is by now.
WriteMore(w) ==
    /\ pc[w] = "write"
    /\ \/ data[job[w]] = "empty" /\ data' = [data EXCEPT ![job[w]] = "partial"] /\ UNCHANGED pc
       \/ data' = [data EXCEPT ![job[w]] = "full"] /\ Goes(w, "sync")
    /\ UNCHANGED <<tmp, path, older, job, writes, outages>>

\* Mutation of Sync: the file is not synced before it is renamed.
SyncNot(w) ==
    /\ pc[w] = "sync" /\ Goes(w, "rename")
    /\ UNCHANGED <<tmp, path, data, older, job, writes, outages>>

Sync(w) ==
    /\ pc[w] = "sync" /\ Goes(w, "rename")
    /\ data' = [data EXCEPT ![job[w]] = "synced"]
    /\ UNCHANGED <<tmp, path, older, job, writes, outages>>

\* Mutation of Rename: the entry is a second name of the temporary file.
RenameLinks(w) ==
    /\ pc[w] = "rename" /\ Goes(w, "idle")
    /\ IF tmp = 0 THEN UNCHANGED <<path, older>>
                  ELSE path' = tmp /\ older' = older \cup {tmp}
    /\ UNCHANGED <<tmp, data, job, writes, outages>>

\* The rename moves whatever has the temporary name, or fails without one.
Rename(w) ==
    /\ pc[w] = "rename" /\ Goes(w, "idle")
    /\ IF tmp = 0 THEN UNCHANGED <<tmp, path, older>>
                  ELSE path' = tmp /\ tmp' = 0 /\ older' = older \cup {tmp}
    /\ UNCHANGED <<data, job, writes, outages>>

\* A step fails (disk full), or the process dies: the files stay as they are.
Stops(w) ==
    /\ pc[w] # "idle" /\ Goes(w, "idle")
    /\ UNCHANGED <<tmp, path, data, older, job, writes, outages>>

Write(w) ==
    \/ Begin(w) \/ RemoveLeftover(w) \/ Create(w) \/ WriteMore(w)
    \/ Sync(w) \/ Rename(w) \/ Stops(w)

-----------------------------------------------------------------------------
\* The file system (external): the directory is never synced, so a rename is
\* durable some time later, and a power failure may undo it; what was not
\* synced may be cut short.

DirectoryFlushed ==
    /\ older # {path} /\ older' = {path}
    /\ UNCHANGED <<tmp, path, data, pc, job, writes, outages>>

Cut(d) == IF d \in {"none", "empty", "synced"} THEN {d} ELSE {d, "partial", "empty"}

PowerFails ==
    /\ outages < MaxOutages /\ outages' = outages + 1
    /\ path' \in older /\ older' = {path'}
    /\ tmp' \in {0, tmp} \cup (older \ {path'})
    /\ data' \in [Files -> Contents] /\ \A i \in Files : data'[i] \in Cut(data[i])
    /\ pc' = [w \in Writers |-> "idle"]
    /\ UNCHANGED <<job, writes>>

Next == (\E w \in Writers : Write(w)) \/ DirectoryFlushed \/ PowerFails

Spec == Init /\ [][Next]_vars

-----------------------------------------------------------------------------
\* Properties.

\* Every name stands for a file that was created, and a file has one name.
TypeOK ==
    /\ tmp \in 0..writes /\ path \in 0..writes /\ older \subseteq 0..writes
    /\ path \in older /\ (tmp = path => tmp = 0)
    /\ data \in [Files -> Contents]
    /\ pc \in [Writers -> Places] /\ job \in [Writers -> 0..writes]
    /\ writes \in 0..MaxWrites /\ outages \in 0..MaxOutages

\* Whatever an earlier command left behind when it was killed, the next one
\* can create its temporary file, and renames the file it wrote.
NeverBlocked ==
    \A w \in Writers :
        /\ pc[w] = "create" => tmp = 0
        /\ pc[w] = "rename" => tmp = job[w]

\* Journal::write, line 155: "Writes (creates or replaces) an entry atomically":
\* a reader that found an entry never finds none, or half of one, later.
EntryStays == [][Entry(path) # None => Entry(path)' # None]_vars

\* The same promise as a specification: between any two steps, kills and power
\* failures included, a reader finds the newest finished entry, and after a
\* power failure an older finished one at worst.
Contract ==
    INSTANCE AtomicEntry WITH
        Values <- Files,
        entry  <- Entry(path),
        past   <- {Entry(i) : i \in older}

Atomic == Contract!Spec
=============================================================================
