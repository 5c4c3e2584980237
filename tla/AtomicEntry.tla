------------------------------ MODULE AtomicEntry ------------------------------
(***************************************************************************)
(* What the run journal promises for the entry of one session               *)
(* (journal.rs: "Writes (creates or replaces) an entry atomically"): a      *)
(* reader sees an entry some writer finished, the newest one; only a power  *)
(* failure may bring back an older one that the disk had not forgotten.     *)
(***************************************************************************)
CONSTANTS Values, None

VARIABLES
    entry,     \* what a reader gets
    past,      \* what the disk may still hold instead
    outages    \* power failures so far

vars == <<entry, past, outages>>

Init == entry = None /\ past = {None} /\ outages = 0

Replace(v) ==
    /\ v \notin past /\ entry' = v
    /\ past' = past \cup {v}
    /\ UNCHANGED outages

Commit ==
    /\ past' = {entry}
    /\ UNCHANGED <<entry, outages>>

Revert ==
    /\ entry' \in past /\ past' = {entry'}
    /\ outages' # outages

Next == (\E v \in Values : Replace(v)) \/ Commit \/ Revert

Spec == Init /\ [][Next]_vars
=============================================================================
