------------------------------ MODULE SettledRun ------------------------------
(***************************************************************************)
(* What a supervised run promises its caller (cli/SPEC.md section 10, items *)
(* 12 to 15), with no threads, pipes or waits: a run is refused or started  *)
(* once, the first cause that ends it is the one reported, nothing of the   *)
(* owned process group is left behind a report other than CleanupFailed,    *)
(* and a dead group never comes back.                                       *)
(***************************************************************************)
CONSTANTS
    Causes,    \* failures that end a run from outside its stream
    Verdicts   \* what a run whose streams ended may earn

VARIABLES
    phase,     \* "idle", "running", "ended"
    alive,     \* the owned process group has a member
    cause,     \* the first cause that ended the run, or "none"
    result     \* what the caller was told, "none" before

vars == <<phase, alive, cause, result>>

Init == phase = "idle" /\ alive = FALSE /\ cause = "none" /\ result = "none"

Refuse(r) ==
    /\ phase = "idle" /\ r \in Causes
    /\ phase' = "ended" /\ result' = r
    /\ UNCHANGED <<alive, cause>>

\* A start may already carry the cause that ends it: a pipe was unusable.
Start ==
    /\ phase = "idle"
    /\ phase' = "running" /\ alive' = TRUE
    /\ cause' \in Causes \cup {"none"}
    /\ UNCHANGED result

\* The look that finds the cause may also collect the last member.
Fail(c) ==
    /\ phase = "running" /\ cause = "none" /\ c \in Causes
    /\ cause' = c /\ alive' \in {alive, FALSE}
    /\ UNCHANGED <<phase, result>>

Dies ==
    /\ alive /\ alive' = FALSE
    /\ UNCHANGED <<phase, cause, result>>

Settle(r) ==
    /\ phase = "running" /\ ~alive
    /\ IF cause = "none" THEN r \in Verdicts ELSE r = cause
    /\ phase' = "ended" /\ result' = r
    /\ UNCHANGED <<alive, cause>>

\* The group may die with the step that gives up on it, or stay.
GiveUp ==
    /\ phase = "running"
    /\ phase' = "ended" /\ result' = "CleanupFailed"
    /\ alive' \in {alive, FALSE}
    /\ UNCHANGED cause

Next ==
    \/ \E r \in Causes : Refuse(r) \/ Fail(r)
    \/ Start \/ Dies \/ GiveUp
    \/ \E r \in Causes \cup Verdicts : Settle(r)

Spec == Init /\ [][Next]_vars
=============================================================================
