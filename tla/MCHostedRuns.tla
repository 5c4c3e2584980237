---------------------------- MODULE MCHostedRuns -----------------------------
(***************************************************************************)
(* Small instances of HostedRuns: two commands of one machine.              *)
(***************************************************************************)
EXTENDS HostedRuns, TLC

\* Commands and sessions are interchangeable (safety runs only).
Symmetry == Permutations(Procs) \cup Permutations(Sessions)

\* Bound: one of the two commands is ended from outside, by the user, by its
\* deadline or by a crash.
OneIsEnded ==
    \A p, q \in Procs :
       p # q => ~( /\ cli[p].token \/ cli[p].hit \/ cli[p].pc = "crashed"
                   /\ cli[q].token \/ cli[q].hit \/ cli[q].pc = "crashed" )
=============================================================================
