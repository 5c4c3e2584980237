----------------------------- MODULE DeviceLogin ------------------------------
(***************************************************************************)
(* `cli auth login`: the device code is polled against its expiry, and the  *)
(* granted key is written to the credential store of the operating system   *)
(* and read back.  Source: service_account.rs execute, Session; the stores  *)
(* in credential_store.rs: the Secret Service (one write) and the keychain  *)
(* (remove, then add).                                                      *)
(*                                                                          *)
(* The command can be cancelled at any time, the service answers what it    *)
(* likes, and a store may hang, fail, or carry out a write after the tool   *)
(* that asked for it was killed.  Time counts from the device code.         *)
(***************************************************************************)
EXTENDS Integers

CONSTANTS Expiry,       \* expires_in of the device code
          FirstInterval,\* interval of the device code
          SlowStep,     \* what slow_down adds to the interval (5 in the code)
          MaxInterval,  \* cap of the interval (30 in the code)
          MaxPolls      \* polls of one login (180 in the code)

VARIABLES
    platform,   \* "linux" or "macos": which store is used
    step,       \* what the login does next
    said,       \* how the login ended
    now,        \* time since the device code was issued
    interval,   \* current interval between polls
    elapsed,    \* sum of the intervals so far
    wake,       \* end of the current pause
    polls,      \* rounds so far
    approved,   \* whether the user has approved the code
    answer,     \* the answer to the last poll
    key,        \* what the store holds: no key, an older one, the granted one
    write,      \* the write of the granted key: not begun, under way, carried out
    confirmed,  \* whether the store confirmed the write
    interrupted \* whether the command was cancelled

loginVars == <<platform, step, said, now, interval, elapsed, wake, polls, approved, answer,
               key, write, confirmed, interrupted>>

\* "unknown": cancelled before the store confirmed; "store", "service" and
\* "protocol": the store or the service failed.
Endings == {"running", "ok", "cancelled", "expired", "denied", "unknown", "store", "service",
            "protocol"}

\* Endings whose reason says "nothing was stored" (login_ended).
SaysNothingStored == {"cancelled", "expired", "denied"}

Answers == {"none", "pending", "slow_down", "complete", "expired_token", "refused", "invalid",
            "lost"}

LoginTypeOK ==
    /\ platform \in {"linux", "macos"}
    /\ step \in {"look", "device", "round", "pause", "poll", "receive", "set", "remove", "add",
                 "wait", "verify", "done"}
    /\ said \in Endings
    /\ now \in 0..(Expiry + 1)
    /\ interval \in FirstInterval..MaxInterval
    /\ elapsed \in 0..(Expiry + MaxInterval)
    /\ wake \in 0..(2 * Expiry)
    /\ polls \in 0..MaxPolls
    /\ approved \in BOOLEAN
    /\ answer \in Answers
    /\ key \in {"none", "old", "granted"}
    /\ write \in {"no", "begun", "done"}
    /\ confirmed \in BOOLEAN
    /\ interrupted \in BOOLEAN

LoginInit ==
    /\ platform \in {"linux", "macos"}
    /\ step = "look" /\ said = "running"
    /\ now = 0 /\ interval = FirstInterval /\ elapsed = 0 /\ wake = 0 /\ polls = 0
    /\ approved = FALSE /\ answer = "none"
    /\ key \in {"none", "old"}
    /\ write = "no" /\ confirmed = FALSE
    /\ interrupted = FALSE

Clock == <<now, interval, elapsed, wake, polls>>
Store == <<key, write, confirmed>>
World == <<platform, approved, interrupted>>

End(how) == step' = "done" /\ said' = how
GoOn(next) == step' = next /\ UNCHANGED said

\* The device code has a deadline once it was issued.
CodeExpired == step \notin {"look", "device"} /\ now >= Expiry

\* Session::check: cancellation first, then the deadline.
CheckFails == interrupted \/ CodeExpired
CheckError == IF interrupted THEN "cancelled" ELSE "expired"

-----------------------------------------------------------------------------
(* The device code                                                          *)

\* The store is read once before anything is asked of the service.  The keychain
\* may ask the user, and stores a key of another program anew: remove, then add,
\* whatever becomes of the second.
LookInStore ==
    /\ step = "look"
    /\ \/ CheckFails /\ End(CheckError) /\ UNCHANGED key
       \/ ~CheckFails /\ GoOn("device")
          /\ key' \in IF platform = "macos" THEN {key, "none"} ELSE {key}
       \/ ~CheckFails /\ End("store") /\ UNCHANGED key
       \/ ~CheckFails /\ platform = "macos" /\ End("cancelled") /\ UNCHANGED key
    /\ UNCHANGED <<Clock, write, confirmed, World, answer>>

AskCode ==
    /\ step = "device"
    /\ \/ CheckFails /\ End(CheckError)
       \/ ~CheckFails /\ (GoOn("round") \/ End("service") \/ End("protocol"))
    /\ UNCHANGED <<Clock, Store, World, answer>>

\* A round is only begun if its pause can end before the expiry.
BeginRound ==
    /\ step = "round"
    /\ IF polls = MaxPolls
       THEN End("expired") /\ UNCHANGED <<elapsed, polls, wake>>
       ELSE /\ polls' = polls + 1 /\ elapsed' = elapsed + interval
            /\ IF elapsed' >= Expiry \/ CodeExpired
               THEN End("expired") /\ UNCHANGED wake
               ELSE GoOn("pause") /\ wake' = now + interval
    /\ UNCHANGED <<now, interval, Store, World, answer>>

PauseEnds ==
    /\ step = "pause"
    /\ \/ CheckFails /\ End(CheckError)
       \/ ~CheckFails /\ now >= wake /\ GoOn("poll")
    /\ UNCHANGED <<Clock, Store, World, answer>>

\* The service grants a key only for an approved code; the answer may be lost.
SendPoll ==
    /\ step = "poll"
    /\ \/ CheckFails /\ End(CheckError) /\ UNCHANGED answer
       \/ /\ ~CheckFails /\ GoOn("receive")
          /\ answer' \in {"slow_down", "expired_token", "refused", "invalid", "lost"}
                         \cup (IF approved THEN {"complete"} ELSE {"pending"})
    /\ UNCHANGED <<Clock, Store, World>>

Slower(i) == IF i + SlowStep > MaxInterval THEN MaxInterval ELSE i + SlowStep

AnswerTaken ==
    \/ answer = "pending" /\ GoOn("round") /\ UNCHANGED interval
    \/ answer = "slow_down" /\ GoOn("round") /\ interval' = Slower(interval)
    \/ answer = "complete" /\ GoOn("set") /\ UNCHANGED interval
    \/ answer = "expired_token" /\ End("expired") /\ UNCHANGED interval
    \/ answer = "refused" /\ End("denied") /\ UNCHANGED interval
    \/ answer = "invalid" /\ End("protocol") /\ UNCHANGED interval
    \/ answer = "lost" /\ End("service") /\ UNCHANGED interval

\* Cancellation and deadline are looked at before the answer is: a key granted
\* too late is dropped.
ReceiveAnswer ==
    /\ step = "receive"
    /\ \/ CheckFails /\ End(CheckError) /\ UNCHANGED interval
       \/ ~CheckFails /\ AnswerTaken
    /\ UNCHANGED <<now, elapsed, wake, polls, Store, World, answer>>

-----------------------------------------------------------------------------
(* The credential store                                                     *)

\* Mutants: a cancelled write is a cancelled login; a store that hangs is waited for.
WriteCancelledPlainly == End("cancelled")
\* What a write that was cut by cancellation, or by the bound of the tool, reports.
WriteCancelled == End("unknown")

WriteTimedOut == End("store")

\* Session::store("set"): nothing was asked of the store yet.
BeginSet ==
    /\ step = "set"
    /\ \/ CheckFails /\ End(CheckError)
       \/ ~CheckFails /\ (GoOn(IF platform = "macos" THEN "remove" ELSE "add") \/ End("store"))
    /\ UNCHANGED <<Clock, Store, World, answer>>

\* The keychain item is removed first; the user may deny that in a prompt.
RemoveItem ==
    /\ step = "remove"
    /\ \/ GoOn("add") /\ key' = "none"
       \/ End("cancelled") /\ UNCHANGED key
       \/ End("store") /\ UNCHANGED key
    /\ UNCHANGED <<Clock, write, confirmed, World, answer>>

RemoveCut ==
    /\ step = "remove"
    /\ (interrupted /\ WriteCancelled) \/ WriteTimedOut
    /\ key' \in {key, "none"}
    /\ UNCHANGED <<Clock, write, confirmed, World, answer>>

BeginWrite ==
    /\ step = "add"
    /\ GoOn("wait") /\ write' = "begun"
    /\ UNCHANGED <<Clock, key, confirmed, World, answer>>

\* The store carries out a write it was asked for, even if nobody waits any more.
WriteLands ==
    /\ write = "begun"
    /\ write' = "done" /\ key' = "granted"
    /\ UNCHANGED <<step, said, Clock, confirmed, World, answer>>

\* The tool answers, is cancelled, or is killed at its bound.
WriteAnswered ==
    /\ step = "wait"
    /\ \/ write = "done" /\ GoOn("verify") /\ confirmed' = TRUE /\ UNCHANGED write
       \/ /\ write = "begun" /\ write' = "no" /\ UNCHANGED confirmed
          /\ \/ End("store")
             \/ platform = "macos" /\ End("cancelled")
    /\ UNCHANGED <<Clock, key, World, answer>>

WriteCut ==
    /\ step = "wait"
    /\ \/ interrupted /\ WriteCancelled
       \/ WriteTimedOut
    /\ UNCHANGED <<Clock, Store, World, answer>>

\* The key is read back, behind the same check as every store operation; the
\* user may deny that, too.
Verify ==
    /\ step = "verify"
    /\ \/ CheckFails /\ End(CheckError)
       \/ ~CheckFails /\ (End(IF key = "granted" THEN "ok" ELSE "store") \/ End("store"))
       \/ ~CheckFails /\ platform = "macos" /\ End("cancelled")
    /\ UNCHANGED <<Clock, Store, World, answer>>

-----------------------------------------------------------------------------
(* The world around                                                         *)

Approve ==
    /\ ~approved /\ step # "done" /\ approved' = TRUE
    /\ UNCHANGED <<step, said, Clock, Store, platform, interrupted, answer>>

LoginCancel ==
    /\ ~interrupted /\ step # "done" /\ interrupted' = TRUE
    /\ UNCHANGED <<step, said, Clock, Store, platform, approved, answer>>

\* Another command of the same user signs out.
SignOutElsewhere ==
    /\ key # "none" /\ step # "done" /\ key' = "none"
    /\ UNCHANGED <<step, said, Clock, write, confirmed, World, answer>>

Tick ==
    /\ step \notin {"look", "device", "done"} /\ now <= Expiry
    /\ now' = now + 1
    /\ UNCHANGED <<step, said, interval, elapsed, wake, polls, Store, World, answer>>

Login ==
    \/ LookInStore \/ AskCode \/ BeginRound \/ PauseEnds \/ SendPoll \/ ReceiveAnswer
    \/ BeginSet \/ RemoveCut \/ BeginWrite \/ WriteCut \/ Verify

LoginNext ==
    \/ Login \/ RemoveItem \/ WriteAnswered
    \/ WriteLands \/ Approve \/ LoginCancel \/ SignOutElsewhere \/ Tick

LoginSpec == LoginInit /\ [][LoginNext]_loginVars

\* The command goes on, and time passes.  The store owes no answer: only the
\* command's own steps are fair.
LoginFairness == WF_loginVars(Login) /\ WF_loginVars(Tick)

-----------------------------------------------------------------------------
(* Properties                                                               *)

\* Until the store has confirmed the key, a login that says "nothing was stored"
\* is right, and no write of it is still under way that could store the key later.
UnconfirmedClaim ==
    said \in SaysNothingStored /\ ~confirmed => key # "granted" /\ write = "no"

\* Every login ends, whatever the service answers and even if the store never does.
LoginEnds == <>(step = "done")
=============================================================================
