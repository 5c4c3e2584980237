------------------------------- MODULE MCRests --------------------------------
(***************************************************************************)
(* States in which the components that two instances share come to rest:   *)
(* the command has ended, and nothing of it goes on.                        *)
(***************************************************************************)
EXTENDS DeviceLogin, InstalledRun, WindowsRun, ProbeRun

LoginRests ==
    /\ platform = "linux" /\ step = "done" /\ said = "cancelled"
    /\ now = 0 /\ interval = FirstInterval /\ elapsed = 0 /\ wake = 0 /\ polls = 0
    /\ approved = FALSE /\ answer = "none" /\ key = "none"
    /\ write = "no" /\ confirmed = FALSE /\ interrupted = TRUE

InstalledRests ==
    /\ adapter = "inline" /\ exclusive = TRUE
    /\ doing = [p \in Processes |-> IF p = Runner THEN "done" ELSE "idle"]
    /\ supervised = "none" /\ result = "error"
    /\ dir = NoDirectory /\ ticket = FALSE /\ daemon = "none"
    /\ faults = MaxFaults

WindowsRests ==
    /\ hostAt = "none" /\ cause = "none" /\ io = <<>> /\ input = "done"
    /\ pumped = FALSE /\ ended = FALSE /\ counted = 0 /\ remaining = FALSE
    /\ events = <<>> /\ hostExit = "none"
    /\ leader = "none" /\ kin = FALSE /\ condemned = FALSE /\ pipe = <<>> /\ wrote = <<>>
    /\ wire = <<>> /\ diagnosed = "no" /\ control = "open"
    /\ clientAt = "done" /\ pending = "none" /\ cancelSent = FALSE
    /\ decoder = NoLines /\ records = <<>> /\ returned = "refused"
=============================================================================
