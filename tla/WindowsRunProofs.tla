--------------------------- MODULE WindowsRunProofs ---------------------------
(***************************************************************************)
(* The account of the process tree on Windows, and what a success there     *)
(* means, for every capacity, limit and harness.                            *)
(***************************************************************************)
EXTENDS WindowsRun, Integers, TLAPS

-----------------------------------------------------------------------------
(* The inductive invariant                                                  *)

\* The lines of the host, and the messages of its threads.
EventLines == OutKinds \cup {"started", "exited", "cut"}
Messages   == OutKinds \cup {"end", "stdinFailed"}

LinesType ==
    /\ events \in Seq(EventLines) /\ wire \in Seq(EventLines) /\ io \in Seq(Messages)
    /\ pipe \in Seq(OutKinds)
    /\ decoder \in [started : BOOLEAN, out : Nat, evidence : BOOLEAN, poisoned : BOOLEAN]
    /\ hostAt \in HostSteps

\* Nothing has been started before the host has its request.
NoTreeYet ==
    /\ clientAt = "start" => hostAt = "none"
    /\ hostAt \in {"none", "request"} => ~Alive

\* The host of a client that looks back is gone, and took the Job with it.
GoneIsCondemned ==
    /\ hostAt = "gone" => condemned
    /\ clientAt = "verdict" \/ returned \notin {"none", "refused"} => hostAt = "gone"

\* The line "exited" is in a queue.
Says(line, queue) == \E i \in 1..Len(queue) : queue[i] = line

\* The host has looked at the Job: it is past that step, or its account of the
\* end is on its way or heard.
JobWasSeen ==
    \/ hostAt \in {"joinInput", "settle", "joinReaders", "flush"}
    \/ Says("exited", events) \/ Says("exited", wire) \/ decoder.evidence

\* An account that says the Job is empty is true, and the host has a tree by then.
AccountIsTrue ==
    JobWasSeen => /\ ~remaining => ~Alive
                  /\ hostAt \in {"joinInput", "settle", "joinReaders", "flush", "gone"}

IInv == LinesType /\ NoTreeYet /\ GoneIsCondemned /\ AccountIsTrue /\ TreeIsAccountedFor

-----------------------------------------------------------------------------
(* Lemmas on queues                                                         *)

\* Sending and receiving a line, and what the queue says then.
LEMMA SaysAfterSend ==
  ASSUME NEW q \in Seq(EventLines), NEW m \in EventLines
  PROVE  /\ Append(q, m) \in Seq(EventLines)
         /\ m # "exited" /\ Says("exited", Append(q, m)) => Says("exited", q)
BY DEF Says

LEMMA SaysAfterReceive ==
  ASSUME NEW q \in Seq(EventLines), q # <<>>
  PROVE  /\ Tail(q) \in Seq(EventLines) /\ Head(q) \in EventLines
         /\ Head(q) = "exited" \/ Says("exited", Tail(q)) => Says("exited", q)
BY DEF Says

\* The same for the messages of the threads, of which only the types matter.
LEMMA QueueTypes ==
  ASSUME NEW S, NEW q \in Seq(S)
  PROVE  /\ \A m \in S : Append(q, m) \in Seq(S)
         /\ q # <<>> => Tail(q) \in Seq(S) /\ Head(q) \in S
OBVIOUS

\* The decoder keeps its type.
LEMMA DecoderTypes ==
  ASSUME LinesType,
         \/ decoder' = decoder
         \/ decoder' = [decoder EXCEPT !.poisoned = TRUE]
         \/ decoder' = [decoder EXCEPT !.started = TRUE]
         \/ decoder' = [decoder EXCEPT !.evidence = TRUE]
         \/ decoder' = [decoder EXCEPT !.out = @ + 1]
  PROVE  decoder' \in [started : BOOLEAN, out : Nat, evidence : BOOLEAN, poisoned : BOOLEAN]
<1>1. [decoder EXCEPT !.poisoned = TRUE]
        \in [started : BOOLEAN, out : Nat, evidence : BOOLEAN, poisoned : BOOLEAN]
  BY DEF LinesType
<1>2. [decoder EXCEPT !.started = TRUE]
        \in [started : BOOLEAN, out : Nat, evidence : BOOLEAN, poisoned : BOOLEAN]
  BY DEF LinesType
<1>3. [decoder EXCEPT !.evidence = TRUE]
        \in [started : BOOLEAN, out : Nat, evidence : BOOLEAN, poisoned : BOOLEAN]
  BY DEF LinesType
<1>4. [decoder EXCEPT !.out = @ + 1]
        \in [started : BOOLEAN, out : Nat, evidence : BOOLEAN, poisoned : BOOLEAN]
  <2>1. decoder \in [started : BOOLEAN, out : Nat, evidence : BOOLEAN, poisoned : BOOLEAN]
    BY DEF LinesType
  <2>2. ASSUME NEW d \in [started : BOOLEAN, out : Nat, evidence : BOOLEAN, poisoned : BOOLEAN]
        PROVE  [d EXCEPT !.out = d.out + 1]
                 \in [started : BOOLEAN, out : Nat, evidence : BOOLEAN, poisoned : BOOLEAN]
    OBVIOUS
  <2> QED
    BY <2>1, <2>2
<1> QED
  BY <1>1, <1>2, <1>3, <1>4 DEF LinesType

\* An empty queue says nothing.
LEMMA SaysNothing == ASSUME NEW line PROVE ~Says(line, <<>>)
BY DEF Says

\* A host that fails, or is killed, may cut a line, and says no more than it did.
LEMMA CutLine ==
  ASSUME LinesType, wire' = wire \/ wire' = Append(wire, "cut")
  PROVE  wire' \in Seq(EventLines) /\ (Says("exited", wire') => Says("exited", wire))
<1>1. "cut" \in EventLines
  BY DEF EventLines
<1>2. wire \in Seq(EventLines)
  BY DEF LinesType
<1> QED
  BY <1>1, <1>2, SaysAfterSend

LEMMA FailsLines ==
  ASSUME LinesType, HostFails
  PROVE  /\ events' = <<>> /\ io' = <<>> /\ pipe' = <<>> /\ hostAt' = "gone" /\ condemned'
         /\ wire' \in Seq(EventLines) /\ (Says("exited", wire') => Says("exited", wire))
BY CutLine DEF HostFails, HostEnds

\* apply_io_message: what it takes is a message, and what it says is not the end.
LEMMA AdmitLines ==
  ASSUME LinesType, io # <<>>, NEW next \in HostSteps, Admit(Head(io), next)
  PROVE  \/ HostFails
         \/ /\ hostAt' = next /\ io' \in Seq(Messages) /\ events' \in Seq(EventLines)
            /\ (Says("exited", events') => Says("exited", events))
            /\ UNCHANGED <<pipe, wire, condemned>>
<1>1. io' = Tail(io) => io' \in Seq(Messages)
  BY DEF LinesType
<1>2. events \in Seq(EventLines)
  BY DEF LinesType
<1>3. CASE Head(io) \in OutKinds
  <2>1. \/ HostFails
        \/ /\ hostAt' = next /\ io' = Tail(io) /\ UNCHANGED <<pipe, wire, condemned>>
           /\ events' = events \/ events' = Append(events, Head(io))
    BY <1>3 DEF Admit, HostGoes, OutKinds
  <2>2. /\ Append(events, Head(io)) \in Seq(EventLines)
        /\ Says("exited", Append(events, Head(io))) => Says("exited", events)
    <3>1. Head(io) \in EventLines /\ Head(io) # "exited"
      BY <1>3 DEF EventLines, OutKinds
    <3> QED
      BY <1>2, <3>1, SaysAfterSend
  <2> QED
    BY <1>1, <1>2, <2>1, <2>2
<1>4. CASE Head(io) \notin OutKinds
  <2>1. events' = events /\ hostAt' = next /\ io' = Tail(io) /\ UNCHANGED <<pipe, wire, condemned>>
    BY <1>4 DEF Admit, HostGoes
  <2> QED
    BY <1>1, <2>1 DEF LinesType
<1> QED
  BY <1>3, <1>4

-----------------------------------------------------------------------------
(* Every step keeps it                                                     *)

\* The tree and the threads of the host.
LEMMA TreeKeeps == ASSUME IInv, TreeWrites \/ ChildEnds \/ KinEnds \/ Pump \/ WriteInput \/ WriteEvent PROVE IInv'
<1> USE SaysNothing
    DEF IInv, LinesType, NoTreeYet, GoneIsCondemned, AccountIsTrue, JobWasSeen,
        TreeIsAccountedFor, Alive, EventLines, Messages, OutKinds, HostSteps, HostRuns,
        HostEnds, HostGoes, hostVars, treeVars, lineVars, clientVars
<1>1. CASE TreeWrites
  BY <1>1 DEF TreeWrites
<1>2. CASE ChildEnds
  BY <1>2 DEF ChildEnds
<1>3. CASE KinEnds
  BY <1>3 DEF KinEnds
<1>4. CASE Pump
  <2>1. io' \in Seq(Messages) /\ pipe' \in Seq(OutKinds)
    <3> HIDE DEF OutKinds, Messages
    <3>1. "end" \in Messages /\ OutKinds \subseteq Messages
      BY DEF Messages
    <3>2. \A m \in Messages : Append(io, m) \in Seq(Messages)
      BY QueueTypes
    <3>3. pipe # <<>> => Tail(pipe) \in Seq(OutKinds) /\ Head(pipe) \in OutKinds
      BY QueueTypes
    <3> QED
      BY <1>4, <3>1, <3>2, <3>3 DEF Pump
  <2> QED
    BY <1>4, <2>1 DEF Pump
<1>5. CASE WriteInput
  <2>1. io' \in Seq(Messages)
    <3> HIDE DEF Messages
    <3>1. "stdinFailed" \in Messages
      BY DEF Messages
    <3>2. Append(io, "stdinFailed") \in Seq(Messages)
      BY <3>1, QueueTypes
    <3> QED
      BY <1>5, <3>2 DEF WriteInput
  <2> QED
    BY <1>5, <2>1 DEF WriteInput
<1>6. CASE WriteEvent
  <2> HIDE DEF EventLines, IInv
  <2>1. events \in Seq(EventLines) /\ wire \in Seq(EventLines) /\ events # <<>>
    BY <1>6 DEF WriteEvent, IInv
  <2>2. events' \in Seq(EventLines) /\ wire' \in Seq(EventLines)
    BY <1>6, <2>1, SaysAfterSend, SaysAfterReceive DEF WriteEvent
  <2>3. Says("exited", events') \/ Says("exited", wire') =>
            Says("exited", events) \/ Says("exited", wire)
    BY <1>6, <2>1, SaysAfterSend, SaysAfterReceive DEF WriteEvent
  <2> QED
    BY <1>6, <2>2, <2>3 DEF WriteEvent, IInv
<1> QED
  BY <1>1, <1>2, <1>3, <1>4, <1>5, <1>6

\* The main thread of the host.
LEMMA HostKeeps == ASSUME IInv, \/ HostStep \/ HostKills \/ HostCrashes PROVE IInv'
<1> USE SaysNothing
    DEF IInv, LinesType, NoTreeYet, GoneIsCondemned, AccountIsTrue, JobWasSeen,
        TreeIsAccountedFor, Alive, EventLines, Messages, OutKinds, HostSteps, HostRuns,
        HostEnds, HostGoes, hostVars, treeVars, lineVars, clientVars
<1>1. CASE HostRefuses
  BY <1>1, FailsLines DEF HostRefuses
<1>2. CASE HostStarts
  <2>1. events' \in Seq(EventLines) /\ ~Says("exited", events')
    BY <1>2 DEF HostStarts, Says
  <2>2. ~JobWasSeen
    BY <1>2 DEF HostStarts
  <2> QED
    BY <1>2, <2>1, <2>2 DEF HostStarts
<1>3. CASE HostSeesCause
  BY <1>3 DEF HostSeesCause
<1>4. CASE HostDrains
  <2>1. CASE HostFails
    BY <1>4, <2>1, FailsLines DEF HostDrains
  <2>2. CASE io # <<>> /\ Admit(Head(io), "loop") /\ ~HostFails
    <3>1. /\ hostAt' = "loop" /\ io' \in Seq(Messages) /\ events' \in Seq(EventLines)
          /\ Says("exited", events') => Says("exited", events)
          /\ UNCHANGED <<pipe, wire, condemned>>
      BY <2>2, AdmitLines
    <3> QED
      BY <1>4, <3>1 DEF HostDrains
  <2> QED
    BY <1>4, <2>1, <2>2 DEF HostDrains
<1>5. CASE HostCollects
  BY <1>5 DEF HostCollects
<1>6. CASE HostKills
  BY <1>6 DEF HostKills
<1>7. CASE HostKilled
  <2>1. CASE HostFails
    BY <1>7, <2>1, FailsLines DEF HostKilled
  <2>2. CASE ~HostFails
    BY <1>7, <2>2 DEF HostKilled
  <2> QED
    BY <2>1, <2>2
<1>8. CASE HostCleans
  BY <1>8 DEF HostCleans
<1>9. CASE HostEmpties
  BY <1>9 DEF HostEmpties
<1>10. CASE HostJoinsInput
  BY <1>10 DEF HostJoinsInput
<1>11. CASE HostSettles
  <2>1. CASE HostFails
    BY <1>11, <2>1, FailsLines DEF HostSettles
  <2>2. CASE io # <<>> /\ Admit(Head(io), "settle") /\ ~HostFails
    <3>1. /\ hostAt' = "settle" /\ io' \in Seq(Messages) /\ events' \in Seq(EventLines)
          /\ Says("exited", events') => Says("exited", events)
          /\ UNCHANGED <<pipe, wire, condemned>>
      BY <2>2, AdmitLines
    <3> QED
      BY <1>11, <3>1 DEF HostSettles
  <2>3. CASE ~HostFails /\ ~(io # <<>> /\ Admit(Head(io), "settle"))
    BY <1>11, <2>3 DEF HostSettles
  <2> QED
    BY <2>1, <2>2, <2>3
<1>12. CASE HostReports
  <2>1. CASE HostFails
    BY <1>12, <2>1, FailsLines DEF HostReports
  <2>2. CASE ~HostFails
    <3>1. events' = Append(events, "exited")
      BY <1>12, <2>2 DEF HostReports
    <3>2. Append(events, "exited") \in Seq(EventLines)
      OBVIOUS
    <3> QED
      BY <1>12, <2>2, <3>1, <3>2 DEF HostReports
  <2> QED
    BY <2>1, <2>2
<1>13. CASE HostExits
  BY <1>13 DEF HostExits
<1>14. CASE HostCrashes
  BY <1>14, CutLine DEF HostCrashes
<1> QED
  BY <1>1, <1>2, <1>3, <1>4, <1>5, <1>6, <1>7, <1>8, <1>9, <1>10, <1>11, <1>12, <1>13, <1>14 DEF HostStep

\* The client.
LEMMA ClientKeeps == ASSUME IInv, \/ ClientStep \/ ClientStops \/ ClientGivesUp \/ ClientDies PROVE IInv'
<1> USE SaysNothing
    DEF IInv, LinesType, NoTreeYet, GoneIsCondemned, AccountIsTrue, JobWasSeen,
        TreeIsAccountedFor, Alive, EventLines, Messages, OutKinds, HostSteps, HostRuns,
        HostEnds, HostGoes, hostVars, treeVars, lineVars, clientVars
<1>1. CASE ClientStarts
  BY <1>1 DEF ClientStarts
<1>2. CASE ClientCancels
  BY <1>2 DEF ClientCancels, SendCancel
<1>3. CASE ClientHears
  <2> HIDE DEF EventLines
  <2>1. wire' \in Seq(EventLines) /\ (Says("exited", wire') => Says("exited", wire))
    BY <1>3, SaysAfterReceive DEF ClientHears
  <2>2. \/ decoder' = decoder
        \/ decoder' = [decoder EXCEPT !.poisoned = TRUE]
        \/ decoder' = [decoder EXCEPT !.started = TRUE]
        \/ decoder' = [decoder EXCEPT !.evidence = TRUE] /\ wire # <<>> /\ Head(wire) = "exited"
        \/ decoder' = [decoder EXCEPT !.out = @ + 1]
    <3>1. CASE wire # <<>> /\ Hear(Head(wire))
      <4>1. Head(wire) \in EventLines
        BY <3>1, SaysAfterReceive
      <4>2. CASE Head(wire) = "cut" \/ Unexpected(Head(wire))
        BY <3>1, <4>2 DEF Hear
      <4>3. CASE Head(wire) # "cut" /\ ~Unexpected(Head(wire))
        BY <3>1, <4>1, <4>3 DEF Hear, EventLines
      <4> QED
        BY <4>2, <4>3
    <3>2. CASE ~(wire # <<>> /\ Hear(Head(wire)))
      BY <1>3, <3>2 DEF ClientHears
    <3> QED
      BY <3>1, <3>2
  <2>3. decoder' \in [started : BOOLEAN, out : Nat, evidence : BOOLEAN, poisoned : BOOLEAN]
    BY <2>2, DecoderTypes
  <2>4. decoder'.evidence => decoder.evidence \/ Says("exited", wire)
    BY <2>2, SaysAfterReceive
  <2> QED
    BY <1>3, <2>1, <2>3, <2>4 DEF ClientHears
<1>4. CASE ClientEnds
  BY <1>4 DEF ClientEnds, HostHeard
<1>5. CASE ClientSettles
  BY <1>5 DEF ClientSettles, Settlement
<1>6. CASE ClientStops
  BY <1>6 DEF ClientStops, SendCancel
<1>7. CASE ClientGivesUp
  BY <1>7 DEF ClientGivesUp
<1>8. CASE ClientDies
  BY <1>8 DEF ClientDies, NoLines
<1> QED
  BY <1>1, <1>2, <1>3, <1>4, <1>5, <1>6, <1>7, <1>8 DEF ClientStep

\* The invariant is inductive.
LEMMA Inductive == IInv /\ [WindowsNext]_windowsVars => IInv'
<1> SUFFICES ASSUME IInv, [WindowsNext]_windowsVars PROVE IInv'
  OBVIOUS
<1>1. CASE WindowsNext
  BY <1>1, TreeKeeps, HostKeeps, ClientKeeps DEF WindowsNext, TreeStep, HostThread
<1>2. CASE UNCHANGED windowsVars
  BY <1>2 DEF windowsVars, hostVars, treeVars, lineVars, clientVars, IInv, LinesType, NoTreeYet,
     GoneIsCondemned, AccountIsTrue, JobWasSeen, TreeIsAccountedFor, Alive, Says
<1> QED
  BY <1>1, <1>2

\* The invariant holds at the start.
LEMMA Initially == WindowsInit => IInv
BY SaysNothing
   DEF WindowsInit, IInv, LinesType, NoTreeYet, GoneIsCondemned, AccountIsTrue, JobWasSeen,
       TreeIsAccountedFor, Alive, NoLines, HostSteps

-----------------------------------------------------------------------------
(* The theorem                                                              *)

\* What supervise returns on Windows leaves no process of the tree alive, unless it
\* says that the cleanup failed or the host could not start, and then the Job is
\* closed: whatever the harness, its descendants, the channels and the clocks do
\* (windows_supervision.rs, windows_host.rs finish, windows.rs run_inner).
THEOREM TreeAccounted == WindowsSpec => []TreeIsAccountedFor
<1>1. WindowsSpec => []IInv
  BY Initially, Inductive, PTL DEF WindowsSpec
<1>2. IInv => TreeIsAccountedFor
  BY DEF IInv
<1> QED
  BY <1>1, <1>2, PTL
-----------------------------------------------------------------------------
(* A success                                                                *)

\* As long as nothing asked for an end, the client lives, and the host runs or
\* ended in order, no record gets lost.
Undisturbed ==
    /\ cause = "none" /\ pending = "none" /\ clientAt # "killed"
    /\ HostRuns \/ hostExit = "clean"

\* Number in what the harness wrote of the line before the first on the wire,
\* counting "started" as number 0; and of the last line on its way.
Heard  == Len(records) - (IF decoder.started THEN 0 ELSE 1)
Passed == Heard + Len(wire) + Len(events)

\* A line m that would be number k.
Placed(m, k) ==
    /\ m = "started" => k = 0
    /\ m \in OutKinds => k \in 1..Len(wrote) /\ wrote[k] = m
    /\ m = "exited" /\ ended => k = Len(wrote) + 1
    /\ m # "cut"

LinesInPlace ==
    /\ Len(records) <= Len(wrote) /\ \A i \in 1..Len(records) : records[i] = wrote[i]
    /\ Passed >= 0
    /\ \A i \in 1..Len(wire) : Placed(wire[i], Heard + i)
    /\ \A i \in 1..Len(events) : Placed(events[i], Heard + Len(wire) + i)

\* The account of the end is the last line, and the host has nothing else to say.
EndIsLast ==
    /\ \A i \in 1..Len(wire) : wire[i] = "exited" => i = Len(wire) /\ events = <<>>
    /\ \A i \in 1..Len(events) : events[i] = "exited" => i = Len(events)
    /\ Says("exited", wire) \/ Says("exited", events) \/ decoder.evidence =>
           hostAt \in {"flush", "gone"}
    /\ decoder.evidence => wire = <<>> /\ events = <<>>
    /\ decoder.evidence /\ ended => Len(records) = Len(wrote)

\* Before the message that makes the task fail, the host's channel goes on where
\* the lines end, up to the end of the file.
Before(q, i) == \A j \in 1..i : q[j] # "stdinFailed"
ChannelInPlace ==
    /\ \A i \in 1..Len(io) : Before(io, i) =>
          /\ io[i] \in OutKinds => Passed + i \in 1..Len(wrote) /\ wrote[Passed + i] = io[i]
          /\ io[i] = "end" => Passed + i = Len(wrote) + 1
    /\ \A i \in 1..Len(io) : io[i] = "end" => \A j \in i + 1..Len(io) : io[j] = "stdinFailed"
    /\ ended => Passed = Len(wrote) /\ \A i \in 1..Len(io) : io[i] = "stdinFailed"

\* And the pipe where the channel ends.
PipeInPlace ==
    ~pumped /\ Before(io, Len(io)) =>
        /\ Passed + Len(io) + Len(pipe) = Len(wrote)
        /\ \A i \in 1..Len(pipe) : wrote[Passed + Len(io) + i] = pipe[i]

\* The end of the file comes once, and after the tree.
EndOfFile ==
    /\ ended => pumped
    /\ HostRuns /\ ~pumped => \A i \in 1..Len(io) : io[i] # "end"
    /\ HostRuns /\ pumped => leader # "running"

\* Nothing is on its way before the host has started the harness.
NothingYet ==
    /\ hostAt \in {"none", "request"} =>
          /\ io = <<>> /\ events = <<>> /\ wire = <<>> /\ pipe = <<>> /\ wrote = <<>>
          /\ records = <<>> /\ decoder = NoLines /\ ~pumped /\ ~ended
    /\ hostExit = "none" <=> hostAt # "gone"
    /\ returned # "none" => clientAt = "done"

\* The client asks for an end only with a cause.
CancelHasCause == cancelSent => pending # "none" \/ clientAt = "killed"

RecordTypes ==
    /\ records \in Seq(OutKinds) /\ wrote \in Seq(OutKinds)
    /\ pending \in {"none", "stopped", "ProtocolTruncated", "ProtocolMalformed"}

Undropped ==
    Undisturbed => /\ LinesInPlace /\ EndIsLast
                   /\ hostAt \notin {"flush", "gone"} => ChannelInPlace /\ PipeInPlace

OkInv == RecordTypes /\ EndOfFile /\ NothingYet /\ CancelHasCause /\ Undropped /\ WindowsOkIsEarned

\* A sequence that gets an element at its end.
LEMMA AtTheEnd ==
  ASSUME NEW S, NEW q \in Seq(S), NEW m \in S
  PROVE  /\ Append(q, m) \in Seq(S) /\ Len(q) \in Nat /\ Len(Append(q, m)) = Len(q) + 1
         /\ Append(q, m)[Len(q) + 1] = m /\ \A i \in 1..Len(q) : Append(q, m)[i] = q[i]
OBVIOUS

\* A sequence that loses its first element.
LEMMA AtTheFront ==
  ASSUME NEW S, NEW q \in Seq(S), q # <<>>
  PROVE  /\ Tail(q) \in Seq(S) /\ Head(q) = q[1] /\ Head(q) \in S
         /\ Len(q) \in Nat /\ Len(q) >= 1 /\ Len(Tail(q)) = Len(q) - 1
         /\ \A i \in 1..Len(q) - 1 : Tail(q)[i] = q[i + 1]
OBVIOUS

\* The lengths that are compared.
LEMMA LengthTypes ==
  ASSUME IInv, OkInv
  PROVE  /\ Len(records) \in Nat /\ Len(wrote) \in Nat /\ Len(wire) \in Nat /\ Len(events) \in Nat
         /\ Len(io) \in Nat /\ Len(pipe) \in Nat /\ Heard \in Int /\ Passed \in Int
BY DEF IInv, LinesType, OkInv, RecordTypes, Heard, Passed

\* Steps that leave the stream alone.
LEMMA StreamStill ==
  ASSUME OkInv, UNCHANGED <<records, wrote, decoder, wire, events, io, pipe, ended, pumped>>,
         Undisturbed' => Undisturbed,
         hostAt' \in {"flush", "gone"} <=> hostAt \in {"flush", "gone"}
  PROVE  Undropped'
<1>1. /\ Heard' = Heard /\ Passed' = Passed /\ (Says("exited", wire) <=> Says("exited", wire)')
      /\ (Says("exited", events) <=> Says("exited", events)')
  BY DEF Heard, Passed, Says
<1>2. \A m, k : Placed(m, k)' <=> Placed(m, k)
  BY DEF Placed
<1>3. LinesInPlace => LinesInPlace'
  BY <1>1, <1>2 DEF LinesInPlace
<1>4. EndIsLast => EndIsLast'
  BY <1>1 DEF EndIsLast
<1>5. (ChannelInPlace => ChannelInPlace') /\ (PipeInPlace => PipeInPlace')
  BY <1>1 DEF ChannelInPlace, PipeInPlace, Before
<1> QED
  BY <1>3, <1>4, <1>5 DEF OkInv, Undropped

LEMMA TreeWritesKeeps ==
  ASSUME IInv, OkInv, TreeWrites
  PROVE  Undropped'
<1> SUFFICES ASSUME Undisturbed' PROVE Undropped'
  BY DEF Undropped
<1>1. /\ UNCHANGED <<records, decoder, wire, events, io, ended, pumped, hostAt>> /\ Undisturbed
      /\ HostRuns /\ leader = "running"
  BY DEF TreeWrites, hostVars, lineVars, clientVars, Undisturbed, HostRuns
<1>2. PICK k \in OutKinds : pipe' = Append(pipe, k) /\ wrote' = Append(wrote, k)
  BY DEF TreeWrites
<1>3. ~pumped /\ ~ended
  BY <1>1 DEF OkInv, EndOfFile
<1>4. /\ wrote \in Seq(OutKinds) /\ pipe \in Seq(OutKinds)
  BY DEF IInv, LinesType, OkInv, RecordTypes
<1>5. /\ Len(wrote') = Len(wrote) + 1 /\ wrote'[Len(wrote) + 1] = k
      /\ \A i \in 1..Len(wrote) : wrote'[i] = wrote[i]
      /\ Len(pipe') = Len(pipe) + 1 /\ pipe'[Len(pipe) + 1] = k
      /\ \A i \in 1..Len(pipe) : pipe'[i] = pipe[i]
  BY <1>2, <1>4, AtTheEnd
<1>6. Heard' = Heard /\ Passed' = Passed
  BY <1>1 DEF Heard, Passed
<1>t. /\ Len(records) \in Nat /\ Len(wrote) \in Nat /\ Len(wire) \in Nat /\ Len(events) \in Nat
      /\ Len(io) \in Nat /\ Len(pipe) \in Nat /\ Heard \in Int /\ Passed \in Int
  BY LengthTypes
<1>7. \A m, n : Placed(m, n) => Placed(m, n)'
  BY <1>1, <1>3, <1>5, <1>t DEF Placed
<1>8. LinesInPlace => LinesInPlace'
  BY <1>1, <1>5, <1>6, <1>7, <1>t DEF LinesInPlace
<1>9. EndIsLast => EndIsLast'
  BY <1>1, <1>3 DEF EndIsLast, Says
<1>10. ChannelInPlace => ChannelInPlace'
  BY <1>1, <1>3, <1>5, <1>6, <1>t, SMTT(60) DEF ChannelInPlace, Before, OkInv, EndOfFile
<1>11. LinesInPlace /\ PipeInPlace => PipeInPlace'
  <2> SUFFICES ASSUME LinesInPlace, PipeInPlace, Before(io, Len(io))
               PROVE  /\ Passed + Len(io) + Len(pipe') = Len(wrote')
                      /\ \A i \in 1..Len(pipe') : wrote'[Passed + Len(io) + i] = pipe'[i]
    BY <1>1, <1>6 DEF PipeInPlace, Before
  <2>1. /\ Passed + Len(io) + Len(pipe) = Len(wrote)
        /\ \A i \in 1..Len(pipe) : wrote[Passed + Len(io) + i] = pipe[i]
    BY <1>3 DEF PipeInPlace
  <2>2. ASSUME NEW i \in 1..Len(pipe')
        PROVE  wrote'[Passed + Len(io) + i] = pipe'[i]
    <3>1. CASE i = Len(pipe) + 1
      BY <1>5, <1>t, <2>1, <3>1, SMTT(60)
    <3>2. CASE i \in 1..Len(pipe)
      <4>1. Passed + Len(io) + i \in 1..Len(wrote)
        BY <1>t, <2>1, <3>2 DEF LinesInPlace
      <4> QED
        BY <1>5, <2>1, <3>2, <4>1
    <3> QED
      BY <1>5, <1>t, <3>1, <3>2
  <2> QED
    BY <1>5, <1>t, <2>1, <2>2, SMTT(60)
<1> QED
  BY <1>1, <1>8, <1>9, <1>10, <1>11 DEF OkInv, Undropped

LEMMA PumpKeeps ==
  ASSUME IInv, OkInv, Pump
  PROVE  Undropped'
<1> SUFFICES ASSUME Undisturbed' PROVE Undropped'
  BY DEF Undropped
<1>1. /\ UNCHANGED <<records, wrote, decoder, wire, events, ended, hostAt, leader>> /\ Undisturbed
      /\ HostRuns /\ ~pumped
  BY DEF Pump, hostVars, lineVars, clientVars, Undisturbed, HostRuns
<1>2. ~ended /\ \A i \in 1..Len(io) : io[i] # "end"
  BY <1>1 DEF OkInv, EndOfFile
<1>3. /\ io \in Seq(Messages) /\ pipe \in Seq(OutKinds)
  BY DEF IInv, LinesType
<1>4. Heard' = Heard /\ Passed' = Passed
  BY <1>1 DEF Heard, Passed
<1>t. /\ Len(records) \in Nat /\ Len(wrote) \in Nat /\ Len(wire) \in Nat /\ Len(events) \in Nat
      /\ Len(io) \in Nat /\ Len(pipe) \in Nat /\ Heard \in Int /\ Passed \in Int
  BY LengthTypes
<1>5. \A m, n : Placed(m, n) => Placed(m, n)'
  BY <1>1 DEF Placed
<1>6. (LinesInPlace => LinesInPlace') /\ (EndIsLast => EndIsLast')
  BY <1>1, <1>4, <1>5 DEF LinesInPlace, EndIsLast, Says
<1>7. ASSUME LinesInPlace, ChannelInPlace, PipeInPlace
      PROVE  ChannelInPlace' /\ PipeInPlace'
  <2>1. CASE pipe # <<>> /\ io' = Append(io, Head(pipe)) /\ pipe' = Tail(pipe) /\ UNCHANGED pumped
    <3>1. /\ Head(pipe) = pipe[1] /\ Head(pipe) \in OutKinds /\ Len(pipe) >= 1
          /\ Len(pipe') = Len(pipe) - 1 /\ \A i \in 1..Len(pipe) - 1 : pipe'[i] = pipe[i + 1]
      BY <1>3, <2>1, AtTheFront
    <3>2. Head(pipe) \in Messages /\ Head(pipe) \notin {"end", "stdinFailed"}
      BY <3>1 DEF Messages, OutKinds
    <3>3. /\ Len(io') = Len(io) + 1 /\ io'[Len(io) + 1] = Head(pipe)
          /\ \A i \in 1..Len(io) : io'[i] = io[i]
      BY <1>3, <2>1, <3>2, AtTheEnd
    <3>4. \A i \in 1..Len(io) : Before(io', i) <=> Before(io, i)
      BY <1>t, <3>3, SMTT(60) DEF Before
    <3>5. Before(io', Len(io) + 1) <=> Before(io, Len(io))
      BY <1>t, <3>2, <3>3, SMTT(60) DEF Before
    <3>6. ChannelInPlace'
      <4>1. ASSUME NEW i \in 1..Len(io'), Before(io', i)
            PROVE  /\ io'[i] \in OutKinds =>
                           Passed + i \in 1..Len(wrote) /\ wrote[Passed + i] = io'[i]
                   /\ io'[i] # "end"
        <5>1. CASE i \in 1..Len(io)
          BY <1>2, <1>7, <3>3, <3>4, <4>1, <5>1 DEF ChannelInPlace
        <5>2. CASE i = Len(io) + 1
          <6>1. /\ Passed + Len(io) + Len(pipe) = Len(wrote)
                /\ \A j \in 1..Len(pipe) : wrote[Passed + Len(io) + j] = pipe[j]
            BY <1>1, <1>7, <3>5, <4>1, <5>2 DEF PipeInPlace
          <6>2. wrote[Passed + Len(io) + 1] = pipe[1]
            BY <1>t, <3>1, <6>1
          <6>3. Passed >= 0
            BY <1>7 DEF LinesInPlace
          <6>4. Passed + i \in 1..Len(wrote) /\ Passed + i = Passed + Len(io) + 1
            BY <1>t, <3>1, <5>2, <6>1, <6>3
          <6> QED
            BY <3>1, <3>2, <3>3, <5>2, <6>2, <6>4
        <5> QED
          BY <1>t, <3>3, <5>1, <5>2
      <4>2. \A i \in 1..Len(io') : io'[i] # "end"
        BY <1>2, <1>t, <3>2, <3>3
      <4> QED
        BY <1>1, <1>2, <1>4, <4>1, <4>2 DEF ChannelInPlace
    <3>7. PipeInPlace'
      <4> SUFFICES ASSUME Before(io', Len(io) + 1)
                   PROVE  /\ Passed + Len(io') + Len(pipe') = Len(wrote)
                          /\ \A i \in 1..Len(pipe') : wrote[Passed + Len(io') + i] = pipe'[i]
        BY <1>1, <1>4, <3>3 DEF PipeInPlace
      <4>1. /\ Passed + Len(io) + Len(pipe) = Len(wrote)
            /\ \A j \in 1..Len(pipe) : wrote[Passed + Len(io) + j] = pipe[j]
        BY <1>1, <1>7, <3>5 DEF PipeInPlace
      <4>2. ASSUME NEW i \in 1..Len(pipe')
            PROVE  wrote[Passed + Len(io') + i] = pipe'[i]
        <5>1. i + 1 \in 1..Len(pipe) /\ i \in 1..Len(pipe) - 1
              /\ Passed + Len(io') + i = Passed + Len(io) + (i + 1)
          BY <1>t, <3>1, <3>3
        <5> QED
          BY <3>1, <4>1, <5>1
      <4>3. Passed + Len(io') + Len(pipe') = Len(wrote)
        BY <1>t, <3>1, <3>3, <4>1
      <4> QED
        BY <4>2, <4>3
    <3> QED
      BY <3>6, <3>7
  <2>2. CASE pipe = <<>> /\ io' = Append(io, "end") /\ pumped' = TRUE /\ UNCHANGED pipe
    <3>1. /\ Len(io') = Len(io) + 1 /\ io'[Len(io) + 1] = "end"
          /\ \A i \in 1..Len(io) : io'[i] = io[i]
      BY <1>3, <2>2, AtTheEnd DEF Messages
    <3>2. \A i \in 1..Len(io) : Before(io', i) <=> Before(io, i)
      BY <1>t, <3>1, SMTT(60) DEF Before
    <3>3. Before(io', Len(io) + 1) <=> Before(io, Len(io))
      BY <1>t, <3>1, SMTT(60) DEF Before
    <3>4. "end" \notin OutKinds
      BY DEF OutKinds
    <3>5. ASSUME NEW i \in 1..Len(io'), Before(io', i)
          PROVE  /\ io'[i] \in OutKinds =>
                         Passed + i \in 1..Len(wrote) /\ wrote[Passed + i] = io'[i]
                 /\ io'[i] = "end" => Passed + i = Len(wrote) + 1
      <4>1. CASE i \in 1..Len(io)
        BY <1>2, <1>7, <3>1, <3>2, <3>5, <4>1 DEF ChannelInPlace
      <4>2. CASE i = Len(io) + 1
        <5>1. Passed + Len(io) + Len(pipe) = Len(wrote) /\ Len(pipe) = 0
          BY <1>1, <1>7, <2>2, <3>3, <3>5, <4>2 DEF PipeInPlace
        <5> QED
          BY <1>t, <3>1, <3>4, <4>2, <5>1
      <4> QED
        BY <1>t, <3>1, <4>1, <4>2
    <3>6. \A i \in 1..Len(io') : io'[i] = "end" => i = Len(io')
      BY <1>2, <1>t, <3>1
    <3>7. \A i \in 1..Len(io') : io'[i] = "end" => \A j \in i + 1..Len(io') : io'[j] = "stdinFailed"
      BY <1>t, <3>1, <3>6
    <3> QED
      BY <1>1, <1>2, <1>4, <2>2, <3>5, <3>7 DEF ChannelInPlace, PipeInPlace
  <2> QED
    BY <2>1, <2>2 DEF Pump
<1> QED
  BY <1>1, <1>6, <1>7 DEF OkInv, Undropped

\* A task that cannot be written ends what is said of the channel.
LEMMA InputKeeps ==
  ASSUME IInv, OkInv, WriteInput
  PROVE  Undropped'
<1>1. /\ UNCHANGED <<records, wrote, decoder, wire, events, pipe, ended, pumped, hostAt>>
      /\ Undisturbed' => Undisturbed
  BY DEF WriteInput, hostVars, treeVars, lineVars, clientVars, Undisturbed, HostRuns
<1>2. CASE io' = io
  BY <1>1, <1>2, StreamStill
<1>3. CASE io' = Append(io, "stdinFailed")
  <2> SUFFICES ASSUME Undisturbed' PROVE Undropped'
    BY DEF Undropped
  <2>1. io \in Seq(Messages)
    BY DEF IInv, LinesType
  <2>2. /\ Len(io') = Len(io) + 1 /\ io'[Len(io) + 1] = "stdinFailed"
        /\ \A i \in 1..Len(io) : io'[i] = io[i]
    BY <1>3, <2>1, AtTheEnd DEF Messages
  <2>t. /\ Len(io) \in Nat /\ Passed \in Int
    BY LengthTypes
  <2>3. Heard' = Heard /\ Passed' = Passed
    BY <1>1 DEF Heard, Passed
  <2>4. (LinesInPlace => LinesInPlace') /\ (EndIsLast => EndIsLast')
    BY <1>1, <2>3 DEF LinesInPlace, EndIsLast, Says, Placed
  <2>5. (\A i \in 1..Len(io) : Before(io', i) <=> Before(io, i)) /\ ~Before(io', Len(io) + 1)
    BY <2>2, <2>t DEF Before
  <2>6. ASSUME ChannelInPlace PROVE ChannelInPlace'
    <3>1. ASSUME NEW i \in 1..Len(io'), Before(io', i)
          PROVE  /\ io'[i] \in OutKinds =>
                         Passed + i \in 1..Len(wrote) /\ wrote[Passed + i] = io'[i]
                 /\ io'[i] = "end" => Passed + i = Len(wrote) + 1
      <4>1. i \in 1..Len(io)
        BY <2>2, <2>5, <2>t, <3>1
      <4> QED
        BY <2>2, <2>5, <2>6, <3>1, <4>1 DEF ChannelInPlace
    <3>2. ASSUME NEW i \in 1..Len(io'), io'[i] = "end", NEW j \in i + 1..Len(io')
          PROVE  io'[j] = "stdinFailed"
      <4>1. i \in 1..Len(io)
        BY <2>2, <2>t, <3>2
      <4>2. CASE j \in i + 1..Len(io)
        BY <2>2, <2>6, <2>t, <3>2, <4>1, <4>2 DEF ChannelInPlace
      <4>3. CASE j = Len(io) + 1
        BY <2>2, <4>3
      <4> QED
        BY <2>2, <2>t, <4>1, <4>2, <4>3
    <3>3. ended => Passed = Len(wrote) /\ \A i \in 1..Len(io') : io'[i] = "stdinFailed"
      BY <2>2, <2>6, <2>t DEF ChannelInPlace
    <3> QED
      BY <1>1, <2>3, <3>1, <3>2, <3>3 DEF ChannelInPlace
  <2>7. PipeInPlace'
    BY <2>2, <2>5 DEF PipeInPlace
  <2> QED
    BY <1>1, <2>4, <2>6, <2>7 DEF OkInv, Undropped
<1> QED
  BY <1>2, <1>3 DEF WriteInput

\* A line that is written moves from one queue to the other.
LEMMA WriteEventKeeps ==
  ASSUME IInv, OkInv, WriteEvent
  PROVE  Undropped'
<1> SUFFICES ASSUME Undisturbed' PROVE Undropped'
  BY DEF Undropped
<1>1. /\ UNCHANGED <<records, wrote, decoder, io, pipe, ended, pumped, hostAt>> /\ Undisturbed
      /\ events # <<>> /\ wire' = Append(wire, Head(events)) /\ events' = Tail(events)
  BY DEF WriteEvent, treeVars, clientVars, Undisturbed, HostRuns
<1>2. events \in Seq(EventLines) /\ wire \in Seq(EventLines)
  BY DEF IInv, LinesType
<1>t. /\ Len(records) \in Nat /\ Len(wrote) \in Nat /\ Len(wire) \in Nat /\ Len(events) \in Nat
      /\ Heard \in Int /\ Passed \in Int
  BY LengthTypes
<1>3. /\ Head(events) = events[1] /\ Head(events) \in EventLines /\ Len(events) >= 1
      /\ Len(events') = Len(events) - 1
      /\ \A i \in 1..Len(events) - 1 : events'[i] = events[i + 1]
  BY <1>1, <1>2, AtTheFront
<1>4. /\ Len(wire') = Len(wire) + 1 /\ wire'[Len(wire) + 1] = events[1]
      /\ \A i \in 1..Len(wire) : wire'[i] = wire[i]
  BY <1>1, <1>2, <1>3, AtTheEnd
<1>5. Heard' = Heard
  BY <1>1 DEF Heard
<1>6. Passed' = Passed
  BY <1>1, <1>3, <1>4, <1>5, <1>t DEF Passed
<1>7. \A m, n : Placed(m, n)' <=> Placed(m, n)
  BY <1>1 DEF Placed
<1>8. LinesInPlace => LinesInPlace'
  <2> SUFFICES ASSUME LinesInPlace PROVE LinesInPlace'
    OBVIOUS
  <2>1. ASSUME NEW i \in 1..Len(wire') PROVE Placed(wire'[i], Heard + i)
    <3>1. CASE i \in 1..Len(wire)
      BY <1>4, <3>1 DEF LinesInPlace
    <3>2. CASE i = Len(wire) + 1
      BY <1>3, <1>4, <1>t, <3>2 DEF LinesInPlace
    <3> QED
      BY <1>4, <1>t, <3>1, <3>2
  <2>2. ASSUME NEW i \in 1..Len(events') PROVE Placed(events'[i], Heard + Len(wire') + i)
    <3>1. /\ i + 1 \in 1..Len(events) /\ events'[i] = events[i + 1]
          /\ Heard + Len(wire') + i = Heard + Len(wire) + (i + 1)
      BY <1>3, <1>4, <1>t
    <3> QED
      BY <3>1 DEF LinesInPlace
  <2> QED
    BY <1>1, <1>5, <1>6, <1>7, <2>1, <2>2 DEF LinesInPlace
<1>9. EndIsLast => EndIsLast'
  <2> SUFFICES ASSUME EndIsLast PROVE EndIsLast'
    OBVIOUS
  <2>1. ASSUME NEW i \in 1..Len(wire'), wire'[i] = "exited"
        PROVE  i = Len(wire') /\ events' = <<>>
    <3>1. i = Len(wire) + 1
      BY <1>1, <1>4, <1>t, <2>1 DEF EndIsLast
    <3>2. 1 = Len(events)
      BY <1>3, <1>4, <1>t, <2>1, <3>1 DEF EndIsLast
    <3> QED
      BY <1>1, <1>2, <1>3, <1>4, <3>1, <3>2, SMTT(60)
  <2>2. \A i \in 1..Len(events') : events'[i] = "exited" => i = Len(events')
    BY <1>3, <1>t DEF EndIsLast
  <2>3. Says("exited", wire') \/ Says("exited", events') => Says("exited", wire) \/ Says("exited", events)
    BY <1>3, <1>4, <1>t, SMTT(60) DEF Says
  <2>4. ~decoder.evidence
    BY <1>1 DEF EndIsLast
  <2> QED
    BY <1>1, <2>1, <2>2, <2>3, <2>4 DEF EndIsLast, Says
<1>10. (ChannelInPlace => ChannelInPlace') /\ (PipeInPlace => PipeInPlace')
  BY <1>1, <1>6 DEF ChannelInPlace, PipeInPlace
<1> QED
  BY <1>1, <1>8, <1>9, <1>10 DEF OkInv, Undropped

\* The first line of the host.
LEMMA StartKeeps ==
  ASSUME IInv, OkInv, HostStarts
  PROVE  Undropped'
<1> SUFFICES ASSUME Undisturbed' PROVE Undropped'
  BY DEF Undropped
<1>1. /\ UNCHANGED <<records, wrote, decoder, wire, io, pipe, ended, pumped>> /\ events' = <<"started">>
      /\ hostAt = "request" /\ hostAt' = "loop"
  BY DEF HostStarts, lineVars, clientVars
<1>2. /\ io = <<>> /\ wire = <<>> /\ pipe = <<>> /\ wrote = <<>> /\ records = <<>>
      /\ decoder = NoLines /\ ~pumped /\ ~ended
  BY <1>1 DEF OkInv, NothingYet
<1>3. Heard' = -1 /\ Passed' = 0 /\ ~decoder.evidence
  BY <1>1, <1>2 DEF Heard, Passed, NoLines
<1>4. LinesInPlace'
  BY <1>1, <1>2, <1>3 DEF LinesInPlace, Placed, OutKinds
<1>5. EndIsLast' /\ ChannelInPlace' /\ PipeInPlace'
  BY <1>1, <1>2, <1>3 DEF EndIsLast, Says, ChannelInPlace, PipeInPlace
<1> QED
  BY <1>4, <1>5 DEF Undropped

\* A host that fails or is killed is a disturbance.
LEMMA FailsKeeps ==
  ASSUME HostFails \/ HostEnds("crashed")
  PROVE  Undropped'
BY DEF HostFails, HostEnds, Undropped, Undisturbed, HostRuns

\* A message of the channel: a record becomes a line, the end of the file is the
\* end of what was written.
LEMMA AdmitKeeps ==
  ASSUME IInv, OkInv, io # <<>>, NEW next \in {"loop", "settle"}, Admit(Head(io), next),
         hostAt \in {"loop", "settle"}, UNCHANGED <<wrote, clientVars>>
  PROVE  Undropped'
<1> SUFFICES ASSUME Undisturbed', ~HostFails PROVE Undropped'
  BY FailsKeeps DEF Undropped
<1> DEFINE m == Head(io)
<1>1. /\ io' = Tail(io) /\ hostAt' = next /\ UNCHANGED <<records, decoder, wire, pipe, pumped, cause>>
      /\ Undisturbed /\ hostAt \notin {"flush", "gone"}
      /\ \/ m = "end" /\ ended' = TRUE /\ UNCHANGED events
         \/ m \in OutKinds /\ UNCHANGED ended /\ events' = Append(events, m)
  <2>1. cause' = "none" /\ pending' = "none" /\ UNCHANGED <<records, decoder, pending, clientAt>>
    BY DEF Undisturbed, clientVars
  <2>2. HostRuns
    BY DEF HostRuns
  <2>3. cause = "none"
    BY <2>1 DEF Admit, First
  <2>4. m # "stdinFailed"
    BY <2>1, <2>3 DEF Admit, First, OutKinds
  <2> QED
    BY <2>1, <2>2, <2>3, <2>4 DEF Admit, HostGoes, First, Undisturbed
<1>2. io \in Seq(Messages) /\ events \in Seq(EventLines)
  BY DEF IInv, LinesType
<1>t. /\ Len(records) \in Nat /\ Len(wrote) \in Nat /\ Len(wire) \in Nat /\ Len(events) \in Nat
      /\ Len(io) \in Nat /\ Len(pipe) \in Nat /\ Heard \in Int /\ Passed \in Int
  BY LengthTypes
<1>3. /\ m = io[1] /\ Len(io) >= 1 /\ Len(io') = Len(io) - 1
      /\ \A i \in 1..Len(io) - 1 : io'[i] = io[i + 1]
  BY <1>1, <1>2, AtTheFront
<1>4. Heard' = Heard
  BY <1>1 DEF Heard
<1>5. LinesInPlace /\ EndIsLast /\ ChannelInPlace /\ PipeInPlace
  BY <1>1 DEF OkInv, Undropped
<1>6. /\ ~Says("exited", wire) /\ ~Says("exited", events) /\ ~decoder.evidence
  BY <1>1, <1>5 DEF EndIsLast
<1>7. m \in OutKinds \cup {"end"} => Before(io, 1)
  BY <1>3 DEF Before, OutKinds
<1> HIDE DEF m
<1>8. CASE m = "end" /\ ended' = TRUE /\ UNCHANGED events
  <2>0. 1 \in 1..Len(io) /\ io[1] = "end" /\ Before(io, 1)
    BY <1>3, <1>7, <1>8, <1>t
  <2>1. Passed = Len(wrote) /\ Passed' = Passed
    <3>1. Passed + 1 = Len(wrote) + 1
      BY <1>5, <2>0 DEF ChannelInPlace
    <3> QED
      BY <1>1, <1>4, <1>8, <1>t, <3>1 DEF Passed
  <2>2. \A i \in 1..Len(io') : io'[i] = "stdinFailed"
    <3>1. \A j \in 1 + 1..Len(io) : io[j] = "stdinFailed"
      BY <1>5, <2>0 DEF ChannelInPlace
    <3>2. ASSUME NEW i \in 1..Len(io') PROVE io'[i] = "stdinFailed"
      <4>1. i \in 1..Len(io) - 1 /\ i + 1 \in 1 + 1..Len(io)
        BY <1>3, <1>t
      <4> QED
        BY <1>3, <3>1, <4>1
    <3> QED
      BY <3>2
  <2>3. \A i \in 1..Len(wire) : wire[i] # "exited"
    BY <1>6 DEF Says
  <2>4. \A i \in 1..Len(events) : events[i] # "exited"
    BY <1>6 DEF Says
  <2>5. LinesInPlace'
    BY <1>1, <1>4, <1>5, <1>8, <2>1, <2>3, <2>4 DEF LinesInPlace, Placed
  <2>6. EndIsLast'
    BY <1>1, <1>6, <1>8, <2>3, <2>4 DEF EndIsLast, Says
  <2>7. ChannelInPlace'
    BY <2>1, <2>2, <1>1 DEF ChannelInPlace, OutKinds
  <2>8. PipeInPlace'
    BY <1>1, <2>0 DEF OkInv, EndOfFile, PipeInPlace, HostRuns
  <2> QED
    BY <2>5, <2>6, <2>7, <2>8 DEF Undropped
<1>9. CASE m \in OutKinds /\ UNCHANGED ended /\ events' = Append(events, m)
  <2>0. /\ 1 \in 1..Len(io) /\ io[1] \in OutKinds /\ Before(io, 1) /\ m \in EventLines
        /\ m \notin {"end", "stdinFailed", "exited", "started", "cut"}
    BY <1>3, <1>7, <1>9, <1>t DEF OutKinds, EventLines
  <2>1. Passed + 1 \in 1..Len(wrote) /\ wrote[Passed + 1] = m
    BY <1>3, <1>5, <2>0 DEF ChannelInPlace
  <2>2. /\ Len(events') = Len(events) + 1 /\ events'[Len(events) + 1] = m
        /\ \A i \in 1..Len(events) : events'[i] = events[i]
    BY <1>2, <1>9, <2>0, AtTheEnd
  <2>3. Passed' = Passed + 1 /\ Passed = Heard + Len(wire) + Len(events)
    BY <1>1, <1>4, <1>t, <2>2 DEF Passed
  <2>4. ~ended
    BY <1>5, <2>0 DEF ChannelInPlace
  <2>5. LinesInPlace'
    <3>1. ASSUME NEW i \in 1..Len(events') PROVE Placed(events'[i], Heard + Len(wire) + i)
      <4>1. CASE i \in 1..Len(events)
        BY <1>5, <2>2, <4>1 DEF LinesInPlace
      <4>2. CASE i = Len(events) + 1
        <5>1. Placed(m, Passed + 1)
          BY <2>0, <2>1, <2>4 DEF Placed
        <5>2. events'[i] = m /\ Heard + Len(wire) + i = Passed + 1
          BY <1>t, <2>2, <2>3, <4>2
        <5> QED
          BY <5>1, <5>2
      <4> QED
        BY <1>t, <2>2, <4>1, <4>2
    <3>2. \A k, n : Placed(k, n)' <=> Placed(k, n)
      BY <1>9 DEF Placed
    <3>3. Passed' >= 0
      BY <1>5, <1>t, <2>3 DEF LinesInPlace
    <3> QED
      BY <1>1, <1>4, <1>5, <3>1, <3>2, <3>3 DEF LinesInPlace
  <2>6. EndIsLast'
    <3>1. \A i \in 1..Len(wire) : wire[i] # "exited"
      BY <1>6 DEF Says
    <3>2. \A i \in 1..Len(events') : events'[i] # "exited"
      BY <1>6, <1>t, <2>0, <2>2 DEF Says
    <3> QED
      BY <1>1, <1>6, <3>1, <3>2 DEF EndIsLast, Says
  <2>7. \A i \in 1..Len(io') : /\ io'[i] = io[i + 1] /\ i + 1 \in 1..Len(io)
                               /\ Before(io', i) <=> Before(io, i + 1)
    <3> SUFFICES ASSUME NEW i \in 1..Len(io')
                 PROVE  /\ io'[i] = io[i + 1] /\ i + 1 \in 1..Len(io)
                        /\ Before(io', i) <=> Before(io, i + 1)
      OBVIOUS
    <3>1. i \in 1..Len(io) - 1 /\ i + 1 \in 1..Len(io) /\ i \in Nat
      BY <1>3, <1>t
    <3>2. \A j \in 1..i : io'[j] = io[j + 1] /\ j + 1 \in 1..i + 1
      BY <1>3, <1>t, <3>1
    <3>3. \A j \in 1..i + 1 : j = 1 \/ (j - 1 \in 1..i /\ (j - 1) + 1 = j)
      BY <3>1
    <3>4. Before(io, i + 1) => Before(io', i)
      BY <3>2 DEF Before
    <3>5. Before(io', i) => Before(io, i + 1)
      <4>1. ASSUME Before(io', i), NEW j \in 1..i + 1 PROVE io[j] # "stdinFailed"
        <5>1. CASE j = 1
          BY <1>3, <2>0, <5>1
        <5>2. CASE j - 1 \in 1..i /\ (j - 1) + 1 = j
          BY <3>2, <4>1, <5>2 DEF Before
        <5> QED
          BY <3>3, <5>1, <5>2
      <4> QED
        BY <4>1 DEF Before
    <3> QED
      BY <1>3, <3>1, <3>4, <3>5
  <2>8. ChannelInPlace'
    <3>1. ASSUME NEW i \in 1..Len(io'), Before(io', i)
          PROVE  /\ io'[i] \in OutKinds =>
                         Passed' + i \in 1..Len(wrote) /\ wrote[Passed' + i] = io'[i]
                 /\ io'[i] = "end" => Passed' + i = Len(wrote) + 1
      <4>1. Passed' + i = Passed + (i + 1)
        BY <1>3, <1>t, <2>3
      <4> QED
        BY <1>5, <2>7, <3>1, <4>1, SMTT(60) DEF ChannelInPlace
    <3>2. ASSUME NEW i \in 1..Len(io'), io'[i] = "end", NEW j \in i + 1..Len(io')
          PROVE  io'[j] = "stdinFailed"
      <4>1. j \in 1..Len(io') /\ j + 1 \in (i + 1) + 1..Len(io)
        BY <1>3, <1>t
      <4> QED
        BY <1>5, <2>7, <3>2, <4>1 DEF ChannelInPlace
    <3> QED
      BY <1>9, <2>4, <3>1, <3>2 DEF ChannelInPlace
  <2>9. PipeInPlace'
    <3> SUFFICES ASSUME ~pumped, Before(io', Len(io'))
                 PROVE  /\ Passed' + Len(io') + Len(pipe) = Len(wrote)
                        /\ \A i \in 1..Len(pipe) : wrote[Passed' + Len(io') + i] = pipe[i]
      BY <1>1, <1>9 DEF PipeInPlace
    <3>1. Before(io, Len(io))
      <4>1. CASE Len(io') = 0
        <5>1. Len(io) = 1
          BY <1>3, <1>t, <4>1
        <5> QED
          BY <2>0, <5>1
      <4>2. CASE Len(io') # 0
        <5>1. Len(io') \in 1..Len(io') /\ Len(io') + 1 = Len(io)
          BY <1>3, <1>t, <4>2
        <5> QED
          BY <2>7, <5>1
      <4> QED
        BY <4>1, <4>2
    <3>2. Passed' + Len(io') = Passed + Len(io)
      BY <1>3, <1>t, <2>3
    <3> QED
      BY <1>5, <3>1, <3>2 DEF PipeInPlace
  <2> QED
    BY <2>5, <2>6, <2>8, <2>9 DEF Undropped
<1> QED
  BY <1>1, <1>8, <1>9

\* The last line.
LEMMA ReportKeeps ==
  ASSUME IInv, OkInv, HostReports
  PROVE  Undropped'
<1> SUFFICES ASSUME Undisturbed', ~HostFails PROVE Undropped'
  BY FailsKeeps DEF Undropped
<1>1. /\ UNCHANGED <<records, wrote, decoder, wire, ended>> /\ hostAt' = "flush"
      /\ events' = Append(events, "exited") /\ Undisturbed /\ hostAt = "joinReaders"
  BY DEF HostReports, HostGoes, clientVars, Undisturbed, HostRuns
<1>2. LinesInPlace /\ EndIsLast /\ ChannelInPlace
  BY <1>1 DEF OkInv, Undropped
<1>3. /\ ~Says("exited", wire) /\ ~Says("exited", events) /\ ~decoder.evidence
  BY <1>1, <1>2 DEF EndIsLast
<1>4. events \in Seq(EventLines) /\ "exited" \in EventLines
  BY DEF IInv, LinesType, EventLines
<1>t. /\ Len(records) \in Nat /\ Len(wrote) \in Nat /\ Len(wire) \in Nat /\ Len(events) \in Nat
      /\ Heard \in Int /\ Passed \in Int
  BY LengthTypes
<1>5. /\ Len(events') = Len(events) + 1 /\ events'[Len(events) + 1] = "exited"
      /\ \A i \in 1..Len(events) : events'[i] = events[i]
  BY <1>1, <1>4, AtTheEnd
<1>6. Heard' = Heard /\ Passed' = Passed + 1 /\ Passed = Heard + Len(wire) + Len(events)
  BY <1>1, <1>5, <1>t DEF Heard, Passed
<1>7. ASSUME NEW i \in 1..Len(events') PROVE Placed(events'[i], Heard + Len(wire) + i)
  <2>1. CASE i \in 1..Len(events)
    BY <1>2, <1>5, <2>1 DEF LinesInPlace
  <2>2. CASE i = Len(events) + 1
    <3>1. ended => Passed = Len(wrote)
      BY <1>2 DEF ChannelInPlace
    <3>2. events'[i] = "exited" /\ Heard + Len(wire) + i = Passed + 1
      BY <1>5, <1>6, <1>t, <2>2
    <3>3. Placed("exited", Passed + 1)
      BY <3>1 DEF Placed, OutKinds
    <3> QED
      BY <3>2, <3>3
  <2> QED
    BY <1>5, <1>t, <2>1, <2>2
<1>8. \A m, n : Placed(m, n)' <=> Placed(m, n)
  BY <1>1 DEF Placed
<1>9. Passed' >= 0
  BY <1>2, <1>6, <1>t DEF LinesInPlace
<1>10. LinesInPlace'
  BY <1>1, <1>2, <1>6, <1>7, <1>8, <1>9 DEF LinesInPlace
<1>11. EndIsLast'
  <2>1. \A i \in 1..Len(wire) : wire[i] # "exited"
    BY <1>3 DEF Says
  <2>2. \A i \in 1..Len(events') : events'[i] = "exited" => i = Len(events')
    BY <1>3, <1>5, <1>t DEF Says
  <2> QED
    BY <1>1, <1>3, <2>1, <2>2 DEF EndIsLast
<1> QED
  BY <1>1, <1>10, <1>11 DEF Undropped

\* The host ends in order once every line is written.
LEMMA ExitsKeeps ==
  ASSUME IInv, OkInv, HostExits
  PROVE  Undropped'
<1> SUFFICES ASSUME Undisturbed' PROVE Undropped'
  BY DEF Undropped
<1>1. /\ UNCHANGED <<records, wrote, decoder, wire, ended>> /\ hostAt' = "gone" /\ hostAt = "flush"
      /\ events' = <<>> /\ events = <<>> /\ Undisturbed
  BY DEF HostExits, HostEnds, lineVars, clientVars, Undisturbed, HostRuns
<1>2. Heard' = Heard /\ Passed' = Passed
  BY <1>1 DEF Heard, Passed
<1>3. LinesInPlace /\ EndIsLast
  BY <1>1 DEF OkInv, Undropped
<1>4. LinesInPlace'
  BY <1>1, <1>2, <1>3 DEF LinesInPlace, Placed
<1>5. EndIsLast'
  BY <1>1, <1>3 DEF EndIsLast, Says
<1> QED
  BY <1>1, <1>4, <1>5 DEF Undropped

\* A line that is heard is the next one.
LEMMA HearKeeps ==
  ASSUME IInv, OkInv, ClientHears
  PROVE  Undropped'
<1> SUFFICES ASSUME Undisturbed' PROVE Undropped'
  BY DEF Undropped
<1>1. /\ UNCHANGED <<wrote, events, io, pipe, ended, pumped, hostAt, hostExit, cause, clientAt>>
  BY DEF ClientHears, hostVars, treeVars
<1>2. CASE UNCHANGED <<wire, decoder, pending, records>>
  BY <1>1, <1>2, StreamStill DEF Undisturbed, HostRuns
<1>3. CASE wire # <<>> /\ wire' = Tail(wire) /\ Hear(Head(wire))
  <2> DEFINE m == Head(wire)
  <2>1. /\ wire \in Seq(EventLines) /\ records \in Seq(OutKinds)
        /\ decoder.started \in BOOLEAN /\ decoder.evidence \in BOOLEAN
    BY DEF IInv, LinesType, OkInv, RecordTypes
  <2>t. /\ Len(records) \in Nat /\ Len(wrote) \in Nat /\ Len(wire) \in Nat /\ Len(events) \in Nat
        /\ Heard \in Int /\ Passed \in Int
    BY LengthTypes
  <2>2. /\ m = wire[1] /\ m \in EventLines /\ Len(wire) >= 1 /\ Len(wire') = Len(wire) - 1
        /\ \A i \in 1..Len(wire) - 1 : wire'[i] = wire[i + 1]
    BY <1>3, <2>1, AtTheFront
  <2>3. m # "cut" /\ ~Unexpected(m) /\ pending = "none"
    <3>1. pending' = "none"
      BY DEF Undisturbed
    <3>2. m # "cut"
      <4> SUFFICES ASSUME m = "cut" PROVE FALSE
        OBVIOUS
      <4>1. pending' = First(pending, "ProtocolTruncated")
        BY <1>3 DEF Hear, OutKinds
      <4> QED
        BY <3>1, <4>1 DEF First
    <3>3. ~Unexpected(m)
      <4> SUFFICES ASSUME Unexpected(m) PROVE FALSE
        OBVIOUS
      <4>1. pending' = First(pending, "ProtocolMalformed")
        BY <1>3, <3>2 DEF Hear
      <4> QED
        BY <3>1, <4>1 DEF First
    <3>4. CASE m = "started" \/ m = "exited"
      BY <1>3, <3>1, <3>2, <3>3, <3>4 DEF Hear, OutKinds
    <3>5. CASE m \in OutKinds
      <4>1. m # "started" /\ m # "exited"
        BY <3>5 DEF OutKinds
      <4>2. pending' = IF ProtocolError(m) THEN First(pending, "ProtocolMalformed") ELSE pending
        BY <1>3, <3>2, <3>3, <3>5, <4>1 DEF Hear
      <4> QED
        BY <3>1, <3>2, <3>3, <4>2 DEF First
    <3> QED
      BY <2>2, <3>2, <3>3, <3>4, <3>5 DEF EventLines
  <2>4. Undisturbed
    BY <1>1, <2>3 DEF Undisturbed, HostRuns
  <2>5. /\ ~decoder.evidence /\ decoder.started # (m = "started")
    BY <2>3 DEF Unexpected
  <2>6. LinesInPlace /\ EndIsLast /\ (hostAt \notin {"flush", "gone"} => ChannelInPlace /\ PipeInPlace)
    BY <2>4 DEF OkInv, Undropped
  <2>7. Placed(m, Heard + 1) /\ 1 \in 1..Len(wire)
    BY <2>2, <2>6, <2>t DEF LinesInPlace
  <2>8. m = "started" \/ m = "exited" \/ m \in OutKinds
    BY <2>2, <2>3 DEF EventLines
  <2>9. \A k, n : Placed(k, n)' <=> Placed(k, n)
    BY <1>1 DEF Placed
  <2> HIDE DEF m
  <2>10. ASSUME Heard' = Heard + 1, decoder'.evidence = FALSE, Len(records') <= Len(wrote),
                \A i \in 1..Len(records') : records'[i] = wrote[i]
         PROVE  Undropped'
    <3>1. Passed' = Passed
      BY <1>1, <2>2, <2>10, <2>t DEF Passed
    <3>2. ASSUME NEW i \in 1..Len(wire') PROVE Placed(wire'[i], Heard' + i)
      <4>1. i \in 1..Len(wire) - 1 /\ i + 1 \in 1..Len(wire) /\ Heard' + i = Heard + (i + 1)
        BY <2>2, <2>10, <2>t
      <4> QED
        BY <2>2, <2>6, <4>1 DEF LinesInPlace
    <3>3. \A i \in 1..Len(events) : Heard' + Len(wire') + i = Heard + Len(wire) + i
      BY <2>2, <2>10, <2>t
    <3>4. LinesInPlace'
      BY <1>1, <2>6, <2>9, <2>10, <3>1, <3>2, <3>3 DEF LinesInPlace
    <3>5. \A i \in 1..Len(wire') : wire'[i] = wire[i + 1] /\ i + 1 \in 1..Len(wire)
      BY <2>2, <2>t
    <3>6. Says("exited", wire') => Says("exited", wire)
      BY <3>5 DEF Says
    <3>7. ASSUME NEW i \in 1..Len(wire'), wire'[i] = "exited"
          PROVE  i = Len(wire') /\ events = <<>>
      <4>1. i + 1 = Len(wire) /\ events = <<>>
        BY <2>6, <3>5, <3>7 DEF EndIsLast
      <4> QED
        BY <2>2, <2>t, <4>1
    <3>8. EndIsLast'
      BY <1>1, <2>6, <2>10, <3>6, <3>7 DEF EndIsLast, Says
    <3>9. hostAt \notin {"flush", "gone"} => ChannelInPlace' /\ PipeInPlace'
      BY <1>1, <2>6, <3>1 DEF ChannelInPlace, PipeInPlace
    <3> QED
      BY <1>1, <3>4, <3>8, <3>9 DEF Undropped
  <2>11. CASE m = "started"
    <3>1. decoder' = [decoder EXCEPT !.started = TRUE] /\ UNCHANGED records
      BY <1>3, <2>3, <2>11 DEF Hear, m, OutKinds
    <3>2. decoder'.started = TRUE /\ decoder'.evidence = decoder.evidence
      BY <3>1 DEF IInv, LinesType
    <3>3. decoder.started = FALSE
      BY <2>1, <2>5, <2>11
    <3>4. Heard = Len(records) - 1 /\ Heard' = Len(records)
      BY <2>t, <3>1, <3>2, <3>3 DEF Heard
    <3>5. Heard' = Heard + 1 /\ decoder'.evidence = FALSE
      BY <2>1, <2>5, <2>t, <3>2, <3>4
    <3>6. Len(records') <= Len(wrote) /\ \A i \in 1..Len(records') : records'[i] = wrote[i]
      BY <2>6, <3>1 DEF LinesInPlace
    <3> QED
      BY <2>10, <3>5, <3>6
  <2>12. CASE m \in OutKinds
    <3>1. /\ decoder' = [decoder EXCEPT !.out = @ + 1]
          /\ records' = Append(records, m)
      <4>1. m # "started" /\ m # "exited"
        BY <2>12 DEF OutKinds
      <4>2. /\ decoder' = [decoder EXCEPT !.out = @ + 1]
            /\ pending' = IF ProtocolError(m) THEN First(pending, "ProtocolMalformed") ELSE pending
            /\ records' = IF ProtocolError(m) THEN records ELSE Append(records, m)
        BY <1>3, <2>3, <2>12, <4>1 DEF Hear, m
      <4> QED
        BY <2>3, <4>2 DEF First, Undisturbed
    <3>2. decoder'.started = decoder.started /\ decoder'.evidence = decoder.evidence
      BY <3>1 DEF IInv, LinesType
    <3>3. decoder.started
      BY <2>1, <2>5, <2>12 DEF OutKinds
    <3>4. /\ Len(records') = Len(records) + 1 /\ records'[Len(records) + 1] = m
          /\ \A i \in 1..Len(records) : records'[i] = records[i]
      BY <2>1, <2>12, <3>1, AtTheEnd
    <3>5. Heard' = Heard + 1 /\ Heard = Len(records)
      BY <2>t, <3>2, <3>3, <3>4 DEF Heard
    <3>6. Len(records) + 1 <= Len(wrote) /\ wrote[Len(records) + 1] = m
      BY <2>7, <2>12, <2>t, <3>5 DEF Placed
    <3>7. ASSUME NEW i \in 1..Len(records') PROVE records'[i] = wrote[i]
      <4>1. CASE i = Len(records) + 1
        BY <3>4, <3>6, <4>1
      <4>2. CASE i \in 1..Len(records)
        BY <2>6, <3>4, <4>2 DEF LinesInPlace
      <4> QED
        BY <2>t, <3>4, <4>1, <4>2
    <3>8. decoder'.evidence = FALSE /\ Len(records') <= Len(wrote)
      BY <2>1, <2>5, <3>2, <3>4, <3>6
    <3> QED
      BY <2>10, <3>5, <3>7, <3>8
  <2>13. CASE m = "exited"
    <3>1. decoder' = [decoder EXCEPT !.evidence = TRUE] /\ UNCHANGED records
      BY <1>3, <2>3, <2>13 DEF Hear, m, OutKinds
    <3>2. decoder'.started = decoder.started /\ decoder'.evidence = TRUE
      BY <3>1 DEF IInv, LinesType
    <3>3. decoder.started /\ Heard' = Heard /\ Heard = Len(records)
      BY <2>1, <2>5, <2>13, <2>t, <3>1, <3>2 DEF Heard
    <3>4. Len(wire) = 1 /\ events = <<>> /\ Says("exited", wire)
      BY <2>2, <2>6, <2>7, <2>13 DEF EndIsLast, Says
    <3>5. wire' = <<>>
      BY <1>3, <2>1, <2>2, <3>4
    <3>6. hostAt \in {"flush", "gone"}
      BY <2>6, <3>4 DEF EndIsLast
    <3>7. ended => Len(records) = Len(wrote)
      BY <2>7, <2>13, <2>t, <3>3 DEF Placed
    <3>8. EndIsLast'
      BY <1>1, <3>1, <3>4, <3>5, <3>6, <3>7 DEF EndIsLast, Says
    <3>9. Passed' = Len(records)
      BY <1>1, <2>t, <3>3, <3>4, <3>5 DEF Passed
    <3>10. LinesInPlace'
      BY <1>1, <2>6, <2>t, <3>1, <3>4, <3>5, <3>9 DEF LinesInPlace
    <3> QED
      BY <1>1, <3>6, <3>8, <3>10 DEF Undropped
  <2> QED
    BY <2>8, <2>11, <2>12, <2>13
<1> QED
  BY <1>2, <1>3 DEF ClientHears

\* Every step keeps the stream.
LEMMA UndroppedKeeps ==
  ASSUME IInv, OkInv, WindowsNext
  PROVE  Undropped'
<1>1. CASE TreeStep
  <2>1. CASE ChildEnds \/ KinEnds
    <3>1. /\ UNCHANGED <<records, wrote, decoder, wire, events, io, pipe, ended, pumped, hostAt>>
          /\ Undisturbed' = Undisturbed
      BY <2>1 DEF ChildEnds, KinEnds, hostVars, lineVars, clientVars, Undisturbed, HostRuns
    <3> QED
      BY <3>1, StreamStill
  <2> QED
    BY <1>1, <2>1, TreeWritesKeeps DEF TreeStep
<1>2. CASE HostThread
  BY <1>2, PumpKeeps, InputKeeps, WriteEventKeeps DEF HostThread
<1>3. CASE HostDrains \/ HostSettles
  <2>1. CASE \E next \in {"loop", "settle"} : /\ io # <<>> /\ Admit(Head(io), next)
                                              /\ hostAt \in {"loop", "settle"}
                                              /\ UNCHANGED <<wrote, clientVars>>
    BY <2>1, AdmitKeeps
  <2>2. CASE /\ UNCHANGED <<records, wrote, decoder, wire, events, io, pipe, ended, pumped>>
             /\ hostAt = "settle" /\ hostAt' = "joinReaders"
             /\ Undisturbed' => Undisturbed
    <3>1. hostAt' \in {"flush", "gone"} <=> hostAt \in {"flush", "gone"}
      BY <2>2
    <3> QED
      BY <2>2, <3>1, StreamStill
  <2> QED
    BY <1>3, <2>1, <2>2
       DEF HostDrains, HostSettles, HostGoes, clientVars, Undisturbed, HostRuns
<1>4. CASE \/ HostSeesCause \/ HostCollects \/ HostKills \/ HostCleans \/ HostEmpties
           \/ HostJoinsInput
  <2>1. /\ UNCHANGED <<records, wrote, decoder, wire, events, io, pipe, ended, pumped>>
        /\ hostAt \notin {"flush", "gone"} /\ hostAt' \notin {"flush", "gone"}
    BY <1>4 DEF HostSeesCause, HostCollects, HostKills, HostCleans, HostEmpties, HostJoinsInput,
                treeVars, lineVars, clientVars
  <2>2. Undisturbed' => Undisturbed
    BY <1>4 DEF HostSeesCause, HostCollects, HostKills, HostCleans, HostEmpties, HostJoinsInput,
                clientVars, Undisturbed, HostRuns
  <2> QED
    BY <2>1, <2>2, StreamStill
<1>5. CASE HostKilled /\ ~HostFails
  <2>1. /\ UNCHANGED <<records, wrote, decoder, wire, events, io, pipe, ended, pumped>>
        /\ hostAt = "killing" /\ hostAt' = "cleanup"
        /\ Undisturbed' => Undisturbed
    BY <1>5 DEF HostKilled, HostGoes, clientVars, Undisturbed, HostRuns
  <2>2. hostAt' \in {"flush", "gone"} <=> hostAt \in {"flush", "gone"}
    BY <2>1
  <2> QED
    BY <2>1, <2>2, StreamStill
<1>6. CASE HostRefuses \/ HostCrashes \/ HostFails
  BY <1>6, FailsKeeps DEF HostRefuses, HostCrashes
<1>7. CASE ClientStarts
  <2>1. /\ UNCHANGED <<records, wrote, decoder, wire, events, io, pipe, ended, pumped>>
        /\ hostAt' \in {"flush", "gone"} <=> hostAt \in {"flush", "gone"}
        /\ UNCHANGED <<hostExit, cause, pending>> /\ clientAt = "start"
        /\ hostAt' = hostAt \/ hostAt' = "request"
    BY <1>7 DEF ClientStarts, NoTreeYet, IInv, treeVars, lineVars
  <2>2. Undisturbed' => Undisturbed
    BY <2>1 DEF Undisturbed, HostRuns
  <2> QED
    BY <2>1, <2>2, StreamStill
<1>8. CASE ClientCancels \/ ClientEnds \/ ClientSettles \/ ClientStops
  <2>1. /\ UNCHANGED <<records, wrote, decoder, wire, events, io, pipe, ended, pumped, hostAt>>
        /\ Undisturbed' => Undisturbed
    BY <1>8 DEF ClientCancels, ClientEnds, ClientSettles, ClientStops, SendCancel, hostVars,
                treeVars, lineVars, Undisturbed, HostRuns
  <2> QED
    BY <2>1, StreamStill
<1>9. CASE ClientGivesUp
  BY <1>9 DEF ClientGivesUp, OkInv, CancelHasCause, Undropped, Undisturbed
<1>10. CASE ClientDies
  BY <1>10 DEF ClientDies, Undropped, Undisturbed
<1> QED
  BY <1>1, <1>2, <1>3, <1>4, <1>5, <1>6, <1>7, <1>8, <1>9, <1>10, StartKeeps, ReportKeeps,
     ExitsKeeps, HearKeeps DEF WindowsNext, HostStep, ClientStep, HostKilled

\* And what is known of its ends and of the types.
LEMMA RestKeeps ==
  ASSUME IInv, OkInv, WindowsNext
  PROVE  RecordTypes' /\ EndOfFile' /\ NothingYet' /\ CancelHasCause'
<1>1. EndOfFile /\ NothingYet /\ RecordTypes /\ CancelHasCause
  BY DEF OkInv
<1>2. CASE TreeWrites
  <2>1. wrote' \in Seq(OutKinds)
    BY <1>1, <1>2 DEF TreeWrites, RecordTypes
  <2> QED
    BY <1>1, <1>2, <2>1
       DEF TreeWrites, EndOfFile, NothingYet, RecordTypes, CancelHasCause, HostRuns, hostVars,
           lineVars, clientVars
<1>3. CASE ChildEnds \/ KinEnds
  BY <1>1, <1>3
     DEF ChildEnds, KinEnds, EndOfFile, NothingYet, RecordTypes, CancelHasCause, HostRuns,
         hostVars, lineVars, clientVars
<1>4. CASE Pump
  <2>1. /\ UNCHANGED <<wrote, records, hostAt, ended, leader, hostExit>> /\ UNCHANGED clientVars
        /\ HostRuns /\ ~pumped /\ io \in Seq(Messages) /\ pipe \in Seq(OutKinds)
    BY <1>4 DEF Pump, clientVars, IInv, LinesType
  <2>2. EndOfFile'
    <3>1. CASE pumped'
      BY <1>1, <1>4, <2>1, <3>1 DEF Pump, EndOfFile, HostRuns, Alive
    <3>2. CASE ~pumped'
      <4>1. pipe # <<>> /\ io' = Append(io, Head(pipe))
        BY <1>4, <3>2 DEF Pump
      <4>2. Head(pipe) \in OutKinds /\ Head(pipe) \in Messages /\ Head(pipe) # "end"
        <5>1. Head(pipe) \in OutKinds
          BY <2>1, <4>1, AtTheFront
        <5> QED
          BY <5>1 DEF Messages, OutKinds
      <4>3. /\ Len(io) \in Nat /\ Len(io') = Len(io) + 1 /\ io'[Len(io) + 1] = Head(pipe)
            /\ \A i \in 1..Len(io) : io'[i] = io[i]
        BY <2>1, <4>1, <4>2, AtTheEnd
      <4>4. \A i \in 1..Len(io') : io'[i] # "end"
        BY <1>1, <2>1, <4>2, <4>3 DEF EndOfFile
      <4> QED
        BY <1>1, <2>1, <3>2, <4>4 DEF EndOfFile
    <3> QED
      BY <3>1, <3>2
  <2> QED
    BY <1>1, <2>1, <2>2 DEF NothingYet, RecordTypes, CancelHasCause, HostRuns, clientVars
<1>5. CASE WriteInput
  <2>1. /\ UNCHANGED <<wrote, hostAt, ended, pumped, leader, hostExit>> /\ UNCHANGED clientVars
        /\ HostRuns /\ io \in Seq(Messages)
    BY <1>5 DEF WriteInput, treeVars, clientVars, IInv, LinesType
  <2>2. EndOfFile'
    <3>1. CASE io' = io
      BY <1>1, <2>1, <3>1 DEF EndOfFile, HostRuns
    <3>2. CASE io' = Append(io, "stdinFailed")
      <4>1. /\ Len(io) \in Nat /\ Len(io') = Len(io) + 1 /\ io'[Len(io) + 1] = "stdinFailed"
            /\ \A i \in 1..Len(io) : io'[i] = io[i]
        BY <2>1, <3>2, AtTheEnd DEF Messages
      <4> QED
        BY <1>1, <2>1, <4>1 DEF EndOfFile, HostRuns
    <3> QED
      BY <1>5, <3>1, <3>2 DEF WriteInput
  <2> QED
    BY <1>1, <2>1, <2>2 DEF NothingYet, RecordTypes, CancelHasCause, HostRuns, clientVars
<1>6. CASE WriteEvent
  BY <1>1, <1>6
     DEF WriteEvent, EndOfFile, NothingYet, RecordTypes, CancelHasCause, HostRuns, treeVars,
         clientVars
<1>7. CASE HostDrains \/ HostSettles
  <2>1. /\ UNCHANGED <<wrote, leader>> /\ UNCHANGED clientVars /\ io \in Seq(Messages)
        /\ HostRuns /\ hostAt \in {"loop", "settle"}
    BY <1>7 DEF HostDrains, HostSettles, clientVars, IInv, LinesType, HostRuns
  <2>2. \/ hostAt' = "gone" /\ hostExit' = "failed" /\ pumped' = TRUE
        \/ /\ hostAt' \in {"loop", "settle", "joinReaders"} /\ UNCHANGED <<hostExit, pumped>>
           /\ \/ io # <<>> /\ io' = Tail(io) /\ ended' = TRUE /\ Head(io) = "end"
              \/ io # <<>> /\ io' = Tail(io) /\ ended' = ended
              \/ io' = io /\ ended' = ended
    BY <1>7 DEF HostDrains, HostSettles, Admit, HostGoes, HostFails, HostEnds
  <2>3. EndOfFile'
    <3>1. CASE hostAt' = "gone"
      BY <2>2, <3>1 DEF EndOfFile, HostRuns
    <3>2. CASE hostAt' # "gone" /\ io' = io
      BY <1>1, <2>1, <2>2, <3>2 DEF EndOfFile, HostRuns
    <3>3. CASE hostAt' # "gone" /\ io # <<>> /\ io' = Tail(io)
      <4>1. /\ Head(io) = io[1] /\ Len(io) \in Nat /\ Len(io) >= 1 /\ Len(io') = Len(io) - 1
            /\ \A i \in 1..Len(io) - 1 : io'[i] = io[i + 1]
        BY <2>1, <3>3, AtTheFront
      <4>2. ~pumped => \A i \in 1..Len(io) : io[i] # "end"
        BY <1>1, <2>1 DEF EndOfFile
      <4>3. pumped' = pumped /\ (ended' = ended \/ Head(io) = "end")
        BY <2>2, <3>3
      <4>4. 1 \in 1..Len(io) /\ \A i \in 1..Len(io') : i \in 1..Len(io) - 1 /\ i + 1 \in 1..Len(io)
        BY <4>1
      <4>5. ended' => pumped'
        BY <1>1, <4>1, <4>2, <4>3, <4>4 DEF EndOfFile
      <4>6. ~pumped' => \A i \in 1..Len(io') : io'[i] # "end"
        BY <4>1, <4>2, <4>3, <4>4
      <4> QED
        BY <1>1, <2>1, <2>2, <3>3, <4>5, <4>6 DEF EndOfFile, HostRuns
    <3> QED
      BY <2>2, <3>1, <3>2, <3>3
  <2> QED
    BY <1>1, <2>1, <2>2, <2>3
       DEF NothingYet, RecordTypes, CancelHasCause, HostRuns, clientVars
<1>8. CASE \/ HostSeesCause \/ HostCollects \/ HostKills \/ HostCleans \/ HostEmpties
           \/ HostJoinsInput \/ HostStarts
  BY <1>1, <1>8
     DEF HostSeesCause, HostCollects, HostKills, HostCleans, HostEmpties, HostJoinsInput,
         HostStarts, EndOfFile, NothingYet, RecordTypes, CancelHasCause, HostRuns, treeVars,
         lineVars, clientVars
<1>9. CASE HostKilled \/ HostReports \/ HostRefuses \/ HostExits \/ HostCrashes
  <2>1. /\ UNCHANGED <<wrote, leader, ended>> /\ UNCHANGED clientVars
        /\ hostAt \notin {"none", "gone"}
    BY <1>9 DEF HostKilled, HostReports, HostRefuses, HostExits, HostCrashes, clientVars, HostRuns
  <2>2. \/ hostAt' = "gone" /\ hostExit' # "none" /\ pumped' = TRUE
        \/ /\ hostAt' \in {"cleanup", "flush"} /\ UNCHANGED <<hostExit, pumped, io>>
           /\ HostRuns
    BY <1>9 DEF HostKilled, HostReports, HostRefuses, HostExits, HostCrashes, HostGoes, HostFails,
                HostEnds, HostRuns
  <2> QED
    BY <1>1, <2>1, <2>2
       DEF EndOfFile, NothingYet, RecordTypes, CancelHasCause, HostRuns, clientVars
<1>10. CASE ClientStarts
  BY <1>1, <1>10
     DEF ClientStarts, EndOfFile, NothingYet, RecordTypes, CancelHasCause, HostRuns, treeVars,
         lineVars, IInv, NoTreeYet
<1>11. CASE ClientCancels \/ ClientEnds \/ ClientSettles \/ ClientStops
  BY <1>1, <1>11
     DEF ClientCancels, ClientEnds, ClientSettles, ClientStops, SendCancel, EndOfFile, NothingYet,
         RecordTypes, CancelHasCause, HostRuns, hostVars, treeVars, lineVars
<1>12. CASE ClientHears
  <2>1. /\ UNCHANGED <<hostAt, io, events, ended, pumped, hostExit, leader, pipe, wrote>>
        /\ UNCHANGED <<clientAt, cancelSent, returned>>
    BY <1>12 DEF ClientHears, hostVars, treeVars
  <2>2. CASE UNCHANGED <<wire, decoder, pending, records>>
    BY <1>1, <2>1, <2>2 DEF EndOfFile, NothingYet, RecordTypes, CancelHasCause, HostRuns
  <2>3. CASE wire # <<>> /\ Hear(Head(wire))
    <3>1. /\ records' \in Seq(OutKinds)
          /\ pending' \in {"none", "stopped", "ProtocolTruncated", "ProtocolMalformed"}
          /\ pending # "none" => pending' # "none"
      <4> DEFINE m == Head(wire)
      <4>1. m \in EventLines
        BY <2>3, SaysAfterReceive DEF IInv, LinesType
      <4>2. records \in Seq(OutKinds)
        BY <1>1 DEF RecordTypes
      <4>3. CASE m = "cut"
        BY <1>1, <2>3, <4>3 DEF Hear, OutKinds, First, RecordTypes
      <4>4. CASE m # "cut" /\ Unexpected(m)
        BY <1>1, <2>3, <4>4 DEF Hear, OutKinds, First, RecordTypes
      <4>5. CASE m \in {"started", "exited"} /\ ~Unexpected(m)
        BY <1>1, <2>3, <4>5 DEF Hear, OutKinds, First, RecordTypes
      <4>6. CASE m \in OutKinds /\ ~Unexpected(m)
        <5>1. m \notin {"cut", "started", "exited"}
          BY <4>6 DEF OutKinds
        <5>2. /\ pending' = IF ProtocolError(m) THEN First(pending, "ProtocolMalformed") ELSE pending
              /\ records' = IF ProtocolError(m) THEN records ELSE Append(records, m)
          BY <2>3, <4>6, <5>1 DEF Hear
        <5>3. Append(records, m) \in Seq(OutKinds)
          BY <4>2, <4>6, AtTheEnd
        <5> QED
          BY <1>1, <4>2, <5>2, <5>3 DEF First, RecordTypes
      <4> QED
        BY <4>1, <4>3, <4>4, <4>5, <4>6 DEF EventLines
    <3>2. hostAt \notin {"none", "request"}
      BY <1>1, <2>3 DEF NothingYet
    <3> QED
      BY <1>1, <2>1, <3>1, <3>2 DEF EndOfFile, NothingYet, RecordTypes, CancelHasCause, HostRuns
  <2> QED
    BY <1>12, <2>2, <2>3 DEF ClientHears
<1>13. CASE ClientGivesUp
  BY <1>1, <1>13
     DEF ClientGivesUp, HostEnds, EndOfFile, NothingYet, RecordTypes, CancelHasCause, HostRuns,
         lineVars
<1>14. CASE ClientDies
  BY <1>1, <1>14
     DEF ClientDies, EndOfFile, NothingYet, RecordTypes, CancelHasCause, HostRuns, hostVars,
         treeVars
<1> QED
  BY <1>2, <1>3, <1>4, <1>5, <1>6, <1>7, <1>8, <1>9, <1>10, <1>11, <1>12, <1>13, <1>14
     DEF WindowsNext, TreeStep, HostThread, HostStep, ClientStep

\* What the order of the returns asks of a success.
LEMMA SettledOk ==
  ASSUME IInv, RecordTypes, Settlement = "Ok"
  PROVE  /\ decoder.evidence /\ ~remaining /\ hostExit = "clean" /\ cause = "none"
         /\ pending = "none" /\ leader = "exit0"
<1>1. decoder.poisoned \in BOOLEAN /\ decoder.evidence \in BOOLEAN
  BY DEF IInv, LinesType
<1>2. pending # "Ok" /\ First(pending, "ProtocolMalformed") # "Ok"
  BY DEF RecordTypes, First
<1>3. ~decoder.poisoned
  <2> SUFFICES ASSUME decoder.poisoned PROVE FALSE
    OBVIOUS
  <2> QED
    BY <1>2 DEF Settlement
<1>4. decoder.evidence /\ ~remaining /\ diagnosed # "read"
  BY <1>1, <1>3 DEF Settlement
<1>5. "Ok" = IF HostAccount \in {"natural", "stopped"} /\ pending # "none"
             THEN pending
             ELSE IF HostAccount = "natural" THEN RunVerdict ELSE HostAccount
  BY <1>3, <1>4 DEF Settlement
<1>6. HostAccount # "Ok"
  BY DEF HostAccount
<1>7. HostAccount = "natural" /\ pending = "none" /\ RunVerdict = "Ok"
  BY <1>2, <1>5, <1>6
<1>8. hostExit = "clean" /\ cause = "none"
  BY <1>7 DEF HostAccount
<1>9. leader = "exit0"
  BY <1>7 DEF RunVerdict
<1> QED
  BY <1>4, <1>7, <1>8, <1>9

\* And once there is one nothing happens any more.
LEMMA OkKeeps ==
  ASSUME IInv, OkInv, WindowsNext
  PROVE  WindowsOkIsEarned'
<1> SUFFICES ASSUME returned' = "Ok" PROVE WindowsOkIsEarned'
  BY DEF WindowsOkIsEarned
<1>1. CASE returned = "Ok"
  <2>1. hostAt = "gone" /\ clientAt = "done" /\ leader = "exit0" /\ ~kin
    BY <1>1 DEF IInv, GoneIsCondemned, OkInv, NothingYet, WindowsOkIsEarned
  <2>2. ~TreeStep /\ ~HostThread /\ ~HostKills /\ ~HostCrashes /\ ~HostStep
    BY <2>1 DEF TreeStep, TreeWrites, ChildEnds, KinEnds, HostThread, Pump, WriteInput, WriteEvent,
                HostKills, HostCrashes, HostStep, HostRefuses, HostStarts, HostSeesCause,
                HostDrains, HostCollects, HostKilled, HostCleans, HostEmpties, HostJoinsInput,
                HostSettles, HostReports, HostExits, HostRuns
  <2>3. ~ClientStep /\ ~ClientStops /\ ~ClientGivesUp /\ ~ClientDies
    BY <2>1 DEF ClientStep, ClientStarts, ClientCancels, ClientHears, ClientEnds, ClientSettles,
                ClientStops, ClientGivesUp, ClientDies
  <2> QED
    BY <2>2, <2>3 DEF WindowsNext
<1>2. CASE returned # "Ok"
  <2>1. ClientSettles
    BY <1>2 DEF WindowsNext, TreeStep, TreeWrites, ChildEnds, KinEnds, HostThread, Pump, WriteInput,
                WriteEvent, HostKills, HostCrashes, HostStep, HostRefuses, HostStarts,
                HostSeesCause, HostDrains, HostCollects, HostKilled, HostCleans, HostEmpties,
                HostJoinsInput, HostSettles, HostReports, HostExits, ClientStep, ClientStarts,
                ClientCancels, ClientHears, ClientEnds, ClientStops, ClientGivesUp, ClientDies,
                clientVars
  <2>2. Settlement = "Ok" /\ clientAt = "verdict"
    BY <2>1 DEF ClientSettles
  <2>3. /\ decoder.evidence /\ ~remaining /\ hostExit = "clean" /\ cause = "none"
        /\ pending = "none" /\ leader = "exit0"
    BY <2>2, SettledOk DEF OkInv
  <2>4. LinesInPlace /\ EndIsLast
    BY <2>2, <2>3 DEF OkInv, Undropped, Undisturbed
  <2>5. ~kin
    BY <2>3 DEF IInv, AccountIsTrue, JobWasSeen, Alive
  <2>6. ended => records = wrote
    <3> SUFFICES ASSUME ended PROVE records = wrote
      OBVIOUS
    <3>1. Len(records) = Len(wrote) /\ \A i \in 1..Len(records) : records[i] = wrote[i]
      BY <2>3, <2>4 DEF LinesInPlace, EndIsLast
    <3>2. records \in Seq(OutKinds) /\ wrote \in Seq(OutKinds)
      BY DEF OkInv, RecordTypes
    <3> QED
      BY <3>1, <3>2
  <2> QED
    BY <2>1, <2>3, <2>5, <2>6 DEF ClientSettles, WindowsOkIsEarned, hostVars, treeVars
<1> QED
  BY <1>1, <1>2

\* The second invariant is inductive beside the first.
LEMMA OkInductive == IInv /\ OkInv /\ [WindowsNext]_windowsVars => OkInv'
<1> SUFFICES ASSUME IInv, OkInv, [WindowsNext]_windowsVars PROVE OkInv'
  OBVIOUS
<1>1. CASE WindowsNext
  BY <1>1, UndroppedKeeps, RestKeeps, OkKeeps DEF OkInv
<1>2. CASE UNCHANGED windowsVars
  <2>1. UNCHANGED <<hostVars, treeVars, lineVars, clientVars>>
    BY <1>2 DEF windowsVars
  <2>2. Undropped'
    BY <2>1, StreamStill DEF hostVars, treeVars, lineVars, clientVars, Undisturbed, HostRuns
  <2> QED
    BY <2>1, <2>2 DEF hostVars, treeVars, lineVars, clientVars, OkInv, RecordTypes, EndOfFile,
       NothingYet, CancelHasCause, WindowsOkIsEarned, HostRuns
<1> QED
  BY <1>1, <1>2

\* It holds before anything is started.
LEMMA OkInitially == WindowsInit => OkInv
<1> SUFFICES ASSUME WindowsInit PROVE OkInv
  OBVIOUS
<1>1. ~Undisturbed
  BY DEF WindowsInit, Undisturbed, HostRuns
<1> QED
  BY <1>1 DEF WindowsInit, OkInv, RecordTypes, EndOfFile, NothingYet, CancelHasCause, Undropped,
              WindowsOkIsEarned, HostRuns

\* On Windows a run that succeeds ended by itself with exit code 0 and an empty Job,
\* nothing asked for an end, and every record the harness wrote was accepted, once and
\* in order, unless the host stopped draining at its deadline: no queue between the
\* harness and the protocol loses, repeats or reorders one, whatever their capacity
\* and the limit (windows.rs run_inner and its threads, windows_host.rs accept_line,
\* windows_supervision.rs).
THEOREM WindowsSuccess == WindowsSpec => []WindowsOkIsEarned
<1>1. WindowsSpec => [](IInv /\ OkInv)
  BY Initially, Inductive, OkInitially, OkInductive, PTL DEF WindowsSpec
<1>2. OkInv => WindowsOkIsEarned
  BY DEF OkInv
<1> QED
  BY <1>1, <1>2, PTL
=============================================================================
