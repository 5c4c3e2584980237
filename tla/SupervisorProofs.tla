--------------------------- MODULE SupervisorProofs ---------------------------
(***************************************************************************)
(* Type correctness of Supervisor and the absence of leftovers, for every  *)
(* protocol, stdin lifecycle, channel capacity, harness and bound.          *)
(***************************************************************************)
EXTENDS Supervisor, TLAPS

-----------------------------------------------------------------------------
\* The inductive invariant.

\* Nothing runs before the child is spawned.
BeforeSpawn ==
    pc \in {"entry", "setup"} =>
        /\ child = "unborn" /\ desc = "none" /\ cleanup = "none"
        /\ \A t \in Threads : Finished(t)

\* A thread counts as settled cleanly only after it returned.
CleanIsFinished == \A t \in Threads : settled[t] = "clean" => Finished(t)

\* A termination counts as clean only when the group is gone.
CleanupIsEmpty == cleanup = "clean" => GroupEmpty

\* The group is terminated on behalf of somebody who goes on afterwards.
TerminationReturns == pc \in {"natural", "term", "reap", "wait"} => after # "verdict"

\* supervise has one result, its last step.
ResultIsLast == outcome # "none" => pc = "done"

\* Both readers are told to stop at once: while one is being forced, so is the
\* other, or it returned by itself. Nobody is forced before or after.
ForcedTogether ==
    (\E t \in Threads : settled[t] = "forcing") =>
        /\ pc \in {"drain", "settle"}
        /\ pc = "drain" => /\ settled["stdin"] # "forcing"
                          /\ \A t \in Readers : settled[t] = "forcing" \/ Finished(t)

\* What IInv adds to the types.
Parts ==
    /\ BeforeSpawn
    /\ CleanIsFinished
    /\ CleanupIsEmpty
    /\ TerminationReturns
    /\ ResultIsLast
    /\ ForcedTogether
    /\ NothingLeftBehind

IInv == TypeOK /\ Parts

\* What a termination that comes back sets.
LEMMA TerminatedTypes ==
  ASSUME TypeOK, after # "verdict", NEW result \in {"clean", "failed"}, Terminated(result)
  PROVE  /\ cleanup' = result
         /\ pc' \in {"drain", "settle", "done"}
         /\ outcome' \in {outcome, "CleanupFailed"}
         /\ (chan' = chan \/ chan' = <<>>) /\ dropped' \in BOOLEAN
         /\ pc' = "done" \/ outcome' = outcome
BY DEF TypeOK, Terminated, chanVars

\* Every step keeps the types: one case per action.
LEMMA TypeStep == ASSUME IInv, [Next]_vars PROVE TypeOK'
<1> USE SupervisorAssumption
           DEF IInv, TypeOK, Readers, Threads, Messages, Finals, FailureKinds, Outcomes,
               childVars, pipeVars, chanVars, writerVars, protoVars, endVars, clockVars
<1>1. CASE \E k \in Kinds : ChildWrites(k)
  BY <1>1 DEF ChildWrites
<1>2. CASE ChildComplains
  BY <1>2 DEF ChildComplains
<1>3. CASE \E where \in Descendants : ChildForks(where)
  BY <1>3 DEF ChildForks
<1>4. CASE \E code \in {"good", "bad"} : ChildExits(code)
  BY <1>4 DEF ChildExits
<1>5. CASE DescendantExits
  BY <1>5 DEF DescendantExits
<1>6. CASE Cancel
  BY <1>6 DEF Cancel
<1>7. CASE StartupDeadline
  BY <1>7 DEF StartupDeadline
<1>8. CASE RunDeadline
  BY <1>8 DEF RunDeadline
<1>9. CASE ReadStdout
  BY <1>9, SMTT(60) DEF ReadStdout
<1>10. CASE StdoutEnds
  BY <1>10 DEF StdoutEnds
<1>11. CASE ReadStderr
  BY <1>11 DEF ReadStderr
<1>12. CASE StderrEnds
  BY <1>12 DEF StderrEnds
<1>13. CASE \E t \in Readers : Send(t)
  <2>1. PICK t \in Readers : Send(t)
    BY <1>13
  <2>2. chan' = chan \/ (chan' = Append(chan, rd[t]) /\ rd[t] \in Messages /\ Len(chan) < QueueCap)
    BY <2>1 DEF Send
  <2>4. chan' \in Seq(Messages) /\ Len(chan') <= QueueCap
    BY <2>2, SMTT(60)
  <2>3. rd' \in [Readers -> {"reading", "done"} \cup Messages]
    BY <2>1 DEF Send
  <2> QED
    BY <2>1, <2>4, <2>3 DEF Send
<1>14. CASE FrameWritten
  BY <1>14 DEF FrameWritten
<1>15. CASE FrameFails
  BY <1>15 DEF FrameFails
<1>16. CASE WriterChecks
  BY <1>16 DEF WriterChecks
<1>17. CASE WriterTakes
  BY <1>17 DEF WriterTakes
<1>18. CASE MainEntry
  BY <1>18 DEF MainEntry
<1>19. CASE \E kind \in {"RecursiveInvocation", "HarnessUnavailable", "ContainmentUnsupported"} : SetupRefused(kind)
  BY <1>19 DEF SetupRefused
<1>20. CASE \E missing \in {"none", "stdin", "stdout", "stderr"} : Spawn(missing)
  <2>1. PICK missing \in {"none", "stdin", "stdout", "stderr"} : Spawn(missing)
    BY <1>20
  <2>2. rd' \in [Readers -> {"reading", "done"} \cup Messages]
    BY <2>1 DEF Spawn
  <2>3. settled' \in [Threads -> {"unset", "forcing", "clean", "forced", "lost"}]
    BY <2>1 DEF Spawn
  <2>4. stop' \in [Threads -> BOOLEAN]
    BY <2>1 DEF Spawn
  <2>5. /\ wr' \in {"writing", "loop", "recv", "ok", "err"} /\ wclose' \in BOOLEAN
        /\ after' \in {"verdict", "fail", "setup", "leftover"}
        /\ failure' \in FailureKinds \cup {"none"} /\ pc' \in {"poll", "term"}
    BY <2>1 DEF Spawn
  <2> QED
    BY <2>1, <2>2, <2>3, <2>4, <2>5 DEF Spawn
<1>21. CASE MainPoll
  BY <1>21 DEF MainPoll, Expired, Reaped, Collected
<1>22. CASE MainReceive
  <2>1. Head(chan) \in Messages /\ Tail(chan) \in Seq(Messages) /\ Len(Tail(chan)) <= QueueCap
    BY <1>22, SMTT(60) DEF MainReceive
  <2>2. \A k \in Kinds : Verdict(k) \in FailureKinds \cup {"none"}
    BY DEF Verdict
  <2>3. \A m \in Messages : MessageFailure(m) \in FailureKinds \cup {"none"}
    BY <2>2 DEF MessageFailure
  <2>4. WriteFailure \in FailureKinds \cup {"none"} /\ (WriteFailure = "none" => wq # 2)
    BY DEF WriteFailure
  <2>5. failure' \in FailureKinds \cup {"none"}
    BY <1>22, <2>1, <2>3, <2>4 DEF MainReceive
  <2>6. wq' \in 0..2 /\ sent' \in Nat
    <3>1. wq' = wq \/ (WriteFailure = "none" /\ wq' = wq + 1)
      BY <1>22 DEF MainReceive
    <3>2. sent' = sent \/ sent' = sent + 1
      BY <1>22 DEF MainReceive
    <3> QED
      BY <2>4, <3>1, <3>2
  <2>7. admitted' \in Seq(Kinds)
    BY <1>22 DEF MainReceive
  <2>8. /\ started' \in BOOLEAN /\ terminal' \in BOOLEAN
        /\ outEof' \in BOOLEAN /\ errEof' \in BOOLEAN /\ wclose' \in BOOLEAN
    BY <1>22, Zenon DEF MainReceive
  <2>9. pc' \in {"stop", "close", "poll"}
    BY <1>22 DEF MainReceive
  <2> QED
    BY <1>22, <2>1, <2>5, <2>6, <2>7, <2>8, <2>9 DEF MainReceive
<1>23. CASE MainIdle
  BY <1>23 DEF MainIdle
<1>24. CASE MainStop
  BY <1>24 DEF MainStop
<1>25. CASE MainNatural
  BY <1>25 DEF MainNatural, Reaped, Collected
<1>26. CASE Kill
  BY <1>26 DEF Kill, Reaped
<1>27. CASE ReapedInTime
  <2>1. after # "verdict"
    BY <1>27 DEF ReapedInTime, Parts, TerminationReturns
  <2>2. PICK result \in {"clean", "failed"} : Terminated(result)
    BY <1>27 DEF ReapedInTime
  <2>3. /\ cleanup' = result /\ pc' \in {"drain", "settle", "done"}
        /\ outcome' \in {outcome, "CleanupFailed"}
        /\ (chan' = chan \/ chan' = <<>>) /\ dropped' \in BOOLEAN
    BY <2>1, <2>2, TerminatedTypes
  <2>4. chan' \in Seq(Messages) /\ Len(chan') <= QueueCap
    <3>1. CASE chan' = chan
      BY <3>1
    <3>2. CASE chan' = <<>>
      BY <3>2
    <3> QED
      BY <2>3, <3>1, <3>2
  <2>5. /\ UNCHANGED <<exit, desc, killed, written, nread, errs, nerr, rd, stop, wr, wq,
                       wclose, sent, delivered, status, started, terminal, admitted>>
        /\ UNCHANGED <<outEof, errEof, failure, after, settled, cancelled, startupDue,
                       runDue>>
        /\ child' = "reaped"
    BY <1>27 DEF ReapedInTime
  <2> QED
    BY <2>3, <2>4, <2>5
<1>28. CASE ReapDeadline
  BY <1>28 DEF ReapDeadline, Reaped
<1>29. CASE ReapWait
  <2>1. after # "verdict"
    BY <1>29 DEF ReapWait, Parts, TerminationReturns
  <2>2. PICK result \in {"clean", "failed"} : Terminated(result)
    BY <1>29 DEF ReapWait
  <2>3. /\ cleanup' = result /\ pc' \in {"drain", "settle", "done"}
        /\ outcome' \in {outcome, "CleanupFailed"}
        /\ (chan' = chan \/ chan' = <<>>) /\ dropped' \in BOOLEAN
    BY <2>1, <2>2, TerminatedTypes
  <2>4. chan' \in Seq(Messages) /\ Len(chan') <= QueueCap
    <3>1. CASE chan' = chan
      BY <3>1
    <3>2. CASE chan' = <<>>
      BY <3>2
    <3> QED
      BY <2>3, <3>1, <3>2
  <2>5. /\ UNCHANGED <<exit, desc, killed, written, nread, errs, nerr, rd, stop, wr, wq,
                       wclose, sent, delivered, status, started, terminal, admitted>>
        /\ UNCHANGED <<outEof, errEof, failure, after, settled, cancelled, startupDue,
                       runDue>>
        /\ child' = "reaped"
    BY <1>29 DEF ReapWait
  <2> QED
    BY <2>3, <2>4, <2>5
<1>30. CASE Drain
  BY <1>30 DEF Drain
<1>31. CASE ForceReaders
  BY <1>31 DEF ForceReaders
<1>32. CASE ReadersSettled
  BY <1>32 DEF ReadersSettled
<1>33. CASE MainClose
  BY <1>33 DEF MainClose
<1>34. CASE \E t \in Threads : Settle(t)
  <2>1. PICK t \in Threads : Settle(t)
    BY <1>34
  <2>2. settled' \in [Threads -> {"unset", "forcing", "clean", "forced", "lost"}]
    BY <2>1, ZenonT(90) DEF Settle, Turn
  <2>3. stop' \in [Threads -> BOOLEAN]
    BY <2>1 DEF Settle, Turn
  <2> QED
    BY <2>1, <2>2, <2>3 DEF Settle
<1>35. CASE FailureVerdict
  BY <1>35 DEF FailureVerdict
<1>36. CASE SuccessVerdict
  BY <1>36 DEF SuccessVerdict, StreamVerdict
<1>37. CASE Done \/ UNCHANGED vars
  BY <1>37, SMTT(60) DEF Done, vars
<1> QED
  BY <1>1, <1>2, <1>3, <1>4, <1>5, <1>6, <1>7, <1>8, <1>9, <1>10, <1>11, <1>12, <1>13, <1>14, <1>15, <1>16, <1>17, <1>18, <1>19, <1>20, <1>21, <1>22, <1>23, <1>24, <1>25, <1>26, <1>27, <1>28, <1>29, <1>30, <1>31, <1>32, <1>33, <1>34, <1>35, <1>36, <1>37 DEF Next, Harness, Writer, Supervise

\* A thread that returned stays so, but for the spawn of the child.
LEMMA FinishedStays ==
  ASSUME IInv, [Next]_vars, pc # "setup"
  PROVE  \A t \in Threads : Finished(t) => Finished(t)'
<1> USE DEF IInv, TypeOK, Finished, Readers, Threads, Messages, Finals,
            childVars, pipeVars, chanVars, writerVars, protoVars, endVars, clockVars
<1>1. CASE Harness
  BY <1>1 DEF Harness, ChildWrites, ChildComplains, ChildForks, ChildExits, DescendantExits
<1>2. CASE Cancel \/ StartupDeadline \/ RunDeadline
  BY <1>2 DEF Cancel, StartupDeadline, RunDeadline
<1>3. CASE ReadStdout \/ StdoutEnds
  BY <1>3 DEF ReadStdout, StdoutEnds
<1>4. CASE ReadStderr \/ StderrEnds
  BY <1>4 DEF ReadStderr, StderrEnds
<1>5. CASE \E t \in Readers : Send(t)
  <2>1. PICK r \in Readers : Send(r)
    BY <1>5
  <2>2. rd[r] \in Messages /\ UNCHANGED wr
    BY <2>1 DEF Send, writerVars
  <2>3. rd[r] # "done"
    BY <2>2, SupervisorAssumption
  <2>4. \E m \in {"done", "reading"} : rd' = [rd EXCEPT ![r] = m]
    BY <2>1 DEF Send
  <2>5. \A t \in Readers : rd[t] = "done" => rd'[t] = "done"
    BY <2>3, <2>4
  <2> QED
    BY <2>2, <2>5
<1>6. CASE Writer
  BY <1>6 DEF Writer, FrameWritten, FrameFails, WriterChecks, WriterTakes
<1>7. CASE Supervise
  <2>1. UNCHANGED <<rd, wr>>
    BY <1>7 DEF Supervise, MainEntry, SetupRefused, Spawn, MainPoll, MainReceive, MainIdle,
                MainStop, MainNatural, Kill, ReapedInTime, ReapDeadline, ReapWait, Drain,
                ForceReaders, ReadersSettled, MainClose, Settle, FailureVerdict,
                SuccessVerdict
  <2> QED
    BY <2>1
<1>8. CASE Done \/ UNCHANGED vars
  BY <1>8 DEF Done, vars
<1> QED
  BY <1>1, <1>2, <1>3, <1>4, <1>5, <1>6, <1>7, <1>8 DEF Next

\* A group without members has nobody left to fork.
LEMMA GroupStaysEmpty ==
  ASSUME IInv, [Next]_vars, pc # "setup", GroupEmpty
  PROVE  GroupEmpty'
<1> USE DEF GroupEmpty, InGroup, IInv, TypeOK, childVars
<1>1. CASE Harness
  BY <1>1 DEF Harness, ChildWrites, ChildComplains, ChildForks, ChildExits, DescendantExits,
              ChildLives
<1>2. CASE Cancel \/ StartupDeadline \/ RunDeadline
  BY <1>2 DEF Cancel, StartupDeadline, RunDeadline
<1>3. CASE ReadStdout \/ StdoutEnds \/ ReadStderr \/ StderrEnds
  BY <1>3 DEF ReadStdout, StdoutEnds, ReadStderr, StderrEnds
<1>4. CASE \E t \in Readers : Send(t)
  BY <1>4 DEF Send
<1>5. CASE Writer
  BY <1>5 DEF Writer, FrameWritten, FrameFails, WriterChecks, WriterTakes
<1>6. CASE Supervise
  BY <1>6 DEF Supervise, MainEntry, SetupRefused, Spawn, MainPoll, MainReceive, MainIdle,
              MainStop, MainNatural, Kill, ReapedInTime, ReapDeadline, ReapWait, Drain,
              ForceReaders, ReadersSettled, MainClose, Settle, FailureVerdict,
              SuccessVerdict, Reaped
<1>7. CASE Done \/ UNCHANGED vars
  BY <1>7 DEF Done, vars
<1> QED
  BY <1>1, <1>2, <1>3, <1>4, <1>5, <1>6, <1>7 DEF Next

\* Only the supervising thread moves pc and the variables of the verdict.
LEMMA OthersKeepVerdict ==
  ASSUME [Next]_vars, ~Supervise
  PROVE  UNCHANGED <<pc, after, cleanup, settled, outcome>>
<1> USE DEF childVars, pipeVars, chanVars, writerVars, protoVars, endVars, clockVars
<1>1. CASE Harness
  BY <1>1 DEF Harness, ChildWrites, ChildComplains, ChildForks, ChildExits, DescendantExits
<1>2. CASE Cancel \/ StartupDeadline \/ RunDeadline
  BY <1>2 DEF Cancel, StartupDeadline, RunDeadline
<1>3. CASE ReadStdout \/ StdoutEnds \/ ReadStderr \/ StderrEnds
  BY <1>3 DEF ReadStdout, StdoutEnds, ReadStderr, StderrEnds
<1>4. CASE \E t \in Readers : Send(t)
  BY <1>4 DEF Send
<1>5. CASE Writer
  BY <1>5 DEF Writer, FrameWritten, FrameFails, WriterChecks, WriterTakes
<1>6. CASE Done \/ UNCHANGED vars
  BY <1>6 DEF Done, vars
<1> QED
  BY <1>1, <1>2, <1>3, <1>4, <1>5, <1>6 DEF Next

\* Before the spawn the other processes and threads have nothing to do.
LEMMA NothingBeforeSpawn ==
  ASSUME IInv, [Next]_vars, ~Supervise, pc \in {"entry", "setup"}
  PROVE  /\ child' = "unborn" /\ desc' = "none"
         /\ \A t \in Threads : Finished(t)'
<1> USE SupervisorAssumption
        DEF IInv, Parts, TypeOK, BeforeSpawn, Finished, Readers, Threads, Messages, Finals,
            childVars, pipeVars, chanVars, writerVars, protoVars, endVars, clockVars
<1>1. CASE Harness
  BY <1>1 DEF Harness, ChildWrites, ChildComplains, ChildForks, ChildExits, DescendantExits,
              ChildLives
<1>2. CASE Cancel \/ StartupDeadline \/ RunDeadline
  BY <1>2 DEF Cancel, StartupDeadline, RunDeadline
<1>3. CASE ReadStdout \/ StdoutEnds \/ ReadStderr \/ StderrEnds
  BY <1>3 DEF ReadStdout, StdoutEnds, ReadStderr, StderrEnds
<1>4. CASE \E t \in Readers : Send(t)
  BY <1>4, ZenonT(90) DEF Send
<1>5. CASE Writer
  BY <1>5 DEF Writer, FrameWritten, FrameFails, WriterChecks, WriterTakes
<1>6. CASE Done \/ UNCHANGED vars
  BY <1>6 DEF Done, vars
<1> QED
  BY <1>1, <1>2, <1>3, <1>4, <1>5, <1>6 DEF Next

\* Steps of the other processes and threads keep every part of the invariant.
LEMMA OthersKeepParts ==
  ASSUME IInv, [Next]_vars, ~Supervise
  PROVE  Parts'
<1>1. UNCHANGED <<pc, after, cleanup, settled, outcome>>
  BY OthersKeepVerdict
<1>2. CASE pc \in {"entry", "setup"}
  <2>1. /\ child' = "unborn" /\ desc' = "none"
        /\ \A t \in Threads : Finished(t)'
    BY <1>2, NothingBeforeSpawn
  <2> QED
    BY <1>1, <1>2, <2>1 DEF Parts, IInv, BeforeSpawn, CleanIsFinished, CleanupIsEmpty,
       TerminationReturns, ResultIsLast, ForcedTogether, NothingLeftBehind, GroupEmpty,
       InGroup, Readers, Threads
<1>3. CASE pc \notin {"entry", "setup"}
  <2>1. \A t \in Threads : Finished(t) => Finished(t)'
    BY <1>3, FinishedStays
  <2>2. GroupEmpty => GroupEmpty'
    BY <1>3, GroupStaysEmpty
  <2> QED
    BY <1>1, <1>3, <2>1, <2>2 DEF Parts, IInv, BeforeSpawn, CleanIsFinished,
       CleanupIsEmpty, TerminationReturns, ResultIsLast, ForcedTogether,
       NothingLeftBehind, Readers, Threads
<1> QED
  BY <1>2, <1>3

\* So does every step of the supervising thread: one case per action.
LEMMA SuperviseKeepsParts ==
  ASSUME IInv, [Next]_vars, Supervise
  PROVE  Parts'
<1> USE DEF Parts, IInv, BeforeSpawn, CleanIsFinished, CleanupIsEmpty,
            TerminationReturns, ResultIsLast, ForcedTogether, NothingLeftBehind
<1>1. pc # "setup" => \A t \in Threads : Finished(t) => Finished(t)'
  BY FinishedStays
<1>2. pc # "setup" /\ GroupEmpty => GroupEmpty'
  BY GroupStaysEmpty
<1>3. CASE MainEntry
  BY <1>1, <1>2, <1>3 DEF MainEntry, Finished, GroupEmpty, InGroup, protoVars, endVars, childVars, writerVars
<1>4. CASE \E kind \in {"RecursiveInvocation", "HarnessUnavailable", "ContainmentUnsupported"} : SetupRefused(kind)
  BY <1>1, <1>2, <1>4 DEF SetupRefused, Finished, GroupEmpty, InGroup, protoVars, endVars, childVars, writerVars
<1>5. CASE \E missing \in {"none", "stdin", "stdout", "stderr"} : Spawn(missing)
  <2>1. PICK missing \in {"none", "stdin", "stdout", "stderr"} : Spawn(missing)
    BY <1>5
  <2>2. \A t \in Readers : settled'[t] = "clean" => rd'[t] = "done"
    BY <2>1 DEF Spawn, Readers, Threads
  <2>3. settled'["stdin"] = "clean" => wr' = "ok"
    BY <2>1 DEF Spawn, Readers, Threads
  <2>4. \A t \in Threads : settled'[t] = "clean" => Finished(t)'
    BY <2>2, <2>3 DEF Finished, Readers, Threads
  <2>5. /\ pc = "setup" /\ pc' \in {"poll", "term"}
        /\ pc' = "term" => after' = "setup"
        /\ outcome' = outcome /\ cleanup' = cleanup
        /\ \A t \in Threads : settled'[t] \in {"unset", "clean"}
    BY <2>1 DEF Spawn, Readers, Threads
  <2> QED
    BY <2>4, <2>5
<1>6. CASE MainPoll
  BY <1>1, <1>2, <1>6 DEF MainPoll, Finished, GroupEmpty, InGroup, protoVars, endVars, childVars, writerVars
<1>7. CASE MainReceive
  BY <1>1, <1>2, <1>7 DEF MainReceive, Finished, GroupEmpty, InGroup, protoVars, endVars, childVars, writerVars
<1>8. CASE MainIdle
  BY <1>1, <1>2, <1>8 DEF MainIdle, Finished, GroupEmpty, InGroup, protoVars, endVars, childVars, writerVars
<1>9. CASE MainStop
  BY <1>1, <1>2, <1>9 DEF MainStop, Finished, GroupEmpty, InGroup, protoVars, endVars, childVars, writerVars
<1>10. CASE MainNatural
  BY <1>1, <1>2, <1>10 DEF MainNatural, Finished, GroupEmpty, InGroup, protoVars, endVars, childVars, writerVars
<1>11. CASE Kill
  BY <1>1, <1>2, <1>11 DEF Kill, Finished, GroupEmpty, InGroup, protoVars, endVars, childVars, writerVars
<1>12. CASE ReapedInTime
  <2>1. after # "verdict" /\ pc \in {"reap", "wait"} /\ outcome = "none"
    BY <1>12 DEF ReapedInTime
  <2>2. PICK result \in {"clean", "failed"} :
           Terminated(result) /\ (result = "clean" => ~InGroup)
    BY <1>12 DEF ReapedInTime
  <2>3. /\ cleanup' = result /\ pc' \in {"drain", "settle", "done"}
        /\ outcome' \in {outcome, "CleanupFailed"}
        /\ pc' = "done" \/ outcome' = outcome
    BY <2>1, <2>2, TerminatedTypes
  <2>4. child' = "reaped" /\ desc' = desc /\ settled' = settled
    BY <1>12 DEF ReapedInTime
  <2>5. cleanup' = "clean" => GroupEmpty'
    BY <2>2, <2>3, <2>4 DEF GroupEmpty, InGroup
  <2> QED
    BY <1>1, <2>1, <2>3, <2>4, <2>5
<1>13. CASE ReapDeadline
  BY <1>1, <1>2, <1>13 DEF ReapDeadline, Finished, GroupEmpty, InGroup, protoVars, endVars, childVars, writerVars
<1>14. CASE ReapWait
  <2>1. after # "verdict" /\ pc \in {"reap", "wait"} /\ outcome = "none"
    BY <1>14 DEF ReapWait
  <2>2. PICK result \in {"clean", "failed"} :
           Terminated(result) /\ (result = "clean" => ~InGroup)
    BY <1>14 DEF ReapWait
  <2>3. /\ cleanup' = result /\ pc' \in {"drain", "settle", "done"}
        /\ outcome' \in {outcome, "CleanupFailed"}
        /\ pc' = "done" \/ outcome' = outcome
    BY <2>1, <2>2, TerminatedTypes
  <2>4. child' = "reaped" /\ desc' = desc /\ settled' = settled
    BY <1>14 DEF ReapWait
  <2>5. cleanup' = "clean" => GroupEmpty'
    BY <2>2, <2>3, <2>4 DEF GroupEmpty, InGroup
  <2> QED
    BY <1>1, <2>1, <2>3, <2>4, <2>5
<1>15. CASE Drain
  BY <1>1, <1>2, <1>15 DEF Drain, Finished, GroupEmpty, InGroup, protoVars, endVars, childVars, writerVars
<1>16. CASE ForceReaders
  <2>1. /\ pc = "drain" /\ \A t \in Readers : settled[t] # "forcing"
        /\ UNCHANGED <<pc, outcome, cleanup, after>>
    BY <1>16 DEF ForceReaders
  <2>2. \A t \in Readers : settled'[t] = "forcing" \/ Finished(t)
    BY <1>16 DEF ForceReaders, Readers, Threads
  <2>3. settled'["stdin"] = settled["stdin"] /\ settled["stdin"] # "forcing"
    BY <1>16, <2>1 DEF ForceReaders, Readers, Threads
  <2>4. \A t \in Threads : settled'[t] = "clean" => settled[t] = "clean"
    BY <1>16 DEF ForceReaders, Readers, Threads
  <2> QED
    BY <1>1, <1>2, <2>1, <2>2, <2>3, <2>4 DEF Readers, Threads
<1>17. CASE ReadersSettled
  <2>1. \A t \in Threads : settled'[t] = "clean" => Finished(t)
    <3>1. settled'["stdin"] = settled["stdin"]
      BY <1>17 DEF ReadersSettled, Readers, Threads
    <3>2. \A t \in Readers : settled'[t] = "clean" => settled[t] # "forcing"
      BY <1>17 DEF ReadersSettled, Readers, Threads
    <3>3. \A t \in Readers : settled[t] # "forcing" => Finished(t)
      BY <1>17 DEF ReadersSettled, Readers, Threads
    <3> QED
      BY <3>1, <3>2, <3>3 DEF Readers, Threads
  <2>2. pc = "drain" /\ pc' = "settle" /\ UNCHANGED <<outcome, cleanup>>
    BY <1>17 DEF ReadersSettled
  <2>3. \A t \in Threads : settled'[t] # "forcing"
    BY <1>17 DEF ReadersSettled, Readers, Threads
  <2> QED
    BY <1>1, <1>2, <2>1, <2>2, <2>3
<1>18. CASE MainClose
  BY <1>1, <1>2, <1>18 DEF MainClose, Finished, GroupEmpty, InGroup, protoVars, endVars, childVars, writerVars
<1>19. CASE \E t \in Threads : Settle(t)
  <2>1. PICK t \in Threads : Settle(t)
    BY <1>19
  <2>2. \A u \in Threads : settled'[u] = "clean" => settled[u] = "clean" \/ Finished(u)
    BY <2>1 DEF Settle, Turn, TypeOK
  <2>3. pc = "settle" /\ UNCHANGED <<pc, outcome, cleanup>>
    BY <2>1 DEF Settle, Turn
  <2> QED
    BY <1>1, <1>2, <2>2, <2>3
<1>20. CASE FailureVerdict
  BY <1>1, <1>2, <1>20 DEF FailureVerdict, Finished, GroupEmpty, InGroup, protoVars, endVars, childVars, writerVars, AllSettled, AllClean
<1>21. CASE SuccessVerdict
  BY <1>1, <1>2, <1>21 DEF SuccessVerdict, Finished, GroupEmpty, InGroup, protoVars, endVars, childVars, writerVars, AllSettled, AllClean
<1> QED
  BY <1>3, <1>4, <1>5, <1>6, <1>7, <1>8, <1>9, <1>10, <1>11, <1>12, <1>13, <1>14, <1>15, <1>16, <1>17, <1>18, <1>19, <1>20, <1>21 DEF Supervise

-----------------------------------------------------------------------------
\* The theorems.

\* Every step of supervise_direct, its threads and the harness keeps IInv.
THEOREM Inductive == IInv /\ [Next]_vars => IInv'
<1> SUFFICES ASSUME IInv, [Next]_vars PROVE IInv'
  OBVIOUS
<1>1. TypeOK'
  BY TypeStep
<1>2. Parts'
  BY OthersKeepParts, SuperviseKeepsParts
<1> QED
  BY <1>1, <1>2 DEF IInv, Parts

\* supervise_direct starts in the invariant.
LEMMA Initially == Init => IInv
<1> SUFFICES ASSUME Init PROVE IInv
  OBVIOUS
<1> USE DEF Init, Finished, Readers, Threads
<1>1. TypeOK
  <2>1. /\ rd \in [Readers -> {"reading", "done"} \cup Messages]
        /\ stop \in [Threads -> BOOLEAN]
        /\ settled \in [Threads -> {"unset", "forcing", "clean", "forced", "lost"}]
    OBVIOUS
  <2>2. /\ written \in Seq(Kinds) /\ admitted \in Seq(Kinds)
        /\ chan \in Seq(Messages) /\ Len(chan) <= QueueCap
    BY SupervisorAssumption
  <2>3. /\ failure \in FailureKinds \cup {"none"} /\ outcome \in Outcomes
        /\ wr \in {"writing", "loop", "recv", "ok", "err"} /\ wq \in 0..2
    BY DEF Outcomes
  <2>4. /\ nread \in Nat /\ errs \in Nat /\ nerr \in Nat
        /\ sent \in Nat /\ delivered \in Nat
    OBVIOUS
  <2> QED
    BY <2>1, <2>2, <2>3, <2>4 DEF TypeOK
<1>2. Parts
  BY DEF Parts, BeforeSpawn, CleanIsFinished, CleanupIsEmpty, TerminationReturns,
         ResultIsLast, ForcedTogether, NothingLeftBehind
<1> QED
  BY <1>1, <1>2 DEF IInv

\* Every reachable state satisfies IInv.
THEOREM Invariance == Spec => []IInv
BY Initially, Inductive, PTL DEF Spec

\* Every variable keeps its type, for every protocol and every bound: the
\* channel never exceeds its capacity, the writer's queue never holds more than
\* two frames (supervisor.rs supervise_direct and its threads).
THEOREM TypeCorrect == Spec => []TypeOK
<1>1. IInv => TypeOK
  BY DEF IInv
<1> QED
  BY <1>1, Invariance, PTL

\* Whatever supervise returns but CleanupFailed, the original process group is
\* gone and its helper threads have returned (cli/SPEC.md section 10, item 15).
THEOREM NothingIsLeftBehind == Spec => []NothingLeftBehind
<1>1. IInv => NothingLeftBehind
  BY DEF IInv, Parts
<1> QED
  BY <1>1, Invariance, PTL

-----------------------------------------------------------------------------
\* What a success rests on: the account of the run while its loop goes on.

\* Nothing has been read, told to stop or closed before the spawn.
Unspent ==
    pc \in {"entry", "setup"} =>
        /\ written = <<>> /\ nread = 0 /\ chan = <<>> /\ admitted = <<>> /\ ~dropped
        /\ \A t \in Threads : ~stop[t]
        /\ ~outEof /\ ~errEof /\ exit = "none" /\ status = "none" /\ after = "verdict"

\* Each reader sends what its stream may hold.
ReadersSay ==
    /\ rd["stdout"] \in {"reading", "done", "eof", "truncated", "limit"} \cup Kinds
    /\ rd["stderr"] \in {"reading", "done", "errChunk", "errEof", "errLimit"}

\* The loop leaves the readers alone: they are neither stopped nor cut off.
ReadersAtWork ==
    pc \in {"poll", "recv", "close"} =>
        /\ after = "verdict" /\ ~dropped
        /\ \A t \in Readers : ~stop[t]

\* A cause is kept from where it is found to the verdict, and there is none on
\* the way to a success.
CauseIsKept ==
    /\ pc \in {"stop", "natural"} \/ after \in {"fail", "setup"} =>
           failure \in FailureKinds \ {"CleanupFailed"}
    /\ after = "verdict" /\ pc \notin {"stop", "natural"} => failure = "none"
    /\ after = "leftover" => pc \in {"term", "reap", "wait", "done"}
    /\ pc \in {"drain", "natural"} => after \in {"fail"}
    /\ pc = "done" <=> outcome # "none"

\* A child is born once, at the spawn, and its collected status is its own.
StatusIsExit ==
    /\ pc \notin {"entry", "setup", "done"} => child # "unborn"
    /\ status # "none" => child = "reaped" /\ status = exit

\* The end of stderr says that nobody holds the pipes of the harness any more.
\* As long as the loop goes on no other message of that reader ends it but the
\* one that fails the run.
EndIsEnd ==
    /\ pc \in {"poll", "recv", "close"} =>
        /\ errEof \/ rd["stderr"] = "errEof" \/ (\E i \in 1..Len(chan) : chan[i] = "errEof")
               => ~PipesHeld
        /\ rd["stderr"] = "done" => ~PipesHeld \/ \E i \in 1..Len(chan) : chan[i] = "errLimit"
    /\ pc = "close" => errEof /\ outEof
    /\ pc = "settle" /\ after = "verdict" => ~PipesHeld /\ status # "none"
    /\ pc = "close" => status # "none"

\* A closed stdin was asked for.
ClosedOnRequest ==
    pc \in {"poll", "recv"} /\ Lifecycle = "close-after-terminal" =>
        /\ wr = "ok" => wclose
        /\ wclose => terminal \/ \E i \in DOMAIN admitted : admitted[i] \in CloseOn

\* f numbers what is in a channel ch by its place in the stream: from is the
\* place of the last record received before, to that of the last one read.
Numbers(f, ch, from, to) ==
    /\ f \in [0..Len(ch) -> 0..to]
    /\ f[0] = from
    /\ \A i \in 1..Len(ch) : f[i] = IF ch[i] \in Kinds THEN f[i - 1] + 1 ELSE f[i - 1]

\* What is in the channel is the stream w from where it was received to where
\* it was read, n records from its start, by a reader that is at r.
Carried(f, ch, w, n, r) ==
    /\ \A i \in 1..Len(ch) :
          /\ ch[i] \in Kinds => ch[i] = w[f[i]]
          /\ ch[i] = "eof" => r = "done" /\ f[i] = Len(w)
    /\ r = "reading" =>
          f[Len(ch)] = n \/ (f[Len(ch)] < n /\ n = Len(w) /\ w[n] = "partial")
    /\ r \in Kinds => f[Len(ch)] + 1 = n /\ r = w[n]
    /\ r = "eof" => f[Len(ch)] = Len(w)
    /\ r = "done" /\ "empty" \notin Kinds =>
          \/ f[Len(ch)] = Len(w)
          \/ \E i \in 1..Len(ch) : ch[i] \in {"limit", "truncated"}

\* The stream and what is known of it, apart from the channel.
Stream ==
    /\ nread <= Len(written)
    /\ \A i \in 1..Len(written) : written[i] = "partial" => i = Len(written)
    /\ Len(admitted) <= nread
    /\ \A i \in 1..Len(admitted) : admitted[i] = written[i]

\* The records in the channel are those between the admitted and the read ones.
Channel ==
    pc \in {"poll", "recv"} =>
        \E f \in [0..Len(chan) -> 0..nread] :
            /\ Numbers(f, chan, Len(admitted), nread)
            /\ Carried(f, chan, written, nread, rd["stdout"])

\* Nothing is missing at the end of the stream.
Ended ==
    /\ outEof /\ pc \in {"poll", "recv", "close"} => rd["stdout"] = "done"
    /\ "empty" \notin Kinds =>
          /\ outEof /\ pc \in {"poll", "recv", "close"} => Len(admitted) = Len(written)
          /\ pc = "settle" /\ after = "verdict" => Len(admitted) = Len(written)

\* What a reported success says stays true.
SuccessStays == outcome = "Ok" =>
    /\ terminal /\ exit = "good" /\ wr = "ok" /\ ~PipesHeld
    /\ "empty" \notin Kinds => Len(admitted) = Len(written)

Account ==
    /\ Unspent /\ ReadersSay /\ ReadersAtWork /\ CauseIsKept /\ StatusIsExit
    /\ EndIsEnd /\ ClosedOnRequest /\ Stream /\ Channel /\ Ended /\ SuccessStays

-----------------------------------------------------------------------------
\* The proof that the account is kept, part by part.

\* The harness, the clocks, the readers and the writer leave the supervising
\* thread and what it has collected alone.
LEMMA OthersKeepLoop ==
  ASSUME [Next]_vars, ~Supervise
  PROVE  UNCHANGED <<pc, after, outcome, failure, status, stop, admitted, terminal, outEof,
                     errEof, dropped, wclose>>
<1> USE DEF childVars, pipeVars, chanVars, writerVars, protoVars, endVars, clockVars
<1>1. CASE Harness
  BY <1>1 DEF Harness, ChildWrites, ChildComplains, ChildForks, ChildExits, DescendantExits
<1>2. CASE Cancel \/ StartupDeadline \/ RunDeadline
  BY <1>2 DEF Cancel, StartupDeadline, RunDeadline
<1>3. CASE ReadStdout \/ StdoutEnds \/ ReadStderr \/ StderrEnds
  BY <1>3 DEF ReadStdout, StdoutEnds, ReadStderr, StderrEnds
<1>4. CASE \E t \in Readers : Send(t)
  BY <1>4 DEF Send
<1>5. CASE Writer
  BY <1>5 DEF Writer, FrameWritten, FrameFails, WriterChecks, WriterTakes
<1>6. CASE Done \/ UNCHANGED vars
  BY <1>6 DEF Done, vars
<1> QED
  BY <1>1, <1>2, <1>3, <1>4, <1>5, <1>6 DEF Next

\* Until the child is spawned, nobody but the supervising thread and the clocks
\* moves.
LEMMA NobodyBeforeSpawn ==
  ASSUME IInv, [Next]_vars, ~Supervise, pc \in {"entry", "setup"}
  PROVE  UNCHANGED <<written, nread, chan, exit>>
<1> USE SupervisorAssumption
        DEF IInv, Parts, TypeOK, BeforeSpawn, Finished, Readers, Threads, Messages, Finals,
            childVars, pipeVars, chanVars, writerVars, protoVars, endVars, clockVars
<1>1. CASE Harness
  BY <1>1 DEF Harness, ChildWrites, ChildComplains, ChildForks, ChildExits, DescendantExits,
              ChildLives
<1>2. CASE Cancel \/ StartupDeadline \/ RunDeadline
  BY <1>2 DEF Cancel, StartupDeadline, RunDeadline
<1>3. CASE ReadStdout \/ StdoutEnds \/ ReadStderr \/ StderrEnds
  BY <1>3 DEF ReadStdout, StdoutEnds, ReadStderr, StderrEnds
<1>4. CASE \E t \in Readers : Send(t)
  BY <1>4, SMTT(60) DEF Send
<1>5. CASE Writer
  BY <1>5 DEF Writer, FrameWritten, FrameFails, WriterChecks, WriterTakes
<1>6. CASE Done \/ UNCHANGED vars
  BY <1>6 DEF Done, vars
<1> QED
  BY <1>1, <1>2, <1>3, <1>4, <1>5, <1>6 DEF Next

LEMMA UnspentStep == ASSUME IInv, Account, [Next]_vars PROVE Unspent'
<1> USE DEF Account, Unspent
<1>1. CASE Supervise
  <2> USE DEF childVars, pipeVars, chanVars, writerVars, protoVars, endVars, clockVars
  <2>1. CASE MainEntry
    BY <2>1 DEF MainEntry
  <2>2. CASE ~MainEntry
    <3>1. pc' \notin {"entry", "setup"}
      BY <1>1, <2>2, ZenonT(90) DEF Supervise, SetupRefused, Spawn, MainPoll, MainReceive, MainIdle,
           MainStop, MainNatural, Kill, ReapedInTime, ReapDeadline, ReapWait, Terminated,
           Drain, ForceReaders, ReadersSettled, MainClose, Settle, Turn, FailureVerdict,
           SuccessVerdict, IInv, TypeOK, Parts, TerminationReturns
    <3> QED
      BY <3>1
  <2> QED
    BY <2>1, <2>2
<1>2. CASE ~Supervise
  <2>1. UNCHANGED <<pc, after, outcome, failure, status, stop, admitted, terminal, outEof,
                    errEof, dropped, wclose>>
    BY <1>2, OthersKeepLoop
  <2>2. pc \in {"entry", "setup"} => UNCHANGED <<written, nread, chan, exit>>
    BY <1>2, NobodyBeforeSpawn
  <2> QED
    BY <2>1, <2>2
<1> QED
  BY <1>1, <1>2

\* What the steps of the supervising thread do to its place and its causes.
LEMMA ControlStep ==
  ASSUME IInv, Account, [Next]_vars
  PROVE  (ReadersAtWork /\ CauseIsKept)'
<1> USE DEF ReadersAtWork, CauseIsKept
<1>0. Account /\ TypeOK /\ Parts /\ ReadersAtWork /\ CauseIsKept
  BY DEF IInv, Account
<1>1. CASE ~Supervise
  BY <1>0, <1>1, OthersKeepLoop
<1>2. CASE Supervise
  <2> USE DEF childVars, pipeVars, chanVars, writerVars, protoVars, endVars, clockVars
  <2>1. CASE MainEntry
    BY <1>0, <2>1 DEF MainEntry, FailureKinds, Account, Unspent
  <2>2. CASE \E kind \in {"RecursiveInvocation", "HarnessUnavailable", "ContainmentUnsupported"} :
               SetupRefused(kind)
    BY <1>0, <2>2 DEF SetupRefused, Account, Unspent
  <2>3. CASE \E missing \in {"none", "stdin", "stdout", "stderr"} : Spawn(missing)
    <3>1. PICK missing \in {"none", "stdin", "stdout", "stderr"} : Spawn(missing)
      BY <2>3
    <3>2. /\ pc = "setup" /\ UNCHANGED <<dropped, outcome>>
          /\ \/ pc' = "poll" /\ UNCHANGED <<failure, after, stop>>
             \/ pc' = "term" /\ after' = "setup" /\ failure' = "ContainmentUnsupported"
      BY <3>1 DEF Spawn
    <3>3. /\ after = "verdict" /\ ~dropped /\ \A t \in Threads : ~stop[t]
          /\ failure = "none" /\ outcome = "none"
      BY <1>0, <3>2 DEF Account, Unspent
    <3>4. \A t \in Readers : t \in Threads
      BY DEF Threads
    <3> QED
      BY <1>0, <3>2, <3>3, <3>4 DEF FailureKinds
  <2>4. CASE MainPoll
    BY <1>0, <2>4 DEF MainPoll, Expired, FailureKinds
  <2>5. CASE MainReceive
    <3>1. /\ pc = "recv" /\ UNCHANGED <<dropped, outcome, after, stop>>
          /\ \/ failure' = "none" /\ pc' \in {"poll", "close"}
             \/ failure' # "none" /\ pc' = "stop"
      BY <2>5 DEF MainReceive
    <3>2. failure' \in FailureKinds \cup {"none"}
      BY TypeStep DEF TypeOK
    <3>3. failure' # "CleanupFailed"
      <4>1. Head(chan) \in Messages
        BY <1>0, <2>5 DEF MainReceive, TypeOK
      <4>2. failure' \in {WriteFailure, MessageFailure(Head(chan))}
        BY <2>5 DEF MainReceive
      <4>3. \A k \in Kinds : Verdict(k) # "CleanupFailed"
        BY DEF Verdict
      <4>4. MessageFailure(Head(chan)) # "CleanupFailed"
        BY <4>1, <4>3 DEF MessageFailure
      <4>5. WriteFailure # "CleanupFailed"
        BY DEF WriteFailure
      <4> QED
        BY <4>2, <4>4, <4>5
    <3> QED
      BY <1>0, <3>1, <3>2, <3>3
  <2>6. CASE MainIdle
    BY <1>0, <2>6 DEF MainIdle
  <2>7. CASE MainStop
    BY <1>0, <2>7 DEF MainStop
  <2>8. CASE MainNatural
    BY <1>0, <2>8 DEF MainNatural
  <2>9. CASE Kill \/ ReapDeadline
    BY <1>0, <2>9 DEF Kill, ReapDeadline
  <2>10. CASE ReapedInTime \/ ReapWait
    <3>1. PICK result \in {"clean", "failed"} :
             pc \in {"reap", "wait"} /\ Terminated(result) /\ UNCHANGED <<failure, after>>
      BY <2>10 DEF ReapedInTime, ReapWait
    <3>2. after # "verdict" /\ after \in {"verdict", "fail", "setup", "leftover"}
      BY <1>0, <3>1 DEF Parts, TerminationReturns, TypeOK
    <3>3. \/ after = "fail" /\ pc' = "drain" /\ outcome' = outcome
          \/ after = "setup" /\ pc' = "settle" /\ outcome' = outcome
          \/ after = "leftover" /\ pc' = "done" /\ outcome' = "CleanupFailed"
      BY <3>1, <3>2 DEF Terminated
    <3> QED
      BY <1>0, <3>1, <3>3
  <2>11. CASE Drain \/ ForceReaders
    BY <1>0, <2>11 DEF Drain, ForceReaders
  <2>12. CASE ReadersSettled
    BY <1>0, <2>12 DEF ReadersSettled
  <2>13. CASE MainClose
    BY <1>0, <2>13 DEF MainClose
  <2>14. CASE \E t \in Threads : Settle(t)
    BY <1>0, <2>14 DEF Settle, Turn
  <2>15. CASE FailureVerdict
    BY <1>0, <2>15 DEF FailureVerdict, FailureKinds
  <2>16. CASE SuccessVerdict
    BY <1>0, <2>16 DEF SuccessVerdict, StreamVerdict
  <2> QED
    BY <1>2, <2>1, <2>2, <2>3, <2>4, <2>5, <2>6, <2>7, <2>8, <2>9, <2>10, <2>11, <2>12,
       <2>13, <2>14, <2>15, <2>16 DEF Supervise
<1> QED
  BY <1>1, <1>2

\* A collected child stays collected with the status it exited with.
LEMMA StatusStep == ASSUME IInv, Account, [Next]_vars PROVE StatusIsExit'
<1> USE DEF StatusIsExit
<1>0. StatusIsExit /\ TypeOK /\ Parts /\ Unspent
  BY DEF IInv, Account
<1>1. CASE ~Supervise
  <2>1. UNCHANGED <<pc, status>>
    BY <1>1, OthersKeepLoop
  <2>2. \/ UNCHANGED <<child, exit>>
        \/ child = "running" /\ child' = "zombie"
    BY <1>1 DEF Next, Harness, ChildWrites, ChildComplains, ChildForks, ChildExits,
         DescendantExits, ChildLives, Cancel, StartupDeadline, RunDeadline, ReadStdout,
         StdoutEnds, ReadStderr, StderrEnds, Send, Writer, FrameWritten, FrameFails,
         WriterChecks, WriterTakes, Done, vars, childVars
  <2> QED
    BY <1>0, <2>1, <2>2
<1>2. CASE Supervise
  <2> USE DEF childVars, pipeVars, chanVars, writerVars, protoVars, endVars, clockVars
  <2>1. CASE MainEntry
    BY <1>0, <2>1 DEF MainEntry, Unspent
  <2>2. CASE \E kind \in {"RecursiveInvocation", "HarnessUnavailable", "ContainmentUnsupported"} :
               SetupRefused(kind)
    BY <1>0, <2>2 DEF SetupRefused, Unspent
  <2>3. CASE \E missing \in {"none", "stdin", "stdout", "stderr"} : Spawn(missing)
    BY <1>0, <2>3 DEF Spawn, Unspent
  <2>4. CASE MainPoll \/ MainNatural
    BY <1>0, <2>4 DEF MainPoll, MainNatural, Reaped, Collected, TypeOK
  <2>5. CASE MainReceive \/ MainIdle \/ MainStop \/ MainClose
    BY <1>0, <2>5 DEF MainReceive, MainIdle, MainStop, MainClose
  <2>6. CASE Kill \/ ReapDeadline
    BY <1>0, <2>6 DEF Kill, ReapDeadline, Reaped
  <2>7. CASE ReapedInTime \/ ReapWait
    BY <1>0, <2>7 DEF ReapedInTime, ReapWait
  <2>8. CASE Drain \/ ForceReaders \/ ReadersSettled
    BY <1>0, <2>8 DEF Drain, ForceReaders, ReadersSettled
  <2>9. CASE (\E t \in Threads : Settle(t)) \/ FailureVerdict \/ SuccessVerdict
    BY <1>0, <2>9 DEF Settle, Turn, FailureVerdict, SuccessVerdict
  <2> QED
    BY <1>2, <2>1, <2>2, <2>3, <2>4, <2>5, <2>6, <2>7, <2>8, <2>9 DEF Supervise
<1> QED
  BY <1>1, <1>2

LEMMA ReadersSayStep == ASSUME IInv, Account, [Next]_vars PROVE ReadersSay'
<1> USE DEF ReadersSay, Readers, childVars, pipeVars, chanVars, writerVars, protoVars,
            endVars, clockVars
<1>0. ReadersSay /\ TypeOK
  BY DEF IInv, Account
<1>1. CASE ReadStdout
  BY <1>0, <1>1 DEF ReadStdout, TypeOK
<1>2. CASE StdoutEnds
  BY <1>0, <1>2 DEF StdoutEnds, TypeOK
<1>3. CASE ReadStderr \/ StderrEnds
  BY <1>0, <1>3 DEF ReadStderr, StderrEnds, TypeOK
<1>4. CASE \E t \in Readers : Send(t)
  BY <1>0, <1>4 DEF Send, TypeOK
<1>5. CASE \E missing \in {"none", "stdin", "stdout", "stderr"} : Spawn(missing)
  BY <1>5 DEF Spawn
<1>6. CASE Supervise /\ ~\E missing \in {"none", "stdin", "stdout", "stderr"} : Spawn(missing)
  <2>1. UNCHANGED rd
    BY <1>6 DEF Supervise, MainEntry, SetupRefused, MainPoll, MainReceive, MainIdle,
                MainStop, MainNatural, Kill, ReapedInTime, ReapDeadline, ReapWait, Drain,
                ForceReaders, ReadersSettled, MainClose, Settle, FailureVerdict,
                SuccessVerdict
  <2> QED
    BY <1>0, <2>1
<1>7. CASE Harness \/ Writer \/ Cancel \/ StartupDeadline \/ RunDeadline \/ Done \/ UNCHANGED vars
  <2>1. UNCHANGED rd
    BY <1>7 DEF Harness, ChildWrites, ChildComplains, ChildForks, ChildExits,
         DescendantExits, Writer, FrameWritten, FrameFails, WriterChecks, WriterTakes,
         Cancel, StartupDeadline, RunDeadline, Done, vars
  <2> QED
    BY <1>0, <2>1
<1> QED
  BY <1>1, <1>2, <1>3, <1>4, <1>5, <1>6, <1>7 DEF Next

\* Nobody is left to take the pipes up again.
LEMMA PipesStayFree ==
  ASSUME IInv, [Next]_vars, pc # "setup", ~PipesHeld
  PROVE  ~PipesHeld'
<1> USE DEF PipesHeld, ChildLives, Inherited, IInv, TypeOK, childVars
<1>1. CASE Harness
  BY <1>1 DEF Harness, ChildWrites, ChildComplains, ChildForks, ChildExits, DescendantExits
<1>2. CASE Cancel \/ StartupDeadline \/ RunDeadline
  BY <1>2 DEF Cancel, StartupDeadline, RunDeadline
<1>3. CASE ReadStdout \/ StdoutEnds \/ ReadStderr \/ StderrEnds
  BY <1>3 DEF ReadStdout, StdoutEnds, ReadStderr, StderrEnds
<1>4. CASE \E t \in Readers : Send(t)
  BY <1>4 DEF Send
<1>5. CASE Writer
  BY <1>5 DEF Writer, FrameWritten, FrameFails, WriterChecks, WriterTakes
<1>6. CASE Supervise
  BY <1>6 DEF Supervise, MainEntry, SetupRefused, Spawn, MainPoll, MainReceive, MainIdle,
              MainStop, MainNatural, Kill, ReapedInTime, ReapDeadline, ReapWait, Drain,
              ForceReaders, ReadersSettled, MainClose, Settle, FailureVerdict,
              SuccessVerdict, Reaped
<1>7. CASE Done \/ UNCHANGED vars
  BY <1>7 DEF Done, vars
<1> QED
  BY <1>1, <1>2, <1>3, <1>4, <1>5, <1>6, <1>7 DEF Next

\* What a message that is sent while the loop goes on adds to the channel.
LEMMA Sent ==
  ASSUME IInv, Account, pc \in {"poll", "recv", "close"}, NEW t \in Readers, Send(t)
  PROVE  /\ chan' = Append(chan, rd[t]) /\ rd[t] \in Messages
         /\ Len(chan') = Len(chan) + 1 /\ chan'[Len(chan) + 1] = rd[t]
         /\ \A i \in 1..Len(chan) : chan'[i] = chan[i]
         /\ rd' = [rd EXCEPT ![t] = IF rd[t] \in Finals THEN "done" ELSE "reading"]
<1>1. ~dropped /\ chan \in Seq(Messages)
  BY DEF Account, ReadersAtWork, IInv, TypeOK
<1> QED
  BY <1>1 DEF Send

\* What is left of the channel when its first message is received.
LEMMA Received ==
  ASSUME IInv, MainReceive
  PROVE  /\ chan \in Seq(Messages) /\ Len(chan) > 0 /\ Head(chan) = chan[1]
         /\ chan[1] \in Messages
         /\ chan' = Tail(chan) /\ Len(chan') = Len(chan) - 1
         /\ \A i \in 1..Len(chan') : i + 1 \in 1..Len(chan) /\ chan'[i] = chan[i + 1]
         /\ \A i \in 1..Len(chan) : i # 1 => i - 1 \in 1..Len(chan') /\ chan'[i - 1] = chan[i]
<1>1. chan \in Seq(Messages) /\ chan # <<>> /\ chan' = Tail(chan)
  BY DEF IInv, TypeOK, MainReceive
<1>2. Len(chan) \in Nat /\ Len(chan) > 0
  BY <1>1
<1>3. Head(chan) = chan[1] /\ chan[1] \in Messages
  BY <1>1, <1>2
<1>4. Len(Tail(chan)) = Len(chan) - 1
  BY <1>1, <1>2
<1>5. \A i \in 1..Len(Tail(chan)) : Tail(chan)[i] = chan[i + 1]
  BY <1>1, <1>2, <1>4
<1>6. \A i \in 1..Len(Tail(chan)) : i + 1 \in 1..Len(chan)
  BY <1>2, <1>4
<1>7. \A i \in 1..Len(chan) : i # 1 => i - 1 \in 1..Len(Tail(chan)) /\ (i - 1) + 1 = i
  BY <1>2, <1>4
<1>8. \A i \in 1..Len(chan) : i # 1 => Tail(chan)[i - 1] = chan[i]
  BY <1>5, <1>7
<1> QED
  BY <1>1, <1>2, <1>3, <1>4, <1>5, <1>6, <1>7, <1>8

LEMMA EndStep == ASSUME IInv, Account, [Next]_vars PROVE EndIsEnd'
<1>0. EndIsEnd /\ TypeOK /\ Parts /\ Unspent /\ ReadersSay /\ ReadersAtWork /\ CauseIsKept
  BY DEF IInv, Account
<1>1. CASE pc = "setup"
  <2>1. CASE Supervise
    <3>1. CASE \E missing \in {"none", "stdin", "stdout", "stderr"} : Spawn(missing)
      <4>1. PICK missing \in {"none", "stdin", "stdout", "stderr"} : Spawn(missing)
        BY <3>1
      <4>2. pc' = "poll" => rd'["stderr"] = "reading"
        BY <4>1 DEF Spawn, Readers
      <4>3. pc' \in {"poll", "term"} /\ UNCHANGED <<chan, errEof>>
        BY <4>1 DEF Spawn, chanVars, protoVars
      <4>4. chan = <<>> /\ ~errEof
        BY <1>0, <1>1 DEF Unspent
      <4> QED
        BY <4>2, <4>3, <4>4 DEF EndIsEnd
    <3>2. CASE ~\E missing \in {"none", "stdin", "stdout", "stderr"} : Spawn(missing)
      <4>1. pc' = "done"
        BY <1>1, <2>1, <3>2 DEF Supervise, MainEntry, SetupRefused, MainPoll, MainReceive,
             MainIdle, MainStop, MainNatural, Kill, ReapedInTime, ReapDeadline, ReapWait,
             Drain, ForceReaders, ReadersSettled, MainClose, Settle, Turn, FailureVerdict,
             SuccessVerdict
      <4> QED
        BY <4>1 DEF EndIsEnd
    <3> QED
      BY <3>1, <3>2
  <2>2. CASE ~Supervise
    BY <1>1, <2>2, OthersKeepLoop DEF EndIsEnd
  <2> QED
    BY <2>1, <2>2
<1>2. CASE pc # "setup" /\ ~Supervise
  <2>0. ~PipesHeld => ~PipesHeld'
    BY <1>2, PipesStayFree
  <2>1. UNCHANGED <<pc, after, errEof, outEof, status>>
    BY <1>2, OthersKeepLoop
  <2>2. CASE UNCHANGED <<chan, rd>>
    BY <1>0, <2>0, <2>1, <2>2 DEF EndIsEnd
  <2>3. CASE ReadStdout \/ StdoutEnds
    <3>1. UNCHANGED chan /\ rd'["stderr"] = rd["stderr"]
      BY <1>0, <2>3 DEF ReadStdout, StdoutEnds, chanVars, TypeOK, Readers
    <3> QED
      BY <1>0, <2>0, <2>1, <3>1 DEF EndIsEnd
  <2>4. CASE ReadStderr
    <3>1. UNCHANGED chan /\ rd'["stderr"] \in {"errLimit", "errChunk"}
      BY <1>0, <2>4 DEF ReadStderr, chanVars, TypeOK, Readers
    <3> QED
      BY <1>0, <2>0, <2>1, <3>1 DEF EndIsEnd
  <2>5. CASE StderrEnds
    <3>1. UNCHANGED chan /\ rd'["stderr"] = "errEof"
      BY <1>0, <2>5 DEF StderrEnds, chanVars, TypeOK, Readers
    <3>2. pc \in {"poll", "recv", "close"} => ~PipesHeld
      BY <1>0, <2>5 DEF StderrEnds, ReadersAtWork, Readers
    <3> QED
      BY <1>0, <2>0, <2>1, <3>1, <3>2 DEF EndIsEnd
  <2>6. CASE \E t \in Readers : Send(t)
    <3>1. PICK t \in Readers : Send(t)
      BY <2>6
    <3>2. CASE pc \in {"poll", "recv", "close"}
      <4>1. /\ Len(chan') = Len(chan) + 1 /\ chan'[Len(chan) + 1] = rd[t] /\ Len(chan) \in Nat
            /\ \A i \in 1..Len(chan) : chan'[i] = chan[i]
            /\ rd' = [rd EXCEPT ![t] = IF rd[t] \in Finals THEN "done" ELSE "reading"]
        BY <1>0, <3>1, <3>2, Sent DEF TypeOK
      <4>2. /\ t = "stdout" => rd'["stderr"] = rd["stderr"] /\ rd[t] # "errEof"
            /\ t = "stderr" => rd'["stderr"] = "reading" \/ rd[t] \in {"errEof", "errLimit"}
            /\ t \in {"stdout", "stderr"}
            /\ rd'["stderr"] # "errEof" \/ rd["stderr"] = "errEof"
        BY <1>0, <4>1, SupervisorAssumption DEF ReadersSay, TypeOK, Readers, Finals
      <4>3. \A i \in 1..Len(chan') : i \in 1..Len(chan) \/ i = Len(chan) + 1
        BY <4>1
      <4>4. Len(chan) + 1 \in 1..Len(chan') /\ \A i \in 1..Len(chan) : i \in 1..Len(chan')
        BY <4>1
      <4>5. (\E i \in 1..Len(chan') : chan'[i] = "errEof") =>
               (\E i \in 1..Len(chan) : chan[i] = "errEof") \/ rd["stderr"] = "errEof"
        BY <4>1, <4>2, <4>3
      <4>6. (\E i \in 1..Len(chan) : chan[i] = "errLimit") =>
               \E i \in 1..Len(chan') : chan'[i] = "errLimit"
        BY <4>1, <4>4
      <4>7. rd'["stderr"] = "done" =>
               \/ rd["stderr"] \in {"done", "errEof"}
               \/ \E i \in 1..Len(chan') : chan'[i] = "errLimit"
        BY <4>1, <4>2, <4>4
      <4> QED
        BY <1>0, <2>0, <2>1, <3>2, <4>2, <4>5, <4>6, <4>7 DEF EndIsEnd
    <3>3. CASE pc \notin {"poll", "recv", "close"}
      BY <1>0, <2>0, <2>1, <3>3 DEF EndIsEnd
    <3> QED
      BY <3>2, <3>3
  <2>7. CASE Harness \/ Writer \/ Cancel \/ StartupDeadline \/ RunDeadline \/ Done \/ UNCHANGED vars
    <3>1. UNCHANGED <<chan, rd>>
      BY <2>7 DEF Harness, ChildWrites, ChildComplains, ChildForks, ChildExits,
           DescendantExits, Writer, FrameWritten, FrameFails, WriterChecks, WriterTakes,
           Cancel, StartupDeadline, RunDeadline, Done, vars, chanVars
    <3> QED
      BY <2>2, <3>1
  <2> QED
    BY <1>2, <2>3, <2>4, <2>5, <2>6, <2>7 DEF Next
<1>3. CASE pc # "setup" /\ Supervise
  <2> USE DEF childVars, pipeVars, chanVars, writerVars, protoVars, endVars, clockVars
  <2>0. ~PipesHeld => ~PipesHeld'
    BY <1>3, PipesStayFree
  <2>1. CASE MainPoll
    <3>1. pc = "poll" /\ pc' \in {"recv", "stop"} /\ UNCHANGED <<chan, rd, errEof>>
      BY <2>1 DEF MainPoll
    <3> QED
      BY <1>0, <2>0, <3>1 DEF EndIsEnd
  <2>2. CASE MainReceive
    <3>1. /\ Head(chan) = chan[1] /\ 1 \in 1..Len(chan)
          /\ \A i \in 1..Len(chan') : i + 1 \in 1..Len(chan) /\ chan'[i] = chan[i + 1]
          /\ \A i \in 1..Len(chan) :
                i # 1 => i - 1 \in 1..Len(chan') /\ chan'[i - 1] = chan[i]
      BY <2>2, Received DEF TypeOK
    <3>2. /\ pc = "recv" /\ UNCHANGED <<rd, status>>
          /\ errEof' = (errEof \/ chan[1] = "errEof")
          /\ pc' \in {"poll", "close", "stop"}
          /\ pc' = "close" => status # "none" /\ outEof' /\ errEof'
      BY <2>2, <3>1 DEF MainReceive
    <3>3. chan[1] = "errLimit" => pc' = "stop"
      BY <2>2, <3>1, SupervisorAssumption DEF MainReceive, MessageFailure
    <3>4. (\E i \in 1..Len(chan') : chan'[i] = "errEof") =>
             \E i \in 1..Len(chan) : chan[i] = "errEof"
      BY <3>1
    <3>5. (\E i \in 1..Len(chan) : chan[i] = "errLimit") =>
             chan[1] = "errLimit" \/ \E i \in 1..Len(chan') : chan'[i] = "errLimit"
      BY <3>1
    <3> QED
      BY <1>0, <2>0, <3>1, <3>2, <3>3, <3>4, <3>5 DEF EndIsEnd
  <2>3. CASE MainIdle
    <3>1. /\ pc = "recv" /\ chan = <<>> /\ UNCHANGED <<rd, status, chan>>
          /\ errEof' => errEof \/ rd["stderr"] = "done"
          /\ pc' \in {"poll", "close"}
          /\ pc' = "close" => status # "none" /\ outEof' /\ errEof'
      BY <2>3 DEF MainIdle, Readers
    <3> QED
      BY <1>0, <2>0, <3>1 DEF EndIsEnd
  <2>4. CASE MainClose
    <3>1. pc = "close" /\ pc' = "settle" /\ UNCHANGED status
      BY <2>4 DEF MainClose
    <3> QED
      BY <1>0, <2>0, <3>1 DEF EndIsEnd
  <2>5. CASE \E t \in Threads : Settle(t)
    <3>1. pc = "settle" /\ pc' = "settle" /\ UNCHANGED <<after, status>>
      BY <2>5 DEF Settle, Turn
    <3> QED
      BY <1>0, <2>0, <3>1 DEF EndIsEnd
  <2>6. CASE \/ MainEntry \/ MainStop \/ MainNatural \/ Kill \/ ReapDeadline \/ Drain
             \/ ForceReaders \/ FailureVerdict \/ SuccessVerdict
    <3>1. pc' \in {"done", "setup", "natural", "term", "reap", "wait", "drain"}
      BY <2>6 DEF MainEntry, MainStop, MainNatural, Kill, ReapDeadline, Drain, ForceReaders,
           FailureVerdict, SuccessVerdict
    <3> QED
      BY <3>1 DEF EndIsEnd
  <2>7. CASE ReadersSettled \/ ReapedInTime \/ ReapWait
    <3>1. pc' \in {"done", "drain", "settle"} /\ UNCHANGED after /\ after # "verdict"
      BY <1>0, <2>7 DEF ReadersSettled, ReapedInTime, ReapWait, Terminated, CauseIsKept,
           Parts, TerminationReturns, TypeOK
    <3> QED
      BY <3>1 DEF EndIsEnd
  <2> QED
    BY <1>3, <2>1, <2>2, <2>3, <2>4, <2>5, <2>6, <2>7 DEF Supervise, SetupRefused, Spawn
<1> QED
  BY <1>1, <1>2, <1>3

LEMMA ClosedStep == ASSUME IInv, Account, [Next]_vars PROVE ClosedOnRequest'
<1>0. ClosedOnRequest /\ TypeOK /\ Parts /\ Unspent
  BY DEF IInv, Account
<1>1. CASE ~Supervise
  <2>1. UNCHANGED <<pc, wclose, terminal, admitted>>
    BY <1>1, OthersKeepLoop
  <2>2. Lifecycle = "close-after-terminal" /\ wr' = "ok" => wr = "ok" \/ wclose
    BY <1>1 DEF Next, Harness, ChildWrites, ChildComplains, ChildForks, ChildExits,
         DescendantExits, Cancel, StartupDeadline, RunDeadline, ReadStdout, StdoutEnds,
         ReadStderr, StderrEnds, Send, Writer, FrameWritten, FrameFails, WriterChecks,
         WriterTakes, Done, vars, writerVars
  <2> QED
    BY <1>0, <2>1, <2>2 DEF ClosedOnRequest
<1>2. CASE Supervise
  <2> USE DEF childVars, pipeVars, chanVars, writerVars, protoVars, endVars, clockVars
  <2>1. CASE \E missing \in {"none", "stdin", "stdout", "stderr"} : Spawn(missing)
    <3>1. PICK missing \in {"none", "stdin", "stdout", "stderr"} : Spawn(missing)
      BY <2>1
    <3>2. /\ pc' = "poll" /\ Lifecycle = "close-after-terminal" => wr' = "writing"
          /\ wclose' = (Lifecycle = "close-after-write")
      BY <3>1 DEF Spawn
    <3>3. pc' \in {"poll", "term"}
      BY <3>1 DEF Spawn
    <3> QED
      BY <3>2, <3>3 DEF ClosedOnRequest
  <2>2. CASE MainReceive
    <3>1. pc = "recv" /\ UNCHANGED wr /\ (wclose => wclose')
      BY <2>2 DEF MainReceive
    <3>2. terminal => terminal'
      BY <2>2 DEF MainReceive
    <3>3. \A i \in DOMAIN admitted : i \in DOMAIN admitted' /\ admitted'[i] = admitted[i]
      BY <1>0, <2>2 DEF MainReceive, TypeOK
    <3>4. ASSUME wclose', ~wclose, ~terminal'
          PROVE  \E i \in DOMAIN admitted' : admitted'[i] \in CloseOn
      <4>1. Head(chan) \in Kinds /\ Head(chan) \in CloseOn /\ admitted' = Append(admitted, Head(chan))
        BY <2>2, <3>4 DEF MainReceive
      <4>2. /\ Len(admitted) + 1 \in DOMAIN admitted'
            /\ admitted'[Len(admitted) + 1] = Head(chan)
        BY <1>0, <4>1 DEF TypeOK
      <4> QED
        BY <4>1, <4>2
    <3> QED
      BY <1>0, <3>1, <3>2, <3>3, <3>4 DEF ClosedOnRequest
  <2>3. CASE MainPoll \/ MainIdle
    <3>1. pc \in {"poll", "recv"} /\ UNCHANGED <<wr, wclose, terminal, admitted>>
      BY <2>3 DEF MainPoll, MainIdle
    <3> QED
      BY <1>0, <3>1 DEF ClosedOnRequest
  <2>4. CASE /\ ~\E missing \in {"none", "stdin", "stdout", "stderr"} : Spawn(missing)
             /\ ~MainReceive /\ ~MainPoll /\ ~MainIdle
    <3>1. pc' \notin {"poll", "recv"}
      BY <1>0, <1>2, <2>4, ZenonT(90) DEF Supervise, MainEntry, SetupRefused, MainStop, MainNatural,
           Kill, ReapedInTime, ReapDeadline, ReapWait, Terminated, Drain, ForceReaders,
           ReadersSettled, MainClose, Settle, Turn, FailureVerdict, SuccessVerdict,
           TypeOK, Parts, TerminationReturns
    <3> QED
      BY <3>1 DEF ClosedOnRequest
  <2> QED
    BY <2>1, <2>2, <2>3, <2>4
<1> QED
  BY <1>1, <1>2

\* A message is added to the channel.
LEMMA NumbersExtend ==
  ASSUME NEW ch \in Seq(Messages), NEW m \in Messages, NEW from \in Nat, NEW to \in Nat,
         NEW f, Numbers(f, ch, from, to),
         m \in Kinds => f[Len(ch)] + 1 <= to
  PROVE  \E g : /\ Numbers(g, Append(ch, m), from, to)
                /\ \A i \in 0..Len(ch) : g[i] = f[i]
                /\ g[Len(ch) + 1] = IF m \in Kinds THEN f[Len(ch)] + 1 ELSE f[Len(ch)]
<1> DEFINE n == Len(ch)
           last == IF m \in Kinds THEN f[n] + 1 ELSE f[n]
           g == [i \in 0..n + 1 |-> IF i <= n THEN f[i] ELSE last]
<1>1. n \in Nat /\ Len(Append(ch, m)) = n + 1 /\ Append(ch, m)[n + 1] = m
      /\ \A i \in 1..n : Append(ch, m)[i] = ch[i]
  OBVIOUS
<1>2. f \in [0..n -> 0..to] /\ f[0] = from
      /\ \A i \in 1..n : f[i] = IF ch[i] \in Kinds THEN f[i - 1] + 1 ELSE f[i - 1]
  BY DEF Numbers
<1>3. last \in 0..to
  BY <1>1, <1>2
<1>4. g \in [0..n + 1 -> 0..to]
  BY <1>1, <1>2, <1>3
<1>5. (\A i \in 0..n : g[i] = f[i]) /\ g[n + 1] = last
  BY <1>1
<1> HIDE DEF g
<1>6. ASSUME NEW i \in 1..n + 1
      PROVE  g[i] = IF Append(ch, m)[i] \in Kinds THEN g[i - 1] + 1 ELSE g[i - 1]
  <2>1. CASE i = n + 1
    <3>1. n \in 0..n /\ i - 1 = n
      BY <1>1, <2>1
    <3> QED
      BY <1>1, <1>5, <2>1, <3>1
  <2>2. CASE i # n + 1
    <3>1. i \in 1..n /\ i \in 0..n /\ i - 1 \in 0..n
      BY <1>1, <2>2
    <3> QED
      BY <1>1, <1>2, <1>5, <3>1
  <2> QED
    BY <2>1, <2>2
<1>7. Numbers(g, Append(ch, m), from, to)
  <2>1. g[0] = from
    BY <1>1, <1>2, <1>5
  <2> QED
    BY <1>1, <1>4, <1>6, <2>1 DEF Numbers
<1> QED
  BY <1>5, <1>7

\* The first message is taken from the channel.
LEMMA NumbersShift ==
  ASSUME NEW ch \in Seq(Messages), ch # <<>>, NEW from \in Nat, NEW to \in Nat,
         NEW f, Numbers(f, ch, from, to)
  PROVE  \E g : /\ Numbers(g, Tail(ch), f[1], to)
                /\ \A i \in 0..Len(ch) - 1 : g[i] = f[i + 1]
<1> DEFINE n == Len(ch)
           g == [i \in 0..n - 1 |-> f[i + 1]]
<1>1. n \in Nat /\ n > 0 /\ Len(Tail(ch)) = n - 1
      /\ \A i \in 1..n - 1 : Tail(ch)[i] = ch[i + 1]
  OBVIOUS
<1>2. f \in [0..n -> 0..to]
      /\ \A i \in 1..n : f[i] = IF ch[i] \in Kinds THEN f[i - 1] + 1 ELSE f[i - 1]
  BY DEF Numbers
<1>3. g \in [0..n - 1 -> 0..to] /\ g[0] = f[1]
  BY <1>1, <1>2
<1>4. \A i \in 0..n - 1 : g[i] = f[i + 1]
  OBVIOUS
<1> HIDE DEF g
<1>5. ASSUME NEW i \in 1..n - 1
      PROVE  g[i] = IF Tail(ch)[i] \in Kinds THEN g[i - 1] + 1 ELSE g[i - 1]
  <2>1. i \in 0..n - 1 /\ i - 1 \in 0..n - 1 /\ i + 1 \in 1..n /\ (i - 1) + 1 = i
        /\ (i + 1) - 1 = i
    BY <1>1
  <2>2. f[i + 1] = IF ch[i + 1] \in Kinds THEN f[i] + 1 ELSE f[i]
    BY <1>2, <2>1
  <2> QED
    BY <1>1, <1>4, <2>1, <2>2
<1>6. Numbers(g, Tail(ch), f[1], to)
  BY <1>1, <1>3, <1>5 DEF Numbers
<1> QED
  BY <1>4, <1>6

\* The numbers of an account that may be used at once.
LEMMA Numbered ==
  ASSUME IInv, Account, pc \in {"poll", "recv"}
  PROVE  \E f : /\ Numbers(f, chan, Len(admitted), nread)
                /\ Carried(f, chan, written, nread, rd["stdout"])
BY DEF Account, Channel

\* The account holds again if some numbers can be given.
LEMMA Renumbered ==
  ASSUME NEW f, Numbers(f, chan', Len(admitted)', nread'),
         Carried(f, chan', written', nread', rd'["stdout"])
  PROVE  Channel'
BY DEF Channel, Numbers

\* A record of the harness is the next one of the stream.
LEMMA ChildWritesChannel ==
  ASSUME IInv, Account, NEW k \in Kinds, ChildWrites(k), pc \in {"poll", "recv"}
  PROVE  Channel'
<1>1. PICK f : /\ Numbers(f, chan, Len(admitted), nread)
               /\ Carried(f, chan, written, nread, rd["stdout"])
  BY Numbered
<1>2. /\ written' = Append(written, k) /\ UNCHANGED <<nread, chan, admitted, rd, pc>>
      /\ rd["stdout"] \notin {"done", "eof", "truncated"}
      /\ \A i \in DOMAIN written : written[i] # "partial"
  BY DEF ChildWrites, chanVars, protoVars
<1>3. written \in Seq(Kinds) /\ nread \in Nat /\ nread <= Len(written) /\ chan \in Seq(Messages)
  BY DEF IInv, TypeOK, Account, Stream
<1>4. \A i \in 1..Len(written) : written'[i] = written[i]
  BY <1>2, <1>3
<1>5. f \in [0..Len(chan) -> 0..nread]
      /\ \A i \in 1..Len(chan) : f[i] = IF chan[i] \in Kinds THEN f[i - 1] + 1 ELSE f[i - 1]
  BY <1>1 DEF Numbers
<1>6. ASSUME NEW i \in 1..Len(chan), chan[i] \in Kinds
      PROVE  chan[i] = written'[f[i]]
  <2>1. f[i] = f[i - 1] + 1 /\ i - 1 \in 0..Len(chan) /\ i \in 0..Len(chan)
    BY <1>3, <1>5, <1>6
  <2>2. f[i] \in 1..Len(written)
    BY <1>3, <1>5, <2>1
  <2> QED
    BY <1>1, <1>4, <1>6, <2>2 DEF Carried
<1>7. \A i \in 1..Len(chan) : chan[i] # "eof"
  BY <1>1, <1>2 DEF Carried
<1>8. rd["stdout"] = "reading" => f[Len(chan)] = nread
  <2>1. ~(nread = Len(written) /\ written[nread] = "partial" /\ f[Len(chan)] < nread)
    <3>1. Len(chan) \in 0..Len(chan)
      BY <1>3
    <3> QED
      BY <1>2, <1>3, <1>5, <3>1, SMTT(60)
  <2> QED
    BY <1>1, <2>1 DEF Carried
<1>9. rd["stdout"] \in Kinds => f[Len(chan)] + 1 = nread /\ rd["stdout"] = written'[nread]
  <2>1. Len(chan) \in 0..Len(chan)
    BY <1>3
  <2>2. f[Len(chan)] + 1 = nread => nread \in 1..Len(written)
    BY <1>3, <1>5, <2>1
  <2> QED
    BY <1>1, <1>4, <2>2 DEF Carried
<1>10. Carried(f, chan, written', nread, rd["stdout"])
  BY <1>2, <1>6, <1>7, <1>8, <1>9 DEF Carried
<1> QED
  BY <1>1, <1>2, <1>10, Renumbered

\* The reader takes the next record, or comes to the end.
LEMMA ReadStdoutChannel ==
  ASSUME IInv, Account, ReadStdout \/ StdoutEnds, pc \in {"poll", "recv"}
  PROVE  Channel'
<1>1. PICK f : /\ Numbers(f, chan, Len(admitted), nread)
               /\ Carried(f, chan, written, nread, rd["stdout"])
  BY Numbered
<1>2. UNCHANGED <<chan, admitted, written, pc>> /\ rd["stdout"] = "reading"
  BY DEF ReadStdout, StdoutEnds, chanVars, protoVars, pipeVars
<1>3. written \in Seq(Kinds) /\ nread \in Nat /\ nread <= Len(written) /\ chan \in Seq(Messages)
      /\ rd \in [Readers -> {"reading", "done"} \cup Messages]
      /\ (\A i \in 1..Len(written) : written[i] = "partial" => i = Len(written))
  BY DEF IInv, TypeOK, Account, Stream
<1>4. f \in [0..Len(chan) -> 0..nread] /\ Len(chan) \in 0..Len(chan)
  BY <1>1, <1>3 DEF Numbers
<1>5. \A i \in 1..Len(chan) : chan[i] # "eof" /\ (chan[i] \in Kinds => chan[i] = written[f[i]])
  BY <1>1, <1>2 DEF Carried
<1>6. CASE ReadStdout
  <2>1. nread < Len(written) /\ nread' = nread + 1
    BY <1>6 DEF ReadStdout
  <2>2. f[Len(chan)] = nread
    BY <1>1, <1>2, <2>1 DEF Carried
  <2>3. Numbers(f, chan, Len(admitted), nread')
    BY <1>1, <1>3, <2>1 DEF Numbers
  <2>4. nread + 1 \in 1..Len(written) /\ written[nread + 1] \in Kinds
    BY <1>3, <2>1
  <2>5. rd'["stdout"] = CASE written[nread + 1] = "empty"   -> "done"
                          [] written[nread + 1] = "huge"    -> "limit"
                          [] written[nread + 1] = "partial" -> "reading"
                          [] OTHER                          -> written[nread + 1]
    BY <1>3, <1>6 DEF ReadStdout, Readers
  <2>6. Carried(f, chan, written, nread', rd'["stdout"])
    <3>1. CASE written[nread + 1] = "empty"
      BY <1>5, <2>4, <2>5, <3>1, SupervisorAssumption DEF Carried
    <3>2. CASE written[nread + 1] = "huge"
      BY <1>5, <2>5, <3>2, SupervisorAssumption DEF Carried
    <3>3. CASE written[nread + 1] = "partial"
      <4>1. nread + 1 = Len(written) /\ nread < nread + 1
        BY <1>3, <2>4, <3>3
      <4>2. rd'["stdout"] = "reading"
        BY <2>5, <3>3
      <4>3. "reading" \notin Kinds
        BY SupervisorAssumption
      <4> QED
        BY <1>5, <2>1, <2>2, <3>3, <4>1, <4>2, <4>3 DEF Carried
    <3>4. CASE written[nread + 1] \notin {"empty", "huge", "partial"}
      <4>1. rd'["stdout"] = written[nread + 1]
        BY <2>5, <3>4
      <4>2. rd'["stdout"] \in Kinds /\ rd'["stdout"] \notin {"reading", "eof", "done"}
        BY <2>4, <4>1, SupervisorAssumption
      <4> QED
        BY <1>5, <2>1, <2>2, <4>1, <4>2 DEF Carried
    <3> QED
      BY <3>1, <3>2, <3>3, <3>4
  <2> QED
    BY <1>2, <2>3, <2>6, Renumbered
<1>7. CASE StdoutEnds
  <2>1. nread' = nread /\ nread = Len(written)
    BY <1>2, <1>7 DEF StdoutEnds, pipeVars, Account, ReadersAtWork, Readers
  <2>2. rd'["stdout"] = IF nread > 0 /\ written[nread] = "partial" THEN "truncated" ELSE "eof"
    BY <1>3, <1>7 DEF StdoutEnds, Readers
  <2>3. rd'["stdout"] = "eof" => f[Len(chan)] = Len(written)
    <3>1. f[Len(chan)] = nread \/ (f[Len(chan)] < nread /\ written[nread] = "partial")
      BY <1>1, <1>2 DEF Carried
    <3> QED
      BY <1>3, <1>4, <2>1, <2>2, <3>1
  <2>4. rd'["stdout"] \notin Kinds \cup {"reading", "done"}
    BY <2>2, SupervisorAssumption
  <2>5. Carried(f, chan, written, nread, rd'["stdout"])
    BY <1>5, <2>3, <2>4 DEF Carried
  <2> QED
    BY <1>1, <1>2, <2>1, <2>5, Renumbered
<1> QED
  BY <1>6, <1>7

\* A message goes from its reader into the channel.
LEMMA SendChannel ==
  ASSUME IInv, Account, NEW t \in Readers, Send(t), pc \in {"poll", "recv"}
  PROVE  Channel'
<1>1. PICK f : /\ Numbers(f, chan, Len(admitted), nread)
               /\ Carried(f, chan, written, nread, rd["stdout"])
  BY Numbered
<1>2. UNCHANGED <<nread, admitted, written, pc>>
  BY DEF Send, protoVars, pipeVars
<1>3. written \in Seq(Kinds) /\ nread \in Nat /\ nread <= Len(written) /\ chan \in Seq(Messages)
      /\ rd \in [Readers -> {"reading", "done"} \cup Messages] /\ admitted \in Seq(Kinds)
  BY DEF IInv, TypeOK, Account, Stream
<1>4. /\ chan' = Append(chan, rd[t]) /\ rd[t] \in Messages
      /\ Len(chan') = Len(chan) + 1 /\ chan'[Len(chan) + 1] = rd[t]
      /\ \A i \in 1..Len(chan) : chan'[i] = chan[i]
      /\ rd' = [rd EXCEPT ![t] = IF rd[t] \in Finals THEN "done" ELSE "reading"]
  BY Sent
<1>5. rd[t] \in Kinds => t = "stdout"
  BY SupervisorAssumption DEF Account, ReadersSay, Readers
<1>6. rd[t] \in Kinds => f[Len(chan)] + 1 <= nread
  BY <1>1, <1>3, <1>5 DEF Carried
<1>7. Len(admitted) \in Nat
  BY <1>3
<1>8. PICK g : /\ Numbers(g, chan', Len(admitted), nread)
               /\ \A i \in 0..Len(chan) : g[i] = f[i]
               /\ g[Len(chan) + 1] = IF rd[t] \in Kinds THEN f[Len(chan)] + 1 ELSE f[Len(chan)]
  BY <1>1, <1>3, <1>4, <1>6, <1>7, NumbersExtend
<1>9. /\ \A i \in 1..Len(chan') : i \in 1..Len(chan) \/ i = Len(chan) + 1
      /\ \A i \in 1..Len(chan) : i \in 0..Len(chan) /\ i \in 1..Len(chan')
      /\ Len(chan) + 1 \in 1..Len(chan')
  BY <1>3, <1>4
<1>10. CASE t = "stderr"
  <2>1. rd'["stdout"] = rd["stdout"] /\ rd[t] \notin Kinds \cup {"eof", "limit", "truncated"}
    BY <1>3, <1>4, <1>10, SupervisorAssumption DEF Account, ReadersSay, Readers, Messages, Finals
  <2>2. g[Len(chan')] = f[Len(chan)]
    BY <1>4, <1>8, <2>1
  <2>3. Carried(g, chan', written, nread, rd["stdout"])
    BY <1>1, <1>4, <1>8, <1>9, <2>1, <2>2 DEF Carried
  <2> QED
    BY <1>2, <1>8, <2>1, <2>3, Renumbered
<1>11. CASE t = "stdout"
  <2>0. rd["stdout"] # "done" /\ rd["stdout"] # "reading"
    BY <1>4, <1>11, SupervisorAssumption DEF Messages, Finals
  <2>1. \A i \in 1..Len(chan) : chan[i] # "eof"
    BY <1>1, <2>0 DEF Carried
  <2>2. \A i \in 1..Len(chan) : chan'[i] \in Kinds => chan'[i] = written[g[i]]
    BY <1>1, <1>4, <1>8, <1>9 DEF Carried
  <2>3. CASE rd["stdout"] \in Kinds
    <3>1. rd'["stdout"] = "reading" /\ "reading" \notin Kinds /\ rd["stdout"] # "eof"
      BY <1>3, <1>4, <1>11, <2>3, SupervisorAssumption DEF Readers, Finals
    <3>2. g[Len(chan) + 1] = nread /\ rd["stdout"] = written[nread]
      BY <1>1, <1>8, <1>11, <2>3 DEF Carried
    <3>3. Carried(g, chan', written, nread, "reading")
      BY <1>4, <1>9, <1>11, <2>1, <2>2, <3>1, <3>2 DEF Carried
    <3> QED
      BY <1>2, <1>8, <3>1, <3>3, Renumbered
  <2>4. CASE rd["stdout"] \notin Kinds
    <3>1. rd["stdout"] \in {"eof", "truncated", "limit"}
      BY <2>0, <2>4 DEF Account, ReadersSay
    <3>2. rd'["stdout"] = "done" /\ "done" \notin Kinds
      BY <1>3, <1>4, <1>11, <3>1, SupervisorAssumption DEF Readers, Finals
    <3>3. g[Len(chan) + 1] = f[Len(chan)]
      BY <1>8, <1>11, <2>4
    <3>4. rd["stdout"] = "eof" => f[Len(chan)] = Len(written)
      BY <1>1 DEF Carried
    <3>5. Carried(g, chan', written, nread, "done")
      BY <1>4, <1>9, <1>11, <2>1, <2>2, <2>4, <3>1, <3>2, <3>3, <3>4 DEF Carried
    <3> QED
      BY <1>2, <1>8, <3>2, <3>5, Renumbered
  <2> QED
    BY <2>3, <2>4
<1> QED
  BY <1>10, <1>11 DEF Readers

\* The loop receives a message, and admits it if it is a record.
LEMMA ReceiveStream ==
  ASSUME IInv, Account, MainReceive
  PROVE  /\ Stream' /\ Channel'
         /\ chan[1] = "eof" => Len(admitted)' = Len(written) /\ rd["stdout"] = "done"
         /\ pc' # "stop" /\ outEof /\ "empty" \notin Kinds =>
               Len(admitted)' = Len(written)
<1>1. pc = "recv" /\ UNCHANGED <<rd, written, nread>>
  BY DEF MainReceive, pipeVars
<1>2. PICK f : /\ Numbers(f, chan, Len(admitted), nread)
               /\ Carried(f, chan, written, nread, rd["stdout"])
  BY <1>1, Numbered
<1>3. written \in Seq(Kinds) /\ nread \in Nat /\ nread <= Len(written) /\ admitted \in Seq(Kinds)
      /\ Len(admitted) <= nread
      /\ (\A i \in 1..Len(written) : written[i] = "partial" => i = Len(written))
      /\ \A i \in 1..Len(admitted) : admitted[i] = written[i]
  BY DEF IInv, TypeOK, Account, Stream
<1>4. /\ chan \in Seq(Messages) /\ Len(chan) > 0 /\ Head(chan) = chan[1]
      /\ chan[1] \in Messages /\ chan # <<>>
      /\ chan' = Tail(chan) /\ Len(chan') = Len(chan) - 1
      /\ \A i \in 1..Len(chan') : i + 1 \in 1..Len(chan) /\ chan'[i] = chan[i + 1]
      /\ \A i \in 1..Len(chan) : i # 1 => i - 1 \in 1..Len(chan') /\ chan'[i - 1] = chan[i]
  BY Received DEF MainReceive
<1>5. /\ 1 \in 1..Len(chan) /\ 1 - 1 = 0 /\ 1 \in 0..Len(chan)
      /\ f \in [0..Len(chan) -> 0..nread] /\ f[0] = Len(admitted)
      /\ f[1] = IF chan[1] \in Kinds THEN f[0] + 1 ELSE f[0]
      /\ f[1] <= nread
      /\ chan[1] \in Kinds => chan[1] = written[f[1]]
      /\ chan[1] = "eof" => rd["stdout"] = "done" /\ f[1] = Len(written)
  <2>1. 1 \in 1..Len(chan) /\ 1 - 1 = 0 /\ 1 \in 0..Len(chan)
    BY <1>4
  <2>2. /\ f \in [0..Len(chan) -> 0..nread] /\ f[0] = Len(admitted)
        /\ f[1] = IF chan[1] \in Kinds THEN f[1 - 1] + 1 ELSE f[1 - 1]
    BY <1>2, <2>1 DEF Numbers
  <2>3. f[1] <= nread
    BY <1>3, <2>1, <2>2
  <2> QED
    BY <1>2, <2>1, <2>2, <2>3 DEF Carried
<1>6. \/ chan[1] \in Kinds /\ admitted' = Append(admitted, chan[1])
      \/ chan[1] \in Kinds /\ admitted' = admitted /\ pc' = "stop"
      \/ chan[1] \notin Kinds /\ admitted' = admitted
  <2>1. chan[1] \in Kinds /\ Verdict(chan[1]) # "none" => MessageFailure(chan[1]) # "none"
    BY DEF MessageFailure
  <2> QED
    BY <1>4, <2>1 DEF MainReceive
<1>7. "eof" \notin Kinds
  BY SupervisorAssumption
<1>8. Len(admitted') \in {Len(admitted), f[1]}
      /\ (pc' # "stop" => Len(admitted') = f[1])
      /\ (chan[1] = "eof" => Len(admitted') = f[1])
  BY <1>3, <1>5, <1>6, <1>7
<1>9. Stream'
  <2>1. Len(admitted') <= nread
    BY <1>3, <1>5, <1>8
  <2>2. \A i \in 1..Len(admitted') : admitted'[i] = written[i]
    <3>1. CASE admitted' = admitted
      BY <1>3, <3>1
    <3>2. CASE chan[1] \in Kinds /\ admitted' = Append(admitted, chan[1])
      <4>1. chan[1] = written[Len(admitted) + 1]
        BY <1>5, <3>2
      <4> QED
        BY <1>3, <3>2, <4>1
    <3> QED
      BY <1>6, <3>1, <3>2
  <2> QED
    BY <1>1, <1>3, <2>1, <2>2 DEF Stream
<1>10. Channel'
  <2>1. CASE pc' \in {"poll", "recv"}
    <3>1. Len(admitted) \in Nat /\ Len(chan) \in Nat
      BY <1>3, <1>4
    <3>2. PICK g : /\ Numbers(g, chan', f[1], nread)
                   /\ \A i \in 0..Len(chan) - 1 : g[i] = f[i + 1]
      BY <1>2, <1>3, <1>4, <3>1, NumbersShift
    <3>3. Len(admitted') = f[1]
      BY <1>8, <2>1
    <3>4. \A i \in 1..Len(chan') : g[i] = f[i + 1]
      BY <1>4, <3>1, <3>2
    <3>5. g[Len(chan')] = f[Len(chan)]
      <4>1. Len(chan) - 1 \in 0..Len(chan) - 1 /\ (Len(chan) - 1) + 1 = Len(chan)
        BY <1>4, <3>1
      <4> QED
        BY <1>4, <3>2, <4>1
    <3>6. \A i \in 1..Len(chan') :
             /\ chan'[i] \in Kinds => chan'[i] = written[g[i]]
             /\ chan'[i] = "eof" => rd["stdout"] = "done" /\ g[i] = Len(written)
      <4>1. ASSUME NEW i \in 1..Len(chan')
            PROVE  i + 1 \in 1..Len(chan) /\ chan'[i] = chan[i + 1] /\ g[i] = f[i + 1]
        BY <1>4, <3>4, <4>1
      <4> QED
        BY <1>2, <4>1 DEF Carried
    <3>7. (\E i \in 1..Len(chan) : chan[i] \in {"limit", "truncated"}) =>
             \E i \in 1..Len(chan') : chan'[i] \in {"limit", "truncated"}
      <4>1. chan[1] \notin {"limit", "truncated"}
        <5>1. chan[1] \in {"limit", "truncated"} => chan[1] \notin Kinds
          BY SupervisorAssumption
        <5>2. chan[1] \in {"limit", "truncated"} => MessageFailure(chan[1]) # "none"
          BY <5>1 DEF MessageFailure
        <5> QED
          BY <1>4, <2>1, <5>1, <5>2 DEF MainReceive
      <4> QED
        BY <1>4, <4>1
    <3>8. Carried(g, chan', written, nread, rd["stdout"])
      BY <1>2, <3>5, <3>6, <3>7 DEF Carried
    <3> QED
      BY <1>1, <3>2, <3>3, <3>8, Renumbered
  <2>2. CASE pc' \notin {"poll", "recv"}
    BY <2>2 DEF Channel
  <2> QED
    BY <2>1, <2>2
<1>11. ASSUME pc' # "stop", outEof, "empty" \notin Kinds
       PROVE  Len(admitted)' = Len(written)
  <2>1. Len(admitted) = Len(written)
    BY <1>1, <1>11 DEF Account, Ended
  <2>2. f[1] = Len(written)
    BY <1>3, <1>5, <2>1
  <2> QED
    BY <1>8, <1>11, <2>2
<1> QED
  BY <1>5, <1>8, <1>9, <1>10, <1>11

\* What only the loop and the spawn move.
LEMMA OthersLeaveStream ==
  ASSUME IInv, [Next]_vars, ~MainReceive,
         ~\E k \in Kinds : ChildWrites(k), ~ReadStdout
  PROVE  UNCHANGED <<written, nread, admitted>>
<1> USE DEF childVars, pipeVars, chanVars, writerVars, protoVars, endVars, clockVars
<1>1. CASE Harness
  BY <1>1 DEF Harness, ChildComplains, ChildForks, ChildExits, DescendantExits
<1>2. CASE Cancel \/ StartupDeadline \/ RunDeadline
  BY <1>2 DEF Cancel, StartupDeadline, RunDeadline
<1>3. CASE StdoutEnds \/ ReadStderr \/ StderrEnds
  BY <1>3 DEF StdoutEnds, ReadStderr, StderrEnds
<1>4. CASE \E t \in Readers : Send(t)
  BY <1>4 DEF Send
<1>5. CASE Writer
  BY <1>5 DEF Writer, FrameWritten, FrameFails, WriterChecks, WriterTakes
<1>6. CASE Supervise
  BY <1>6 DEF Supervise, MainEntry, SetupRefused, Spawn, MainPoll, MainIdle,
              MainStop, MainNatural, Kill, ReapedInTime, ReapDeadline, ReapWait, Drain,
              ForceReaders, ReadersSettled, MainClose, Settle, FailureVerdict,
              SuccessVerdict
<1>7. CASE Done \/ UNCHANGED vars
  BY <1>7 DEF Done, vars
<1> QED
  BY <1>1, <1>2, <1>3, <1>4, <1>5, <1>6, <1>7 DEF Next

LEMMA StreamStep == ASSUME IInv, Account, [Next]_vars PROVE Stream'
<1>0. /\ Stream /\ written \in Seq(Kinds) /\ admitted \in Seq(Kinds) /\ nread \in Nat
  BY DEF IInv, TypeOK, Account
<1>1. CASE MainReceive
  BY <1>1, ReceiveStream
<1>2. CASE \E k \in Kinds : ChildWrites(k)
  <2>1. PICK k \in Kinds : ChildWrites(k)
    BY <1>2
  <2>2. /\ written' = Append(written, k) /\ UNCHANGED <<nread, admitted>>
        /\ \A i \in DOMAIN written : written[i] # "partial"
    BY <2>1 DEF ChildWrites, protoVars
  <2>3. /\ Len(written') = Len(written) + 1
        /\ \A i \in 1..Len(written) : written'[i] = written[i] /\ written[i] # "partial"
        /\ \A i \in 1..Len(written') : i \in 1..Len(written) \/ i = Len(written')
    BY <1>0, <2>2
  <2>4. \A i \in 1..Len(admitted) : i \in 1..Len(written)
    BY <1>0 DEF Stream
  <2> QED
    BY <1>0, <2>2, <2>3, <2>4 DEF Stream
<1>3. CASE ReadStdout
  <2>1. UNCHANGED <<written, admitted>> /\ nread' = nread + 1 /\ nread < Len(written)
    BY <1>3 DEF ReadStdout, protoVars
  <2> QED
    BY <1>0, <2>1 DEF Stream
<1>4. CASE ~MainReceive /\ ~ReadStdout /\ ~\E k \in Kinds : ChildWrites(k)
  BY <1>0, <1>4, OthersLeaveStream DEF Stream
<1> QED
  BY <1>1, <1>2, <1>3, <1>4

LEMMA ChannelStep == ASSUME IInv, Account, [Next]_vars PROVE Channel'
<1>0. Channel /\ TypeOK /\ Parts /\ Unspent
  BY DEF IInv, Account
<1>1. CASE ~Supervise
  <2>1. UNCHANGED <<pc, admitted>>
    BY <1>1, OthersKeepLoop
  <2>2. CASE pc \in {"poll", "recv"}
    <3>1. CASE \E k \in Kinds : ChildWrites(k)
      BY <2>2, <3>1, ChildWritesChannel
    <3>2. CASE ReadStdout \/ StdoutEnds
      BY <2>2, <3>2, ReadStdoutChannel
    <3>3. CASE \E t \in Readers : Send(t)
      BY <2>2, <3>3, SendChannel
    <3>4. CASE UNCHANGED <<written, nread, chan>> /\ rd'["stdout"] = rd["stdout"]
      BY <1>0, <2>1, <3>4 DEF Channel
    <3>5. CASE ReadStderr \/ StderrEnds
      BY <1>0, <3>4, <3>5 DEF ReadStderr, StderrEnds, pipeVars, chanVars, TypeOK, Readers
    <3>6. CASE \/ Harness /\ ~\E k \in Kinds : ChildWrites(k)
               \/ Writer \/ Cancel \/ StartupDeadline \/ RunDeadline \/ Done
               \/ UNCHANGED vars
      BY <3>4, <3>6 DEF Harness, ChildComplains, ChildForks, ChildExits,
         DescendantExits, Writer, FrameWritten, FrameFails, WriterChecks, WriterTakes,
         Cancel, StartupDeadline, RunDeadline, Done, vars, chanVars, pipeVars
    <3> QED
      BY <1>1, <3>1, <3>2, <3>3, <3>5, <3>6 DEF Next
  <2>3. CASE pc \notin {"poll", "recv"}
    BY <2>1, <2>3 DEF Channel
  <2> QED
    BY <2>2, <2>3
<1>2. CASE Supervise
  <2>1. CASE MainReceive
    BY <2>1, ReceiveStream
  <2>2. CASE MainPoll \/ MainIdle
    <3>1. pc \in {"poll", "recv"} /\ UNCHANGED <<written, nread, chan, admitted, rd>>
      BY <2>2 DEF MainPoll, MainIdle, pipeVars, chanVars, protoVars
    <3> QED
      BY <1>0, <3>1 DEF Channel
  <2>3. CASE \E missing \in {"none", "stdin", "stdout", "stderr"} : Spawn(missing)
    <3>1. PICK missing \in {"none", "stdin", "stdout", "stderr"} : Spawn(missing)
      BY <2>3
    <3>2. /\ pc = "setup" /\ UNCHANGED <<written, nread, chan, admitted>>
          /\ rd'["stdout"] \in {"reading", "done"}
          /\ pc' = "poll" => rd'["stdout"] = "reading"
          /\ pc' \in {"poll", "term"}
      BY <3>1 DEF Spawn, pipeVars, chanVars, protoVars, Readers
    <3>3. written = <<>> /\ nread = 0 /\ chan = <<>> /\ admitted = <<>>
      BY <1>0, <3>2 DEF Unspent
    <3>4. CASE pc' = "poll"
      <4> DEFINE f == [i \in 0..0 |-> 0]
      <4>1. Len(chan) = 0 /\ Len(admitted) = 0 /\ "reading" \notin Kinds
        BY <3>3, SupervisorAssumption
      <4>2. f \in [0..0 -> 0..0] /\ f[0] = 0 /\ \A i \in 1..0 : FALSE
        OBVIOUS
      <4> HIDE DEF f
      <4>3. Numbers(f, chan, Len(admitted), nread)
        BY <3>3, <4>1, <4>2 DEF Numbers
      <4>4. Carried(f, chan, written, nread, "reading")
        BY <3>3, <4>1, <4>2 DEF Carried
      <4> QED
        BY <3>2, <3>4, <4>3, <4>4, Renumbered
    <3>5. CASE pc' = "term"
      BY <3>5 DEF Channel
    <3> QED
      BY <3>2, <3>4, <3>5
  <2>4. CASE /\ ~\E missing \in {"none", "stdin", "stdout", "stderr"} : Spawn(missing)
             /\ ~MainReceive /\ ~MainPoll /\ ~MainIdle
    <3>1. pc' \notin {"poll", "recv"}
      BY <1>0, <1>2, <2>4, ZenonT(90) DEF Supervise, MainEntry, SetupRefused, MainStop, MainNatural,
           Kill, ReapedInTime, ReapDeadline, ReapWait, Terminated, Drain, ForceReaders,
           ReadersSettled, MainClose, Settle, Turn, FailureVerdict, SuccessVerdict,
           TypeOK, Parts, TerminationReturns, childVars, endVars
    <3> QED
      BY <3>1 DEF Channel
  <2> QED
    BY <2>1, <2>2, <2>3, <2>4
<1> QED
  BY <1>1, <1>2

\* A stream that came to its end stays as it is.
LEMMA EndedStep == ASSUME IInv, Account, [Next]_vars PROVE Ended'
<1>0. Ended /\ TypeOK /\ Parts /\ Unspent /\ CauseIsKept /\ EndIsEnd /\ ReadersAtWork
  BY DEF IInv, Account
<1>1. CASE ~Supervise
  <2>1. UNCHANGED <<pc, after, admitted, outEof>>
    BY <1>1, OthersKeepLoop
  <2>2. outEof /\ pc \in {"poll", "recv", "close"} /\ rd["stdout"] = "done" =>
           rd'["stdout"] = "done" /\ UNCHANGED written
    BY <1>0, <1>1, SupervisorAssumption, ZenonT(90) DEF Next, Harness, ChildWrites, ChildComplains,
       ChildForks, ChildExits, DescendantExits, Cancel, StartupDeadline, RunDeadline,
       ReadStdout, StdoutEnds, ReadStderr, StderrEnds, Send, Writer, FrameWritten,
       FrameFails, WriterChecks, WriterTakes, Done, vars, pipeVars, TypeOK, Readers, Messages,
       Finals
  <2>3. pc = "settle" /\ after = "verdict" => UNCHANGED written
    <3>1. pc = "settle" /\ after = "verdict" => ~ChildLives
      BY <1>0 DEF EndIsEnd, PipesHeld
    <3> QED
      BY <1>1, <3>1 DEF Next, Harness, ChildWrites, ChildComplains,
         ChildForks, ChildExits, DescendantExits, Cancel, StartupDeadline, RunDeadline,
         ReadStdout, StdoutEnds, ReadStderr, StderrEnds, Send, Writer, FrameWritten,
         FrameFails, WriterChecks, WriterTakes, Done, vars, pipeVars
  <2> QED
    BY <1>0, <2>1, <2>2, <2>3 DEF Ended
<1>2. CASE Supervise
  <2> USE DEF pipeVars, chanVars, protoVars, endVars
  <2>1. CASE MainReceive
    <3>1. /\ pc = "recv" /\ UNCHANGED <<rd, written>>
          /\ outEof' = (outEof \/ chan[1] = "eof")
          /\ pc' \in {"poll", "close", "stop"}
      <4>1. Head(chan) = chan[1]
        BY <2>1, Received
      <4> QED
        BY <2>1, <4>1 DEF MainReceive
    <3>2. /\ chan[1] = "eof" => Len(admitted)' = Len(written) /\ rd["stdout"] = "done"
          /\ pc' # "stop" /\ outEof /\ "empty" \notin Kinds => Len(admitted)' = Len(written)
      BY <2>1, ReceiveStream
    <3> QED
      BY <1>0, <3>1, <3>2 DEF Ended
  <2>2. CASE MainIdle
    <3>1. /\ pc = "recv" /\ chan = <<>> /\ UNCHANGED <<rd, written, admitted>>
          /\ outEof' => outEof \/ rd["stdout"] = "done"
          /\ pc' \in {"poll", "close"}
      BY <2>2 DEF MainIdle, Readers
    <3>2. PICK f : /\ Numbers(f, chan, Len(admitted), nread)
                   /\ Carried(f, chan, written, nread, rd["stdout"])
      BY <3>1, Numbered
    <3>3. Len(chan) = 0 /\ (\A i \in 1..0 : FALSE)
      BY <3>1
    <3>4. rd["stdout"] = "done" /\ "empty" \notin Kinds => Len(admitted) = Len(written)
      BY <3>2, <3>3 DEF Numbers, Carried
    <3> QED
      BY <1>0, <3>1, <3>4 DEF Ended
  <2>3. CASE MainPoll
    <3>1. pc = "poll" /\ pc' \in {"recv", "stop"} /\ UNCHANGED <<rd, written, admitted, outEof>>
      BY <2>3 DEF MainPoll
    <3> QED
      BY <1>0, <3>1 DEF Ended
  <2>4. CASE MainClose
    <3>1. pc = "close" /\ pc' = "settle" /\ UNCHANGED <<written, admitted>> /\ outEof
      BY <1>0, <2>4 DEF MainClose, EndIsEnd
    <3> QED
      BY <1>0, <3>1 DEF Ended
  <2>5. CASE \E t \in Threads : Settle(t)
    <3>1. pc = "settle" /\ pc' = "settle" /\ UNCHANGED <<after, written, admitted>>
      BY <2>5 DEF Settle, Turn
    <3> QED
      BY <1>0, <3>1 DEF Ended
  <2>6. CASE \E missing \in {"none", "stdin", "stdout", "stderr"} : Spawn(missing)
    <3>1. pc = "setup" /\ pc' \in {"poll", "term"} /\ UNCHANGED outEof
      BY <2>6 DEF Spawn
    <3>2. ~outEof
      BY <1>0, <3>1 DEF Unspent
    <3> QED
      BY <3>1, <3>2 DEF Ended
  <2>7. CASE ReadersSettled \/ ReapedInTime \/ ReapWait
    <3>1. pc' \in {"done", "drain", "settle"} /\ UNCHANGED after /\ after # "verdict"
      BY <1>0, <2>7 DEF ReadersSettled, ReapedInTime, ReapWait, Terminated, CauseIsKept,
           Parts, TerminationReturns, TypeOK
    <3> QED
      BY <3>1 DEF Ended
  <2>8. CASE \/ MainEntry \/ MainStop \/ MainNatural \/ Kill \/ ReapDeadline \/ Drain
             \/ ForceReaders \/ FailureVerdict \/ SuccessVerdict
             \/ \E kind \in {"RecursiveInvocation", "HarnessUnavailable",
                             "ContainmentUnsupported"} : SetupRefused(kind)
    <3>1. pc' \in {"done", "setup", "natural", "term", "reap", "wait", "drain"}
      BY <2>8 DEF MainEntry, MainStop, MainNatural, Kill, ReapDeadline, Drain, ForceReaders,
           FailureVerdict, SuccessVerdict, SetupRefused
    <3> QED
      BY <3>1 DEF Ended
  <2> QED
    BY <1>2, <2>1, <2>2, <2>3, <2>4, <2>5, <2>6, <2>7, <2>8 DEF Supervise
<1> QED
  BY <1>1, <1>2

\* A success is earned when it is reported and nothing takes it back.
LEMMA SuccessStep == ASSUME IInv, Account, [Next]_vars PROVE SuccessStays'
<1>0. SuccessStays /\ TypeOK /\ Parts /\ CauseIsKept /\ StatusIsExit /\ EndIsEnd /\ Ended
      /\ NothingLeftBehind
  BY DEF IInv, Account, Parts
<1>1. CASE outcome = "Ok"
  <2>1. pc = "done" /\ child \in {"unborn", "reaped"} /\ ~PipesHeld /\ wr = "ok"
    BY <1>0, <1>1 DEF Parts, ResultIsLast, NothingLeftBehind, GroupEmpty, SuccessStays
  <2>2. ~Supervise
    BY <2>1 DEF Supervise, MainEntry, SetupRefused, Spawn, MainPoll, MainReceive, MainIdle,
         MainStop, MainNatural, Kill, ReapedInTime, ReapDeadline, ReapWait, Drain,
         ForceReaders, ReadersSettled, MainClose, Settle, Turn, FailureVerdict,
         SuccessVerdict
  <2>3. UNCHANGED <<pc, outcome, terminal, admitted>>
    BY <2>2, OthersKeepLoop
  <2>4. UNCHANGED <<written, exit, wr>>
    BY <2>1, <2>2 DEF Next, Harness, ChildWrites, ChildComplains, ChildLives,
       ChildForks, ChildExits, DescendantExits, Cancel, StartupDeadline, RunDeadline,
       ReadStdout, StdoutEnds, ReadStderr, StderrEnds, Send, Writer, FrameWritten,
       FrameFails, WriterChecks, WriterTakes, Done, vars, pipeVars, childVars, writerVars
  <2>5. ~PipesHeld'
    BY <2>1, PipesStayFree
  <2> QED
    BY <1>0, <1>1, <2>3, <2>4, <2>5 DEF SuccessStays
<1>2. CASE outcome # "Ok" /\ outcome' = "Ok"
  <2>1. Supervise
    BY <1>2, OthersKeepLoop
  <2>2. SuccessVerdict
    <3>1. ~FailureVerdict
      BY <1>0, <1>2 DEF FailureVerdict, CauseIsKept, FailureKinds
    <3>2. ~ReapedInTime /\ ~ReapWait
      <4>1. ASSUME ReapedInTime \/ ReapWait PROVE FALSE
        <5>1. PICK result \in {"clean", "failed"} : pc \in {"reap", "wait"} /\ Terminated(result)
          BY <4>1 DEF ReapedInTime, ReapWait
        <5>2. outcome' \in {outcome, "CleanupFailed"}
          BY <1>0, <5>1, TerminatedTypes DEF Parts, TerminationReturns
        <5> QED
          BY <1>2, <5>2
      <4> QED
        BY <4>1
    <3> QED
      BY <1>2, <2>1, <3>1, <3>2 DEF Supervise, MainEntry, SetupRefused, Spawn, MainPoll,
         MainReceive, MainIdle, MainStop, MainNatural, Kill, ReapDeadline, Drain,
         ForceReaders, ReadersSettled, MainClose, Settle, endVars
  <2>3. /\ pc = "settle" /\ after = "verdict" /\ AllClean /\ StreamVerdict = "Ok"
        /\ UNCHANGED <<child, exit, desc, wr, terminal, admitted, written>>
    BY <1>2, <2>2 DEF SuccessVerdict, childVars, pipeVars, writerVars, protoVars
  <2>4. wr = "ok"
    <3>1. Finished("stdin")
      BY <1>0, <2>3 DEF AllClean, Parts, CleanIsFinished, Threads
    <3> QED
      BY <2>3, <3>1 DEF Finished, StreamVerdict
  <2>5. terminal /\ status = "good"
    BY <2>3, <2>4 DEF StreamVerdict
  <2>6. exit = "good" /\ ~PipesHeld
    BY <1>0, <2>3, <2>5 DEF StatusIsExit, EndIsEnd
  <2>7. "empty" \notin Kinds => Len(admitted) = Len(written)
    BY <1>0, <2>3 DEF Ended
  <2>8. ~PipesHeld'
    BY <2>3, <2>6 DEF PipesHeld, ChildLives, Inherited
  <2> QED
    BY <2>3, <2>4, <2>5, <2>6, <2>7, <2>8 DEF SuccessStays
<1>3. CASE outcome' # "Ok"
  BY <1>3 DEF SuccessStays
<1> QED
  BY <1>1, <1>2, <1>3

\* Every step keeps the account, and the supervision starts with it.
THEOREM AccountKept == IInv /\ Account /\ [Next]_vars => Account'
<1> SUFFICES ASSUME IInv, Account, [Next]_vars PROVE Account'
  OBVIOUS
<1>1. Unspent' /\ ReadersSay'
  BY UnspentStep, ReadersSayStep
<1>2. (ReadersAtWork /\ CauseIsKept)' /\ StatusIsExit'
  BY ControlStep, StatusStep
<1>3. EndIsEnd' /\ ClosedOnRequest'
  BY EndStep, ClosedStep
<1>4. Stream' /\ Channel' /\ Ended' /\ SuccessStays'
  BY StreamStep, ChannelStep, EndedStep, SuccessStep
<1> QED
  BY <1>1, <1>2, <1>3, <1>4 DEF Account

LEMMA AccountInitially == Init => Account
BY DEF Init, Account, Unspent, ReadersSay, ReadersAtWork, CauseIsKept, StatusIsExit, EndIsEnd,
       ClosedOnRequest, Stream, Channel, Ended, SuccessStays, Readers, Threads

LEMMA AccountInvariant == Spec => []Account
<1>1. IInv /\ Account /\ [Next]_vars => Account'
  BY AccountKept
<1> QED
  BY <1>1, AccountInitially, Invariance, PTL DEF Spec

-----------------------------------------------------------------------------
\* What the account says of the results of a supervision.

\* Success needs a terminal record, an accepted exit of the real child, its
\* input delivered, and nobody left who holds the pipes, whatever the protocol,
\* the harness and the bounds (cli/SPEC.md section 10, items 13 to 15).
THEOREM SuccessIsEarned == Spec => []OkIsEarned
<1>1. Account => OkIsEarned
  BY DEF Account, SuccessStays, OkIsEarned
<1> QED
  BY <1>1, AccountInvariant, PTL

\* Sequences that agree as far as the first one goes.
LEMMA PrefixOf ==
  ASSUME NEW s \in Seq(Kinds), NEW t \in Seq(Kinds), Len(s) <= Len(t),
         \A i \in 1..Len(s) : s[i] = t[i]
  PROVE  IsPrefix(s, t)
<1>1. Len(s) \in Nat /\ Len(t) \in Nat /\ Len(s) \in 0..Len(t)
  OBVIOUS
<1>2. SubSeq(s, 1, Len(s)) \in Seq(Kinds) /\ SubSeq(t, 1, Len(s)) \in Seq(Kinds)
  BY <1>1
<1>3. Len(SubSeq(s, 1, Len(s))) = Len(s) /\ Len(SubSeq(t, 1, Len(s))) = Len(s)
  BY <1>1
<1>4. \A i \in 1..Len(s) : SubSeq(s, 1, Len(s))[i] = SubSeq(t, 1, Len(s))[i]
  BY <1>1
<1>5. SubSeq(s, 1, Len(s)) = SubSeq(t, 1, Len(s))
  BY <1>2, <1>3, <1>4
<1> QED
  BY <1>1, <1>5 DEF IsPrefix

LEMMA AdmittedFirst == IInv /\ Account => AdmittedInOrder
<1> SUFFICES ASSUME IInv, Account PROVE AdmittedInOrder
  OBVIOUS
<1>1. /\ written \in Seq(Kinds) /\ admitted \in Seq(Kinds) /\ nread \in Nat
      /\ nread <= Len(written) /\ Len(admitted) <= nread
      /\ \A i \in 1..Len(admitted) : admitted[i] = written[i]
  BY DEF IInv, TypeOK, Account, Stream
<1>2. Len(admitted) <= Len(written)
  BY <1>1
<1> QED
  BY <1>1, <1>2, PrefixOf DEF AdmittedInOrder

\* The reader, the channel, whatever its capacity, and the loop neither lose,
\* reorder nor duplicate a record: what was admitted is what the harness wrote
\* first (framing.rs read_jsonl, supervisor.rs handle_message).
THEOREM StreamInOrder == Spec => []AdmittedInOrder
BY AdmittedFirst, Invariance, AccountInvariant, PTL

\* Of a harness that writes no empty line, a success has admitted every record
\* (an empty line ends the reader, see run supervisor_blank_line).
THEOREM StreamAdmitted ==
  ASSUME "empty" \notin Kinds
  PROVE  Spec => []StreamIsAdmitted
<1>1. IInv /\ Account => WholeStreamAdmitted
  <2> SUFFICES ASSUME IInv, Account, outcome = "Ok" PROVE admitted = written
    BY DEF WholeStreamAdmitted
  <2>1. /\ written \in Seq(Kinds) /\ admitted \in Seq(Kinds)
        /\ \A i \in 1..Len(admitted) : admitted[i] = written[i]
        /\ Len(admitted) = Len(written)
    BY DEF IInv, TypeOK, Account, Stream, SuccessStays
  <2> QED
    BY <2>1
<1>2. IInv /\ Account => StreamIsAdmitted
  BY <1>1, AdmittedFirst DEF StreamIsAdmitted
<1> QED
  BY <1>2, Invariance, AccountInvariant, PTL

\* The stdin of a staged adapter is not closed under a healthy run: its end
\* waits for the terminal record or the observer's request (supervisor.rs
\* ManagedStdin, spawn_stdin_writer).
THEOREM StdinIsRetained == Spec => []RetainedStdin
<1>1. Account => RetainedStdin
  BY DEF Account, ClosedOnRequest, RetainedStdin
<1> QED
  BY <1>1, AccountInvariant, PTL

-----------------------------------------------------------------------------
\* supervise_direct implements SettledRun, step by step.

Causes   == FailureKinds \ {"CleanupFailed"}
Earnable == {"Ok", "HarnessFailed", "ProtocolTruncated"}
Phase    == CASE outcome # "none" -> "ended"
              [] outcome = "none" /\ child = "unborn" -> "idle"
              [] OTHER -> "running"

\* The child is born at the spawn, so the phases follow the place of the
\* supervising thread, before a step and after it.
LEMMA PhaseOf ==
  ASSUME IInv, Account
  PROVE  /\ pc \in {"entry", "setup"} => Phase = "idle" /\ GroupEmpty
         /\ pc \notin {"entry", "setup", "done"} => Phase = "running"
         /\ pc = "done" => Phase = "ended"
BY DEF IInv, Parts, BeforeSpawn, Account, StatusIsExit, CauseIsKept, Phase, GroupEmpty, InGroup

LEMMA NextPhase ==
  ASSUME IInv', Account'
  PROVE  /\ pc' \in {"entry", "setup"} => Phase' = "idle" /\ GroupEmpty'
         /\ pc' \notin {"entry", "setup", "done"} => Phase' = "running"
         /\ pc' = "done" => Phase' = "ended"
BY DEF IInv, Parts, BeforeSpawn, Account, StatusIsExit, CauseIsKept, Phase, GroupEmpty, InGroup

\* The steps of SettledRun, in the terms of the supervisor.
LEMMA Refuses ==
  ASSUME NEW r \in Causes, Phase = "idle", Phase' = "ended", outcome' = r,
         UNCHANGED failure, GroupEmpty, GroupEmpty'
  PROVE  Contract!Next
BY DEF Contract!Next, Contract!Refuse, Phase, Causes

LEMMA Starts ==
  ASSUME Phase = "idle", Phase' = "running", ~GroupEmpty', UNCHANGED outcome,
         failure' \in Causes \cup {"none"}
  PROVE  Contract!Next
BY DEF Contract!Next, Contract!Start, Phase, Causes

LEMMA Fails ==
  ASSUME NEW c \in Causes, Phase = "running", Phase' = "running", failure = "none",
         failure' = c, UNCHANGED outcome, GroupEmpty => GroupEmpty'
  PROVE  Contract!Next
BY DEF Contract!Next, Contract!Fail, Phase, Causes

LEMMA Settles ==
  ASSUME NEW r, Phase = "running", Phase' = "ended", GroupEmpty, GroupEmpty',
         outcome' = r, UNCHANGED failure,
         \/ failure = "none" /\ r \in Earnable
         \/ failure \in Causes /\ r = failure
  PROVE  Contract!Next
BY DEF Contract!Next, Contract!Settle, Phase, Causes, Earnable, FailureKinds

LEMMA GivesUp ==
  ASSUME Phase = "running", Phase' = "ended", outcome' = "CleanupFailed",
         UNCHANGED failure, GroupEmpty => GroupEmpty'
  PROVE  Contract!Next
BY DEF Contract!Next, Contract!GiveUp, Phase

LEMMA Quiet ==
  ASSUME Phase' = Phase, UNCHANGED <<failure, outcome>>, GroupEmpty => GroupEmpty'
  PROVE  Contract!Next \/ UNCHANGED Contract!vars
BY DEF Contract!Next, Contract!Dies, Contract!vars, Phase

\* A group without members stays so, but for the spawn.
LEMMA EmptyStays ==
  ASSUME IInv, [Next]_vars, ~\E missing \in {"none", "stdin", "stdout", "stderr"} : Spawn(missing)
  PROVE  GroupEmpty => GroupEmpty'
<1>1. CASE pc # "setup"
  BY <1>1, GroupStaysEmpty
<1>2. CASE pc = "setup" /\ ~Supervise
  <2>1. child' = "unborn" /\ desc' = "none"
    BY <1>2, NothingBeforeSpawn
  <2> QED
    BY <2>1 DEF GroupEmpty, InGroup
<1>3. CASE pc = "setup" /\ Supervise
  <2>1. UNCHANGED <<child, desc>>
    BY <1>3 DEF Supervise, MainEntry, SetupRefused, MainPoll, MainReceive, MainIdle,
         MainStop, MainNatural, Kill, ReapedInTime, ReapDeadline, ReapWait, Drain,
         ForceReaders, ReadersSettled, MainClose, Settle, Turn, FailureVerdict,
         SuccessVerdict, childVars
  <2> QED
    BY <2>1 DEF GroupEmpty, InGroup
<1> QED
  BY <1>1, <1>2, <1>3

\* Every step of supervise_direct is a step of the contract, or none.
LEMMA StepRefines ==
  ASSUME IInv, Account, IInv', Account', [Next]_vars
  PROVE  Contract!Next \/ UNCHANGED Contract!vars
<1>0. TypeOK /\ Parts /\ CauseIsKept /\ TypeOK' /\ CauseIsKept' /\ EndIsEnd
  BY DEF IInv, Account
<1> USE DEF childVars, protoVars, endVars, clockVars
<1>1. CASE ~Supervise
  <2>1. UNCHANGED <<pc, outcome, failure>>
    BY <1>1, OthersKeepLoop
  <2>2. Phase' = Phase
    BY <2>1, PhaseOf, NextPhase
  <2>3. GroupEmpty => GroupEmpty'
    BY <1>1, EmptyStays DEF Supervise
  <2> QED
    BY <2>1, <2>2, <2>3, Quiet
<1>2. CASE MainEntry
  <2>1. /\ pc = "entry" /\ UNCHANGED failure
        /\ \/ pc' = "done" /\ outcome' = "Cancelled"
           \/ pc' = "setup" /\ outcome' = outcome
    BY <1>2 DEF MainEntry
  <2>2. Phase = "idle" /\ GroupEmpty /\ GroupEmpty'
    BY <1>2, <2>1, PhaseOf DEF MainEntry, GroupEmpty, InGroup
  <2> QED
    BY <2>1, <2>2, PhaseOf, NextPhase, Quiet, Refuses DEF Causes, FailureKinds
<1>3. CASE \E kind \in {"RecursiveInvocation", "HarnessUnavailable", "ContainmentUnsupported"} :
             SetupRefused(kind)
  <2>1. PICK kind \in {"RecursiveInvocation", "HarnessUnavailable", "ContainmentUnsupported"} :
          SetupRefused(kind)
    BY <1>3
  <2>2. pc = "setup" /\ pc' = "done" /\ outcome' = kind /\ UNCHANGED failure
    BY <2>1 DEF SetupRefused
  <2>3. Phase = "idle" /\ GroupEmpty /\ GroupEmpty' /\ Phase' = "ended"
    BY <2>1, <2>2, PhaseOf, NextPhase DEF SetupRefused, GroupEmpty, InGroup
  <2>4. kind \in Causes
    BY DEF Causes, FailureKinds
  <2> QED
    BY <2>2, <2>3, <2>4, Refuses
<1>4. CASE \E missing \in {"none", "stdin", "stdout", "stderr"} : Spawn(missing)
  <2>1. PICK missing \in {"none", "stdin", "stdout", "stderr"} : Spawn(missing)
    BY <1>4
  <2>2. /\ pc = "setup" /\ pc' \in {"poll", "term"} /\ UNCHANGED outcome
        /\ child' = "running" /\ failure' \in {failure, "ContainmentUnsupported"}
    BY <2>1 DEF Spawn
  <2>3. failure = "none"
    BY <2>2 DEF Account, Unspent, CauseIsKept
  <2>4. ~GroupEmpty' /\ failure' \in Causes \cup {"none"}
    BY <2>2, <2>3 DEF GroupEmpty, Causes, FailureKinds
  <2> QED
    BY <2>2, <2>4, PhaseOf, NextPhase, Starts
<1>5. CASE MainPoll \/ MainReceive
  <2>1. /\ pc \in {"poll", "recv"} /\ pc' \in {"recv", "stop", "poll", "close"}
        /\ UNCHANGED outcome
    BY <1>5 DEF MainPoll, MainReceive
  <2>2. failure = "none"
    BY <1>0, <2>1 DEF Account, ReadersAtWork, CauseIsKept
  <2>3. failure' \in Causes \cup {"none"}
    <3>1. after' = after /\ after = "verdict"
      BY <1>5, <2>1 DEF MainPoll, MainReceive, Account, ReadersAtWork
    <3> QED
      BY <1>0, <2>1, <3>1 DEF CauseIsKept, Causes
  <2>4. GroupEmpty => GroupEmpty'
    BY <1>5, <2>1, GroupStaysEmpty
  <2>5. Phase = "running" /\ Phase' = "running"
    BY <2>1, PhaseOf, NextPhase
  <2> QED
    BY <2>1, <2>2, <2>3, <2>4, <2>5, Fails, Quiet
<1>6. CASE \/ MainIdle \/ MainStop \/ MainNatural \/ Kill \/ ReapDeadline \/ Drain
           \/ ForceReaders \/ ReadersSettled \/ MainClose \/ (\E t \in Threads : Settle(t))
  <2>1. /\ pc \notin {"entry", "setup", "done"} /\ pc' \notin {"entry", "setup", "done"}
        /\ UNCHANGED <<failure, outcome>>
    BY <1>6 DEF MainIdle, MainStop, MainNatural, Kill, ReapDeadline, Drain, ForceReaders,
         ReadersSettled, MainClose, Settle, Turn
  <2>2. GroupEmpty => GroupEmpty'
    BY <2>1, GroupStaysEmpty
  <2>3. Phase = "running" /\ Phase' = "running"
    BY <2>1, PhaseOf, NextPhase
  <2> QED
    BY <2>1, <2>2, <2>3, Quiet
<1>7. CASE ReapedInTime \/ ReapWait
  <2>1. PICK result \in {"clean", "failed"} :
           pc \in {"reap", "wait"} /\ Terminated(result) /\ UNCHANGED failure
    BY <1>7 DEF ReapedInTime, ReapWait
  <2>2. /\ pc' \in {"drain", "settle", "done"}
        /\ outcome' \in {outcome, "CleanupFailed"} /\ (pc' = "done" \/ outcome' = outcome)
    BY <1>0, <2>1, TerminatedTypes DEF Parts, TerminationReturns
  <2>3. outcome = "none" /\ (pc' = "done" => outcome' = "CleanupFailed")
    BY <1>0, <2>1, <2>2 DEF CauseIsKept
  <2>4. GroupEmpty => GroupEmpty'
    BY <2>1, GroupStaysEmpty
  <2>5. Phase = "running"
    BY <2>1, PhaseOf
  <2>6. CASE pc' = "done"
    BY <2>1, <2>3, <2>4, <2>5, <2>6, NextPhase, GivesUp
  <2>7. CASE pc' # "done"
    BY <2>1, <2>2, <2>4, <2>5, <2>7, NextPhase, Quiet
  <2> QED
    BY <2>6, <2>7
<1>8. CASE FailureVerdict
  <2>1. /\ pc = "settle" /\ pc' = "done" /\ after \in {"fail", "setup"}
        /\ UNCHANGED <<failure, child, desc>>
        /\ \/ cleanup = "clean" /\ outcome' = failure
           \/ outcome' = "CleanupFailed"
    BY <1>8 DEF FailureVerdict
  <2>2. failure \in Causes
    BY <1>0, <2>1 DEF CauseIsKept, Causes
  <2>3. Phase = "running" /\ Phase' = "ended" /\ (GroupEmpty => GroupEmpty')
    BY <2>1, PhaseOf, NextPhase DEF GroupEmpty, InGroup
  <2>4. CASE cleanup = "clean" /\ outcome' = failure
    <3>1. GroupEmpty
      BY <1>0, <2>4 DEF Parts, CleanupIsEmpty
    <3> QED
      BY <2>1, <2>2, <2>3, <2>4, <3>1, Settles
  <2>5. CASE outcome' = "CleanupFailed"
    BY <2>1, <2>3, <2>5, GivesUp
  <2> QED
    BY <2>1, <2>4, <2>5
<1>9. CASE SuccessVerdict
  <2>1. /\ pc = "settle" /\ after = "verdict" /\ UNCHANGED <<failure, child, desc>>
        /\ \/ pc' = "done" /\ GroupEmpty /\ outcome' = StreamVerdict
           \/ pc' = "term" /\ outcome' = outcome
    BY <1>9 DEF SuccessVerdict
  <2>2. failure = "none" /\ StreamVerdict \in Earnable
    BY <1>0, <2>1 DEF CauseIsKept, StreamVerdict, Earnable
  <2>3. Phase = "running" /\ (GroupEmpty => GroupEmpty')
    BY <2>1, PhaseOf DEF GroupEmpty, InGroup
  <2>4. CASE pc' = "done" /\ GroupEmpty /\ outcome' = StreamVerdict
    BY <2>1, <2>2, <2>3, <2>4, NextPhase, Settles
  <2>5. CASE pc' = "term" /\ outcome' = outcome
    BY <2>1, <2>3, <2>5, NextPhase, Quiet
  <2> QED
    BY <2>1, <2>4, <2>5
<1> QED
  BY <1>1, <1>2, <1>3, <1>4, <1>5, <1>6, <1>7, <1>8, <1>9 DEF Supervise

LEMMA InitRefines == Init => Contract!Init
BY DEF Init, Contract!Init, GroupEmpty, InGroup

\* supervise_direct keeps the promise of SettledRun for every protocol, stdin
\* lifecycle, capacity and harness: the first cause is the one reported, over a
\* group that is gone, whatever exit, cancellation, deadlines, readers and
\* writer race for (cli/SPEC.md section 10, items 12 to 15).
THEOREM RunSettles == Spec => Settled
<1>1. /\ IInv /\ IInv' /\ Account /\ Account' /\ [Next]_vars
      => [Contract!Next]_(Contract!vars)
  BY StepRefines
<1> QED
  BY <1>1, InitRefines, Invariance, AccountInvariant, PTL DEF Spec, Settled, Contract!Spec
=============================================================================
