--------------------------- MODULE HostedRunsProofs ---------------------------
(***************************************************************************)
(* What hosted runs keep, for any number of processes, sessions and events: *)
(* one command pays for at most one run, its exit code tells the truth, no  *)
(* admitted run is without a journal entry, every event is shown once, and  *)
(* the journal forgets no run.                                              *)
(***************************************************************************)
EXTENDS HostedRuns, FiniteSetTheorems, TLAPS

-----------------------------------------------------------------------------
\* The inductive invariant.

Unsent == {"idle", "reuse", "entry", "write"}
Before == {"reuse", "entry", "write", "post"}
Gone   == {"exit", "crashed"}
Final  == {"completed", "failed", "cancelled"}

\* A run that does not exist has no events, and only its last event ends it.
LogEnds(r) ==
    /\ r.status = "none" => r = NoRun
    /\ \A i \in 1..Len(r.log) :
          r.log[i] = "run_complete" => i = Len(r.log) /\ r.status \in Final
    /\ r.status \in {"completed", "cancelled"} =>
          Len(r.log) > 0 /\ r.log[Len(r.log)] = "run_complete"

\* What a command knows at its place.
Fits(c) ==
    /\ c.pc # "idle" /\ c.session \in Sessions /\ c.mode \in {"submit", "resume", "watch"}
    /\ c.run \in {None, c.session}
    /\ c.pc # "exit" => c.code = "none"
    /\ c.pc \in Before => c.out = "none" /\ ~c.error
    /\ c.pc \in {"reuse", "entry", "write"} => c.mode # "watch"
    /\ c.pc \in {"stream", "deliver"} => c.out = "none"
    /\ c.pc = "settle" => c.out # "none"
    /\ c.pc = "put" => c.snap.run = c.run

\* Where its stream stands, and what of it was shown.
Follows(c) ==
    /\ c.pc \in Before /\ c.mode # "watch" => c.run = None
    /\ c.mode = "watch" /\ c.pc \notin Gone => c.run = c.session
    /\ c.run = None => c.seen = <<>>
    /\ c.error => c.seen # <<>>
    /\ c.out = "closed" => ~c.error
    /\ c.pc \in {"read", "put"} /\ c.out = "none" => ~c.error
    /\ c.pc \in {"read", "put"} /\ c.out = "none" /\ ~c.create => c.run # None
    /\ c.pc = "deliver" => c.run # None
    /\ \A i \in 1..Len(c.seen) : c.seen[i] = c.start + i
    /\ c.pc \notin Gone /\ c.out # "terminal" => c.after = c.start + Len(c.seen)
    /\ c.pc \in Before \cup {"stream", "deliver"} \/ (c.pc \in {"read", "put"} /\ c.out = "none")
          => c.cursor <= c.after

\* What it says is what its run, of record r, is.
Tells(c, r) ==
    /\ c.run # None \/ c.pc \in {"stream", "deliver", "read", "put", "settle"} =>
          r.status # "none"
    /\ c.pc = "deliver" \/ (c.pc \in {"read", "put"} /\ c.out = "none" /\ ~c.create) =>
          c.cursor < Len(r.log)
    /\ c.pc = "stream" /\ c.error =>
          c.cursor \in 1..Len(r.log) /\ r.log[c.cursor] # "run_complete"
    /\ c.out = "terminal" => r.status \in Final
    /\ c.out = "error_end" => r.status = "failed"
    /\ c.code \in Final => r.status = c.code
    /\ c.run # None /\ c.mode # "watch" => c.code \notin {"ambiguous", "refused"}

Sound(c, r) == Fits(c) /\ Follows(c) /\ Tells(c, r)

\* Every event up to n was shown on this machine, or ended the run.
Covered(shown, log, n) ==
    \A i \in 1..n : i \in shown \/ (i \in 1..Len(log) /\ log[i] = "run_complete")

\* What the commands, of records k, showed of a session.
ShownBy(k, s) ==
    {i \in Nat : \E q \in Procs :
                   k[q].session = s /\ \E j \in 1..Len(k[q].seen) : k[q].seen[j] = i}

Logs     == \A s \in Sessions : LogEnds(run[s])
Commands == \A p \in Procs : cli[p] # Idle => Sound(cli[p], run[cli[p].session])

\* The sequence a command, a write under way or the journal has come to.
Counted ==
    /\ \A p \in Procs : cli[p] # Idle /\ cli[p].pc \notin Gone =>
          LET s == cli[p].session
          IN /\ Covered(ShownBy(cli, s), run[s].log, cli[p].after)
             /\ cli[p].pc = "put" => Covered(ShownBy(cli, s), run[s].log, cli[p].snap.last)
    /\ \A s \in Sessions : journal[s] # None =>
          Covered(ShownBy(cli, s), run[s].log, journal[s].last)

\* p paid for s, or may still have to.
Pays(s, p) == run[s].owner = p \/ <<s, p>> \in flight

\* It was p's own session; an attempt that may have been paid for is over, or
\* was counted.
Payments ==
    \A s \in Sessions, p \in Procs :
        Pays(s, p) =>
            /\ cli[p].session = s /\ Submits(p) /\ cli[p].pc \notin Unsent
            /\ cli[p].again \/ (cli[p].pc # "post" /\ cli[p].code \notin {"refused", "journal"})

\* What was or may be sent was journalled before; an entry names its session's run.
Journalled ==
    /\ \A p \in Procs :
          Submits(p) /\ cli[p].pc \notin Unsent \cup Gone => journal[cli[p].session] # None
    /\ \A s \in Sessions :
          /\ run[s].status # "none" \/ (\E p \in Procs : <<s, p>> \in flight) => journal[s] # None
          /\ journal[s] # None => journal[s].run \in {None, s}
          /\ journal[s] # None /\ journal[s].run = s => run[s].status # "none"

\* Nobody submits the session again.
Alone(s) == \A p \in Procs : cli[p].session = s => cli[p].mode # "resume"

\* Then its one submission has named the run that its entry names, and who
\* watches the run found it there.
OneSubmits ==
    \A p, q \in Procs :
        (/\ cli[p] # Idle /\ cli[q] # Idle /\ cli[p].session = cli[q].session
         /\ cli[p].mode = "submit" /\ cli[q].mode = "submit") => p = q
NamedByOne ==
    \A s \in Sessions : Alone(s) =>
        \A p \in Procs : cli[p] # Idle /\ cli[p].session = s =>
           /\ cli[p].mode = "watch" /\ cli[p].pc \notin Gone =>
                 journal[s] # None /\ journal[s].run = s
           /\ cli[p].mode = "submit" /\ journal[s] # None /\ journal[s].run # None =>
                 cli[p].pc # "write" /\ cli[p].run = s

RunsInv ==
    /\ RunsTypeOK /\ Logs /\ Commands /\ Counted
    /\ Payments /\ Journalled /\ OneSubmits /\ NamedByOne

-----------------------------------------------------------------------------
\* The shape of a step.

Moves(p) ==
    \/ Start(p) \/ Command(p)
    \/ Interrupt(p) \/ Deadline(p) \/ HelperCancels(p) \/ Grace(p)
    \/ Crash(p)

\* How the record of a run may change.
Grows(r, t) ==
    /\ r.status # "none" => t.status # "none" /\ t.owner = r.owner
    /\ r.status \in Final => t = r
    /\ Len(r.log) <= Len(t.log)
    /\ \A i \in 1..Len(r.log) : t.log[i] = r.log[i]

\* How the record of a command may change.
Onward(c, d) ==
    /\ d.pc # "idle"
    /\ c.pc # "idle" => d.session = c.session /\ d.mode = c.mode
    /\ c.run # None => d.run = c.run
    /\ c.again => d.again
    /\ c.pc \notin Unsent => d.pc \notin Unsent
    /\ c.pc \notin {"idle", "reuse", "entry", "write"} => d.pc # "write"
    /\ c.pc \in Gone => d.pc \in Gone
    /\ Len(c.seen) <= Len(d.seen)
    /\ \A i \in 1..Len(c.seen) : d.seen[i] = c.seen[i]

\* A process that goes on with a record leaves the others alone.
LEMMA GoesAlone ==
  ASSUME RunsTypeOK, NEW p \in Procs, NEW c, Goes(p, c)
  PROVE  /\ cli'[p] = c
         /\ \A q \in Procs \ {p} : cli'[q] = cli[q]
         /\ DOMAIN cli' = Procs
         /\ c \in Records => cli' \in [Procs -> Records]
BY DEF RunsTypeOK, Goes

LEMMA IdleTypes == Idle \in Records /\ Idle.seen = <<>> /\ Len(Idle.seen) = 0
BY HostedAssumption DEF Idle, Records, Places, Entries, Outs, Codes, Fresh

LEMMA FieldTypes ==
  ASSUME NEW c \in Records
  PROVE  /\ c.pc \in Places /\ c.mode \in Modes \cup {None}
         /\ c.session \in Sessions \cup {None} /\ c.run \in Sessions \cup {None}
         /\ c.start \in Nat /\ c.after \in Nat /\ c.cursor \in Nat
         /\ c.seen \in Seq(Nat) /\ Len(c.seen) \in Nat
         /\ c.error \in BOOLEAN /\ c.again \in BOOLEAN /\ c.detach \in BOOLEAN
         /\ c.create \in BOOLEAN /\ c.snap \in Entries /\ c.out \in Outs
         /\ c.code \in Codes /\ c.hit \in BOOLEAN /\ c.grace \in BOOLEAN
         /\ c.token \in BOOLEAN
BY DEF Records

\* Who leaves says what it was, and is sound if its code is.
LEMMA Leaves ==
  ASSUME NEW c \in Records, NEW x \in Codes
  PROVE  LET d == Leave(c, x)
         IN /\ d \in Records /\ d.pc = "exit" /\ d.code = x /\ d.out = "none"
            /\ d.mode = c.mode /\ d.session = c.session /\ d.run = c.run
            /\ d.start = c.start /\ d.seen = c.seen /\ d.again = c.again
            /\ d.error = FALSE /\ d.cursor = 0 /\ d.snap = Fresh
<1>1. Idle \in Records
  BY IdleTypes
<1>2. c.mode \in Modes \cup {None} /\ c.session \in Sessions \cup {None}
      /\ c.run \in Sessions \cup {None} /\ c.start \in Nat /\ c.seen \in Seq(Nat)
      /\ c.again \in BOOLEAN
  BY FieldTypes
<1>3. Leave(c, x) \in Records
  BY <1>1, <1>2 DEF Leave, Records, Places
<1> QED
  BY <1>3 DEF Leave, Idle

LEMMA LeavesSound ==
  ASSUME NEW c \in Records, NEW x \in Codes, NEW r \in RunRecords,
         c.pc # "idle", Fits(c), Follows(c), c.run # None => r.status # "none",
         x \in Final => r.status = x,
         c.run # None /\ c.mode # "watch" => x \notin {"ambiguous", "refused"}
  PROVE  /\ Leave(c, x) \in Records /\ Sound(Leave(c, x), r) /\ Onward(c, Leave(c, x))
         /\ Leave(c, x).pc = "exit"
<1> DEFINE d == Leave(c, x)
<1>1. /\ d \in Records /\ d.pc = "exit" /\ d.code = x /\ d.out = "none"
      /\ d.mode = c.mode /\ d.session = c.session /\ d.run = c.run
      /\ d.start = c.start /\ d.seen = c.seen /\ d.again = c.again
      /\ d.error = FALSE /\ d.cursor = 0 /\ d.snap = Fresh
  BY Leaves
<1> HIDE DEF d
<1>2. Fits(d)
  BY <1>1 DEF Fits, Before
<1>3. Follows(d)
  BY <1>1 DEF Follows, Before, Gone
<1>4. Tells(d, r)
  BY <1>1 DEF Tells
<1>5. Onward(c, d)
  BY <1>1, FieldTypes DEF Onward, Gone, Unsent
<1> QED
  BY <1>1, <1>2, <1>3, <1>4, <1>5 DEF Sound, d

-----------------------------------------------------------------------------
\* Each operation leaves its command sound.

Lands(p) ==
    /\ cli'[p] \in Records /\ cli' \in [Procs -> Records]
    /\ \A q \in Procs \ {p} : cli'[q] = cli[q]
    /\ Sound(cli'[p], run'[cli'[p].session]) /\ Onward(cli[p], cli'[p])

\* What is known of a command, and of the run it is about.
LEMMA Known ==
  ASSUME RunsTypeOK, Logs, Commands, NEW p \in Procs
  PROVE  /\ cli[p] \in Records
         /\ cli[p].pc = "idle" => cli[p] = Idle
         /\ cli[p].pc # "idle" =>
               /\ cli[p].session \in Sessions
               /\ Fits(cli[p]) /\ Follows(cli[p]) /\ Tells(cli[p], run[cli[p].session])
               /\ run[cli[p].session] \in RunRecords /\ LogEnds(run[cli[p].session])
<1>1. cli[p] \in Records
  BY DEF RunsTypeOK
<1>2. cli[p] # Idle => Fits(cli[p]) /\ Follows(cli[p]) /\ Tells(cli[p], run[cli[p].session])
  BY DEF Commands, Sound
<1>3. Idle.pc = "idle"
  BY DEF Idle
<1>4. cli[p] # Idle => cli[p].pc # "idle" /\ cli[p].session \in Sessions
  BY <1>2 DEF Fits
<1> QED
  BY <1>1, <1>2, <1>3, <1>4 DEF RunsTypeOK, Logs

\* It goes on with d.
LEMMA GoesSound ==
  ASSUME RunsTypeOK, NEW p \in Procs, NEW d \in Records, Goes(p, d),
         Sound(d, run'[d.session]), Onward(cli[p], d)
  PROVE  Lands(p)
BY GoesAlone DEF Lands

\* It leaves with exit code x, its run as it was.
LEMMA LeavesWell ==
  ASSUME RunsTypeOK, Logs, Commands, NEW p \in Procs, cli[p].pc # "idle", NEW x \in Codes,
         Goes(p, Leave(cli[p], x)), UNCHANGED run,
         x \in Final => run[cli[p].session].status = x,
         cli[p].run # None /\ cli[p].mode # "watch" => x \notin {"ambiguous", "refused"}
  PROVE  Lands(p)
<1> DEFINE c == cli[p]
           d == Leave(c, x)
           r == run[c.session]
<1>1. c \in Records /\ c.session \in Sessions /\ Fits(c) /\ Follows(c) /\ Tells(c, r)
      /\ r \in RunRecords
  BY Known
<1>2. c.run # None => r.status # "none"
  BY <1>1 DEF Tells
<1>3. d \in Records /\ Sound(d, r) /\ Onward(c, d)
  BY <1>1, <1>2, LeavesSound
<1>4. d.session = c.session
  BY <1>1, Leaves
<1> QED
  BY <1>3, <1>4, GoesSound

LEMMA StartSubmitLands ==
  ASSUME RunsTypeOK, Logs, Commands, NEW p \in Procs, NEW s \in Sessions, NEW detach \in BOOLEAN,
         StartSubmit(p, s, detach)
  PROVE  Lands(p)
<1> DEFINE d == [Idle EXCEPT !.pc = "write", !.mode = "submit", !.session = s,
                             !.detach = detach]
<1>1. cli[p] = Idle
  BY Known DEF StartSubmit, At
<1>2. d \in Records
  BY IdleTypes, HostedAssumption, ZenonT(90) DEF StartSubmit, Records, Places
<1>3. Fits(d) /\ Follows(d) /\ Tells(d, run'[d.session]) /\ Onward(Idle, d)
  BY DEF Fits, Follows, Tells, Onward, Idle, Before, Gone, Unsent, Final
<1> QED
  BY <1>1, <1>2, <1>3, GoesSound DEF StartSubmit, Sound

LEMMA StartResumeLands ==
  ASSUME RunsTypeOK, Logs, Commands, NEW p \in Procs, NEW s \in Sessions, NEW detach \in BOOLEAN,
         StartResume(p, s, detach)
  PROVE  Lands(p)
<1> DEFINE d == [Idle EXCEPT !.pc = "reuse", !.mode = "resume", !.session = s,
                             !.detach = detach]
<1>1. cli[p] = Idle
  BY Known DEF StartResume, At
<1>2. d \in Records
  BY IdleTypes, HostedAssumption DEF StartResume, Records, Places
<1>3. Fits(d) /\ Follows(d) /\ Tells(d, run'[d.session]) /\ Onward(Idle, d)
  BY DEF Fits, Follows, Tells, Onward, Idle, Before, Gone, Unsent, Final
<1> QED
  BY <1>1, <1>2, <1>3, GoesSound DEF StartResume, Sound

LEMMA StartWatchLands ==
  ASSUME RunsTypeOK, Logs, Commands, NEW p \in Procs, NEW s \in Sessions,
         NEW after \in 0..MaxEvents + 1, StartWatch(p, s, after)
  PROVE  Lands(p)
<1> DEFINE d == [Idle EXCEPT !.pc = "post", !.mode = "watch", !.session = s, !.run = s,
                             !.start = after, !.after = after, !.cursor = after]
<1>1. cli[p] = Idle
  BY Known DEF StartWatch, At
<1>a. after \in Nat
  BY HostedAssumption
<1>2. d \in Records
  BY <1>a, IdleTypes, HostedAssumption DEF StartWatch, Records, Places
<1>3. Fits(d) /\ Follows(d) /\ Onward(Idle, d)
  BY <1>a DEF Fits, Follows, Onward, Idle, Before, Gone, Unsent, Final
<1>4. Tells(d, run[s]) /\ d.session = s /\ run' = run
  BY DEF Tells, Idle, Final, StartWatch
<1> QED
  BY <1>1, <1>2, <1>3, <1>4, GoesSound DEF StartWatch, Sound

LEMMA WatchRecordLands ==
  ASSUME RunsTypeOK, Logs, Commands, NEW p \in Procs, NEW s \in Sessions, WatchRecord(p, s)
  PROVE  Lands(p)
<1> DEFINE c == [Idle EXCEPT !.mode = "watch", !.session = s, !.run = s]
           x == IF Ended(s) THEN run[s].status ELSE "elsewhere"
           d == Leave(c, x)
<1>1. cli[p] = Idle
  BY Known DEF WatchRecord, At
<1>2. c \in Records /\ c.mode = "watch" /\ c.session = s /\ c.run = s /\ c.seen = <<>>
      /\ c.start = 0
  BY IdleTypes, HostedAssumption DEF WatchRecord, Records, Idle
<1>3. x \in Codes /\ (x \in Final => run[s].status = x)
  BY DEF Ended, Codes, Final
<1> HIDE DEF c, x
<1>4. /\ d \in Records /\ d.pc = "exit" /\ d.code = x /\ d.out = "none"
      /\ d.mode = "watch" /\ d.session = s /\ d.run = s /\ d.seen = <<>>
      /\ d.error = FALSE /\ d.cursor = 0 /\ d.snap = Fresh
  BY <1>2, <1>3, Leaves
<1> HIDE DEF d
<1>5. Fits(d) /\ Follows(d) /\ Onward(Idle, d)
  BY <1>4, IdleTypes DEF Fits, Follows, Onward, Idle, Before, Gone, Unsent
<1>6. Tells(d, run[s]) /\ run' = run
  BY <1>3, <1>4 DEF Tells, WatchRecord
<1>7. Goes(p, d)
  BY DEF WatchRecord, d, c, x
<1> QED
  BY <1>1, <1>4, <1>5, <1>6, <1>7, GoesSound DEF Sound

LEMMA CheckReuseLands ==
  ASSUME RunsTypeOK, Logs, Commands, Journalled, NEW p \in Procs, CheckReuse(p)
  PROVE  Lands(p)
<1> DEFINE c == cli[p]
           r == run[c.session]
           e == journal[c.session]
<1>1. c \in Records /\ c.pc = "reuse" /\ c.session \in Sessions /\ Fits(c) /\ Follows(c)
      /\ Tells(c, r) /\ r \in RunRecords
  BY Known DEF CheckReuse, At
<1>2. CASE e # None /\ e.run # None
  <2> DEFINE b == [c EXCEPT !.run = e.run, !.after = e.last]
             d == Leave(b, "reused")
  <2>1. e \in Entries
    BY <1>1, <1>2 DEF RunsTypeOK
  <2>2. e.run = c.session /\ r.status # "none"
    BY <1>1, <1>2 DEF Journalled
  <2>3. b \in Records
    BY <1>1, <2>1 DEF Records, Entries
  <2>4. Goes(p, d) /\ run' = run
    BY <1>2 DEF CheckReuse
  <2>5. b.mode = c.mode /\ b.session = c.session /\ b.run = c.session /\ b.start = c.start
        /\ b.seen = c.seen /\ b.again = c.again
    BY <1>1, <2>2 DEF Records
  <2>a. "reused" \in Codes
    BY DEF Codes
  <2>6. c.run = None /\ c.mode \in {"submit", "resume"} /\ c.seen = <<>>
    BY <1>1 DEF Fits, Follows, Before
  <2> HIDE DEF b
  <2>7. /\ d \in Records /\ d.pc = "exit" /\ d.code = "reused" /\ d.out = "none"
        /\ d.mode = c.mode /\ d.session = c.session /\ d.run = c.session
        /\ d.start = c.start /\ d.seen = c.seen /\ d.again = c.again
        /\ d.error = FALSE /\ d.cursor = 0 /\ d.snap = Fresh
    BY <2>a, <2>3, <2>5, Leaves
  <2> HIDE DEF d
  <2>8. Fits(d) /\ Onward(c, d)
    BY <1>1, <2>6, <2>7, FieldTypes DEF Fits, Onward, Before, Gone, Unsent
  <2>9. Follows(d)
    BY <1>1, <2>6, <2>7, FieldTypes DEF Follows, Before, Gone
  <2>10. Tells(d, r)
    BY <2>2, <2>7 DEF Tells, Final
  <2> QED
    BY <2>4, <2>7, <2>8, <2>9, <2>10, GoesSound DEF Sound
<1>3. CASE ~(e # None /\ e.run # None)
  <2> DEFINE d == [c EXCEPT !.pc = "entry"]
  <2>1. Goes(p, d) /\ run' = run
    BY <1>3 DEF CheckReuse
  <2>2. d \in Records
    BY <1>1 DEF Records, Places
  <2>3. Fits(d) /\ Follows(d) /\ Tells(d, r) /\ Onward(c, d) /\ d.session = c.session
    BY <1>1, FieldTypes DEF Records, Fits, Follows, Tells, Onward, Before, Gone, Unsent
  <2> QED
    BY <2>1, <2>2, <2>3, GoesSound DEF Sound
<1> QED
  BY <1>2, <1>3

\* It goes on to another place where nothing else is asked of it.
LEMMA CheckEntryLands ==
  ASSUME RunsTypeOK, Logs, Commands, NEW p \in Procs, CheckEntry(p)
  PROVE  Lands(p)
<1> DEFINE c == cli[p]
           r == run[c.session]
           d == [c EXCEPT !.pc = IF journal[c.session] = None THEN "write" ELSE "post"]
<1>1. c \in Records /\ c.pc = "entry" /\ c.session \in Sessions /\ Fits(c) /\ Follows(c)
      /\ Tells(c, r)
  BY Known DEF CheckEntry, At
<1>2. Goes(p, d) /\ run' = run
  BY DEF CheckEntry
<1>3. d \in Records
  BY <1>1 DEF Records, Places
<1>4. Fits(d) /\ Follows(d) /\ Tells(d, r) /\ Onward(c, d) /\ d.session = c.session
  BY <1>1, FieldTypes DEF Records, Fits, Follows, Tells, Onward, Before, Gone, Unsent
<1> QED
  BY <1>2, <1>3, <1>4, GoesSound DEF Sound

LEMMA WriteAheadLands ==
  ASSUME RunsTypeOK, Logs, Commands, NEW p \in Procs, WriteAhead(p)
  PROVE  Lands(p)
<1> DEFINE c == cli[p]
           r == run[c.session]
           d == [c EXCEPT !.pc = "post"]
<1>1. c \in Records /\ c.pc = "write" /\ c.session \in Sessions /\ Fits(c) /\ Follows(c)
      /\ Tells(c, r)
  BY Known DEF WriteAhead, At
<1>2. CASE Goes(p, d)
  <2>1. d \in Records
    BY <1>1 DEF Records, Places
  <2>2. Fits(d) /\ Follows(d) /\ Tells(d, r) /\ Onward(c, d) /\ d.session = c.session
    BY <1>1, FieldTypes DEF Records, Fits, Follows, Tells, Onward, Before, Gone, Unsent
  <2> QED
    BY <1>2, <2>1, <2>2, GoesSound DEF Sound, WriteAhead
<1>3. CASE Goes(p, Leave(c, "journal"))
  <2>1. "journal" \in Codes \ (Final \cup {"ambiguous", "refused"})
    BY DEF Codes, Final
  <2> QED
    BY <1>1, <1>3, <2>1, LeavesWell DEF WriteAhead
<1> QED
  BY <1>2, <1>3 DEF WriteAhead

LEMMA StopCodes ==
  ASSUME NEW c, NEW how
  PROVE  Stopped(c, how) \in {"ambiguous", "deadline", "lost"}
         /\ (c.run # None => Stopped(c, how) # "ambiguous")
<1>1. CASE c.run = None
  BY <1>1 DEF Stopped
<1>2. CASE c.run # None /\ how = "deadline"
  BY <1>2 DEF Stopped
<1>3. CASE c.run # None /\ how # "deadline"
  BY <1>3 DEF Stopped
<1> QED
  BY <1>1, <1>2, <1>3

LEMMA OpenCancelledLands ==
  ASSUME RunsTypeOK, Logs, Commands, NEW p \in Procs, OpenCancelled(p)
  PROVE  Lands(p)
<1> DEFINE x == Stopped(cli[p], Why(cli[p]))
<1>1. x \in {"ambiguous", "deadline", "lost"} /\ (cli[p].run # None => x # "ambiguous")
  BY StopCodes
<1>2. cli[p].pc # "idle" /\ Goes(p, Leave(cli[p], x)) /\ UNCHANGED run
  BY DEF OpenCancelled, At
<1> HIDE DEF x
<1>3. x \in Codes /\ x \notin Final
  BY <1>1 DEF Codes, Final
<1> QED
  BY <1>1, <1>2, <1>3, LeavesWell

\* An attempt without an answer, whatever became of its run.
LEMMA DroppedLands ==
  ASSUME RunsTypeOK, Logs, Commands, NEW p \in Procs, At(p, "post"), Goes(p, Dropped(cli[p])),
         run'[cli[p].session] \in RunRecords,
         run[cli[p].session].status # "none" => run'[cli[p].session] = run[cli[p].session]
  PROVE  Lands(p)
<1> DEFINE c == cli[p]
           r == run[c.session]
           t == run'[c.session]
<1>1. c \in Records /\ c.pc = "post" /\ c.session \in Sessions /\ Fits(c) /\ Follows(c)
      /\ Tells(c, r)
  BY Known DEF At
<1>2. c.run # None => t.status # "none"
  BY <1>1 DEF Tells
<1>3. CASE c.mode = "watch" \/ c.again
  <2> DEFINE x == IF c.mode = "watch" THEN "lost" ELSE "ambiguous"
             d == Leave(c, x)
  <2>1. Goes(p, d)
    BY <1>3 DEF Dropped
  <2>2. x \in Codes \ Final /\ (c.run # None /\ c.mode # "watch" => x # "ambiguous")
        /\ x # "refused"
    BY <1>1 DEF Codes, Final, Follows, Before
  <2> HIDE DEF x
  <2>3. d \in Records /\ Sound(d, t) /\ Onward(c, d)
    BY <1>1, <1>2, <2>2, LeavesSound
  <2>4. d.session = c.session
    BY <1>1, <2>2, Leaves
  <2> QED
    BY <2>1, <2>3, <2>4, GoesSound
<1>4. CASE c.mode # "watch" /\ ~c.again
  <2> DEFINE d == [c EXCEPT !.again = TRUE]
  <2>1. Goes(p, d)
    BY <1>4 DEF Dropped
  <2>2. d \in Records /\ d.session = c.session
    BY <1>1 DEF Records
  <2>3. Fits(d) /\ Follows(d) /\ Onward(c, d)
    BY <1>1, FieldTypes DEF Records, Fits, Follows, Onward, Before, Gone, Unsent
  <2>4. Tells(d, t)
    BY <1>1, <1>2 DEF Tells, Records, Fits, Before, Final
  <2> QED
    BY <2>1, <2>2, <2>3, <2>4, GoesSound DEF Sound
<1> QED
  BY <1>3, <1>4

LEMMA RequestsLand ==
  ASSUME RunsTypeOK, Logs, Commands, NEW p \in Procs,
         RequestLost(p) \/ RequestDelayed(p) \/ AnswerLost(p)
  PROVE  Lands(p)
<1>1. At(p, "post") /\ Goes(p, Dropped(cli[p]))
  BY DEF RequestLost, RequestDelayed, AnswerLost
<1>2. cli[p].session \in Sessions /\ run[cli[p].session] \in RunRecords
  BY <1>1, Known DEF At
<1>3. CASE RequestLost(p) \/ RequestDelayed(p)
  <2>1. run' = run
    BY <1>3 DEF RequestLost, RequestDelayed
  <2> QED
    BY <1>1, <1>2, <2>1, DroppedLands
<1>4. CASE AnswerLost(p)
  <2>1. run'[cli[p].session] = Admitted(cli[p].session, p) /\ run[cli[p].session].status = "none"
    BY <1>2, <1>4 DEF AnswerLost, RunsTypeOK
  <2>2. run'[cli[p].session] \in RunRecords
    BY <2>1 DEF Admitted, RunRecords
  <2> QED
    BY <1>1, <2>1, <2>2, DroppedLands
<1> QED
  BY <1>3, <1>4

LEMMA RefusedLands ==
  ASSUME RunsTypeOK, Logs, Commands, NEW p \in Procs, NEW answer, Refused(p, answer)
  PROVE  Lands(p)
<1> DEFINE x == IF Submits(p) /\ answer = "conflict" /\ cli[p].again THEN "ambiguous" ELSE "refused"
<1>1. cli[p].pc = "post" /\ Goes(p, Leave(cli[p], x)) /\ UNCHANGED run
  BY DEF Refused, At
<1>2. cli[p].mode # "watch" => cli[p].run = None
  BY <1>1, Known DEF Follows, Before
<1>3. x \in Codes \ Final
  BY DEF Codes, Final
<1> HIDE DEF x
<1> QED
  BY <1>1, <1>2, <1>3, LeavesWell

LEMMA DuplicateLands ==
  ASSUME RunsTypeOK, Logs, Commands, NEW p \in Procs, NEW named \in BOOLEAN, Duplicate(p, named)
  PROVE  Lands(p)
<1> DEFINE c == cli[p]
           r == run[c.session]
           given == c.mode = "resume"
<1>1. c \in Records /\ c.pc = "post" /\ c.session \in Sessions /\ Fits(c) /\ Follows(c)
      /\ Tells(c, r) /\ c.mode # "watch" /\ c.run = None /\ r.status # "none" /\ run' = run
  BY Known DEF Duplicate, At, Follows, Before, Submits
<1>2. "refused" \in Codes \ Final /\ "ambiguous" \in Codes \ Final
  BY DEF Codes, Final
<1>3. CASE ~c.again /\ ~given
  <2>1. Goes(p, Leave(c, "refused"))
    BY <1>3 DEF Duplicate
  <2> QED
    BY <1>1, <1>2, <2>1, LeavesWell
<1>4. CASE (c.again \/ given) /\ ~named
  <2>1. Goes(p, Leave(c, "ambiguous"))
    BY <1>4 DEF Duplicate
  <2> QED
    BY <1>1, <1>2, <2>1, LeavesWell
<1>5. CASE (c.again \/ given) /\ named
  <2> DEFINE o == IF given /\ ~c.again THEN "reused" ELSE "readmitted"
             d == [c EXCEPT !.run = c.session, !.pc = "read", !.create = TRUE, !.out = o]
  <2>1. Goes(p, d)
    BY <1>5 DEF Duplicate
  <2>2. o \in {"reused", "readmitted"}
    OBVIOUS
  <2> HIDE DEF o
  <2>3. d \in Records /\ d.session = c.session
    BY <1>1, <2>2, ZenonT(90) DEF Records, Places, Outs
  <2>4. Fits(d) /\ Follows(d) /\ Onward(c, d)
    BY <1>1, <2>2, FieldTypes DEF Records, Fits, Follows, Onward, Before, Gone, Unsent
  <2>5. Tells(d, r)
    BY <1>1, <2>2 DEF Tells, Records, Fits, Before, Final
  <2> QED
    BY <1>1, <2>1, <2>3, <2>4, <2>5, GoesSound DEF Sound
<1> QED
  BY <1>3, <1>4, <1>5

LEMMA AcceptedLands ==
  ASSUME RunsTypeOK, Logs, Commands, NEW p \in Procs, NEW named \in BOOLEAN, Accepted(p, named)
  PROVE  Lands(p)
<1> DEFINE c == cli[p]
           d == [c EXCEPT !.run = IF named THEN c.session ELSE None,
                          !.pc = IF named THEN "read" ELSE "stream",
                          !.create = named, !.out = "none"]
           t == run'[c.session]
<1>1. c \in Records /\ c.pc = "post" /\ c.session \in Sessions /\ Fits(c) /\ Follows(c)
      /\ c.mode # "watch" /\ c.run = None
  BY Known DEF Accepted, At, Follows, Before, Submits
<1>2. t.status = "live" /\ Goes(p, d)
  BY <1>1 DEF Accepted, Admitted, RunsTypeOK
<1>3. d \in Records /\ d.session = c.session
  BY <1>1, ZenonT(90) DEF Records, Places, Outs
<1>4. Fits(d) /\ Follows(d) /\ Onward(c, d)
  BY <1>1, FieldTypes DEF Records, Fits, Follows, Onward, Before, Gone, Unsent
<1>5. Tells(d, t)
  BY <1>1, <1>2 DEF Tells, Records, Fits, Before, Final
<1> QED
  BY <1>2, <1>3, <1>4, <1>5, GoesSound DEF Sound

LEMMA WatchingLands ==
  ASSUME RunsTypeOK, Logs, Commands, NEW p \in Procs, NEW from \in 0..MaxEvents + 1,
         Watching(p, from)
  PROVE  Lands(p)
<1> DEFINE c == cli[p]
           r == run[c.session]
           d == [c EXCEPT !.pc = "stream", !.cursor = from]
<1>1. c \in Records /\ c.pc = "post" /\ c.session \in Sessions /\ Fits(c) /\ Follows(c)
      /\ Tells(c, r) /\ c.mode = "watch" /\ from <= c.cursor
  BY Known DEF Watching, At
<1>2. from \in Nat
  BY HostedAssumption
<1>3. Goes(p, d) /\ run' = run
  BY DEF Watching
<1>4. d \in Records /\ d.session = c.session
  BY <1>1, <1>2 DEF Records, Places
<1>5. Fits(d) /\ Follows(d) /\ Onward(c, d)
  BY <1>1, <1>2, FieldTypes DEF Records, Fits, Follows, Onward, Before, Gone, Unsent
<1>6. Tells(d, r)
  BY <1>1, FieldTypes, HostedAssumption DEF Tells, Records, Fits, Follows, Before, Gone
<1> QED
  BY <1>3, <1>4, <1>5, <1>6, GoesSound DEF Sound

LEMMA RecordReadLands ==
  ASSUME RunsTypeOK, Logs, Commands, NEW p \in Procs, RecordRead(p)
  PROVE  Lands(p)
<1> DEFINE c == cli[p]
           r == run[c.session]
           e == journal[c.session]
           base == IF e = None /\ c.create THEN Fresh ELSE e
<1>1. c \in Records /\ c.pc = "read" /\ c.session \in Sessions /\ Fits(c) /\ Follows(c)
      /\ Tells(c, r) /\ run' = run
  BY Known DEF RecordRead, At
<1>2. CASE base = None \/ (base # None /\ base.run \notin {None, c.run})
  <2> DEFINE d == [c EXCEPT !.pc = Recorded(c)]
  <2>1. Goes(p, d)
    BY <1>2 DEF RecordRead
  <2>2. /\ c.out # "none" => Recorded(c) = "settle"
        /\ c.out = "none" /\ c.create => Recorded(c) = "stream"
        /\ c.out = "none" /\ ~c.create => Recorded(c) = "deliver"
    BY DEF Recorded
  <2>3. d \in Records /\ d.session = c.session
    BY <1>1, <2>2, FieldTypes DEF Records, Places
  <2>4. Fits(d) /\ Follows(d) /\ Onward(c, d)
    BY <1>1, <2>2, FieldTypes DEF Records, Fits, Follows, Onward, Before, Gone, Unsent
  <2>5. Tells(d, r)
    BY <1>1, <2>2, FieldTypes DEF Records, Tells, Fits, Follows
  <2> QED
    BY <1>1, <2>1, <2>3, <2>4, <2>5, GoesSound DEF Sound
<1>3. CASE base # None /\ base.run \in {None, c.run}
  <2> DEFINE u == Update(base, c)
             d == [c EXCEPT !.pc = "put", !.snap = u]
  <2>1. Goes(p, d)
    BY <1>3 DEF RecordRead
  <2>2. base \in Entries
    BY <1>1, <1>3 DEF RunsTypeOK, Fresh, Entries
  <2> HIDE DEF base
  <2>3. u \in Entries /\ u.run = c.run
    BY <1>1, <2>2, FieldTypes DEF Update, Entries
  <2> HIDE DEF u
  <2>4. d \in Records /\ d.session = c.session
    BY <1>1, <2>3 DEF Records, Places
  <2>5. Fits(d) /\ Follows(d) /\ Onward(c, d)
    BY <1>1, <2>3, FieldTypes DEF Records, Fits, Follows, Onward, Before, Gone, Unsent
  <2>6. Tells(d, r)
    BY <1>1 DEF Records, Tells
  <2> QED
    BY <1>1, <2>1, <2>4, <2>5, <2>6, GoesSound DEF Sound
<1> QED
  BY <1>2, <1>3

LEMMA RecordWriteLands ==
  ASSUME RunsTypeOK, Logs, Commands, NEW p \in Procs, RecordWrite(p)
  PROVE  Lands(p)
<1> DEFINE c == cli[p]
           r == run[c.session]
           d == [c EXCEPT !.pc = Recorded(c), !.snap = Fresh]
<1>1. c \in Records /\ c.pc = "put" /\ c.session \in Sessions /\ Fits(c) /\ Follows(c)
      /\ Tells(c, r)
  BY Known DEF RecordWrite, At
<1>2. Goes(p, d) /\ run' = run
  BY DEF RecordWrite
<1>3. /\ c.out # "none" => Recorded(c) = "settle"
      /\ c.out = "none" /\ c.create => Recorded(c) = "stream"
      /\ c.out = "none" /\ ~c.create => Recorded(c) = "deliver"
  BY DEF Recorded
<1>4. Fresh \in Entries
  BY DEF Fresh, Entries
<1>5. d \in Records /\ d.session = c.session
  BY <1>1, <1>3, <1>4, FieldTypes DEF Records, Places
<1>6. Fits(d) /\ Follows(d) /\ Onward(c, d)
  BY <1>1, <1>3, FieldTypes DEF Records, Fits, Follows, Onward, Before, Gone, Unsent
<1>7. Tells(d, r)
  BY <1>1, <1>3, FieldTypes DEF Records, Tells, Fits, Follows
<1> QED
  BY <1>2, <1>5, <1>6, <1>7, GoesSound DEF Sound

LEMMA Appended ==
  ASSUME NEW q \in Seq(Nat), NEW n \in Nat
  PROVE  /\ Append(q, n) \in Seq(Nat) /\ Len(q) \in Nat /\ Append(q, n) # <<>>
         /\ Len(Append(q, n)) = Len(q) + 1 /\ Append(q, n)[Len(q) + 1] = n
         /\ \A i \in 1..Len(q) : Append(q, n)[i] = q[i]
OBVIOUS

\* The next event of its stream: n is shown only right after what was shown.
LEMMA NextEventLands ==
  ASSUME RunsTypeOK, Logs, Commands, NEW p \in Procs,
         cli[p].pc \in {"stream", "deliver"}, cli[p].cursor < Len(run[cli[p].session].log),
         Goes(p, NextEvent(p)), run' = run
  PROVE  Lands(p)
<1> DEFINE c == cli[p]
           r == run[c.session]
           n == c.cursor + 1
           kind == r.log[n]
           shown == [c EXCEPT !.pc = "stream", !.cursor = n, !.after = n,
                              !.seen = Append(@, n), !.error = c.error \/ kind = "error"]
           ended == [c EXCEPT !.cursor = n, !.after = IF n > @ THEN n ELSE @]
<1>1. c \in Records /\ c.session \in Sessions /\ Fits(c) /\ Follows(c) /\ Tells(c, r)
      /\ r \in RunRecords /\ LogEnds(r)
  BY Known
<1>2. n \in Nat /\ n \in 1..Len(r.log) /\ n > c.cursor /\ kind \in EventKinds
      /\ c.cursor <= c.after
  BY <1>1, FieldTypes DEF RunRecords, Follows
<1>3. CASE Skipped(c, n, kind)
  <2> DEFINE d == [c EXCEPT !.pc = "stream", !.cursor = n]
  <2>1. Goes(p, d)
    BY <1>3 DEF NextEvent
  <2>2. n <= c.after /\ kind # "run_complete"
    BY <1>3 DEF Skipped
  <2>3. d \in Records /\ d.session = c.session
    BY <1>1, <1>2 DEF Records, Places
  <2>4. Fits(d) /\ Follows(d) /\ Onward(c, d)
    BY <1>1, <1>2, <2>2, FieldTypes, SMTT(60)
       DEF Records, Fits, Follows, Onward, Before, Gone, Unsent
  <2>5. Tells(d, r)
    BY <1>1, <1>2, <2>2 DEF Records, Tells, Fits
  <2> QED
    BY <2>1, <2>3, <2>4, <2>5, GoesSound DEF Sound
<1>4. CASE ~Skipped(c, n, kind) /\ c.run = None
  <2> DEFINE d == Named(c, n)
  <2>1. Goes(p, d)
    BY <1>4 DEF NextEvent
  <2>2. d = [c EXCEPT !.run = c.session, !.pc = "read", !.create = FALSE, !.out = "none"]
    BY DEF Named
  <2> HIDE DEF d
  <2>3. d \in Records /\ d.session = c.session
    BY <1>1, <2>2 DEF Records, Places, Outs
  <2>f. /\ d.pc = "read" /\ d.run = c.session /\ d.out = "none" /\ d.create = FALSE
        /\ d.mode = c.mode /\ d.start = c.start /\ d.after = c.after /\ d.cursor = c.cursor
        /\ d.seen = c.seen /\ d.error = c.error /\ d.again = c.again /\ d.code = c.code
    BY <1>1, <2>2 DEF Records
  <2>4. Fits(d) /\ Onward(c, d)
    BY <1>1, <1>4, <2>3, <2>f, FieldTypes DEF Fits, Onward, Before, Gone, Unsent
  <2>a. c.seen = <<>> /\ ~c.error /\ c.out = "none" /\ c.session # None
    BY <1>1, <1>4, HostedAssumption DEF Fits, Follows
  <2>6. Follows(d)
    BY <1>1, <1>2, <2>f, <2>3, <2>a DEF Follows, Before, Gone
  <2>5. Tells(d, r)
    BY <1>1, <1>2, <2>2 DEF Records, Tells, Fits, Final
  <2> QED
    BY <2>1, <2>3, <2>4, <2>5, <2>6, GoesSound DEF Sound
<1>5. CASE ~Skipped(c, n, kind) /\ c.run # None /\ kind = "run_complete"
  <2> DEFINE d == Over(ended, "terminal")
  <2>1. Goes(p, d)
    BY <1>5 DEF NextEvent
  <2>2. PICK a \in {n, c.after} :
           d = [c EXCEPT !.cursor = n, !.after = a,
                         !.pc = "read", !.create = FALSE, !.out = "terminal"]
    BY DEF Over
  <2>3. r.status \in Final
    BY <1>1, <1>2, <1>5 DEF LogEnds
  <2> HIDE DEF d
  <2>4. d \in Records /\ d.session = c.session
    <3>1. a \in Nat
      BY <1>1, <1>2, FieldTypes
    <3> QED
      BY <1>1, <1>2, <2>2, <3>1 DEF Records, Places, Outs
  <2>f. /\ d.pc = "read" /\ d.run = c.run /\ d.out = "terminal" /\ d.create = FALSE
        /\ d.mode = c.mode /\ d.start = c.start /\ d.seen = c.seen /\ d.error = c.error
        /\ d.again = c.again /\ d.code = c.code
    BY <1>1, <2>2 DEF Records
  <2>5. Fits(d) /\ Follows(d) /\ Onward(c, d)
    BY <1>1, <2>4, <2>f, FieldTypes DEF Fits, Follows, Onward, Before, Gone, Unsent
  <2>6. Tells(d, r)
    BY <1>1, <2>3, <2>4, <2>f DEF Tells, Fits, Final
  <2> QED
    BY <2>1, <2>4, <2>5, <2>6, GoesSound DEF Sound
<1>6. CASE ~Skipped(c, n, kind) /\ c.run # None /\ kind # "run_complete"
  <2> DEFINE d == CASE c.detach            -> Over(shown, "detached")
                    [] ~c.detach /\ c.hit  -> Over(shown, "deadline")
                    [] OTHER               -> shown
  <2>1. Goes(p, d)
    BY <1>6 DEF NextEvent
  <2>2. n = c.after + 1
    BY <1>1, <1>2, <1>6, FieldTypes DEF Skipped
  <2>3. /\ c.out = "none" /\ c.after = c.start + Len(c.seen)
        /\ c.start \in Nat /\ c.seen \in Seq(Nat)
    BY <1>1, FieldTypes DEF Fits, Follows, Gone
  <2>4. /\ shown \in Records /\ shown.session = c.session /\ shown.pc = "stream"
        /\ shown.out = "none" /\ shown.cursor = n /\ shown.after = n
        /\ shown.seen = Append(c.seen, n) /\ shown.run = c.run /\ shown.mode = c.mode
        /\ shown.start = c.start /\ shown.again = c.again /\ shown.code = c.code
        /\ shown.create = c.create
    <3> DEFINE e == c.error \/ kind = "error"
               m == Append(c.seen, n)
    <3>1. e \in BOOLEAN /\ m \in Seq(Nat)
      BY <1>2, <2>3
    <3>2. shown = [c EXCEPT !.pc = "stream", !.cursor = n, !.after = n, !.seen = m, !.error = e]
      OBVIOUS
    <3> HIDE DEF e, m, shown
    <3>3. /\ shown \in Records /\ shown.session = c.session /\ shown.pc = "stream"
          /\ shown.out = c.out /\ shown.cursor = n /\ shown.after = n
          /\ shown.seen = m /\ shown.run = c.run /\ shown.mode = c.mode
          /\ shown.start = c.start /\ shown.again = c.again /\ shown.code = c.code
          /\ shown.create = c.create
      BY <1>1, <1>2, <3>1, <3>2 DEF Records, Places
    <3> QED
      BY <2>3, <3>3 DEF m
  <2> HIDE DEF shown
  <2>5. /\ Len(shown.seen) = Len(c.seen) + 1 /\ shown.seen # <<>>
        /\ \A i \in 1..Len(c.seen) : shown.seen[i] = c.seen[i]
        /\ \A i \in 1..Len(shown.seen) : shown.seen[i] = c.start + i
        /\ n = c.start + Len(shown.seen)
    <3>1. Len(shown.seen) = Len(c.seen) + 1 /\ shown.seen # <<>>
          /\ shown.seen[Len(c.seen) + 1] = n
          /\ \A i \in 1..Len(c.seen) : shown.seen[i] = c.seen[i]
      BY <1>2, <2>3, <2>4, Appended, SMTT(60)
    <3>2. \A i \in 1..Len(c.seen) : c.seen[i] = c.start + i
      BY <1>1 DEF Follows
    <3>3. n = c.start + (Len(c.seen) + 1) /\ Len(c.seen) \in Nat
      <4>1. Len(c.seen) \in Nat
        BY <1>1, FieldTypes
      <4> HIDE DEF n
      <4> QED
        BY <2>2, <2>3, <4>1, SMTT(60)
    <3>4. \A i \in 1..Len(shown.seen) : shown.seen[i] = c.start + i
      BY <3>1, <3>2, <3>3, SMTT(60)
    <3> QED
      BY <3>1, <3>3, <3>4
  <2>6. \/ d = shown
        \/ \E o \in {"detached", "deadline"} :
              d = [shown EXCEPT !.pc = "read", !.create = FALSE, !.out = o]
    BY DEF Over
  <2> HIDE DEF d
  <2>7. /\ d \in Records /\ d.session = c.session
        /\ \/ d.pc = "stream" /\ d.out = "none"
           \/ d.pc = "read" /\ d.out \in {"detached", "deadline"}
        /\ d.cursor = n /\ d.after = n
        /\ d.seen = shown.seen /\ d.run = c.run /\ d.mode = c.mode
        /\ d.start = c.start /\ d.again = c.again /\ d.code = c.code
    BY <2>4, <2>6, ZenonT(90) DEF Records, Places, Outs
  <2>8. Fits(d)
    BY <1>1, <2>7 DEF Fits, Before
  <2>9. Follows(d)
    <3>1. /\ \A i \in 1..Len(d.seen) : d.seen[i] = d.start + i
          /\ d.after = d.start + Len(d.seen) /\ d.cursor = d.after /\ d.seen # <<>>
      <4> HIDE DEF n
      <4> QED
        BY <2>5, <2>7
    <3>2. d.run # None
      BY <1>1, <1>2, <1>6, <2>7 DEF Follows, Before, Fits
    <3>3. d.mode = "watch" => d.run = d.session
      BY <1>1, <1>2, <2>7 DEF Follows, Gone
    <3>4. d.cursor <= d.after
      <4>1. d.after \in Nat
        BY <2>7, FieldTypes
      <4> QED
        BY <3>1, <4>1
    <3> HIDE DEF n
    <3> QED
      BY <2>7, <3>1, <3>2, <3>3, <3>4 DEF Follows, Before, Gone
  <2>10. Onward(c, d)
    BY <1>1, <2>3, <2>5, <2>7, FieldTypes, SMTT(60) DEF Onward, Gone, Unsent
  <2>11. Tells(d, r)
    BY <1>1, <1>2, <1>6, <2>7 DEF Tells, Fits, Final
  <2> QED
    BY <2>1, <2>7, <2>8, <2>9, <2>10, <2>11, GoesSound DEF Sound
<1> QED
  BY <1>2, <1>3, <1>4, <1>5, <1>6

\* The attempt is over for a reason o that says nothing of the run, or rightly so.
LEMMA OverLands ==
  ASSUME RunsTypeOK, Logs, Commands, NEW p \in Procs, cli[p].pc = "stream",
         NEW o \in Outs \ {"none", "terminal"}, Goes(p, Over(cli[p], o)), run' = run,
         o = "closed" => ~cli[p].error,
         o = "error_end" => run[cli[p].session].status = "failed"
  PROVE  Lands(p)
<1> DEFINE c == cli[p]
           r == run[c.session]
           d == Over(c, o)
<1>1. c \in Records /\ c.session \in Sessions /\ Fits(c) /\ Follows(c) /\ Tells(c, r)
  BY Known
<1>2. d = [c EXCEPT !.pc = "read", !.create = FALSE, !.out = o]
  BY DEF Over
<1> HIDE DEF d
<1>3. d \in Records /\ d.session = c.session
  BY <1>1, <1>2 DEF Records, Places
<1>4. Fits(d) /\ Follows(d) /\ Onward(c, d)
  BY <1>1, <1>2, FieldTypes DEF Records, Fits, Follows, Onward, Before, Gone, Unsent
<1>5. Tells(d, r)
  BY <1>1, <1>2 DEF Records, Tells, Fits, Final
<1> QED
  BY <1>3, <1>4, <1>5, GoesSound DEF Sound, d

LEMMA ConsumeLands ==
  ASSUME RunsTypeOK, Logs, Commands, NEW p \in Procs, Consume(p)
  PROVE  Lands(p)
<1> DEFINE c == cli[p]
           r == run[c.session]
<1>1. c.pc = "stream" /\ run' = run
  BY DEF Consume, ConsumeCancelled, ConsumeEvent, ConsumeClosed, ConsumeFails, At
<1>2. c \in Records /\ c.session \in Sessions /\ Fits(c) /\ Follows(c) /\ Tells(c, r)
      /\ r \in RunRecords /\ LogEnds(r)
  BY <1>1, Known
<1>3. CASE ConsumeCancelled(p)
  <2>1. Why(c) \in {"deadline", "interrupted"} /\ {"deadline", "interrupted"} \subseteq Outs
    BY DEF Why, Outs
  <2> QED
    BY <1>1, <1>3, <2>1, OverLands DEF ConsumeCancelled
<1>4. CASE ConsumeEvent(p)
  BY <1>1, <1>4, NextEventLands DEF ConsumeEvent
<1>5. CASE ConsumeClosed(p)
  <2> DEFINE o == IF c.error THEN "error_end" ELSE "closed"
  <2>1. Goes(p, Over(c, o)) /\ r.status \in Final /\ c.cursor >= Len(r.log)
    BY <1>5 DEF ConsumeClosed, Ended, Final
  <2>2. c.error => r.status = "failed"
    <3> SUFFICES ASSUME c.error PROVE r.status = "failed"
      OBVIOUS
    <3>1. c.cursor \in 1..Len(r.log) /\ r.log[c.cursor] # "run_complete"
      BY <1>1, <1>2 DEF Tells
    <3>2. c.cursor = Len(r.log)
      BY <1>2, <2>1, <3>1, FieldTypes DEF RunRecords
    <3> QED
      BY <1>2, <2>1, <3>1, <3>2 DEF LogEnds, Final
  <2>3. o \in Outs \ {"none", "terminal"}
    BY DEF Outs
  <2> QED
    BY <1>1, <2>1, <2>2, <2>3, OverLands
<1>6. ASSUME NEW how \in {"lost", "protocol"}, ConsumeFails(p, how) PROVE Lands(p)
  <2>1. how \in Outs \ {"none", "terminal", "closed", "error_end"}
    BY DEF Outs
  <2> QED
    BY <1>1, <1>6, <2>1, OverLands DEF ConsumeFails
<1> QED
  BY <1>3, <1>4, <1>5, <1>6 DEF Consume

LEMMA DeliverLands ==
  ASSUME RunsTypeOK, Logs, Commands, NEW p \in Procs, Deliver(p)
  PROVE  Lands(p)
<1>1. cli[p].pc = "deliver" /\ Goes(p, NextEvent(p)) /\ run' = run
  BY DEF Deliver, At
<1>2. cli[p].cursor < Len(run[cli[p].session].log)
  BY <1>1, Known DEF Tells
<1> QED
  BY <1>1, <1>2, NextEventLands

LEMMA ExitCodes ==
  ASSUME NEW c \in Records, NEW s \in Sessions, c.session = s,
         c.out # "none", c.out = "terminal" => run[s].status \in Final
  PROVE  /\ ExitCode(c) \in Codes
         /\ ExitCode(c) \in Final => \/ c.out = "terminal" /\ ExitCode(c) = run[s].status
                                     \/ c.out = "error_end" /\ ExitCode(c) = "failed"
         /\ c.run # None => ExitCode(c) \notin {"ambiguous", "refused"}
<1>0. c.out \in Outs
  BY FieldTypes
<1>1. CASE c.out = "terminal"
  BY <1>1 DEF ExitCode, Codes, Final
<1>2. CASE c.out \in {"error_end", "detached", "reused", "protocol"}
  BY <1>2 DEF ExitCode, Codes, Final
<1>3. CASE c.out = "readmitted"
  BY <1>3 DEF ExitCode, Codes, Final
<1>4. CASE c.out \in {"deadline", "interrupted"}
  <2>1. ExitCode(c) = Stopped(c, c.out)
    BY <1>4 DEF ExitCode
  <2> QED
    BY <1>4, <2>1, StopCodes DEF Codes, Final
<1>5. CASE c.out \in {"closed", "lost"}
  <2>1. ExitCode(c) \in {"ambiguous", "protocol", "lost"} /\ (c.run # None => ExitCode(c) # "ambiguous")
    <3>1. CASE c.run = None
      BY <1>5, <3>1 DEF ExitCode
    <3>2. CASE c.run # None /\ c.mode = "watch" /\ c.out = "closed"
      BY <1>5, <3>2 DEF ExitCode
    <3>3. CASE c.run # None /\ ~(c.mode = "watch" /\ c.out = "closed")
      BY <1>5, <3>3 DEF ExitCode
    <3> QED
      BY <3>1, <3>2, <3>3
  <2> QED
    BY <1>5, <2>1 DEF Codes, Final
<1> QED
  BY <1>0, <1>1, <1>2, <1>3, <1>4, <1>5 DEF Outs

LEMMA EndCommandLands ==
  ASSUME RunsTypeOK, Logs, Commands, NEW p \in Procs, EndCommand(p)
  PROVE  Lands(p)
<1> DEFINE c == cli[p]
           r == run[c.session]
<1>1. c \in Records /\ c.pc = "settle" /\ c.session \in Sessions /\ Fits(c) /\ Follows(c)
      /\ Tells(c, r) /\ run' = run
  BY Known DEF EndCommand, At
<1>2. CASE Retries(c)
  <2> DEFINE d == [c EXCEPT !.pc = "post", !.again = TRUE, !.cursor = 0, !.out = "none"]
  <2>1. Goes(p, d)
    BY <1>2 DEF EndCommand
  <2>2. d \in Records /\ d.session = c.session
    BY <1>1 DEF Records, Places, Outs
  <2>3. c.mode = "watch" \/ c.run = None
    BY <1>2 DEF Retries, Unread
  <2>4. ~c.error /\ c.out \in {"closed", "lost"}
    BY <1>1, <1>2 DEF Retries, Unread, Follows
  <2>5. Fits(d) /\ Follows(d) /\ Onward(c, d)
    BY <1>1, <2>3, <2>4, FieldTypes DEF Records, Fits, Follows, Onward, Before, Gone, Unsent
  <2>6. Tells(d, r)
    BY <1>1 DEF Records, Tells, Fits, Final
  <2> QED
    BY <1>1, <2>1, <2>2, <2>5, <2>6, GoesSound DEF Sound
<1>3. CASE ~Retries(c)
  <2> DEFINE x == ExitCode(c)
  <2>1. Goes(p, Leave(c, x))
    BY <1>3 DEF EndCommand
  <2>2. /\ x \in Codes
        /\ x \in Final => \/ c.out = "terminal" /\ x = r.status
                          \/ c.out = "error_end" /\ x = "failed"
        /\ c.run # None => x \notin {"ambiguous", "refused"}
    BY <1>1, ExitCodes DEF Fits, Tells
  <2> HIDE DEF x
  <2>3. x \in Final => r.status = x
    BY <1>1, <2>2 DEF Tells
  <2> QED
    BY <1>1, <2>1, <2>2, <2>3, LeavesWell
<1> QED
  BY <1>2, <1>3

\* The clock and the token change nothing of it.
LEMMA SignalsLand ==
  ASSUME RunsTypeOK, Logs, Commands, NEW p \in Procs,
         Interrupt(p) \/ Deadline(p) \/ HelperCancels(p) \/ Grace(p)
  PROVE  Lands(p)
<1> DEFINE c == cli[p]
           r == run[c.session]
<1>1. c.pc # "idle" /\ run' = run
  BY DEF Interrupt, Deadline, HelperCancels, Grace, Active
<1>2. c \in Records /\ c.session \in Sessions /\ Fits(c) /\ Follows(c) /\ Tells(c, r)
  BY <1>1, Known
<1>3. PICK d \in {[c EXCEPT !.token = TRUE], [c EXCEPT !.hit = TRUE], [c EXCEPT !.grace = TRUE]} :
           Goes(p, d)
  BY DEF Interrupt, Deadline, HelperCancels, Grace
<1>4. /\ d \in Records /\ d.session = c.session /\ d.pc = c.pc /\ d.mode = c.mode
      /\ d.run = c.run /\ d.start = c.start /\ d.after = c.after /\ d.cursor = c.cursor
      /\ d.seen = c.seen /\ d.error = c.error /\ d.again = c.again /\ d.create = c.create
      /\ d.snap = c.snap /\ d.out = c.out /\ d.code = c.code
  BY <1>2, ZenonT(90) DEF Records
<1>5. Fits(d) /\ Follows(d) /\ Tells(d, r)
  BY <1>2, <1>4 DEF Fits, Follows, Tells
<1>6. Onward(c, d)
  BY <1>1, <1>2, <1>4, FieldTypes DEF Onward
<1> QED
  BY <1>1, <1>3, <1>4, <1>5, <1>6, GoesSound DEF Sound

LEMMA CrashLands ==
  ASSUME RunsTypeOK, Logs, Commands, NEW p \in Procs, Crash(p)
  PROVE  Lands(p)
<1> DEFINE c == cli[p]
           r == run[c.session]
           l == Leave(c, "none")
           d == [l EXCEPT !.pc = "crashed"]
<1>1. c.pc # "idle" /\ c.pc \notin Gone /\ run' = run /\ Goes(p, d)
  BY DEF Crash, Active, Gone
<1>2. c \in Records /\ c.session \in Sessions /\ Fits(c) /\ Follows(c) /\ Tells(c, r)
  BY <1>1, Known
<1>a. "none" \in Codes
  BY DEF Codes
<1>3. /\ l \in Records /\ l.pc = "exit" /\ l.code = "none" /\ l.out = "none"
      /\ l.mode = c.mode /\ l.session = c.session /\ l.run = c.run
      /\ l.start = c.start /\ l.seen = c.seen /\ l.again = c.again
      /\ l.error = FALSE /\ l.cursor = 0 /\ l.snap = Fresh
  BY <1>2, <1>a, Leaves
<1> HIDE DEF l
<1>4. /\ d \in Records /\ d.pc = "crashed" /\ d.code = "none" /\ d.out = "none"
      /\ d.mode = c.mode /\ d.session = c.session /\ d.run = c.run
      /\ d.start = c.start /\ d.seen = c.seen /\ d.again = c.again
      /\ d.error = FALSE /\ d.cursor = 0 /\ d.snap = Fresh
  BY <1>3 DEF Records, Places
<1> HIDE DEF d
<1>5. Fits(d) /\ Follows(d)
  BY <1>2, <1>4 DEF Fits, Follows, Before, Gone
<1>6. Tells(d, r) /\ Onward(c, d)
  BY <1>2, <1>4, FieldTypes DEF Tells, Onward, Gone, Unsent, Final
<1> QED
  BY <1>1, <1>4, <1>5, <1>6, GoesSound DEF Sound

LEMMA EachLands ==
  ASSUME RunsTypeOK, Logs, Commands, Journalled, NEW p \in Procs, Moves(p)
  PROVE  Lands(p)
<1>1. CASE Start(p)
  BY <1>1, StartSubmitLands, StartResumeLands, StartWatchLands, WatchRecordLands DEF Start
<1>2. CASE Open(p)
  BY <1>2, OpenCancelledLands, RequestsLand, RefusedLands, DuplicateLands, AcceptedLands,
     WatchingLands DEF Open
<1>3. CASE Command(p) /\ ~Open(p)
  BY <1>3, CheckReuseLands, CheckEntryLands, WriteAheadLands, RecordReadLands,
     RecordWriteLands, ConsumeLands, DeliverLands, EndCommandLands DEF Command
<1>4. CASE ~Start(p) /\ ~Command(p)
  BY <1>4, SignalsLand, CrashLands DEF Moves
<1> QED
  BY <1>1, <1>2, <1>3, <1>4

-----------------------------------------------------------------------------
\* What a step does to the runs, to what is in flight and to the journal.

\* A command makes at most the run it submits.
LEMMA MovesRun ==
  ASSUME RunsTypeOK, NEW p \in Procs, Moves(p)
  PROVE  \/ run' = run
         \/ /\ cli[p].pc = "post" /\ Submits(p) /\ run[cli[p].session].status = "none"
            /\ run' = [run EXCEPT ![cli[p].session] = Admitted(cli[p].session, p)]
<1>1. CASE Open(p)
  BY <1>1 DEF Open, OpenCancelled, RequestLost, RequestDelayed, AnswerLost, Refused, Duplicate,
              Accepted, Watching, At
<1>2. CASE Start(p)
  BY <1>2 DEF Start, StartSubmit, StartResume, StartWatch, WatchRecord
<1>3. CASE Command(p) /\ ~Open(p)
  BY <1>3 DEF Command, CheckReuse, CheckEntry, WriteAhead, RecordRead, RecordWrite, Consume,
              ConsumeCancelled, ConsumeEvent, ConsumeClosed, ConsumeFails, Deliver, EndCommand
<1>4. CASE ~Start(p) /\ ~Command(p)
  BY <1>4 DEF Moves, Interrupt, Deadline, HelperCancels, Grace, Crash
<1> QED
  BY <1>1, <1>2, <1>3, <1>4

\* It leaves at most its own submission in flight.
LEMMA MovesFlight ==
  ASSUME NEW p \in Procs, Moves(p)
  PROVE  \/ flight' = flight
         \/ /\ cli[p].pc = "post" /\ Submits(p)
            /\ flight' = flight \cup {<<cli[p].session, p>>}
<1>1. CASE Open(p)
  BY <1>1 DEF Open, OpenCancelled, RequestLost, RequestDelayed, AnswerLost, Refused, Duplicate,
              Accepted, Watching, At, LeftBehind
<1>2. CASE Start(p)
  BY <1>2 DEF Start, StartSubmit, StartResume, StartWatch, WatchRecord
<1>3. CASE Command(p) /\ ~Open(p)
  BY <1>3 DEF Command, CheckReuse, CheckEntry, WriteAhead, RecordRead, RecordWrite, Consume,
              ConsumeCancelled, ConsumeEvent, ConsumeClosed, ConsumeFails, Deliver, EndCommand
<1>4. CASE ~Start(p) /\ ~Command(p)
  BY <1>4 DEF Moves, Interrupt, Deadline, HelperCancels, Grace, Crash, LeftBehind, At
<1> QED
  BY <1>1, <1>2, <1>3, <1>4

\* It writes the entry of its session ahead of the submission, or as it was read.
LEMMA MovesJournal ==
  ASSUME NEW p \in Procs, Moves(p)
  PROVE  \/ journal' = journal
         \/ cli[p].pc = "write" /\ journal' = [journal EXCEPT ![cli[p].session] = Fresh]
         \/ cli[p].pc = "put" /\ journal' = [journal EXCEPT ![cli[p].session] = cli[p].snap]
<1>1. CASE Open(p)
  BY <1>1 DEF Open, OpenCancelled, RequestLost, RequestDelayed, AnswerLost, Refused, Duplicate,
              Accepted, Watching
<1>2. CASE Start(p)
  BY <1>2 DEF Start, StartSubmit, StartResume, StartWatch, WatchRecord
<1>3. CASE Command(p) /\ ~Open(p)
  BY <1>3 DEF Command, CheckReuse, CheckEntry, WriteAhead, RecordRead, RecordWrite, Consume,
              ConsumeCancelled, ConsumeEvent, ConsumeClosed, ConsumeFails, Deliver, EndCommand, At
<1>4. CASE ~Start(p) /\ ~Command(p)
  BY <1>4 DEF Moves, Interrupt, Deadline, HelperCancels, Grace, Crash
<1> QED
  BY <1>1, <1>2, <1>3, <1>4

LEMMA StepIsOnes ==
  ASSUME [RunsNext]_runsVars
  PROVE  Service \/ UNCHANGED runsVars \/ \E p \in Procs : Moves(p)
BY DEF RunsNext, Moves

LEMMA GrowsItself ==
  ASSUME NEW r \in RunRecords
  PROVE  Grows(r, r)
BY DEF Grows, RunRecords

\* One more event, the terminal one only as it ends.
LEMMA LogGrows ==
  ASSUME NEW r \in RunRecords, LogEnds(r), r.status = "live", NEW kind \in EventKinds,
         NEW x \in {"live"} \cup Final, kind = "run_complete" <=> x # "live"
  PROVE  LET t == [r EXCEPT !.status = x, !.log = Append(@, kind)]
         IN t \in RunRecords /\ LogEnds(t) /\ Grows(r, t) /\ t.owner = r.owner
<1> DEFINE l == Append(r.log, kind)
           t == [r EXCEPT !.status = x, !.log = l]
<1>1. /\ l \in Seq(EventKinds) /\ Len(r.log) \in Nat /\ Len(l) = Len(r.log) + 1
      /\ l[Len(r.log) + 1] = kind /\ \A i \in 1..Len(r.log) : l[i] = r.log[i]
  BY DEF RunRecords
<1> HIDE DEF l
<1>2. t \in RunRecords /\ t.status = x /\ t.log = l /\ t.owner = r.owner
  BY <1>1 DEF RunRecords, Final
<1> HIDE DEF t
<1>3. LogEnds(t)
  BY <1>1, <1>2 DEF LogEnds, Final
<1>4. Grows(r, t)
  BY <1>1, <1>2 DEF Grows, Final
<1> QED
  BY <1>2, <1>3, <1>4 DEF t, l

LEMMA AdmittedGrows ==
  ASSUME NEW r \in RunRecords, LogEnds(r), r.status = "none", NEW s \in Sessions, NEW p \in Procs
  PROVE  /\ Admitted(s, p) \in RunRecords /\ LogEnds(Admitted(s, p)) /\ Grows(r, Admitted(s, p))
         /\ Admitted(s, p).owner = p /\ Admitted(s, p).status = "live"
BY DEF Admitted, RunRecords, LogEnds, Grows, Final, NoRun

\* Runs begin, grow and end, and are never replaced.
LEMMA RunsGrow ==
  ASSUME RunsTypeOK, Logs, Commands, [RunsNext]_runsVars
  PROVE  /\ run' \in [Sessions -> RunRecords] /\ Logs'
         /\ \A s \in Sessions : Grows(run[s], run'[s])
<1>0. run \in [Sessions -> RunRecords]
  BY DEF RunsTypeOK
<1>1. SUFFICES \/ run' = run
               \/ \E s \in Sessions, t \in RunRecords :
                     run' = [run EXCEPT ![s] = t] /\ LogEnds(t) /\ Grows(run[s], t)
  BY <1>0, GrowsItself DEF Logs
<1>2. ASSUME NEW s \in Sessions, NEW kind \in {"status", "error"}, Emit(s, kind)
      PROVE  \E t \in RunRecords :
                run' = [run EXCEPT ![s] = t] /\ LogEnds(t) /\ Grows(run[s], t)
  <2> DEFINE t == [run[s] EXCEPT !.status = "live", !.log = Append(@, kind)]
  <2>1. t \in RunRecords /\ LogEnds(t) /\ Grows(run[s], t)
    BY <1>0, <1>2, LogGrows DEF Logs, Emit, EventKinds
  <2>2. run' = [run EXCEPT ![s] = t]
    BY <1>0, <1>2 DEF Emit, RunRecords
  <2> QED
    BY <2>1, <2>2
<1>3. ASSUME NEW s \in Sessions, NEW status \in Statuses, Finish(s, status)
      PROVE  \E t \in RunRecords :
                run' = [run EXCEPT ![s] = t] /\ LogEnds(t) /\ Grows(run[s], t)
  <2> DEFINE t == [run[s] EXCEPT !.status = status, !.log = Append(@, "run_complete")]
  <2>1. status \in Final
    BY HostedAssumption DEF Final
  <2>2. t \in RunRecords /\ LogEnds(t) /\ Grows(run[s], t)
    BY <1>0, <1>3, <2>1, LogGrows DEF Logs, Finish, EventKinds, Final
  <2>3. run' = [run EXCEPT ![s] = t]
    BY <1>0, <1>3 DEF Finish, RunRecords
  <2> QED
    BY <2>2, <2>3
<1>4. ASSUME NEW s \in Sessions, Abort(s)
      PROVE  \E t \in RunRecords :
                run' = [run EXCEPT ![s] = t] /\ LogEnds(t) /\ Grows(run[s], t)
  <2> DEFINE t == [run[s] EXCEPT !.status = "failed"]
  <2>1. t \in RunRecords /\ t.status = "failed" /\ t.log = run[s].log
    BY <1>0 DEF RunRecords
  <2>2. LogEnds(run[s]) /\ run[s].status = "live" /\ run[s].log # <<>>
        /\ run[s].log[Len(run[s].log)] = "error" /\ t.owner = run[s].owner
    BY <1>0, <1>4 DEF Abort, Logs, RunRecords
  <2>3. run' = [run EXCEPT ![s] = t]
    BY <1>4 DEF Abort
  <2> HIDE DEF t
  <2>4. LogEnds(t) /\ Grows(run[s], t)
    BY <1>0, <2>1, <2>2 DEF LogEnds, Grows, Final, RunRecords
  <2> QED
    BY <2>1, <2>3, <2>4
<1>5. ASSUME NEW s \in Sessions, NEW p \in Procs, LateAdmission(s, p)
      PROVE  \/ run' = run
             \/ \E t \in RunRecords :
                   run' = [run EXCEPT ![s] = t] /\ LogEnds(t) /\ Grows(run[s], t)
  BY <1>0, <1>5, AdmittedGrows DEF LateAdmission, Logs
<1>6. ASSUME NEW p \in Procs, Moves(p)
      PROVE  \/ run' = run
             \/ \E s \in Sessions, t \in RunRecords :
                   run' = [run EXCEPT ![s] = t] /\ LogEnds(t) /\ Grows(run[s], t)
  <2>1. cli[p].pc = "post" => cli[p].session \in Sessions
    BY Known
  <2> QED
    BY <1>0, <1>6, <2>1, MovesRun, AdmittedGrows DEF Logs
<1>7. CASE Service
  BY <1>2, <1>3, <1>4, <1>5, <1>7 DEF Service
<1>8. CASE UNCHANGED runsVars
  BY <1>8 DEF runsVars
<1> QED
  BY <1>6, <1>7, <1>8, StepIsOnes

-----------------------------------------------------------------------------
\* Commands stay sound, whoever moves.

Steps == \A q \in Procs : cli'[q] = cli[q] \/ Onward(cli[q], cli'[q])

LEMMA TellsOn ==
  ASSUME NEW c \in Records, NEW r \in RunRecords, NEW t \in RunRecords,
         Grows(r, t), Tells(c, r)
  PROVE  Tells(c, t)
<1>1. Len(r.log) \in Nat /\ Len(t.log) \in Nat /\ c.cursor \in Nat
  BY FieldTypes DEF RunRecords
<1> QED
  BY <1>1 DEF Grows, Tells, Final

LEMMA CommandsStay ==
  ASSUME RunsTypeOK, Logs, Commands, Journalled, [RunsNext]_runsVars
  PROVE  RunsTypeOK' /\ Logs' /\ Commands' /\ Steps
<1>1. /\ run' \in [Sessions -> RunRecords] /\ Logs'
      /\ \A s \in Sessions : Grows(run[s], run'[s])
  BY RunsGrow
<1>2. ASSUME NEW q \in Procs, cli[q] # Idle
      PROVE  cli[q].session \in Sessions /\ Sound(cli[q], run'[cli[q].session])
  <2>1. /\ cli[q] \in Records /\ cli[q].session \in Sessions /\ Fits(cli[q]) /\ Follows(cli[q])
        /\ Tells(cli[q], run[cli[q].session]) /\ run[cli[q].session] \in RunRecords
    BY <1>2, Known
  <2>2. Tells(cli[q], run'[cli[q].session])
    BY <1>1, <2>1, TellsOn
  <2> QED
    BY <2>1, <2>2 DEF Sound
<1>3. CASE cli' = cli /\ journal' = journal /\ flight' \subseteq flight
  <2>1. RunsTypeOK'
    BY <1>1, <1>3 DEF RunsTypeOK
  <2>2. Commands'
    BY <1>2, <1>3 DEF Commands
  <2> QED
    BY <1>1, <1>3, <2>1, <2>2 DEF Steps
<1>4. ASSUME NEW p \in Procs, Moves(p)
      PROVE  RunsTypeOK' /\ Commands' /\ Steps
  <2>1. Lands(p)
    BY <1>4, EachLands
  <2>2. flight' \subseteq Sessions \X Procs
    <3>1. cli[p].pc = "post" => cli[p].session \in Sessions
      BY Known
    <3> QED
      BY <1>4, <3>1, MovesFlight DEF RunsTypeOK
  <2>3. journal' \in [Sessions -> Entries \cup {None}]
    <3>1. Fresh \in Entries /\ cli[p].snap \in Entries
      BY Known, FieldTypes DEF Fresh, Entries
    <3>2. journal \in [Sessions -> Entries \cup {None}]
      BY DEF RunsTypeOK
    <3> QED
      BY <1>4, <3>1, <3>2, MovesJournal
  <2>4. RunsTypeOK'
    BY <1>1, <2>1, <2>2, <2>3 DEF Lands, RunsTypeOK
  <2>5. Commands'
    <3>1. Sound(cli'[p], run'[cli'[p].session])
      BY <2>1 DEF Lands
    <3>2. \A q \in Procs \ {p} : cli'[q] = cli[q]
      BY <2>1 DEF Lands
    <3> QED
      BY <1>2, <3>1, <3>2 DEF Commands
  <2>6. Steps
    BY <2>1 DEF Lands, Steps
  <2> QED
    BY <2>4, <2>5, <2>6
<1>5. CASE Service
  <2>1. cli' = cli /\ journal' = journal /\ flight' \subseteq flight
    BY <1>5 DEF Service, Emit, Finish, Abort, LateAdmission
  <2> QED
    BY <1>1, <1>3, <2>1
<1>6. CASE UNCHANGED runsVars
  BY <1>1, <1>3, <1>6 DEF runsVars
<1> QED
  BY <1>1, <1>4, <1>5, <1>6, StepIsOnes

-----------------------------------------------------------------------------
\* Who pays.

\* A command that may have to pay goes on without sending again, unless that
\* is counted, and does not say that it was refused.
LEMMA Spends ==
  ASSUME RunsTypeOK, Logs, Commands, Journalled, NEW p \in Procs, Moves(p),
         cli[p].pc \notin Unsent, cli[p].mode # "watch"
  PROVE  \/ cli'[p].again
         \/ cli'[p].pc # "post" /\ cli'[p].code \notin {"refused", "journal"}
         \/ cli[p].pc = "post" /\ ~cli[p].again /\ UNCHANGED <<run, flight>>
<1> DEFINE c == cli[p]
           d == cli'[p]
<1>1. c \in Records /\ c.session \in Sessions /\ Fits(c) /\ Follows(c)
      /\ Tells(c, run[c.session])
  BY Known DEF Unsent
<1>2. Lands(p) /\ Fits(d) /\ (c.again => d.again)
  BY EachLands DEF Lands, Sound, Onward
<1>3. d.pc # "exit" => d.code = "none"
  BY <1>2 DEF Fits
<1>4. CASE c.again
  BY <1>2, <1>4
<1>5. ASSUME NEW x \in Codes, Goes(p, Leave(c, x))
      PROVE  d.pc = "exit" /\ d.code = x
  <2>1. d = Leave(c, x)
    BY <1>5, GoesAlone
  <2>2. Leave(c, x).pc = "exit" /\ Leave(c, x).code = x
    BY <1>1, <1>5, Leaves
  <2> QED
    BY <2>1, <2>2
<1>6. CASE OpenCancelled(p)
  <2>1. Stopped(c, Why(c)) \in {"ambiguous", "deadline", "lost"}
    BY StopCodes
  <2>2. Goes(p, Leave(c, Stopped(c, Why(c))))
    BY <1>6 DEF OpenCancelled
  <2> QED
    BY <1>5, <2>1, <2>2 DEF Codes
<1>7. CASE RequestLost(p) \/ RequestDelayed(p) \/ AnswerLost(p)
  <2>1. Goes(p, Dropped(c))
    BY <1>7 DEF RequestLost, RequestDelayed, AnswerLost
  <2>2. CASE c.again
    BY <1>4, <2>2
  <2>3. CASE ~c.again
    <3>1. Dropped(c) = [c EXCEPT !.again = TRUE]
      BY <2>3 DEF Dropped
    <3> QED
      BY <1>1, <2>1, <3>1, GoesAlone DEF Records
  <2> QED
    BY <2>2, <2>3
<1>8. CASE \E answer \in Refusals : Refused(p, answer)
  BY <1>4, <1>8 DEF Refused, At
<1>9. CASE \E named \in BOOLEAN : Duplicate(p, named)
  BY <1>4, <1>9 DEF Duplicate, At
<1>10. CASE \E named \in BOOLEAN : Accepted(p, named)
  <2>1. PICK named \in BOOLEAN : Accepted(p, named)
    BY <1>10
  <2>2. d = [c EXCEPT !.run = IF named THEN c.session ELSE None,
                      !.pc = IF named THEN "read" ELSE "stream",
                      !.create = named, !.out = "none"]
    BY <2>1, GoesAlone DEF Accepted
  <2>3. d.pc \in {"read", "stream"}
    BY <1>1, <2>2 DEF Records
  <2> QED
    BY <1>3, <2>3
<1>11. CASE \E from \in 0..MaxEvents + 1 : Watching(p, from)
  BY <1>11 DEF Watching
<1>12. CASE EndCommand(p)
  <2>1. c.pc = "settle" /\ c.out # "none"
    BY <1>1, <1>12 DEF EndCommand, At, Fits
  <2>2. CASE Retries(c)
    <3>1. d = [c EXCEPT !.pc = "post", !.again = TRUE, !.cursor = 0, !.out = "none"]
      BY <1>12, <2>2, GoesAlone DEF EndCommand
    <3> QED
      BY <1>1, <3>1 DEF Records
  <2>3. CASE ~Retries(c)
    <3>1. Goes(p, Leave(c, ExitCode(c)))
      BY <1>12, <2>3 DEF EndCommand
    <3>2. ExitCode(c) \in Codes /\ ExitCode(c) \notin {"refused", "journal"}
      <4>1. c.out \in Outs /\ (c.out = "terminal" => run[c.session].status \in Final)
        BY <1>1, FieldTypes DEF Tells
      <4>2. ExitCode(c) \in Codes
        BY <1>1, <2>1, <4>1, ExitCodes
      <4>3. CASE c.out \in {"deadline", "interrupted"}
        <5>1. ExitCode(c) = Stopped(c, c.out)
          BY <4>3 DEF ExitCode
        <5> QED
          BY <4>2, <5>1, StopCodes
      <4>4. CASE c.out \in {"closed", "lost"}
        <5>1. ExitCode(c) \in {"ambiguous", "protocol", "lost"}
          BY <4>4 DEF ExitCode
        <5> QED
          BY <4>2, <5>1
      <4>5. CASE c.out \notin {"deadline", "interrupted", "closed", "lost"}
        BY <2>1, <4>1, <4>2, <4>5 DEF ExitCode, Outs, Final
      <4> QED
        BY <4>2, <4>3, <4>4, <4>5
    <3> QED
      BY <1>5, <3>1, <3>2
  <2> QED
    BY <2>2, <2>3
<1>13. CASE RecordRead(p) \/ RecordWrite(p) \/ Consume(p) \/ Deliver(p)
  <2>1. c.pc \in {"read", "put", "stream", "deliver"}
    BY <1>13 DEF RecordRead, RecordWrite, Consume, ConsumeCancelled, ConsumeEvent,
                 ConsumeClosed, ConsumeFails, Deliver, At
  <2>2. CASE RecordRead(p) \/ RecordWrite(p)
    <3>1. Recorded(c) \in {"settle", "stream", "deliver"}
      BY DEF Recorded
    <3>2. d.pc \in {"settle", "stream", "deliver", "put"}
      <4>1. \/ d = [c EXCEPT !.pc = Recorded(c)]
            \/ d = [c EXCEPT !.pc = Recorded(c), !.snap = Fresh]
            \/ \E u : d = [c EXCEPT !.pc = "put", !.snap = u]
        <5>1. CASE RecordRead(p)
          <6> DEFINE e    == journal[c.session]
                     base == IF e = None /\ c.create THEN Fresh ELSE e
          <6>1. \/ Goes(p, [c EXCEPT !.pc = Recorded(c)])
                \/ Goes(p, [c EXCEPT !.pc = "put", !.snap = Update(base, c)])
            BY <5>1 DEF RecordRead
          <6> QED
            BY <6>1, GoesAlone, ZenonT(90)
        <5>2. CASE RecordWrite(p)
          BY <5>2, GoesAlone DEF RecordWrite
        <5> QED
          BY <2>2, <5>1, <5>2
      <4> QED
        BY <1>1, <3>1, <4>1 DEF Records
    <3> QED
      BY <1>3, <3>2
  <2>3. CASE Consume(p) \/ Deliver(p)
    <3>1. \A o : Over(c, o).pc = "read"
      BY <1>1 DEF Over, Records
    <3>2. NextEvent(p).pc \in {"read", "stream"}
      BY <1>1 DEF NextEvent, Named, Over, Records
    <3>3. d.pc \in {"read", "stream"}
      BY <2>3, <3>1, <3>2, GoesAlone
         DEF Consume, ConsumeCancelled, ConsumeEvent, ConsumeClosed, ConsumeFails, Deliver
    <3> QED
      BY <1>3, <3>3
  <2> QED
    BY <1>13, <2>2, <2>3
<1>14. CASE Interrupt(p) \/ Deadline(p) \/ HelperCancels(p) \/ Grace(p)
  <2>1. c.pc # "exit" /\ d.pc = c.pc /\ UNCHANGED <<run, flight>>
    BY <1>1, <1>14, GoesAlone
       DEF Interrupt, Deadline, HelperCancels, Grace, Active, Records
  <2> QED
    BY <1>3, <1>4, <2>1
<1>15. CASE Crash(p)
  <2>1. d = [Leave(c, "none") EXCEPT !.pc = "crashed"]
    BY <1>15, GoesAlone DEF Crash
  <2>2. d.pc = "crashed"
    BY <1>1, <2>1 DEF Leave, Idle
  <2> QED
    BY <1>3, <2>2
<1>16. ~Start(p) /\ ~CheckReuse(p) /\ ~CheckEntry(p) /\ ~WriteAhead(p)
  BY DEF Start, StartSubmit, StartResume, StartWatch, WatchRecord, CheckReuse, CheckEntry,
         WriteAhead, At, Unsent
<1> QED
  BY <1>6, <1>7, <1>8, <1>9, <1>10, <1>11, <1>12, <1>13, <1>14, <1>15, <1>16
     DEF Moves, Command, Open

\* p pays for its own session alone, and knows when it may have to.
LEMMA PaymentsStay ==
  ASSUME RunsInv, [RunsNext]_runsVars
  PROVE  Payments'
<1>1. RunsTypeOK /\ Logs /\ Commands /\ Journalled /\ Payments
  BY DEF RunsInv
<1>2. Steps /\ Commands'
  BY <1>1, CommandsStay
<1>3. SUFFICES ASSUME NEW s \in Sessions, NEW q \in Procs,
                      run'[s].owner = q \/ <<s, q>> \in flight'
               PROVE  /\ cli'[q].session = s /\ Submits(q)' /\ cli'[q].pc \notin Unsent
                      /\ cli'[q].again \/ ( cli'[q].pc # "post"
                                           /\ cli'[q].code \notin {"refused", "journal"})
  BY DEF Payments, Pays
<1>4. CASE cli' = cli /\ (run'[s].owner = q => Pays(s, q)) /\ flight' \subseteq flight
  <2>1. Pays(s, q)
    BY <1>3, <1>4 DEF Pays
  <2> QED
    BY <1>1, <1>4, <2>1 DEF Payments, Submits
<1>5. CASE Service
  <2>1. cli' = cli /\ flight' \subseteq flight
    BY <1>5 DEF Service, Emit, Finish, Abort, LateAdmission
  <2>2. run'[s].owner = q => Pays(s, q)
    <3>1. CASE run[s].status # "none"
      BY <1>1, <3>1, RunsGrow DEF Grows, Pays
    <3>2. CASE run[s].status = "none"
      <4>1. run'[s] = run[s] \/ \E p \in Procs : <<s, p>> \in flight /\ run'[s] = Admitted(s, p)
        BY <1>1, <1>5, <3>2
           DEF Service, Emit, Finish, Abort, LateAdmission, RunsTypeOK
      <4>2. \A p : Admitted(s, p).owner = p
        BY DEF Admitted
      <4> QED
        BY <4>1, <4>2 DEF Pays
    <3> QED
      BY <3>1, <3>2
  <2> QED
    BY <1>4, <2>1, <2>2
<1>6. CASE UNCHANGED runsVars
  BY <1>4, <1>6 DEF runsVars, Pays
<1>7. ASSUME NEW p \in Procs, Moves(p)
      PROVE  /\ cli'[q].session = s /\ Submits(q)' /\ cli'[q].pc \notin Unsent
             /\ cli'[q].again \/ ( cli'[q].pc # "post"
                                  /\ cli'[q].code \notin {"refused", "journal"})
  <2> DEFINE c == cli[p]
             d == cli'[p]
  <2>1. Lands(p)
    BY <1>1, <1>7, EachLands
  <2>2. run'[s].owner = q =>
           run[s].owner = q \/ (q = p /\ s = c.session /\ c.pc = "post" /\ Submits(p))
    <3>1. c.pc = "post" => c.session \in Sessions
      BY <1>1, Known
    <3>2. run \in [Sessions -> RunRecords]
      BY <1>1 DEF RunsTypeOK
    <3>3. Admitted(c.session, p).owner = p
      BY DEF Admitted
    <3> QED
      BY <1>1, <1>7, <3>1, <3>2, <3>3, MovesRun
  <2>3. <<s, q>> \in flight' =>
           <<s, q>> \in flight \/ (q = p /\ s = c.session /\ c.pc = "post" /\ Submits(p))
    BY <1>7, MovesFlight
  <2>4. Pays(s, q) \/ (q = p /\ s = c.session /\ c.pc = "post" /\ Submits(p))
    BY <1>3, <2>2, <2>3 DEF Pays
  <2>5. CASE q # p
    <3>1. cli'[q] = cli[q] /\ Pays(s, q)
      BY <2>1, <2>4, <2>5 DEF Lands
    <3> QED
      BY <1>1, <3>1 DEF Payments, Submits
  <2>6. CASE q = p
    <3>1. c.session = s /\ Submits(p) /\ c.pc \notin Unsent
          /\ (Pays(s, p) => c.again \/ (c.pc # "post" /\ c.code \notin {"refused", "journal"}))
      BY <1>1, <2>4, <2>6 DEF Payments, Unsent
    <3>2. d.session = s /\ d.mode = c.mode /\ d.pc \notin Unsent /\ (c.again => d.again)
      BY <2>1, <3>1 DEF Lands, Onward, Unsent
    <3>3. \/ d.again
          \/ d.pc # "post" /\ d.code \notin {"refused", "journal"}
          \/ c.pc = "post" /\ ~c.again /\ UNCHANGED <<run, flight>>
      BY <1>1, <1>7, <3>1, Spends DEF Submits
    <3>4. UNCHANGED <<run, flight>> => Pays(s, p)
      BY <1>3, <2>6 DEF Pays
    <3>5. d.again \/ (d.pc # "post" /\ d.code \notin {"refused", "journal"})
      BY <3>1, <3>3, <3>4
    <3> QED
      BY <2>6, <3>1, <3>2, <3>5 DEF Submits
  <2> QED
    BY <2>5, <2>6
<1> QED
  BY <1>5, <1>6, <1>7, StepIsOnes

-----------------------------------------------------------------------------
\* The journal.

\* An entry stays, and is as it was or what a command wrote.
LEMMA EntryStays ==
  ASSUME RunsTypeOK, Logs, Commands, NEW p \in Procs, Moves(p), NEW s \in Sessions
  PROVE  \/ journal'[s] = journal[s]
         \/ /\ s = cli[p].session /\ cli[p].pc = "write" /\ journal'[s] = Fresh
            /\ journal'[s] # None
         \/ /\ s = cli[p].session /\ cli[p].pc = "put" /\ journal'[s] = cli[p].snap
            /\ journal'[s] # None /\ cli[p].snap.run = cli[p].run
<1>1. Fresh \in Entries /\ cli[p].snap \in Entries /\ None \notin Entries
  BY Known, FieldTypes, HostedAssumption DEF Fresh, Entries
<1>2. cli[p].pc = "put" => cli[p].snap.run = cli[p].run
  BY Known DEF Fits
<1>3. journal \in [Sessions -> Entries \cup {None}]
  BY DEF RunsTypeOK
<1> QED
  BY <1>1, <1>2, <1>3, MovesJournal

LEMMA JournalStays ==
  ASSUME RunsTypeOK, Logs, Commands, [RunsNext]_runsVars
  PROVE  \A s \in Sessions : journal[s] # None => journal'[s] # None
<1>1. CASE Service \/ UNCHANGED runsVars
  BY <1>1 DEF Service, Emit, Finish, Abort, LateAdmission, runsVars
<1>2. ASSUME NEW p \in Procs, Moves(p), NEW s \in Sessions, journal[s] # None
      PROVE  journal'[s] # None
  BY <1>2, EntryStays
<1> QED
  BY <1>1, <1>2, StepIsOnes

\* Whoever is past the write-ahead found or wrote the entry.
LEMMA LeftIsGone ==
  ASSUME NEW b, NEW x
  PROVE  Leave(b, x).pc = "exit" /\ [Leave(b, x) EXCEPT !.pc = "crashed"].pc = "crashed"
         /\ "exit" \in Gone /\ "crashed" \in Gone
BY DEF Leave, Idle, Gone

\* Before it is sent, a command waits, or leaves, or takes one of these steps.
LEMMA StillUnsent ==
  ASSUME RunsTypeOK, NEW p \in Procs, Moves(p), cli[p].pc \in {"reuse", "entry", "write"}
  PROVE  \/ CheckReuse(p) \/ CheckEntry(p) \/ WriteAhead(p)
         \/ cli'[p].pc \in {cli[p].pc} \cup Gone
<1> DEFINE c == cli[p]
           d == cli'[p]
<1>0. c \in Records
  BY DEF RunsTypeOK
<1>1. CASE Interrupt(p) \/ HelperCancels(p)
  <2>1. d = [c EXCEPT !.token = TRUE]
    BY <1>1, GoesAlone DEF Interrupt, HelperCancels
  <2> QED
    BY <1>0, <2>1 DEF Records
<1>2. CASE Grace(p)
  <2>1. d = [c EXCEPT !.grace = TRUE]
    BY <1>2, GoesAlone DEF Grace
  <2> QED
    BY <1>0, <2>1 DEF Records
<1>3. CASE Crash(p)
  <2>1. d = [Leave(c, "none") EXCEPT !.pc = "crashed"]
    BY <1>3, GoesAlone DEF Crash
  <2> QED
    BY <2>1, LeftIsGone
<1>4. ~Start(p) /\ ~Open(p) /\ ~Deadline(p)
  BY DEF Start, StartSubmit, StartResume, StartWatch, WatchRecord, Open, OpenCancelled,
         RequestLost, RequestDelayed, AnswerLost, Refused, Duplicate, Accepted, Watching,
         Deadline, At
<1>5. ~RecordRead(p) /\ ~RecordWrite(p) /\ ~Consume(p) /\ ~Deliver(p) /\ ~EndCommand(p)
  BY DEF RecordRead, RecordWrite, Consume, ConsumeCancelled, ConsumeEvent, ConsumeClosed,
         ConsumeFails, Deliver, EndCommand, At
<1> QED
  BY <1>1, <1>2, <1>3, <1>4, <1>5 DEF Moves, Command

LEMMA AheadStays ==
  ASSUME RunsTypeOK, Logs, Commands, Journalled, NEW p \in Procs, Moves(p),
         Submits(p)', cli'[p].pc \notin Unsent \cup Gone
  PROVE  journal'[cli'[p].session] # None
<1> DEFINE c == cli[p]
           d == cli'[p]
<1>1. Lands(p)
  BY EachLands
<1>2. \A s \in Sessions : journal[s] # None => journal'[s] # None
  BY JournalStays DEF RunsNext, Moves
<1>3. c \in Records /\ (c.pc # "idle" => c.session \in Sessions /\ d.session = c.session)
      /\ (c.pc # "idle" => d.mode = c.mode) /\ (c.pc \in Gone => d.pc \in Gone)
  BY <1>1, Known DEF Lands, Onward
<1>4. CASE c.pc \notin Unsent
  <2>1. journal[c.session] # None
    BY <1>3, <1>4 DEF Journalled, Submits, Unsent
  <2> QED
    BY <1>2, <1>3, <1>4, <2>1 DEF Unsent
<1>5. CASE c.pc = "idle"
  <2>1. Start(p)
    BY <1>5 DEF Moves, Command, CheckReuse, CheckEntry, WriteAhead, Open, OpenCancelled,
                RequestLost, RequestDelayed, AnswerLost, Refused, Duplicate, Accepted, Watching,
                RecordRead, RecordWrite, Consume, ConsumeCancelled, ConsumeEvent, ConsumeClosed,
                ConsumeFails, Deliver, EndCommand, Interrupt, Deadline, HelperCancels, Grace,
                Crash, Active, At
  <2>2. ASSUME NEW s \in Sessions, NEW detach \in BOOLEAN,
               StartSubmit(p, s, detach) \/ StartResume(p, s, detach)
        PROVE  d.pc \in Unsent
    <3>1. \/ d = [Idle EXCEPT !.pc = "write", !.mode = "submit", !.session = s, !.detach = detach]
          \/ d = [Idle EXCEPT !.pc = "reuse", !.mode = "resume", !.session = s, !.detach = detach]
      BY <2>2, GoesAlone DEF StartSubmit, StartResume
    <3> QED
      BY <3>1 DEF Idle, Unsent
  <2>3. ASSUME NEW s \in Sessions, NEW after \in 0..MaxEvents + 1, StartWatch(p, s, after)
        PROVE  d.mode = "watch"
    <3>1. d = [Idle EXCEPT !.pc = "post", !.mode = "watch", !.session = s, !.run = s,
                           !.start = after, !.after = after, !.cursor = after]
      BY <2>3, GoesAlone DEF StartWatch
    <3> QED
      BY <3>1 DEF Idle
  <2>4. ASSUME NEW s \in Sessions, WatchRecord(p, s)
        PROVE  d.pc \in Gone
    <3>1. \E b, x : d = Leave(b, x)
      BY <2>4, GoesAlone DEF WatchRecord
    <3> QED
      BY <3>1, LeftIsGone
  <2> QED
    BY <2>1, <2>2, <2>3, <2>4 DEF Start, Submits
<1>6. CASE c.pc \in {"reuse", "entry", "write"} /\ d.pc \notin {c.pc} \cup Gone
  <2>1. CASE CheckReuse(p)
    <3>1. (\E b, x : d = Leave(b, x)) \/ d = [c EXCEPT !.pc = "entry"]
      BY <2>1, GoesAlone DEF CheckReuse
    <3>2. d.pc \in Gone \cup {"entry"}
      BY <1>3, <3>1, LeftIsGone DEF Records
    <3> QED
      BY <3>2 DEF Unsent
  <2>2. CASE CheckEntry(p)
    <3>1. d = [c EXCEPT !.pc = IF journal[c.session] = None THEN "write" ELSE "post"]
      BY <2>2, GoesAlone DEF CheckEntry
    <3>2. d.pc = IF journal[c.session] = None THEN "write" ELSE "post"
      BY <1>3, <3>1 DEF Records
    <3> QED
      BY <1>2, <1>3, <1>6, <3>2 DEF Unsent
  <2>3. CASE WriteAhead(p)
    <3>1. ~Goes(p, Leave(c, "journal"))
      BY <1>6, GoesAlone, LeftIsGone
    <3>2. journal'[c.session] = Fresh
      BY <1>3, <1>6, <2>3, <3>1 DEF WriteAhead, RunsTypeOK
    <3>3. Fresh # None
      BY HostedAssumption DEF Fresh, Entries
    <3> QED
      BY <1>3, <1>6, <3>2, <3>3
  <2> QED
    BY <1>6, <2>1, <2>2, <2>3, StillUnsent
<1> QED
  BY <1>4, <1>5, <1>6 DEF Unsent

LEMMA JournalledStays ==
  ASSUME RunsInv, [RunsNext]_runsVars
  PROVE  Journalled'
<1>1. RunsTypeOK /\ Logs /\ Commands /\ Journalled /\ Payments
  BY DEF RunsInv
<1>2. RunsTypeOK' /\ Logs' /\ Commands' /\ Steps /\ Payments'
  BY <1>1, CommandsStay, PaymentsStay
<1>3. \A s \in Sessions : journal[s] # None => journal'[s] # None
  BY <1>1, JournalStays
<1>4. \A s \in Sessions : Grows(run[s], run'[s])
  BY <1>1, RunsGrow
<1>5. ASSUME NEW q \in Procs, Submits(q)', cli'[q].pc \notin Unsent \cup Gone
      PROVE  journal'[cli'[q].session] # None
  <2>1. CASE cli'[q] = cli[q]
    <3>1. journal[cli[q].session] # None /\ cli[q].session \in Sessions
      BY <1>1, <1>5, <2>1, Known DEF Journalled, Submits, Unsent
    <3> QED
      BY <1>3, <2>1, <3>1
  <2>2. CASE cli'[q] # cli[q]
    <3>1. Moves(q)
      <4>1. ~Service /\ ~UNCHANGED runsVars
        BY <2>2 DEF Service, Emit, Finish, Abort, LateAdmission, runsVars
      <4>2. PICK p \in Procs : Moves(p)
        BY <4>1, StepIsOnes
      <4>3. \A r \in Procs \ {p} : cli'[r] = cli[r]
        BY <1>1, <4>2, EachLands DEF Lands
      <4> QED
        BY <2>2, <4>2, <4>3
    <3> QED
      BY <1>1, <1>5, <3>1, AheadStays
  <2> QED
    BY <2>1, <2>2
<1>6. ASSUME NEW s \in Sessions, run'[s].status # "none" \/ \E p \in Procs : <<s, p>> \in flight'
      PROVE  journal'[s] # None
  <2>1. CASE run[s].status # "none" \/ \E p \in Procs : <<s, p>> \in flight
    BY <1>1, <1>3, <2>1 DEF Journalled
  <2>2. CASE ~(run[s].status # "none" \/ \E p \in Procs : <<s, p>> \in flight)
    <3>1. ASSUME NEW p \in Procs, Moves(p) PROVE journal'[s] # None
      <4>1. s = cli[p].session /\ cli[p].pc = "post" /\ Submits(p)
        <5>1. run'[s].status # "none" => s = cli[p].session /\ cli[p].pc = "post" /\ Submits(p)
          BY <1>1, <2>2, <3>1, MovesRun DEF RunsTypeOK
        <5>2. (\E q \in Procs : <<s, q>> \in flight') =>
                 s = cli[p].session /\ cli[p].pc = "post" /\ Submits(p)
          BY <2>2, <3>1, MovesFlight
        <5> QED
          BY <1>6, <5>1, <5>2
      <4> QED
        BY <1>1, <1>3, <4>1 DEF Journalled, Unsent, Gone
    <3>2. CASE Service \/ UNCHANGED runsVars
      BY <1>1, <1>6, <2>2, <3>2
         DEF Service, Emit, Finish, Abort, LateAdmission, runsVars, RunsTypeOK, RunRecords
    <3> QED
      BY <3>1, <3>2, StepIsOnes
  <2> QED
    BY <2>1, <2>2
<1>7. ASSUME NEW s \in Sessions, journal'[s] # None
      PROVE  journal'[s].run \in {None, s} /\ (journal'[s].run = s => run'[s].status # "none")
  <2>1. CASE journal'[s] = journal[s]
    BY <1>1, <1>4, <1>7, <2>1 DEF Journalled, Grows
  <2>2. ASSUME NEW p \in Procs, Moves(p)
        PROVE  journal'[s].run \in {None, s} /\ (journal'[s].run = s => run'[s].status # "none")
    <3>1. CASE journal'[s] = Fresh
      BY <3>1, HostedAssumption DEF Fresh
    <3>2. CASE s = cli[p].session /\ cli[p].pc = "put" /\ journal'[s].run = cli[p].run
      <4>1. cli[p].run \in {None, s} /\ run[s].status # "none"
        BY <1>1, <3>2, Known DEF Fits, Tells
      <4> QED
        BY <1>4, <3>2, <4>1 DEF Grows
    <3> QED
      BY <1>1, <2>1, <2>2, <3>1, <3>2, EntryStays
  <2>3. CASE Service \/ UNCHANGED runsVars
    BY <2>1, <2>3 DEF Service, Emit, Finish, Abort, LateAdmission, runsVars
  <2> QED
    BY <2>2, <2>3, StepIsOnes
<1> QED
  BY <1>5, <1>6, <1>7 DEF Journalled

-----------------------------------------------------------------------------
\* What was shown.

LEMMA ShownIs ==
  ASSUME RunsTypeOK, NEW s \in Sessions
  PROVE  Shown(s) = ShownBy(cli, s)
<1>1. \A q \in Procs : cli[q].seen \in Seq(Nat)
  BY FieldTypes DEF RunsTypeOK
<1>2. \A q \in Procs : DOMAIN cli[q].seen = 1..Len(cli[q].seen)
                     /\ \A i \in 1..Len(cli[q].seen) : cli[q].seen[i] \in Nat
  BY <1>1
<1>3. \A i : i \in Shown(s) <=>
         \E q \in Procs : cli[q].session = s /\ \E j \in 1..Len(cli[q].seen) : cli[q].seen[j] = i
  BY <1>2 DEF Shown
<1> QED
  BY <1>2, <1>3 DEF ShownBy

\* Nothing that was shown is taken back.
LEMMA ShownGrows ==
  ASSUME RunsTypeOK, Logs, Commands, RunsTypeOK', Steps, NEW s \in Sessions
  PROVE  ShownBy(cli, s) \subseteq ShownBy(cli', s)
<1> SUFFICES ASSUME NEW i \in ShownBy(cli, s) PROVE i \in ShownBy(cli', s)
  OBVIOUS
<1>1. PICK q \in Procs : cli[q].session = s /\ \E j \in 1..Len(cli[q].seen) : cli[q].seen[j] = i
  BY DEF ShownBy
<1>2. cli[q].pc # "idle"
  BY <1>1, Known, HostedAssumption DEF Idle
<1>3. cli[q] \in Records /\ cli'[q] \in Records
  BY DEF RunsTypeOK
<1>4. Len(cli[q].seen) \in Nat /\ Len(cli'[q].seen) \in Nat
  BY <1>3, FieldTypes
<1>5. cli'[q].session = s /\ \E j \in 1..Len(cli'[q].seen) : cli'[q].seen[j] = i
  BY <1>1, <1>2, <1>4 DEF Steps, Onward
<1> QED
  BY <1>5 DEF ShownBy

LEMMA CoveredOn ==
  ASSUME NEW S, NEW T, S \subseteq T, NEW r \in RunRecords, NEW t \in RunRecords, Grows(r, t),
         NEW n \in Nat, Covered(S, r.log, n)
  PROVE  Covered(T, t.log, n)
<1>1. Len(r.log) \in Nat /\ Len(t.log) \in Nat
  BY DEF RunRecords
<1> QED
  BY <1>1 DEF Covered, Grows

\* One more event than before, and that one was shown or ended the run.
LEMMA CoveredNext ==
  ASSUME NEW S, NEW log, NEW n \in Nat, NEW m, m = n + 1, Covered(S, log, n),
         m \in S \/ (m \in 1..Len(log) /\ log[m] = "run_complete")
  PROVE  Covered(S, log, m)
BY DEF Covered

\* An event that is shown, or ends the run, is counted only right after the last.
LEMMA NextEventCounts ==
  ASSUME RunsTypeOK, Logs, Commands, NEW p \in Procs,
         cli[p].pc \in {"stream", "deliver"}, cli[p].cursor < Len(run[cli[p].session].log),
         Goes(p, NextEvent(p)), run' = run
  PROVE  LET c == cli[p]
             d == cli'[p]
             r == run[c.session]
         IN /\ d.pc # "put"
            /\ \/ d.after = c.after
               \/ /\ d.after = c.after + 1
                  /\ \/ \E j \in 1..Len(d.seen) : d.seen[j] = d.after
                     \/ d.after \in 1..Len(r.log) /\ r.log[d.after] = "run_complete"
<1> DEFINE c == cli[p]
           d == cli'[p]
           r == run[c.session]
           n == c.cursor + 1
           kind == r.log[n]
           shown == [c EXCEPT !.pc = "stream", !.cursor = n, !.after = n,
                              !.seen = Append(@, n), !.error = c.error \/ kind = "error"]
           ended == [c EXCEPT !.cursor = n, !.after = IF n > @ THEN n ELSE @]
<1>1. c \in Records /\ c.session \in Sessions /\ Follows(c) /\ r \in RunRecords
  BY Known
<1>2. n \in Nat /\ n \in 1..Len(r.log) /\ c.after \in Nat /\ n <= c.after + 1
  BY <1>1, FieldTypes DEF RunRecords, Follows
<1>3. d = NextEvent(p)
  BY GoesAlone
<1>4. CASE Skipped(c, n, kind)
  <2>1. d = [c EXCEPT !.pc = "stream", !.cursor = n]
    BY <1>3, <1>4 DEF NextEvent
  <2> QED
    BY <1>1, <2>1 DEF Records
<1>5. CASE ~Skipped(c, n, kind) /\ c.run = None
  <2>1. d = [c EXCEPT !.run = c.session, !.pc = "read", !.create = FALSE, !.out = "none"]
    BY <1>3, <1>5 DEF NextEvent, Named
  <2> QED
    BY <1>1, <2>1 DEF Records
<1>6. CASE ~Skipped(c, n, kind) /\ c.run # None /\ kind = "run_complete"
  <2>1. d = Over(ended, "terminal")
    BY <1>3, <1>6 DEF NextEvent
  <2>2. d.pc = "read" /\ d.after = IF n > c.after THEN n ELSE c.after
    BY <1>1, <2>1 DEF Over, Records
  <2> QED
    BY <1>2, <1>6, <2>2
<1>7. CASE ~Skipped(c, n, kind) /\ c.run # None /\ kind # "run_complete"
  <2>1. n = c.after + 1
    BY <1>2, <1>7 DEF Skipped
  <2>2. shown.pc = "stream" /\ shown.after = n /\ shown.seen = Append(c.seen, n)
    BY <1>1 DEF Records
  <2>3. \/ d = shown
        \/ \E o : d = [shown EXCEPT !.pc = "read", !.create = FALSE, !.out = o]
    BY <1>3, <1>7 DEF NextEvent, Over
  <2>4. DOMAIN shown = DOMAIN c /\ {"pc", "after", "seen"} \subseteq DOMAIN c
    BY <1>1 DEF Records
  <2> HIDE DEF shown
  <2>5. d.pc \in {"stream", "read"} /\ d.after = n /\ d.seen = Append(c.seen, n)
    BY <2>2, <2>3, <2>4
  <2>6. Len(c.seen) \in Nat /\ Len(d.seen) = Len(c.seen) + 1 /\ d.seen[Len(c.seen) + 1] = n
    BY <1>1, <1>2, <2>5, FieldTypes, Appended
  <2>7. Len(c.seen) + 1 \in 1..Len(d.seen)
    BY <2>6
  <2> QED
    BY <2>1, <2>5, <2>6, <2>7
<1> QED
  BY <1>4, <1>5, <1>6, <1>7

\* What a command has come to, and what it is about to write down.
LEMMA Counts ==
  ASSUME RunsTypeOK, Logs, Commands, Journalled, NEW p \in Procs, Moves(p),
         cli'[p].pc \notin Gone
  PROVE  LET c == cli[p]
             d == cli'[p]
             s == cli'[p].session
         IN /\ \/ d.after = 0
               \/ c.pc \notin Gone \cup {"idle"} /\ d.after = c.after
               \/ journal[s] # None /\ d.after = journal[s].last
               \/ /\ c.pc \notin Gone \cup {"idle"} /\ d.after = c.after + 1
                  /\ \/ \E j \in 1..Len(d.seen) : d.seen[j] = d.after
                     \/ /\ d.after \in 1..Len(run[s].log)
                        /\ run[s].log[d.after] = "run_complete"
            /\ d.pc = "put" =>
                  \/ d.snap.last = 0
                  \/ c.pc \notin Gone \cup {"idle"} /\ d.snap.last = c.after
                  \/ c.pc = "put" /\ d.snap = c.snap
                  \/ journal[s] # None /\ d.snap.last = journal[s].last
<1> DEFINE c == cli[p]
           d == cli'[p]
           s == d.session
           Stays == /\ d.after = c.after
                    /\ d.pc = "put" => c.pc = "put" /\ d.snap = c.snap
<1>1. c \in Records /\ (c.pc = "idle" => c = Idle)
      /\ (c.pc # "idle" => c.session \in Sessions /\ Follows(c) /\ c.session = d.session)
  BY Known, EachLands DEF Lands, Onward
<1>a. ASSUME NEW b, NEW x, Goes(p, Leave(b, x)) PROVE FALSE
  BY <1>a, GoesAlone, LeftIsGone
<1>2. CASE Start(p)
  <2>1. PICK t \in Sessions :
           \/ \E detach \in BOOLEAN : StartSubmit(p, t, detach) \/ StartResume(p, t, detach)
           \/ \E after \in 0..MaxEvents + 1 : StartWatch(p, t, after)
           \/ WatchRecord(p, t)
    BY <1>2 DEF Start
  <2>2. ASSUME NEW detach \in BOOLEAN, StartSubmit(p, t, detach) \/ StartResume(p, t, detach)
        PROVE  d.after = 0 /\ d.pc # "put"
    <3>1. \/ d = [Idle EXCEPT !.pc = "write", !.mode = "submit", !.session = t, !.detach = detach]
          \/ d = [Idle EXCEPT !.pc = "reuse", !.mode = "resume", !.session = t, !.detach = detach]
      BY <2>2, GoesAlone DEF StartSubmit, StartResume
    <3> QED
      BY <3>1, ZenonT(90) DEF Idle
  <2>3. ASSUME NEW after \in 0..MaxEvents + 1, StartWatch(p, t, after)
        PROVE  /\ d.after = 0 \/ (journal[s] # None /\ d.after = journal[s].last)
               /\ d.pc # "put"
    <3>1. d = [Idle EXCEPT !.pc = "post", !.mode = "watch", !.session = t, !.run = t,
                           !.start = after, !.after = after, !.cursor = after]
      BY <2>3, GoesAlone DEF StartWatch
    <3>2. d.after = after /\ d.pc = "post" /\ s = t
      BY <3>1 DEF Idle
    <3> QED
      BY <2>3, <3>2 DEF StartWatch
  <2>4. ~WatchRecord(p, t)
    BY <1>a DEF WatchRecord
  <2> QED
    BY <2>1, <2>2, <2>3, <2>4
<1>3. CASE c.pc \notin Gone \cup {"idle"} /\ Stays
  BY <1>3
<1>4. CASE c.pc \notin Gone \cup {"idle"} /\ Command(p)
  <2>1. CASE CheckReuse(p) \/ CheckEntry(p) \/ WriteAhead(p)
    <3>1. \E x \in {"entry", "write", "post"} : d = [c EXCEPT !.pc = x]
      BY <1>a, <2>1, GoesAlone DEF CheckReuse, CheckEntry, WriteAhead
    <3> QED
      BY <1>1, <1>3, <1>4, <3>1 DEF Records
  <2>2. CASE OpenCancelled(p) \/ \E answer \in Refusals : Refused(p, answer)
    BY <1>a, <2>2 DEF OpenCancelled, Refused
  <2>3. CASE RequestLost(p) \/ RequestDelayed(p) \/ AnswerLost(p)
    <3>1. Goes(p, Dropped(c))
      BY <2>3 DEF RequestLost, RequestDelayed, AnswerLost
    <3>2. (\E x : Dropped(c) = Leave(c, x)) \/ Dropped(c) = [c EXCEPT !.again = TRUE]
      BY DEF Dropped
    <3>3. d = [c EXCEPT !.again = TRUE]
      BY <1>a, <3>1, <3>2, GoesAlone
    <3> QED
      BY <1>1, <1>3, <1>4, <3>3 DEF Records
  <2>4. ASSUME NEW named \in BOOLEAN, Duplicate(p, named)
        PROVE  Stays
    <3>1. \E o : d = [c EXCEPT !.run = c.session, !.pc = "read", !.create = TRUE, !.out = o]
      <4>1. CASE ~c.again /\ c.mode # "resume"
        BY <1>a, <2>4, <4>1 DEF Duplicate
      <4>2. CASE (c.again \/ c.mode = "resume") /\ ~named
        BY <1>a, <2>4, <4>2 DEF Duplicate
      <4>3. CASE (c.again \/ c.mode = "resume") /\ named
        BY <2>4, <4>3, GoesAlone DEF Duplicate
      <4> QED
        BY <4>1, <4>2, <4>3
    <3> QED
      BY <1>1, <3>1 DEF Records
  <2>5. ASSUME NEW named \in BOOLEAN, Accepted(p, named)
        PROVE  Stays
    <3>1. \E x \in {"read", "stream"} : \E y :
             d = [c EXCEPT !.run = y, !.pc = x, !.create = named, !.out = "none"]
      BY <2>5, GoesAlone DEF Accepted
    <3> QED
      BY <1>1, <3>1 DEF Records
  <2>6. ASSUME NEW from, Watching(p, from)
        PROVE  Stays
    <3>1. d = [c EXCEPT !.pc = "stream", !.cursor = from]
      BY <2>6, GoesAlone DEF Watching
    <3> QED
      BY <1>1, <3>1 DEF Records
  <2>7. CASE RecordRead(p)
    <3> DEFINE e    == journal[c.session]
               base == IF e = None /\ c.create THEN Fresh ELSE e
               u == Update(base, c)
    <3>1. \/ d = [c EXCEPT !.pc = Recorded(c)]
          \/ base # None /\ d = [c EXCEPT !.pc = "put", !.snap = u]
      BY <2>7, GoesAlone DEF RecordRead
    <3>2. Recorded(c) # "put"
      BY DEF Recorded
    <3>3. base # None => u.last \in {c.after, base.last}
      BY DEF Update
    <3>4. base.last = 0 \/ base = e
      BY DEF Fresh
    <3> HIDE DEF u, base
    <3>5. d.after = c.after /\ (d.pc = "put" => base # None /\ d.snap = u)
      <4>1. CASE d = [c EXCEPT !.pc = Recorded(c)]
        BY <1>1, <3>2, <4>1 DEF Records
      <4>2. CASE base # None /\ d = [c EXCEPT !.pc = "put", !.snap = u]
        BY <1>1, <4>2 DEF Records
      <4> QED
        BY <3>1, <4>1, <4>2
    <3> QED
      BY <1>1, <1>4, <3>3, <3>4, <3>5
  <2>8. CASE RecordWrite(p)
    <3>1. d = [c EXCEPT !.pc = Recorded(c), !.snap = Fresh]
      BY <2>8, GoesAlone DEF RecordWrite
    <3>2. Recorded(c) # "put"
      BY DEF Recorded
    <3> QED
      BY <1>1, <1>3, <1>4, <3>1, <3>2 DEF Records
  <2>9. CASE ConsumeCancelled(p) \/ ConsumeClosed(p) \/ \E how : ConsumeFails(p, how)
    <3>1. \E o : d = [c EXCEPT !.pc = "read", !.create = FALSE, !.out = o]
      BY <2>9, GoesAlone DEF ConsumeCancelled, ConsumeClosed, ConsumeFails, Over
    <3> QED
      BY <1>1, <1>3, <1>4, <3>1 DEF Records
  <2>10. CASE ConsumeEvent(p) \/ Deliver(p)
    <3>1. c.pc \in {"stream", "deliver"} /\ Goes(p, NextEvent(p)) /\ run' = run
      BY <2>10 DEF ConsumeEvent, Deliver, At
    <3>2. c.cursor < Len(run[c.session].log)
      BY <2>10, <3>1, Known DEF ConsumeEvent, Deliver, At, Tells
    <3> QED
      BY <1>1, <1>4, <3>1, <3>2, NextEventCounts
  <2>11. CASE EndCommand(p)
    <3>1. d = [c EXCEPT !.pc = "post", !.again = TRUE, !.cursor = 0, !.out = "none"]
      BY <1>a, <2>11, GoesAlone DEF EndCommand
    <3> QED
      BY <1>1, <1>3, <1>4, <3>1 DEF Records
  <2> QED
    BY <1>3, <1>4, <2>1, <2>2, <2>3, <2>4, <2>5, <2>6, <2>7, <2>8, <2>9, <2>10, <2>11
       DEF Command, Open, Consume
<1>5. CASE Interrupt(p) \/ Deadline(p) \/ HelperCancels(p) \/ Grace(p)
  <2>1. \/ d = [c EXCEPT !.token = TRUE] \/ d = [c EXCEPT !.hit = TRUE]
        \/ d = [c EXCEPT !.grace = TRUE]
    BY <1>5, GoesAlone DEF Interrupt, Deadline, HelperCancels, Grace
  <2>2. c.pc \notin Gone \cup {"idle"}
    BY <1>5 DEF Interrupt, Deadline, HelperCancels, Grace, Active, Gone
  <2> QED
    BY <1>1, <1>3, <2>1, <2>2 DEF Records
<1>6. CASE Crash(p)
  <2>1. d = [Leave(c, "none") EXCEPT !.pc = "crashed"]
    BY <1>6, GoesAlone DEF Crash
  <2> QED
    BY <2>1, LeftIsGone
<1>7. Command(p) => c.pc \notin Gone \cup {"idle"}
  <2>1. Open(p) => c.pc = "post"
    BY DEF Open, OpenCancelled, RequestLost, RequestDelayed, AnswerLost, Refused, Duplicate,
           Accepted, Watching, At
  <2>2. Command(p) /\ ~Open(p) =>
           c.pc \in {"reuse", "entry", "write", "read", "put", "stream", "deliver", "settle"}
    BY DEF Command, CheckReuse, CheckEntry, WriteAhead, RecordRead, RecordWrite, Consume,
           ConsumeCancelled, ConsumeEvent, ConsumeClosed, ConsumeFails, Deliver, EndCommand, At
  <2> QED
    BY <2>1, <2>2 DEF Gone
<1> QED
  BY <1>2, <1>4, <1>5, <1>6, <1>7 DEF Moves

LEMMA CountedStays ==
  ASSUME RunsInv, [RunsNext]_runsVars
  PROVE  Counted'
<1>1. RunsTypeOK /\ Logs /\ Commands /\ Journalled /\ Counted
  BY DEF RunsInv
<1>2. RunsTypeOK' /\ Commands' /\ Steps
  BY <1>1, CommandsStay
<1>3. /\ \A s \in Sessions : Grows(run[s], run'[s])
      /\ run \in [Sessions -> RunRecords] /\ run' \in [Sessions -> RunRecords]
  BY <1>1, RunsGrow DEF RunsTypeOK
<1>4. ASSUME NEW s \in Sessions, NEW n \in Nat, Covered(ShownBy(cli, s), run[s].log, n)
      PROVE  Covered(ShownBy(cli', s), run'[s].log, n)
  <2>1. ShownBy(cli, s) \subseteq ShownBy(cli', s)
    BY <1>1, <1>2, ShownGrows
  <2>2. run[s] \in RunRecords /\ run'[s] \in RunRecords /\ Grows(run[s], run'[s])
    BY <1>3
  <2> QED
    BY <1>4, <2>1, <2>2, CoveredOn
<1>5. ASSUME NEW q \in Procs, cli'[q] = cli[q], cli[q] # Idle, cli[q].pc \notin Gone
      PROVE  LET s == cli'[q].session
             IN /\ Covered(ShownBy(cli', s), run'[s].log, cli'[q].after)
                /\ cli'[q].pc = "put" => Covered(ShownBy(cli', s), run'[s].log, cli'[q].snap.last)
  <2> DEFINE s == cli[q].session
  <2>1. s \in Sessions /\ cli[q].after \in Nat /\ cli[q].snap.last \in Nat
    BY <1>1, <1>5, Known, FieldTypes DEF Fits, Entries
  <2>2. /\ Covered(ShownBy(cli, s), run[s].log, cli[q].after)
        /\ cli[q].pc = "put" => Covered(ShownBy(cli, s), run[s].log, cli[q].snap.last)
    BY <1>1, <1>5 DEF Counted
  <2> QED
    BY <1>4, <1>5, <2>1, <2>2
<1>6. ASSUME NEW s \in Sessions, journal'[s] # None, journal'[s] = journal[s]
      PROVE  Covered(ShownBy(cli', s), run'[s].log, journal'[s].last)
  <2>1. journal[s].last \in Nat /\ Covered(ShownBy(cli, s), run[s].log, journal[s].last)
    BY <1>1, <1>6 DEF Counted, RunsTypeOK, Entries
  <2> QED
    BY <1>4, <1>6, <2>1
<1>7. CASE cli' = cli /\ journal' = journal
  BY <1>5, <1>6, <1>7 DEF Counted
<1>8. ASSUME NEW p \in Procs, Moves(p)
      PROVE  Counted'
  <2> DEFINE c == cli[p]
             d == cli'[p]
             t == d.session
  <2>1. Lands(p) /\ d \in Records /\ Fits(d) /\ t \in Sessions
    BY <1>1, <1>8, EachLands DEF Lands, Sound, Fits
  <2>2. c.pc # "idle" => t = c.session /\ c # Idle
    BY <2>1 DEF Lands, Onward, Idle
  <2>3. ASSUME NEW n \in Nat,
               \/ n = 0
               \/ c.pc \notin Gone \cup {"idle"} /\ n = c.after
               \/ c.pc = "put" /\ n = c.snap.last
               \/ journal[t] # None /\ n = journal[t].last
        PROVE  Covered(ShownBy(cli', t), run'[t].log, n)
    <3>1. CASE n = 0
      BY <3>1 DEF Covered
    <3>2. CASE n # 0
      <4>1. Covered(ShownBy(cli, t), run[t].log, n)
        BY <1>1, <2>1, <2>2, <2>3, <3>2 DEF Counted, Gone
      <4> QED
        BY <1>4, <2>1, <4>1
    <3> QED
      BY <3>1, <3>2
  <2>4. ASSUME d.pc \notin Gone
        PROVE  /\ Covered(ShownBy(cli', t), run'[t].log, d.after)
               /\ d.pc = "put" => Covered(ShownBy(cli', t), run'[t].log, d.snap.last)
    <3>1. d.after \in Nat /\ c.after \in Nat /\ d.snap.last \in Nat /\ c.snap.last \in Nat
      BY <1>1, <2>1, FieldTypes DEF RunsTypeOK, Entries
    <3>2. /\ \/ d.after = 0
             \/ c.pc \notin Gone \cup {"idle"} /\ d.after = c.after
             \/ journal[t] # None /\ d.after = journal[t].last
             \/ /\ c.pc \notin Gone \cup {"idle"} /\ d.after = c.after + 1
                /\ \/ \E j \in 1..Len(d.seen) : d.seen[j] = d.after
                   \/ d.after \in 1..Len(run[t].log) /\ run[t].log[d.after] = "run_complete"
          /\ d.pc = "put" =>
                \/ d.snap.last = 0
                \/ c.pc \notin Gone \cup {"idle"} /\ d.snap.last = c.after
                \/ c.pc = "put" /\ d.snap = c.snap
                \/ journal[t] # None /\ d.snap.last = journal[t].last
      BY <1>1, <1>8, <2>4, Counts
    <3>3. CASE /\ c.pc \notin Gone \cup {"idle"} /\ d.after = c.after + 1
               /\ \/ \E j \in 1..Len(d.seen) : d.seen[j] = d.after
                  \/ d.after \in 1..Len(run[t].log) /\ run[t].log[d.after] = "run_complete"
      <4>1. Covered(ShownBy(cli', t), run'[t].log, c.after)
        BY <2>3, <3>1, <3>3
      <4>2. (\E j \in 1..Len(d.seen) : d.seen[j] = d.after) => d.after \in ShownBy(cli', t)
        BY <2>1, <3>1 DEF ShownBy
      <4>3. Len(run[t].log) \in Nat /\ Len(run'[t].log) \in Nat
        BY <1>3, <2>1 DEF RunRecords
      <4>4. d.after \in 1..Len(run[t].log) /\ run[t].log[d.after] = "run_complete" =>
            d.after \in 1..Len(run'[t].log) /\ run'[t].log[d.after] = "run_complete"
        BY <1>3, <2>1, <4>3 DEF Grows
      <4>5. Covered(ShownBy(cli', t), run'[t].log, d.after)
        BY <3>1, <3>3, <4>1, <4>2, <4>4, CoveredNext
      <4> QED
        BY <2>3, <3>1, <3>2, <4>5
    <3> QED
      BY <2>3, <3>1, <3>2, <3>3
  <2>5. \A s \in Sessions : journal'[s] # None =>
           Covered(ShownBy(cli', s), run'[s].log, journal'[s].last)
    <3> SUFFICES ASSUME NEW s \in Sessions, journal'[s] # None
                 PROVE  Covered(ShownBy(cli', s), run'[s].log, journal'[s].last)
      OBVIOUS
    <3>1. CASE journal'[s] = Fresh
      BY <3>1 DEF Fresh, Covered
    <3>2. CASE s = c.session /\ c.pc = "put" /\ journal'[s] = c.snap
      <4>1. c.snap.last \in Nat /\ s = t
        BY <1>1, <2>2, <3>2, FieldTypes DEF RunsTypeOK, Entries
      <4> QED
        BY <2>3, <3>2, <4>1
    <3> QED
      BY <1>1, <1>6, <1>8, <3>1, <3>2, EntryStays
  <2>6. \A q \in Procs : cli'[q] # Idle /\ cli'[q].pc \notin Gone =>
           LET s == cli'[q].session
           IN /\ Covered(ShownBy(cli', s), run'[s].log, cli'[q].after)
              /\ cli'[q].pc = "put" => Covered(ShownBy(cli', s), run'[s].log, cli'[q].snap.last)
    <3>1. \A q \in Procs \ {p} : cli'[q] = cli[q]
      BY <2>1 DEF Lands
    <3> QED
      BY <1>5, <2>4, <3>1
  <2> QED
    BY <2>5, <2>6 DEF Counted
<1>9. CASE Service \/ UNCHANGED runsVars
  BY <1>7, <1>9 DEF Service, Emit, Finish, Abort, LateAdmission, runsVars
<1> QED
  BY <1>8, <1>9, StepIsOnes

-----------------------------------------------------------------------------
\* One submission of a session nobody resumes.

\* How a command begins.
LEMMA Starts ==
  ASSUME RunsTypeOK, Logs, Commands, NEW p \in Procs, Moves(p), cli[p].pc = "idle"
  PROVE  LET d == cli'[p]
             s == cli'[p].session
         IN /\ UNCHANGED <<run, flight, journal>> /\ s \in Sessions
            /\ \/ /\ d.mode = "submit" /\ journal[s] = None
                  /\ \A q \in Procs : cli[q].session # s
               \/ d.mode = "resume"
               \/ /\ d.mode = "watch"
                  /\ d.pc \in Gone \/ (journal[s] # None /\ journal[s].run = s)
<1> DEFINE d == cli'[p]
<1>1. Start(p)
  <2>1. ~Open(p)
    BY DEF Open, OpenCancelled, RequestLost, RequestDelayed, AnswerLost, Refused, Duplicate,
           Accepted, Watching, At
  <2>2. ~Command(p)
    BY <2>1 DEF Command, CheckReuse, CheckEntry, WriteAhead, RecordRead, RecordWrite, Consume,
           ConsumeCancelled, ConsumeEvent, ConsumeClosed, ConsumeFails, Deliver, EndCommand, At
  <2> QED
    BY <2>2 DEF Moves, Interrupt, Deadline, HelperCancels, Grace, Crash, Active
<1>2. PICK t \in Sessions :
         \/ \E detach \in BOOLEAN : StartSubmit(p, t, detach) \/ StartResume(p, t, detach)
         \/ \E after \in 0..MaxEvents + 1 : StartWatch(p, t, after)
         \/ WatchRecord(p, t)
  BY <1>1 DEF Start
<1>3. ASSUME NEW detach \in BOOLEAN, StartSubmit(p, t, detach)
      PROVE  /\ UNCHANGED <<run, flight, journal>> /\ d.session = t /\ d.mode = "submit"
             /\ journal[t] = None /\ \A q \in Procs : cli[q].session # t
  <2>1. d = [Idle EXCEPT !.pc = "write", !.mode = "submit", !.session = t, !.detach = detach]
    BY <1>3, GoesAlone DEF StartSubmit
  <2>2. d.session = t /\ d.mode = "submit"
    BY <2>1 DEF Idle
  <2> QED
    BY <1>3, <2>2 DEF StartSubmit
<1>4. ASSUME NEW detach \in BOOLEAN, StartResume(p, t, detach)
      PROVE  UNCHANGED <<run, flight, journal>> /\ d.session = t /\ d.mode = "resume"
  <2>1. d = [Idle EXCEPT !.pc = "reuse", !.mode = "resume", !.session = t, !.detach = detach]
    BY <1>4, GoesAlone DEF StartResume
  <2>2. d.session = t /\ d.mode = "resume"
    BY <2>1 DEF Idle
  <2> QED
    BY <1>4, <2>2 DEF StartResume
<1>5. ASSUME NEW after \in 0..MaxEvents + 1, StartWatch(p, t, after)
      PROVE  /\ UNCHANGED <<run, flight, journal>> /\ d.session = t /\ d.mode = "watch"
             /\ journal[t] # None /\ journal[t].run = t
  <2>1. d = [Idle EXCEPT !.pc = "post", !.mode = "watch", !.session = t, !.run = t,
                         !.start = after, !.after = after, !.cursor = after]
    BY <1>5, GoesAlone DEF StartWatch
  <2>2. d.session = t /\ d.mode = "watch"
    BY <2>1 DEF Idle
  <2> QED
    BY <1>5, <2>2 DEF StartWatch
<1>6. ASSUME WatchRecord(p, t)
      PROVE  /\ UNCHANGED <<run, flight, journal>> /\ d.session = t /\ d.mode = "watch"
             /\ d.pc \in Gone
  <2>1. \E x : d = Leave([Idle EXCEPT !.mode = "watch", !.session = t, !.run = t], x)
    BY <1>6, GoesAlone DEF WatchRecord
  <2>2. d.session = t /\ d.mode = "watch" /\ d.pc = "exit"
    BY <2>1 DEF Leave, Idle
  <2> QED
    BY <1>6, <2>2 DEF WatchRecord, Gone
<1> QED
  BY <1>2, <1>3, <1>4, <1>5, <1>6

LEMMA OneSubmitsStays ==
  ASSUME RunsInv, [RunsNext]_runsVars
  PROVE  OneSubmits'
<1>1. RunsTypeOK /\ Logs /\ Commands /\ Journalled /\ OneSubmits
  BY DEF RunsInv
<1>2. CASE Service \/ UNCHANGED runsVars
  <2>1. cli' = cli
    BY <1>2 DEF Service, Emit, Finish, Abort, LateAdmission, runsVars
  <2> QED
    BY <1>1, <2>1 DEF OneSubmits
<1>3. ASSUME NEW p \in Procs, Moves(p)
      PROVE  OneSubmits'
  <2>1. Lands(p)
    BY <1>1, <1>3, EachLands
  <2>2. CASE cli[p].pc # "idle"
    <3>1. cli'[p].session = cli[p].session /\ cli'[p].mode = cli[p].mode /\ cli[p] # Idle
      BY <2>1, <2>2 DEF Lands, Onward, Idle
    <3> QED
      BY <1>1, <2>1, <3>1 DEF OneSubmits, Lands
  <2>3. CASE cli'[p].mode # "submit"
    BY <1>1, <2>1, <2>3 DEF OneSubmits, Lands
  <2>4. CASE cli[p].pc = "idle" /\ cli'[p].mode = "submit"
    <3>1. \A q \in Procs : cli[q].session # cli'[p].session
      BY <1>1, <1>3, <2>4, Starts
    <3> QED
      BY <1>1, <2>1, <3>1 DEF OneSubmits, Lands
  <2> QED
    BY <2>2, <2>3, <2>4
<1> QED
  BY <1>2, <1>3, StepIsOnes

LEMMA AloneBefore ==
  ASSUME RunsTypeOK, Logs, Commands, Steps, NEW s \in Sessions, Alone(s)'
  PROVE  Alone(s)
<1> SUFFICES ASSUME NEW q \in Procs, cli[q].session = s PROVE cli[q].mode # "resume"
  BY DEF Alone
<1>1. cli[q].pc # "idle"
  BY Known, HostedAssumption DEF Idle
<1>2. cli'[q].session = s /\ cli'[q].mode = cli[q].mode
  BY <1>1 DEF Steps, Onward
<1> QED
  BY <1>2 DEF Alone

\* Who writes an entry of such a session writes the run it names.
LEMMA EntryKept ==
  ASSUME RunsInv, [RunsNext]_runsVars, NEW s \in Sessions, Alone(s),
         journal[s] # None, journal[s].run # None
  PROVE  journal'[s] # None /\ journal'[s].run = journal[s].run
<1>1. /\ RunsTypeOK /\ Logs /\ Commands /\ Journalled /\ NamedByOne
      /\ journal[s].run = s
  BY DEF RunsInv, Journalled
<1>2. CASE Service \/ UNCHANGED runsVars
  BY <1>2 DEF Service, Emit, Finish, Abort, LateAdmission, runsVars
<1>3. ASSUME NEW p \in Procs, Moves(p)
      PROVE  journal'[s] # None /\ journal'[s].run = journal[s].run
  <2> DEFINE c == cli[p]
  <2>1. CASE s = c.session /\ c.pc \in {"write", "put"}
    <3>1. c # Idle /\ Fits(c) /\ Follows(c)
      BY <1>1, <2>1, Known DEF Idle
    <3>2. c.mode \in {"submit", "watch"} /\ (c.pc = "write" => c.mode = "submit")
      BY <2>1, <3>1 DEF Alone, Fits
    <3>3. c.mode = "submit" => c.pc # "write" /\ c.run = s
      BY <1>1, <2>1, <3>1 DEF NamedByOne
    <3>4. c.mode = "watch" => c.run = s
      BY <2>1, <3>1 DEF Follows, Gone
    <3> QED
      BY <1>1, <1>3, <2>1, <3>2, <3>3, <3>4, EntryStays
  <2> QED
    BY <1>1, <1>3, <2>1, EntryStays
<1> QED
  BY <1>2, <1>3, StepIsOnes

LEMMA NamedByOneStays ==
  ASSUME RunsInv, [RunsNext]_runsVars
  PROVE  NamedByOne'
<1>1. RunsTypeOK /\ Logs /\ Commands /\ Journalled /\ OneSubmits /\ NamedByOne
  BY DEF RunsInv
<1>2. RunsTypeOK' /\ Commands' /\ Steps
  BY <1>1, CommandsStay
<1> SUFFICES ASSUME NEW s \in Sessions, Alone(s)',
                    NEW q \in Procs, cli'[q] # Idle, cli'[q].session = s
             PROVE  /\ cli'[q].mode = "watch" /\ cli'[q].pc \notin Gone =>
                          journal'[s] # None /\ journal'[s].run = s
                    /\ cli'[q].mode = "submit" /\ journal'[s] # None /\ journal'[s].run # None =>
                          cli'[q].pc # "write" /\ cli'[q].run = s
  BY DEF NamedByOne
<1>3. Alone(s)
  BY <1>1, <1>2, AloneBefore
<1>4. Fits(cli'[q]) /\ Follows(cli'[q])
  BY <1>2 DEF Commands, Sound
<1>5. cli'[q].mode = "submit" /\ cli'[q].run = s => cli'[q].pc # "write"
  BY <1>4, HostedAssumption DEF Follows, Before
<1>6. CASE cli[q].pc = "idle"
  <2>1. Idle.pc = "idle" /\ (cli[q] = Idle)
    BY <1>1, <1>6, Known DEF Idle
  <2>2. PICK p \in Procs : Moves(p)
    <3>1. ~Service /\ ~UNCHANGED runsVars
      BY <2>1 DEF Service, Emit, Finish, Abort, LateAdmission, runsVars
    <3> QED
      BY <3>1, StepIsOnes
  <2>3. q = p
    BY <1>1, <2>1, <2>2, EachLands DEF Lands
  <2> QED
    BY <1>1, <1>6, <2>2, <2>3, Starts
<1>7. CASE cli[q].pc # "idle"
  <2>1. /\ cli[q].session = s /\ cli[q].mode = cli'[q].mode /\ cli[q] # Idle
        /\ cli'[q].pc \notin Gone => cli[q].pc \notin Gone
        /\ cli[q].run # None => cli'[q].run = cli[q].run
    BY <1>2, <1>7 DEF Steps, Onward, Idle
  <2>2. ASSUME cli'[q].mode = "watch", cli'[q].pc \notin Gone
        PROVE  journal'[s] # None /\ journal'[s].run = s
    <3>1. journal[s] # None /\ journal[s].run = s
      BY <1>1, <1>3, <2>1, <2>2 DEF NamedByOne
    <3> QED
      BY <1>3, <3>1, EntryKept, HostedAssumption
  <2>3. ASSUME cli'[q].mode = "submit", journal'[s] # None, journal'[s].run # None
        PROVE  cli'[q].run = s
    <3>1. CASE journal[s] # None /\ journal[s].run # None
      <4>1. cli[q].run = s
        BY <1>1, <1>3, <2>1, <2>3, <3>1 DEF NamedByOne
      <4> QED
        BY <2>1, <4>1, HostedAssumption
    <3>2. CASE ~(journal[s] # None /\ journal[s].run # None)
      <4>1. PICK p \in Procs : Moves(p)
        <5>1. ~Service /\ ~UNCHANGED runsVars
          BY <2>3, <3>2 DEF Service, Emit, Finish, Abort, LateAdmission, runsVars
        <5> QED
          BY <5>1, StepIsOnes
      <4>2. Fresh.run = None
        BY DEF Fresh
      <4>3. s = cli[p].session /\ cli[p].pc = "put" /\ cli[p].run # None
        BY <1>1, <2>3, <3>2, <4>1, <4>2, EntryStays
      <4>4. cli[p] # Idle /\ Fits(cli[p])
        BY <1>1, <4>3, Known DEF Idle
      <4>5. cli[p].mode = "submit" /\ cli[p].run = s
        BY <1>1, <1>3, <3>2, <4>3, <4>4, HostedAssumption DEF Fits, Alone, NamedByOne, Gone
      <4>6. p = q
        BY <1>1, <2>1, <2>3, <4>3, <4>4, <4>5 DEF OneSubmits
      <4> QED
        BY <2>1, <4>3, <4>5, <4>6
    <3> QED
      BY <3>1, <3>2
  <2> QED
    BY <1>5, <2>2, <2>3
<1> QED
  BY <1>6, <1>7

-----------------------------------------------------------------------------
\* The invariant, and what follows from it.

LEMMA RunsInvInit == RunsInit => RunsInv
<1> SUFFICES ASSUME RunsInit PROVE RunsInv
  OBVIOUS
<1>1. NoRun \in RunRecords /\ LogEnds(NoRun) /\ NoRun.owner = None /\ NoRun.status = "none"
  BY DEF NoRun, RunRecords, LogEnds, Final
<1>2. /\ \A s \in Sessions : run[s] = NoRun /\ journal[s] = None
      /\ \A p \in Procs : cli[p] = Idle
      /\ flight = {}
  BY DEF RunsInit
<1>3. RunsTypeOK
  BY <1>1, IdleTypes DEF RunsInit, RunsTypeOK
<1>4. Logs /\ Commands /\ Counted
  BY <1>1, <1>2 DEF Logs, Commands, Counted
<1>5. Payments
  BY <1>1, <1>2, HostedAssumption DEF Payments, Pays
<1>6. Journalled
  BY <1>1, <1>2 DEF Journalled, Submits, Idle, Unsent
<1>7. OneSubmits /\ NamedByOne
  BY <1>2 DEF OneSubmits, NamedByOne
<1> QED
  BY <1>3, <1>4, <1>5, <1>6, <1>7 DEF RunsInv

LEMMA RunsInvStep == RunsInv /\ [RunsNext]_runsVars => RunsInv'
<1> SUFFICES ASSUME RunsInv, [RunsNext]_runsVars PROVE RunsInv'
  OBVIOUS
<1>1. RunsTypeOK' /\ Logs' /\ Commands'
  BY CommandsStay DEF RunsInv
<1>2. Payments' /\ Journalled' /\ Counted'
  BY PaymentsStay, JournalledStays, CountedStays
<1>3. OneSubmits' /\ NamedByOne'
  BY OneSubmitsStays, NamedByOneStays
<1> QED
  BY <1>1, <1>2, <1>3 DEF RunsInv

LEMMA RunsInvHolds == RunsSpec => []RunsInv
BY RunsInvInit, RunsInvStep, PTL DEF RunsSpec

\* Every record of a run, a command and the journal has its type (runs.rs 330 on).
THEOREM RunsTypeCorrect == RunsSpec => []RunsTypeOK
<1>1. RunsInv => RunsTypeOK
  BY DEF RunsInv
<1> QED
  BY <1>1, RunsInvHolds, PTL

\* A run the service admitted is never without a journal entry, whoever is
\* killed when: the entry is written ahead and nobody removes it (runs.rs 1063).
THEOREM RunsRecoverable == RunsSpec => []Recoverable
<1>1. RunsInv => Recoverable
  BY DEF RunsInv, Journalled, Recoverable
<1> QED
  BY <1>1, RunsInvHolds, PTL

\* A reported end is the run's end: an event that ends the run comes last, and a
\* stream that ends after an error event without one is that of a failed run.
THEOREM OutcomesAreTrue == RunsSpec => []OutcomeTruthful
<1>1. RunsInv => OutcomeTruthful
  <2> SUFFICES ASSUME RunsInv, NEW p \in Procs,
                      cli[p].code \in {"completed", "failed", "cancelled"}
               PROVE  run[cli[p].session].status = cli[p].code
    BY DEF OutcomeTruthful
  <2>1. cli[p] # Idle
    BY DEF Idle
  <2> QED
    BY <2>1 DEF RunsInv, Commands, Sound, Tells, Final
<1> QED
  BY <1>1, RunsInvHolds, PTL

\* One command pays for at most one run, late admissions of lost attempts
\* included, and what it says of its end is true: it resubmits its own session.
THEOREM RunsPayOnce == RunsSpec => []PaidAndTruthful
<1>1. RunsInv => PaidOnce
  <2> SUFFICES ASSUME RunsInv, NEW p \in Procs
               PROVE  Cardinality({s \in Sessions : run[s].owner = p}) <= 1
    BY DEF PaidOnce
  <2> DEFINE S == {s \in Sessions : run[s].owner = p}
             x == cli[p].session
  <2>1. S \subseteq {x}
    BY DEF RunsInv, Payments, Pays
  <2>2. IsFiniteSet({x}) /\ Cardinality({x}) = 1
    BY FS_Singleton
  <2>3. IsFiniteSet(S) /\ Cardinality(S) <= Cardinality({x})
    BY <2>1, <2>2, FS_Subset
  <2> QED
    BY <2>2, <2>3
<1>2. PaidAndTruthful <=> PaidOnce /\ OutcomeTruthful
  BY DEF PaidAndTruthful
<1> QED
  BY <1>1, <1>2, RunsInvHolds, OutcomesAreTrue, PTL

\* Events are shown once, in order and without a gap, and the journal's last
\* sequence skips nothing that no command of this machine has shown.
THEOREM RunsShowOnce == RunsSpec => []ShownExactlyOnce
<1>1. RunsInv => DeliveredOnce
  <2> SUFFICES ASSUME RunsInv, NEW p \in Procs, NEW i \in DOMAIN cli[p].seen
               PROVE  cli[p].seen[i] = cli[p].start + i
    BY DEF DeliveredOnce
  <2>1. cli[p] \in Records
    BY DEF RunsInv, RunsTypeOK
  <2>2. DOMAIN cli[p].seen = 1..Len(cli[p].seen)
    BY <2>1, FieldTypes
  <2>3. cli[p] # Idle
    BY <2>2, IdleTypes
  <2>4. Follows(cli[p])
    BY <2>3 DEF RunsInv, Commands, Sound
  <2> QED
    BY <2>2, <2>4 DEF Follows
<1>2. RunsInv => JournalSkipsNothing
  <2> SUFFICES ASSUME RunsInv, NEW s \in Sessions, journal[s] # None, NEW i \in 1..journal[s].last
               PROVE  i \in Shown(s) \/ run[s].log[i] = "run_complete"
    BY DEF JournalSkipsNothing
  <2>1. Covered(ShownBy(cli, s), run[s].log, journal[s].last)
    BY DEF RunsInv, Counted
  <2>2. Shown(s) = ShownBy(cli, s)
    BY ShownIs DEF RunsInv
  <2> QED
    BY <2>1, <2>2 DEF Covered
<1>3. RunsInv => ShownExactlyOnce
  BY <1>1, <1>2 DEF ShownExactlyOnce
<1> QED
  BY <1>3, RunsInvHolds, PTL

\* A run that was named to a command is named by its exit and never submitted
\* again; a refused submission costs nothing, now or later.
THEOREM RunsReportedOrFree == RunsSpec => []ReportedOrFree
<1>1. RunsInv => NamedRunIsReported
  <2> SUFFICES ASSUME RunsInv, NEW p \in Procs, cli[p].run # None
               PROVE  /\ run[cli[p].run].status # "none"
                      /\ Submits(p) => /\ cli[p].pc # "post"
                                       /\ cli[p].code \notin {"ambiguous", "refused"}
    BY DEF NamedRunIsReported
  <2>1. cli[p] # Idle
    BY DEF Idle
  <2>2. Fits(cli[p]) /\ Follows(cli[p]) /\ Tells(cli[p], run[cli[p].session])
    BY <2>1 DEF RunsInv, Commands, Sound
  <2>3. cli[p].run = cli[p].session
    BY <2>2 DEF Fits
  <2> QED
    BY <2>2, <2>3 DEF Follows, Tells, Submits, Before
<1>2. RunsInv => RefusedIsFree
  <2> SUFFICES ASSUME RunsInv, NEW p \in Procs, cli[p].code \in {"refused", "journal"},
                      ~cli[p].again, NEW s \in Sessions
               PROVE  run[s].owner # p /\ <<s, p>> \notin flight
    BY DEF RefusedIsFree
  <2> QED
    BY DEF RunsInv, Payments, Pays
<1>3. RunsInv => ReportedOrFree
  BY <1>1, <1>2 DEF ReportedOrFree
<1> QED
  BY <1>3, RunsInvHolds, PTL

\* The journal never forgets the run of a session that nobody submits again: its
\* one submission and those who watch it write the run they know (runs.rs 1329).
THEOREM RunsJournalKept == RunsSpec => JournalKeepsRun
<1> DEFINE Keeps ==
      \A s \in Sessions :
         /\ journal[s] # None /\ journal[s].run # None
         /\ \A p \in Procs : cli[p].session = s => cli[p].mode # "resume"
         => journal'[s] # None /\ journal'[s].run = journal[s].run
<1>1. RunsInv /\ [RunsNext]_runsVars => [Keeps]_runsVars
  BY EntryKept DEF Alone
<1>2. RunsSpec => [][Keeps]_runsVars
  BY <1>1, RunsInvHolds, PTL DEF RunsSpec
<1> QED
  BY <1>2 DEF JournalKeepsRun

=============================================================================
