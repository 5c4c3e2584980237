-------------------------------- MODULE FileProofs -----------------------------
(***************************************************************************)
(* What is kept in files.                                                   *)
(*                                                                          *)
(* As long as the writers of an entry of the journal take turns, a leftover *)
(* of a killed one blocks nobody, and the file protocol of journal.rs       *)
(* implements an atomic entry, kills and power failures included, for any   *)
(* number of writers and writes.                                            *)
(*                                                                          *)
(* The commands that change the user's file publish only what they checked, *)
(* made from what they read (ConfigInv).                                    *)
(*                                                                          *)
(* What is resolved from the files and the other layers is what the highest *)
(* of them say (SettingsInv): after n layers, settings and candidates are   *)
(* functions of these layers (After, Offers).                               *)
(***************************************************************************)
EXTENDS JournalFile, UserConfig, Settings, TLAPS

\* One writer at a time.
Alone == \A v, w \in Writers : pc[v] # "idle" /\ pc[w] # "idle" => v = w

\* The file of a write that is under way is new: nobody can find it by the
\* name of the entry.
Fresh ==
    /\ \A w \in Writers : pc[w] # "idle" => job[w] \in Files \ older
    /\ tmp # 0 => tmp \notin older

\* What the entry's name stands for, now or after a power failure, is synced.
Durable ==
    /\ \A i \in older : i = 0 \/ data[i] = "synced"
    /\ \A w \in Writers : pc[w] = "rename" => data[job[w]] = "synced"

\* The temporary name belongs to the one write under way.
OwnsTmp ==
    /\ \A w \in Writers : pc[w] = "create" => tmp = 0
    /\ \A w \in Writers : pc[w] \in {"write", "sync", "rename"} => tmp = job[w]

IInv == TypeOK /\ Alone /\ Fresh /\ Durable /\ OwnsTmp

\* The journal starts in the invariant.
LEMMA Initially == Init => IInv
BY JournalAssumption
   DEF Init, IInv, TypeOK, Alone, Fresh, Durable, OwnsTmp, Files, Contents, Places

\* Every step of the writers, of the disk and of a power failure keeps it, as
\* long as writers take turns: this is where Overlap = FALSE is used.
LEMMA Inductive ==
  ASSUME ~Overlap, IInv, [Next]_vars
  PROVE  IInv'
<1> USE JournalAssumption
        DEF IInv, TypeOK, Alone, Fresh, Durable, OwnsTmp, Files, Contents, Places, Goes
<1>1. ASSUME NEW w \in Writers, Begin(w) PROVE IInv'
  BY <1>1 DEF Begin
<1>2. ASSUME NEW w \in Writers, RemoveLeftover(w) PROVE IInv'
  BY <1>2 DEF RemoveLeftover
<1>3. ASSUME NEW w \in Writers, Create(w) PROVE IInv'
  <2>1. /\ job[w] \in Files /\ job[w] \notin older /\ job[w] \in 0..writes
        /\ UNCHANGED <<path, older, job, writes, outages>>
    BY <1>3 DEF Create
  <2>2. \A v \in Writers \ {w} : pc[v] = "idle" /\ pc'[v] = "idle"
    BY <1>3 DEF Create
  <2>3. CASE tmp = 0
    <3>1. /\ tmp' = job[w] /\ data' = [data EXCEPT ![job[w]] = "empty"]
          /\ pc' = [pc EXCEPT ![w] = "write"]
      BY <1>3, <2>3 DEF Create
    <3>2. TypeOK'
      BY <2>1, <3>1
    <3>3. Alone' /\ Fresh' /\ OwnsTmp'
      BY <2>1, <2>2, <3>1
    <3>4. Durable'
      BY <2>1, <2>2, <3>1
    <3> QED
      BY <3>2, <3>3, <3>4
  <2>4. CASE tmp # 0
    BY <1>3, <2>4 DEF Create
  <2> QED
    BY <2>3, <2>4
<1>4. ASSUME NEW w \in Writers, WriteMore(w) PROVE IInv'
  <2>1. pc[w] = "write" /\ UNCHANGED <<tmp, path, older, job, writes, outages>>
    BY <1>4 DEF WriteMore
  <2>2. \A v \in Writers \ {w} : pc[v] = "idle"
    BY <2>1
  <2>3. CASE data' = [data EXCEPT ![job[w]] = "partial"] /\ UNCHANGED pc
    BY <2>1, <2>2, <2>3, SMTT(60)
  <2>4. CASE data' = [data EXCEPT ![job[w]] = "full"] /\ pc' = [pc EXCEPT ![w] = "sync"]
    BY <2>1, <2>2, <2>4
  <2> QED
    BY <1>4, <2>3, <2>4 DEF WriteMore
<1>5. ASSUME NEW w \in Writers, Sync(w) PROVE IInv'
  BY <1>5 DEF Sync
<1>6. ASSUME NEW w \in Writers, Rename(w) PROVE IInv'
  <2>1. /\ tmp = job[w] /\ tmp # 0 /\ tmp \in 0..writes /\ data[tmp] = "synced"
        /\ path' = tmp /\ tmp' = 0 /\ older' = older \cup {tmp}
        /\ pc' = [pc EXCEPT ![w] = "idle"] /\ UNCHANGED <<data, job, writes, outages>>
    BY <1>6 DEF Rename
  <2>2. \A v \in Writers : pc'[v] = "idle"
    BY <1>6, <2>1 DEF Rename
  <2>3. TypeOK'
    <3>1. older' \subseteq 0..writes' /\ path' \in older' /\ path' \in 0..writes'
      BY <2>1, ZenonT(90)
    <3>2. tmp' \in 0..writes' /\ (tmp' = path' => tmp' = 0)
      BY <2>1
    <3>3. pc' \in [Writers -> Places] /\ job' \in [Writers -> 0..writes']
      BY <2>1
    <3> QED
      BY <2>1, <3>1, <3>2, <3>3
  <2>4. Alone' /\ OwnsTmp' /\ Fresh' /\ Durable'
    BY <2>1, <2>2
  <2> QED
    BY <2>3, <2>4
<1>7. ASSUME NEW w \in Writers, Stops(w) PROVE IInv'
  BY <1>7 DEF Stops
<1>8. CASE DirectoryFlushed
  BY <1>8 DEF DirectoryFlushed
<1>9. CASE PowerFails
  BY <1>9 DEF PowerFails, Cut
<1>10. CASE UNCHANGED vars
  BY <1>10 DEF vars
<1> QED
  BY <1>1, <1>2, <1>3, <1>4, <1>5, <1>6, <1>7, <1>8, <1>9, <1>10 DEF Next, Write

\* While no two writes overlap, every reachable state satisfies IInv.
THEOREM Invariance == ASSUME ~Overlap PROVE Spec => []IInv
<1>1. IInv /\ [Next]_vars => IInv'
  BY Inductive
<1> QED
  BY <1>1, Initially, PTL DEF Spec

\* A temporary file that a killed command left behind never stops the next
\* write, and what is renamed is the file just written (journal.rs write).
THEOREM NeverBlockedHolds == ASSUME ~Overlap PROVE Spec => []NeverBlocked
<1>1. IInv => NeverBlocked
  BY DEF IInv, OwnsTmp, NeverBlocked
<1> QED
  BY <1>1, Invariance, PTL

-----------------------------------------------------------------------------
\* The refinement.

\* A file that is found by the entry's name reads as itself.
LEMMA DurableReads ==
  ASSUME IInv, NEW i \in older
  PROVE  Entry(i) = IF i = 0 THEN None ELSE i
BY DEF IInv, Durable, Entry

\* Only a rename shows a reader something else; what a write does before, it
\* does to a file nobody finds.
LEMMA StepRefines ==
  ASSUME ~Overlap, IInv, [Next]_vars
  PROVE  [Contract!Next]_(Contract!vars)
<1> USE JournalAssumption
<1>1. IInv'
  BY Inductive
<1>2. ASSUME UNCHANGED <<path, older, outages>>
      PROVE  UNCHANGED Contract!vars
  <2>1. \A i \in older : Entry(i)' = Entry(i)
    BY <1>1, <1>2, DurableReads DEF IInv, Durable, Entry
  <2>2. path \in older
    BY DEF IInv, TypeOK
  <2> QED
    BY <1>2, <2>1, <2>2 DEF Contract!vars
<1>3. ASSUME NEW w \in Writers, Rename(w)
      PROVE  Contract!Next
  <2>1. /\ tmp = job[w] /\ tmp \in Files /\ tmp \notin older /\ data[tmp] = "synced"
        /\ data' = data /\ path' = tmp /\ older' = older \cup {tmp} /\ outages' = outages
    BY <1>3 DEF Rename, IInv, TypeOK, Fresh, Durable, OwnsTmp, Files
  <2>2. Entry(tmp) = tmp /\ tmp # None /\ Entry(path)' = tmp /\ \A i : Entry(i)' = Entry(i)
    BY <2>1 DEF Entry, Files
  <2>3. tmp \notin {Entry(i) : i \in older}
    BY <2>1, <2>2, DurableReads DEF Files
  <2>4. {Entry(i) : i \in older}' = {Entry(i) : i \in older} \cup {tmp}
    BY <2>1, <2>2
  <2>5. Contract!Replace(tmp)
    BY <2>1, <2>2, <2>3, <2>4 DEF Contract!Replace
  <2> QED
    BY <2>1, <2>5 DEF Contract!Next
<1>4. CASE DirectoryFlushed
  <2>1. /\ older' = {path} /\ UNCHANGED <<path, data, outages>>
    BY <1>4 DEF DirectoryFlushed
  <2>2. Contract!Commit
    BY <2>1 DEF Contract!Commit, Entry
  <2> QED
    BY <2>2 DEF Contract!Next
<1>5. CASE PowerFails
  <2>1. /\ path' \in older /\ older' = {path'} /\ outages' = outages + 1
        /\ \A i \in Files : data'[i] \in Cut(data[i])
    BY <1>5 DEF PowerFails
  <2>2. \A i \in older : Entry(i)' = Entry(i)
    <3>1. \A i \in older : i # 0 => i \in Files /\ data[i] = "synced"
      BY DEF IInv, TypeOK, Durable, Files
    <3>2. \A i \in older : i # 0 => data'[i] = "synced"
      BY <2>1, <3>1 DEF Cut
    <3> QED
      BY <3>1, <3>2 DEF Entry
  <2>3. outages' # outages
    BY <2>1 DEF IInv, TypeOK
  <2>4. Contract!Revert
    BY <2>1, <2>2, <2>3 DEF Contract!Revert
  <2> QED
    BY <2>4 DEF Contract!Next
<1>6. ASSUME NEW w \in Writers, Write(w), ~Rename(w)
      PROVE  UNCHANGED <<path, older, outages>>
  BY <1>6 DEF Write, Begin, RemoveLeftover, Create, WriteMore, Sync, Stops
<1>7. CASE UNCHANGED vars
  BY <1>2, <1>7 DEF vars
<1> QED
  BY <1>2, <1>3, <1>4, <1>5, <1>6, <1>7 DEF Next, Write

\* No entry yet reads as no entry.
LEMMA InitRefines == Init => Contract!Init
BY JournalAssumption DEF Init, Contract!Init, Entry

\* Journal::write replaces an entry atomically as its comment (journal.rs, line
\* 155) says: for any number of processes that take turns, killed anywhere.
THEOREM AtomicHolds == ASSUME ~Overlap PROVE Spec => Atomic
<1>1. IInv /\ [Next]_vars => [Contract!Next]_(Contract!vars)
  BY StepRefines
<1> QED
  BY <1>1, InitRefines, Invariance, PTL DEF Spec, Atomic, Contract!Spec

-----------------------------------------------------------------------------
(* The commands that change the user's configuration file.                  *)

\* The record of a command.
CommandFields == {"at", "op", "given", "source", "read", "text", "checked", "temp"}
IsCommand(c) == c = [field \in CommandFields |-> c[field]]

\* What a command that is going to publish its text vouches for.
Vouches(c) ==
    /\ c.checked = c.text => Acceptable(Settable(c.text))
    /\ c.text # Malformed /\ c.read # Malformed =>
         /\ c.op = "use" => Lines(c.text, Bundle) = c.given
         /\ \A k \in (DOMAIN c.text \cup DOMAIN c.read) \ Touched(c) :
               k \in DOMAIN c.text \cap DOMAIN c.read /\ c.text[k] = c.read[k]

\* A command on its way: what it was given, what it has made of the text it
\* read, and what its temporary file holds.
Sane(c) ==
    /\ IsCommand(c)
    /\ c.at # "idle" => c.op \in {"use", "unset", "migrate"}
    /\ c.op = "use" => c.given \in Bundles
    /\ c.at = "reread" => c.op = "migrate" /\ c.read = c.text
    /\ c.at \in {"write", "sync", "install", "unlink"} => Vouches(c)
    /\ c.at = "install" => c.temp = WholeFile(c.text)
    /\ c.at = "sync" => c.temp = [text |-> c.text, whole |-> FALSE]

\* A command that has published its text does nothing more with it.
Published == {"unlink", "changed", "failed", "killed"}
Steady(c, d) ==
    c.at \in Published => d.at \in Published /\ d.text = c.text /\ (Vouches(c) => Vouches(d))

ConfigInv ==
    /\ edits \in Nat
    /\ DOMAIN writer = ConfigWriters
    /\ \A w \in ConfigWriters : Sane(writer[w])
    /\ canonical # NoText => canonical.whole
    /\ canonical # NoText /\ canonicalBy # "editor" =>
         /\ canonicalBy \in ConfigWriters
         /\ writer[canonicalBy].at \in Published
         /\ canonical.text = writer[canonicalBy].text
         /\ Vouches(writer[canonicalBy])

\* The step of one command that leaves the file alone.
LEMMA CommandMoves ==
  ASSUME ConfigInv, NEW w \in ConfigWriters, NEW d, Sane(d), Steady(writer[w], d),
         writer' = [writer EXCEPT ![w] = d],
         canonical' = canonical, canonicalBy' = canonicalBy, edits' = edits
  PROVE  ConfigInv'
<1>1. /\ DOMAIN writer' = ConfigWriters
      /\ writer'[w] = d
      /\ \A v \in ConfigWriters : v # w => writer'[v] = writer[v]
  BY DEF ConfigInv
<1>2. \A v \in ConfigWriters : Sane(writer'[v])
  BY <1>1 DEF ConfigInv
<1>3. canonical # NoText /\ canonicalBy # "editor" =>
         /\ canonicalBy \in ConfigWriters
         /\ writer'[canonicalBy].at \in Published
         /\ canonical.text = writer'[canonicalBy].text
         /\ Vouches(writer'[canonicalBy])
  <2>1. CASE canonicalBy = w
    BY <2>1, <1>1 DEF ConfigInv, Steady
  <2>2. CASE canonicalBy # w
    BY <2>2, <1>1 DEF ConfigInv
  <2>3. QED
    BY <2>1, <2>2
<1>4. QED
  BY <1>1, <1>2, <1>3 DEF ConfigInv

\* A command that publishes its text.
LEMMA CommandPublishes ==
  ASSUME ConfigInv, NEW w \in ConfigWriters, NEW d, Sane(d), Vouches(d), d.at \in Published,
         writer' = [writer EXCEPT ![w] = d],
         canonical' = WholeFile(d.text), canonicalBy' = w, edits' = edits
  PROVE  ConfigInv'
<1>1. /\ DOMAIN writer' = ConfigWriters
      /\ writer'[w] = d
      /\ \A v \in ConfigWriters : v # w => writer'[v] = writer[v]
  BY DEF ConfigInv
<1>2. \A v \in ConfigWriters : Sane(writer'[v])
  BY <1>1 DEF ConfigInv
<1>3. canonical'.whole /\ canonical'.text = d.text
  BY DEF WholeFile
<1>4. QED
  BY <1>1, <1>2, <1>3 DEF ConfigInv

\* A command changes its place and nothing else.
LEMMA PlaceOnly ==
  ASSUME NEW c, IsCommand(c), NEW at, NEW d, d = [c EXCEPT !.at = at]
  PROVE  /\ IsCommand(d)
         /\ d.at = at /\ d.op = c.op /\ d.given = c.given /\ d.source = c.source
         /\ d.read = c.read /\ d.text = c.text /\ d.checked = c.checked /\ d.temp = c.temp
<1>1. DOMAIN c = CommandFields
  BY DEF IsCommand
<1>2. QED
  BY <1>1 DEF IsCommand, CommandFields

\* and, with its place, its temporary file.
LEMMA PlaceAndTemp ==
  ASSUME NEW c, IsCommand(c), NEW at, NEW temp, NEW d,
         d = [c EXCEPT !.at = at, !.temp = temp]
  PROVE  /\ IsCommand(d)
         /\ d.at = at /\ d.op = c.op /\ d.given = c.given /\ d.source = c.source
         /\ d.read = c.read /\ d.text = c.text /\ d.checked = c.checked /\ d.temp = temp
<1>1. DOMAIN c = CommandFields
  BY DEF IsCommand
<1>2. QED
  BY <1>1 DEF IsCommand, CommandFields

\* What a command vouches for depends on what it was given and on its texts.
LEMMA VouchesAlike ==
  ASSUME NEW c, NEW d, d.op = c.op, d.given = c.given, d.read = c.read, d.text = c.text,
         d.checked = c.checked
  PROVE  Vouches(c) <=> Vouches(d)
<1>1. Touched(c) = Touched(d)
  BY DEF Touched
<1>2. QED
  BY <1>1 DEF Vouches

\* harness use: the lines of its bundle are the ones it was given, all others
\* are those it read.
LEMMA ChosenIsGiven ==
  ASSUME NEW text, NEW c \in Bundles
  PROVE  /\ Lines(Chosen(text, c), Bundle) = c
         /\ \A k \in (DOMAIN Chosen(text, c) \cup DOMAIN text) \ Bundle :
               /\ k \in DOMAIN Chosen(text, c) \cap DOMAIN text
               /\ Chosen(text, c)[k] = text[k]
<1>1. DOMAIN c \subseteq Bundle /\ c = [k \in DOMAIN c |-> c[k]]
  BY ConfigAssumption DEF ConfigAssumption
<1>2. DOMAIN Chosen(text, c) = (DOMAIN text \ Bundle) \cup DOMAIN c
  BY DEF Chosen
<1>3. \A k \in DOMAIN Chosen(text, c) :
        Chosen(text, c)[k] = IF k \in DOMAIN c THEN c[k] ELSE text[k]
  BY DEF Chosen
<1>4. DOMAIN Chosen(text, c) \cap Bundle = DOMAIN c
  BY <1>1, <1>2
<1>5. Lines(Chosen(text, c), Bundle) = [k \in DOMAIN c |-> Chosen(text, c)[k]]
  BY <1>4 DEF Lines
<1>6. \A k \in DOMAIN c : Chosen(text, c)[k] = c[k]
  BY <1>2, <1>3
<1>7. [k \in DOMAIN c |-> Chosen(text, c)[k]] = [k \in DOMAIN c |-> c[k]]
  BY <1>6
<1>8. QED
  BY <1>1, <1>2, <1>3, <1>5, <1>7

\* A command that moves on without a new text stays sane where its next place
\* asks for nothing more.
LEMMA MovesOn ==
  ASSUME ConfigInv, NEW w \in ConfigWriters, NEW at, MovesTo(w, at),
         at \notin {"idle", "reread", "write", "sync", "install", "unlink"},
         writer[w].at # "idle",
         writer[w].at \in Published => at \in Published,
         canonical' = canonical, canonicalBy' = canonicalBy, edits' = edits
  PROVE  ConfigInv'
<1> DEFINE c == writer[w]
           d == [c EXCEPT !.at = at]
<1>1. Sane(c)
  BY DEF ConfigInv
<1>2. IsCommand(c)
  BY <1>1 DEF Sane
<1>3. /\ IsCommand(d)
      /\ d.at = at /\ d.op = c.op /\ d.given = c.given /\ d.source = c.source
      /\ d.read = c.read /\ d.text = c.text /\ d.checked = c.checked /\ d.temp = c.temp
  BY <1>2, PlaceOnly
<1>4. writer' = [writer EXCEPT ![w] = d]
  BY DEF MovesTo, WriterGoes
<1> HIDE DEF d
<1>5. Sane(d)
  BY <1>1, <1>3 DEF Sane
<1>6. Vouches(c) <=> Vouches(d)
  BY <1>3, VouchesAlike
<1>7. Steady(c, d)
  BY <1>3, <1>6 DEF Steady
<1>8. QED
  BY <1>4, <1>5, <1>7, CommandMoves

\* The first step of a command.
LEMMA Started ==
  ASSUME ConfigInv, NEW w \in ConfigWriters, StartConfigCommand(w)
  PROVE  ConfigInv'
<1>1. writer[w].at = "idle"
  BY DEF StartConfigCommand, AtStep
<1>2. /\ canonical' = canonical /\ canonicalBy' = canonicalBy /\ edits' = edits
  BY DEF StartConfigCommand
<1>3. ASSUME NEW d, WriterGoes(w, d), Sane(d)
      PROVE  ConfigInv'
  <2>1. Steady(writer[w], d)
    BY <1>1 DEF Steady, Published
  <2>2. writer' = [writer EXCEPT ![w] = d]
    BY <1>3 DEF WriterGoes
  <2>3. QED
    BY <2>1, <2>2, <1>2, <1>3, CommandMoves
<1>4. CASE \E b \in Bundles :
             WriterGoes(w, [IdleWriter EXCEPT !.at = "resolve", !.op = "use", !.given = b])
  <2>1. PICK b \in Bundles :
             WriterGoes(w, [IdleWriter EXCEPT !.at = "resolve", !.op = "use", !.given = b])
    BY <1>4
  <2> DEFINE d == [IdleWriter EXCEPT !.at = "resolve", !.op = "use", !.given = b]
  <2>2. DOMAIN IdleWriter = CommandFields
    BY DEF IdleWriter, CommandFields
  <2>3. d = [IdleWriter EXCEPT !.at = "resolve", !.op = "use", !.given = b]
    OBVIOUS
  <2>4. WriterGoes(w, d)
    BY <2>1
  <2> HIDE DEF d
  <2>5. IsCommand(d) /\ d.at = "resolve" /\ d.op = "use" /\ d.given = b
    BY <2>2, <2>3 DEF IsCommand, CommandFields
  <2>6. Sane(d)
    BY <2>5 DEF Sane
  <2>7. QED
    BY <2>4, <2>6, <1>3
<1>5. CASE \E ks \in UnsetLists :
             WriterGoes(w, [IdleWriter EXCEPT !.at = "choose", !.op = "unset", !.given = ks])
  <2>1. PICK ks \in UnsetLists :
             WriterGoes(w, [IdleWriter EXCEPT !.at = "choose", !.op = "unset", !.given = ks])
    BY <1>5
  <2> DEFINE d == [IdleWriter EXCEPT !.at = "choose", !.op = "unset", !.given = ks]
  <2>2. DOMAIN IdleWriter = CommandFields
    BY DEF IdleWriter, CommandFields
  <2>3. d = [IdleWriter EXCEPT !.at = "choose", !.op = "unset", !.given = ks]
    OBVIOUS
  <2>4. WriterGoes(w, d)
    BY <2>1
  <2> HIDE DEF d
  <2>5. IsCommand(d) /\ d.at = "choose" /\ d.op = "unset" /\ d.given = ks
    BY <2>2, <2>3 DEF IsCommand, CommandFields
  <2>6. Sane(d)
    BY <2>5 DEF Sane
  <2>7. QED
    BY <2>4, <2>6, <1>3
<1>6. CASE WriterGoes(w, [IdleWriter EXCEPT !.at = "vacant", !.op = "migrate",
                                            !.source = "legacy"])
  <2> DEFINE d == [IdleWriter EXCEPT !.at = "vacant", !.op = "migrate", !.source = "legacy"]
  <2>1. DOMAIN IdleWriter = CommandFields
    BY DEF IdleWriter, CommandFields
  <2>2. IsCommand(d) /\ d.at = "vacant" /\ d.op = "migrate"
    BY <2>1 DEF IsCommand, CommandFields
  <2>3. WriterGoes(w, d)
    BY <1>6
  <2> HIDE DEF d
  <2>4. Sane(d)
    BY <2>2 DEF Sane
  <2>5. QED
    BY <2>3, <2>4, <1>3
<1>7. QED
  BY <1>4, <1>5, <1>6 DEF StartConfigCommand

\* What a command makes of the text it reads, it can vouch for.
LEMMA ReadIsHandled ==
  ASSUME ConfigInv, NEW w \in ConfigWriters, ReadSource(w)
  PROVE  ConfigInv'
<1> DEFINE c == writer[w]
           text == SourceOf(w).text
           r == CASE SourceOf(w) = NoText /\ c.op = "use" -> UseOf(w, <<>>)
                  [] SourceOf(w) = NoText /\ c.op = "unset" ->
                       Handled("unchanged", NoText, NoText)
                  [] SourceOf(w) = NoText /\ c.op = "migrate" ->
                       Handled("refused", NoText, NoText)
                  [] SourceOf(w) # NoText /\ c.op = "use" -> UseOf(w, text)
                  [] SourceOf(w) # NoText /\ c.op = "unset" -> UnsetOf(w, text)
                  [] OTHER -> Handled("reread", text, text)
           d == [c EXCEPT !.at = r.at, !.read = r.read, !.text = r.text, !.checked = r.text]
           Good == /\ r.at \in {"refused", "unchanged", "write", "reread"}
                   /\ r.at = "reread" => c.op = "migrate" /\ r.read = r.text
                   /\ r.at = "write" =>
                        /\ Acceptable(Settable(r.text))
                        /\ \/ /\ c.op = "use"
                              /\ r.text = Chosen(r.read, c.given)
                           \/ /\ c.op = "unset"
                              /\ r.text = Lines(r.read, DOMAIN r.read \ c.given)
<1>1. Sane(c) /\ c.at = "read"
  BY DEF ConfigInv, ReadSource, AtStep
<1>2. c.op \in {"use", "unset", "migrate"} /\ IsCommand(c)
  BY <1>1 DEF Sane
<1>3. /\ writer' = [writer EXCEPT ![w] = d]
      /\ canonical' = canonical /\ canonicalBy' = canonicalBy /\ edits' = edits
  BY DEF ReadSource, WriterGoes
<1>4. ASSUME NEW t, c.op = "use", r = UseOf(w, t)
      PROVE  Good
  <2>1. CASE ~Parses(t) \/ Stored(Settable(t)) # DOMAIN Settable(t)
    <3>1. r = Handled("refused", t, t)
      BY <2>1, <1>4 DEF UseOf
    <3>2. QED
      BY <3>1 DEF Handled
  <2>2. CASE /\ ~(~Parses(t) \/ Stored(Settable(t)) # DOMAIN Settable(t))
             /\ Lines(t, Bundle) = c.given /\ c.source = "canonical"
    <3>1. r = Handled("unchanged", t, t)
      BY <2>2, <1>4 DEF UseOf
    <3>2. QED
      BY <3>1 DEF Handled
  <2>3. CASE /\ ~(~Parses(t) \/ Stored(Settable(t)) # DOMAIN Settable(t))
             /\ ~(Lines(t, Bundle) = c.given /\ c.source = "canonical")
    <3>1. r = Handled(IF Acceptable(Settable(Chosen(t, c.given))) THEN "write" ELSE "refused",
                      t, Chosen(t, c.given))
      BY <2>3, <1>4 DEF UseOf
    <3>2. r.text = Chosen(t, c.given) /\ r.read = t
      BY <3>1 DEF Handled
    <3>3. r.at = IF Acceptable(Settable(Chosen(t, c.given))) THEN "write" ELSE "refused"
      BY <3>1 DEF Handled
    <3> HIDE DEF r
    <3>4. QED
      BY <3>2, <3>3, <1>4
  <2>4. QED
    BY <2>1, <2>2, <2>3
<1>5. ASSUME NEW t, c.op = "unset", r = UnsetOf(w, t)
      PROVE  Good
  <2>1. CASE ~Parses(t)
    <3>1. r = Handled("refused", t, t)
      BY <2>1, <1>5 DEF UnsetOf
    <3>2. QED
      BY <3>1 DEF Handled
  <2>2. CASE Parses(t)
    <3> DEFINE new == Lines(t, DOMAIN t \ c.given)
               at == CASE ~Acceptable(Settable(new)) -> "refused" [] new = t -> "unchanged"
                       [] OTHER -> "write"
    <3>1. r = Handled(at, t, new)
      BY <2>2, <1>5 DEF UnsetOf
    <3> HIDE DEF new, at, r
    <3>2. r.text = new /\ r.read = t /\ r.at = at
      BY <3>1 DEF Handled
    <3>3. at \in {"refused", "unchanged", "write"}
      BY DEF at
    <3>4. at = "write" => Acceptable(Settable(new))
      BY DEF at
    <3>5. r.at = "write" => Acceptable(Settable(r.text))
      BY <3>2, <3>4
    <3>6. r.text = Lines(r.read, DOMAIN r.read \ c.given)
      BY <3>2 DEF new
    <3>7. QED
      BY <3>2, <3>3, <3>5, <3>6, <1>5
  <2>3. QED
    BY <2>1, <2>2
<1>6. Good
  <2>1. CASE SourceOf(w) = NoText /\ c.op = "use"
    <3>1. r = UseOf(w, <<>>)
      BY <2>1
    <3>2. QED
      BY <3>1, <2>1, <1>4
  <2>2. CASE SourceOf(w) = NoText /\ c.op = "unset"
    <3>1. r = Handled("unchanged", NoText, NoText)
      BY <2>2
    <3>2. QED
      BY <3>1 DEF Handled
  <2>3. CASE SourceOf(w) = NoText /\ c.op = "migrate"
    <3>1. r = Handled("refused", NoText, NoText)
      BY <2>3
    <3>2. QED
      BY <3>1 DEF Handled
  <2>4. CASE SourceOf(w) # NoText /\ c.op = "use"
    <3>1. r = UseOf(w, text)
      BY <2>4
    <3>2. QED
      BY <3>1, <2>4, <1>4
  <2>5. CASE SourceOf(w) # NoText /\ c.op = "unset"
    <3>1. r = UnsetOf(w, text)
      BY <2>5
    <3>2. QED
      BY <3>1, <2>5, <1>5
  <2>6. CASE SourceOf(w) # NoText /\ c.op = "migrate"
    <3>1. r = Handled("reread", text, text)
      BY <2>6
    <3>2. r.at = "reread" /\ r.read = r.text
      BY <3>1 DEF Handled
    <3> HIDE DEF r
    <3>3. QED
      BY <3>2, <2>6
  <2>7. QED
    BY <2>1, <2>2, <2>3, <2>4, <2>5, <2>6, <1>2
<1>7. /\ IsCommand(d)
      /\ d.at = r.at /\ d.op = c.op /\ d.given = c.given
      /\ d.read = r.read /\ d.text = r.text /\ d.checked = r.text
  <2>1. d = [c EXCEPT !.at = r.at, !.read = r.read, !.text = r.text, !.checked = r.text]
    OBVIOUS
  <2>2. DOMAIN c = CommandFields
    BY <1>2 DEF IsCommand
  <2> HIDE DEF d, r, c
  <2>3. QED
    BY <2>1, <2>2 DEF IsCommand, CommandFields
<1> HIDE DEF d, r
<1>8. ASSUME d.at = "write"
      PROVE  Vouches(d)
  <2>1. Acceptable(Settable(d.text))
    BY <1>6, <1>7, <1>8
  <2>2. CASE c.op = "use" /\ r.text = Chosen(r.read, c.given)
    <3>1. d.given \in Bundles /\ d.op = "use" /\ d.text = Chosen(d.read, d.given)
      BY <2>2, <1>1, <1>7 DEF Sane
    <3>2. Touched(d) = Bundle
      BY <3>1 DEF Touched
    <3>3. /\ Lines(d.text, Bundle) = d.given
          /\ \A k \in (DOMAIN d.text \cup DOMAIN d.read) \ Touched(d) :
               k \in DOMAIN d.text \cap DOMAIN d.read /\ d.text[k] = d.read[k]
      BY <3>1, <3>2, ChosenIsGiven
    <3>4. QED
      BY <2>1, <3>3 DEF Vouches
  <2>3. CASE c.op = "unset" /\ r.text = Lines(r.read, DOMAIN r.read \ c.given)
    <3>1. d.op = "unset" /\ d.text = Lines(d.read, DOMAIN d.read \ d.given)
      BY <2>3, <1>7
    <3>2. Touched(d) = d.given
      BY <3>1 DEF Touched
    <3>3. \A k \in (DOMAIN d.text \cup DOMAIN d.read) \ d.given :
               k \in DOMAIN d.text \cap DOMAIN d.read /\ d.text[k] = d.read[k]
      <4> HIDE DEF c
      <4>1. QED
        BY <3>1 DEF Lines
    <3>4. QED
      BY <2>1, <3>1, <3>2, <3>3 DEF Vouches
  <2>4. QED
    BY <2>2, <2>3, <1>6, <1>7, <1>8
<1>9. Sane(d)
  BY <1>1, <1>6, <1>7, <1>8 DEF Sane
<1>10. Steady(c, d)
  BY <1>1 DEF Steady, Published
<1>11. QED
  BY <1>3, <1>9, <1>10, CommandMoves
\* Every step of a command keeps the invariant.
LEMMA ConfigInductive ==
  ASSUME ConfigInv, [ConfigNext]_configVars
  PROVE  ConfigInv'
<1>1. ASSUME NEW w \in ConfigWriters, ResolveBefore(w) PROVE ConfigInv'
  <2>1. PICK at \in {"refused", "choose"} : MovesTo(w, at)
    BY <1>1 DEF ResolveBefore
  <2>2. /\ writer[w].at = "resolve"
        /\ canonical' = canonical /\ canonicalBy' = canonicalBy /\ edits' = edits
    BY <1>1 DEF ResolveBefore, AtStep
  <2>3. QED
    BY <2>1, <2>2, MovesOn DEF Published
<1>2. ASSUME NEW w \in ConfigWriters, ChooseSource(w) PROVE ConfigInv'
  <2> DEFINE c == writer[w]
             source == IF canonical = NoText /\ legacy # NoText THEN "legacy" ELSE "canonical"
             d == [c EXCEPT !.at = "read", !.source = source]
  <2>1. writer' = [writer EXCEPT ![w] = d] /\ c.at = "choose"
        /\ canonical' = canonical /\ canonicalBy' = canonicalBy /\ edits' = edits
    BY <1>2 DEF ChooseSource, AtStep, WriterGoes
  <2>2. Sane(c)
    BY DEF ConfigInv
  <2>3. DOMAIN c = CommandFields
    BY <2>2 DEF Sane, IsCommand
  <2>4. IsCommand(d) /\ d.at = "read" /\ d.op = c.op /\ d.given = c.given
    BY <2>3 DEF IsCommand, CommandFields
  <2> HIDE DEF d
  <2>5. Sane(d) /\ Steady(c, d)
    BY <2>1, <2>2, <2>4 DEF Sane, Steady, Published
  <2>6. QED
    BY <2>1, <2>5, CommandMoves
<1>3. ASSUME NEW w \in ConfigWriters, LookForVacancy(w) PROVE ConfigInv'
  <2>1. PICK at \in {"refused", "read"} : MovesTo(w, at)
    BY <1>3 DEF LookForVacancy
  <2>2. /\ writer[w].at = "vacant"
        /\ canonical' = canonical /\ canonicalBy' = canonicalBy /\ edits' = edits
    BY <1>3 DEF LookForVacancy, AtStep
  <2>3. QED
    BY <2>1, <2>2, MovesOn DEF Published
<1>4. ASSUME NEW w \in ConfigWriters, ReadAgain(w) PROVE ConfigInv'
  <2> DEFINE c == writer[w]
             d == [c EXCEPT !.at = "write", !.checked = legacy.text]
  <2>1. /\ c.at = "reread"
        /\ canonical' = canonical /\ canonicalBy' = canonicalBy /\ edits' = edits
    BY <1>4 DEF ReadAgain, AtStep
  <2>2. CASE MovesTo(w, "refused")
    BY <2>1, <2>2, MovesOn DEF Published
  <2>3. CASE Acceptable(Settable(legacy.text)) /\ writer' = [writer EXCEPT ![w] = d]
    <3>1. Sane(c)
      BY DEF ConfigInv
    <3>2. DOMAIN c = CommandFields
      BY <3>1 DEF Sane, IsCommand
    <3>3. /\ IsCommand(d) /\ d.at = "write" /\ d.op = c.op /\ d.given = c.given
          /\ d.read = c.read /\ d.text = c.text /\ d.checked = legacy.text
      BY <3>2 DEF IsCommand, CommandFields
    <3> HIDE DEF d
    <3>4. d.op = "migrate" /\ d.read = d.text
      BY <2>1, <3>1, <3>3 DEF Sane
    <3>5. Touched(d) = {}
      BY <3>4 DEF Touched
    <3>6. Vouches(d)
      BY <2>3, <3>3, <3>4, <3>5 DEF Vouches
    <3>7. Sane(d) /\ Steady(c, d)
      BY <2>1, <3>1, <3>3, <3>4, <3>6 DEF Sane, Steady, Published
    <3>8. QED
      BY <2>1, <2>3, <3>7, CommandMoves
  <2>4. QED
    BY <1>4, <2>2, <2>3 DEF ReadAgain, WriterGoes
<1>5. ASSUME NEW w \in ConfigWriters, WriteTemp(w) PROVE ConfigInv'
  <2> DEFINE c == writer[w]
             temp == [text |-> c.text, whole |-> FALSE]
             d == [c EXCEPT !.at = "sync", !.temp = temp]
  <2>1. /\ c.at = "write"
        /\ canonical' = canonical /\ canonicalBy' = canonicalBy /\ edits' = edits
    BY <1>5 DEF WriteTemp, AtStep
  <2>2. CASE MovesTo(w, "failed")
    BY <2>1, <2>2, MovesOn DEF Published
  <2>3. CASE writer' = [writer EXCEPT ![w] = d]
    <3>1. Sane(c)
      BY DEF ConfigInv
    <3>2. IsCommand(c)
      BY <3>1 DEF Sane
    <3>3. /\ IsCommand(d) /\ d.at = "sync" /\ d.op = c.op /\ d.given = c.given
          /\ d.read = c.read /\ d.text = c.text /\ d.checked = c.checked /\ d.temp = temp
      <4> HIDE DEF temp
      <4>1. DOMAIN c = CommandFields
        BY <3>2 DEF IsCommand
      <4>2. QED
        BY <4>1 DEF IsCommand, CommandFields
    <3> HIDE DEF d
    <3>4. Vouches(d)
      BY <2>1, <3>1, <3>3, VouchesAlike DEF Sane
    <3>5. Sane(d) /\ Steady(c, d)
      BY <2>1, <3>1, <3>3, <3>4 DEF Sane, Steady, Published
    <3>6. QED
      BY <2>1, <2>3, <3>5, CommandMoves
  <2>4. QED
    BY <1>5, <2>2, <2>3 DEF WriteTemp, WriterGoes
<1>6. ASSUME NEW w \in ConfigWriters, NEW at \in {"changed", "failed"},
             writer[w].at \in {"sync", "install", "unlink"},
             WriterGoes(w, [writer[w] EXCEPT !.at = at, !.temp = NoText]),
             canonical' = canonical /\ canonicalBy' = canonicalBy /\ edits' = edits
      PROVE  ConfigInv'
  <2> DEFINE c == writer[w]
             d == [c EXCEPT !.at = at, !.temp = NoText]
  <2>1. Sane(c)
    BY DEF ConfigInv
  <2>2. IsCommand(c)
    BY <2>1 DEF Sane
  <2>3. DOMAIN c = CommandFields
    BY <2>2 DEF IsCommand
  <2>4. /\ IsCommand(d) /\ d.at = at /\ d.op = c.op /\ d.given = c.given
        /\ d.read = c.read /\ d.text = c.text /\ d.checked = c.checked
    BY <2>3 DEF IsCommand, CommandFields
  <2>5. writer' = [writer EXCEPT ![w] = d]
    BY <1>6 DEF WriterGoes
  <2> HIDE DEF d
  <2>6. Vouches(c) <=> Vouches(d)
    BY <2>4, VouchesAlike
  <2>7. Sane(d) /\ Steady(c, d)
    BY <1>6, <2>1, <2>4, <2>6 DEF Sane, Steady, Published
  <2>8. QED
    BY <1>6, <2>5, <2>7, CommandMoves
<1>7. ASSUME NEW w \in ConfigWriters, SyncTemp(w) PROVE ConfigInv'
  <2> DEFINE c == writer[w]
             d == [c EXCEPT !.at = "install", !.temp.whole = TRUE]
  <2>1. /\ c.at = "sync"
        /\ canonical' = canonical /\ canonicalBy' = canonicalBy /\ edits' = edits
    BY <1>7 DEF SyncTemp, AtStep
  <2>2. CASE WriterFails(w)
    BY <1>6, <2>1, <2>2 DEF WriterFails
  <2>3. CASE writer' = [writer EXCEPT ![w] = d]
    <3>1. Sane(c)
      BY DEF ConfigInv
    <3>2. IsCommand(c) /\ c.temp = [text |-> c.text, whole |-> FALSE]
      BY <2>1, <3>1 DEF Sane
    <3>3. /\ IsCommand(d) /\ d.at = "install" /\ d.op = c.op /\ d.given = c.given
          /\ d.read = c.read /\ d.text = c.text /\ d.checked = c.checked
          /\ d.temp = [c.temp EXCEPT !.whole = TRUE]
      <4>1. DOMAIN c = CommandFields
        BY <3>2 DEF IsCommand
      <4>2. QED
        BY <4>1 DEF IsCommand, CommandFields
    <3> HIDE DEF d
    <3>4. d.temp = WholeFile(d.text)
      <4> HIDE DEF c
      <4>1. DOMAIN c.temp = {"text", "whole"} /\ c.temp.text = c.text
        BY <3>2
      <4>2. DOMAIN d.temp = {"text", "whole"} /\ d.temp.whole = TRUE /\ d.temp.text = c.text
        BY <3>3, <4>1
      <4>3. d.temp = [field \in {"text", "whole"} |-> d.temp[field]]
        BY <3>3, <4>1
      <4>4. QED
        BY <3>3, <4>2, <4>3 DEF WholeFile
    <3>5. Vouches(d)
      BY <2>1, <3>1, <3>3, VouchesAlike DEF Sane
    <3>6. Sane(d) /\ Steady(c, d)
      BY <2>1, <3>1, <3>3, <3>4, <3>5 DEF Sane, Steady, Published
    <3>7. QED
      BY <2>1, <2>3, <3>6, CommandMoves
  <2>4. QED
    BY <1>7, <2>2, <2>3 DEF SyncTemp, WriterGoes
<1>8. ASSUME NEW w \in ConfigWriters, InstallFile(w) PROVE ConfigInv'
  <2> DEFINE c == writer[w]
             d == [c EXCEPT !.at = "changed", !.temp = NoText]
             e == [c EXCEPT !.at = "unlink"]
  <2>1. c.at = "install" /\ edits' = edits
    BY <1>8 DEF InstallFile, AtStep
  <2>2. Sane(c)
    BY DEF ConfigInv
  <2>3. IsCommand(c) /\ Vouches(c) /\ c.temp = WholeFile(c.text)
    BY <2>1, <2>2 DEF Sane
  <2>4. CASE canonical' = c.temp /\ canonicalBy' = w /\ writer' = [writer EXCEPT ![w] = d]
    <3>1. DOMAIN c = CommandFields
      BY <2>3 DEF IsCommand
    <3>2. /\ IsCommand(d) /\ d.at = "changed" /\ d.op = c.op /\ d.given = c.given
          /\ d.read = c.read /\ d.text = c.text /\ d.checked = c.checked
      BY <3>1 DEF IsCommand, CommandFields
    <3> HIDE DEF d
    <3>3. Vouches(d)
      BY <2>3, <3>2, VouchesAlike
    <3>4. Sane(d)
      BY <2>1, <2>2, <3>2 DEF Sane
    <3>5. canonical' = WholeFile(d.text) /\ d.at \in Published
      BY <2>3, <2>4, <3>2 DEF Published
    <3>6. QED
      BY <2>1, <2>4, <3>3, <3>4, <3>5, CommandPublishes
  <2>5. CASE canonical' = c.temp /\ canonicalBy' = w /\ writer' = [writer EXCEPT ![w] = e]
    <3>1. /\ IsCommand(e) /\ e.at = "unlink" /\ e.op = c.op /\ e.given = c.given
          /\ e.read = c.read /\ e.text = c.text /\ e.checked = c.checked
      BY <2>3, PlaceOnly
    <3> HIDE DEF e
    <3>2. Vouches(e)
      BY <2>3, <3>1, VouchesAlike
    <3>3. Sane(e)
      BY <2>1, <2>2, <3>1, <3>2 DEF Sane
    <3>4. canonical' = WholeFile(e.text) /\ e.at \in Published
      BY <2>3, <2>5, <3>1 DEF Published
    <3>5. QED
      BY <2>1, <2>5, <3>2, <3>3, <3>4, CommandPublishes
  <2>6. CASE WriterFails(w) /\ UNCHANGED <<canonical, canonicalBy>>
    BY <1>6, <2>1, <2>6 DEF WriterFails
  <2>7. QED
    BY <1>8, <2>4, <2>5, <2>6 DEF InstallFile, MovesTo, WriterGoes
<1>9. ASSUME NEW w \in ConfigWriters, UnlinkTemp(w) PROVE ConfigInv'
  <2>1. /\ writer[w].at = "unlink"
        /\ canonical' = canonical /\ canonicalBy' = canonicalBy /\ edits' = edits
    BY <1>9 DEF UnlinkTemp, AtStep
  <2>2. CASE MovesTo(w, "failed")
    BY <2>1, <2>2, MovesOn DEF Published
  <2>3. CASE WriterGoes(w, [writer[w] EXCEPT !.at = "changed", !.temp = NoText])
    BY <1>6, <2>1, <2>3
  <2>4. QED
    BY <1>9, <2>2, <2>3 DEF UnlinkTemp
<1>10. ASSUME NEW w \in ConfigWriters, KillCommand(w) PROVE ConfigInv'
  <2>1. /\ writer[w].at # "idle" /\ MovesTo(w, "killed")
        /\ canonical' = canonical /\ canonicalBy' = canonicalBy /\ edits' = edits
    BY <1>10 DEF KillCommand, WriterRests
  <2>2. QED
    BY <2>1, MovesOn DEF Published
<1>11. ASSUME EditFile PROVE ConfigInv'
  <2>1. edits' = edits + 1 /\ writer' = writer
    BY <1>11 DEF EditFile
  <2>2. CASE canonical' \in ConfigFiles /\ canonicalBy' = "editor"
    <3>1. canonical' # NoText => canonical'.whole
      BY <2>2 DEF ConfigFiles, WholeFile
    <3>2. QED
      BY <2>1, <2>2, <3>1 DEF ConfigInv
  <2>3. CASE UNCHANGED <<canonical, canonicalBy>>
    BY <2>1, <2>3 DEF ConfigInv
  <2>4. QED
    BY <1>11, <2>2, <2>3 DEF EditFile
<1>12. CASE UNCHANGED configVars
  BY <1>12 DEF configVars, ConfigInv
<1>13. QED
  BY <1>1, <1>2, <1>3, <1>4, <1>5, <1>7, <1>8, <1>9, <1>10, <1>11, <1>12, Started, ReadIsHandled
     DEF ConfigNext

\* No command runs at first, and the file there is one somebody wrote.
LEMMA ConfigInitially == ConfigInit => ConfigInv
<1> SUFFICES ASSUME ConfigInit PROVE ConfigInv
  OBVIOUS
<1>1. edits \in Nat /\ DOMAIN writer = ConfigWriters /\ canonicalBy = "editor"
  BY DEF ConfigInit
<1>2. canonical # NoText => canonical.whole
  BY DEF ConfigInit, ConfigFiles, WholeFile
<1>3. Sane(IdleWriter)
  BY DEF Sane, IsCommand, CommandFields, IdleWriter
<1>4. \A w \in ConfigWriters : Sane(writer[w])
  BY <1>3 DEF ConfigInit
<1>5. QED
  BY <1>1, <1>2, <1>4 DEF ConfigInv

\* ConfigInv is an invariant of the commands, for any number of them, any
\* texts, and as many edits as there are.
THEOREM ConfigInvariance == ConfigSpec => []ConfigInv
<1>1. QED
  BY ConfigInitially, ConfigInductive, PTL DEF ConfigSpec

\* What a command has published, it vouches for (config.rs:273-559).
THEOREM UserFileSound == ConfigSpec => []UserFileIsSound
<1>1. ConfigInv => UserFileIsSound
  BY DEF ConfigInv, UserFileIsSound, Vouches
<1>2. QED
  BY <1>1, ConfigInvariance, PTL

\* Nothing but an editor touches the legacy file, and nothing but an editor or
\* a command that worked from the user's file replaces it (config.rs:403-443).
THEOREM UserFileReplaced == ConfigSpec => UserFileKept
<1> DEFINE Kept == /\ legacy' # legacy => edits' # edits
                   /\ canonical # NoText /\ canonical' # canonical =>
                        \/ edits' # edits
                        \/ \E w \in ConfigWriters :
                              writer[w] # writer'[w] /\ writer[w].source = "canonical"
<1>1. ConfigInv /\ [ConfigNext]_configVars => [Kept]_configVars
  <2> SUFFICES ASSUME ConfigInv, [ConfigNext]_configVars PROVE Kept \/ UNCHANGED configVars
    OBVIOUS
  <2>1. CASE EditFile
    <3>1. edits' # edits
      BY <2>1 DEF EditFile, ConfigInv
    <3>2. QED
      BY <3>1
  <2>2. ASSUME NEW w \in ConfigWriters, InstallFile(w)
        PROVE  Kept
    <3>1. writer[w].at = "install" /\ legacy' = legacy
      BY <2>2 DEF InstallFile, AtStep
    <3>2. CASE writer[w].source = "canonical"
      <4> DEFINE d == [writer[w] EXCEPT !.at = "changed", !.temp = NoText]
      <4>1. writer'[w] = d
        BY <2>2, <3>2 DEF InstallFile, WriterGoes, ConfigInv
      <4>2. d.at = "changed"
        BY DEF ConfigInv, Sane, IsCommand, CommandFields
      <4>3. writer[w] # writer'[w]
        BY <3>1, <4>1, <4>2
      <4>4. QED
        BY <3>1, <3>2, <4>3
    <3>3. CASE writer[w].source # "canonical"
      BY <2>2, <3>1, <3>3 DEF InstallFile
    <3>4. QED
      BY <3>2, <3>3
  <2>3. ASSUME NEW w \in ConfigWriters,
               \/ StartConfigCommand(w) \/ ResolveBefore(w) \/ ChooseSource(w)
               \/ LookForVacancy(w) \/ ReadSource(w) \/ ReadAgain(w) \/ WriteTemp(w)
               \/ SyncTemp(w) \/ UnlinkTemp(w) \/ KillCommand(w)
        PROVE  Kept
    <3>1. canonical' = canonical /\ legacy' = legacy
      BY <2>3 DEF StartConfigCommand, ResolveBefore, ChooseSource, LookForVacancy, ReadSource,
                  ReadAgain, WriteTemp, SyncTemp, UnlinkTemp, KillCommand
    <3>2. QED
      BY <3>1
  <2>4. QED
    BY <2>1, <2>2, <2>3 DEF ConfigNext
<1>2. QED
  BY <1>1, ConfigInvariance, PTL DEF ConfigSpec, UserFileKept

-----------------------------------------------------------------------------
(* Resolution of the settings. *)

\* The layers before the nth that set a key, what they make of the built-in
\* settings, and the candidates they leave.
SettersBelow(n, k) == {q \in Setters(k) : q < n}
Choice(q, k) == [value |-> layers[q][k], rank |-> q, selected |-> FALSE]
After(n) ==
    [k \in SettingKeys |->
        IF SettersBelow(n, k) = {} THEN BuiltIn[k]
        ELSE [value |-> layers[Max(SettersBelow(n, k))][k], rank |-> Max(SettersBelow(n, k))]]
Offers(n) ==
    [k \in SettingKeys |->
        {Shown(BuiltIn[k])} \cup {Choice(q, k) : q \in SettersBelow(n, k)}]

\* What is known of the layers, of the resolution while they are applied, and
\* of the one whose defaults were filled in.
LayersKnown ==
    \A r \in 1..4 : Parses(layers[r]) => /\ DOMAIN layers[r] \subseteq SettingKeys
                                         /\ \A k \in DOMAIN layers[r] : layers[r][k] # "none"
InLayers ==
    \A n \in 1..5 : resolving = LayerSteps[n] => setting = After(n) /\ history = Offers(n)
Defaulted ==
    resolving = "checks" =>
        /\ setting = WithDefaults(After(5)) /\ history = Offers(5)
        /\ \A k \in {"model", "authProfile"} : ~OfOtherHarness(After(5), Offers(5)["harness"], k)
        /\ ~WrongProfile(setting)

SettingsInv == LayersKnown /\ InLayers /\ Defaulted /\ SettledSettings

-----------------------------------------------------------------------------
\* The keys and the steps, one by one.
LEMMA KeysAre ==
  SettingKeys = {"harness", "model", "timeout", "permissionMode", "nativeMaxTurns",
                 "nativeProfile", "nativeAddDirs", "authProfile"}
<1>1. DOMAIN KeyOrder = 1..8
  BY DEF KeyOrder
<1>2. 1..8 = {1, 2, 3, 4, 5, 6, 7, 8}
  OBVIOUS
<1>3. QED
  BY <1>1, <1>2 DEF SettingKeys, KeyOrder

LEMMA StepsAre ==
  /\ LayerSteps[1] = "user" /\ LayerSteps[2] = "project" /\ LayerSteps[3] = "environment"
  /\ LayerSteps[4] = "flags" /\ LayerSteps[5] = "defaults"
  /\ \A n, m \in 1..5 : LayerSteps[n] = LayerSteps[m] => n = m
  /\ \A n \in 1..5 : LayerSteps[n] \notin {"checks", "done", "failed"}
BY DEF LayerSteps

\* The largest of a few numbers, the smallest of them, and the topmost of some
\* candidates.
LEMMA MaxOf ==
  ASSUME NEW S \in SUBSET (1..4), S # {}
  PROVE  Max(S) \in S /\ \A x \in S : x <= Max(S)
<1>1. \E m \in S : \A x \in S : m >= x
  <2>1. 1..4 = {1, 2, 3, 4}
    OBVIOUS
  <2>2. CASE 4 \in S
    BY <2>1, <2>2
  <2>3. CASE 4 \notin S /\ 3 \in S
    BY <2>1, <2>3
  <2>4. CASE 4 \notin S /\ 3 \notin S /\ 2 \in S
    BY <2>1, <2>4
  <2>5. CASE 4 \notin S /\ 3 \notin S /\ 2 \notin S
    <3>1. S = {1}
      BY <2>1, <2>5
    <3>2. QED
      BY <3>1
  <2>6. QED
    BY <2>2, <2>3, <2>4, <2>5
<1>2. Max(S) \in S /\ \A x \in S : Max(S) >= x
  BY <1>1 DEF Max
<1>3. QED
  BY <1>2

LEMMA MinOf ==
  ASSUME NEW S \in SUBSET (1..2), S # {}
  PROVE  Min(S) \in S
<1>1. \E m \in S : \A x \in S : m <= x
  <2>1. CASE 1 \in S
    BY <2>1
  <2>2. CASE 1 \notin S
    <3>1. 1..2 = {1, 2}
      OBVIOUS
    <3>2. S = {2}
      BY <2>2, <3>1
    <3>3. QED
      BY <3>2
  <2>3. QED
    BY <2>1, <2>2
<1>2. QED
  BY <1>1 DEF Min

LEMMA TopmostIn ==
  ASSUME NEW S, S # {}, \A c \in S : c.rank \in Ranks
  PROVE  Topmost(S) \in S /\ \A d \in S : d.rank <= Topmost(S).rank
<1>1. \E c \in S : \A d \in S : d.rank <= c.rank
  <2>1. \A c \in S : c.rank \in {0, 1, 2, 3, 4}
    BY DEF Ranks
  <2>2. CASE \E c \in S : c.rank = 4
    BY <2>1, <2>2
  <2>3. CASE (\A c \in S : c.rank # 4) /\ \E c \in S : c.rank = 3
    BY <2>1, <2>3
  <2>4. CASE (\A c \in S : c.rank \notin {3, 4}) /\ \E c \in S : c.rank = 2
    BY <2>1, <2>4
  <2>5. CASE (\A c \in S : c.rank \notin {2, 3, 4}) /\ \E c \in S : c.rank = 1
    BY <2>1, <2>5
  <2>6. CASE \A c \in S : c.rank \notin {1, 2, 3, 4}
    BY <2>1, <2>6
  <2>7. QED
    BY <2>2, <2>3, <2>4, <2>5, <2>6
<1>2. QED
  BY <1>1 DEF Topmost

\* The place of an error is that of a setting that is not built in, or nowhere.
LEMMA SourceIsSetting ==
  ASSUME NEW s, NEW keys \in Seq(SettingKeys), Len(keys) <= 2, FirstSource(s, keys) # Nowhere
  PROVE  LET b == FirstSource(s, keys)
         IN  b.key \in SettingKeys /\ b.rank = s[b.key].rank /\ b.rank > 0
<1> DEFINE explicit == {i \in DOMAIN keys : s[keys[i]].rank > 0}
<1>1. explicit # {} /\ FirstSource(s, keys) = [rank |-> s[keys[Min(explicit)]].rank,
                                               key |-> keys[Min(explicit)]]
  BY DEF FirstSource
<1>2. explicit \subseteq 1..2
  OBVIOUS
<1>3. Min(explicit) \in explicit
  BY <1>1, <1>2, MinOf
<1>4. keys[Min(explicit)] \in SettingKeys /\ s[keys[Min(explicit)]].rank > 0
  BY <1>3
<1> HIDE DEF explicit
<1>5. QED
  BY <1>1, <1>4

-----------------------------------------------------------------------------
\* The layers that set a key, and the highest of them.
LEMMA SettersAre ==
  ASSUME NEW n \in 1..5, NEW k \in SettingKeys
  PROVE  /\ SettersBelow(n, k) \subseteq 1..4 /\ \A q \in SettersBelow(n, k) : q < n
         /\ SettersBelow(5, k) = Setters(k) /\ SettersBelow(1, k) = {}
         /\ SettersBelow(n, k) # {} => /\ Max(SettersBelow(n, k)) \in SettersBelow(n, k)
                                       /\ \A q \in SettersBelow(n, k) : q <= Max(SettersBelow(n, k))
<1>1. /\ SettersBelow(n, k) \subseteq 1..4 /\ \A q \in SettersBelow(n, k) : q < n
      /\ SettersBelow(5, k) = Setters(k) /\ SettersBelow(1, k) = {}
  BY DEF SettersBelow, Setters
<1>2. QED
  BY <1>1, MaxOf

\* The ranks of the settings and of their candidates.
LEMMA RanksBelow ==
  ASSUME NEW n \in 1..5, NEW k \in SettingKeys
  PROVE  /\ After(n)[k] = [value |-> After(n)[k].value, rank |-> After(n)[k].rank]
         /\ After(n)[k].rank \in Ranks /\ After(n)[k].rank < n
         /\ After(n)[k].rank = 0 => After(n)[k] = BuiltIn[k]
         /\ After(n)[k].rank > 0 => /\ After(n)[k].rank \in SettersBelow(n, k)
                                    /\ Shown(After(n)[k]) = Choice(After(n)[k].rank, k)
         /\ Shown(After(n)[k]) \in Offers(n)[k]
         /\ Shown(BuiltIn[k]) \in Offers(n)[k]
         /\ \A c \in Offers(n)[k] :
              /\ c.rank \in Ranks /\ c.rank < n
              /\ c = [value |-> c.value, rank |-> c.rank, selected |-> FALSE]
<1>1. /\ BuiltIn[k].rank = 0 /\ BuiltIn[k] = [value |-> BuiltIn[k].value, rank |-> 0]
  BY DEF BuiltIn
<1>2. /\ SettersBelow(n, k) \subseteq 1..4 /\ \A q \in SettersBelow(n, k) : q < n
      /\ SettersBelow(n, k) # {} => Max(SettersBelow(n, k)) \in SettersBelow(n, k)
  BY SettersAre
<1>3. After(n)[k] = IF SettersBelow(n, k) = {} THEN BuiltIn[k]
                    ELSE [value |-> layers[Max(SettersBelow(n, k))][k],
                          rank |-> Max(SettersBelow(n, k))]
  BY DEF After
<1>4. Offers(n)[k] = {Shown(BuiltIn[k])} \cup {Choice(q, k) : q \in SettersBelow(n, k)}
  BY DEF Offers
<1>5. \A c \in Offers(n)[k] :
              /\ c.rank \in Ranks /\ c.rank < n
              /\ c = [value |-> c.value, rank |-> c.rank, selected |-> FALSE]
  BY <1>1, <1>2, <1>4 DEF Choice, Shown, Ranks
<1>6. CASE SettersBelow(n, k) = {}
  <2>1. After(n)[k] = BuiltIn[k]
    BY <1>3, <1>6
  <2>2. QED
    BY <1>1, <1>4, <1>5, <2>1 DEF Ranks
<1>7. CASE SettersBelow(n, k) # {}
  <2> DEFINE top == Max(SettersBelow(n, k))
  <2>1. top \in SettersBelow(n, k) /\ top \in 1..4 /\ top < n
    BY <1>2, <1>7
  <2>2. After(n)[k] = [value |-> layers[top][k], rank |-> top]
    BY <1>3, <1>7
  <2> HIDE DEF top
  <2>3. After(n)[k].rank = top /\ Shown(After(n)[k]) = Choice(top, k)
    BY <2>2 DEF Shown, Choice
  <2>4. After(n)[k] = [value |-> After(n)[k].value, rank |-> After(n)[k].rank]
    BY <2>2
  <2>5. Shown(After(n)[k]) \in Offers(n)[k] /\ Shown(BuiltIn[k]) \in Offers(n)[k]
    BY <1>4, <2>1, <2>3
  <2>6. QED
    BY <1>5, <2>1, <2>3, <2>4, <2>5 DEF Ranks
<1>8. QED
  BY <1>6, <1>7

\* A layer is applied.
LEMMA LayerApplied ==
  ASSUME NEW n \in 1..4, ~(n = 1 /\ sameFile), Parses(layers[n]),
         Stored(layers[n]) = DOMAIN layers[n]
  PROVE  /\ Assigned(After(n), layers[n], n) = After(n + 1)
         /\ Recorded(Offers(n), After(n + 1)) = Offers(n + 1)
<1>1. ASSUME NEW k \in SettingKeys
      PROVE  /\ k \in DOMAIN layers[n] =>
                  /\ SettersBelow(n + 1, k) = SettersBelow(n, k) \cup {n}
                  /\ Max(SettersBelow(n + 1, k)) = n
             /\ k \notin DOMAIN layers[n] => SettersBelow(n + 1, k) = SettersBelow(n, k)
  <2>1. n \in Setters(k) <=> k \in DOMAIN layers[n]
    BY DEF Setters
  <2>2. SettersBelow(n + 1, k) = SettersBelow(n, k)
                                   \cup (IF k \in DOMAIN layers[n] THEN {n} ELSE {})
    BY <2>1 DEF SettersBelow, Setters
  <2>3. n + 1 \in 1..5
    OBVIOUS
  <2>4. k \in DOMAIN layers[n] => Max(SettersBelow(n + 1, k)) = n
    BY <2>2, <2>3, SettersAre
  <2>5. QED
    BY <2>2, <2>4
<1>2. ASSUME NEW k \in SettingKeys
      PROVE  Assigned(After(n), layers[n], n)[k] = After(n + 1)[k]
  BY <1>1, <1>2 DEF Assigned, After
<1>3. Assigned(After(n), layers[n], n) = After(n + 1)
  BY <1>2 DEF Assigned, After
<1>4. ASSUME NEW k \in SettingKeys
      PROVE  Recorded(Offers(n), After(n + 1))[k] = Offers(n + 1)[k]
  <2>1. Recorded(Offers(n), After(n + 1))[k] = Offers(n)[k] \cup {Shown(After(n + 1)[k])}
    BY DEF Recorded
  <2>2. CASE k \in DOMAIN layers[n]
    <3>1. After(n + 1)[k] = [value |-> layers[n][k], rank |-> n]
      BY <1>1, <2>2 DEF After
    <3>2. After(n + 1)[k].rank = n /\ n + 1 \in 1..5 /\ n > 0
      BY <3>1
    <3>3. Shown(After(n + 1)[k]) = Choice(n, k)
      BY <3>2, RanksBelow
    <3>4. QED
      BY <1>1, <2>1, <2>2, <3>3 DEF Offers
  <2>3. CASE k \notin DOMAIN layers[n]
    <3>1. After(n + 1)[k] = After(n)[k] /\ Offers(n + 1)[k] = Offers(n)[k]
      BY <1>1, <2>3 DEF After, Offers
    <3>2. n \in 1..5 /\ Shown(After(n)[k]) \in Offers(n)[k]
      BY RanksBelow, n \in 1..5
    <3>3. QED
      BY <2>1, <3>1, <3>2
  <2>4. QED
    BY <2>2, <2>3
<1>5. QED
  BY <1>3, <1>4 DEF Recorded, Offers

\* A user file that is the project's is passed over.
LEMMA UserFileSkipped ==
  ASSUME sameFile
  PROVE  After(2) = After(1) /\ Offers(2) = Offers(1)
<1>1. \A k \in SettingKeys : SettersBelow(2, k) = SettersBelow(1, k)
  BY DEF SettersBelow, Setters
<1>2. QED
  BY <1>1 DEF After, Offers

\* The candidates tell which harness was chosen at or below a layer.
LEMMA OwnerIsChosen ==
  ASSUME NEW r \in Ranks
  PROVE  HarnessOwner(Offers(5)["harness"], r) = HarnessAt(r)
<1> DEFINE hs == Offers(5)["harness"]
           S == {c \in hs : c.rank <= r}
           below == {q \in Setters("harness") : q <= r}
<1>1. "harness" \in SettingKeys
  BY KeysAre
<1>2. hs = {Shown(BuiltIn["harness"])} \cup {Choice(q, "harness") : q \in Setters("harness")}
  BY <1>1, SettersAre DEF Offers
<1>3. /\ Shown(BuiltIn["harness"]) \in S
      /\ Shown(BuiltIn["harness"]).rank = 0
      /\ Shown(BuiltIn["harness"]).value = BuiltIn["harness"].value
  BY <1>1, <1>2 DEF Shown, BuiltIn, Ranks
<1>4. \A q \in Setters("harness") : /\ Choice(q, "harness").rank = q
                                    /\ Choice(q, "harness").value = layers[q]["harness"]
  BY DEF Choice
<1>5. \A c \in S : c.rank \in Ranks
  BY <1>1, 5 \in 1..5, RanksBelow
<1>6. Topmost(S) \in S /\ \A d \in S : d.rank <= Topmost(S).rank
  BY <1>3, <1>5, TopmostIn
<1>7. below \in SUBSET (1..4)
  BY DEF Setters
<1>8. HarnessOwner(hs, r) = Topmost(S).value
  BY DEF HarnessOwner
<1>9. CASE below = {}
  <2>1. Topmost(S) = Shown(BuiltIn["harness"])
    BY <1>2, <1>4, <1>6, <1>9
  <2>2. QED
    BY <1>3, <1>8, <1>9, <2>1 DEF HarnessAt
<1>10. CASE below # {}
  <2>1. Max(below) \in below /\ \A q \in below : q <= Max(below)
    BY <1>7, <1>10, MaxOf
  <2>2. Choice(Max(below), "harness") \in S
    BY <1>2, <1>4, <2>1
  <2>3. Topmost(S).rank >= Max(below) /\ Max(below) \in 1..4
    BY <1>4, <1>6, <1>7, <2>1, <2>2
  <2>4. PICK q \in Setters("harness") : Topmost(S) = Choice(q, "harness") /\ q <= r
    <3>1. Topmost(S) \in hs /\ Topmost(S).rank <= r /\ Topmost(S) # Shown(BuiltIn["harness"])
      BY <1>3, <1>6, <2>3
    <3>2. \E q \in Setters("harness") : Topmost(S) = Choice(q, "harness")
      BY <1>2, <3>1
    <3>3. QED
      BY <1>4, <3>1, <3>2
  <2>5. q \in 1..4 /\ q \in below
    BY <2>4 DEF Setters
  <2>6. q = Max(below)
    BY <1>4, <2>1, <2>3, <2>4, <2>5
  <2>7. QED
    BY <1>4, <1>8, <1>10, <2>4, <2>6 DEF HarnessAt
<1>11. QED
  BY <1>9, <1>10

-----------------------------------------------------------------------------
\* Marking the selected candidate leaves the others and their ranks.
LEMMA MarkedAre ==
  ASSUME NEW c, NEW v, c = [value |-> c.value, rank |-> c.rank, selected |-> FALSE]
  PROVE  /\ Marked(c, v).rank = c.rank /\ Marked(c, v).value = c.value
         /\ Marked(c, v).selected = (Shown(v) = c)
<1>1. [c EXCEPT !.selected = FALSE] = c
  OBVIOUS
<1>2. Marked(c, v) = [c EXCEPT !.selected = (Shown(v) = c)]
  BY <1>1 DEF Marked
<1>3. DOMAIN c = {"value", "rank", "selected"}
  OBVIOUS
<1>4. QED
  BY <1>2, <1>3

\* The ranks of the candidates of a report.
LEMMA FinalRanks ==
  ASSUME NEW n \in 1..5, NEW s, NEW k \in SettingKeys
  PROVE  /\ \A c \in Finalized(Offers(n), s)[k] :
              \/ c.rank \in Ranks /\ \E d \in Offers(n)[k] : c.rank = d.rank
              \/ s[k].rank = 0 /\ c.rank = 0
         /\ s[k].rank # 0 => \E c \in Finalized(Offers(n), s)[k] : c.rank = 0
<1> DEFINE shown == IF s[k].rank = 0 THEN {c \in Offers(n)[k] : c.rank # 0} \cup {Shown(s[k])}
                    ELSE Offers(n)[k]
<1>1. Finalized(Offers(n), s)[k] = {Marked(c, s[k]) : c \in shown}
  BY DEF Finalized
<1>2. \A c \in Offers(n)[k] : /\ c.rank \in Ranks
                              /\ c = [value |-> c.value, rank |-> c.rank, selected |-> FALSE]
  BY RanksBelow
<1>3. Shown(s[k]) = [value |-> s[k].value, rank |-> s[k].rank, selected |-> FALSE]
  BY DEF Shown
<1>4. \A c \in shown : Marked(c, s[k]).rank = c.rank
  <2>1. SUFFICES ASSUME NEW c \in shown PROVE Marked(c, s[k]).rank = c.rank
    OBVIOUS
  <2>2. c = [value |-> c.value, rank |-> c.rank, selected |-> FALSE]
    BY <1>2, <1>3, <2>1
  <2>3. QED
    BY <2>2, MarkedAre
<1>5. \A c \in shown : c \in Offers(n)[k] \/ (s[k].rank = 0 /\ c.rank = 0)
  BY <1>3
<1>6. Shown(BuiltIn[k]) \in Offers(n)[k] /\ Shown(BuiltIn[k]).rank = 0
  BY RanksBelow DEF Shown, BuiltIn
<1>7. s[k].rank # 0 => Shown(BuiltIn[k]) \in shown
  BY <1>6
<1> HIDE DEF shown
<1>8. QED
  BY <1>1, <1>2, <1>4, <1>5, <1>6, <1>7

\* What a failed resolution shows is not the value it was refused for.
LEMMA FailureShown ==
  ASSUME NEW n \in 1..5, NEW s, NEW b, DOMAIN s = SettingKeys, RefuseAt(Offers(n), s, b),
         b.key \in SettingKeys =>
           \/ b.rank \in Ranks \ {0} /\ s[b.key].rank = b.rank
           \/ /\ b.rank \in Ranks \ {0} /\ s[b.key].rank # b.rank
              /\ \A c \in Offers(n)[b.key] : c.rank # b.rank
  PROVE  SettledSettings'
<1> DEFINE final == Finalized(Offers(n), s)
           kept == {c \in final[b.key] : c.rank # b.rank}
           last == Topmost(kept)
           bad == b.rank > 0 /\ b.key \in SettingKeys /\ s[b.key].rank = b.rank
<1>1. SUFFICES ASSUME b.key \in SettingKeys
               PROVE  /\ setting'[b.key].rank # b.rank
                      /\ \A c \in history'[b.key] : c.rank # b.rank
  BY DEF RefuseAt, SettledSettings
<1>2. /\ bad => /\ setting' = [s EXCEPT ![b.key] = [value |-> last.value, rank |-> last.rank]]
                /\ history' = [final EXCEPT ![b.key] =
                                   {[c EXCEPT !.selected = c = last] : c \in kept}]
      /\ ~bad => setting' = s /\ history' = final
  BY DEF RefuseAt, Partially
<1>3. DOMAIN final = SettingKeys
  BY DEF Finalized
<1>4. \A c \in final[b.key] :
              \/ c.rank \in Ranks /\ \E d \in Offers(n)[b.key] : c.rank = d.rank
              \/ s[b.key].rank = 0 /\ c.rank = 0
  BY <1>1, FinalRanks
<1>5. CASE bad
  <2>1. \E c \in final[b.key] : c.rank = 0
    BY <1>1, <1>5, FinalRanks
  <2>2. kept # {} /\ \A c \in kept : c.rank \in Ranks
    BY <1>4, <1>5, <2>1
  <2>3. last \in kept
    BY <2>2, TopmostIn
  <2>4. setting'[b.key] = [value |-> last.value, rank |-> last.rank]
    BY <1>1, <1>2, <1>5
  <2>5. history'[b.key] = {[c EXCEPT !.selected = c = last] : c \in kept}
    BY <1>1, <1>2, <1>3, <1>5
  <2>6. \A c \in kept : c.rank # b.rank
    OBVIOUS
  <2> HIDE DEF kept, last, final
  <2>7. \A c \in kept : [c EXCEPT !.selected = c = last].rank # b.rank
    BY <2>6
  <2>8. setting'[b.key].rank = last.rank
    BY <2>4
  <2>9. ASSUME NEW c \in history'[b.key] PROVE c.rank # b.rank
    <3>1. PICK k \in kept : c = [k EXCEPT !.selected = k = last]
      BY <2>5
    <3> QED
      BY <2>7, <3>1
  <2>10. last.rank # b.rank
    BY <2>3, <2>6
  <2>11. QED
    BY <2>8, <2>9, <2>10
<1>6. CASE ~bad
  <2>1. b.rank \in Ranks \ {0} /\ s[b.key].rank # b.rank
        /\ \A c \in Offers(n)[b.key] : c.rank # b.rank
    BY <1>1, <1>6 DEF Ranks
  <2>2. QED
    BY <1>2, <1>4, <1>6, <2>1
<1>7. QED
  BY <1>5, <1>6

-----------------------------------------------------------------------------
\* The layers are what they were.
LEMMA LayersStay ==
  ASSUME UNCHANGED <<layers, sameFile>>
  PROVE  /\ \A n : After(n)' = After(n) /\ Offers(n)' = Offers(n)
         /\ LayersKnown' <=> LayersKnown
BY DEF After, Offers, Choice, SettersBelow, Setters, LayersKnown

LEMMA SettingsStart == SettingsInit => SettingsInv
<1>1. SUFFICES ASSUME SettingsInit PROVE SettingsInv
  OBVIOUS
<1>2. LayersKnown
  <2>1. layers \in UserFiles \X ProjectFiles \X Environments \X FlagLists
    BY <1>1 DEF SettingsInit
  <2>2. \A r \in 1..4 : layers[r] \in UserFiles \cup ProjectFiles \cup Environments \cup FlagLists
    <3>1. 1..4 = {1, 2, 3, 4}
      OBVIOUS
    <3>2. QED
      BY <2>1, <3>1
  <2>3. QED
    BY <2>2, SettingsAssumption DEF LayersKnown
<1>3. setting = After(1) /\ history = Offers(1)
  <2>1. \A k \in SettingKeys : SettersBelow(1, k) = {}
    BY 1 \in 1..5, SettersAre
  <2>2. After(1) = [k \in SettingKeys |-> BuiltIn[k]]
    BY <2>1 DEF After
  <2>3. BuiltIn = [k \in SettingKeys |-> BuiltIn[k]]
    BY DEF BuiltIn
  <2>4. QED
    BY <1>1, <2>1, <2>2, <2>3 DEF SettingsInit, Offers
<1>4. resolving = LayerSteps[1]
  BY <1>1 DEF SettingsInit
<1>5. InLayers
  BY <1>3, <1>4, StepsAre DEF InLayers
<1>6. resolving \notin {"checks", "done", "failed"}
  BY <1>4, StepsAre
<1>7. QED
  BY <1>2, <1>5, <1>6 DEF SettingsInv, Defaulted, SettledSettings

\* After a step to another layer.
LEMMA NextLayer ==
  ASSUME NEW n \in 1..5, SettingsInv, UNCHANGED <<layers, sameFile>>,
         resolving' = LayerSteps[n], setting' = After(n), history' = Offers(n)
  PROVE  SettingsInv'
<1>1. LayersKnown' /\ \A m : After(m)' = After(m) /\ Offers(m)' = Offers(m)
  BY LayersStay DEF SettingsInv
<1>2. InLayers'
  BY <1>1, StepsAre DEF InLayers
<1>3. resolving' \notin {"checks", "done", "failed"}
  BY StepsAre
<1>4. QED
  BY <1>1, <1>2, <1>3 DEF SettingsInv, Defaulted, SettledSettings

\* After a refusal.
LEMMA Refusal ==
  ASSUME NEW n \in 1..5, NEW s, NEW b, DOMAIN s = SettingKeys, RefuseAt(Offers(n), s, b),
         SettingsInv, UNCHANGED <<layers, sameFile>>,
         b.key \in SettingKeys =>
           \/ b.rank \in Ranks \ {0} /\ s[b.key].rank = b.rank
           \/ /\ b.rank \in Ranks \ {0} /\ s[b.key].rank # b.rank
              /\ \A c \in Offers(n)[b.key] : c.rank # b.rank
  PROVE  SettingsInv'
<1>1. resolving' = "failed"
  BY DEF RefuseAt
<1>2. LayersKnown' /\ InLayers' /\ Defaulted'
  BY <1>1, StepsAre, LayersStay DEF SettingsInv, InLayers, Defaulted
<1>3. QED
  BY <1>2, FailureShown DEF SettingsInv

LEMMA SkipUserFileStep == SettingsInv /\ SkipUserFile => SettingsInv'
<1>1. SUFFICES ASSUME SettingsInv, SkipUserFile PROVE SettingsInv'
  OBVIOUS
<1>2. /\ resolving = LayerSteps[1] /\ resolving' = LayerSteps[2] /\ sameFile
      /\ UNCHANGED <<layers, sameFile, setting, history>>
  BY <1>1, StepsAre DEF SkipUserFile
<1>3. setting = After(1) /\ history = Offers(1)
  BY <1>1, <1>2, 1 \in 1..5 DEF SettingsInv, InLayers
<1>4. setting' = After(2) /\ history' = Offers(2) /\ 2 \in 1..5
  BY <1>2, <1>3, UserFileSkipped
<1>5. QED
  BY <1>1, <1>2, <1>4, NextLayer

\* The key that is refused is one that is not stored.
LEMMA RefusedIsNotStored ==
  ASSUME NEW layer, DOMAIN layer \subseteq SettingKeys, Stored(layer) # DOMAIN layer
  PROVE  FirstRefused(layer) \in SettingKeys /\ FirstRefused(layer) \notin Stored(layer)
<1> DEFINE S == {i \in DOMAIN KeyOrder : KeyOrder[i] \in DOMAIN layer \ Stored(layer)}
<1>1. Stored(layer) \subseteq DOMAIN layer
  BY DEF Stored
<1>2. S # {}
  BY <1>1 DEF SettingKeys
<1>3. DOMAIN KeyOrder = 1..8
  BY DEF KeyOrder
<1>4. \E m \in S : \A x \in S : m <= x
  <2>1. S \subseteq {1, 2, 3, 4, 5, 6, 7, 8}
    BY <1>3
  <2> HIDE DEF S
  <2>2. CASE 1 \in S
    BY <2>1, <2>2
  <2>3. CASE 1 \notin S /\ 2 \in S
    BY <2>1, <2>3
  <2>4. CASE 1 \notin S /\ 2 \notin S /\ 3 \in S
    BY <2>1, <2>4
  <2>5. CASE S \cap {1, 2, 3} = {} /\ 4 \in S
    BY <2>1, <2>5
  <2>6. CASE S \cap {1, 2, 3, 4} = {} /\ 5 \in S
    BY <2>1, <2>6
  <2>7. CASE S \cap {1, 2, 3, 4, 5} = {} /\ 6 \in S
    BY <2>1, <2>7
  <2>8. CASE S \cap {1, 2, 3, 4, 5, 6} = {} /\ 7 \in S
    BY <2>1, <2>8
  <2>9. CASE S \cap {1, 2, 3, 4, 5, 6, 7} = {}
    <3>1. S = {8}
      BY <1>2, <2>1, <2>9
    <3>2. QED
      BY <3>1
  <2>10. QED
    BY <2>2, <2>3, <2>4, <2>5, <2>6, <2>7, <2>8, <2>9
<1>5. Min(S) \in S
  BY <1>4 DEF Min
<1>6. FirstRefused(layer) = KeyOrder[Min(S)]
  BY DEF FirstRefused
<1>7. QED
  BY <1>5, <1>6 DEF SettingKeys

LEMMA ApplyLayerStep == SettingsInv /\ ApplyLayer => SettingsInv'
<1>1. SUFFICES ASSUME SettingsInv, ApplyLayer PROVE SettingsInv'
  OBVIOUS
<1>2. PICK r \in 1..4 :
        /\ resolving = LayerSteps[r] /\ ~(resolving = "user" /\ sameFile)
        /\ LET layer == layers[r]
           IN IF ~Parses(layer)
              THEN RefuseAt(history, setting, [rank |-> r, key |-> "none"])
              ELSE LET s == Assigned(setting, layer, r)
                   IN IF Stored(layer) # DOMAIN layer
                      THEN RefuseAt(history, s, [rank |-> r, key |-> FirstRefused(layer)])
                      ELSE /\ resolving' = LayerSteps[r + 1]
                           /\ setting' = s
                           /\ history' = Recorded(history, s)
                           /\ UNCHANGED blame
  BY <1>1 DEF ApplyLayer, AtLayer
<1>3. r \in 1..5 /\ r + 1 \in 1..5 /\ r \in Ranks \ {0} /\ UNCHANGED <<layers, sameFile>>
  BY <1>1 DEF Ranks, ApplyLayer
<1>4. setting = After(r) /\ history = Offers(r) /\ LayersKnown
  BY <1>1, <1>2, <1>3 DEF SettingsInv, InLayers
<1>5. ~(r = 1 /\ sameFile)
  BY <1>2, StepsAre
<1>6. CASE ~Parses(layers[r])
  <2>1. RefuseAt(Offers(r), After(r), [rank |-> r, key |-> "none"])
    BY <1>2, <1>4, <1>6
  <2>2. "none" \notin SettingKeys
    BY KeysAre
  <2>3. DOMAIN After(r) = SettingKeys
    BY DEF After
  <2>4. QED
    BY <1>1, <1>3, <2>1, <2>2, <2>3, Refusal
<1>7. CASE Parses(layers[r]) /\ Stored(layers[r]) # DOMAIN layers[r]
  <2> DEFINE key == FirstRefused(layers[r])
             s == Assigned(After(r), layers[r], r)
             b == [rank |-> r, key |-> key]
  <2>1. key \in SettingKeys /\ key \notin Stored(layers[r])
    BY <1>4, <1>7, RefusedIsNotStored DEF LayersKnown
  <2>2. RefuseAt(Offers(r), s, b)
    BY <1>2, <1>4, <1>7
  <2>3. DOMAIN s = SettingKeys /\ s[key] = After(r)[key]
    BY <2>1 DEF Assigned
  <2>4. s[key].rank # r /\ \A c \in Offers(r)[key] : c.rank # r
    <3> HIDE DEF key
    <3>1. After(r)[key].rank \in Ranks /\ After(r)[key].rank < r
      BY <1>3, <2>1, RanksBelow
    <3>2. \A c \in Offers(r)[key] : c.rank \in Ranks /\ c.rank < r
      BY <1>3, <2>1, RanksBelow
    <3>3. QED
      BY <1>3, <2>3, <3>1, <3>2 DEF Ranks
  <2>5. b.key = key /\ b.rank = r
    OBVIOUS
  <2> HIDE DEF b, s, key
  <2>6. QED
    BY <1>1, <1>3, <2>2, <2>3, <2>4, <2>5, Refusal
<1>8. CASE Parses(layers[r]) /\ Stored(layers[r]) = DOMAIN layers[r]
  <2>1. /\ resolving' = LayerSteps[r + 1] /\ setting' = Assigned(After(r), layers[r], r)
        /\ history' = Recorded(Offers(r), setting')
    BY <1>2, <1>4, <1>8
  <2>2. setting' = After(r + 1) /\ history' = Offers(r + 1)
    BY <1>5, <1>8, <2>1, LayerApplied
  <2>3. QED
    BY <1>1, <1>3, <2>1, <2>2, NextLayer
<1>9. QED
  BY <1>6, <1>7, <1>8

-----------------------------------------------------------------------------
\* The defaults that depend on the harness change no place, and nothing that
\* some layer has set.
LEMMA DefaultsAre ==
  ASSUME NEW k \in SettingKeys
  PROVE  /\ DOMAIN WithDefaults(After(5)) = SettingKeys
         /\ WithDefaults(After(5))[k].rank = After(5)[k].rank
         /\ WithDefaults(After(5))[k] = [value |-> WithDefaults(After(5))[k].value,
                                         rank |-> WithDefaults(After(5))[k].rank]
         /\ After(5)[k].rank # 0 \/ k \notin {"model", "authProfile"}
              => WithDefaults(After(5))[k] = After(5)[k]
<1> DEFINE s == After(5)
           h == s["harness"].value
           m == IF s["model"].rank = 0 THEN [value |-> DefaultModel(h), rank |-> 0] ELSE s["model"]
           p == IF s["authProfile"].rank = 0 THEN [value |-> DefaultProfile(h), rank |-> 0]
                ELSE s["authProfile"]
<1>1. WithDefaults(s) = [s EXCEPT !["model"] = m, !["authProfile"] = p]
  BY DEF WithDefaults
<1>2. DOMAIN s = SettingKeys /\ "model" \in SettingKeys /\ "authProfile" \in SettingKeys
  BY KeysAre DEF After
<1>3. \A j \in SettingKeys : s[j] = [value |-> s[j].value, rank |-> s[j].rank]
  BY 5 \in 1..5, RanksBelow
<1>4. /\ m.rank = s["model"].rank /\ p.rank = s["authProfile"].rank
      /\ m = [value |-> m.value, rank |-> m.rank] /\ p = [value |-> p.value, rank |-> p.rank]
      /\ s["model"].rank # 0 => m = s["model"]
      /\ s["authProfile"].rank # 0 => p = s["authProfile"]
  BY <1>2, <1>3
<1> HIDE DEF m, p, s
<1>5. QED
  BY <1>1, <1>2, <1>3, <1>4 DEF s

\* A refusal at the place of a setting.
LEMMA RefusedAtSource ==
  ASSUME NEW s, NEW keys \in Seq(SettingKeys), Len(keys) <= 2, DOMAIN s = SettingKeys,
         \A k \in SettingKeys : s[k].rank = After(5)[k].rank,
         RefuseAt(Offers(5), s, FirstSource(s, keys)),
         SettingsInv, UNCHANGED <<layers, sameFile>>
  PROVE  SettingsInv'
<1> DEFINE b == FirstSource(s, keys)
<1>1. \A k \in SettingKeys : s[k].rank \in Ranks
  BY 5 \in 1..5, RanksBelow
<1>2. b.key \in SettingKeys => b.rank \in Ranks \ {0} /\ s[b.key].rank = b.rank
  <2>1. CASE b = Nowhere
    BY <2>1, KeysAre DEF Nowhere
  <2>2. CASE b # Nowhere
    BY <1>1, <2>2, SourceIsSetting DEF Ranks
  <2>3. QED
    BY <2>1, <2>2
<1> HIDE DEF b
<1>3. RefuseAt(Offers(5), s, b)
  BY DEF b
<1>4. QED
  BY <1>2, <1>3, 5 \in 1..5, Refusal

LEMMA ContextualDefaultsStep == SettingsInv /\ ContextualDefaults => SettingsInv'
<1>1. SUFFICES ASSUME SettingsInv, ContextualDefaults PROVE SettingsInv'
  OBVIOUS
<1>2. setting = After(5) /\ history = Offers(5) /\ UNCHANGED <<layers, sameFile>>
  BY <1>1, StepsAre, 5 \in 1..5 DEF SettingsInv, InLayers, ContextualDefaults
<1> DEFINE s == WithDefaults(After(5))
           Foreign(k) == OfOtherHarness(After(5), Offers(5)["harness"], k)
<1>3. \/ Foreign("model") /\ RefuseAt(Offers(5), After(5), FirstSource(After(5), <<"model">>))
      \/ RefuseAt(Offers(5), After(5), FirstSource(After(5), <<"authProfile">>))
      \/ RefuseAt(Offers(5), s, FirstSource(s, <<"model">>))
      \/ RefuseAt(Offers(5), s, FirstSource(s, <<"authProfile">>))
      \/ /\ ~Foreign("model") /\ ~Foreign("authProfile") /\ ~WrongProfile(s)
         /\ setting' = s /\ resolving' = "checks" /\ UNCHANGED history
  BY <1>1, <1>2 DEF ContextualDefaults
<1>4. /\ <<"model">> \in Seq(SettingKeys) /\ Len(<<"model">>) <= 2
      /\ <<"authProfile">> \in Seq(SettingKeys) /\ Len(<<"authProfile">>) <= 2
  BY KeysAre
<1>5. DOMAIN s = SettingKeys /\ \A k \in SettingKeys : s[k].rank = After(5)[k].rank
  BY DefaultsAre, KeysAre
<1>6. DOMAIN After(5) = SettingKeys
  BY DEF After
<1> HIDE DEF s
<1>7. CASE RefuseAt(Offers(5), After(5), FirstSource(After(5), <<"model">>))
  BY <1>1, <1>2, <1>4, <1>6, <1>7, RefusedAtSource
<1>8. CASE RefuseAt(Offers(5), After(5), FirstSource(After(5), <<"authProfile">>))
  BY <1>1, <1>2, <1>4, <1>6, <1>8, RefusedAtSource
<1>9. CASE RefuseAt(Offers(5), s, FirstSource(s, <<"model">>))
  BY <1>1, <1>2, <1>4, <1>5, <1>9, RefusedAtSource
<1>10. CASE RefuseAt(Offers(5), s, FirstSource(s, <<"authProfile">>))
  BY <1>1, <1>2, <1>4, <1>5, <1>10, RefusedAtSource
<1>11. ASSUME ~Foreign("model"), ~Foreign("authProfile"), ~WrongProfile(s),
              setting' = s, resolving' = "checks", UNCHANGED history
       PROVE  SettingsInv'
  <2>1. LayersKnown' /\ \A m : After(m)' = After(m) /\ Offers(m)' = Offers(m)
    BY <1>1, <1>2, LayersStay DEF SettingsInv
  <2>2. setting' = WithDefaults(After(5)') /\ history' = Offers(5)'
    BY <1>2, <1>11, <2>1 DEF s
  <2>3. (\A k \in {"model", "authProfile"} : ~OfOtherHarness(After(5), Offers(5)["harness"], k))'
    BY <1>11, <2>1
  <2>4. WrongProfile(setting)' = WrongProfile(s)
    BY <1>11 DEF WrongProfile
  <2>5. InLayers' /\ SettledSettings'
    BY <1>11, StepsAre DEF InLayers, SettledSettings
  <2>6. QED
    BY <1>11, <2>1, <2>2, <2>3, <2>4, <2>5 DEF SettingsInv, Defaulted
<1>12. QED
  BY <1>3, <1>7, <1>8, <1>9, <1>10, <1>11

LEMMA ObjectionIsShort ==
  ASSUME NEW s
  PROVE  NativeObjection(s) \in Seq(SettingKeys) /\ Len(NativeObjection(s)) <= 2
<1>1. /\ <<"permissionMode">> \in Seq(SettingKeys) /\ Len(<<"permissionMode">>) = 1
      /\ <<"nativeMaxTurns">> \in Seq(SettingKeys) /\ Len(<<"nativeMaxTurns">>) = 1
      /\ <<"nativeAddDirs">> \in Seq(SettingKeys) /\ Len(<<"nativeAddDirs">>) = 1
      /\ NativeKeys \in Seq(SettingKeys) /\ Len(NativeKeys) = 2
      /\ <<>> \in Seq(SettingKeys) /\ Len(<<>>) = 0
  BY KeysAre DEF NativeKeys
<1>2. NativeObjection(s) \in {<<"permissionMode">>, <<"nativeMaxTurns">>, <<"nativeAddDirs">>,
                              NativeKeys, <<>>}
  BY DEF NativeObjection
<1>3. \A x \in {<<"permissionMode">>, <<"nativeMaxTurns">>, <<"nativeAddDirs">>, NativeKeys, <<>>} :
        x \in Seq(SettingKeys) /\ Len(x) <= 2
  <2>1. 0 <= 2 /\ 1 <= 2 /\ 2 <= 2
    OBVIOUS
  <2>2. QED
    BY <1>1, <2>1, Zenon
<1> HIDE DEF NativeObjection
<1>4. QED
  BY <1>2, <1>3, Zenon

\* The canonical paths change no other setting and no place.
LEMMA RealPaths ==
  ASSUME NEW s, DOMAIN s = SettingKeys,
         s["nativeAddDirs"] = [value |-> s["nativeAddDirs"].value,
                               rank |-> s["nativeAddDirs"].rank],
         NEW k \in SettingKeys
  PROVE  /\ WithRealPaths(s)[k].rank = s[k].rank
         /\ k # "nativeAddDirs" => WithRealPaths(s)[k] = s[k]
<1>1. CASE WithRealPaths(s) = s
  BY <1>1
<1>2. CASE WithRealPaths(s) = [s EXCEPT !["nativeAddDirs"].value = "absolute"]
  BY <1>2
<1>3. QED
  BY <1>1, <1>2 DEF WithRealPaths

\* The profile that won is not left out of the candidates.
LEMMA WinnerIsKept ==
  ASSUME NEW k \in SettingKeys, SettingsInv, resolving = "checks", setting[k].rank > 0
  PROVE  /\ Choice(setting[k].rank, k) \in Sanitized(Offers(5))[k]
         /\ Shown(setting[k]) = Choice(setting[k].rank, k)
<1> DEFINE q == setting[k].rank
           h == setting["harness"]
<1>1. /\ setting = WithDefaults(After(5)) /\ ~WrongProfile(setting)
      /\ \A j \in {"model", "authProfile"} : ~OfOtherHarness(After(5), Offers(5)["harness"], j)
  BY DEF SettingsInv, Defaulted
<1>2. setting[k] = After(5)[k] /\ q = After(5)[k].rank /\ q > 0 /\ q \in Ranks
  <2>1. q = After(5)[k].rank
    BY <1>1, DefaultsAre
  <2>2. q \in Ranks /\ q # 0
    <3>1. After(5)[k].rank \in Ranks
      BY 5 \in 1..5, RanksBelow
    <3>2. QED
      BY <2>1, <3>1 DEF Ranks
  <2>3. QED
    BY <1>1, <2>1, <2>2, DefaultsAre
<1>3. q \in SettersBelow(5, k) /\ Shown(setting[k]) = Choice(q, k) /\ Choice(q, k) \in Offers(5)[k]
  BY <1>2, 5 \in 1..5, RanksBelow
<1>4. CASE k # "authProfile"
  <2>1. Sanitized(Offers(5))[k] = Offers(5)[k]
    BY <1>4 DEF Sanitized, Offers
  <2>2. QED
    BY <1>3, <2>1
<1>5. CASE k = "authProfile"
  <2>1. h = After(5)["harness"] /\ "harness" \in SettingKeys
    BY <1>1, DefaultsAre, KeysAre
  <2>2. h.rank \in Ranks /\ \A r \in Ranks : r >= h.rank => HarnessAt(r) = h.value
    <3>1. h.rank \in Ranks
      BY <2>1, 5 \in 1..5, RanksBelow
    <3>2. /\ SettersBelow(5, "harness") = Setters("harness") /\ Setters("harness") \in SUBSET (1..4)
          /\ Setters("harness") # {} =>
                /\ Max(Setters("harness")) \in Setters("harness")
                /\ \A p \in Setters("harness") : p <= Max(Setters("harness"))
      BY <2>1, 5 \in 1..5, SettersAre
    <3>3. CASE Setters("harness") = {}
      BY <2>1, <3>1, <3>2, <3>3 DEF HarnessAt, After
    <3>4. CASE Setters("harness") # {}
      <4>1. h = [value |-> layers[Max(Setters("harness"))]["harness"],
                 rank |-> Max(Setters("harness"))]
        BY <2>1, <3>2, <3>4 DEF After
      <4>2. \A r \in Ranks : r >= h.rank => {p \in Setters("harness") : p <= r} = Setters("harness")
        BY <3>2, <3>4, <4>1 DEF Ranks
      <4>3. QED
        BY <3>1, <3>4, <4>1, <4>2 DEF HarnessAt
    <3>5. QED
      BY <3>3, <3>4
  <2>3. CASE setting[k].value = "none"
    <3>1. Choice(q, k).value = "none" /\ DOMAIN Offers(5) = SettingKeys
      BY <1>3, <2>3 DEF Shown, Choice, Offers
    <3>2. QED
      BY <1>3, <1>5, <3>1 DEF Sanitized
  <2>4. CASE setting[k].value # "none"
    <3>1. Fits(h.value, setting[k].value)
      BY <1>1, <1>5, <2>4 DEF WrongProfile
    <3>2. HarnessOwner(Offers(5)["harness"], q) = h.value
      <4>1. CASE q < h.rank
        BY <1>1, <1>2, <1>5, <2>1, <2>4, <4>1 DEF OfOtherHarness
      <4>2. CASE q >= h.rank
        BY <1>2, <2>2, <4>2, OwnerIsChosen
      <4>3. QED
        BY <1>2, <2>2, <4>1, <4>2 DEF Ranks
    <3>3. /\ Choice(q, k).value = setting[k].value /\ Choice(q, k).rank = q
          /\ DOMAIN Offers(5) = SettingKeys
      BY <1>3 DEF Shown, Choice, Offers
    <3>4. QED
      BY <1>3, <1>5, <3>1, <3>2, <3>3 DEF Sanitized
  <2>5. QED
    BY <2>3, <2>4
<1>6. QED
  BY <1>3, <1>4, <1>5

\* What a resolution that passed its checks comes to.
LEMMA NativeChecksStep == SettingsInv /\ NativeChecks => SettingsInv'
<1>1. SUFFICES ASSUME SettingsInv, NativeChecks PROVE SettingsInv'
  OBVIOUS
<1> DEFINE S == WithDefaults(After(5))
           W == WithRealPaths(S)
<1>2. /\ resolving = "checks" /\ setting = S /\ history = Offers(5)
      /\ UNCHANGED <<layers, sameFile>>
      /\ \A k \in {"model", "authProfile"} : ~OfOtherHarness(After(5), Offers(5)["harness"], k)
      /\ ~WrongProfile(S)
  BY <1>1 DEF NativeChecks, SettingsInv, Defaulted
<1>3. /\ DOMAIN S = SettingKeys /\ \A k \in SettingKeys : S[k].rank = After(5)[k].rank
      /\ \A k \in SettingKeys : After(5)[k].rank # 0 \/ k \notin {"model", "authProfile"}
                                  => S[k] = After(5)[k]
      /\ "nativeAddDirs" \in SettingKeys /\ "harness" \in SettingKeys
      /\ "model" \in SettingKeys /\ "authProfile" \in SettingKeys
      /\ S["nativeAddDirs"] = [value |-> S["nativeAddDirs"].value, rank |-> S["nativeAddDirs"].rank]
  BY DefaultsAre, KeysAre
<1>4. \/ RefuseAt(Offers(5), S, FirstSource(S, NativeObjection(S)))
      \/ setting' = W /\ history' = Finalized(Sanitized(Offers(5)), W) /\ resolving' = "done"
  BY <1>1, <1>2 DEF NativeChecks
<1> HIDE DEF S
<1>5. CASE RefuseAt(Offers(5), S, FirstSource(S, NativeObjection(S)))
  BY <1>1, <1>2, <1>3, <1>5, ObjectionIsShort, RefusedAtSource
<1>6. ASSUME setting' = W, history' = Finalized(Sanitized(Offers(5)), W), resolving' = "done"
      PROVE  SettingsInv'
  <2>1. /\ \A k \in SettingKeys : W[k].rank = S[k].rank
        /\ \A k \in SettingKeys \ {"nativeAddDirs"} : W[k] = S[k]
    BY <1>3, RealPaths
  <2> HIDE DEF W
  <2>2. \A k : (Setters(k))' = Setters(k)
    BY <1>2 DEF Setters
  <2>3. ASSUME NEW k \in SettingKeys
        PROVE  /\ W[k].rank = After(5)[k].rank /\ W[k].rank \in Ranks
               /\ k # "nativeAddDirs" /\ W[k].rank # 0 => W[k] = After(5)[k]
               /\ Setters(k) = {} => W[k].rank = 0
               /\ Setters(k) # {} => /\ W[k].rank = Max(Setters(k)) /\ W[k].rank \in Setters(k)
                                     /\ After(5)[k].value = layers[W[k].rank][k]
                                     /\ W[k].rank # 0
    <3>1. W[k].rank = After(5)[k].rank /\ After(5)[k].rank \in Ranks
      BY <1>3, <2>1, <2>3, 5 \in 1..5, RanksBelow
    <3>2. k # "nativeAddDirs" /\ W[k].rank # 0 => W[k] = After(5)[k]
      BY <1>3, <2>1, <2>3, <3>1
    <3>3. After(5)[k] = IF Setters(k) = {} THEN BuiltIn[k]
                        ELSE [value |-> layers[Max(Setters(k))][k], rank |-> Max(Setters(k))]
      BY <2>3, 5 \in 1..5, SettersAre DEF After
    <3>4. /\ Setters(k) # {} => Max(Setters(k)) \in Setters(k)
          /\ Setters(k) \subseteq 1..4 /\ BuiltIn[k].rank = 0
      BY <2>3, 5 \in 1..5, SettersAre DEF BuiltIn
    <3>5. CASE Setters(k) = {}
      BY <3>1, <3>2, <3>3, <3>4, <3>5
    <3>6. CASE Setters(k) # {}
      <4> DEFINE top == Max(Setters(k))
      <4>1. After(5)[k] = [value |-> layers[top][k], rank |-> top] /\ top \in Setters(k)
        BY <3>3, <3>4, <3>6
      <4> HIDE DEF top
      <4>2. After(5)[k].rank = top /\ After(5)[k].value = layers[top][k]
        BY <4>1
      <4>3. top # 0
        BY <3>4, <4>1
      <4>4. QED
        BY <3>1, <3>2, <3>6, <4>1, <4>2, <4>3 DEF top
    <3>7. QED
      BY <3>5, <3>6
  <2>5. HighestWins'
    <3>1. SUFFICES ASSUME NEW k \in SettingKeys
                   PROVE  IF Setters(k) = {} THEN W[k].rank = 0
                          ELSE /\ W[k].rank = Max(Setters(k))
                               /\ k # "nativeAddDirs" => W[k].value = layers[Max(Setters(k))][k]
      BY <1>2, <1>6, <2>2 DEF HighestWins
    <3>2. QED
      BY <2>3
  <2>6. NoForeignSelection'
    <3>1. \A r \in Ranks : HarnessAt(r)' = HarnessAt(r)
      BY <1>2, <2>2 DEF HarnessAt
    <3>2. W["harness"] = S["harness"] /\ S["harness"] = After(5)["harness"]
          /\ W["authProfile"] = S["authProfile"]
      BY <1>3, <2>1
    <3>3. ASSUME NEW k \in {"model", "authProfile"},
                 W[k].rank > 0, ~(W[k].rank >= W["harness"].rank)
          PROVE  HarnessAt(W[k].rank) = W["harness"].value
      <4>1. k \in SettingKeys /\ k # "nativeAddDirs"
        BY <1>3, <3>3
      <4>2. /\ W[k] = After(5)[k] /\ W[k].rank \in Ranks /\ W["harness"].rank \in Ranks
            /\ Setters(k) # {}
        <5>1. W[k].rank \in Ranks /\ W["harness"].rank \in Ranks
          BY <1>3, <2>3, <4>1
        <5>2. W[k].rank # 0
          BY <3>3, <5>1 DEF Ranks
        <5>3. QED
          BY <2>3, <4>1, <5>1, <5>2
      <4>3. W[k].value # "none"
        <5>1. W[k].rank \in Setters(k) /\ W[k].value = layers[W[k].rank][k]
          BY <2>3, <4>1, <4>2
        <5>2. LayersKnown
          BY <1>1 DEF SettingsInv
        <5>3. W[k].rank \in 1..4 /\ Parses(layers[W[k].rank]) /\ k \in DOMAIN layers[W[k].rank]
          BY <5>1 DEF Setters
        <5>4. QED
          BY <5>1, <5>2, <5>3 DEF LayersKnown
      <4>4. HarnessOwner(Offers(5)["harness"], W[k].rank) = W["harness"].value
        BY <1>2, <3>2, <3>3, <4>2, <4>3 DEF OfOtherHarness, Ranks
      <4>5. QED
        BY <4>2, <4>4, OwnerIsChosen
    <3>4. W["authProfile"].value # "none" => Fits(W["harness"].value, W["authProfile"].value)
      BY <1>2, <3>2 DEF WrongProfile
    <3>5. \A k \in {"model", "authProfile"} : W[k].rank \in Ranks
      BY <1>3, <2>3
    <3>6. QED
      BY <1>6, <3>1, <3>3, <3>4, <3>5 DEF NoForeignSelection
  <2>7. ASSUME NEW k \in SettingKeys \ {"nativeAddDirs"}
        PROVE  \E c \in history'[k] : Selected(k)' = {c} /\ c.value = setting'[k].value
    <3> DEFINE h == Sanitized(Offers(5))[k]
               win == Shown(W[k])
               shown == IF W[k].rank = 0 THEN {c \in h : c.rank # 0} \cup {win} ELSE h
    <3>1. history'[k] = {Marked(c, W[k]) : c \in shown}
      BY <1>6, <2>7 DEF Finalized
    <3>2. h \subseteq Offers(5)[k]
      BY <2>7 DEF Sanitized, Offers
    <3>3. win = [value |-> win.value, rank |-> win.rank, selected |-> FALSE]
          /\ win.value = W[k].value
      BY DEF Shown
    <3>4. \A c \in shown : c = [value |-> c.value, rank |-> c.rank, selected |-> FALSE]
      BY <2>7, <3>2, <3>3, 5 \in 1..5, RanksBelow
    <3>5. win \in shown
      <4>1. CASE W[k].rank = 0
        BY <4>1
      <4>2. CASE W[k].rank # 0
        <5>1. W[k] = setting[k] /\ setting[k].rank > 0
          <6>1. W[k].rank \in Ranks /\ W[k] = S[k]
            BY <2>1, <2>3, <2>7
          <6>2. W[k].rank > 0
            BY <4>2, <6>1 DEF Ranks
          <6>3. QED
            BY <1>2, <6>1, <6>2
        <5>2. win \in h
          BY <1>1, <1>2, <2>7, <5>1, WinnerIsKept
        <5>3. QED
          BY <4>2, <5>2
      <4>3. QED
        BY <4>1, <4>2
    <3> HIDE DEF shown, win, h
    <3>6. \A c \in shown : /\ Marked(c, W[k]).selected = (win = c)
                           /\ Marked(c, W[k]).value = c.value
      BY <3>4, MarkedAre DEF win
    <3>7. Selected(k)' = {c \in history'[k] : c.selected}
      BY DEF Selected
    <3>8. Selected(k)' = {Marked(win, W[k])}
      <4>1. ASSUME NEW m \in history'[k], m.selected PROVE m = Marked(win, W[k])
        <5>1. PICK c \in shown : m = Marked(c, W[k])
          BY <3>1
        <5>2. win = c
          BY <3>6, <4>1, <5>1
        <5>3. QED
          BY <5>1, <5>2
      <4>2. Marked(win, W[k]) \in history'[k] /\ Marked(win, W[k]).selected
        BY <3>1, <3>5, <3>6
      <4>3. QED
        BY <3>7, <4>1, <4>2
    <3>9. QED
      <4>1. Marked(win, W[k]) \in history'[k] /\ Marked(win, W[k]).value = setting'[k].value
        BY <1>6, <3>1, <3>3, <3>5, <3>6
      <4>2. QED
        BY <3>8, <4>1
  <2>8. LayersKnown' /\ InLayers' /\ Defaulted'
    BY <1>1, <1>2, <1>6, StepsAre, LayersStay DEF SettingsInv, InLayers, Defaulted
  <2>9. SettledSettings'
    BY <1>6, <2>5, <2>6, <2>7 DEF SettledSettings
  <2>10. QED
    BY <2>8, <2>9 DEF SettingsInv
<1>7. QED
  BY <1>4, <1>5, <1>6

LEMMA SettingsKept == SettingsInv /\ [SettingsNext]_settingsVars => SettingsInv'
<1>1. SettingsInv /\ UNCHANGED settingsVars => SettingsInv'
  <2>1. SUFFICES ASSUME SettingsInv, UNCHANGED settingsVars PROVE SettingsInv'
    OBVIOUS
  <2>2. LayersKnown' /\ \A m : After(m)' = After(m) /\ Offers(m)' = Offers(m)
    BY <2>1, LayersStay DEF SettingsInv, settingsVars
  <2>3. UNCHANGED <<layers, sameFile, resolving, setting, history, blame>>
    BY <2>1 DEF settingsVars
  <2>4. InLayers'
    BY <2>1, <2>2, <2>3 DEF SettingsInv, InLayers
  <2>5. Defaulted'
    BY <2>1, <2>2, <2>3 DEF SettingsInv, Defaulted, WrongProfile
  <2>6. SettledSettings'
    BY <2>1, <2>3 DEF SettingsInv, SettledSettings, HighestWins, NoForeignSelection, Selected,
       Setters, HarnessAt
  <2>7. QED
    BY <2>2, <2>4, <2>5, <2>6 DEF SettingsInv
<1>2. QED
  BY <1>1, SkipUserFileStep, ApplyLayerStep, ContextualDefaultsStep, NativeChecksStep
     DEF SettingsNext

\* However its layers set them, a command runs with the settings of the highest
\* layers that set them, with no model or profile that was chosen for another
\* harness, and the report marks as selected what it runs with; a report of a
\* refusal never shows the refused value (config.rs resolve_config_inner).
THEOREM SettingsSettled == SettingsSpec => []SettledSettings
<1>1. SettingsSpec => []SettingsInv
  BY SettingsStart, SettingsKept, PTL DEF SettingsSpec
<1>2. SettingsInv => SettledSettings
  BY DEF SettingsInv
<1>3. QED
  BY <1>1, <1>2, PTL
=============================================================================
