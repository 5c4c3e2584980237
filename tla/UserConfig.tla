------------------------------ MODULE UserConfig -------------------------------
(***************************************************************************)
(* The commands that change the user's configuration file: harness use,     *)
(* config unset and config migrate, side by side with each other, with an   *)
(* editor, and with kills.  A text is a function from the keys its lines    *)
(* assign to their values; "note" stands for every other line.              *)
(***************************************************************************)
EXTENDS SettingRules

CONSTANTS
    ConfigWriters,   \* commands
    Bundles,         \* bundles given to harness use: functions from some bundle keys
    UnsetLists,      \* sets of keys given to config unset
    ConfigTexts,           \* what an editor writes, and what is there at first
    MaxEdits,        \* an editor's changes
    NoText           \* no such file

VARIABLES
    canonical,   \* the user's file, ~/.prose/cli.toml
    legacy,      \* the file of earlier releases
    canonicalBy, \* who put the canonical file there: a command or "editor"
    writer,      \* the commands
    edits

configVars == <<canonical, legacy, canonicalBy, writer, edits>>

Bundle == {"harness", "model", "authProfile"}

\* harness use is given lines of the bundle.
ConfigAssumption ==
    \A c \in Bundles : DOMAIN c \subseteq Bundle /\ c = [k \in DOMAIN c |-> c[k]]
ASSUME ConfigAssumption

WholeFile(t) == [text |-> t, whole |-> TRUE]
ConfigFiles == {NoText} \cup {WholeFile(t) : t \in ConfigTexts}

\* source: the file the command works from; text: the bytes it has read, and
\* then those it is going to publish; read: the bytes it has read.
IdleWriter == [at |-> "idle", op |-> "none", given |-> {}, source |-> "none",
         read |-> NoText, text |-> NoText, checked |-> NoText, temp |-> NoText]

ConfigInit ==
    /\ canonical \in ConfigFiles /\ legacy \in ConfigFiles
    /\ canonicalBy = "editor"
    /\ writer = [w \in ConfigWriters |-> IdleWriter]
    /\ edits = 0

-----------------------------------------------------------------------------
AtStep(w, at) == writer[w].at = at
WriterGoes(w, r) == writer' = [writer EXCEPT ![w] = r]
MovesTo(w, at) == WriterGoes(w, [writer[w] EXCEPT !.at = at])
WriterRests == {"idle", "changed", "unchanged", "refused", "failed", "killed"}

Lines(text, keys) == [k \in DOMAIN text \cap keys |-> text[k]]
Settable(text) == IF Parses(text) THEN Lines(text, SettingKeys) ELSE text
SourceOf(w) == IF writer[w].source = "canonical" THEN canonical ELSE legacy

\* Mutation of Chosen: a line of the bundle stays if nothing replaces it.
ChosenPartly(text, choice) ==
    [k \in DOMAIN text \cup DOMAIN choice |-> IF k \in DOMAIN choice THEN choice[k] ELSE text[k]]

\* The lines of the bundle are replaced as one, all others stay.
Chosen(text, choice) ==
    [k \in (DOMAIN text \ Bundle) \cup DOMAIN choice |->
        IF k \in DOMAIN choice THEN choice[k] ELSE text[k]]

StartConfigCommand(w) ==
    /\ AtStep(w, "idle")
    /\ \/ \E c \in Bundles :
            WriterGoes(w, [IdleWriter EXCEPT !.at = "resolve", !.op = "use", !.given = c])
       \/ \E ks \in UnsetLists :
            WriterGoes(w, [IdleWriter EXCEPT !.at = "choose", !.op = "unset", !.given = ks])
       \/ WriterGoes(w, [IdleWriter EXCEPT !.at = "vacant", !.op = "migrate", !.source = "legacy"])
    /\ UNCHANGED <<canonical, legacy, canonicalBy, edits>>

\* harness use resolves the settings first, with the file as it is.
ResolveBefore(w) ==
    /\ AtStep(w, "resolve")
    /\ LET active == IF canonical # NoText THEN canonical ELSE legacy
       IN MovesTo(w, IF active # NoText /\ ~Acceptable(Settable(active.text))
                   THEN "refused" ELSE "choose")
    /\ UNCHANGED <<canonical, legacy, canonicalBy, edits>>

ChooseSource(w) ==
    /\ AtStep(w, "choose")
    /\ WriterGoes(w, [writer[w] EXCEPT !.at = "read",
                                 !.source = IF canonical = NoText /\ legacy # NoText
                                            THEN "legacy" ELSE "canonical"])
    /\ UNCHANGED <<canonical, legacy, canonicalBy, edits>>

\* migrate never overwrites: an existing file ends it.
LookForVacancy(w) ==
    /\ AtStep(w, "vacant")
    /\ MovesTo(w, IF canonical = NoText THEN "read" ELSE "refused")
    /\ UNCHANGED <<canonical, legacy, canonicalBy, edits>>

-----------------------------------------------------------------------------
\* What a command makes of the bytes it reads: where it goes, and the new text.
Handled(at, read, text) == [at |-> at, read |-> read, text |-> text]

UseOf(w, text) ==
    LET new == Chosen(text, writer[w].given)
    IN IF ~Parses(text) \/ Stored(Settable(text)) # DOMAIN Settable(text)
       THEN Handled("refused", text, text)
       ELSE IF Lines(text, Bundle) = writer[w].given /\ writer[w].source = "canonical"
       THEN Handled("unchanged", text, text)
       ELSE Handled(IF Acceptable(Settable(new)) THEN "write" ELSE "refused", text, new)

UnsetOf(w, text) ==
    IF ~Parses(text) THEN Handled("refused", text, text)
    ELSE LET new == Lines(text, DOMAIN text \ writer[w].given)
         IN Handled(CASE ~Acceptable(Settable(new)) -> "refused" [] new = text -> "unchanged"
                      [] OTHER -> "write", text, new)

\* A file that is gone is an empty one for use, and nothing to do for unset.
ReadSource(w) ==
    /\ AtStep(w, "read")
    /\ LET text == SourceOf(w).text
           r == CASE SourceOf(w) = NoText /\ writer[w].op = "use" -> UseOf(w, <<>>)
                  [] SourceOf(w) = NoText /\ writer[w].op = "unset" ->
                       Handled("unchanged", NoText, NoText)
                  [] SourceOf(w) = NoText /\ writer[w].op = "migrate" ->
                       Handled("refused", NoText, NoText)
                  [] SourceOf(w) # NoText /\ writer[w].op = "use" -> UseOf(w, text)
                  [] SourceOf(w) # NoText /\ writer[w].op = "unset" -> UnsetOf(w, text)
                  [] OTHER -> Handled("reread", text, text)
       IN WriterGoes(w, [writer[w] EXCEPT !.at = r.at, !.read = r.read,
                                       !.text = r.text, !.checked = r.text])
    /\ UNCHANGED <<canonical, legacy, canonicalBy, edits>>

\* migrate validates what it reads a second time, and copies the first.
ReadAgain(w) ==
    /\ AtStep(w, "reread")
    /\ IF legacy = NoText \/ ~Acceptable(Settable(legacy.text)) THEN MovesTo(w, "refused")
       ELSE WriterGoes(w, [writer[w] EXCEPT !.at = "write", !.checked = legacy.text])
    /\ UNCHANGED <<canonical, legacy, canonicalBy, edits>>

-----------------------------------------------------------------------------
\* The temporary file has a name of its own, and its directory may refuse it.
WriteTemp(w) ==
    /\ AtStep(w, "write")
    /\ \/ WriterGoes(w, [writer[w] EXCEPT !.at = "sync",
                                         !.temp = [text |-> writer[w].text, whole |-> FALSE]])
       \/ MovesTo(w, "failed")
    /\ UNCHANGED <<canonical, legacy, canonicalBy, edits>>

WriterFails(w) == WriterGoes(w, [writer[w] EXCEPT !.at = "failed", !.temp = NoText])

SyncTemp(w) ==
    /\ AtStep(w, "sync")
    /\ \/ WriterGoes(w, [writer[w] EXCEPT !.at = "install", !.temp.whole = TRUE])
       \/ WriterFails(w)
    /\ UNCHANGED <<canonical, legacy, canonicalBy, edits>>

\* Mutation of InstallFile: the text always replaces the file.
InstallFileOver(w) ==
    /\ AtStep(w, "install")
    /\ canonical' = writer[w].temp /\ canonicalBy' = w
    /\ WriterGoes(w, [writer[w] EXCEPT !.at = "changed", !.temp = NoText])
    /\ UNCHANGED <<legacy, edits>>

\* A text made from the canonical file replaces it; any other is linked, which
\* fails where a file has appeared.
InstallFile(w) ==
    /\ AtStep(w, "install")
    /\ IF writer[w].source = "canonical"
       THEN /\ canonical' = writer[w].temp /\ canonicalBy' = w
            /\ WriterGoes(w, [writer[w] EXCEPT !.at = "changed", !.temp = NoText])
       ELSE IF canonical = NoText
       THEN /\ canonical' = writer[w].temp /\ canonicalBy' = w
            /\ MovesTo(w, "unlink")
       ELSE /\ WriterFails(w)
            /\ UNCHANGED <<canonical, canonicalBy>>
    /\ UNCHANGED <<legacy, edits>>

\* A temporary name that stays is reported as a failure, although the file is there.
UnlinkTemp(w) ==
    /\ AtStep(w, "unlink")
    /\ \/ WriterGoes(w, [writer[w] EXCEPT !.at = "changed", !.temp = NoText])
       \/ MovesTo(w, "failed")
    /\ UNCHANGED <<canonical, legacy, canonicalBy, edits>>

KillCommand(w) ==
    /\ writer[w].at \notin WriterRests
    /\ MovesTo(w, "killed")
    /\ UNCHANGED <<canonical, legacy, canonicalBy, edits>>

\* An editor, or another program, writes or removes either file.
EditFile ==
    /\ edits < MaxEdits /\ edits' = edits + 1
    /\ \/ canonical' \in ConfigFiles /\ canonicalBy' = "editor" /\ UNCHANGED legacy
       \/ legacy' \in ConfigFiles /\ UNCHANGED <<canonical, canonicalBy>>
    /\ UNCHANGED writer

ConfigNext ==
    \/ \E w \in ConfigWriters :
        \/ StartConfigCommand(w) \/ ResolveBefore(w) \/ ChooseSource(w) \/ LookForVacancy(w)
        \/ ReadSource(w) \/ ReadAgain(w)
        \/ WriteTemp(w) \/ SyncTemp(w) \/ InstallFile(w) \/ UnlinkTemp(w) \/ KillCommand(w)
    \/ EditFile

ConfigSpec == ConfigInit /\ [][ConfigNext]_configVars

-----------------------------------------------------------------------------
ConfigTypeOK ==
    /\ canonical = NoText \/ canonical.whole \in BOOLEAN
    /\ legacy \in ConfigFiles
    /\ canonicalBy \in ConfigWriters \cup {"editor"}
    /\ \A w \in ConfigWriters :
        /\ writer[w].at \in WriterRests \cup {"resolve", "choose", "vacant", "read", "reread",
                                          "write", "sync", "install", "unlink"}
        /\ writer[w].op \in {"none", "use", "unset", "migrate"}
    /\ edits \in 0..MaxEdits

\* The keys a command may touch.
Touched(c) == CASE c.op = "use" -> Bundle [] c.op = "unset" -> c.given [] OTHER -> {}

\* Whatever runs side by side or is killed, the file a command leaves is whole,
\* resolves by itself, has one bundle as it was chosen, and keeps every other
\* line the command has read (config.rs:273-559); migrate vouches only for a
\* legacy file that nobody edits while it runs.
UserFileIsSound ==
    canonical # NoText =>
        /\ canonical.whole
        /\ canonicalBy # "editor" =>
            LET c == writer[canonicalBy]
                read == c.read
                now == canonical.text
            IN /\ c.checked = c.text => Acceptable(Settable(now))
               /\ now # Malformed /\ read # Malformed =>
                   /\ c.op = "use" => Lines(now, Bundle) = c.given
                   /\ \A k \in (DOMAIN now \cup DOMAIN read) \ Touched(c) :
                        k \in DOMAIN now \cap DOMAIN read /\ now[k] = read[k]

\* The legacy file is never touched, and a file of the user's is replaced by
\* nothing but a command that worked from it: what is made from the legacy file
\* never overwrites it (config.rs:403-443).
UserFileKept ==
    [][/\ legacy' # legacy => edits' # edits
       /\ canonical # NoText /\ canonical' # canonical =>
            \/ edits' # edits
            \/ \E w \in ConfigWriters : writer[w] # writer'[w] /\ writer[w].source = "canonical"
      ]_configVars
=============================================================================
