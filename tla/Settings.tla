------------------------------- MODULE Settings --------------------------------
(***************************************************************************)
(* Resolution of the settings of one command from its layers, and the       *)
(* report that explains the outcome or the refusal.                         *)
(***************************************************************************)
EXTENDS SettingRules

CONSTANTS
    UserFiles, ProjectFiles, Environments, FlagLists   \* what each layer may set

\* A layer that parses sets known keys; it cannot set a setting to nothing.
ASSUME SettingsAssumption ==
    \A layer \in UserFiles \cup ProjectFiles \cup Environments \cup FlagLists :
        Parses(layer) => DOMAIN layer \subseteq SettingKeys
                         /\ \A k \in DOMAIN layer : layer[k] # "none"

VARIABLES
    layers,      \* the contents of the four layers
    sameFile,    \* the user file and the project file are one physical file
    resolving,   \* the layer to apply next, or the step after the layers
    setting,     \* the resolution
    history,     \* the values each setting has had, at most one of each layer
    blame        \* the place of the first error

settingsVars == <<layers, sameFile, resolving, setting, history, blame>>

Ranks == 0..4
LayerSteps == <<"user", "project", "environment", "flags", "defaults", "checks", "done">>
AtLayer == {r \in 1..4 : resolving = LayerSteps[r]}   \* its rank, if a layer is next
Shown(v) == [value |-> v.value, rank |-> v.rank, selected |-> FALSE]

SettingsInit ==
    /\ layers \in UserFiles \X ProjectFiles \X Environments \X FlagLists
    /\ sameFile \in {b \in BOOLEAN : b => layers[1] = layers[2]}
    /\ resolving = LayerSteps[1]
    /\ setting = BuiltIn
    /\ history = [k \in SettingKeys |-> {Shown(BuiltIn[k])}]
    /\ blame = Nowhere

-----------------------------------------------------------------------------
\* One candidate per value and source; an unchanged setting adds none.
Recorded(h, s) == [k \in SettingKeys |-> h[k] \cup {Shown(s[k])}]

\* The built-in candidate shows the contextual default; the candidate that
\* agrees with the resolution is the selected one.
Marked(c, v) == [c EXCEPT !.selected = Shown(v) = [c EXCEPT !.selected = FALSE]]
Finalized(h, s) ==
    [k \in SettingKeys |->
        LET shown == IF s[k].rank = 0 THEN {c \in h[k] : c.rank # 0} \cup {Shown(s[k])} ELSE h[k]
        IN {Marked(c, s[k]) : c \in shown}]

\* Overridden profiles that do not fit the harness they were chosen with are
\* left out.
Sanitized(h) ==
    [h EXCEPT !["authProfile"] =
        {c \in @ : c.value = "none" \/ Fits(HarnessOwner(h["harness"], c.rank), c.value)}]

\* A report of a failure shows, instead of a value that comes from the place
\* of the error, the one it had before.
Partially(h, s, b) ==
    LET final == Finalized(h, s)
        kept == {c \in final[b.key] : c.rank # b.rank}
        last == Topmost(kept)
    IN IF b.rank > 0 /\ b.key \in SettingKeys /\ s[b.key].rank = b.rank
       THEN [values |-> [s EXCEPT ![b.key] = [value |-> last.value, rank |-> last.rank]],
             candidates |-> [final EXCEPT ![b.key] =
                                 {[c EXCEPT !.selected = c = last] : c \in kept}]]
       ELSE [values |-> s, candidates |-> final]

RefuseAt(h, s, b) ==
    /\ resolving' = "failed"
    /\ blame' = b
    /\ LET report == Partially(h, s, b)
       IN setting' = report.values /\ history' = report.candidates

-----------------------------------------------------------------------------
\* One physical file in both roles is the project's.
SkipUserFile ==
    /\ resolving = "user" /\ sameFile
    /\ resolving' = "project"
    /\ UNCHANGED <<layers, sameFile, setting, history, blame>>

ApplyLayer ==
    /\ ~(resolving = "user" /\ sameFile)
    /\ \E r \in AtLayer :
        LET layer == layers[r]
        IN IF ~Parses(layer)
           THEN RefuseAt(history, setting, [rank |-> r, key |-> "none"])
           ELSE LET s == Assigned(setting, layer, r)
                IN IF Stored(layer) # DOMAIN layer
                   THEN RefuseAt(history, s, [rank |-> r, key |-> FirstRefused(layer)])
                   ELSE /\ resolving' = LayerSteps[r + 1]
                        /\ setting' = s
                        /\ history' = Recorded(history, s)
                        /\ UNCHANGED blame
    /\ UNCHANGED <<layers, sameFile>>

ContextualDefaults ==
    /\ resolving = "defaults"
    /\ LET Foreign(k) == OfOtherHarness(setting, history["harness"], k)
           s == WithDefaults(setting)
       IN IF Foreign("model") THEN RefuseAt(history, setting, FirstSource(setting, <<"model">>))
          ELSE IF Foreign("authProfile")
          THEN RefuseAt(history, setting, FirstSource(setting, <<"authProfile">>))
          ELSE IF Unqualified(s) THEN RefuseAt(history, s, FirstSource(s, <<"model">>))
          ELSE IF WrongProfile(s) THEN RefuseAt(history, s, FirstSource(s, <<"authProfile">>))
          ELSE /\ setting' = s
               /\ resolving' = "checks"
               /\ UNCHANGED <<history, blame>>
    /\ UNCHANGED <<layers, sameFile>>

NativeChecks ==
    /\ resolving = "checks"
    /\ LET against == NativeObjection(setting)
           s == WithRealPaths(setting)
       IN IF against # <<>> THEN RefuseAt(history, setting, FirstSource(setting, against))
          ELSE /\ setting' = s
               /\ history' = Finalized(Sanitized(history), s)
               /\ resolving' = "done"
               /\ UNCHANGED blame
    /\ UNCHANGED <<layers, sameFile>>

SettingsNext == SkipUserFile \/ ApplyLayer \/ ContextualDefaults \/ NativeChecks

SettingsSpec == SettingsInit /\ [][SettingsNext]_settingsVars

-----------------------------------------------------------------------------
SettingsTypeOK ==
    /\ resolving \in {LayerSteps[i] : i \in DOMAIN LayerSteps} \cup {"failed"}
    /\ \A k \in SettingKeys :
        /\ setting[k].rank \in Ranks
        /\ history[k] # {}
        /\ \A c \in history[k] : c.rank \in Ranks
    /\ blame.rank \in Ranks

\* The layers that count for a key, and the harness chosen at or below a layer.
Setters(k) ==
    {r \in 1..4 : Parses(layers[r]) /\ k \in DOMAIN layers[r] /\ ~(r = 1 /\ sameFile)}
HarnessAt(r) ==
    LET below == {q \in Setters("harness") : q <= r}
    IN IF below = {} THEN BuiltIn["harness"].value ELSE layers[Max(below)]["harness"]

\* A setting has the value of the highest layer that sets it.
HighestWins ==
    \A k \in SettingKeys :
        IF Setters(k) = {} THEN setting[k].rank = 0
        ELSE /\ setting[k].rank = Max(Setters(k))
             /\ k # "nativeAddDirs" => setting[k].value = layers[Max(Setters(k))][k]

\* No command runs with a model or a profile that was chosen for another harness,
\* or with a profile its harness does not know.
NoForeignSelection ==
    /\ \A k \in {"model", "authProfile"} :
        setting[k].rank > 0 =>
            \/ setting[k].rank >= setting["harness"].rank
            \/ HarnessAt(setting[k].rank) = setting["harness"].value
    /\ setting["authProfile"].value # "none" =>
            Fits(setting["harness"].value, setting["authProfile"].value)

Selected(k) == {c \in history[k] : c.selected}

\* What a successful resolution says of itself is what the command runs with
\* (config.rs:1033-1498); what a failed one shows is never the refused value.
SettledSettings ==
    /\ resolving = "done" =>
        /\ HighestWins
        /\ NoForeignSelection
        /\ \A k \in SettingKeys \ {"nativeAddDirs"} :
            \E c \in history[k] : Selected(k) = {c} /\ c.value = setting[k].value
    /\ resolving = "failed" /\ blame.key \in SettingKeys =>
        /\ setting[blame.key].rank # blame.rank
        /\ \A c \in history[blame.key] : c.rank # blame.rank
=============================================================================
