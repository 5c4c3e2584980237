----------------------------- MODULE SettingRules ------------------------------
(***************************************************************************)
(* The rules of the settings: what a value of its own is refused for, the   *)
(* defaults that depend on the harness, and the checks across settings.     *)
(* Eight of the nineteen settings stand for all: two that belong to a       *)
(* harness, three that only some harnesses take, a list, and a plain one.   *)
(* A layer is a function from the keys it sets to their values, or          *)
(* Malformed; a resolution is a function from every key to a value and the  *)
(* rank of the layer it comes from: 0 built in, 1 user file, 2 project      *)
(* file, 3 environment, 4 flags.                                            *)
(***************************************************************************)
EXTENDS Naturals, Sequences, FiniteSetsExt

CONSTANT Malformed   \* a file that is not flat TOML of known keys

\* In the order of SETTINGS.
KeyOrder == <<"harness", "model", "timeout", "permissionMode", "nativeMaxTurns",
              "nativeProfile", "nativeAddDirs", "authProfile">>
SettingKeys == {KeyOrder[i] : i \in DOMAIN KeyOrder}

\* The lines are known bare keys with strings, booleans or lists of strings.
Parses(file) == file # Malformed

BuiltIn ==
    [k \in SettingKeys |->
        [value |-> CASE k = "harness" -> "agents-sdk" [] k = "timeout" -> "10m"
                     [] k = "nativeProfile" -> "default" [] OTHER -> "none",
         rank |-> 0]]

\* What a value is refused for whatever the other settings are.
RefusedValue(k, v) ==
    \/ v = "empty"
    \/ k = "harness" /\ v \notin {"openprose", "agents-sdk", "omp", "codex", "claude"}
    \/ k = "timeout" /\ v = "0m"

\* The keys of a layer that are stored: those before the first refused one.
Stored(layer) ==
    {k \in DOMAIN layer : \E i \in DOMAIN KeyOrder :
        KeyOrder[i] = k /\ \A j \in 1..i : KeyOrder[j] \in DOMAIN layer =>
                                              ~RefusedValue(KeyOrder[j], layer[KeyOrder[j]])}
Assigned(s, layer, rank) ==
    [k \in SettingKeys |->
        IF k \in Stored(layer) THEN [value |-> layer[k], rank |-> rank] ELSE s[k]]

FirstRefused(layer) ==
    KeyOrder[Min({i \in DOMAIN KeyOrder : KeyOrder[i] \in DOMAIN layer \ Stored(layer)})]

-----------------------------------------------------------------------------
\* openprose has no adapter, and takes any profile.
HasAdapter(h) == h # "openprose"
Fits(h, profile) ==
    HasAdapter(h) =>
        profile \in CASE h = "codex" -> {"cached-chatgpt-login", "openai-api-key"}
                      [] h = "claude" -> {"claude-subscription"}
                      [] h = "omp" -> {"omp-harness-login"}
                      [] OTHER -> {"openai-api-key"}

DefaultModel(h) == IF h = "agents-sdk" THEN "gpt-6.1-sol" ELSE "none"
DefaultProfile(h) ==
    CASE h = "agents-sdk" -> "openai-api-key" [] h = "codex" -> "cached-chatgpt-login"
      [] h = "claude" -> "claude-subscription" [] OTHER -> "none"

WithDefaults(s) ==
    LET h == s["harness"].value
        Fill(k, v) == IF s[k].rank = 0 THEN [value |-> v, rank |-> 0] ELSE s[k]
    IN [s EXCEPT !["model"] = Fill("model", DefaultModel(h)),
                 !["authProfile"] = Fill("authProfile", DefaultProfile(h))]

\* Of the candidates of a setting, the one of the highest layer.
Topmost(candidates) ==
    CHOOSE c \in candidates : \A d \in candidates : d.rank <= c.rank

\* Mutation of HarnessOwner: the last one below it.
HarnessOwnerStrictly(harnesses, rank) ==
    Topmost({c \in harnesses : c.rank = 0 \/ c.rank < rank}).value

\* The harness a setting of a layer was chosen with: the last one at or below it.
HarnessOwner(harnesses, rank) == Topmost({c \in harnesses : c.rank <= rank}).value

\* A lower layer's choice for another harness must not be carried over.
OfOtherHarness(s, harnesses, k) ==
    /\ s[k].value # "none"
    /\ 0 < s[k].rank /\ s[k].rank < s["harness"].rank
    /\ HarnessOwner(harnesses, s[k].rank) # s["harness"].value

Unqualified(s) == s["harness"].value = "omp" /\ s["model"].value \notin {"none", "p/m"}
WrongProfile(s) ==
    s["authProfile"].value # "none" /\ ~Fits(s["harness"].value, s["authProfile"].value)

-----------------------------------------------------------------------------
Nowhere == [rank |-> 0, key |-> "none"]

\* The source of the first of the keys that is not built in.
FirstSource(s, keys) ==
    LET explicit == {i \in DOMAIN keys : s[keys[i]].rank > 0}
    IN IF explicit = {} THEN Nowhere
       ELSE [rank |-> s[keys[Min(explicit)]].rank, key |-> keys[Min(explicit)]]

NativeKeys == <<"nativeProfile", "nativeAddDirs">>
PermissionFits(s) ==
    \/ s["permissionMode"].value = "none"
    \/ s["harness"].value = "claude" /\ s["permissionMode"].value = "acceptEdits"
    \/ s["harness"].value = "codex" /\ s["permissionMode"].value = "read-only"
WorkspaceProfile(s) ==
    FirstSource(s, NativeKeys) # Nowhere /\ s["nativeProfile"].value # "default"

\* The keys of the first check across settings that fails; <<>> when all pass.
NativeObjection(s) ==
    CASE ~PermissionFits(s) -> <<"permissionMode">>
      [] s["harness"].value # "agents-sdk" /\ s["nativeMaxTurns"].rank > 0 -> <<"nativeMaxTurns">>
      [] s["nativeProfile"].value = "default" /\ s["nativeAddDirs"].value # "none" -> NativeKeys
      [] WorkspaceProfile(s) /\ s["harness"].value # "claude" -> NativeKeys
      [] WorkspaceProfile(s) /\ s["nativeAddDirs"].value = "missing" -> <<"nativeAddDirs">>
      [] OTHER -> <<>>

\* The additional directories are replaced by their canonical paths.
WithRealPaths(s) ==
    IF WorkspaceProfile(s) /\ s["nativeAddDirs"].value = "relative"
    THEN [s EXCEPT !["nativeAddDirs"].value = "absolute"] ELSE s

-----------------------------------------------------------------------------
\* A user file that a command accepts by itself.
Acceptable(file) ==
    /\ Parses(file)
    /\ Stored(file) = DOMAIN file
    /\ LET s == WithDefaults(Assigned(BuiltIn, file, 1))
       IN ~Unqualified(s) /\ ~WrongProfile(s) /\ NativeObjection(s) = <<>>
=============================================================================
