--------------------------- MODULE ManagedConfig ---------------------------
(***************************************************************************)
(* The managed configuration of one service as the registry holds it       *)
(* (servicemanager-registry/src/imp.rs): what a reader makes of the values *)
(* under Parameters, and the order in which a full write, a set, an unset  *)
(* and a purge touch them.                                                 *)
(*                                                                         *)
(* A registry is a function from value names to data or None.  One name    *)
(* stands for each group that the code treats alike: AppDirectory for the  *)
(* optional scalars, AppStdout and its ShareMode for the three streams and *)
(* their four attributes, AppEvents for the hooks.  AppExit keeps its      *)
(* three spellings: the unnamed default, NSSM's named Default, which means *)
(* the same, and an exit code.  Data is an abstract value; Bad is data     *)
(* that does not decode (a wrong type, a wrong size, broken UTF-16, an     *)
(* unknown action), Relative is a path that reads well, as NSSM may have   *)
(* left it, and that no write accepts, and Nul is a string with an embedded *)
(* NUL, which a request may bring and the registry cannot hold.            *)
(***************************************************************************)
EXTENDS Naturals, Sequences

CONSTANTS Values, Relative, Nul, None, Bad

ASSUME ConfigAssumption ==
    {Relative, Nul} \subseteq Values /\ None \notin Values /\ Bad \notin Values /\ None # Bad

\* MANAGED_VALUE_NAMES and owned_value_names, and the values of the AppExit subkey.
OwnedValues == {"Application", "AppDirectory", "AppStdout", "AppStdoutShareMode"}

ExitNames == {"AppExit\\1", "AppExit\\", "AppExit\\Default"}

Names == OwnedValues \cup ExitNames \cup {"AppEvents"}

Registry == [Names -> Values \cup {None, Bad}]

\* A service without a Parameters key reads like one with an empty key.
NoValues == [n \in Names |-> None]

-----------------------------------------------------------------------------
(* Reading *)

\* insert_exit_action: the two spellings of the default action may not disagree.
ConflictingAliases(r) ==
    /\ r["AppExit\\"] # None /\ r["AppExit\\Default"] # None
    /\ r["AppExit\\"] # r["AppExit\\Default"]

\* read_io_stream looks at the attributes only when there is a path.
ReadNames(r) ==
    IF r["AppStdout"] = None THEN Names \ {"AppStdoutShareMode"} ELSE Names

Native(r) == r["Application"] = None

\* opt_string, opt_multi_string and opt_u32: an absent value is no value, one that
\* does not decode is an error.
ScalarsDecode(r) ==
    \A n \in ReadNames(r) \ (ExitNames \cup {"AppEvents"}) : r[n] # Bad

\* enumerate_typed_string_values: every value of a subkey must be a string.
StringsDecode(r, ns) == \A n \in ns : r[n] # Bad

ExitActionsDecode(r) == StringsDecode(r, ExitNames) /\ ~ConflictingAliases(r)

HooksDecode(r) == StringsDecode(r, {"AppEvents"})

\* Any value that does not decode fails the whole read.
Unreadable(r) ==
    ~Native(r) /\ ~(ScalarsDecode(r) /\ ExitActionsDecode(r) /\ HooksDecode(r))

Readable(r) == ~Native(r) /\ ~Unreadable(r)

\* The ManagedApplicationConfig of read_managed_from_key, kept as a registry: a
\* default action moves to the unnamed value and an attribute needs its path.
Config(r) ==
    [n \in Names |->
        IF n = "AppExit\\" THEN IF r[n] # None THEN r[n] ELSE r["AppExit\\Default"]
        ELSE IF n = "AppExit\\Default" \/ n \notin ReadNames(r) THEN None
        ELSE r[n]]

\* What a caller of read_managed_config is told.
ReadManaged(r) ==
    IF Native(r) THEN "native" ELSE IF Unreadable(r) THEN "unreadable" ELSE "managed"

SameReading(r, s) ==
    /\ ReadManaged(r) = ReadManaged(s)
    /\ Readable(r) => Config(r) = Config(s)

\* require_managed_marker reads Application alone.
HasMarker(r) == r["Application"] \notin {None, Bad}

-----------------------------------------------------------------------------
(* What a write accepts *)

\* is_path_value.
PathNames == {"Application", "AppDirectory", "AppStdout"}

\* validate_raw_path.
RawPathOK(n, v) == n \in PathNames => v # Relative

\* precheck_no_embedded_nuls, over every string that write_into_key would write.
NoEmbeddedNul(cfg) == \A n \in Names : cfg[n] # Nul

\* preflight_config checks the whole configuration before the first write, the
\* parts that the caller leaves alone too.
Preflight(cfg) ==
    /\ cfg["Application"] # None
    /\ NoEmbeddedNul(cfg)
    /\ \A n \in Names : RawPathOK(n, cfg[n])
    /\ ~ConflictingAliases(cfg)

-----------------------------------------------------------------------------
(* Writing: a plan is the sequence of registry calls, each of which can fail *)

Put(n, v) == <<[names |-> {n}, value |-> v]>>
Del(ns) == <<[names |-> ns, value |-> None]>>

\* write_string_typed and write_multi_string refuse a NUL on their own, at the call.
Writable(call) == call.value # Nul

Apply(r, call) == [n \in Names |-> IF n \in call.names THEN call.value ELSE r[n]]

\* What each of a group of values takes, in the order of write_into_key; a BTreeMap
\* yields the exit code before "default".
EachOwned(calls) ==
    calls["Application"] \o calls["AppDirectory"] \o calls["AppStdout"] \o calls["AppStdoutShareMode"]

EachExit(calls) == calls["AppExit\\1"] \o calls["AppExit\\"] \o calls["AppExit\\Default"]

\* A value that cfg has is written; one that it does not have is deleted.  A delete
\* of an absent value succeeds and is left out.
PutWanted(cfg, n) == IF cfg[n] # None THEN Put(n, cfg[n]) ELSE <<>>
DelStale(r, cfg, n) == IF cfg[n] = None /\ r[n] # None THEN Del({n}) ELSE <<>>

\* enumerate_value_names: the actions that are there, whatever their data.
ExistingExits(r) == {n \in ExitNames : r[n] # None}

\* Phase 2a.  With no action left the whole subkey goes in one call.
ExitCalls(r, cfg) ==
    LET Wanted == [n \in Names |-> PutWanted(cfg, n)]
        Stale == [n \in Names |-> DelStale(r, cfg, n)]
    IN  IF \A n \in ExitNames : cfg[n] = None
        THEN IF ExistingExits(r) = {} THEN <<>> ELSE Del(ExitNames)
        ELSE EachExit(Wanted) \o EachExit(Stale)

\* Phase 2b.
HookCalls(r, cfg) == PutWanted(cfg, "AppEvents") \o DelStale(r, cfg, "AppEvents")

\* Fault: the order write_into_key avoids: everything goes before it is written again.
WritePlanDeleteFirst(r, cfg) ==
    LET Wanted == [n \in Names |-> PutWanted(cfg, n)]
        Present == [n \in Names |-> DelStale(r, NoValues, n)]
    IN  EachOwned(Present) \o EachOwned(Wanted) \o ExitCalls(r, cfg) \o HookCalls(r, cfg)

\* write_into_key: every wanted scalar first, then the subkeys, and only then the
\* owned scalars that cfg does not have.
WritePlan(r, cfg) ==
    LET Wanted == [n \in Names |-> PutWanted(cfg, n)]
        Stale == [n \in Names |-> DelStale(r, cfg, n)]
    IN  EachOwned(Wanted) \o ExitCalls(r, cfg) \o HookCalls(r, cfg) \o EachOwned(Stale)

\* set_value_in_key; the value None is the empty path, which clears: the path first,
\* then the attributes that go with it (clear_path_value, stdio_attribute_names).
SetPlan(n, v) ==
    IF v # None THEN Put(n, v)
    ELSE IF n = "AppStdout" THEN Del({n}) \o Del({"AppStdoutShareMode"})
    ELSE Del({n})

\* Both refuse to take the marker away; a set checks the path it is given and
\* nothing else of the configuration.
SetAccepted(n, v) == (n = "Application" => v # None) /\ RawPathOK(n, v) /\ v # Nul

SetGoal(r, n, v) ==
    [m \in Names |->
        IF m = n THEN v
        ELSE IF v = None /\ n = "AppStdout" /\ m = "AppStdoutShareMode" THEN None
        ELSE r[m]]

\* scrub_managed: the two subkeys, then every owned value, Application first.
ScrubPlan ==
    Del(ExitNames) \o Del({"AppEvents"}) \o EachOwned([n \in Names |-> Del({n})])

-----------------------------------------------------------------------------
(* The configurations the operations ask for *)

\* merge_managed_fields.  A change names fields; a stream path keeps the attributes
\* of the stream it replaces, an empty one drops the stream.
MergeEdit(cfg, change) ==
    [n \in Names |->
        IF n \in DOMAIN change THEN change[n]
        ELSE IF n = "AppStdoutShareMode" /\ "AppStdout" \in DOMAIN change
             THEN IF change["AppStdout"] = None THEN None ELSE cfg[n]
        ELSE cfg[n]]

\* save_recovery: the whole exit policy is replaced, the rest is kept.
MergeRecovery(cfg, policy) ==
    [n \in Names |-> IF n \in DOMAIN policy THEN policy[n]
                     ELSE IF n \in ExitNames THEN None ELSE cfg[n]]
=============================================================================
