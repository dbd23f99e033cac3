----------------------------- MODULE FrontEnds -----------------------------
(***************************************************************************)
(* The three front ends of the service operations: the command line        *)
(* (main.rs), the broker's request handlers (handlers.rs) and the desktop  *)
(* window's form and buttons (forms.rs, adapter.rs).  A command is a verb  *)
(* and the flags given with it.  A front end refuses it or turns it into   *)
(* one call; the operation that is called has guards of its own (ops) and  *)
(* looks at the target service again.  A behaviour writes one command,     *)
(* flag by flag; the operations themselves are in ServiceOps.              *)
(***************************************************************************)
EXTENDS Naturals, FiniteSets

VARIABLES verb, flags

ForceNative == "force native"

ManagedFields == {"application", "app_parameters", "app_directory", "stdout", "stderr"}
NativeFields == {"display", "description", "start", "account", "password"}
Rotation == {"rotate_bytes", "rotate_seconds", "rotate_online"}
Controls == {"start", "stop", "pause", "continue"}

\* A flag named bad has a value that its parser or validator refuses.
InstallFlags ==
    (ManagedFields \ {"application"}) \cup NativeFields \cup Rotation
        \cup {"bad password", "depend", "bad depend", "hook", "bad hook"}

EditFlags ==
    ManagedFields \cup NativeFields
        \cup {"bad password", "depend", "bad depend", "clear dependencies", ForceNative}

RecoverySetFlags ==
    {"default_action", "restart_delay", "no_restart_delay", "throttle_delay",
     "no_throttle_delay", "exit_action", "bad exit_action", "clear_exit_actions"}

FlagsOf(v) ==
    CASE v = "install" -> InstallFlags
      [] v = "edit" -> EditFlags
      [] v = "recovery set" -> RecoverySetFlags
      [] v = "remove" -> {ForceNative, "no purge"}
      [] v \in Controls \cup {"restart"} -> {ForceNative}
      [] OTHER -> {}

Verbs ==
    Controls \cup {"install", "edit", "remove", "restart", "recovery set", "recovery show",
                   "repair", "rotate", "processes", "list", "dump", "status", "statuscode",
                   "get", "set", "unset", "reset"}

NoVerb == "none"

FrontEndsInit == verb = NoVerb /\ flags = {}

Choose == verb = NoVerb /\ verb' \in Verbs /\ UNCHANGED flags

Give ==
    /\ \E f \in FlagsOf(verb) \ flags : flags' = flags \cup {f}
    /\ UNCHANGED verb

FrontEndsNext == Choose \/ Give

-----------------------------------------------------------------------------
(* What a front end asks of the operations *)

NoCall == [op |-> "refused", spec |-> {}, force |-> FALSE]
Call(op, spec, force) == [op |-> op, spec |-> spec, force |-> force]

\* The call of the operation that has the verb's name.
Plain(v, f) == Call(v, {}, ForceNative \in f)

\* ServiceDependencies: replaced by the given ones, or by none.
Dependencies(f) ==
    CASE "clear dependencies" \in f -> {"no dependencies"}
      [] "clear dependencies" \notin f /\ "depend" \in f -> {"dependencies"}
      [] OTHER -> {}

PasswordMisused(f) == "password" \in f /\ ("account" \notin f \/ "bad password" \in f)

\* install_args_have_rotation, validate_install_args
CliInstallBad(f) ==
    \/ f \cap Rotation # {} /\ f \cap {"stdout", "stderr"} = {}
    \/ f \cap {"bad depend", "bad hook"} # {}
    \/ PasswordMisused(f)

\* cmd_install: any rotation flag enables the rotation.
RotationSpec(f) ==
    IF f \cap Rotation = {} THEN {} ELSE {"rotation enabled"} \cup (f \cap Rotation)

InstallSpec(f) ==
    (f \cap (ManagedFields \cup NativeFields \cup {"hook"})) \cup Dependencies(f)

CliInstall(f) ==
    IF CliInstallBad(f) THEN NoCall
    ELSE Call("install", InstallSpec(f) \cup RotationSpec(f), FALSE)

\* op_install: the request carries the rotation as it is stored; ops validates the rest.
BrokerInstall(f, rotation) ==
    IF f \cap {"password", "bad password", "bad depend"} # {} THEN NoCall
    ELSE Call("install", InstallSpec(f) \cup rotation \cup (f \cap {"bad hook"}), FALSE)

\* InstallForm::to_spec: the form has no rotation, hooks or dependencies.
FormFields == (ManagedFields \ {"application"}) \cup NativeFields

GuiInstall(f) ==
    IF "password" \in f /\ "account" \notin f THEN NoCall ELSE Call("install", f, FALSE)

EditSpec(f) == (f \cap (ManagedFields \cup NativeFields)) \cup Dependencies(f)

\* validate_edit_args, and clap's conflicts_with_all
CliEditBad(f) ==
    \/ "clear dependencies" \in f /\ f \cap {"depend", "bad depend"} # {}
    \/ f \subseteq {ForceNative, "bad password"}
    \/ "bad depend" \in f
    \/ PasswordMisused(f)

\* Fault: the managed fields are left out instead of refused.
ForcedEditPartial(f) ==
    IF ForceNative \in f /\ EditSpec(f) \ ManagedFields # {}
    THEN Call("update_native_config", EditSpec(f) \ ManagedFields, TRUE)
    ELSE Call("edit", EditSpec(f), FALSE)

\* cmd_edit, op_edit: an override for the native half refuses the managed fields and
\* goes to the SCM directly; everything else is the operation's.
ForcedEdit(f) ==
    CASE ForceNative \in f /\ f \cap ManagedFields # {} -> NoCall
      [] ForceNative \in f /\ f \cap ManagedFields = {} /\ EditSpec(f) # {} ->
            Call("update_native_config", EditSpec(f), TRUE)
      [] OTHER -> Call("edit", EditSpec(f), FALSE)

CliEdit(f) == IF CliEditBad(f) THEN NoCall ELSE ForcedEdit(f)

BrokerEdit(f) ==
    IF \/ f \cap {"password", "bad password", "bad depend"} # {}
       \/ {"clear dependencies", "depend"} \subseteq f
    THEN NoCall ELSE ForcedEdit(f)

\* cmd_control: with the override the SCM is called directly.
CliControl(v, f) ==
    Call(IF ForceNative \in f THEN IF v = "start" THEN "start_service" ELSE "control_service" ELSE v,
         {}, ForceNative \in f)

\* op_start, op_stop, op_pause and op_continue.
BrokerControl(v, f) ==
    IF ForceNative \notin f THEN Call(v, {}, FALSE)
    ELSE Call(IF v = "start" THEN "start_service" ELSE "control_service", {}, TRUE)

\* cmd_remove: whether to purge is the operation's decision; the broker and the window
\* always purge.
CliRemove(f) == Call("remove", IF "no purge" \in f THEN {} ELSE {"purge"}, ForceNative \in f)
BrokerRemove(f) == Call("remove", {"purge"}, ForceNative \in f)

\* The flag that clears a delay.
Clear(setting) == IF setting = "restart_delay" THEN "no_restart_delay" ELSE "no_throttle_delay"

\* merge_recovery_args: what becomes of one setting, and of the exit actions.
MergeSetting(f, setting, current) ==
    CASE Clear(setting) \in f -> "none"
      [] Clear(setting) \notin f /\ setting \in f -> "new"
      [] OTHER -> current

MergeExits(f, current) ==
    (IF "clear_exit_actions" \in f THEN {} ELSE current)
        \cup (IF "exit_action" \in f THEN {"named"} ELSE {})

CliRecovery(f, current) ==
    IF \/ \E s \in {"restart_delay", "throttle_delay"} : {s, Clear(s)} \subseteq f
       \/ "bad exit_action" \in f
    THEN [saved |-> FALSE, policy |-> current]
    ELSE [saved |-> TRUE, policy |->
            [default |-> IF "default_action" \in f THEN "new" ELSE current.default,
             restart |-> MergeSetting(f, "restart_delay", current.restart),
             throttle |-> MergeSetting(f, "throttle_delay", current.throttle),
             exits |-> MergeExits(f, current.exits)]]

\* op_recovery_set: the request is the whole policy; what it leaves out is cleared.
BrokerRecovery(f) ==
    IF "default_action" \notin f \/ "bad exit_action" \in f THEN [saved |-> FALSE]
    ELSE [saved |-> TRUE, policy |->
            [default |-> "new",
             restart |-> IF "restart_delay" \in f THEN "new" ELSE "none",
             throttle |-> IF "throttle_delay" \in f THEN "new" ELSE "none",
             exits |-> IF "exit_action" \in f THEN {"named"} ELSE {}]]

\* run: the command line's calls.
Cli(v, f) ==
    CASE v = "install" -> CliInstall(f)
      [] v = "edit" -> CliEdit(f)
      [] v = "remove" -> CliRemove(f)
      [] v \in Controls -> CliControl(v, f)
      [] v = "reset" -> Plain("unset", f)
      [] OTHER -> Plain(v, f)

\* dispatch_inner: the broker's, for a request of the same fields.
Broker(v, f) ==
    CASE v = "install" -> BrokerInstall(f, RotationSpec(f))
      [] v = "edit" -> BrokerEdit(f)
      [] v = "remove" -> BrokerRemove(f)
      [] v \in Controls -> BrokerControl(v, f)
      [] v \in {"get", "set", "unset", "reset", "status", "statuscode"} -> NoCall
      [] OTHER -> Plain(v, f)

-----------------------------------------------------------------------------
(* The target, and the guards of the operations *)

States == {"Stopped", "StartPending", "StopPending", "Running", "ContinuePending",
           "PausePending", "Paused", "Unknown"}

\* A configuration is damaged when its Application marker is good and another of its
\* values cannot be read, and unreadable when the marker itself cannot.  runtime is
\* "none" when the SCM reports no state.
Targets ==
    [config : {"present", "absent", "damaged", "unreadable"}, image : {"ngsm", "other"},
     runtime : States \cup {"none"}, enabled : BOOLEAN, online : BOOLEAN]

\* is_managed on what list_services shows: an unreadable configuration counts as none.
ShownManaged(t) == t.config = "present" \/ t.image = "ngsm"

\* ensure_ngsm_managed fails when the configuration cannot be read.
Readable(t) == t.config \notin {"damaged", "unreadable"}
Owned(t) == Readable(t) /\ ShownManaged(t)

\* require_managed_marker looks at the marker alone, so that a value can be repaired.
Marked(t) == t.config \in {"present", "damaged"}

IsStopped(t) == t.runtime \in {"Stopped", "none"}

\* validate_install_config
InstallValid(spec) ==
    /\ spec \cap (Rotation \cup {"rotation enabled", "delay"}) # {}
          => spec \cap {"stdout", "stderr"} # {}
    /\ "bad hook" \notin spec

\* Whether the operation that is called goes ahead on t.
Guard(c, t) ==
    CASE c.op = "refused" -> FALSE
      [] c.op = "install" -> InstallValid(c.spec)
      [] c.op = "edit" -> c.spec # {} /\ t.config = "present"
      [] c.op = "start" -> Owned(t) /\ t.enabled
      [] c.op \in {"stop", "pause", "continue"} -> Owned(t)
      [] c.op = "restart" -> (c.force \/ Owned(t)) /\ t.enabled
      [] c.op = "remove" -> "purge" \in c.spec /\ (c.force \/ Owned(t)) /\ IsStopped(t)
      [] c.op = "repair" -> t.config = "present" /\ IsStopped(t)
      [] c.op = "rotate" -> t.config = "present" /\ t.online
      [] c.op = "recovery set" -> t.config = "present"
      [] c.op \in {"set", "unset"} -> Marked(t)
      [] OTHER -> TRUE

\* Calls that change the service or its configuration.
Mutates(c) == c.op \notin {"refused", "recovery show", "processes", "list", "dump", "status",
                           "statuscode", "get"}

\* cmd_list, op_list, matches_filter.
Listed(filter, t) == filter = "all" \/ ShownManaged(t)

\* to_service_row: the buttons an elevated window enables on a listed service.
Offered(v, t) ==
    LET active == t.runtime \in {"Running", "Paused", "StartPending"}
        stoppable == ShownManaged(t) /\ active
        config == t.config = "present"
    IN  CASE v = "start" -> ShownManaged(t) /\ t.enabled /\ IsStopped(t)
          [] v = "stop" -> stoppable
          [] v = "restart" -> t.enabled /\ stoppable
          [] v = "pause" -> config /\ t.runtime = "Running"
          [] v = "continue" -> config /\ t.runtime = "Paused"
          [] v = "rotate" -> config /\ t.online /\ t.runtime \in {"Running", "Paused"}
          [] v = "edit" -> config
          [] v = "remove" -> ShownManaged(t) /\ IsStopped(t)
          [] v = "processes" -> active
          [] OTHER -> FALSE

\* execute: the window's call for a button; the edit form sends what was changed.
Gui(v) ==
    CASE v = "remove" -> Call("remove", {"purge"}, FALSE)
      [] v = "edit" -> Call("edit", {"application"}, FALSE)
      [] OTHER -> Plain(v, {})

\* statuscode_exit_code
ExitCode ==
    [s \in States |->
        CASE s = "Stopped" -> 1 [] s = "StartPending" -> 2 [] s = "StopPending" -> 3
          [] s = "Running" -> 4 [] s = "ContinuePending" -> 5 [] s = "PausePending" -> 6
          [] s = "Paused" -> 7 [] s = "Unknown" -> 0]

\* cmd_statuscode_exit: a failed query exits as an unknown state does.
StatusCode(runtime) == IF runtime \in States THEN ExitCode[runtime] ELSE ExitCode["Unknown"]

\* post_op_state, apply_post_op_state: what the answer says after a control.
PostOpState(query) ==
    CASE query = "failed" -> [state |-> "null", warning |-> TRUE]
      [] query = "none" -> [state |-> "", warning |-> FALSE]
      [] OTHER -> [state |-> query, warning |-> FALSE]

-----------------------------------------------------------------------------
(* Properties *)

\* What the user wrote: every flag is a change except the override, the purge that
\* is the default and the marks of a bad value.
Asked(f) ==
    {IF x = "depend" THEN "dependencies"
     ELSE IF x = "clear dependencies" THEN "no dependencies" ELSE x :
        x \in f \ {ForceNative, "bad password", "bad depend", "bad hook"}}

\* A command is refused or does all that it says: no flag is swallowed, and what is
\* not wanted is not done.
AllOrNothing ==
    /\ verb = "install" /\ Cli(verb, flags) # NoCall =>
            /\ Cli(verb, flags).spec \ {"rotation enabled"} = Asked(flags)
            /\ \A t \in {x \in Targets : x.runtime = "none"} : Guard(Cli(verb, flags), t)
    /\ verb = "edit" =>
            \A c \in {CliEdit(flags), BrokerEdit(flags)} \ {NoCall} :
                /\ c.spec = Asked(flags)
                /\ "bad depend" \notin flags
    /\ verb = "remove" => \A t \in Targets : Guard(Cli(verb, flags), t) => "no purge" \notin flags

\* The front ends agree: a request of the same fields has the same result, except that
\* only the command line and the window take a password.  The broker's install is held
\* to what the command line checks itself.
SameResult ==
    LET cli == Cli(verb, flags)
        broker == Broker(verb, flags)
        Result(c, t) == IF Guard(c, t) THEN c ELSE NoCall
    IN  /\ \/ flags \cap {"password", "bad password", "no purge"} # {}
           \/ Broker(verb, {}) = NoCall
           \/ cli = broker
           \/ \A t \in Targets : Result(cli, t) = Result(broker, t)
        /\ verb = "install" /\ flags \subseteq FormFields => GuiInstall(flags) = cli

\* The settings that were given are in policy p.
AsGiven(p) ==
    /\ "default_action" \in flags => p.default = "new"
    /\ "restart_delay" \in flags => p.restart = "new"
    /\ "throttle_delay" \in flags => p.throttle = "new"
    /\ "exit_action" \in flags => "named" \in p.exits

\* The settings that were neither given nor cleared are in policy p as in old.
OthersKept(p, old) ==
    /\ "default_action" \notin flags => p.default = old.default
    /\ flags \cap {"restart_delay", "no_restart_delay"} = {} => p.restart = old.restart
    /\ flags \cap {"throttle_delay", "no_throttle_delay"} = {} => p.throttle = old.throttle
    /\ "clear_exit_actions" \notin flags => old.exits \subseteq p.exits

Policies ==
    [default : {"old"}, restart : {"none", "old"}, throttle : {"none", "old"},
     exits : SUBSET {"named", "other"}]

\* A policy that was saved has the settings that were given, and the command line
\* keeps the others, each delay by itself; the broker's request, being the whole policy,
\* has the same result as a command that gives or clears everything.
RecoveryKept ==
    verb = "recovery set" =>
        \A current \in Policies :
            LET cli == CliRecovery(flags, current)
                broker == BrokerRecovery(flags)
            IN  /\ cli.saved => AsGiven(cli.policy) /\ OthersKept(cli.policy, current)
                /\ broker.saved => AsGiven(broker.policy)
                /\ cli.saved /\ broker.saved /\ "clear_exit_actions" \in flags
                     /\ (\A s \in {"restart_delay", "throttle_delay"} :
                            s \in flags \/ Clear(s) \in flags)
                       => cli.policy = broker.policy

\* A service that is not, or cannot be shown to be, managed is changed only by a
\* command that says so.  One value of a configuration that cannot be read may be set or
\* removed all the same, where the marker shows whose it is: that is how it is repaired.
NativeNeedsForce ==
    ForceNative \notin flags /\ verb # "install" =>
        \A t \in Targets, c \in {Cli(verb, flags), Broker(verb, flags)} :
            Guard(c, t) /\ Mutates(c) => Owned(t) \/ (c.op \in {"set", "unset"} /\ Marked(t))

\* A button that is enabled on what the list shows is accepted by the operation if
\* nothing has changed, unless the configuration cannot be read; only a look at the
\* processes is offered on others' services; a listed service in a settled state can be
\* stopped or removed; and an answer tells the states apart.
ButtonsAccepted ==
    \A t \in Targets :
        /\ Offered(verb, t) /\ Mutates(Gui(verb)) => Listed("managed", t)
        /\ Offered(verb, t) /\ (Readable(t) \/ ~Mutates(Gui(verb))) => Guard(Gui(verb), t)
        /\ ShownManaged(t) /\ t.runtime \in {"Stopped", "Running", "Paused", "none"} =>
                Offered("stop", t) # Offered("remove", t)

AnswersDistinct ==
    /\ \A s, r \in States : StatusCode(s) = StatusCode(r) => s = r
    /\ \A s, r \in States \cup {"none", "failed"} : PostOpState(s) = PostOpState(r) => s = r

\* One command means the same wherever it is given: the command line, the broker and
\* the panel ask for the same operation or refuse it whole, no flag is dropped
\* silently, and a button that is shown is accepted (main.rs, handlers.rs, adapter.rs).
FrontEndsAgree ==
    verb # NoVerb =>
        /\ AllOrNothing /\ SameResult /\ RecoveryKept /\ NativeNeedsForce
        /\ flags = {} => ButtonsAccepted /\ AnswersDistinct
=============================================================================
