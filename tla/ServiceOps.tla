---------------------------- MODULE ServiceOps ----------------------------
(***************************************************************************)
(* The operations on one service (servicemanager-ops), carried out by      *)
(* several processes at once: the command line (servicemanager-cli), the   *)
(* elevated broker (servicemanager-broker/src/handlers.rs) and the GUI all *)
(* end in these functions.  They share the service's registry values       *)
(* (ManagedConfig), its SCM record, and the named mutex that writers of    *)
(* the configuration take for at most five seconds (config_lock.rs).       *)
(*                                                                         *)
(* Every registry or SCM call is a step of its own and may fail; a process *)
(* may die between two calls, which abandons the mutex.  The service       *)
(* process is external: it starts, ends and stops when it likes.           *)
(***************************************************************************)
EXTENDS ManagedConfig

CONSTANTS
    Clients,          \* processes
    NoOne,            \* nobody holds the mutex
    Requests,         \* the requests they may make: see RequestOK
    InitialServices,  \* records [scm, reg] the service may start from
    MaxOps, MaxFaults, MaxCrashes

Absent == [present |-> FALSE]

ServiceStates == {"Stopped", "StartPending", "Running", "Paused", "StopPending"}

\* The SCM record: whose image it runs, its start type, the other native fields
\* (one value), its description, whether it is marked for deletion.
ScmRecords ==
    {Absent} \cup [present : {TRUE}, runner : BOOLEAN, disabled : BOOLEAN,
                   native : Values, description : Values,
                   state : ServiceStates, doomed : BOOLEAN]

\* Configuration requests take the mutex, the others do not.
LockedOps == {"edit", "recovery", "set", "install", "remove"}
Controls == {"stop", "pause", "continue", "rotate"}
UnlockedOps == {"native", "repair", "start", "restart"} \cup Controls

\* An edit names fields of the configuration and native fields, a recovery policy the
\* default action and exit codes, a set one of the owned values.  None clears.
EditRequest(r) ==
    /\ DOMAIN r.change \subseteq PathNames
    /\ \A n \in DOMAIN r.change : r.change[n] \in Values \cup {None}
    /\ {r.native, r.description} \subseteq Values \cup {None} /\ r.disable \in BOOLEAN

RecoveryRequest(r) ==
    /\ "AppExit\\" \in DOMAIN r.policy /\ DOMAIN r.policy \subseteq ExitNames
    /\ \A n \in DOMAIN r.policy : r.policy[n] \in Values

SetRequest(r) == r.name \in OwnedValues /\ r.value \in Values \cup {None}

\* A new configuration has one spelling of the default action.
InstallRequest(r) ==
    /\ r.config \in [Names -> Values \cup {None}] /\ r.config["AppExit\\Default"] = None
    /\ r.native \in Values

ASSUME OpsAssumption ==
    /\ NoOne \notin Clients
    /\ \A r \in Requests :
        /\ r.op \in LockedOps \cup UnlockedOps
        /\ r.op \in {"edit", "native"} => EditRequest(r)
        /\ r.op = "recovery" => RecoveryRequest(r)
        /\ r.op = "set" => SetRequest(r)
        /\ r.op = "install" => InstallRequest(r)
    /\ \A s \in InitialServices :
        /\ s.scm \in ScmRecords /\ s.reg \in Registry
        /\ ~s.scm.present => s.reg = NoValues

VARIABLES
    scm, reg,
    lock,        \* the owner of the configuration mutex
    abandoned,   \* the last owner died
    cl,          \* per process: what it is doing
    \* what the processes were told
    expected,    \* what every request is known to have left, one after the other
    torn,        \* somebody died half way, or was told of a partial change
    intent,      \* the configuration the last operation set out to write
    ops, faults, crashes

world == <<scm, reg>>
told == <<expected, torn, intent>>
counters == <<ops, faults, crashes>>
vars == <<scm, reg, lock, abandoned, cl, expected, torn, intent,
          ops, faults, crashes>>

Idle == [pc |-> "idle"]

Init ==
    /\ \E s \in InitialServices : scm = s.scm /\ reg = s.reg
    /\ lock = NoOne /\ abandoned = FALSE
    /\ cl = [c \in Clients |-> Idle]
    /\ expected = reg /\ torn = FALSE /\ intent = reg
    /\ ops = 0 /\ faults = 0 /\ crashes = 0

-----------------------------------------------------------------------------
(* Requests *)

\* What the operations check before they take the mutex or make a call.  An edit
\* that changes nothing is refused, and --force-native takes no managed fields.
HasChanges(r) ==
    DOMAIN r.change # {} \/ r.native # None \/ r.description # None \/ r.disable

EditRequestOK(r) == HasChanges(r) /\ (r.op = "native" => DOMAIN r.change = {})

\* The codes are those of validate_exit_action_key; there is always a default.
RecoveryRequestOK(r) ==
    r.policy["AppExit\\"] # None /\ DOMAIN r.policy \subseteq {"AppExit\\", "AppExit\\1"}

InstallRequestOK(r) == Preflight(r.config)

RequestOK(r) ==
    /\ r.op \in {"edit", "native"} => EditRequestOK(r)
    /\ r.op = "recovery" => RecoveryRequestOK(r)
    /\ r.op = "set" => SetAccepted(r.name, r.value)
    /\ r.op = "install" => InstallRequestOK(r)

\* ServiceDefinition::is_managed: configuration, or the runner's image.
IsManaged(s, r) == Readable(r) \/ s.runner

Stopped(s) == s.state = "Stopped"

\* ensure_ngsm_managed: a configuration that cannot be read proves nothing.
EnsureManaged == ReadManaged(reg) # "unreadable" /\ IsManaged(scm, reg)

\* A call that fails.
Fault == faults < MaxFaults /\ faults' = faults + 1

\* A registry call fails by itself when the service is gone or the string is refused.
CallFails(c) ==
    IF scm.present /\ (cl[c].plan # <<>> => Writable(Head(cl[c].plan)))
    THEN Fault ELSE UNCHANGED faults

Go(c, pc) == cl' = [cl EXCEPT ![c].pc = pc]
Done(c) == cl' = [cl EXCEPT ![c] = Idle]

\* Begin an operation; a request that is refused before any call has no effect.
Begin(c, r) ==
    /\ cl[c] = Idle /\ ops < MaxOps /\ r \in Requests /\ RequestOK(r)
    /\ ops' = ops + 1
    /\ cl' = [cl EXCEPT ![c] =
                [pc |-> IF r.op \in LockedOps THEN "lock"
                       ELSE IF r.op = "native" THEN "native" ELSE "query",
                 req |-> r,
                 plan |-> <<>>, goal |-> reg, orig |-> reg, failed |-> FALSE]]
    /\ UNCHANGED <<scm, reg, lock, abandoned, told, faults, crashes>>

-----------------------------------------------------------------------------
(* lock_service_config *)

\* An abandoned mutex is acquired like a free one; every owner reads the registry
\* afresh.
Acquire(c) ==
    /\ cl[c].pc = "lock" /\ lock = NoOne
    /\ lock' = c /\ abandoned' = FALSE
    /\ Go(c, IF cl[c].req.op \in {"edit", "recovery"} THEN "read"
             ELSE IF cl[c].req.op = "set" THEN "open"
             ELSE IF cl[c].req.op = "install" THEN "create"
             ELSE "query")
    /\ UNCHANGED <<world, told, counters>>

\* Five seconds pass: an error, and nothing was touched.
LockTimeout(c) ==
    /\ cl[c].pc = "lock" /\ lock # NoOne
    /\ Done(c)
    /\ UNCHANGED <<world, lock, abandoned, told, counters>>

\* The guard is dropped when the operation returns.
Release(c) == lock' = IF lock = c THEN NoOne ELSE lock

\* The operation returns: it changed nothing, or it restored what it changed.
Return(c) ==
    /\ Done(c) /\ Release(c)
    /\ UNCHANGED <<abandoned, expected, torn, intent>>

\* It reports that the configuration may be partially applied.
ReturnTorn(c) ==
    /\ Done(c) /\ Release(c) /\ torn' = TRUE
    /\ UNCHANGED <<abandoned, expected, intent>>

\* It fails without a warning and leaves some of its calls in effect: e is what an
\* operation that stops there is allowed to leave.
ReturnPartial(c, e) ==
    /\ Done(c) /\ Release(c) /\ expected' = e
    /\ UNCHANGED <<abandoned, torn, intent>>

Merged(r, cfg) ==
    IF r.op = "edit" THEN MergeEdit(cfg, r.change) ELSE MergeRecovery(cfg, r.policy)

TouchesManaged(r) == r.op = "recovery" \/ (r.op = "edit" /\ DOMAIN r.change # {})

\* What a request means, applied to what its predecessors were told they left.
Intended(r, e) ==
    IF TouchesManaged(r) THEN Merged(r, Config(e))
    ELSE IF r.op = "set" THEN SetGoal(e, r.name, r.value)
    ELSE IF r.op = "install" THEN r.config
    ELSE IF r.op = "remove" THEN NoValues
    ELSE e

\* It reports success.  A full write makes a torn configuration whole again; a
\* service that was marked and stopped in the meantime has taken all with it.
ReturnOk(c, whole) ==
    /\ Done(c) /\ Release(c)
    /\ expected' = IF ~scm.present THEN NoValues
                   ELSE IF torn THEN cl[c].goal ELSE Intended(cl[c].req, expected)
    /\ torn' = (torn /\ ~whole)
    /\ UNCHANGED <<abandoned, intent>>

\* The steps at which a process has made a change that it has not told anybody of.
Midway == {"write", "undo", "set", "native", "describe", "describe_new", "configure",
           "uninstall", "scrub"}

\* The process dies and leaves what it had done.
Crash(c) ==
    /\ cl[c] # Idle /\ crashes < MaxCrashes /\ crashes' = crashes + 1
    /\ cl' = [cl EXCEPT ![c] = Idle]
    /\ lock' = IF lock = c THEN NoOne ELSE lock
    /\ abandoned' = (abandoned \/ lock = c)
    /\ torn' = (torn \/ (lock = c /\ cl[c].pc \in Midway))
    /\ UNCHANGED <<world, expected, intent, ops, faults>>

-----------------------------------------------------------------------------
(* edit_with_backend and save_recovery_with_backend *)

TouchesNative(r) ==
    r.op = "edit" /\ (r.native # None \/ r.description # None \/ r.disable)

\* read_managed, the merge and the preflight.  A native or unreadable service is
\* refused, and so is a change that leaves an unwritable value in place.
ReadConfig(c) ==
    LET r == cl[c].req
        cfg == Merged(r, Config(reg))
    IN  /\ cl[c].pc = "read"
        /\ UNCHANGED <<world, counters>>
        /\ \/ /\ ~Readable(reg) \/ (TouchesManaged(r) /\ ~Preflight(cfg))
              /\ Return(c)
           \/ /\ Readable(reg) /\ ~TouchesManaged(r)
              /\ cl' = [cl EXCEPT ![c].pc = "native", ![c].orig = Config(reg),
                                  ![c].goal = Config(reg)]
              /\ UNCHANGED <<lock, abandoned, told>>
           \/ /\ Readable(reg) /\ TouchesManaged(r) /\ Preflight(cfg)
              /\ cl' = [cl EXCEPT ![c].pc = "write", ![c].orig = Config(reg),
                                  ![c].goal = cfg, ![c].plan = WritePlan(reg, cfg)]
              /\ intent' = cfg
              /\ UNCHANGED <<lock, abandoned, expected, torn>>

\* One registry call of a full write, an undo, a set or an install.
RegistryCall(c) ==
    /\ cl[c].pc \in {"write", "undo", "set", "configure"} /\ cl[c].plan # <<>>
    /\ scm.present /\ Writable(Head(cl[c].plan))
    /\ reg' = Apply(reg, Head(cl[c].plan))
    /\ cl' = [cl EXCEPT ![c].plan = Tail(@)]
    /\ UNCHANGED <<scm, lock, abandoned, told, counters>>

\* Fault: the failed write is reported, and what it had written stays.
RollBackForgotten(c) == Return(c)

\* rollback_managed writes the original back.  That is a full write with its own
\* preflight: an original with an unwritable value cannot be restored, and the
\* error says so.
RollBack(c) ==
    IF Preflight(cl[c].orig)
    THEN /\ cl' = [cl EXCEPT ![c].pc = "undo", ![c].plan = WritePlan(reg, cl[c].orig)]
         /\ UNCHANGED <<lock, abandoned, told>>
    ELSE ReturnTorn(c)

\* write_managed failed.
WriteFails(c) ==
    /\ cl[c].pc = "write" /\ cl[c].plan # <<>> /\ CallFails(c)
    /\ RollBack(c)
    /\ UNCHANGED <<world, ops, crashes>>

WriteDone(c) ==
    /\ cl[c].pc = "write" /\ cl[c].plan = <<>>
    /\ UNCHANGED <<world, counters>>
    /\ IF TouchesNative(cl[c].req)
       THEN Go(c, "native") /\ UNCHANGED <<lock, abandoned, told>>
       ELSE ReturnOk(c, TRUE)

\* rollback_managed: "managed configuration restored".  It is written as it was read:
\* it reads the same, but an attribute without its path is gone and a default action
\* has the unnamed value.
UndoDone(c) ==
    /\ cl[c].pc = "undo" /\ cl[c].plan = <<>>
    /\ Done(c) /\ Release(c)
    /\ expected' = Config(expected)
    /\ UNCHANGED <<world, abandoned, torn, intent, counters>>

UndoFails(c) ==
    /\ cl[c].pc = "undo" /\ cl[c].plan # <<>> /\ CallFails(c)
    /\ ReturnTorn(c)
    /\ UNCHANGED <<world, ops, crashes>>

\* After a failed native step: the managed half is undone, the native half is not.
NativeFails(c) ==
    IF TouchesManaged(cl[c].req) THEN RollBack(c) ELSE Return(c)

\* A native edit with --force-native is no configuration change.
NativeDone(c) == IF cl[c].req.op = "native" THEN Return(c)
                 ELSE ReturnOk(c, TouchesManaged(cl[c].req))

\* update_native_config: ChangeServiceConfig for start type and the other fields,
\* then ChangeServiceConfig2 for the description.
ChangeConfig(c) ==
    LET r == cl[c].req
        more == r.description # None
    IN  /\ cl[c].pc = "native"
        /\ \/ /\ scm.present
              /\ scm' = [scm EXCEPT !.disabled = @ \/ r.disable,
                                    !.native = IF r.native # None THEN r.native ELSE @]
              /\ UNCHANGED <<reg, counters>>
              /\ IF more THEN Go(c, "describe") /\ UNCHANGED <<lock, abandoned, told>>
                 ELSE NativeDone(c)
           \/ /\ ~scm.present /\ NativeFails(c) /\ UNCHANGED <<world, counters>>
           \/ /\ scm.present /\ Fault /\ NativeFails(c)
              /\ UNCHANGED <<world, ops, crashes>>

ChangeDescription(c) ==
    /\ cl[c].pc = "describe"
    /\ \/ /\ scm.present
          /\ scm' = [scm EXCEPT !.description = cl[c].req.description]
          /\ NativeDone(c)
          /\ UNCHANGED <<reg, counters>>
       \/ /\ ~scm.present /\ NativeFails(c) /\ UNCHANGED <<world, counters>>
       \/ /\ scm.present /\ Fault /\ NativeFails(c) /\ UNCHANGED <<world, ops, crashes>>

-----------------------------------------------------------------------------
(* set_value and unset_value (cmd_set, cmd_unset, cmd_reset) *)

\* The key must be there and carry the marker.
OpenForSet(c) ==
    LET r == cl[c].req
    IN  /\ cl[c].pc = "open"
        /\ UNCHANGED <<world, counters>>
        /\ IF ~HasMarker(reg) THEN Return(c)
           ELSE /\ cl' = [cl EXCEPT ![c].pc = "set", ![c].orig = reg,
                                    ![c].goal = SetGoal(reg, r.name, r.value),
                                    ![c].plan = SetPlan(r.name, r.value)]
                /\ intent' = SetGoal(reg, r.name, r.value)
                /\ UNCHANGED <<lock, abandoned, expected, torn>>

SetDone(c) ==
    /\ cl[c].pc = "set" /\ cl[c].plan = <<>>
    /\ ReturnOk(c, FALSE)
    /\ UNCHANGED <<world, counters>>

\* There is no rollback, and the registry's own error is all the caller gets: a
\* clear that fails at the second call has cleared the path and left the attributes.
SetFails(c) ==
    LET all == SetPlan(cl[c].req.name, cl[c].req.value)
    IN  /\ cl[c].pc = "set" /\ cl[c].plan # <<>> /\ CallFails(c)
        /\ IF cl[c].plan = all \/ ~scm.present THEN Return(c)
           ELSE ReturnPartial(c, Apply(expected, Head(all)))
        /\ UNCHANGED <<world, ops, crashes>>

-----------------------------------------------------------------------------
(* install *)

\* DeleteService.  A stopped service goes with its registry subtree, another one is
\* marked and goes when it stops.
Delete ==
    IF Stopped(scm) THEN scm' = Absent /\ reg' = NoValues
    ELSE scm' = [scm EXCEPT !.doomed = TRUE] /\ UNCHANGED reg

NewService(r) ==
    [present |-> TRUE, runner |-> TRUE, disabled |-> FALSE, native |-> r.native,
     description |-> r.native, state |-> "Stopped", doomed |-> FALSE]

\* CreateService; fails when the name is taken.
CreateService(c) ==
    /\ cl[c].pc = "create"
    /\ \/ /\ ~scm.present
          /\ scm' = NewService(cl[c].req) /\ reg' = NoValues
          /\ Go(c, "describe_new")
          /\ UNCHANGED <<lock, abandoned, told, counters>>
       \/ scm.present /\ Return(c) /\ UNCHANGED <<world, counters>>
       \/ ~scm.present /\ Fault /\ Return(c) /\ UNCHANGED <<world, ops, crashes>>

\* complete_install: the description, or the service is deleted again.
DescribeNew(c) ==
    LET cfg == cl[c].req.config
    IN  /\ cl[c].pc = "describe_new"
        /\ \/ /\ cl' = [cl EXCEPT ![c].pc = "configure", ![c].goal = cfg,
                                  ![c].plan = WritePlan(reg, cfg)]
              /\ intent' = cfg
              /\ UNCHANGED <<world, lock, abandoned, expected, torn, counters>>
           \/ /\ Fault /\ Go(c, "uninstall")
              /\ UNCHANGED <<world, lock, abandoned, told, ops, crashes>>

Configured(c) ==
    /\ cl[c].pc = "configure" /\ cl[c].plan = <<>>
    /\ ReturnOk(c, TRUE)
    /\ UNCHANGED <<world, counters>>

ConfigureFails(c) ==
    /\ cl[c].pc = "configure" /\ cl[c].plan # <<>> /\ CallFails(c)
    /\ Go(c, "uninstall")
    /\ UNCHANGED <<world, lock, abandoned, told, ops, crashes>>

\* remove_service as a rollback; it can fail as well, which the message says.  A
\* service that was started meanwhile is only marked: the message says that it was
\* rolled back, and what was written stays until it stops.
Uninstall(c) ==
    /\ cl[c].pc = "uninstall"
    /\ \/ /\ scm.present /\ Delete
          /\ IF Stopped(scm) THEN Return(c) ELSE ReturnPartial(c, reg)
          /\ UNCHANGED counters
       \/ CallFails(c) /\ ReturnTorn(c) /\ UNCHANGED <<world, ops, crashes>>

-----------------------------------------------------------------------------
(* remove *)

\* Existence, ownership and the stopped check, all against one query.
RemoveChecks(c) ==
    /\ cl[c].pc = "query" /\ cl[c].req.op = "remove"
    /\ UNCHANGED <<world, counters>>
    /\ IF /\ scm.present
          /\ cl[c].req.force \/ EnsureManaged
          /\ Stopped(scm)
       THEN Go(c, "delete") /\ UNCHANGED <<lock, abandoned, told>>
       ELSE Return(c)

DeleteService(c) ==
    /\ cl[c].pc = "delete"
    /\ \/ /\ scm.present /\ ~scm.doomed /\ Delete
          /\ Go(c, "purge")
          /\ expected' = reg'
          /\ torn' = (torn /\ ~Stopped(scm))
          /\ UNCHANGED <<lock, abandoned, intent, counters>>
       \/ /\ ~scm.present \/ scm.doomed
          /\ Return(c) /\ UNCHANGED <<world, counters>>
       \/ scm.present /\ Fault /\ Return(c) /\ UNCHANGED <<world, ops, crashes>>

\* Fault: a purge that does not ask whose configuration it is.
PurgeBlindly(c) ==
    /\ cl[c].pc = "purge"
    /\ cl' = [cl EXCEPT ![c].pc = "scrub", ![c].orig = reg, ![c].plan = ScrubPlan,
                        ![c].goal = NoValues]
    /\ intent' = NoValues
    /\ UNCHANGED <<world, counters, lock, abandoned, expected, torn>>

\* is_managed_for_purge reads again; only a confirmed configuration is scrubbed.
Purge(c) ==
    /\ cl[c].pc = "purge"
    /\ UNCHANGED <<world, counters>>
    /\ IF ~Readable(reg) THEN Return(c)
       ELSE /\ cl' = [cl EXCEPT ![c].pc = "scrub", ![c].orig = reg, ![c].plan = ScrubPlan,
                                ![c].goal = NoValues]
            /\ intent' = NoValues
            /\ UNCHANGED <<lock, abandoned, expected, torn>>

\* scrub_managed goes on after a failure and reports all of them at the end.
Scrub(c) ==
    /\ cl[c].pc = "scrub" /\ cl[c].plan # <<>>
    /\ \/ /\ scm.present
          /\ reg' = Apply(reg, Head(cl[c].plan))
          /\ cl' = [cl EXCEPT ![c].plan = Tail(@)]
          /\ UNCHANGED faults
       \/ /\ CallFails(c)
          /\ cl' = [cl EXCEPT ![c].plan = Tail(@), ![c].failed = TRUE]
          /\ UNCHANGED <<reg>>
    /\ UNCHANGED <<scm, lock, abandoned, expected, torn, intent, ops, crashes>>

Scrubbed(c) ==
    /\ cl[c].pc = "scrub" /\ cl[c].plan = <<>>
    /\ IF cl[c].failed THEN ReturnTorn(c) ELSE ReturnOk(c, TRUE)
    /\ UNCHANGED <<world, counters>>

-----------------------------------------------------------------------------
(* repair_runner and the controls: no mutex, the answer may be stale *)

Lifecycle(c) == cl[c].pc = "query" /\ cl[c].req.op \in UnlockedOps

\* repair_runner and rotate act on a configuration, not on the runner's image alone;
\* has_online_rotation needs an output file.
RepairAllowed == Readable(reg) /\ Stopped(scm)
RotateAllowed == Readable(reg) /\ reg["AppStdout"] # None

\* start with ensure_enabled; the forced start leaves the check to the SCM, the forced
\* restart does not.
StartAllowed(r) == r.op = "start" => r.force \/ ~scm.disabled
RestartAllowed(r) == r.op = "restart" => ~scm.disabled

Allowed(r) ==
    /\ scm.present
    /\ r.force \/ EnsureManaged
    /\ StartAllowed(r) /\ RestartAllowed(r)
    /\ r.op = "repair" => RepairAllowed
    /\ r.op = "rotate" => RotateAllowed

\* restart_using goes on according to the state of the same query.  The rotation
\* settings are not among the names kept here, so a rotate may be refused for want of
\* an online rotation although there is an output file.
Check(c) ==
    LET r == cl[c].req
    IN  /\ Lifecycle(c)
        /\ UNCHANGED <<world, counters>>
        /\ \/ (~Allowed(r) \/ r.op = "rotate") /\ Return(c)
           \/ /\ Allowed(r)
              /\ Go(c, IF r.op = "repair" THEN "rebind"
                       ELSE IF r.op = "start" THEN "startservice"
                       ELSE IF r.op \in Controls THEN "control"
                       ELSE IF Stopped(scm) THEN "startservice"
                       ELSE IF scm.state = "StopPending" THEN "poll" ELSE "control")
              /\ UNCHANGED <<lock, abandoned, told>>

\* repair_service_runner.
Rebind(c) ==
    /\ cl[c].pc = "rebind"
    /\ \/ scm.present /\ scm' = [scm EXCEPT !.runner = TRUE] /\ UNCHANGED faults
       \/ ~scm.present /\ UNCHANGED <<scm, faults>>
       \/ Fault /\ UNCHANGED scm
    /\ Return(c)
    /\ UNCHANGED <<reg, ops, crashes>>

\* StartService: the SCM refuses a service that is disabled, active or marked.
StartService(c) ==
    /\ cl[c].pc = "startservice"
    /\ scm' = IF scm.present /\ ~scm.disabled /\ ~scm.doomed /\ Stopped(scm)
              THEN [scm EXCEPT !.state = "StartPending"] ELSE scm
    /\ Return(c)
    /\ UNCHANGED <<reg, counters>>

\* ControlService: which states accept which control, and what becomes of them.
Controlled(op) ==
    IF op = "stop" /\ scm.state \in {"Running", "Paused"} THEN "StopPending"
    ELSE IF op = "pause" /\ scm.state = "Running" THEN "Paused"
    ELSE IF op = "continue" /\ scm.state = "Paused" THEN "Running"
    ELSE scm.state

\* The restart stops a service that is not stopping; one that is not active any
\* more is no error for it, every other failure is.
Control(c) ==
    LET op == IF cl[c].req.op = "restart" THEN "stop" ELSE cl[c].req.op
        ends == cl[c].req.op # "restart" \/ ~scm.present
                    \/ scm.state \in {"StartPending", "StopPending"}
    IN  /\ cl[c].pc = "control"
        /\ scm' = IF scm.present THEN [scm EXCEPT !.state = Controlled(op)] ELSE scm
        /\ IF ends THEN Return(c) ELSE Go(c, "poll") /\ UNCHANGED <<lock, abandoned, told>>
        /\ UNCHANGED <<reg, counters>>

\* The polling loop of restart_using: Stopped, or the timeout, or a failed query.
Poll(c) ==
    /\ cl[c].pc = "poll" /\ scm.present /\ Stopped(scm)
    /\ Go(c, "startservice")
    /\ UNCHANGED <<world, lock, abandoned, told, counters>>

\* Fault: only a failed query ends the loop.
PollForever(c) ==
    /\ cl[c].pc = "poll" /\ ~scm.present
    /\ Return(c)
    /\ UNCHANGED <<world, counters>>

PollTimeout(c) ==
    /\ cl[c].pc = "poll" /\ ~(scm.present /\ Stopped(scm))
    /\ Return(c)
    /\ UNCHANGED <<world, counters>>

-----------------------------------------------------------------------------
(* The service process: external *)

\* A state change of the service; a marked service that stops is deleted.
ServiceStep ==
    /\ scm.present
    /\ \E s \in ServiceStates :
        /\ <<scm.state, s>> \in {<<"StartPending", "Running">>, <<"StartPending", "Stopped">>,
                                 <<"Running", "Stopped">>, <<"Paused", "Stopped">>,
                                 <<"StopPending", "Stopped">>}
        /\ IF s = "Stopped" /\ scm.doomed
           THEN scm' = Absent /\ reg' = NoValues /\ expected' = NoValues /\ torn' = FALSE
           ELSE scm' = [scm EXCEPT !.state = s] /\ UNCHANGED <<reg, expected, torn>>
    /\ UNCHANGED <<lock, abandoned, cl, intent, counters>>

ClientStep(c) ==
    \/ Acquire(c) \/ LockTimeout(c) \/ ReadConfig(c) \/ RegistryCall(c) \/ WriteFails(c)
    \/ WriteDone(c) \/ UndoDone(c) \/ UndoFails(c) \/ ChangeConfig(c)
    \/ ChangeDescription(c) \/ OpenForSet(c) \/ SetDone(c) \/ SetFails(c)
    \/ CreateService(c) \/ DescribeNew(c) \/ Configured(c) \/ ConfigureFails(c)
    \/ Uninstall(c) \/ RemoveChecks(c) \/ DeleteService(c) \/ Purge(c) \/ Scrub(c)
    \/ Scrubbed(c) \/ Check(c) \/ Rebind(c) \/ StartService(c) \/ Control(c)
    \/ Poll(c) \/ PollTimeout(c)

Next ==
    \/ \E c \in Clients : ClientStep(c) \/ Crash(c) \/ \E r \in Requests : Begin(c, r)
    \/ ServiceStep

\* A process that is not dead goes on; the service need not.
Spec == Init /\ [][Next]_vars /\ \A c \in Clients : WF_vars(ClientStep(c))

-----------------------------------------------------------------------------
(* Properties *)

TypeOK ==
    /\ scm \in ScmRecords /\ reg \in Registry
    /\ lock \in Clients \cup {NoOne} /\ {abandoned, torn} \subseteq BOOLEAN
    /\ expected \in Registry /\ intent \in Registry

\* With nobody inside the mutex the registry reads as the requests left it, one
\* after the other, each whole or not at all: no update is lost between two processes,
\* and an operation that failed and gave no warning of a partial change changed nothing
\* (edit_with_backend, rollback_managed, save_recovery, set_value, install, remove).
\* The code has two failures that stay silent about what they leave, and these leave
\* that and no more: a clear that stops between its deletes takes the path without its
\* attributes, which reads as a finished clear (clear_path_value), and a failed install
\* whose service was started meanwhile leaves what it wrote until the marked service
\* stops (remove_service).
SettledAsReported == lock = NoOne /\ ~torn => SameReading(reg, expected)

\* write_into_key writes first: whatever fails, and wherever the process dies, a
\* setting that the configuration had and was to keep is never absent, the
\* Application marker least of all.
NeverErased ==
    scm.present /\ ~torn =>
        \A n \in Names :
            Config(expected)[n] # None /\ Config(intent)[n] # None => Config(reg)[n] # None

\* A service without the marker keeps its values: only an install of that very
\* service, and a purge that read a whole configuration before its first delete,
\* write under Parameters (require_managed_marker, is_managed_for_purge).
NativeUntouched ==
    [][ reg' # reg /\ scm.present /\ scm'.present /\ ~HasMarker(reg) =>
            \E c \in Clients :
                /\ lock = c
                /\ cl[c].pc = "configure" \/ (cl[c].pc = "scrub" /\ Readable(cl[c].orig)) ]_vars

\* Every operation returns: the wait for the mutex, and the restart's wait for a
\* service that never stops, are bounded (lock_with_timeout, restart_using).
OperationsReturn == \A c \in Clients : (cl[c] # Idle) ~> (cl[c] = Idle)
=============================================================================
