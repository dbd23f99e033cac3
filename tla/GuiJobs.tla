------------------------------ MODULE GuiJobs ------------------------------
(***************************************************************************)
(* The desktop GUI: the controller on the UI thread (app.rs), its request  *)
(* lifecycles (requests.rs, forms.rs, recovery.rs) and the worker thread   *)
(* with its bounded queue (data.rs).  A callback runs to its end on the UI *)
(* thread; the worker and the rest of the world go on meanwhile.           *)
(*                                                                         *)
(* The world is what the GUI looks at: the services and their fields.  now *)
(* counts its changes, so that a snapshot has an age.  A field's value is  *)
(* a number, and whether it is stored with blanks around it.               *)
(***************************************************************************)
EXTENDS Naturals, Sequences, FiniteSets

CONSTANTS
    ServiceNames,
    None,
    Cap,           \* JOB_CHANNEL_CAP
    ShownCap,      \* the operations StatusState keeps, 32 in the code
    MaxActs,       \* user callbacks in a behaviour
    MaxChanges     \* changes of the world that are not the GUI's

ASSUME GuiAssumption ==
    /\ None \notin ServiceNames /\ Cap \in Nat \ {0} /\ ShownCap \in Nat \ {0}
    /\ MaxActs \in Nat /\ MaxChanges \in Nat

\* A text field, which is compared as it is, a path, which is trimmed first, and the
\* account, which is trimmed too and goes along with every password.
Fields == {"display_name", "application", "account"}
TrimmedFields == {"application", "account"}

VARIABLES
    world, now,
    \* data.rs
    queue, pendingRefresh, worker, results, wakes,
    \* AppState
    ui,        \* "ready", or "draining" inside drain_results
    defs,      \* the services of the last snapshot
    retry,     \* RefreshState
    modal,     \* ModalState, with the edit form and the process rows
    picker,    \* the modal generation a file picker was opened for
    logs,      \* LogViewState
    recovery,  \* RecoveryEditor
    selected,  \* the selected service
    actionId,  \* action_ids
    status,    \* StatusState.pending: the set of operations shown as pending
    \* bookkeeping of the properties
    acts, changes, owed, scanned, lostEdit

outside == <<world, now, changes>>
jobs == <<queue, pendingRefresh, retry, owed>>
views == <<modal, picker, logs, recovery>>
bookkeeping == <<actionId, status>>
guiVars == <<world, now, queue, pendingRefresh, worker, results, wakes, ui, defs,
            retry, modal, picker, logs, recovery, selected, actionId, status,
            acts, changes, owed, scanned, lostEdit>>

\* The worker waits for a job.
Idle == [job |-> None, stage |-> "idle", ok |-> FALSE, result |-> None]

GuiInit ==
    /\ \E p \in BOOLEAN :
        world = [s \in ServiceNames |-> [f \in Fields |->
                    [n |-> 0, padded |-> p /\ f = "application"]]]
    /\ now = 0
    /\ queue = <<[type |-> "Refresh"]>> /\ pendingRefresh = TRUE /\ retry = FALSE
    /\ worker = Idle /\ results = <<>> /\ wakes = 0
    /\ ui = "ready" /\ defs = <<>>
    /\ modal = [kind |-> "Closed", generation |-> 0, next |-> 0, current |-> None,
                service |-> None, form |-> None, rows |-> None]
    /\ picker = None
    /\ logs = [next |-> 0, current |-> None, target |-> None, lines |-> None]
    /\ recovery = [next |-> 0, current |-> None, service |-> None, generation |-> 0,
                   draft |-> None]
    /\ selected = None /\ actionId = 0 /\ status = {}
    /\ acts = 0 /\ changes = 0 /\ owed = 0 /\ scanned = 0 /\ lostEdit = FALSE

-----------------------------------------------------------------------------
(* JobSender *)

\* send: a Refresh is dropped while one is pending; a Refresh that does not fit
\* takes its mark back.
Send(j) ==
    LET refresh == j.type = "Refresh"
        full == Len(queue) >= Cap
    IN  IF refresh /\ pendingRefresh
        THEN [ok |-> TRUE, queue |-> queue, flag |-> TRUE]
        ELSE [ok |-> ~full, queue |-> IF full THEN queue ELSE Append(queue, j),
              flag |-> IF refresh THEN ~full ELSE pendingRefresh]

Sent(j) == queue' = Send(j).queue /\ pendingRefresh' = Send(j).flag

\* RefreshState::request and request_refresh.
RequestRefresh ==
    /\ Sent([type |-> "Refresh"])
    /\ retry' = ~Send([type |-> "Refresh"]).ok
    /\ owed' = now

\* StatusState: one entry gives way when there are too many.  It is the oldest; which
\* one is not told apart here.
BeginOperation(kind, id) ==
    \E kept \in {status} \cup {status \ {e} : e \in status} :
        /\ (kept = status) = (Cardinality(status) < ShownCap)
        /\ status' = kept \cup {<<kind, id>>}

FinishOperation(kind, id) == status' = status \ {<<kind, id>>}

\* apply_mutation_outcome: MutationOutcome asks for a refresh after a failure too.
ApplyMutationOutcome(kind, id) == FinishOperation(kind, id) /\ RequestRefresh

-----------------------------------------------------------------------------
(* Callbacks of the window: what a user may do next *)

Callback == ui = "ready" /\ acts < MaxActs /\ acts' = acts + 1

\* Everything a callback leaves alone.
Elsewhere == UNCHANGED <<world, now, changes, worker, results, wakes, ui, defs, scanned>>

\* on_refresh and auto_refresh_tick.
Refresh ==
    /\ Callback /\ RequestRefresh
    /\ UNCHANGED <<views, selected, bookkeeping, lostEdit>> /\ Elsewhere

Select(s) ==
    /\ Callback /\ s \in DOMAIN defs /\ selected' = s
    /\ UNCHANGED <<jobs, views, bookkeeping, lostEdit>> /\ Elsewhere

\* queue_action: the operation is pending once it is queued.
QueueAction(s, kind) ==
    LET j == [type |-> "Action", id |-> actionId + 1, service |-> s, kind |-> kind]
    IN  /\ actionId' = actionId + 1
        /\ Sent(j) /\ UNCHANGED <<retry, owed>>
        /\ IF Send(j).ok THEN BeginOperation("action", j.id) ELSE UNCHANGED status

\* on_action for start, stop, restart, pause, continue and rotate.
Action(s) ==
    /\ Callback /\ s \in DOMAIN defs
    /\ QueueAction(s, "lifecycle")
    /\ UNCHANGED <<views, selected, lostEdit>> /\ Elsewhere

\* ModalState::replace and replace_modal.
Replaceable(m) == ~(m.current # None /\ m.kind \in {"Install", "Edit"})

Replaced(m, kind, s, form) ==
    [m EXCEPT !.kind = kind, !.generation = @ + 1, !.current = None,
              !.service = s, !.form = form]

OpenModal(kind, s) ==
    /\ Callback /\ Replaceable(modal)
    /\ modal' = Replaced(modal, kind, s, None)
    /\ UNCHANGED <<jobs, picker, logs, recovery, selected, bookkeeping, lostEdit>>
    /\ Elsewhere

\* EditForm::from_definition; typed and password are the user's own.
FormOf(d) == [orig |-> d, value |-> d, typed |-> {}, password |-> FALSE]

\* open_edit_modal.
OpenEdit(s) ==
    /\ Callback /\ s \in DOMAIN defs /\ Replaceable(modal)
    /\ modal' = Replaced(modal, "Edit", s, FormOf(defs[s]))
    /\ UNCHANGED <<jobs, picker, logs, recovery, selected, bookkeeping, lostEdit>>
    /\ Elsewhere

\* ModalState::submit: the request is remembered only when it was queued.
Submitted(m, request, ok) == [m EXCEPT !.next = @ + 1, !.current = IF ok THEN request ELSE None]

ModalRequest(m) ==
    [id |-> m.next + 1, kind |-> m.kind, service |-> m.service, generation |-> m.generation]

\* open_processes_modal.
OpenProcesses(s) ==
    LET m == [Replaced(modal, "Processes", s, None) EXCEPT !.rows = None]
        j == [type |-> "Processes", request |-> ModalRequest(m)]
    IN  /\ Callback /\ s \in DOMAIN defs /\ Replaceable(modal)
        /\ Sent(j) /\ UNCHANGED <<retry, owed>>
        /\ modal' = Submitted(m, j.request, Send(j).ok)
        /\ UNCHANGED <<picker, logs, recovery, selected, bookkeeping, lostEdit>>
        /\ Elsewhere

\* A field of the edit form gets a value that its user chose.
Typed(form, f, n) ==
    [form EXCEPT !.value = [@ EXCEPT ![f] = [n |-> n, padded |-> FALSE]], !.typed = @ \cup {f}]

\* The user changes a field of the edit form.
TypeField(f) ==
    /\ Callback /\ modal.kind = "Edit" /\ modal.current = None
    /\ modal' = [modal EXCEPT !.form = Typed(@, f, 100 + acts)]
    /\ UNCHANGED <<jobs, picker, logs, recovery, selected, bookkeeping, lostEdit>>
    /\ Elsewhere

\* EditForm::clear_password and the password field.
WithPassword(form, set) == [form EXCEPT !.password = set]

TypePassword ==
    /\ Callback /\ modal.kind = "Edit" /\ modal.current = None
    /\ modal' = [modal EXCEPT !.form = WithPassword(@, TRUE)]
    /\ UNCHANGED <<jobs, picker, logs, recovery, selected, bookkeeping, lostEdit>>
    /\ Elsewhere

Trimmed(f, v) == IF f \in TrimmedFields THEN [v EXCEPT !.padded = FALSE] ELSE v

\* Fault: the whole form is sent, whatever its user touched.
ToSpecAll(form) == [f \in Fields |-> Trimmed(f, form.value[f])]

\* EditForm::to_spec: the fields that differ from the originals, paths and account
\* trimmed, and the account the form shows whenever there is a password.
ToSpec(form) ==
    [f \in {g \in Fields : \/ Trimmed(g, form.value[g]) # form.orig[g]
                           \/ g = "account" /\ form.password} |->
        Trimmed(f, form.value[f])]

\* on_modal_edit_submit and on_modal_install_submit; the password is cleared whether
\* the job was queued or not.
SubmitModal ==
    LET edit == modal.kind = "Edit"
        cleared == IF edit THEN [modal EXCEPT !.form = WithPassword(@, FALSE)] ELSE modal
        j == [type |-> modal.kind, request |-> ModalRequest(modal),
              spec |-> IF edit THEN ToSpec(modal.form) ELSE <<>>,
              form |-> IF edit THEN modal.form ELSE None]
    IN  /\ Callback /\ modal.kind \in {"Install", "Edit"} /\ modal.current = None
        /\ Sent(j) /\ UNCHANGED <<retry, owed>>
        /\ modal' = Submitted(cleared, j.request, Send(j).ok)
        /\ IF Send(j).ok THEN BeginOperation("modal", j.request.id) ELSE UNCHANGED status
        /\ UNCHANGED <<picker, logs, recovery, selected, actionId, lostEdit>>
        /\ Elsewhere

\* on_modal_remove_confirm: the dialog closes when the removal is queued.
ConfirmRemove ==
    /\ Callback /\ modal.kind = "Remove"
    /\ QueueAction(modal.service, "remove")
    /\ modal' = IF Len(queue) < Cap THEN Replaced(modal, "Closed", None, None) ELSE modal
    /\ UNCHANGED <<picker, logs, recovery, selected, lostEdit>> /\ Elsewhere

\* on_modal_browse_app: the picker has an event loop of its own, so that the dialog
\* may be another one, or busy, when it returns.  Only the edit form's fields are
\* modelled.
Browse ==
    /\ Callback /\ picker = None /\ modal.current = None /\ modal.kind \in {"Install", "Edit"}
    /\ picker' = modal.generation
    /\ UNCHANGED <<jobs, modal, logs, recovery, selected, bookkeeping, lostEdit>>
    /\ Elsewhere

Picked ==
    /\ ui = "ready" /\ picker # None /\ picker' = None
    /\ modal' = IF modal.generation = picker /\ modal.current = None /\ modal.form # None
                THEN [modal EXCEPT !.form = Typed(@, "application", 200)]
                ELSE modal
    /\ UNCHANGED <<jobs, logs, recovery, selected, bookkeeping, acts, lostEdit>>
    /\ Elsewhere

\* request_log, for a reload and for the other stream.
RequestLog(stderr) ==
    LET target == [service |-> selected, stderr |-> stderr]
        request == [id |-> logs.next + 1, target |-> target]
        j == [type |-> "ReadLog", request |-> request]
    IN  /\ Callback
        /\ \/ /\ selected # None
              /\ Sent(j) /\ UNCHANGED <<retry, owed>>
              /\ logs' = [next |-> request.id, target |-> target, lines |-> None,
                          current |-> IF Send(j).ok THEN request ELSE None]
           \/ /\ selected = None
              /\ logs' = [logs EXCEPT !.current = None, !.target = None, !.lines = None]
              /\ UNCHANGED jobs
        /\ UNCHANGED <<modal, picker, recovery, selected, bookkeeping, lostEdit>>
        /\ Elsewhere

\* RecoveryEditor::leave.
Left(r) == [r EXCEPT !.current = None, !.service = None]

\* on_view_changed: the log view and the recovery editor forget what is under way.
ViewChanged(v) ==
    /\ Callback
    /\ recovery' = IF v # "recovery" THEN Left(recovery) ELSE recovery
    /\ logs' = IF v # "logs" THEN [logs EXCEPT !.current = None] ELSE logs
    /\ UNCHANGED <<jobs, modal, picker, selected, bookkeeping, lostEdit>> /\ Elsewhere

RecoveryRequest(r, work) ==
    [id |-> r.next + 1, service |-> r.service, generation |-> r.generation, work |-> work]

\* RecoveryEditor::activate keeps the draft of the same service only.
Activated(r, s) ==
    [Left(r) EXCEPT !.generation = @ + 1, !.service = s,
        !.draft = IF @ # None /\ @.service = s THEN [@ EXCEPT !.dirty = FALSE] ELSE None]

\* reload_recovery.
ReloadRecovery ==
    LET r == Activated(recovery, selected)
        j == [type |-> "ReadRecovery", request |-> RecoveryRequest(r, "Read")]
    IN  /\ Callback /\ recovery.current = None
        /\ \/ /\ selected # None
              /\ Sent(j) /\ UNCHANGED <<retry, owed>>
              /\ recovery' = Submitted(r, j.request, Send(j).ok)
           \/ /\ selected = None
              /\ recovery' = Left(recovery) /\ UNCHANGED jobs
        /\ UNCHANGED <<modal, picker, logs, selected, bookkeeping, lostEdit>>
        /\ Elsewhere

\* editable_draft: rows and fields change only while nothing is under way.
EditRecovery ==
    /\ Callback /\ recovery.service # None /\ recovery.current = None
    /\ recovery.draft # None
    /\ recovery' = [recovery EXCEPT !.draft.dirty = TRUE]
    /\ UNCHANGED <<jobs, modal, picker, logs, selected, bookkeeping, lostEdit>>
    /\ Elsewhere

\* on_recovery_save and RecoveryForm::to_spec.
SaveRecovery ==
    LET j == [type |-> "SaveRecovery", request |-> RecoveryRequest(recovery, "Save"),
              spec |-> recovery.draft]
    IN  /\ Callback /\ recovery.service # None /\ recovery.current = None
        /\ recovery.draft # None
        /\ Sent(j) /\ UNCHANGED <<retry, owed>>
        /\ recovery' = Submitted(recovery, j.request, Send(j).ok)
        /\ IF Send(j).ok THEN BeginOperation("recovery", j.request.id) ELSE UNCHANGED status
        /\ UNCHANGED <<modal, picker, logs, selected, actionId, lostEdit>> /\ Elsewhere

UserStep ==
    \/ Refresh \/ TypePassword \/ SubmitModal \/ ConfirmRemove \/ Browse \/ ReloadRecovery
    \/ EditRecovery \/ SaveRecovery
    \/ \E s \in ServiceNames :
        Select(s) \/ Action(s) \/ OpenEdit(s) \/ OpenProcesses(s) \/ OpenModal("Remove", s)
    \/ OpenModal("Install", None) \/ OpenModal("Closed", None)
    \/ \E f \in Fields : TypeField(f)
    \/ \E e \in BOOLEAN : RequestLog(e)
    \/ \E v \in {"services", "logs", "recovery"} : ViewChanged(v)

-----------------------------------------------------------------------------
(* worker_loop *)

UiUnchanged ==
    UNCHANGED <<ui, defs, retry, views, selected, bookkeeping, acts, owed, scanned, lostEdit>>

Take ==
    /\ worker.stage = "idle" /\ queue # <<>>
    /\ worker' = [job |-> Head(queue), stage |-> "taken", ok |-> FALSE, result |-> None]
    /\ queue' = Tail(queue)
    /\ UNCHANGED <<outside, pendingRefresh, results, wakes>> /\ UiUnchanged

\* The mark of a Refresh goes before it looks at the world.
ClearMark ==
    /\ worker.stage = "taken"
    /\ worker' = [worker EXCEPT !.stage = "execute"]
    /\ pendingRefresh' = (pendingRefresh /\ worker.job.type # "Refresh")
    /\ UNCHANGED <<outside, queue, results, wakes>> /\ UiUnchanged

\* What the operations of ServiceOps do to what the GUI looks at.
Changed(w) == world' = w /\ now' = now + 1

Without(s) == [t \in DOMAIN world \ {s} |-> world[t]]

Edited(s, spec) ==
    [world EXCEPT ![s] = [f \in Fields |-> IF f \in DOMAIN spec THEN spec[f] ELSE world[s][f]]]

\* The JobResult is made.
Done(ok, result) ==
    worker' = [worker EXCEPT !.stage = "post", !.ok = ok, !.result = result]

\* execute: an operation succeeds or fails; a failed one may have changed something.
Execute ==
    LET j == worker.job
    IN  /\ worker.stage = "execute"
        /\ \/ /\ j.type = "Refresh"
              /\ \E ok \in BOOLEAN : Done(ok, [at |-> now, defs |-> world])
              /\ UNCHANGED <<world, now>>
           \/ /\ j.type \in {"Processes", "ReadLog", "ReadRecovery"}
              /\ \E ok \in BOOLEAN : (j.type = "ReadLog" => ok) /\ Done(ok, None)
              /\ UNCHANGED <<world, now>>
           \/ /\ j.type = "Action" /\ Done(TRUE, None)
              /\ Changed(IF j.kind = "remove" THEN Without(j.service) ELSE world)
           \/ /\ j.type \in {"Install", "SaveRecovery"} /\ Done(TRUE, None)
              /\ Changed(world)
           \/ /\ j.type = "Edit" /\ j.request.service \in DOMAIN world /\ DOMAIN j.spec # {}
              /\ Done(TRUE, None) /\ Changed(Edited(j.request.service, j.spec))
           \/ /\ j.type \in {"Install", "SaveRecovery", "Edit", "Action"}
              /\ Done(FALSE, None) /\ UNCHANGED <<world, now>>
        /\ UNCHANGED <<changes, queue, pendingRefresh, results, wakes>> /\ UiUnchanged

\* The result is sent and the event loop is woken.
Post ==
    /\ worker.stage = "post"
    /\ worker' = Idle /\ wakes' = wakes + 1
    /\ results' = Append(results, [job |-> worker.job, ok |-> worker.ok, result |-> worker.result])
    /\ UNCHANGED <<outside, queue, pendingRefresh>> /\ UiUnchanged

-----------------------------------------------------------------------------
(* drain_results *)

Wake ==
    /\ ui = "ready" /\ wakes > 0 /\ wakes' = wakes - 1 /\ ui' = "draining"
    /\ UNCHANGED <<outside, jobs, worker, results, defs, views, selected, bookkeeping,
                   acts, scanned, lostEdit>>

\* The next result, and what each kind of result touches.
Result(type) ==
    /\ ui = "draining" /\ results # <<>> /\ Head(results).job.type \in type
    /\ results' = Tail(results)
    /\ UNCHANGED <<outside, worker, wakes, ui, picker, actionId, acts>>

\* JobResult::Services and refresh_service_model, with remap_selection; ScanError.
DrainScan ==
    LET r == Head(results)
        names == DOMAIN r.result.defs
    IN  /\ Result({"Refresh"})
        /\ scanned' = r.result.at
        /\ defs' = IF r.ok THEN r.result.defs ELSE defs
        /\ IF ~r.ok \/ selected \in names THEN UNCHANGED selected
           ELSE IF names = {} THEN selected' = None ELSE selected' \in names
        /\ UNCHANGED <<jobs, modal, logs, recovery, status, lostEdit>>

\* Fault: an answer is recognised by its service instead of by its request.
MatchesService(p, request) ==
    p.current # None /\ (IF "target" \in DOMAIN request
                         THEN p.current.target.service = request.target.service
                         ELSE p.current.service = request.service)

\* Pending::finish.
Matches(p, request) == p.current # None /\ p.current = request
Finished(p, request) == IF Matches(p, request) THEN [p EXCEPT !.current = None] ELSE p

DrainProcesses ==
    LET q == Head(results).job.request
    IN  /\ Result({"Processes"})
        /\ modal' = IF Matches(modal, q) /\ Head(results).ok
                    THEN [Finished(modal, q) EXCEPT !.rows = q] ELSE Finished(modal, q)
        /\ UNCHANGED <<jobs, defs, logs, recovery, selected, status, scanned, lostEdit>>

\* LogViewState::received.
DrainLog ==
    LET q == Head(results).job.request
    IN  /\ Result({"ReadLog"})
        /\ logs' = IF Matches(logs, q) THEN [Finished(logs, q) EXCEPT !.lines = q] ELSE logs
        /\ UNCHANGED <<jobs, defs, modal, recovery, selected, status, scanned, lostEdit>>

\* RecoveryEditor::loaded.
DrainRecovery ==
    LET q == Head(results).job.request
        applies == Matches(recovery, q) /\ Head(results).ok
    IN  /\ Result({"ReadRecovery"})
        /\ recovery' = [Finished(recovery, q) EXCEPT
                !.draft = IF applies THEN [service |-> q.service, of |-> q.service, dirty |-> FALSE]
                          ELSE @]
        /\ lostEdit' = (lostEdit \/ (applies /\ recovery.draft # None /\ recovery.draft.dirty))
        /\ UNCHANGED <<jobs, defs, modal, logs, selected, status, scanned>>

\* RecoverySaved, and apply_mutation_outcome with its refresh.
DrainSaved ==
    LET q == Head(results).job.request
    IN  /\ Result({"SaveRecovery"})
        /\ recovery' = Finished(recovery, q)
        /\ ApplyMutationOutcome("recovery", q.id)
        /\ UNCHANGED <<defs, modal, logs, selected, scanned, lostEdit>>

\* Installed and Edited: success closes the dialog that asked.
DrainModal ==
    LET q == Head(results).job.request
    IN  /\ Result({"Install", "Edit"})
        /\ modal' = IF Matches(modal, q) /\ Head(results).ok
                    THEN Replaced(modal, "Closed", None, None) ELSE Finished(modal, q)
        /\ ApplyMutationOutcome("modal", q.id)
        /\ UNCHANGED <<defs, logs, recovery, selected, scanned, lostEdit>>

\* Acted.
DrainActed ==
    /\ Result({"Action"})
    /\ ApplyMutationOutcome("action", Head(results).job.id)
    /\ UNCHANGED <<defs, modal, logs, recovery, selected, scanned, lostEdit>>

\* Fault: a refresh that did not fit is forgotten.
DrainEndForgets ==
    /\ ui = "draining" /\ results = <<>> /\ ui' = "ready" /\ UNCHANGED jobs
    /\ UNCHANGED <<outside, worker, results, wakes, defs, views, selected, bookkeeping,
                   acts, scanned, lostEdit>>

\* The end of drain_results: a refresh that did not fit is tried again.
DrainEnd ==
    /\ ui = "draining" /\ results = <<>> /\ ui' = "ready"
    /\ IF retry THEN RequestRefresh ELSE UNCHANGED jobs
    /\ UNCHANGED <<outside, worker, results, wakes, defs, views, selected, bookkeeping,
                   acts, scanned, lostEdit>>

-----------------------------------------------------------------------------

\* Somebody else changes a service: external.
OtherChange ==
    /\ changes < MaxChanges /\ changes' = changes + 1
    /\ \E s \in DOMAIN world :
        Changed([world EXCEPT ![s] = [f \in Fields |-> [n |-> now + 1, padded |-> FALSE]]])
    /\ UNCHANGED <<queue, pendingRefresh, worker, results, wakes>> /\ UiUnchanged

WorkerStep == Take \/ ClearMark \/ Execute \/ Post

EventLoopStep ==
    \/ Wake \/ DrainScan \/ DrainProcesses \/ DrainLog \/ DrainRecovery \/ DrainSaved
    \/ DrainModal \/ DrainActed \/ DrainEnd

GuiNext == UserStep \/ Picked \/ WorkerStep \/ EventLoopStep \/ OtherChange

\* Both threads are scheduled and operations return; the user may do nothing.
GuiSpec ==
    GuiInit /\ [][GuiNext]_guiVars /\ WF_guiVars(WorkerStep) /\ WF_guiVars(EventLoopStep)

-----------------------------------------------------------------------------
(* Properties *)

\* The log lines are the answer to the last request, and of the service and stream
\* named above them.
LogCurrent ==
    logs.lines # None => logs.lines.target = logs.target /\ logs.lines.id = logs.next

\* The process rows are those of the dialog that shows them, not of an earlier one.
ProcessesCurrent ==
    modal.kind = "Processes" /\ modal.rows # None =>
        modal.rows.service = modal.service /\ modal.rows.generation = modal.generation

\* The recovery draft is the policy of the service it would be saved to, and a read
\* that was under way does not replace what the user typed after it.
RecoveryCurrent ==
    /\ recovery.service # None /\ recovery.draft # None =>
            recovery.draft.service = recovery.service /\ recovery.draft.of = recovery.service
    /\ ~lostEdit

InFlight == {queue[i] : i \in DOMAIN queue} \cup {results[i].job : i \in DOMAIN results}
                \cup (IF worker.stage = "idle" THEN {} ELSE {worker.job})

\* e is the operation that job j carries out.
Operation(j, e) ==
    \/ j.type = "Action" /\ e = <<"action", j.id>>
    \/ j.type \in {"Install", "Edit"} /\ e = <<"modal", j.request.id>>
    \/ j.type = "SaveRecovery" /\ e = <<"recovery", j.request.id>>

\* What the status bar calls pending is under way.
StatusCurrent == \A e \in status : \E j \in InFlight : Operation(j, e)

\* A saved policy goes to the service it was read from, however the selection and the
\* view changed meanwhile, and a dialog is busy exactly while its job is under way.
RequestsTrue ==
    /\ \A j \in InFlight : j.type = "SaveRecovery" =>
            j.spec.of = j.request.service /\ j.spec.service = j.request.service
    /\ modal.current # None =>
            \E j \in InFlight : j.type = modal.kind /\ j.request = modal.current

\* No view shows the answer to something the user is no longer looking at, and no
\* request is for a service it was not made for: results come late and in the worker's
\* order, while dialogs, views and selections change (Pending, ModalState,
\* LogViewState, RecoveryEditor, StatusState).
NothingStaleShown ==
    LogCurrent /\ ProcessesCurrent /\ RecoveryCurrent /\ StatusCurrent /\ RequestsTrue

\* A field that an edit writes, and why: its user typed it; or it was stored with
\* blanks, which to_spec trims; or it is the account of a password.
Written(form, f) ==
    \/ f \in form.typed
    \/ f \in TrimmedFields /\ form.orig[f].padded
    \/ f = "account" /\ form.password

\* An edit does not undo somebody else's: of the service it was opened for, and of no
\* other, a form made from an old snapshot writes the fields its user typed, and leaves
\* every other field as it is now (EditForm::to_spec).  The code writes two fields
\* nobody typed, with the value the form showed, over a newer one too: a path whose
\* snapshot had blanks around it, and the account when only a password was typed.
EditKeepsOthers ==
    [][ \A s \in DOMAIN world \cap DOMAIN world' : \A f \in Fields :
            world'[s][f] # world[s][f] /\ changes' = changes =>
                LET form == worker.job.form
                IN  /\ s = worker.job.request.service /\ Written(form, f)
                    /\ world'[s][f] = Trimmed(f, form.value[f]) ]_guiVars

\* A refresh that the user, a timer or a finished operation asked for is answered by
\* a scan that began after it, although requests are coalesced and the queue may be
\* full: when everything has come to rest none is owed (JobSender::send, worker_loop,
\* RefreshState).
RefreshServed ==
    ui = "ready" /\ wakes = 0 /\ queue = <<>> /\ worker.stage = "idle" => scanned >= owed
=============================================================================
