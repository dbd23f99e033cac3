# A TLA+ model of NGSM

NGSM runs an ordinary program as a Windows service: it is registered with the
service control manager (SCM), starts the program in a job object, restarts it
by policy, captures its output, records lifecycle events, and can be configured
from a command line and a desktop panel, or through an elevated broker. This
directory models the part that runs unattended and concurrently, from the SCM's
control handler down to the processes, files and threads of one service; the
operations that configure a service, call by call; the broker and the panel
around them; and the computations on which their answers depend.

Paths below are relative to `src/crates/`.

## 1. The system

| part | state it keeps | operations | what is hard |
|---|---|---|---|
| control channel, `servicemanager-win32/src/runtime.rs` | bounded queue, two sticky terminal bits, atomic decision word, one deferred control | `dispatch_control` in SCM threads; `recv`, `recv_timeout`, `try_recv`, `claim_terminal` in the service thread | lock-free interleavings, a Wake dropped at a full queue |
| service host, `servicemanager-runner/src/lib.rs` | stop flags, one pending transition, one deferred control, deadlines, last reported status | `service_main`, the `bridge` loop, `finish` | Stop racing the end of the supervisor; late transition outcomes; a hung supervisor |
| supervisor, `servicemanager-supervisor/src/lib.rs` | current generation, job, watcher, reader and worker handles, pause state, terminal gate | `run`, `run_generations`, `start_generation`, `sleep_or_stop`, `cleanup_generation`, `finish_stop`, `offer_terminal` | cleanup that fails half way, Stop at every point, exits seen twice |
| pause and continue, `transition.rs`, `process_control.rs` | request phase and cancel flag; suspension increments owned per process | `request`, `cancel`, `execute`, `change`, rollback, `clear_generation` | members that spawn and exit during the scan; partial failure |
| output, `output.rs`, `rotation.rs`, `io_task.rs` | bounded buffer per stream, shared sink, rotation flag and worker | `copy_pipe`, `rotate_sinks`, worker steps, drain | a rotation that fails, is cancelled or times out under load |
| event log, `event_log.rs` and the panel's `event_log_reader.rs` | active file and numbered backups, named mutex | `log`, `maybe_rotate`, `read_since`, `read_recent` | several processes, crashes in the middle, a reader without a lock |
| hooks, diagnostics | child process per hook; bounded record queue | `run_hook`; `report`, `flush` | time limits |
| registry configuration, `servicemanager-registry` | values of one service key, named mutex | `read_managed_config`, `write_managed_config`, `set_value`, `unset_value`, `scrub_managed`, `lock_service_config` | a sequence of single-value writes, each of which can fail; a writer that dies |
| operations, `servicemanager-ops` | none of their own | install, remove, edit, repair, restart, recovery, controls | two stores (SCM and registry) written one after the other, with rollback; two processes at once |
| broker, `servicemanager-broker` | activity counters, connection slots, per-connection watchdog | admit, finish, claim idle shutdown, accept loop | shutdown racing admission; a timeout racing the I/O it cancels |
| panel, `servicemanager-gui` | request generations, job queue, snapshot of the services, metrics | callbacks, `JobSender::send`, worker loop, `drain_results`, `compute_metrics` | stale results, a full queue, a refresh made of three moments |
| core, command line, Win32 wrappers | data types; none; none | validation, quoting, parsing, system calls | encodings and boundaries; three front ends for one operation |

How they interact. An SCM thread calls `dispatch_control`, which only touches
the control channel. The service thread (the bridge) receives from the channel,
sends pause and continue requests to the supervisor's mailbox, raises its stop
flag, and reads three things back: the startup message, the outcome of the
pending request, and the terminal gate. The supervisor thread owns everything
about the child; watcher, reader and worker threads report to it. When the
supervisor is about to end it offers the terminal gate; the bridge claims the
decision word, publishes a Stop it found there, and releases the gate. All
supervisors on a machine share one event log through a named mutex; the panel
reads the same files without it. The command line, the broker's handlers
and the panel's worker call the same operations, which read and write the SCM's
record and the values under the service's registry key, the latter under a named
mutex per service. The panel's window sends jobs to one worker thread through a
bounded queue and applies its results when the event loop wakes.

## 2. Modules

| module | models | extends or uses |
|---|---|---|
| `ControlChannel` | the control channel, one action per atomic operation | |
| `ControlChannelProofs` | theorems about it | `ControlChannel` |
| `PauseControl` | requests, the suspension of a growing and shrinking tree, rollback, pause intent over generations | |
| `PauseControlProofs` | theorems about it | `PauseControl` |
| `SupervisorContract` | abstract: what `Supervisor::run` promises its host | |
| `Supervisor` | `run` in detail: generations, cleanup, exit policy, stop, event records, terminal gate | `SupervisorContract` as refinement target |
| `SupervisorProofs` | theorems about it, the refinement included | `Supervisor` |
| `ServiceHost` | `service_main`, `bridge`, `finish`, composed with the contract and the decision word | `SupervisorContract` |
| `ServiceHostProofs` | theorems about it | `ServiceHost` |
| `EventLog` | writers and rotation under the named mutex, the unlocked scan | |
| `EventLogProofs` | theorems about it | `EventLog` |
| `OutputSink` | pipes, readers, the shared sink, rotation worker, drain | |
| `OutputSinkProofs` | theorems about it | `OutputSink` |
| `ManagedConfig` | the registry values of a service: reading, checks before a write, and each write as its sequence of single-value calls | |
| `ServiceOps` | every operation as a sequence of SCM and registry calls by several processes, with failing calls and deaths, and the service beside them | `ManagedConfig` |
| `ServiceOpsProofs` | theorems about it, the write plans, and conversions of what operations read and write | `ServiceOps`, `Conversions` |
| `BrokerServer` | the broker's accept loop, slots, workers, watchdogs and idle shutdown | |
| `GuiJobs` | the panel: callbacks, job queue, worker, results, dialogs, log view, recovery editor | |
| `Dashboard` | the life of a service as its records tell it, and the availability and counts computed from them | |
| `Conversions` | quoting, registry encodings, exit codes, expansion, image paths, access lists, log tails | |
| `FrontEnds` | each command with each set of flags through command line, broker and panel | |
| `RequestProofs` | theorems about the programs that take requests | `FrontEnds`, `BrokerServer`, `GuiJobs` |

`MC*.tla` give symmetry sets and, where constants are sets of records, their
values; `MCComputations` runs `Dashboard`, `Conversions` and `FrontEnds` as three
families of behaviours of one model. `MC*.cfg` give the constants.

The modules meet at these interfaces. `ServiceHost` is built on
`SupervisorContract`, and `Supervisor` is shown to implement that contract, so
what is proved of the host holds of the host over the detailed supervisor.
`ServiceHost` keeps of the control channel the decision word and the queue of
ordinary controls; that a Stop set in the word also reaches a receive call is
`AcceptedStopDelivered` of `ControlChannel`. `Supervisor` keeps of pausing the
flag; that the flag is true of the processes is the subject of `PauseControl`.
`FrontEnds` ends with the request it hands to an operation and `ServiceOps` begins
with it. `BrokerServer` and `GuiJobs` assume of an operation that it returns,
which is `OperationsReturn` of `ServiceOps`.

### Correspondence of state and actions

Variables carry the names of the fields they stand for, and each VARIABLES list
says which field that is. Variables under "history" do not exist in the code and
no guard reads them. Actions are named after the function, or after the step of
the function, that they stand for: in `ControlChannel` a step is one atomic
operation (load, compare-exchange, `try_send`, receive); in `PauseControl` one
suspend or resume call together with the cancellation and deadline checks in
front of it; in `Supervisor` one section of the code between two points at
which another thread or the host can be observed; in `EventLog` one call to the
file system; in `OutputSink` one critical section of the sink or one step of the
rotation worker; in `ServiceOps` one call to the SCM or the registry; in
`BrokerServer` one critical section of a lock or one pipe call; in `GuiJobs` one
callback of the event loop, one result drained, or one step of the worker between
two points the window can observe.

Conventions:

- Time is not modelled. Where the code compares a clock with a deadline, both
  branches are open, so a property holds for every choice of the timeouts.
- Configuration (exit policy, rotation mode, stop methods) is left open where it
  selects a branch; where it changes the meaning of data it is chosen once in the
  initial state (`copyAndTruncate`).
- A record, a piece of output or a control is a number or a model value.
- A definition whose comment begins with "Fault:" is a wrong variant of the
  definition below it. The specification never uses it; putting it in the place
  of its neighbour shows that the property aimed at it can fail.

## 3. Runs

Type invariants (`TypeOK`) are stated in each module; the runs check the
properties below. Sizes are the distinct states TLC finds.

### Control channel

`control_channel`: two handler activations, two ordinary controls, queue of one.
Two handlers suffice because a third could only repeat one of the two orders of
a compare-exchange against a claim; two controls and a queue of one reach the
full queue (so a Wake does get dropped), a deferral, and a control queued behind
the deferred one.

- `ClaimLinearizes`: all claims answer alike, and after a Stop was acknowledged
  they answer "stop".
- `OrdinaryConserved`: accepted ordinary controls are delivered, held or queued,
  in order, none twice. The single deferred slot is never overwritten.
- `StopNotOvertaken`: a receive that began with a Stop pending never returns an
  ordinary control.
- `AcceptedStopDelivered`: a receiver blocked in `recv` gets the Stop although
  its Wake was dropped. Fairness: each handler activation finishes
  (`dispatch_control` does not block), a receive call in progress goes on, and
  the service thread keeps receiving (the bridge polls on every iteration).

### Pause and continue

Two processes (the root and one it can spawn, and spawn again), two request
objects that can be used again, four passes; 86,391 states. The safety part was
also run with three processes and three passes (1.3 million states).

- `pause_control`: `IncrementsAccounted` (between transitions every live process
  has exactly the increment the supervisor remembers), `TruthfulOutcome` (what
  the client concludes from an outcome is the state the supervisor is in), and
  `FrozenUnlessSlipped`: a paused tree is frozen, also when the next generation
  is due, unless in this generation a process that had spawned since the last
  snapshot exited before it was suspended (history variable `slipped`).
  `RequestAnswered`: every request gets an outcome. Fairness: the supervisor
  thread runs and reads its mailbox, and the bridge cancels a request that is
  overdue.
- `pause_escape` (expected violation): when that does happen
  `PausedTreeFrozen` fails. A member of the snapshot spawns a child and exits;
  its `suspend` returns `Ok(false)`, nothing was added in this pass, the pass
  counts as stable and Pause is `Applied` while the child runs. The review item
  RT-04 (`QUALITY-REVIEW.md`) asks for a stable state that does not contradict
  such snapshots.

Without the cancelling owner `RequestAnswered` does not hold: a request sent
between the last round of the drain loop (`supervisor/src/lib.rs:397`) and the
drop of the receiver stays queued, although the comment above the loop promises a
definitive result. The bridge is not affected, because it cancels.

### Supervisor

`supervisor`: two generations, which is the least at which one can disturb the
next, and a third adds no new pair. Start, reap, join, drain and record steps
may each fail or time out, Stop and Pause may come at any point.

- `GenerationIsolation`: while a root runs, no process, watcher, reader or
  worker of another generation exists.
- `EventsWellFormed`: starts and exits alternate, each exit is recorded once,
  `Stopped` is last.
- `CommittedStopHonoured`: a Stop raised before the gate was released is carried
  out although `run` may have been ending for another reason.
- `CleanEnd`: a result other than an error means that nothing is left running;
  the exception the code makes (Stop after a tree that could not be terminated)
  is written into it.
- `ImplementsContract`: every behaviour is one of `SupervisorContract`, with
  `Life` as the refinement mapping.
- `StopEnds`: a Stop ends `run`, whatever it was doing. Fairness only on the
  supervisor thread: each of its waits has a deadline, so it goes on whether or
  not the child, the readers or the workers do anything.

### Service host

`service_host`: inbox of one; controls that follow each other in one batch and
controls taken in successive iterations pass through the same code, and a
second control behind a pending transition is reached through `deferred`. The
theorems cover every capacity; 519,564 states.

- `AcceptedStopClean`: an accepted Stop ends with `Stopped(0)`, whatever the
  supervisor returns.
- `AcceptedStopCarriedOut`: when `run` has returned and the hand-off did not
  expire, an accepted Stop has been carried out by the supervisor, however late it
  came. There is one exception. A bridge that gives up at its hard deadline returns,
  which drops its `TerminalGate`, and the drop releases the gate
  (`supervisor/src/lib.rs:117`) before `finish` claims; a supervisor that was ending
  with an error then ends, and a Stop accepted after that is left to the
  termination of the process. A bridge that had claimed before it gave up still
  owes the Stop.
- `NoReturnFromStop`: once StopPending or Stopped is reported, no running or paused
  state is.
- `ReportedStateTrue`: with no transition under way, the state reported to the
  SCM is the state of the supervisor, also after a cancelled, rejected or late
  transition.
- `StopEndsHost`: an accepted Stop ends the host. The bridge thread runs; strong
  fairness on `GiveUp` says that a deadline measured from the Stop passes
  although each single iteration may be early; the supervisor owes nothing and
  may hang.

### Event log

- `event_log`: two writers, two backups, a threshold of one line, five calls;
  appends that fail or are torn, rotations that stop at any step, processes that
  die at any step; 265,026 states. `HistoryIntact`: every record that was appended is
  in one slot or was deleted with an oldest backup (`gone`), those deleted are older
  than all that are left, the records of a file are in order and the slots from the
  highest to the active file too. `ScanOnce`: a scan shows no record twice. Five calls are enough to fill the
  active file and both backups, expire one and append once more. `LogNotStuck`:
  fairness only on the wait itself (it has a timeout); the holder may hang for
  ever.
- `event_log_scan` (expected violation): a rotation between two opens moves a
  backup from the slot still to be read into the slot just read, and
  `ScanComplete` fails. The reader's documentation says retained records are
  never silently dropped.

A torn append leaves a line without its end and the next record is joined to
it. The record is on disk but cannot be parsed. The model has this behaviour;
`HistoryIntact` counts such a record as present. When the active file cannot be
renamed, each append above the threshold removes the oldest backup and shifts
again (`event_log.rs:321`), so a failure that lasts uses the retained history up;
`HistoryIntact` counts those records as deleted with an oldest backup.

### Output

`output_sink`: two streams over one sink that rotates by rename, or one stream
that rotates by copy-and-truncate or on request; threshold of two pieces; up to
three pieces of one stream, or two of one and one of the other where two share the
sink; rotation by age at any time once the file has a byte; a busy lock, failing
reads, archives and reopens, cancellation and Stop; 8,659,286 states.

- `OutputKept`: every accepted piece is in the active file or an archive.
- `OutputInOrder`: with rotation by rename the pieces of a stream are in order,
  none doubled. (A copy whose truncation failed is repeated in the next archive, so
  nothing is said of copying.)
- `CleanDrain`: a generation reported as drained has delivered all its output.
- `RotationNotForgotten`: when the supervisor listens, the queued flag is only set
  while a request is on its way to it, so rotation is never switched off.

The buffers are small because only full, empty and in between matter; two
pieces reach the threshold, and a third is written across a rotation.

### Operations and configuration

`service_ops`: two processes, any two of nineteen requests (edits that write,
clear, or name values that cannot be stored; native edits, recovery, set, unset,
install, remove, repair, controls, restart) on each of six initial services
(installed by NGSM, taken over from NSSM with a named default action and a hook,
with a relative directory, native with parameters of its own, with a broken
value, none), two failing calls, one death; 121,390 states. Two operations are
what it takes for one to be lost under the other; two faults are a failed write
and a failed rollback.

- `SettledAsReported`: with nobody inside the mutex the registry reads as the
  successful requests left it, one after the other; a request that failed and
  gave no warning of a partial change changed nothing. A process that died half
  way, or told its caller that the restoration failed, is excepted until the next
  full write. The code has two failures that stay silent about what they leave, and
  the property says what that is: a clear that fails between its deletes returns the
  registry's own error (`imp.rs:954`) and has taken the path but not its attributes,
  which reads as a finished clear; a failed install whose service was started
  meanwhile says that it was rolled back (`install.rs:62`), but the service is only
  marked and keeps what was written until it stops. A rollback restores the configuration as it was read, so after one
  the expectation is that reading, and a service that was marked for deletion and
  stopped under an operation is expected to have no values.
- `NeverErased`: at every single call, a setting that the configuration had and
  was to keep is present; so a death anywhere leaves every kept setting, the
  `Application` marker first of all.
- `NativeUntouched`: a service without the marker is written to only by its own
  install, or by a purge that had read a whole configuration before its first
  delete (`is_managed_for_purge`); a purge that did not ask would violate it.
- `OperationsReturn`: each operation ends. Fairness: a process that is not dead
  goes on, its waits are bounded; the service owes nothing and need never stop.

Three behaviours the model has and no property forbids. `remove` checks that the
service is stopped and then deletes it; another client can start it in between
(`remove.rs:71`), and its configuration is purged while it runs. A failed rollback
or a death can leave both spellings of the default exit action with different
values; every later read refuses such a configuration (`imp.rs:170`). A rollback
that succeeds drops an attribute that had no path (`imp.rs:197`): it reads as
before, but a path that is set later has lost the attribute.

### Broker

`broker_server`: one worker slot, one busy-response slot, a watchdog each, any
sequence of frames and silences; 94,678 states. The slots are symmetric resources
that do not interact except through the limits, which one of each reaches.

- `NoWorkCutOff`: when the idle shutdown is claimed no admitted request is being
  carried out or answered.
- `IdleExit`: once authenticated work has ended for good the process exits,
  however busy strangers keep the pipe.
- `ListenerReserved`: the limit on pipe instances never stops the accept loop.
- `SlotsReturned`: every connection gives its slot back, whichever step the
  watchdog races with.

Fairness: threads are scheduled, time passes, operations return; clients promise
nothing (no fairness on reads and writes that wait for them).

### Panel

`gui`: two services, a queue of one job, a status line that keeps two operations (32
in the code), three actions of the user, one change by another program; 4,627,830
states. Three actions are a request, its replacement and a return to what was shown first; a queue of one is full as soon as the worker
is busy and something waits.

- `NothingStaleShown`: logs, process lists, recovery drafts, and the status line
  belong to what the user looks at, and each request is for the service it was
  made for.
- `RefreshServed`: when all has come to rest, the last scan shown began after the
  last refresh asked for. It is stated at rest, as an invariant, so that it needs
  no assumption on how often the user acts.
- `EditKeepsOthers`: an edit from an old snapshot writes to its own service only,
  and there only fields its user typed. The code makes two exceptions, and both
  write the old value the form showed, over a newer one too: a path stored with
  blanks is trimmed and sent, and a typed password is sent with the form's account,
  as a test of the form asks (`forms.rs:362`).

`JobSender::send` marks, tries to send and unmarks; the window is its only caller
and the worker's clearing of the mark is a step of its own, so that the three are
one step in the model loses no order that the worker can observe: the worker
cannot take a job that was not sent.

### Computations

`computations`: three families of inputs, 4,822,314 states.

- `DashboardTrue`: a service starts, crashes, restarts, throttles, is paused and
  stopped, its supervisor dies once, another service logs, and a refresh reads the
  listing, the clock and the log at three moments, with up to two steps of the
  service in between. Up to four records are written, so that a service is up again
  after it was throttled, under either of two spellings of its name; every suffix of
  the log is tried as what rotation has retained (`Retained`). Availability and
  the daily bars are the time the child was up, or are shown as unknown; the counts
  of failed and recovering services are true. Two days of two ticks with five ticks
  of life cross both a day boundary and the edge of the window.

  This is said of a scan that no rotation crossed. `read_since` opens the files one
  after the other without a lock and can miss one (`event_log_scan`); the up-time
  and the counts then shown can be wrong until the next refresh. Of such scans, with
  any set of records missing, `AvailabilityPossible` says what is left: the shown
  intervals are ordered, disjoint and inside the window.
- `ConversionsExact`: over all texts up to six symbols of the alphabet of each
  conversion: a quoted argument is read back by the operating system's parser;
  strings, multi-strings, joined lists and dependencies survive writing and
  reading; exit codes have one canonical name; expansion substitutes each
  reference once and refuses what is too long; a managed image path is recognised exactly; an
  accepted access list lets no untrusted account write; a log tail is a suffix of
  the lines and as long as it may be.
- `FrontEndsAgree`: every command with every set of its flags, on every kind of
  service (its configuration whole, absent, damaged but marked, or unreadable):
  refused whole or done whole, the same through each front end; a recovery change
  keeps the default action, the two delays and the exit actions it does not name;
  services of others are changed only with the force flag, or by `set` and `unset`
  when the `Application` marker is there, which is all these two ask for so that a
  broken configuration can be repaired (`imp.rs:1079`); offered buttons are accepted,
  the processes button on services of others too; states have distinct exit codes.

Deadlock is checked in the control channel, pause and event log runs, whose
systems never stop by themselves. The supervisor, the host, the sink and the
broker end, operations, user actions and inputs are bounded, and their
configurations say so.

## 4. Proofs

What a run shows for one small instance these theorems show for every value of
the constants. Each proof module extends its component's module; the assumptions
on constants are stated there by name, and every configuration checked satisfies
them. All proofs have the same outline: an inductive invariant `IInv` (checked by
TLC before it was proved), a lemma that the initial states satisfy it, one lemma
per party or per part of the code that its steps keep it, and the properties as
consequences. What each invariant has to add is the argument why the code is right.

`ControlChannelProofs`, for every set of handlers, set of ordinary controls and
queue capacity (`ChannelAssumption`: the capacity is positive and the controls
are not the reserved names). `Spec => []IInv` with

    IInv == TypeOK /\ PcInv /\ DecisionInv /\ UrgentInv

`ClaimLinearizes` alone is not inductive: a handler between its compare-exchange
and its acknowledgement has already decided. `DecisionInv` adds what the
decision word says about handlers in flight and about claims made, `PcInv` that
a program counter determines what its thread carries, `UrgentInv` that an urgent
receive still has its terminal pending. From `IInv`: `TypeCorrect`,
`ClaimLinearizesAlways`, `StopNotOvertakenAlways`. `OrdinaryConservedAlways` needs
to compare two sequences of different length, the queue with its Wake messages
and the accepted controls without. The invariant `Conserved` does it with a walk
(`Walk`): a function from positions of the queue to positions of the accepted
sequence that stays at a Wake and goes on by one at a control. Sending extends
the walk, receiving cuts its first step.

`ServiceHostProofs`, for every inbox capacity. `Spec => []HostInv` with

    HostInv == HandOff /\ Settled /\ Stopping

`HandOff` says that in each stage of claim, publish, release the Stop that the
decision word holds is known to the next party, and that a gate released without a
claim was dropped by a bridge that returned, after the supervisor had ended or
because it gave up; `Settled` that the supervisor
leaves the hand-off either released or expired; `Stopping` that the sections of
the bridge that report a running state are not reached once it is stopping. One
lemma per party (`ScmKeeps`, `SupervisorKeeps`, `BridgeKeeps`). From it:
`AcceptedStopCleanAlways`, `AcceptedStopCarriedOutAlways`,
`NoReturnFromStopAlways`. `ReportedStateTrueAlways` rests on a second invariant,
`BeliefInv`: until the host stops, what the bridge believes, or will conclude from
the request it has pending, is what the supervisor does.

`SupervisorProofs`, for any number of generations. `PhaseInv` says what is decided
at each point of `run` (result, stage of the stop, where a cleanup returns to),
`CommitInv` what the terminal gate has said, `WorldInv` that everything alive belongs to the
generation numbered last and is held by a handle of the supervisor, `RunInv` and
`CleanupInv` which handles are gone at which step. `OneGenerationAtATime`,
`StopHonoured` and `EndIsClean` follow. `EventLogWellFormed` adds what the end of
the recorded sequence is at each point (`EventInv`). `RunImplementsContract` shows
step by step, under the mapping `Life`, that the detailed `run` is a behaviour of
`SupervisorContract`; the contract's specification has no fairness, so this is the
whole refinement. With it, what is proved of `ServiceHost` over the contract holds
of the host over the detailed supervisor.

`PauseControlProofs`, for any set of processes and requests and any limit of
passes. `SuspInv` gives the suspension count of each live process at every point of
a transition (pause, rollback, continue, reclaim) in terms of the sets the code
keeps; `FreezeInv` says why a pass that added nobody is the last one: every live
process is known, or a process that could show otherwise has still to be visited,
or one slipped away; `RequestInv` is the request protocol. `IncrementsAreAccounted`,
`PausedIsFrozen`, `OutcomeIsTrue`, and `NeverSuspendedTwice`, which no run checks
because it is a bound on each step.

`RequestProofs` has three parts.

The broker, for any numbers of worker and busy slots and any finite set
of threads at least that large. Each counter (`Activity` twice, the two slot
counters, the pipe instances) is the cardinality of the set of threads that hold
the resource (`Counts`); a thread's place determines what it holds (`GuardInv`); a
claim was made when nothing was admitted (`ClaimInv`). `ShutdownIsQuiet` and
`ListenerAlwaysReserved` follow.

The panel, for any services, any capacity of the queue and of the status line's
list of operations, and any number of actions and changes by others. `GuiSpec => []GuiInv` with

    GuiInv == Shapes /\ ViewsTrue /\ Refreshes

`ViewsTrue`: every job under way is true of what it was made for, and what a view
waits for is for what the view shows and is really under way; a recovery policy is
being read only while the draft is clean. The proof needs no freshness of request
numbers, because the code compares whole requests, the service's name included.
`Refreshes`: scans wait in the order in which they were made; the mark that a refresh
is queued is true; a refresh that is owed is answered already, marked, under way, or
will be retried while somebody still has something to do. The last case rests on the
queue: it refuses a job only when it is full, so the worker will wake the window
again. `NothingStale` and `RefreshesServed` follow, and `EditsKeepOthers` of each step.

The front ends. The model has no parameters and the run covers all of it, so
`FrontEndsAlwaysAgree` adds the argument: verb by verb, what each side asks for
(`CliOf`, `BrokerOf`, `GuiOf`) and what an operation checks (`GuardOf`) determine
the answer, whatever the other flags are.

`EventLogProofs`, for any number of writers, backups and calls, any threshold, any
faults and deaths. The slot above the one being shifted is empty (`ShiftInv`), so
no rename replaces a backup; the files are in order, in themselves and from slot to slot; what the
scan has read is older than everything in the slots it has still to read
(`AheadInv`), which every rename keeps because it moves records only to higher
slots. `HistoryIntactAlways`, `ScanOnceAlways`. That a scan is complete is false, see
`event_log_scan`.

`OutputSinkProofs`, for any set of streams, any buffer limit, threshold and number
of pieces, requests and faults. What a stream has produced is what was accepted,
then its buffer, then its pipe (`StreamInv`); only the worker that holds the lock
touches the files, and it shortens a file only when the newest archive is a full
copy of it (`LockInv`); nothing is stored that was not accepted (`StoredInv`); a
reader ends well only with an empty pipe and an empty buffer (`EndInv`). `OutputKeptAlways`,
`OutputInOrderAlways`, `CleanDrainAlways`, `RotationNotForgottenAlways`.

`ServiceOpsProofs`, for any processes, any requests and initial services of the
right shape (`OpsAssumption`: what the request structures can hold, and that a
service that is not there has no values), any number of operations, failing calls
and deaths. It has two parts. About plans: `Underway(r, p, g)` says that every call of
the plan `p` sets its names to what the goal `g` has for them, that what `p` does not
touch is as in `g` already, and that NSSM's name of the default action goes only after
the unnamed value was written. Full writes, sets and scrubs start so
(`WritePlanLeads`, `SetPlanLeads`, `ScrubPlanLeads`), each call keeps it and takes
away nothing that both ends have (`StepUnderway`), and an empty plan is at its goal. About
processes: `LockInv` says that the place of a process tells whether it owns the mutex,
`Holding` how the values relate to what was told at the owner's place: equal before
the first call, under way to the goal or back to the original in between, the
marker present throughout. The invariant is stated of the values themselves, not
of their reading: outside the mutex they are equal to what was told.
`SettledAsReportedAlways`, `NeverErasedAlways`, `NativeUntouchedAlways`; besides, that
a restored configuration reads like the original (`RestoredReadsTheSame`) and that
nobody reads or writes between two calls of another process (`ExclusiveAlways`).
Looking for the invariant showed that the expectation kept by the model was wrong
for three operations or more (a doomed service that stops under an edit, and a
rollback); the two sentences at `SettledAsReported` above are the result.

The same module proves conversions of what the operations read and write, for texts
and access lists of any length (`ConversionsAlwaysExact`): an accepted path names its
root, the image path that install writes is recognised and what is recognised starts
the runner, an accepted access list grants no untrusted account a dangerous right.
`StringsAlwaysExact` says that a registry string is read back as written, and that
nothing but NULs at the end is dropped from what is read. These conversions look for
the first or last symbol of a kind; that there is one follows from the
well-foundedness of the natural numbers (`LeastOf`, `GreatestOf`), so they need no
induction over the text.

Only model-checked:

- all liveness, because fairness and `ENABLED` are outside what the prover handles;
- `Dashboard` and the rest of `Conversions` (quoting, lists, multi-strings, numbers,
  expansion, log tails), hence `DashboardTrue` and `ConversionsExact` as a whole: these
  are folds over texts and records, and a statement for every input would need
  induction over data.

## 5. What is not modelled

- Hooks: the containment of a hook process is a sequence of system calls; that a
  hook fails or times out is a branch of the supervisor's steps.
- Diagnostics: a bounded queue of messages that no decision reads.
- Read-only commands and handlers (status, list, history, dump), printing,
  rendering, sorting and filtering, the panel's settings file, the elevation
  prompt: I/O and layout.
- Handles, process enumeration and console events of the Win32 crate: thin calls;
  the modules assume what they promise (a job contains its members, a named mutex
  reports abandonment, `rename` is atomic, one registry call is atomic).
- Identity of the broker's clients: a nondeterministic answer; JSON framing: a
  choice of outcomes. What a request means is in `FrontEnds`.
- Message texts, timestamps as text, archive names.
- In `ManagedConfig` one value of each kind stands for its kind (a path, a string,
  a stream with its share mode, exit actions with both spellings of the default, a
  hook); the code treats the members of a kind alike.
- In `ServiceOps` whether online rotation is configured is left open, so a request
  to rotate may be refused for it at any time.
- The panel's listing of the services is one step in `GuiJobs`; that a refresh
  mixes moments is the subject of `Dashboard`.

Online rotation asked for through the broker without being enabled is accepted
and has no effect (`validate.rs:61`); `FrontEnds` has it so.

## 6. Plan

Done: the modules above and the eight proof modules.

Next models: liveness of `OutputSink` (output is delivered after storage
recovers, RT-19), and the restart delay of the supervisor as a checked operator.
