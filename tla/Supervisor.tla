----------------------------- MODULE Supervisor -----------------------------
(***************************************************************************)
(* The generation lifecycle of servicemanager-supervisor/src/lib.rs: the   *)
(* supervisor thread runs one child after another (generations), each with *)
(* a job object, an exit watcher thread, output reader threads and         *)
(* filesystem worker threads (io_task.rs), until a Stop, an exit policy or *)
(* an error ends it; the host commits the end through the terminal gate.   *)
(*                                                                         *)
(* The supervisor thread's location is pc.  Waits are not clocked: a       *)
(* bounded wait may give up in any state in which what it waits for has    *)
(* not happened.  Configuration (rotation online or not, exit policy per   *)
(* exit code, stop methods) is left open: each branch it selects may be    *)
(* taken.  Pause is reduced to the flag of PauseState; PauseControl models *)
(* how it is reached.                                                      *)
(***************************************************************************)
EXTENDS Naturals, Sequences, FiniteSets

CONSTANT MaxGen   \* bound on next_generation

ASSUME SupervisorAssumption == MaxGen \in Nat \ {0}

Gens == 1..MaxGen

VARIABLES
    pc,          \* supervisor thread: where it is
    ret,         \* what follows the cleanup_generation in progress
    stage,       \* which part of run() calls finish_stop
    stop,        \* stop_requested
    paused,      \* PauseState.paused
    nextGen,     \* next_generation
    gen,         \* id of self.generation, 0 for None
    recorded,    \* generation.recorded
    first,       \* no generation has started yet
    job,         \* self.job is Some
    watching,    \* generation.watcher is Some
    handle,      \* open_task or rotation_task is Some
    reading,     \* self.readers holds an unjoined reader
    failure,     \* cleanup_generation's failure, or that it returned an error
    action,      \* the exit policy of the exit being handled
    \* the world, per generation
    roots,       \* resumed root processes that are alive
    descs,       \* generations with live descendants in their job
    published,   \* exits the watcher (or observe_unwatched_child) published
    watchers,    \* unfinished exit watcher threads
    readers,     \* unfinished output reader threads
    tasks,       \* unfinished filesystem worker threads
    \* bookkeeping
    events,      \* the event log, as <<kind, generation>>
    stopHook,    \* how often the Stop/Pre hook ran
    stopped,     \* stopped_recorded
    startup,     \* what the startup channel was told
    result,      \* what run() returns
    ready, released,  \* TerminalState
    \* history
    stopCommitted,    \* the stop flag was set when the gate was released
    expired,          \* the hand-off deadline passed before the release
    reapFailed        \* a job could not be terminated and emptied

main == <<pc, ret, stage, failure, action>>
own == <<paused, nextGen, gen, recorded, first, job, watching, handle, reading>>
world == <<roots, descs, published, watchers, readers, tasks>>
books == <<events, stopHook, stopped, startup, result>>
gate == <<ready, released, stopCommitted, expired, reapFailed>>
vars == <<main, stop, own, world, books, gate>>

None == "None"
ExitActions == {"Restart", "Ignore", "Exit", "Suicide"}

Init ==
    /\ pc = "sleep" /\ ret = None /\ stage = 0 /\ failure = FALSE /\ action = None
    /\ stop = FALSE
    /\ paused = FALSE /\ nextGen = 0 /\ gen = 0 /\ recorded = FALSE /\ first = TRUE
    /\ job = FALSE /\ watching = FALSE /\ handle = FALSE /\ reading = FALSE
    /\ roots = {} /\ descs = {} /\ published = {} /\ watchers = {} /\ readers = {} /\ tasks = {}
    /\ events = <<>> /\ stopHook = 0 /\ stopped = FALSE /\ startup = None /\ result = None
    /\ ready = FALSE /\ released = FALSE /\ stopCommitted = FALSE /\ expired = FALSE /\ reapFailed = FALSE

\* Enter cleanup_generation, to continue at r with the error flag f.
Cleanup(r, f) == pc' = "reap" /\ ret' = r /\ failure' = f /\ UNCHANGED <<stage, action>>

Goto(label) == pc' = label /\ UNCHANGED <<ret, stage, failure, action>>

\* run_generations returns; run() then looks at the stop flag.
Leave(res) == Goto("left") /\ result' = res

-----------------------------------------------------------------------------
(* Controls handled by the supervisor thread (handle_control)              *)

Listening == pc \in {"sleep", "watch", "quiesced"} /\ ~stop

HandlePause ==
    /\ Listening
    /\ paused' = ~paused
    /\ UNCHANGED <<main, stop, nextGen, gen, recorded, first, job, watching, handle, reading, world, books, gate>>

\* A Degraded transition, a failed reader of this generation, or a rotation
\* whose worker does not answer: the supervisor leaves with an error.
HandleError ==
    /\ Listening
    /\ Leave("Error")
    /\ \/ UNCHANGED <<handle, tasks>>
       \/ gen # 0 /\ handle' = TRUE /\ tasks' = tasks \cup {gen}
    /\ UNCHANGED <<stop, paused, nextGen, gen, recorded, first, job, watching, reading, roots, descs,
                   published, watchers, readers, events, stopHook, stopped, startup, gate>>

-----------------------------------------------------------------------------
(* run_generations and start_generation                                    *)

MayStart == ~stop /\ ~paused /\ nextGen < MaxGen

\* sleep_or_stop: returns false on Stop, and true only while not paused.
SleepOrStop ==
    /\ pc = "sleep"
    /\ \/ /\ stop /\ Leave("Stopped") /\ UNCHANGED nextGen
       \/ /\ MayStart
          /\ nextGen' = nextGen + 1 /\ Goto("prepare") /\ UNCHANGED result
    /\ UNCHANGED <<stop, paused, gen, recorded, first, job, watching, handle, reading, world,
                   events, stopHook, stopped, startup, gate>>

\* prepare_launch, the Start/Pre hook and the job object.
Prepare ==
    /\ pc = "prepare"
    /\ \/ /\ stop /\ Leave("Stopped") /\ UNCHANGED job
       \/ /\ Cleanup("startFailed", FALSE) /\ UNCHANGED <<job, result>>
       \/ /\ ~stop /\ job' = TRUE /\ Goto("open") /\ UNCHANGED result
    /\ UNCHANGED <<stop, paused, nextGen, gen, recorded, first, watching, handle, reading, world,
                   events, stopHook, stopped, startup, gate>>

\* open_task, then the offline rotation and the output pipes.
OpenOutputs ==
    /\ pc = "open"
    /\ \/ /\ stop /\ Leave("Stopped") /\ UNCHANGED <<handle, tasks, reading, readers>>
       \/ /\ Cleanup("startFailed", FALSE)             \* error, or the worker did not answer
          /\ \/ UNCHANGED <<handle, tasks>>
             \/ handle' = TRUE /\ tasks' = tasks \cup {nextGen}
          /\ UNCHANGED <<reading, readers, result>>
       \/ /\ \/ readers' = readers \cup {nextGen} /\ reading' = TRUE    \* attach_pipe_sink
             \/ UNCHANGED <<readers, reading>>                         \* child_stdio
          /\ Goto("spawn") /\ UNCHANGED <<handle, tasks, result>>
    /\ UNCHANGED <<stop, paused, nextGen, gen, recorded, first, job, watching, roots, descs, published, watchers,
                   events, stopHook, stopped, startup, gate>>

\* The child is created suspended, assigned to the job and configured; a Stop
\* or an error kills it before it ever ran (kill_owned_child).
SpawnChild ==
    /\ pc = "spawn"
    /\ \/ stop /\ Leave("Stopped")
       \/ Cleanup("startFailed", FALSE) /\ UNCHANGED result
       \/ ~stop /\ Goto("resume") /\ UNCHANGED result
    /\ UNCHANGED <<stop, own, world, events, stopHook, stopped, startup, gate>>

\* root.resume() succeeds: the generation exists.
ResumeChild ==
    /\ pc = "resume"
    /\ \/ /\ roots' = roots \cup {nextGen}
          /\ gen' = nextGen /\ recorded' = FALSE
          /\ Goto("record")
       \/ /\ Cleanup("startFailed", FALSE)
          /\ UNCHANGED <<roots, gen, recorded>>
    /\ UNCHANGED <<stop, paused, nextGen, first, job, watching, handle, reading, descs, published,
                   watchers, readers, tasks, books, gate>>

\* The watcher thread is created (or not), Started or Restarted is recorded.
RecordStart ==
    /\ pc = "record"
    /\ events' = Append(events, <<IF first THEN "Started" ELSE "Restarted", gen>>)
    /\ \/ watchers' = watchers \cup {gen} /\ watching' = TRUE /\ Goto("post")
       \/ UNCHANGED <<watchers, watching>> /\ Cleanup("startFailed", FALSE)
    /\ UNCHANGED <<stop, paused, nextGen, gen, recorded, first, job, handle, reading, roots, descs,
                   published, readers, tasks, stopHook, stopped, startup, result, gate>>

\* The Start/Post hook, then readiness if the generation still lives.
StartPost ==
    /\ pc = "post"
    /\ \/ /\ stop /\ Leave("Stopped") /\ UNCHANGED <<startup, first>>
       \/ /\ ~stop /\ Goto("watch")
          /\ first' = FALSE
          /\ startup' = IF startup = None /\ gen \in roots /\ gen \notin published
                        THEN "Running" ELSE startup
          /\ UNCHANGED result
    /\ UNCHANGED <<stop, paused, nextGen, gen, recorded, job, watching, handle, reading, world,
                   events, stopHook, stopped, gate>>

\* The inner loop of run_generations.
Watch ==
    /\ pc = "watch"
    /\ \/ /\ stop /\ Leave("Stopped") /\ UNCHANGED action
       \/ /\ ~stop /\ gen \in published
          /\ action' \in ExitActions
          /\ pc' = "reap" /\ ret' = "exited" /\ failure' = FALSE
          /\ UNCHANGED <<stage, result>>
    /\ UNCHANGED <<stop, own, world, events, stopHook, stopped, startup, gate>>

\* Fault: a failed start counts as Stopped.
StartFailedAsStopped ==
    /\ pc = "startFailed"
    /\ Leave("Stopped")
    /\ UNCHANGED <<stop, own, world, events, stopHook, stopped, startup, gate>>

\* What follows a failed start: default policy, or another attempt.
StartFailed ==
    /\ pc = "startFailed"
    /\ \/ stop /\ Leave("Stopped")
       \/ ~stop /\ (Leave("Suicide") \/ Leave("Error"))
       \/ ~stop /\ Goto("sleep") /\ UNCHANGED result
    /\ UNCHANGED <<stop, own, world, events, stopHook, stopped, startup, gate>>

\* What follows a child exit.
ApplyExitAction ==
    /\ pc = "exited"
    /\ \/ stop /\ Leave("Stopped") /\ UNCHANGED startup
       \/ ~stop /\ action = "Restart" /\ Goto("sleep") /\ UNCHANGED <<startup, result>>
       \/ /\ ~stop /\ action = "Ignore" /\ Goto("quiesced")
          /\ startup' = IF startup = None THEN "Quiesced" ELSE startup
          /\ UNCHANGED result
       \/ ~stop /\ action = "Exit" /\ Leave("ChildExited") /\ UNCHANGED startup
       \/ ~stop /\ action = "Suicide" /\ Leave("Suicide") /\ UNCHANGED startup
    /\ UNCHANGED <<stop, own, world, events, stopHook, stopped, gate>>

\* Fault: a paused supervisor does not look at the stop flag.
QuiescedUnlessPaused ==
    /\ pc = "quiesced" /\ stop /\ ~paused
    /\ Leave("Stopped")
    /\ UNCHANGED <<stop, own, world, events, stopHook, stopped, startup, gate>>

\* wait_for_stop_quiesced
Quiesced ==
    /\ pc = "quiesced" /\ stop
    /\ Leave("Stopped")
    /\ UNCHANGED <<stop, own, world, events, stopHook, stopped, startup, gate>>

-----------------------------------------------------------------------------
(* cleanup_generation                                                      *)

CleanupFails == Goto("cleanupFailed")

\* job.take(), terminate and wait_empty.
Reap ==
    /\ pc = "reap"
    /\ job' = FALSE
    /\ \/ /\ job
          /\ roots' = roots \ {nextGen} /\ descs' = descs \ {nextGen}
          /\ Goto("joinTasks")
          /\ UNCHANGED reapFailed
       \/ /\ job /\ CleanupFails /\ reapFailed' = TRUE /\ UNCHANGED <<roots, descs>>
       \/ /\ ~job /\ Goto("joinTasks") /\ UNCHANGED <<roots, descs, reapFailed>>
    /\ UNCHANGED <<stop, paused, nextGen, gen, recorded, first, watching, handle, reading, published,
                   watchers, readers, tasks, books, ready, released, stopCommitted, expired>>

\* Fault: a worker that timed out is taken to be gone.
WorkerDoneAssumed == TRUE

\* IoTask::wait returns Ok: there is no worker, or its thread is finished.
WorkerDone == handle => nextGen \notin tasks

\* finish_filesystem_tasks: a worker that does not end forbids going on.
JoinTasks ==
    /\ pc = "joinTasks"
    /\ \/ ~WorkerDone /\ CleanupFails /\ UNCHANGED handle
       \/ WorkerDone /\ handle' = FALSE /\ Goto("awaitExit")
    /\ UNCHANGED <<stop, paused, nextGen, gen, recorded, first, job, watching, reading, world, books, gate>>

\* The exit must be observed; without a watcher, try_wait observes it.
AwaitExit ==
    /\ pc = "awaitExit"
    /\ \/ gen = 0 /\ Goto("drain") /\ UNCHANGED published
       \/ gen \in published /\ Goto("joinWatcher") /\ UNCHANGED published
       \/ /\ gen # 0 /\ gen \notin published \cup watchers /\ ~watching
          /\ published' = published \cup {gen} /\ Goto("joinWatcher")
       \/ gen # 0 /\ gen \notin published /\ CleanupFails /\ UNCHANGED published
    /\ UNCHANGED <<stop, own, roots, descs, watchers, readers, tasks, books, gate>>

JoinWatcher ==
    /\ pc = "joinWatcher"
    /\ watching' = FALSE                              \* watcher.take()
    /\ \/ (~watching \/ gen \notin watchers) /\ Goto("drain")
       \/ watching /\ gen \in watchers /\ CleanupFails
    /\ UNCHANGED <<stop, paused, nextGen, gen, recorded, first, job, handle, reading, world, books, gate>>

\* Fault: readers that are still running when the drain ends are ignored.
ReadersDoneAssumed == TRUE

\* Every ReaderTask::finish returns Ok.
ReadersDone == reading => nextGen \notin readers

\* The readers drain, then the online rotation runs; a reader that does not end
\* in time, or ended with an error, still lets the exit be recorded.
Drain ==
    /\ pc = "drain"
    /\ \/ /\ ReadersDone
          /\ reading' = FALSE
          /\ \/ Goto("recordExit") /\ UNCHANGED <<handle, tasks>>
             \/ /\ gen # 0 /\ ~stop /\ CleanupFails    \* rotation worker did not answer
                /\ handle' = TRUE /\ tasks' = tasks \cup {gen}
       \/ /\ reading /\ reading' = (nextGen \in readers)
          /\ pc' = "recordExit" /\ failure' = TRUE
          /\ UNCHANGED <<ret, stage, action, handle, tasks>>
    /\ UNCHANGED <<stop, paused, nextGen, gen, recorded, first, job, watching, roots, descs, published,
                   watchers, readers, books, gate>>

\* Fault: the recorded flag is not looked at.
ExitUnrecordedAlways == gen # 0 /\ gen \in published

ExitUnrecorded == gen # 0 /\ ~recorded /\ gen \in published

DropGeneration == gen' = 0 /\ recorded' = FALSE

\* record_child_exit with the Exit/Post hook, then the generation is dropped.
RecordExit ==
    /\ pc = "recordExit"
    /\ events' = IF ExitUnrecorded THEN Append(events, <<"ChildExited", gen>>) ELSE events
    /\ \/ /\ failure /\ CleanupFails
          /\ recorded' = (recorded \/ gen \in published) /\ UNCHANGED gen
       \/ /\ ~failure /\ Goto(ret)
          /\ DropGeneration
    /\ UNCHANGED <<stop, paused, nextGen, first, job, watching, handle, reading, world, stopHook, stopped,
                   startup, result, gate>>

\* cleanup_generation returned an error: run_generations and run() pass it on,
\* finish_stop still records Stopped.
CleanupFailed ==
    /\ pc = "cleanupFailed"
    /\ \/ ret \in {"startFailed", "exited"} /\ Leave("Error")
       \/ ret = "tail" /\ Goto("tail") /\ result' = "Error"
       \/ ret = "stopDone" /\ pc' = "stopDone" /\ failure' = TRUE
          /\ UNCHANGED <<ret, stage, action, result>>
    /\ UNCHANGED <<stop, own, world, events, stopHook, stopped, startup, gate>>

-----------------------------------------------------------------------------
(* run() after run_generations, and finish_stop                            *)

AfterGenerations ==
    /\ pc = "left"
    /\ \/ stop /\ pc' = "stopPre" /\ stage' = 1 /\ UNCHANGED <<ret, failure, action>>
       \/ ~stop /\ Cleanup("tail", FALSE)
    /\ UNCHANGED <<stop, own, world, books, gate>>

\* finish_stop: the Stop/Pre hook, once.
StopPre ==
    /\ pc = "stopPre"
    /\ stopHook' = IF stopHook = 0 THEN 1 ELSE stopHook
    /\ Goto("graceful")
    /\ UNCHANGED <<stop, own, world, events, stopped, startup, result, gate>>

\* stop_child_gracefully: nothing without an unobserved exit; otherwise the tree
\* is resumed (or cannot be) and, when asking it to exit did not help, the job
\* or the root alone is terminated.  What the processes do themselves meanwhile
\* are their own actions.  An error only shows once the cleanup is done.
StopGracefully ==
    /\ pc = "graceful"
    /\ Cleanup("stopDone", FALSE)
    /\ \/ /\ gen = 0 \/ gen \in published
          /\ result' = "Stopped"
          /\ UNCHANGED <<paused, roots, descs>>
       \/ /\ gen # 0 /\ gen \notin published
          /\ \/ result' = "Stopped" /\ UNCHANGED <<paused, roots, descs>>
             \/ /\ paused' = FALSE
                /\ result' \in {"Stopped", "Error"}
                /\ \/ UNCHANGED <<roots, descs>>
                   \/ /\ roots' = roots \ {gen}
                      /\ \/ job /\ descs' = descs \ {gen}
                         \/ UNCHANGED descs
    /\ UNCHANGED <<stop, nextGen, gen, recorded, first, job, watching, handle, reading, published, watchers,
                   readers, tasks, events, stopHook, stopped, startup, gate>>

\* Stopped is recorded once, then graceful? and cleanup? are returned.
StopDone ==
    /\ pc = "stopDone"
    /\ stopped' = TRUE
    /\ events' = IF stopped THEN events ELSE Append(events, <<"Stopped", 0>>)
    /\ result' = IF failure THEN "Error" ELSE result
    /\ pc' = IF stage = 1 THEN "tail" ELSE IF stage = 2 THEN "offer" ELSE "ended"
    /\ UNCHANGED <<ret, stage, failure, action, stop, own, world, stopHook, startup, gate>>

\* A Stop that arrived during the cleanup.
AfterCleanup ==
    /\ pc = "tail"
    /\ \/ stop /\ ~stopped /\ pc' = "stopPre" /\ stage' = 2 /\ UNCHANGED <<ret, failure, action>>
       \/ ~(stop /\ ~stopped) /\ Goto("offer")
    /\ UNCHANGED <<stop, own, world, books, gate>>

\* terminal.ready
OfferTerminal ==
    /\ pc = "offer"
    /\ ready' = TRUE /\ Goto("handoff")
    /\ UNCHANGED <<stop, own, world, books, released, stopCommitted, expired, reapFailed>>

\* The gate is released, or five seconds passed.
AwaitRelease ==
    /\ pc = "handoff"
    /\ expired' = ~released
    /\ Goto("commit")
    /\ UNCHANGED <<stop, own, world, books, ready, released, stopCommitted, reapFailed>>

\* Fault: the stop flag is not looked at again after the hand-off.
AfterHandoffNoRecheck ==
    /\ pc = "commit" /\ Goto("ended")
    /\ UNCHANGED <<stop, own, world, books, gate>>

\* A Stop the host committed meanwhile is still carried out.
AfterHandoff ==
    /\ pc = "commit"
    /\ \/ stop /\ ~stopped /\ pc' = "stopPre" /\ stage' = 3 /\ UNCHANGED <<ret, failure, action>>
       \/ ~(stop /\ ~stopped) /\ Goto("ended")
    /\ UNCHANGED <<stop, own, world, books, gate>>

-----------------------------------------------------------------------------
(* The other threads, the processes and the host                           *)

ChildExit(g) ==
    /\ g \in roots /\ roots' = roots \ {g}
    /\ UNCHANGED <<main, stop, own, descs, published, watchers, readers, tasks, books, gate>>

Fork(g) ==
    /\ g \in roots \ descs /\ descs' = descs \cup {g}
    /\ UNCHANGED <<main, stop, own, roots, published, watchers, readers, tasks, books, gate>>

DescendantsExit(g) ==
    /\ g \in descs /\ descs' = descs \ {g}
    /\ UNCHANGED <<main, stop, own, roots, published, watchers, readers, tasks, books, gate>>

\* The exit watcher: wait returns, the exit is published under the lock (as code
\* -1 when the wait failed, the root alive or not), then ChildExited is sent
\* and the thread ends.
WatcherPublish(g) ==
    /\ g \in watchers /\ g \notin published
    /\ published' = published \cup {g}
    /\ UNCHANGED <<main, stop, own, roots, descs, watchers, readers, tasks, books, gate>>

WatcherEnd(g) ==
    /\ g \in watchers \cap published
    /\ watchers' = watchers \ {g}
    /\ UNCHANGED <<main, stop, own, roots, descs, published, readers, tasks, books, gate>>

ReaderEnd(g) ==
    /\ g \in readers /\ readers' = readers \ {g}
    /\ UNCHANGED <<main, stop, own, roots, descs, published, watchers, tasks, books, gate>>

TaskEnd(g) ==
    /\ g \in tasks /\ tasks' = tasks \ {g}
    /\ UNCHANGED <<main, stop, own, roots, descs, published, watchers, readers, books, gate>>

\* StopSignal::stop
RequestStop ==
    /\ ~stop /\ stop' = TRUE
    /\ UNCHANGED <<main, own, world, books, gate>>

\* TerminalGate::release, by the bridge or by dropping the gate.
Release ==
    /\ ~released /\ released' = TRUE
    /\ stopCommitted' = stop
    /\ UNCHANGED <<main, stop, own, world, books, ready, expired, reapFailed>>

-----------------------------------------------------------------------------
Main ==
    \/ HandleError
    \/ SleepOrStop \/ Prepare \/ OpenOutputs \/ SpawnChild \/ ResumeChild \/ RecordStart
    \/ StartPost \/ Watch \/ StartFailed \/ ApplyExitAction \/ Quiesced
    \/ Reap \/ JoinTasks \/ AwaitExit \/ JoinWatcher \/ Drain \/ RecordExit \/ CleanupFailed
    \/ AfterGenerations \/ StopPre \/ StopGracefully \/ StopDone \/ AfterCleanup
    \/ OfferTerminal \/ AwaitRelease \/ AfterHandoff

Others ==
    \/ \E g \in Gens : \/ ChildExit(g) \/ Fork(g) \/ DescendantsExit(g)
                       \/ WatcherPublish(g) \/ WatcherEnd(g) \/ ReaderEnd(g) \/ TaskEnd(g)
    \/ HandlePause \/ RequestStop \/ Release

Next == Main \/ Others

Spec == Init /\ [][Next]_vars

\* Every wait of the supervisor thread is bounded by a deadline, so the thread
\* keeps going; nothing else has to happen.
FairSpec == Spec /\ WF_vars(Main)

-----------------------------------------------------------------------------
\* Every variable has its type, and self.generation is the current one or none.
TypeOK ==
    /\ pc \in {"sleep", "prepare", "open", "spawn", "resume", "record", "post", "watch",
              "quiesced", "startFailed", "exited", "reap", "joinTasks", "awaitExit",
              "joinWatcher", "drain", "recordExit", "cleanupFailed", "left", "stopPre",
              "graceful", "stopDone", "tail", "offer", "handoff", "commit", "ended"}
    /\ ret \in {None, "startFailed", "exited", "tail", "stopDone"}
    /\ stage \in 0..3 /\ failure \in BOOLEAN /\ action \in ExitActions \cup {None}
    /\ stop \in BOOLEAN /\ paused \in BOOLEAN
    /\ nextGen \in 0..MaxGen /\ gen \in {0, nextGen}
    /\ recorded \in BOOLEAN /\ first \in BOOLEAN /\ job \in BOOLEAN
    /\ watching \in BOOLEAN /\ handle \in BOOLEAN /\ reading \in BOOLEAN
    /\ roots \subseteq Gens /\ descs \subseteq Gens /\ published \subseteq Gens
    /\ watchers \subseteq Gens /\ readers \subseteq Gens /\ tasks \subseteq Gens
    /\ events \in Seq({"Started", "Restarted", "ChildExited", "Stopped"} \X (0..MaxGen))
    /\ stopHook \in 0..1 /\ stopped \in BOOLEAN
    /\ startup \in {None, "Running", "Quiesced"}
    /\ result \in {None, "Stopped", "ChildExited", "Suicide", "Error"}
    /\ ready \in BOOLEAN /\ released \in BOOLEAN /\ stopCommitted \in BOOLEAN
    /\ expired \in BOOLEAN /\ reapFailed \in BOOLEAN

\* RT-08, one generation at a time: while a generation's root runs, no process,
\* watcher, output reader or filesystem worker of another generation exists,
\* whatever failed or timed out in the cleanup before it.
GenerationIsolation ==
    \A g \in roots : roots \cup descs \cup watchers \cup readers \cup tasks \subseteq {g}

StartIn(i) == events[i][1] \in {"Started", "Restarted"}

\* RT-01, exit bookkeeping: every recorded start is matched by exactly one
\* ChildExited before the next start, a ChildExited follows its own start, and
\* Stopped is recorded at most once and last.
EventsWellFormed ==
    \A i \in DOMAIN events :
      /\ StartIn(i) =>
           \A j \in 1..(i - 1) : StartIn(j) =>
             \E k \in (j + 1)..(i - 1) : events[k] = <<"ChildExited", events[j][2]>>
      /\ events[i][1] = "ChildExited" =>
           /\ \E j \in 1..(i - 1) : StartIn(j) /\ events[j][2] = events[i][2]
           /\ \A j \in 1..(i - 1) : events[j] # events[i]
      /\ events[i][1] = "Stopped" => i = Len(events)

\* A Stop that was raised before the host released the terminal gate is carried
\* out although run_generations may have ended for another reason: unless the
\* hand-off deadline passed first, Stop/Pre ran, Stopped is recorded, and run()
\* does not return the other reason.
CommittedStopHonoured ==
    pc = "ended" /\ stopCommitted /\ ~expired =>
      stopHook = 1 /\ stopped /\ result \in {"Stopped", "Error"}

\* run() returns something other than an error only when the readers and the
\* filesystem workers of every generation are gone, and its processes too,
\* except when a Stop took over after a tree that could not be terminated.
CleanEnd ==
    pc = "ended" /\ result # "Error" =>
      /\ readers = {} /\ tasks = {}
      /\ roots \cup descs = {} \/ (result = "Stopped" /\ reapFailed)

\* Where run() is, as the service host sees it.
Life ==
    IF pc = "ended" THEN "ended"
    ELSE IF pc = "handoff" THEN "offered"
    ELSE IF pc = "commit" \/ stage = 3 THEN "committing"
    ELSE IF \/ pc \in {"left", "tail", "offer", "stopPre", "graceful", "stopDone"}
            \/ /\ pc \in {"reap", "joinTasks", "awaitExit", "joinWatcher", "drain", "recordExit", "cleanupFailed"}
               /\ ret \in {"tail", "stopDone"}
         THEN "leaving"
    ELSE "running"

Contract == INSTANCE SupervisorContract
              WITH life <- Life, result <- IF pc = "ended" THEN result ELSE None

\* run() keeps the promise the service host relies on (SupervisorContract): in
\* particular it never ends on a Stop it has not carried out, and returns
\* Stopped only for a Stop.
ImplementsContract == Contract!Spec

\* A Stop ends the supervisor, whatever it was doing.
StopEnds == stop ~> (pc = "ended")
=============================================================================
