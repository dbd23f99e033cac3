--------------------------- MODULE SupervisorProofs ---------------------------
(***************************************************************************)
(* Proofs about the generation lifecycle of Supervisor, for any number of  *)
(* generations: the type invariant, one generation at a time, the event    *)
(* log, the committed Stop, the clean end, and that run() implements       *)
(* SupervisorContract.                                                     *)
(***************************************************************************)
EXTENDS Supervisor, TLAPS

CleanupPcs == {"reap", "joinTasks", "awaitExit", "joinWatcher", "drain", "recordExit"}
CleanupOrFailed == CleanupPcs \cup {"cleanupFailed"}
RunPcs == {"sleep", "prepare", "open", "spawn", "resume", "record", "post", "watch",
           "quiesced", "startFailed", "exited"}
SettledPcs == {"tail", "offer", "handoff", "commit", "ended"}
RunRets == {"startFailed", "exited"}

\* run_generations is still running, and no cleanup of it has failed.
Running == pc \in RunPcs \/ (pc \in CleanupPcs /\ ret \in RunRets)

\* Somewhere in finish_stop, after its Stop/Pre hook or not.
Stopping == pc \in {"stopPre", "graceful", "stopDone"} \/ (pc \in CleanupOrFailed /\ ret = "stopDone")

\* TypeOK, by groups of variables.
MainType ==
    /\ pc \in RunPcs \cup CleanupOrFailed \cup SettledPcs \cup {"left", "stopPre", "graceful", "stopDone"}
    /\ ret \in RunRets \cup {None, "tail", "stopDone"}
    /\ stage \in 0..3 /\ failure \in BOOLEAN /\ action \in ExitActions \cup {None}
    /\ stop \in BOOLEAN

OwnType ==
    /\ paused \in BOOLEAN /\ nextGen \in 0..MaxGen /\ gen \in {0, nextGen}
    /\ recorded \in BOOLEAN /\ first \in BOOLEAN /\ job \in BOOLEAN
    /\ watching \in BOOLEAN /\ handle \in BOOLEAN /\ reading \in BOOLEAN

WorldType ==
    /\ roots \subseteq Gens /\ descs \subseteq Gens /\ published \subseteq Gens
    /\ watchers \subseteq Gens /\ readers \subseteq Gens /\ tasks \subseteq Gens

EventSet == {"Started", "Restarted", "ChildExited", "Stopped"} \X (0..MaxGen)

BooksType ==
    /\ events \in Seq(EventSet)
    /\ stopHook \in 0..1 /\ stopped \in BOOLEAN
    /\ startup \in {None, "Running", "Quiesced"}
    /\ result \in {None, "Stopped", "ChildExited", "Suicide", "Error"}

GateType ==
    /\ ready \in BOOLEAN /\ released \in BOOLEAN /\ stopCommitted \in BOOLEAN
    /\ expired \in BOOLEAN /\ reapFailed \in BOOLEAN

\* What run() has decided at each location: the reason it leaves with, and
\* whether a Stop is being carried out or has been.
PhaseInv ==
    /\ pc \in CleanupOrFailed => ret # None
    /\ Running \/ (pc = "cleanupFailed" /\ ret \in RunRets) => stage = 0 /\ ~stopped /\ result = None
    /\ pc = "left" => stage = 0 /\ ~stopped /\ result # None /\ (result = "Stopped" => stop)
    /\ pc \in CleanupOrFailed /\ ret = "tail" =>
         stage = 0 /\ ~stopped /\ result \in {"ChildExited", "Suicide", "Error"}
    /\ Stopping => stage # 0 /\ stop /\ ~stopped
    /\ Stopping /\ pc # "stopPre" => stopHook = 1
    /\ Stopping /\ pc \notin {"stopPre", "graceful"} => result \in {"Stopped", "Error"}
    /\ pc \in SettledPcs /\ stopped => stop /\ stopHook = 1 /\ result \in {"Stopped", "Error"}
    /\ pc \in SettledPcs /\ ~stopped => result \in {"ChildExited", "Suicide", "Error"}
    /\ pc \in SettledPcs \ {"ended"} => stage # 3

\* The gate: a committed Stop is raised and released, and an end without a
\* Stop saw no committed one unless the deadline passed.
CommitInv ==
    /\ stopCommitted => stop /\ released
    /\ pc = "commit" \/ stage = 3 \/ pc = "ended" => expired \/ released
    /\ pc = "ended" /\ ~stopped /\ ~expired => ~stopCommitted

\* Everything that is alive belongs to the generation numbered last, and what
\* the supervisor holds (job, task and reader handles) stands for it.
WorldInv ==
    /\ roots \cup descs \cup watchers \cup readers \cup tasks \subseteq {nextGen}
    /\ published \subseteq 1..nextGen
    /\ tasks # {} => handle
    /\ readers # {} => reading
    /\ roots \cup descs # {} => job \/ reapFailed
    /\ gen = 0 => ~watching

\* While run_generations runs, nothing has escaped it: a watcher is held, no
\* tree was given up, and between two generations nothing is held at all.
RunInv ==
    /\ Running => ~reapFailed /\ (watchers # {} => watching /\ gen # 0)
    /\ pc \in {"prepare", "open", "spawn", "resume", "startFailed", "exited", "sleep", "quiesced"} => gen = 0
    /\ pc \in {"record", "post", "watch"} => gen = nextGen
    /\ Running /\ pc # "sleep" => nextGen # 0
    /\ pc \in {"sleep", "quiesced", "startFailed", "exited", "prepare"} => ~job /\ ~handle /\ ~reading
    /\ pc \in {"open", "spawn", "resume", "record", "post", "watch"} => job
    /\ pc = "record" => ~watching /\ ~recorded

\* What cleanup_generation has settled so far, and what its success leaves.
CleanupInv ==
    /\ pc \in CleanupOrFailed \ {"reap"} => ~job
    /\ pc \in {"awaitExit", "joinWatcher", "drain", "recordExit"} => ~handle
    /\ pc \in {"drain", "recordExit"} => ~watching /\ (gen = 0 \/ gen \in published)
    /\ pc = "joinWatcher" => gen \in published
    /\ pc \in {"drain", "recordExit"} /\ ret \in RunRets => watchers = {}
    /\ pc = "recordExit" /\ ~failure => ~reading
    /\ pc = "stopDone" /\ ~failure => ~job /\ ~handle /\ ~reading
    /\ pc \in SettledPcs /\ result # "Error" => ~job /\ ~handle /\ ~reading
    /\ reapFailed => result \in {"Error", "Stopped"} \/ pc = "cleanupFailed"

\* The start j of the event log is matched by a later exit of its generation.
Closed(j) == \E k \in DOMAIN events : k > j /\ events[k] = <<"ChildExited", events[j][2]>>

\* The event log against the generation that is held: no generation is ahead
\* of its number, and before its start is recorded the log does not know it.
LogGens ==
    /\ \A i \in DOMAIN events : events[i][2] <= nextGen
    /\ pc \in {"prepare", "open", "spawn", "resume", "record"} =>
         \A i \in DOMAIN events : events[i][2] < nextGen

\* Only the start of the generation held may be unmatched.
LogStarts ==
    \A j \in DOMAIN events : StartIn(j) =>
      Closed(j) \/ (gen # 0 /\ ~recorded /\ events[j][2] = gen)

\* The start of the generation held is in the log once it is past RecordStart.
LogHeld ==
    gen # 0 /\ pc # "record" => \E j \in DOMAIN events : StartIn(j) /\ events[j][2] = gen

\* Its exit is in the log only once it is marked recorded.
LogExit ==
    gen # 0 /\ ~recorded => \A j \in DOMAIN events : events[j] # <<"ChildExited", gen>>

\* Stopped is in the log only once stopped_recorded is set, and last.
LogStopped ==
    \A j \in DOMAIN events : events[j][1] = "Stopped" => stopped /\ j = Len(events)

EventInv == LogGens /\ LogStarts /\ LogHeld /\ LogExit /\ LogStopped

\* Everything but the event log.
CtlInv ==
    /\ MainType /\ OwnType /\ WorldType /\ BooksType /\ GateType
    /\ PhaseInv /\ CommitInv /\ WorldInv /\ RunInv /\ CleanupInv

IInv == CtlInv /\ EventInv /\ EventsWellFormed

-----------------------------------------------------------------------------
(* The control state is consistent: one lemma per part of run()            *)

\* run_generations and start_generation, and an error while it waits.
InGenerations ==
    \/ HandleError \/ SleepOrStop \/ Prepare \/ OpenOutputs \/ SpawnChild
    \/ ResumeChild \/ RecordStart \/ StartPost \/ Watch \/ StartFailed
    \/ ApplyExitAction \/ Quiesced

\* It keeps everything but the log.
LEMMA GenerationsStep == CtlInv /\ InGenerations => CtlInv'
<1> SUFFICES ASSUME CtlInv, InGenerations PROVE CtlInv'
  OBVIOUS
<1>a. /\ MainType /\ OwnType /\ WorldType /\ BooksType /\ GateType
      /\ PhaseInv /\ CommitInv /\ WorldInv /\ RunInv /\ CleanupInv
  BY DEF CtlInv
<1> USE DEF Leave, Goto, Cleanup, CleanupFails, RunPcs, CleanupPcs, CleanupOrFailed, SettledPcs,
     RunRets, Running, Stopping, None, Gens
<1>1. CASE HandleError
  <2>g. gen # 0 => gen \in Gens
    BY <1>a, SupervisorAssumption DEF OwnType
  <2>1. MainType'
    BY <1>a, <1>1 DEF HandleError, Listening, gate, MainType, PhaseInv, ExitActions
  <2>2. OwnType'
    BY <1>a, <1>1, SupervisorAssumption DEF HandleError, Listening, gate, OwnType, RunInv
  <2>3. WorldType'
    BY <1>1, <2>g, <1>a DEF HandleError, WorldType
  <2>4. BooksType' /\ GateType'
    BY <1>a, <1>1 DEF HandleError, Listening, gate, BooksType, GateType
  <2>5. PhaseInv' /\ CommitInv'
    BY <1>a, <1>1 DEF HandleError, Listening, gate, MainType, BooksType, PhaseInv, CommitInv
  <2>6. WorldInv'
    BY <1>a, <1>1 DEF HandleError, Listening, gate, OwnType, WorldInv, RunInv, CleanupInv
  <2>7. RunInv'
    BY <1>a, <1>1 DEF HandleError, Listening, gate, MainType, OwnType, PhaseInv, WorldInv,
       RunInv, CleanupInv
  <2>8. CleanupInv'
    BY <1>a, <1>1 DEF HandleError, Listening, gate, MainType, OwnType, PhaseInv, WorldInv,
       RunInv, CleanupInv
  <2> QED
    BY <2>1, <2>2, <2>3, <2>4, <2>5, <2>6, <2>7, <2>8 DEF CtlInv
<1>2. CASE SleepOrStop
  <2>1. MainType'
    BY <1>a, <1>2 DEF SleepOrStop, MayStart, world, gate, MainType, PhaseInv, ExitActions
  <2>2. OwnType'
    BY <1>a, <1>2, SupervisorAssumption DEF SleepOrStop, MayStart, world, gate, OwnType, RunInv
  <2>3. WorldType'
    BY <1>a, <1>2, SupervisorAssumption DEF SleepOrStop, MayStart, world, gate, OwnType,
       WorldType, RunInv
  <2>4. BooksType' /\ GateType'
    BY <1>a, <1>2 DEF SleepOrStop, MayStart, world, gate, BooksType, GateType
  <2>5. PhaseInv' /\ CommitInv'
    BY <1>a, <1>2 DEF SleepOrStop, MayStart, world, gate, MainType, BooksType, PhaseInv,
       CommitInv
  <2>6. WorldInv'
    BY <1>a, <1>2 DEF SleepOrStop, MayStart, world, gate, OwnType, WorldInv, RunInv, CleanupInv
  <2>7. RunInv'
    BY <1>a, <1>2 DEF SleepOrStop, MayStart, world, gate, MainType, OwnType, PhaseInv, WorldInv,
       RunInv, CleanupInv
  <2>8. CleanupInv'
    BY <1>a, <1>2 DEF SleepOrStop, MayStart, world, gate, MainType, OwnType, PhaseInv, WorldInv,
       RunInv, CleanupInv
  <2> QED
    BY <2>1, <2>2, <2>3, <2>4, <2>5, <2>6, <2>7, <2>8 DEF CtlInv
<1>3. CASE Prepare
  <2>1. MainType'
    BY <1>a, <1>3 DEF Prepare, world, gate, MainType, PhaseInv, ExitActions
  <2>2. OwnType'
    BY <1>a, <1>3, SupervisorAssumption DEF Prepare, world, gate, OwnType, RunInv
  <2>3. WorldType'
    BY <1>a, <1>3, SupervisorAssumption DEF Prepare, world, gate, OwnType, WorldType, RunInv
  <2>4. BooksType' /\ GateType'
    BY <1>a, <1>3 DEF Prepare, world, gate, BooksType, GateType
  <2>5. PhaseInv' /\ CommitInv'
    BY <1>a, <1>3 DEF Prepare, world, gate, MainType, BooksType, PhaseInv, CommitInv
  <2>6. WorldInv'
    BY <1>a, <1>3 DEF Prepare, world, gate, OwnType, WorldInv, RunInv, CleanupInv
  <2>7. RunInv'
    BY <1>a, <1>3 DEF Prepare, world, gate, MainType, OwnType, PhaseInv, WorldInv, RunInv,
       CleanupInv
  <2>8. CleanupInv'
    BY <1>a, <1>3 DEF Prepare, world, gate, MainType, OwnType, PhaseInv, WorldInv, RunInv,
       CleanupInv
  <2> QED
    BY <2>1, <2>2, <2>3, <2>4, <2>5, <2>6, <2>7, <2>8 DEF CtlInv
<1>4. CASE OpenOutputs
  <2>p. pc = "open"
    BY <1>4 DEF OpenOutputs
  <2>g. nextGen \in Gens
    BY <1>a, <2>p, SupervisorAssumption DEF OwnType, RunInv
  <2>1. MainType'
    BY <1>a, <1>4 DEF OpenOutputs, gate, MainType, PhaseInv, ExitActions
  <2>2. OwnType'
    BY <1>a, <1>4, SupervisorAssumption DEF OpenOutputs, gate, OwnType, RunInv
  <2>3. WorldType'
    BY <1>4, <2>g, <1>a DEF OpenOutputs, WorldType
  <2>4. BooksType' /\ GateType'
    BY <1>a, <1>4 DEF OpenOutputs, gate, BooksType, GateType
  <2>5. PhaseInv' /\ CommitInv'
    BY <1>a, <1>4 DEF OpenOutputs, gate, MainType, BooksType, PhaseInv, CommitInv
  <2>6. WorldInv'
    BY <1>a, <1>4 DEF OpenOutputs, gate, OwnType, WorldInv, RunInv, CleanupInv
  <2>7. RunInv'
    BY <1>a, <1>4 DEF OpenOutputs, gate, MainType, OwnType, PhaseInv, WorldInv, RunInv,
       CleanupInv
  <2>8. CleanupInv'
    BY <1>a, <1>4 DEF OpenOutputs, gate, MainType, OwnType, PhaseInv, WorldInv, RunInv,
       CleanupInv
  <2> QED
    BY <2>1, <2>2, <2>3, <2>4, <2>5, <2>6, <2>7, <2>8 DEF CtlInv
<1>5. CASE SpawnChild
  <2>1. MainType'
    BY <1>a, <1>5 DEF SpawnChild, own, world, gate, MainType, PhaseInv, ExitActions
  <2>2. OwnType'
    BY <1>a, <1>5, SupervisorAssumption DEF SpawnChild, own, world, gate, OwnType, RunInv
  <2>3. WorldType'
    BY <1>a, <1>5, SupervisorAssumption DEF SpawnChild, own, world, gate, OwnType, WorldType,
       RunInv
  <2>4. BooksType' /\ GateType'
    BY <1>a, <1>5 DEF SpawnChild, own, world, gate, BooksType, GateType
  <2>5. PhaseInv' /\ CommitInv'
    BY <1>a, <1>5 DEF SpawnChild, own, world, gate, MainType, BooksType, PhaseInv, CommitInv
  <2>6. WorldInv'
    BY <1>a, <1>5 DEF SpawnChild, own, world, gate, OwnType, WorldInv, RunInv, CleanupInv
  <2>7. RunInv'
    BY <1>a, <1>5 DEF SpawnChild, own, world, gate, MainType, OwnType, PhaseInv, WorldInv,
       RunInv, CleanupInv
  <2>8. CleanupInv'
    BY <1>a, <1>5 DEF SpawnChild, own, world, gate, MainType, OwnType, PhaseInv, WorldInv,
       RunInv, CleanupInv
  <2> QED
    BY <2>1, <2>2, <2>3, <2>4, <2>5, <2>6, <2>7, <2>8 DEF CtlInv
<1>6. CASE ResumeChild
  <2>p. pc = "resume"
    BY <1>6 DEF ResumeChild
  <2>g. nextGen \in Gens
    BY <1>a, <2>p, SupervisorAssumption DEF OwnType, RunInv
  <2>1. MainType'
    BY <1>a, <1>6 DEF ResumeChild, books, gate, MainType, PhaseInv, ExitActions
  <2>2. OwnType'
    BY <1>a, <1>6, SupervisorAssumption DEF ResumeChild, books, gate, OwnType, RunInv
  <2>3. WorldType'
    BY <1>6, <2>g, <1>a DEF ResumeChild, WorldType
  <2>4. BooksType' /\ GateType'
    BY <1>a, <1>6 DEF ResumeChild, books, gate, BooksType, GateType
  <2>5. PhaseInv' /\ CommitInv'
    BY <1>a, <1>6 DEF ResumeChild, books, gate, MainType, BooksType, PhaseInv, CommitInv
  <2>6. WorldInv'
    BY <1>a, <1>6 DEF ResumeChild, books, gate, OwnType, WorldInv, RunInv, CleanupInv
  <2>7. RunInv'
    BY <1>a, <1>6 DEF ResumeChild, books, gate, MainType, OwnType, PhaseInv, WorldInv, RunInv,
       CleanupInv
  <2>8. CleanupInv'
    BY <1>a, <1>6 DEF ResumeChild, books, gate, MainType, OwnType, PhaseInv, WorldInv, RunInv,
       CleanupInv
  <2> QED
    BY <2>1, <2>2, <2>3, <2>4, <2>5, <2>6, <2>7, <2>8 DEF CtlInv
<1>7. CASE RecordStart
  <2>g. gen \in 0..MaxGen
    BY <1>a, SupervisorAssumption DEF OwnType
  <2>1. MainType'
    BY <1>a, <1>7 DEF RecordStart, gate, MainType, PhaseInv, ExitActions
  <2>2. OwnType'
    BY <1>a, <1>7, SupervisorAssumption DEF RecordStart, gate, OwnType, RunInv
  <2>3. WorldType'
    BY <1>a, <1>7, SupervisorAssumption DEF RecordStart, gate, OwnType, WorldType, RunInv
  <2>4. BooksType' /\ GateType'
    <3>1. <<IF first THEN "Started" ELSE "Restarted", gen>> \in EventSet
      BY <2>g DEF EventSet
    <3>2. events' \in Seq(EventSet)
      BY <3>1, <1>7, <1>a DEF RecordStart, BooksType, EventSet
    <3> QED
      BY <3>2, <1>7, <1>a DEF RecordStart, world, own, gate, BooksType, GateType, EventSet
  <2>5. PhaseInv' /\ CommitInv'
    BY <1>a, <1>7 DEF RecordStart, gate, MainType, BooksType, PhaseInv, CommitInv
  <2>6. WorldInv'
    BY <1>a, <1>7 DEF RecordStart, gate, OwnType, WorldInv, RunInv, CleanupInv
  <2>7. RunInv'
    BY <1>a, <1>7 DEF RecordStart, gate, MainType, OwnType, PhaseInv, WorldInv, RunInv,
       CleanupInv
  <2>8. CleanupInv'
    BY <1>a, <1>7 DEF RecordStart, gate, MainType, OwnType, PhaseInv, WorldInv, RunInv,
       CleanupInv
  <2> QED
    BY <2>1, <2>2, <2>3, <2>4, <2>5, <2>6, <2>7, <2>8 DEF CtlInv
<1>8. CASE StartPost
  <2>1. MainType'
    BY <1>a, <1>8 DEF StartPost, world, gate, MainType, PhaseInv, ExitActions
  <2>2. OwnType'
    BY <1>a, <1>8, SupervisorAssumption DEF StartPost, world, gate, OwnType, RunInv
  <2>3. WorldType'
    BY <1>a, <1>8, SupervisorAssumption DEF StartPost, world, gate, OwnType, WorldType, RunInv
  <2>4. BooksType' /\ GateType'
    BY <1>a, <1>8 DEF StartPost, world, gate, BooksType, GateType
  <2>5. PhaseInv' /\ CommitInv'
    BY <1>a, <1>8 DEF StartPost, world, gate, MainType, BooksType, PhaseInv, CommitInv
  <2>6. WorldInv'
    BY <1>a, <1>8 DEF StartPost, world, gate, OwnType, WorldInv, RunInv, CleanupInv
  <2>7. RunInv'
    BY <1>a, <1>8 DEF StartPost, world, gate, MainType, OwnType, PhaseInv, WorldInv, RunInv,
       CleanupInv
  <2>8. CleanupInv'
    BY <1>a, <1>8 DEF StartPost, world, gate, MainType, OwnType, PhaseInv, WorldInv, RunInv,
       CleanupInv
  <2> QED
    BY <2>1, <2>2, <2>3, <2>4, <2>5, <2>6, <2>7, <2>8 DEF CtlInv
<1>9. CASE Watch
  <2>1. MainType'
    BY <1>a, <1>9 DEF Watch, ExitActions, own, world, gate, MainType, PhaseInv
  <2>2. OwnType'
    BY <1>a, <1>9, SupervisorAssumption DEF Watch, ExitActions, own, world, gate, OwnType,
       RunInv
  <2>3. WorldType'
    BY <1>a, <1>9, SupervisorAssumption DEF Watch, ExitActions, own, world, gate, OwnType,
       WorldType, RunInv
  <2>4. BooksType' /\ GateType'
    BY <1>a, <1>9 DEF Watch, ExitActions, own, world, gate, BooksType, GateType
  <2>5. PhaseInv' /\ CommitInv'
    BY <1>a, <1>9 DEF Watch, ExitActions, own, world, gate, MainType, BooksType, PhaseInv,
       CommitInv
  <2>6. WorldInv'
    BY <1>a, <1>9 DEF Watch, ExitActions, own, world, gate, OwnType, WorldInv, RunInv,
       CleanupInv
  <2>7. RunInv'
    BY <1>a, <1>9 DEF Watch, ExitActions, own, world, gate, MainType, OwnType, PhaseInv,
       WorldInv, RunInv, CleanupInv
  <2>8. CleanupInv'
    BY <1>a, <1>9 DEF Watch, ExitActions, own, world, gate, MainType, OwnType, PhaseInv,
       WorldInv, RunInv, CleanupInv
  <2> QED
    BY <2>1, <2>2, <2>3, <2>4, <2>5, <2>6, <2>7, <2>8 DEF CtlInv
<1>10. CASE StartFailed
  <2>1. MainType'
    BY <1>a, <1>10 DEF StartFailed, own, world, gate, MainType, PhaseInv, ExitActions
  <2>2. OwnType'
    BY <1>a, <1>10, SupervisorAssumption DEF StartFailed, own, world, gate, OwnType, RunInv
  <2>3. WorldType'
    BY <1>a, <1>10, SupervisorAssumption DEF StartFailed, own, world, gate, OwnType, WorldType,
       RunInv
  <2>4. BooksType' /\ GateType'
    BY <1>a, <1>10 DEF StartFailed, own, world, gate, BooksType, GateType
  <2>5. PhaseInv' /\ CommitInv'
    BY <1>a, <1>10 DEF StartFailed, own, world, gate, MainType, BooksType, PhaseInv, CommitInv
  <2>6. WorldInv'
    BY <1>a, <1>10 DEF StartFailed, own, world, gate, OwnType, WorldInv, RunInv, CleanupInv
  <2>7. RunInv'
    BY <1>a, <1>10 DEF StartFailed, own, world, gate, MainType, OwnType, PhaseInv, WorldInv,
       RunInv, CleanupInv
  <2>8. CleanupInv'
    BY <1>a, <1>10 DEF StartFailed, own, world, gate, MainType, OwnType, PhaseInv, WorldInv,
       RunInv, CleanupInv
  <2> QED
    BY <2>1, <2>2, <2>3, <2>4, <2>5, <2>6, <2>7, <2>8 DEF CtlInv
<1>11. CASE ApplyExitAction
  <2>1. MainType'
    BY <1>a, <1>11 DEF ApplyExitAction, own, world, gate, MainType, PhaseInv, ExitActions
  <2>2. OwnType'
    BY <1>a, <1>11, SupervisorAssumption DEF ApplyExitAction, own, world, gate, OwnType, RunInv
  <2>3. WorldType'
    BY <1>a, <1>11, SupervisorAssumption DEF ApplyExitAction, own, world, gate, OwnType,
       WorldType, RunInv
  <2>4. BooksType' /\ GateType'
    BY <1>a, <1>11 DEF ApplyExitAction, own, world, gate, BooksType, GateType
  <2>5. PhaseInv' /\ CommitInv'
    BY <1>a, <1>11 DEF ApplyExitAction, own, world, gate, MainType, BooksType, PhaseInv,
       CommitInv
  <2>6. WorldInv'
    BY <1>a, <1>11 DEF ApplyExitAction, own, world, gate, OwnType, WorldInv, RunInv, CleanupInv
  <2>7. RunInv'
    BY <1>a, <1>11 DEF ApplyExitAction, own, world, gate, MainType, OwnType, PhaseInv, WorldInv,
       RunInv, CleanupInv
  <2>8. CleanupInv'
    BY <1>a, <1>11 DEF ApplyExitAction, own, world, gate, MainType, OwnType, PhaseInv, WorldInv,
       RunInv, CleanupInv
  <2> QED
    BY <2>1, <2>2, <2>3, <2>4, <2>5, <2>6, <2>7, <2>8 DEF CtlInv
<1>12. CASE Quiesced
  <2>1. MainType'
    BY <1>a, <1>12 DEF Quiesced, own, world, gate, MainType, PhaseInv, ExitActions
  <2>2. OwnType'
    BY <1>a, <1>12, SupervisorAssumption DEF Quiesced, own, world, gate, OwnType, RunInv
  <2>3. WorldType'
    BY <1>a, <1>12, SupervisorAssumption DEF Quiesced, own, world, gate, OwnType, WorldType,
       RunInv
  <2>4. BooksType' /\ GateType'
    BY <1>a, <1>12 DEF Quiesced, own, world, gate, BooksType, GateType
  <2>5. PhaseInv' /\ CommitInv'
    BY <1>a, <1>12 DEF Quiesced, own, world, gate, MainType, BooksType, PhaseInv, CommitInv
  <2>6. WorldInv'
    BY <1>a, <1>12 DEF Quiesced, own, world, gate, OwnType, WorldInv, RunInv, CleanupInv
  <2>7. RunInv'
    BY <1>a, <1>12 DEF Quiesced, own, world, gate, MainType, OwnType, PhaseInv, WorldInv,
       RunInv, CleanupInv
  <2>8. CleanupInv'
    BY <1>a, <1>12 DEF Quiesced, own, world, gate, MainType, OwnType, PhaseInv, WorldInv,
       RunInv, CleanupInv
  <2> QED
    BY <2>1, <2>2, <2>3, <2>4, <2>5, <2>6, <2>7, <2>8 DEF CtlInv
<1> QED
  BY <1>1, <1>2, <1>3, <1>4, <1>5, <1>6, <1>7, <1>8, <1>9, <1>10, <1>11, <1>12 DEF InGenerations

\* cleanup_generation, whichever of its steps fails.
InCleanup ==
    \/ Reap \/ JoinTasks \/ AwaitExit \/ JoinWatcher \/ Drain \/ RecordExit
    \/ CleanupFailed

\* It keeps everything but the log.
LEMMA CleanupStep == CtlInv /\ InCleanup => CtlInv'
<1> SUFFICES ASSUME CtlInv, InCleanup PROVE CtlInv'
  OBVIOUS
<1>a. /\ MainType /\ OwnType /\ WorldType /\ BooksType /\ GateType
      /\ PhaseInv /\ CommitInv /\ WorldInv /\ RunInv /\ CleanupInv
  BY DEF CtlInv
<1> USE DEF Leave, Goto, Cleanup, CleanupFails, RunPcs, CleanupPcs, CleanupOrFailed, SettledPcs,
     RunRets, Running, Stopping, None, Gens
<1>1. CASE Reap
  <2>1. MainType'
    BY <1>a, <1>1 DEF Reap, books, MainType, PhaseInv, ExitActions
  <2>2. OwnType'
    BY <1>a, <1>1, SupervisorAssumption DEF Reap, books, OwnType, RunInv
  <2>3. WorldType'
    BY <1>a, <1>1, SupervisorAssumption DEF Reap, books, OwnType, WorldType, RunInv
  <2>4. BooksType' /\ GateType'
    BY <1>a, <1>1 DEF Reap, books, BooksType, GateType
  <2>5. PhaseInv' /\ CommitInv'
    BY <1>a, <1>1 DEF Reap, books, MainType, BooksType, PhaseInv, CommitInv
  <2>6. WorldInv'
    BY <1>a, <1>1 DEF Reap, books, OwnType, WorldInv, RunInv, CleanupInv
  <2>7. RunInv'
    BY <1>a, <1>1 DEF Reap, books, MainType, OwnType, PhaseInv, WorldInv, RunInv, CleanupInv
  <2>8. CleanupInv'
    BY <1>a, <1>1 DEF Reap, books, MainType, OwnType, PhaseInv, WorldInv, RunInv, CleanupInv
  <2> QED
    BY <2>1, <2>2, <2>3, <2>4, <2>5, <2>6, <2>7, <2>8 DEF CtlInv
<1>2. CASE JoinTasks
  <2>1. MainType'
    BY <1>a, <1>2 DEF JoinTasks, WorkerDone, world, books, gate, MainType, PhaseInv, ExitActions
  <2>2. OwnType'
    BY <1>a, <1>2, SupervisorAssumption DEF JoinTasks, WorkerDone, world, books, gate, OwnType,
       RunInv
  <2>3. WorldType'
    BY <1>a, <1>2, SupervisorAssumption DEF JoinTasks, WorkerDone, world, books, gate, OwnType,
       WorldType, RunInv
  <2>4. BooksType' /\ GateType'
    BY <1>a, <1>2 DEF JoinTasks, WorkerDone, world, books, gate, BooksType, GateType
  <2>5. PhaseInv' /\ CommitInv'
    BY <1>a, <1>2 DEF JoinTasks, WorkerDone, world, books, gate, MainType, BooksType, PhaseInv,
       CommitInv
  <2>6. WorldInv'
    BY <1>a, <1>2 DEF JoinTasks, WorkerDone, world, books, gate, OwnType, WorldInv, RunInv,
       CleanupInv
  <2>7. RunInv'
    BY <1>a, <1>2 DEF JoinTasks, WorkerDone, world, books, gate, MainType, OwnType, PhaseInv,
       WorldInv, RunInv, CleanupInv
  <2>8. CleanupInv'
    BY <1>a, <1>2 DEF JoinTasks, WorkerDone, world, books, gate, MainType, OwnType, PhaseInv,
       WorldInv, RunInv, CleanupInv
  <2> QED
    BY <2>1, <2>2, <2>3, <2>4, <2>5, <2>6, <2>7, <2>8 DEF CtlInv
<1>3. CASE AwaitExit
  <2>g. gen # 0 => gen \in Gens
    BY <1>a, SupervisorAssumption DEF OwnType
  <2>1. MainType'
    BY <1>a, <1>3 DEF AwaitExit, own, books, gate, MainType, PhaseInv, ExitActions
  <2>2. OwnType'
    BY <1>a, <1>3, SupervisorAssumption DEF AwaitExit, own, books, gate, OwnType, RunInv
  <2>3. WorldType'
    BY <1>3, <2>g, <1>a DEF AwaitExit, WorldType
  <2>4. BooksType' /\ GateType'
    BY <1>a, <1>3 DEF AwaitExit, own, books, gate, BooksType, GateType
  <2>5. PhaseInv' /\ CommitInv'
    BY <1>a, <1>3 DEF AwaitExit, own, books, gate, MainType, BooksType, PhaseInv, CommitInv
  <2>6. WorldInv'
    <3>1. /\ published' \subseteq published \cup {gen} /\ (gen = 0 => published' = published)
          /\ UNCHANGED <<own, roots, descs, watchers, readers, tasks, reapFailed>>
      BY <1>3 DEF AwaitExit, gate
    <3>2. gen # 0 => gen \in 1..nextGen
      BY <1>a, <2>g DEF OwnType
    <3> QED
      BY <3>1, <3>2, <1>a DEF WorldInv, own
  <2>7. RunInv'
    BY <1>a, <1>3 DEF AwaitExit, own, books, gate, MainType, OwnType, PhaseInv, WorldInv,
       RunInv, CleanupInv
  <2>8. CleanupInv'
    BY <1>a, <1>3 DEF AwaitExit, own, books, gate, MainType, OwnType, PhaseInv, WorldInv,
       RunInv, CleanupInv
  <2> QED
    BY <2>1, <2>2, <2>3, <2>4, <2>5, <2>6, <2>7, <2>8 DEF CtlInv
<1>4. CASE JoinWatcher
  <2>1. MainType'
    BY <1>a, <1>4 DEF JoinWatcher, world, books, gate, MainType, PhaseInv, ExitActions
  <2>2. OwnType'
    BY <1>a, <1>4, SupervisorAssumption DEF JoinWatcher, world, books, gate, OwnType, RunInv
  <2>3. WorldType'
    BY <1>a, <1>4, SupervisorAssumption DEF JoinWatcher, world, books, gate, OwnType, WorldType,
       RunInv
  <2>4. BooksType' /\ GateType'
    BY <1>a, <1>4 DEF JoinWatcher, world, books, gate, BooksType, GateType
  <2>5. PhaseInv' /\ CommitInv'
    BY <1>a, <1>4 DEF JoinWatcher, world, books, gate, MainType, BooksType, PhaseInv, CommitInv
  <2>6. WorldInv'
    BY <1>a, <1>4 DEF JoinWatcher, world, books, gate, OwnType, WorldInv, RunInv, CleanupInv
  <2>7. RunInv'
    BY <1>a, <1>4 DEF JoinWatcher, world, books, gate, MainType, OwnType, PhaseInv, WorldInv,
       RunInv, CleanupInv
  <2>8. CleanupInv'
    BY <1>a, <1>4 DEF JoinWatcher, world, books, gate, MainType, OwnType, PhaseInv, WorldInv,
       RunInv, CleanupInv
  <2> QED
    BY <2>1, <2>2, <2>3, <2>4, <2>5, <2>6, <2>7, <2>8 DEF CtlInv
<1>5. CASE Drain
  <2>g. gen # 0 => gen \in Gens
    BY <1>a, SupervisorAssumption DEF OwnType
  <2>1. MainType'
    BY <1>a, <1>5 DEF Drain, ReadersDone, books, gate, MainType, PhaseInv, ExitActions
  <2>2. OwnType'
    <3>1. reading' = FALSE \/ reading' = (nextGen \in readers)
      BY <1>5, Zenon DEF Drain
    <3>2. (nextGen \in readers) \in BOOLEAN
      BY ONLY SMT
    <3>3. handle' = handle \/ handle' = TRUE
      BY <1>5, Zenon DEF Drain
    <3>4. reading' \in BOOLEAN /\ handle' \in BOOLEAN
      BY <3>1, <3>2, <3>3, <1>a, Zenon DEF OwnType
    <3> QED
      BY <3>4, <1>5, <1>a DEF Drain, OwnType
  <2>3. WorldType'
    BY <1>5, <2>g, <1>a DEF Drain, WorldType
  <2>4. BooksType' /\ GateType'
    BY <1>a, <1>5 DEF Drain, ReadersDone, books, gate, BooksType, GateType
  <2>5. PhaseInv' /\ CommitInv'
    BY <1>a, <1>5 DEF Drain, ReadersDone, books, gate, MainType, BooksType, PhaseInv, CommitInv
  <2>6. WorldInv'
    BY <1>a, <1>5 DEF Drain, ReadersDone, books, gate, OwnType, WorldInv, RunInv, CleanupInv
  <2>7. RunInv'
    BY <1>a, <1>5 DEF Drain, ReadersDone, books, gate, MainType, OwnType, PhaseInv, WorldInv,
       RunInv, CleanupInv
  <2>8. CleanupInv'
    BY <1>a, <1>5 DEF Drain, ReadersDone, books, gate, MainType, OwnType, PhaseInv, WorldInv,
       RunInv, CleanupInv
  <2> QED
    BY <2>1, <2>2, <2>3, <2>4, <2>5, <2>6, <2>7, <2>8 DEF CtlInv
<1>6. CASE RecordExit
  <2>g. gen \in 0..MaxGen
    BY <1>a, SupervisorAssumption DEF OwnType
  <2>1. MainType'
    BY <1>a, <1>6 DEF RecordExit, ExitUnrecorded, DropGeneration, world, gate, MainType,
       PhaseInv, ExitActions
  <2>2. OwnType'
    BY <1>a, <1>6, SupervisorAssumption DEF RecordExit, ExitUnrecorded, DropGeneration, world,
       gate, OwnType, RunInv
  <2>3. WorldType'
    BY <1>a, <1>6, SupervisorAssumption DEF RecordExit, ExitUnrecorded, DropGeneration, world,
       gate, OwnType, WorldType, RunInv
  <2>4. BooksType' /\ GateType'
    <3>1. <<"ChildExited", gen>> \in EventSet
      BY <2>g DEF EventSet
    <3>2. events' \in Seq(EventSet)
      BY <3>1, <1>6, <1>a DEF RecordExit, BooksType, EventSet
    <3> QED
      BY <3>2, <1>6, <1>a DEF RecordExit, world, own, gate, BooksType, GateType, EventSet
  <2>5. PhaseInv' /\ CommitInv'
    BY <1>a, <1>6 DEF RecordExit, ExitUnrecorded, DropGeneration, world, gate, MainType,
       BooksType, PhaseInv, CommitInv
  <2>6. WorldInv'
    BY <1>a, <1>6 DEF RecordExit, ExitUnrecorded, DropGeneration, world, gate, OwnType,
       WorldInv, RunInv, CleanupInv
  <2>7. RunInv'
    BY <1>a, <1>6 DEF RecordExit, ExitUnrecorded, DropGeneration, world, gate, MainType,
       OwnType, PhaseInv, WorldInv, RunInv, CleanupInv
  <2>8. CleanupInv'
    BY <1>a, <1>6 DEF RecordExit, ExitUnrecorded, DropGeneration, world, gate, MainType,
       OwnType, PhaseInv, WorldInv, RunInv, CleanupInv
  <2> QED
    BY <2>1, <2>2, <2>3, <2>4, <2>5, <2>6, <2>7, <2>8 DEF CtlInv
<1>7. CASE CleanupFailed
  <2>1. MainType'
    BY <1>a, <1>7 DEF CleanupFailed, own, world, gate, MainType, PhaseInv, ExitActions
  <2>2. OwnType'
    BY <1>a, <1>7, SupervisorAssumption DEF CleanupFailed, own, world, gate, OwnType, RunInv
  <2>3. WorldType'
    BY <1>a, <1>7, SupervisorAssumption DEF CleanupFailed, own, world, gate, OwnType, WorldType,
       RunInv
  <2>4. BooksType' /\ GateType'
    BY <1>a, <1>7 DEF CleanupFailed, own, world, gate, BooksType, GateType
  <2>5. PhaseInv' /\ CommitInv'
    BY <1>a, <1>7 DEF CleanupFailed, own, world, gate, MainType, BooksType, PhaseInv, CommitInv
  <2>6. WorldInv'
    BY <1>a, <1>7 DEF CleanupFailed, own, world, gate, OwnType, WorldInv, RunInv, CleanupInv
  <2>7. RunInv'
    BY <1>a, <1>7 DEF CleanupFailed, own, world, gate, MainType, OwnType, PhaseInv, WorldInv,
       RunInv, CleanupInv
  <2>8. CleanupInv'
    BY <1>a, <1>7 DEF CleanupFailed, own, world, gate, MainType, OwnType, PhaseInv, WorldInv,
       RunInv, CleanupInv
  <2> QED
    BY <2>1, <2>2, <2>3, <2>4, <2>5, <2>6, <2>7, <2>8 DEF CtlInv
<1> QED
  BY <1>1, <1>2, <1>3, <1>4, <1>5, <1>6, <1>7 DEF InCleanup

\* run() after run_generations, finish_stop and the terminal hand-off.
AtTheEnd ==
    \/ AfterGenerations \/ StopPre \/ StopGracefully \/ StopDone \/ AfterCleanup
    \/ OfferTerminal \/ AwaitRelease \/ AfterHandoff

\* It keeps everything but the log.
LEMMA StopStep == CtlInv /\ AtTheEnd => CtlInv'
<1> SUFFICES ASSUME CtlInv, AtTheEnd PROVE CtlInv'
  OBVIOUS
<1>a. /\ MainType /\ OwnType /\ WorldType /\ BooksType /\ GateType
      /\ PhaseInv /\ CommitInv /\ WorldInv /\ RunInv /\ CleanupInv
  BY DEF CtlInv
<1> USE DEF Leave, Goto, Cleanup, CleanupFails, RunPcs, CleanupPcs, CleanupOrFailed, SettledPcs,
     RunRets, Running, Stopping, None, Gens
<1>1. CASE AfterGenerations
  <2>1. MainType'
    <3>1. CASE stop
      BY <3>1, <1>1, <1>a DEF AfterGenerations, MainType
    <3>2. CASE ~stop
      BY <3>2, <1>1, <1>a DEF AfterGenerations, MainType
    <3> QED
      BY <3>1, <3>2
  <2>2. OwnType'
    BY <1>a, <1>1, SupervisorAssumption DEF AfterGenerations, own, world, books, gate, OwnType,
       RunInv
  <2>3. WorldType'
    BY <1>a, <1>1, SupervisorAssumption DEF AfterGenerations, own, world, books, gate, OwnType,
       WorldType, RunInv
  <2>4. BooksType' /\ GateType'
    BY <1>a, <1>1 DEF AfterGenerations, own, world, books, gate, BooksType, GateType
  <2>5. PhaseInv' /\ CommitInv'
    BY <1>a, <1>1 DEF AfterGenerations, own, world, books, gate, MainType, BooksType, PhaseInv,
       CommitInv
  <2>6. WorldInv'
    BY <1>a, <1>1 DEF AfterGenerations, own, world, books, gate, OwnType, WorldInv, RunInv,
       CleanupInv
  <2>7. RunInv'
    BY <1>a, <1>1 DEF AfterGenerations, own, world, books, gate, MainType, OwnType, PhaseInv,
       WorldInv, RunInv, CleanupInv
  <2>8. CleanupInv'
    BY <1>a, <1>1 DEF AfterGenerations, own, world, books, gate, MainType, OwnType, PhaseInv,
       WorldInv, RunInv, CleanupInv
  <2> QED
    BY <2>1, <2>2, <2>3, <2>4, <2>5, <2>6, <2>7, <2>8 DEF CtlInv
<1>2. CASE StopPre
  <2>1. MainType'
    BY <1>a, <1>2 DEF StopPre, own, world, gate, MainType, PhaseInv, ExitActions
  <2>2. OwnType'
    BY <1>a, <1>2, SupervisorAssumption DEF StopPre, own, world, gate, OwnType, RunInv
  <2>3. WorldType'
    BY <1>a, <1>2, SupervisorAssumption DEF StopPre, own, world, gate, OwnType, WorldType,
       RunInv
  <2>4. BooksType' /\ GateType'
    BY <1>a, <1>2 DEF StopPre, own, world, gate, BooksType, GateType
  <2>5. PhaseInv' /\ CommitInv'
    BY <1>a, <1>2 DEF StopPre, own, world, gate, MainType, BooksType, PhaseInv, CommitInv
  <2>6. WorldInv'
    BY <1>a, <1>2 DEF StopPre, own, world, gate, OwnType, WorldInv, RunInv, CleanupInv
  <2>7. RunInv'
    BY <1>a, <1>2 DEF StopPre, own, world, gate, MainType, OwnType, PhaseInv, WorldInv, RunInv,
       CleanupInv
  <2>8. CleanupInv'
    BY <1>a, <1>2 DEF StopPre, own, world, gate, MainType, OwnType, PhaseInv, WorldInv, RunInv,
       CleanupInv
  <2> QED
    BY <2>1, <2>2, <2>3, <2>4, <2>5, <2>6, <2>7, <2>8 DEF CtlInv
<1>3. CASE StopGracefully
  <2>1. MainType'
    BY <1>a, <1>3 DEF StopGracefully, gate, MainType, PhaseInv, ExitActions
  <2>2. OwnType'
    BY <1>a, <1>3, SupervisorAssumption DEF StopGracefully, gate, OwnType, RunInv
  <2>3. WorldType'
    BY <1>a, <1>3, SupervisorAssumption DEF StopGracefully, gate, OwnType, WorldType, RunInv
  <2>4. BooksType' /\ GateType'
    BY <1>a, <1>3 DEF StopGracefully, gate, BooksType, GateType
  <2>5. PhaseInv' /\ CommitInv'
    BY <1>a, <1>3 DEF StopGracefully, gate, MainType, BooksType, PhaseInv, CommitInv
  <2>6. WorldInv'
    BY <1>a, <1>3 DEF StopGracefully, gate, OwnType, WorldInv, RunInv, CleanupInv
  <2>7. RunInv'
    BY <1>a, <1>3 DEF StopGracefully, gate, MainType, OwnType, PhaseInv, WorldInv, RunInv,
       CleanupInv
  <2>8. CleanupInv'
    BY <1>a, <1>3 DEF StopGracefully, gate, MainType, OwnType, PhaseInv, WorldInv, RunInv,
       CleanupInv
  <2> QED
    BY <2>1, <2>2, <2>3, <2>4, <2>5, <2>6, <2>7, <2>8 DEF CtlInv
<1>4. CASE StopDone
  <2>1. MainType'
    BY <1>a, <1>4 DEF StopDone, own, world, gate, MainType, PhaseInv, ExitActions
  <2>2. OwnType'
    BY <1>a, <1>4, SupervisorAssumption DEF StopDone, own, world, gate, OwnType, RunInv
  <2>3. WorldType'
    BY <1>a, <1>4, SupervisorAssumption DEF StopDone, own, world, gate, OwnType, WorldType,
       RunInv
  <2>4. BooksType' /\ GateType'
    <3>1. <<"Stopped", 0>> \in EventSet
      BY SupervisorAssumption DEF EventSet
    <3>2. events' \in Seq(EventSet)
      BY <3>1, <1>4, <1>a DEF StopDone, BooksType, EventSet
    <3> QED
      BY <3>2, <1>4, <1>a DEF StopDone, world, own, gate, BooksType, GateType, EventSet
  <2>5. PhaseInv' /\ CommitInv'
    BY <1>a, <1>4 DEF StopDone, own, world, gate, MainType, BooksType, PhaseInv, CommitInv
  <2>6. WorldInv'
    BY <1>a, <1>4 DEF StopDone, own, world, gate, OwnType, WorldInv, RunInv, CleanupInv
  <2>7. RunInv'
    BY <1>a, <1>4 DEF StopDone, own, world, gate, MainType, OwnType, PhaseInv, WorldInv, RunInv,
       CleanupInv
  <2>8. CleanupInv'
    BY <1>a, <1>4 DEF StopDone, own, world, gate, MainType, OwnType, PhaseInv, WorldInv, RunInv,
       CleanupInv
  <2> QED
    BY <2>1, <2>2, <2>3, <2>4, <2>5, <2>6, <2>7, <2>8 DEF CtlInv
<1>5. CASE AfterCleanup
  <2>1. MainType'
    BY <1>a, <1>5 DEF AfterCleanup, own, world, books, gate, MainType, PhaseInv, ExitActions
  <2>2. OwnType'
    BY <1>a, <1>5, SupervisorAssumption DEF AfterCleanup, own, world, books, gate, OwnType,
       RunInv
  <2>3. WorldType'
    BY <1>a, <1>5, SupervisorAssumption DEF AfterCleanup, own, world, books, gate, OwnType,
       WorldType, RunInv
  <2>4. BooksType' /\ GateType'
    BY <1>a, <1>5 DEF AfterCleanup, own, world, books, gate, BooksType, GateType
  <2>5. PhaseInv' /\ CommitInv'
    BY <1>a, <1>5 DEF AfterCleanup, own, world, books, gate, MainType, BooksType, PhaseInv,
       CommitInv
  <2>6. WorldInv'
    BY <1>a, <1>5 DEF AfterCleanup, own, world, books, gate, OwnType, WorldInv, RunInv,
       CleanupInv
  <2>7. RunInv'
    BY <1>a, <1>5 DEF AfterCleanup, own, world, books, gate, MainType, OwnType, PhaseInv,
       WorldInv, RunInv, CleanupInv
  <2>8. CleanupInv'
    BY <1>a, <1>5 DEF AfterCleanup, own, world, books, gate, MainType, OwnType, PhaseInv,
       WorldInv, RunInv, CleanupInv
  <2> QED
    BY <2>1, <2>2, <2>3, <2>4, <2>5, <2>6, <2>7, <2>8 DEF CtlInv
<1>6. CASE OfferTerminal
  <2>1. MainType'
    BY <1>a, <1>6 DEF OfferTerminal, own, world, books, MainType, PhaseInv, ExitActions
  <2>2. OwnType'
    BY <1>a, <1>6, SupervisorAssumption DEF OfferTerminal, own, world, books, OwnType, RunInv
  <2>3. WorldType'
    BY <1>a, <1>6, SupervisorAssumption DEF OfferTerminal, own, world, books, OwnType,
       WorldType, RunInv
  <2>4. BooksType' /\ GateType'
    BY <1>a, <1>6 DEF OfferTerminal, own, world, books, BooksType, GateType
  <2>5. PhaseInv' /\ CommitInv'
    BY <1>a, <1>6 DEF OfferTerminal, own, world, books, MainType, BooksType, PhaseInv, CommitInv
  <2>6. WorldInv'
    BY <1>a, <1>6 DEF OfferTerminal, own, world, books, OwnType, WorldInv, RunInv, CleanupInv
  <2>7. RunInv'
    BY <1>a, <1>6 DEF OfferTerminal, own, world, books, MainType, OwnType, PhaseInv, WorldInv,
       RunInv, CleanupInv
  <2>8. CleanupInv'
    BY <1>a, <1>6 DEF OfferTerminal, own, world, books, MainType, OwnType, PhaseInv, WorldInv,
       RunInv, CleanupInv
  <2> QED
    BY <2>1, <2>2, <2>3, <2>4, <2>5, <2>6, <2>7, <2>8 DEF CtlInv
<1>7. CASE AwaitRelease
  <2>1. MainType'
    BY <1>a, <1>7 DEF AwaitRelease, own, world, books, MainType, PhaseInv, ExitActions
  <2>2. OwnType'
    BY <1>a, <1>7, SupervisorAssumption DEF AwaitRelease, own, world, books, OwnType, RunInv
  <2>3. WorldType'
    BY <1>a, <1>7, SupervisorAssumption DEF AwaitRelease, own, world, books, OwnType, WorldType,
       RunInv
  <2>4. BooksType' /\ GateType'
    BY <1>a, <1>7 DEF AwaitRelease, own, world, books, BooksType, GateType
  <2>5. PhaseInv' /\ CommitInv'
    BY <1>a, <1>7 DEF AwaitRelease, own, world, books, MainType, BooksType, PhaseInv, CommitInv
  <2>6. WorldInv'
    BY <1>a, <1>7 DEF AwaitRelease, own, world, books, OwnType, WorldInv, RunInv, CleanupInv
  <2>7. RunInv'
    BY <1>a, <1>7 DEF AwaitRelease, own, world, books, MainType, OwnType, PhaseInv, WorldInv,
       RunInv, CleanupInv
  <2>8. CleanupInv'
    BY <1>a, <1>7 DEF AwaitRelease, own, world, books, MainType, OwnType, PhaseInv, WorldInv,
       RunInv, CleanupInv
  <2> QED
    BY <2>1, <2>2, <2>3, <2>4, <2>5, <2>6, <2>7, <2>8 DEF CtlInv
<1>8. CASE AfterHandoff
  <2>1. MainType'
    BY <1>a, <1>8 DEF AfterHandoff, own, world, books, gate, MainType, PhaseInv, ExitActions
  <2>2. OwnType'
    BY <1>a, <1>8, SupervisorAssumption DEF AfterHandoff, own, world, books, gate, OwnType,
       RunInv
  <2>3. WorldType'
    BY <1>a, <1>8, SupervisorAssumption DEF AfterHandoff, own, world, books, gate, OwnType,
       WorldType, RunInv
  <2>4. BooksType' /\ GateType'
    BY <1>a, <1>8 DEF AfterHandoff, own, world, books, gate, BooksType, GateType
  <2>5. PhaseInv' /\ CommitInv'
    BY <1>a, <1>8 DEF AfterHandoff, own, world, books, gate, MainType, BooksType, PhaseInv,
       CommitInv
  <2>6. WorldInv'
    BY <1>a, <1>8 DEF AfterHandoff, own, world, books, gate, OwnType, WorldInv, RunInv,
       CleanupInv
  <2>7. RunInv'
    BY <1>a, <1>8 DEF AfterHandoff, own, world, books, gate, MainType, OwnType, PhaseInv,
       WorldInv, RunInv, CleanupInv
  <2>8. CleanupInv'
    BY <1>a, <1>8 DEF AfterHandoff, own, world, books, gate, MainType, OwnType, PhaseInv,
       WorldInv, RunInv, CleanupInv
  <2> QED
    BY <2>1, <2>2, <2>3, <2>4, <2>5, <2>6, <2>7, <2>8 DEF CtlInv
<1> QED
  BY <1>1, <1>2, <1>3, <1>4, <1>5, <1>6, <1>7, <1>8 DEF AtTheEnd

\* The other threads, the processes and the host keep it too: they only end
\* what exists, fork from a live root, publish an exit, or raise a flag.
LEMMA OthersStep == CtlInv /\ Others => CtlInv'
<1> SUFFICES ASSUME CtlInv, Others PROVE CtlInv'
  OBVIOUS
<1> USE SupervisorAssumption DEF CtlInv, MainType, OwnType, WorldType, BooksType, GateType,
      PhaseInv, CommitInv, WorldInv, RunInv, CleanupInv, Running, Stopping, CleanupPcs,
      CleanupOrFailed, RunPcs, SettledPcs, RunRets, None, Gens
<1>1. ASSUME NEW g \in Gens, ChildExit(g) PROVE CtlInv'
  BY <1>1 DEF ChildExit, main, own, books, gate
<1>2. ASSUME NEW g \in Gens, Fork(g) PROVE CtlInv'
  BY <1>2 DEF Fork, main, own, books, gate
<1>3. ASSUME NEW g \in Gens, DescendantsExit(g) PROVE CtlInv'
  BY <1>3 DEF DescendantsExit, main, own, books, gate
<1>4. ASSUME NEW g \in Gens, WatcherPublish(g) PROVE CtlInv'
  BY <1>4 DEF WatcherPublish, main, own, books, gate
<1>5. ASSUME NEW g \in Gens, WatcherEnd(g) PROVE CtlInv'
  BY <1>5 DEF WatcherEnd, main, own, books, gate
<1>6. ASSUME NEW g \in Gens, ReaderEnd(g) PROVE CtlInv'
  BY <1>6 DEF ReaderEnd, main, own, books, gate
<1>7. ASSUME NEW g \in Gens, TaskEnd(g) PROVE CtlInv'
  BY <1>7 DEF TaskEnd, main, own, books, gate
<1>8. CASE HandlePause
  BY <1>8 DEF HandlePause, Listening, main, world, books, gate
<1>9. CASE RequestStop
  BY <1>9 DEF RequestStop, main, own, world, books, gate
<1>10. CASE Release
  BY <1>10 DEF Release, main, own, world, books
<1> QED
  BY <1>1, <1>2, <1>3, <1>4, <1>5, <1>6, <1>7, <1>8, <1>9, <1>10 DEF Others

\* Every step, stuttering included.
LEMMA CtlStep == CtlInv /\ [Next]_vars => CtlInv'
<1>1. CtlInv /\ UNCHANGED vars => CtlInv'
  BY DEF vars, main, own, world, books, gate, CtlInv, MainType, OwnType, WorldType, BooksType,
     GateType,
         PhaseInv, CommitInv, WorldInv, RunInv, CleanupInv, Running, Stopping
<1> QED
  BY <1>1, GenerationsStep, CleanupStep, StopStep, OthersStep
  DEF Next, Main, InGenerations, InCleanup, AtTheEnd

\* Supervisor::new: nothing is held, nothing has started.
LEMMA CtlInit == Init => CtlInv
<1> SUFFICES ASSUME Init PROVE CtlInv
  OBVIOUS
<1> USE DEF Init, None, CleanupPcs, CleanupOrFailed, RunPcs, SettledPcs, RunRets
<1>b. /\ failure \in BOOLEAN /\ stop \in BOOLEAN /\ paused \in BOOLEAN /\ recorded \in BOOLEAN
      /\ first \in BOOLEAN /\ job \in BOOLEAN /\ watching \in BOOLEAN /\ handle \in BOOLEAN
      /\ reading \in BOOLEAN /\ stopped \in BOOLEAN
  BY Zenon
<1>g. GateType
  BY Zenon DEF GateType
<1>1. MainType
  BY <1>b DEF MainType
<1>2. OwnType /\ WorldType
  BY <1>b, SupervisorAssumption DEF OwnType, WorldType
<1>3. BooksType
  BY <1>b DEF BooksType, EventSet
<1>4. PhaseInv /\ CommitInv
  BY DEF PhaseInv, CommitInv, Running, Stopping
<1>5. WorldInv
  BY DEF WorldInv
<1>6. RunInv /\ CleanupInv
  BY DEF RunInv, CleanupInv, Running
<1> QED
  BY <1>g, <1>1, <1>2, <1>3, <1>4, <1>5, <1>6 DEF CtlInv

\* The state the supervisor decides from is consistent throughout.
LEMMA CtlInvariant == Spec => []CtlInv
  BY CtlInit, CtlStep, PTL DEF Spec

-----------------------------------------------------------------------------
(* What follows from it                                                    *)

\* Every variable keeps its type, and self.generation is the generation
\* numbered last or none.
THEOREM TypeCorrectness == Spec => []TypeOK
<1>1. CtlInv => TypeOK
  BY DEF CtlInv, TypeOK, EventSet, MainType, OwnType, WorldType, BooksType, GateType, RunPcs, CleanupOrFailed,
         CleanupPcs, SettledPcs, RunRets, None
<1> QED
  BY <1>1, CtlInvariant, PTL

\* RT-08: whatever failed or timed out in a cleanup, a generation's root never
\* runs beside a process, watcher, reader or worker of another generation.
THEOREM OneGenerationAtATime == Spec => []GenerationIsolation
<1>1. CtlInv => GenerationIsolation
  BY DEF CtlInv, WorldInv, GenerationIsolation
<1> QED
  BY <1>1, CtlInvariant, PTL

\* A Stop the host committed by releasing the terminal gate is carried out,
\* unless the hand-off deadline passed before the release.
THEOREM StopHonoured == Spec => []CommittedStopHonoured
<1>1. CtlInv => CommittedStopHonoured
  BY DEF CtlInv, PhaseInv, CommitInv, CommittedStopHonoured, SettledPcs
<1> QED
  BY <1>1, CtlInvariant, PTL

\* run() returns without an error only when its readers and workers have ended,
\* and its processes too unless a Stop took over a tree that was given up.
THEOREM EndIsClean == Spec => []CleanEnd
<1>1. CtlInv => CleanEnd
  BY DEF CtlInv, WorldInv, CleanupInv, CleanEnd, SettledPcs
<1> QED
  BY <1>1, CtlInvariant, PTL

-----------------------------------------------------------------------------
(* run() implements SupervisorContract                                     *)

\* Where the host sees run(), location by location.
LifeInv ==
    /\ Running \/ (pc = "cleanupFailed" /\ ret \in RunRets) => Life = "running"
    /\ \/ pc \in {"left", "tail", "offer"} \/ (pc \in CleanupOrFailed /\ ret = "tail")
       \/ Stopping /\ stage # 3
       => Life = "leaving"
    /\ pc = "handoff" => Life = "offered"
    /\ pc = "commit" \/ (Stopping /\ stage = 3) => Life = "committing"
    /\ pc = "ended" => Life = "ended"

\* The mapping agrees with the locations wherever the invariant holds.
LEMMA LifeOfPc == CtlInv => LifeInv
<1> SUFFICES ASSUME CtlInv PROVE LifeInv
  OBVIOUS
<1> USE DEF CleanupPcs, CleanupOrFailed, RunPcs, SettledPcs, RunRets
<1>1. Running \/ (pc = "cleanupFailed" /\ ret \in RunRets) => stage # 3
  BY DEF CtlInv, PhaseInv
<1>2. Running \/ (pc = "cleanupFailed" /\ ret \in RunRets) => Life = "running"
  BY <1>1 DEF Life, Running
<1>3. pc \in {"left", "tail", "offer"} \/ (pc \in CleanupOrFailed /\ ret = "tail") => stage # 3
  BY DEF CtlInv, PhaseInv
<1>4. pc \in {"left", "tail", "offer"} \/ (pc \in CleanupOrFailed /\ ret = "tail") => Life = "leaving"
  BY <1>3 DEF Life
<1>5. Stopping /\ stage # 3 => Life = "leaving"
  BY DEF Life, Stopping
<1>6. /\ pc = "handoff" => Life = "offered"
      /\ pc = "ended" => Life = "ended"
  BY DEF Life
<1>7. pc = "commit" \/ (Stopping /\ stage = 3) => Life = "committing"
  BY DEF Life, Stopping
<1> QED
  BY <1>2, <1>4, <1>5, <1>6, <1>7 DEF LifeInv

\* Every step of run(), its helpers and the host is a step of the contract or
\* leaves what the host sees unchanged.
LEMMA ContractStep ==
    CtlInv /\ CtlInv' /\ [Next]_vars => [Contract!Next]_(Contract!vars)
<1> SUFFICES ASSUME CtlInv, CtlInv', [Next]_vars
             PROVE [Contract!Next]_(Contract!vars)
  OBVIOUS
<1>i. LifeInv /\ LifeInv'
  BY LifeOfPc, PTL
<1> USE <1>i DEF CtlInv, MainType, BooksType, PhaseInv, LifeInv, Running, Stopping, CleanupPcs,
      CleanupOrFailed, RunPcs, SettledPcs, RunRets, None, Contract!vars, Contract!None
<1>1. CASE HandleError
  BY <1>1 DEF HandleError, Listening, Leave, Goto, gate, Contract!Leave, Contract!Next
<1>2. CASE SleepOrStop
  BY <1>2 DEF SleepOrStop, MayStart, Leave, Goto, world, gate, Contract!Leave, Contract!Next
<1>3. CASE Prepare
  BY <1>3 DEF Prepare, Cleanup, Leave, Goto, world, gate, Contract!Leave, Contract!Next
<1>4. CASE OpenOutputs
  BY <1>4 DEF OpenOutputs, Cleanup, Leave, Goto, gate, Contract!Leave, Contract!Next
<1>5. CASE SpawnChild
  BY <1>5 DEF SpawnChild, Cleanup, Leave, Goto, own, world, gate, Contract!Leave, Contract!Next
<1>6. CASE ResumeChild
  BY <1>6 DEF ResumeChild, Cleanup, Goto, books, gate
<1>7. CASE RecordStart
  BY <1>7 DEF RecordStart, Cleanup, Goto, gate
<1>8. CASE StartPost
  BY <1>8 DEF StartPost, Leave, Goto, world, gate, Contract!Leave, Contract!ConfirmStartup,
     Contract!Next
<1>9. CASE Watch
  BY <1>9 DEF Watch, Leave, Goto, ExitActions, own, world, gate, Contract!Leave, Contract!Next
<1>10. CASE StartFailed
  BY <1>10 DEF StartFailed, Leave, Goto, own, world, gate, Contract!Leave, Contract!Next
<1>11. CASE ApplyExitAction
  BY <1>11 DEF ApplyExitAction, Leave, Goto, own, world, gate, Contract!Leave,
     Contract!ConfirmStartup, Contract!Next
<1>12. CASE Quiesced
  BY <1>12 DEF Quiesced, Leave, Goto, own, world, gate, Contract!Leave, Contract!Next
<1>13. CASE Reap
  BY <1>13 DEF Reap, CleanupFails, Goto, books
<1>14. CASE JoinTasks
  BY <1>14 DEF JoinTasks, WorkerDone, CleanupFails, Goto, world, books, gate
<1>15. CASE AwaitExit
  BY <1>15 DEF AwaitExit, CleanupFails, Goto, own, books, gate
<1>16. CASE JoinWatcher
  BY <1>16 DEF JoinWatcher, CleanupFails, Goto, world, books, gate
<1>17. CASE Drain
  BY <1>17 DEF Drain, ReadersDone, CleanupFails, Goto, books, gate
<1>18. CASE RecordExit
  BY <1>18 DEF RecordExit, ExitUnrecorded, DropGeneration, CleanupFails, Goto, world, gate
<1>19. CASE CleanupFailed
  BY <1>19 DEF CleanupFailed, Leave, Goto, own, world, gate, Contract!Leave, Contract!Next
<1>20. CASE AfterGenerations
  BY <1>20 DEF AfterGenerations, Cleanup, own, world, books, gate
<1>21. CASE StopPre
  BY <1>21 DEF StopPre, Goto, own, world, gate
<1>22. CASE StopGracefully
  BY <1>22 DEF StopGracefully, Cleanup, gate, Contract!Restore, Contract!Next
<1>23. CASE StopDone
  <2>1. CASE stage = 3
    BY <1>23, <2>1 DEF StopDone, own, gate, Contract!FinishStop, Contract!Next
  <2>2. CASE stage # 3
    <3>1. pc' \in {"tail", "offer"} /\ pc = "stopDone" /\ stop /\ ~stopped /\ stopped' = TRUE
      BY <1>23, <2>2 DEF StopDone
    <3>2. Life = "leaving" /\ Life' = "leaving"
      BY <2>2, <3>1
    <3>3. UNCHANGED <<stop, paused, startup, released, expired>>
      BY <1>23 DEF StopDone, own, gate
    <3>4. Contract!FinishStop
      BY ONLY <3>1, <3>2, <3>3 DEF Contract!FinishStop
    <3> QED
      BY ONLY <3>4 DEF Contract!Next
  <2> QED
    BY <2>1, <2>2
<1>24. CASE AfterCleanup
  BY <1>24 DEF AfterCleanup, Goto, own, world, books, gate
<1>25. CASE OfferTerminal
  BY <1>25 DEF OfferTerminal, Goto, own, world, books, Contract!Offer, Contract!Next
<1>26. CASE AwaitRelease
  BY <1>26 DEF AwaitRelease, Goto, own, world, books, Contract!Await, Contract!Next
<1>27. CASE AfterHandoff
  BY <1>27 DEF AfterHandoff, Goto, own, world, books, gate, Contract!End, Contract!Next,
     Contract!Reasons
<1>28. ASSUME NEW g \in Gens,
              \/ ChildExit(g) \/ Fork(g) \/ DescendantsExit(g) \/ WatcherPublish(g)
              \/ WatcherEnd(g) \/ ReaderEnd(g) \/ TaskEnd(g)
       PROVE UNCHANGED Contract!vars
  BY <1>28 DEF ChildExit, Fork, DescendantsExit, WatcherPublish, WatcherEnd, ReaderEnd, TaskEnd,
     main, own, books, gate, Life
<1>29. CASE HandlePause
  BY <1>29 DEF HandlePause, Listening, main, books, gate, Contract!Toggle, Contract!Next
<1>30. CASE RequestStop
  BY ONLY <1>30 DEF RequestStop, Contract!vars, main, own, books, gate, Life, Contract!RequestStop, Contract!Next
<1>31. CASE Release
  BY ONLY <1>31 DEF Release, Contract!vars, main, own, books, Life, Contract!Release, Contract!Next
<1>32. CASE UNCHANGED vars
  BY <1>32 DEF vars, main, own, books, gate, Life
<1> QED
  BY ONLY [Next]_vars, <1>1, <1>2, <1>3, <1>4, <1>5, <1>6, <1>7, <1>8, <1>9, <1>10, <1>11,
     <1>12, <1>13, <1>14, <1>15, <1>16, <1>17, <1>18, <1>19, <1>20, <1>21, <1>22, <1>23,
     <1>24, <1>25, <1>26, <1>27, <1>28, <1>29, <1>30, <1>31, <1>32
     DEF Next, Main, Others

\* The supervisor keeps the promise the service host is built on: it implements
\* SupervisorContract, for any number of generations.
THEOREM RunImplementsContract == Spec => ImplementsContract
<1>1. Init => Contract!Init
  BY DEF Init, Contract!Init, Life, None, Contract!None
<1>2. CtlInv /\ CtlInv' /\ [Next]_vars => [Contract!Next]_(Contract!vars)
  BY ContractStep
<1> QED
  BY <1>1, <1>2, CtlInvariant, PTL DEF Spec, ImplementsContract, Contract!Spec

-----------------------------------------------------------------------------
(* The event log                                                           *)

\* What appending to the log does to its positions.
LEMMA AppendedLog ==
    ASSUME NEW e \in EventSet, events \in Seq(EventSet), events' = Append(events, e)
    PROVE  /\ Len(events) \in Nat /\ Len(events') = Len(events) + 1
           /\ DOMAIN events = 1..Len(events) /\ DOMAIN events' = 1..(Len(events) + 1)
           /\ \A i \in 1..Len(events) : events'[i] = events[i] /\ events[i] \in EventSet
           /\ events'[Len(events) + 1] = e
  OBVIOUS

FreshPcs == {"prepare", "open", "spawn", "resume", "record"}

\* A step that neither writes the log nor takes, numbers or drops a generation.
Quiet ==
    /\ UNCHANGED <<events, gen, recorded, nextGen, stopped>>
    /\ pc' \in FreshPcs => pc \in FreshPcs
    /\ pc = "record" => pc' = "record"

\* EventsWellFormed, of any log.
WellFormedLog(log) ==
    \A i \in DOMAIN log :
      /\ log[i][1] \in {"Started", "Restarted"} =>
           \A j \in 1..(i - 1) : log[j][1] \in {"Started", "Restarted"} =>
             \E k \in (j + 1)..(i - 1) : log[k] = <<"ChildExited", log[j][2]>>
      /\ log[i][1] = "ChildExited" =>
           /\ \E j \in 1..(i - 1) : log[j][1] \in {"Started", "Restarted"} /\ log[j][2] = log[i][2]
           /\ \A j \in 1..(i - 1) : log[j] # log[i]
      /\ log[i][1] = "Stopped" => i = Len(log)

\* A step that does not write the log keeps it well formed.
LEMMA SameLog == ASSUME EventsWellFormed, events' = events PROVE EventsWellFormed'
<1>1. WellFormedLog(events)
  BY DEF EventsWellFormed, StartIn, WellFormedLog
<1>2. WellFormedLog(events')
  BY <1>1
<1> QED
  BY ONLY <1>2 DEF EventsWellFormed, StartIn, WellFormedLog

\* A quiet step keeps the log consistent with the generation held.
LEMMA QuietKeeps == EventInv /\ EventsWellFormed /\ Quiet => EventInv' /\ EventsWellFormed'
<1> SUFFICES ASSUME EventInv, EventsWellFormed, Quiet PROVE EventInv' /\ EventsWellFormed'
  OBVIOUS
<1>1. events' = events /\ gen' = gen /\ recorded' = recorded /\ nextGen' = nextGen /\ stopped' = stopped
  BY DEF Quiet
<1>2. EventsWellFormed'
  BY <1>1, SameLog
<1>3. LogGens'
  BY <1>1 DEF Quiet, FreshPcs, EventInv, LogGens
<1>4. LogStarts'
  BY <1>1 DEF EventInv, LogStarts, StartIn, Closed
<1>5. LogHeld'
  BY <1>1 DEF Quiet, EventInv, LogHeld, StartIn
<1>6. LogExit' /\ LogStopped'
  BY <1>1 DEF EventInv, LogExit, LogStopped
<1> QED
  BY <1>2, <1>3, <1>4, <1>5, <1>6 DEF EventInv

\* An event that may follow keeps the log well formed: a start after closed
\* ones only, an exit after its start and once, anything before Stopped.
LEMMA WellFormedAppend ==
    ASSUME NEW e \in EventSet, events \in Seq(EventSet), events' = Append(events, e),
           EventsWellFormed,
           \A j \in DOMAIN events : events[j][1] # "Stopped",
           e[1] \in {"Started", "Restarted"} => \A j \in DOMAIN events : StartIn(j) => Closed(j),
           e[1] = "ChildExited" => /\ \E j \in DOMAIN events : StartIn(j) /\ events[j][2] = e[2]
                                   /\ \A j \in DOMAIN events : events[j] # e
    PROVE  EventsWellFormed'
<1> DEFINE n == Len(events) + 1
<1>1. /\ Len(events) \in Nat /\ Len(events') = n /\ DOMAIN events = 1..Len(events)
      /\ DOMAIN events' = 1..n /\ events'[n] = e
      /\ \A i \in 1..Len(events) : events'[i] = events[i]
  BY AppendedLog
<1> SUFFICES ASSUME NEW i \in 1..n
      PROVE /\ StartIn(i)' =>
                 \A j \in 1..(i - 1) : StartIn(j)' =>
                   \E k \in (j + 1)..(i - 1) : events'[k] = <<"ChildExited", events'[j][2]>>
            /\ events'[i][1] = "ChildExited" =>
                 /\ \E j \in 1..(i - 1) : StartIn(j)' /\ events'[j][2] = events'[i][2]
                 /\ \A j \in 1..(i - 1) : events'[j] # events'[i]
            /\ events'[i][1] = "Stopped" => i = n
  BY <1>1 DEF EventsWellFormed
<1>2. CASE i = n
  <2>1. StartIn(i)' =>
          \A j \in 1..(i - 1) : StartIn(j)' =>
            \E k \in (j + 1)..(i - 1) : events'[k] = <<"ChildExited", events'[j][2]>>
    <3> SUFFICES ASSUME StartIn(i)', NEW j \in 1..(i - 1), StartIn(j)'
                 PROVE \E k \in (j + 1)..(i - 1) : events'[k] = <<"ChildExited", events'[j][2]>>
      OBVIOUS
    <3>1. j \in DOMAIN events /\ events'[j] = events[j] /\ e[1] \in {"Started", "Restarted"}
      BY <1>1, <1>2 DEF StartIn
    <3>2. PICK k \in DOMAIN events : k > j /\ events[k] = <<"ChildExited", events[j][2]>>
      BY <3>1 DEF StartIn, Closed
    <3>3. k \in (j + 1)..(i - 1) /\ events'[k] = events[k]
      BY <1>1, <1>2, <3>2
    <3> QED
      BY <3>1, <3>2, <3>3
  <2>2. events'[i][1] = "ChildExited" =>
                 /\ \E j \in 1..(i - 1) : StartIn(j)' /\ events'[j][2] = events'[i][2]
                 /\ \A j \in 1..(i - 1) : events'[j] # events'[i]
    BY <1>1, <1>2 DEF StartIn
  <2> QED
    BY <2>1, <2>2, <1>2
<1>3. CASE i \in 1..Len(events)
  <2>1. StartIn(i) => \A j \in 1..(i - 1) : StartIn(j) =>
             \E k \in (j + 1)..(i - 1) : events[k] = <<"ChildExited", events[j][2]>>
    BY <1>1, <1>3 DEF EventsWellFormed
  <2>2. events[i][1] = "ChildExited" =>
           /\ \E j \in 1..(i - 1) : StartIn(j) /\ events[j][2] = events[i][2]
           /\ \A j \in 1..(i - 1) : events[j] # events[i]
    BY <1>1, <1>3 DEF EventsWellFormed
  <2>3. \A j \in 1..(i - 1) : events'[j] = events[j]
    BY <1>1, <1>3
  <2>4. events'[i] = events[i] /\ events[i][1] # "Stopped"
    BY <1>1, <1>3
  <2> HIDE DEF n
  <2>5. StartIn(i)' =>
          \A j \in 1..(i - 1) : StartIn(j)' =>
            \E k \in (j + 1)..(i - 1) : events'[k] = <<"ChildExited", events'[j][2]>>
    <3> SUFFICES ASSUME StartIn(i)', NEW j \in 1..(i - 1), StartIn(j)'
                 PROVE \E k \in (j + 1)..(i - 1) : events'[k] = <<"ChildExited", events'[j][2]>>
      OBVIOUS
    <3>1. StartIn(i) /\ StartIn(j)
      BY <2>3, <2>4 DEF StartIn
    <3>2. PICK k \in (j + 1)..(i - 1) : events[k] = <<"ChildExited", events[j][2]>>
      BY <2>1, <3>1
    <3>3. k \in 1..(i - 1)
      BY <1>1, <1>3
    <3> QED
      BY <3>2, <3>3, <2>3
  <2>6. events'[i][1] = "ChildExited" =>
                 /\ \E j \in 1..(i - 1) : StartIn(j)' /\ events'[j][2] = events'[i][2]
                 /\ \A j \in 1..(i - 1) : events'[j] # events'[i]
    BY <2>2, <2>3, <2>4 DEF StartIn
  <2> QED
    BY <2>4, <2>5, <2>6
<1>4. i = n \/ i \in 1..Len(events)
  BY <1>1
<1> QED
  BY <1>2, <1>3, <1>4

\* Every step but the five that concern the log is quiet.
LEMMA MostAreQuiet ==
    CtlInv /\ [Next]_vars => \/ SleepOrStop \/ ResumeChild \/ RecordStart \/ RecordExit \/ StopDone
                             \/ Quiet
<1> SUFFICES ASSUME CtlInv, [Next]_vars,
                    ~(SleepOrStop \/ ResumeChild \/ RecordStart \/ RecordExit \/ StopDone)
             PROVE Quiet
  OBVIOUS
<1> USE DEF Quiet, FreshPcs, Leave, Goto, Cleanup, CleanupFails, main, own, world, books, gate
<1>1. CASE HandleError \/ Prepare \/ OpenOutputs \/ SpawnChild
  BY <1>1 DEF HandleError, Listening, Prepare, OpenOutputs, SpawnChild
<1>2. CASE StartPost \/ Watch \/ StartFailed \/ ApplyExitAction \/ Quiesced
  BY <1>2 DEF StartPost, Watch, StartFailed, ApplyExitAction, Quiesced
<1>3. CASE Reap \/ JoinTasks \/ AwaitExit \/ JoinWatcher \/ Drain
  BY <1>3 DEF Reap, JoinTasks, AwaitExit, JoinWatcher, Drain
<1>4. CASE CleanupFailed \/ AfterGenerations \/ StopPre \/ StopGracefully
  BY <1>4 DEF CleanupFailed, AfterGenerations, StopPre, StopGracefully
<1>5. CASE AfterCleanup \/ OfferTerminal \/ AwaitRelease \/ AfterHandoff
  BY <1>5 DEF AfterCleanup, OfferTerminal, AwaitRelease, AfterHandoff
<1>6. ASSUME NEW g \in Gens,
             \/ ChildExit(g) \/ Fork(g) \/ DescendantsExit(g) \/ WatcherPublish(g)
             \/ WatcherEnd(g) \/ ReaderEnd(g) \/ TaskEnd(g)
      PROVE Quiet
  BY <1>6 DEF ChildExit, Fork, DescendantsExit, WatcherPublish, WatcherEnd, ReaderEnd, TaskEnd
<1>7. CASE HandlePause \/ RequestStop \/ Release \/ UNCHANGED vars
  BY <1>7 DEF HandlePause, RequestStop, Release, vars
<1> QED
  BY <1>1, <1>2, <1>3, <1>4, <1>5, <1>6, <1>7 DEF Next, Main, Others

\* The log stays well formed, and consistent with the generation held.
LEMMA EventStep == IInv /\ CtlInv' /\ [Next]_vars => EventInv' /\ EventsWellFormed'
<1> SUFFICES ASSUME IInv, CtlInv', [Next]_vars PROVE EventInv' /\ EventsWellFormed'
  OBVIOUS
<1>t. events \in Seq(EventSet) /\ nextGen \in 0..MaxGen /\ gen \in {0, nextGen}
  BY DEF IInv, CtlInv, BooksType, OwnType
<1>m. MaxGen \in Nat \ {0}
  BY SupervisorAssumption
<1>1. CASE Quiet
  BY <1>1, QuietKeeps DEF IInv
<1>2. CASE SleepOrStop
  <2>1. gen = 0 /\ UNCHANGED <<events, gen, recorded, stopped>> /\ pc' # "record"
    BY <1>2 DEF SleepOrStop, Leave, Goto, IInv, CtlInv, RunInv
  <2>2. nextGen' = nextGen \/ nextGen' = nextGen + 1
    BY <1>2 DEF SleepOrStop
  <2>3. pc' \in FreshPcs => nextGen' = nextGen + 1
    BY <1>2 DEF SleepOrStop, Leave, Goto, FreshPcs
  <2>4. \A i \in DOMAIN events : events[i][2] \in Nat
    BY <1>t, <1>m DEF EventSet
  <2>5. EventInv'
    BY <2>1, <2>2, <2>3, <2>4, <1>t
       DEF IInv, EventInv, LogGens, LogStarts, LogHeld, LogExit, LogStopped, StartIn, Closed, FreshPcs
  <2>6. EventsWellFormed'
    BY <2>1, SameLog DEF IInv
  <2> QED
    BY <2>5, <2>6
<1>3. CASE ResumeChild
  <2>1. CASE gen' = gen
    <3>1. Quiet
      BY <1>3, <2>1 DEF ResumeChild, Quiet, Goto, Cleanup, FreshPcs, books, IInv, CtlInv,
         RunInv, Running, RunPcs
    <3> QED
      BY <3>1, QuietKeeps DEF IInv
  <2>2. CASE gen' # gen
    <3>1. pc = "resume" /\ pc' = "record" /\ gen = 0 /\ gen' = nextGen /\ ~recorded'
          /\ UNCHANGED <<events, nextGen, stopped>>
      BY <1>3, <2>2 DEF ResumeChild, Goto, Cleanup, books, IInv, CtlInv, RunInv
    <3>2. \A i \in DOMAIN events : events[i][2] \in Nat
      BY <1>t, <1>m DEF EventSet
    <3>3. \A i \in DOMAIN events : events[i] # <<"ChildExited", nextGen>>
      BY <3>1, <3>2, <1>t DEF IInv, EventInv, LogGens
    <3>4. EventInv'
      BY <3>1, <3>3 DEF IInv, EventInv, LogGens, LogStarts, LogHeld, LogExit, LogStopped,
         StartIn, Closed
    <3>5. EventsWellFormed'
      BY <3>1, SameLog DEF IInv
    <3> QED
      BY <3>4, <3>5
  <2> QED
    BY <2>1, <2>2
<1> DEFINE n == Len(events) + 1
<1>4. CASE RecordStart
  <2> DEFINE e == <<IF first THEN "Started" ELSE "Restarted", gen>>
  <2>1. e \in EventSet /\ events' = Append(events, e)
    BY <1>4, <1>t, <1>m DEF RecordStart, EventSet
  <2>2. e[1] \in {"Started", "Restarted"} /\ e[2] = gen /\ e[1] \notin {"ChildExited", "Stopped"}
    OBVIOUS
  <2>3. pc = "record" /\ gen = nextGen /\ gen # 0 /\ ~recorded /\ ~stopped
        /\ UNCHANGED <<gen, recorded, nextGen, stopped>> /\ pc' \notin FreshPcs
    BY <1>4 DEF RecordStart, Goto, Cleanup, FreshPcs, IInv, CtlInv, RunInv, PhaseInv, Running,
       RunPcs
  <2> HIDE DEF e
  <2>4. /\ Len(events) \in Nat /\ Len(events') = n /\ DOMAIN events = 1..Len(events)
        /\ DOMAIN events' = 1..n /\ events'[n] = e
        /\ \A i \in 1..Len(events) : events'[i] = events[i] /\ events[i] \in EventSet
    BY <2>1, <1>t, AppendedLog
  <2>5. \A i \in 1..Len(events) : events[i][2] < gen /\ events[i][2] \in Nat /\ events[i][1] # "Stopped"
    BY <2>3, <2>4, <1>m DEF IInv, EventInv, LogGens, LogStopped, EventSet
  <2>6. \A i \in 1..Len(events) : StartIn(i) => Closed(i)
    BY <2>3, <2>4, <2>5, <1>t DEF IInv, EventInv, LogStarts
  <2>7. EventsWellFormed'
    BY <2>1, <2>2, <2>4, <2>5, <2>6, <1>t, WellFormedAppend DEF IInv
  <2>8. LogGens'
    BY <2>2, <2>3, <2>4, <2>5, <1>t DEF LogGens, FreshPcs
  <2>9. LogStarts'
    <3> SUFFICES ASSUME NEW j \in 1..Len(events), StartIn(j)' PROVE Closed(j)'
      BY <2>2, <2>3, <2>4 DEF LogStarts
    <3>1. PICK k \in DOMAIN events : k > j /\ events[k] = <<"ChildExited", events[j][2]>>
      BY <2>4, <2>6 DEF StartIn, Closed
    <3> QED
      BY <3>1, <2>4 DEF Closed
  <2>10. LogHeld'
    BY <2>2, <2>3, <2>4 DEF LogHeld, StartIn
  <2>11. LogExit' /\ LogStopped'
    BY <2>2, <2>3, <2>4, <2>5 DEF LogExit, LogStopped
  <2> QED
    BY <2>7, <2>8, <2>9, <2>10, <2>11 DEF EventInv
<1>5. CASE RecordExit
  <2> DEFINE e == <<"ChildExited", gen>>
  <2>1. /\ pc = "recordExit" /\ ~stopped /\ pc' \notin FreshPcs
        /\ gen = 0 \/ gen \in published
        /\ UNCHANGED <<nextGen, stopped>>
    BY <1>5 DEF RecordExit, CleanupFails, Goto, FreshPcs, IInv, CtlInv, MainType, PhaseInv,
       CleanupInv,
                Running, Stopping, CleanupOrFailed, CleanupPcs, RunRets, None
  <2>2. /\ gen' # 0 => gen' = gen /\ (recorded' <=> (recorded \/ gen \in published))
    BY <1>5 DEF RecordExit, DropGeneration
  <2>3. gen' # 0 => recorded'
    BY <2>1, <2>2
  <2>4. \A i \in DOMAIN events : events[i][1] # "Stopped"
    BY <2>1 DEF IInv, EventInv, LogStopped
  <2>5. CASE ExitUnrecorded
    <3>1. e \in EventSet /\ events' = Append(events, e) /\ gen # 0 /\ ~recorded
      BY <1>5, <2>5, <1>t, <1>m DEF RecordExit, ExitUnrecorded, EventSet
    <3>2. e[1] = "ChildExited" /\ e[2] = gen
      OBVIOUS
    <3> HIDE DEF e
    <3>3. /\ Len(events) \in Nat /\ Len(events') = n /\ DOMAIN events = 1..Len(events)
          /\ DOMAIN events' = 1..n /\ events'[n] = e
          /\ \A i \in 1..Len(events) : events'[i] = events[i] /\ events[i] \in EventSet
      BY <3>1, <1>t, AppendedLog
    <3>4. /\ \E j \in DOMAIN events : StartIn(j) /\ events[j][2] = e[2]
          /\ \A j \in DOMAIN events : events[j] # e
      BY <2>1, <3>1, <3>2 DEF IInv, EventInv, LogHeld, LogExit, e
    <3>5. EventsWellFormed'
      BY <3>1, <3>2, <3>4, <2>4, <1>t, WellFormedAppend DEF IInv
    <3>6. LogGens'
      BY <2>1, <3>2, <3>3, <1>t DEF LogGens, FreshPcs, IInv, EventInv
    <3>7. LogStarts'
      <4> SUFFICES ASSUME NEW j \in 1..Len(events), StartIn(j)' PROVE Closed(j)'
        BY <3>2, <3>3 DEF LogStarts, StartIn
      <4>1. StartIn(j) /\ events'[j] = events[j]
        BY <3>3 DEF StartIn
      <4>2. CASE Closed(j)
        <5>1. PICK k \in DOMAIN events : k > j /\ events[k] = <<"ChildExited", events[j][2]>>
          BY <4>2 DEF Closed
        <5> QED
          BY <5>1, <4>1, <3>3 DEF Closed
      <4>3. CASE events[j][2] = gen
        BY <4>1, <4>3, <3>3 DEF Closed, e
      <4> QED
        BY <4>1, <4>2, <4>3, <3>3 DEF IInv, EventInv, LogStarts
    <3>8. LogHeld'
      BY <2>1, <2>2, <3>2, <3>3, <3>4 DEF LogHeld, StartIn
    <3>9. LogExit' /\ LogStopped'
      BY <2>3, <2>4, <3>2, <3>3 DEF LogExit, LogStopped
    <3> QED
      BY <3>5, <3>6, <3>7, <3>8, <3>9 DEF EventInv
  <2>6. CASE ~ExitUnrecorded
    <3>1. events' = events /\ (gen = 0 \/ recorded)
      BY <1>5, <2>1, <2>6 DEF RecordExit, ExitUnrecorded
    <3>2. EventsWellFormed'
      BY <3>1, SameLog DEF IInv
    <3>3. LogGens' /\ LogStopped'
      BY <2>1, <3>1 DEF IInv, EventInv, LogGens, LogStopped, FreshPcs
    <3>4. LogStarts'
      BY <3>1 DEF IInv, EventInv, LogStarts, StartIn, Closed
    <3>5. LogHeld' /\ LogExit'
      BY <2>1, <2>2, <2>3, <3>1 DEF IInv, EventInv, LogHeld, LogExit, StartIn
    <3> QED
      BY <3>2, <3>3, <3>4, <3>5 DEF EventInv
  <2> QED
    BY <2>5, <2>6
<1>6. CASE StopDone
  <2> DEFINE e == <<"Stopped", 0>>
  <2>1. /\ pc = "stopDone" /\ ~stopped /\ stopped' /\ pc' \notin FreshPcs
        /\ events' = Append(events, e)
        /\ UNCHANGED <<gen, recorded, nextGen>>
    BY <1>6 DEF StopDone, own, FreshPcs, IInv, CtlInv, PhaseInv, Stopping
  <2>2. e \in EventSet /\ e[1] = "Stopped" /\ e[2] = 0
    BY <1>m DEF EventSet
  <2> HIDE DEF e
  <2>3. /\ Len(events) \in Nat /\ Len(events') = n /\ DOMAIN events = 1..Len(events)
        /\ DOMAIN events' = 1..n /\ events'[n] = e
        /\ \A i \in 1..Len(events) : events'[i] = events[i] /\ events[i] \in EventSet
    BY <2>1, <2>2, <1>t, AppendedLog
  <2>4. \A i \in DOMAIN events : events[i][1] # "Stopped"
    BY <2>1 DEF IInv, EventInv, LogStopped
  <2>5. EventsWellFormed'
    BY <2>1, <2>2, <2>4, <1>t, WellFormedAppend DEF IInv
  <2>6. LogGens'
    BY <2>1, <2>2, <2>3, <1>t DEF LogGens, FreshPcs, IInv, EventInv
  <2>7. LogStarts'
    <3> SUFFICES ASSUME NEW j \in 1..Len(events), StartIn(j)'
                 PROVE Closed(j)' \/ (gen # 0 /\ ~recorded /\ events'[j][2] = gen)
      BY <2>1, <2>2, <2>3 DEF LogStarts, StartIn
    <3>1. StartIn(j) /\ events'[j] = events[j]
      BY <2>3 DEF StartIn
    <3>2. CASE Closed(j)
      <4>1. PICK k \in DOMAIN events : k > j /\ events[k] = <<"ChildExited", events[j][2]>>
        BY <3>2 DEF Closed
      <4> QED
        BY <4>1, <3>1, <2>3 DEF Closed
    <3> QED
      BY <3>1, <3>2, <2>3 DEF IInv, EventInv, LogStarts
  <2>8. LogHeld'
    BY <2>1, <2>3 DEF LogHeld, StartIn, IInv, EventInv
  <2>9. LogExit' /\ LogStopped'
    BY <2>1, <2>2, <2>3, <2>4 DEF LogExit, LogStopped, IInv, EventInv
  <2> QED
    BY <2>5, <2>6, <2>7, <2>8, <2>9 DEF EventInv
<1> QED
  BY <1>1, <1>2, <1>3, <1>4, <1>5, <1>6, MostAreQuiet DEF IInv

\* RT-01: each recorded start is matched by one ChildExited before the next,
\* each ChildExited follows its start, and Stopped is recorded once and last.
THEOREM EventLogWellFormed == Spec => []EventsWellFormed
<1>1. Init => EventInv /\ EventsWellFormed
  BY DEF Init, EventInv, LogGens, LogStarts, LogHeld, LogExit, LogStopped, EventsWellFormed
<1>2. IInv /\ CtlInv' /\ [Next]_vars => IInv'
  BY EventStep DEF IInv
<1>3. CtlInv /\ EventInv /\ EventsWellFormed => IInv
  BY DEF IInv
<1>4. IInv => EventsWellFormed
  BY DEF IInv
<1> QED
  BY <1>1, <1>2, <1>3, <1>4, CtlInit, CtlInvariant, PTL DEF Spec
===============================================================================
