---------------------------- MODULE PauseControl ----------------------------
(***************************************************************************)
(* Pause and Continue: the request a client holds (Transition in           *)
(* transition.rs), the supervisor thread that executes it, and the         *)
(* transactional suspension of the job's processes (PauseState in          *)
(* process_control.rs), while the processes themselves spawn and exit.     *)
(*                                                                         *)
(* One action per suspend/resume call, together with the cancellation and  *)
(* deadline checks in front of it.  Deadlines are not clocked: wherever    *)
(* the code compares Instant::now() with a deadline the model may take the *)
(* late branch.  The order in which members are visited is left open.      *)
(***************************************************************************)
EXTENDS Naturals, Sequences, FiniteSets, Functions

CONSTANTS Procs,         \* process identities
          Root,          \* the generation's root process
          Requests,      \* Transition objects; one is reused once settled
          MaxPasses      \* MAX_MEMBER_PASSES

None == "None"

ASSUME PauseAssumption ==
    /\ Root \in Procs /\ IsFiniteSet(Procs)
    /\ None \notin Requests
    /\ MaxPasses \in Nat \ {0}

VARIABLES
    \* the job object and its processes
    live,        \* processes alive in the job
    susp,        \* suspension increments of this supervisor, per process
    spawners,    \* processes that spawned since the last member snapshot
    slipped,     \* history: in this generation one of those exited unsuspended
    gen,         \* a generation is running
    \* PauseState
    paused, owned,
    \* Transition objects and the supervisor's mailbox
    phase, want, cancelled, mailbox,
    \* the supervisor thread inside change()
    op, req, todo, changed, undo, passes, added, stable, rbfail,
    \* the supervisor as a whole
    stopping, up,
    \* the client: its latest request and the state it knew before that
    last, before

jobv == <<live, susp, spawners, slipped, gen>>
pausev == <<paused, owned>>
reqv == <<phase, want, cancelled, mailbox>>
opv == <<op, req, todo, changed, undo, passes, added, stable, rbfail>>
supv == <<stopping, up>>
clientv == <<last, before>>
vars == <<jobv, pausev, reqv, opv, supv, clientv>>

Outcomes == {"Applied", "Cancelled", "Rejected", "Degraded"}
Settled(r) == phase[r] \in Outcomes \cup {"Unused"}

Init ==
    /\ live = {} /\ susp = [p \in Procs |-> 0] /\ spawners = {} /\ slipped = FALSE /\ gen = FALSE
    /\ paused = FALSE /\ owned = {}
    /\ phase = [r \in Requests |-> "Unused"]
    /\ want = [r \in Requests |-> FALSE]
    /\ cancelled = [r \in Requests |-> FALSE]
    /\ mailbox = <<>>
    /\ op = "idle" /\ req = None /\ todo = {} /\ changed = {} /\ undo = {}
    /\ passes = 0 /\ added = FALSE /\ stable = 0 /\ rbfail = FALSE
    /\ stopping = FALSE /\ up = "running"
    /\ last = None /\ before = FALSE

-----------------------------------------------------------------------------
(* The processes (external).  A pinned handle keeps its PID from being     *)
(* reused, so a new process never takes an identity the supervisor holds.  *)

Spawn(p, q) ==
    /\ p \in live /\ susp[p] = 0
    /\ q \notin live \cup owned \cup changed \cup todo \cup undo \cup {Root}
    /\ live' = live \cup {q}
    /\ spawners' = spawners \cup {p}
    /\ UNCHANGED <<susp, slipped, gen, pausev, reqv, opv, supv, clientv>>

Exit(p) ==
    /\ p \in live
    /\ live' = live \ {p}
    /\ susp' = [susp EXCEPT ![p] = 0]
    /\ spawners' = spawners \ {p}
    /\ slipped' = (slipped \/ (p \in spawners /\ susp[p] = 0))
    /\ UNCHANGED <<gen, pausev, reqv, opv, supv, clientv>>

-----------------------------------------------------------------------------
(* The client: PauseContinueSignal and Transition::cancel                  *)

\* What the client concludes from the outcomes it was given: Applied moved the
\* service, Cancelled and Rejected left it where it was.
Known == IF last = None THEN FALSE
         ELSE IF phase[last] = "Applied" THEN want[last] ELSE before

\* The bridge asks for a transition only when it has none pending.
Request(r, pause) ==
    /\ \A s \in Requests : Settled(s)
    /\ r \notin Range(mailbox)
    /\ want' = [want EXCEPT ![r] = pause]
    /\ cancelled' = [cancelled EXCEPT ![r] = FALSE]
    /\ last' = r /\ before' = Known
    /\ \/ /\ up # "ended"
          /\ phase' = [phase EXCEPT ![r] = "Queued"]
          /\ mailbox' = Append(mailbox, r)
       \/ /\ up = "ended"
          /\ phase' = [phase EXCEPT ![r] = "Rejected"]
          /\ UNCHANGED mailbox
    /\ UNCHANGED <<jobv, pausev, opv, supv>>

\* Fault: a request being executed is declared cancelled.
CancelExecuting(r) ==
    /\ ~Settled(r)
    /\ cancelled' = [cancelled EXCEPT ![r] = TRUE]
    /\ phase' = [phase EXCEPT ![r] = "Cancelled"]
    /\ UNCHANGED <<jobv, pausev, want, mailbox, opv, supv, clientv>>

\* Fault: a queued request is only flagged.
CancelFlagOnly(r) ==
    /\ ~Settled(r)
    /\ cancelled' = [cancelled EXCEPT ![r] = TRUE]
    /\ UNCHANGED <<jobv, pausev, phase, want, mailbox, opv, supv, clientv>>

Cancel(r) ==
    /\ ~Settled(r)
    /\ cancelled' = [cancelled EXCEPT ![r] = TRUE]
    /\ phase' = IF phase[r] = "Queued" THEN [phase EXCEPT ![r] = "Cancelled"] ELSE phase
    /\ UNCHANGED <<jobv, pausev, want, mailbox, opv, supv, clientv>>

\* StopSignal::stop
RequestStop ==
    /\ ~stopping
    /\ stopping' = TRUE
    /\ UNCHANGED <<jobv, pausev, reqv, opv, up, clientv>>

-----------------------------------------------------------------------------
(* The supervisor thread                                                   *)

Interrupted == stopping \/ (req # None /\ cancelled[req])

\* sleep_or_stop lets a generation start only while not paused.
StartGeneration ==
    /\ op = "idle" /\ up = "running" /\ ~stopping
    /\ ~gen /\ ~paused
    /\ gen' = TRUE /\ live' = {Root}
    /\ UNCHANGED <<susp, spawners, slipped, pausev, reqv, opv, supv, clientv>>

\* cleanup_generation: the job is terminated and clear_generation forgets the
\* increments, but not the intent to stay paused.
EndGeneration ==
    /\ op = "idle"
    /\ \/ /\ up = "running" /\ gen /\ Root \notin live
          /\ UNCHANGED up
       \/ /\ up = "failing" \/ (up = "running" /\ stopping)
          /\ up' = "draining"
    /\ live' = {} /\ susp' = [p \in Procs |-> 0] /\ spawners' = {} /\ slipped' = FALSE /\ gen' = FALSE
    /\ owned' = {}
    /\ UNCHANGED <<paused, reqv, opv, stopping, clientv>>

Begin(r) ==
    /\ op = "idle" /\ up = "running" /\ mailbox # <<>>
    /\ r = Head(mailbox)
    /\ mailbox' = Tail(mailbox)

\* handle_control while stopping cancels the request instead.
HandleStopping ==
    \E r \in Requests :
      /\ Begin(r) /\ stopping
      /\ cancelled' = [cancelled EXCEPT ![r] = TRUE]
      /\ phase' = IF phase[r] = "Queued" THEN [phase EXCEPT ![r] = "Cancelled"] ELSE phase
      /\ UNCHANGED <<jobv, pausev, want, opv, supv, clientv>>

\* execute(): a request cancelled while queued is only taken off the queue.
HandleExecute ==
    \E r \in Requests :
      /\ Begin(r) /\ ~stopping
      /\ \/ phase[r] # "Queued" /\ UNCHANGED <<phase, op, req>>
         \/ /\ phase[r] = "Queued"
            /\ phase' = [phase EXCEPT ![r] = "Executing"]
            /\ op' = "enter" /\ req' = r
      /\ UNCHANGED <<jobv, pausev, want, cancelled, todo, changed, undo, passes, added, stable,
                     rbfail, supv, clientv>>

\* execute() publishes the outcome; a Degraded one makes change_pause fail and
\* the supervisor leave run_generations.
Finish(outcome) ==
    /\ phase' = [phase EXCEPT ![req] = outcome]
    /\ op' = "idle" /\ req' = None /\ todo' = {} /\ changed' = {} /\ undo' = {}
    /\ passes' = 0 /\ added' = FALSE /\ stable' = 0 /\ rbfail' = FALSE
    /\ up' = IF outcome = "Degraded" THEN "failing" ELSE up
    /\ UNCHANGED <<want, cancelled, mailbox, stopping, clientv>>

\* failure(): the outcome after the undo step.
FailureOutcome == IF rbfail THEN "Degraded" ELSE IF Interrupted THEN "Cancelled" ELSE "Rejected"

\* The entry of change().
EnterChange ==
    /\ op = "enter"
    /\ \/ Interrupted /\ Finish("Cancelled")
       \/ ~Interrupted /\ paused = want[req] /\ Finish("Applied")
       \/ /\ ~Interrupted /\ paused # want[req]
          /\ op' = IF want[req] THEN "pass" ELSE "resume"
          /\ undo' = IF want[req] THEN {} ELSE owned
          /\ UNCHANGED <<reqv, req, todo, changed, passes, added, stable, rbfail, supv, clientv>>
    /\ UNCHANGED <<jobv, pausev>>

-----------------------------------------------------------------------------
(* change(true): suspend members until a pass finds no new one             *)

\* Fault: what was suspended so far is not undone.
PauseFailsNoUndo ==
    /\ op' = "rollback" /\ undo' = {} /\ todo' = {}
    /\ UNCHANGED <<susp, changed, passes, added, rbfail>>

PauseFails ==
    /\ op' = "rollback" /\ undo' = changed /\ todo' = {}
    /\ UNCHANGED <<susp, changed, passes, added, rbfail>>

\* for _ in 0..MAX_MEMBER_PASSES
PassLeft == passes < MaxPasses

\* Start of a pass: cancelled, deadline, members().
PausePass ==
    /\ op = "pass"
    /\ \/ PauseFails /\ UNCHANGED spawners   \* interrupted, late, members() failed,
                                             \* or the passes are used up
       \/ /\ ~Interrupted /\ PassLeft
          /\ op' = "scan" /\ todo' = live
          /\ spawners' = {}
          /\ passes' = passes + 1 /\ added' = FALSE
          /\ UNCHANGED <<susp, changed, undo, rbfail>>
    /\ UNCHANGED <<live, slipped, gen, pausev, reqv, req, stable, supv, clientv>>

PauseMember(m) ==
    /\ op = "scan" /\ m \in todo
    /\ \/ PauseFails
       \/ /\ ~Interrupted
          /\ todo' = todo \ {m}
          /\ \/ /\ m \in changed \/ m \notin live
                /\ UNCHANGED <<susp, changed, added>>
             \/ /\ m \notin changed /\ m \in live
                /\ susp' = [susp EXCEPT ![m] = @ + 1]
                /\ changed' = changed \cup {m} /\ added' = TRUE
          /\ UNCHANGED <<op, undo, passes, rbfail>>
    /\ UNCHANGED <<live, spawners, slipped, gen, pausev, reqv, req, stable, supv, clientv>>

\* Fault: one pass over the members is taken to be enough.
NeedsAnotherPassNever == FALSE

\* A pass that suspended somebody is followed by another one.
NeedsAnotherPass == added

PauseNextPass ==
    /\ op = "scan" /\ todo = {} /\ NeedsAnotherPass
    /\ op' = "pass"
    /\ UNCHANGED <<jobv, pausev, reqv, req, todo, changed, undo, passes, added, stable, rbfail, supv, clientv>>

PauseStable ==
    /\ op = "scan" /\ todo = {} /\ ~NeedsAnotherPass
    /\ \/ /\ ~Interrupted
          /\ owned' = changed /\ paused' = TRUE
          /\ Finish("Applied")
       \/ /\ Interrupted
          /\ op' = "rollback" /\ undo' = changed
          /\ UNCHANGED <<pausev, reqv, req, todo, changed, passes, added, stable, rbfail, supv, clientv>>
    /\ UNCHANGED jobv

\* rollback(&changed, false)
Rollback(m) ==
    /\ op = "rollback" /\ m \in undo
    /\ \/ /\ undo' = {} /\ rbfail' = TRUE          \* late: break
          /\ UNCHANGED susp
       \/ /\ undo' = undo \ {m}
          /\ \/ m \notin live /\ UNCHANGED <<susp, rbfail>>
             \/ m \in live /\ susp' = [susp EXCEPT ![m] = @ - 1] /\ UNCHANGED rbfail
             \/ m \in live /\ rbfail' = TRUE /\ UNCHANGED susp
    /\ UNCHANGED <<live, spawners, slipped, gen, pausev, reqv, op, req, todo, changed, passes, added, stable, supv, clientv>>

RollbackDone ==
    /\ op = "rollback" /\ undo = {}
    /\ Finish(FailureOutcome)
    /\ UNCHANGED <<jobv, pausev>>

-----------------------------------------------------------------------------
(* change(false): resume_owned.  undo holds what is still to be resumed,   *)
(* changed what was resumed.                                               *)

ResumeFails ==
    /\ op' = "reclaim" /\ undo' = changed
    /\ UNCHANGED <<susp, changed>>

ResumeMember(m) ==
    /\ op = "resume" /\ m \in undo
    /\ \/ ResumeFails
       \/ /\ ~Interrupted
          /\ undo' = undo \ {m} /\ UNCHANGED op
          /\ \/ m \notin live /\ UNCHANGED <<susp, changed>>
             \/ /\ m \in live
                /\ susp' = [susp EXCEPT ![m] = @ - 1]
                /\ changed' = changed \cup {m}
    /\ UNCHANGED <<live, spawners, slipped, gen, pausev, reqv, req, todo, passes, added, stable, rbfail, supv, clientv>>

ResumeDone ==
    /\ op = "resume" /\ undo = {}
    /\ \/ /\ ~Interrupted
          /\ owned' = {} /\ paused' = FALSE
          /\ Finish("Applied")
       \/ /\ op' = "reclaim" /\ undo' = changed    \* interrupted or late
          /\ UNCHANGED <<pausev, reqv, req, todo, changed, passes, added, stable, rbfail, supv, clientv>>
    /\ UNCHANGED jobv

\* rollback_until(&resumed, true): suspend again what was resumed.
Reclaim(m) ==
    /\ op = "reclaim" /\ m \in undo
    /\ \/ /\ undo' = {} /\ rbfail' = TRUE          \* late: break
          /\ UNCHANGED susp
       \/ /\ undo' = undo \ {m}
          /\ \/ m \notin live /\ UNCHANGED <<susp, rbfail>>
             \/ m \in live /\ susp' = [susp EXCEPT ![m] = @ + 1] /\ UNCHANGED rbfail
             \/ m \in live /\ rbfail' = TRUE /\ UNCHANGED susp
    /\ UNCHANGED <<live, spawners, slipped, gen, pausev, reqv, op, req, todo, changed, passes, added, stable, supv, clientv>>

ReclaimDone ==
    /\ op = "reclaim" /\ undo = {}
    /\ \/ /\ rbfail
          /\ Finish(FailureOutcome)
       \/ /\ ~rbfail
          /\ op' = "restorePass" /\ passes' = 0 /\ stable' = 0
          /\ UNCHANGED <<reqv, req, todo, changed, undo, added, rbfail, supv, clientv>>
    /\ UNCHANGED <<jobv, pausev>>

\* restore_paused_members: what the resumed processes spawned meanwhile is
\* suspended too, until two passes in a row find nothing.
RestorePass ==
    /\ op = "restorePass"
    /\ \/ /\ rbfail' = TRUE /\ op' = "restored"    \* late, members() failed, out of passes
          /\ UNCHANGED <<spawners, todo, passes, added>>
       \/ /\ PassLeft
          /\ op' = "restoreScan" /\ todo' = live /\ spawners' = {}
          /\ passes' = passes + 1 /\ added' = FALSE
          /\ UNCHANGED rbfail
    /\ UNCHANGED <<live, susp, slipped, gen, pausev, reqv, req, changed, undo, stable, supv, clientv>>

RestoreMember(m) ==
    /\ op = "restoreScan" /\ m \in todo
    /\ \/ /\ rbfail' = TRUE /\ op' = "restored" /\ todo' = {}   \* late or suspend failed
          /\ UNCHANGED <<susp, owned, added>>
       \/ /\ todo' = todo \ {m}
          /\ \/ /\ m \in owned \/ m \notin live
                /\ UNCHANGED <<susp, owned, added>>
             \/ /\ m \notin owned /\ m \in live
                /\ susp' = [susp EXCEPT ![m] = @ + 1]
                /\ owned' = owned \cup {m} /\ added' = TRUE
          /\ UNCHANGED <<op, rbfail>>
    /\ UNCHANGED <<live, spawners, slipped, gen, paused, reqv, req, changed, undo, passes, stable, supv, clientv>>

RestoreEndPass ==
    /\ op = "restoreScan" /\ todo = {}
    /\ stable' = IF added THEN 0 ELSE stable + 1
    /\ op' = IF stable' = 2 THEN "restored" ELSE "restorePass"
    /\ UNCHANGED <<jobv, pausev, reqv, req, todo, changed, undo, passes, added, rbfail, supv, clientv>>

RestoreDone ==
    /\ op = "restored"
    /\ Finish(FailureOutcome)
    /\ UNCHANGED <<jobv, pausev>>

-----------------------------------------------------------------------------
(* The end of run(): the mailbox is drained with reject(), later the       *)
(* receiver is dropped together with whatever arrived in between.          *)

Drain ==
    /\ up = "draining"
    /\ phase' = [r \in Requests |->
                   IF r \in Range(mailbox) /\ phase[r] = "Queued" THEN "Rejected" ELSE phase[r]]
    /\ mailbox' = <<>> /\ up' = "drained"
    /\ UNCHANGED <<jobv, pausev, want, cancelled, opv, stopping, clientv>>

DropSupervisor ==
    /\ up = "drained"
    /\ mailbox' = <<>> /\ up' = "ended"
    /\ UNCHANGED <<jobv, pausev, phase, want, cancelled, opv, stopping, clientv>>

-----------------------------------------------------------------------------
Handle == HandleStopping \/ HandleExecute

Supervisor ==
    \/ EndGeneration \/ Handle \/ EnterChange
    \/ PausePass \/ (\E m \in Procs : PauseMember(m)) \/ PauseNextPass \/ PauseStable
    \/ (\E m \in Procs : Rollback(m)) \/ RollbackDone
    \/ (\E m \in Procs : ResumeMember(m)) \/ ResumeDone
    \/ (\E m \in Procs : Reclaim(m)) \/ ReclaimDone
    \/ RestorePass \/ (\E m \in Procs : RestoreMember(m)) \/ RestoreEndPass \/ RestoreDone
    \/ Drain \/ DropSupervisor

Processes == \E p \in Procs : Exit(p) \/ \E q \in Procs : Spawn(p, q)

Client ==
    \/ \E r \in Requests : Cancel(r) \/ \E pause \in BOOLEAN : Request(r, pause)
    \/ RequestStop

Next == Supervisor \/ StartGeneration \/ Processes \/ Client

Spec == Init /\ [][Next]_vars

\* The supervisor thread keeps running, and it reads its mailbox between two
\* generations (sleep_or_stop); nobody has to ask or cancel anything.
SupervisorSpec == Spec /\ WF_vars(Supervisor) /\ WF_vars(Handle)

\* In addition the bridge cancels a request that stays pending too long.
ClientSpec == SupervisorSpec /\ \A r \in Requests : WF_vars(Cancel(r))

-----------------------------------------------------------------------------
\* Every variable has its type; no process is suspended more than twice over
\* and no search for members exceeds its passes.
TypeOK ==
    /\ live \subseteq Procs /\ susp \in [Procs -> 0..2] /\ spawners \subseteq Procs /\ slipped \in BOOLEAN
    /\ gen \in BOOLEAN /\ paused \in BOOLEAN /\ owned \subseteq Procs
    /\ phase \in [Requests -> {"Unused", "Queued", "Executing"} \cup Outcomes]
    /\ want \in [Requests -> BOOLEAN] /\ cancelled \in [Requests -> BOOLEAN]
    /\ mailbox \in Seq(Requests)
    /\ op \in {"idle", "enter", "pass", "scan", "rollback", "resume", "reclaim",
              "restorePass", "restoreScan", "restored"}
    /\ req \in Requests \cup {None}
    /\ todo \subseteq Procs /\ changed \subseteq Procs /\ undo \subseteq Procs
    /\ passes \in 0..MaxPasses /\ added \in BOOLEAN /\ stable \in 0..2 /\ rbfail \in BOOLEAN
    /\ stopping \in BOOLEAN
    /\ up \in {"running", "failing", "draining", "drained", "ended"}
    /\ last \in Requests \cup {None} /\ before \in BOOLEAN

Stable == op = "idle" /\ up = "running"

\* Between transitions every live process carries exactly the increments the
\* supervisor remembers: one if it is owned, none otherwise, and nothing is
\* owned unless the service is paused.  Rollbacks after errors, cancellation
\* and exits leave no process suspended for ever and none suspended twice.
IncrementsAccounted ==
    Stable => /\ \A p \in live : susp[p] = (IF p \in owned THEN 1 ELSE 0)
              /\ ~paused => owned = {}

\* While the root lives, paused means that no process of the job runs: also not
\* one born while the members were being suspended, nor one born during a
\* Continue that failed.
PausedTreeFrozen ==
    Stable /\ paused /\ Root \in live => \A p \in live : susp[p] > 0

\* The same wherever no process slipped away: provided that none exits unsuspended
\* after it has spawned and before the next snapshot shows its child, Pause
\* freezes the tree.
FrozenUnlessSlipped == ~slipped => PausedTreeFrozen

\* RT-02, definitive outcomes: what the client concludes from the outcome of
\* its latest request is the state the supervisor is in.  A request cancelled
\* while queued never takes effect later, although its message is still read.
TruthfulOutcome ==
    (up = "running" /\ last # None /\ phase[last] \in Outcomes) => paused = Known

\* Every request gets a definitive outcome (the comment at the end of run()).
RequestAnswered ==
    \A r \in Requests : (phase[r] \in {"Queued", "Executing"}) ~> (phase[r] \in Outcomes)
=============================================================================
