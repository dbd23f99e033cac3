---------------------------- MODULE ServiceHost ----------------------------
(***************************************************************************)
(* The service host (servicemanager-runner/src/lib.rs): service_main, the  *)
(* bridge loop that turns SCM controls into supervisor signals and         *)
(* supervisor progress into SCM status reports, and finish.  It composes   *)
(* the acceptance of Stop (the decision word of ControlChannel) with the   *)
(* supervisor's promise (SupervisorContract) and the life of one           *)
(* Transition.                                                             *)
(*                                                                         *)
(* A control other than Stop, Shutdown, Pause and Continue changes nothing *)
(* here.  A pending Stop is always visible in the decision word before it  *)
(* is in the channel, so only the word is kept.  The bridge's deadlines    *)
(* are not clocked: a late branch may be taken in every iteration.         *)
(***************************************************************************)
EXTENDS Naturals, Sequences

CONSTANT InboxCap    \* bound on the Pause and Continue controls in the channel

ASSUME HostAssumption == InboxCap \in Nat \ {0}

VARIABLES
    \* the supervisor (SupervisorContract), and what the bridge took from it
    life, stop, paused, startup, stopped, result, released, expired,
    drained,      \* run() has emptied its mailbox for the last time
    \* the control channel
    decision,     \* STOP_REQUESTED / TERMINAL_COMMITTED
    inbox,        \* accepted Pause (TRUE) and Continue (FALSE) controls
    \* the Transition the bridge holds
    phase,        \* its state, or "None"
    want,         \* pending.pause
    cancelled,    \* its cancel flag
    \* the bridge
    pc, controls, running, stopping, explicit, claimed,
    believed,     \* the bridge's own paused
    failure,      \* failure_code, 0 for None
    deferred,     \* the remembered Pause (TRUE) or Continue (FALSE), as a set
    reported,     \* the last status reported to the SCM
    outcome,      \* BridgeExit.terminal as <<kind, code>>
    hardStop      \* the bridge gave up on the supervisor

sup == <<life, stop, paused, startup, stopped, result, released, expired>>
channel == <<decision, inbox>>
transition == <<phase, want, cancelled>>
bridge == <<pc, controls, running, believed, stopping, explicit, failure, deferred, claimed, reported, outcome,
            hardStop>>
vars == <<sup, drained, channel, transition, bridge>>

Sup == INSTANCE SupervisorContract

None == "None"
Outcomes == {"Applied", "Cancelled", "Rejected", "Degraded"}
SUPERVISOR_ERROR_EXIT_CODE == 2

Init ==
    /\ Sup!Init /\ drained = FALSE
    /\ decision = {} /\ inbox = <<>>
    /\ phase = None /\ want = FALSE /\ cancelled = FALSE
    /\ pc = "main" /\ controls = <<>> /\ running = FALSE /\ believed = FALSE
    /\ stopping = FALSE /\ explicit = FALSE /\ failure = 0 /\ deferred = {}
    /\ claimed = FALSE /\ reported = None /\ outcome = <<None, 0>> /\ hardStop = FALSE

StopAccepted == "STOP_REQUESTED" \in decision
Committed == "TERMINAL_COMMITTED" \in decision

-----------------------------------------------------------------------------
(* The SCM                                                                 *)

AcceptStop ==
    /\ pc # "ended" /\ ~Committed /\ ~StopAccepted
    /\ decision' = decision \cup {"STOP_REQUESTED"}
    /\ UNCHANGED <<sup, drained, inbox, transition, bridge>>

AcceptOrdinary(pause) ==
    /\ pc # "ended" /\ ~Committed /\ Len(inbox) < InboxCap
    /\ inbox' = Append(inbox, pause)
    /\ UNCHANGED <<sup, drained, decision, transition, bridge>>

-----------------------------------------------------------------------------
(* The supervisor thread                                                   *)

SupAlone ==
    /\ \/ Sup!Leave /\ phase # "Executing"
       \/ Sup!Restore \/ Sup!FinishStop \/ Sup!Offer \/ Sup!Await \/ Sup!End
       \/ \E status \in {"Running", "Quiesced"} : Sup!ConfirmStartup(status)
    /\ UNCHANGED <<drained, channel, transition, bridge>>

\* The final loop of run(); the thread then ends.
SupDrain ==
    /\ life = "ended" /\ ~drained
    /\ drained' = TRUE
    /\ phase' = IF phase = "Queued" THEN "Rejected" ELSE phase
    /\ UNCHANGED <<sup, channel, want, cancelled, bridge>>

\* handle_control takes the request; a stopping supervisor cancels it.
SupExecute ==
    /\ life = "running" /\ phase = "Queued"
    /\ phase' = IF stop THEN "Cancelled" ELSE "Executing"
    /\ UNCHANGED <<sup, drained, channel, want, cancelled, bridge>>

SupApply ==
    /\ phase = "Executing" /\ ~cancelled /\ phase' = "Applied"
    /\ \/ paused # want /\ Sup!Toggle
       \/ paused = want /\ ~stop /\ UNCHANGED sup
    /\ UNCHANGED <<drained, channel, want, cancelled, bridge>>

SupFailTransition ==
    /\ phase = "Executing"
    /\ \/ (cancelled \/ stop) /\ phase' = "Cancelled" /\ UNCHANGED sup
       \/ ~cancelled /\ ~stop /\ phase' = "Rejected" /\ UNCHANGED sup
       \/ phase' = "Degraded" /\ Sup!Leave
    /\ UNCHANGED <<drained, channel, want, cancelled, bridge>>

-----------------------------------------------------------------------------
(* service_main and the bridge loop, one action per section of the body    *)

To(label) == pc' = label

\* A configuration that cannot be read ends the service at once.
ServiceMain ==
    /\ pc = "main"
    /\ \/ To("poll") /\ reported' = "StartPending" /\ UNCHANGED <<decision, outcome>>
       \/ /\ To("ended")
          /\ decision' = decision \cup {"TERMINAL_COMMITTED"}
          /\ outcome' = <<"Stopped", IF StopAccepted THEN 0 ELSE SUPERVISOR_ERROR_EXIT_CODE>>
          /\ reported' = "Stopped"
    /\ UNCHANGED <<sup, drained, inbox, transition, controls, running, believed, stopping, explicit, failure,
                   deferred, claimed, hardStop>>

\* Fault: only the received controls are looked at, not the decision word.
PollQueueOnly ==
    /\ pc = "poll" /\ To("gate")
    /\ controls' = inbox /\ inbox' = <<>>
    /\ UNCHANGED <<sup, drained, decision, transition, running, believed, stopping, explicit, failure, deferred,
                   claimed, reported, outcome, hardStop>>

\* try_recv until the channel is empty, then the decision word.
Poll ==
    /\ pc = "poll" /\ To("gate")
    /\ controls' = inbox /\ inbox' = <<>>
    /\ explicit' = (explicit \/ StopAccepted)
    /\ UNCHANGED <<sup, drained, decision, transition, running, believed, stopping, failure, deferred, claimed,
                   reported, outcome, hardStop>>

\* pending.take() with cancel(), and deferred = None.
DropPending ==
    /\ phase' = None /\ want' = FALSE /\ cancelled' = FALSE
    /\ deferred' = {}

EnterStopping == stopping' = TRUE /\ reported' = "StopPending"

\* The supervisor offers its end: claim, signal Stop, release.
Claim ==
    /\ pc = "gate" /\ ~claimed /\ Sup!IsReady
    /\ decision' = decision \cup {"TERMINAL_COMMITTED"}
    /\ explicit' = (explicit \/ StopAccepted)
    /\ To("publish")
    /\ UNCHANGED <<sup, drained, inbox, transition, controls, running, believed, stopping, failure, deferred,
                   claimed, reported, outcome, hardStop>>

\* Fault: the gate is released without publishing the Stop that was claimed.
PublishStopForgotten ==
    /\ pc = "publish" /\ To("release")
    /\ UNCHANGED <<sup, drained, channel, transition, controls, running, believed, stopping, explicit, failure,
                   deferred, claimed, reported, outcome, hardStop>>

PublishStop ==
    /\ pc = "publish" /\ To("release")
    /\ stop' = (stop \/ explicit)
    /\ UNCHANGED <<life, paused, startup, stopped, result, released, expired, drained, channel, transition,
                   controls, running, believed, stopping, explicit, failure, deferred, claimed, reported,
                   outcome, hardStop>>

ReleaseGate ==
    /\ pc = "release" /\ To("stopCheck")
    /\ Sup!Release
    /\ claimed' = TRUE
    /\ DropPending
    /\ EnterStopping
    /\ UNCHANGED <<drained, channel, controls, running, believed, explicit, failure, outcome, hardStop>>

NotReady ==
    /\ pc = "gate" /\ (claimed \/ ~Sup!IsReady) /\ To("stopCheck")
    /\ UNCHANGED <<sup, drained, channel, transition, controls, running, believed, stopping, explicit, failure,
                   deferred, claimed, reported, outcome, hardStop>>

StopCheck ==
    /\ pc = "stopCheck" /\ To("join")
    /\ \/ /\ explicit /\ ~stopping
          /\ stop' = TRUE
          /\ DropPending /\ EnterStopping
       \/ (explicit => stopping) /\ UNCHANGED <<stop, transition, deferred, stopping, reported>>
    /\ UNCHANGED <<life, paused, startup, stopped, result, released, expired, drained, channel, controls,
                   running, believed, explicit, failure, claimed, outcome, hardStop>>

\* service_exit_code_for, through terminal_for(result, false).  A Suicide code is
\* the child's own positive code or 1.
TerminalFor(reason) ==
    CASE reason = "Suicide" -> <<"Crash", 1>>
      [] reason \in {"Stopped", "ChildExited"} -> <<"Stopped", 0>>
      [] reason = "Error" -> <<"Stopped", SUPERVISOR_ERROR_EXIT_CODE>>

\* bridge() returns: it owns the signals, and dropping the TerminalGate among them
\* releases the supervisor.
DropSignals ==
    /\ released' = TRUE
    /\ UNCHANGED <<life, stop, paused, startup, stopped, result, expired>>

\* The supervisor thread is finished and joined.
Join ==
    /\ pc = "join" /\ drained
    /\ outcome' = IF explicit \/ StopAccepted THEN <<"Stopped", 0>>
                  ELSE IF failure # 0 THEN <<"Stopped", failure>>
                  ELSE TerminalFor(result)
    /\ To("finish")
    /\ DropSignals
    /\ UNCHANGED <<drained, channel, transition, controls, running, believed, stopping, explicit, failure,
                   deferred, claimed, reported, hardStop>>

NotFinished ==
    /\ pc = "join" /\ ~drained /\ To("startup")
    /\ UNCHANGED <<sup, drained, channel, transition, controls, running, believed, stopping, explicit, failure,
                   deferred, claimed, reported, outcome, hardStop>>

\* Fault: a startup message is read although the host is stopping.
AwaitingStartupAlways == ~running

AwaitingStartup == ~running /\ ~stopping

\* Startup is confirmed once; without a message it may be overdue.
Startup ==
    /\ pc = "startup" /\ To("controls")
    /\ \/ /\ AwaitingStartup /\ startup # None
          /\ running' = TRUE /\ reported' = "Running"
          /\ UNCHANGED <<stop, stopping, failure>>
       \/ /\ AwaitingStartup /\ startup = None
          /\ failure' = 3 /\ stop' = TRUE
          /\ EnterStopping /\ UNCHANGED running
       \/ /\ ~AwaitingStartup \/ startup = None
          /\ UNCHANGED <<stop, running, stopping, failure, reported>>
    /\ UNCHANGED <<life, paused, startup, stopped, result, released, expired, drained, channel, transition,
                   controls, believed, explicit, deferred, claimed, outcome, hardStop>>

\* The last Pause or Continue of this iteration is remembered.
Controls ==
    /\ pc = "controls" /\ To(IF stopping THEN "tail" ELSE IF phase = None THEN "request" ELSE "pending")
    /\ controls' = <<>>
    /\ deferred' = IF ~stopping /\ running /\ controls # <<>> THEN {controls[Len(controls)]} ELSE deferred
    /\ UNCHANGED <<sup, drained, channel, transition, running, believed, stopping, explicit, failure, claimed,
                   reported, outcome, hardStop>>

\* transition.request.cancel() when it is overdue.
CancelOverdue ==
    /\ pc = "pending" /\ ~cancelled /\ phase \notin Outcomes
    /\ cancelled' = TRUE
    /\ phase' = IF phase = "Queued" THEN "Cancelled" ELSE phase
    /\ UNCHANGED <<sup, drained, channel, want, bridge>>

\* Fault: the requested state is assumed whatever the outcome.
ConcludedGuessed == want

\* Only Applied moves the service.
Concluded == IF phase = "Applied" THEN want ELSE believed

Settle ==
    /\ pc = "pending" /\ phase \in Outcomes
    /\ phase' = None /\ want' = FALSE /\ cancelled' = FALSE
    /\ \/ /\ phase = "Degraded"
          /\ failure' = SUPERVISOR_ERROR_EXIT_CODE
          /\ EnterStopping /\ UNCHANGED believed
       \/ /\ phase # "Degraded"
          /\ believed' = Concluded
          /\ reported' = IF believed' THEN "Paused" ELSE "Running"
          /\ UNCHANGED <<failure, stopping>>
    /\ To("request")
    /\ UNCHANGED <<sup, drained, channel, controls, running, explicit, deferred, claimed, outcome, hardStop>>

\* Still executing, perhaps beyond the hard deadline.
StillPending ==
    /\ pc = "pending" /\ phase \notin Outcomes
    /\ \/ /\ cancelled /\ failure' = SUPERVISOR_ERROR_EXIT_CODE
          /\ stop' = TRUE /\ EnterStopping
       \/ UNCHANGED <<failure, stop, stopping, reported>>
    /\ To("request")
    /\ UNCHANGED <<life, paused, startup, stopped, result, released, expired, drained, channel, transition,
                   controls, running, believed, explicit, deferred, claimed, outcome, hardStop>>

\* The request is sent, then announced.
Request ==
    /\ pc = "request"
    /\ \/ /\ phase = None /\ ~stopping /\ deferred # {}
          /\ want' \in deferred /\ cancelled' = FALSE /\ deferred' = {}
          /\ \/ phase' = "Queued"
             \/ drained /\ phase' = "Rejected"      \* the receiver is gone
          /\ To("announce")
       \/ /\ phase # None \/ stopping \/ deferred = {}
          /\ To("tail") /\ UNCHANGED <<transition, deferred>>
    /\ UNCHANGED <<sup, drained, channel, controls, running, believed, stopping, explicit, failure, claimed,
                   reported, outcome, hardStop>>

PendingStatus == IF want THEN "PausePending" ELSE "ContinuePending"

Announce ==
    /\ pc = "announce" /\ To("tail")
    /\ reported' = PendingStatus
    /\ UNCHANGED <<sup, drained, channel, transition, controls, running, believed, stopping, explicit, failure,
                   deferred, claimed, outcome, hardStop>>

\* The hard stop deadline; then the checkpoint report and the wait for a control.
GiveUp ==
    /\ pc = "tail" /\ stopping
    /\ hardStop' = TRUE
    /\ outcome' = <<"Stopped", IF explicit \/ StopAccepted THEN 0
                               ELSE IF failure # 0 THEN failure ELSE SUPERVISOR_ERROR_EXIT_CODE>>
    /\ To("finish")
    /\ DropSignals
    /\ UNCHANGED <<drained, channel, transition, controls, running, believed, stopping, explicit, failure,
                   deferred, claimed, reported>>

Checkpoint ==
    /\ pc = "tail" /\ To("poll")
    /\ reported' \in {reported, IF stopping THEN "StopPending"
                                ELSE IF phase # None THEN PendingStatus
                                ELSE IF ~running THEN "StartPending" ELSE reported}
    /\ UNCHANGED <<sup, drained, channel, transition, controls, running, believed, stopping, explicit, failure,
                   deferred, claimed, outcome, hardStop>>

\* Fault: finish reports the outcome without the last claim.
FinishUnclaimed ==
    /\ pc = "finish" /\ To("ended")
    /\ reported' = IF outcome[1] = "Stopped" THEN "Stopped" ELSE reported
    /\ UNCHANGED <<sup, drained, channel, transition, controls, running, believed, stopping, explicit, failure,
                   deferred, claimed, outcome, hardStop>>

\* finish(): the last claim, then the report or the deliberate crash.
Finish ==
    /\ pc = "finish" /\ To("ended")
    /\ decision' = decision \cup {"TERMINAL_COMMITTED"}
    /\ outcome' = IF StopAccepted THEN <<"Stopped", 0>> ELSE outcome
    /\ reported' = IF outcome'[1] = "Stopped" THEN "Stopped" ELSE reported
    /\ UNCHANGED <<sup, drained, inbox, transition, controls, running, believed, stopping, explicit, failure,
                   deferred, claimed, hardStop>>

-----------------------------------------------------------------------------
Bridge ==
    \/ ServiceMain \/ Poll \/ Claim \/ PublishStop \/ ReleaseGate \/ NotReady \/ StopCheck
    \/ Join \/ NotFinished \/ Startup \/ Controls \/ CancelOverdue \/ Settle \/ StillPending
    \/ Request \/ Announce \/ GiveUp \/ Checkpoint \/ Finish

Supervisor ==
    /\ pc \notin {"main", "ended"}
    /\ SupAlone \/ SupDrain \/ SupExecute \/ SupApply \/ SupFailTransition

Scm == AcceptStop \/ \E pause \in BOOLEAN : AcceptOrdinary(pause)

Next == Bridge \/ Supervisor \/ Scm

Spec == Init /\ [][Next]_vars

\* The bridge thread keeps running, and once it is stopping its hard deadline
\* passes in some iteration; the supervisor owes nothing.
FairSpec == Spec /\ WF_vars(Bridge) /\ SF_vars(GiveUp)

-----------------------------------------------------------------------------
\* What each variable of the bridge, the channel and the transition holds.
TypeOK ==
    /\ life \in {"running", "leaving", "offered", "committing", "ended"}
    /\ {stop, paused, stopped, released, expired, drained, want, cancelled, running, believed, stopping,
        explicit, claimed, hardStop} \subseteq BOOLEAN
    /\ startup \in {None, "Running", "Quiesced"} /\ result \in Sup!Reasons \cup {None}
    /\ decision \subseteq {"STOP_REQUESTED", "TERMINAL_COMMITTED"}
    /\ Len(inbox) <= InboxCap /\ Len(controls) <= InboxCap
    /\ phase \in {None, "Queued", "Executing"} \cup Outcomes
    /\ failure \in {0, SUPERVISOR_ERROR_EXIT_CODE, 3} /\ deferred \in SUBSET BOOLEAN
    /\ outcome \in {None, "Stopped", "Crash"} \X (0..3)

\* An accepted Stop ends the service cleanly: whatever the supervisor returns,
\* and although a startup or transition failure was being handled, the host
\* reports SERVICE_STOPPED with code 0 and never leaves with a crash.
AcceptedStopClean == pc = "ended" /\ StopAccepted => outcome = <<"Stopped", 0>>

\* An accepted Stop reaches the supervisor: when run() has returned and the
\* hand-off did not expire, a Stop the SCM was told is accepted has been carried
\* out by finish_stop (Stop/Pre hook, Stopped record), however late it came.  The
\* one exception is a bridge that gives up at its hard deadline before it has
\* claimed: returning drops the TerminalGate, which lets the supervisor end, and
\* finish then terminates the process.  A bridge that gives up after the claim
\* still owes the Stop.
AcceptedStopCarriedOut ==
    result # None /\ StopAccepted /\ ~expired => stopped \/ (hardStop /\ ~claimed)

\* The reported state is true: with no transition under way, Paused is reported
\* only while the supervisor is paused and Running only while it is not, also
\* after a cancelled, rejected or late transition.
ReportedStateTrue ==
    phase = None /\ life = "running" =>
      /\ reported = "Paused" => paused
      /\ reported = "Running" => ~paused

\* Once StopPending is reported no other state follows but Stopped.
NoReturnFromStop ==
    [][reported = "StopPending" => reported' \in {"StopPending", "Stopped"}]_vars

\* An accepted Stop ends the host even when the supervisor hangs.
StopEndsHost == StopAccepted ~> (pc = "ended")
=============================================================================
