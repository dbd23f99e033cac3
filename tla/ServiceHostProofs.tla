-------------------------- MODULE ServiceHostProofs --------------------------
(***************************************************************************)
(* The promises of the service host about an accepted Stop, that it never  *)
(* reports its way back from StopPending, and that what it reports at rest *)
(* is true, proved for every channel capacity.  None of them is inductive: *)
(* the first ones hold by the order claim, publish, release of the bridge  *)
(* against the order offer, await, end of the supervisor, which HandOff    *)
(* states; the last one by what the bridge knows of the transition it has  *)
(* under way.                                                              *)
(***************************************************************************)
EXTENDS ServiceHost, TLAPS

\* From the claim on the word is committed, and each stage knows the Stop that
\* the claim found: first in explicit, then in the supervisor's own flag.  The
\* gate is opened by the hand-off, or by a bridge that returns: after the
\* supervisor has ended, or because it gave up.
HandOff ==
    /\ pc \in {"publish", "release", "ended"} \/ claimed => Committed
    /\ pc = "publish" /\ StopAccepted => explicit
    /\ (pc = "release" \/ claimed) /\ StopAccepted => stop
    /\ pc = "ended" /\ StopAccepted => outcome = <<"Stopped", 0>>
    /\ released => claimed \/ hardStop \/ drained
    /\ drained => life = "ended"
    /\ hardStop => pc \in {"finish", "ended"}

\* The supervisor leaves the hand-off with the release or late, and ends with
\* the Stop it knew of carried out, unless the bridge gave up on it unclaimed.
Settled ==
    /\ life \in {"committing", "ended"} /\ ~expired => claimed \/ hardStop
    /\ life = "ended" /\ ~expired /\ StopAccepted => stopped \/ (hardStop /\ ~claimed)
    /\ result # None => life = "ended"

\* The bridge reports StopPending only when it is stopping, and the sections
\* that report another state are not reached while it is.
Stopping ==
    /\ reported = "StopPending" => stopping /\ pc # "main"
    /\ pc \in {"pending", "announce"} => ~stopping

HostInv == HandOff /\ Settled /\ Stopping

-----------------------------------------------------------------------------
\* The service starts in a state of the invariant (service_main before the
\* supervisor thread is spawned).
LEMMA HostInit == Init => HostInv
  BY DEF Init, Sup!Init, HostInv, HandOff, Settled, Stopping, Committed, StopAccepted, None, Sup!None

\* An SCM handler call keeps the invariant: Stop is accepted only before the
\* claim, other controls touch the channel alone.
LEMMA ScmKeeps == HostInv /\ Scm => HostInv'
  <1> SUFFICES ASSUME HostInv, Scm PROVE HostInv'
      OBVIOUS
  <1> USE DEF HostInv, HandOff, Settled, Stopping, Committed, StopAccepted
  <1>1. CASE AcceptStop
        BY <1>1 DEF AcceptStop, sup, transition, bridge
  <1>2. CASE \E pause \in BOOLEAN : AcceptOrdinary(pause)
        BY <1>2 DEF AcceptOrdinary, sup, transition, bridge
  <1> QED BY <1>1, <1>2 DEF Scm

\* A step of the supervisor thread keeps the invariant: it reaches its end only
\* through the hand-off.
LEMMA SupervisorKeeps == HostInv /\ Supervisor => HostInv'
  <1> SUFFICES ASSUME HostInv, Supervisor PROVE HostInv'
      OBVIOUS
  <1> USE DEF HostInv, HandOff, Settled, Stopping, Committed, StopAccepted, None, Sup!None
  <1>1. CASE SupAlone
    <2> USE <1>1 DEF SupAlone, channel, transition, bridge
    <2>1. CASE Sup!Leave BY <2>1 DEF Sup!Leave
    <2>2. CASE Sup!Restore BY <2>2 DEF Sup!Restore
    <2>3. CASE Sup!FinishStop BY <2>3 DEF Sup!FinishStop
    <2>4. CASE Sup!Offer BY <2>4 DEF Sup!Offer
    <2>5. CASE Sup!Await BY <2>5 DEF Sup!Await
    <2>6. CASE Sup!End BY <2>6 DEF Sup!End
    <2>7. CASE \E status \in {"Running", "Quiesced"} : Sup!ConfirmStartup(status)
          BY <2>7 DEF Sup!ConfirmStartup
    <2> QED BY <2>1, <2>2, <2>3, <2>4, <2>5, <2>6, <2>7
  <1>2. CASE SupDrain BY <1>2 DEF SupDrain, sup, channel, bridge
  <1>3. CASE SupExecute BY <1>3 DEF SupExecute, sup, channel, bridge
  <1>4. CASE SupApply BY <1>4 DEF SupApply, Sup!Toggle, sup, channel, bridge
  <1>5. CASE SupFailTransition BY <1>5 DEF SupFailTransition, Sup!Leave, sup, channel, bridge
  <1> QED BY <1>1, <1>2, <1>3, <1>4, <1>5 DEF Supervisor

\* A step of the bridge keeps the invariant; only the claim, the publication
\* and the release do so for a reason of their own.
LEMMA BridgeKeeps == HostInv /\ Bridge => HostInv'
  <1> SUFFICES ASSUME HostInv, Bridge PROVE HostInv'
      OBVIOUS
  <1> USE DEF HostInv, HandOff, Settled, Stopping, Committed, StopAccepted, To
  <1>1. CASE ServiceMain BY <1>1 DEF ServiceMain, sup, transition
  <1>2. CASE Poll BY <1>2 DEF Poll, sup, transition
  <1>3. CASE Claim BY <1>3 DEF Claim, sup, transition
  <1>4. CASE PublishStop BY <1>4 DEF PublishStop, channel, transition
  <1>5. CASE ReleaseGate
        BY <1>5 DEF ReleaseGate, Sup!Release, DropPending, EnterStopping, channel
  <1>6. CASE NotReady BY <1>6 DEF NotReady, sup, channel, transition
  <1>7. CASE StopCheck BY <1>7 DEF StopCheck, DropPending, EnterStopping, channel, transition
  <1>8. CASE Join BY <1>8 DEF Join, DropSignals, channel, transition
  <1>9. CASE NotFinished BY <1>9 DEF NotFinished, sup, channel, transition
  <1>10. CASE Startup BY <1>10 DEF Startup, AwaitingStartup, EnterStopping, channel, transition
  <1>11. CASE Controls BY <1>11 DEF Controls, sup, channel, transition
  <1>12. CASE CancelOverdue BY <1>12 DEF CancelOverdue, sup, channel, bridge
  <1>13. CASE Settle BY <1>13 DEF Settle, EnterStopping, sup, channel
  <1>14. CASE StillPending BY <1>14 DEF StillPending, EnterStopping, channel, transition
  <1>15. CASE Request BY <1>15 DEF Request, sup, channel, transition
  <1>16. CASE Announce BY <1>16 DEF Announce, PendingStatus, sup, channel, transition
  <1>17. CASE GiveUp BY <1>17 DEF GiveUp, DropSignals, channel, transition
  <1>18. CASE Checkpoint BY <1>18 DEF Checkpoint, PendingStatus, sup, channel, transition
  <1>19. CASE Finish BY <1>19 DEF Finish, sup, transition
  <1> QED BY <1>1, <1>2, <1>3, <1>4, <1>5, <1>6, <1>7, <1>8, <1>9, <1>10, <1>11, <1>12, <1>13,
             <1>14, <1>15, <1>16, <1>17, <1>18, <1>19 DEF Bridge

\* The invariant holds in every reachable state of the host.
THEOREM HostInductive == Spec => []HostInv
  <1>1. HostInv /\ [Next]_vars => HostInv'
    <2> SUFFICES ASSUME HostInv, [Next]_vars PROVE HostInv'
        OBVIOUS
    <2>1. CASE Next BY <2>1, ScmKeeps, SupervisorKeeps, BridgeKeeps DEF Next
    <2>2. CASE UNCHANGED vars
          BY <2>2 DEF vars, sup, channel, transition, bridge, HostInv, HandOff, Settled, Stopping,
             Committed, StopAccepted
    <2> QED BY <2>1, <2>2
  <1> QED BY HostInit, <1>1, PTL DEF Spec

\* Whatever the supervisor returns and however long it takes, a host that has
\* accepted a Stop ends with SERVICE_STOPPED and code 0 (bridge and finish).
THEOREM AcceptedStopCleanAlways == Spec => []AcceptedStopClean
  <1>1. HostInv => AcceptedStopClean
        BY DEF HostInv, HandOff, AcceptedStopClean
  <1> QED BY HostInductive, <1>1, PTL

\* A Stop accepted before the claim is carried out by finish_stop before run()
\* returns, unless the hand-off expired or the bridge gave up without a claim: the
\* bridge publishes it before it releases the gate, and a gate that is dropped
\* opens only behind a finished supervisor or a process about to be terminated.
THEOREM AcceptedStopCarriedOutAlways == Spec => []AcceptedStopCarriedOut
  <1>1. HostInv => AcceptedStopCarriedOut
        BY DEF HostInv, Settled, AcceptedStopCarriedOut
  <1> QED BY HostInductive, <1>1, PTL

\* No report but Stopped follows StopPending: every section of the bridge that
\* reports another state is behind a check of stopping.
THEOREM NoReturnFromStopAlways == Spec => NoReturnFromStop
  <1> DEFINE Kept == reported = "StopPending" => reported' \in {"StopPending", "Stopped"}
  <1>1. HostInv /\ [Next]_vars => [Kept]_vars
    <2> SUFFICES ASSUME HostInv, Next, reported = "StopPending" PROVE reported' \in {"StopPending", "Stopped"}
        OBVIOUS
    <2>1. CASE Bridge
      <3> USE DEF HostInv, Stopping, EnterStopping
      <3>1. CASE ServiceMain BY <3>1 DEF ServiceMain
      <3>2. CASE StopCheck BY <3>2 DEF StopCheck
      <3>3. CASE Startup BY <3>3 DEF Startup, AwaitingStartup
      <3>4. CASE Settle BY <3>4 DEF Settle
      <3>5. CASE StillPending BY <3>5 DEF StillPending
      <3>6. CASE Announce BY <3>6 DEF Announce
      <3>7. CASE Checkpoint BY <3>7 DEF Checkpoint
      <3>8. CASE Finish BY <3>8 DEF Finish
      <3>9. CASE ReleaseGate BY <3>9 DEF ReleaseGate
      <3>10. CASE Poll \/ Claim \/ PublishStop \/ NotReady \/ Join \/ NotFinished \/ Controls \/ CancelOverdue
                  \/ Request \/ GiveUp
             BY <3>10 DEF Poll, Claim, PublishStop, NotReady, Join, NotFinished, Controls, CancelOverdue,
                Request, GiveUp, bridge
      <3> QED BY <2>1, <3>1, <3>2, <3>3, <3>4, <3>5, <3>6, <3>7, <3>8, <3>9, <3>10 DEF Bridge
    <2>2. CASE Supervisor
          BY <2>2 DEF Supervisor, SupAlone, SupDrain, SupExecute, SupApply, SupFailTransition, bridge
    <2>3. CASE Scm
          BY <2>3 DEF Scm, AcceptStop, AcceptOrdinary, bridge
    <2> QED BY <2>1, <2>2, <2>3 DEF Next
  <1> QED BY HostInductive, <1>1, PTL DEF Spec, NoReturnFromStop

-----------------------------------------------------------------------------
(* The reported state *)

\* What the supervisor and the bridge hold about pausing.
PauseType ==
    /\ paused \in BOOLEAN /\ want \in BOOLEAN /\ believed \in BOOLEAN
    /\ deferred \in SUBSET BOOLEAN
    /\ inbox \in Seq(BOOLEAN) /\ controls \in Seq(BOOLEAN)

\* Until the host stops, what the bridge believes or is about to conclude is what the
\* supervisor does, and what it reported with no transition under way is what it
\* believes.  No transition is asked for before startup was confirmed.
BeliefInv ==
    /\ ~running => phase = None /\ ~believed /\ deferred = {}
    /\ life = "running" /\ ~stopping => (paused <=> IF phase = "Applied" THEN want ELSE believed)
    /\ phase = "Degraded" => life # "running"
    /\ stopping => reported \notin {"Paused", "Running"}
    /\ phase = None /\ ~stopping /\ reported = "Paused" => believed
    /\ phase = None /\ ~stopping /\ reported = "Running" => ~believed

ReportInv == PauseType /\ BeliefInv

\* Nothing is paused, asked for or reported at first.
LEMMA ReportInit == Init => ReportInv
<1> SUFFICES ASSUME Init PROVE ReportInv
  OBVIOUS
<1>1. PauseType
  <2>1. inbox \in Seq(BOOLEAN) /\ controls \in Seq(BOOLEAN)
    BY DEF Init
  <2>2. paused \in BOOLEAN /\ want \in BOOLEAN /\ believed \in BOOLEAN /\ deferred \in SUBSET BOOLEAN
    BY Zenon DEF Init, Sup!Init
  <2> QED
    BY <2>1, <2>2, Zenon DEF PauseType
<1> QED
  BY <1>1 DEF Init, Sup!Init, ReportInv, BeliefInv, None

\* A control that arrives waits in the channel.
LEMMA ScmReports == ReportInv /\ Scm => ReportInv'
<1> SUFFICES ASSUME ReportInv, Scm PROVE ReportInv'
  OBVIOUS
<1>1. PauseType'
  BY DEF Scm, AcceptStop, AcceptOrdinary, ReportInv, PauseType, sup, transition, bridge
<1>2. BeliefInv'
  BY DEF Scm, AcceptStop, AcceptOrdinary, ReportInv, BeliefInv, sup, transition, bridge
<1> QED
  BY <1>1, <1>2 DEF ReportInv

\* The supervisor changes its state only as a transition that is applied says, or
\* after it left running.
LEMMA SupervisorReports == ReportInv /\ Supervisor => ReportInv'
<1> SUFFICES ASSUME ReportInv, Supervisor PROVE ReportInv'
  OBVIOUS
<1>a. PauseType /\ BeliefInv
  BY DEF ReportInv
<1>b. PauseType'
  BY <1>a, Zenon DEF PauseType, Supervisor, SupAlone, SupDrain, SupExecute, SupApply, SupFailTransition,
     Sup!Leave, Sup!Restore, Sup!FinishStop, Sup!Offer, Sup!Await, Sup!End, Sup!ConfirmStartup, Sup!Toggle,
     sup, channel, transition, bridge
<1>1. ASSUME SupAlone PROVE BeliefInv'
  BY <1>a, <1>1 DEF BeliefInv, SupAlone, Sup!Leave, Sup!Restore, Sup!FinishStop, Sup!Offer, Sup!Await,
     Sup!End, Sup!ConfirmStartup, channel, transition, bridge
<1>2. ASSUME SupDrain PROVE BeliefInv'
  BY <1>a, <1>2 DEF BeliefInv, SupDrain, sup, channel, bridge, None
<1>3. ASSUME SupExecute PROVE BeliefInv'
  BY <1>a, <1>3 DEF BeliefInv, SupExecute, sup, channel, bridge, None
<1>4. ASSUME SupApply PROVE BeliefInv'
  BY <1>a, <1>4 DEF PauseType, BeliefInv, SupApply, Sup!Toggle, sup, channel, bridge, None
<1>5. ASSUME SupFailTransition PROVE BeliefInv'
  BY <1>a, <1>5 DEF BeliefInv, SupFailTransition, Sup!Leave, sup, channel, bridge, None
<1> QED
  BY <1>b, <1>1, <1>2, <1>3, <1>4, <1>5 DEF ReportInv, Supervisor

\* The bridge concludes only from an outcome, and reports what it concluded.
LEMMA BridgeReports == HostInv /\ ReportInv /\ Bridge => ReportInv'
<1> SUFFICES ASSUME HostInv, ReportInv, Bridge PROVE ReportInv'
  OBVIOUS
<1>a. PauseType /\ BeliefInv
  BY DEF ReportInv
<1> USE DEF To
<1>1. CASE ServiceMain
  <2>1. PauseType'
    BY <1>a, <1>1 DEF PauseType, ServiceMain, sup, transition
  <2>2. BeliefInv'
    BY <1>a, <1>1 DEF PauseType, BeliefInv, None, Outcomes, ServiceMain, sup, transition
  <2> QED
    BY <2>1, <2>2 DEF ReportInv
<1>2. CASE Poll
  <2>1. PauseType'
    BY <1>a, <1>2 DEF PauseType, Poll, sup, transition
  <2>2. BeliefInv'
    BY <1>a, <1>2 DEF PauseType, BeliefInv, None, Outcomes, Poll, sup, transition
  <2> QED
    BY <2>1, <2>2 DEF ReportInv
<1>3. CASE Claim
  <2>1. PauseType'
    BY <1>a, <1>3 DEF PauseType, Claim, sup, transition
  <2>2. BeliefInv'
    BY <1>a, <1>3 DEF PauseType, BeliefInv, None, Outcomes, Claim, sup, transition
  <2> QED
    BY <2>1, <2>2 DEF ReportInv
<1>4. CASE PublishStop
  <2>1. PauseType'
    BY <1>a, <1>4 DEF PauseType, PublishStop, channel, transition
  <2>2. BeliefInv'
    BY <1>a, <1>4 DEF PauseType, BeliefInv, None, Outcomes, PublishStop, channel, transition
  <2> QED
    BY <2>1, <2>2 DEF ReportInv
<1>5. CASE ReleaseGate
  <2>1. PauseType'
    BY <1>a, <1>5 DEF PauseType, ReleaseGate, Sup!Release, DropPending, EnterStopping, channel
  <2>2. BeliefInv'
    BY <1>a, <1>5 DEF PauseType, BeliefInv, None, Outcomes, ReleaseGate, Sup!Release, DropPending, EnterStopping, channel
  <2> QED
    BY <2>1, <2>2 DEF ReportInv
<1>6. CASE NotReady
  <2>1. PauseType'
    BY <1>a, <1>6 DEF PauseType, NotReady, sup, channel, transition
  <2>2. BeliefInv'
    BY <1>a, <1>6 DEF PauseType, BeliefInv, None, Outcomes, NotReady, sup, channel, transition
  <2> QED
    BY <2>1, <2>2 DEF ReportInv
<1>7. CASE StopCheck
  <2>1. PauseType'
    BY <1>a, <1>7 DEF PauseType, StopCheck, DropPending, EnterStopping, channel, transition
  <2>2. BeliefInv'
    BY <1>a, <1>7 DEF PauseType, BeliefInv, None, Outcomes, StopCheck, DropPending, EnterStopping, channel, transition
  <2> QED
    BY <2>1, <2>2 DEF ReportInv
<1>8. CASE Join
  <2>1. PauseType'
    BY <1>a, <1>8 DEF PauseType, Join, DropSignals, channel, transition
  <2>2. BeliefInv'
    BY <1>a, <1>8 DEF PauseType, BeliefInv, None, Outcomes, Join, DropSignals, channel, transition
  <2> QED
    BY <2>1, <2>2 DEF ReportInv
<1>9. CASE NotFinished
  <2>1. PauseType'
    BY <1>a, <1>9 DEF PauseType, NotFinished, sup, channel, transition
  <2>2. BeliefInv'
    BY <1>a, <1>9 DEF PauseType, BeliefInv, None, Outcomes, NotFinished, sup, channel, transition
  <2> QED
    BY <2>1, <2>2 DEF ReportInv
<1>10. CASE Startup
  <2>1. PauseType'
    BY <1>a, <1>10 DEF PauseType, Startup, AwaitingStartup, EnterStopping, channel, transition
  <2>2. BeliefInv'
    BY <1>a, <1>10 DEF PauseType, BeliefInv, None, Outcomes, Startup, AwaitingStartup, EnterStopping, channel, transition
  <2> QED
    BY <2>1, <2>2 DEF ReportInv
<1>11. CASE Controls
  <2>1. PauseType'
    BY <1>a, <1>11 DEF PauseType, Controls, sup, channel, transition
  <2>2. BeliefInv'
    BY <1>a, <1>11 DEF PauseType, BeliefInv, None, Outcomes, Controls, sup, channel, transition
  <2> QED
    BY <2>1, <2>2 DEF ReportInv
<1>12. CASE CancelOverdue
  <2>1. PauseType'
    BY <1>a, <1>12 DEF PauseType, CancelOverdue, sup, channel, bridge
  <2>2. BeliefInv'
    BY <1>a, <1>12 DEF PauseType, BeliefInv, None, Outcomes, CancelOverdue, sup, channel, bridge
  <2> QED
    BY <2>1, <2>2 DEF ReportInv
<1>13. CASE Settle
  <2>1. PauseType'
    BY <1>a, <1>13 DEF PauseType, Settle, Concluded, EnterStopping, sup, channel
  <2>2. BeliefInv'
    <3>0. phase' = None /\ running /\ UNCHANGED <<life, paused, running>>
      BY <1>a, <1>13 DEF BeliefInv, Settle, Outcomes, None, sup
    <3>1. CASE phase = "Degraded"
      BY <1>a, <1>13, <3>0, <3>1 DEF BeliefInv, None, Settle, EnterStopping
    <3>2. CASE phase # "Degraded"
      <4>1. /\ believed' = IF phase = "Applied" THEN want ELSE believed
            /\ reported' = IF believed' THEN "Paused" ELSE "Running"
            /\ UNCHANGED stopping
        BY <1>13, <3>2 DEF Settle, Concluded
      <4>2. ~stopping
        BY <1>13 DEF Settle, HostInv, Stopping
      <4> QED
        BY <1>a, <3>0, <3>2, <4>1, <4>2 DEF PauseType, BeliefInv, None
    <3> QED
      BY <3>1, <3>2
  <2> QED
    BY <2>1, <2>2 DEF ReportInv
<1>14. CASE StillPending
  <2>1. PauseType'
    BY <1>a, <1>14 DEF PauseType, StillPending, EnterStopping, channel, transition
  <2>2. BeliefInv'
    BY <1>a, <1>14 DEF PauseType, BeliefInv, None, Outcomes, StillPending, EnterStopping, channel, transition
  <2> QED
    BY <2>1, <2>2 DEF ReportInv
<1>15. CASE Request
  <2>1. PauseType'
    BY <1>a, <1>15 DEF PauseType, Request, sup, channel, transition
  <2>2. BeliefInv'
    BY <1>a, <1>15 DEF PauseType, BeliefInv, None, Outcomes, Request, sup, channel, transition
  <2> QED
    BY <2>1, <2>2 DEF ReportInv
<1>16. CASE Announce
  <2>1. PauseType'
    BY <1>a, <1>16 DEF PauseType, Announce, PendingStatus, sup, channel, transition
  <2>2. BeliefInv'
    BY <1>a, <1>16 DEF PauseType, BeliefInv, None, Outcomes, Announce, PendingStatus, sup, channel, transition
  <2> QED
    BY <2>1, <2>2 DEF ReportInv
<1>17. CASE GiveUp
  <2>1. PauseType'
    BY <1>a, <1>17 DEF PauseType, GiveUp, DropSignals, channel, transition
  <2>2. BeliefInv'
    BY <1>a, <1>17 DEF PauseType, BeliefInv, None, Outcomes, GiveUp, DropSignals, channel, transition
  <2> QED
    BY <2>1, <2>2 DEF ReportInv
<1>18. CASE Checkpoint
  <2>1. PauseType'
    BY <1>a, <1>18 DEF PauseType, Checkpoint, PendingStatus, sup, channel, transition
  <2>2. BeliefInv'
    BY <1>a, <1>18 DEF PauseType, BeliefInv, None, Outcomes, Checkpoint, PendingStatus, sup, channel, transition
  <2> QED
    BY <2>1, <2>2 DEF ReportInv
<1>19. CASE Finish
  <2>1. PauseType'
    BY <1>a, <1>19 DEF PauseType, Finish, sup, transition
  <2>2. BeliefInv'
    BY <1>a, <1>19 DEF PauseType, BeliefInv, None, Outcomes, Finish, sup, transition
  <2> QED
    BY <2>1, <2>2 DEF ReportInv
<1> QED
  BY <1>1, <1>2, <1>3, <1>4, <1>5, <1>6, <1>7, <1>8, <1>9, <1>10, <1>11, <1>12, <1>13, <1>14, <1>15, <1>16, <1>17, <1>18, <1>19 DEF Bridge

\* With no transition under way the SCM is told the state the supervisor is in, after
\* a cancelled, rejected or late transition as well (Settle in the bridge loop).
THEOREM ReportedStateTrueAlways == Spec => []ReportedStateTrue
<1>1. HostInv /\ ReportInv /\ [Next]_vars => ReportInv'
  <2> SUFFICES ASSUME HostInv, ReportInv, [Next]_vars PROVE ReportInv'
    OBVIOUS
  <2>1. CASE Next
    BY <2>1, ScmReports, SupervisorReports, BridgeReports DEF Next
  <2>2. CASE UNCHANGED vars
    BY <2>2 DEF vars, sup, channel, transition, bridge, ReportInv, PauseType, BeliefInv
  <2> QED
    BY <2>1, <2>2
<1>2. ReportInv => ReportedStateTrue
  BY DEF ReportInv, BeliefInv, ReportedStateTrue, None
<1> QED
  BY ReportInit, HostInductive, <1>1, <1>2, PTL DEF Spec
=============================================================================
