------------------------- MODULE SupervisorContract -------------------------
(***************************************************************************)
(* What Supervisor::run promises the service host (lib.rs as seen from     *)
(* servicemanager-runner): it may leave run_generations at any time for a  *)
(* reason of its own, it ends with Stopped only after a Stop, it offers    *)
(* the terminal gate before it ends, and a Stop raised before the offer is *)
(* settled is always carried out.  Supervisor implements this              *)
(* specification, ServiceHost is built on it.                              *)
(***************************************************************************)
EXTENDS Naturals

VARIABLES
    life,      \* "running" (generations), "leaving", "offered", "committing", "ended"
    stop,      \* stop_requested
    paused,    \* PauseState.paused
    startup,   \* the startup message sent, if any
    stopped,   \* finish_stop has recorded Stopped
    result,    \* what run() returned
    released,  \* TerminalState.released
    expired    \* the hand-off deadline passed before the release

vars == <<life, stop, paused, startup, stopped, result, released, expired>>

None == "None"
Reasons == {"Stopped", "ChildExited", "Suicide", "Error"}

Init ==
    /\ life = "running" /\ stop = FALSE /\ paused = FALSE /\ startup = None
    /\ stopped = FALSE /\ result = None /\ released = FALSE /\ expired = FALSE

\* StopSignal::stop and TerminalGate::release, called by the host.
RequestStop ==
    /\ ~stop /\ stop' = TRUE
    /\ UNCHANGED <<life, paused, startup, stopped, result, released, expired>>

Release ==
    /\ ~released /\ released' = TRUE
    /\ UNCHANGED <<life, stop, paused, startup, stopped, result, expired>>

\* TerminalGate::is_ready
IsReady == life \in {"offered", "committing", "ended"}

\* confirm_startup, once and never after a Stop.
ConfirmStartup(status) ==
    /\ life = "running" /\ ~stop /\ startup = None
    /\ startup' = status
    /\ UNCHANGED <<life, stop, paused, stopped, result, released, expired>>

\* A pause or continue transition is applied.
Toggle ==
    /\ life = "running" /\ ~stop
    /\ paused' = ~paused
    /\ UNCHANGED <<life, stop, startup, stopped, result, released, expired>>

\* run_generations returns.
Leave ==
    /\ life = "running" /\ life' = "leaving"
    /\ UNCHANGED <<stop, paused, startup, stopped, result, released, expired>>

\* stop_child_gracefully resumes the tree.
Restore ==
    /\ life \in {"leaving", "committing"} /\ stop /\ ~stopped
    /\ paused' = FALSE
    /\ UNCHANGED <<life, stop, startup, stopped, result, released, expired>>

\* finish_stop records Stopped; after the hand-off it is the last thing run()
\* does.
FinishStop ==
    /\ life \in {"leaving", "committing"} /\ stop /\ ~stopped
    /\ stopped' = TRUE
    /\ \/ life = "leaving" /\ UNCHANGED <<life, result>>
       \/ life = "committing" /\ life' = "ended" /\ result' \in {"Stopped", "Error"}
    /\ UNCHANGED <<stop, paused, startup, released, expired>>

Offer ==
    /\ life = "leaving" /\ life' = "offered"
    /\ UNCHANGED <<stop, paused, startup, stopped, result, released, expired>>

Await ==
    /\ life = "offered" /\ life' = "committing"
    /\ expired' = ~released
    /\ UNCHANGED <<stop, paused, startup, stopped, result, released>>

End ==
    /\ life = "committing" /\ life' = "ended"
    /\ stop => stopped
    /\ result' \in IF stopped THEN {"Stopped", "Error"} ELSE Reasons \ {"Stopped"}
    /\ UNCHANGED <<stop, paused, startup, stopped, released, expired>>

Next ==
    \/ RequestStop \/ Release \/ Toggle \/ Leave \/ Restore \/ FinishStop
    \/ Offer \/ Await \/ End
    \/ \E status \in {"Running", "Quiesced"} : ConfirmStartup(status)

Spec == Init /\ [][Next]_vars
=============================================================================
