--------------------------- MODULE ControlChannel ---------------------------
(***************************************************************************)
(* The channel between the SCM control handler and the service main thread *)
(* (servicemanager-win32/src/runtime.rs).  Ordinary controls travel in a   *)
(* bounded FIFO; Stop and Shutdown are two sticky bits outside it, made    *)
(* visible to a blocked receiver by a Wake message that may be dropped     *)
(* when the queue is full.  A second atomic, the decision, linearizes "a   *)
(* Stop was accepted" against "the lifecycle committed to ending".         *)
(*                                                                         *)
(* One action per atomic operation of the code: an atomic load, swap or    *)
(* compare-exchange, a try_send, a receive.  rx.recv and the two timed     *)
(* variants share their loop and differ only in what an empty queue does.  *)
(***************************************************************************)
EXTENDS Naturals, Sequences, Functions

CONSTANTS Handlers,   \* concurrent activations of dispatch_control
          Ordinary,   \* ordinary control instances (Pause, Continue, Power, Other)
          QueueCap    \* sync_channel capacity (8 in the source)

ASSUME ChannelAssumption ==
    /\ Handlers # {}
    /\ QueueCap \in Nat \ {0}
    /\ Ordinary \cap {"Stop", "Shutdown", "Wake", "None"} = {}

VARIABLES
    terminal,    \* ControlPending.terminal: which of the Stop/Shutdown bits are set
    decision,    \* ControlPending.decision: subset of the two decision bits
    alive,       \* ControlPending.alive
    connected,   \* the mpsc receiver still exists
    queue,       \* the sync_channel: ordinary controls and Wakes
    deferred,    \* ServiceControlReceiver.deferred
    hpc,         \* where each handler activation is in dispatch_control
    hctl,        \* the control each handler activation carries
    rpc,         \* where the service thread is in a receive call
    rblock,      \* TRUE in recv (waits for ever), FALSE in recv_timeout/try_recv
    rheld,       \* the ordinary control taken from rx and not yet delivered
    \* history
    stopAcked,   \* Stop/Shutdown requests that were answered NO_ERROR
    claims,      \* every result claim_terminal returned
    accepted,    \* ordinary controls in the order try_send accepted them
    delivered,   \* ordinary controls in the order receive returned them
    urgent,      \* the receive in progress began with a terminal pending
    overtaken,   \* an urgent receive returned an ordinary control
    lastTerminal \* the last terminal control a receive returned

chan == <<terminal, decision, alive, connected, queue, deferred>>
hvars == <<hpc, hctl>>
rvars == <<rpc, rblock, rheld>>
history == <<stopAcked, claims, accepted, delivered, urgent, overtaken, lastTerminal>>
vars == <<chan, hvars, rvars, history>>

TerminalControls == {"Stop", "Shutdown"}
None == "None"
Wake == "Wake"
STOP_REQUESTED == "STOP_REQUESTED"
TERMINAL_COMMITTED == "TERMINAL_COMMITTED"
NO_ERROR == "NO_ERROR"
ERROR_RETRY == "ERROR_RETRY"
ERROR_SERVICE_NOT_ACTIVE == "ERROR_SERVICE_NOT_ACTIVE"

Controls == TerminalControls \cup Ordinary

-----------------------------------------------------------------------------
(* control_channel()                                                       *)

Init ==
    /\ terminal = {} /\ decision = {} /\ alive = TRUE /\ connected = TRUE
    /\ queue = <<>> /\ deferred = None
    /\ hpc = [h \in Handlers |-> "idle"]
    /\ hctl = [h \in Handlers |-> None]
    /\ rpc = "idle" /\ rblock = FALSE /\ rheld = None
    /\ stopAcked = {} /\ claims = {}
    /\ accepted = <<>> /\ delivered = <<>>
    /\ urgent = FALSE /\ overtaken = FALSE /\ lastTerminal = None

-----------------------------------------------------------------------------
(* dispatch_control, one activation of the SCM handler                     *)

Reply(h, code) ==
    /\ hpc' = [hpc EXCEPT ![h] = "idle"]
    /\ hctl' = [hctl EXCEPT ![h] = None]
    /\ stopAcked' = IF hctl[h] \in TerminalControls /\ code = NO_ERROR
                    THEN stopAcked \cup {hctl[h]} ELSE stopAcked

InFlight(c) == (\E h \in Handlers : hctl[h] = c) \/ c \in Range(accepted)

\* The SCM calls the handler (Interrogate is answered NO_ERROR at once and
\* touches nothing, so it is not a control here).  An ordinary instance is
\* offered again only while it has not been accepted (ERROR_RETRY).
DispatchBegin(h, c) ==
    /\ hpc[h] = "idle"
    /\ c \in Ordinary => ~InFlight(c)
    /\ hpc' = [hpc EXCEPT ![h] = "loadAlive"]
    /\ hctl' = [hctl EXCEPT ![h] = c]
    /\ UNCHANGED <<chan, rvars, history>>

DispatchLoadAlive(h) ==
    /\ hpc[h] = "loadAlive"
    /\ \/ /\ alive
          /\ hpc' = [hpc EXCEPT ![h] = "loadDecision"]
          /\ UNCHANGED <<hctl, stopAcked>>
       \/ /\ ~alive
          /\ Reply(h, ERROR_SERVICE_NOT_ACTIVE)
    /\ UNCHANGED <<chan, rvars, claims, accepted, delivered, urgent, overtaken, lastTerminal>>

DispatchLoadDecision(h) ==
    /\ hpc[h] = "loadDecision"
    /\ \/ /\ TERMINAL_COMMITTED \notin decision
          /\ hpc' = [hpc EXCEPT ![h] = IF hctl[h] \in TerminalControls THEN "cas" ELSE "send"]
          /\ UNCHANGED <<hctl, stopAcked>>
       \/ /\ TERMINAL_COMMITTED \in decision
          /\ Reply(h, ERROR_SERVICE_NOT_ACTIVE)
    /\ UNCHANGED <<chan, rvars, claims, accepted, delivered, urgent, overtaken, lastTerminal>>

\* Fault: the flag is set without looking at the commit bit again.
DispatchCasBlind(h) ==
    /\ hpc[h] = "cas"
    /\ decision' = decision \cup {STOP_REQUESTED}
    /\ hpc' = [hpc EXCEPT ![h] = "publish"]
    /\ UNCHANGED <<terminal, alive, connected, queue, deferred, hctl, rvars, history>>

\* decision.fetch_update: set STOP_REQUESTED unless the terminal commit won.
DispatchCas(h) ==
    /\ hpc[h] = "cas"
    /\ \/ /\ TERMINAL_COMMITTED \notin decision
          /\ decision' = decision \cup {STOP_REQUESTED}
          /\ hpc' = [hpc EXCEPT ![h] = "publish"]
          /\ UNCHANGED <<hctl, stopAcked>>
       \/ /\ TERMINAL_COMMITTED \in decision
          /\ Reply(h, ERROR_SERVICE_NOT_ACTIVE)
          /\ UNCHANGED decision
    /\ UNCHANGED <<terminal, alive, connected, queue, deferred, rvars,
                   claims, accepted, delivered, urgent, overtaken, lastTerminal>>

\* Fault: the bit is set and the request answered, but nobody is woken.
DispatchPublishNoWake(h) ==
    /\ hpc[h] = "publish"
    /\ terminal' = terminal \cup {hctl[h]}
    /\ Reply(h, NO_ERROR)
    /\ UNCHANGED <<decision, alive, connected, queue, deferred, rvars,
                   claims, accepted, delivered, urgent, overtaken, lastTerminal>>

\* terminal.fetch_or
DispatchPublish(h) ==
    /\ hpc[h] = "publish"
    /\ terminal' = terminal \cup {hctl[h]}
    /\ hpc' = [hpc EXCEPT ![h] = "send"]
    /\ UNCHANGED <<decision, alive, connected, queue, deferred, hctl, rvars, history>>

\* sync_channel(8) is not full.
HasRoom == Len(queue) < QueueCap

\* tx.try_send: a Wake that finds the queue full is dropped and still answered
\* NO_ERROR, an ordinary control is answered ERROR_RETRY.
DispatchSend(h) ==
    LET c == hctl[h]
        message == IF c \in TerminalControls THEN Wake ELSE c
    IN
    /\ hpc[h] = "send"
    /\ \/ /\ connected /\ HasRoom
          /\ queue' = Append(queue, message)
          /\ accepted' = IF c \in Ordinary THEN Append(accepted, c) ELSE accepted
          /\ Reply(h, NO_ERROR)
       \/ /\ connected /\ ~HasRoom
          /\ Reply(h, IF message = Wake THEN NO_ERROR ELSE ERROR_RETRY)
          /\ UNCHANGED <<queue, accepted>>
       \/ /\ ~connected
          /\ Reply(h, ERROR_SERVICE_NOT_ACTIVE)
          /\ UNCHANGED <<queue, accepted>>
    /\ UNCHANGED <<terminal, decision, alive, connected, deferred, rvars,
                   claims, delivered, urgent, overtaken, lastTerminal>>

-----------------------------------------------------------------------------
(* The service thread: recv, recv_timeout and try_recv                     *)

\* terminal(): swap the bits for 0, Shutdown wins over Stop.
TakenTerminal == IF "Shutdown" \in terminal THEN "Shutdown" ELSE "Stop"

ReturnTerminal ==
    /\ terminal' = {}
    /\ lastTerminal' = TakenTerminal
    /\ rpc' = "idle" /\ urgent' = FALSE
    /\ UNCHANGED <<delivered, overtaken>>

ReturnOrdinary(c) ==
    /\ delivered' = Append(delivered, c)
    /\ overtaken' = (overtaken \/ urgent)
    /\ rpc' = "idle" /\ urgent' = FALSE
    /\ UNCHANGED <<terminal, lastTerminal>>

ReceiveBegin(block) ==
    /\ rpc = "idle" /\ connected
    /\ rpc' = "ready" /\ rblock' = block
    /\ urgent' = (terminal # {})
    /\ UNCHANGED <<chan, hvars, rheld, stopAcked, claims, accepted, delivered, overtaken, lastTerminal>>

\* Fault: the deferred control goes first.
ReceiveReadyDeferredFirst ==
    /\ rpc = "ready"
    /\ \/ deferred # None /\ ReturnOrdinary(deferred) /\ deferred' = None
       \/ deferred = None /\ terminal # {} /\ ReturnTerminal /\ UNCHANGED deferred
       \/ /\ deferred = None /\ terminal = {} /\ rpc' = "rx"
          /\ UNCHANGED <<terminal, deferred, delivered, urgent, overtaken, lastTerminal>>
    /\ UNCHANGED <<decision, alive, connected, queue, hvars, rblock, rheld, stopAcked, claims, accepted>>

\* ready(): a pending terminal first, then the deferred control.
ReceiveReady ==
    /\ rpc = "ready"
    /\ \/ /\ terminal # {}
          /\ ReturnTerminal
          /\ UNCHANGED deferred
       \/ /\ terminal = {} /\ deferred # None
          /\ ReturnOrdinary(deferred)
          /\ deferred' = None
       \/ /\ terminal = {} /\ deferred = None
          /\ rpc' = "rx"
          /\ UNCHANGED <<terminal, deferred, delivered, urgent, overtaken, lastTerminal>>
    /\ UNCHANGED <<decision, alive, connected, queue, hvars, rblock, rheld, stopAcked, claims, accepted>>

\* rx.recv* returned a message; a Wake goes round the loop again.
ReceiveRx ==
    /\ rpc = "rx" /\ queue # <<>>
    /\ queue' = Tail(queue)
    /\ \/ /\ Head(queue) = Wake
          /\ rpc' = "ready" /\ UNCHANGED rheld
       \/ /\ Head(queue) # Wake
          /\ rpc' = "deliver" /\ rheld' = Head(queue)
    /\ UNCHANGED <<terminal, decision, alive, connected, deferred, hvars, rblock, history>>

\* Fault: the control that gives way to the terminal is forgotten.
ReceiveDeliverForgets ==
    /\ rpc = "deliver"
    /\ IF terminal # {} THEN ReturnTerminal ELSE ReturnOrdinary(rheld)
    /\ rheld' = None
    /\ UNCHANGED <<decision, alive, connected, queue, deferred, hvars, rblock, stopAcked, claims, accepted>>

\* deliver(): a terminal that arrived meanwhile goes first.
ReceiveDeliver ==
    /\ rpc = "deliver"
    /\ \/ /\ terminal # {}
          /\ ReturnTerminal
          /\ deferred' = rheld
       \/ /\ terminal = {}
          /\ ReturnOrdinary(rheld)
          /\ UNCHANGED deferred
    /\ rheld' = None
    /\ UNCHANGED <<decision, alive, connected, queue, hvars, rblock, stopAcked, claims, accepted>>

\* rx.recv_timeout/try_recv found nothing in time.
ReceiveEmpty ==
    /\ rpc = "rx" /\ ~rblock /\ queue = <<>>
    /\ rpc' = "error"
    /\ UNCHANGED <<chan, hvars, rblock, rheld, history>>

\* Err(error) => self.terminal().ok_or(error)
ReceiveError ==
    /\ rpc = "error"
    /\ \/ /\ terminal # {}
          /\ ReturnTerminal
       \/ /\ terminal = {}
          /\ rpc' = "idle" /\ urgent' = FALSE
          /\ UNCHANGED <<terminal, delivered, overtaken, lastTerminal>>
    /\ UNCHANGED <<decision, alive, connected, queue, deferred, hvars, rblock, rheld,
                   stopAcked, claims, accepted>>

\* claim_terminal
ClaimTerminal ==
    /\ rpc = "idle" /\ connected
    /\ decision' = decision \cup {TERMINAL_COMMITTED}
    /\ claims' = claims \cup {STOP_REQUESTED \in decision}
    /\ UNCHANGED <<terminal, alive, connected, queue, deferred, hvars, rvars,
                   stopAcked, accepted, delivered, urgent, overtaken, lastTerminal>>

\* Drop for ServiceControlReceiver, then the drop of its rx field.
DropReceiver ==
    /\ rpc = "idle" /\ alive
    /\ alive' = FALSE
    /\ rpc' = "dropping"
    /\ UNCHANGED <<terminal, decision, connected, queue, deferred, hvars, rblock, rheld, history>>

DropRx ==
    /\ rpc = "dropping"
    /\ connected' = FALSE /\ queue' = <<>>
    /\ rpc' = "dropped"
    /\ UNCHANGED <<terminal, decision, alive, deferred, hvars, rblock, rheld, history>>

-----------------------------------------------------------------------------
Handler(h) ==
    \/ DispatchLoadAlive(h) \/ DispatchLoadDecision(h) \/ DispatchCas(h)
    \/ DispatchPublish(h) \/ DispatchSend(h)

Receiving ==
    \/ ReceiveReady \/ ReceiveRx \/ ReceiveDeliver
    \/ ReceiveEmpty \/ ReceiveError

Next ==
    \/ \E h \in Handlers :
          \/ \E c \in Controls : DispatchBegin(h, c)
          \/ Handler(h)
    \/ \E block \in BOOLEAN : ReceiveBegin(block)
    \/ Receiving
    \/ ClaimTerminal \/ DropReceiver \/ DropRx

Spec == Init /\ [][Next]_vars

\* A handler activation runs to its end; the service thread finishes a receive
\* that can make progress, and the bridge loop keeps calling receive until it
\* drops the channel.  The SCM need not send anything, and nothing forces the
\* service to end.
Fairness ==
    /\ \A h \in Handlers : WF_vars(Handler(h))
    /\ WF_vars(Receiving)
    /\ WF_vars(\E block \in BOOLEAN : ReceiveBegin(block))

FairSpec == Spec /\ Fairness

-----------------------------------------------------------------------------
\* Every variable has its type and the queue never exceeds its capacity.
TypeOK ==
    /\ terminal \subseteq TerminalControls
    /\ decision \subseteq {STOP_REQUESTED, TERMINAL_COMMITTED}
    /\ alive \in BOOLEAN /\ connected \in BOOLEAN
    /\ queue \in Seq(Ordinary \cup {Wake}) /\ Len(queue) <= QueueCap
    /\ deferred \in Ordinary \cup {None}
    /\ hpc \in [Handlers -> {"idle", "loadAlive", "loadDecision", "cas", "publish", "send"}]
    /\ hctl \in [Handlers -> TerminalControls \cup Ordinary \cup {None}]
    /\ rpc \in {"idle", "ready", "rx", "deliver", "error", "dropping", "dropped"}
    /\ rblock \in BOOLEAN
    /\ rheld \in Ordinary \cup {None}
    /\ stopAcked \subseteq TerminalControls
    /\ claims \subseteq BOOLEAN
    /\ accepted \in Seq(Ordinary) /\ delivered \in Seq(Ordinary)
    /\ urgent \in BOOLEAN /\ overtaken \in BOOLEAN
    /\ lastTerminal \in TerminalControls \cup {None}

\* Accepted Stop and terminal commit share one linearization point (runtime.rs,
\* the CAS in dispatch_control against the fetch_or in claim_terminal): every
\* claim returns the same answer, and once a claim has answered "no stop" no
\* Stop or Shutdown is ever answered NO_ERROR, while a Stop answered NO_ERROR
\* forces every claim to answer "stop".
ClaimLinearizes ==
    /\ claims # BOOLEAN
    /\ stopAcked # {} => claims \subseteq {TRUE}

\* What the service thread took from the queue, in its order.
Opt(x) == IF x = None THEN <<>> ELSE <<x>>

Taken == delivered \o Opt(deferred) \o Opt(rheld)

\* The ordinary controls the service thread has received, those it holds in
\* deferred or between rx and deliver, and those still queued are exactly the
\* accepted ones in acceptance order: deferring a control behind a Stop never
\* loses, repeats or reorders one, and never overwrites the single slot.
\* Going through the queue from its head, each ordinary control is the next accepted
\* one after those already taken, and the last of them is the last accepted.
OrdinaryConserved ==
    /\ deferred = None \/ rheld = None
    /\ connected =>
         /\ Len(Taken) <= Len(accepted) /\ \A n \in 1..Len(Taken) : accepted[n] = Taken[n]
         /\ \E at \in [0..Len(queue) -> 0..Len(accepted)] :
              /\ at[0] = Len(Taken) /\ at[Len(queue)] = Len(accepted)
              /\ \A n \in 1..Len(queue) :
                   \/ queue[n] = Wake /\ at[n] = at[n - 1]
                   \/ queue[n] # Wake /\ at[n] = at[n - 1] + 1 /\ accepted[at[n]] = queue[n]

\* A receive call that began with a Stop or Shutdown pending never returns an
\* ordinary control, however many are queued or deferred (ready and deliver).
StopNotOvertaken == ~overtaken

\* An acknowledged Stop reaches a service thread that keeps receiving, even one
\* blocked in recv, although its Wake may have been dropped at a full queue,
\* and a Shutdown coalesced with a Stop is delivered as a Shutdown.
AcceptedStopDelivered ==
    /\ (stopAcked # {}) ~> (lastTerminal # None \/ ~alive)
    /\ ("Shutdown" \in terminal) ~> (lastTerminal = "Shutdown" \/ ~alive)
=============================================================================
