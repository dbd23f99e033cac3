---------------------------- MODULE BrokerServer ----------------------------
(***************************************************************************)
(* The elevated broker's pipe server (servicemanager-broker/src/pipe.rs):  *)
(* the accept loop with its worker and busy-response slots, a worker and a *)
(* watchdog thread per connection, and the idle watchdog that ends the     *)
(* process.  What a request does is ServiceOps' matter; here it is         *)
(* dispatched and takes its time.                                          *)
(*                                                                         *)
(* Clients are external: they connect, send any frame, read or do not read *)
(* the answer, and go away when they like.  Time is the right of a         *)
(* watchdog to act: a lifetime always ends some day.                       *)
(***************************************************************************)
EXTENDS Naturals, FiniteSets

CONSTANTS
    Workers,       \* names for the connection threads
    MaxActive,     \* MAX_CONCURRENT_CONNECTIONS
    MaxBusy        \* MAX_BUSY_CONNECTIONS

ASSUME BrokerAssumption ==
    /\ MaxActive \in Nat \ {0} /\ MaxBusy \in Nat \ {0}
    /\ IsFiniteSet(Workers) /\ Cardinality(Workers) >= MaxActive + MaxBusy

\* MAX_PIPE_INSTANCES: the workers, the busy responses and one listener.
MaxInstances == MaxActive + MaxBusy + 1

\* What a read brings: no more frames, an unreadable or oversized frame, a body that
\* is no request, a request without the token, a request with it.
Frames == {"eof", "broken", "invalid", "badtoken", "good"}

VARIABLES
    timed,       \* an idle timeout was configured
    listener,    \* the accept loop: "create", "connect", "reserve"
    first,       \* no pipe instance was made yet
    instances,   \* open pipe instances
    active, busy,   \* the two slot counters
    work,        \* the connection threads
    activity,    \* ActivityState
    quiet,       \* the idle timeout has passed since last_activity
    exited

vars == <<timed, listener, first, instances, active, busy, work, activity, quiet, exited>>
slots == <<active, busy>>
server == <<timed, listener, first>>

Free == [pc |-> "free"]

\* A thread with its slot and its pipe: IoWatchState, the watchdog, the pipe's state,
\* and the WorkGuard (none, or whether its request was authenticated).
NewWorker(isBusy) ==
    [pc |-> IF isBusy THEN "admit" ELSE "start", busy |-> isBusy, frame |-> "eof", guard |-> "none",
     dog |-> "none", done |-> FALSE, timedOut |-> FALSE,
     connected |-> TRUE, cancelled |-> FALSE]

Init ==
    /\ timed \in BOOLEAN
    /\ listener = "create" /\ first = TRUE /\ instances = 0
    /\ active = 0 /\ busy = 0
    /\ work = [w \in Workers |-> Free]
    /\ activity = [active |-> 0, authenticated |-> 0, draining |-> FALSE, claimed |-> FALSE]
    /\ quiet = FALSE /\ exited = FALSE

Go(w, pc) == work' = [work EXCEPT ![w].pc = pc]

-----------------------------------------------------------------------------
(* Activity *)

\* admit_at refuses once the server drains.
Admissible == ~activity.draining /\ ~activity.claimed

Admit(authenticated) ==
    /\ activity' = [activity EXCEPT !.active = @ + 1,
                        !.authenticated = IF authenticated THEN @ + 1 ELSE @]
    /\ quiet' = (quiet /\ ~authenticated)

\* The drop of a WorkGuard.
FinishWork(guard) ==
    /\ activity' = [activity EXCEPT !.active = @ - 1,
                        !.authenticated = IF guard = "authenticated" THEN @ - 1 ELSE @]
    /\ quiet' = (quiet /\ guard # "authenticated")

\* Idle time passes.
TimePasses ==
    /\ ~exited /\ ~quiet /\ quiet' = TRUE
    /\ UNCHANGED <<server, instances, slots, work, activity, exited>>

\* Fault: a claim that does not wait for admitted work.
ClaimWithoutDraining ==
    LET draining == activity.draining \/ quiet
    IN  /\ ~exited /\ timed
        /\ ~activity.claimed /\ activity.authenticated = 0
        /\ activity' = [activity EXCEPT !.draining = draining, !.claimed = draining]
        /\ UNCHANGED <<server, instances, slots, work, quiet, exited>>

\* Fault: a claim that forgets that it began to drain.
ClaimWithoutMark ==
    /\ ~exited /\ timed
    /\ ~activity.claimed /\ activity.authenticated = 0
    /\ activity' = [activity EXCEPT !.claimed = quiet /\ activity.active = 0]
    /\ UNCHANGED <<server, instances, slots, work, quiet, exited>>

\* claim_idle_shutdown, which spawn_idle_watchdog calls every five seconds.
ClaimIdleShutdown ==
    LET draining == activity.draining \/ quiet
    IN  /\ ~exited /\ timed
        /\ ~activity.claimed /\ activity.authenticated = 0
        /\ activity' = [activity EXCEPT !.draining = draining,
                                        !.claimed = draining /\ activity.active = 0]
        /\ UNCHANGED <<server, instances, slots, work, quiet, exited>>

\* process::exit, after the lock was released.
Exit ==
    /\ activity.claimed /\ ~exited
    /\ exited' = TRUE
    /\ UNCHANGED <<server, instances, slots, work, activity, quiet>>

-----------------------------------------------------------------------------
(* run_server *)

\* create_pipe_instance: the kernel keeps to nMaxInstances.
CreateNamedPipe == instances < MaxInstances /\ instances' = instances + 1

\* A first failure ends the server, a later one is retried.
CreatePipeInstance ==
    /\ ~exited /\ listener = "create"
    /\ \/ /\ CreateNamedPipe
          /\ listener' = "connect" /\ first' = FALSE
          /\ UNCHANGED exited
       \/ first /\ exited' = TRUE /\ UNCHANGED <<instances, listener, first>>
    /\ UNCHANGED <<timed, slots, work, activity, quiet>>

\* connect_pipe: a client comes, or the instance is closed again.
ConnectPipe ==
    /\ ~exited /\ listener = "connect"
    /\ \/ listener' = "reserve" /\ UNCHANGED instances
       \/ listener' = "create" /\ instances' = instances - 1
    /\ UNCHANGED <<timed, first, slots, work, activity, quiet, exited>>

\* A worker slot, else a busy slot, else the client is disconnected; a thread that
\* cannot be started gives slot and instance back.
Reserve ==
    LET isBusy == active >= MaxActive
        w == CHOOSE u \in Workers : work[u] = Free
    IN  /\ ~exited /\ listener = "reserve" /\ listener' = "create"
        /\ \/ /\ isBusy => busy < MaxBusy
              /\ work' = [work EXCEPT ![w] = NewWorker(isBusy)]
              /\ active' = IF isBusy THEN active ELSE active + 1
              /\ busy' = IF isBusy THEN busy + 1 ELSE busy
              /\ UNCHANGED instances
           \/ instances' = instances - 1 /\ UNCHANGED <<work, slots>>
        /\ UNCHANGED <<timed, first, activity, quiet, exited>>

-----------------------------------------------------------------------------
(* The connection threads: handle_connection and reject_busy *)

Running(w, pc) == ~exited /\ work[w].pc = pc

\* reject_busy admits its answer first; while the server drains the client is
\* disconnected without one.
AdmitBusy(w) ==
    /\ Running(w, "admit")
    /\ \/ /\ Admissible /\ Admit(FALSE)
          /\ work' = [work EXCEPT ![w].pc = "start", ![w].guard = "anonymous"]
          /\ UNCHANGED instances
       \/ /\ ~Admissible
          /\ Go(w, "closed") /\ instances' = instances - 1
          /\ UNCHANGED <<activity, quiet>>
    /\ UNCHANGED <<server, slots, exited>>

\* Fault: the pipe handle leaks when the watchdog cannot be started.
StartLeaks(w) ==
    /\ Running(w, "start")
    /\ \/ work' = [work EXCEPT ![w].pc = IF work[w].busy THEN "reply" ELSE "loop",
                               ![w].dog = "watching"]
       \/ Go(w, "closed")
    /\ UNCHANGED <<server, instances, slots, activity, quiet, exited>>

\* Connection::new starts the watchdog, or fails and drops the pipe.
Start(w) ==
    /\ Running(w, "start")
    /\ \/ /\ work' = [work EXCEPT ![w].pc = IF work[w].busy THEN "reply" ELSE "loop",
                                  ![w].dog = "watching"]
          /\ UNCHANGED instances
       \/ Go(w, "closed") /\ instances' = instances - 1
    /\ UNCHANGED <<server, slots, activity, quiet, exited>>

\* begin_io, for a read or for a write, fails once the watchdog has fired; the I/O
\* itself is submitted later.
BeginIo(w) ==
    /\ ~exited /\ work[w].pc \in {"loop", "reply"}
    /\ Go(w, IF work[w].pc = "loop" THEN IF work[w].timedOut THEN "close" ELSE "submit_read"
             ELSE IF work[w].timedOut THEN "failed" ELSE "submit_write")
    /\ UNCHANGED <<server, instances, slots, activity, quiet, exited>>

SubmitIo(w) ==
    /\ ~exited /\ work[w].pc \in {"submit_read", "submit_write"}
    /\ Go(w, IF work[w].pc = "submit_read" THEN IF work[w].connected THEN "reading" ELSE "close"
             ELSE IF work[w].connected THEN "writing" ELSE "failed")
    /\ UNCHANGED <<server, instances, slots, activity, quiet, exited>>

\* The watchdog ended the I/O.
IoAborted(w) ==
    /\ ~exited /\ work[w].pc \in {"reading", "writing"}
    /\ work[w].cancelled \/ ~work[w].connected
    /\ work' = [work EXCEPT ![w].pc = IF @ = "reading" THEN "close" ELSE "failed",
                            ![w].cancelled = FALSE]
    /\ UNCHANGED <<server, instances, slots, activity, quiet, exited>>

\* read_frame, when the client sends or goes.
ReadFrame(w) ==
    /\ Running(w, "reading") /\ work[w].connected
    /\ \E f \in Frames :
        work' = [work EXCEPT ![w].frame = f, ![w].cancelled = FALSE,
                             ![w].pc = IF f \in {"eof", "broken"} THEN "close" ELSE "process"]
    /\ UNCHANGED <<server, instances, slots, activity, quiet, exited>>

\* process_request: the token decides what is admitted, and only an authenticated
\* request is dispatched.  While the server drains the connection is dropped.
ProcessRequest(w) ==
    LET good == work[w].frame = "good"
    IN  /\ Running(w, "process")
        /\ \/ /\ Admissible /\ Admit(good)
              /\ work' = [work EXCEPT ![w].pc = IF good THEN "dispatch" ELSE "reply",
                                      ![w].guard = IF good THEN "authenticated" ELSE "anonymous"]
           \/ ~Admissible /\ Go(w, "close") /\ UNCHANGED <<activity, quiet>>
        /\ UNCHANGED <<server, instances, slots, exited>>

\* handlers::dispatch returns.
Dispatch(w) ==
    /\ Running(w, "dispatch")
    /\ Go(w, "reply")
    /\ UNCHANGED <<server, instances, slots, activity, quiet, exited>>

\* write_frame and, for a terminal answer, FlushFileBuffers: the client took it.
WriteFrame(w) ==
    /\ Running(w, "writing") /\ work[w].connected
    /\ work' = [work EXCEPT ![w].pc = "sent", ![w].cancelled = FALSE]
    /\ UNCHANGED <<server, instances, slots, activity, quiet, exited>>

\* send returned.  A worker drops the guard of its request and goes on, unless the
\* answer was terminal; a busy response keeps its guard while the connection closes.
SendReturns(w) ==
    LET more == work[w].pc = "sent" /\ work[w].frame = "good"
    IN  /\ ~exited /\ work[w].pc \in {"sent", "failed"}
        /\ IF work[w].busy THEN Go(w, "close") /\ UNCHANGED <<activity, quiet>>
           ELSE /\ work' = [work EXCEPT ![w].pc = IF more THEN "loop" ELSE "close",
                                        ![w].guard = "none"]
                /\ FinishWork(work[w].guard)
        /\ UNCHANGED <<server, instances, slots, exited>>

\* Connection::drop: done, disconnect, and then the wait for the watchdog.
Close(w) ==
    /\ Running(w, "close")
    /\ work' = [work EXCEPT ![w].pc = "join", ![w].done = TRUE, ![w].connected = FALSE]
    /\ UNCHANGED <<server, instances, slots, activity, quiet, exited>>

JoinWatchdog(w) ==
    /\ Running(w, "join") /\ work[w].dog = "ended"
    /\ Go(w, "closed") /\ instances' = instances - 1
    /\ UNCHANGED <<server, slots, activity, quiet, exited>>

\* reject_busy's guard goes after its connection.
DropBusyGuard(w) ==
    /\ Running(w, "closed") /\ work[w].guard # "none"
    /\ FinishWork(work[w].guard)
    /\ work' = [work EXCEPT ![w].guard = "none"]
    /\ UNCHANGED <<server, instances, slots, exited>>

\* The slot is the last thing a thread drops.
ReleaseSlot(w) ==
    /\ Running(w, "closed") /\ work[w].guard = "none"
    /\ active' = IF work[w].busy THEN active ELSE active - 1
    /\ busy' = IF work[w].busy THEN busy - 1 ELSE busy
    /\ work' = [work EXCEPT ![w] = Free]
    /\ UNCHANGED <<server, instances, activity, quiet, exited>>

-----------------------------------------------------------------------------
(* connection_watchdog *)

Dog(w, state) == ~exited /\ work[w] # Free /\ work[w].dog = state

DogStops(w) ==
    /\ Dog(w, "watching") /\ work[w].done
    /\ work' = [work EXCEPT ![w].dog = "ended"]
    /\ UNCHANGED <<server, instances, slots, activity, quiet, exited>>

\* The I/O stalled, or the connection's lifetime is over.
DogFires(w) ==
    /\ Dog(w, "watching") /\ ~work[w].done
    /\ work' = [work EXCEPT ![w].dog = "fired", ![w].timedOut = TRUE]
    /\ UNCHANGED <<server, instances, slots, activity, quiet, exited>>

\* CancelIoEx finds only I/O that was submitted.
DogCancels(w) ==
    /\ Dog(w, "fired")
    /\ work' = [work EXCEPT ![w].dog = "cancelled",
                            ![w].cancelled = work[w].pc \in {"reading", "writing"}]
    /\ UNCHANGED <<server, instances, slots, activity, quiet, exited>>

\* Fault: the watchdog relies on CancelIoEx alone.
DogGoes(w) ==
    /\ Dog(w, "cancelled")
    /\ work' = [work EXCEPT ![w].dog = "ended"]
    /\ UNCHANGED <<server, instances, slots, activity, quiet, exited>>

DogDisconnects(w) ==
    /\ Dog(w, "cancelled")
    /\ work' = [work EXCEPT ![w].dog = "ended", ![w].connected = FALSE]
    /\ UNCHANGED <<server, instances, slots, activity, quiet, exited>>

-----------------------------------------------------------------------------

\* What the server's threads do without a client.
ThreadStep(w) ==
    \/ AdmitBusy(w) \/ Start(w) \/ BeginIo(w) \/ SubmitIo(w) \/ IoAborted(w)
    \/ ProcessRequest(w) \/ Dispatch(w) \/ SendReturns(w) \/ Close(w)
    \/ JoinWatchdog(w) \/ DropBusyGuard(w) \/ ReleaseSlot(w)

DogStep(w) == DogStops(w) \/ DogFires(w) \/ DogCancels(w) \/ DogDisconnects(w)

ClientStep(w) == ReadFrame(w) \/ WriteFrame(w)

Next ==
    \/ TimePasses \/ ClaimIdleShutdown \/ Exit
    \/ CreatePipeInstance \/ ConnectPipe \/ Reserve
    \/ \E w \in Workers : ThreadStep(w) \/ DogStep(w) \/ ClientStep(w)

\* Threads are scheduled, time passes, lifetimes end and dispatched operations
\* return (OperationsReturn of ServiceOps).  Clients promise nothing.
Spec ==
    /\ Init /\ [][Next]_vars
    /\ WF_vars(TimePasses) /\ WF_vars(ClaimIdleShutdown) /\ WF_vars(Exit)
    /\ \A w \in Workers : WF_vars(ThreadStep(w)) /\ WF_vars(DogStep(w))

-----------------------------------------------------------------------------
(* Properties *)

Pcs == {"admit", "start", "loop", "submit_read", "reading", "process", "dispatch",
        "reply", "submit_write", "writing", "sent", "failed", "close", "join", "closed"}

TypeOK ==
    /\ {timed, first, quiet, exited} \subseteq BOOLEAN
    /\ listener \in {"create", "connect", "reserve"}
    /\ instances \in 0 .. MaxInstances
    /\ active \in 0 .. MaxActive /\ busy \in 0 .. MaxBusy
    /\ activity \in [active : Nat, authenticated : Nat, draining : BOOLEAN, claimed : BOOLEAN]
    /\ work \in [Workers -> {Free} \cup
            [pc : Pcs, busy : BOOLEAN, frame : Frames,
             guard : {"none", "anonymous", "authenticated"},
             dog : {"none", "watching", "fired", "cancelled", "ended"},
             done : BOOLEAN, timedOut : BOOLEAN, connected : BOOLEAN, cancelled : BOOLEAN]]

\* The idle shutdown never cuts off an operation or an answer: when it is claimed, no
\* admitted request is being dispatched, answered or drained, and none can follow
\* ("Already-admitted work retains its guard through response serialization, writing
\* and draining").
NoWorkCutOff ==
    activity.claimed =>
        \A w \in Workers :
            work[w].pc \notin {"dispatch", "reply", "submit_write", "writing"}

\* The listener always gets its instance: workers and busy responses return their
\* pipe before their slot, also when a thread or a watchdog cannot be started, so the
\* limit of pipe instances is never what stops the accept loop (MAX_PIPE_INSTANCES).
ListenerReserved == listener = "create" => instances < MaxInstances

\* Noise does not keep the broker alive: when authenticated work ends for good, the
\* process exits, however busy the pipe is with rejected or silent clients
\* (claim_idle_shutdown).
IdleExit == timed => (<>[](activity.authenticated = 0) => <>exited)

\* A connection does not last: a client that sends nothing, reads nothing or never
\* goes away loses its slot, whatever step the watchdog's timeout races with
\* (connection_watchdog, Connection::drop).
SlotsReturned == \A w \in Workers : (work[w] # Free) ~> (work[w] = Free \/ exited)
=============================================================================
