--------------------------- MODULE RequestProofs ---------------------------
(***************************************************************************)
(* Theorems about the programs that take requests from a user: the front   *)
(* ends (FrontEnds), the elevated broker (BrokerServer) and the panel      *)
(* (GuiJobs).                                                              *)
(*                                                                         *)
(* Front ends: whatever command is written, they ask for the same          *)
(* operation or refuse it whole.                                           *)
(*                                                                         *)
(* The broker's bookkeeping, for every number of worker and busy slots:    *)
(* the counters of Activity, the two slot counters and the number of pipe  *)
(* instances are what the threads really hold.  That is what makes the     *)
(* idle shutdown wait for every admitted request, and the limit of pipe    *)
(* instances never stop the accept loop.                                   *)
(*                                                                         *)
(* The panel's requests, for any services, any capacity of the queue and   *)
(* any number of actions: what a view waits for is under way and is for    *)
(* what the view shows, and a refresh that is owed is marked, under way,   *)
(* or will be asked for again.                                             *)
(***************************************************************************)
EXTENDS FrontEnds, BrokerServer, GuiJobs, FiniteSetTheorems, SequenceTheorems, TLAPS

-----------------------------------------------------------------------------
(* THE BROKER *)

\* A connection thread.
Thread == [pc : Pcs, busy : BOOLEAN, frame : Frames,
           guard : {"none", "anonymous", "authenticated"},
           dog : {"none", "watching", "fired", "cancelled", "ended"},
           done : BOOLEAN, timedOut : BOOLEAN, connected : BOOLEAN, cancelled : BOOLEAN]

\* What a thread may hold: a WorkGuard, a WorkGuard of an authenticated request, a
\* slot of either kind, a pipe instance.
Guarded(t) == t # Free /\ t.guard # "none"
Trusted(t) == t # Free /\ t.guard = "authenticated"
Serving(t) == t # Free /\ ~t.busy
Rejecting(t) == t # Free /\ t.busy
Piped(t) == t # Free /\ t.pc # "closed"

Guards == {w \in Workers : Guarded(work[w])}
TrustedGuards == {w \in Workers : Trusted(work[w])}
WorkerSlots == {w \in Workers : Serving(work[w])}
BusySlots == {w \in Workers : Rejecting(work[w])}
Pipes == {w \in Workers : Piped(work[w])}

Bit(b) == IF b THEN 1 ELSE 0

\* The listener's own instance, from create_pipe_instance to the thread that gets it.
ListenerPipe == IF listener = "create" THEN 0 ELSE 1

\* Where a thread is tells whether it holds a guard: a request is admitted before it
\* is dispatched or answered and keeps its guard until send returns, a busy response
\* holds one from before Connection::new until its connection is closed.
Answering == {"dispatch", "reply", "submit_write", "writing", "sent", "failed"}

GuardRule(t) ==
    /\ t.pc = "admit" => t.busy /\ t.guard = "none"
    /\ t.pc = "start" => (t.busy <=> t.guard # "none")
    /\ t.pc \in {"loop", "submit_read", "reading", "process"} => ~t.busy /\ t.guard = "none"
    /\ t.pc \in Answering => t.guard # "none"

ServerType ==
    /\ {timed, first, quiet, exited} \subseteq BOOLEAN
    /\ listener \in {"create", "connect", "reserve"}
    /\ activity \in [active : Nat, authenticated : Nat, draining : BOOLEAN, claimed : BOOLEAN]

WorkType == work \in [Workers -> {Free} \cup Thread]

GuardInv == \A w \in Workers : work[w] # Free => GuardRule(work[w])

\* Each counter counts.
Counts ==
    /\ activity.active = Cardinality(Guards)
    /\ activity.authenticated = Cardinality(TrustedGuards)
    /\ active = Cardinality(WorkerSlots) /\ active <= MaxActive
    /\ busy = Cardinality(BusySlots) /\ busy <= MaxBusy
    /\ instances = Cardinality(Pipes) + ListenerPipe

\* A claim was made when nothing was admitted, and nothing is admitted after it.
ClaimInv == activity.claimed => activity.active = 0

IInv == ServerType /\ WorkType /\ GuardInv /\ Counts /\ ClaimInv

-----------------------------------------------------------------------------
(* Counting *)

\* Two sets that differ in one member at most differ in size by that member.
LEMMA OneMember ==
    ASSUME NEW S, IsFiniteSet(S), NEW T, NEW x, \A y : y # x => (y \in T <=> y \in S)
    PROVE  IsFiniteSet(T) /\ Cardinality(T) = Cardinality(S) + Bit(x \in T) - Bit(x \in S)
<1>0. Cardinality(S) \in Nat
  BY FS_CardinalityType
<1>1. CASE x \in T <=> x \in S
  <2>1. T = S
    BY <1>1
  <2> QED
    BY <1>0, <1>1, <2>1 DEF Bit
<1>2. CASE x \in T /\ x \notin S
  <2>1. T = S \cup {x}
    BY <1>2
  <2> QED
    BY <1>0, <1>2, <2>1, FS_AddElement DEF Bit
<1>3. CASE x \notin T /\ x \in S
  <2>1. T = S \ {x}
    BY <1>3
  <2> QED
    BY <1>0, <1>3, <2>1, FS_RemoveElement DEF Bit
<1> QED
  BY <1>1, <1>2, <1>3

\* The sets of threads are finite, their sizes are numbers.
LEMMA Finite ==
    ASSUME WorkType
    PROVE  /\ IsFiniteSet(Guards) /\ IsFiniteSet(TrustedGuards) /\ IsFiniteSet(Pipes)
           /\ IsFiniteSet(WorkerSlots) /\ IsFiniteSet(BusySlots)
           /\ Cardinality(Guards) \in Nat /\ Cardinality(TrustedGuards) \in Nat /\ Cardinality(Pipes) \in Nat
           /\ Cardinality(WorkerSlots) \in Nat /\ Cardinality(BusySlots) \in Nat
<1>1. /\ Guards \subseteq Workers /\ TrustedGuards \subseteq Workers /\ Pipes \subseteq Workers
      /\ WorkerSlots \subseteq Workers /\ BusySlots \subseteq Workers
  BY DEF Guards, TrustedGuards, Pipes, WorkerSlots, BusySlots
<1> QED
  BY <1>1, FS_Subset, FS_CardinalityType, BrokerAssumption

\* When one thread moves, each count changes by what that thread took or gave back.
LEMMA ThreadMoves ==
    ASSUME WorkType, NEW w \in Workers, NEW r \in {Free} \cup Thread, work' = [work EXCEPT ![w] = r]
    PROVE  /\ WorkType'
           /\ Cardinality(Guards') = Cardinality(Guards) + Bit(Guarded(r)) - Bit(Guarded(work[w]))
           /\ Cardinality(TrustedGuards') =
                  Cardinality(TrustedGuards) + Bit(Trusted(r)) - Bit(Trusted(work[w]))
           /\ Cardinality(WorkerSlots') =
                  Cardinality(WorkerSlots) + Bit(Serving(r)) - Bit(Serving(work[w]))
           /\ Cardinality(BusySlots') =
                  Cardinality(BusySlots) + Bit(Rejecting(r)) - Bit(Rejecting(work[w]))
           /\ Cardinality(Pipes') = Cardinality(Pipes) + Bit(Piped(r)) - Bit(Piped(work[w]))
<1>1. WorkType'
  BY DEF WorkType
<1>2. work'[w] = r /\ \A u \in Workers : u # w => work'[u] = work[u]
  BY DEF WorkType
<1>3. Cardinality(WorkerSlots') = Cardinality(WorkerSlots) + Bit(Serving(r)) - Bit(Serving(work[w]))
  <2>1. \A y : y # w => (y \in WorkerSlots' <=> y \in WorkerSlots)
    BY <1>2 DEF WorkerSlots, Serving
  <2>2. (w \in WorkerSlots' <=> Serving(r)) /\ (w \in WorkerSlots <=> Serving(work[w]))
    BY <1>2 DEF WorkerSlots
  <2> QED
    BY <2>1, <2>2, Finite, OneMember DEF Bit
<1>7. Cardinality(BusySlots') = Cardinality(BusySlots) + Bit(Rejecting(r)) - Bit(Rejecting(work[w]))
  <2>1. \A y : y # w => (y \in BusySlots' <=> y \in BusySlots)
    BY <1>2 DEF BusySlots, Rejecting
  <2>2. (w \in BusySlots' <=> Rejecting(r)) /\ (w \in BusySlots <=> Rejecting(work[w]))
    BY <1>2 DEF BusySlots
  <2> QED
    BY <2>1, <2>2, Finite, OneMember DEF Bit
<1>4. Cardinality(Guards') = Cardinality(Guards) + Bit(Guarded(r)) - Bit(Guarded(work[w]))
  <2>1. \A y : y # w => (y \in Guards' <=> y \in Guards)
    BY <1>2 DEF Guards, Guarded
  <2>2. (w \in Guards' <=> Guarded(r)) /\ (w \in Guards <=> Guarded(work[w]))
    BY <1>2 DEF Guards
  <2> QED
    BY <2>1, <2>2, Finite, OneMember DEF Bit
<1>5. Cardinality(TrustedGuards') = Cardinality(TrustedGuards) + Bit(Trusted(r)) - Bit(Trusted(work[w]))
  <2>1. \A y : y # w => (y \in TrustedGuards' <=> y \in TrustedGuards)
    BY <1>2 DEF TrustedGuards, Trusted
  <2>2. (w \in TrustedGuards' <=> Trusted(r)) /\ (w \in TrustedGuards <=> Trusted(work[w]))
    BY <1>2 DEF TrustedGuards
  <2> QED
    BY <2>1, <2>2, Finite, OneMember DEF Bit
<1>6. Cardinality(Pipes') = Cardinality(Pipes) + Bit(Piped(r)) - Bit(Piped(work[w]))
  <2>1. \A y : y # w => (y \in Pipes' <=> y \in Pipes)
    BY <1>2 DEF Pipes, Piped
  <2>2. (w \in Pipes' <=> Piped(r)) /\ (w \in Pipes <=> Piped(work[w]))
    BY <1>2 DEF Pipes
  <2> QED
    BY <2>1, <2>2, Finite, OneMember DEF Bit
<1> QED
  BY <1>1, <1>3, <1>4, <1>5, <1>6, <1>7

-----------------------------------------------------------------------------
(* The steps *)

Untouched == <<server, instances, slots, activity, quiet, exited>>

\* What a thread holds is the same after its step.
SameHoldings(t, r) ==
    r.guard = t.guard /\ r.busy = t.busy /\ (r.pc = "closed" <=> t.pc = "closed")

\* A thread past its Free state is a proper thread, and keeps the rule of the guard.
LEMMA ThreadAt ==
    ASSUME IInv, NEW w \in Workers, work[w] # Free
    PROVE  work[w] \in Thread /\ GuardRule(work[w])
BY DEF IInv, WorkType, GuardInv

\* A step that takes and gives back nothing keeps the invariant.
LEMMA QuietThread ==
    ASSUME IInv, NEW w \in Workers, NEW r \in Thread, work[w] \in Thread,
           work' = [work EXCEPT ![w] = r], GuardRule(r), SameHoldings(work[w], r), UNCHANGED Untouched
    PROVE  IInv'
<1>a. ServerType /\ WorkType /\ GuardInv /\ Counts /\ ClaimInv
  BY DEF IInv
<1>f. r # Free /\ work[w] # Free
  BY DEF Free, Thread, Pcs
<1>1. ServerType' /\ ClaimInv'
  BY <1>a DEF ServerType, ClaimInv, Untouched, server
<1>2. WorkType' /\ GuardInv'
  BY <1>a DEF WorkType, GuardInv
<1>3. /\ Cardinality(Guards') = Cardinality(Guards)
      /\ Cardinality(TrustedGuards') = Cardinality(TrustedGuards)
      /\ Cardinality(WorkerSlots') = Cardinality(WorkerSlots)
      /\ Cardinality(BusySlots') = Cardinality(BusySlots)
      /\ Cardinality(Pipes') = Cardinality(Pipes)
  <2>1. /\ Guarded(r) <=> Guarded(work[w])
        /\ Trusted(r) <=> Trusted(work[w])
        /\ Serving(r) <=> Serving(work[w])
        /\ Rejecting(r) <=> Rejecting(work[w])
        /\ Piped(r) <=> Piped(work[w])
    BY <1>f DEF SameHoldings, Guarded, Trusted, Serving, Rejecting, Piped
  <2>2. /\ Cardinality(Guards') = Cardinality(Guards) + Bit(Guarded(r)) - Bit(Guarded(work[w]))
        /\ Cardinality(TrustedGuards') =
               Cardinality(TrustedGuards) + Bit(Trusted(r)) - Bit(Trusted(work[w]))
        /\ Cardinality(WorkerSlots') =
               Cardinality(WorkerSlots) + Bit(Serving(r)) - Bit(Serving(work[w]))
        /\ Cardinality(BusySlots') =
               Cardinality(BusySlots) + Bit(Rejecting(r)) - Bit(Rejecting(work[w]))
        /\ Cardinality(Pipes') = Cardinality(Pipes) + Bit(Piped(r)) - Bit(Piped(work[w]))
    BY <1>a, ThreadMoves
  <2>3. /\ Cardinality(Guards) \in Nat /\ Cardinality(TrustedGuards) \in Nat
        /\ Cardinality(WorkerSlots) \in Nat /\ Cardinality(BusySlots) \in Nat /\ Cardinality(Pipes) \in Nat
    BY <1>a, Finite
  <2> QED
    BY <2>1, <2>2, <2>3 DEF Bit
<1>4. Counts'
  BY <1>a, <1>3 DEF Counts, ListenerPipe, Untouched, server, slots
<1> QED
  BY <1>1, <1>2, <1>4 DEF IInv

\* The steps of a thread or its watchdog that only move it on.
QuietStep(w) ==
    \/ BeginIo(w) \/ SubmitIo(w) \/ IoAborted(w) \/ Dispatch(w) \/ WriteFrame(w) \/ Close(w)
    \/ DogStops(w) \/ DogFires(w) \/ DogCancels(w) \/ DogDisconnects(w) \/ ReadFrame(w)

\* They keep the invariant.
LEMMA QuietSteps == ASSUME IInv, NEW w \in Workers, QuietStep(w) PROVE IInv'
<1>f. Free.pc = "free" /\ "free" \notin Pcs
  BY DEF Free, Pcs
<1>1. CASE BeginIo(w)
  <2> DEFINE r == [work[w] EXCEPT !.pc = IF @ = "loop"
                                       THEN IF work[w].timedOut THEN "close" ELSE "submit_read"
                                       ELSE IF work[w].timedOut THEN "failed" ELSE "submit_write"]
  <2>1. work[w] \in Thread /\ GuardRule(work[w])
    BY <1>1, <1>f, ThreadAt DEF BeginIo, Go
  <2>2. r \in Thread
    BY <2>1 DEF Thread, Pcs
  <2>3. GuardRule(r) /\ SameHoldings(work[w], r)
    <3>0. r.guard = work[w].guard /\ r.busy = work[w].busy
      BY <2>1 DEF Thread
    <3>1. CASE work[w].pc = "loop"
      <4>1. r.pc \in {"close", "submit_read"}
        BY <2>1, <3>1 DEF Thread
      <4> QED
        BY <2>1, <3>0, <3>1, <4>1 DEF GuardRule, SameHoldings, Answering
    <3>2. CASE work[w].pc = "reply"
      <4>1. r.pc \in {"failed", "submit_write"}
        BY <2>1, <3>2 DEF Thread
      <4> QED
        BY <2>1, <3>0, <3>2, <4>1 DEF GuardRule, SameHoldings, Answering
    <3> QED
      BY <1>1, <3>1, <3>2 DEF BeginIo
  <2>4. work' = [work EXCEPT ![w] = r] /\ UNCHANGED Untouched
    BY <1>1 DEF BeginIo, Go, Untouched, IInv, WorkType
  <2> QED
    BY <2>1, <2>2, <2>3, <2>4, QuietThread
<1>2. CASE SubmitIo(w)
  <2> DEFINE r == [work[w] EXCEPT !.pc = IF @ = "submit_read"
                                       THEN IF work[w].connected THEN "reading" ELSE "close"
                                       ELSE IF work[w].connected THEN "writing" ELSE "failed"]
  <2>1. work[w] \in Thread /\ GuardRule(work[w])
    BY <1>2, <1>f, ThreadAt DEF SubmitIo, Go
  <2>2. r \in Thread
    BY <2>1 DEF Thread, Pcs
  <2>3. GuardRule(r) /\ SameHoldings(work[w], r)
    BY <1>2, <2>1 DEF SubmitIo, Go, Thread, GuardRule, SameHoldings, Answering, Pcs
  <2>4. work' = [work EXCEPT ![w] = r] /\ UNCHANGED Untouched
    BY <1>2 DEF SubmitIo, Go, Untouched, IInv, WorkType
  <2> QED
    BY <2>1, <2>2, <2>3, <2>4, QuietThread
<1>3. CASE IoAborted(w)
  <2> DEFINE r == [work[w] EXCEPT !.pc = IF @ = "reading" THEN "close" ELSE "failed", !.cancelled = FALSE]
  <2>1. work[w] \in Thread /\ GuardRule(work[w])
    BY <1>3, <1>f, ThreadAt DEF IoAborted
  <2>2. r \in Thread
    BY <2>1 DEF Thread, Pcs
  <2>3. GuardRule(r) /\ SameHoldings(work[w], r)
    BY <1>3, <2>1 DEF IoAborted, Thread, GuardRule, SameHoldings, Answering, Pcs
  <2>4. work' = [work EXCEPT ![w] = r] /\ UNCHANGED Untouched
    BY <1>3 DEF IoAborted, Untouched, IInv, WorkType
  <2> QED
    BY <2>1, <2>2, <2>3, <2>4, QuietThread
<1>4. CASE Dispatch(w)
  <2> DEFINE r == [work[w] EXCEPT !.pc = "reply"]
  <2>1. work[w] \in Thread /\ GuardRule(work[w])
    BY <1>4, <1>f, ThreadAt DEF Dispatch, Running, Go
  <2>2. r \in Thread
    BY <2>1 DEF Thread, Pcs
  <2>3. GuardRule(r) /\ SameHoldings(work[w], r)
    BY <1>4, <2>1 DEF Dispatch, Running, Go, Thread, GuardRule, SameHoldings, Answering, Pcs
  <2>4. work' = [work EXCEPT ![w] = r] /\ UNCHANGED Untouched
    BY <1>4 DEF Dispatch, Running, Go, Untouched, IInv, WorkType
  <2> QED
    BY <2>1, <2>2, <2>3, <2>4, QuietThread
<1>5. CASE WriteFrame(w)
  <2> DEFINE r == [work[w] EXCEPT !.pc = "sent", !.cancelled = FALSE]
  <2>1. work[w] \in Thread /\ GuardRule(work[w])
    BY <1>5, <1>f, ThreadAt DEF WriteFrame, Running
  <2>2. r \in Thread
    BY <2>1 DEF Thread, Pcs
  <2>3. GuardRule(r) /\ SameHoldings(work[w], r)
    BY <1>5, <2>1 DEF WriteFrame, Running, Thread, GuardRule, SameHoldings, Answering, Pcs
  <2>4. work' = [work EXCEPT ![w] = r] /\ UNCHANGED Untouched
    BY <1>5 DEF WriteFrame, Running, Untouched, IInv, WorkType
  <2> QED
    BY <2>1, <2>2, <2>3, <2>4, QuietThread
<1>6. CASE Close(w)
  <2> DEFINE r == [work[w] EXCEPT !.pc = "join", !.done = TRUE, !.connected = FALSE]
  <2>1. work[w] \in Thread /\ GuardRule(work[w])
    BY <1>6, <1>f, ThreadAt DEF Close, Running
  <2>2. r \in Thread
    BY <2>1 DEF Thread, Pcs
  <2>3. GuardRule(r) /\ SameHoldings(work[w], r)
    BY <1>6, <2>1 DEF Close, Running, Thread, GuardRule, SameHoldings, Answering, Pcs
  <2>4. work' = [work EXCEPT ![w] = r] /\ UNCHANGED Untouched
    BY <1>6 DEF Close, Running, Untouched, IInv, WorkType
  <2> QED
    BY <2>1, <2>2, <2>3, <2>4, QuietThread
<1>7. CASE DogStops(w)
  <2> DEFINE r == [work[w] EXCEPT !.dog = "ended"]
  <2>1. work[w] \in Thread /\ GuardRule(work[w])
    BY <1>7, <1>f, ThreadAt DEF DogStops, Dog
  <2>2. r \in Thread
    BY <2>1 DEF Thread, Pcs
  <2>3. GuardRule(r) /\ SameHoldings(work[w], r)
    BY <1>7, <2>1 DEF DogStops, Dog, Thread, GuardRule, SameHoldings, Answering, Pcs
  <2>4. work' = [work EXCEPT ![w] = r] /\ UNCHANGED Untouched
    BY <1>7 DEF DogStops, Dog, Untouched, IInv, WorkType
  <2> QED
    BY <2>1, <2>2, <2>3, <2>4, QuietThread
<1>8. CASE DogFires(w)
  <2> DEFINE r == [work[w] EXCEPT !.dog = "fired", !.timedOut = TRUE]
  <2>1. work[w] \in Thread /\ GuardRule(work[w])
    BY <1>8, <1>f, ThreadAt DEF DogFires, Dog
  <2>2. r \in Thread
    BY <2>1 DEF Thread, Pcs
  <2>3. GuardRule(r) /\ SameHoldings(work[w], r)
    BY <1>8, <2>1 DEF DogFires, Dog, Thread, GuardRule, SameHoldings, Answering, Pcs
  <2>4. work' = [work EXCEPT ![w] = r] /\ UNCHANGED Untouched
    BY <1>8 DEF DogFires, Dog, Untouched, IInv, WorkType
  <2> QED
    BY <2>1, <2>2, <2>3, <2>4, QuietThread
<1>9. CASE DogCancels(w)
  <2> DEFINE r == [work[w] EXCEPT !.dog = "cancelled", !.cancelled = work[w].pc \in {"reading", "writing"}]
  <2>1. work[w] \in Thread /\ GuardRule(work[w])
    BY <1>9, <1>f, ThreadAt DEF DogCancels, Dog
  <2>2. r \in Thread
    <3>1. (work[w].pc \in {"reading", "writing"}) \in BOOLEAN
      BY ONLY SMT
    <3> QED
      BY <2>1, <3>1 DEF Thread
  <2>3. GuardRule(r) /\ SameHoldings(work[w], r)
    BY <1>9, <2>1 DEF DogCancels, Dog, Thread, GuardRule, SameHoldings, Answering, Pcs
  <2>4. work' = [work EXCEPT ![w] = r] /\ UNCHANGED Untouched
    BY <1>9 DEF DogCancels, Dog, Untouched, IInv, WorkType
  <2> QED
    BY <2>1, <2>2, <2>3, <2>4, QuietThread
<1>10. CASE DogDisconnects(w)
  <2> DEFINE r == [work[w] EXCEPT !.dog = "ended", !.connected = FALSE]
  <2>1. work[w] \in Thread /\ GuardRule(work[w])
    BY <1>10, <1>f, ThreadAt DEF DogDisconnects, Dog
  <2>2. r \in Thread
    BY <2>1 DEF Thread, Pcs
  <2>3. GuardRule(r) /\ SameHoldings(work[w], r)
    BY <1>10, <2>1 DEF DogDisconnects, Dog, Thread, GuardRule, SameHoldings, Answering, Pcs
  <2>4. work' = [work EXCEPT ![w] = r] /\ UNCHANGED Untouched
    BY <1>10 DEF DogDisconnects, Dog, Untouched, IInv, WorkType
  <2> QED
    BY <2>1, <2>2, <2>3, <2>4, QuietThread
<1>11. CASE ReadFrame(w)
  <2>0. PICK f \in Frames :
            work' = [work EXCEPT ![w].frame = f, ![w].cancelled = FALSE,
                                 ![w].pc = IF f \in {"eof", "broken"} THEN "close" ELSE "process"]
    BY <1>11 DEF ReadFrame
  <2> DEFINE r == [work[w] EXCEPT !.frame = f, !.cancelled = FALSE,
                                  !.pc = IF f \in {"eof", "broken"} THEN "close" ELSE "process"]
  <2>1. work[w] \in Thread /\ GuardRule(work[w])
    BY <1>11, <1>f, ThreadAt DEF ReadFrame, Running
  <2>2. r \in Thread
    BY <2>1 DEF Thread, Pcs
  <2>3. GuardRule(r) /\ SameHoldings(work[w], r)
    BY <1>11, <2>1 DEF ReadFrame, Running, Thread, GuardRule, SameHoldings, Answering, Pcs
  <2>4. work' = [work EXCEPT ![w] = r] /\ UNCHANGED Untouched
    BY <1>11, <2>0 DEF ReadFrame, Untouched, IInv, WorkType
  <2> QED
    BY <2>1, <2>2, <2>3, <2>4, QuietThread
<1> QED
  BY <1>1, <1>2, <1>3, <1>4, <1>5, <1>6, <1>7, <1>8, <1>9, <1>10, <1>11 DEF QuietStep

-----------------------------------------------------------------------------
(* Steps that take or give back something *)

\* A guard that is held is counted, also when the shutdown was claimed: so a claim
\* leaves no guard behind.
LEMMA ClaimedIsIdle ==
    ASSUME IInv, activity.claimed, NEW w \in Workers
    PROVE  ~Guarded(work[w])
<1>1. Cardinality(Guards) = 0 /\ IsFiniteSet(Guards)
  BY Finite DEF IInv, Counts, ClaimInv
<1>2. Guards = {}
  BY <1>1, FS_EmptySet
<1> QED
  BY <1>2 DEF Guards

\* The books of a step that makes r of the thread w, and leaves activity with a
\* guards, b of them authenticated: every counter changes by what the thread takes or
\* gives back, and no guard is taken once the shutdown is claimed.
Booked(w, r, a, b) ==
    /\ activity' = [activity EXCEPT !.active = a, !.authenticated = b]
    /\ a = activity.active + Bit(Guarded(r)) - Bit(Guarded(work[w]))
    /\ b = activity.authenticated + Bit(Trusted(r)) - Bit(Trusted(work[w]))
    /\ activity.claimed => ~Guarded(r)
    /\ active' = active + Bit(Serving(r)) - Bit(Serving(work[w])) /\ active' <= MaxActive
    /\ busy' = busy + Bit(Rejecting(r)) - Bit(Rejecting(work[w])) /\ busy' <= MaxBusy
    /\ instances' + ListenerPipe =
           instances + ListenerPipe' + Bit(Piped(r)) - Bit(Piped(work[w]))
    /\ instances' \in Int
    /\ listener' \in {"create", "connect", "reserve"} /\ quiet' \in BOOLEAN
    /\ UNCHANGED <<timed, first, exited>>

\* A step with such books keeps the invariant.
LEMMA BookedThread ==
    ASSUME IInv, NEW w \in Workers, NEW r \in {Free} \cup Thread,
           work' = [work EXCEPT ![w] = r], r # Free => GuardRule(r),
           NEW a, NEW b, Booked(w, r, a, b)
    PROVE  IInv'
<1>a. ServerType /\ WorkType /\ GuardInv /\ Counts /\ ClaimInv
  BY DEF IInv
<1>1. WorkType'
  BY <1>a DEF WorkType
<1>2. GuardInv'
  BY <1>a DEF WorkType, GuardInv
<1>3. /\ Cardinality(Guards') = Cardinality(Guards) + Bit(Guarded(r)) - Bit(Guarded(work[w]))
      /\ Cardinality(TrustedGuards') =
             Cardinality(TrustedGuards) + Bit(Trusted(r)) - Bit(Trusted(work[w]))
      /\ Cardinality(WorkerSlots') =
             Cardinality(WorkerSlots) + Bit(Serving(r)) - Bit(Serving(work[w]))
      /\ Cardinality(BusySlots') =
             Cardinality(BusySlots) + Bit(Rejecting(r)) - Bit(Rejecting(work[w]))
      /\ Cardinality(Pipes') = Cardinality(Pipes) + Bit(Piped(r)) - Bit(Piped(work[w]))
  BY <1>a, ThreadMoves
<1>4. a = Cardinality(Guards') /\ b = Cardinality(TrustedGuards')
  BY <1>a, <1>3 DEF Counts, Booked
<1>5. a \in Nat /\ b \in Nat
  <2>1. Cardinality(Guards') \in Nat /\ Cardinality(TrustedGuards') \in Nat
    <3>1. Guards' \subseteq Workers /\ TrustedGuards' \subseteq Workers
      BY DEF Guards, TrustedGuards
    <3> QED
      BY <3>1, FS_Subset, FS_CardinalityType, BrokerAssumption
  <2> QED
    BY <1>4, <2>1
<1>6. activity'.active = a /\ activity'.authenticated = b /\ activity'.claimed = activity.claimed
  BY <1>a DEF ServerType, Booked
<1>7. ServerType'
  BY <1>a, <1>5 DEF ServerType, Booked
<1>8. ClaimInv'
  BY <1>a, <1>5, <1>6 DEF ClaimInv, Bit, Booked
<1>9. Counts'
  <2>1. Cardinality(Pipes) \in Nat
    BY <1>a, Finite
  <2>2. active' = Cardinality(WorkerSlots') /\ busy' = Cardinality(BusySlots')
    BY <1>a, <1>3 DEF Counts, Booked
  <2>3. instances' = Cardinality(Pipes') + ListenerPipe'
    BY <1>a, <1>3, <2>1 DEF Counts, Bit, Booked, ListenerPipe
  <2> QED
    BY <1>4, <1>6, <2>2, <2>3 DEF Counts, Booked
<1> QED
  BY <1>1, <1>2, <1>7, <1>8, <1>9 DEF IInv

\* Every counter is a natural number, because it counts.
LEMMA Numbers ==
    ASSUME IInv
    PROVE  /\ activity.active \in Nat /\ activity.authenticated \in Nat
           /\ active \in Nat /\ busy \in Nat /\ instances \in Nat
<1>1. WorkType /\ Counts
  BY DEF IInv
<1>2. /\ Cardinality(Guards) \in Nat /\ Cardinality(TrustedGuards) \in Nat /\ Cardinality(Pipes) \in Nat
      /\ Cardinality(WorkerSlots) \in Nat /\ Cardinality(BusySlots) \in Nat
  BY <1>1, Finite
<1>3. ListenerPipe \in Nat
  BY DEF ListenerPipe
<1> QED
  BY <1>1, <1>2, <1>3 DEF Counts

\* The steps that admit work or drop a guard, and those that close a pipe.
BookedStep(w) ==
    \/ AdmitBusy(w) \/ Start(w) \/ ProcessRequest(w) \/ SendReturns(w)
    \/ JoinWatchdog(w) \/ DropBusyGuard(w) \/ ReleaseSlot(w)

\* They keep the invariant.
LEMMA BookedSteps == ASSUME IInv, NEW w \in Workers, BookedStep(w) PROVE IInv'
<1>a. ServerType /\ WorkType /\ GuardInv /\ Counts /\ ClaimInv
  BY DEF IInv
<1>f. Free.pc = "free" /\ "free" \notin Pcs
  BY DEF Free, Pcs
<1>n. /\ activity.active \in Nat /\ activity.authenticated \in Nat /\ active \in Nat /\ busy \in Nat
      /\ instances \in Nat
  BY Numbers
<1>b. active <= MaxActive /\ busy <= MaxBusy
      /\ listener \in {"create", "connect", "reserve"} /\ quiet \in BOOLEAN
  BY <1>a DEF Counts, ServerType
<1>e. activity = [activity EXCEPT !.active = activity.active, !.authenticated = activity.authenticated]
  BY <1>a DEF ServerType
<1>t. work[w] # Free => work[w] \in Thread /\ GuardRule(work[w])
  BY ThreadAt
<1>r. \A r \in Thread : r # Free
  BY DEF Thread, Free, Pcs
<1>c. MaxActive \in Nat /\ MaxBusy \in Nat
  BY BrokerAssumption
<1>i. activity.claimed => ~Guarded(work[w])
  BY ClaimedIsIdle
<1>1. CASE AdmitBusy(w)
  <2>1. work[w] \in Thread /\ GuardRule(work[w]) /\ work[w] # Free
        /\ work[w].pc = "admit" /\ work[w].busy /\ work[w].guard = "none"
    BY <1>1, <1>f, <1>t DEF AdmitBusy, Running, GuardRule, Answering
  <2>2. CASE Admissible /\ Admit(FALSE)
             /\ work' = [work EXCEPT ![w].pc = "start", ![w].guard = "anonymous"] /\ UNCHANGED instances
    <3> DEFINE r == [work[w] EXCEPT !.pc = "start", !.guard = "anonymous"]
               a == activity.active + 1
               b == activity.authenticated
    <3>1. r \in Thread /\ GuardRule(r)
          /\ r.guard = "anonymous" /\ r.busy = work[w].busy /\ r.pc = "start"
      BY <2>1, <2>2 DEF Thread, Pcs, GuardRule, Answering
    <3>2. work' = [work EXCEPT ![w] = r]
      BY <1>a, <1>1, <2>2 DEF WorkType, Go, AdmitBusy
    <3>3. activity' = [activity EXCEPT !.active = a, !.authenticated = b]
          /\ quiet' \in BOOLEAN /\ ~activity.claimed
      BY <1>a, <1>b, <1>e, <1>1, <2>1, <2>2 DEF AdmitBusy, ServerType, Admit, Admissible
    <3> HIDE DEF r
    <3>4. Booked(w, r, a, b)
      BY <1>1, <1>n, <1>b, <1>r, <1>c, <1>i, <2>1, <2>2, <3>1, <3>3
         DEF Booked, ListenerPipe, Bit, Guarded, Trusted, Serving, Rejecting, Piped,
             AdmitBusy, server, slots
    <3> HIDE DEF a, b
    <3> QED
      BY <3>1, <3>2, <3>4, BookedThread
  <2>3. CASE ~Admissible /\ Go(w, "closed") /\ instances' = instances - 1 /\ UNCHANGED <<activity, quiet>>
    <3> DEFINE r == [work[w] EXCEPT !.pc = "closed"]
               a == activity.active
               b == activity.authenticated
    <3>1. r \in Thread /\ GuardRule(r)
          /\ r.guard = work[w].guard /\ r.busy = work[w].busy /\ r.pc = "closed"
      BY <2>1, <2>3 DEF Thread, Pcs, GuardRule, Answering
    <3>2. work' = [work EXCEPT ![w] = r]
      BY <1>a, <1>1, <2>3 DEF WorkType, Go, AdmitBusy
    <3>3. activity' = [activity EXCEPT !.active = a, !.authenticated = b]
          /\ quiet' \in BOOLEAN
      BY <1>a, <1>b, <1>e, <1>1, <2>1, <2>3 DEF AdmitBusy, ServerType
    <3> HIDE DEF r
    <3>4. Booked(w, r, a, b)
      BY <1>1, <1>n, <1>b, <1>r, <1>c, <1>i, <2>1, <2>3, <3>1, <3>3
         DEF Booked, ListenerPipe, Bit, Guarded, Trusted, Serving, Rejecting, Piped,
             AdmitBusy, server, slots
    <3> HIDE DEF a, b
    <3> QED
      BY <3>1, <3>2, <3>4, BookedThread
  <2> QED
    BY <1>1, <2>2, <2>3 DEF AdmitBusy
<1>2. CASE Start(w)
  <2>1. work[w] \in Thread /\ GuardRule(work[w]) /\ work[w] # Free
        /\ work[w].pc = "start"
    BY <1>2, <1>f, <1>t DEF Start, Running, GuardRule, Answering
  <2>2. CASE /\ work' = [work EXCEPT ![w].pc = IF work[w].busy THEN "reply" ELSE "loop",
                                     ![w].dog = "watching"]
             /\ UNCHANGED instances
    <3> DEFINE r == [work[w] EXCEPT !.pc = IF work[w].busy THEN "reply" ELSE "loop", !.dog = "watching"]
               a == activity.active
               b == activity.authenticated
    <3>1. r \in Thread /\ GuardRule(r)
          /\ r.guard = work[w].guard /\ r.busy = work[w].busy /\ r.pc # "closed"
      BY <2>1, <2>2 DEF Thread, Pcs, GuardRule, Answering
    <3>2. work' = [work EXCEPT ![w] = r]
      BY <1>a, <1>2, <2>2 DEF WorkType, Go, Start
    <3>3. activity' = [activity EXCEPT !.active = a, !.authenticated = b]
          /\ quiet' \in BOOLEAN
      BY <1>a, <1>b, <1>e, <1>2, <2>1, <2>2 DEF Start, ServerType
    <3> HIDE DEF r
    <3>4. Booked(w, r, a, b)
      BY <1>2, <1>n, <1>b, <1>r, <1>c, <1>i, <2>1, <2>2, <3>1, <3>3
         DEF Booked, ListenerPipe, Bit, Guarded, Trusted, Serving, Rejecting, Piped,
             Start, server, slots
    <3> HIDE DEF a, b
    <3> QED
      BY <3>1, <3>2, <3>4, BookedThread
  <2>3. CASE Go(w, "closed") /\ instances' = instances - 1
    <3> DEFINE r == [work[w] EXCEPT !.pc = "closed"]
               a == activity.active
               b == activity.authenticated
    <3>1. r \in Thread /\ GuardRule(r)
          /\ r.guard = work[w].guard /\ r.busy = work[w].busy /\ r.pc = "closed"
      BY <2>1, <2>3 DEF Thread, Pcs, GuardRule, Answering
    <3>2. work' = [work EXCEPT ![w] = r]
      BY <1>a, <1>2, <2>3 DEF WorkType, Go, Start
    <3>3. activity' = [activity EXCEPT !.active = a, !.authenticated = b]
          /\ quiet' \in BOOLEAN
      BY <1>a, <1>b, <1>e, <1>2, <2>1, <2>3 DEF Start, ServerType
    <3> HIDE DEF r
    <3>4. Booked(w, r, a, b)
      BY <1>2, <1>n, <1>b, <1>r, <1>c, <1>i, <2>1, <2>3, <3>1, <3>3
         DEF Booked, ListenerPipe, Bit, Guarded, Trusted, Serving, Rejecting, Piped,
             Start, server, slots
    <3> HIDE DEF a, b
    <3> QED
      BY <3>1, <3>2, <3>4, BookedThread
  <2> QED
    BY <1>2, <2>2, <2>3 DEF Start
<1>3. CASE ProcessRequest(w)
  <2>1. work[w] \in Thread /\ GuardRule(work[w]) /\ work[w] # Free
        /\ work[w].pc = "process" /\ work[w].guard = "none" /\ ~work[w].busy
    BY <1>3, <1>f, <1>t DEF ProcessRequest, Running, GuardRule, Answering
  <2>2. CASE work[w].frame = "good" /\ Admissible /\ Admit(TRUE)
             /\ work' = [work EXCEPT ![w].pc = "dispatch", ![w].guard = "authenticated"]
    <3> DEFINE r == [work[w] EXCEPT !.pc = "dispatch", !.guard = "authenticated"]
               a == activity.active + 1
               b == activity.authenticated + 1
    <3>1. r \in Thread /\ GuardRule(r)
          /\ r.guard = "authenticated" /\ r.busy = work[w].busy /\ r.pc = "dispatch"
      BY <2>1, <2>2 DEF Thread, Pcs, GuardRule, Answering
    <3>2. work' = [work EXCEPT ![w] = r]
      BY <1>a, <1>3, <2>2 DEF WorkType, Go, ProcessRequest
    <3>3. activity' = [activity EXCEPT !.active = a, !.authenticated = b]
          /\ quiet' \in BOOLEAN /\ ~activity.claimed
      BY <1>a, <1>b, <1>e, <1>3, <2>1, <2>2 DEF ProcessRequest, ServerType, Admit, Admissible
    <3> HIDE DEF r
    <3>4. Booked(w, r, a, b)
      BY <1>3, <1>n, <1>b, <1>r, <1>c, <1>i, <2>1, <2>2, <3>1, <3>3
         DEF Booked, ListenerPipe, Bit, Guarded, Trusted, Serving, Rejecting, Piped,
             ProcessRequest, server, slots
    <3> HIDE DEF a, b
    <3> QED
      BY <3>1, <3>2, <3>4, BookedThread
  <2>3. CASE work[w].frame # "good" /\ Admissible /\ Admit(FALSE)
             /\ work' = [work EXCEPT ![w].pc = "reply", ![w].guard = "anonymous"]
    <3> DEFINE r == [work[w] EXCEPT !.pc = "reply", !.guard = "anonymous"]
               a == activity.active + 1
               b == activity.authenticated
    <3>1. r \in Thread /\ GuardRule(r)
          /\ r.guard = "anonymous" /\ r.busy = work[w].busy /\ r.pc = "reply"
      BY <2>1, <2>3 DEF Thread, Pcs, GuardRule, Answering
    <3>2. work' = [work EXCEPT ![w] = r]
      BY <1>a, <1>3, <2>3 DEF WorkType, Go, ProcessRequest
    <3>3. activity' = [activity EXCEPT !.active = a, !.authenticated = b]
          /\ quiet' \in BOOLEAN /\ ~activity.claimed
      BY <1>a, <1>b, <1>e, <1>3, <2>1, <2>3 DEF ProcessRequest, ServerType, Admit, Admissible
    <3> HIDE DEF r
    <3>4. Booked(w, r, a, b)
      BY <1>3, <1>n, <1>b, <1>r, <1>c, <1>i, <2>1, <2>3, <3>1, <3>3
         DEF Booked, ListenerPipe, Bit, Guarded, Trusted, Serving, Rejecting, Piped,
             ProcessRequest, server, slots
    <3> HIDE DEF a, b
    <3> QED
      BY <3>1, <3>2, <3>4, BookedThread
  <2>4. CASE ~Admissible /\ Go(w, "close") /\ UNCHANGED <<activity, quiet>>
    <3> DEFINE r == [work[w] EXCEPT !.pc = "close"]
               a == activity.active
               b == activity.authenticated
    <3>1. r \in Thread /\ GuardRule(r)
          /\ r.guard = work[w].guard /\ r.busy = work[w].busy /\ r.pc = "close"
      BY <2>1, <2>4 DEF Thread, Pcs, GuardRule, Answering
    <3>2. work' = [work EXCEPT ![w] = r]
      BY <1>a, <1>3, <2>4 DEF WorkType, Go, ProcessRequest
    <3>3. activity' = [activity EXCEPT !.active = a, !.authenticated = b]
          /\ quiet' \in BOOLEAN
      BY <1>a, <1>b, <1>e, <1>3, <2>1, <2>4 DEF ProcessRequest, ServerType
    <3> HIDE DEF r
    <3>4. Booked(w, r, a, b)
      BY <1>3, <1>n, <1>b, <1>r, <1>c, <1>i, <2>1, <2>4, <3>1, <3>3
         DEF Booked, ListenerPipe, Bit, Guarded, Trusted, Serving, Rejecting, Piped,
             ProcessRequest, server, slots
    <3> HIDE DEF a, b
    <3> QED
      BY <3>1, <3>2, <3>4, BookedThread
  <2> QED
    BY <1>3, <2>2, <2>3, <2>4 DEF ProcessRequest, Admit
<1>4. CASE SendReturns(w)
  <2>1. work[w] \in Thread /\ GuardRule(work[w]) /\ work[w] # Free
        /\ work[w].pc \in {"sent", "failed"} /\ work[w].guard # "none"
    BY <1>4, <1>f, <1>t DEF SendReturns, Running, GuardRule, Answering
  <2>2. CASE work[w].busy /\ Go(w, "close") /\ UNCHANGED <<activity, quiet>>
    <3> DEFINE r == [work[w] EXCEPT !.pc = "close"]
               a == activity.active
               b == activity.authenticated
    <3>1. r \in Thread /\ GuardRule(r)
          /\ r.guard = work[w].guard /\ r.busy = work[w].busy /\ r.pc = "close"
      BY <2>1, <2>2 DEF Thread, Pcs, GuardRule, Answering
    <3>2. work' = [work EXCEPT ![w] = r]
      BY <1>a, <1>4, <2>2 DEF WorkType, Go, SendReturns
    <3>3. activity' = [activity EXCEPT !.active = a, !.authenticated = b]
          /\ quiet' \in BOOLEAN
      BY <1>a, <1>b, <1>e, <1>4, <2>1, <2>2 DEF SendReturns, ServerType
    <3> HIDE DEF r
    <3>4. Booked(w, r, a, b)
      BY <1>4, <1>n, <1>b, <1>r, <1>c, <1>i, <2>1, <2>2, <3>1, <3>3
         DEF Booked, ListenerPipe, Bit, Guarded, Trusted, Serving, Rejecting, Piped,
             SendReturns, server, slots
    <3> HIDE DEF a, b
    <3> QED
      BY <3>1, <3>2, <3>4, BookedThread
  <2>3. CASE /\ ~work[w].busy /\ FinishWork(work[w].guard)
             /\ work' = [work EXCEPT ![w].pc = IF work[w].pc = "sent" /\ work[w].frame = "good" THEN "loop" ELSE "close",
                                     ![w].guard = "none"]
    <3> DEFINE r == [work[w] EXCEPT !.pc = IF work[w].pc = "sent" /\ work[w].frame = "good" THEN "loop" ELSE "close",
                                       !.guard = "none"]
               a == activity.active - 1
               b == IF work[w].guard = "authenticated" THEN activity.authenticated - 1 ELSE activity.authenticated
    <3>1. r \in Thread /\ GuardRule(r)
          /\ r.guard = "none" /\ r.busy = work[w].busy /\ r.pc # "closed"
      BY <2>1, <2>3 DEF Thread, Pcs, GuardRule, Answering
    <3>2. work' = [work EXCEPT ![w] = r]
      BY <1>a, <1>4, <2>3 DEF WorkType, Go, SendReturns
    <3>3. activity' = [activity EXCEPT !.active = a, !.authenticated = b]
          /\ quiet' \in BOOLEAN
      BY <1>a, <1>b, <1>e, <1>4, <2>1, <2>3 DEF SendReturns, ServerType, FinishWork
    <3> HIDE DEF r
    <3>4. Booked(w, r, a, b)
      BY <1>4, <1>n, <1>b, <1>r, <1>c, <1>i, <2>1, <2>3, <3>1, <3>3
         DEF Booked, ListenerPipe, Bit, Guarded, Trusted, Serving, Rejecting, Piped,
             SendReturns, server, slots
    <3> HIDE DEF a, b
    <3> QED
      BY <3>1, <3>2, <3>4, BookedThread
  <2> QED
    BY <1>4, <2>2, <2>3 DEF SendReturns
<1>5. CASE JoinWatchdog(w)
  <2>1. work[w] \in Thread /\ GuardRule(work[w]) /\ work[w] # Free
        /\ work[w].pc = "join"
    BY <1>5, <1>f, <1>t DEF JoinWatchdog, Running, GuardRule, Answering
  <2>2. CASE TRUE
    <3> DEFINE r == [work[w] EXCEPT !.pc = "closed"]
               a == activity.active
               b == activity.authenticated
    <3>1. r \in Thread /\ GuardRule(r)
          /\ r.guard = work[w].guard /\ r.busy = work[w].busy /\ r.pc = "closed"
      BY <2>1, <2>2 DEF Thread, Pcs, GuardRule, Answering
    <3>2. work' = [work EXCEPT ![w] = r]
      BY <1>a, <1>5, <2>2 DEF WorkType, Go, JoinWatchdog
    <3>3. activity' = [activity EXCEPT !.active = a, !.authenticated = b]
          /\ quiet' \in BOOLEAN
      BY <1>a, <1>b, <1>e, <1>5, <2>1, <2>2 DEF JoinWatchdog, ServerType
    <3> HIDE DEF r
    <3>4. Booked(w, r, a, b)
      BY <1>5, <1>n, <1>b, <1>r, <1>c, <1>i, <2>1, <2>2, <3>1, <3>3
         DEF Booked, ListenerPipe, Bit, Guarded, Trusted, Serving, Rejecting, Piped,
             JoinWatchdog, server, slots
    <3> HIDE DEF a, b
    <3> QED
      BY <3>1, <3>2, <3>4, BookedThread
  <2> QED
    BY <1>5, <2>2 DEF JoinWatchdog
<1>6. CASE DropBusyGuard(w)
  <2>1. work[w] \in Thread /\ GuardRule(work[w]) /\ work[w] # Free
        /\ work[w].pc = "closed" /\ work[w].guard # "none"
    BY <1>6, <1>f, <1>t DEF DropBusyGuard, Running, GuardRule, Answering
  <2>2. CASE FinishWork(work[w].guard)
    <3> DEFINE r == [work[w] EXCEPT !.guard = "none"]
               a == activity.active - 1
               b == IF work[w].guard = "authenticated" THEN activity.authenticated - 1 ELSE activity.authenticated
    <3>1. r \in Thread /\ GuardRule(r)
          /\ r.guard = "none" /\ r.busy = work[w].busy /\ r.pc = work[w].pc
      BY <2>1, <2>2 DEF Thread, Pcs, GuardRule, Answering
    <3>2. work' = [work EXCEPT ![w] = r]
      BY <1>a, <1>6, <2>2 DEF WorkType, Go, DropBusyGuard
    <3>3. activity' = [activity EXCEPT !.active = a, !.authenticated = b]
          /\ quiet' \in BOOLEAN
      BY <1>a, <1>b, <1>e, <1>6, <2>1, <2>2 DEF DropBusyGuard, ServerType, FinishWork
    <3> HIDE DEF r
    <3>4. Booked(w, r, a, b)
      BY <1>6, <1>n, <1>b, <1>r, <1>c, <1>i, <2>1, <2>2, <3>1, <3>3
         DEF Booked, ListenerPipe, Bit, Guarded, Trusted, Serving, Rejecting, Piped,
             DropBusyGuard, server, slots
    <3> HIDE DEF a, b
    <3> QED
      BY <3>1, <3>2, <3>4, BookedThread
  <2> QED
    BY <1>6, <2>2 DEF DropBusyGuard
<1>7. CASE ReleaseSlot(w)
  <2>1. work[w] \in Thread /\ GuardRule(work[w]) /\ work[w] # Free
        /\ work[w].pc = "closed" /\ work[w].guard = "none"
    BY <1>7, <1>f, <1>t DEF ReleaseSlot, Running, GuardRule, Answering
  <2>2. CASE work[w].busy
    <3> DEFINE r == Free
               a == activity.active
               b == activity.authenticated
    <3>1. r \in {Free} \cup Thread /\ r = Free
      OBVIOUS
    <3>2. work' = [work EXCEPT ![w] = r]
      BY <1>a, <1>7, <2>2 DEF WorkType, Go, ReleaseSlot
    <3>3. activity' = [activity EXCEPT !.active = a, !.authenticated = b]
          /\ quiet' \in BOOLEAN
      BY <1>a, <1>b, <1>e, <1>7, <2>1, <2>2 DEF ReleaseSlot, ServerType
    <3> HIDE DEF r
    <3>4. Booked(w, r, a, b)
      BY <1>7, <1>n, <1>b, <1>r, <1>c, <1>i, <2>1, <2>2, <3>1, <3>3
         DEF Booked, ListenerPipe, Bit, Guarded, Trusted, Serving, Rejecting, Piped,
             ReleaseSlot, server, slots
    <3> HIDE DEF a, b
    <3> QED
      BY <3>1, <3>2, <3>4, BookedThread
  <2>3. CASE ~work[w].busy
    <3> DEFINE r == Free
               a == activity.active
               b == activity.authenticated
    <3>1. r \in {Free} \cup Thread /\ r = Free
      OBVIOUS
    <3>2. work' = [work EXCEPT ![w] = r]
      BY <1>a, <1>7, <2>3 DEF WorkType, Go, ReleaseSlot
    <3>3. activity' = [activity EXCEPT !.active = a, !.authenticated = b]
          /\ quiet' \in BOOLEAN
      BY <1>a, <1>b, <1>e, <1>7, <2>1, <2>3 DEF ReleaseSlot, ServerType
    <3> HIDE DEF r
    <3>4. Booked(w, r, a, b)
      BY <1>7, <1>n, <1>b, <1>r, <1>c, <1>i, <2>1, <2>3, <3>1, <3>3
         DEF Booked, ListenerPipe, Bit, Guarded, Trusted, Serving, Rejecting, Piped,
             ReleaseSlot, server, slots
    <3> HIDE DEF a, b
    <3> QED
      BY <3>1, <3>2, <3>4, BookedThread
  <2> QED
    BY <1>7, <2>2, <2>3 DEF ReleaseSlot
<1> QED
  BY <1>1, <1>2, <1>3, <1>4, <1>5, <1>6, <1>7 DEF BookedStep

-----------------------------------------------------------------------------
(* The accept loop and the idle watchdog *)

\* While a slot is left, a name for another thread is left.
LEMMA ThreadLeft ==
    ASSUME IInv, active + busy < MaxActive + MaxBusy
    PROVE  \E w \in Workers : work[w] = Free
<1>a. WorkType /\ Counts
  BY DEF IInv
<1> SUFFICES ASSUME \A w \in Workers : work[w] # Free PROVE FALSE
  OBVIOUS
<1>1. Workers = WorkerSlots \cup BusySlots
  BY <1>a DEF WorkType, Thread, WorkerSlots, BusySlots, Serving, Rejecting
<1>2. WorkerSlots \cap BusySlots = {}
  BY DEF WorkerSlots, BusySlots, Serving, Rejecting
<1>3. Cardinality(Workers) = active + busy
  <2>1. IsFiniteSet(WorkerSlots) /\ IsFiniteSet(BusySlots)
    BY <1>a, Finite
  <2>2. Cardinality(WorkerSlots \cup BusySlots) =
          Cardinality(WorkerSlots) + Cardinality(BusySlots) - Cardinality(WorkerSlots \cap BusySlots)
    BY <2>1, FS_Union
  <2>3. Cardinality({}) = 0
    BY FS_EmptySet
  <2> QED
    <3>1. active \in Nat /\ busy \in Nat
      BY Numbers
    <3>2. active = Cardinality(WorkerSlots) /\ busy = Cardinality(BusySlots)
      BY <1>a DEF Counts
    <3>3. Cardinality(Workers) = Cardinality(WorkerSlots \cup BusySlots)
      BY <1>1
    <3>4. Cardinality(WorkerSlots \cap BusySlots) = 0
      BY <1>2, <2>3
    <3> QED
      BY <2>2, <3>1, <3>2, <3>3, <3>4
<1> QED
  BY <1>3, Numbers, BrokerAssumption

\* The accept loop makes a thread only for a slot it took, and never overwrites one.
LEMMA ReserveStep == IInv /\ Reserve => IInv'
<1> SUFFICES ASSUME IInv, Reserve PROVE IInv'
  OBVIOUS
<1>a. ServerType /\ WorkType /\ GuardInv /\ Counts /\ ClaimInv
  BY DEF IInv
<1>n. /\ activity.active \in Nat /\ activity.authenticated \in Nat /\ active \in Nat /\ busy \in Nat
      /\ instances \in Nat /\ MaxActive \in Nat /\ MaxBusy \in Nat
  BY Numbers, BrokerAssumption
<1> DEFINE isBusy == active >= MaxActive
           w == CHOOSE u \in Workers : work[u] = Free
           r == NewWorker(isBusy)
<1>1. CASE /\ isBusy => busy < MaxBusy
           /\ work' = [work EXCEPT ![w] = r]
           /\ active' = IF isBusy THEN active ELSE active + 1
           /\ busy' = IF isBusy THEN busy + 1 ELSE busy
           /\ UNCHANGED instances
  <2>1. active + busy < MaxActive + MaxBusy
    BY <1>a, <1>1, <1>n DEF Counts
  <2>2. w \in Workers /\ work[w] = Free
    BY <2>1, ThreadLeft
  <2>3. isBusy \in BOOLEAN
    BY ONLY SMT
  <2> HIDE DEF w
  <2>4. r \in Thread /\ GuardRule(r) /\ r.guard = "none"
        /\ (r.busy <=> isBusy) /\ r.pc # "closed" /\ r # Free
    BY <2>3 DEF NewWorker, Thread, Pcs, Frames, GuardRule, Answering, Free
  <2> DEFINE a == activity.active
             b == activity.authenticated
  <2>5. activity' = [activity EXCEPT !.active = a, !.authenticated = b]
    BY <1>a DEF Reserve, ServerType
  <2> HIDE DEF r
  <2>6. /\ active' <= MaxActive /\ busy' <= MaxBusy
        /\ active' = active + Bit(Serving(r)) - Bit(Serving(work[w]))
        /\ busy' = busy + Bit(Rejecting(r)) - Bit(Rejecting(work[w]))
    BY <1>a, <1>n, <1>1, <2>2, <2>4 DEF Counts, Bit, Serving, Rejecting
  <2>7. Booked(w, r, a, b)
    BY <1>a, <1>n, <1>1, <2>2, <2>4, <2>5, <2>6
       DEF Reserve, Booked, ListenerPipe, Bit, Guarded, Trusted, Piped, ServerType
  <2> HIDE DEF a, b
  <2> QED
    BY <1>1, <2>2, <2>4, <2>7, BookedThread
<1>2. CASE instances' = instances - 1 /\ UNCHANGED <<work, slots>>
  <2>1. ServerType' /\ WorkType' /\ GuardInv' /\ ClaimInv'
    BY <1>a, <1>2 DEF Reserve, ServerType, WorkType, GuardInv, ClaimInv
  <2>2. Counts'
    <3>1. Guards' = Guards /\ TrustedGuards' = TrustedGuards /\ Pipes' = Pipes
          /\ WorkerSlots' = WorkerSlots /\ BusySlots' = BusySlots
      BY <1>2 DEF Guards, TrustedGuards, Pipes, WorkerSlots, BusySlots
    <3>2. Cardinality(Pipes) \in Nat
      BY <1>a, Finite
    <3> QED
      BY <1>a, <1>n, <1>2, <3>1, <3>2 DEF Reserve, Counts, ListenerPipe, slots
  <2> QED
    BY <2>1, <2>2 DEF IInv
<1> QED
  BY <1>1, <1>2 DEF Reserve

\* The steps that leave the threads alone.
ServerStep ==
    TimePasses \/ ClaimIdleShutdown \/ Exit \/ CreatePipeInstance \/ ConnectPipe \/ UNCHANGED vars

\* They keep the invariant: the listener's own instance is booked with its state, and
\* the shutdown is claimed only when nothing is admitted.
LEMMA ServerSteps == IInv /\ ServerStep => IInv'
<1> SUFFICES ASSUME IInv, ServerStep PROVE IInv'
  OBVIOUS
<1>a. ServerType /\ WorkType /\ GuardInv /\ Counts /\ ClaimInv
  BY DEF IInv
<1>n. activity.active \in Nat /\ activity.authenticated \in Nat /\ instances \in Nat /\ Cardinality(Pipes) \in Nat
  BY <1>a, Numbers, Finite
<1>w. UNCHANGED <<work, active, busy>>
  BY DEF ServerStep, TimePasses, ClaimIdleShutdown, Exit, CreatePipeInstance, ConnectPipe, vars, slots
<1>1. WorkType' /\ GuardInv'
  BY <1>a, <1>w DEF WorkType, GuardInv
<1>2. Guards' = Guards /\ TrustedGuards' = TrustedGuards /\ Pipes' = Pipes
      /\ WorkerSlots' = WorkerSlots /\ BusySlots' = BusySlots
  BY <1>w DEF Guards, TrustedGuards, Pipes, WorkerSlots, BusySlots
<1>3. CASE ClaimIdleShutdown
  <2>1. (activity.draining \/ quiet) \in BOOLEAN /\ ((activity.draining \/ quiet) /\ activity.active = 0) \in BOOLEAN
    BY ONLY SMT
  <2>2. /\ activity'.active = activity.active /\ activity'.authenticated = activity.authenticated
        /\ activity'.claimed => activity.active = 0
    BY <1>a, <1>3 DEF ClaimIdleShutdown, ServerType
  <2>3. ServerType'
    BY <1>a, <1>3, <2>1 DEF ClaimIdleShutdown, ServerType, server
  <2>4. Counts' /\ ClaimInv'
    BY <1>a, <1>2, <1>3, <1>w, <2>2 DEF ClaimIdleShutdown, Counts, ListenerPipe, ClaimInv, server
  <2> QED
    BY <1>1, <2>3, <2>4 DEF IInv
<1>4. CASE TimePasses \/ Exit \/ UNCHANGED vars
  <2>1. UNCHANGED <<server, instances, activity>> /\ ServerType'
    BY <1>a, <1>4 DEF TimePasses, Exit, vars, server, ServerType
  <2>2. Counts' /\ ClaimInv'
    BY <1>a, <1>2, <1>w, <2>1 DEF Counts, ListenerPipe, ClaimInv, server
  <2> QED
    BY <1>1, <2>1, <2>2 DEF IInv
<1>5. CASE CreatePipeInstance
  <2>1. ServerType' /\ ClaimInv'
    BY <1>a, <1>5 DEF CreatePipeInstance, ServerType, ClaimInv
  <2>2. Counts'
    BY <1>a, <1>n, <1>2, <1>5, <1>w DEF CreatePipeInstance, CreateNamedPipe, Counts, ListenerPipe
  <2> QED
    BY <1>1, <2>1, <2>2 DEF IInv
<1>6. CASE ConnectPipe
  <2>1. ServerType' /\ ClaimInv'
    BY <1>a, <1>6 DEF ConnectPipe, ServerType, ClaimInv
  <2>2. Counts'
    BY <1>a, <1>n, <1>2, <1>6, <1>w DEF ConnectPipe, Counts, ListenerPipe
  <2> QED
    BY <1>1, <2>1, <2>2 DEF IInv
<1> QED
  BY <1>3, <1>4, <1>5, <1>6 DEF ServerStep

\* A thread with a pipe holds a slot, so the pipes are bounded by the slots.
LEMMA PipesBounded == ASSUME IInv PROVE instances <= MaxActive + MaxBusy + ListenerPipe
<1>a. WorkType /\ Counts
  BY DEF IInv
<1>1. Pipes \subseteq WorkerSlots \cup BusySlots
  BY DEF Pipes, WorkerSlots, BusySlots, Piped, Serving, Rejecting
<1>2. IsFiniteSet(WorkerSlots) /\ IsFiniteSet(BusySlots) /\ Cardinality(Pipes) \in Nat
  BY <1>a, Finite
<1>3. WorkerSlots \cap BusySlots = {}
  BY DEF WorkerSlots, BusySlots, Serving, Rejecting
<1>4. /\ IsFiniteSet(WorkerSlots \cup BusySlots)
      /\ Cardinality(WorkerSlots \cup BusySlots) =
            Cardinality(WorkerSlots) + Cardinality(BusySlots) - Cardinality({})
  <2>1. /\ IsFiniteSet(WorkerSlots \cup BusySlots)
        /\ Cardinality(WorkerSlots \cup BusySlots) =
              Cardinality(WorkerSlots) + Cardinality(BusySlots) - Cardinality(WorkerSlots \cap BusySlots)
    BY <1>2, FS_Union
  <2> QED
    BY <1>3, <2>1
<1>5. Cardinality(Pipes) <= Cardinality(WorkerSlots \cup BusySlots) /\ Cardinality({}) = 0
  BY <1>1, <1>4, FS_Subset, FS_EmptySet
<1>6. Cardinality(WorkerSlots \cup BusySlots) = active + busy
  BY <1>a, <1>4, <1>5, Numbers DEF Counts
<1>7. instances = Cardinality(Pipes) + ListenerPipe /\ active <= MaxActive /\ busy <= MaxBusy
  BY <1>a DEF Counts
<1> QED
  BY <1>2, <1>5, <1>6, <1>7, Numbers, BrokerAssumption DEF ListenerPipe

\* No thread, no guard and no pipe at first.
LEMMA BrokerInit == Init => IInv
<1> SUFFICES ASSUME Init PROVE IInv
  OBVIOUS
<1>1. ServerType /\ WorkType /\ GuardInv /\ ClaimInv
  BY DEF Init, ServerType, WorkType, GuardInv, ClaimInv
<1>2. Guards = {} /\ TrustedGuards = {} /\ WorkerSlots = {} /\ BusySlots = {} /\ Pipes = {}
  BY DEF Init, Guards, TrustedGuards, WorkerSlots, BusySlots, Pipes, Guarded, Trusted, Serving,
     Rejecting, Piped
<1>3. Counts
  BY <1>2, FS_EmptySet, BrokerAssumption DEF Init, Counts, ListenerPipe
<1> QED
  BY <1>1, <1>3 DEF IInv

\* Every step of the server and its threads keeps the invariant.
LEMMA BrokerStep == IInv /\ [Next]_vars => IInv'
<1>1. [Next]_vars => \/ ServerStep \/ Reserve
                     \/ \E w \in Workers : QuietStep(w) \/ BookedStep(w)
  BY DEF Next, ThreadStep, DogStep, ClientStep, ServerStep, QuietStep, BookedStep
<1> QED
  BY <1>1, ServerSteps, ReserveStep, QuietSteps, BookedSteps

\* The books are right in every reachable state.
LEMMA BrokerInvariant == Spec => []IInv
BY BrokerInit, BrokerStep, PTL DEF Spec

-----------------------------------------------------------------------------
(* What follows *)

\* Every variable keeps its type; above all no counter falls below zero or exceeds its
\* limit, though guards, slots and instances are returned by different threads.
THEOREM BrokerTypeCorrect == Spec => []TypeOK
<1>1. IInv => TypeOK
  <2> SUFFICES ASSUME IInv PROVE TypeOK
    OBVIOUS
  <2>a. ServerType /\ WorkType /\ Counts
    BY DEF IInv
  <2>1. instances \in 0 .. MaxInstances
    <3>1. instances \in Nat /\ instances <= MaxActive + MaxBusy + ListenerPipe
      BY Numbers, PipesBounded
    <3> QED
      BY <3>1, BrokerAssumption DEF MaxInstances, ListenerPipe
  <2>2. active \in 0 .. MaxActive /\ busy \in 0 .. MaxBusy
    BY <2>a, Numbers, BrokerAssumption DEF Counts
  <2> QED
    BY <2>a, <2>1, <2>2 DEF TypeOK, ServerType, WorkType, Thread
<1> QED
  BY <1>1, BrokerInvariant, PTL

\* process::exit of the idle watchdog meets no admitted request: an operation is never
\* cut off, nor the answer to it (claim_idle_shutdown, WorkGuard).
THEOREM ShutdownIsQuiet == Spec => []NoWorkCutOff
<1>1. IInv => NoWorkCutOff
  <2> SUFFICES ASSUME IInv, activity.claimed, NEW w \in Workers,
                      work[w].pc \in {"dispatch", "reply", "submit_write", "writing"}
               PROVE  FALSE
    BY DEF NoWorkCutOff
  <2>1. work[w] # Free
    BY DEF Free
  <2>2. work[w].guard # "none"
    BY <2>1, ThreadAt DEF GuardRule, Answering
  <2> QED
    BY <2>1, <2>2, ClaimedIsIdle DEF Guarded
<1> QED
  BY <1>1, BrokerInvariant, PTL

\* The accept loop is never refused its next pipe instance, however many threads fail
\* to start or are slow to go (MAX_PIPE_INSTANCES).
THEOREM ListenerAlwaysReserved == Spec => []ListenerReserved
<1>1. IInv => ListenerReserved
  <2> SUFFICES ASSUME IInv, listener = "create" PROVE instances < MaxInstances
    BY DEF ListenerReserved
  <2>1. instances <= MaxActive + MaxBusy
    <3>1. instances <= MaxActive + MaxBusy + ListenerPipe
      BY PipesBounded
    <3> QED
      BY <3>1, BrokerAssumption DEF ListenerPipe
  <2>2. instances \in Nat
    BY Numbers
  <2> QED
    BY <2>1, <2>2, BrokerAssumption DEF MaxInstances
<1> QED
  BY <1>1, BrokerInvariant, PTL

-----------------------------------------------------------------------------
(* THE PANEL *)

\* q is a sequence, of whatever.
IsSequence(q) == q \in Seq({q[i] : i \in DOMAIN q})

\* A field as the services and the forms have it.
FieldValue == [n : Nat, padded : BOOLEAN]

\* What a look at the services gives.
Snapshot(d) == d \in [DOMAIN d -> [Fields -> FieldValue]]

\* An edit writes what its form shows, where there is a reason to write it.
SpecTrue(spec, form) ==
    \A f \in DOMAIN spec :
        Written(form, f) /\ spec[f] = Trimmed(f, form.value[f]) /\ spec[f] \in FieldValue

\* A job is for what it was made for: a policy goes to the service it was read from, a
\* read is a read, and an edit has only fields its form gives it, as the form shows them.
JobTrue(j) ==
    /\ j.type = "SaveRecovery" =>
            j.spec.of = j.request.service /\ j.spec.service = j.request.service
    /\ j.type = "ReadRecovery" => j.request.work = "Read"
    /\ j.type = "Edit" => SpecTrue(j.spec, j.form)

\* A field that its user did not touch has its original value.
FormTrue(form) ==
    /\ DOMAIN form = {"orig", "value", "typed", "password"}
    /\ form.orig \in [Fields -> FieldValue] /\ form.value \in [Fields -> FieldValue]
    /\ \A f \in Fields \ form.typed : form.value[f] = form.orig[f]

\* What a dialog waits for, and the process rows it shows, are its own.
ModalTrue(m) ==
    /\ DOMAIN m = {"kind", "generation", "next", "current", "service", "form", "rows"}
    /\ m.kind \in {"Closed", "Install", "Edit", "Remove", "Processes"}
    /\ m.kind = "Edit" \/ m.form # None => FormTrue(m.form)
    /\ m.current # None => m.current.service = m.service /\ m.current.generation = m.generation
    /\ m.kind = "Processes" /\ m.rows # None =>
            m.rows.service = m.service /\ m.rows.generation = m.generation

\* What the log view waits for, and the lines it shows, are of its last request.
LogTrue(l) ==
    /\ DOMAIN l = {"next", "current", "target", "lines"}
    /\ l.current # None => l.current.target = l.target /\ l.current.id = l.next
    /\ l.lines # None => l.lines.target = l.target /\ l.lines.id = l.next

\* The draft is of the service that is edited, and a read is under way only while the
\* draft is as it was read.
RecoveryTrue(r) ==
    /\ DOMAIN r = {"next", "current", "service", "generation", "draft"}
    /\ r.draft # None =>
            /\ DOMAIN r.draft = {"service", "of", "dirty"} /\ r.draft.dirty \in BOOLEAN
            /\ r.draft.of = r.draft.service
            /\ r.service # None => r.draft.service = r.service
    /\ r.current # None => r.current.service = r.service /\ r.service # None
    /\ r.current # None /\ r.current.work = "Read" /\ r.draft # None => r.draft.dirty = FALSE

\* F are the jobs under way: what is shown as pending is one of them.
StatusTrue(st, F) == \A e \in st : \E j \in F : Operation(j, e)

\* What a dialog waits for is one of them.
BusyTrue(m, F) == m.current # None => \E j \in F : j.type = m.kind /\ j.request = m.current

\* Everything that is shown or under way is as it should be.
ViewsTrue ==
    /\ LogTrue(logs) /\ ModalTrue(modal) /\ RecoveryTrue(recovery) /\ lostEdit = FALSE
    /\ \A j \in InFlight : JobTrue(j)
    /\ StatusTrue(status, InFlight) /\ BusyTrue(modal, InFlight)

\* A look at all services.
IsScan(j) == j.type = "Refresh"

\* A scan was made between two moments.
ScanTrue(r, from, to) == r.at \in from .. to /\ Snapshot(r.defs)

\* The scans that wait to be applied are in the order in which they were made, and none
\* is older than the one that was applied last.
ScansInOrder ==
    /\ \A i \in DOMAIN results : IsScan(results[i].job) => ScanTrue(results[i].result, scanned, now)
    /\ \A i, k \in DOMAIN results :
            i < k /\ IsScan(results[i].job) /\ IsScan(results[k].job) =>
                results[i].result.at <= results[k].result.at
    /\ worker.stage = "post" /\ IsScan(worker.job) =>
            /\ ScanTrue(worker.result, scanned, now)
            /\ \A i \in DOMAIN results :
                    IsScan(results[i].job) => results[i].result.at <= worker.result.at

\* While the mark is set, a Refresh is queued or was taken and has not looked yet.
MarkTrue ==
    pendingRefresh =>
        \/ \E i \in DOMAIN queue : IsScan(queue[i])
        \/ worker.stage = "taken" /\ IsScan(worker.job)

\* A refresh that is owed is answered, marked, being carried out, waiting to be applied,
\* or to be asked for again by somebody who still has something to do.
Owed ==
    \/ scanned >= owed
    \/ pendingRefresh
    \/ worker.stage = "execute" /\ IsScan(worker.job)
    \/ worker.stage = "post" /\ IsScan(worker.job) /\ worker.result.at >= owed
    \/ \E i \in DOMAIN results : IsScan(results[i].job) /\ results[i].result.at >= owed
    \/ retry /\ (ui = "draining" \/ wakes > 0 \/ queue # <<>> \/ worker.stage # "idle")

\* The types, as far as the rest needs them.
Shapes ==
    /\ now \in Nat /\ owed \in Nat /\ scanned \in Nat
    /\ wakes \in Nat /\ acts \in Nat /\ changes \in Nat
    /\ owed <= now /\ scanned <= now
    /\ pendingRefresh \in BOOLEAN /\ retry \in BOOLEAN /\ ui \in {"ready", "draining"}
    /\ Snapshot(world) /\ Snapshot(defs)
    /\ IsSequence(queue) /\ IsSequence(results)
    /\ DOMAIN worker = {"job", "stage", "ok", "result"}
    /\ worker.stage \in {"idle", "taken", "execute", "post"}

\* Results that wait to be applied have a waking to come.
Woken == results # <<>> => wakes > 0 \/ ui = "draining"

\* The refreshes.
Refreshes == ScansInOrder /\ MarkTrue /\ Owed /\ Woken

\* The inductive invariant.
GuiInv == Shapes /\ ViewsTrue /\ Refreshes

-----------------------------------------------------------------------------
(* The queue and the results *)

\* Every sequence has a length, and a domain up to it.
LEMMA SequenceShape ==
    ASSUME NEW q, IsSequence(q)
    PROVE  Len(q) \in Nat /\ DOMAIN q = 1 .. Len(q) /\ (q = <<>> <=> Len(q) = 0)
<1> DEFINE S == {q[i] : i \in DOMAIN q}
<1>1. q \in Seq(S)  BY DEF IsSequence
<1> HIDE DEF S
<1> QED  BY <1>1

\* Append (JobSender::send, the results' channel).
LEMMA Appended ==
    ASSUME NEW q, IsSequence(q), NEW x
    PROVE  /\ IsSequence(Append(q, x)) /\ Append(q, x) # <<>>
           /\ DOMAIN Append(q, x) = 1 .. (Len(q) + 1)
           /\ \A i \in DOMAIN q : i \in DOMAIN Append(q, x) /\ Append(q, x)[i] = q[i]
           /\ Append(q, x)[Len(q) + 1] = x /\ Len(q) + 1 \in DOMAIN Append(q, x)
<1> DEFINE S == {q[i] : i \in DOMAIN q}
           a == Append(q, x)
           T == {a[i] : i \in DOMAIN a}
<1>1. q \in Seq(S)  BY DEF IsSequence
<1>2. Len(q) \in Nat /\ DOMAIN q = 1 .. Len(q)  BY SequenceShape
<1> HIDE DEF S
<1>3. a \in Seq(S \cup {x})  BY <1>1
<1>4. Len(a) = Len(q) + 1 /\ DOMAIN a = 1 .. (Len(q) + 1)  BY <1>1
<1>5. \A i \in 1 .. Len(q) : a[i] = q[i]  BY <1>1
<1>6. a[Len(q) + 1] = x  BY <1>1
<1> HIDE DEF a
<1>7. a \in Seq(T)
  <2>1. \A i \in 1 .. Len(a) : a[i] \in T  BY <1>2, <1>4
  <2> HIDE DEF T
  <2>2. a = [i \in 1 .. Len(a) |-> a[i]]  BY <1>3
  <2> QED  BY <1>2, <1>4, <2>1, <2>2, IsASeq
<1>8. a # <<>>  BY <1>2, <1>4
<1> QED  BY <1>2, <1>4, <1>5, <1>6, <1>7, <1>8 DEF IsSequence, a

\* The rest of the queue once its first element is taken.
LEMMA Rest ==
    ASSUME NEW q, IsSequence(q), q # <<>>
    PROVE  /\ IsSequence(Tail(q)) /\ DOMAIN Tail(q) = 1 .. (Len(q) - 1)
           /\ \A i \in DOMAIN Tail(q) : i + 1 \in DOMAIN q /\ Tail(q)[i] = q[i + 1]
           /\ \A i \in DOMAIN q : i = 1 \/ (i - 1 \in DOMAIN Tail(q) /\ Tail(q)[i - 1] = q[i])
           /\ 1 \in DOMAIN q /\ Head(q) = q[1]
<1> DEFINE S == {q[i] : i \in DOMAIN q}
           t == Tail(q)
           T == {t[i] : i \in DOMAIN t}
<1>1. q \in Seq(S)  BY DEF IsSequence
<1>2. Len(q) \in Nat /\ DOMAIN q = 1 .. Len(q) /\ Len(q) # 0  BY SequenceShape
<1> HIDE DEF S
<1>3. t \in Seq(S) /\ Len(t) = Len(q) - 1  BY <1>1, <1>2
<1>4. DOMAIN t = 1 .. (Len(q) - 1)  BY <1>3
<1>5. \A i \in 1 .. (Len(q) - 1) : t[i] = q[i + 1]  BY <1>1, <1>2
<1>6. Head(q) = q[1]  BY <1>1, <1>2
<1> HIDE DEF t
<1>7. t \in Seq(T)
  <2>1. \A i \in 1 .. Len(t) : t[i] \in T  BY <1>3, <1>4
  <2> HIDE DEF T
  <2>2. t = [i \in 1 .. Len(t) |-> t[i]]  BY <1>3
  <2> QED  BY <1>2, <1>3, <2>1, <2>2, IsASeq
<1>8. \A i \in DOMAIN t : i + 1 \in DOMAIN q /\ t[i] = q[i + 1]  BY <1>2, <1>4, <1>5
<1>9. \A i \in DOMAIN q : i = 1 \/ (i - 1 \in DOMAIN t /\ t[i - 1] = q[i])
  <2> SUFFICES ASSUME NEW i \in DOMAIN q, i # 1 PROVE i - 1 \in DOMAIN t /\ t[i - 1] = q[i]
    OBVIOUS
  <2> DEFINE k == i - 1
  <2>1. k \in 1 .. (Len(q) - 1) /\ k + 1 = i  BY <1>2
  <2> HIDE DEF k
  <2>2. k \in DOMAIN t /\ t[k] = q[i]  BY <1>4, <1>5, <2>1
  <2> QED  BY <2>2 DEF k
<1>10. IsSequence(t)  BY <1>7 DEF IsSequence
<1>11. 1 \in DOMAIN q  BY <1>2
<1> QED  BY <1>4, <1>6, <1>8, <1>9, <1>10, <1>11 DEF t

\* What send does (JobSender::send): a Refresh is dropped while one is marked,
Coalesced(j) == j.type = "Refresh" /\ pendingRefresh /\ queue' = queue /\ pendingRefresh' = TRUE

\* a job that does not fit is refused,
Refused(j) ==
    /\ Len(queue) >= Cap /\ queue' = queue
    /\ pendingRefresh' = IF j.type = "Refresh" THEN FALSE ELSE pendingRefresh

\* or it is queued.
Queued(j) ==
    /\ queue' = Append(queue, j)
    /\ pendingRefresh' = IF j.type = "Refresh" THEN TRUE ELSE pendingRefresh

\* There is no other outcome.
LEMMA SendCases ==
    ASSUME NEW j, Sent(j), pendingRefresh \in BOOLEAN
    PROVE  \/ Send(j).ok = TRUE /\ Coalesced(j)
           \/ Send(j).ok = FALSE /\ Refused(j)
           \/ Send(j).ok = TRUE /\ Queued(j)
<1>1. CASE j.type = "Refresh" /\ pendingRefresh
  BY <1>1 DEF Sent, Send, Coalesced
<1>2. CASE ~(j.type = "Refresh" /\ pendingRefresh) /\ Len(queue) >= Cap
  BY <1>2 DEF Sent, Send, Refused
<1>3. CASE ~(j.type = "Refresh" /\ pendingRefresh) /\ ~(Len(queue) >= Cap)
  BY <1>3 DEF Sent, Send, Queued
<1> QED  BY <1>1, <1>2, <1>3

-----------------------------------------------------------------------------
(* The jobs under way *)

\* Sending loses nothing that is queued.
LEMMA QueueSent ==
    ASSUME Shapes, NEW j, Sent(j)
    PROVE  /\ {queue[i] : i \in DOMAIN queue} \subseteq {queue'[i] : i \in DOMAIN queue'}
           /\ {queue'[i] : i \in DOMAIN queue'} \subseteq {queue[i] : i \in DOMAIN queue} \cup {j}
           /\ Send(j).ok /\ j.type # "Refresh" => j \in {queue'[i] : i \in DOMAIN queue'}
<1>1. IsSequence(queue) /\ pendingRefresh \in BOOLEAN  BY DEF Shapes
<1>2. CASE queue' = queue /\ (Coalesced(j) \/ Send(j).ok = FALSE)
  BY <1>1, <1>2 DEF Coalesced
<1>3. CASE queue' = Append(queue, j)
  <2>1. \A i \in DOMAIN queue : i \in DOMAIN queue' /\ queue'[i] = queue[i]
    BY <1>1, <1>3, Appended
  <2>2. j \in {queue'[i] : i \in DOMAIN queue'}  BY <1>1, <1>3, Appended
  <2>3. \A i \in DOMAIN queue' : i \in DOMAIN queue \/ queue'[i] = j
    <3>1. DOMAIN queue' = 1 .. (Len(queue) + 1) /\ queue'[Len(queue) + 1] = j
      BY <1>1, <1>3, Appended
    <3>2. Len(queue) \in Nat /\ DOMAIN queue = 1 .. Len(queue)  BY <1>1, SequenceShape
    <3> QED  BY <3>1, <3>2
  <2> QED  BY <2>1, <2>2, <2>3
<1> QED  BY <1>1, <1>2, <1>3, SendCases DEF Coalesced, Refused, Queued

\* A job that is sent is under way when it was queued.
LEMMA InFlightSent ==
    ASSUME Shapes, NEW j, Sent(j), UNCHANGED <<worker, results>>
    PROVE  /\ InFlight \subseteq InFlight' /\ InFlight' \subseteq InFlight \cup {j}
           /\ Send(j).ok /\ j.type # "Refresh" => j \in InFlight'
BY QueueSent DEF InFlight

\* The worker takes, carries out and answers a job: it stays under way.
LEMMA InFlightTaken ==
    ASSUME Shapes, worker.stage = "idle", queue # <<>>, worker'.stage # "idle",
           worker'.job = Head(queue), queue' = Tail(queue), results' = results
    PROVE  InFlight' = InFlight /\ IsSequence(queue')
<1>1. IsSequence(queue)  BY DEF Shapes
<1>2. /\ \A i \in DOMAIN queue' : i + 1 \in DOMAIN queue /\ queue'[i] = queue[i + 1]
      /\ \A i \in DOMAIN queue : i = 1 \/ (i - 1 \in DOMAIN queue' /\ queue'[i - 1] = queue[i])
      /\ 1 \in DOMAIN queue /\ Head(queue) = queue[1]
  BY <1>1, Rest
<1>3. {queue[i] : i \in DOMAIN queue} = {queue'[i] : i \in DOMAIN queue'} \cup {Head(queue)}
  <2>1. ASSUME NEW i \in DOMAIN queue
        PROVE  queue[i] \in {queue'[k] : k \in DOMAIN queue'} \cup {Head(queue)}
    <3>1. CASE i = 1  BY <1>2, <3>1
    <3>2. CASE i - 1 \in DOMAIN queue' /\ queue'[i - 1] = queue[i]  BY <3>2
    <3> QED  BY <1>2, <3>1, <3>2
  <2>2. ASSUME NEW i \in DOMAIN queue' PROVE queue'[i] \in {queue[k] : k \in DOMAIN queue}
    BY <1>2
  <2>3. Head(queue) \in {queue[k] : k \in DOMAIN queue}  BY <1>2
  <2> QED  BY <2>1, <2>2, <2>3
<1>4. InFlight = {queue[i] : i \in DOMAIN queue} \cup {results[i].job : i \in DOMAIN results}
  BY DEF InFlight
<1>5. InFlight' = {queue'[i] : i \in DOMAIN queue'} \cup {results[i].job : i \in DOMAIN results}
                    \cup {Head(queue)}
  BY DEF InFlight
<1>6. IsSequence(queue')  BY <1>1, Rest
<1> QED  BY <1>3, <1>4, <1>5, <1>6

\* Posting the result keeps the job under way until the result is applied.
LEMMA InFlightPosted ==
    ASSUME Shapes, worker.stage # "idle", worker'.stage = "idle", queue' = queue,
           NEW r, r.job = worker.job, results' = Append(results, r)
    PROVE  InFlight' = InFlight /\ IsSequence(results')
<1>1. IsSequence(results)  BY DEF Shapes
<1>2. /\ \A i \in DOMAIN results : i \in DOMAIN results' /\ results'[i] = results[i]
      /\ results'[Len(results) + 1] = r /\ Len(results) + 1 \in DOMAIN results'
      /\ DOMAIN results' = 1 .. (Len(results) + 1)
  BY <1>1, Appended
<1>3. Len(results) \in Nat /\ DOMAIN results = 1 .. Len(results)  BY <1>1, SequenceShape
<1>4. \A i \in DOMAIN results' : i \in DOMAIN results \/ i = Len(results) + 1  BY <1>2, <1>3
<1>5. {results'[i].job : i \in DOMAIN results'}
        = {results[i].job : i \in DOMAIN results} \cup {worker.job}
  <2>1. ASSUME NEW i \in DOMAIN results'
        PROVE  results'[i].job \in {results[k].job : k \in DOMAIN results} \cup {worker.job}
    BY <1>2, <1>4
  <2>2. ASSUME NEW i \in DOMAIN results
        PROVE  results[i].job \in {results'[k].job : k \in DOMAIN results'}
    BY <1>2
  <2>3. worker.job \in {results'[k].job : k \in DOMAIN results'}  BY <1>2
  <2> QED  BY <2>1, <2>2, <2>3
<1>6. InFlight = {queue[i] : i \in DOMAIN queue} \cup {results[i].job : i \in DOMAIN results}
                    \cup {worker.job}
  BY DEF InFlight
<1>7. InFlight' = {queue[i] : i \in DOMAIN queue} \cup {results'[i].job : i \in DOMAIN results'}
  BY DEF InFlight
<1>8. IsSequence(results')  BY <1>1, Appended
<1> QED  BY <1>5, <1>6, <1>7, <1>8

\* Applying a result ends its job and no other.
LEMMA InFlightDrained ==
    ASSUME Shapes, results # <<>>, results' = Tail(results), worker' = worker
    PROVE  /\ IsSequence(results') /\ Head(results).job \in InFlight
           /\ {results[i].job : i \in DOMAIN results}
                = {results'[i].job : i \in DOMAIN results'} \cup {Head(results).job}
<1>1. IsSequence(results)  BY DEF Shapes
<1>2. /\ \A i \in DOMAIN results' : i + 1 \in DOMAIN results /\ results'[i] = results[i + 1]
      /\ \A i \in DOMAIN results :
            i = 1 \/ (i - 1 \in DOMAIN results' /\ results'[i - 1] = results[i])
      /\ 1 \in DOMAIN results /\ Head(results) = results[1]
  BY <1>1, Rest
<1>3. ASSUME NEW i \in DOMAIN results
      PROVE  results[i].job \in {results'[k].job : k \in DOMAIN results'} \cup {Head(results).job}
  <2>1. CASE i = 1  BY <1>2, <2>1
  <2>2. CASE i - 1 \in DOMAIN results' /\ results'[i - 1] = results[i]  BY <2>2
  <2> QED  BY <1>2, <2>1, <2>2
<1>4. ASSUME NEW i \in DOMAIN results'
      PROVE  results'[i].job \in {results[k].job : k \in DOMAIN results}
  BY <1>2
<1>5. Head(results).job \in {results[k].job : k \in DOMAIN results}  BY <1>2
<1>6. IsSequence(results')  BY <1>1, Rest
<1> QED  BY <1>3, <1>4, <1>5, <1>6 DEF InFlight

-----------------------------------------------------------------------------
(* Refreshes *)

\* A send keeps the mark of a pending refresh true (JobSender::send).
LEMMA MarkKept ==
    ASSUME Shapes, MarkTrue, NEW j, Sent(j), worker' = worker
    PROVE  /\ MarkTrue' /\ IsSequence(queue') /\ pendingRefresh' \in BOOLEAN
           /\ queue # <<>> => queue' # <<>>
           /\ j.type # "Refresh" => pendingRefresh' = pendingRefresh
           /\ j.type = "Refresh" => Send(j).ok \in BOOLEAN
           /\ j.type = "Refresh" /\ Send(j).ok = TRUE => pendingRefresh' = TRUE
           /\ j.type = "Refresh" /\ Send(j).ok = FALSE => queue' # <<>>
<1>1. IsSequence(queue) /\ pendingRefresh \in BOOLEAN  BY DEF Shapes
<1>2. CASE Send(j).ok = TRUE /\ Coalesced(j)
  BY <1>1, <1>2 DEF Coalesced, MarkTrue
<1>3. CASE Send(j).ok = FALSE /\ Refused(j)
  <2>1. queue # <<>>
    <3>1. Len(queue) \in Nat /\ (queue = <<>> <=> Len(queue) = 0)  BY <1>1, SequenceShape
    <3> QED  BY <1>3, <3>1, GuiAssumption DEF Refused
  <2> QED  BY <1>1, <1>3, <2>1 DEF Refused, MarkTrue
<1>4. CASE Send(j).ok = TRUE /\ Queued(j)
  <2>1. /\ IsSequence(queue') /\ queue' # <<>>
        /\ \A i \in DOMAIN queue : i \in DOMAIN queue' /\ queue'[i] = queue[i]
        /\ \E i \in DOMAIN queue' : queue'[i] = j
    BY <1>1, <1>4, Appended DEF Queued
  <2>2. CASE j.type = "Refresh"
    <3>1. \E i \in DOMAIN queue' : IsScan(queue'[i])  BY <2>1, <2>2 DEF IsScan
    <3> QED  BY <1>4, <2>1, <2>2, <3>1 DEF Queued, MarkTrue
  <2>3. CASE j.type # "Refresh"
    <3>1. pendingRefresh' = pendingRefresh  BY <1>4, <2>3 DEF Queued
    <3>2. MarkTrue'  BY <2>1, <3>1 DEF MarkTrue
    <3> QED  BY <1>1, <2>1, <2>3, <3>1, <3>2
  <2> QED  BY <2>2, <2>3
<1> QED  BY <1>1, <1>2, <1>3, <1>4, SendCases

\* A refresh that is asked for is pending, or will be asked for again: the queue that
\* refused it is not empty (RefreshState::request).
LEMMA Requested ==
    ASSUME Shapes, MarkTrue, RequestRefresh, worker' = worker
    PROVE  /\ MarkTrue' /\ IsSequence(queue') /\ pendingRefresh' \in BOOLEAN
           /\ retry' \in BOOLEAN /\ owed' = now /\ Owed'
<1> DEFINE j == [type |-> "Refresh"]
<1>1. Sent(j) /\ retry' = ~Send(j).ok /\ owed' = now /\ j.type = "Refresh"  BY DEF RequestRefresh
<1> HIDE DEF j
<1>2. /\ MarkTrue' /\ IsSequence(queue') /\ pendingRefresh' \in BOOLEAN
      /\ Send(j).ok \in BOOLEAN
      /\ Send(j).ok = TRUE => pendingRefresh' = TRUE
      /\ Send(j).ok = FALSE => queue' # <<>>
  BY <1>1, MarkKept
<1>3. CASE Send(j).ok = TRUE
  BY <1>1, <1>2, <1>3 DEF Owed
<1>4. CASE Send(j).ok = FALSE
  BY <1>1, <1>2, <1>4 DEF Owed
<1> QED  BY <1>1, <1>2, <1>3, <1>4

\* What becomes of the queue in a step that is no step of the worker.
RefreshAsked ==
    \/ RequestRefresh
    \/ \E j : j.type # "Refresh" /\ Sent(j) /\ UNCHANGED <<retry, owed>>
    \/ UNCHANGED jobs

\* Whatever is asked for, nothing owed is lost.
LEMMA AskedRefreshes ==
    ASSUME Shapes, MarkTrue, Owed, RefreshAsked, worker' = worker, ui' = ui, wakes' = wakes,
           results' = results, scanned' = scanned
    PROVE  /\ MarkTrue' /\ IsSequence(queue') /\ pendingRefresh' \in BOOLEAN
           /\ retry' \in BOOLEAN /\ owed' \in {owed, now} /\ Owed'
<1>1. CASE RequestRefresh  BY <1>1, Requested
<1>2. CASE \E j : j.type # "Refresh" /\ Sent(j) /\ UNCHANGED <<retry, owed>>
  <2>1. PICK j : j.type # "Refresh" /\ Sent(j) /\ UNCHANGED <<retry, owed>>  BY <1>2
  <2>2. /\ MarkTrue' /\ IsSequence(queue') /\ pendingRefresh' = pendingRefresh
        /\ queue # <<>> => queue' # <<>>
    BY <2>1, MarkKept
  <2>3. Owed'  BY <2>1, <2>2 DEF Owed
  <2> QED  BY <2>1, <2>2, <2>3 DEF Shapes
<1>3. CASE UNCHANGED jobs  BY <1>3 DEF jobs, MarkTrue, Owed, Shapes
<1> QED  BY <1>1, <1>2, <1>3 DEF RefreshAsked

\* While the results and the worker stay, the scans stay in order.
LEMMA ScansKept ==
    ASSUME Shapes, ScansInOrder, UNCHANGED <<results, worker, scanned>>,
           now' \in Nat, now <= now'
    PROVE  ScansInOrder'
<1>1. now \in Nat /\ scanned \in Nat  BY DEF Shapes
<1>2. \A r : ScanTrue(r, scanned, now) => ScanTrue(r, scanned', now')  BY <1>1 DEF ScanTrue
<1> QED  BY <1>2 DEF ScansInOrder

\* A callback of the user.
LEMMA CallbackRefreshes ==
    ASSUME Shapes, Refreshes, RefreshAsked, Elsewhere, acts' \in Nat
    PROVE  Shapes' /\ Refreshes'
<1>1. UNCHANGED <<world, now, changes, worker, results, wakes, ui, defs, scanned>>
  BY DEF Elsewhere
<1>2. /\ MarkTrue' /\ IsSequence(queue') /\ pendingRefresh' \in BOOLEAN
      /\ retry' \in BOOLEAN /\ owed' \in {owed, now} /\ Owed'
  BY <1>1, AskedRefreshes DEF Refreshes
<1>3. ScansInOrder'
  <2>1. now' \in Nat /\ now <= now'  BY <1>1 DEF Shapes
  <2> QED  BY <1>1, <2>1, ScansKept DEF Refreshes
<1>4. Woken'  BY <1>1 DEF Woken, Refreshes
<1>5. Shapes'
  <2>1. owed' \in Nat /\ owed' <= now'  BY <1>1, <1>2 DEF Shapes
  <2> QED  BY <1>1, <1>2, <2>1 DEF Shapes
<1> QED  BY <1>2, <1>3, <1>4, <1>5 DEF Refreshes

\* A result is applied: the scans that are left are no older than this one.
LEMMA DrainedScans ==
    ASSUME Shapes, ScansInOrder, results # <<>>, results' = Tail(results), worker' = worker,
           now' = now,
           scanned' = IF IsScan(Head(results).job) THEN Head(results).result.at ELSE scanned
    PROVE  /\ ScansInOrder' /\ IsSequence(results')
           /\ scanned' \in Nat /\ scanned <= scanned' /\ scanned' <= now
           /\ IsScan(Head(results).job) => Snapshot(Head(results).result.defs)
<1>1. IsSequence(results) /\ scanned \in Nat /\ now \in Nat /\ scanned <= now  BY DEF Shapes
<1>2. /\ \A i \in DOMAIN results' : i + 1 \in DOMAIN results /\ results'[i] = results[i + 1]
      /\ 1 \in DOMAIN results /\ Head(results) = results[1]
      /\ DOMAIN results' = 1 .. (Len(results) - 1) /\ IsSequence(results')
  BY <1>1, Rest
<1>3. Len(results) \in Nat  BY <1>1, SequenceShape
<1>4. scanned' \in Nat /\ scanned <= scanned' /\ scanned' <= now
  BY <1>1, <1>2 DEF ScansInOrder, ScanTrue
<1>5. IsScan(Head(results).job) => Snapshot(Head(results).result.defs)
  BY <1>2 DEF ScansInOrder, ScanTrue
<1>6. ASSUME NEW i \in DOMAIN results', IsScan(results'[i].job)
      PROVE  ScanTrue(results'[i].result, scanned', now')
  <2>1. i \in Nat /\ 1 < i + 1 /\ i + 1 \in DOMAIN results /\ results'[i] = results[i + 1]
    BY <1>2, <1>3
  <2>2. ScanTrue(results[i + 1].result, scanned, now)  BY <1>6, <2>1 DEF ScansInOrder
  <2>3. scanned' <= results[i + 1].result.at
    BY <1>1, <1>2, <1>6, <2>1, <2>2 DEF ScansInOrder, ScanTrue
  <2> QED  BY <1>1, <1>4, <2>1, <2>2, <2>3 DEF ScanTrue
<1>7. ASSUME NEW i \in DOMAIN results', NEW k \in DOMAIN results', i < k,
             IsScan(results'[i].job), IsScan(results'[k].job)
      PROVE  results'[i].result.at <= results'[k].result.at
  <2>1. i \in Nat /\ k \in Nat /\ i + 1 < k + 1  BY <1>2, <1>3, <1>7
  <2> QED  BY <1>2, <1>7, <2>1 DEF ScansInOrder
<1>8. ASSUME worker'.stage = "post", IsScan(worker'.job)
      PROVE  /\ ScanTrue(worker'.result, scanned', now')
             /\ \A i \in DOMAIN results' :
                    IsScan(results'[i].job) => results'[i].result.at <= worker'.result.at
  <2>1. ScanTrue(worker.result, scanned, now)  BY <1>8 DEF ScansInOrder
  <2>2. scanned' <= worker.result.at  BY <1>1, <1>2, <1>8, <2>1 DEF ScansInOrder, ScanTrue
  <2>3. ScanTrue(worker'.result, scanned', now')  BY <1>1, <1>4, <2>1, <2>2 DEF ScanTrue
  <2>4. \A i \in DOMAIN results' :
            IsScan(results'[i].job) => results'[i].result.at <= worker'.result.at
    BY <1>2, <1>8 DEF ScansInOrder
  <2> QED  BY <2>3, <2>4
<1>9. ScansInOrder'
  BY <1>6, <1>7, <1>8 DEF ScansInOrder
<1> QED  BY <1>2, <1>4, <1>5, <1>9

-----------------------------------------------------------------------------
(* Dialogs, the log view and the recovery editor *)

\* A dialog that is replaced shows nothing of the one before (ModalState::replace).
LEMMA ReplacedModal ==
    ASSUME NEW m, ModalTrue(m), NEW s, NEW form,
           NEW kind \in {"Closed", "Install", "Edit", "Remove"},
           kind = "Edit" \/ form # None => FormTrue(form)
    PROVE  /\ ModalTrue(Replaced(m, kind, s, form))
           /\ Replaced(m, kind, s, form).current = None
           /\ Replaced(m, kind, s, form).form = form
BY DEF ModalTrue, Replaced

\* A process dialog starts without rows (open_processes_modal).
LEMMA ReplacedByProcesses ==
    ASSUME NEW m, ModalTrue(m), NEW s
    PROVE  LET r == [Replaced(m, "Processes", s, None) EXCEPT !.rows = None]
           IN  ModalTrue(r) /\ r.kind = "Processes" /\ r.rows = None
BY DEF ModalTrue, Replaced

\* A request of a dialog is for what the dialog shows (ModalState::submit).
LEMMA SubmittedModal ==
    ASSUME NEW m, ModalTrue(m), NEW ok, m.kind = "Processes" => m.rows = None
    PROVE  LET r == Submitted(m, ModalRequest(m), ok)
           IN  /\ ModalTrue(r) /\ r.kind = m.kind
               /\ r.current # None => ok /\ r.current = ModalRequest(m)
BY DEF ModalTrue, Submitted, ModalRequest

\* An answer frees the dialog that waits for it and no other (Pending::finish).
LEMMA FinishedModal ==
    ASSUME NEW m, ModalTrue(m), NEW q
    PROVE  /\ ModalTrue(Finished(m, q)) /\ Finished(m, q).kind = m.kind
           /\ Finished(m, q).current # None => Finished(m, q).current = m.current /\ m.current # q
BY DEF ModalTrue, Finished, Matches

\* What the user does not type stays as it was read.
LEMMA TypedForm ==
    ASSUME NEW form, FormTrue(form), NEW f \in Fields, NEW n \in Nat
    PROVE  FormTrue(Typed(form, f, n))
<1> DEFINE v == [n |-> n, padded |-> FALSE]
           w == [form.value EXCEPT ![f] = v]
           t == Typed(form, f, n)
<1>1. v \in FieldValue  BY DEF FieldValue
<1>2. DOMAIN t = {"orig", "value", "typed", "password"} /\ t.orig = form.orig /\ t.value = w
        /\ t.typed = form.typed \cup {f}
  BY DEF FormTrue, Typed
<1>3. form.value \in [Fields -> FieldValue]  BY DEF FormTrue
<1> HIDE DEF v, t
<1>4. w \in [Fields -> FieldValue] /\ \A g \in Fields : g # f => w[g] = form.value[g]
  BY <1>1, <1>3
<1> HIDE DEF w
<1>5. FormTrue(t)  BY <1>2, <1>4 DEF FormTrue
<1> QED  BY <1>5 DEF t

\* A password changes nothing else of a form (EditForm::clear_password).
LEMMA PasswordForm ==
    ASSUME NEW form, FormTrue(form), NEW b
    PROVE  FormTrue(WithPassword(form, b))
BY DEF FormTrue, WithPassword

\* Without being typed only a value that was stored with blanks is written, and the
\* account of a password (EditForm::to_spec).
LEMMA SpecOfForm ==
    ASSUME NEW form, FormTrue(form)
    PROVE  SpecTrue(ToSpec(form), form)
<1> SUFFICES ASSUME NEW f \in DOMAIN ToSpec(form)
             PROVE  /\ Written(form, f)
                    /\ ToSpec(form)[f] = Trimmed(f, form.value[f])
                    /\ ToSpec(form)[f] \in FieldValue
  BY DEF SpecTrue
<1>1. /\ f \in Fields /\ ToSpec(form)[f] = Trimmed(f, form.value[f])
      /\ Trimmed(f, form.value[f]) # form.orig[f] \/ (f = "account" /\ form.password)
  BY DEF ToSpec
<1>2. form.value[f] \in FieldValue /\ form.orig[f] \in FieldValue  BY <1>1 DEF FormTrue
<1>3. \A v \in FieldValue : Trimmed(f, v) \in FieldValue  BY DEF Trimmed, FieldValue
<1>4. ASSUME f \notin form.typed, ~(f = "account" /\ form.password)
      PROVE  f \in TrimmedFields /\ form.orig[f].padded
  <2>1. form.value[f] = form.orig[f]  BY <1>1, <1>4 DEF FormTrue
  <2>2. Trimmed(f, form.orig[f]) # form.orig[f]  BY <1>1, <1>4, <2>1
  <2>3. f \in TrimmedFields  BY <2>2 DEF Trimmed
  <2>4. ASSUME NEW v \in FieldValue, v.padded = FALSE PROVE [v EXCEPT !.padded = FALSE] = v
    BY <2>4 DEF FieldValue
  <2>5. form.orig[f].padded # FALSE  BY <1>2, <2>2, <2>3, <2>4 DEF Trimmed
  <2>6. form.orig[f].padded \in BOOLEAN  BY <1>2 DEF FieldValue
  <2> QED  BY <2>3, <2>5, <2>6
<1>5. Written(form, f)  BY <1>4 DEF Written
<1> QED  BY <1>1, <1>2, <1>3, <1>5

\* The recovery editor forgets what is under way but keeps its draft
\* (RecoveryEditor::leave), and the draft of the same service only when it is entered
\* again (RecoveryEditor::activate).
LEMMA LeftRecovery ==
    ASSUME NEW r, RecoveryTrue(r)
    PROVE  RecoveryTrue(Left(r))
BY DEF RecoveryTrue, Left

\* A draft that is kept when the editor is entered is one that was read for the service.
LEMMA ActivatedRecovery ==
    ASSUME NEW r, RecoveryTrue(r), NEW s, s # None
    PROVE  LET a == Activated(r, s)
           IN  /\ RecoveryTrue(a) /\ a.current = None /\ a.service = s
               /\ a.draft # None => a.draft.dirty = FALSE
<1> DEFINE l == Left(r)
           d == IF l.draft # None /\ l.draft.service = s
                THEN [l.draft EXCEPT !.dirty = FALSE] ELSE None
           a == Activated(r, s)
<1>1. RecoveryTrue(l) /\ l.current = None  BY LeftRecovery DEF RecoveryTrue, Left
<1>2. a = [l EXCEPT !.generation = @ + 1, !.service = s, !.draft = d]  BY DEF Activated
<1> HIDE DEF l, a
<1>3. /\ DOMAIN a = {"next", "current", "service", "generation", "draft"}
      /\ a.current = None /\ a.service = s /\ a.draft = d
  BY <1>1, <1>2 DEF RecoveryTrue
<1>4. d # None => /\ DOMAIN d = {"service", "of", "dirty"} /\ d.dirty = FALSE
                  /\ d.service = s /\ d.of = s
  BY <1>1 DEF RecoveryTrue
<1> HIDE DEF d
<1>5. RecoveryTrue(a)  BY <1>3, <1>4 DEF RecoveryTrue
<1> QED  BY <1>3, <1>4, <1>5 DEF a

\* A request of the editor is for the service it edits (RecoveryEditor::submit).
LEMMA SubmittedRecovery ==
    ASSUME NEW r, RecoveryTrue(r), NEW purpose, NEW ok, r.service # None,
           purpose = "Read" /\ r.draft # None => r.draft.dirty = FALSE
    PROVE  RecoveryTrue(Submitted(r, RecoveryRequest(r, purpose), ok))
<1> DEFINE q == RecoveryRequest(r, purpose)
           t == Submitted(r, q, ok)
<1>1. q.service = r.service /\ q.work = purpose  BY DEF RecoveryRequest
<1> HIDE DEF q
<1>2. /\ DOMAIN t = {"next", "current", "service", "generation", "draft"}
      /\ t.current = (IF ok THEN q ELSE None) /\ t.service = r.service /\ t.draft = r.draft
  BY DEF RecoveryTrue, Submitted
<1> HIDE DEF t
<1>3. RecoveryTrue(t)  BY <1>1, <1>2 DEF RecoveryTrue
<1> QED  BY <1>3 DEF t, q

\* An answer leaves the draft alone (Pending::finish).
LEMMA FinishedRecovery ==
    ASSUME NEW r, RecoveryTrue(r), NEW q
    PROVE  /\ RecoveryTrue(Finished(r, q)) /\ Finished(r, q).draft = r.draft
           /\ Matches(r, q) => Finished(r, q).current = None
           /\ Finished(r, q).service = r.service
BY DEF RecoveryTrue, Finished, Matches

-----------------------------------------------------------------------------
(* Callbacks *)

\* The views stay true when they are true of themselves, no job is lost, and what is
\* newly shown as pending or busy belongs to the job that was sent.
LEMMA ViewsKept ==
    ASSUME ViewsTrue, LogTrue(logs'), ModalTrue(modal'), RecoveryTrue(recovery'),
           lostEdit' = lostEdit, InFlight \subseteq InFlight',
           NEW j, InFlight' \subseteq InFlight \cup {j}, JobTrue(j),
           \A e \in status' : e \in status \/ (j \in InFlight' /\ Operation(j, e)),
           modal'.current # None =>
                \/ modal'.current = modal.current /\ modal'.kind = modal.kind
                \/ j \in InFlight' /\ j.type = modal'.kind /\ j.request = modal'.current
    PROVE  ViewsTrue'
<1>1. \A i \in InFlight' : JobTrue(i)  BY DEF ViewsTrue
<1>2. StatusTrue(status', InFlight')  BY DEF ViewsTrue, StatusTrue
<1>3. BusyTrue(modal', InFlight')  BY DEF ViewsTrue, BusyTrue
<1> QED  BY <1>1, <1>2, <1>3 DEF ViewsTrue

\* A callback that sends nothing.
LEMMA QuietCallback ==
    ASSUME GuiInv, Elsewhere, acts' \in Nat, UNCHANGED <<jobs, status, lostEdit>>,
           LogTrue(logs'), ModalTrue(modal'), RecoveryTrue(recovery'),
           modal'.current # None => modal'.current = modal.current /\ modal'.kind = modal.kind
    PROVE  GuiInv'
<1> DEFINE j == [type |-> "Refresh"]
<1>1. Shapes' /\ Refreshes'  BY CallbackRefreshes DEF GuiInv, RefreshAsked
<1>2. JobTrue(j)  BY DEF JobTrue
<1>3. InFlight' = InFlight  BY DEF Elsewhere, jobs, InFlight
<1> HIDE DEF j
<1>4. ViewsTrue'
  <2>1. \A e \in status' : e \in status \/ (j \in InFlight' /\ Operation(j, e))  OBVIOUS
  <2> QED  BY <1>2, <1>3, <2>1, ViewsKept DEF GuiInv
<1> QED  BY <1>1, <1>4 DEF GuiInv

\* A callback that sends a job.
LEMMA SendingCallback ==
    ASSUME GuiInv, Elsewhere, acts' \in Nat, lostEdit' = lostEdit,
           NEW j, j.type # "Refresh", JobTrue(j), Sent(j), UNCHANGED <<retry, owed>>,
           LogTrue(logs'), ModalTrue(modal'), RecoveryTrue(recovery'),
           \A e \in status' : e \in status \/ (Send(j).ok /\ Operation(j, e)),
           modal'.current # None =>
                \/ modal'.current = modal.current /\ modal'.kind = modal.kind
                \/ Send(j).ok /\ j.type = modal'.kind /\ j.request = modal'.current
    PROVE  GuiInv'
<1>1. Shapes' /\ Refreshes'
  <2>1. RefreshAsked  BY DEF RefreshAsked
  <2> QED  BY <2>1, CallbackRefreshes DEF GuiInv
<1>2. /\ InFlight \subseteq InFlight' /\ InFlight' \subseteq InFlight \cup {j}
      /\ Send(j).ok => j \in InFlight'
  BY InFlightSent DEF GuiInv, Elsewhere
<1>3. ViewsTrue'
  <2>1. \A e \in status' : e \in status \/ (j \in InFlight' /\ Operation(j, e))  BY <1>2
  <2>2. modal'.current # None =>
            \/ modal'.current = modal.current /\ modal'.kind = modal.kind
            \/ j \in InFlight' /\ j.type = modal'.kind /\ j.request = modal'.current
    BY <1>2
  <2> QED  BY <1>2, <2>1, <2>2, ViewsKept DEF GuiInv
<1> QED  BY <1>1, <1>3 DEF GuiInv

\* The views, one by one.
LEMMA ViewsOf ==
    ASSUME GuiInv
    PROVE  /\ LogTrue(logs) /\ ModalTrue(modal) /\ RecoveryTrue(recovery) /\ lostEdit = FALSE
           /\ acts \in Nat
BY DEF GuiInv, ViewsTrue, Shapes

\* A callback counts.
LEMMA Counted == ASSUME GuiInv, Callback PROVE acts' \in Nat
BY ViewsOf DEF Callback

\* BeginOperation shows one operation more.
LEMMA Begun ==
    ASSUME NEW kind, NEW id, BeginOperation(kind, id)
    PROVE  \A e \in status' : e \in status \/ e = <<kind, id>>
BY DEF BeginOperation

\* on_refresh.
LEMMA RefreshStep == GuiInv /\ Refresh => GuiInv'
<1> SUFFICES ASSUME GuiInv, Refresh PROVE GuiInv'  OBVIOUS
<1> DEFINE j == [type |-> "Refresh"]
<1>1. /\ Elsewhere /\ RequestRefresh /\ acts' \in Nat
      /\ UNCHANGED <<modal, logs, recovery, status, lostEdit>>
  BY Counted DEF Refresh, views, bookkeeping
<1>2. Shapes' /\ Refreshes'  BY <1>1, CallbackRefreshes DEF GuiInv, RefreshAsked
<1>3. Sent(j) /\ JobTrue(j)  BY <1>1 DEF RequestRefresh, JobTrue
<1> HIDE DEF j
<1>4. InFlight \subseteq InFlight' /\ InFlight' \subseteq InFlight \cup {j}
  BY <1>1, <1>3, InFlightSent DEF GuiInv, Elsewhere
<1>5. LogTrue(logs') /\ ModalTrue(modal') /\ RecoveryTrue(recovery')  BY <1>1, ViewsOf
<1>6. modal'.current = modal.current /\ modal'.kind = modal.kind /\ status' = status  BY <1>1
<1>7. ViewsTrue'  BY <1>1, <1>3, <1>4, <1>5, <1>6, ViewsKept DEF GuiInv
<1> QED  BY <1>2, <1>7 DEF GuiInv

\* Another row is selected.
LEMMA SelectStep == ASSUME GuiInv, NEW s, Select(s) PROVE GuiInv'
<1>1. /\ Elsewhere /\ acts' \in Nat /\ UNCHANGED <<jobs, status, lostEdit>>
      /\ UNCHANGED <<modal, logs, recovery>>
  BY Counted DEF Select, views, bookkeeping
<1>2. LogTrue(logs') /\ ModalTrue(modal') /\ RecoveryTrue(recovery')  BY <1>1, ViewsOf
<1>3. modal'.current = modal.current /\ modal'.kind = modal.kind  BY <1>1
<1> QED  BY <1>1, <1>2, <1>3, QuietCallback

\* queue_action, for an action and for a removal.
LEMMA ActionQueued ==
    ASSUME GuiInv, Elsewhere, acts' \in Nat, lostEdit' = lostEdit, NEW s, NEW kind,
           QueueAction(s, kind), LogTrue(logs'), ModalTrue(modal'), RecoveryTrue(recovery'),
           modal'.current # None => modal'.current = modal.current /\ modal'.kind = modal.kind
    PROVE  GuiInv'
<1> DEFINE j == [type |-> "Action", id |-> actionId + 1, service |-> s, kind |-> kind]
<1>1. /\ Sent(j) /\ UNCHANGED <<retry, owed>>
      /\ IF Send(j).ok THEN BeginOperation("action", j.id) ELSE UNCHANGED status
  BY DEF QueueAction
<1>2. j.type = "Action" /\ JobTrue(j)  BY DEF JobTrue
<1> HIDE DEF j
<1>3. \A e \in status' : e \in status \/ (Send(j).ok /\ Operation(j, e))
  <2>1. CASE Send(j).ok  BY <1>1, <1>2, <2>1, Begun DEF Operation
  <2>2. CASE ~Send(j).ok  BY <1>1, <2>2
  <2> QED  BY <2>1, <2>2
<1> QED  BY <1>1, <1>2, <1>3, SendingCallback

\* on_action.
LEMMA ActionStep == ASSUME GuiInv, NEW s, Action(s) PROVE GuiInv'
<1>1. /\ Elsewhere /\ acts' \in Nat /\ lostEdit' = lostEdit /\ QueueAction(s, "lifecycle")
      /\ UNCHANGED <<modal, logs, recovery>>
  BY Counted DEF Action, views
<1>2. LogTrue(logs') /\ ModalTrue(modal') /\ RecoveryTrue(recovery')  BY <1>1, ViewsOf
<1>3. modal'.current = modal.current /\ modal'.kind = modal.kind  BY <1>1
<1> QED  BY <1>1, <1>2, <1>3, ActionQueued

\* on_modal_remove_confirm.
LEMMA ConfirmRemoveStep == ASSUME GuiInv, ConfirmRemove PROVE GuiInv'
<1>1. /\ Elsewhere /\ acts' \in Nat /\ lostEdit' = lostEdit
      /\ QueueAction(modal.service, "remove")
      /\ UNCHANGED <<logs, recovery>>
      /\ modal' = IF Len(queue) < Cap THEN Replaced(modal, "Closed", None, None) ELSE modal
  BY Counted DEF ConfirmRemove
<1>2. LogTrue(logs') /\ RecoveryTrue(recovery') /\ ModalTrue(modal)  BY <1>1, ViewsOf
<1>3. CASE modal' = modal  BY <1>1, <1>2, <1>3, ActionQueued
<1>4. CASE modal' = Replaced(modal, "Closed", None, None)
  <2>1. ModalTrue(modal') /\ modal'.current = None  BY <1>2, <1>4, ReplacedModal
  <2> QED  BY <1>1, <1>2, <2>1, ActionQueued
<1> QED  BY <1>1, <1>3, <1>4

\* Another dialog opens or closes.
LEMMA OpenModalStep ==
    ASSUME GuiInv, NEW kind \in {"Closed", "Install", "Remove"}, NEW s, OpenModal(kind, s)
    PROVE  GuiInv'
<1>1. /\ Elsewhere /\ acts' \in Nat /\ UNCHANGED <<jobs, status, lostEdit>>
      /\ UNCHANGED <<logs, recovery>> /\ modal' = Replaced(modal, kind, s, None)
  BY Counted DEF OpenModal, bookkeeping
<1>2. LogTrue(logs') /\ ModalTrue(modal) /\ RecoveryTrue(recovery')  BY <1>1, ViewsOf
<1>3. ModalTrue(modal') /\ modal'.current = None  BY <1>1, <1>2, ReplacedModal
<1> QED  BY <1>1, <1>2, <1>3, QuietCallback

\* open_edit_modal: the form has what the last scan saw.
LEMMA OpenEditStep == ASSUME GuiInv, NEW s, OpenEdit(s) PROVE GuiInv'
<1> DEFINE form == FormOf(defs[s])
<1>1. /\ Elsewhere /\ acts' \in Nat /\ UNCHANGED <<jobs, status, lostEdit>>
      /\ UNCHANGED <<logs, recovery>> /\ modal' = Replaced(modal, "Edit", s, form)
      /\ s \in DOMAIN defs
  BY Counted DEF OpenEdit, bookkeeping
<1>2. LogTrue(logs') /\ ModalTrue(modal) /\ RecoveryTrue(recovery')  BY <1>1, ViewsOf
<1>3. defs[s] \in [Fields -> FieldValue]  BY <1>1 DEF GuiInv, Shapes, Snapshot
<1>4. FormTrue(form)  BY <1>3 DEF FormTrue, FormOf
<1> HIDE DEF form
<1>5. ModalTrue(modal') /\ modal'.current = None  BY <1>1, <1>2, <1>4, ReplacedModal
<1> QED  BY <1>1, <1>2, <1>5, QuietCallback

\* open_processes_modal.
LEMMA OpenProcessesStep == ASSUME GuiInv, NEW s, OpenProcesses(s) PROVE GuiInv'
<1> DEFINE m == [Replaced(modal, "Processes", s, None) EXCEPT !.rows = None]
           j == [type |-> "Processes", request |-> ModalRequest(m)]
<1>1. /\ Elsewhere /\ acts' \in Nat /\ UNCHANGED <<status, lostEdit, logs, recovery>>
      /\ Sent(j) /\ UNCHANGED <<retry, owed>>
      /\ modal' = Submitted(m, ModalRequest(m), Send(j).ok)
  BY Counted DEF OpenProcesses, bookkeeping
<1>2. LogTrue(logs') /\ ModalTrue(modal) /\ RecoveryTrue(recovery')  BY <1>1, ViewsOf
<1>3. ModalTrue(m) /\ m.kind = "Processes" /\ m.rows = None  BY <1>2, ReplacedByProcesses
<1> HIDE DEF m
<1>4. j.type = "Processes" /\ j.request = ModalRequest(m) /\ JobTrue(j)  BY DEF JobTrue
<1> HIDE DEF j
<1>5. /\ ModalTrue(modal') /\ modal'.kind = "Processes"
      /\ modal'.current # None => Send(j).ok /\ modal'.current = ModalRequest(m)
  BY <1>1, <1>3, SubmittedModal
<1> QED  BY <1>1, <1>2, <1>4, <1>5, SendingCallback

\* The user types.
LEMMA TypeFieldStep == ASSUME GuiInv, NEW f \in Fields, TypeField(f) PROVE GuiInv'
<1>1. /\ Elsewhere /\ acts' \in Nat /\ UNCHANGED <<jobs, status, lostEdit>>
      /\ UNCHANGED <<logs, recovery>> /\ modal.kind = "Edit"
      /\ modal' = [modal EXCEPT !.form = Typed(@, f, 100 + acts)]
  BY Counted DEF TypeField, bookkeeping
<1>2. LogTrue(logs') /\ ModalTrue(modal) /\ RecoveryTrue(recovery') /\ acts \in Nat
  BY <1>1, ViewsOf
<1>3. FormTrue(modal.form) /\ 100 + acts \in Nat  BY <1>1, <1>2 DEF ModalTrue
<1>4. FormTrue(Typed(modal.form, f, 100 + acts))  BY <1>3, TypedForm
<1>5. ModalTrue(modal') /\ modal'.current = modal.current /\ modal'.kind = modal.kind
  BY <1>1, <1>2, <1>4 DEF ModalTrue
<1> QED  BY <1>1, <1>2, <1>5, QuietCallback

\* The user types a password.
LEMMA TypePasswordStep == ASSUME GuiInv, TypePassword PROVE GuiInv'
<1>1. /\ Elsewhere /\ acts' \in Nat /\ UNCHANGED <<jobs, status, lostEdit>>
      /\ UNCHANGED <<logs, recovery>> /\ modal.kind = "Edit"
      /\ modal' = [modal EXCEPT !.form = WithPassword(@, TRUE)]
  BY Counted DEF TypePassword, bookkeeping
<1>2. LogTrue(logs') /\ ModalTrue(modal) /\ RecoveryTrue(recovery')  BY <1>1, ViewsOf
<1>3. FormTrue(WithPassword(modal.form, TRUE))  BY <1>1, <1>2, PasswordForm DEF ModalTrue
<1>4. ModalTrue(modal') /\ modal'.current = modal.current /\ modal'.kind = modal.kind
  BY <1>1, <1>2, <1>3 DEF ModalTrue
<1> QED  BY <1>1, <1>2, <1>4, QuietCallback

\* The file picker returns, whatever the dialog is by then.
LEMMA PickedStep == ASSUME GuiInv, Picked PROVE GuiInv'
<1>1. /\ Elsewhere /\ acts' = acts /\ UNCHANGED <<jobs, status, lostEdit>>
      /\ UNCHANGED <<logs, recovery>>
      /\ \/ modal' = modal
         \/ modal.form # None /\ modal' = [modal EXCEPT !.form = Typed(@, "application", 200)]
  BY DEF Picked, bookkeeping
<1>2. LogTrue(logs') /\ ModalTrue(modal) /\ RecoveryTrue(recovery') /\ acts' \in Nat
  BY <1>1, ViewsOf
<1>3. CASE modal' = modal  BY <1>1, <1>2, <1>3, QuietCallback
<1>4. CASE modal.form # None /\ modal' = [modal EXCEPT !.form = Typed(@, "application", 200)]
  <2>1. FormTrue(modal.form) /\ "application" \in Fields  BY <1>2, <1>4 DEF ModalTrue, Fields
  <2>2. FormTrue(Typed(modal.form, "application", 200))  BY <2>1, TypedForm
  <2>3. ModalTrue(modal') /\ modal'.current = modal.current /\ modal'.kind = modal.kind
    BY <1>2, <1>4, <2>2 DEF ModalTrue
  <2> QED  BY <1>1, <1>2, <2>3, QuietCallback
<1> QED  BY <1>1, <1>3, <1>4

\* on_modal_edit_submit and on_modal_install_submit.
LEMMA SubmitModalStep == ASSUME GuiInv, SubmitModal PROVE GuiInv'
<1> DEFINE edit == modal.kind = "Edit"
           cleared == IF edit THEN [modal EXCEPT !.form = WithPassword(@, FALSE)] ELSE modal
           j == [type |-> modal.kind, request |-> ModalRequest(modal),
                 spec |-> IF edit THEN ToSpec(modal.form) ELSE <<>>,
                 form |-> IF edit THEN modal.form ELSE None]
<1>1. /\ Elsewhere /\ acts' \in Nat /\ UNCHANGED <<lostEdit, logs, recovery>>
      /\ modal.kind \in {"Install", "Edit"}
      /\ Sent(j) /\ UNCHANGED <<retry, owed>>
      /\ modal' = Submitted(cleared, ModalRequest(modal), Send(j).ok)
      /\ IF Send(j).ok THEN BeginOperation("modal", j.request.id) ELSE UNCHANGED status
  BY Counted DEF SubmitModal
<1>2. LogTrue(logs') /\ ModalTrue(modal) /\ RecoveryTrue(recovery')  BY <1>1, ViewsOf
<1>3. j.type = modal.kind /\ j.request = ModalRequest(modal)  OBVIOUS
<1>4. j.type = "Edit" =>
            FormTrue(modal.form) /\ j.spec = ToSpec(modal.form) /\ j.form = modal.form
  BY <1>2 DEF ModalTrue
<1> HIDE DEF j
<1>5. JobTrue(j)
  <2>1. j.type # "SaveRecovery" /\ j.type # "ReadRecovery"  BY <1>1, <1>3
  <2>2. j.type = "Edit" => SpecTrue(j.spec, j.form)  BY <1>4, SpecOfForm
  <2> QED  BY <2>1, <2>2 DEF JobTrue
<1>6. /\ ModalTrue(modal') /\ modal'.kind = modal.kind
      /\ modal'.current # None => Send(j).ok /\ modal'.current = ModalRequest(modal)
  <2>1. ModalTrue(cleared) /\ cleared.kind = modal.kind /\ ModalRequest(cleared) = ModalRequest(modal)
    <3>1. CASE edit
      <4>1. FormTrue(WithPassword(modal.form, FALSE))
        BY <1>2, <3>1, PasswordForm DEF ModalTrue
      <4> QED  BY <1>2, <3>1, <4>1 DEF ModalTrue, ModalRequest
    <3>2. CASE ~edit  BY <1>2, <3>2
    <3> QED  BY <3>1, <3>2
  <2> HIDE DEF cleared
  <2> QED  BY <1>1, <2>1, SubmittedModal
<1>7. \A e \in status' : e \in status \/ (Send(j).ok /\ Operation(j, e))
  <2>1. CASE Send(j).ok  BY <1>1, <1>3, <2>1, Begun DEF Operation
  <2>2. CASE ~Send(j).ok  BY <1>1, <2>2
  <2> QED  BY <2>1, <2>2
<1> QED  BY <1>1, <1>2, <1>3, <1>5, <1>6, <1>7, SendingCallback

\* The file picker opens.
LEMMA BrowseStep == ASSUME GuiInv, Browse PROVE GuiInv'
<1>1. /\ Elsewhere /\ acts' \in Nat /\ UNCHANGED <<jobs, status, lostEdit>>
      /\ UNCHANGED <<modal, logs, recovery>>
  BY Counted DEF Browse, bookkeeping
<1>2. LogTrue(logs') /\ ModalTrue(modal') /\ RecoveryTrue(recovery')  BY <1>1, ViewsOf
<1>3. modal'.current = modal.current /\ modal'.kind = modal.kind  BY <1>1
<1> QED  BY <1>1, <1>2, <1>3, QuietCallback

\* request_log.
LEMMA RequestLogStep == ASSUME GuiInv, NEW e, RequestLog(e) PROVE GuiInv'
<1> DEFINE target == [service |-> selected, stderr |-> e]
           request == [id |-> logs.next + 1, target |-> target]
           j == [type |-> "ReadLog", request |-> request]
<1>1. /\ Elsewhere /\ acts' \in Nat /\ UNCHANGED <<status, lostEdit, modal, recovery>>
      /\ \/ /\ Sent(j) /\ UNCHANGED <<retry, owed>>
            /\ logs' = [next |-> request.id, target |-> target, lines |-> None,
                        current |-> IF Send(j).ok THEN request ELSE None]
         \/ /\ logs' = [logs EXCEPT !.current = None, !.target = None, !.lines = None]
            /\ UNCHANGED jobs
  BY Counted DEF RequestLog, bookkeeping
<1>2. LogTrue(logs) /\ ModalTrue(modal') /\ RecoveryTrue(recovery')  BY <1>1, ViewsOf
<1>3. modal'.current = modal.current /\ modal'.kind = modal.kind /\ status' = status  BY <1>1
<1>4. CASE /\ Sent(j) /\ UNCHANGED <<retry, owed>>
           /\ logs' = [next |-> request.id, target |-> target, lines |-> None,
                       current |-> IF Send(j).ok THEN request ELSE None]
  <2>1. j.type = "ReadLog" /\ JobTrue(j)  BY DEF JobTrue
  <2>2. request.target = target  OBVIOUS
  <2> HIDE DEF j, target, request
  <2>3. LogTrue(logs')  BY <1>4, <2>2 DEF LogTrue
  <2> QED  BY <1>1, <1>2, <1>3, <1>4, <2>1, <2>3, SendingCallback
<1>5. CASE /\ logs' = [logs EXCEPT !.current = None, !.target = None, !.lines = None]
           /\ UNCHANGED jobs
  <2>1. LogTrue(logs')  BY <1>2, <1>5 DEF LogTrue
  <2> QED  BY <1>1, <1>2, <1>3, <1>5, <2>1, QuietCallback
<1> QED  BY <1>1, <1>4, <1>5

\* on_view_changed.
LEMMA ViewChangedStep == ASSUME GuiInv, NEW v, ViewChanged(v) PROVE GuiInv'
<1>1. /\ Elsewhere /\ acts' \in Nat /\ UNCHANGED <<jobs, status, lostEdit>> /\ modal' = modal
      /\ recovery' \in {Left(recovery), recovery}
      /\ logs' \in {[logs EXCEPT !.current = None], logs}
  BY Counted DEF ViewChanged, bookkeeping
<1>2. LogTrue(logs) /\ ModalTrue(modal') /\ RecoveryTrue(recovery)  BY <1>1, ViewsOf
<1>3. LogTrue(logs')  BY <1>1, <1>2 DEF LogTrue
<1>4. RecoveryTrue(recovery')  BY <1>1, <1>2, LeftRecovery
<1>5. modal'.current = modal.current /\ modal'.kind = modal.kind  BY <1>1
<1> QED  BY <1>1, <1>2, <1>3, <1>4, <1>5, QuietCallback

\* reload_recovery.
LEMMA ReloadRecoveryStep == ASSUME GuiInv, ReloadRecovery PROVE GuiInv'
<1> DEFINE r == Activated(recovery, selected)
           j == [type |-> "ReadRecovery", request |-> RecoveryRequest(r, "Read")]
<1>1. /\ Elsewhere /\ acts' \in Nat /\ UNCHANGED <<status, lostEdit, modal, logs>>
      /\ \/ /\ selected # None
            /\ Sent(j) /\ UNCHANGED <<retry, owed>>
            /\ recovery' = Submitted(r, RecoveryRequest(r, "Read"), Send(j).ok)
         \/ recovery' = Left(recovery) /\ UNCHANGED jobs
  BY Counted DEF ReloadRecovery, bookkeeping
<1>2. LogTrue(logs') /\ ModalTrue(modal') /\ RecoveryTrue(recovery)  BY <1>1, ViewsOf
<1>3. modal'.current = modal.current /\ modal'.kind = modal.kind /\ status' = status  BY <1>1
<1>4. CASE /\ selected # None
           /\ Sent(j) /\ UNCHANGED <<retry, owed>>
           /\ recovery' = Submitted(r, RecoveryRequest(r, "Read"), Send(j).ok)
  <2>1. /\ RecoveryTrue(r) /\ r.service = selected
        /\ r.draft # None => r.draft.dirty = FALSE
    BY <1>2, <1>4, ActivatedRecovery, Zenon
  <2>2. j.type = "ReadRecovery" /\ JobTrue(j)  BY DEF JobTrue, RecoveryRequest
  <2> HIDE DEF r, j
  <2>3. RecoveryTrue(recovery')  BY <1>4, <2>1, SubmittedRecovery
  <2> QED  BY <1>1, <1>2, <1>3, <1>4, <2>2, <2>3, SendingCallback
<1>5. CASE recovery' = Left(recovery) /\ UNCHANGED jobs
  <2>1. RecoveryTrue(recovery')  BY <1>2, <1>5, LeftRecovery
  <2> QED  BY <1>1, <1>2, <1>3, <1>5, <2>1, QuietCallback
<1> QED  BY <1>1, <1>4, <1>5

\* editable_draft.
LEMMA EditRecoveryStep == ASSUME GuiInv, EditRecovery PROVE GuiInv'
<1>1. /\ Elsewhere /\ acts' \in Nat /\ UNCHANGED <<jobs, status, lostEdit>>
      /\ UNCHANGED <<modal, logs>> /\ recovery.current = None /\ recovery.draft # None
      /\ recovery' = [recovery EXCEPT !.draft = [@ EXCEPT !.dirty = TRUE]]
  BY Counted DEF EditRecovery, bookkeeping
<1>2. LogTrue(logs') /\ ModalTrue(modal') /\ RecoveryTrue(recovery)  BY <1>1, ViewsOf
<1>3. modal'.current = modal.current /\ modal'.kind = modal.kind  BY <1>1
<1>4. RecoveryTrue(recovery')
  <2> DEFINE d == [recovery.draft EXCEPT !.dirty = TRUE]
  <2>1. /\ DOMAIN d = {"service", "of", "dirty"} /\ d.dirty \in BOOLEAN
        /\ d.service = recovery.draft.service /\ d.of = recovery.draft.of
    BY <1>1, <1>2 DEF RecoveryTrue
  <2>2. recovery' = [recovery EXCEPT !.draft = d]  BY <1>1
  <2> HIDE DEF d
  <2> QED  BY <1>1, <1>2, <2>1, <2>2 DEF RecoveryTrue
<1> QED  BY <1>1, <1>2, <1>3, <1>4, QuietCallback

\* on_recovery_save.
LEMMA SaveRecoveryStep == ASSUME GuiInv, SaveRecovery PROVE GuiInv'
<1> DEFINE j == [type |-> "SaveRecovery", request |-> RecoveryRequest(recovery, "Save"),
                 spec |-> recovery.draft]
<1>1. /\ Elsewhere /\ acts' \in Nat /\ UNCHANGED <<lostEdit, modal, logs>>
      /\ recovery.service # None /\ recovery.draft # None
      /\ Sent(j) /\ UNCHANGED <<retry, owed>>
      /\ recovery' = Submitted(recovery, RecoveryRequest(recovery, "Save"), Send(j).ok)
      /\ IF Send(j).ok THEN BeginOperation("recovery", j.request.id) ELSE UNCHANGED status
  BY Counted DEF SaveRecovery
<1>2. LogTrue(logs') /\ ModalTrue(modal') /\ RecoveryTrue(recovery)  BY <1>1, ViewsOf
<1>3. modal'.current = modal.current /\ modal'.kind = modal.kind  BY <1>1
<1>4. /\ j.type = "SaveRecovery" /\ j.spec = recovery.draft
      /\ j.request.service = recovery.service
  BY DEF RecoveryRequest
<1> HIDE DEF j
<1>5. JobTrue(j)  BY <1>1, <1>2, <1>4 DEF JobTrue, RecoveryTrue
<1>6. RecoveryTrue(recovery')  BY <1>1, <1>2, SubmittedRecovery
<1>7. \A e \in status' : e \in status \/ (Send(j).ok /\ Operation(j, e))
  <2>1. CASE Send(j).ok  BY <1>1, <1>4, <2>1, Begun DEF Operation
  <2>2. CASE ~Send(j).ok  BY <1>1, <2>2
  <2> QED  BY <2>1, <2>2
<1> QED  BY <1>1, <1>2, <1>3, <1>4, <1>5, <1>6, <1>7, SendingCallback

\* Every callback.
LEMMA UserSteps == ASSUME GuiInv, UserStep PROVE GuiInv'
<1>1. CASE Refresh  BY <1>1, RefreshStep
<1>2. CASE SubmitModal  BY <1>2, SubmitModalStep
<1>3. CASE ConfirmRemove  BY <1>3, ConfirmRemoveStep
<1>4. CASE Browse  BY <1>4, BrowseStep
<1>5. CASE ReloadRecovery  BY <1>5, ReloadRecoveryStep
<1>6. CASE EditRecovery  BY <1>6, EditRecoveryStep
<1>7. CASE SaveRecovery  BY <1>7, SaveRecoveryStep
<1>8. ASSUME NEW s, Select(s) \/ Action(s) PROVE GuiInv'  BY <1>8, SelectStep, ActionStep
<1>9. ASSUME NEW s, OpenEdit(s) \/ OpenProcesses(s) \/ OpenModal("Remove", s) PROVE GuiInv'
  BY <1>9, OpenEditStep, OpenProcessesStep, OpenModalStep
<1>10. CASE OpenModal("Install", None) \/ OpenModal("Closed", None)  BY <1>10, OpenModalStep
<1>11. ASSUME NEW f \in Fields, TypeField(f) PROVE GuiInv'  BY <1>11, TypeFieldStep
<1>12. ASSUME NEW e, RequestLog(e) PROVE GuiInv'  BY <1>12, RequestLogStep
<1>13. ASSUME NEW v, ViewChanged(v) PROVE GuiInv'  BY <1>13, ViewChangedStep
<1>14. CASE TypePassword  BY <1>14, TypePasswordStep
<1> QED  BY <1>1, <1>2, <1>3, <1>4, <1>5, <1>6, <1>7, <1>8, <1>9, <1>10, <1>11, <1>12, <1>13,
            <1>14
         DEF UserStep

-----------------------------------------------------------------------------
(* The worker *)

\* Where nothing that is shown or under way changes, all stays true.
LEMMA SameViews ==
    ASSUME ViewsTrue, UNCHANGED <<logs, modal, recovery, lostEdit, status>>, InFlight' = InFlight
    PROVE  ViewsTrue'
BY DEF ViewsTrue

\* What a step outside the window leaves alone.
LEMMA UiSame ==
    ASSUME UiUnchanged
    PROVE  /\ UNCHANGED <<ui, defs, retry, acts, owed, scanned>>
           /\ UNCHANGED <<logs, modal, recovery, lostEdit, status>>
BY DEF UiUnchanged, views, bookkeeping

\* A Refresh that is taken is still marked, now by the worker.
LEMMA TakeStep == ASSUME GuiInv, Take PROVE GuiInv'
<1>1. /\ worker.stage = "idle" /\ queue # <<>> /\ queue' = Tail(queue)
      /\ worker' = [job |-> Head(queue), stage |-> "taken", ok |-> FALSE, result |-> None]
      /\ UNCHANGED <<world, now, changes, pendingRefresh, results, wakes>> /\ UiUnchanged
  BY DEF Take, outside
<1>2. /\ UNCHANGED <<ui, defs, retry, acts, owed, scanned>>
      /\ UNCHANGED <<logs, modal, recovery, lostEdit, status>>
  BY <1>1, UiSame
<1>3. /\ worker'.stage = "taken" /\ worker'.job = Head(queue)
      /\ DOMAIN worker' = {"job", "stage", "ok", "result"}
  BY <1>1
<1>4. InFlight' = InFlight /\ IsSequence(queue')  BY <1>1, <1>3, InFlightTaken DEF GuiInv
<1>5. ViewsTrue'  BY <1>2, <1>4, SameViews DEF GuiInv
<1>6. Shapes'  BY <1>1, <1>2, <1>3, <1>4 DEF GuiInv, Shapes
<1>7. MarkTrue'
  <2>1. /\ \A i \in DOMAIN queue : i = 1 \/ (i - 1 \in DOMAIN queue' /\ queue'[i - 1] = queue[i])
        /\ Head(queue) = queue[1]
    BY <1>1, Rest DEF GuiInv, Shapes
  <2>2. pendingRefresh => \E i \in DOMAIN queue : IsScan(queue[i])
    BY <1>1 DEF GuiInv, Refreshes, MarkTrue
  <2>3. ASSUME NEW i \in DOMAIN queue, IsScan(queue[i])
        PROVE  IsScan(worker'.job) \/ \E k \in DOMAIN queue' : IsScan(queue'[k])
    <3>1. CASE i = 1  BY <1>3, <2>1, <2>3, <3>1
    <3>2. CASE i - 1 \in DOMAIN queue' /\ queue'[i - 1] = queue[i]  BY <2>3, <3>2
    <3> QED  BY <2>1, <3>1, <3>2
  <2> QED  BY <1>1, <1>3, <2>2, <2>3 DEF MarkTrue
<1>8. Owed'  BY <1>1, <1>2, <1>3 DEF GuiInv, Refreshes, Owed
<1>9. ScansInOrder'  BY <1>1, <1>2, <1>3 DEF GuiInv, Refreshes, ScansInOrder
<1>10. Woken'  BY <1>1, <1>2 DEF GuiInv, Refreshes, Woken
<1> QED  BY <1>5, <1>6, <1>7, <1>8, <1>9, <1>10 DEF GuiInv, Refreshes

\* Once the mark is cleared, what is owed is owed by the scan about to begin.
LEMMA ClearMarkStep == ASSUME GuiInv, ClearMark PROVE GuiInv'
<1>1. /\ worker.stage = "taken" /\ worker' = [worker EXCEPT !.stage = "execute"]
      /\ pendingRefresh' = (pendingRefresh /\ worker.job.type # "Refresh")
      /\ UNCHANGED <<world, now, changes, queue, results, wakes>> /\ UiUnchanged
  BY DEF ClearMark, outside
<1>2. /\ UNCHANGED <<ui, defs, retry, acts, owed, scanned>>
      /\ UNCHANGED <<logs, modal, recovery, lostEdit, status>>
  BY <1>1, UiSame
<1>3. /\ worker'.stage = "execute" /\ worker'.job = worker.job
      /\ DOMAIN worker' = {"job", "stage", "ok", "result"}
  BY <1>1 DEF GuiInv, Shapes
<1>4. InFlight' = InFlight  BY <1>1, <1>3 DEF InFlight
<1>5. ViewsTrue'  BY <1>2, <1>4, SameViews DEF GuiInv
<1>6. pendingRefresh \in BOOLEAN /\ pendingRefresh' \in BOOLEAN  BY <1>1 DEF GuiInv, Shapes
<1>7. Shapes'  BY <1>1, <1>2, <1>3, <1>6 DEF GuiInv, Shapes
<1>8. CASE IsScan(worker.job)
  <2>1. pendingRefresh' = FALSE  BY <1>1, <1>8 DEF IsScan
  <2>2. MarkTrue'  BY <2>1 DEF MarkTrue
  <2>3. Owed'  BY <1>3, <1>8 DEF Owed
  <2>4. ScansInOrder' /\ Woken'
    BY <1>1, <1>2, <1>3 DEF GuiInv, Refreshes, ScansInOrder, Woken
  <2> QED  BY <1>5, <1>7, <2>2, <2>3, <2>4 DEF GuiInv, Refreshes
<1>9. CASE ~IsScan(worker.job)
  <2>1. pendingRefresh' = pendingRefresh  BY <1>1, <1>6, <1>9 DEF IsScan
  <2>2. MarkTrue'  BY <1>1, <1>9, <2>1 DEF GuiInv, Refreshes, MarkTrue
  <2>3. Owed'  BY <1>1, <1>2, <1>3, <2>1 DEF GuiInv, Refreshes, Owed
  <2>4. ScansInOrder' /\ Woken'
    BY <1>1, <1>2, <1>3 DEF GuiInv, Refreshes, ScansInOrder, Woken
  <2> QED  BY <1>5, <1>7, <2>2, <2>3, <2>4 DEF GuiInv, Refreshes
<1> QED  BY <1>8, <1>9

\* What an operation makes of the world is a world (execute).
LEMMA ChangedWorld ==
    ASSUME Snapshot(world)
    PROVE  /\ \A s : Snapshot(Without(s))
           /\ \A s \in DOMAIN world : \A spec :
                (\A f \in DOMAIN spec : spec[f] \in FieldValue) => Snapshot(Edited(s, spec))
<1>1. ASSUME NEW s PROVE Snapshot(Without(s))  BY DEF Snapshot, Without
<1>2. ASSUME NEW s \in DOMAIN world, NEW spec, \A f \in DOMAIN spec : spec[f] \in FieldValue
      PROVE  Snapshot(Edited(s, spec))
  <2> DEFINE v == [f \in Fields |-> IF f \in DOMAIN spec THEN spec[f] ELSE world[s][f]]
  <2>1. v \in [Fields -> FieldValue]  BY <1>2 DEF Snapshot
  <2>2. Edited(s, spec) = [world EXCEPT ![s] = v]  BY DEF Edited
  <2> HIDE DEF v
  <2> QED  BY <2>1, <2>2 DEF Snapshot
<1> QED  BY <1>1, <1>2

\* execute looks at the world for a scan, changes it for an operation, and makes the
\* result.
LEMMA Executed ==
    ASSUME GuiInv, Execute
    PROVE  /\ worker.stage = "execute"
           /\ DOMAIN worker' = {"job", "stage", "ok", "result"}
           /\ worker'.stage = "post" /\ worker'.job = worker.job
           /\ IsScan(worker.job) => worker'.result = [at |-> now, defs |-> world]
           /\ now' \in {now, now + 1} /\ Snapshot(world')
<1>1. DOMAIN worker = {"job", "stage", "ok", "result"} /\ Snapshot(world)
  BY DEF GuiInv, Shapes
<1>2. ASSUME NEW ok, NEW result, Done(ok, result)
      PROVE  /\ DOMAIN worker' = {"job", "stage", "ok", "result"}
             /\ worker'.stage = "post" /\ worker'.job = worker.job /\ worker'.result = result
  BY <1>1, <1>2 DEF Done
<1>3. worker.stage = "execute"  BY DEF Execute
<1>4. CASE IsScan(worker.job)
  BY <1>1, <1>2, <1>3, <1>4 DEF Execute, IsScan
<1>5. CASE ~IsScan(worker.job) /\ UNCHANGED <<world, now>>
  BY <1>1, <1>2, <1>3, <1>5 DEF Execute, IsScan
<1>6. CASE ~IsScan(worker.job) /\ ~UNCHANGED <<world, now>>
  <2> DEFINE j == worker.job
  <2>1. /\ Done(TRUE, None)
        /\ \/ Changed(world) \/ Changed(Without(j.service))
           \/ /\ j.type = "Edit" /\ j.request.service \in DOMAIN world
              /\ Changed(Edited(j.request.service, j.spec))
    BY <1>6 DEF Execute, IsScan
  <2>2. JobTrue(j)
    BY <1>3 DEF GuiInv, ViewsTrue, InFlight
  <2>3. j.type = "Edit" => \A f \in DOMAIN j.spec : j.spec[f] \in FieldValue  BY <2>2 DEF JobTrue, SpecTrue
  <2>4. Snapshot(world') /\ now' = now + 1
    BY <1>1, <2>1, <2>3, ChangedWorld DEF Changed
  <2> QED  BY <1>2, <1>3, <1>6, <2>1, <2>4
<1> QED  BY <1>4, <1>5, <1>6

\* A scan made now is newer than everything asked for until now.
LEMMA ExecuteStep == ASSUME GuiInv, Execute PROVE GuiInv'
<1>1. UNCHANGED <<changes, queue, pendingRefresh, results, wakes>> /\ UiUnchanged  BY DEF Execute
<1>2. /\ UNCHANGED <<ui, defs, retry, acts, owed, scanned>>
      /\ UNCHANGED <<logs, modal, recovery, lostEdit, status>>
  BY <1>1, UiSame
<1>3. /\ worker.stage = "execute"
      /\ DOMAIN worker' = {"job", "stage", "ok", "result"}
      /\ worker'.stage = "post" /\ worker'.job = worker.job
      /\ IsScan(worker.job) => worker'.result = [at |-> now, defs |-> world]
      /\ now' \in {now, now + 1} /\ Snapshot(world')
  BY Executed
<1>4. InFlight' = InFlight  BY <1>1, <1>3 DEF InFlight
<1>5. ViewsTrue'  BY <1>2, <1>4, SameViews DEF GuiInv
<1>6. /\ now \in Nat /\ now' \in Nat /\ now <= now' /\ scanned \in Nat /\ scanned <= now
      /\ owed \in Nat /\ owed <= now /\ Snapshot(world)
  BY <1>3 DEF GuiInv, Shapes
<1>7. Shapes'
  <2>1. owed <= now' /\ scanned <= now'  BY <1>3, <1>6
  <2> QED  BY <1>1, <1>2, <1>3, <1>6, <2>1 DEF GuiInv, Shapes
<1>8. MarkTrue'  BY <1>1, <1>3 DEF GuiInv, Refreshes, MarkTrue
<1>9. IsScan(worker.job) => worker'.result.at = now /\ worker'.result.defs = world  BY <1>3
<1>10. Owed'
  <2>1. CASE IsScan(worker.job)  BY <1>2, <1>3, <1>6, <1>9, <2>1 DEF Owed
  <2>2. CASE ~IsScan(worker.job)  BY <1>1, <1>2, <1>3, <2>2 DEF GuiInv, Refreshes, Owed
  <2> QED  BY <2>1, <2>2
<1>11. ScansInOrder'
  <2>1. \A i \in DOMAIN results : IsScan(results[i].job) =>
            ScanTrue(results[i].result, scanned, now') /\ results[i].result.at <= now
    BY <1>6 DEF GuiInv, Refreshes, ScansInOrder, ScanTrue
  <2>2. IsScan(worker.job) => ScanTrue(worker'.result, scanned, now')
    BY <1>6, <1>9 DEF ScanTrue
  <2> QED  BY <1>1, <1>2, <1>3, <1>9, <2>1, <2>2 DEF GuiInv, Refreshes, ScansInOrder
<1>12. Woken'  BY <1>1, <1>2 DEF GuiInv, Refreshes, Woken
<1> QED  BY <1>5, <1>7, <1>8, <1>10, <1>11, <1>12 DEF GuiInv, Refreshes

\* The result waits to be applied, behind older ones.
LEMMA PostStep == ASSUME GuiInv, Post PROVE GuiInv'
<1> DEFINE r == [job |-> worker.job, ok |-> worker.ok, result |-> worker.result]
<1>1. /\ worker.stage = "post" /\ worker' = Idle /\ wakes' = wakes + 1
      /\ results' = Append(results, r)
      /\ UNCHANGED <<world, now, changes, queue, pendingRefresh>> /\ UiUnchanged
  BY DEF Post, outside
<1>2. /\ UNCHANGED <<ui, defs, retry, acts, owed, scanned>>
      /\ UNCHANGED <<logs, modal, recovery, lostEdit, status>>
  BY <1>1, UiSame
<1>3. worker'.stage = "idle" /\ DOMAIN worker' = {"job", "stage", "ok", "result"}
  BY <1>1 DEF Idle
<1>4. r.job = worker.job /\ r.result = worker.result  OBVIOUS
<1> HIDE DEF r
<1>5. InFlight' = InFlight /\ IsSequence(results')
  BY <1>1, <1>3, <1>4, InFlightPosted DEF GuiInv
<1>6. ViewsTrue'  BY <1>2, <1>5, SameViews DEF GuiInv
<1>7. wakes \in Nat /\ wakes' > 0 /\ wakes' \in Nat  BY <1>1 DEF GuiInv, Shapes
<1>8. Shapes'  BY <1>1, <1>2, <1>3, <1>5, <1>7 DEF GuiInv, Shapes
<1>9. /\ \A i \in DOMAIN results : i \in DOMAIN results' /\ results'[i] = results[i]
      /\ results'[Len(results) + 1] = r /\ Len(results) + 1 \in DOMAIN results'
      /\ DOMAIN results' = 1 .. (Len(results) + 1)
  BY <1>1, Appended DEF GuiInv, Shapes
<1>10. Len(results) \in Nat /\ DOMAIN results = 1 .. Len(results)
  BY SequenceShape DEF GuiInv, Shapes
<1>11. \A i \in DOMAIN results' :
            (i \in DOMAIN results /\ i < Len(results) + 1) \/ i = Len(results) + 1
  BY <1>9, <1>10
<1>12. MarkTrue' /\ Woken'  BY <1>1, <1>3, <1>7 DEF GuiInv, Refreshes, MarkTrue, Woken
<1>13. Owed'
  <2>1. CASE IsScan(worker.job) /\ worker.result.at >= owed
    BY <1>2, <1>4, <1>9, <2>1 DEF Owed
  <2>2. CASE \E i \in DOMAIN results : IsScan(results[i].job) /\ results[i].result.at >= owed
    BY <1>2, <1>9, <2>2 DEF Owed
  <2>3. CASE scanned >= owed \/ pendingRefresh \/ retry
    BY <1>1, <1>2, <1>7, <2>3 DEF Owed
  <2> QED  BY <1>1, <2>1, <2>2, <2>3 DEF GuiInv, Refreshes, Owed
<1>14. ScansInOrder'
  <2>1. IsScan(worker.job) => /\ ScanTrue(worker.result, scanned, now)
                              /\ \A i \in DOMAIN results : IsScan(results[i].job) =>
                                    results[i].result.at <= worker.result.at
    BY <1>1 DEF GuiInv, Refreshes, ScansInOrder
  <2>2. \A i \in DOMAIN results' :
            IsScan(results'[i].job) => ScanTrue(results'[i].result, scanned, now)
    BY <1>4, <1>9, <1>11, <2>1 DEF GuiInv, Refreshes, ScansInOrder
  <2>3. ASSUME NEW i \in DOMAIN results', NEW k \in DOMAIN results', i < k,
               IsScan(results'[i].job), IsScan(results'[k].job)
        PROVE  results'[i].result.at <= results'[k].result.at
    <3>1. i \in DOMAIN results /\ results'[i] = results[i]  BY <1>9, <1>10, <2>3
    <3>2. CASE k \in DOMAIN results
      BY <1>9, <2>3, <3>1, <3>2 DEF GuiInv, Refreshes, ScansInOrder
    <3>3. CASE k = Len(results) + 1
      <4>1. results'[k] = r  BY <1>9, <3>3
      <4>2. IsScan(worker.job) /\ IsScan(results[i].job)  BY <1>4, <2>3, <3>1, <4>1
      <4> QED  BY <1>4, <2>1, <3>1, <4>1, <4>2
    <3> QED  BY <1>11, <3>2, <3>3
  <2> QED  BY <1>1, <1>2, <1>3, <2>2, <2>3 DEF ScansInOrder
<1> QED  BY <1>6, <1>8, <1>12, <1>13, <1>14 DEF GuiInv, Refreshes

-----------------------------------------------------------------------------
(* drain_results *)

\* One result is applied: its job is no longer under way, so it must be shown neither
\* as pending nor as what a dialog waits for.
LEMMA Applied ==
    ASSUME GuiInv, ui = "draining", results # <<>>, results' = Tail(results),
           UNCHANGED <<world, now, changes, worker, wakes, ui, acts>>,
           scanned' = IF IsScan(Head(results).job) THEN Head(results).result.at ELSE scanned,
           UNCHANGED jobs \/ RequestRefresh,
           Snapshot(defs'), LogTrue(logs'), ModalTrue(modal'), RecoveryTrue(recovery'),
           lostEdit' = FALSE,
           \A e \in status' : e \in status /\ ~Operation(Head(results).job, e),
           modal'.current # None =>
                /\ modal'.current = modal.current /\ modal'.kind = modal.kind
                /\ ~ /\ Head(results).job.type = modal.kind
                     /\ Head(results).job.request = modal.current
    PROVE  GuiInv'
<1> DEFINE h == Head(results).job
           j == [type |-> "Refresh"]
<1>1. JobTrue(j)  BY DEF JobTrue
<1>2. RequestRefresh => Sent(j)  BY DEF RequestRefresh
<1> HIDE DEF j
<1>3. Shapes /\ MarkTrue /\ ScansInOrder /\ Owed /\ ViewsTrue  BY DEF GuiInv, Refreshes
<1>4. /\ IsSequence(results')
      /\ {results[i].job : i \in DOMAIN results}
            = {results'[i].job : i \in DOMAIN results'} \cup {h}
  BY <1>3, InFlightDrained
<1>5. /\ {queue[i] : i \in DOMAIN queue} \subseteq {queue'[i] : i \in DOMAIN queue'}
      /\ {queue'[i] : i \in DOMAIN queue'} \subseteq {queue[i] : i \in DOMAIN queue} \cup {j}
  BY <1>2, <1>3, QueueSent DEF jobs
<1> HIDE DEF h
<1>6. InFlight \subseteq InFlight' \cup {h} /\ InFlight' \subseteq InFlight \cup {j}
  BY <1>4, <1>5 DEF InFlight
<1>7. ViewsTrue'
  <2>1. \A i \in InFlight' : JobTrue(i)  BY <1>1, <1>3, <1>6 DEF ViewsTrue
  <2>2. StatusTrue(status', InFlight')
    <3>1. \A e \in status' : \E i \in InFlight : Operation(i, e)
      BY <1>3 DEF ViewsTrue, StatusTrue
    <3> QED  BY <1>6, <3>1 DEF StatusTrue, h
  <2>3. BusyTrue(modal', InFlight')  BY <1>3, <1>6 DEF ViewsTrue, BusyTrue, h
  <2> QED  BY <2>1, <2>2, <2>3 DEF ViewsTrue
<1>8. /\ ScansInOrder' /\ scanned' \in Nat /\ scanned <= scanned' /\ scanned' <= now
  BY <1>3, DrainedScans
<1>9. /\ MarkTrue' /\ IsSequence(queue') /\ pendingRefresh' \in BOOLEAN
      /\ retry' \in BOOLEAN /\ owed' \in {owed, now} /\ Owed'
  <2>1. CASE RequestRefresh  BY <1>3, <2>1, Requested
  <2>2. CASE UNCHANGED jobs
    <3>1. UNCHANGED <<queue, pendingRefresh, retry, owed>>  BY <2>2 DEF jobs
    <3>2. MarkTrue'  BY <1>3, <3>1 DEF MarkTrue
    <3>3. owed \in Nat /\ scanned \in Nat /\ now \in Nat  BY <1>3 DEF Shapes
    <3>4. Owed'
      <4>1. CASE scanned >= owed  BY <1>8, <3>1, <3>3, <4>1 DEF Owed
      <4>2. CASE \E i \in DOMAIN results : IsScan(results[i].job) /\ results[i].result.at >= owed
        <5>1. PICK i \in DOMAIN results : IsScan(results[i].job) /\ results[i].result.at >= owed
          BY <4>2
        <5>2. /\ i = 1 \/ (i - 1 \in DOMAIN results' /\ results'[i - 1] = results[i])
              /\ Head(results) = results[1]
          BY <1>3, Rest DEF Shapes
        <5>3. CASE i = 1
          <6>1. scanned' >= owed'  BY <3>1, <5>1, <5>2, <5>3
          <6> QED  BY <6>1 DEF Owed
        <5>4. CASE i - 1 \in DOMAIN results' /\ results'[i - 1] = results[i]
          BY <3>1, <5>1, <5>4 DEF Owed
        <5> QED  BY <5>2, <5>3, <5>4
      <4>3. CASE \/ pendingRefresh
                 \/ worker.stage = "execute" /\ IsScan(worker.job)
                 \/ worker.stage = "post" /\ IsScan(worker.job) /\ worker.result.at >= owed
                 \/ retry
        BY <3>1, <4>3 DEF Owed
      <4> QED  BY <1>3, <4>1, <4>2, <4>3 DEF Owed
    <3> QED  BY <1>3, <3>1, <3>2, <3>4 DEF Shapes
  <2> QED  BY <2>1, <2>2
<1>10. Shapes'
  <2>1. owed' \in Nat /\ owed' <= now'  BY <1>3, <1>9 DEF Shapes
  <2> QED  BY <1>3, <1>4, <1>8, <1>9, <2>1 DEF Shapes
<1>11. Woken'  BY DEF Woken
<1> QED  BY <1>7, <1>8, <1>9, <1>10, <1>11 DEF GuiInv, Refreshes

\* The frame of every result.
LEMMA ResultFrame ==
    ASSUME GuiInv, NEW types, Result(types)
    PROVE  /\ ui = "draining" /\ results # <<>> /\ results' = Tail(results)
           /\ UNCHANGED <<world, now, changes, worker, wakes, ui, acts>>
           /\ Head(results).job.type \in types
           /\ JobTrue(Head(results).job)
           /\ Snapshot(defs)
<1>1. /\ ui = "draining" /\ results # <<>> /\ results' = Tail(results)
      /\ UNCHANGED <<world, now, changes, worker, wakes, ui, acts>>
      /\ Head(results).job.type \in types
  BY DEF Result, outside
<1>2. Head(results).job \in InFlight
  <2>1. IsSequence(results)  BY DEF GuiInv, Shapes
  <2>2. 1 \in DOMAIN results /\ Head(results) = results[1]  BY <1>1, <2>1, Rest
  <2> QED  BY <2>2 DEF InFlight
<1> QED  BY <1>1, <1>2 DEF GuiInv, ViewsTrue, Shapes

\* Only an operation is shown as pending.
LEMMA NotPending ==
    ASSUME NEW j, j.type \in {"Refresh", "Processes", "ReadLog", "ReadRecovery"}, NEW e
    PROVE  ~Operation(j, e)
BY DEF Operation

\* JobResult::Services.
LEMMA DrainScanStep == ASSUME GuiInv, DrainScan PROVE GuiInv'
<1> DEFINE h == Head(results)
<1>1. /\ Result({"Refresh"}) /\ scanned' = h.result.at
      /\ defs' = (IF h.ok THEN h.result.defs ELSE defs)
      /\ UNCHANGED jobs /\ UNCHANGED <<modal, logs, recovery, status, lostEdit>>
  BY DEF DrainScan
<1>2. /\ ui = "draining" /\ results # <<>> /\ results' = Tail(results)
      /\ UNCHANGED <<world, now, changes, worker, wakes, ui, acts>>
      /\ h.job.type = "Refresh" /\ Snapshot(defs)
  BY <1>1, ResultFrame
<1>3. IsScan(h.job)  BY <1>2 DEF IsScan
<1>4. Snapshot(h.result.defs)
  <2>1. 1 \in DOMAIN results /\ h = results[1]  BY <1>2, Rest DEF GuiInv, Shapes
  <2> QED  BY <1>3, <2>1 DEF GuiInv, Refreshes, ScansInOrder, ScanTrue
<1>5. Snapshot(defs')  BY <1>1, <1>2, <1>4
<1>6. LogTrue(logs') /\ ModalTrue(modal') /\ RecoveryTrue(recovery') /\ lostEdit' = FALSE
        /\ modal.kind # "Refresh"
  BY <1>1, ViewsOf DEF ModalTrue
<1>7. \A e \in status' : e \in status /\ ~Operation(h.job, e)  BY <1>1, <1>2, NotPending
<1>8. modal'.current = modal.current /\ modal'.kind = modal.kind  BY <1>1
<1> QED  BY <1>1, <1>2, <1>3, <1>5, <1>6, <1>7, <1>8, Applied

\* JobResult::Processes.
LEMMA DrainProcessesStep == ASSUME GuiInv, DrainProcesses PROVE GuiInv'
<1> DEFINE h == Head(results)
           q == h.job.request
<1>1. /\ Result({"Processes"})
      /\ modal' = (IF Matches(modal, q) /\ h.ok
                   THEN [Finished(modal, q) EXCEPT !.rows = q] ELSE Finished(modal, q))
      /\ UNCHANGED jobs /\ UNCHANGED <<defs, logs, recovery, status, scanned, lostEdit>>
  BY DEF DrainProcesses
<1>2. /\ ui = "draining" /\ results # <<>> /\ results' = Tail(results)
      /\ UNCHANGED <<world, now, changes, worker, wakes, ui, acts>>
      /\ h.job.type = "Processes" /\ Snapshot(defs)
  BY <1>1, ResultFrame
<1>3. ~IsScan(h.job)  BY <1>2 DEF IsScan
<1>4. LogTrue(logs') /\ ModalTrue(modal) /\ RecoveryTrue(recovery') /\ lostEdit' = FALSE
  BY <1>1, ViewsOf
<1>5. \A e \in status' : e \in status /\ ~Operation(h.job, e)  BY <1>1, <1>2, NotPending
<1> DEFINE f == Finished(modal, q)
<1>6. /\ ModalTrue(f) /\ f.kind = modal.kind
      /\ f.current # None => f.current = modal.current /\ modal.current # q
  BY <1>4, FinishedModal
<1>7. Matches(modal, q) => /\ f.current = None
                           /\ f.service = q.service /\ f.generation = q.generation
  BY <1>4 DEF ModalTrue, Matches, Finished
<1>8. ModalTrue(modal') /\ modal'.kind = f.kind /\ modal'.current = f.current
  <2> HIDE DEF f, q
  <2>1. CASE Matches(modal, q) /\ h.ok
    <3>1. modal' = [f EXCEPT !.rows = q]  BY <1>1, <2>1 DEF f, q
    <3> QED  BY <1>6, <1>7, <2>1, <3>1 DEF ModalTrue
  <2>2. CASE ~(Matches(modal, q) /\ h.ok)
    <3>1. modal' = f  BY <1>1, <2>2 DEF f, q
    <3> QED  BY <1>6, <3>1
  <2> QED  BY <2>1, <2>2
<1> HIDE DEF f
<1> QED  BY <1>1, <1>2, <1>3, <1>4, <1>5, <1>6, <1>8, Applied

\* LogViewState::received.
LEMMA DrainLogStep == ASSUME GuiInv, DrainLog PROVE GuiInv'
<1> DEFINE h == Head(results)
           q == h.job.request
<1>1. /\ Result({"ReadLog"})
      /\ logs' = (IF Matches(logs, q) THEN [Finished(logs, q) EXCEPT !.lines = q] ELSE logs)
      /\ UNCHANGED jobs /\ UNCHANGED <<defs, modal, recovery, status, scanned, lostEdit>>
  BY DEF DrainLog
<1>2. /\ ui = "draining" /\ results # <<>> /\ results' = Tail(results)
      /\ UNCHANGED <<world, now, changes, worker, wakes, ui, acts>>
      /\ h.job.type = "ReadLog" /\ Snapshot(defs)
  BY <1>1, ResultFrame
<1>3. ~IsScan(h.job)  BY <1>2 DEF IsScan
<1>4. /\ LogTrue(logs) /\ ModalTrue(modal') /\ RecoveryTrue(recovery') /\ lostEdit' = FALSE
      /\ modal.kind # "ReadLog"
  BY <1>1, ViewsOf DEF ModalTrue
<1>5. \A e \in status' : e \in status /\ ~Operation(h.job, e)  BY <1>1, <1>2, NotPending
<1>6. LogTrue(logs')
  <2> HIDE DEF q
  <2>1. CASE Matches(logs, q)
    BY <1>1, <1>4, <2>1 DEF LogTrue, Matches, Finished, q
  <2>2. CASE ~Matches(logs, q)  BY <1>1, <1>4, <2>2 DEF q
  <2> QED  BY <2>1, <2>2
<1>7. modal'.current = modal.current /\ modal'.kind = modal.kind  BY <1>1
<1> QED  BY <1>1, <1>2, <1>3, <1>4, <1>5, <1>6, <1>7, Applied

\* A read that was under way finds no edit to lose: none can be made meanwhile.
LEMMA DrainRecoveryStep == ASSUME GuiInv, DrainRecovery PROVE GuiInv'
<1> DEFINE h == Head(results)
           q == h.job.request
           f == Finished(recovery, q)
           d == [service |-> q.service, of |-> q.service, dirty |-> FALSE]
<1>1. /\ Result({"ReadRecovery"})
      /\ recovery' = [f EXCEPT !.draft = IF Matches(recovery, q) /\ h.ok THEN d ELSE f.draft]
      /\ lostEdit' = (lostEdit \/ (Matches(recovery, q) /\ h.ok
                                    /\ recovery.draft # None /\ recovery.draft.dirty))
      /\ UNCHANGED jobs /\ UNCHANGED <<defs, modal, logs, status, scanned>>
  BY DEF DrainRecovery
<1>2. /\ ui = "draining" /\ results # <<>> /\ results' = Tail(results)
      /\ UNCHANGED <<world, now, changes, worker, wakes, ui, acts>>
      /\ h.job.type = "ReadRecovery" /\ JobTrue(h.job) /\ Snapshot(defs)
  BY <1>1, ResultFrame
<1>3. ~IsScan(h.job) /\ q.work = "Read"  BY <1>2 DEF IsScan, JobTrue
<1>4. /\ LogTrue(logs') /\ ModalTrue(modal') /\ RecoveryTrue(recovery) /\ lostEdit = FALSE
      /\ modal.kind # "ReadRecovery"
  BY <1>1, ViewsOf DEF ModalTrue
<1>5. \A e \in status' : e \in status /\ ~Operation(h.job, e)  BY <1>1, <1>2, NotPending
<1>6. modal'.current = modal.current /\ modal'.kind = modal.kind  BY <1>1
<1>7. Matches(recovery, q) /\ recovery.draft # None => recovery.draft.dirty = FALSE
  BY <1>3, <1>4 DEF Matches, RecoveryTrue
<1>8. lostEdit' = FALSE  BY <1>1, <1>4, <1>7
<1>9. /\ RecoveryTrue(f) /\ f.draft = recovery.draft
      /\ Matches(recovery, q) => f.current = None /\ f.service = q.service
  <2>1. /\ RecoveryTrue(f) /\ f.draft = recovery.draft /\ f.service = recovery.service
        /\ Matches(recovery, q) => f.current = None
    BY <1>4, FinishedRecovery
  <2>2. Matches(recovery, q) => recovery.service = q.service
    BY <1>4 DEF Matches, RecoveryTrue
  <2> QED  BY <2>1, <2>2
<1>10. /\ DOMAIN d = {"service", "of", "dirty"} /\ d.dirty = FALSE
       /\ d.service = q.service /\ d.of = q.service
  OBVIOUS
<1>11. RecoveryTrue(recovery')
  <2> HIDE DEF f, d, q
  <2>1. CASE Matches(recovery, q) /\ h.ok
    <3>1. recovery' = [f EXCEPT !.draft = d]  BY <1>1, <2>1
    <3> QED  BY <1>9, <1>10, <2>1, <3>1 DEF RecoveryTrue
  <2>2. CASE ~(Matches(recovery, q) /\ h.ok)
    <3>1. recovery' = [f EXCEPT !.draft = f.draft]  BY <1>1, <2>2
    <3> QED  BY <1>9, <3>1 DEF RecoveryTrue
  <2> QED  BY <2>1, <2>2
<1> QED  BY <1>1, <1>2, <1>3, <1>4, <1>5, <1>6, <1>8, <1>11, Applied

\* JobResult::RecoverySaved.
LEMMA DrainSavedStep == ASSUME GuiInv, DrainSaved PROVE GuiInv'
<1> DEFINE h == Head(results)
           q == h.job.request
<1>1. /\ Result({"SaveRecovery"}) /\ recovery' = Finished(recovery, q)
      /\ status' = status \ {<<"recovery", q.id>>} /\ RequestRefresh
      /\ UNCHANGED <<defs, modal, logs, scanned, lostEdit>>
  BY DEF DrainSaved, ApplyMutationOutcome, FinishOperation
<1>2. /\ ui = "draining" /\ results # <<>> /\ results' = Tail(results)
      /\ UNCHANGED <<world, now, changes, worker, wakes, ui, acts>>
      /\ h.job.type = "SaveRecovery" /\ Snapshot(defs)
  BY <1>1, ResultFrame
<1>3. ~IsScan(h.job)  BY <1>2 DEF IsScan
<1>4. /\ LogTrue(logs') /\ ModalTrue(modal') /\ RecoveryTrue(recovery) /\ lostEdit' = FALSE
      /\ modal.kind # "SaveRecovery"
  BY <1>1, ViewsOf DEF ModalTrue
<1>5. \A e \in status' : e \in status /\ ~Operation(h.job, e)  BY <1>1, <1>2 DEF Operation
<1>6. modal'.current = modal.current /\ modal'.kind = modal.kind  BY <1>1
<1>7. RecoveryTrue(recovery')  BY <1>1, <1>4, FinishedRecovery
<1> QED  BY <1>1, <1>2, <1>3, <1>4, <1>5, <1>6, <1>7, Applied

\* JobResult::Installed and JobResult::Edited.
LEMMA DrainModalStep == ASSUME GuiInv, DrainModal PROVE GuiInv'
<1> DEFINE h == Head(results)
           q == h.job.request
<1>1. /\ Result({"Install", "Edit"})
      /\ modal' \in {Replaced(modal, "Closed", None, None), Finished(modal, q)}
      /\ status' = status \ {<<"modal", q.id>>} /\ RequestRefresh
      /\ UNCHANGED <<defs, logs, recovery, scanned, lostEdit>>
  BY DEF DrainModal, ApplyMutationOutcome, FinishOperation
<1>2. /\ ui = "draining" /\ results # <<>> /\ results' = Tail(results)
      /\ UNCHANGED <<world, now, changes, worker, wakes, ui, acts>>
      /\ h.job.type \in {"Install", "Edit"} /\ Snapshot(defs)
  BY <1>1, ResultFrame
<1>3. ~IsScan(h.job)  BY <1>2 DEF IsScan
<1>4. LogTrue(logs') /\ ModalTrue(modal) /\ RecoveryTrue(recovery') /\ lostEdit' = FALSE
  BY <1>1, ViewsOf
<1>5. \A e \in status' : e \in status /\ ~Operation(h.job, e)  BY <1>1, <1>2 DEF Operation
<1>6. /\ ModalTrue(modal')
      /\ modal'.current # None =>
            modal'.current = modal.current /\ modal'.kind = modal.kind /\ modal.current # q
  <2>1. CASE modal' = Replaced(modal, "Closed", None, None)
    <3>1. ModalTrue(modal') /\ modal'.current = None  BY <1>4, <2>1, ReplacedModal
    <3> QED  BY <3>1
  <2>2. CASE modal' = Finished(modal, q)
    <3> HIDE DEF q
    <3> QED  BY <1>4, <2>2, FinishedModal
  <2> QED  BY <1>1, <2>1, <2>2
<1> QED  BY <1>1, <1>2, <1>3, <1>4, <1>5, <1>6, Applied

\* JobResult::Acted.
LEMMA DrainActedStep == ASSUME GuiInv, DrainActed PROVE GuiInv'
<1> DEFINE h == Head(results)
<1>1. /\ Result({"Action"})
      /\ status' = status \ {<<"action", h.job.id>>} /\ RequestRefresh
      /\ UNCHANGED <<defs, modal, logs, recovery, scanned, lostEdit>>
  BY DEF DrainActed, ApplyMutationOutcome, FinishOperation
<1>2. /\ ui = "draining" /\ results # <<>> /\ results' = Tail(results)
      /\ UNCHANGED <<world, now, changes, worker, wakes, ui, acts>>
      /\ h.job.type = "Action" /\ Snapshot(defs)
  BY <1>1, ResultFrame
<1>3. ~IsScan(h.job)  BY <1>2 DEF IsScan
<1>4. /\ LogTrue(logs') /\ ModalTrue(modal') /\ RecoveryTrue(recovery') /\ lostEdit' = FALSE
      /\ modal.kind # "Action"
  BY <1>1, ViewsOf DEF ModalTrue
<1>5. \A e \in status' : e \in status /\ ~Operation(h.job, e)  BY <1>1, <1>2 DEF Operation
<1>6. modal'.current = modal.current /\ modal'.kind = modal.kind  BY <1>1
<1> QED  BY <1>1, <1>2, <1>3, <1>4, <1>5, <1>6, Applied

\* The event loop wakes.
LEMMA WakeStep == ASSUME GuiInv, Wake PROVE GuiInv'
<1>1. /\ ui = "ready" /\ wakes > 0 /\ wakes' = wakes - 1 /\ ui' = "draining"
      /\ UNCHANGED <<world, now, changes, queue, pendingRefresh, retry, owed, worker, results, defs,
                     acts, scanned>>
      /\ UNCHANGED <<logs, modal, recovery, lostEdit, status>>
  BY DEF Wake, outside, jobs, views, bookkeeping
<1>2. InFlight' = InFlight  BY <1>1 DEF InFlight
<1>3. ViewsTrue'  BY <1>1, <1>2, SameViews DEF GuiInv
<1>4. wakes' \in Nat  BY <1>1 DEF GuiInv, Shapes
<1>5. Shapes'  BY <1>1, <1>4 DEF GuiInv, Shapes
<1>6. MarkTrue' /\ Owed' /\ Woken'  BY <1>1 DEF GuiInv, Refreshes, MarkTrue, Owed, Woken
<1>7. ScansInOrder'  BY <1>1 DEF GuiInv, Refreshes, ScansInOrder
<1> QED  BY <1>3, <1>5, <1>6, <1>7 DEF GuiInv, Refreshes

\* Where a refresh was refused it is asked for again; where none was, nothing is owed.
LEMMA DrainEndStep == ASSUME GuiInv, DrainEnd PROVE GuiInv'
<1>1. /\ ui = "draining" /\ results = <<>> /\ ui' = "ready"
      /\ IF retry THEN RequestRefresh ELSE UNCHANGED jobs
      /\ UNCHANGED <<world, now, changes, worker, results, wakes, defs, acts, scanned>>
      /\ UNCHANGED <<logs, modal, recovery, lostEdit, status>>
  BY DEF DrainEnd, outside, views, bookkeeping
<1> DEFINE j == [type |-> "Refresh"]
<1>2. JobTrue(j) /\ (RequestRefresh => Sent(j))  BY DEF JobTrue, RequestRefresh
<1> HIDE DEF j
<1>3. Shapes /\ MarkTrue /\ ScansInOrder /\ Owed /\ ViewsTrue /\ retry \in BOOLEAN
  BY DEF GuiInv, Refreshes, Shapes
<1>4. /\ MarkTrue' /\ IsSequence(queue') /\ pendingRefresh' \in BOOLEAN
      /\ retry' \in BOOLEAN /\ owed' \in {owed, now} /\ Owed'
  <2>1. CASE retry  BY <1>1, <1>3, <2>1, Requested
  <2>2. CASE ~retry
    <3>1. UNCHANGED <<queue, pendingRefresh, retry, owed>>  BY <1>1, <2>2 DEF jobs
    <3>2. MarkTrue' /\ Owed'  BY <1>1, <1>3, <2>2, <3>1 DEF MarkTrue, Owed
    <3> QED  BY <1>3, <3>1, <3>2 DEF Shapes
  <2> QED  BY <2>1, <2>2
<1>5. InFlight \subseteq InFlight' /\ InFlight' \subseteq InFlight \cup {j}
  <2>1. CASE retry  BY <1>1, <1>2, <1>3, <2>1, InFlightSent
  <2>2. CASE ~retry  BY <1>1, <2>2 DEF InFlight, jobs
  <2> QED  BY <2>1, <2>2
<1>6. ViewsTrue'
  <2>1. LogTrue(logs') /\ ModalTrue(modal') /\ RecoveryTrue(recovery')  BY <1>1, ViewsOf
  <2>2. modal'.current = modal.current /\ modal'.kind = modal.kind  BY <1>1
  <2>3. \A e \in status' : e \in status \/ (j \in InFlight' /\ Operation(j, e))  BY <1>1
  <2> QED  BY <1>1, <1>2, <1>3, <1>5, <2>1, <2>2, <2>3, ViewsKept
<1>7. ScansInOrder' /\ Woken'  BY <1>1, <1>3 DEF ScansInOrder, Woken
<1>8. Shapes'
  <2>1. owed' \in Nat /\ owed' <= now'  BY <1>1, <1>3, <1>4 DEF Shapes
  <2> QED  BY <1>1, <1>3, <1>4, <2>1 DEF Shapes
<1> QED  BY <1>4, <1>6, <1>7, <1>8 DEF GuiInv, Refreshes

\* Another program changes a service: every scan is as old as it was.
LEMMA OtherChangeStep == ASSUME GuiInv, OtherChange PROVE GuiInv'
<1>1. /\ UNCHANGED <<queue, pendingRefresh, worker, results, wakes>> /\ UiUnchanged
      /\ now' = now + 1 /\ changes' = changes + 1
  BY DEF OtherChange, Changed
<1>2. /\ UNCHANGED <<ui, defs, retry, acts, owed, scanned>>
      /\ UNCHANGED <<logs, modal, recovery, lostEdit, status>>
  BY <1>1, UiSame
<1>3. InFlight' = InFlight  BY <1>1 DEF InFlight
<1>4. ViewsTrue'  BY <1>2, <1>3, SameViews DEF GuiInv
<1>5. now \in Nat /\ now' \in Nat /\ now <= now' /\ owed <= now' /\ scanned <= now'
  BY <1>1 DEF GuiInv, Shapes
<1>6. Snapshot(world')
  <2> DEFINE v == [f \in Fields |-> [n |-> now + 1, padded |-> FALSE]]
  <2>1. PICK s \in DOMAIN world : world' = [world EXCEPT ![s] = v]
    BY DEF OtherChange, Changed
  <2>2. v \in [Fields -> FieldValue]  BY <1>5 DEF FieldValue
  <2> HIDE DEF v
  <2> QED  BY <2>1, <2>2 DEF GuiInv, Shapes, Snapshot
<1>7. Shapes'
  <2>1. changes' \in Nat  BY <1>1 DEF GuiInv, Shapes
  <2> QED  BY <1>1, <1>2, <1>5, <1>6, <2>1 DEF GuiInv, Shapes
<1>8. ScansInOrder'  BY <1>1, <1>2, <1>5, ScansKept DEF GuiInv, Refreshes
<1>9. MarkTrue' /\ Owed' /\ Woken'  BY <1>1, <1>2 DEF GuiInv, Refreshes, MarkTrue, Owed, Woken
<1> QED  BY <1>4, <1>7, <1>8, <1>9 DEF GuiInv, Refreshes

-----------------------------------------------------------------------------

\* At first one Refresh is queued and nothing is shown.
LEMMA GuiInitial == GuiInit => GuiInv
<1> SUFFICES ASSUME GuiInit PROVE GuiInv  OBVIOUS
<1>1. Snapshot(world)
  <2>1. PICK p \in BOOLEAN :
            world = [s \in ServiceNames |-> [f \in Fields |->
                        [n |-> 0, padded |-> p /\ f = "application"]]]
    BY DEF GuiInit
  <2>2. \A f \in Fields : [n |-> 0, padded |-> p /\ f = "application"] \in FieldValue
    BY DEF FieldValue
  <2> QED  BY <2>1, <2>2 DEF Snapshot
<1>2. Snapshot(defs)  BY DEF GuiInit, Snapshot
<1>3. IsSequence(queue) /\ IsSequence(results)
  <2>1. IsSequence(<<>>)  BY DEF IsSequence
  <2> DEFINE j == [type |-> "Refresh"]
  <2>2. <<j>> = Append(<<>>, j)  OBVIOUS
  <2>3. queue = <<j>> /\ results = <<>>  BY DEF GuiInit
  <2> HIDE DEF j
  <2>4. IsSequence(Append(<<>>, j))  BY <2>1, Appended
  <2> QED  BY <2>1, <2>2, <2>3, <2>4
<1>4. queue[1].type = "Refresh" /\ DOMAIN queue = {1}  BY DEF GuiInit
<1>5. /\ worker.stage = "idle" /\ DOMAIN worker = {"job", "stage", "ok", "result"}
  BY DEF GuiInit, Idle
<1>6. Shapes
  <2>1. /\ now = 0 /\ changes = 0 /\ acts = 0 /\ owed = 0 /\ scanned = 0 /\ wakes = 0
        /\ ui = "ready"
    BY DEF GuiInit
  <2>2. pendingRefresh \in BOOLEAN /\ retry \in BOOLEAN  BY DEF GuiInit
  <2>3. /\ now \in Nat /\ changes \in Nat /\ acts \in Nat /\ owed \in Nat /\ scanned \in Nat
        /\ wakes \in Nat /\ owed <= now /\ scanned <= now /\ ui \in {"ready", "draining"}
    BY <2>1
  <2>4. worker.stage \in {"idle", "taken", "execute", "post"}  BY <1>5
  <2> QED  BY <1>1, <1>2, <1>3, <1>5, <2>2, <2>3, <2>4, Zenon DEF Shapes
<1>7. InFlight = {queue[1]}  BY <1>4, <1>5 DEF GuiInit, InFlight
<1>8. JobTrue(queue[1])  BY <1>4 DEF JobTrue
<1>9. LogTrue(logs)  BY DEF GuiInit, LogTrue
<1>10. ModalTrue(modal) /\ modal.current = None  BY DEF GuiInit, ModalTrue
<1>11. RecoveryTrue(recovery)  BY DEF GuiInit, RecoveryTrue
<1>12. ViewsTrue
  <2>1. StatusTrue(status, InFlight)  BY DEF GuiInit, StatusTrue
  <2>2. BusyTrue(modal, InFlight)  BY <1>10 DEF BusyTrue
  <2>3. lostEdit = FALSE  BY DEF GuiInit
  <2> QED  BY <1>7, <1>8, <1>9, <1>10, <1>11, <2>1, <2>2, <2>3 DEF ViewsTrue
<1>13. MarkTrue /\ Owed /\ Woken  BY <1>4 DEF GuiInit, MarkTrue, Owed, Woken, IsScan
<1>14. ScansInOrder  BY <1>5 DEF GuiInit, ScansInOrder
<1> QED  BY <1>6, <1>12, <1>13, <1>14 DEF GuiInv, Refreshes

\* A step of something else.
LEMMA GuiUnchanged == ASSUME GuiInv, UNCHANGED guiVars PROVE GuiInv'
<1>1. /\ UNCHANGED <<world, now, changes, queue, pendingRefresh, worker, results, wakes,
                     ui, defs, retry>>
      /\ UNCHANGED <<acts, owed, scanned>>
      /\ UNCHANGED <<logs, modal, recovery, lostEdit, status>>
  BY DEF guiVars
<1>2. InFlight' = InFlight  BY <1>1 DEF InFlight
<1>3. ViewsTrue'  BY <1>1, <1>2, SameViews DEF GuiInv
<1>4. Shapes'  BY <1>1 DEF GuiInv, Shapes
<1>5. Refreshes'
  BY <1>1 DEF GuiInv, Refreshes, ScansInOrder, MarkTrue, Owed, Woken
<1> QED  BY <1>3, <1>4, <1>5 DEF GuiInv

\* Every step keeps the invariant.
LEMMA GuiStep == GuiInv /\ [GuiNext]_guiVars => GuiInv'
<1> SUFFICES ASSUME GuiInv, [GuiNext]_guiVars PROVE GuiInv'  OBVIOUS
<1>1. CASE UserStep  BY <1>1, UserSteps
<1>2. CASE Picked  BY <1>2, PickedStep
<1>3. CASE WorkerStep
  BY <1>3, TakeStep, ClearMarkStep, ExecuteStep, PostStep DEF WorkerStep
<1>4. CASE EventLoopStep
  BY <1>4, WakeStep, DrainScanStep, DrainProcessesStep, DrainLogStep, DrainRecoveryStep,
     DrainSavedStep, DrainModalStep, DrainActedStep, DrainEndStep DEF EventLoopStep
<1>5. CASE OtherChange  BY <1>5, OtherChangeStep
<1>6. CASE UNCHANGED guiVars  BY <1>6, GuiUnchanged
<1> QED  BY <1>1, <1>2, <1>3, <1>4, <1>5, <1>6 DEF GuiNext

\* The invariant holds in every reachable state.
LEMMA GuiInvariant == GuiSpec => []GuiInv
BY GuiInitial, GuiStep, PTL DEF GuiSpec

\* No view shows the answer to something the user is no longer looking at, no request is
\* for another service than it was made for, and what is shown as pending is under way,
\* however late results come (Pending, ModalState, LogViewState, RecoveryEditor,
\* StatusState).
THEOREM NothingStale == GuiSpec => []NothingStaleShown
<1>1. GuiInv => NothingStaleShown
  <2> SUFFICES ASSUME GuiInv PROVE NothingStaleShown  OBVIOUS
  <2>1. LogCurrent  BY ViewsOf DEF LogTrue, LogCurrent
  <2>2. ProcessesCurrent  BY ViewsOf DEF ModalTrue, ProcessesCurrent
  <2>3. RecoveryCurrent  BY ViewsOf DEF RecoveryTrue, RecoveryCurrent
  <2>4. StatusCurrent  BY DEF GuiInv, ViewsTrue, StatusTrue, StatusCurrent
  <2>5. RequestsTrue  BY DEF GuiInv, ViewsTrue, JobTrue, BusyTrue, RequestsTrue
  <2> QED  BY <2>1, <2>2, <2>3, <2>4, <2>5 DEF NothingStaleShown
<1> QED  BY <1>1, GuiInvariant, PTL

\* When everything has come to rest, the last scan that was applied began after the last
\* refresh that was asked for, however requests were coalesced or refused (JobSender::send,
\* worker_loop, RefreshState).
THEOREM RefreshesServed == GuiSpec => []RefreshServed
<1>1. GuiInv => RefreshServed
  <2> SUFFICES ASSUME GuiInv, ui = "ready", wakes = 0, queue = <<>>, worker.stage = "idle"
               PROVE  scanned >= owed
    BY DEF RefreshServed
  <2>1. results = <<>> /\ DOMAIN results = {} /\ DOMAIN queue = {}
    BY DEF GuiInv, Refreshes, Woken
  <2>2. ~pendingRefresh  BY <2>1 DEF GuiInv, Refreshes, MarkTrue
  <2> QED  BY <2>1, <2>2 DEF GuiInv, Refreshes, Owed
<1> QED  BY <1>1, GuiInvariant, PTL

\* Only execute changes a field on the panel's behalf, and only where the job says so.
LEMMA EditStep ==
    ASSUME GuiInv, [GuiNext]_guiVars, NEW s \in DOMAIN world \cap DOMAIN world', NEW f \in Fields,
           world'[s][f] # world[s][f], changes' = changes
    PROVE  /\ s = worker.job.request.service /\ Written(worker.job.form, f)
           /\ world'[s][f] = Trimmed(f, worker.job.form.value[f])
<1>1. world' # world  OBVIOUS
<1>2. Execute
  <2>1. ASSUME UserStep \/ Picked PROVE FALSE
    BY <1>1, <2>1 DEF UserStep, Elsewhere, Refresh, TypePassword, SubmitModal, ConfirmRemove,
       Browse, ReloadRecovery, EditRecovery, SaveRecovery, Select, Action, OpenEdit, OpenProcesses,
       OpenModal, TypeField, RequestLog, ViewChanged, Picked
  <2>2. ASSUME Take \/ ClearMark \/ Post PROVE FALSE
    BY <1>1, <2>2 DEF Take, ClearMark, Post, outside
  <2>3. ASSUME EventLoopStep PROVE FALSE
    BY <1>1, <2>3 DEF EventLoopStep, Result, outside, Wake, DrainScan, DrainProcesses, DrainLog,
       DrainRecovery, DrainSaved, DrainModal, DrainActed, DrainEnd
  <2>4. ASSUME OtherChange PROVE FALSE
    <3>1. changes \in Nat  BY DEF GuiInv, Shapes
    <3> QED  BY <2>4, <3>1 DEF OtherChange
  <2>5. ASSUME UNCHANGED guiVars PROVE FALSE  BY <1>1, <2>5 DEF guiVars
  <2> QED  BY <2>1, <2>2, <2>3, <2>4, <2>5 DEF GuiNext, WorkerStep
<1> DEFINE j == worker.job
<1>3. world' \in {world, Without(j.service)}
        \/ (j.type = "Edit" /\ j.request.service \in DOMAIN world
            /\ world' = Edited(j.request.service, j.spec))
  BY <1>2 DEF Execute, Changed
<1>4. world' # Without(j.service)  BY DEF Without
<1>5. j.type = "Edit" /\ j.request.service \in DOMAIN world
        /\ world' = Edited(j.request.service, j.spec)
  BY <1>1, <1>3, <1>4
<1>6. s = j.request.service /\ f \in DOMAIN j.spec /\ world'[s][f] = j.spec[f]
  <2>1. Snapshot(world)  BY DEF GuiInv, Shapes
  <2> QED  BY <1>5, <2>1 DEF Edited, Snapshot
<1>7. JobTrue(j)  BY <1>2 DEF GuiInv, ViewsTrue, InFlight, Execute
<1> QED  BY <1>5, <1>6, <1>7 DEF JobTrue, SpecTrue

\* An edit from an old snapshot changes only the service it was opened for, and of that
\* only what its user typed, a value that was stored with blanks, which is trimmed, and
\* the account when a password goes along; each gets what the form showed
\* (EditForm::to_spec, execute).
THEOREM EditsKeepOthers == GuiSpec => EditKeepsOthers
<1>1. GuiInv /\ [GuiNext]_guiVars =>
        [ \A s \in DOMAIN world \cap DOMAIN world' : \A f \in Fields :
            world'[s][f] # world[s][f] /\ changes' = changes =>
                LET form == worker.job.form
                IN  /\ s = worker.job.request.service /\ Written(form, f)
                    /\ world'[s][f] = Trimmed(f, form.value[f]) ]_guiVars
  BY EditStep
<1> QED  BY <1>1, GuiInvariant, PTL DEF GuiSpec, EditKeepsOthers

-----------------------------------------------------------------------------
(* THE FRONT ENDS *)

\* A command as it can be written.
CommandType == verb \in Verbs \cup {NoVerb} /\ flags \subseteq FlagsOf(verb)

\* The flags of the commands that have checks of their own.
LEMMA FlagsOfVerbs ==
    /\ FlagsOf("install") = InstallFlags
    /\ FlagsOf("edit") = EditFlags
    /\ FlagsOf(NoVerb) = {}
<1>1. FlagsOf("install") = InstallFlags
  BY Zenon DEF FlagsOf, Controls
<1>2. FlagsOf("edit") = EditFlags
  BY Zenon DEF FlagsOf, Controls
<1>3. FlagsOf(NoVerb) = {}
  BY Zenon DEF FlagsOf, Controls, NoVerb
<1> QED
  BY <1>1, <1>2, <1>3

\* Commands are written flag by flag.
LEMMA CommandTyped ==
    /\ FrontEndsInit => CommandType
    /\ CommandType /\ [FrontEndsNext]_<<verb, flags>> => CommandType'
<1>1. FrontEndsInit => CommandType
  BY FlagsOfVerbs DEF FrontEndsInit, CommandType
<1>2. CommandType /\ Choose => CommandType'
  BY FlagsOfVerbs DEF CommandType, Choose
<1>3. CommandType /\ Give => CommandType'
  BY DEF CommandType, Give
<1>4. CommandType /\ UNCHANGED <<verb, flags>> => CommandType'
  BY DEF CommandType
<1> QED
  BY <1>1, <1>2, <1>3, <1>4 DEF FrontEndsNext

-----------------------------------------------------------------------------
(* The cases of the definitions *)

\* Which dependencies an edit ends up with, case by case.
LEMMA DependenciesOf ==
    ASSUME NEW f
    PROVE  /\ "clear dependencies" \in f => Dependencies(f) = {"no dependencies"}
           /\ "clear dependencies" \notin f /\ "depend" \in f => Dependencies(f) = {"dependencies"}
           /\ "clear dependencies" \notin f /\ "depend" \notin f => Dependencies(f) = {}
<1>1. "clear dependencies" \in f => Dependencies(f) = {"no dependencies"}
  BY Zenon DEF Dependencies
<1>2. "clear dependencies" \notin f /\ "depend" \in f => Dependencies(f) = {"dependencies"}
  BY Zenon DEF Dependencies
<1>3. "clear dependencies" \notin f /\ "depend" \notin f => Dependencies(f) = {}
  BY Zenon DEF Dependencies
<1> QED
  BY <1>1, <1>2, <1>3

\* Which calls an edit leads to.
LEMMA ForcedEdits ==
    ASSUME NEW f
    PROVE  /\ ForceNative \in f /\ f \cap ManagedFields # {} => ForcedEdit(f) = NoCall
           /\ ForceNative \in f /\ f \cap ManagedFields = {} /\ EditSpec(f) # {} =>
                ForcedEdit(f) = Call("update_native_config", EditSpec(f), TRUE)
           /\ ForceNative \notin f \/ (f \cap ManagedFields = {} /\ EditSpec(f) = {}) =>
                ForcedEdit(f) = Call("edit", EditSpec(f), FALSE)
<1>1. ForceNative \in f /\ f \cap ManagedFields # {} => ForcedEdit(f) = NoCall
  BY Zenon DEF ForcedEdit
<1>2. ForceNative \in f /\ f \cap ManagedFields = {} /\ EditSpec(f) # {} =>
        ForcedEdit(f) = Call("update_native_config", EditSpec(f), TRUE)
  BY Zenon DEF ForcedEdit
<1>3. ForceNative \notin f \/ (f \cap ManagedFields = {} /\ EditSpec(f) = {}) =>
        ForcedEdit(f) = Call("edit", EditSpec(f), FALSE)
  BY Zenon DEF ForcedEdit
<1> QED
  BY <1>1, <1>2, <1>3

\* The verbs whose commands both sides hand on as they are, and those that the broker
\* does not know.
PlainVerbs == {"restart", "recovery set", "recovery show", "repair", "rotate", "processes",
               "list", "dump"}
LocalVerbs == {"status", "statuscode", "get", "set", "unset", "reset"}

\* Every verb is of one of these kinds.
LEMMA VerbKinds ==
    Verbs = {"install", "edit", "remove"} \cup Controls \cup PlainVerbs \cup LocalVerbs
BY DEF Verbs, Controls, PlainVerbs, LocalVerbs

\* What the command line asks for, verb by verb.
LEMMA CliOf ==
    ASSUME NEW f
    PROVE  /\ Cli("install", f) = CliInstall(f)
           /\ Cli("edit", f) = CliEdit(f)
           /\ Cli("remove", f) = CliRemove(f)
           /\ \A v \in Controls : Cli(v, f) = CliControl(v, f)
           /\ \A v \in PlainVerbs : Cli(v, f) = Plain(v, f)
           /\ \A v \in LocalVerbs :
                Cli(v, f) = IF v = "reset" THEN Plain("unset", f) ELSE Plain(v, f)
<1>1. Cli("install", f) = CliInstall(f)
  BY Zenon DEF Cli, Controls
<1>2. Cli("edit", f) = CliEdit(f)
  BY Zenon DEF Cli, Controls
<1>3. Cli("remove", f) = CliRemove(f)
  BY Zenon DEF Cli, Controls
<1>4. \A v \in Controls : Cli(v, f) = CliControl(v, f)
  BY Zenon DEF Cli, Controls
<1>5. \A v \in PlainVerbs : Cli(v, f) = Plain(v, f)
  BY Zenon DEF Cli, Controls, PlainVerbs
<1>6. \A v \in LocalVerbs : Cli(v, f) = IF v = "reset" THEN Plain("unset", f) ELSE Plain(v, f)
  BY Zenon DEF Cli, Controls, LocalVerbs
<1> QED
  BY <1>1, <1>2, <1>3, <1>4, <1>5, <1>6

\* What the broker asks for, verb by verb.
LEMMA BrokerOf ==
    ASSUME NEW f
    PROVE  /\ Broker("install", f) = BrokerInstall(f, RotationSpec(f))
           /\ Broker("edit", f) = BrokerEdit(f)
           /\ Broker("remove", f) = BrokerRemove(f)
           /\ \A v \in Controls : Broker(v, f) = BrokerControl(v, f)
           /\ \A v \in PlainVerbs : Broker(v, f) = Plain(v, f)
           /\ \A v \in LocalVerbs : Broker(v, f) = NoCall
<1>1. Broker("install", f) = BrokerInstall(f, RotationSpec(f))
  BY Zenon DEF Broker, Controls
<1>2. Broker("edit", f) = BrokerEdit(f)
  BY Zenon DEF Broker, Controls
<1>3. Broker("remove", f) = BrokerRemove(f)
  BY Zenon DEF Broker, Controls
<1>4. \A v \in Controls : Broker(v, f) = BrokerControl(v, f)
  BY Zenon DEF Broker, Controls
<1>5. \A v \in PlainVerbs : Broker(v, f) = Plain(v, f)
  BY Zenon DEF Broker, Controls, PlainVerbs
<1>6. \A v \in LocalVerbs : Broker(v, f) = NoCall
  BY Zenon DEF Broker, Controls, LocalVerbs
<1> QED
  BY <1>1, <1>2, <1>3, <1>4, <1>5, <1>6

\* What each operation checks before it acts.
LEMMA GuardOf ==
    ASSUME NEW c, NEW t
    PROVE  /\ c.op = "refused" => ~Guard(c, t)
           /\ c.op = "install" => (Guard(c, t) <=> InstallValid(c.spec))
           /\ c.op = "edit" => (Guard(c, t) <=> c.spec # {} /\ t.config = "present")
           /\ c.op = "start" => (Guard(c, t) <=> Owned(t) /\ t.enabled)
           /\ c.op \in {"stop", "pause", "continue"} => (Guard(c, t) <=> Owned(t))
           /\ c.op = "restart" => (Guard(c, t) <=> (c.force \/ Owned(t)) /\ t.enabled)
           /\ c.op = "remove" =>
                (Guard(c, t) <=> "purge" \in c.spec /\ (c.force \/ Owned(t)) /\ IsStopped(t))
           /\ c.op = "repair" => (Guard(c, t) <=> t.config = "present" /\ IsStopped(t))
           /\ c.op = "rotate" => (Guard(c, t) <=> t.config = "present" /\ t.online)
           /\ c.op = "recovery set" => (Guard(c, t) <=> t.config = "present")
           /\ c.op \in {"set", "unset"} => (Guard(c, t) <=> Marked(t))
           /\ c.op = "processes" => Guard(c, t)
<1>1. c.op = "refused" => ~Guard(c, t)
  BY Zenon DEF Guard
<1>2. c.op = "install" => (Guard(c, t) <=> InstallValid(c.spec))
  BY Zenon DEF Guard
<1>3. c.op = "edit" => (Guard(c, t) <=> c.spec # {} /\ t.config = "present")
  BY Zenon DEF Guard
<1>4. c.op = "start" => (Guard(c, t) <=> Owned(t) /\ t.enabled)
  BY Zenon DEF Guard
<1>5. c.op \in {"stop", "pause", "continue"} => (Guard(c, t) <=> Owned(t))
  BY Zenon DEF Guard
<1>6. c.op = "restart" => (Guard(c, t) <=> (c.force \/ Owned(t)) /\ t.enabled)
  BY Zenon DEF Guard
<1>7. c.op = "remove" =>
        (Guard(c, t) <=> "purge" \in c.spec /\ (c.force \/ Owned(t)) /\ IsStopped(t))
  BY Zenon DEF Guard
<1>8. c.op = "repair" => (Guard(c, t) <=> t.config = "present" /\ IsStopped(t))
  BY Zenon DEF Guard
<1>9. c.op = "rotate" => (Guard(c, t) <=> t.config = "present" /\ t.online)
  BY Zenon DEF Guard
<1>10. c.op = "recovery set" => (Guard(c, t) <=> t.config = "present")
  BY Zenon DEF Guard
<1>11. c.op \in {"set", "unset"} => (Guard(c, t) <=> Marked(t))
  BY Zenon DEF Guard
<1>12. c.op = "processes" => Guard(c, t)
  BY Zenon DEF Guard
<1> QED
  BY <1>1, <1>2, <1>3, <1>4, <1>5, <1>6, <1>7, <1>8, <1>9, <1>10, <1>11, <1>12

-----------------------------------------------------------------------------
(* No flag is swallowed *)

\* What an install asks for is what its flags say, and the rotation is switched on by
\* any of its flags.
LEMMA InstallAsks ==
    ASSUME NEW f \in SUBSET InstallFlags
    PROVE  (InstallSpec(f) \cup RotationSpec(f)) \ {"rotation enabled"} = Asked(f)
<1>1. "clear dependencies" \notin f
  BY DEF InstallFlags, ManagedFields, NativeFields, Rotation
<1>2. Dependencies(f) = IF "depend" \in f THEN {"dependencies"} ELSE {}
  BY <1>1, DependenciesOf
<1>3. RotationSpec(f) \ {"rotation enabled"} = f \cap Rotation
  BY DEF RotationSpec, Rotation
<1>4. Asked(f) = (f \ {"depend", "bad password", "bad depend", "bad hook"}) \cup Dependencies(f)
  BY <1>1, <1>2 DEF Asked, InstallFlags, ManagedFields, NativeFields, Rotation, ForceNative
<1>5. f \ {"depend", "bad password", "bad depend", "bad hook"}
        = f \cap (ManagedFields \cup NativeFields \cup {"hook"} \cup Rotation)
  BY DEF InstallFlags, ManagedFields, NativeFields, Rotation
<1>6. InstallSpec(f) \ {"rotation enabled"} = InstallSpec(f)
  BY <1>2 DEF InstallSpec, ManagedFields, NativeFields
<1> QED
  BY <1>3, <1>4, <1>5, <1>6 DEF InstallSpec

\* So it is with an edit that does not both set and clear the dependencies.
LEMMA EditAsks ==
    ASSUME NEW f \in SUBSET EditFlags, ~({"clear dependencies", "depend"} \subseteq f)
    PROVE  EditSpec(f) = Asked(f)
<1> DEFINE plain == f \ {"depend", "clear dependencies", ForceNative, "bad password", "bad depend",
                         "bad hook"}
<1>1. plain = f \cap (ManagedFields \cup NativeFields)
  BY DEF EditFlags, ManagedFields, NativeFields, ForceNative
<1>2. Asked(f) = plain \cup Dependencies(f)
  <2>1. CASE "clear dependencies" \in f
    <3>1. Dependencies(f) = {"no dependencies"} /\ "depend" \notin f
      BY <2>1, DependenciesOf
    <3> QED
      BY <2>1, <3>1 DEF Asked, ForceNative
  <2>2. CASE "clear dependencies" \notin f /\ "depend" \in f
    <3>1. Dependencies(f) = {"dependencies"}
      BY <2>2, DependenciesOf
    <3> QED
      BY <2>2, <3>1 DEF Asked, ForceNative
  <2>3. CASE "clear dependencies" \notin f /\ "depend" \notin f
    <3>1. Dependencies(f) = {}
      BY <2>3, DependenciesOf
    <3> QED
      BY <2>3, <3>1 DEF Asked, ForceNative
  <2> QED
    BY <2>1, <2>2, <2>3
<1> QED
  BY <1>1, <1>2 DEF EditSpec

\* A valid install passes the operation's own check.
LEMMA InstallPasses ==
    ASSUME NEW f \in SUBSET InstallFlags, ~CliInstallBad(f)
    PROVE  InstallValid(InstallSpec(f) \cup RotationSpec(f))
<1>1. Dependencies(f) \subseteq {"dependencies", "no dependencies"}
  <2>1. \/ Dependencies(f) = {} \/ Dependencies(f) = {"dependencies"}
        \/ Dependencies(f) = {"no dependencies"}
    BY DependenciesOf, Zenon
  <2> QED
    BY <2>1
<1>2. "bad hook" \notin InstallSpec(f) \cup RotationSpec(f)
  BY <1>1 DEF InstallSpec, RotationSpec, Rotation, ManagedFields, NativeFields
<1>3. CASE f \cap Rotation = {}
  <2>1. RotationSpec(f) = {}
    BY <1>3 DEF RotationSpec
  <2>2. InstallSpec(f) \cap (Rotation \cup {"rotation enabled", "delay"}) = {}
    BY <1>1 DEF InstallSpec, Rotation, ManagedFields, NativeFields
  <2> QED
    BY <1>2, <2>1, <2>2 DEF InstallValid
<1>4. CASE f \cap Rotation # {}
  <2>1. f \cap {"stdout", "stderr"} # {}
    BY <1>4 DEF CliInstallBad
  <2>2. f \cap {"stdout", "stderr"} \subseteq InstallSpec(f)
    BY DEF InstallSpec, ManagedFields
  <2> QED
    BY <1>2, <2>1, <2>2 DEF InstallValid
<1> QED
  BY <1>3, <1>4

\* A command that is accepted asks for all that was written.
LEMMA CommandWhole ==
    ASSUME CommandType
    PROVE  AllOrNothing
<1> USE FlagsOfVerbs DEF CommandType
<1>1. ASSUME verb = "install", Cli(verb, flags) # NoCall
      PROVE  /\ Cli(verb, flags).spec \ {"rotation enabled"} = Asked(flags)
             /\ \A t \in {x \in Targets : x.runtime = "none"} : Guard(Cli(verb, flags), t)
  <2>1. Cli(verb, flags) = CliInstall(flags)
    BY <1>1, CliOf
  <2>2. ~CliInstallBad(flags)
    BY <1>1, <2>1 DEF CliInstall
  <2>3. Cli(verb, flags) = Call("install", InstallSpec(flags) \cup RotationSpec(flags), FALSE)
    BY <2>1, <2>2 DEF CliInstall
  <2>4. /\ Cli(verb, flags).op = "install"
        /\ Cli(verb, flags).spec = InstallSpec(flags) \cup RotationSpec(flags)
    BY <2>3 DEF Call
  <2>5. flags \in SUBSET InstallFlags
    BY <1>1
  <2>6. InstallValid(Cli(verb, flags).spec)
    BY <2>2, <2>4, <2>5, InstallPasses
  <2> QED
    BY <2>4, <2>5, <2>6, InstallAsks, GuardOf
<1>2. ASSUME verb = "edit", NEW c \in {CliEdit(flags), BrokerEdit(flags)} \ {NoCall}
      PROVE  c.spec = Asked(flags) /\ "bad depend" \notin flags
  <2>1. /\ c = ForcedEdit(flags) /\ ForcedEdit(flags) # NoCall
        /\ "bad depend" \notin flags
        /\ ~({"clear dependencies", "depend"} \subseteq flags)
    BY <1>2 DEF CliEdit, BrokerEdit, CliEditBad
  <2>2. c.spec = EditSpec(flags)
    <3>1. \/ ForcedEdit(flags) = Call("edit", EditSpec(flags), FALSE)
          \/ ForcedEdit(flags) = Call("update_native_config", EditSpec(flags), TRUE)
      BY <2>1, ForcedEdits, Zenon
    <3>2. /\ Call("edit", EditSpec(flags), FALSE).spec = EditSpec(flags)
          /\ Call("update_native_config", EditSpec(flags), TRUE).spec = EditSpec(flags)
      BY DEF Call
    <3> QED
      BY <2>1, <3>1, <3>2, Zenon
  <2>3. flags \in SUBSET EditFlags
    BY <1>2
  <2> QED
    BY <2>1, <2>2, <2>3, EditAsks
<1>3. ASSUME verb = "remove", NEW t \in Targets, Guard(Cli(verb, flags), t)
      PROVE  "no purge" \notin flags
  BY <1>3, CliOf, GuardOf DEF CliRemove, Call
<1> QED
  BY <1>1, <1>2, <1>3 DEF AllOrNothing

-----------------------------------------------------------------------------
(* The front ends agree *)

\* A call that is not made and one that is refused come to the same.
SameAnswer(c, d) ==
    \/ c = d
    \/ \A t \in Targets : (IF Guard(c, t) THEN c ELSE NoCall) = (IF Guard(d, t) THEN d ELSE NoCall)

\* Both sides take an install in the same way.
LEMMA InstallSame ==
    ASSUME NEW f \in SUBSET InstallFlags, f \cap {"password", "bad password"} = {}
    PROVE  SameAnswer(CliInstall(f), BrokerInstall(f, RotationSpec(f)))
<1> DEFINE spec == InstallSpec(f) \cup RotationSpec(f) \cup (f \cap {"bad hook"})
<1>1. CASE "bad depend" \in f
  BY <1>1 DEF CliInstall, CliInstallBad, BrokerInstall, SameAnswer
<1>2. CASE "bad depend" \notin f /\ ~CliInstallBad(f)
  <2>1. f \cap {"bad hook"} = {}
    BY <1>2 DEF CliInstallBad
  <2> QED
    BY <1>2, <2>1 DEF CliInstall, BrokerInstall, SameAnswer
<1>3. CASE "bad depend" \notin f /\ CliInstallBad(f)
  <2>1. CliInstall(f) = NoCall
    BY <1>3 DEF CliInstall
  <2>2. BrokerInstall(f, RotationSpec(f)) = Call("install", spec, FALSE)
    BY <1>3 DEF BrokerInstall
  <2>3. ~InstallValid(spec)
    <3>1. CASE "bad hook" \in f
      BY <3>1 DEF InstallValid
    <3>2. CASE f \cap Rotation # {} /\ f \cap {"stdout", "stderr"} = {}
      <4>1. "rotation enabled" \in spec
        BY <3>2 DEF RotationSpec
      <4>2. spec \cap {"stdout", "stderr"} = {}
        BY <3>2, DependenciesOf DEF RotationSpec, InstallSpec, Rotation
      <4> QED
        BY <4>1, <4>2 DEF InstallValid
    <3> QED
      BY <1>3, <3>1, <3>2 DEF CliInstallBad, PasswordMisused
  <2>4. \A t : ~Guard(NoCall, t) /\ ~Guard(Call("install", spec, FALSE), t)
    BY <2>3, GuardOf DEF NoCall, Call
  <2> QED
    BY <2>1, <2>2, <2>4 DEF SameAnswer
<1> QED
  BY <1>1, <1>2, <1>3

\* Both sides take an edit in the same way.
LEMMA EditSame ==
    ASSUME NEW f \in SUBSET EditFlags, f \cap {"password", "bad password"} = {}
    PROVE  SameAnswer(CliEdit(f), BrokerEdit(f))
<1>1. CASE "bad depend" \in f \/ {"clear dependencies", "depend"} \subseteq f
  BY <1>1 DEF CliEdit, CliEditBad, BrokerEdit, SameAnswer
<1>2. CASE ~("bad depend" \in f \/ {"clear dependencies", "depend"} \subseteq f)
  <2>1. BrokerEdit(f) = ForcedEdit(f)
    BY <1>2 DEF BrokerEdit
  <2>2. CASE ~(f \subseteq {ForceNative, "bad password"})
    <3>1. ~CliEditBad(f)
      BY <1>2, <2>2 DEF CliEditBad, PasswordMisused
    <3> QED
      BY <2>1, <3>1 DEF CliEdit, SameAnswer
  <2>3. CASE f \subseteq {ForceNative, "bad password"}
    <3>1. CliEdit(f) = NoCall
      BY <2>3 DEF CliEdit, CliEditBad
    <3>2. EditSpec(f) = {} /\ f \cap ManagedFields = {}
      BY <2>3, DependenciesOf DEF EditSpec, ManagedFields, NativeFields, ForceNative
    <3>3. ForcedEdit(f) = Call("edit", {}, FALSE)
      BY <3>2, ForcedEdits
    <3>4. \A t : ~Guard(NoCall, t) /\ ~Guard(Call("edit", {}, FALSE), t)
      BY GuardOf DEF NoCall, Call
    <3> QED
      BY <2>1, <3>1, <3>3, <3>4 DEF SameAnswer
  <2> QED
    BY <2>2, <2>3
<1> QED
  BY <1>1, <1>2

\* The install form checks the one thing that can be wrong in it.
LEMMA FormSame ==
    ASSUME NEW f \in SUBSET FormFields
    PROVE  GuiInstall(f) = CliInstall(f)
<1>1. /\ f \cap Rotation = {} /\ f \cap {"bad depend", "bad hook"} = {}
      /\ "bad password" \notin f /\ "depend" \notin f /\ "clear dependencies" \notin f
  BY DEF FormFields, ManagedFields, NativeFields, Rotation
<1>2. InstallSpec(f) \cup RotationSpec(f) = f
  BY <1>1, DependenciesOf DEF InstallSpec, RotationSpec, FormFields
<1> QED
  BY <1>1, <1>2 DEF GuiInstall, CliInstall, CliInstallBad, PasswordMisused

\* Both sides take every command in the same way.
LEMMA CommandSame ==
    ASSUME CommandType, verb # NoVerb
    PROVE  SameResult
<1> USE FlagsOfVerbs DEF CommandType
<1> DEFINE cli == Cli(verb, flags)
           broker == Broker(verb, flags)
<1>1. ASSUME flags \cap {"password", "bad password", "no purge"} = {}, Broker(verb, {}) # NoCall
      PROVE  SameAnswer(cli, broker)
  <2>1. CASE verb = "install"
    <3>1. flags \in SUBSET InstallFlags /\ flags \cap {"password", "bad password"} = {}
      BY <1>1, <2>1
    <3>2. cli = CliInstall(flags) /\ broker = BrokerInstall(flags, RotationSpec(flags))
      BY <2>1, CliOf, BrokerOf
    <3> QED
      BY <3>1, <3>2, InstallSame
  <2>2. CASE verb = "edit"
    <3>1. flags \in SUBSET EditFlags /\ flags \cap {"password", "bad password"} = {}
      BY <1>1, <2>2
    <3>2. cli = CliEdit(flags) /\ broker = BrokerEdit(flags)
      BY <2>2, CliOf, BrokerOf
    <3> QED
      BY <3>1, <3>2, EditSame
  <2>3. CASE verb = "remove"
    BY <1>1, <2>3, CliOf, BrokerOf DEF CliRemove, BrokerRemove, SameAnswer
  <2>4. CASE verb \in Controls
    <3>1. CliControl(verb, flags) = BrokerControl(verb, flags)
      <4>1. CASE ForceNative \in flags
        BY <4>1, Zenon DEF CliControl, BrokerControl
      <4>2. CASE ForceNative \notin flags
        <5>1. (ForceNative \in flags) = FALSE
          BY <4>2
        <5> QED
          BY <4>2, <5>1, Zenon DEF CliControl, BrokerControl
      <4> QED
        BY <4>1, <4>2
    <3> QED
      BY <2>4, <3>1, CliOf, BrokerOf DEF SameAnswer
  <2>5. CASE verb \in PlainVerbs
    BY <2>5, CliOf, BrokerOf DEF SameAnswer
  <2>6. verb \notin LocalVerbs
    BY <1>1, BrokerOf
  <2> QED
    BY <2>1, <2>2, <2>3, <2>4, <2>5, <2>6, VerbKinds
<1>2. verb = "install" /\ flags \subseteq FormFields => GuiInstall(flags) = cli
  BY FormSame, CliOf
<1> QED
  BY <1>1, <1>2, Zenon DEF SameResult, SameAnswer

-----------------------------------------------------------------------------
(* Recovery policies *)

\* A setting of a recovery policy is cleared, replaced or kept.
LEMMA MergeOf ==
    ASSUME NEW f, NEW s, NEW current
    PROVE  /\ Clear(s) \in f => MergeSetting(f, s, current) = "none"
           /\ Clear(s) \notin f /\ s \in f => MergeSetting(f, s, current) = "new"
           /\ Clear(s) \notin f /\ s \notin f => MergeSetting(f, s, current) = current
<1>1. Clear(s) \in f => MergeSetting(f, s, current) = "none"
  BY Zenon DEF MergeSetting
<1>2. Clear(s) \notin f /\ s \in f => MergeSetting(f, s, current) = "new"
  BY Zenon DEF MergeSetting
<1>3. Clear(s) \notin f /\ s \notin f => MergeSetting(f, s, current) = current
  BY Zenon DEF MergeSetting
<1> QED
  BY <1>1, <1>2, <1>3

\* A change to a recovery policy has the settings it names and keeps the others.
LEMMA PolicyKept == RecoveryKept
<1> SUFFICES ASSUME NEW current \in Policies
             PROVE  LET cli == CliRecovery(flags, current)
                        broker == BrokerRecovery(flags)
                    IN  /\ cli.saved => AsGiven(cli.policy) /\ OthersKept(cli.policy, current)
                        /\ broker.saved => AsGiven(broker.policy)
                        /\ cli.saved /\ broker.saved /\ "clear_exit_actions" \in flags
                             /\ (\A s \in {"restart_delay", "throttle_delay"} :
                                    s \in flags \/ Clear(s) \in flags)
                               => cli.policy = broker.policy
  BY DEF RecoveryKept
<1> DEFINE cli == CliRecovery(flags, current)
           broker == BrokerRecovery(flags)
           restart == MergeSetting(flags, "restart_delay", current.restart)
           throttle == MergeSetting(flags, "throttle_delay", current.throttle)
<1>1. Clear("restart_delay") = "no_restart_delay" /\ Clear("throttle_delay") = "no_throttle_delay"
  BY DEF Clear
<1>2. cli.saved =>
        /\ ~({"restart_delay", "no_restart_delay"} \subseteq flags)
        /\ ~({"throttle_delay", "no_throttle_delay"} \subseteq flags)
        /\ cli.policy =
              [default |-> IF "default_action" \in flags THEN "new" ELSE current.default,
               restart |-> restart, throttle |-> throttle,
               exits |-> MergeExits(flags, current.exits)]
  BY <1>1 DEF CliRecovery
<1>3. broker.saved =>
        /\ "default_action" \in flags
        /\ broker.policy =
              [default |-> "new",
               restart |-> IF "restart_delay" \in flags THEN "new" ELSE "none",
               throttle |-> IF "throttle_delay" \in flags THEN "new" ELSE "none",
               exits |-> IF "exit_action" \in flags THEN {"named"} ELSE {}]
  BY DEF BrokerRecovery
<1>4. cli.saved =>
        /\ "restart_delay" \in flags => restart = "new"
        /\ "throttle_delay" \in flags => throttle = "new"
        /\ flags \cap {"restart_delay", "no_restart_delay"} = {} => restart = current.restart
        /\ flags \cap {"throttle_delay", "no_throttle_delay"} = {} => throttle = current.throttle
  BY <1>1, <1>2, MergeOf
<1>5. /\ "exit_action" \in flags => "named" \in MergeExits(flags, current.exits)
      /\ "clear_exit_actions" \notin flags => current.exits \subseteq MergeExits(flags, current.exits)
      /\ "clear_exit_actions" \in flags =>
            MergeExits(flags, current.exits) = IF "exit_action" \in flags THEN {"named"} ELSE {}
  BY DEF MergeExits
<1>6. "no_restart_delay" \in flags => restart = "none"
  BY <1>1, MergeOf
<1>7. "no_throttle_delay" \in flags => throttle = "none"
  BY <1>1, MergeOf
<1> HIDE DEF cli, broker, restart, throttle
<1>8. cli.saved => AsGiven(cli.policy) /\ OthersKept(cli.policy, current)
  BY <1>2, <1>4, <1>5 DEF AsGiven, OthersKept
<1>9. broker.saved => AsGiven(broker.policy)
  BY <1>3 DEF AsGiven
<1>10. ASSUME cli.saved, broker.saved, "clear_exit_actions" \in flags,
              \A s \in {"restart_delay", "throttle_delay"} : s \in flags \/ Clear(s) \in flags
       PROVE  cli.policy = broker.policy
  <2>1. restart = IF "restart_delay" \in flags THEN "new" ELSE "none"
    BY <1>1, <1>4, <1>6, <1>10
  <2>2. throttle = IF "throttle_delay" \in flags THEN "new" ELSE "none"
    BY <1>1, <1>4, <1>7, <1>10
  <2> QED
    BY <1>2, <1>3, <1>5, <1>10, <2>1, <2>2
<1> QED
  BY <1>8, <1>9, <1>10 DEF cli, broker

-----------------------------------------------------------------------------
(* Services that are not managed *)

\* A service with a configuration is managed.
LEMMA ConfiguredIsOwned ==
    ASSUME NEW t, t.config = "present"
    PROVE  Owned(t)
BY DEF Owned, Readable, ShownManaged

\* Without the override, a call that an operation lets pass on a service that is not
\* managed changes nothing, except that it repairs a value under a good marker.
Harmless(c) ==
    \A t : Guard(c, t) /\ Mutates(c) => Owned(t) \/ (c.op \in {"set", "unset"} /\ Marked(t))

\* The operations that look at who manages the service.
OwnerChecked == {"refused", "edit", "remove", "start", "stop", "pause", "continue", "restart",
              "repair", "rotate", "set", "unset", "recovery set"}

\* An operation that looks at the owner leaves others' services alone unless forced.
LEMMA CheckedHarmless ==
    ASSUME NEW c, c.op \in OwnerChecked, ~c.force
    PROVE  Harmless(c)
<1> SUFFICES ASSUME NEW t, ~Owned(t), Guard(c, t)
             PROVE  c.op \in {"set", "unset"} /\ Marked(t)
  BY DEF Harmless
<1>1. t.config # "present"
  BY ConfiguredIsOwned
<1>2. CASE c.op \in {"refused", "edit", "start", "stop", "pause", "continue"}
  BY <1>1, <1>2, GuardOf
<1>3. CASE c.op \in {"remove", "restart"}
  BY <1>3, GuardOf
<1>4. CASE c.op \in {"repair", "rotate", "recovery set"}
  BY <1>1, <1>4, GuardOf
<1>5. CASE c.op \in {"set", "unset"}
  BY <1>5, GuardOf
<1> QED
  BY <1>2, <1>3, <1>4, <1>5 DEF OwnerChecked

\* A command without the flag leaves others' services alone.
LEMMA CommandHarmless ==
    ASSUME CommandType, verb \notin {NoVerb, "install"}, ForceNative \notin flags
    PROVE  Harmless(Cli(verb, flags)) /\ Harmless(Broker(verb, flags))
<1> DEFINE Quiet(c) == (c.op \in OwnerChecked /\ ~c.force) \/ ~Mutates(c)
<1>1. \A c : Quiet(c) => Harmless(c)
  BY CheckedHarmless DEF Harmless
<1>2. Quiet(NoCall)
  BY DEF NoCall, OwnerChecked
<1>3. (ForceNative \in flags) = FALSE
  OBVIOUS
<1>4. \A v \in OwnerChecked : \A s : Quiet(Call(v, s, FALSE))
  BY DEF Call
<1>5. \A v : Plain(v, flags) = Call(v, {}, FALSE)
  BY <1>3, Zenon DEF Plain
<1>6. \A v \in PlainVerbs \cup LocalVerbs : v \in OwnerChecked \/ v = "reset" \/ ~Mutates(Call(v, {}, FALSE))
  BY DEF PlainVerbs, LocalVerbs, OwnerChecked, Mutates, Call
<1>7. CASE verb = "edit"
  <2>1. ForcedEdit(flags) = Call("edit", EditSpec(flags), FALSE)
    BY ForcedEdits
  <2>2. Quiet(ForcedEdit(flags))
    BY <1>4, <2>1 DEF OwnerChecked
  <2>3. Quiet(CliEdit(flags)) /\ Quiet(BrokerEdit(flags))
    BY <1>2, <2>2, Zenon DEF CliEdit, BrokerEdit
  <2> QED
    BY <1>1, <1>7, <2>3, CliOf, BrokerOf
<1>8. CASE verb = "remove"
  <2>1. \E s : CliRemove(flags) = Call("remove", s, FALSE)
    BY <1>3, Zenon DEF CliRemove
  <2>2. \E s : BrokerRemove(flags) = Call("remove", s, FALSE)
    BY <1>3, Zenon DEF BrokerRemove
  <2>3. Quiet(CliRemove(flags)) /\ Quiet(BrokerRemove(flags))
    BY <1>4, <2>1, <2>2 DEF OwnerChecked
  <2> QED
    BY <1>1, <1>8, <2>3, CliOf, BrokerOf
<1>9. CASE verb \in Controls
  <2>1. CliControl(verb, flags) = Call(verb, {}, FALSE)
    BY <1>3, Zenon DEF CliControl
  <2>2. BrokerControl(verb, flags) = Call(verb, {}, FALSE)
    BY <1>3, Zenon DEF BrokerControl
  <2>3. Quiet(Call(verb, {}, FALSE))
    BY <1>4, <1>9 DEF Controls, OwnerChecked
  <2> QED
    BY <1>1, <1>9, <2>1, <2>2, <2>3, CliOf, BrokerOf
<1>10. CASE verb \in PlainVerbs
  <2>1. verb # "reset"
    BY <1>10 DEF PlainVerbs
  <2>2. Quiet(Plain(verb, flags))
    BY <1>4, <1>5, <1>6, <1>10, <2>1
  <2> QED
    BY <1>1, <1>10, <2>2, CliOf, BrokerOf
<1>11. CASE verb \in LocalVerbs
  <2>1. Quiet(Plain("unset", flags)) /\ (verb # "reset" => Quiet(Plain(verb, flags)))
    BY <1>4, <1>5, <1>6, <1>11 DEF OwnerChecked
  <2>2. Quiet(Cli(verb, flags))
    BY <1>11, <2>1, CliOf, Zenon
  <2> QED
    BY <1>1, <1>2, <1>11, <2>2, BrokerOf
<1> QED
  BY <1>7, <1>8, <1>9, <1>10, <1>11, VerbKinds DEF CommandType

\* Others' services are changed only with the flag.
LEMMA CommandNeedsForce ==
    ASSUME CommandType, verb # NoVerb
    PROVE  NativeNeedsForce
BY CommandHarmless DEF NativeNeedsForce, Harmless

-----------------------------------------------------------------------------
(* The buttons of the window, and the answers *)

\* The buttons of the window.
Buttons == {"start", "stop", "restart", "pause", "continue", "rotate", "edit", "remove",
            "processes"}

\* When each button is offered.
LEMMA OfferedOf ==
    ASSUME NEW t
    PROVE  /\ (Offered("start", t) <=> ShownManaged(t) /\ t.enabled /\ IsStopped(t))
           /\ (Offered("stop", t) <=>
                   ShownManaged(t) /\ t.runtime \in {"Running", "Paused", "StartPending"})
           /\ (Offered("restart", t) <=>
                   t.enabled /\ ShownManaged(t) /\ t.runtime \in {"Running", "Paused", "StartPending"})
           /\ (Offered("pause", t) <=> t.config = "present" /\ t.runtime = "Running")
           /\ (Offered("continue", t) <=> t.config = "present" /\ t.runtime = "Paused")
           /\ (Offered("rotate", t) <=>
                   t.config = "present" /\ t.online /\ t.runtime \in {"Running", "Paused"})
           /\ (Offered("edit", t) <=> t.config = "present")
           /\ (Offered("remove", t) <=> ShownManaged(t) /\ IsStopped(t))
           /\ (Offered("processes", t) <=> t.runtime \in {"Running", "Paused", "StartPending"})
           /\ \A v : v \notin Buttons => ~Offered(v, t)
<1>1. Offered("start", t) <=> ShownManaged(t) /\ t.enabled /\ IsStopped(t)
  BY Zenon DEF Offered
<1>2. Offered("stop", t) <=> ShownManaged(t) /\ t.runtime \in {"Running", "Paused", "StartPending"}
  BY Zenon DEF Offered
<1>3. Offered("restart", t) <=>
         t.enabled /\ ShownManaged(t) /\ t.runtime \in {"Running", "Paused", "StartPending"}
  BY Zenon DEF Offered
<1>4. Offered("pause", t) <=> t.config = "present" /\ t.runtime = "Running"
  BY Zenon DEF Offered
<1>5. Offered("continue", t) <=> t.config = "present" /\ t.runtime = "Paused"
  BY Zenon DEF Offered
<1>6. Offered("rotate", t) <=>
         t.config = "present" /\ t.online /\ t.runtime \in {"Running", "Paused"}
  BY Zenon DEF Offered
<1>7. Offered("edit", t) <=> t.config = "present"
  BY Zenon DEF Offered
<1>8. Offered("remove", t) <=> ShownManaged(t) /\ IsStopped(t)
  BY Zenon DEF Offered
<1>9. \A v : v \notin Buttons => ~Offered(v, t)
  BY Zenon DEF Offered, Buttons
<1>10. Offered("processes", t) <=> t.runtime \in {"Running", "Paused", "StartPending"}
  BY Zenon DEF Offered
<1> QED
  BY <1>1, <1>2, <1>3, <1>4, <1>5, <1>6, <1>7, <1>8, <1>9, <1>10, Zenon

\* What each button asks for.
LEMMA GuiOf ==
    /\ Gui("remove") = Call("remove", {"purge"}, FALSE)
    /\ Gui("edit") = Call("edit", {"application"}, FALSE)
    /\ \A v : v \notin {"remove", "edit"} => Gui(v) = Plain(v, {})
<1>1. Gui("remove") = Call("remove", {"purge"}, FALSE)
  BY Zenon DEF Gui
<1>2. Gui("edit") = Call("edit", {"application"}, FALSE)
  BY Zenon DEF Gui
<1>3. \A v : v \notin {"remove", "edit"} => Gui(v) = Plain(v, {})
  BY Zenon DEF Gui
<1> QED
  BY <1>1, <1>2, <1>3

\* The operation has the button's name.
LEMMA GuiAsks == \A v : Gui(v).op = v
<1>1. \A o, s, f : Call(o, s, f).op = o
  BY DEF Call
<1>2. \A v : Plain(v, {}).op = v
  BY <1>1, Zenon DEF Plain
<1>3. \A v : v \notin {"remove", "edit"} => Gui(v).op = v
  BY <1>2, GuiOf
<1>4. Gui("remove").op = "remove" /\ Gui("edit").op = "edit"
  BY <1>1, GuiOf
<1> QED
  BY <1>3, <1>4

\* All buttons but the look at the processes are for changes.
LEMMA ButtonMutates == \A v \in Buttons \ {"processes"} : Mutates(Gui(v))
<1> SUFFICES ASSUME NEW v \in Buttons \ {"processes"}
             PROVE  Mutates(Gui(v))
  OBVIOUS
<1>1. Gui(v).op = v
  BY GuiAsks
<1> QED
  BY <1>1 DEF Mutates, Buttons

\* An offered button's operation passes the checks of the operation.
LEMMA ButtonAccepted ==
    ASSUME NEW v, NEW t \in Targets, Offered(v, t),
           Readable(t) \/ ~Mutates(Gui(v))
    PROVE  Guard(Gui(v), t)
<1>1. ShownManaged(t) /\ v # "processes" => Owned(t)
  <2>1. v # "processes" => Mutates(Gui(v))
    BY ButtonMutates, OfferedOf
  <2> QED
    BY <2>1 DEF Owned
<1>2. t.config = "present" => Owned(t)
  BY ConfiguredIsOwned
<1>3. v \in Buttons
  BY OfferedOf
<1>4. \A w : Plain(w, {}).op = w
  BY DEF Plain, Call
<1>5. CASE v = "start"
  BY <1>1, <1>4, <1>5, GuiOf, OfferedOf, GuardOf
<1>6. CASE v \in {"stop", "pause", "continue"}
  <2>1. Owned(t)
    BY <1>1, <1>2, <1>6, OfferedOf
  <2>2. Gui(v).op = v
    BY <1>4, <1>6, GuiOf
  <2> QED
    BY <1>6, <2>1, <2>2, GuardOf
<1>7. CASE v = "restart"
  <2>1. Gui(v).op = "restart"
    BY <1>4, <1>7, GuiOf
  <2> QED
    BY <1>1, <1>7, <2>1, OfferedOf, GuardOf
<1>8. CASE v = "rotate"
  <2>1. Gui(v).op = "rotate"
    BY <1>4, <1>8, GuiOf
  <2> QED
    BY <1>1, <1>8, <2>1, OfferedOf, GuardOf
<1>9. CASE v = "edit"
  <2>1. Gui(v).op = "edit" /\ Gui(v).spec # {}
    BY <1>9, GuiOf DEF Call
  <2> QED
    BY <1>9, <2>1, OfferedOf, GuardOf
<1>10. CASE v = "remove"
  <2>1. Gui(v).op = "remove" /\ "purge" \in Gui(v).spec
    BY <1>10, GuiOf DEF Call
  <2> QED
    BY <1>1, <1>10, <2>1, OfferedOf, GuardOf
<1>11. CASE v = "processes"
  <2>1. Gui(v).op = "processes"
    BY <1>4, <1>11, GuiOf
  <2> QED
    BY <2>1, GuardOf
<1> QED
  BY <1>3, <1>5, <1>6, <1>7, <1>8, <1>9, <1>10, <1>11 DEF Buttons

\* The same of all buttons; of stop and remove, exactly one is offered.
LEMMA ButtonsAlwaysAccepted == ButtonsAccepted
<1> SUFFICES ASSUME NEW t \in Targets
             PROVE  /\ Offered(verb, t) /\ Mutates(Gui(verb)) => Listed("managed", t)
                    /\ Offered(verb, t) /\ (Readable(t) \/ ~Mutates(Gui(verb))) =>
                            Guard(Gui(verb), t)
                    /\ ShownManaged(t) /\ t.runtime \in {"Stopped", "Running", "Paused", "none"} =>
                            Offered("stop", t) # Offered("remove", t)
  BY DEF ButtonsAccepted
<1>1. ASSUME Offered(verb, t), Mutates(Gui(verb))
      PROVE  ShownManaged(t)
  <2>1. verb \in Buttons \ {"processes"}
    BY <1>1, OfferedOf, GuiAsks DEF Mutates
  <2> QED
    BY <1>1, <2>1, OfferedOf DEF Buttons, ShownManaged
<1>2. ASSUME ShownManaged(t), t.runtime \in {"Stopped", "none"}
      PROVE  ~Offered("stop", t) /\ Offered("remove", t)
  BY <1>2, OfferedOf DEF IsStopped
<1>3. ASSUME ShownManaged(t), t.runtime \in {"Running", "Paused"}
      PROVE  Offered("stop", t) /\ ~Offered("remove", t)
  BY <1>3, OfferedOf DEF IsStopped
<1>4. ShownManaged(t) /\ t.runtime \in {"Stopped", "Running", "Paused", "none"} =>
        Offered("stop", t) # Offered("remove", t)
  BY <1>2, <1>3
<1> QED
  BY <1>1, <1>4, ButtonAccepted DEF Listed

\* Two states never have the same exit code.
LEMMA StatusCodes ==
    ASSUME NEW s \in States, NEW r \in States, StatusCode(s) = StatusCode(r)
    PROVE  s = r
BY DEF StatusCode, ExitCode, States

\* What an answer says of the state.
Told(q) == IF q = "failed" THEN "null" ELSE IF q = "none" THEN "" ELSE q

\* What an answer says of the state, case by case.
LEMMA PostOpStates ==
    ASSUME NEW q
    PROVE  PostOpState(q).state = Told(q)
<1>1. /\ [state |-> "null", warning |-> TRUE].state = "null"
      /\ [state |-> "", warning |-> FALSE].state = ""
      /\ [state |-> q, warning |-> FALSE].state = q
  OBVIOUS
<1>2. q = "failed" => PostOpState(q) = [state |-> "null", warning |-> TRUE]
  BY Zenon DEF PostOpState
<1>3. q = "none" => PostOpState(q) = [state |-> "", warning |-> FALSE]
  BY Zenon DEF PostOpState
<1>4. q \notin {"failed", "none"} => PostOpState(q) = [state |-> q, warning |-> FALSE]
  BY Zenon DEF PostOpState
<1> QED
  BY <1>1, <1>2, <1>3, <1>4, Zenon DEF Told

\* Two states are never answered in the same way.
LEMMA AnswersAlwaysDistinct == AnswersDistinct
<1> SUFFICES ASSUME NEW s \in States \cup {"none", "failed"}, NEW r \in States \cup {"none", "failed"},
                    PostOpState(s) = PostOpState(r)
             PROVE  s = r
  BY StatusCodes DEF AnswersDistinct
<1>1. Told(s) = Told(r)
  BY PostOpStates
<1>2. "null" \notin States /\ "" \notin States
  BY DEF States
<1>3. \A q \in States \cup {"none", "failed"} :
        \/ q = "failed" /\ Told(q) = "null"
        \/ q = "none" /\ Told(q) = ""
        \/ q \in States /\ Told(q) = q
  BY Zenon DEF Told
<1>4. "null" # ""
  OBVIOUS
<1>5. CASE s \in States /\ Told(s) = s
  BY <1>1, <1>2, <1>3, <1>5, Zenon
<1>6. CASE s = "failed" /\ Told(s) = "null"
  BY <1>1, <1>2, <1>3, <1>4, <1>6, Zenon
<1>7. CASE s = "none" /\ Told(s) = ""
  BY <1>1, <1>2, <1>3, <1>4, <1>7, Zenon
<1> QED
  BY <1>3, <1>5, <1>6, <1>7, Zenon

\* THEOREM: whatever command is written, the command line, the broker and the panel
\* ask for the same operation or refuse it whole, no flag is dropped, nothing that is not
\* managed is changed without the override, and an enabled button is accepted (main.rs,
\* handlers.rs, adapter.rs).
THEOREM FrontEndsAlwaysAgree ==
    FrontEndsInit /\ [][FrontEndsNext]_<<verb, flags>> => []FrontEndsAgree
<1>1. CommandType => FrontEndsAgree
  BY CommandWhole, CommandSame, PolicyKept, CommandNeedsForce, ButtonsAlwaysAccepted,
     AnswersAlwaysDistinct DEF FrontEndsAgree
<1> QED
  BY <1>1, CommandTyped, PTL
=============================================================================
