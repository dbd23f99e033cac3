-------------------------- MODULE PauseControlProofs --------------------------
(***************************************************************************)
(* Proofs about Pause and Continue, for any set of processes, requests and *)
(* any pass limit: what each process's suspension count is at every point  *)
(* of change(), that a paused tree is frozen unless a process slipped      *)
(* away, and that the outcome a client is given is the truth.              *)
(***************************************************************************)
EXTENDS PauseControl, TLAPS

PauseOps == {"pass", "scan", "rollback"}
RestoreOps == {"restorePass", "restoreScan", "restored"}
ContinueOps == {"resume", "reclaim"} \cup RestoreOps

\* The job and the thread-local variables of change() have their types, and
\* change() runs only for a supervisor that is running.
JobType ==
    /\ live \subseteq Procs /\ susp \in [Procs -> 0..1] /\ spawners \subseteq Procs
    /\ owned \subseteq Procs

FlagType ==
    /\ slipped \in BOOLEAN /\ gen \in BOOLEAN /\ paused \in BOOLEAN /\ stopping \in BOOLEAN
    /\ added \in BOOLEAN /\ rbfail \in BOOLEAN /\ before \in BOOLEAN

OpType ==
    /\ op \in {"idle", "enter"} \cup PauseOps \cup ContinueOps
    /\ todo \subseteq Procs /\ changed \subseteq Procs /\ undo \subseteq Procs
    /\ passes \in 0..MaxPasses /\ stable \in 0..2
    /\ op \in {"restorePass", "restoreScan"} => stable # 2
    /\ up \in {"running", "failing", "draining", "drained", "ended"}
    /\ op # "idle" => up = "running"

RequestType ==
    /\ phase \in [Requests -> {"Unused", "Queued", "Executing"} \cup Outcomes]
    /\ want \in [Requests -> BOOLEAN] /\ cancelled \in [Requests -> BOOLEAN]
    /\ mailbox \in Seq(Requests)
    /\ req \in Requests \cup {None}
    /\ last \in Requests \cup {None}

\* Which local state each part of change() starts from.
OpInv ==
    /\ op \in {"idle", "enter"} => todo = {} /\ changed = {} /\ undo = {} /\ ~rbfail
    /\ op \in {"pass", "scan", "resume", "restorePass", "restoreScan"} => ~rbfail
    /\ op \in PauseOps => ~paused
    /\ op \in ContinueOps => paused
    /\ ~paused => owned = {}
    /\ op = "resume" => undo \cup changed \subseteq owned /\ undo \cap changed = {}
    /\ op = "reclaim" => undo \subseteq owned

\* The increments of a live process, at each location: pausing it is the set
\* changed that carries one, a rollback has still to take back those of undo,
\* a continue those of undo, a reclaim has given back all but undo; at every
\* other point it is exactly the set owned.  A failed rollback is Degraded.
SuspInv ==
    /\ \A p \in Procs \ live : susp[p] = 0
    /\ (op = "idle" /\ up = "running") \/ op = "enter" \/ op \in RestoreOps =>
         \A p \in live : susp[p] = IF p \in owned THEN 1 ELSE 0
    /\ op \in {"pass", "scan"} => \A p \in live : susp[p] = IF p \in changed THEN 1 ELSE 0
    /\ op = "rollback" => \A p \in live : IF p \in undo THEN susp[p] = 1 ELSE rbfail \/ susp[p] = 0
    /\ op = "resume" => \A p \in live : /\ susp[p] = IF p \in undo THEN 1 ELSE 0
                                        /\ p \in owned => p \in undo \cup changed
    /\ op = "reclaim" => \A p \in live : IF p \in undo \/ p \notin owned
                                         THEN susp[p] = 0 ELSE rbfail \/ susp[p] = 1

\* Some member that is still to be visited has spawned since the snapshot, so
\* this pass will suspend it and be followed by another.
Witnessed == \E s \in spawners \cap todo \cap live : susp[s] = 0

\* Why a pass that suspends nobody is the last: as long as it has suspended
\* nobody, every live process is known (held or still to be visited), or a
\* witness is waiting.  Unless a process slipped, that survives every exit.
FreezeInv ==
    /\ ~slipped /\ paused /\ up = "running" /\ op \in {"idle", "enter"} => live \subseteq owned
    /\ ~slipped /\ op = "scan" /\ ~added => live \subseteq todo \cup changed \/ Witnessed
    /\ ~slipped /\ op = "restoreScan" /\ ~added => live \subseteq todo \cup owned \/ Witnessed
    /\ ~slipped /\ op = "restored" /\ ~rbfail => live \subseteq owned

\* The request protocol: only the latest request is open, the one executed is
\* the one change() works for, and until it is settled the service is where
\* the client left it.
RequestInv ==
    /\ \A r \in Requests : phase[r] \in {"Queued", "Executing"} => r = last
    /\ op # "idle" => req \in Requests /\ phase[req] = "Executing"
    /\ op \in PauseOps => want[req]
    /\ op \in ContinueOps => ~want[req]
    /\ last = None => ~paused
    /\ last # None => phase[last] # "Unused"
    /\ up = "running" /\ last # None =>
         paused = IF phase[last] \in {"Queued", "Executing"} THEN before ELSE Known

IInv == JobType /\ FlagType /\ OpType /\ RequestType /\ OpInv /\ SuspInv /\ FreezeInv /\ RequestInv

\* The processes of the job and the generation they belong to.
ProcessNext ==
    \/ (\E p, q \in Procs : Spawn(p, q))
    \/ (\E p \in Procs : Exit(p))
    \/ StartGeneration
    \/ EndGeneration

\* A process that spawns or exits, and a generation that starts or ends, keep the invariant.
LEMMA ProcessStep == IInv /\ ProcessNext => IInv'
<1> SUFFICES ASSUME IInv, ProcessNext PROVE IInv'
  OBVIOUS
<1>a. JobType /\ FlagType /\ OpType /\ RequestType /\ OpInv /\ SuspInv /\ FreezeInv /\ RequestInv
  BY DEF IInv
<1> USE PauseAssumption DEF PauseOps, ContinueOps, RestoreOps, Outcomes, None
<1>1. ASSUME NEW p \in Procs, NEW q \in Procs, Spawn(p, q) PROVE IInv'
  <2>1. FlagType'
    BY <1>a, <1>1, Zenon DEF Spawn, pausev, reqv, opv, supv, clientv, FlagType
  <2>2. JobType'
    BY <1>a, <1>1 DEF Spawn, pausev, reqv, opv, supv, clientv, JobType, OpType, SuspInv
  <2>3. OpType'
    BY <1>a, <1>1 DEF Spawn, pausev, reqv, opv, supv, clientv, JobType, OpType, RequestType
  <2>4. RequestType'
    BY <1>a, <1>1 DEF Spawn, pausev, reqv, opv, supv, clientv, RequestType, OpInv
  <2>5. OpInv'
    BY <1>a, <1>1 DEF Spawn, pausev, reqv, opv, supv, clientv, JobType, OpType, OpInv,
       RequestType, SuspInv
  <2>6. SuspInv'
    BY <1>a, <1>1 DEF Spawn, pausev, reqv, opv, supv, clientv, JobType, OpType, OpInv, SuspInv
  <2>7. FreezeInv'
    BY <1>a, <1>1 DEF Spawn, pausev, reqv, opv, supv, clientv, JobType, OpType, OpInv, SuspInv,
       FreezeInv, Witnessed
  <2>8. RequestInv'
    BY <1>a, <1>1 DEF Spawn, pausev, reqv, opv, supv, clientv, FlagType, JobType, RequestType,
       OpType, OpInv, RequestInv, Known
  <2> QED
    BY <2>1, <2>2, <2>3, <2>4, <2>5, <2>6, <2>7, <2>8 DEF IInv
<1>2. ASSUME NEW p \in Procs, Exit(p) PROVE IInv'
  <2>1. FlagType'
    BY <1>a, <1>2, Zenon DEF Exit, pausev, reqv, opv, supv, clientv, FlagType
  <2>2. JobType'
    BY <1>a, <1>2 DEF Exit, pausev, reqv, opv, supv, clientv, JobType, OpType, SuspInv
  <2>3. OpType'
    BY <1>a, <1>2 DEF Exit, pausev, reqv, opv, supv, clientv, JobType, OpType, RequestType
  <2>4. RequestType'
    BY <1>a, <1>2 DEF Exit, pausev, reqv, opv, supv, clientv, RequestType, OpInv
  <2>5. OpInv'
    BY <1>a, <1>2 DEF Exit, pausev, reqv, opv, supv, clientv, JobType, OpType, OpInv,
       RequestType, SuspInv
  <2>6. SuspInv'
    BY <1>a, <1>2 DEF Exit, pausev, reqv, opv, supv, clientv, JobType, OpType, OpInv, SuspInv
  <2>7. FreezeInv'
    BY <1>a, <1>2 DEF Exit, pausev, reqv, opv, supv, clientv, JobType, OpType, OpInv, SuspInv,
       FreezeInv, Witnessed
  <2>8. RequestInv'
    BY <1>a, <1>2 DEF Exit, pausev, reqv, opv, supv, clientv, FlagType, JobType, RequestType,
       OpType, OpInv, RequestInv, Known
  <2> QED
    BY <2>1, <2>2, <2>3, <2>4, <2>5, <2>6, <2>7, <2>8 DEF IInv
<1>3. CASE StartGeneration
  <2>1. FlagType'
    BY <1>a, <1>3, Zenon DEF StartGeneration, pausev, reqv, opv, supv, clientv, FlagType
  <2>2. JobType'
    BY <1>a, <1>3 DEF StartGeneration, pausev, reqv, opv, supv, clientv, JobType, OpType,
       SuspInv
  <2>3. OpType'
    BY <1>a, <1>3 DEF StartGeneration, pausev, reqv, opv, supv, clientv, JobType, OpType,
       RequestType
  <2>4. RequestType'
    BY <1>a, <1>3 DEF StartGeneration, pausev, reqv, opv, supv, clientv, RequestType, OpInv
  <2>5. OpInv'
    BY <1>a, <1>3 DEF StartGeneration, pausev, reqv, opv, supv, clientv, JobType, OpType, OpInv,
       RequestType, SuspInv
  <2>6. SuspInv'
    BY <1>a, <1>3 DEF StartGeneration, pausev, reqv, opv, supv, clientv, JobType, OpType, OpInv,
       SuspInv
  <2>7. FreezeInv'
    BY <1>a, <1>3 DEF StartGeneration, pausev, reqv, opv, supv, clientv, JobType, OpType, OpInv,
       SuspInv, FreezeInv, Witnessed
  <2>8. RequestInv'
    BY <1>a, <1>3 DEF StartGeneration, pausev, reqv, opv, supv, clientv, FlagType, JobType,
       RequestType, OpType, OpInv, RequestInv, Known
  <2> QED
    BY <2>1, <2>2, <2>3, <2>4, <2>5, <2>6, <2>7, <2>8 DEF IInv
<1>4. CASE EndGeneration
  <2>1. FlagType'
    BY <1>a, <1>4, Zenon DEF EndGeneration, reqv, opv, clientv, FlagType
  <2>2. JobType'
    BY <1>a, <1>4 DEF EndGeneration, reqv, opv, clientv, JobType, OpType, SuspInv
  <2>3. OpType'
    BY <1>a, <1>4 DEF EndGeneration, reqv, opv, clientv, JobType, OpType, RequestType
  <2>4. RequestType'
    BY <1>a, <1>4 DEF EndGeneration, reqv, opv, clientv, RequestType, OpInv
  <2>5. OpInv'
    BY <1>a, <1>4 DEF EndGeneration, reqv, opv, clientv, JobType, OpType, OpInv, RequestType,
       SuspInv
  <2>6. SuspInv'
    BY <1>a, <1>4 DEF EndGeneration, reqv, opv, clientv, JobType, OpType, OpInv, SuspInv
  <2>7. FreezeInv'
    BY <1>a, <1>4 DEF EndGeneration, reqv, opv, clientv, JobType, OpType, OpInv, SuspInv,
       FreezeInv, Witnessed
  <2>8. RequestInv'
    BY <1>a, <1>4 DEF EndGeneration, reqv, opv, clientv, FlagType, JobType, RequestType, OpType,
       OpInv, RequestInv, Known
  <2> QED
    BY <2>1, <2>2, <2>3, <2>4, <2>5, <2>6, <2>7, <2>8 DEF IInv
<1> QED
  BY <1>1, <1>2, <1>3, <1>4 DEF ProcessNext

\* The requests: asked for, cancelled, taken from the mailbox, rejected at the end.
RequestNext ==
    \/ (\E r \in Requests, b \in BOOLEAN : Request(r, b))
    \/ (\E r \in Requests : Cancel(r))
    \/ RequestStop
    \/ HandleStopping
    \/ HandleExecute
    \/ Drain
    \/ DropSupervisor

\* Whatever becomes of a request outside change(), the invariant is kept.
LEMMA ClientStep == IInv /\ RequestNext => IInv'
<1> SUFFICES ASSUME IInv, RequestNext PROVE IInv'
  OBVIOUS
<1>a. JobType /\ FlagType /\ OpType /\ RequestType /\ OpInv /\ SuspInv /\ FreezeInv /\ RequestInv
  BY DEF IInv
<1> USE PauseAssumption DEF PauseOps, ContinueOps, RestoreOps, Outcomes, None
<1>1. ASSUME NEW r \in Requests, NEW b \in BOOLEAN, Request(r, b) PROVE IInv'
  <2>k. Known \in BOOLEAN
    BY <1>a DEF FlagType, RequestType, Known
  <2>1. FlagType'
    BY <1>a, <1>1, <2>k, Zenon DEF Request, jobv, pausev, opv, supv, FlagType
  <2>2. JobType'
    BY <1>a, <1>1 DEF Request, Settled, Known, jobv, pausev, opv, supv, JobType, OpType, SuspInv
  <2>3. OpType'
    BY <1>a, <1>1 DEF Request, Settled, Known, jobv, pausev, opv, supv, JobType, OpType,
       RequestType
  <2>4. RequestType'
    <3>1. phase' \in [Requests -> {"Unused", "Queued", "Executing"} \cup Outcomes]
      BY <1>a, <1>1 DEF Request, RequestType
    <3>2. mailbox' \in Seq(Requests)
      BY <1>a, <1>1 DEF Request, RequestType
    <3> QED
      BY <3>1, <3>2, <1>a, <1>1 DEF Request, opv, RequestType
  <2>5. OpInv'
    BY <1>a, <1>1 DEF Request, Settled, Known, jobv, pausev, opv, supv, JobType, OpType, OpInv,
       RequestType, SuspInv
  <2>6. SuspInv'
    BY <1>a, <1>1 DEF Request, Settled, Known, jobv, pausev, opv, supv, JobType, OpType, OpInv,
       SuspInv
  <2>7. FreezeInv'
    BY <1>a, <1>1 DEF Request, Settled, Known, jobv, pausev, opv, supv, JobType, OpType, OpInv,
       SuspInv, FreezeInv, Witnessed
  <2>8. RequestInv'
    BY <1>a, <1>1 DEF Request, Settled, Known, jobv, pausev, opv, supv, FlagType, JobType,
       RequestType, OpType, OpInv, RequestInv
  <2> QED
    BY <2>1, <2>2, <2>3, <2>4, <2>5, <2>6, <2>7, <2>8 DEF IInv
<1>2. ASSUME NEW r \in Requests, Cancel(r) PROVE IInv'
  <2>1. FlagType'
    BY <1>a, <1>2, Zenon DEF Cancel, Settled, jobv, pausev, opv, supv, clientv, FlagType
  <2>2. JobType'
    BY <1>a, <1>2 DEF Cancel, Settled, jobv, pausev, opv, supv, clientv, JobType, OpType,
       SuspInv
  <2>3. OpType'
    BY <1>a, <1>2 DEF Cancel, Settled, jobv, pausev, opv, supv, clientv, JobType, OpType,
       RequestType
  <2>4. RequestType'
    BY <1>a, <1>2 DEF Cancel, Settled, jobv, pausev, opv, supv, clientv, RequestType, OpInv
  <2>5. OpInv'
    BY <1>a, <1>2 DEF Cancel, Settled, jobv, pausev, opv, supv, clientv, JobType, OpType, OpInv,
       RequestType, SuspInv
  <2>6. SuspInv'
    BY <1>a, <1>2 DEF Cancel, Settled, jobv, pausev, opv, supv, clientv, JobType, OpType, OpInv,
       SuspInv
  <2>7. FreezeInv'
    BY <1>a, <1>2 DEF Cancel, Settled, jobv, pausev, opv, supv, clientv, JobType, OpType, OpInv,
       SuspInv, FreezeInv, Witnessed
  <2>8. RequestInv'
    BY <1>a, <1>2 DEF Cancel, Settled, jobv, pausev, opv, supv, clientv, FlagType, JobType,
       RequestType, OpType, OpInv, RequestInv, Known
  <2> QED
    BY <2>1, <2>2, <2>3, <2>4, <2>5, <2>6, <2>7, <2>8 DEF IInv
<1>3. CASE RequestStop
  <2>1. FlagType'
    BY <1>a, <1>3, Zenon DEF RequestStop, jobv, pausev, reqv, opv, clientv, FlagType
  <2>2. JobType'
    BY <1>a, <1>3 DEF RequestStop, jobv, pausev, reqv, opv, clientv, JobType, OpType, SuspInv
  <2>3. OpType'
    BY <1>a, <1>3 DEF RequestStop, jobv, pausev, reqv, opv, clientv, JobType, OpType,
       RequestType
  <2>4. RequestType'
    BY <1>a, <1>3 DEF RequestStop, jobv, pausev, reqv, opv, clientv, RequestType, OpInv
  <2>5. OpInv'
    BY <1>a, <1>3 DEF RequestStop, jobv, pausev, reqv, opv, clientv, JobType, OpType, OpInv,
       RequestType, SuspInv
  <2>6. SuspInv'
    BY <1>a, <1>3 DEF RequestStop, jobv, pausev, reqv, opv, clientv, JobType, OpType, OpInv,
       SuspInv
  <2>7. FreezeInv'
    BY <1>a, <1>3 DEF RequestStop, jobv, pausev, reqv, opv, clientv, JobType, OpType, OpInv,
       SuspInv, FreezeInv, Witnessed
  <2>8. RequestInv'
    BY <1>a, <1>3 DEF RequestStop, jobv, pausev, reqv, opv, clientv, FlagType, JobType,
       RequestType, OpType, OpInv, RequestInv, Known
  <2> QED
    BY <2>1, <2>2, <2>3, <2>4, <2>5, <2>6, <2>7, <2>8 DEF IInv
<1>4. CASE HandleStopping
  <2>1. FlagType'
    BY <1>a, <1>4, Zenon DEF HandleStopping, Begin, jobv, pausev, opv, supv, clientv, FlagType
  <2>2. JobType'
    BY <1>a, <1>4 DEF HandleStopping, Begin, jobv, pausev, opv, supv, clientv, JobType, OpType,
       SuspInv
  <2>3. OpType'
    BY <1>a, <1>4 DEF HandleStopping, Begin, jobv, pausev, opv, supv, clientv, JobType, OpType,
       RequestType
  <2>4. RequestType'
    BY <1>a, <1>4 DEF HandleStopping, Begin, jobv, pausev, opv, supv, clientv, RequestType,
       OpInv
  <2>5. OpInv'
    BY <1>a, <1>4 DEF HandleStopping, Begin, jobv, pausev, opv, supv, clientv, JobType, OpType,
       OpInv, RequestType, SuspInv
  <2>6. SuspInv'
    BY <1>a, <1>4 DEF HandleStopping, Begin, jobv, pausev, opv, supv, clientv, JobType, OpType,
       OpInv, SuspInv
  <2>7. FreezeInv'
    BY <1>a, <1>4 DEF HandleStopping, Begin, jobv, pausev, opv, supv, clientv, JobType, OpType,
       OpInv, SuspInv, FreezeInv, Witnessed
  <2>8. RequestInv'
    <3>1. PICK s \in Requests :
            /\ phase' = IF phase[s] = "Queued" THEN [phase EXCEPT ![s] = "Cancelled"] ELSE phase
            /\ UNCHANGED <<jobv, pausev, want, opv, supv, clientv>> /\ op = "idle"
      BY <1>4 DEF HandleStopping, Begin
    <3> QED
      BY <1>a, <3>1 DEF jobv, pausev, opv, supv, clientv, FlagType, RequestType, OpType,
         RequestInv, Known
  <2> QED
    BY <2>1, <2>2, <2>3, <2>4, <2>5, <2>6, <2>7, <2>8 DEF IInv
<1>5. CASE HandleExecute
  <2>1. FlagType'
    BY <1>a, <1>5, Zenon DEF HandleExecute, Begin, jobv, pausev, supv, clientv, FlagType
  <2>2. JobType'
    BY <1>a, <1>5 DEF HandleExecute, Begin, jobv, pausev, supv, clientv, JobType, OpType,
       SuspInv
  <2>3. OpType'
    BY <1>a, <1>5 DEF HandleExecute, Begin, jobv, pausev, supv, clientv, JobType, OpType,
       RequestType
  <2>4. RequestType'
    BY <1>a, <1>5 DEF HandleExecute, Begin, jobv, pausev, supv, clientv, RequestType, OpInv
  <2>5. OpInv'
    BY <1>a, <1>5 DEF HandleExecute, Begin, jobv, pausev, supv, clientv, JobType, OpType, OpInv,
       RequestType, SuspInv
  <2>6. SuspInv'
    BY <1>a, <1>5 DEF HandleExecute, Begin, jobv, pausev, supv, clientv, JobType, OpType, OpInv,
       SuspInv
  <2>7. FreezeInv'
    BY <1>a, <1>5 DEF HandleExecute, Begin, jobv, pausev, supv, clientv, JobType, OpType, OpInv,
       SuspInv, FreezeInv, Witnessed
  <2>8. RequestInv'
    <3>1. PICK s \in Requests :
            /\ op = "idle"
            /\ UNCHANGED <<jobv, pausev, want, supv, clientv>>
            /\ \/ UNCHANGED <<phase, op, req>>
               \/ /\ phase[s] = "Queued" /\ phase' = [phase EXCEPT ![s] = "Executing"]
                  /\ op' = "enter" /\ req' = s
      BY <1>5 DEF HandleExecute, Begin
    <3>2. CASE UNCHANGED <<phase, op, req>>
      BY <1>a, <3>1, <3>2 DEF pausev, supv, clientv, RequestInv, Known
    <3>3. CASE phase[s] = "Queued" /\ phase' = [phase EXCEPT ![s] = "Executing"] /\ op' = "enter" /\ req' = s
      BY <1>a, <3>1, <3>3 DEF pausev, supv, clientv, RequestType, RequestInv, Known
    <3> QED
      BY <3>1, <3>2, <3>3
  <2> QED
    BY <2>1, <2>2, <2>3, <2>4, <2>5, <2>6, <2>7, <2>8 DEF IInv
<1>6. CASE Drain
  <2>1. FlagType'
    BY <1>a, <1>6, Zenon DEF Drain, jobv, pausev, opv, clientv, FlagType
  <2>2. JobType'
    BY <1>a, <1>6 DEF Drain, jobv, pausev, opv, clientv, JobType, OpType, SuspInv
  <2>3. OpType'
    BY <1>a, <1>6 DEF Drain, jobv, pausev, opv, clientv, JobType, OpType, RequestType
  <2>4. RequestType'
    BY <1>a, <1>6 DEF Drain, jobv, pausev, opv, clientv, RequestType, OpInv
  <2>5. OpInv'
    BY <1>a, <1>6 DEF Drain, jobv, pausev, opv, clientv, JobType, OpType, OpInv, RequestType,
       SuspInv
  <2>6. SuspInv'
    BY <1>a, <1>6 DEF Drain, jobv, pausev, opv, clientv, JobType, OpType, OpInv, SuspInv
  <2>7. FreezeInv'
    BY <1>a, <1>6 DEF Drain, jobv, pausev, opv, clientv, JobType, OpType, OpInv, SuspInv,
       FreezeInv, Witnessed
  <2>8. RequestInv'
    BY <1>a, <1>6 DEF Drain, jobv, pausev, opv, clientv, FlagType, JobType, RequestType, OpType,
       OpInv, RequestInv, Known
  <2> QED
    BY <2>1, <2>2, <2>3, <2>4, <2>5, <2>6, <2>7, <2>8 DEF IInv
<1>7. CASE DropSupervisor
  <2>1. FlagType'
    BY <1>a, <1>7, Zenon DEF DropSupervisor, jobv, pausev, opv, clientv, FlagType
  <2>2. JobType'
    BY <1>a, <1>7 DEF DropSupervisor, jobv, pausev, opv, clientv, JobType, OpType, SuspInv
  <2>3. OpType'
    BY <1>a, <1>7 DEF DropSupervisor, jobv, pausev, opv, clientv, JobType, OpType, RequestType
  <2>4. RequestType'
    BY <1>a, <1>7 DEF DropSupervisor, jobv, pausev, opv, clientv, RequestType, OpInv
  <2>5. OpInv'
    BY <1>a, <1>7 DEF DropSupervisor, jobv, pausev, opv, clientv, JobType, OpType, OpInv,
       RequestType, SuspInv
  <2>6. SuspInv'
    BY <1>a, <1>7 DEF DropSupervisor, jobv, pausev, opv, clientv, JobType, OpType, OpInv,
       SuspInv
  <2>7. FreezeInv'
    BY <1>a, <1>7 DEF DropSupervisor, jobv, pausev, opv, clientv, JobType, OpType, OpInv,
       SuspInv, FreezeInv, Witnessed
  <2>8. RequestInv'
    BY <1>a, <1>7 DEF DropSupervisor, jobv, pausev, opv, clientv, FlagType, JobType,
       RequestType, OpType, OpInv, RequestInv, Known
  <2> QED
    BY <2>1, <2>2, <2>3, <2>4, <2>5, <2>6, <2>7, <2>8 DEF IInv
<1> QED
  BY <1>1, <1>2, <1>3, <1>4, <1>5, <1>6, <1>7 DEF RequestNext

\* change(true) and its rollback.
PauseNext ==
    \/ EnterChange
    \/ PausePass
    \/ (\E m \in Procs : PauseMember(m))
    \/ PauseNextPass
    \/ PauseStable
    \/ (\E m \in Procs : Rollback(m))
    \/ RollbackDone

\* Every step of change(true), undoing it included, keeps the invariant.
LEMMA PauseStep == IInv /\ PauseNext => IInv'
<1> SUFFICES ASSUME IInv, PauseNext PROVE IInv'
  OBVIOUS
<1>a. JobType /\ FlagType /\ OpType /\ RequestType /\ OpInv /\ SuspInv /\ FreezeInv /\ RequestInv
  BY DEF IInv
<1> USE PauseAssumption DEF PauseOps, ContinueOps, RestoreOps, Outcomes, None
<1>1. CASE EnterChange
  <2>1. FlagType'
    BY <1>a, <1>1, Zenon DEF EnterChange, Finish, Interrupted, jobv, pausev, reqv, supv,
       clientv, FlagType
  <2>2. JobType'
    BY <1>a, <1>1 DEF EnterChange, Finish, Interrupted, jobv, pausev, reqv, supv, clientv,
       JobType, OpType, SuspInv
  <2>3. OpType'
    BY <1>a, <1>1 DEF EnterChange, Finish, Interrupted, jobv, pausev, reqv, supv, clientv,
       JobType, OpType, RequestType
  <2>4. RequestType'
    BY <1>a, <1>1 DEF EnterChange, Finish, Interrupted, jobv, pausev, reqv, supv, clientv,
       RequestType, OpInv
  <2>5. OpInv'
    <3>1. req \in Requests /\ want[req] \in BOOLEAN /\ paused \in BOOLEAN /\ op = "enter"
      BY <1>a, <1>1 DEF EnterChange, RequestInv, RequestType, FlagType
    <3> QED
      BY <1>a, <1>1, <3>1 DEF EnterChange, Finish, pausev, OpInv
  <2>6. SuspInv'
    BY <1>a, <1>1 DEF EnterChange, Finish, Interrupted, jobv, pausev, reqv, supv, clientv,
       JobType, OpType, OpInv, SuspInv
  <2>7. FreezeInv'
    BY <1>a, <1>1 DEF EnterChange, Finish, Interrupted, jobv, pausev, reqv, supv, clientv,
       JobType, OpType, OpInv, SuspInv, FreezeInv, Witnessed
  <2>8. RequestInv'
    <3>1. req \in Requests /\ phase[req] = "Executing" /\ req = last /\ op = "enter"
      BY <1>a, <1>1 DEF EnterChange, RequestInv
    <3>2. CASE Interrupted /\ Finish("Cancelled")
      BY <1>a, <1>1, <3>1, <3>2 DEF EnterChange, pausev, Finish, clientv, RequestType, RequestInv, Known
    <3>3. CASE paused = want[req] /\ Finish("Applied")
      BY <1>a, <1>1, <3>1, <3>3 DEF EnterChange, pausev, Finish, clientv, RequestType, RequestInv, Known
    <3>4. CASE /\ paused # want[req]
               /\ op' = IF want[req] THEN "pass" ELSE "resume"
               /\ UNCHANGED <<reqv, req, supv, clientv>>
      BY <1>a, <1>1, <3>1, <3>4 DEF EnterChange, pausev, reqv, supv, clientv, FlagType, RequestType, RequestInv, Known
    <3> QED
      BY <1>1, <3>2, <3>3, <3>4 DEF EnterChange
  <2> QED
    BY <2>1, <2>2, <2>3, <2>4, <2>5, <2>6, <2>7, <2>8 DEF IInv
<1>2. CASE PausePass
  <2>1. FlagType'
    BY <1>a, <1>2, Zenon DEF PausePass, Interrupted, PauseFails, PassLeft, pausev, reqv, supv,
       clientv, FlagType
  <2>2. JobType'
    BY <1>a, <1>2 DEF PausePass, Interrupted, PauseFails, PassLeft, pausev, reqv, supv, clientv,
       JobType, OpType, SuspInv
  <2>3. OpType'
    BY <1>a, <1>2 DEF PausePass, Interrupted, PauseFails, PassLeft, pausev, reqv, supv, clientv,
       JobType, OpType, RequestType
  <2>4. RequestType'
    BY <1>a, <1>2 DEF PausePass, Interrupted, PauseFails, PassLeft, pausev, reqv, supv, clientv,
       RequestType, OpInv
  <2>5. OpInv'
    BY <1>a, <1>2 DEF PausePass, Interrupted, PauseFails, PassLeft, pausev, reqv, supv, clientv,
       JobType, OpType, OpInv, RequestType, SuspInv
  <2>6. SuspInv'
    BY <1>a, <1>2 DEF PausePass, Interrupted, PauseFails, PassLeft, pausev, reqv, supv, clientv,
       JobType, OpType, OpInv, SuspInv
  <2>7. FreezeInv'
    BY <1>a, <1>2 DEF PausePass, Interrupted, PauseFails, PassLeft, pausev, reqv, supv, clientv,
       JobType, OpType, OpInv, SuspInv, FreezeInv, Witnessed
  <2>8. RequestInv'
    BY <1>a, <1>2 DEF PausePass, Interrupted, PauseFails, PassLeft, pausev, reqv, supv, clientv,
       FlagType, JobType, RequestType, OpType, OpInv, RequestInv, Known
  <2> QED
    BY <2>1, <2>2, <2>3, <2>4, <2>5, <2>6, <2>7, <2>8 DEF IInv
<1>3. ASSUME NEW m \in Procs, PauseMember(m) PROVE IInv'
  <2>1. FlagType'
    BY <1>a, <1>3, Zenon DEF PauseMember, Interrupted, PauseFails, pausev, reqv, supv, clientv,
       FlagType
  <2>2. JobType'
    BY <1>a, <1>3 DEF PauseMember, Interrupted, PauseFails, pausev, reqv, supv, clientv,
       JobType, OpType, SuspInv
  <2>3. OpType'
    BY <1>a, <1>3 DEF PauseMember, Interrupted, PauseFails, pausev, reqv, supv, clientv,
       JobType, OpType, RequestType
  <2>4. RequestType'
    BY <1>a, <1>3 DEF PauseMember, Interrupted, PauseFails, pausev, reqv, supv, clientv,
       RequestType, OpInv
  <2>5. OpInv'
    BY <1>a, <1>3 DEF PauseMember, Interrupted, PauseFails, pausev, reqv, supv, clientv,
       JobType, OpType, OpInv, RequestType, SuspInv
  <2>6. SuspInv'
    BY <1>a, <1>3 DEF PauseMember, Interrupted, PauseFails, pausev, reqv, supv, clientv,
       JobType, OpType, OpInv, SuspInv
  <2>7. FreezeInv'
    BY <1>a, <1>3 DEF PauseMember, Interrupted, PauseFails, pausev, reqv, supv, clientv,
       JobType, OpType, OpInv, SuspInv, FreezeInv, Witnessed
  <2>8. RequestInv'
    BY <1>a, <1>3 DEF PauseMember, Interrupted, PauseFails, pausev, reqv, supv, clientv,
       FlagType, JobType, RequestType, OpType, OpInv, RequestInv, Known
  <2> QED
    BY <2>1, <2>2, <2>3, <2>4, <2>5, <2>6, <2>7, <2>8 DEF IInv
<1>4. CASE PauseNextPass
  <2>1. FlagType'
    BY <1>a, <1>4, Zenon DEF PauseNextPass, NeedsAnotherPass, jobv, pausev, reqv, supv, clientv,
       FlagType
  <2>2. JobType'
    BY <1>a, <1>4 DEF PauseNextPass, NeedsAnotherPass, jobv, pausev, reqv, supv, clientv,
       JobType, OpType, SuspInv
  <2>3. OpType'
    BY <1>a, <1>4 DEF PauseNextPass, NeedsAnotherPass, jobv, pausev, reqv, supv, clientv,
       JobType, OpType, RequestType
  <2>4. RequestType'
    BY <1>a, <1>4 DEF PauseNextPass, NeedsAnotherPass, jobv, pausev, reqv, supv, clientv,
       RequestType, OpInv
  <2>5. OpInv'
    BY <1>a, <1>4 DEF PauseNextPass, NeedsAnotherPass, jobv, pausev, reqv, supv, clientv,
       JobType, OpType, OpInv, RequestType, SuspInv
  <2>6. SuspInv'
    BY <1>a, <1>4 DEF PauseNextPass, NeedsAnotherPass, jobv, pausev, reqv, supv, clientv,
       JobType, OpType, OpInv, SuspInv
  <2>7. FreezeInv'
    BY <1>a, <1>4 DEF PauseNextPass, NeedsAnotherPass, jobv, pausev, reqv, supv, clientv,
       JobType, OpType, OpInv, SuspInv, FreezeInv, Witnessed
  <2>8. RequestInv'
    BY <1>a, <1>4 DEF PauseNextPass, NeedsAnotherPass, jobv, pausev, reqv, supv, clientv,
       FlagType, JobType, RequestType, OpType, OpInv, RequestInv, Known
  <2> QED
    BY <2>1, <2>2, <2>3, <2>4, <2>5, <2>6, <2>7, <2>8 DEF IInv
<1>5. CASE PauseStable
  <2>1. FlagType'
    BY <1>a, <1>5, Zenon DEF PauseStable, Finish, Interrupted, NeedsAnotherPass, jobv, pausev,
       reqv, supv, clientv, FlagType
  <2>2. JobType'
    BY <1>a, <1>5 DEF PauseStable, Finish, Interrupted, NeedsAnotherPass, jobv, pausev, reqv,
       supv, clientv, JobType, OpType, SuspInv
  <2>3. OpType'
    BY <1>a, <1>5 DEF PauseStable, Finish, Interrupted, NeedsAnotherPass, jobv, pausev, reqv,
       supv, clientv, JobType, OpType, RequestType
  <2>4. RequestType'
    BY <1>a, <1>5 DEF PauseStable, Finish, Interrupted, NeedsAnotherPass, jobv, pausev, reqv,
       supv, clientv, RequestType, OpInv
  <2>5. OpInv'
    BY <1>a, <1>5 DEF PauseStable, Finish, Interrupted, NeedsAnotherPass, jobv, pausev, reqv,
       supv, clientv, JobType, OpType, OpInv, RequestType, SuspInv
  <2>6. SuspInv'
    BY <1>a, <1>5 DEF PauseStable, Finish, Interrupted, NeedsAnotherPass, jobv, pausev, reqv,
       supv, clientv, JobType, OpType, OpInv, SuspInv
  <2>7. FreezeInv'
    BY <1>a, <1>5 DEF PauseStable, Finish, Interrupted, NeedsAnotherPass, jobv, pausev, reqv,
       supv, clientv, JobType, OpType, OpInv, SuspInv, FreezeInv, Witnessed
  <2>8. RequestInv'
    BY <1>a, <1>5 DEF PauseStable, Finish, Interrupted, NeedsAnotherPass, jobv, pausev, reqv,
       supv, clientv, FlagType, JobType, RequestType, OpType, OpInv, RequestInv, Known
  <2> QED
    BY <2>1, <2>2, <2>3, <2>4, <2>5, <2>6, <2>7, <2>8 DEF IInv
<1>6. ASSUME NEW m \in Procs, Rollback(m) PROVE IInv'
  <2>1. FlagType'
    BY <1>a, <1>6, Zenon DEF Rollback, pausev, reqv, supv, clientv, FlagType
  <2>2. JobType'
    BY <1>a, <1>6 DEF Rollback, pausev, reqv, supv, clientv, JobType, OpType, SuspInv
  <2>3. OpType'
    BY <1>a, <1>6 DEF Rollback, pausev, reqv, supv, clientv, JobType, OpType, RequestType
  <2>4. RequestType'
    BY <1>a, <1>6 DEF Rollback, pausev, reqv, supv, clientv, RequestType, OpInv
  <2>5. OpInv'
    BY <1>a, <1>6 DEF Rollback, pausev, reqv, supv, clientv, JobType, OpType, OpInv,
       RequestType, SuspInv
  <2>6. SuspInv'
    BY <1>a, <1>6 DEF Rollback, pausev, reqv, supv, clientv, JobType, OpType, OpInv, SuspInv
  <2>7. FreezeInv'
    BY <1>a, <1>6 DEF Rollback, pausev, reqv, supv, clientv, JobType, OpType, OpInv, SuspInv,
       FreezeInv, Witnessed
  <2>8. RequestInv'
    BY <1>a, <1>6 DEF Rollback, pausev, reqv, supv, clientv, FlagType, JobType, RequestType,
       OpType, OpInv, RequestInv, Known
  <2> QED
    BY <2>1, <2>2, <2>3, <2>4, <2>5, <2>6, <2>7, <2>8 DEF IInv
<1>7. CASE RollbackDone
  <2>1. FlagType'
    BY <1>a, <1>7, Zenon DEF RollbackDone, Finish, FailureOutcome, Interrupted, jobv, pausev,
       clientv, FlagType
  <2>2. JobType'
    BY <1>a, <1>7 DEF RollbackDone, Finish, FailureOutcome, Interrupted, jobv, pausev, clientv,
       JobType, OpType, SuspInv
  <2>3. OpType'
    BY <1>a, <1>7 DEF RollbackDone, Finish, FailureOutcome, Interrupted, jobv, pausev, clientv,
       JobType, OpType, RequestType
  <2>4. RequestType'
    BY <1>a, <1>7 DEF RollbackDone, Finish, FailureOutcome, Interrupted, jobv, pausev, clientv,
       RequestType, OpInv
  <2>5. OpInv'
    BY <1>a, <1>7 DEF RollbackDone, Finish, FailureOutcome, Interrupted, jobv, pausev, clientv,
       JobType, OpType, OpInv, RequestType, SuspInv
  <2>6. SuspInv'
    BY <1>a, <1>7 DEF RollbackDone, Finish, FailureOutcome, Interrupted, jobv, pausev, clientv,
       JobType, OpType, OpInv, SuspInv
  <2>7. FreezeInv'
    BY <1>a, <1>7 DEF RollbackDone, Finish, FailureOutcome, Interrupted, jobv, pausev, clientv,
       JobType, OpType, OpInv, SuspInv, FreezeInv, Witnessed
  <2>8. RequestInv'
    BY <1>a, <1>7 DEF RollbackDone, Finish, FailureOutcome, Interrupted, jobv, pausev, clientv,
       FlagType, JobType, RequestType, OpType, OpInv, RequestInv, Known
  <2> QED
    BY <2>1, <2>2, <2>3, <2>4, <2>5, <2>6, <2>7, <2>8 DEF IInv
<1> QED
  BY <1>1, <1>2, <1>3, <1>4, <1>5, <1>6, <1>7 DEF PauseNext

\* change(false), and its way back to paused.
ContinueNext ==
    \/ (\E m \in Procs : ResumeMember(m))
    \/ ResumeDone
    \/ (\E m \in Procs : Reclaim(m))
    \/ ReclaimDone
    \/ RestorePass
    \/ (\E m \in Procs : RestoreMember(m))
    \/ RestoreEndPass
    \/ RestoreDone

\* Every step of change(false), the return to paused included, keeps the invariant.
LEMMA ContinueStep == IInv /\ ContinueNext => IInv'
<1> SUFFICES ASSUME IInv, ContinueNext PROVE IInv'
  OBVIOUS
<1>a. JobType /\ FlagType /\ OpType /\ RequestType /\ OpInv /\ SuspInv /\ FreezeInv /\ RequestInv
  BY DEF IInv
<1> USE PauseAssumption DEF PauseOps, ContinueOps, RestoreOps, Outcomes, None
<1>1. ASSUME NEW m \in Procs, ResumeMember(m) PROVE IInv'
  <2>1. FlagType'
    BY <1>a, <1>1, Zenon DEF ResumeMember, Interrupted, ResumeFails, pausev, reqv, supv,
       clientv, FlagType
  <2>2. JobType'
    BY <1>a, <1>1 DEF ResumeMember, Interrupted, ResumeFails, pausev, reqv, supv, clientv,
       JobType, OpType, SuspInv
  <2>3. OpType'
    BY <1>a, <1>1 DEF ResumeMember, Interrupted, ResumeFails, pausev, reqv, supv, clientv,
       JobType, OpType, RequestType
  <2>4. RequestType'
    BY <1>a, <1>1 DEF ResumeMember, Interrupted, ResumeFails, pausev, reqv, supv, clientv,
       RequestType, OpInv
  <2>5. OpInv'
    BY <1>a, <1>1 DEF ResumeMember, Interrupted, ResumeFails, pausev, reqv, supv, clientv,
       JobType, OpType, OpInv, RequestType, SuspInv
  <2>6. SuspInv'
    BY <1>a, <1>1 DEF ResumeMember, Interrupted, ResumeFails, pausev, reqv, supv, clientv,
       JobType, OpType, OpInv, SuspInv
  <2>7. FreezeInv'
    BY <1>a, <1>1 DEF ResumeMember, Interrupted, ResumeFails, pausev, reqv, supv, clientv,
       JobType, OpType, OpInv, SuspInv, FreezeInv, Witnessed
  <2>8. RequestInv'
    BY <1>a, <1>1 DEF ResumeMember, Interrupted, ResumeFails, pausev, reqv, supv, clientv,
       FlagType, JobType, RequestType, OpType, OpInv, RequestInv, Known
  <2> QED
    BY <2>1, <2>2, <2>3, <2>4, <2>5, <2>6, <2>7, <2>8 DEF IInv
<1>2. CASE ResumeDone
  <2>1. FlagType'
    BY <1>a, <1>2, Zenon DEF ResumeDone, Finish, Interrupted, jobv, pausev, reqv, supv, clientv,
       FlagType
  <2>2. JobType'
    BY <1>a, <1>2 DEF ResumeDone, Finish, Interrupted, jobv, pausev, reqv, supv, clientv,
       JobType, OpType, SuspInv
  <2>3. OpType'
    BY <1>a, <1>2 DEF ResumeDone, Finish, Interrupted, jobv, pausev, reqv, supv, clientv,
       JobType, OpType, RequestType
  <2>4. RequestType'
    BY <1>a, <1>2 DEF ResumeDone, Finish, Interrupted, jobv, pausev, reqv, supv, clientv,
       RequestType, OpInv
  <2>5. OpInv'
    BY <1>a, <1>2 DEF ResumeDone, Finish, Interrupted, jobv, pausev, reqv, supv, clientv,
       JobType, OpType, OpInv, RequestType, SuspInv
  <2>6. SuspInv'
    BY <1>a, <1>2 DEF ResumeDone, Finish, Interrupted, jobv, pausev, reqv, supv, clientv,
       JobType, OpType, OpInv, SuspInv
  <2>7. FreezeInv'
    BY <1>a, <1>2 DEF ResumeDone, Finish, Interrupted, jobv, pausev, reqv, supv, clientv,
       JobType, OpType, OpInv, SuspInv, FreezeInv, Witnessed
  <2>8. RequestInv'
    <3>1. req \in Requests /\ phase[req] = "Executing" /\ req = last /\ ~want[req] /\ op = "resume"
      BY <1>a, <1>2 DEF ResumeDone, RequestInv
    <3>2. CASE paused' = FALSE /\ Finish("Applied")
      BY <1>a, <3>1, <3>2 DEF Finish, clientv, RequestType, RequestInv, Known
    <3>3. CASE op' = "reclaim" /\ UNCHANGED <<pausev, reqv, req, up, clientv>>
      BY <1>a, <3>1, <3>3 DEF pausev, reqv, clientv, RequestInv, Known
    <3> QED
      BY <1>2, <3>2, <3>3 DEF ResumeDone, supv
  <2> QED
    BY <2>1, <2>2, <2>3, <2>4, <2>5, <2>6, <2>7, <2>8 DEF IInv
<1>3. ASSUME NEW m \in Procs, Reclaim(m) PROVE IInv'
  <2>1. FlagType'
    BY <1>a, <1>3, Zenon DEF Reclaim, pausev, reqv, supv, clientv, FlagType
  <2>2. JobType'
    BY <1>a, <1>3 DEF Reclaim, pausev, reqv, supv, clientv, JobType, OpType, SuspInv
  <2>3. OpType'
    BY <1>a, <1>3 DEF Reclaim, pausev, reqv, supv, clientv, JobType, OpType, RequestType
  <2>4. RequestType'
    BY <1>a, <1>3 DEF Reclaim, pausev, reqv, supv, clientv, RequestType, OpInv
  <2>5. OpInv'
    BY <1>a, <1>3 DEF Reclaim, pausev, reqv, supv, clientv, JobType, OpType, OpInv, RequestType,
       SuspInv
  <2>6. SuspInv'
    BY <1>a, <1>3 DEF Reclaim, pausev, reqv, supv, clientv, JobType, OpType, OpInv, SuspInv
  <2>7. FreezeInv'
    BY <1>a, <1>3 DEF Reclaim, pausev, reqv, supv, clientv, JobType, OpType, OpInv, SuspInv,
       FreezeInv, Witnessed
  <2>8. RequestInv'
    BY <1>a, <1>3 DEF Reclaim, pausev, reqv, supv, clientv, FlagType, JobType, RequestType,
       OpType, OpInv, RequestInv, Known
  <2> QED
    BY <2>1, <2>2, <2>3, <2>4, <2>5, <2>6, <2>7, <2>8 DEF IInv
<1>4. CASE ReclaimDone
  <2>1. FlagType'
    BY <1>a, <1>4, Zenon DEF ReclaimDone, Finish, FailureOutcome, Interrupted, jobv, pausev,
       reqv, supv, clientv, FlagType
  <2>2. JobType'
    BY <1>a, <1>4 DEF ReclaimDone, Finish, FailureOutcome, Interrupted, jobv, pausev, reqv,
       supv, clientv, JobType, OpType, SuspInv
  <2>3. OpType'
    BY <1>a, <1>4 DEF ReclaimDone, Finish, FailureOutcome, Interrupted, jobv, pausev, reqv,
       supv, clientv, JobType, OpType, RequestType
  <2>4. RequestType'
    BY <1>a, <1>4 DEF ReclaimDone, Finish, FailureOutcome, Interrupted, jobv, pausev, reqv,
       supv, clientv, RequestType, OpInv
  <2>5. OpInv'
    BY <1>a, <1>4 DEF ReclaimDone, Finish, FailureOutcome, Interrupted, jobv, pausev, reqv,
       supv, clientv, JobType, OpType, OpInv, RequestType, SuspInv
  <2>6. SuspInv'
    BY <1>a, <1>4 DEF ReclaimDone, Finish, FailureOutcome, Interrupted, jobv, pausev, reqv,
       supv, clientv, JobType, OpType, OpInv, SuspInv
  <2>7. FreezeInv'
    BY <1>a, <1>4 DEF ReclaimDone, Finish, FailureOutcome, Interrupted, jobv, pausev, reqv,
       supv, clientv, JobType, OpType, OpInv, SuspInv, FreezeInv, Witnessed
  <2>8. RequestInv'
    BY <1>a, <1>4 DEF ReclaimDone, Finish, FailureOutcome, Interrupted, jobv, pausev, reqv,
       supv, clientv, FlagType, JobType, RequestType, OpType, OpInv, RequestInv, Known
  <2> QED
    BY <2>1, <2>2, <2>3, <2>4, <2>5, <2>6, <2>7, <2>8 DEF IInv
<1>5. CASE RestorePass
  <2>1. FlagType'
    BY <1>a, <1>5, Zenon DEF RestorePass, PassLeft, pausev, reqv, supv, clientv, FlagType
  <2>2. JobType'
    BY <1>a, <1>5 DEF RestorePass, PassLeft, pausev, reqv, supv, clientv, JobType, OpType,
       SuspInv
  <2>3. OpType'
    BY <1>a, <1>5 DEF RestorePass, PassLeft, pausev, reqv, supv, clientv, JobType, OpType,
       RequestType
  <2>4. RequestType'
    BY <1>a, <1>5 DEF RestorePass, PassLeft, pausev, reqv, supv, clientv, RequestType, OpInv
  <2>5. OpInv'
    BY <1>a, <1>5 DEF RestorePass, PassLeft, pausev, reqv, supv, clientv, JobType, OpType,
       OpInv, RequestType, SuspInv
  <2>6. SuspInv'
    BY <1>a, <1>5 DEF RestorePass, PassLeft, pausev, reqv, supv, clientv, JobType, OpType,
       OpInv, SuspInv
  <2>7. FreezeInv'
    BY <1>a, <1>5 DEF RestorePass, PassLeft, pausev, reqv, supv, clientv, JobType, OpType,
       OpInv, SuspInv, FreezeInv, Witnessed
  <2>8. RequestInv'
    BY <1>a, <1>5 DEF RestorePass, PassLeft, pausev, reqv, supv, clientv, FlagType, JobType,
       RequestType, OpType, OpInv, RequestInv, Known
  <2> QED
    BY <2>1, <2>2, <2>3, <2>4, <2>5, <2>6, <2>7, <2>8 DEF IInv
<1>6. ASSUME NEW m \in Procs, RestoreMember(m) PROVE IInv'
  <2>1. FlagType'
    BY <1>a, <1>6, Zenon DEF RestoreMember, reqv, supv, clientv, FlagType
  <2>2. JobType'
    BY <1>a, <1>6 DEF RestoreMember, reqv, supv, clientv, JobType, OpType, SuspInv
  <2>3. OpType'
    BY <1>a, <1>6 DEF RestoreMember, reqv, supv, clientv, JobType, OpType, RequestType
  <2>4. RequestType'
    BY <1>a, <1>6 DEF RestoreMember, reqv, supv, clientv, RequestType, OpInv
  <2>5. OpInv'
    BY <1>a, <1>6 DEF RestoreMember, reqv, supv, clientv, JobType, OpType, OpInv, RequestType,
       SuspInv
  <2>6. SuspInv'
    BY <1>a, <1>6 DEF RestoreMember, reqv, supv, clientv, JobType, OpType, OpInv, SuspInv
  <2>7. FreezeInv'
    BY <1>a, <1>6 DEF RestoreMember, reqv, supv, clientv, JobType, OpType, OpInv, SuspInv,
       FreezeInv, Witnessed
  <2>8. RequestInv'
    BY <1>a, <1>6 DEF RestoreMember, reqv, supv, clientv, FlagType, JobType, RequestType,
       OpType, OpInv, RequestInv, Known
  <2> QED
    BY <2>1, <2>2, <2>3, <2>4, <2>5, <2>6, <2>7, <2>8 DEF IInv
<1>7. CASE RestoreEndPass
  <2>1. FlagType'
    BY <1>a, <1>7, Zenon DEF RestoreEndPass, jobv, pausev, reqv, supv, clientv, FlagType
  <2>2. JobType'
    BY <1>a, <1>7 DEF RestoreEndPass, jobv, pausev, reqv, supv, clientv, JobType, OpType,
       SuspInv
  <2>3. OpType'
    BY <1>a, <1>7 DEF RestoreEndPass, jobv, pausev, reqv, supv, clientv, JobType, OpType,
       RequestType
  <2>4. RequestType'
    BY <1>a, <1>7 DEF RestoreEndPass, jobv, pausev, reqv, supv, clientv, RequestType, OpInv
  <2>5. OpInv'
    BY <1>a, <1>7 DEF RestoreEndPass, jobv, pausev, reqv, supv, clientv, JobType, OpType, OpInv,
       RequestType, SuspInv
  <2>6. SuspInv'
    BY <1>a, <1>7 DEF RestoreEndPass, jobv, pausev, reqv, supv, clientv, JobType, OpType, OpInv,
       SuspInv
  <2>7. FreezeInv'
    BY <1>a, <1>7 DEF RestoreEndPass, jobv, pausev, reqv, supv, clientv, JobType, OpType, OpInv,
       SuspInv, FreezeInv, Witnessed
  <2>8. RequestInv'
    BY <1>a, <1>7 DEF RestoreEndPass, jobv, pausev, reqv, supv, clientv, FlagType, JobType,
       RequestType, OpType, OpInv, RequestInv, Known
  <2> QED
    BY <2>1, <2>2, <2>3, <2>4, <2>5, <2>6, <2>7, <2>8 DEF IInv
<1>8. CASE RestoreDone
  <2>1. FlagType'
    BY <1>a, <1>8, Zenon DEF RestoreDone, Finish, FailureOutcome, Interrupted, jobv, pausev,
       clientv, FlagType
  <2>2. JobType'
    BY <1>a, <1>8 DEF RestoreDone, Finish, FailureOutcome, Interrupted, jobv, pausev, clientv,
       JobType, OpType, SuspInv
  <2>3. OpType'
    BY <1>a, <1>8 DEF RestoreDone, Finish, FailureOutcome, Interrupted, jobv, pausev, clientv,
       JobType, OpType, RequestType
  <2>4. RequestType'
    BY <1>a, <1>8 DEF RestoreDone, Finish, FailureOutcome, Interrupted, jobv, pausev, clientv,
       RequestType, OpInv
  <2>5. OpInv'
    BY <1>a, <1>8 DEF RestoreDone, Finish, FailureOutcome, Interrupted, jobv, pausev, clientv,
       JobType, OpType, OpInv, RequestType, SuspInv
  <2>6. SuspInv'
    BY <1>a, <1>8 DEF RestoreDone, Finish, FailureOutcome, Interrupted, jobv, pausev, clientv,
       JobType, OpType, OpInv, SuspInv
  <2>7. FreezeInv'
    BY <1>a, <1>8 DEF RestoreDone, Finish, FailureOutcome, Interrupted, jobv, pausev, clientv,
       JobType, OpType, OpInv, SuspInv, FreezeInv, Witnessed
  <2>8. RequestInv'
    BY <1>a, <1>8 DEF RestoreDone, Finish, FailureOutcome, Interrupted, jobv, pausev, clientv,
       FlagType, JobType, RequestType, OpType, OpInv, RequestInv, Known
  <2> QED
    BY <2>1, <2>2, <2>3, <2>4, <2>5, <2>6, <2>7, <2>8 DEF IInv
<1> QED
  BY <1>1, <1>2, <1>3, <1>4, <1>5, <1>6, <1>7, <1>8 DEF ContinueNext

\* Nothing is suspended, asked for or owned at first.
LEMMA PauseInit == Init => IInv
<1> SUFFICES ASSUME Init PROVE IInv
  OBVIOUS
<1> USE PauseAssumption DEF Init, PauseOps, ContinueOps, RestoreOps, Outcomes, None
<1>1. FlagType
  BY Zenon DEF FlagType
<1>2. JobType /\ OpType
  BY DEF JobType, OpType
<1>3. RequestType
  BY DEF RequestType
<1>4. OpInv /\ SuspInv
  BY DEF OpInv, SuspInv
<1>5. FreezeInv /\ RequestInv
  BY DEF FreezeInv, RequestInv, Known
<1> QED
  BY <1>1, <1>2, <1>3, <1>4, <1>5 DEF IInv

\* Every step of the supervisor, the processes and the client keeps it.
LEMMA PauseControlStep == IInv /\ [Next]_vars => IInv'
<1> SUFFICES ASSUME IInv, [Next]_vars PROVE IInv'
  OBVIOUS
<1>1. CASE UNCHANGED vars
  <2> USE <1>1 DEF vars, jobv, pausev, reqv, opv, supv, clientv, IInv
  <2>1. JobType' /\ FlagType' /\ OpType' /\ RequestType'
    BY DEF JobType, FlagType, OpType, RequestType
  <2>2. OpInv' /\ SuspInv'
    BY DEF OpInv, SuspInv
  <2>3. FreezeInv'
    BY DEF FreezeInv, Witnessed
  <2>4. RequestInv'
    BY DEF RequestInv, Known
  <2> QED
    BY <2>1, <2>2, <2>3, <2>4
<1>2. Next => ProcessNext \/ RequestNext \/ PauseNext \/ ContinueNext
  BY DEF Next, Supervisor, Handle, Processes, Client, ProcessNext, RequestNext, PauseNext, ContinueNext
<1> QED
  BY <1>1, <1>2, ProcessStep, ClientStep, PauseStep, ContinueStep

\* The whole invariant holds throughout.
LEMMA PauseInvariant == Spec => []IInv
  BY PauseInit, PauseControlStep, PTL DEF Spec

-----------------------------------------------------------------------------
(* What follows from it                                                    *)

\* Every variable keeps its type and no search for members exceeds its passes.
THEOREM PauseTypeCorrect == Spec => []TypeOK
<1>1. IInv => TypeOK
  <2> SUFFICES ASSUME IInv PROVE TypeOK
    OBVIOUS
  <2>1. susp \in [Procs -> 0..2]
    BY DEF IInv, JobType
  <2> QED
    BY <2>1 DEF IInv, TypeOK, JobType, FlagType, OpType, RequestType, PauseOps, ContinueOps, RestoreOps
<1> QED
  BY <1>1, PauseInvariant, PTL

\* Between two transitions every live process carries exactly the increments
\* PauseState remembers, whatever failed, was cancelled or exited before.
THEOREM IncrementsAreAccounted == Spec => []IncrementsAccounted
<1>1. IInv => IncrementsAccounted
  BY DEF IInv, OpInv, SuspInv, IncrementsAccounted, Stable
<1> QED
  BY <1>1, PauseInvariant, PTL

\* A paused tree runs nothing, unless a process spawned and then exited before
\* it was suspended and before the next snapshot.
THEOREM PausedIsFrozen == Spec => []FrozenUnlessSlipped
<1>1. IInv => FrozenUnlessSlipped
  BY DEF IInv, OpType, JobType, SuspInv, FreezeInv, FrozenUnlessSlipped, PausedTreeFrozen, Stable
<1> QED
  BY <1>1, PauseInvariant, PTL

\* RT-02: the outcome of the client's latest request tells the state the
\* supervisor is in, and a request cancelled while queued never takes effect.
THEOREM OutcomeIsTrue == Spec => []TruthfulOutcome
<1>1. IInv => TruthfulOutcome
  BY DEF IInv, RequestInv, TruthfulOutcome, Outcomes
<1> QED
  BY <1>1, PauseInvariant, PTL

\* A process is never suspended twice over, at any point of a transition: a
\* single resume of each owned process always wakes the tree.
THEOREM NeverSuspendedTwice == Spec => [](\A p \in Procs : susp[p] <= 1)
<1>1. IInv => \A p \in Procs : susp[p] <= 1
  BY DEF IInv, JobType
<1> QED
  BY <1>1, PauseInvariant, PTL
===============================================================================
