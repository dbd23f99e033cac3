----------------------------- MODULE OutputSink -----------------------------
(***************************************************************************)
(* The captured output of one generation: a pipe and a reader thread per   *)
(* stream (servicemanager-supervisor/src/output.rs), the one RotationSink  *)
(* they share (rotation.rs), and the supervisor thread that rotates it     *)
(* with a worker thread and drains it at the end (rotate_sinks and         *)
(* cleanup_generation of lib.rs).                                          *)
(*                                                                         *)
(* Output is counted in pieces <<stream, n>>, written to the pipe, the     *)
(* buffer and the file one or more at a time.  A retry delay, a busy lock  *)
(* and a failed write are the same to a reader: it changes nothing and     *)
(* tries again.  Waits are not clocked: a bounded wait may give up in any  *)
(* state in which what it waits for has not happened.                      *)
(***************************************************************************)
EXTENDS Naturals, Sequences

CONSTANTS
    Streams,              \* the streams that share the destination
    BUFFER_LIMIT,         \* in pieces
    THRESHOLD,            \* AppRotateBytes, in pieces
    MaxOut, MaxForced,    \* bounds: pieces per stream, calls of rotate()
    Faults                \* what may go wrong: see FaultKinds

\* Reopening fails, a step of the archiving fails, a pipe cannot be read, a write
\* that hangs keeps the state lock busy.
FaultKinds == {"reopen", "archive", "read", "busy"}

ASSUME SinkAssumption ==
    /\ BUFFER_LIMIT \in Nat \ {0} /\ THRESHOLD \in Nat \ {0}
    /\ MaxOut \in Nat /\ MaxForced \in Nat
    /\ Faults \subseteq FaultKinds

VARIABLES
    copyAndTruncate, \* the stream option copy_and_truncate
    \* the child and its pipes
    alive, produced, pipe,
    \* the reader of each stream (copy_pipe)
    rpc,          \* "loop", then "due", "queue", "send" after a write
    pending,      \* what it has read and not written
    eof,
    rres,         \* "running", "ok", "failed"
    acked,        \* stats.written
    \* the sink
    active,       \* the file at the path
    exists,       \* there is such a file
    archives,     \* the rotated files, oldest first
    handle,       \* RotationState.file is Some
    bytes,        \* bytes_in_current
    queued,       \* rotation_queued
    busy,         \* the rotation worker holds the state lock
    \* the rotation worker
    kpc, kres,
    cancelled,    \* IoTask.cancelled
    \* the supervisor thread
    spc,
    ret,          \* what follows rotate_sinks
    force,        \* its argument
    mailbox,      \* Rotate and AutoRotate messages
    forced,       \* calls of rotate() so far
    stop,         \* stop_requested
    outcome       \* how cleanup_generation ended

child == <<alive, produced, pipe>>
reader == <<rpc, pending, eof, rres, acked>>
sink == <<active, exists, archives, handle, bytes>>
worker == <<kpc, kres, cancelled>>
super == <<spc, ret, force, outcome>>
vars == <<copyAndTruncate, child, reader, sink, queued, busy, worker, super, mailbox, forced, stop>>

None == "None"

Init ==
    /\ copyAndTruncate \in BOOLEAN
    /\ alive = TRUE /\ produced = [s \in Streams |-> 0] /\ pipe = [s \in Streams |-> <<>>]
    /\ rpc = [s \in Streams |-> "loop"] /\ pending = [s \in Streams |-> <<>>]
    /\ eof = [s \in Streams |-> FALSE] /\ rres = [s \in Streams |-> "running"]
    /\ acked = [s \in Streams |-> 0]
    /\ active = <<>> /\ exists = TRUE /\ archives = <<>> /\ handle = TRUE /\ bytes = 0
    /\ queued = FALSE /\ busy = FALSE
    /\ kpc = None /\ kres = None /\ cancelled = FALSE
    /\ spc = "listen" /\ ret = None /\ force = FALSE /\ mailbox = <<>> /\ forced = 0
    /\ stop = FALSE /\ outcome = None

-----------------------------------------------------------------------------
(* The child                                                               *)

ChildWrite(s) ==
    /\ alive /\ produced[s] < MaxOut
    /\ produced' = [produced EXCEPT ![s] = @ + 1]
    /\ pipe' = [pipe EXCEPT ![s] = Append(@, <<s, produced[s] + 1>>)]
    /\ UNCHANGED <<alive, reader, sink, queued, busy, worker, super, mailbox, forced, stop>>

ChildExit ==
    /\ alive /\ alive' = FALSE
    /\ UNCHANGED <<produced, pipe, reader, sink, queued, busy, worker, super, mailbox, forced, stop>>

-----------------------------------------------------------------------------
(* The reader threads                                                      *)

Looping(s) == rpc[s] = "loop" /\ rres[s] = "running"

\* The supervisor has set drain_deadline, which may have passed, or cancelled.
Draining == spc \in {"drain", "ended"}

BufferHasRoom(s) == Len(pending[s]) < BUFFER_LIMIT

\* available() and read(): a piece, or the end of the pipe.
ReadPipe(s) ==
    /\ Looping(s) /\ ~eof[s] /\ BufferHasRoom(s)
    /\ \/ /\ pipe[s] # <<>>
          /\ pending' = [pending EXCEPT ![s] = Append(@, Head(pipe[s]))]
          /\ pipe' = [pipe EXCEPT ![s] = Tail(@)]
          /\ UNCHANGED eof
       \/ /\ pipe[s] = <<>> /\ ~alive
          /\ eof' = [eof EXCEPT ![s] = TRUE]
          /\ UNCHANGED <<pending, pipe>>
    /\ UNCHANGED <<alive, produced, rpc, rres, acked, sink, queued, busy, worker, super, mailbox, forced, stop>>

\* Fault: an error after the write repeats the write.
WriteFailsAfterWriting(s) ==
    /\ Looping(s) /\ pending[s] # <<>> /\ ~busy
    /\ ~handle
    /\ handle' = TRUE /\ exists' = TRUE
    /\ active' = active \o pending[s] /\ bytes' = Len(active')
    /\ UNCHANGED <<child, reader, archives, queued, busy, worker, super, mailbox, forced, stop>>

\* write_some fails before anything is written; it may have reopened the file.
WriteFails(s) ==
    /\ Looping(s) /\ pending[s] # <<>> /\ ~busy
    /\ ~handle
    /\ handle' = TRUE /\ exists' = TRUE /\ bytes' = Len(active)
    /\ UNCHANGED <<child, reader, active, archives, queued, busy, worker, super, mailbox, forced, stop>>

\* write_some under the state lock: a lost handle is reopened first, and only
\* what was written leaves the buffer.
WriteSome(s) ==
    /\ Looping(s) /\ pending[s] # <<>> /\ ~busy
    /\ handle' = TRUE /\ exists' = TRUE
    /\ \E n \in 1..Len(pending[s]) :
         /\ active' = active \o SubSeq(pending[s], 1, n)
         /\ bytes' = IF handle THEN bytes + n ELSE Len(active')
         /\ pending' = [pending EXCEPT ![s] = SubSeq(@, n + 1, Len(@))]
         /\ acked' = [acked EXCEPT ![s] = @ + n]
    /\ rpc' = [rpc EXCEPT ![s] = "due"]
    /\ UNCHANGED <<child, eof, rres, archives, queued, busy, worker, super, mailbox, forced, stop>>

\* should_rotate: the file is large, or old.  Time is not modelled: a file that is not
\* empty may be old at any look at it.
Due(old) == bytes > 0 /\ (bytes >= THRESHOLD \/ old)

\* due(false): a busy lock counts as not due.
CheckDue(s) ==
    /\ rpc[s] = "due"
    /\ \E old \in BOOLEAN :
        \/ ~busy /\ Due(old) /\ rpc' = [rpc EXCEPT ![s] = "queue"]
        \/ (busy \/ ~Due(old)) /\ rpc' = [rpc EXCEPT ![s] = "loop"]
    /\ UNCHANGED <<child, pending, eof, rres, acked, sink, queued, busy, worker, super, mailbox, forced, stop>>

\* queue_rotation
QueueRotation(s) ==
    /\ rpc[s] = "queue"
    /\ queued' = TRUE
    /\ rpc' = [rpc EXCEPT ![s] = IF queued THEN "loop" ELSE "send"]
    /\ UNCHANGED <<child, pending, eof, rres, acked, sink, busy, worker, super, mailbox, forced, stop>>

SendAutoRotate(s) ==
    /\ rpc[s] = "send"
    /\ mailbox' = Append(mailbox, "AutoRotate")
    /\ rpc' = [rpc EXCEPT ![s] = "loop"]
    /\ UNCHANGED <<child, pending, eof, rres, acked, sink, queued, busy, worker, super, forced, stop>>

\* copy_pipe returns Ok at the end of the pipe with an empty buffer.
ReaderDone(s) ==
    /\ Looping(s) /\ eof[s] /\ pending[s] = <<>>
    /\ rres' = [rres EXCEPT ![s] = "ok"]
    /\ UNCHANGED <<child, rpc, pending, eof, acked, sink, queued, busy, worker, super, mailbox, forced, stop>>

\* Fault: the drain deadline is taken for the end of the pipe.
ReaderFailsSilently(s) ==
    /\ Looping(s) /\ ~(eof[s] /\ pending[s] = <<>>)
    /\ Draining
    /\ rres' = [rres EXCEPT ![s] = "ok"]
    /\ UNCHANGED <<child, rpc, pending, eof, acked, sink, queued, busy, worker, super, mailbox, forced, stop>>

\* It returns an error when the drain is over or the pipe cannot be read.
ReaderFails(s) ==
    /\ Looping(s) /\ ~(eof[s] /\ pending[s] = <<>>)
    /\ Draining \/ "read" \in Faults
    /\ rres' = [rres EXCEPT ![s] = "failed"]
    /\ mailbox' = Append(mailbox, "ReaderFailed")
    /\ UNCHANGED <<child, rpc, pending, eof, acked, sink, queued, busy, worker, super, forced, stop>>

-----------------------------------------------------------------------------
(* The rotation worker: RotationSink::rotate                               *)

Cancelled == cancelled \/ stop

\* rotate returns: rotation_handled, and the lock is released.
Return(r) == kpc' = "finished" /\ kres' = r /\ queued' = FALSE /\ busy' = FALSE

WorkerLock ==
    /\ kpc = "lock"
    /\ \/ /\ Cancelled \/ "busy" \in Faults
          /\ kpc' = "finished" /\ kres' = "error" /\ UNCHANGED busy
       \/ /\ ~Cancelled /\ bytes = 0 /\ kpc' = "finished" /\ kres' = "noop" /\ UNCHANGED busy
       \/ /\ ~Cancelled /\ bytes > 0 /\ kpc' = "sync" /\ busy' = TRUE /\ UNCHANGED kres
    /\ UNCHANGED <<child, reader, sink, queued, cancelled, super, mailbox, forced, stop>>

\* sync_all, then the handle is dropped.
WorkerSync ==
    /\ kpc = "sync"
    /\ \/ (Cancelled \/ (handle /\ "archive" \in Faults)) /\ Return("error") /\ UNCHANGED handle
       \/ ~Cancelled /\ handle' = FALSE /\ kpc' = "archive" /\ UNCHANGED <<kres, queued, busy>>
    /\ UNCHANGED <<child, reader, active, exists, archives, bytes, cancelled, super, mailbox, forced, stop>>

\* The archiving failed or was given up; the file is opened again.
ArchiveFails == kpc' = "reopen" /\ kres' = "error"

\* copy_archive (create_new, copy, sync), or the rename that replaces nothing.
\* An incomplete copy is removed, or left behind when that fails too.
WorkerArchive ==
    /\ kpc = "archive"
    /\ \/ /\ ~exists \/ Cancelled \/ "archive" \in Faults
          /\ ArchiveFails
          /\ UNCHANGED <<active, exists, archives>>
       \/ /\ copyAndTruncate /\ exists /\ "archive" \in Faults
          /\ ArchiveFails
          /\ \E n \in 0..Len(active) : archives' = Append(archives, SubSeq(active, 1, n))
          /\ UNCHANGED <<active, exists>>
       \/ /\ exists /\ ~Cancelled
          /\ archives' = Append(archives, active)
          /\ \/ copyAndTruncate /\ kpc' = "truncate" /\ UNCHANGED <<active, exists>>
             \/ ~copyAndTruncate /\ kpc' = "reopen" /\ active' = <<>> /\ exists' = FALSE
          /\ kres' = "done"
    /\ UNCHANGED <<child, reader, handle, bytes, queued, busy, cancelled, super, mailbox, forced, stop>>

\* Fault: the file is shortened although the copy failed.
WorkerTruncateAnyway ==
    /\ kpc \in {"truncate", "reopen"} /\ copyAndTruncate /\ active # <<>>
    /\ active' = <<>> /\ kpc' = "reopen"
    /\ UNCHANGED <<child, reader, exists, archives, handle, bytes, queued, busy, kres, cancelled, super, mailbox,
                   forced, stop>>

\* set_len(0), once the copy is complete.
WorkerTruncate ==
    /\ kpc = "truncate"
    /\ \/ (Cancelled \/ "archive" \in Faults) /\ ArchiveFails /\ UNCHANGED active
       \/ ~Cancelled /\ active' = <<>> /\ kpc' = "reopen" /\ UNCHANGED kres
    /\ UNCHANGED <<child, reader, exists, archives, handle, bytes, queued, busy, cancelled, super, mailbox, forced,
                   stop>>

CountAfterReopen == Len(active)

\* Reopen, or leave the sink in its recovery state.
WorkerReopen ==
    /\ kpc = "reopen"
    /\ \/ (Cancelled \/ "reopen" \in Faults) /\ Return("error") /\ UNCHANGED <<exists, handle, bytes>>
       \/ ~Cancelled /\ exists' = TRUE /\ handle' = TRUE /\ bytes' = CountAfterReopen /\ Return(kres)
    /\ UNCHANGED <<child, reader, active, archives, cancelled, super, mailbox, forced, stop>>

-----------------------------------------------------------------------------
(* The supervisor thread                                                   *)

\* RotateSignal::rotate and StopSignal::stop
ForceRotate ==
    /\ forced < MaxForced /\ forced' = forced + 1
    /\ mailbox' = Append(mailbox, "Rotate")
    /\ UNCHANGED <<child, reader, sink, queued, busy, worker, super, stop>>

RequestStop ==
    /\ ~stop /\ stop' = TRUE
    /\ UNCHANGED <<child, reader, sink, queued, busy, worker, super, mailbox, forced>>

\* handle_control, in the loop of run_generations: a failed reader ends it.
HandleMessage ==
    /\ spc = "listen" /\ ~stop /\ mailbox # <<>>
    /\ mailbox' = Tail(mailbox)
    /\ \/ Head(mailbox) = "ReaderFailed" /\ spc' = "leave" /\ UNCHANGED <<ret, force>>
       \/ Head(mailbox) # "ReaderFailed" /\ spc' = "decide" /\ ret' = "listen" /\ force' = (Head(mailbox) = "Rotate")
    /\ UNCHANGED <<child, reader, sink, queued, busy, worker, outcome, forced, stop>>

\* run_generations is left: the child is gone, or a Stop.
Depart ==
    /\ spc = "listen" /\ (stop \/ ~alive)
    /\ spc' = "leave"
    /\ UNCHANGED <<child, reader, sink, queued, busy, worker, ret, force, outcome, mailbox, forced, stop>>

\* Fault: a rotation that is not due any more keeps its request.
NotDueKeepsRequest == UNCHANGED queued

\* rotation_handled
NotDue == queued' = FALSE

\* rotate_sinks returns an error: run_generations is left, or the cleanup fails.
RotateSinksFails ==
    /\ spc' = IF ret = "listen" THEN "leave" ELSE "ended"
    /\ outcome' = IF ret = "listen" THEN outcome ELSE "degraded"

\* rotate_sinks: due or has_data, then the Rotate/Pre hook.
Decide ==
    /\ spc = "decide"
    /\ \/ stop /\ spc' = ret /\ UNCHANGED <<queued, outcome>>
       \/ ~stop /\ "busy" \in Faults /\ RotateSinksFails /\ UNCHANGED queued
       \/ /\ ~stop /\ \E old \in BOOLEAN : ~(IF force THEN bytes > 0 ELSE Due(old))
          /\ NotDue /\ spc' = ret /\ UNCHANGED outcome
       \/ /\ ~stop /\ \E old \in BOOLEAN : IF force THEN bytes > 0 ELSE Due(old)
          /\ spc' = "pre" /\ UNCHANGED <<queued, outcome>>
    /\ UNCHANGED <<child, reader, sink, busy, worker, ret, force, mailbox, forced, stop>>

\* After the hook the worker is started, unless a Stop came.
SpawnWorker ==
    /\ spc = "pre"
    /\ \/ stop /\ spc' = ret /\ UNCHANGED worker
       \/ ~stop /\ spc' = "wait" /\ kpc' = "lock" /\ kres' = None /\ cancelled' = FALSE
    /\ UNCHANGED <<child, reader, sink, queued, busy, ret, force, outcome, mailbox, forced, stop>>

\* IoTask::wait: the worker is cancelled when its time is over.
CancelWorker ==
    /\ spc = "wait" /\ kpc # "finished" /\ ~cancelled
    /\ cancelled' = TRUE
    /\ UNCHANGED <<child, reader, sink, queued, busy, kpc, kres, super, mailbox, forced, stop>>

\* The worker answered: the Rotate/Post hook or a report, rotation_handled.
WorkerAnswered ==
    /\ spc = "wait" /\ kpc = "finished"
    /\ kpc' = None /\ queued' = FALSE /\ spc' = ret
    /\ UNCHANGED <<child, reader, sink, busy, kres, cancelled, ret, force, outcome, mailbox, forced, stop>>

\* It did not answer in time (Degraded).
WorkerLost ==
    /\ spc = "wait" /\ kpc # "finished" /\ cancelled
    /\ RotateSinksFails
    /\ UNCHANGED <<child, reader, sink, queued, busy, worker, ret, force, mailbox, forced, stop>>

\* cleanup_generation: the job is terminated, then a worker left behind is
\* waited for.
Terminate ==
    /\ spc = "leave"
    /\ alive' = FALSE
    /\ cancelled' = TRUE
    /\ \/ kpc \in {None, "finished"} /\ kpc' = None /\ spc' = "drain" /\ UNCHANGED outcome
       \/ kpc \notin {None, "finished"} /\ spc' = "ended" /\ outcome' = "degraded" /\ UNCHANGED kpc
    /\ UNCHANGED <<produced, pipe, reader, sink, queued, busy, kres, ret, force, mailbox, forced, stop>>

\* ReaderTask::finish for every reader, then the online rotation.
FinishReaders ==
    /\ spc = "drain"
    /\ \/ /\ \A s \in Streams : rres[s] = "ok"
          /\ spc' = (IF stop THEN "close" ELSE "decide") /\ ret' = "close" /\ force' = FALSE
          /\ UNCHANGED outcome
       \/ /\ \E s \in Streams : rres[s] # "ok"
          /\ spc' = "ended" /\ outcome' = "degraded" /\ UNCHANGED <<ret, force>>
    /\ UNCHANGED <<child, reader, sink, queued, busy, worker, mailbox, forced, stop>>

Close ==
    /\ spc = "close"
    /\ spc' = "ended" /\ outcome' = "clean"
    /\ UNCHANGED <<child, reader, sink, queued, busy, worker, ret, force, mailbox, forced, stop>>

-----------------------------------------------------------------------------
Reader(s) ==
    \/ ReadPipe(s) \/ WriteSome(s) \/ WriteFails(s)
    \/ CheckDue(s) \/ QueueRotation(s) \/ SendAutoRotate(s)
    \/ ReaderDone(s) \/ ReaderFails(s)

Worker == WorkerLock \/ WorkerSync \/ WorkerArchive \/ WorkerTruncate \/ WorkerReopen

Supervise ==
    \/ HandleMessage \/ Depart \/ Decide \/ SpawnWorker \/ CancelWorker \/ WorkerAnswered \/ WorkerLost
    \/ Terminate \/ FinishReaders \/ Close

Next ==
    /\ \/ ChildExit \/ ForceRotate \/ RequestStop \/ Worker \/ Supervise
       \/ \E s \in Streams : ChildWrite(s) \/ Reader(s)
    /\ UNCHANGED copyAndTruncate

Spec == Init /\ [][Next]_vars

-----------------------------------------------------------------------------
Pieces == Streams \X (1..MaxOut)
Messages == {"Rotate", "AutoRotate", "ReaderFailed"}

\* Pipes, buffers and files hold pieces, a buffer within its limit.
TypeOK ==
    /\ copyAndTruncate \in BOOLEAN
    /\ alive \in BOOLEAN /\ produced \in [Streams -> 0..MaxOut] /\ pipe \in [Streams -> Seq(Pieces)]
    /\ rpc \in [Streams -> {"loop", "due", "queue", "send"}]
    /\ pending \in [Streams -> Seq(Pieces)] /\ \A s \in Streams : Len(pending[s]) <= BUFFER_LIMIT
    /\ eof \in [Streams -> BOOLEAN] /\ acked \in [Streams -> 0..MaxOut]
    /\ rres \in [Streams -> {"running", "ok", "failed"}]
    /\ active \in Seq(Pieces) /\ archives \in Seq(Seq(Pieces)) /\ bytes \in Nat
    /\ exists \in BOOLEAN /\ handle \in BOOLEAN /\ queued \in BOOLEAN /\ busy \in BOOLEAN
    /\ kpc \in {None, "lock", "sync", "archive", "truncate", "reopen", "finished"}
    /\ kres \in {None, "error", "noop", "done"} /\ cancelled \in BOOLEAN
    /\ spc \in {"listen", "decide", "pre", "wait", "leave", "drain", "close", "ended"}
    /\ ret \in {None, "listen", "close"} /\ force \in BOOLEAN
    /\ mailbox \in Seq(Messages) /\ forced \in 0..MaxForced
    /\ stop \in BOOLEAN /\ outcome \in {None, "clean", "degraded"}

\* The files, oldest first.
Stored == Append(archives, active)

\* RT-09, RT-10: every byte the sink has accepted is in the active file or in an
\* archive, whatever step of a rotation failed, was cancelled or was left half
\* done, and with either way of archiving.
OutputKept ==
    \A s \in Streams : \A n \in 1..acked[s] :
      \E f \in DOMAIN Stored : \E i \in DOMAIN Stored[f] : Stored[f][i] = <<s, n>>

\* With rename, a stream's bytes are stored once and in order across the
\* archives and the active file.
OutputInOrder ==
    ~copyAndTruncate =>
      \A f, g \in DOMAIN Stored : \A i \in DOMAIN Stored[f], j \in DOMAIN Stored[g] :
        /\ f < g \/ (f = g /\ i < j)
        /\ Stored[f][i][1] = Stored[g][j][1]
        => Stored[f][i][2] < Stored[g][j][2]

\* RT-08: a generation that is cleaned up without an error has stored all that
\* its child has written.
CleanDrain == outcome = "clean" => acked = produced

\* A request for an automatic rotation is never forgotten: while the supervisor
\* listens, rotation_queued means that a message is on its way, so a rotation
\* that failed, was a no-op or lost a race cannot switch rotation off.
RotationNotForgotten ==
    queued /\ spc = "listen" /\ ~stop =>
      \/ \E s \in Streams : rpc[s] = "send"
      \/ \E i \in DOMAIN mailbox : mailbox[i] = "AutoRotate"

=============================================================================
