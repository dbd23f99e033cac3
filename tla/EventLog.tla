------------------------------ MODULE EventLog ------------------------------
(***************************************************************************)
(* The event log all supervisors share (servicemanager-supervisor/src/     *)
(* event_log.rs) and the desktop's scan of it (servicemanager-gui/src/     *)
(* event_log_reader.rs).  Writers append and rotate under a named mutex    *)
(* with a bounded wait; the scan takes no lock.                            *)
(*                                                                         *)
(* Slot 0 is events.log, slot n is events.log.n.  A record is the number   *)
(* of its append; an append that was cut short leaves Torn, a line without *)
(* its end, to which the next line is joined.  A missing and an empty file *)
(* are the same.  Sizes are counted in lines.                              *)
(***************************************************************************)
EXTENDS Naturals, Sequences, FiniteSets

CONSTANTS
    Writers,                  \* threads of supervisor processes that log
    BACKUP_RETENTION_COUNT,
    ROTATION_THRESHOLD,       \* ROTATION_THRESHOLD_BYTES, in lines
    MaxLogs,                  \* bound on the calls of log()
    Faults                    \* what may go wrong: see FaultKinds

\* An append fails, is cut short, a step of the rotation fails, a process dies.
FaultKinds == {"append", "tear", "rotate", "crash"}

ASSUME EventLogAssumption ==
    /\ BACKUP_RETENTION_COUNT \in Nat \ {0}
    /\ ROTATION_THRESHOLD \in Nat \ {0}
    /\ MaxLogs \in Nat
    /\ Faults \subseteq FaultKinds
    /\ "None" \notin Writers

VARIABLES
    files,     \* the lines of each slot
    owner,     \* who holds the mutex
    wpc,       \* where each writer is in try_log
    shift,     \* the loop variable of maybe_rotate, in the holder
    logs,      \* calls of log() so far
    written,   \* records appended so far
    gone,      \* those of them that were deleted with an oldest backup
    scanning,  \* a scan is under way
    left,      \* the slots it has still to read
    due,       \* the records on disk when the scan began
    got        \* what it has read, file by file: a line it skips as malformed is Torn

disk == <<files, owner, shift, written, gone>>
scanner == <<scanning, left, due, got>>
vars == <<disk, wpc, logs, scanner>>

None == "None"
Torn == 0
Slots == 0..BACKUP_RETENTION_COUNT

\* The records of a slot, and those a reader can parse: a line joined to a torn
\* one is malformed and skipped.
RecordsOf(i) == {files[i][n] : n \in DOMAIN files[i]} \ {Torn}

IsParseable(i, n) == files[i][n] # Torn /\ (n = 1 \/ files[i][n - 1] # Torn)

Readable(i) == {files[i][n] : n \in {k \in DOMAIN files[i] : IsParseable(i, k)}}

\* The lines of a slot as a scan takes them.
ReadRecords(i) == [n \in 1..Len(files[i]) |-> IF IsParseable(i, n) THEN files[i][n] ELSE Torn]

Init ==
    /\ files = [i \in Slots |-> <<>>] /\ owner = None
    /\ wpc = [w \in Writers |-> "idle"] /\ shift = 0
    /\ logs = 0 /\ written = 0 /\ gone = {}
    /\ scanning = FALSE /\ left = 0 /\ due = {} /\ got = <<>>

-----------------------------------------------------------------------------
(* A writer                                                                *)

Goto(w, label) == wpc' = [wpc EXCEPT ![w] = label]

\* Drop for EventLock, at the end of with_event_log_write_lock.
Release(w) == Goto(w, "idle") /\ owner' = None

Log(w) ==
    /\ wpc[w] = "idle" /\ logs < MaxLogs
    /\ logs' = logs + 1 /\ Goto(w, "acquire")
    /\ UNCHANGED <<disk, scanner>>

\* WAIT_OBJECT_0, or WAIT_ABANDONED when the last holder died.
Acquire(w) ==
    /\ wpc[w] = "acquire" /\ owner = None
    /\ owner' = w /\ Goto(w, "append")
    /\ UNCHANGED <<files, shift, written, gone, logs, scanner>>

\* Fault: the wait is INFINITE.
TimeoutNever(w) == FALSE /\ UNCHANGED vars

\* WAIT_TIMEOUT: the record is dropped and reported.
Timeout(w) ==
    /\ wpc[w] = "acquire" /\ owner # None
    /\ Goto(w, "idle")
    /\ UNCHANGED <<disk, logs, scanner>>

AppendOne(w) ==
    /\ wpc[w] = "append"
    /\ files' = [files EXCEPT ![0] = Append(@, written + 1)]
    /\ written' = written + 1
    /\ Goto(w, "rotate")
    /\ UNCHANGED <<owner, shift, gone, logs, scanner>>

\* The open fails, or write_all fails after a part of the line.
AppendFails(w) ==
    /\ wpc[w] = "append"
    /\ \/ "append" \in Faults /\ UNCHANGED files
       \/ "tear" \in Faults /\ files' = [files EXCEPT ![0] = Append(@, Torn)]
    /\ Release(w)
    /\ UNCHANGED <<shift, written, gone, logs, scanner>>

\* maybe_rotate: only a full file is rotated.
Measure(w) ==
    /\ wpc[w] = "rotate"
    /\ \/ Len(files[0]) < ROTATION_THRESHOLD /\ Release(w)
       \/ Len(files[0]) >= ROTATION_THRESHOLD /\ Goto(w, "remove") /\ UNCHANGED owner
    /\ UNCHANGED <<files, shift, written, gone, logs, scanner>>

OldestBackup == BACKUP_RETENTION_COUNT

\* Fault: the shift begins one backup too late.
OldestShiftedOffByOne == BACKUP_RETENTION_COUNT - 2

\* The first value of the shift loop.
OldestShifted == BACKUP_RETENTION_COUNT - 1

RemoveOldest(w) ==
    /\ wpc[w] = "remove"
    /\ gone' = gone \cup RecordsOf(OldestBackup)
    /\ files' = [files EXCEPT ![OldestBackup] = <<>>]
    /\ shift' = OldestShifted
    /\ Goto(w, "shift")
    /\ UNCHANGED <<owner, written, logs, scanner>>

\* rename slot i to slot i + 1, replacing what is there, as std::fs::rename does.
Rename(i) == files' = [files EXCEPT ![i + 1] = files[i], ![i] = <<>>]

\* One iteration: a missing backup is skipped, the active file comes last.
Shift(w) ==
    /\ wpc[w] = "shift"
    /\ IF files[shift] = <<>> THEN UNCHANGED files ELSE Rename(shift)
    /\ \/ shift > 0 /\ shift' = shift - 1 /\ UNCHANGED <<wpc, owner>>
       \/ shift = 0 /\ Release(w) /\ UNCHANGED shift
    /\ UNCHANGED <<written, gone, logs, scanner>>

\* Any step of the rotation fails: it is reported and left for the next append.
RotationFails(w) ==
    /\ "rotate" \in Faults
    /\ wpc[w] \in {"rotate", "remove", "shift"}
    /\ Release(w)
    /\ UNCHANGED <<files, shift, written, gone, logs, scanner>>

\* The process is killed; a line being written may stay incomplete.
Crash(w) ==
    /\ "crash" \in Faults /\ wpc[w] # "idle"
    /\ Goto(w, "idle")
    /\ owner' = IF owner = w THEN None ELSE owner
    /\ \/ UNCHANGED files
       \/ wpc[w] = "append" /\ files' = [files EXCEPT ![0] = Append(@, Torn)]
    /\ UNCHANGED <<shift, written, gone, logs, scanner>>

-----------------------------------------------------------------------------
(* The scan of read_since and read_recent                                  *)

\* Fault: the active file is scanned first.
IterLogPathsNewestFirst(k) == BACKUP_RETENTION_COUNT - (k - 1)

\* iter_log_paths: the slot to read when k slots are left, oldest first.
IterLogPaths(k) == k - 1

ScanBegin ==
    /\ ~scanning /\ scanning' = TRUE
    /\ left' = BACKUP_RETENTION_COUNT + 1
    /\ due' = UNION {Readable(i) : i \in Slots} /\ got' = <<>>
    /\ UNCHANGED <<disk, wpc, logs>>

\* open, the length, then that many bytes: the file as it is when it is opened.
ScanFile ==
    /\ scanning /\ left > 0
    /\ got' = Append(got, ReadRecords(IterLogPaths(left)))
    /\ left' = left - 1
    /\ UNCHANGED <<disk, wpc, logs, scanning, due>>

\* The result is returned; read_since also gives up when a file cannot be opened
\* or read.
ScanEnd ==
    /\ scanning /\ scanning' = FALSE
    /\ left' = 0 /\ got' = <<>> /\ due' = {}
    /\ UNCHANGED <<disk, wpc, logs>>

-----------------------------------------------------------------------------
Waiting(w) == Acquire(w) \/ Timeout(w)

Writer(w) ==
    \/ Log(w) \/ Waiting(w)
    \/ AppendOne(w) \/ AppendFails(w)
    \/ Measure(w) \/ RemoveOldest(w) \/ Shift(w) \/ RotationFails(w)
    \/ Crash(w)

Scanner == ScanBegin \/ ScanFile \/ ScanEnd

Next == Scanner \/ \E w \in Writers : Writer(w)

Spec == Init /\ [][Next]_vars

\* A bounded wait on the mutex ends; the holder may hang in the file system.
FairSpec == Spec /\ \A w \in Writers : WF_vars(Waiting(w))

-----------------------------------------------------------------------------
\* Slots hold lines, a writer past the wait owns the mutex, and a scan has only
\* seen what was written.
TypeOK ==
    /\ files \in [Slots -> Seq(0..written)]
    /\ owner \in Writers \cup {None} /\ shift \in Slots
    /\ wpc \in [Writers -> {"idle", "acquire", "append", "rotate", "remove", "shift"}]
    /\ \A w \in Writers : wpc[w] \notin {"idle", "acquire"} => owner = w
    /\ logs \in 0..MaxLogs /\ written \in Nat /\ gone \subseteq 1..written
    /\ scanning \in BOOLEAN /\ left \in 0..(BACKUP_RETENTION_COUNT + 1)
    /\ due \subseteq 1..written /\ got \in Seq(Seq(0..written))

\* Append and rotation neither lose, repeat nor reorder a record, although
\* several processes write, rotations stop half way and holders die: what is on
\* disk is exactly the newest records, oldest in the highest slot, and what is
\* missing was deleted as the oldest backup.
HistoryIntact ==
    /\ gone \cup UNION {RecordsOf(i) : i \in Slots} = 1..written
    /\ \A i \in Slots : \A r \in gone, s \in RecordsOf(i) : r < s
    /\ \A i \in Slots : \A m, n \in DOMAIN files[i] :
         m < n /\ files[i][m] # Torn /\ files[i][n] # Torn => files[i][m] < files[i][n]
    /\ \A i, j \in Slots : i < j => \A r \in RecordsOf(i), s \in RecordsOf(j) : s < r

\* A scan that crosses a rotation never shows a record twice.
ScanOnce ==
    \A a, b \in DOMAIN got : \A m \in DOMAIN got[a], n \in DOMAIN got[b] :
      got[a][m] # Torn /\ got[a][m] = got[b][n] => a = b /\ m = n

\* A finished scan has every record that was on disk when it began and is still
\* retained.
ScanComplete ==
    scanning /\ left = 0 =>
      \A r \in due \ gone : \E a \in DOMAIN got : \E n \in DOMAIN got[a] : got[a][n] = r

\* Supervision does not depend on the log: a call of log() does not wait for
\* ever for a lock whose holder hangs.
LogNotStuck == \A w \in Writers : wpc[w] = "acquire" ~> wpc[w] # "acquire"
=============================================================================
