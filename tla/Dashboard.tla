----------------------------- MODULE Dashboard -----------------------------
(***************************************************************************)
(* The dashboard's availability and counts (metrics.rs) and the history    *)
(* they are computed from (event_log_reader.rs), beside the life of one    *)
(* service that the history is a record of.                                *)
(*                                                                         *)
(* Time is a number of ticks.  A supervisor writes a record when its child *)
(* starts and, after it has cleaned up, one with the earlier instant of    *)
(* the exit; it may die without writing.  A refresh lists the service,     *)
(* looks at the clock, and reads the log, and the service goes on between  *)
(* the three.  up is the truth: the ticks during which a child was alive.  *)
(***************************************************************************)
EXTENDS Integers, FiniteSets, SequencesExt

CONSTANTS
    Names,        \* spellings of the service's name
    Foreign,      \* the name of another service
    Day,          \* ticks of a day
    Days,         \* 30: days of the window
    Delay, Grace, \* a restart delay, and the 30 s that are granted beyond it
    MaxTime, MaxRecords,
    MaxMeanwhile  \* what happens from the listing to the read of the log, in steps

ASSUME DashboardAssumption ==
    /\ {Day, Days} \subseteq Nat \ {0} /\ {Delay, Grace, MaxTime, MaxRecords, MaxMeanwhile} \subseteq Nat
    /\ Foreign \notin Names

Window == Day * Days

VARIABLES
    now,
    host,      \* the service's SCM state
    phase,     \* the supervisor: "none", "up", "exited", "waiting", "idle", "stopping"
    name,      \* the spelling it was started with
    exitTs,    \* when the child exited
    exitCode,
    log,       \* the records, in the order they were written
    refresh,   \* [state, asOf], and the steps it has taken
    up, crashed

vars == <<now, host, phase, name, exitTs, exitCode, log, refresh, up, crashed>>
service == <<host, phase, name, exitTs, exitCode, log, crashed>>

Unset == -1
NoName == Foreign
NotListed == "not listed"

DashboardInit ==
    /\ now = 0 /\ host = "Stopped" /\ phase = "none" /\ name = NoName
    /\ exitTs = 0 /\ exitCode = 0 /\ log = <<>>
    /\ refresh = [state |-> NotListed, asOf |-> Unset, steps |-> 0]
    /\ up = {} /\ crashed = FALSE

-----------------------------------------------------------------------------
(* The service, and what EventWriter records *)

Record(n, kind, ts) ==
    /\ Len(log) < MaxRecords
    /\ log' = Append(log, [ts |-> ts, service |-> n, event |-> kind,
                            code |-> IF kind = "ChildExited" THEN exitCode ELSE 0])

\* Nothing is known of an exit any more.
Forget == exitTs' = 0 /\ exitCode' = 0

Tick ==
    /\ now < MaxTime /\ now' = now + 1
    /\ up' = IF phase = "up" THEN up \cup {now} ELSE up
    /\ UNCHANGED service

StartHost ==
    /\ host = "Stopped" /\ host' = "Running" /\ phase' = "up"
    /\ \E n \in Names : name' = n /\ Record(n, "Started", now)
    /\ UNCHANGED <<now, exitTs, exitCode, up, crashed>>

\* The child exits; the record follows when its generation is cleaned up.
ChildExits ==
    /\ phase = "up" /\ phase' = "exited" /\ exitTs' = now
    /\ \E c \in {0, 1} : exitCode' = c
    /\ UNCHANGED <<now, host, name, log, up, crashed>>

\* cleanup_generation, and then the exit action: Restart with and without a delay,
\* Ignore, Exit; or a stop that arrived.
CleanUp ==
    /\ phase = "exited" /\ Record(name, "ChildExited", exitTs)
    /\ phase' \in IF host = "StopPending" THEN {"stopping"}
                  ELSE {"throttling", "restarting", "idle", "ending"}
    /\ Forget
    /\ UNCHANGED <<now, host, name, up, crashed>>

Throttle ==
    /\ phase = "throttling" /\ phase' = "waiting" /\ Record(name, "Throttled", now)
    /\ exitTs' = now
    /\ UNCHANGED <<now, host, name, exitCode, up, crashed>>

Restart ==
    /\ phase \in {"waiting", "restarting"} /\ host = "Running"
    /\ phase' = "up" /\ Record(name, "Restarted", now) /\ Forget
    /\ UNCHANGED <<now, host, name, up, crashed>>

End ==
    /\ \/ phase = "ending" /\ UNCHANGED log
       \/ phase = "stopping" /\ Record(name, "Stopped", now)
    /\ phase' = "none" /\ host' = "Stopped" /\ name' = NoName /\ Forget
    /\ UNCHANGED <<now, up, crashed>>

\* A control reaches the service: pause, continue, stop.
Controlled ==
    /\ \/ host = "Running" /\ phase # "none" /\ host' = "Paused"
       \/ host = "Paused" /\ host' = "Running"
       \/ host \in {"Running", "Paused"} /\ host' = "StopPending"
    /\ phase' = IF host' = "StopPending" /\ phase \notin {"up", "exited"}
                THEN "stopping" ELSE phase
    /\ UNCHANGED <<now, name, exitTs, exitCode, log, up, crashed>>

\* The supervisor dies and its job takes the child with it; once in a behaviour.
Crash ==
    /\ ~crashed /\ host # "Stopped" /\ host' = "Stopped" /\ phase' = "none" /\ crashed' = TRUE
    /\ name' = NoName /\ Forget
    /\ UNCHANGED <<now, log, up>>

\* Another service writes.  Only a refresh reads the log, so what others write before it
\* may as well be written at it.
OtherRecord ==
    /\ refresh.state # NotListed /\ \A i \in DOMAIN log : log[i].service # Foreign
    /\ Record(Foreign, "Started", now)
    /\ UNCHANGED <<now, host, phase, name, exitTs, exitCode, up, crashed>>

-----------------------------------------------------------------------------
(* Job::Refresh: list_services, now_utc, and later read_since *)

\* One refresh, at any time: refreshes change nothing the service sees.
ListServices ==
    /\ refresh.state = NotListed /\ refresh' = [refresh EXCEPT !.state = host]
    /\ UNCHANGED <<now, service, up>>

ReadClock ==
    /\ refresh.state # NotListed /\ refresh.asOf = Unset /\ refresh' = [refresh EXCEPT !.asOf = now]
    /\ UNCHANGED <<now, service, up>>

\* What happens in the world, during a refresh only so much.
ServiceStep ==
    /\ \/ Tick \/ StartHost \/ ChildExits \/ CleanUp \/ Throttle \/ Restart \/ End
       \/ Controlled \/ Crash \/ OtherRecord
    /\ \/ refresh.state = NotListed /\ UNCHANGED refresh
       \/ /\ refresh.state # NotListed /\ refresh.steps < MaxMeanwhile
          /\ refresh' = [refresh EXCEPT !.steps = @ + 1]

DashboardNext == ServiceStep \/ ListServices \/ ReadClock

-----------------------------------------------------------------------------
(* event_log_reader.rs.  read is the set of the records a scan gets, by     *)
(* their places in the log.  A scan opens the files one after the other    *)
(* and the active one last: it gets the log as it is at that moment, which *)
(* is all but the oldest records (Retained), unless a rotation crosses it. *)
(* Then it may miss whole files (EventLog, ScanComplete).                  *)

\* What may be left of the log when the rotations before the scan dropped its oldest
\* records.
Retained == {i .. Len(log) : i \in 1 .. (Len(log) + 1)}

\* Records in the order of their instants; ties keep the order of the log.
Sorted(indices) ==
    LET chosen == SelectSeq([i \in DOMAIN log |-> i], LAMBDA i : i \in indices)
        order == SortSeq(chosen, LAMBDA i, j :
                    log[i].ts < log[j].ts \/ (log[i].ts = log[j].ts /\ i < j))
    IN  [k \in DOMAIN order |-> log[order[k]]]

\* read_since and history_window: the records since `since`, and for each spelling of a name the
\* newest older one, which tells the state at the boundary.
HistoryWindow(read, since) ==
    LET Older(i) == log[i].ts < since
        Seed(i) == \A j \in read :
            Older(j) /\ log[j].service = log[i].service =>
                log[j].ts < log[i].ts \/ (log[j].ts = log[i].ts /\ j <= i)
    IN  Sorted({i \in read : log[i].ts <= now /\ (Older(i) => Seed(i))})

\* compute_metrics drops what is newer than its clock, and group_service_events
\* keeps what is the service's under any spelling.
ServiceEvents(read, asOf) ==
    SelectSeq(HistoryWindow(read, asOf - Window), LAMBDA r : r.ts <= asOf /\ r.service \in Names)

-----------------------------------------------------------------------------
(* metrics.rs *)

Later(a, b) == IF a > b THEN a ELSE b
Earlier(a, b) == IF a < b THEN a ELSE b

\* A closed interval of up-time, when it is not empty.
Interval(s, e) == IF e > s THEN <<<<s, e>>>> ELSE <<>>

\* One record of build_up_intervals.
Advance(t, r, start) ==
    LET ts == Later(r.ts, start)
    IN  CASE r.event \in {"Started", "Restarted"} ->
                [t EXCEPT !.since = IF @ = Unset THEN ts ELSE @]
          [] OTHER ->
                IF t.since = Unset THEN t
                ELSE [since |-> Unset, intervals |-> t.intervals \o Interval(t.since, ts)]

\* An open start of a host that is not alive proves nothing.
Live(state) == state \in {"Running", "Paused", "StopPending"}

\* Fault: an open start of a stopped host taken for down-time.
OpenStartIsDown(t, state, asOf) ==
    IF t.since # Unset /\ Live(state)
    THEN [intervals |-> t.intervals \o Interval(t.since, asOf), unknown |-> FALSE]
    ELSE [intervals |-> t.intervals, unknown |-> FALSE]

OpenStart(t, state, asOf) ==
    CASE t.since = Unset -> [intervals |-> t.intervals, unknown |-> FALSE]
      [] t.since # Unset /\ Live(state) ->
            [intervals |-> t.intervals \o Interval(t.since, asOf), unknown |-> FALSE]
      [] OTHER -> [intervals |-> t.intervals, unknown |-> TRUE]

BuildUpIntervals(events, start, asOf, state) ==
    LET Step(t, r) == Advance(t, r, start)
    IN  OpenStart(FoldLeft(Step, [since |-> Unset, intervals |-> <<>>], events), state, asOf)

\* build_service_timelines, for the one service.
Timeline(read, asOf, state) ==
    LET events == ServiceEvents(read, asOf)
        start == IF events = <<>> THEN asOf ELSE Later(events[1].ts, asOf - Window)
    IN  IF start >= asOf THEN [start |-> asOf, intervals |-> <<>>, unknown |-> TRUE]
        ELSE [start |-> start] @@ BuildUpIntervals(events, start, asOf, state)

\* up_ms_in_window.
UpTime(intervals, from, to) ==
    LET Clipped(n, i) == n + Later(0, Earlier(i[2], to) - Later(i[1], from))
    IN  FoldLeft(Clipped, 0, intervals)

\* compute_availability: the days the numbers are about.
WindowDays(t, asOf) == Earlier(Later((asOf - t.start + Day - 1) \div Day, 1), Days)

\* compute_daily_sparkline: the bucket that began i days before today's.
Bucket(i, t, asOf) ==
    LET dayStart == (asOf \div Day) * Day - i * Day
    IN  [from |-> Later(dayStart, t.start), to |-> Earlier(dayStart + Day, asOf)]

\* classify_failed and classify_auto_recovering, from the last record.
LastRecord(read, asOf) == LET events == ServiceEvents(read, asOf) IN events[Len(events)]

ClassifyFailed(read, asOf, state) ==
    /\ state = "Stopped" /\ ServiceEvents(read, asOf) # <<>>
    /\ LET r == LastRecord(read, asOf)
       IN  r.event = "ChildExited" /\ r.code # 0 /\ asOf - r.ts <= Day

ClassifyAutoRecovering(read, asOf, state) ==
    /\ state = "Running" /\ ServiceEvents(read, asOf) # <<>>
    /\ LET r == LastRecord(read, asOf)
       IN  r.event = "Throttled" /\ asOf - r.ts <= Delay + Grace

-----------------------------------------------------------------------------
(* Properties *)

\* The ticks between two instants at which a child was alive.
Alive(from, to) == Cardinality({t \in up : from <= t /\ t < to})

\* The child exited and its record is still to come.
Unrecorded == phase = "exited"

\* After a scan that no rotation crossed, the up-time of the window and of every daily
\* bucket is the real one, whatever spelling the records carry, however many are older
\* than the window or expired, and wherever the service went between the listing, the
\* clock and the read.  A supervisor that died without a record makes it too large,
\* never too small.
AvailabilityExact ==
    LET asOf == refresh.asOf
        True(shown, real) == shown = real \/ (crashed /\ shown > real)
        Exact(read, t) ==
            /\ True(UpTime(t.intervals, t.start, asOf), Alive(t.start, asOf))
            /\ \A i \in 0 .. (Days - 1) :
                LET b == Bucket(i, t, asOf)
                IN  True(UpTime(t.intervals, b.from, b.to), Alive(b.from, b.to))
            /\ WindowDays(t, asOf) * Day >= asOf - t.start
            /\ (\E i \in read : log[i].service \in Names /\ log[i].ts <= asOf - Window)
                    => t.start = asOf - Window
    IN  asOf # Unset /\ ~Unrecorded =>
            \A read \in Retained :
                LET t == Timeline(read, asOf, refresh.state)
                IN  ~t.unknown => Exact(read, t)

\* A scan that missed records can show an up-time that is wrong, too large or too small,
\* until the next refresh; yet the shown intervals lie one after the other within the
\* window, so that no bar and no total exceeds its time.  Which records are missed has
\* nothing to do with what the service does during the refresh.
AvailabilityPossible ==
    LET asOf == refresh.asOf
        Possible(t) ==
            /\ t.start \in (asOf - Window) .. asOf
            /\ \A i \in DOMAIN t.intervals :
                /\ t.intervals[i][1] < t.intervals[i][2] /\ t.intervals[i][2] <= asOf
                /\ t.intervals[i][1] >= IF i = 1 THEN t.start ELSE t.intervals[i - 1][2]
    IN  asOf # Unset /\ refresh.steps = 0 =>
            \A read \in SUBSET DOMAIN log : Possible(Timeline(read, asOf, refresh.state))

\* After a scan that no rotation crossed, a service that is counted as failed or as
\* recovering has no child when the log is read, and it is not counted twice; one that
\* waits for its restart is counted as recovering.
CountsTrue ==
    LET asOf == refresh.asOf
        Counted(read) ==
            LET failed == ClassifyFailed(read, asOf, refresh.state)
                recovering == ClassifyAutoRecovering(read, asOf, refresh.state)
            IN  /\ failed \/ recovering => phase # "up"
                /\ ~(failed /\ recovering)
                /\ phase = "waiting" /\ refresh.state = "Running" /\ now - exitTs <= Delay
                     /\ (\E i \in read : i = Len(log) /\ log[i].service \in Names)
                        => recovering
    IN  asOf = now => \A read \in Retained : Counted(read)

\* The dashboard shows what happened to the service: the availability and the daily
\* bars of compute_metrics are the time the child was up, wherever the records and
\* the listing can tell, and a service is counted as failed or as recovering
\* (compute_counts) only when it is.  That is so when no rotation of the log crosses the
\* scan (read_since takes no lock); of a scan that missed a file only
\* AvailabilityPossible is left.
DashboardTrue == AvailabilityExact /\ AvailabilityPossible /\ CountsTrue
=============================================================================
