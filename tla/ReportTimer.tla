----------------------------- MODULE ReportTimer -----------------------------
(***************************************************************************)
(* The timer that writes reports (report.rs: start, generate; insights.rs:  *)
(* period_since, compose_report).  Every replica that has it on runs its    *)
(* own: it sleeps a minute, looks at the clock, and at one minute of the    *)
(* day writes the daily report and, on Mondays, the weekly one.  Flags in   *)
(* memory keep it from writing twice.  What a report says of an audit row   *)
(* is that it lies in the report's window.                                  *)
(*                                                                          *)
(* Time is in minutes, and a minute of a window is whole: what happens      *)
(* within the minute of a report is counted as covered.                     *)
(***************************************************************************)
EXTENDS Integers, FiniteSets

CONSTANTS
  Processes,     \* replicas with RDSCTL_REPORT_ENABLED=1
  DayMinutes,    \* minutes of a day (1440 in the code)
  WeekDays,      \* days of a week (7)
  Target,        \* the minute of the day (RDSCTL_REPORT_HHMM)
  Retention,     \* days a report is kept (RDSCTL_REPORT_RETENTION_DAYS)
  MaxTime,       \* bound: last minute
  MaxMisses,     \* bound: wakes that come a minute late
  MaxRestarts,   \* bound
  MaxByHand,     \* bound: reports in the table that were asked for by hand
  None

Types == {"daily", "weekly"}

VARIABLES
  now,
  wake,         \* each process: the minute its loop wakes at
  flag,         \* daily_day and weekly_day of each loop, or None
  pruned,       \* prune_hour of each loop (an hour is a minute here), or None
  reports,      \* the table: [by, rtype, since, at]
  steady,       \* history: processes that never restarted nor woke late
  misses, restarts

vars == <<now, wake, flag, pruned, reports, steady, misses, restarts>>

NoFlags == [r \in Types |-> None]

Init ==
  /\ now = 0
  /\ wake = [p \in Processes |-> 1]
  /\ flag = [p \in Processes |-> NoFlags]
  /\ pruned = [p \in Processes |-> None]
  /\ reports = {}
  /\ steady = Processes
  /\ misses = 0 /\ restarts = 0

DayOf(t) == t \div DayMinutes
MinuteOf(t) == t % DayMinutes
IsMonday(t) == (DayOf(t) + 3) % WeekDays = 0

-----------------------------------------------------------------------------
\* Where the window of a report begins: this day's first minute, or a week ago.
Since(rtype, t) ==
  IF rtype = "daily" THEN t - MinuteOf(t)
  ELSE LET ago == t - WeekDays * DayMinutes IN IF ago < 0 THEN 0 ELSE ago

\* compose_report: what happened at t is in a report of the table.
Covered(t, rtype) == \E r \in reports : r.rtype = rtype /\ r.since <= t /\ t <= r.at

\* generate: the audit rows since then, what instances, slow statements, disks and alerts
\* look like now, and one row.
Generated(p, rtype) == [by |-> p, rtype |-> rtype, since |-> Since(rtype, now), at |-> now]

Due(p) ==
  IF MinuteOf(now) # Target THEN {}
  ELSE {r \in Types : flag[p][r] # DayOf(now) /\ (r = "weekly" => IsMonday(now))}

Expired(t) == {r \in reports : r.at < t - Retention * DayMinutes}

\* One round of the loop.  The next comes a minute after its end, which may be in the
\* minute after the next.
Wake(p) ==
  /\ wake[p] = now
  /\ LET due == Due(p)
         written == reports \cup {Generated(p, r) : r \in due}
     IN  /\ flag' = [flag EXCEPT ![p] = [r \in Types |-> IF r \in due THEN DayOf(now) ELSE @[r]]]
         /\ reports' = IF pruned[p] # now THEN written \ Expired(now) ELSE written
  /\ pruned' = [pruned EXCEPT ![p] = now]
  /\ \/ /\ wake' = [wake EXCEPT ![p] = now + 1]
        /\ UNCHANGED <<misses, steady>>
     \/ /\ misses < MaxMisses /\ misses' = misses + 1
        /\ wake' = [wake EXCEPT ![p] = now + 2]
        /\ steady' = steady \ {p}
  /\ UNCHANGED <<now, restarts>>

\* A report asked for by hand.
RunNow(rtype) ==
  /\ Cardinality({r \in reports : r.by = None}) < MaxByHand
  /\ reports' = reports \cup {Generated(None, rtype)}
  /\ UNCHANGED <<now, wake, flag, pruned, steady, misses, restarts>>

Restart(p) ==
  /\ restarts < MaxRestarts /\ restarts' = restarts + 1
  /\ flag' = [flag EXCEPT ![p] = NoFlags]
  /\ pruned' = [pruned EXCEPT ![p] = None]
  /\ wake' = [wake EXCEPT ![p] = now + 1]
  /\ steady' = steady \ {p}
  /\ UNCHANGED <<now, reports, misses>>

Tick ==
  /\ now < MaxTime
  /\ \A p \in Processes : wake[p] > now
  /\ now' = now + 1
  /\ UNCHANGED <<wake, flag, pruned, reports, steady, misses, restarts>>

Next ==
  \/ \E p \in Processes : Wake(p) \/ Restart(p)
  \/ \E r \in Types : RunNow(r)
  \/ Tick

Spec == Init /\ [][Next]_vars

-----------------------------------------------------------------------------
Kept(t) == t >= now - Retention * DayMinutes

\* "today = from 00:00, which is about the last natural day" (report.rs, generate): once
\* the report of the day after is written, a minute is in a daily report.
DaysAreReported ==
  steady # {} =>
    \A m \in 0 .. now - 1 :
      (MinuteOf(m) = Target /\ DayOf(m) > 0 /\ Kept(m)) =>
        \A t \in m - DayMinutes .. m : Covered(t, "daily")
=============================================================================
