-------------------------- MODULE CapacityForecast --------------------------
(***************************************************************************)
(* Disk samples of an instance and what is forecast of them (capacity.rs:   *)
(* collect_once, ls_slope_per_sec, forecast_series, overview; store.rs:     *)
(* capacity_insert, capacity_since, capacity_prune).  Samples are kept by   *)
(* instance name.  Time is in days and a day has at most one sample; sizes   *)
(* are integers and so is the arithmetic, with the fractions multiplied out. *)
(***************************************************************************)
EXTENDS Integers, Sequences, FiniteSets
LOCAL INSTANCE Functions

CONSTANTS
  Total,        \* size of the disk
  Rates,        \* growth of a disk per day
  MinSamples,   \* samples a forecast needs (7 in the code)
  MinSpan,      \* days they must span (3)
  Window,       \* days of samples that are read (30)
  Retention,    \* days a sample is kept (RDSCTL_CAP_RETENTION_DAYS)
  WarnDays,     \* RDSCTL_CAP_WARN_DAYS
  MaxTime,      \* bound: last day
  MaxDisks      \* bound: instances of the name, one after the other

VARIABLES
  now,
  used,       \* what the data takes on the master's disk
  rate,       \* how fast it grows: the same for as long as the instance lives
  running,    \* the instance's status says so
  disk,       \* which of the instances of this name it is
  samples     \* the rows of the name, oldest first: [ts, used, disk]

vars == <<now, used, rate, running, disk, samples>>

Init ==
  /\ now = 0 /\ used = 0 /\ rate \in Rates
  /\ running \in BOOLEAN
  /\ disk = 1
  /\ samples = <<>>

-----------------------------------------------------------------------------
(* The forecast. *)

SumOf(s, Term(_)) == FoldFunction(LAMBDA a, b : a + b, 0, [i \in DOMAIN s |-> Term(s[i])])

\* Mutant: the least squares of the samples' numbers, which lost samples leave no gap in.
SlopeByNumber(s) ==
  LET n == Len(s)
      xs == (n * (n + 1)) \div 2
      ys == SumOf(s, LAMBDA r : r.used)
      xy == FoldFunction(LAMBDA a, b : a + b, 0, [i \in DOMAIN s |-> i * s[i].used])
      xx == FoldFunction(LAMBDA a, b : a + b, 0, [i \in DOMAIN s |-> i * i])
  IN  [num |-> n * xy - xs * ys, den |-> n * xx - xs * xs]

\* Growth per day, as a fraction: least squares of use against time.
Slope(s) ==
  LET n == Len(s)
      xs == SumOf(s, LAMBDA r : r.ts)
      ys == SumOf(s, LAMBDA r : r.used)
      xy == SumOf(s, LAMBDA r : r.ts * r.used)
      xx == SumOf(s, LAMBDA r : r.ts * r.ts)
  IN  [num |-> n * xy - xs * ys, den |-> n * xx - xs * xs]

Enough(s) == Len(s) >= MinSamples /\ s[Len(s)].ts - s[1].ts >= MinSpan

CeilDiv(a, b) == (a + b - 1) \div b

\* Days from the last sample until nine tenths are full; nothing for a disk that does not
\* grow.
NoDays == -1
DaysTo90(s) ==
  LET g == Slope(s)
      need == 9 * Total - 10 * s[Len(s)].used
  IN  IF g.num <= 0 THEN NoDays
      ELSE IF need <= 0 THEN 0 ELSE CeilDiv(need * g.den, 10 * g.num)

\* The rows an overview reads.
Recent == SelectSeq(samples, LAMBDA r : r.ts >= now - Window)

\* overview: the instance is listed among the warnings.
Warned ==
  /\ running /\ Recent # <<>> /\ Enough(Recent)
  /\ DaysTo90(Recent) # NoDays /\ DaysTo90(Recent) <= WarnDays
  /\ 2 * Recent[Len(Recent)].used >= Total

-----------------------------------------------------------------------------
\* A round of the collector that finds the instance running and its container answering.
Collect ==
  /\ running
  /\ \A i \in DOMAIN samples : samples[i].ts < now
  /\ samples' = Append(samples, [ts |-> now, used |-> used, disk |-> disk])
  /\ UNCHANGED <<now, used, rate, running, disk>>

Prune ==
  /\ samples' = SelectSeq(samples, LAMBDA r : r.ts >= now - Retention)
  /\ UNCHANGED <<now, used, rate, running, disk>>

Day ==
  /\ now < MaxTime /\ now' = now + 1
  /\ LET next == used + rate IN used' = IF next > Total THEN Total ELSE next
  /\ UNCHANGED <<rate, running, disk, samples>>

\* An operation begins or ends.
StatusChange ==
  /\ running' = ~running
  /\ UNCHANGED <<now, used, rate, disk, samples>>

\* The instance is destroyed and another one of its name created: the samples stay.
Recreate ==
  /\ disk < MaxDisks /\ disk' = disk + 1
  /\ used' = 0 /\ rate' \in Rates
  /\ UNCHANGED <<now, running, samples>>

Next == Collect \/ Prune \/ Day \/ StatusChange \/ Recreate

Spec == Init /\ [][Next]_vars

-----------------------------------------------------------------------------
OwnSamples == \A i \in DOMAIN Recent : Recent[i].disk = disk

\* The first day, counted from the last sample, on which a disk that goes on growing is
\* nine tenths full.
FullOn(u) ==
  IF 10 * u >= 9 * Total THEN 0
  ELSE CHOOSE d \in 1 .. 9 * Total : /\ 10 * (u + d * rate) >= 9 * Total
                                     /\ 10 * (u + (d - 1) * rate) < 9 * Total

\* Of a disk that grows at one pace the forecast is the truth, whichever samples were
\* lost, pruned or never taken: the day is right, and a warning is there when that day is
\* near and the disk half full, and only then.  A disk that is full grows no more and one
\* that was full when sampled is left out.
ForecastIsTrue ==
  LET s == Recent
      last == s[Len(s)].used
  IN  (running /\ s # <<>> /\ Enough(s) /\ OwnSamples /\ last < Total) =>
        IF rate = 0 THEN DaysTo90(s) = NoDays /\ ~Warned
        ELSE /\ DaysTo90(s) = FullOn(last)
             /\ Warned <=> (FullOn(last) <= WarnDays /\ 2 * last >= Total)

\* A warning is about the disk the instance has.
WarnsOfOwnDisk == Warned => \E i \in DOMAIN Recent : Recent[i].disk = disk
=============================================================================
