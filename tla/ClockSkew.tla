------------------------------ MODULE ClockSkew ------------------------------
(***************************************************************************)
(* How two consensus nodes measure how far their clocks are apart (raft.rs: *)
(* observe_clock to skew_exceeded), which leases depend on: a node that     *)
(* measures more than max_skew grants none.                                 *)
(*                                                                          *)
(* A message carries its sender's time.  The sender of a request learns of  *)
(* the round trip from the response and corrects for half of it; a leader   *)
(* tells its follower, who cannot, what it found.  A window of samples is   *)
(* kept of each peer, and samples that are too old are not used: since they *)
(* are the first to leave a window, they are taken out here when they age.  *)
(***************************************************************************)
EXTENDS Integers, SequencesExt, FiniteSetsExt

CONSTANTS
  Offsets,        \* bound: what the follower's clock may be ahead of the leader's
  Delays,         \* bound: the delays of messages
  MaxSkew,        \* max_skew_ms
  Window, Ttl,    \* CLOCK_SAMPLE_WINDOW, CLOCK_SAMPLE_TTL_MS
  MinSamples,     \* CLOCK_VIOLATION_MIN_SAMPLES
  CorrectionCap,  \* CLOCK_RTT_CORRECTION_CAP_MS
  None

ClockAssumption ==
  /\ Offsets \subseteq Int /\ Delays \subseteq Nat
  /\ MaxSkew \in Nat /\ CorrectionCap \in Nat
  /\ Window \in Nat \ {0} /\ MinSamples \in Nat \ {0}

Sides == {"leader", "follower"}

VARIABLES
  offset,   \* of the follower's clock to the leader's
  samples   \* each side's window: [offset, rtt, age, err]; err is history, how far the
            \* sample may be off given the delays of its messages

vars == <<offset, samples>>

Init == offset \in Offsets /\ samples = [n \in Sides |-> <<>>]

Abs(i) == IF i < 0 THEN -i ELSE i
Ahead(n) == IF n = "leader" THEN offset ELSE -offset   \* the peer of n, to n

-----------------------------------------------------------------------------
(* Samples. *)

OneWay(n, d) == [offset |-> Ahead(n) - d, rtt |-> 0, age |-> 0, err |-> d]

RoundTrip(n, out, back) ==
  LET rtt == out + back IN
  [offset |-> Ahead(n) - back + Min({rtt \div 2, CorrectionCap}), rtt |-> rtt, age |-> 0,
   err |-> Max({(rtt + 1) \div 2, rtt - CorrectionCap})]

\* push_sample
Push(window, s) ==
  Append(IF Len(window) >= Window THEN Tail(window) ELSE window, s)

RoundTrips(n) == {s \in Range(samples[n]) : s.rtt > 0}

\* Mutant: the smallest offset of all.
UsedSmallest(n) ==
  LET all == Range(samples[n]) IN
  {s \in all : \A r \in all : Abs(s.offset) <= Abs(r.offset)}

\* The samples peer_offset_filtered may take: of the shortest round trip, or with the
\* smallest offset when there is none.
Used(n) ==
  LET all == Range(samples[n]) IN
  IF RoundTrips(n) # {} THEN {s \in RoundTrips(n) : \A r \in RoundTrips(n) : s.rtt <= r.rtt}
  ELSE {s \in all : \A r \in all : Abs(s.offset) <= Abs(r.offset)}

\* The first of those, if any.
Filtered(n) ==
  IF samples[n] = <<>> THEN None
  ELSE samples[n][CHOOSE i \in DOMAIN samples[n] :
         /\ samples[n][i] \in Used(n)
         /\ \A j \in 1 .. i - 1 : samples[n][j] \notin Used(n)]

SkewExceeded(n) ==
  Len(samples[n]) >= MinSamples /\ Abs(Filtered(n).offset) > MaxSkew

-----------------------------------------------------------------------------
(* Messages. *)

\* RequestVote, either way.
Vote(n, d) ==
  /\ samples' = [samples EXCEPT ![n] = Push(@, OneWay(n, d))]
  /\ UNCHANGED offset

\* What a heartbeat tells the follower: the leader's estimate unless that is zero.
Told(d) ==
  LET est == Filtered("leader") IN
  IF est # None /\ est.offset # 0
    THEN [offset |-> Abs(est.offset), rtt |-> 0, age |-> 0, err |-> est.err]
    ELSE OneWay("follower", d)

\* A heartbeat and its response, which may be lost.
Heartbeat(out, back) ==
  /\ samples' \in
       LET heard == [samples EXCEPT !["follower"] = Push(@, Told(out))] IN
       {heard, [heard EXCEPT !["leader"] = Push(@, RoundTrip("leader", out, back))]}
  /\ UNCHANGED offset

\* The samples that become too old are the first of the window.
Aged(window) ==
  LET old == Cardinality({i \in DOMAIN window : window[i].age >= Ttl}) IN
  [i \in 1 .. Len(window) - old |-> [window[i + old] EXCEPT !.age = @ + 1]]

Elapse ==
  /\ samples' = [n \in Sides |-> Aged(samples[n])]
  /\ samples' # samples
  /\ UNCHANGED offset

Next ==
  \/ \E n \in Sides, d \in Delays : Vote(n, d)
  \/ \E out, back \in Delays : Heartbeat(out, back)
  \/ Elapse

Spec == Init /\ [][Next]_vars

-----------------------------------------------------------------------------
\* A clock in bounds is not taken for one out of bounds (raft.rs: one message that was
\* late must not stop leases), unless every sample of the kind that is used was late by
\* more than what is left up to the bound.
NoFalseAlarm ==
  \A n \in Sides :
    SkewExceeded(n) =>
      \/ Abs(offset) > MaxSkew
      \/ \A s \in (IF RoundTrips(n) # {} THEN RoundTrips(n) ELSE Range(samples[n])) :
           s.err > MaxSkew - Abs(offset)

\* A clock out of bounds is found by whoever can measure round trips, as soon as one of
\* them was short enough to tell.
SkewIsFound ==
  \A n \in Sides :
    (Len(samples[n]) >= MinSamples /\ \E s \in RoundTrips(n) : s.err < Abs(offset) - MaxSkew)
      => SkewExceeded(n)

SkewVerdict == NoFalseAlarm /\ SkewIsFound

\* raft.rs takes a sample without a round trip for an upper bound of the offset.
OneWayIsUpperBound ==
  \A n \in Sides :
    RoundTrips(n) = {} /\ samples[n] # <<>> => Abs(offset) <= Abs(Filtered(n).offset)
=============================================================================
