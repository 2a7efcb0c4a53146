---------------------------- MODULE SpikeThrottle ----------------------------
(***************************************************************************)
(* SpikeThrottle for one project of one process: a ring of counters, one   *)
(* a minute, a cached copy of the project's spike_protection, the events   *)
(* that ask Allow, and the cleanup that drops an old ring. A ring lives on *)
(* in the hands of an event that took it before it was dropped.            *)
(***************************************************************************)
EXTENDS Integers, Sequences, FiniteSetsExt

CONSTANTS Events,
          BaselineWindow, SpikeMultiplier, MinBaselineCount,
          Minute, TTL,     \* a minute and enabledCacheTTL, in ticks
          MaxNow, MaxSent, \* bounds on the clock and on the events
          Strides,         \* the steps of the clock, in ticks
          ChangeTimes      \* when the API may turn spike protection on or off

Last == BaselineWindow  \* the index of the last of len(pb.counts) counters
Minutes == 0..MaxNow \div Minute

VARIABLES spNow,
          spOn,     \* the column, and when it changed last
          spEntry,  \* enabledCache: the flag, and when it expires
          spRing,   \* buckets: the number of the project's ring, 0 for none
          spRings,  \* spRings[n]: the minute of counts[0] and the counters of ring n
          spEvent,  \* spEvent[e]: the step of Allow, the time it read, its flag, its ring
          spSent,
          spCount,  \* history: spCount[m]: events of minute m counted in a ring still in use
          spOdd     \* history: an answer other than the definition of a spike gives

vars == <<spNow, spOn, spEntry, spRing, spRings, spEvent, spSent, spCount, spOdd>>
flagVars == <<spOn, spEntry>>
countVars == <<spRing, spRings, spCount, spOdd>>

Idle == [pc |-> "idle", t |-> 0, on |-> FALSE, ring |-> 0]
Now == spNow \div Minute
NewRing(m) == [start |-> m, counts |-> [i \in 0..Last |-> 0]]

Init ==
  /\ spNow = 0
  /\ spOn = [on |-> TRUE, since |-> 0]
  /\ spEntry = [on |-> FALSE, expires |-> 0]
  /\ spRing = 0 /\ spRings = <<>>
  /\ spEvent = [e \in Events |-> Idle] /\ spSent = 0
  /\ spCount = [m \in Minutes |-> 0]
  /\ spOdd = FALSE

Goes(e, pc) == spEvent' = [spEvent EXCEPT ![e].pc = pc]
Done(e) == spEvent' = [spEvent EXCEPT ![e] = Idle]

-----------------------------------------------------------------------------
\* isEnabled: a flag that has not expired is used; one that is off allows the event.
IsEnabled(e) ==
  /\ spEvent[e].pc = "idle" /\ spSent < MaxSent
  /\ spSent' = spSent + 1
  /\ spEvent' = [spEvent EXCEPT ![e] =
       IF spEntry.expires <= spNow THEN [Idle EXCEPT !.pc = "query", !.t = spNow]
       ELSE IF spEntry.on THEN [Idle EXCEPT !.pc = "clock"] ELSE Idle]
  /\ UNCHANGED <<spNow, flagVars, countVars>>

Query(e) ==
  /\ spEvent[e].pc = "query"
  /\ spEvent' = [spEvent EXCEPT ![e] = [@ EXCEPT !.pc = "store", !.on = spOn.on]]
  /\ UNCHANGED <<spNow, spSent, flagVars, countVars>>

\* A query that fails allows the event.
QueryFails(e) ==
  /\ spEvent[e].pc = "query"
  /\ Done(e)
  /\ UNCHANGED <<spNow, spSent, flagVars, countVars>>

\* Variant: the flag lives for TTL from when it is stored.
StoreFlagFromNow(e) ==
  /\ spEvent[e].pc = "store"
  /\ spEntry' = [on |-> spEvent[e].on, expires |-> spNow + TTL]
  /\ IF spEvent[e].on THEN Goes(e, "clock") ELSE Done(e)
  /\ UNCHANGED <<spNow, spSent, spOn, countVars>>
\* The flag lives for TTL from the time read before the query.
StoreFlag(e) ==
  /\ spEvent[e].pc = "store"
  /\ spEntry' = [on |-> spEvent[e].on, expires |-> spEvent[e].t + TTL]
  /\ IF spEvent[e].on THEN Goes(e, "clock") ELSE Done(e)
  /\ UNCHANGED <<spNow, spSent, spOn, countVars>>

\* curMin, which the rest of Allow uses.
ReadClock(e) ==
  /\ spEvent[e].pc = "clock"
  /\ spEvent' = [spEvent EXCEPT ![e] = [@ EXCEPT !.pc = "ring", !.t = Now]]
  /\ UNCHANGED <<spNow, spSent, flagVars, countVars>>

\* getOrCreateBuckets: a new ring begins with the minute of a second look at the clock.
GetOrCreateBuckets(e) ==
  /\ spEvent[e].pc = "ring"
  /\ IF spRing # 0 THEN UNCHANGED <<spRing, spRings>>
     ELSE /\ spRings' = Append(spRings, NewRing(Now))
          /\ spRing' = Len(spRings')
  /\ spEvent' = [spEvent EXCEPT ![e] = [@ EXCEPT !.pc = "count", !.ring = spRing']]
  /\ UNCHANGED <<spNow, spSent, flagVars, spCount, spOdd>>

-----------------------------------------------------------------------------
\* Variant: the counters that become free keep their old values.
advanceBucketsStale(ring, m) ==
  LET shift == m - (ring.start + Last)
  IN  IF shift <= 0 THEN ring
      ELSE IF shift > Last THEN NewRing(m - Last)
      ELSE [start |-> ring.start + shift,
            counts |-> [i \in 0..Last |-> ring.counts[IF i + shift <= Last THEN i + shift ELSE i]]]

\* Shifted so that m is the last minute, unless it is in the ring already.
advanceBuckets(ring, m) ==
  LET shift == m - (ring.start + Last)
  IN  IF shift <= 0 THEN ring
      ELSE IF shift > Last THEN NewRing(m - Last)
      ELSE [start |-> ring.start + shift,
            counts |-> [i \in 0..Last |-> IF i + shift <= Last THEN ring.counts[i + shift] ELSE 0]]

\* The average of every counter but the i-th.
Baseline(ring, i) ==
  MapThenSumSet(LAMBDA j : ring.counts[j], (0..Last) \ {i}) \div BaselineWindow

\* The counters after the event, and whether it is admitted.
Admits(ring, i) ==
  Baseline(ring, i) >= MinBaselineCount => ring.counts[i] <= Baseline(ring, i) * SpikeMultiplier

\* The definition: more events in a minute than a multiple of the average of the
\* minutes before it.
IsSpike(count, m) ==
  LET past == MapThenSumSet(LAMBDA k : count[k], {k \in Minutes : m - BaselineWindow <= k /\ k < m})
      baseline == past \div BaselineWindow
  IN  baseline >= MinBaselineCount /\ count[m] > baseline * SpikeMultiplier

\* The rest of Allow, under the ring's mutex. An event whose minute lies before the ring
\* is allowed and not counted.
Count(e) ==
  /\ spEvent[e].pc = "count"
  /\ LET n == spEvent[e].ring
         m == spEvent[e].t
         ring == advanceBuckets(spRings[n], m)
         i == m - ring.start
         next == [ring EXCEPT !.counts[i] = @ + 1]
         late == n # spRing \/ \E k \in (i + 1)..Last : ring.counts[k] > 0
     IN  IF i < 0 THEN spRings' = [spRings EXCEPT ![n] = ring] /\ UNCHANGED <<spCount, spOdd>>
         ELSE /\ spRings' = [spRings EXCEPT ![n] = next]
              /\ spCount' = IF n = spRing THEN [spCount EXCEPT ![m] = @ + 1] ELSE spCount
              /\ spOdd' = (spOdd \/ (~late /\ Admits(next, i) = IsSpike(spCount', m)))
  /\ Done(e)
  /\ UNCHANGED <<spNow, spSent, flagVars, spRing>>

\* cleanup drops a ring that ended two windows ago, and a flag that has expired.
Cleanup ==
  /\ spRing # 0 /\ Now - (spRings[spRing].start + Last) > 2 * BaselineWindow
  /\ spRing' = 0
  /\ spEntry' = IF spEntry.expires < spNow THEN [on |-> FALSE, expires |-> 0] ELSE spEntry
  /\ UNCHANGED <<spNow, spOn, spRings, spEvent, spSent, spCount, spOdd>>

\* The API turns spike protection on or off.
SetSpikeProtection ==
  /\ spNow \in ChangeTimes
  /\ spOn' = [on |-> ~spOn.on, since |-> spNow]
  /\ UNCHANGED <<spNow, spEntry, spEvent, spSent, countVars>>

Tick ==
  /\ \E d \in Strides : spNow + d <= MaxNow /\ spNow' = spNow + d
  /\ UNCHANGED <<spEvent, spSent, flagVars, countVars>>

\* The bounds are reached and no event is at work.
Over ==
  /\ spNow = MaxNow /\ spSent = MaxSent
  /\ \A e \in Events : spEvent[e].pc = "idle"
  /\ UNCHANGED vars

Next ==
  \/ \E e \in Events :
       \/ IsEnabled(e) \/ Query(e) \/ QueryFails(e) \/ StoreFlag(e)
       \/ ReadClock(e) \/ GetOrCreateBuckets(e) \/ Count(e)
  \/ Cleanup \/ SetSpikeProtection \/ Tick \/ Over

Spec == Init /\ [][Next]_vars

-----------------------------------------------------------------------------
\* Properties

\* Every variable has its type.
TypeOK ==
  /\ spNow \in 0..MaxNow /\ spSent \in 0..MaxSent /\ spOdd \in BOOLEAN
  /\ spOn \in [on : BOOLEAN, since : 0..MaxNow]
  /\ spEntry \in [on : BOOLEAN, expires : 0..MaxNow + TTL]
  /\ spRing \in 0..Len(spRings)
  /\ \A n \in 1..Len(spRings) :
       spRings[n] \in [start : Minutes \cup (-Last..0), counts : [0..Last -> 0..MaxSent]]
  /\ spEvent \in [Events -> [pc : {"idle", "query", "store", "clock", "ring", "count"},
                             t : 0..MaxNow, on : BOOLEAN, ring : 0..Len(spRings)]]
  /\ spCount \in [Minutes -> 0..MaxSent]

\* Allow refuses an event when its minute has more than spikeMultiplier times the average
\* of the baselineWindow minutes before it, as counted, and admits it otherwise: through
\* idle minutes, rings that are shifted, reset, dropped and begun again. Except when the
\* event's minute has been overtaken by a later one in the ring, or its ring was dropped.
SpikesAsDefined == ~spOdd

\* A flag that differs from the project's is used for less than its time to live after
\* the change, whichever queries were slow to store theirs.
FlagTakesHold ==
  spNow < spEntry.expires /\ spEntry.on # spOn.on => spNow < spOn.since + TTL

=============================================================================
