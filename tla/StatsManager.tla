---------------------------- MODULE StatsManager ----------------------------
(***************************************************************************)
(* The harvest of statistics: StatsManager::service is called once per     *)
(* pass of the program's loop and, when its timer has expired, has every   *)
(* StatCounter publish its count and its rate since the last harvest.  The *)
(* millisecond clock and the counters wrap around.                         *)
(*                                                                         *)
(* trueElapsed, trueEvents, due and catchingUp are what really happens;    *)
(* the program knows only the wrapped numbers.                             *)
(***************************************************************************)
EXTENDS PassiveTimer

CONSTANTS
  statsUpdateTimeInterval,  \* in milliseconds
  CounterRange,             \* 2^32
  MaxGap,                   \* longest time between two calls of service
  MaxEvents,                \* most events in a millisecond
  MaxOverdue                \* bound on how late the model follows a missed timer

ASSUME IntervalAssumption == statsUpdateTimeInterval \in Periods \ {0}
ASSUME CounterAssumption == CounterRange \in Nat \ {0} /\ MaxEvents \in Nat
ASSUME GapAssumption == MaxGap \in Clock
ASSUME OverdueAssumption == MaxOverdue \in Nat

VARIABLES
  time,             \* millis()
  statsUpdateTimer,
  lastHarvestTime,
  count, lastIntervalCount,   \* of a StatCounter
  msElapsed, countInInterval, \* the numbers of its update, if this call harvests
  harvested,        \* did this call of service harvest?
  due,              \* milliseconds until the timer should expire
  trueElapsed,      \* milliseconds since the harvest before this call,
  trueEvents,       \* and the events in them
  catchingUp        \* since a pass longer than the interval, has every call harvested?

vars == <<time, statsUpdateTimer, lastHarvestTime, count, lastIntervalCount, msElapsed,
          countInInterval, harvested, due, trueElapsed, trueEvents, catchingUp>>

Init ==
  /\ time \in Clock
  /\ statsUpdateTimer = Plus(time, statsUpdateTimeInterval)
  /\ lastHarvestTime = time
  /\ count = 0 /\ lastIntervalCount = 0
  /\ msElapsed = 0 /\ countInInterval = 0
  /\ harvested = FALSE
  /\ due = statsUpdateTimeInterval
  /\ trueElapsed = 0 /\ trueEvents = 0
  /\ catchingUp = FALSE

\* The subtraction in StatCounter::update
CountSince(total, last) ==
  IF total < last THEN CounterRange - 1 - last + 1 + total ELSE total - last

\* Slip: the timer keeps its end time.
Unadvanced(endTime) == endTime

Advanced(endTime) == Plus(endTime, statsUpdateTimeInterval)

\* StatsManager::service when the timer has expired, with the update of a counter.
Harvest(now, total) ==
  /\ msElapsed' = ElapsedTime(now, lastHarvestTime)
  /\ countInInterval' = CountSince(total, lastIntervalCount)
  /\ lastIntervalCount' = total
  /\ lastHarvestTime' = now
  /\ statsUpdateTimer' = Advanced(statsUpdateTimer)
  /\ harvested' = TRUE

\* After `gap' milliseconds and `events' events the loop calls service again.
Service(gap, events) ==
  LET now == Plus(time, gap)
      total == (count + events) % CounterRange
  IN /\ due > -MaxOverdue
     /\ time' = now
     /\ count' = total
     /\ trueElapsed' = gap + (IF harvested THEN 0 ELSE trueElapsed)
     /\ trueEvents' = events + (IF harvested THEN 0 ELSE trueEvents)
     /\ \/ /\ Expired(now, statsUpdateTimer)
           /\ Harvest(now, total)
           /\ due' = due - gap + statsUpdateTimeInterval
           /\ catchingUp' = (catchingUp \/ gap > statsUpdateTimeInterval)
        \/ /\ ~Expired(now, statsUpdateTimer)
           /\ harvested' = FALSE /\ catchingUp' = FALSE
           /\ due' = due - gap
           /\ msElapsed' = 0 /\ countInInterval' = 0
           /\ UNCHANGED <<lastIntervalCount, lastHarvestTime, statsUpdateTimer>>

Next == \E gap \in 0..MaxGap : \E events \in 0..(gap * MaxEvents) : Service(gap, events)

Spec == Init /\ [][Next]_vars

-----------------------------------------------------------------------------
(* Properties *)

\* No harvest comes before its time: the k-th one not before k intervals.
NeverEarly == harvested => due <= statsUpdateTimeInterval

\* The rate is computed from the true interval and the true number of events,
\* though the clock and the counter wrap around (exactly, if the timer was not
\* missed for a whole range of the clock).  The interval is empty, which makes
\* StatCounter::update divide by zero, only when two harvests come in the same
\* millisecond; the second one then makes up for a pass of the loop that was
\* longer than the interval, and there was no call without a harvest since.
RatesTrue ==
  harvested => /\ msElapsed = trueElapsed % range
               /\ countInInterval = trueEvents % CounterRange
               /\ trueElapsed = 0 => catchingUp

=============================================================================
