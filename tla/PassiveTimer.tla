---------------------------- MODULE PassiveTimer ----------------------------
(***************************************************************************)
(* PassiveTimer.cpp: timers compared with a millisecond counter that wraps *)
(* around.  The range of the counter is twice halfMilliTimerRange (2^31).  *)
(***************************************************************************)
EXTENDS Integers

CONSTANT halfMilliTimerRange

ASSUME RangeAssumption == halfMilliTimerRange \in Nat /\ halfMilliTimerRange > 0

range == 2 * halfMilliTimerRange
Clock == 0..(range - 1)

\* Periods setMilliSeconds accepts; a longer one is a fatal error.
Periods == 0..(halfMilliTimerRange - 1)

\* uint32_t addition
Plus(time, period) ==
  IF time + period < range THEN time + period ELSE time + period - range

\* Slip: the comparison that ignores the wrap.
ExpiredUnlessWrapped(time, endTime) == time >= endTime

Expired(time, endTime) ==
  /\ ~(time >= halfMilliTimerRange /\ endTime < halfMilliTimerRange)
  /\ time >= endTime

\* Slip: the 1 of 0xffffffff - endTime + 1 + now is forgotten.
ElapsedTimeShort(now, endTime) ==
  IF now >= endTime THEN now - endTime ELSE (range - 1) - endTime + now

ElapsedTime(now, endTime) ==
  IF now >= endTime THEN now - endTime ELSE (range - 1) - endTime + 1 + now

=============================================================================
