-------------------------- MODULE StatsManager_proofs --------------------------
(***************************************************************************)
(* What the comparisons of PassiveTimer.cpp get right, for every range;    *)
(* with them, that the harvests of StatsManager are never early, for every *)
(* range of the clock, every interval and any time between two calls of    *)
(* service.                                                                *)
(***************************************************************************)
EXTENDS StatsManager, TLAPS

-----------------------------------------------------------------------------
(* PassiveTimer *)

\* The clock, in numbers.
LEMMA ClockFacts ==
  /\ range \in Nat /\ range = halfMilliTimerRange + halfMilliTimerRange
  /\ \A t : t \in Clock <=> t \in Int /\ 0 <= t /\ t < range
  /\ \A period : period \in Periods <=> period \in Int /\ 0 <= period /\ period < halfMilliTimerRange
  BY RangeAssumption DEF range, Clock, Periods

\* Addition stays within the counter.
THEOREM PlusStays ==
  \A t, period \in Clock : Plus(t, period) \in Clock
  BY ClockFacts DEF Plus

\* A timer never expires early: `expired' is false at every time before the
\* period is over, wherever the counter wraps.
THEOREM NeverExpiresEarly ==
  ASSUME NEW start \in Clock, NEW period \in Periods, NEW passed \in Nat, passed < period
  PROVE  ~Expired(Plus(start, passed), Plus(start, period))
<1>1. /\ start \in Int /\ 0 <= start /\ start < range
      /\ period \in Int /\ period < halfMilliTimerRange
      /\ halfMilliTimerRange \in Int /\ range = halfMilliTimerRange + halfMilliTimerRange
  BY ClockFacts, RangeAssumption
<1>2. CASE start + period < range
  BY <1>1, <1>2 DEF Expired, Plus
<1>3. CASE start + passed >= range
  BY <1>1, <1>3 DEF Expired, Plus
<1>4. CASE start + passed < range /\ start + period >= range
  <2>1. Plus(start, passed) >= halfMilliTimerRange /\ Plus(start, period) < halfMilliTimerRange
    BY <1>1, <1>4 DEF Plus
  <2> QED BY <2>1 DEF Expired
<1> QED BY <1>1, <1>2, <1>3, <1>4

\* A timer polled after its end has expired if the counter has not passed one
\* of the two boundaries, the middle and the end of its range, since the end.
THEOREM ExpiresWithinHalf ==
  ASSUME NEW endTime \in Clock, NEW late \in Nat, endTime + late < range,
         endTime >= halfMilliTimerRange \/ endTime + late < halfMilliTimerRange
  PROVE  Expired(Plus(endTime, late), endTime)
  BY ClockFacts, RangeAssumption DEF Expired, Plus

\* A timer first polled after the counter has passed a boundary is not seen to
\* be expired, however late the poll is, until the counter is back at its end.
THEOREM MissedAtBoundary ==
  ASSUME NEW endTime \in Clock, NEW late \in Clock,
         \/ endTime < halfMilliTimerRange /\ endTime + late >= halfMilliTimerRange
         \/ endTime >= halfMilliTimerRange /\ endTime + late >= range
  PROVE  ~Expired(Plus(endTime, late), endTime)
<1>1. /\ endTime \in Int /\ 0 <= endTime /\ endTime < range
      /\ late \in Int /\ 0 <= late /\ late < range
      /\ halfMilliTimerRange \in Int /\ range = halfMilliTimerRange + halfMilliTimerRange
  BY ClockFacts, RangeAssumption
<1>2. CASE endTime + late < range
  BY <1>1, <1>2 DEF Expired, Plus
<1>3. CASE endTime + late >= range
  BY <1>1, <1>3 DEF Expired, Plus
<1> QED BY <1>1, <1>2, <1>3

\* elapsedTime is exact for any time shorter than the range.
THEOREM ElapsedTimeExact ==
  ASSUME NEW start \in Clock, NEW passed \in Clock
  PROVE  ElapsedTime(Plus(start, passed), start) = passed
  BY ClockFacts, RangeAssumption DEF ElapsedTime, Plus

-----------------------------------------------------------------------------
(* StatsManager *)

Typed ==
  /\ time \in Clock
  /\ statsUpdateTimer \in Clock
  /\ due \in Int

\* A time a after now is shown by the counter as b, `now' being shown as t.
Shows(t, a, b) == \E turns \in Int : t + a = b + turns * range

\* The timer stands at the time at which the next harvest is due.
TimerTrue == Shows(time, due, statsUpdateTimer)

Inv == Typed /\ TimerTrue /\ due <= statsUpdateTimeInterval

\* Adding to a shown time shows the sum.
LEMMA ShowsPlus ==
  ASSUME NEW t \in Clock, NEW a \in Int, NEW b \in Clock, NEW period \in Clock,
         Shows(t, a, b)
  PROVE  /\ Shows(t, a + period, Plus(b, period))
         /\ Shows(Plus(t, period), a - period, b)
<1>0. range \in Int /\ t \in Int /\ b \in Int /\ period \in Int
  BY ClockFacts
<1>1. PICK turns \in Int : t + a = b + turns * range
  BY DEF Shows
<1> DEFINE whole == turns * range
<1>2. /\ whole \in Int
      /\ (turns + 1) * range = whole + range /\ (turns - 1) * range = whole - range
  BY <1>0
<1>3. t + a = b + whole
  BY <1>1
<1>4. Shows(t, a + period, Plus(b, period))
  <2>1. CASE b + period < range
    <3>1. t + (a + period) = Plus(b, period) + turns * range
      BY <1>0, <1>1, <2>1 DEF Plus
    <3> QED BY <3>1 DEF Shows
  <2>2. CASE b + period >= range
    <3> HIDE DEF whole
    <3>1. t + (a + period) = Plus(b, period) + (turns + 1) * range
      BY <1>0, <1>2, <1>3, <2>2 DEF Plus
    <3>2. turns + 1 \in Int
      OBVIOUS
    <3> QED BY <3>1, <3>2 DEF Shows
  <2> QED BY <1>0, <2>1, <2>2
<1>5. Shows(Plus(t, period), a - period, b)
  <2>1. CASE t + period < range
    <3>1. Plus(t, period) + (a - period) = b + turns * range
      BY <1>0, <1>1, <2>1 DEF Plus
    <3> QED BY <3>1 DEF Shows
  <2>2. CASE t + period >= range
    <3> HIDE DEF whole
    <3>1. Plus(t, period) + (a - period) = b + (turns - 1) * range
      BY <1>0, <1>2, <1>3, <2>2 DEF Plus
    <3>2. turns - 1 \in Int
      OBVIOUS
    <3> QED BY <3>1, <3>2 DEF Shows
  <2> QED BY <1>0, <2>1, <2>2
<1> QED BY <1>4, <1>5

\* The counter shows what is less than half its range ahead at one place only.
LEMMA ShownOnce ==
  ASSUME NEW t \in Clock, NEW a \in Periods, NEW b \in Clock, Shows(t, a, b)
  PROVE  b = Plus(t, a)
<1>0. /\ range \in Nat /\ range > 0 /\ t \in Int /\ b \in Int /\ a \in Int
      /\ 0 <= t /\ t < range /\ 0 <= b /\ b < range /\ 0 <= a /\ a < range
  BY ClockFacts, RangeAssumption
<1>1. PICK turns \in Int : t + a = b + turns * range
  BY DEF Shows
<1> DEFINE whole == turns * range
<1>2. whole \in Int /\ t + a = b + whole
  BY <1>0, <1>1
<1>3. turns <= -1 => whole <= 0 - range
  BY <1>0
<1>4. turns >= 2 => whole >= range + range
  BY <1>0
<1>5. turns = 0 => whole = 0
  BY <1>0
<1>6. turns = 1 => whole = range
  BY <1>0
<1> HIDE DEF whole
<1>7. turns = 0 \/ turns = 1
  BY <1>0, <1>2, <1>3, <1>4
<1> QED BY <1>0, <1>2, <1>5, <1>6, <1>7 DEF Plus

LEMMA InvInit == Init => Inv
<1> SUFFICES ASSUME Init PROVE Inv
  OBVIOUS
<1>1. time \in Clock /\ statsUpdateTimeInterval \in Clock /\ statsUpdateTimeInterval \in Int
  BY ClockFacts, RangeAssumption, IntervalAssumption DEF Init
<1>2. Typed
  BY <1>1, PlusStays DEF Init, Typed
<1>3. 0 \in Int /\ time + 0 = time + 0 * range
  BY <1>1, ClockFacts
<1>4. Shows(time, 0, time)
  BY <1>3 DEF Shows
<1>5. Shows(time, 0 + statsUpdateTimeInterval, statsUpdateTimer)
  BY <1>1, <1>4, ShowsPlus DEF Init
<1>6. TimerTrue
  BY <1>1, <1>5 DEF Init, TimerTrue
<1> QED BY <1>1, <1>2, <1>6 DEF Init, Inv

\* StatsManager::service harvests when the timer has expired: that is when the
\* harvest is due, or later.
LEMMA ServiceInv ==
  ASSUME Inv, NEW gap \in 0..MaxGap, NEW events, Service(gap, events)
  PROVE  Inv' /\ NeverEarly'
<1> DEFINE ahead == due - gap
<1>1. /\ gap \in Clock /\ gap \in Int /\ due \in Int
      /\ time \in Clock /\ statsUpdateTimer \in Clock
      /\ statsUpdateTimeInterval \in Clock /\ statsUpdateTimeInterval \in Int
      /\ statsUpdateTimeInterval < halfMilliTimerRange
  BY ClockFacts, RangeAssumption, GapAssumption, IntervalAssumption DEF Inv, Typed
<1>2. time' = Plus(time, gap) /\ time' \in Clock
  BY <1>1, PlusStays DEF Service
<1>3. Shows(time', ahead, statsUpdateTimer)
  BY <1>1, <1>2, ShowsPlus DEF Inv, TimerTrue
<1>4. ahead \in Int /\ ahead <= statsUpdateTimeInterval
  BY <1>1 DEF Inv
<1>5. CASE Expired(time', statsUpdateTimer)
  <2>1. /\ due' = due - gap + statsUpdateTimeInterval
        /\ statsUpdateTimer' = Plus(statsUpdateTimer, statsUpdateTimeInterval)
    BY <1>2, <1>5 DEF Service, Harvest, Advanced
  <2>2. ASSUME ahead > 0 PROVE FALSE
    <3>1. ahead \in Periods
      BY <1>1, <1>4, <2>2, ClockFacts, RangeAssumption
    <3> HIDE DEF ahead
    <3>2. statsUpdateTimer = Plus(time', ahead)
      BY <1>1, <1>2, <1>3, <3>1, ShownOnce
    <3>3. ~Expired(Plus(time', 0), Plus(time', ahead))
      BY <1>2, <2>2, <3>1, NeverExpiresEarly
    <3>4. Plus(time', 0) = time'
      BY <1>2, ClockFacts DEF Plus
    <3> QED BY <1>5, <3>2, <3>3, <3>4
  <2>3. Typed'
    BY <1>1, <1>2, <2>1, PlusStays DEF Typed
  <2>4. Shows(time', ahead + statsUpdateTimeInterval, statsUpdateTimer')
    BY <1>1, <1>2, <1>3, <1>4, <2>1, ShowsPlus
  <2>5. TimerTrue'
    BY <2>1, <2>4 DEF TimerTrue, Shows
  <2>6. due' <= statsUpdateTimeInterval
    BY <1>1, <1>4, <2>1, <2>2
  <2> QED BY <2>3, <2>5, <2>6 DEF Inv, NeverEarly
<1>6. CASE ~Expired(time', statsUpdateTimer)
  <2>1. /\ due' = ahead /\ statsUpdateTimer' = statsUpdateTimer /\ harvested' = FALSE
    BY <1>2, <1>6 DEF Service
  <2>2. Typed'
    BY <1>1, <1>2, <1>4, <2>1 DEF Typed
  <2>3. TimerTrue'
    BY <1>3, <2>1 DEF TimerTrue, Shows
  <2> QED BY <1>4, <2>1, <2>2, <2>3 DEF Inv, NeverEarly
<1> QED BY <1>5, <1>6

LEMMA InvStep == Inv /\ [Next]_vars => Inv'
<1> SUFFICES ASSUME Inv, [Next]_vars PROVE Inv'
  OBVIOUS
<1>1. CASE Next
  BY <1>1, ServiceInv DEF Next
<1>2. CASE UNCHANGED vars
  BY <1>2 DEF vars, Inv, Typed, TimerTrue, Shows
<1> QED BY <1>1, <1>2

\* The k-th harvest is not before k intervals are over, wherever the clock wraps
\* and however late the loop calls StatsManager::service.
THEOREM HarvestsNeverEarly == Spec => []NeverEarly
<1>1. Inv => NeverEarly
  BY DEF Inv, NeverEarly
<1> QED BY <1>1, InvInit, InvStep, PTL DEF Spec

-----------------------------------------------------------------------------
(* The numbers of a harvest *)

\* What is since the last harvest, when service is called.
SinceElapsed == IF harvested THEN 0 ELSE trueElapsed
SinceEvents == IF harvested THEN 0 ELSE trueEvents

\* A timer that is not advanced in time would expire again at once.
NotExpired == catchingUp \/ ~Expired(time, statsUpdateTimer)

ElapsedTrue == SinceElapsed \in Nat /\ Shows(lastHarvestTime, SinceElapsed, time)

EventsTrue ==
  /\ SinceEvents \in Int
  /\ \E turns \in Int : lastIntervalCount + SinceEvents = count + turns * CounterRange

RatesInv ==
  /\ Typed /\ lastHarvestTime \in Clock
  /\ count \in 0..(CounterRange - 1) /\ lastIntervalCount \in 0..(CounterRange - 1)
  /\ NotExpired /\ ElapsedTrue /\ EventsTrue /\ RatesTrue

\* The remainder is the only number below m that is a multiple of m away.
LEMMA RemainderUnique ==
  ASSUME NEW m \in Nat, m > 0, NEW x \in Int, NEW k \in Int, NEW r \in 0..(m - 1),
         x = r + k * m
  PROVE  x % m = r
<1> DEFINE q == x \div m
           rest == x % m
<1>1. q \in Int /\ rest \in 0..(m - 1) /\ x = rest + q * m
  OBVIOUS
<1> HIDE DEF q, rest
<1>2. (k - q) * m = rest - r
  BY <1>1
<1>3. k - q >= 1 => (k - q) * m >= m
  BY <1>1
<1>4. k - q <= -1 => (k - q) * m <= 0 - m
  BY <1>1
<1>5. k = q
  BY <1>1, <1>2, <1>3, <1>4
<1> QED BY <1>1, <1>5 DEF rest

\* PassiveTimer::elapsedTime is what has elapsed, but for whole turns of the clock.
LEMMA ElapsedIsRemainder ==
  ASSUME NEW start \in Clock, NEW now \in Clock, NEW passed \in Int, Shows(start, passed, now)
  PROVE  ElapsedTime(now, start) = passed % range
<1>0. /\ range \in Nat /\ range > 0 /\ start \in Int /\ now \in Int
      /\ 0 <= start /\ start < range /\ 0 <= now /\ now < range
  BY ClockFacts, RangeAssumption
<1>1. PICK turns \in Int : start + passed = now + turns * range
  BY DEF Shows
<1>2. (turns - 1) * range = turns * range - range /\ turns * range \in Int
  BY <1>0
<1> DEFINE whole == turns * range
<1>3. CASE now >= start
  <2>1. passed = (now - start) + turns * range /\ now - start \in 0..(range - 1)
    BY <1>0, <1>1, <1>3
  <2>2. passed % range = now - start
    BY <1>0, <2>1, RemainderUnique
  <2> QED BY <1>0, <1>3, <2>2 DEF ElapsedTime
<1>4. CASE now < start
  <2> DEFINE r == range - start + now
  <2>1. r \in 0..(range - 1) /\ r > 0
    BY <1>0, <1>4
  <2>2. passed = r + (turns - 1) * range
    BY <1>0, <1>1, <1>2
  <2>3. turns - 1 \in Int
    OBVIOUS
  <2>4. ElapsedTime(now, start) = r
    BY <1>0, <1>4 DEF ElapsedTime
  <2> HIDE DEF r
  <2>5. passed % range = r
    BY <1>0, <2>1, <2>2, <2>3, RemainderUnique
  <2> QED BY <1>0, <2>1, <2>4, <2>5
<1> QED BY <1>0, <1>3, <1>4

\* So is the difference of a counter in StatCounter::update.
LEMMA CountIsRemainder ==
  ASSUME NEW last \in 0..(CounterRange - 1), NEW total \in 0..(CounterRange - 1),
         NEW happened \in Int, NEW turns \in Int,
         last + happened = total + turns * CounterRange
  PROVE  CountSince(total, last) = happened % CounterRange
<1>0. CounterRange \in Nat /\ CounterRange > 0
  BY CounterAssumption
<1>1. (turns - 1) * CounterRange = turns * CounterRange - CounterRange
      /\ turns * CounterRange \in Int
  BY <1>0
<1>2. CASE total >= last
  <2>1. happened = (total - last) + turns * CounterRange
        /\ total - last \in 0..(CounterRange - 1)
    BY <1>0, <1>2
  <2>2. happened % CounterRange = total - last
    BY <1>0, <2>1, RemainderUnique
  <2> QED BY <1>0, <1>2, <2>2 DEF CountSince
<1>3. CASE total < last
  <2> DEFINE r == CounterRange - last + total
  <2>1. r \in 0..(CounterRange - 1)
    BY <1>0, <1>3
  <2>2. happened = r + (turns - 1) * CounterRange
    BY <1>0, <1>1
  <2>3. CountSince(total, last) = r
    BY <1>0, <1>3 DEF CountSince
  <2>4. turns - 1 \in Int
    OBVIOUS
  <2> HIDE DEF r
  <2> QED BY <1>0, <2>1, <2>2, <2>3, <2>4, RemainderUnique
<1> QED BY <1>0, <1>2, <1>3

\* A timer seen expired for the first time is not expired any more when it is
\* advanced by no less than the time since the clock was last looked at.
LEMMA AdvancedInTime ==
  ASSUME NEW t \in Clock, NEW endTime \in Clock, NEW period \in Periods, NEW gap \in 0..period,
         ~Expired(t, endTime), Expired(Plus(t, gap), endTime)
  PROVE  ~Expired(Plus(t, gap), Plus(endTime, period))
<1>0. /\ halfMilliTimerRange \in Int /\ halfMilliTimerRange > 0
      /\ range = halfMilliTimerRange + halfMilliTimerRange
      /\ t \in Int /\ 0 <= t /\ t < range
      /\ endTime \in Int /\ 0 <= endTime /\ endTime < range
      /\ period \in Int /\ 0 <= period /\ period < halfMilliTimerRange
      /\ gap \in Int /\ 0 <= gap /\ gap <= period
  BY ClockFacts, RangeAssumption
<1>1. CASE t + gap < range
  BY <1>0, <1>1 DEF Expired, Plus
<1>2. CASE t + gap >= range
  BY <1>0, <1>2 DEF Expired, Plus
<1> QED BY <1>0, <1>1, <1>2

LEMMA RatesInit == Init => RatesInv
<1> SUFFICES ASSUME Init PROVE RatesInv
  OBVIOUS
<1>1. Typed
  BY InvInit DEF Inv
<1>2. time \in Clock /\ lastHarvestTime = time
  BY DEF Init
<1>3. Plus(time, 0) = time
  BY <1>2, ClockFacts DEF Plus
<1>4. statsUpdateTimeInterval \in Periods /\ 0 < statsUpdateTimeInterval
  BY IntervalAssumption, ClockFacts
<1>5. ~Expired(time, statsUpdateTimer)
  BY <1>2, <1>3, <1>4, NeverExpiresEarly DEF Init
<1>6. ElapsedTrue
  <2>1. time + 0 = time + 0 * range
    BY <1>2, ClockFacts
  <2> QED BY <2>1 DEF Init, ElapsedTrue, SinceElapsed, Shows
<1>7. EventsTrue
  <2>1. 0 + 0 = 0 + 0 * CounterRange
    BY CounterAssumption
  <2> QED BY <2>1 DEF Init, EventsTrue, SinceEvents
<1>8. RatesTrue /\ 0 \in 0..(CounterRange - 1)
  BY CounterAssumption DEF Init, RatesTrue
<1> QED BY <1>1, <1>2, <1>5, <1>6, <1>7, <1>8 DEF Init, RatesInv, NotExpired

LEMMA RatesService ==
  ASSUME RatesInv,
         NEW gap \in 0..MaxGap, NEW events \in Nat, Service(gap, events)
  PROVE  RatesInv'
<1> DEFINE elapsed == gap + SinceElapsed
           happened == events + SinceEvents
           total == (count + events) % CounterRange
<1>1. /\ gap \in Clock /\ gap \in Int
      /\ time \in Clock /\ statsUpdateTimer \in Clock /\ lastHarvestTime \in Clock
      /\ statsUpdateTimeInterval \in Clock /\ statsUpdateTimeInterval \in Periods
      /\ gap \in Nat /\ statsUpdateTimeInterval \in Nat
      /\ SinceElapsed \in Nat /\ SinceEvents \in Int
      /\ due \in Int /\ count \in Int
      /\ lastIntervalCount \in 0..(CounterRange - 1)
      /\ CounterRange \in Nat /\ CounterRange > 0
      /\ due - gap \in Int
  BY ClockFacts, RangeAssumption, GapAssumption, IntervalAssumption, CounterAssumption
     DEF RatesInv, Typed, ElapsedTrue, EventsTrue
<1>2. time' = Plus(time, gap) /\ time' \in Clock
  BY <1>1, PlusStays DEF Service
<1>3. elapsed \in Nat /\ (elapsed = 0 => gap = 0) /\ trueElapsed' = elapsed /\ Shows(lastHarvestTime, elapsed, time')
  <2>1. Shows(lastHarvestTime, SinceElapsed + gap, time')
    BY <1>1, <1>2, ShowsPlus DEF RatesInv, ElapsedTrue
  <2>2. SinceElapsed + gap = gap + SinceElapsed
    BY <1>1
  <2>3. trueElapsed' = elapsed
    BY DEF Service, SinceElapsed
  <2> QED BY <1>1, <2>1, <2>2, <2>3
<1>4. happened \in Int /\ trueEvents' = happened
  BY <1>1 DEF Service, SinceEvents
<1>5. count' = total /\ total \in 0..(CounterRange - 1)
  BY <1>1 DEF Service
<1>6. PICK turns \in Int : lastIntervalCount + happened = total + turns * CounterRange
  <2>1. PICK k \in Int : lastIntervalCount + SinceEvents = count + k * CounterRange
    BY DEF RatesInv, EventsTrue
  <2> DEFINE q == (count + events) \div CounterRange
  <2>2. q \in Int /\ count + events = total + q * CounterRange
    BY <1>1
  <2>3. total \in Int
    BY <1>1
  <2> HIDE DEF q, total
  <2>4. (k + q) * CounterRange = k * CounterRange + q * CounterRange
    BY <1>1, <2>2
  <2>5. k + q \in Int /\ k * CounterRange \in Int /\ q * CounterRange \in Int
    BY <1>1, <2>2
  <2>6. lastIntervalCount + happened = total + (k + q) * CounterRange
    BY <1>1, <2>1, <2>2, <2>3, <2>4, <2>5
  <2> QED BY <2>5, <2>6
<1> HIDE DEF elapsed, happened, total
<1>7. CASE Expired(time', statsUpdateTimer)
  <2>1. /\ msElapsed' = ElapsedTime(time', lastHarvestTime)
        /\ countInInterval' = CountSince(total, lastIntervalCount)
        /\ lastIntervalCount' = total
        /\ lastHarvestTime' = time'
        /\ statsUpdateTimer' = Plus(statsUpdateTimer, statsUpdateTimeInterval)
        /\ harvested' = TRUE
        /\ due' = due - gap + statsUpdateTimeInterval
        /\ catchingUp' = (catchingUp \/ gap > statsUpdateTimeInterval)
    BY <1>2, <1>7 DEF Service, Harvest, Advanced, total
  <2>2. Typed' /\ lastHarvestTime' \in Clock
    <3>1. statsUpdateTimer' \in Clock
      BY <1>1, <2>1, PlusStays
    <3>2. due' \in Int
      BY <1>1, <2>1, ClockFacts
    <3> QED BY <1>2, <2>1, <3>1, <3>2 DEF Typed
  <2>3. NotExpired'
    <3>1. CASE catchingUp \/ gap > statsUpdateTimeInterval
      BY <2>1, <3>1 DEF NotExpired
    <3>2. CASE ~(catchingUp \/ gap > statsUpdateTimeInterval)
      <4>1. ~Expired(time, statsUpdateTimer)
        BY <3>2 DEF RatesInv, NotExpired
      <4>2. gap \in 0..statsUpdateTimeInterval
        BY <1>1, <3>2
      <4>3. ~Expired(time', statsUpdateTimer')
        BY <1>1, <1>2, <1>7, <2>1, <4>1, <4>2, AdvancedInTime
      <4> QED BY <4>3 DEF NotExpired
    <3> QED BY <3>1, <3>2
  <2>4. ElapsedTrue'
    <3>1. time' + 0 = time' + 0 * range
      BY <1>2, ClockFacts
    <3> QED BY <2>1, <3>1 DEF ElapsedTrue, SinceElapsed, Shows
  <2>5. EventsTrue'
    <3>1. total + 0 = total + 0 * CounterRange
      BY <1>1, <1>5
    <3> QED BY <1>5, <2>1, <3>1 DEF EventsTrue, SinceEvents
  <2>6. RatesTrue'
    <3>1. msElapsed' = elapsed % range
      BY <1>1, <1>2, <1>3, <2>1, ElapsedIsRemainder
    <3>2. countInInterval' = happened % CounterRange
      BY <1>1, <1>4, <1>5, <1>6, <2>1, CountIsRemainder
    <3>3. ASSUME elapsed = 0, ~catchingUp
          PROVE  FALSE
      <4>1. time' = time
        BY <1>2, <1>3, <3>3, ClockFacts DEF RatesInv, Typed, Plus
      <4> QED BY <1>7, <3>3, <4>1 DEF RatesInv, NotExpired
    <3> QED BY <1>3, <1>4, <2>1, <3>1, <3>2, <3>3 DEF RatesTrue
  <2> QED BY <1>5, <2>1, <2>2, <2>3, <2>4, <2>5, <2>6 DEF RatesInv
<1>8. CASE ~Expired(time', statsUpdateTimer)
  <2>1. /\ lastIntervalCount' = lastIntervalCount
        /\ lastHarvestTime' = lastHarvestTime
        /\ statsUpdateTimer' = statsUpdateTimer
        /\ harvested' = FALSE
        /\ due' = due - gap
    BY <1>2, <1>8 DEF Service
  <2>2. Typed' /\ lastHarvestTime' \in Clock
    BY <1>1, <1>2, <2>1 DEF Typed
  <2>3. NotExpired'
    BY <1>8, <2>1 DEF RatesInv, NotExpired
  <2>4. ElapsedTrue'
    BY <1>3, <2>1 DEF ElapsedTrue, SinceElapsed, Shows
  <2>5. EventsTrue'
    BY <1>4, <1>5, <1>6, <2>1 DEF EventsTrue, SinceEvents
  <2>6. RatesTrue'
    BY <2>1 DEF RatesTrue
  <2> QED BY <1>1, <1>5, <2>1, <2>2, <2>3, <2>4, <2>5, <2>6 DEF RatesInv
<1> QED BY <1>7, <1>8

LEMMA EventsNatural ==
  ASSUME NEW gap \in 0..MaxGap, NEW events \in 0..(gap * MaxEvents)
  PROVE  events \in Nat
OBVIOUS

LEMMA RatesStep == RatesInv /\ [Next]_vars => RatesInv'
<1> SUFFICES ASSUME RatesInv, [Next]_vars PROVE RatesInv'
  OBVIOUS
<1>1. CASE Next
  BY <1>1, RatesService, EventsNatural DEF Next
<1>2. CASE UNCHANGED vars
  BY <1>2 DEF vars, RatesInv, Typed, NotExpired, ElapsedTrue, EventsTrue, RatesTrue,
              SinceElapsed, SinceEvents, Shows
<1> QED BY <1>1, <1>2

\* However long the passes of the loop are, every rate is of the events and the
\* time since the last harvest, for any range of clock and counter, even after the
\* timer was missed; two harvests come in the same millisecond, and make
\* StatCounter::update divide by zero, only to make up for a pass longer than the
\* interval.
THEOREM RatesAlwaysTrue == Spec => []RatesTrue
<1>1. RatesInv => RatesTrue
  BY DEF RatesInv
<1>2. RatesInv /\ [Next]_vars => RatesInv'
  BY RatesStep
<1> QED BY <1>1, <1>2, RatesInit, PTL DEF Spec

=============================================================================
