-------------------------- MODULE DelayTimerProofs --------------------------
(***************************************************************************)
(* The delay timer for any clock range, any wrap of the millisecond clock  *)
(* and any delays: its slots and the delay scheduler agree whenever the    *)
(* scheduler sleeps, and it is never early, on neither clock.              *)
(***************************************************************************)
EXTENDS DelayTimer, WellFoundedInduction, TLAPS

\* An armed timer holds the time it was armed for, in the slot of the image's
\* primitive, and the other slot is empty.
ArmedInv ==
    /\ image = "usec" => nextMs = 0
    /\ image = "ms" => nextUsec = Never
    /\ semaphoreSet =>
          /\ armedFor \in Target
          /\ armedFor < now + (Wrap \div 2)
          /\ image = "usec" => nextUsec = armedFor
          /\ image = "ms" => nextMs = armedFor % Wrap

\* Whatever reaches a sleeping scheduler's delays also signals it.
SleepInv ==
    scheduler = "waits" /\ signals = 0 /\ ~deferred /\ delays # {} =>
        semaphoreSet /\ armedFor = Earliest(delays)

\* Half the millisecond range bounds every delay.
RangeInv == \A t \in delays : InRange(t)

IInv == TypeOK /\ ArmedInv /\ SleepInv /\ RangeInv

-----------------------------------------------------------------------------
(* Times and remainders *)

LEMMA Times ==
    /\ Wrap \in Nat /\ Wrap >= 4 /\ Wrap \div 2 \in Nat
    /\ Wrap \div 2 >= 2 /\ 2 * (Wrap \div 2) <= Wrap
    /\ \A n \in StartTime..MaxTime : n \in Nat /\ n < Never
    /\ \A t \in Target : t \in Nat \ {0} /\ t \in StartTime..MaxTime
BY ClockAssumption DEF Never

LEMMA Divided ==
    ASSUME NEW w \in Nat \ {0}, NEW n \in Nat
    PROVE  n % w \in 0..(w - 1) /\ n \div w \in Nat /\ n = w * (n \div w) + (n % w)
BY SMT

LEMMA RemainderIsUnique ==
    ASSUME NEW w \in Nat \ {0}, NEW q \in Nat, NEW p \in Nat,
           NEW r \in 0..(w - 1), NEW s \in 0..(w - 1), w * q + r = w * p + s
    PROVE  r = s
<1>1. CASE q = p
  BY <1>1
<1>2. CASE q > p
  <2>1. PICK d \in Nat : q = p + 1 + d
    BY <1>2
  <2>2. w * q = w * p + w + w * d /\ w * d >= 0
    BY <2>1
  <2> QED
    BY <2>2
<1>3. CASE q < p
  <2>1. PICK d \in Nat : p = q + 1 + d
    BY <1>3
  <2>2. w * p = w * q + w + w * d /\ w * d >= 0
    BY <2>1
  <2> QED
    BY <2>2
<1> QED
  BY <1>1, <1>2, <1>3

LEMMA RemainderOfSum ==
    ASSUME NEW w \in Nat \ {0}, NEW n \in Nat, NEW k \in 0..(w - 1)
    PROVE  (n + k) % w = IF (n % w) + k < w THEN (n % w) + k ELSE (n % w) + k - w
<1> DEFINE q == n \div w
           r == n % w
           p == (n + k) \div w
           s == (n + k) % w
<1>1. /\ q \in Nat /\ r \in 0..(w - 1) /\ n = w * q + r
      /\ p \in Nat /\ s \in 0..(w - 1) /\ n + k = w * p + s
  BY Divided, n + k \in Nat
<1> HIDE DEF q, r, p, s
<1>2. CASE r + k < w
  <2>1. r + k \in 0..(w - 1) /\ w * q + (r + k) = w * p + s
    BY <1>1, <1>2
  <2> QED
    BY <2>1, <1>1, <1>2, RemainderIsUnique DEF r, s
<1>3. CASE r + k >= w
  <2>1. /\ r + k - w \in 0..(w - 1) /\ q + 1 \in Nat
        /\ w * (q + 1) + (r + k - w) = w * p + s
    BY <1>1, <1>3
  <2>2. r + k - w = s
    BY <2>1, <1>1, RemainderIsUnique
  <2> QED
    BY <2>2, <1>1, <1>3 DEF r, s
<1> QED
  BY <1>1, <1>2, <1>3

\* A time less than half the range ahead does not count as the past.
LEMMA AheadIsNotElapsed ==
    ASSUME NEW n \in Nat, NEW a \in Nat, n < a, a < n + (Wrap \div 2)
    PROVE  ~(((n % Wrap) + Wrap - (a % Wrap)) % Wrap < Wrap \div 2)
<1> DEFINE k == a - n
           h == Wrap \div 2
           r == n % Wrap
           s == a % Wrap
           diff == (r + Wrap - s) % Wrap
<1>1. /\ k \in 1..(Wrap - 1) /\ k < h /\ 2 * h <= Wrap /\ h \in Nat
      /\ Wrap \in Nat \ {0} /\ n + k = a
  BY Times
<1>2. r \in 0..(Wrap - 1) /\ s \in 0..(Wrap - 1)
  BY <1>1, Divided
<1> HIDE DEF k, h
<1>3. s = IF r + k < Wrap THEN r + k ELSE r + k - Wrap
  <2>1. k \in 0..(Wrap - 1)
    BY <1>1
  <2>2. (n + k) % Wrap = IF r + k < Wrap THEN r + k ELSE r + k - Wrap
    BY <2>1, <1>1, RemainderOfSum
  <2> QED
    BY <2>2, <1>1
<1> HIDE DEF r, s
<1>4. diff = Wrap - k
  <2>1. CASE r + k < Wrap
    <3>1. r + Wrap - s = Wrap - k /\ Wrap - k \in 0..(Wrap - 1)
      BY <2>1, <1>1, <1>2, <1>3
    <3>2. (Wrap - k) % Wrap = Wrap - k
      BY <3>1, <1>1
    <3> QED
      BY <3>1, <3>2
  <2>2. CASE r + k >= Wrap
    <3>1. r + Wrap - s = Wrap + (Wrap - k) /\ Wrap - k \in 0..(Wrap - 1)
      BY <2>2, <1>1, <1>2, <1>3
    <3>2. ASSUME NEW j \in 0..(Wrap - 1) PROVE (Wrap + j) % Wrap = j
      <4>1. (Wrap + j) % Wrap = IF (Wrap % Wrap) + j < Wrap THEN (Wrap % Wrap) + j
                                ELSE (Wrap % Wrap) + j - Wrap
        BY <1>1, RemainderOfSum
      <4>2. Wrap % Wrap = 0
        BY <1>1
      <4> QED
        BY <4>1, <4>2, <1>1
    <3> QED
      BY <3>1, <3>2
  <2> QED
    BY <2>1, <2>2, <1>1, <1>2
<1> HIDE DEF diff
<1>5. ~(diff < h)
  BY <1>1, <1>4
<1> QED
  BY <1>5 DEF diff, h, r, s

LEMMA EarliestIsDelay ==
    ASSUME NEW S, S \subseteq Target, S # {}
    PROVE  Earliest(S) \in S
<1>1. S \subseteq Nat
  BY Times
<1>2. PICK t \in S : \A u \in S : ~(<<u, t>> \in OpToRel(<, Nat))
  BY <1>1, NatLessThanWellFounded, WFMin
<1>3. \A u \in S : ~(u < t)
  BY <1>1, <1>2 DEF OpToRel
<1>4. \A u \in S : t <= u
  BY <1>1, <1>3
<1> QED
  BY <1>4 DEF Earliest

-----------------------------------------------------------------------------
LEMMA IInvInitially == Init => IInv
<1> SUFFICES ASSUME Init PROVE IInv
  OBVIOUS
<1>1. TypeOK
  <2>1. /\ now = StartTime /\ StartTime \in StartTime..MaxTime /\ 0 \in 0..MaxTime
        /\ nextUsec = Never /\ nextMs = 0 /\ 0 \in 0..(Wrap - 1)
        /\ lastSignal = 0 /\ armedFor = 0
    BY ClockAssumption DEF Init
  <2>2. signals \in {0, 1} /\ 0 \in 0..MaxSignals /\ 1 \in 0..MaxSignals
    BY ClockAssumption DEF Init
  <2>3. delays \subseteq Target
    BY DEF Init
  <2> QED
    BY <2>1, <2>2, <2>3 DEF Init, TypeOK
<1>2. ArmedInv /\ RangeInv
  BY DEF Init, ArmedInv, RangeInv
<1>3. SleepInv
  BY DEF Init, SleepInv
<1> QED
  BY <1>1, <1>2, <1>3 DEF IInv

\* The interpreter's part: the semaphore is signalled when the timer goes off.
LEMMA CheckPreserves ==
    ASSUME IInv, CheckTimerSemaphore
    PROVE  IInv'
<1> USE DEF timer
<1>1. /\ signals' = signals + 1 /\ signals' \in 0..MaxSignals
      /\ UNCHANGED <<now, deferred, image, scheduler, delays>>
      /\ \/ /\ semaphoreSet' = FALSE /\ wasArmed' = FALSE /\ armedFor' = 0
            /\ \/ nextUsec' = Never /\ nextMs' = nextMs
               \/ nextUsec' = nextUsec /\ nextMs' = 0
         \/ UNCHANGED <<semaphoreSet, wasArmed, nextUsec, nextMs, armedFor>>
      /\ lastSignal' = now
  BY ClockAssumption DEF CheckTimerSemaphore, UsecTimerFires, MsTimerFires, Recover, Fire,
                         Signal, IInv, TypeOK
<1>2. now \in 0..MaxTime
  BY ClockAssumption DEF IInv, TypeOK
<1>3. TypeOK'
  <2>1. 0 \in 0..(Wrap - 1)
    BY Times
  <2>2. nextUsec' \in (StartTime..MaxTime) \union {Never} /\ nextMs' \in 0..(Wrap - 1)
    BY <1>1, <2>1 DEF IInv, TypeOK
  <2>3. semaphoreSet' \in BOOLEAN /\ wasArmed' \in BOOLEAN
    BY <1>1 DEF IInv, TypeOK
  <2>4. armedFor' \in 0..MaxTime
    BY <1>1, ClockAssumption DEF IInv, TypeOK
  <2> QED
    BY <1>1, <1>2, <2>2, <2>3, <2>4 DEF IInv, TypeOK
<1>4. ArmedInv' /\ RangeInv'
  BY <1>1 DEF IInv, ArmedInv, RangeInv, InRange
<1>5. signals' # 0
  BY <1>1 DEF IInv, TypeOK
<1>6. SleepInv'
  BY <1>5 DEF SleepInv
<1> QED
  BY <1>3, <1>4, <1>6 DEF IInv

LEMMA ArmsPreserves ==
    ASSUME IInv, SchedulerArms
    PROVE  IInv'
<1> DEFINE t == IF delays = {} THEN 0 ELSE Earliest(delays)
<1>1. /\ scheduler' = "waits" /\ armedFor' = t
      /\ UNCHANGED <<now, deferred, image, signals, delays, lastSignal>>
      /\ semaphoreSet' = (t # 0) /\ wasArmed' \in {TRUE, wasArmed}
      /\ \/ /\ image = "usec" /\ nextMs' = nextMs
            /\ nextUsec' = IF t = 0 THEN Never ELSE t
         \/ image # "usec" /\ nextUsec' = nextUsec /\ nextMs' = t % Wrap
  BY DEF SchedulerArms, PrimitiveSignalAtUTCMicroseconds, PrimitiveSignalAtMilliseconds
<1>2. delays # {} => t \in delays /\ t \in Target /\ t # 0 /\ t \in StartTime..MaxTime
                     /\ t < now + (Wrap \div 2)
  BY EarliestIsDelay, Times DEF IInv, TypeOK, RangeInv, InRange
<1>3. delays = {} => t = 0
  OBVIOUS
<1>4. t \in 0..MaxTime
  BY <1>2, <1>3, Times, ClockAssumption
<1>5. delays # {} => t = Earliest(delays)
  OBVIOUS
<1> HIDE DEF t
<1>6. t % Wrap \in 0..(Wrap - 1)
  <2>1. t \in Nat /\ Wrap \in Nat \ {0}
    BY <1>4, Times
  <2> QED
    BY <2>1, Divided
<1>7. TypeOK'
  BY <1>1, <1>2, <1>3, <1>4, <1>6 DEF IInv, TypeOK
<1>8. ArmedInv'
  BY <1>1, <1>2, <1>3 DEF IInv, TypeOK, ArmedInv
<1>9. SleepInv'
  BY <1>1, <1>2, <1>5 DEF SleepInv
<1>10. RangeInv'
  BY <1>1 DEF IInv, RangeInv, InRange
<1> QED
  BY <1>7, <1>8, <1>9, <1>10 DEF IInv

\* Time that passes makes no delay longer.
LEMMA TickPreserves ==
    ASSUME IInv, Tick
    PROVE  IInv'
<1>1. /\ now' = now + 1 /\ now' \in StartTime..MaxTime
      /\ UNCHANGED <<timer, deferred, image, signals, scheduler, delays, armedFor>>
  BY ClockAssumption DEF Tick, IInv, TypeOK
<1>2. TypeOK' /\ SleepInv'
  BY <1>1 DEF IInv, TypeOK, SleepInv, timer
<1>3. now \in Nat /\ Wrap \div 2 \in Nat /\ \A t \in Target : t \in Nat
  BY Times DEF IInv, TypeOK
<1>4. ArmedInv'
  BY <1>1, <1>3 DEF IInv, ArmedInv, timer
<1>5. RangeInv'
  BY <1>1, <1>3 DEF IInv, TypeOK, RangeInv, InRange
<1> QED
  BY <1>2, <1>4, <1>5 DEF IInv

LEMMA IInvPreserved == IInv /\ [Next]_vars => IInv'
<1> SUFFICES ASSUME IInv, [Next]_vars PROVE IInv'
  OBVIOUS
<1> USE DEF timer
<1>1. CASE UNCHANGED vars
  BY <1>1 DEF IInv, TypeOK, ArmedInv, SleepInv, RangeInv, InRange, vars
<1>2. CASE CheckTimerSemaphore
  BY <1>2, CheckPreserves
<1>3. CASE DeferredSignal
  <2>1. /\ signals' = signals + 1 /\ signals' \in 0..MaxSignals /\ signals' # 0
        /\ deferred' = FALSE /\ lastSignal' = now
        /\ UNCHANGED <<now, semaphoreSet, nextUsec, nextMs, wasArmed, image, scheduler,
                       delays, armedFor>>
    BY <1>3, ClockAssumption DEF DeferredSignal, Signal, IInv, TypeOK
  <2>2. now \in 0..MaxTime
    BY ClockAssumption DEF IInv, TypeOK
  <2> QED
    BY <2>1, <2>2 DEF IInv, TypeOK, ArmedInv, SleepInv, RangeInv, InRange
<1>4. CASE ChangeDelays
  <2>1. /\ signals' \in 0..MaxSignals /\ signals' # 0
        /\ UNCHANGED <<now, timer, deferred, image, scheduler, armedFor>>
    BY <1>4, ClockAssumption DEF ChangeDelays, Signal, IInv, TypeOK
  <2>2. delays' \subseteq Target /\ \A t \in delays' : InRange(t)
    BY <1>4 DEF ChangeDelays, IInv, TypeOK, RangeInv
  <2> QED
    BY <2>1, <2>2 DEF IInv, TypeOK, ArmedInv, SleepInv, RangeInv, InRange
<1>5. CASE SchedulerWakes
  <2>1. /\ scheduler' = "arms" /\ signals' \in 0..MaxSignals /\ delays' \subseteq delays
        /\ UNCHANGED <<now, timer, deferred, image, armedFor>>
    BY <1>5, ClockAssumption DEF SchedulerWakes, IInv, TypeOK
  <2> QED
    BY <2>1 DEF IInv, TypeOK, ArmedInv, SleepInv, RangeInv, InRange
<1>6. CASE SchedulerArms
  BY <1>6, ArmsPreserves
<1>7. CASE Tick
  BY <1>7, TickPreserves
<1> QED
  BY <1>1, <1>2, <1>3, <1>4, <1>5, <1>6, <1>7 DEF Next

LEMMA IInvHolds == Spec => []IInv
BY IInvInitially, IInvPreserved, PTL DEF Spec

\* The timer's slots hold times or their marks for none, on both clocks.
THEOREM TimerTypeCorrect == Spec => []TypeOK
<1>1. IInv => TypeOK
  BY DEF IInv
<1> QED
  BY <1>1, IInvHolds, PTL

\* No delay is stranded: a scheduler that sleeps with no signal on its way has
\* armed the timer for its first delay, whichever of timer, recovery, startup
\* and processes has signalled it last.
THEOREM NoDelayIsStranded == Spec => []NoStrandedDelay
<1>1. IInv => NoStrandedDelay
  BY DEF IInv, TypeOK, ArmedInv, SleepInv, NoStrandedDelay
<1> QED
  BY <1>1, IInvHolds, PTL

\* The timer never goes off before the time it was armed for, and never twice
\* for one arming, whether or not a wrap of the millisecond clock lies between,
\* since no delay is as long as half its range.
THEOREM TimerIsNotEarly == Spec => TimerNotEarly
<1>1. IInv /\ [Next]_vars =>
        [UsecTimerFires \/ MsTimerFires => armedFor # 0 /\ now >= armedFor]_vars
  <2> SUFFICES ASSUME IInv, UsecTimerFires \/ MsTimerFires
               PROVE  armedFor # 0 /\ now >= armedFor
    OBVIOUS
  <2>1. semaphoreSet
    BY DEF UsecTimerFires, UsecElapsed, MsTimerFires, MsElapsed
  <2>2. /\ armedFor \in Target /\ armedFor \in Nat /\ armedFor # 0 /\ now \in Nat
        /\ now < Never /\ armedFor < now + (Wrap \div 2)
    BY <2>1, Times DEF IInv, TypeOK, ArmedInv
  <2>3. CASE UsecTimerFires
    <3>1. now >= nextUsec
      BY <2>3 DEF UsecTimerFires, UsecElapsed
    <3>2. image # "ms"
      BY <3>1, <2>2, ClockAssumption DEF IInv, ArmedInv, Never
    <3> QED
      BY <2>1, <2>2, <3>1, <3>2 DEF IInv, TypeOK, ArmedInv
  <2>4. CASE MsTimerFires
    <3>1. nextMs # 0 /\ ((now % Wrap) + Wrap - nextMs) % Wrap < Wrap \div 2
      BY <2>4 DEF MsTimerFires, MsElapsed
    <3>2. nextMs = armedFor % Wrap
      BY <2>1, <3>1 DEF IInv, TypeOK, ArmedInv
    <3>3. ~(now < armedFor)
      BY <2>2, <3>1, <3>2, AheadIsNotElapsed
    <3> QED
      BY <2>2, <3>3
  <2> QED
    BY <2>3, <2>4
<1> QED
  BY <1>1, IInvHolds, PTL DEF Spec, TimerNotEarly

=============================================================================
