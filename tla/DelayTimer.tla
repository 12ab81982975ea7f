----------------------------- MODULE DelayTimer -----------------------------
(***************************************************************************)
(* The VM's one timer, which the image's delay scheduler arms through      *)
(* primitive 242 (microseconds) or the older 136 (milliseconds, wrapping)  *)
(* and the interpreter polls in checkTimerSemaphore, with its recovery for *)
(* a scheduler that was signalled and did not arm the timer again.  The    *)
(* scheduler process and the processes that wait for delays are the        *)
(* image's; they are here as far as they use the timer.                    *)
(***************************************************************************)
EXTENDS Naturals, FiniteSets

CONSTANTS
    StartTime, MaxTime,  \* the clock runs from one to the other
    Target,              \* times for which delays are scheduled
    Wrap,                \* the millisecond clock wraps at 2^30
    RecoverAfter,        \* the 5 seconds after which recovery signals
    MaxSignals           \* bound on the timing semaphore's excess signals

ASSUME ClockAssumption ==
    /\ StartTime \in Nat \ {0} /\ MaxTime \in Nat /\ StartTime < MaxTime
    /\ Target \subseteq StartTime..(MaxTime - 1)
    /\ Wrap \in Nat /\ Wrap >= 4 /\ \A t \in Target : t % Wrap # 0
    /\ RecoverAfter \in Nat /\ MaxSignals \in Nat \ {0}

Never == MaxTime + 1

VARIABLES
    now,           \* both clocks
    semaphoreSet,  \* timerSemaphore_ is not nil
    nextUsec,      \* nextWakeupUsec_, Never for INT64_MAX
    nextMs,        \* nextWakeupTime_, 0 for none
    wasArmed,      \* timerWasArmed_
    lastSignal,    \* lastTimerSignalTime_, 0 for none
    deferred,      \* timerSignalDeferred_
    image,         \* the primitive the image uses, "usec" or "ms"
    signals,       \* the timing semaphore's excessSignals
    scheduler,     \* the delay scheduler "waits" or is to "arm" the timer
    delays,        \* the delays in progress, by their times
    armedFor       \* history: the time for which the timer was last armed,
                   \* 0 when it was disarmed or has gone off since

timer == <<semaphoreSet, nextUsec, nextMs, wasArmed, lastSignal>>
vars == <<now, timer, deferred, image, signals, scheduler, delays, armedFor>>

\* The image begins no delay of half the millisecond range or more.
InRange(t) == t < now + (Wrap \div 2)

\* The scheduler of the saved image waits for a timer nobody has armed in this
\* session: initialize signals it, or leaves that for later when headless.
Init ==
    /\ now = StartTime
    /\ semaphoreSet = FALSE /\ nextUsec = Never /\ nextMs = 0
    /\ wasArmed = FALSE /\ lastSignal = 0
    /\ deferred \in BOOLEAN
    /\ signals = IF deferred THEN 0 ELSE 1
    /\ image \in {"usec", "ms"}
    /\ scheduler = "waits"
    /\ delays \in SUBSET {t \in Target : InRange(t)}
    /\ armedFor = 0

Signal == signals < MaxSignals /\ signals' = signals + 1

-----------------------------------------------------------------------------
(* The primitives that arm the timer; time 0 disarms it. *)

FaultyArmIgnoresPast(t) ==
    /\ semaphoreSet' = (t > now)
    /\ nextUsec' = IF t > now THEN t ELSE Never
    /\ wasArmed' = TRUE
    /\ UNCHANGED <<nextMs, lastSignal>>

PrimitiveSignalAtUTCMicroseconds(t) ==
    /\ IF t = 0
       THEN /\ semaphoreSet' = FALSE /\ nextUsec' = Never
            /\ UNCHANGED wasArmed
       ELSE /\ semaphoreSet' = TRUE /\ nextUsec' = t
            /\ wasArmed' = TRUE
    /\ UNCHANGED <<nextMs, lastSignal>>

FaultyArmUnmasked(t) ==
    /\ nextMs' = t
    /\ semaphoreSet' = (t # 0)
    /\ wasArmed' = (t # 0 \/ wasArmed)
    /\ UNCHANGED <<nextUsec, lastSignal>>

PrimitiveSignalAtMilliseconds(t) ==
    /\ nextMs' = t % Wrap
    /\ IF t = 0
       THEN /\ semaphoreSet' = FALSE
            /\ UNCHANGED wasArmed
       ELSE /\ semaphoreSet' = TRUE
            /\ wasArmed' = TRUE
    /\ UNCHANGED <<nextUsec, lastSignal>>

-----------------------------------------------------------------------------
(* checkTimerSemaphore *)

Fire ==
    /\ semaphoreSet' = FALSE
    /\ wasArmed' = FALSE
    /\ lastSignal' = now
    /\ Signal
    /\ armedFor' = 0
    /\ UNCHANGED <<now, deferred, image, scheduler, delays>>

UsecElapsed == semaphoreSet /\ now >= nextUsec

UsecTimerFires ==
    /\ UsecElapsed
    /\ nextUsec' = Never
    /\ Fire
    /\ UNCHANGED nextMs

FaultyMsElapsed == semaphoreSet /\ nextMs # 0 /\ now % Wrap > nextMs

\* Half of the wrapping range counts as the past; equal is not yet elapsed.
MsElapsed ==
    LET diff == ((now % Wrap) + Wrap - nextMs) % Wrap
    IN  /\ semaphoreSet /\ nextMs # 0
        /\ diff > 0 /\ diff < Wrap \div 2

MsTimerFires ==
    /\ ~UsecElapsed
    /\ MsElapsed
    /\ nextMs' = 0
    /\ Fire
    /\ UNCHANGED nextUsec

\* Recovery signals again and again, also a scheduler that has no delays.
Recover ==
    /\ ~UsecElapsed
    /\ nextMs = 0 \/ ~semaphoreSet
    /\ lastSignal # 0 /\ ~wasArmed
    /\ now - lastSignal >= RecoverAfter
    /\ Signal
    /\ lastSignal' = now
    /\ UNCHANGED <<now, semaphoreSet, nextUsec, nextMs, wasArmed, deferred, image,
                   scheduler, delays, armedFor>>

CheckTimerSemaphore == UsecTimerFires \/ MsTimerFires \/ Recover

\* The signal that was put off at a headless start.
DeferredSignal ==
    /\ deferred
    /\ deferred' = FALSE
    /\ lastSignal' = now
    /\ Signal
    /\ UNCHANGED <<now, semaphoreSet, nextUsec, nextMs, wasArmed, image, scheduler,
                   delays, armedFor>>

-----------------------------------------------------------------------------
(* The image *)

Earliest(S) == CHOOSE t \in S : \A u \in S : t <= u

\* A process begins or gives up a delay and tells the scheduler.
ChangeDelays ==
    /\ \/ \E t \in Target : /\ t > now /\ InRange(t)
                            /\ delays' = delays \union {t}
       \/ \E t \in delays : delays' = delays \ {t}
    /\ delays' # delays
    /\ Signal
    /\ UNCHANGED <<now, timer, deferred, image, scheduler, armedFor>>

\* The scheduler process wakes and resumes whoever is due ...
SchedulerWakes ==
    /\ scheduler = "waits" /\ signals > 0
    /\ signals' = signals - 1
    /\ delays' = {t \in delays : t > now}
    /\ scheduler' = "arms"
    /\ UNCHANGED <<now, timer, deferred, image, armedFor>>

\* ... and, maybe later, arms the timer for the next one.
SchedulerArms ==
    LET t == IF delays = {} THEN 0 ELSE Earliest(delays)
    IN  /\ scheduler = "arms"
        /\ scheduler' = "waits"
        /\ armedFor' = t
        /\ IF image = "usec" THEN PrimitiveSignalAtUTCMicroseconds(t)
           ELSE PrimitiveSignalAtMilliseconds(t)
        /\ UNCHANGED <<now, deferred, image, signals, delays>>

\* The interpreter and the scheduler answer within half the millisecond range.
Tick ==
    /\ now < MaxTime
    /\ \A t \in delays : now + 1 < t + (Wrap \div 2)
    /\ now' = now + 1
    /\ UNCHANGED <<timer, deferred, image, signals, scheduler, delays, armedFor>>

Next ==
    \/ CheckTimerSemaphore \/ DeferredSignal
    \/ ChangeDelays \/ SchedulerWakes \/ SchedulerArms
    \/ Tick

Spec == Init /\ [][Next]_vars

\* The interpreter polls, the scheduler has the highest priority in the image,
\* and time passes.
FairSpec ==
    /\ Spec
    /\ WF_vars(CheckTimerSemaphore) /\ WF_vars(DeferredSignal)
    /\ WF_vars(SchedulerWakes) /\ WF_vars(SchedulerArms)
    /\ WF_vars(Tick)

-----------------------------------------------------------------------------
(* Properties *)

\* The slots of the timer hold times or their marks for none.
TypeOK ==
    /\ now \in StartTime..MaxTime
    /\ semaphoreSet \in BOOLEAN /\ wasArmed \in BOOLEAN /\ deferred \in BOOLEAN
    /\ nextUsec \in (StartTime..MaxTime) \union {Never}
    /\ nextMs \in 0..(Wrap - 1)
    /\ lastSignal \in 0..MaxTime /\ armedFor \in 0..MaxTime
    /\ image \in {"usec", "ms"}
    /\ signals \in 0..MaxSignals
    /\ scheduler \in {"waits", "arms"}
    /\ delays \subseteq Target

\* No delay is stranded: while the scheduler sleeps with no signal due to it,
\* the timer is armed for the first of the delays in progress.
NoStrandedDelay ==
    scheduler = "waits" /\ signals = 0 /\ ~deferred /\ delays # {} =>
        /\ semaphoreSet
        /\ armedFor = Earliest(delays)
        /\ nextUsec = armedFor \/ nextMs = armedFor % Wrap

\* The timer does not go off before the time it was armed for, and goes off
\* once for each time it is armed, on either clock and across a wrap of the
\* millisecond clock (armedFor is 0 from its firing to the next arming).
TimerNotEarly ==
    [][UsecTimerFires \/ MsTimerFires => armedFor # 0 /\ now >= armedFor]_vars

\* Every delay ends, though signals coalesce, time passes between the
\* scheduler's look at the clock and its arming of the timer, and the
\* recovery wakes it for nothing.
DelaysEnd == \A t \in Target : t \in delays ~> t \notin delays

=============================================================================
