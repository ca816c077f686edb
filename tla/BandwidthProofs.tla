---------------------------- MODULE BandwidthProofs ----------------------------
(***************************************************************************)
(* Regulated and TimerWakes, for every budget, threshold and latency.       *)
(***************************************************************************)
EXTENDS Bandwidth, TLAPS

\* The parts of the inductive invariant.  As long as counter 4 is not over, its count
\* bounds the events since the last charge;
LeftBound == left > 0 => delta <= 2 * (Threshold + 1 - left)
\* when its overflow is signalled, the refills since then do;
PendingBound ==
    forward /\ overflow =>
        /\ delta <= Chunk
        /\ Running => delta <= 2 * (Threshold + 1 + late)
\* between a charge and its end nothing is refilled;
Charging == pc \in {"wfi", "rearm"} => delta = 0 /\ ~overflow
\* while the timer is stopped in a handler that has a new budget, the budget is whole,
\* or was charged, and a core sleeps only if the charge took a whole one;
Fresh ==
    counterRst =>
        /\ ~timer /\ ~tick
        /\ IF pc = "wfi" THEN whole
           ELSE pc \in {"irq", "rearm"} /\ avail > 0 /\ (avail = Budget \/ ~overflow)
\* and the timer of an application counts, has fired or will be started.
TimerOn ==
    /\ pc = "app" => timer \/ tick
    /\ pc \in {"irq", "wfi", "rearm"} /\ from = "app" => timer \/ tick \/ counterRst

\* Without a disturbance the distributor is enabled and no overflow is lost,
Signalled ==
    ~disturbed =>
        /\ pc # "stopped" => forward
        /\ left = 0 => overflow \/ pc \in {"wfi", "rearm"}
        /\ delta <= Chunk
\* a core without budget sleeps or is about to get a new one,
Exhausted ==
    ~disturbed /\ avail <= 0 =>
        /\ delta = 0 /\ avail > -Chunk
        /\ pc = "wfi" \/ (pc \in {"irq", "rearm"} /\ tick)
\* and what was used was charged or is counted.
UsedBound ==
    ~lapse /\ ~wrapped /\ ~disturbed => used <= Budget - avail + delta

BandwidthInv ==
    /\ TypeOK /\ LeftBound /\ PendingBound /\ Charging /\ Fresh /\ TimerOn
    /\ Signalled /\ Exhausted /\ UsedBound

------------------------------------------------------------------------------
\* What the constants are.
LEMMA Constants ==
    /\ Budget \in Nat /\ Threshold \in Nat /\ Latency \in Nat /\ Wrap \in Nat
    /\ Chunk \in Nat /\ Chunk = 2 * (Threshold + 1 + Latency)
    /\ 0 < Chunk /\ 0 < Budget
BY BandwidthAssumption DEF Chunk

\* boot2 leaves a full budget, a counter that has counted nothing and a timer.
LEMMA InitInv == Init => BandwidthInv
<1>. SUFFICES ASSUME Init PROVE BandwidthInv
  OBVIOUS
<1>1. TypeOK
  <2>1. avail \in Int /\ delta \in Nat /\ used \in Nat /\ late \in 0..Latency
        /\ left \in 0..(Threshold + 1)
    BY Constants DEF Init
  <2>. QED
    BY <2>1, Zenon DEF Init, TypeOK
<1>2. LeftBound /\ PendingBound /\ Charging /\ Fresh /\ TimerOn
  BY Constants DEF Init, LeftBound, PendingBound, Charging, Fresh, TimerOn
<1>3. Signalled /\ Exhausted /\ UsedBound
  BY Constants DEF Init, Signalled, Exhausted, UsedBound
<1>. QED
  BY <1>1, <1>2, <1>3 DEF BandwidthInv

\* An event of the application: the counter, or the latency once it is over, bounds it.
LEMMA RefillInv == ASSUME BandwidthInv, NEW w \in {0, 1}, NEW o \in BOOLEAN, Refill(w, o) PROVE BandwidthInv'
<1>1. TimerOn'
  BY DEF BandwidthInv, Refill, TimerOn
<1>2. TypeOK'
  BY Constants DEF BandwidthInv, TypeOK, Refill
<1>3. LeftBound'
  BY Constants DEF BandwidthInv, LeftBound, Refill, TypeOK
<1>4. PendingBound'
  BY Constants DEF BandwidthInv, PendingBound, Refill, TypeOK, LeftBound, Pending
<1>5. Charging'
  BY DEF BandwidthInv, Charging, Refill, Running
<1>6. Fresh'
  BY DEF BandwidthInv, Fresh, Refill, Running
<1>7. Signalled'
  BY Constants DEF BandwidthInv, Signalled, Refill, TypeOK, LeftBound, PendingBound,
     Running, Pending
<1>8. Exhausted'
  BY DEF BandwidthInv, Exhausted, Refill, Running
<1>9. UsedBound'
  BY Constants DEF BandwidthInv, UsedBound, Refill, TypeOK
<1>. QED
  BY <1>1, <1>2, <1>3, <1>4, <1>5, <1>6, <1>7, <1>8, <1>9 DEF BandwidthInv

\* The end of the period.
LEMMA TimerFiresInv == ASSUME BandwidthInv, TimerFires PROVE BandwidthInv'
<1>1. TypeOK'
  BY DEF BandwidthInv, TimerFires, TypeOK
<1>0. LeftBound' /\ Charging' /\ Fresh'
  BY Zenon DEF BandwidthInv, TimerFires, LeftBound, Charging, Fresh
<1>2. TimerOn' /\ Signalled' /\ Exhausted' /\ UsedBound'
  BY DEF BandwidthInv, TimerFires, TimerOn, Signalled, Exhausted, UsedBound
<1>3. PendingBound'
  BY DEF BandwidthInv, PendingBound, TimerFires, Running
<1>. QED
  BY <1>0, <1>1, <1>2, <1>3 DEF BandwidthInv

\* Into the handler: what is counted stays.
LEMMA TakeInterruptInv == ASSUME BandwidthInv, TakeInterrupt PROVE BandwidthInv'
<1>1. LeftBound' /\ Charging' /\ Fresh' /\ TimerOn' /\ UsedBound'
  BY DEF BandwidthInv, TakeInterrupt, LeftBound, Charging, Fresh, TimerOn, UsedBound, Running
<1>2. TypeOK'
  BY Constants DEF BandwidthInv, TypeOK, TakeInterrupt, Running
<1>3. PendingBound'
  BY DEF BandwidthInv, PendingBound, TakeInterrupt, Running
<1>4. Signalled'
  BY DEF BandwidthInv, Signalled, TakeInterrupt, Running
<1>5. Exhausted'
  BY DEF BandwidthInv, Exhausted, TakeInterrupt, Running
<1>. QED
  BY <1>1, <1>2, <1>3, <1>4, <1>5 DEF BandwidthInv

\* Nothing is refilled during the sleep, so it is the timer that ends it.
LEMMA WakeUpInv == ASSUME BandwidthInv, WakeUp PROVE BandwidthInv'
<1>1. TypeOK' /\ LeftBound' /\ Charging'
  BY DEF BandwidthInv, WakeUp, TypeOK, LeftBound, Charging
<1>2. Fresh' /\ TimerOn' /\ Signalled' /\ UsedBound'
  BY DEF BandwidthInv, WakeUp, Fresh, TimerOn, Signalled, UsedBound, Charging, Pending
<1>3. PendingBound'
  BY DEF BandwidthInv, PendingBound, WakeUp, Running
<1>4. Exhausted'
  BY DEF BandwidthInv, Exhausted, WakeUp, Charging, Pending
<1>. QED
  BY <1>1, <1>2, <1>3, <1>4 DEF BandwidthInv

\* Another core clears the pending overflow.
LEMMA OtherCoreStartsInv == ASSUME BandwidthInv, OtherCoreStarts PROVE BandwidthInv'
<1>1. TypeOK'
  BY DEF BandwidthInv, OtherCoreStarts, TypeOK
<1>0. LeftBound' /\ PendingBound' /\ Charging'
  BY DEF BandwidthInv, OtherCoreStarts, LeftBound, PendingBound, Charging, Running
<1>2. Fresh' /\ TimerOn' /\ Signalled' /\ Exhausted' /\ UsedBound'
  BY DEF BandwidthInv, OtherCoreStarts, Fresh, TimerOn, Signalled, Exhausted,
     UsedBound
<1>. QED
  BY <1>0, <1>1, <1>2 DEF BandwidthInv

\* Another core disables the distributor.
LEMMA OtherCoreStopsInv == ASSUME BandwidthInv, OtherCoreStops PROVE BandwidthInv'
<1>1. TypeOK'
  BY DEF BandwidthInv, OtherCoreStops, TypeOK
<1>0. LeftBound' /\ PendingBound' /\ Charging'
  BY DEF BandwidthInv, OtherCoreStops, LeftBound, PendingBound, Charging, Running
<1>2. Fresh' /\ TimerOn' /\ Signalled' /\ Exhausted' /\ UsedBound'
  BY DEF BandwidthInv, OtherCoreStops, Fresh, TimerOn, Signalled, Exhausted, UsedBound
<1>. QED
  BY <1>0, <1>1, <1>2 DEF BandwidthInv

\* A new budget, with the timer off until the handler returns.
LEMMA ReplenishInv == ASSUME BandwidthInv, Replenish PROVE BandwidthInv'
<1>1. LeftBound' /\ Charging' /\ TimerOn' /\ Signalled'
  BY DEF BandwidthInv, Replenish, LeftBound, Charging, TimerOn, Signalled
<1>2. TypeOK'
  <2>1. avail' \in Int /\ used' \in Nat
    BY Constants DEF Replenish
  <2>. QED
    BY <2>1, Zenon DEF BandwidthInv, TypeOK, Replenish
<1>3. PendingBound'
  BY DEF BandwidthInv, PendingBound, Replenish, Running
<1>4. Fresh'
  BY Constants DEF BandwidthInv, Fresh, Replenish
<1>5. Exhausted'
  BY Constants DEF BandwidthInv, Exhausted, Replenish
<1>6. UsedBound'
  BY Constants DEF BandwidthInv, UsedBound, Replenish, TypeOK
<1>. QED
  BY <1>1, <1>2, <1>3, <1>4, <1>5, <1>6 DEF BandwidthInv

\* A charge: it exhausts a budget that is new in this handler only if it takes all of it.
LEMMA ChargeInv == ASSUME BandwidthInv, Charge PROVE BandwidthInv'
<1>1. PendingBound' /\ Charging' /\ TimerOn'
  BY DEF BandwidthInv, Charge, PendingBound, Charging, TimerOn
<1>2. TypeOK'
  <2>1. /\ overflow' \in BOOLEAN /\ lapse' \in BOOLEAN /\ wrapped' \in BOOLEAN
        /\ pc' \in {"wfi", "rearm"}
    BY Zenon DEF BandwidthInv, TypeOK, Charge
  <2>2. avail' \in Int /\ delta' \in Nat /\ whole' \in BOOLEAN
    BY Constants DEF BandwidthInv, TypeOK, Charge
  <2>. QED
    BY <2>1, <2>2, Zenon DEF BandwidthInv, TypeOK, Charge
<1>3. LeftBound'
  BY Constants DEF BandwidthInv, LeftBound, Charge, TypeOK
<1>4. Fresh'
  <2>1. counterRst =>
          /\ ~timer /\ ~tick /\ avail = Budget
          /\ (~wrapped => avail' = Budget - delta) /\ (wrapped => avail' > 0)
    BY Constants, BandwidthAssumption DEF BandwidthInv, Fresh, Charge, TypeOK, PendingBound
  <2>2. avail' <= 0 /\ counterRst => delta >= Budget
    BY <2>1, Constants DEF BandwidthInv, Charge, TypeOK
  <2>3. delta >= Budget => whole'
    BY DEF Charge
  <2>4. /\ counterRst' = counterRst /\ timer' = timer /\ tick' = tick /\ ~overflow'
        /\ pc' = IF avail' <= 0 THEN "wfi" ELSE "rearm"
    BY DEF Charge
  <2>5. avail' \in Int
    BY Constants DEF BandwidthInv, Charge, TypeOK
  <2>6. CASE avail' <= 0
    BY <2>1, <2>2, <2>3, <2>4, <2>6, Zenon DEF Fresh
  <2>7. CASE avail' > 0
    BY <2>1, <2>4, <2>5, <2>7 DEF Fresh
  <2>. QED
    BY <2>5, <2>6, <2>7
<1>5. Signalled'
  BY Constants DEF BandwidthInv, Signalled, Charge
<1>6. Exhausted'
  BY Constants DEF BandwidthInv, Exhausted, Charge, TypeOK, Signalled
<1>7. UsedBound'
  BY Constants DEF BandwidthInv, UsedBound, Charge, TypeOK
<1>. QED
  BY <1>1, <1>2, <1>3, <1>4, <1>5, <1>6, <1>7 DEF BandwidthInv

\* The counter starts anew, after nothing was counted since the charge.
LEMMA RearmInv == ASSUME BandwidthInv, Rearm PROVE BandwidthInv'
<1>1. TypeOK' /\ Charging' /\ Fresh' /\ TimerOn' /\ Exhausted' /\ UsedBound'
  BY DEF BandwidthInv, Rearm, TypeOK, Charging, Fresh, TimerOn, Exhausted, UsedBound
<1>2. LeftBound'
  BY Constants DEF BandwidthInv, LeftBound, Rearm, Charging
<1>3. PendingBound'
  BY DEF BandwidthInv, PendingBound, Rearm, Running
<1>4. Signalled'
  BY Constants DEF BandwidthInv, Signalled, Rearm
<1>. QED
  BY <1>1, <1>2, <1>3, <1>4 DEF BandwidthInv

\* Out of the handler: with a budget, or the timer is still pending.
LEMMA LeaveInv == ASSUME BandwidthInv, Leave PROVE BandwidthInv'
<1>1. TypeOK' /\ LeftBound' /\ Fresh' /\ TimerOn' /\ Signalled' /\ UsedBound'
  BY DEF BandwidthInv, Leave, TypeOK, LeftBound, Fresh, TimerOn, Signalled, UsedBound
<1>2. PendingBound'
  BY DEF BandwidthInv, PendingBound, Leave, Pending
<1>3. Charging'
  BY DEF BandwidthInv, Charging, Leave, TypeOK
<1>4. Exhausted'
  BY DEF BandwidthInv, Exhausted, Leave, Signalled, Pending
<1>. QED
  BY <1>1, <1>2, <1>3, <1>4 DEF BandwidthInv

\* The application has ended.
LEMMA MainReturnsInv == ASSUME BandwidthInv, MainReturns PROVE BandwidthInv'
<1>1. TypeOK'
  BY DEF BandwidthInv, MainReturns, TypeOK
<1>0. LeftBound' /\ Charging' /\ Fresh'
  BY Zenon DEF BandwidthInv, MainReturns, LeftBound, Charging, Fresh
<1>2. TimerOn' /\ Signalled' /\ Exhausted' /\ UsedBound'
  BY DEF BandwidthInv, MainReturns, TimerOn, Signalled, Exhausted, UsedBound
<1>3. PendingBound'
  BY DEF BandwidthInv, PendingBound, MainReturns, Running
<1>. QED
  BY <1>0, <1>1, <1>2, <1>3 DEF BandwidthInv

\* So has the regulation.
LEMMA StopIrqInv == ASSUME BandwidthInv, StopIrq PROVE BandwidthInv'
<1>1. TypeOK'
  BY DEF BandwidthInv, StopIrq, TypeOK
<1>0. LeftBound' /\ PendingBound' /\ Charging'
  BY DEF BandwidthInv, StopIrq, LeftBound, PendingBound, Charging, Running
<1>2. Fresh' /\ TimerOn' /\ Signalled' /\ Exhausted' /\ UsedBound'
  BY DEF BandwidthInv, StopIrq, Fresh, TimerOn, Signalled, Exhausted, UsedBound
<1>. QED
  BY <1>0, <1>1, <1>2 DEF BandwidthInv

LEMMA StepInv == BandwidthInv /\ [Next]_vars => BandwidthInv'
<1>. SUFFICES ASSUME BandwidthInv, [Next]_vars PROVE BandwidthInv'
  OBVIOUS
<1>1. ASSUME NEW w \in {0, 1}, NEW o \in BOOLEAN, Refill(w, o) PROVE BandwidthInv'
  BY <1>1, RefillInv
<1>2. CASE TimerFires
  BY <1>2, TimerFiresInv
<1>3. CASE TakeInterrupt
  BY <1>3, TakeInterruptInv
<1>4. CASE OtherCoreStarts
  BY <1>4, OtherCoreStartsInv
<1>5. CASE OtherCoreStops
  BY <1>5, OtherCoreStopsInv
<1>6. CASE Handler
  BY <1>6, WakeUpInv, ReplenishInv, ChargeInv, RearmInv, LeaveInv DEF Handler
<1>7. CASE MainReturns
  BY <1>7, MainReturnsInv
<1>8. CASE StopIrq
  BY <1>8, StopIrqInv
<1>9. CASE UNCHANGED vars
  <2>1. TypeOK'
    BY <1>9 DEF BandwidthInv, TypeOK, vars
  <2>2. LeftBound' /\ PendingBound' /\ Charging'
    BY <1>9, Zenon DEF BandwidthInv, LeftBound, PendingBound, Charging, Running, vars
  <2>3. Fresh' /\ TimerOn'
    BY <1>9, Zenon DEF BandwidthInv, Fresh, TimerOn, vars
  <2>4. Signalled' /\ Exhausted' /\ UsedBound'
    BY <1>9, Zenon DEF BandwidthInv, Signalled, Exhausted, UsedBound, vars
  <2>. QED
    BY <2>1, <2>2, <2>3, <2>4 DEF BandwidthInv
<1>. QED
  BY <1>1, <1>2, <1>3, <1>4, <1>5, <1>6, <1>7, <1>8, <1>9 DEF Next

------------------------------------------------------------------------------
\* The invariant holds whatever the application, the timer and the other cores do.
THEOREM BandwidthInvariant == Spec => []BandwidthInv
BY InitInv, StepInv, PTL DEF Spec

\* A period costs at most the budget and the charge that exceeds it: what was used is
\* what was charged, which left some of the budget before the last charge, and what
\* the counter has not reported yet.
THEOREM PeriodsAreRegulated == Spec => []Regulated
<1>1. BandwidthInv => Regulated
  <2>. SUFFICES ASSUME BandwidthInv, ~lapse, ~wrapped, ~disturbed
                PROVE  used < Budget + Chunk
    BY DEF Regulated
  <2>1. /\ used \in Nat /\ avail \in Int /\ delta \in Nat /\ delta <= Chunk
        /\ used <= Budget - avail + delta
    BY DEF BandwidthInv, TypeOK, Signalled, UsedBound
  <2>2. CASE avail > 0
    BY <2>1, <2>2, Constants
  <2>3. CASE avail <= 0
    <3>1. delta = 0 /\ avail > -Chunk
      BY <2>3 DEF BandwidthInv, Exhausted
    <3>. QED
      BY <2>1, <3>1, Constants
  <2>. QED
    BY <2>1, <2>2, <2>3
<1>. QED
  BY <1>1, BandwidthInvariant, PTL

\* A core that sleeps in its application is woken by the timer, for every THRESHOLD: it
\* sleeps in a handler that has just stopped it only after a charge of a whole budget.
THEOREM SleepersHaveTimer == Spec => []TimerWakes
<1>1. BandwidthInv => TimerWakes
  BY DEF BandwidthInv, TimerOn, Fresh, TimerWakes
<1>. QED
  BY <1>1, BandwidthInvariant, PTL
================================================================================
