------------------------------- MODULE Bandwidth -------------------------------
(***************************************************************************)
(* The memory bandwidth mitigation (MEMBANDWIDTH) of a benchmark on one     *)
(* core of the Raspberry Pi 4: boot2.c starts it, and the interrupt handler *)
(* of IRQ.c charges the cache refills and write-backs of the application to *)
(* a budget that a timer replenishes.  Counter 4 of the PMU interrupts every*)
(* so many refills; a core without budget sleeps in that interrupt.         *)
(***************************************************************************)
EXTENDS Integers

CONSTANTS
    Budget,     \* BUDGET: refills and write-backs in a period
    Threshold,  \* BUDGET * THRESHOLD, as the integer the counter is given
    Latency,    \* refills between a pending interrupt and its handler
    Wrap,       \* what the 32-bit counters wrap at
    AfterDisturbance  \* bound: events of a core that is no longer regulated

\* The events a charge may find: after Threshold + 1 refills counter 4 is over, and
\* a refill writes back the line it evicts, or not.
Chunk == 2 * (Threshold + 1 + Latency)

ASSUME BandwidthAssumption ==
    /\ Budget \in Nat \ {0} /\ Threshold \in Nat /\ Latency \in Nat
    /\ Wrap \in Nat /\ Wrap > Chunk + Budget /\ AfterDisturbance \in Nat

VARIABLES
    pc,       \* "app" (in main), "stopping" (between disable_cntp and stop_irq),
              \* "stopped", or in irq_handler: "irq" (reads GICC_IAR), "wfi", "rearm"
    from,     \* what irq_handler interrupts
    avail,    \* AVAIL
    delta,    \* refills and write-backs since LAST_L1D_MSHR and LAST_L1D_WB
    wrapped,  \* whether a counter has wrapped since
    left,     \* refills until counter 4 is over; then its overflow status is set
    late,     \* refills since an interrupt is pending
    overflow, \* PM1_ID is pending in the distributor
    timer,    \* whether CNTP is counting
    tick,     \* PTIMER_ID is pending
    counterRst, \* COUNTER_RST
    whole,    \* history: the last charge took a whole budget
    used,     \* history: refills and write-backs since the last replenishment
    lapse,    \* history: a wrapped counter was charged in this period
    forward,  \* GICD_CTLR: the distributor signals interrupts
    disturbed \* history: another core took an interrupt away

vars == <<pc, from, avail, delta, wrapped, left, late, overflow, timer, tick,
          counterRst, whole, used, lapse, forward, disturbed>>

\* boot2: time_handler, reset_pmc_events, set_pmevcntr_threshold, DAIFClr.
Init ==
    /\ pc = "app" /\ from = "app"
    /\ avail = Budget /\ delta = 0 /\ wrapped = FALSE
    /\ left = Threshold + 1 /\ late = 0
    /\ overflow = FALSE /\ timer = TRUE /\ tick = FALSE /\ counterRst = FALSE
    /\ whole = FALSE /\ used = 0 /\ lapse = FALSE
    /\ forward = TRUE /\ disturbed = FALSE

Pending == forward /\ (overflow \/ tick)
Running == pc \in {"app", "stopping"}

------------------------------------------------------------------------------
(* Hardware                                                                 *)

\* The application refills a line, and maybe writes one back.  Bound: the counters do
\* not wrap a second time before the budget is replenished.
Refill(writeBack, wraps) ==
    /\ Running /\ (Pending => late < Latency)
    /\ wraps => ~wrapped /\ ~lapse
    /\ disturbed => delta < AfterDisturbance
    /\ delta' = delta + 1 + writeBack /\ used' = used + 1 + writeBack
    /\ wrapped' = (wrapped \/ wraps)
    /\ late' = IF Pending THEN late + 1 ELSE 0
    /\ left' = IF left > 0 THEN left - 1 ELSE 0
    /\ overflow' = (overflow \/ left = 1)    \* an edge of the overflow status
    /\ UNCHANGED <<whole, pc, from, avail, timer, tick, counterRst, lapse, forward, disturbed>>

\* The period is over.
TimerFires ==
    /\ timer /\ pc # "stopped"
    /\ timer' = FALSE /\ tick' = TRUE
    /\ UNCHANGED <<whole, pc, from, avail, delta, wrapped, left, late, overflow,
                   counterRst, used, lapse, forward, disturbed>>

\* IRQInterruptHandler, if interrupts are not masked.
TakeInterrupt ==
    /\ Running /\ Pending
    /\ pc' = "irq" /\ from' = pc /\ late' = 0
    /\ UNCHANGED <<whole, avail, delta, wrapped, left, overflow, timer, tick,
                   counterRst, used, lapse, forward, disturbed>>

\* wfi returns when an interrupt is pending, also a masked one.
WakeUp ==
    /\ pc = "wfi" /\ Pending
    /\ pc' = "rearm"
    /\ UNCHANGED <<whole, from, avail, delta, wrapped, left, late, overflow, timer, tick,
                   counterRst, used, lapse, forward, disturbed>>

\* init_irq of a core that starts later: it clears what is pending in the distributor
\* for all cores and enables it.  The overflow status stays set: no further edge.
OtherCoreStarts ==
    /\ overflow \/ ~forward
    /\ overflow' = FALSE /\ forward' = TRUE
    /\ disturbed' = (disturbed \/ overflow)
    /\ UNCHANGED <<whole, pc, from, avail, delta, wrapped, left, late, timer, tick,
                   counterRst, used, lapse>>

\* stop_irq of another core.
OtherCoreStops ==
    /\ forward
    /\ forward' = FALSE /\ disturbed' = TRUE
    /\ UNCHANGED <<whole, pc, from, avail, delta, wrapped, left, late, overflow, timer, tick,
                   counterRst, used, lapse>>

------------------------------------------------------------------------------
(* irq_handler                                                              *)

\* Mutant: the budget of the last period is added to what is left of it.
Replenish_Adds ==
    /\ pc = "irq" /\ forward /\ tick
    /\ tick' = FALSE /\ timer' = FALSE
    /\ avail' = avail + Budget /\ counterRst' = TRUE
    /\ used' = 0 /\ lapse' = FALSE
    /\ UNCHANGED <<whole, pc, from, delta, wrapped, left, late, overflow, forward, disturbed>>

\* PTIMER_ID, which has the lowest number and so is served first: disable_cntp and
\* mem_monitor.
Replenish ==
    /\ pc = "irq" /\ forward /\ tick
    /\ tick' = FALSE /\ timer' = FALSE
    /\ avail' = Budget /\ counterRst' = TRUE
    /\ used' = 0 /\ lapse' = FALSE
    /\ UNCHANGED <<whole, pc, from, delta, wrapped, left, late, overflow, forward, disturbed>>

\* PM1_ID: mem_overflow up to its wfi.  A counter that has wrapped since the last
\* charge makes the difference negative.
Charge ==
    /\ pc = "irq" /\ forward /\ ~tick /\ overflow
    /\ overflow' = FALSE
    /\ avail' = avail - delta + (IF wrapped THEN Wrap ELSE 0)
    /\ lapse' = (lapse \/ wrapped)
    /\ whole' = (delta >= Budget) /\ delta' = 0 /\ wrapped' = FALSE
    /\ pc' = IF avail' <= 0 THEN "wfi" ELSE "rearm"
    /\ UNCHANGED <<from, left, late, timer, tick, counterRst, used, forward, disturbed>>

\* mem_overflow from there: clean_overflow_status and set_pmevcntr_threshold.
Rearm ==
    /\ pc = "rearm"
    /\ left' = Threshold + 1
    /\ pc' = "irq"
    /\ UNCHANGED <<whole, from, avail, delta, wrapped, late, overflow, timer, tick,
                   counterRst, used, lapse, forward, disturbed>>

\* Mutant: the timer is only started by boot2.
Leave_NoTimer ==
    /\ pc = "irq" /\ ~Pending
    /\ pc' = from
    /\ counterRst' = FALSE
    /\ UNCHANGED <<whole, from, avail, delta, wrapped, left, late, overflow, timer, tick,
                   used, lapse, forward, disturbed>>

\* Nothing is pending: time_handler if the budget is new, and back.
Leave ==
    /\ pc = "irq" /\ ~Pending
    /\ pc' = from
    /\ counterRst' = FALSE /\ timer' = (timer \/ counterRst)
    /\ UNCHANGED <<whole, from, avail, delta, wrapped, left, late, overflow, tick,
                   used, lapse, forward, disturbed>>

Handler == WakeUp \/ Replenish \/ Charge \/ Rearm \/ Leave

------------------------------------------------------------------------------
(* boot2                                                                    *)

\* main has returned: disable_cntp.
MainReturns ==
    /\ pc = "app"
    /\ pc' = "stopping" /\ timer' = FALSE
    /\ UNCHANGED <<whole, from, avail, delta, wrapped, left, late, overflow, tick,
                   counterRst, used, lapse, forward, disturbed>>

\* stop_irq disables the distributor.
StopIrq ==
    /\ pc = "stopping"
    /\ pc' = "stopped" /\ forward' = FALSE
    /\ UNCHANGED <<whole, from, avail, delta, wrapped, left, late, overflow, timer, tick,
                   counterRst, used, lapse, disturbed>>

Next ==
    \/ \E w \in {0, 1}, o \in BOOLEAN : Refill(w, o)
    \/ TimerFires \/ TakeInterrupt \/ OtherCoreStarts \/ OtherCoreStops
    \/ Handler \/ MainReturns \/ StopIrq

Spec == Init /\ [][Next]_vars

\* The core executes, and a timer that counts comes to its end.
FairSpec == Spec /\ WF_vars(Handler) /\ WF_vars(TimerFires)

------------------------------------------------------------------------------
TypeOK ==
    /\ pc \in {"app", "stopping", "stopped", "irq", "wfi", "rearm"}
    /\ from \in {"app", "stopping"}
    /\ avail \in Int /\ delta \in Nat /\ left \in 0..(Threshold + 1)
    /\ late \in 0..Latency /\ whole \in BOOLEAN /\ used \in Nat
    /\ wrapped \in BOOLEAN /\ overflow \in BOOLEAN /\ timer \in BOOLEAN
    /\ tick \in BOOLEAN /\ counterRst \in BOOLEAN /\ lapse \in BOOLEAN
    /\ forward \in BOOLEAN /\ disturbed \in BOOLEAN

\* What the mitigation promises: between two replenishments an application causes
\* no more memory traffic than its budget and the one charge that exceeds it, unless
\* a counter wrapped, which costs at most the period in which it is charged, or another
\* core that starts or stops took an interrupt away.
Regulated == ~lapse /\ ~wrapped /\ ~disturbed => used < Budget + Chunk

\* A core that sleeps in its application has a timer that will wake it, unless one
\* charge cost it a whole budget: mem_overflow sleeps between disable_cntp and
\* time_handler, the timer stopped for good, only when THRESHOLD lets the counter run
\* so far (0.5 does, and 0.49 of the smallest BUDGET) that what came in before the
\* handler ran exceeds the budget that was replenished in the same handler.
TimerWakes == pc = "wfi" /\ from = "app" => timer \/ tick \/ whole

\* A core that the timer can wake gets back to its application, as long as no core that
\* ends disables the distributor, which all cores share: then it sleeps on.
Resumes == (pc = "wfi" /\ from = "app" /\ ~whole) ~> (pc = "app" \/ ~forward)
==============================================================================
