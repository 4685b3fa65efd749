------------------------------ MODULE HalTimer ------------------------------
(***************************************************************************)
(* platform/hal/hal_timer.c and hal_timer_raw.h: the one hardware timer    *)
(* behind the software timers.  It is loaded with a number of ticks,       *)
(* counts down to 0, raises its interrupt there and rests at 0, enabled,   *)
(* until it is stopped or loaded again.  A second, free running counter    *)
(* tells the ticks elapsed since it was started.                           *)
(***************************************************************************)
EXTENDS Integers

VARIABLES
  en,       \* TIMER_CTRL_EN
  value,    \* the Value register
  irq,      \* TIMER01_IRQn is pending
  elapsed   \* hal_sys_timer_get() - start_time; stands still while not started

hwVars == <<en, value, irq, elapsed>>

HAL_TIMER_LOAD_DELTA == 1

TimerInit ==
  /\ en = FALSE
  /\ value = 0
  /\ irq = FALSE
  /\ elapsed = 0

\* What hal_timer_reload writes to Load.
Load(ticks) ==
  IF ticks > HAL_TIMER_LOAD_DELTA THEN ticks - HAL_TIMER_LOAD_DELTA ELSE 1

\* A slip: an interrupt that is already pending is not taken back.
TimerStopKeepsIrq ==
  /\ en' = FALSE
  /\ elapsed' = 0
  /\ UNCHANGED <<value, irq>>

(***************************************************************************)
(* hal_timer_stop; hal_timer_start.  A pending interrupt is cleared by the *)
(* stop and left alone by the start, hence the two forms of a restart.     *)
(***************************************************************************)
TimerStop ==
  /\ en' = FALSE
  /\ irq' = FALSE
  /\ elapsed' = 0
  /\ UNCHANGED value

TimerStart(ticks) ==
  /\ en' = TRUE
  /\ value' = Load(ticks)
  /\ elapsed' = 0
  /\ UNCHANGED irq

TimerStopStart(ticks) ==
  /\ en' = TRUE
  /\ value' = Load(ticks)
  /\ elapsed' = 0
  /\ irq' = FALSE

(***************************************************************************)
(* hal_timer01_irq_handler clears the interrupt before it calls the        *)
(* handler.                                                                *)
(***************************************************************************)
TimerIrqTaken ==
  /\ irq
  /\ irq' = FALSE
  /\ UNCHANGED <<en, value, elapsed>>

(***************************************************************************)
(* One tick of both counters, which run from the same clock.               *)
(***************************************************************************)
TimerTick ==
  /\ value' = IF en /\ value > 0 THEN value - 1 ELSE value
  /\ irq' = (irq \/ (en /\ value = 1))
  /\ elapsed' = IF en THEN elapsed + 1 ELSE elapsed
  /\ UNCHANGED en

=============================================================================
