------------------------------ MODULE HalSleep ------------------------------
(***************************************************************************)
(* platform/hal/hal_sleep.c: how the idle thread puts the CPU to sleep.    *)
(* With interrupts locked hal_sleep_proc runs the sleep hooks, which       *)
(* write what the flash services still hold back, and then looks at the    *)
(* wake locks, the clock votes and the DMA: it waits for an interrupt with *)
(* the system running (light sleep), or puts the modules and the system    *)
(* to sleep (deep sleep).  Interrupts may become pending at any moment,    *)
(* but are served, and threads run, only when the lock is released.        *)
(* hal_sleep_light_sleep asks the same questions and leaves the deep sleep *)
(* to hal_sleep_enter_sleep.                                               *)
(*                                                                         *)
(* Of the hooks this is the build with FLASH_SUSPEND: the sleep hooks of   *)
(* the user data record and of norflash_api, in that order, and no deep    *)
(* sleep hook; DEBUG is on.  The sleep statistics are left out.            *)
(***************************************************************************)
EXTENDS HalSysfreq, FiniteSets

CONSTANTS CpuUser, SysUser, ChipUser,   \* who takes the wake locks
          Device,     \* a subset of {"lpu", "dma", "trace"}: hardware that may be busy
          Irq,        \* the interrupts
          MaxOps,     \* pending operations norflash_api has room for
          MaxNv       \* bound: operations the user data record has to queue

ASSUME SleepAssumption ==
  /\ Device \subseteq {"lpu", "dma", "trace"}
  /\ MaxOps \in Nat \ {0} /\ MaxNv \in Nat

VARIABLES
  cpuLock, sysLock, chipLock,  \* the wake_lock_maps, as sets of users
  busy,      \* the devices that are busy
  flash,     \* nv: operations the record has to queue; ops: those norflash_api holds
  gateOpen,  \* whether norflash_api may flush (_flush_is_allowed)
  pending,   \* interrupts pending and enabled
  core,      \* "run", "light" in WFI, "poll" on the trace, "falling" with the
             \* modules asleep, "deep"
  asleep,    \* the modules put to sleep
  light,     \* the argument of hal_sleep_proc, light_sleep
  result     \* what the last call returned

sleepVars ==
  <<cpuLock, sysLock, chipLock, busy, flash, gateOpen, pending, core, asleep, light, result>>
vars == <<sysfreqVars, sleepVars>>

Always == {"gpadc", "bt", "flash"}   \* these sleep in every deep sleep
Chip == {"analog", "pmu"}            \* these unless a chip wake lock is held

SleepInit ==
  /\ SysfreqInit
  /\ cpuLock = {} /\ sysLock = {} /\ chipLock = {}
  /\ busy = {}
  /\ flash = [nv |-> 0, ops |-> 0]
  /\ gateOpen = TRUE
  /\ pending = {}
  /\ core = "run"
  /\ asleep = {}
  /\ light = FALSE /\ result = "LIGHT"

-----------------------------------------------------------------------------
\* hal_sleep_cpu_busy and hal_sleep_sys_busy
CpuBusy == cpuLock # {} \/ "lpu" \in busy
SysBusy == sysLock # {} \/ SysfreqBusy \/ "dma" \in busy

(***************************************************************************)
(* The hooks.  norflash_api_flush does one operation; it is suspended when *)
(* an interrupt is pending and then stays to be done.                      *)
(***************************************************************************)
CanFlush(f) == gateOpen /\ f.ops > 0

Flushed(f) ==
  IF CanFlush(f)
  THEN {[f EXCEPT !.ops = @ - 1]} \cup (IF pending = {} THEN {} ELSE {f})
  ELSE {f}

\* nv_record_flash_flush_in_sleep queues the next operation, or makes room.
NvHook(f) ==
  IF f.nv = 0 THEN {f}
  ELSE IF f.ops < MaxOps THEN {[nv |-> f.nv - 1, ops |-> f.ops + 1]}
  ELSE Flushed(f)

Return(value) ==
  /\ core' = "run"
  /\ result' = value
  /\ asleep' = {}
  /\ UNCHANGED <<cpuLock, sysLock, chipLock, busy, gateOpen, pending, sysfreqVars>>

Stay(state) ==
  /\ core' = state
  /\ UNCHANGED <<cpuLock, sysLock, chipLock, busy, gateOpen, pending, result, sysfreqVars>>

(***************************************************************************)
(* hal_sleep_lowpower_mode, down to the last look at the interrupts.  It   *)
(* asks again whether the trace is busy, which nothing can have changed.   *)
(***************************************************************************)
LowpowerMode ==
  /\ asleep' = Always \cup (IF chipLock = {} THEN Chip ELSE {})
  /\ Stay("falling")

\* Nothing is in the way of a deep sleep.
DeepSleep == IF light' THEN Return("DEEP") ELSE LowpowerMode

\* A slip: the clock votes are not asked.
ChooseSleepUnvoted ==
  \/ /\ sysLock # {} \/ "dma" \in busy
     /\ Stay("light") /\ UNCHANGED asleep
  \/ /\ sysLock = {} /\ "dma" \notin busy
     /\ DeepSleep

\* What hal_sleep_proc does when no hook had work.
ChooseSleep ==
  \/ /\ SysBusy
     /\ Stay("light") /\ UNCHANGED asleep
  \/ /\ ~SysBusy /\ "trace" \in busy
     /\ Stay("poll") /\ UNCHANGED asleep
  \/ /\ ~SysBusy /\ "trace" \notin busy
     /\ DeepSleep

\* A slip: the hook of norflash_api runs before that of the record.
SleepProcHooksSwapped ==
  /\ ~CpuBusy
  /\ IF CanFlush(flash)
     THEN flash' \in Flushed(flash) /\ Return("LIGHT")
     ELSE flash' \in NvHook(flash) /\ ChooseSleep

\* hal_sleep_proc
SleepProc ==
  \/ CpuBusy /\ Return("LIGHT") /\ UNCHANGED flash
  \/ /\ ~CpuBusy
     /\ \E f \in NvHook(flash) :
          IF CanFlush(f)
          THEN flash' \in Flushed(f) /\ Return("LIGHT")
          ELSE flash' = f /\ ChooseSleep

\* hal_sleep_light_sleep (light) and hal_sleep_enter_sleep: lock, proc.
EnterSleep(lightSleep) ==
  /\ core = "run" /\ SysfreqIdle
  /\ light' = lightSleep
  /\ SleepProc

\* __WFI ends when an interrupt is pending.
WakeLight ==
  /\ core = "light" /\ pending # {}
  /\ Return("LIGHT") /\ UNCHANGED <<flash, light>>

\* A slip: the end of the trace is not polled for, and raises no interrupt.
PollTraceWaiting ==
  /\ core = "poll" /\ pending # {}
  /\ Return("LIGHT") /\ UNCHANGED <<flash, light>>

\* The poll of the trace ends with the trace, or with an interrupt.
PollTrace ==
  /\ core = "poll"
  /\ UNCHANGED <<flash, light>>
  /\ \/ pending # {} /\ Return("LIGHT")
     \/ pending = {} /\ "trace" \notin busy /\ DeepSleep

\* hal_cmu_lpu_sleep, unless an interrupt is pending by now.
LpuSleep ==
  /\ core = "falling" /\ pending = {}
  /\ Stay("deep") /\ UNCHANGED <<flash, asleep, light>>

\* A slip: a sleep given up leaves the modules asleep.
FallBackForgetting ==
  /\ core = "falling" /\ pending # {}
  /\ core' = "run" /\ result' = "LIGHT"
  /\ UNCHANGED <<cpuLock, sysLock, chipLock, busy, flash, gateOpen, pending, asleep, light,
                 sysfreqVars>>

FallBack ==
  /\ core = "falling" /\ pending # {}
  /\ Return("LIGHT") /\ UNCHANGED <<flash, light>>

WakeDeep ==
  /\ core = "deep" /\ pending # {}
  /\ Return("DEEP") /\ UNCHANGED <<flash, light>>

Sleeping == WakeLight \/ PollTrace \/ LpuSleep \/ FallBack \/ WakeDeep

-----------------------------------------------------------------------------
(***************************************************************************)
(* What threads and interrupts do while the CPU runs.                      *)
(***************************************************************************)
\* hal_cpu_wake_lock and its siblings, lock and unlock.
WakeLock ==
  \/ /\ \E u \in CpuUser : cpuLock' \in {cpuLock \cup {u}, cpuLock \ {u}}
     /\ UNCHANGED <<sysLock, chipLock>>
  \/ /\ \E u \in SysUser : sysLock' \in {sysLock \cup {u}, sysLock \ {u}}
     /\ UNCHANGED <<cpuLock, chipLock>>
  \/ /\ \E u \in ChipUser : chipLock' \in {chipLock \cup {u}, chipLock \ {u}}
     /\ UNCHANGED <<cpuLock, sysLock>>

\* The CPU starts a device only while it runs; a device gets idle by itself.
StartDevice ==
  /\ core = "run"
  /\ \E d \in Device : busy' = busy \cup {d}
  /\ UNCHANGED <<cpuLock, sysLock, chipLock, flash, gateOpen, pending, core, asleep, light, result,
                 sysfreqVars>>

DeviceDone ==
  /\ \E d \in busy : busy' = busy \ {d}
  /\ UNCHANGED <<cpuLock, sysLock, chipLock, flash, gateOpen, pending, core, asleep, light, result,
                 sysfreqVars>>

\* The record changed, an operation is queued, the CP starts or is ready.
FlashWork ==
  /\ core = "run"
  /\ \/ flash.nv = 0 /\ flash' = [flash EXCEPT !.nv = MaxNv] /\ UNCHANGED gateOpen
     \/ flash.ops < MaxOps /\ flash' = [flash EXCEPT !.ops = @ + 1] /\ UNCHANGED gateOpen
     \/ gateOpen' = ~gateOpen /\ UNCHANGED flash
  /\ UNCHANGED <<cpuLock, sysLock, chipLock, busy, pending, core, asleep, light, result,
                 sysfreqVars>>

Locks ==
  /\ core = "run"
  /\ WakeLock
  /\ UNCHANGED <<busy, flash, gateOpen, pending, core, asleep, light, result, sysfreqVars>>

Votes ==
  /\ core = "run"
  /\ SysfreqNext
  /\ UNCHANGED sleepVars

Raise ==
  /\ \E i \in Irq : pending' = pending \cup {i}
  /\ UNCHANGED <<cpuLock, sysLock, chipLock, busy, flash, gateOpen, core, asleep, light, result,
                 sysfreqVars>>

Serve ==
  /\ core = "run"
  /\ \E i \in pending : pending' = pending \ {i}
  /\ UNCHANGED <<cpuLock, sysLock, chipLock, busy, flash, gateOpen, core, asleep, light, result,
                 sysfreqVars>>

\* The idle thread: a real sleep follows a light one that said DEEP.
Idle ==
  /\ pending = {}
  /\ EnterSleep(~(light /\ result = "DEEP"))

Next ==
  \/ Idle \/ Sleeping
  \/ StartDevice \/ DeviceDone \/ FlashWork \/ Locks \/ Votes
  \/ Raise \/ Serve

Spec == SleepInit /\ [][Next]_vars

(***************************************************************************)
(* The idle thread gets the CPU and the hardware wakes it; a request under *)
(* way ends, a pending interrupt is served and a busy device gets idle.    *)
(* A light sleep ends at the next tick, or at the timer the idle thread    *)
(* set.  Suspended or not, an operation of the flash gets done in the end. *)
(***************************************************************************)
FlushDone == Idle /\ flash'.ops < flash.ops

FairSpec ==
  /\ Spec
  /\ WF_vars(Idle) /\ WF_vars(Sleeping) /\ WF_vars(Serve) /\ WF_vars(DeviceDone)
  /\ WF_vars(core = "light" /\ Raise)
  /\ WF_vars(core = "run" /\ (SetClock \/ SetVolt) /\ UNCHANGED sleepVars)
  /\ SF_vars(FlushDone)

-----------------------------------------------------------------------------
SleepTypeOK ==
  /\ SysfreqTypeOK
  /\ cpuLock \subseteq CpuUser /\ sysLock \subseteq SysUser /\ chipLock \subseteq ChipUser
  /\ busy \subseteq Device
  /\ flash \in [nv : 0 .. MaxNv, ops : 0 .. MaxOps]
  /\ gateOpen \in BOOLEAN
  /\ pending \subseteq Irq
  /\ core \in {"run", "light", "poll", "falling", "deep"}
  /\ asleep \subseteq Always \cup Chip
  /\ light \in BOOLEAN /\ result \in {"LIGHT", "DEEP"}

(***************************************************************************)
(* The system sleeps deeply only while nobody holds a cpu or sys lock,     *)
(* every vote is for 32K and the DMA and the trace are idle; the PMU and   *)
(* the analog modules sleep only while no chip lock is held; and when      *)
(* threads and interrupts run again every module is awake, also when the   *)
(* sleep was given up at the last look for an interrupt.                   *)
(***************************************************************************)
DeepSleepAllowed ==
  /\ SleepTypeOK
  /\ core \in {"falling", "deep"} => ~CpuBusy /\ ~SysBusy /\ "trace" \notin busy
  /\ asleep \cap Chip # {} => chipLock = {}
  /\ core = "run" => asleep = {}

(***************************************************************************)
(* The hooks run again and again until none has work: in deep sleep        *)
(* norflash_api holds nothing it was allowed to write, what the record     *)
(* queued in the same pass included.                                       *)
(***************************************************************************)
FlushedBeforeDeep == core = "deep" => flash.ops = 0 \/ ~gateOpen

\* Nothing keeps the CPU awake.
Quiet ==
  /\ cpuLock = {} /\ sysLock = {} /\ busy = {} /\ ~SysfreqBusy /\ pending = {}

(***************************************************************************)
(* Unless new work for the flash comes again and again, a system that      *)
(* nothing keeps awake reaches deep sleep: the hooks, which each time give *)
(* the sleep up when they had something to write, come to an end.          *)
(***************************************************************************)
IdleGoesDeep ==
  <>[][~FlashWork]_vars => (Quiet ~> core = "deep" \/ ~Quiet)

\* Whatever the state of the sleep, an interrupt gets the CPU running.
InterruptWakes == pending # {} ~> core = "run" /\ asleep = {}

=============================================================================
