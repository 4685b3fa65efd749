------------------------------ MODULE RtSystem ------------------------------
(***************************************************************************)
(* rtos/rtx/TARGET_CORTEX_M: how the RTX kernel stops its tick while the   *)
(* system sleeps.  The idle thread (os_idle_demon) asks hal_sleep whether  *)
(* a deep sleep is possible, suspends the scheduler, which turns the       *)
(* SysTick interrupt off, sets a hardware timer for the next thing to do   *)
(* and sleeps; rt_resume then works out from the slow timer how many ticks *)
(* were missed and makes up for them.  Interrupts come between any two     *)
(* steps, and what they ask of the kernel while it is suspended waits in   *)
(* os_psq until it is resumed.                                             *)
(*                                                                         *)
(* Time is counted in clocks of the SysTick.  The two delta lists are kept *)
(* as what they stand for, the ticks each entry has to go; the scheduler   *)
(* picks any ready thread; messages, the size of the queues, the round     *)
(* robin, timers that start again by themselves and the statistics are     *)
(* left out.                                                               *)
(***************************************************************************)
EXTENDS HalSleep, Integers, FiniteSetsExt

CONSTANTS Thread,       \* the threads besides the idle thread
          TimerThread,  \* osTimerThread, one of them
          OsTimer,      \* the timers of svcTimerStart
          Reload,       \* clocks in a tick
          Grain,        \* clocks in a count of the slow timer, 2 on the chip
          MaxDelay,     \* bound: the longest delay or timer, in ticks
          MaxSleep,     \* stands for 0xFFFF, the sleep with nothing to wait for
          MaxSlack      \* bound: clocks the CPU takes for its steps, see Elapse

Nobody == "idle"             \* the idle thread

ASSUME RtAssumption ==
  /\ TimerThread \in Thread /\ Nobody \notin Thread
  /\ {Reload, Grain, MaxDelay, MaxSleep, MaxSlack} \subseteq Nat \ {0}
  /\ 2 * MaxSlack < Reload /\ MaxDelay <= MaxSleep

VARIABLES
  tick,    \* the SysTick: val (NVIC_ST_CURRENT) and int, its interrupt enable
  slow,    \* the slow timer: phase, and ago, its counts since the timestamp in use
  os,      \* lock (os_lock), psh (os_psh_flag), pend (pend_flags)
  idle,    \* where os_idle_demon is and the locals of rt_suspend and rt_resume
  sched,   \* run (os_tsk.run), ready (os_rdy), psq: who the queued requests are for
  dly,     \* os_dly: ticks each thread has to go, 0 for none
  timers,  \* os_timer_head: ticks each timer has to go, 0 if stopped
  hw,      \* clocks until the hwtimer of the idle thread expires, 0 if stopped
  slack,   \* clocks the CPU has taken, see Elapse
  grid,    \* clocks to the next real tick, as val counts them
  owed     \* real ticks os_time has not counted yet

rtVars == <<tick, slow, os, idle, sched, dly, timers, hw, grid, owed>>
allVars == <<vars, rtVars, slack>>

\* A local that is not used any more is reset.
Awake == [at |-> "call", start |-> 0, toGo |-> Reload, sleep |-> 0, ticking |-> FALSE]

RtInit ==
  /\ SleepInit
  /\ tick = [val |-> 0, int |-> TRUE]
  /\ slow \in [phase : 0 .. Grain - 1, ago : {0}]
  /\ os = [lock |-> FALSE, psh |-> FALSE, pend |-> {}]
  /\ idle = Awake
  /\ \E t \in Thread : sched = [run |-> t, ready |-> Thread \ {t}, psq |-> {}]
  /\ dly = [t \in Thread |-> 0] /\ timers = [x \in OsTimer |-> 0]
  /\ hw = 0 /\ slack = 0 /\ grid = 0 /\ owed = 0

-----------------------------------------------------------------------------
(***************************************************************************)
(* Time.  The CPU takes at most MaxSlack clocks for a step, and for all    *)
(* its steps while the scheduler is suspended, and it serves a tick before *)
(* the next one comes.                                                     *)
(***************************************************************************)
Down(val) == IF val = 0 THEN Reload - 1 ELSE val - 1

Step == slack' = IF os.lock THEN slack ELSE 0

Resting == core \in {"light", "deep"} /\ pending = {}

Elapse ==
  /\ Resting \/ slack < MaxSlack
  /\ ~(tick.val = 1 /\ "systick" \in pending)
  /\ slack' = IF Resting THEN slack ELSE slack + 1
  /\ tick' = [tick EXCEPT !.val = Down(@)]
  /\ grid' = Down(grid)
  /\ owed' = IF grid = 1 THEN owed + 1 ELSE owed
  /\ slow' = [phase |-> (slow.phase + 1) % Grain,
              ago |-> IF os.lock /\ slow.phase = Grain - 1 THEN slow.ago + 1 ELSE slow.ago]
  /\ hw' = IF hw = 0 THEN 0 ELSE hw - 1
  /\ pending' = pending \cup (IF tick.val = 1 /\ tick.int THEN {"systick"} ELSE {})
                        \cup (IF hw = 1 THEN {"timer"} ELSE {})
  /\ UNCHANGED <<os, idle, sched, dly, timers, sysfreqVars, cpuLock, sysLock, chipLock, busy,
                 flash, gateOpen, core, asleep, light, result>>

-----------------------------------------------------------------------------
(***************************************************************************)
(* The kernel's bookkeeping.                                               *)
(***************************************************************************)
SleepRest ==
  UNCHANGED <<sysLock, chipLock, busy, flash, gateOpen, core, asleep, light, result, sysfreqVars>>

\* rt_psh_req, with the interrupts that are pending besides.
PshReqAsleep(others) ==      \* a slip: the CPU may sleep over the request
  /\ os' = [os EXCEPT !.psh = @ \/ os.lock]
  /\ pending' = IF os.lock THEN others ELSE others \cup {"pendsv"}
  /\ UNCHANGED cpuLock

PshReq(others) ==
  /\ os' = [os EXCEPT !.psh = @ \/ os.lock]
  /\ pending' = IF os.lock THEN others ELSE others \cup {"pendsv"}
  /\ cpuLock' = IF os.lock THEN cpuLock \cup {"rtos"} ELSE cpuLock

NoReq(others) == pending' = others /\ UNCHANGED <<os, cpuLock>>

\* What n times rt_dec_dly or sysTimerTick leaves, and whom it finds due.
Lapse(f, n) == [x \in DOMAIN f |-> IF f[x] > n THEN f[x] - n ELSE 0]
Due(f, n) == {x \in DOMAIN f : f[x] \in 1 .. n}

\* A timer that is due sends a message to the timer thread.
Messages(n) == IF Due(timers, n) = {} THEN {} ELSE {TimerThread}

\* rt_switch_req to the first ready thread, the idle thread if there is none.
Dispatch(ready, psq) ==
  \/ ready = {} /\ sched' = [run |-> Nobody, ready |-> {}, psq |-> psq]
  \/ \E t \in ready : sched' = [run |-> t, ready |-> ready \ {t}, psq |-> psq]

Runnable == (sched.ready \cup {sched.run}) \ {Nobody}

-----------------------------------------------------------------------------
(***************************************************************************)
(* The interrupts.                                                         *)
(***************************************************************************)
IrqUnlocked == core = "run" /\ idle.at \notin {"lock", "stamp"}

Serving(irq) ==
  /\ IrqUnlocked /\ irq \in pending
  /\ Step
  /\ SleepRest /\ UNCHANGED <<tick, slow, idle, grid>>

\* rt_systick
SysTick ==
  /\ Serving("systick")
  /\ owed' = owed - 1
  /\ dly' = Lapse(dly, 1)
  /\ timers' = Lapse(timers, 1)
  /\ Dispatch(Runnable \cup Due(dly, 1), sched.psq \cup Messages(1))
  /\ IF Messages(1) = {} THEN NoReq(pending \ {"systick"}) ELSE PshReq(pending \ {"systick"})
  /\ UNCHANGED hw

\* rt_pop_req; who gets what it waited for leaves os_dly.
PendSv ==
  /\ Serving("pendsv")
  /\ dly' = [t \in Thread |-> IF t \in sched.psq THEN 0 ELSE dly[t]]
  /\ Dispatch(Runnable \cup sched.psq, {})
  /\ NoReq(pending \ {"pendsv"})
  /\ UNCHANGED <<timers, hw, owed>>

\* The hwtimer calls rt_psh_req.
HwTimer ==
  /\ Serving("timer")
  /\ PshReq(pending \ {"timer"})
  /\ UNCHANGED <<sched, dly, timers, hw, owed>>

\* An interrupt sends something to a thread: rt_psq_enq, rt_psh_req.
Event ==
  /\ Serving("event")
  /\ \E t \in Thread : sched' = [sched EXCEPT !.psq = @ \cup {t}]
  /\ PshReq(pending \ {"event"})
  /\ UNCHANGED <<dly, timers, hw, owed>>

Interrupt == SysTick \/ PendSv \/ HwTimer \/ Event

\* Some other interrupt comes.
RaiseEvent ==
  /\ pending' = pending \cup {"event"}
  /\ UNCHANGED <<cpuLock, rtVars, slack>> /\ SleepRest

-----------------------------------------------------------------------------
(***************************************************************************)
(* The threads.                                                            *)
(***************************************************************************)
Running(t) ==
  /\ core = "run" /\ pending = {}
  /\ sched.run = t
  /\ Step
  /\ UNCHANGED <<tick, slow, os, idle, hw, grid, owed>>

\* A thread waits, at most d ticks unless d is 0 (rt_block, rt_put_dly).
Block(t, d) ==
  /\ Running(t)
  /\ dly' = [dly EXCEPT ![t] = d]
  /\ Dispatch(sched.ready, sched.psq)
  /\ UNCHANGED <<timers, vars>>

\* svcTimerStart, and svcTimerStop with d = 0
StartTimer(t, x, d) ==
  /\ Running(t)
  /\ timers' = [timers EXCEPT ![x] = d]
  /\ UNCHANGED <<sched, dly, vars>>

\* A thread takes or leaves a wake lock.
ThreadLocks(t) == Running(t) /\ Locks /\ UNCHANGED <<sched, dly, timers>>

ThreadStep ==
  \E t \in Thread :
    \/ \E d \in 0 .. MaxDelay : Block(t, d)
    \/ \E x \in OsTimer, d \in 0 .. MaxDelay : StartTimer(t, x, d)
    \/ ThreadLocks(t)

-----------------------------------------------------------------------------
(***************************************************************************)
(* os_idle_demon.  The steps with interrupts enabled come when none is     *)
(* pending.                                                                *)
(***************************************************************************)
At(place) ==
  /\ idle.at = place /\ core = "run" /\ sched.run = Nobody
  /\ idle.at \in {"lock", "stamp"} \/ pending = {}
  /\ Step

Goto(place) == idle' = [idle EXCEPT !.at = place]

LightSleep ==
  /\ At("call") /\ EnterSleep(TRUE)
  /\ Goto("called")
  /\ UNCHANGED <<tick, slow, os, sched, dly, timers, hw, grid, owed>>

LightSlept ==
  /\ At("called")
  /\ Goto(IF result = "DEEP" THEN "suspend" ELSE "call")
  /\ UNCHANGED <<tick, slow, os, sched, dly, timers, hw, grid, owed, vars>>

\* rt_suspend: lock the interrupts, read the SysTick,
Suspend ==
  /\ At("suspend")
  /\ idle' = [idle EXCEPT !.at = "lock", !.start = tick.val]
  /\ UNCHANGED <<tick, slow, os, sched, dly, timers, hw, grid, owed, vars>>

\* rt_tsk_lock,
TskLock ==
  /\ At("lock")
  /\ tick' = [tick EXCEPT !.int = FALSE]
  /\ os' = [os EXCEPT !.lock = TRUE, !.pend = pending \cap {"systick", "pendsv"}]
  /\ pending' = pending \ {"systick", "pendsv"}
  /\ Goto("stamp")
  /\ UNCHANGED <<slow, sched, dly, timers, hw, grid, owed, cpuLock>> /\ SleepRest

\* read it again: a tick in between is pending though its interrupt was off.
WrappedUp == idle.start < tick.val     \* a slip: 0 is before, not after, the wrap

WrappedMeanwhile ==
  idle.start # 0 /\ (tick.val = 0 \/ idle.start < tick.val)

Stamp ==
  /\ At("stamp")
  /\ os' = [os EXCEPT !.pend = @ \cup (IF WrappedMeanwhile THEN {"systick"} ELSE {})]
  /\ idle' = [Awake EXCEPT !.toGo = IF tick.val = 0 THEN Reload ELSE tick.val,
                           !.at = IF os'.pend = {} THEN "arm" ELSE "resume"]
  /\ slow' = [slow EXCEPT !.ago = 0]
  /\ UNCHANGED <<tick, sched, dly, timers, hw, grid, owed, vars>>

\* Ticks until the first delay or timer is due.
Waited(f) == {f[x] : x \in DOMAIN f} \ {0}

NextDueDelays == Min({MaxSleep} \cup Waited(dly))    \* a slip: the timers are not asked

NextDue == Min({MaxSleep} \cup Waited(dly) \cup Waited(timers))

Arm ==
  /\ At("arm")
  /\ hw' = NextDue * Reload
  /\ Goto("sleep")
  /\ UNCHANGED <<tick, slow, os, sched, dly, timers, grid, owed, vars>>

DeepSleepNow ==
  /\ At("sleep") /\ EnterSleep(FALSE)
  /\ Goto("slept")
  /\ UNCHANGED <<tick, slow, os, sched, dly, timers, hw, grid, owed>>

Slept ==
  /\ At("slept")
  /\ hw' = 0
  /\ Goto("resume")
  /\ UNCHANGED <<tick, slow, os, sched, dly, timers, grid, owed, vars>>

-----------------------------------------------------------------------------
(***************************************************************************)
(* rt_resume.  The clocks that went by, of which the first toGo end a tick.*)
(* The first of the three cases of the code, with the SysTick at 0, is the *)
(* second one with a whole tick to go.                                     *)
(***************************************************************************)
Clocks == slow.ago * Grain

Passed(toGo, clocks) == IF clocks >= toGo THEN (clocks - toGo) \div Reload + 1 ELSE 0

Left(toGo, clocks) ==
  IF clocks >= toGo THEN Reload - ((clocks - toGo) % Reload) ELSE toGo - clocks

Resume ==
  /\ At("resume")
  /\ LET n == Passed(idle.toGo, Clocks) IN
       idle' = [idle EXCEPT !.sleep = n, !.toGo = Left(@, Clocks), !.ticking = n = 0,
                            !.at = IF n = 0 THEN "unlock" ELSE "catchup"]
  /\ slow' = [slow EXCEPT !.ago = 0]
  /\ UNCHANGED <<tick, os, sched, dly, timers, hw, grid, owed, vars>>

CaughtUpToOne(f) ==      \* a slip: delta_time is set to 1 and not counted down
  [x \in DOMAIN f |-> IF f[x] = 0 THEN 0 ELSE Max({1, f[x] - idle.sleep})]
CaughtUp(f) == Lapse(f, idle.sleep)

CatchUp ==
  /\ At("catchup")
  /\ owed' = owed - idle.sleep
  /\ dly' = CaughtUp(dly)
  /\ timers' = CaughtUp(timers)
  /\ sched' = [sched EXCEPT !.ready = @ \cup Due(dly, idle.sleep),
                            !.psq = @ \cup Messages(idle.sleep)]
  /\ IF Due(dly, idle.sleep) \cup Messages(idle.sleep) = {} THEN NoReq(pending) ELSE PshReq(pending)
  /\ idle' = [idle EXCEPT !.at = "unlock", !.sleep = 0]
  /\ UNCHANGED <<tick, slow, hw, grid>> /\ SleepRest

\* A tick went by inside rt_resume: round again.
WrappedInside ==
  /\ At("unlock") /\ Clocks >= idle.toGo
  /\ idle' = [idle EXCEPT !.sleep = Passed(idle.toGo, Clocks), !.toGo = Left(@, Clocks),
                          !.at = "catchup"]
  /\ slow' = [slow EXCEPT !.ago = 0]
  /\ UNCHANGED <<tick, os, sched, dly, timers, hw, grid, owed, vars>>

\* The SysTick goes on where it should be, unless it was never stopped (OS_UNLOCK);
WhereItShouldBe == IF idle.ticking THEN tick.val ELSE (idle.toGo - Clocks) % Reload
TickOn == [int |-> TRUE, val |-> WhereItShouldBe]

\* what was pending, and what was asked for meanwhile, is pending again (OS_PEND).
OsPend == os.pend \cup (IF os.psh THEN {"pendsv"} ELSE {})

\* rt_tsk_unlock at the end of rt_resume
Unlock ==
  /\ At("unlock") /\ Clocks < idle.toGo
  /\ tick' = TickOn
  /\ pending' = OsPend
  /\ os' = [lock |-> FALSE, psh |-> FALSE, pend |-> {}]
  /\ cpuLock' = cpuLock \ {"rtos"}
  /\ slow' = [slow EXCEPT !.ago = 0]
  /\ idle' = Awake
  /\ UNCHANGED <<sched, dly, timers, hw, grid, owed>> /\ SleepRest

Waking == Sleeping /\ Step /\ UNCHANGED rtVars

IdleStep ==
  \/ LightSleep \/ LightSlept \/ Suspend \/ TskLock \/ Stamp
  \/ Arm \/ DeepSleepNow \/ Slept
  \/ Resume \/ CatchUp \/ WrappedInside \/ Unlock

RtNext == Elapse \/ Interrupt \/ RaiseEvent \/ ThreadStep \/ IdleStep \/ Waking

RtSpec == RtInit /\ [][RtNext]_allVars

(***************************************************************************)
(* Time goes on, interrupts are served, a thread waits again in the end    *)
(* and the CPU is fast enough for the idle thread to get on between them.  *)
(***************************************************************************)
RtFairSpec ==
  /\ RtSpec
  /\ WF_allVars(Elapse) /\ WF_allVars(Waking)
  /\ WF_allVars(SysTick) /\ WF_allVars(PendSv) /\ WF_allVars(HwTimer) /\ WF_allVars(Event)
  /\ \A t \in Thread : SF_allVars(\E d \in 0 .. MaxDelay : Block(t, d))
  /\ SF_allVars(IdleStep)

-----------------------------------------------------------------------------
RtTypeOK ==
  /\ tick \in [val : 0 .. Reload - 1, int : BOOLEAN]
  /\ slow \in [phase : 0 .. Grain - 1, ago : 0 .. (MaxSleep + 2) * Reload]
  /\ os \in [lock : BOOLEAN, psh : BOOLEAN, pend : SUBSET {"systick", "pendsv"}]
  /\ idle.start \in 0 .. Reload - 1 /\ idle.toGo \in 1 .. Reload
  /\ idle.sleep \in 0 .. MaxSleep + 2
  /\ sched.run \in Thread \cup {Nobody} /\ sched.ready \cup sched.psq \subseteq Thread
  /\ dly \in [Thread -> 0 .. MaxDelay] /\ timers \in [OsTimer -> 0 .. MaxDelay]
  /\ hw \in 0 .. MaxSleep * Reload
  /\ cpuLock \subseteq CpuUser \cup {"rtos"}
  /\ pending \subseteq {"systick", "pendsv", "timer", "event"}

(***************************************************************************)
(* However often and however long the tick was stopped, and whenever it    *)
(* came while the scheduler was being suspended or resumed, os_time counts *)
(* every tick exactly once: when the scheduler runs, the one tick not yet  *)
(* counted is the one whose interrupt is pending, and the SysTick is where *)
(* it would be had nobody stopped it; no tick is counted before its time.  *)
(***************************************************************************)
TicksKept ==
  /\ RtTypeOK
  /\ owed >= 0
  /\ ~os.lock => /\ owed = (IF "systick" \in pending THEN 1 ELSE 0)
                /\ tick.val = grid

(***************************************************************************)
(* The CPU does not sleep past what somebody waits for: no thread's delay  *)
(* and no timer is ever more than a tick overdue.                          *)
(***************************************************************************)
DueInTime == \A n \in Waited(dly) \cup Waited(timers) : owed <= n + 1

(***************************************************************************)
(* The CPU never rests with a request in os_psq or a thread ready: what an *)
(* interrupt asked for while the scheduler was suspended, and what         *)
(* rt_resume found due, gets the CPU before it sleeps.                     *)
(***************************************************************************)
NoSleepOverRequest == Resting => sched.psq = {} /\ sched.ready = {}

\* A delay ends, however the CPU sleeps and however often.
DelaysEnd == \A t \in Thread : dly[t] > 0 ~> dly[t] = 0

=============================================================================
