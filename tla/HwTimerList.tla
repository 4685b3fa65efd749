----------------------------- MODULE HwTimerList -----------------------------
(***************************************************************************)
(* utils/hwtimer_list/hwtimer_list.c: software timers on one hardware      *)
(* timer.  The started timers form a list sorted by deadline in which each *)
(* holds the ticks after the one before it; the hardware runs for the      *)
(* first.  Its interrupt moves the timers that are due to the list of the  *)
(* fired, loads the hardware for the next one and calls the fired timers   *)
(* one by one.  Every operation works with interrupts locked, but they are *)
(* unlocked around each callback, and between the acknowledgement of the   *)
(* interrupt and the handler's lock: there the callback itself or an       *)
(* interrupt of higher priority may start, stop or free any timer.         *)
(***************************************************************************)
EXTENDS HalTimer, Sequences, SequencesExt, FiniteSets

CONSTANTS Timer,      \* hwtimer_list.timer, HWTIMER_NUM of them
          MaxTicks,   \* bound: the longest timer
          MaxLate,    \* bound: ticks an expired hardware timer waits to be served
          None

ASSUME HwTimerAssumption ==
  /\ MaxTicks \in Nat \ {0}
  /\ MaxLate \in Nat \ {0}
  /\ None \notin Timer

VARIABLES
  state,    \* HWTIMER_STATE_T of each timer; the free list is those in FREE
  time,     \* HWTIMER_T.time of each active timer, 0 for the others
  active,   \* hwtimer_list.active
  fired,    \* hwtimer_list.fired
  handler,  \* where hwtimer_handler is: "idle", "entered" before its lock, or
            \* "calling" a callback
  last      \* the timer whose callback runs

listVars == <<state, time, active, fired, handler, last>>
vars == <<hwVars, listVars>>

State == {"FREE", "ALLOC", "ACTIVE", "FIRED", "CALLBACK"}

Larger(a, b) == IF a > b THEN a ELSE b

\* The times of a list of timers, and how long after its start number i is due.
Times(list) == [i \in DOMAIN list |-> time[list[i]]]

Sums(s) ==
  LET due[k \in 0..Len(s)] == IF k = 0 THEN 0 ELSE due[k - 1] + s[k]
  IN  due

Offset(list, i) == Sums(Times(list))[i]

\* A slip: a timer that is due in this very tick does not count.
LapsedBefore(list, ticks) == Cardinality({i \in DOMAIN list : Offset(list, i) < ticks})

\* How many timers at the front of the list are over after some ticks.
Lapsed(list, ticks) == Cardinality({i \in DOMAIN list : Offset(list, i) <= ticks})

\* Ticks since the first active timer was due.
Overrun == Larger(elapsed - time[Head(active)], 0)

Init ==
  /\ TimerInit
  /\ state = [t \in Timer |-> "FREE"]
  /\ time = [t \in Timer |-> 0]
  /\ active = <<>>
  /\ fired = <<>>
  /\ handler = "idle"
  /\ last = None

-----------------------------------------------------------------------------
Alloc(t) ==
  /\ state[t] = "FREE"
  /\ state' = [state EXCEPT ![t] = "ALLOC"]
  /\ UNCHANGED <<time, active, fired, handler, last, hwVars>>

Free(t) ==
  /\ state[t] = "ALLOC"
  /\ state' = [state EXCEPT ![t] = "FREE"]
  /\ UNCHANGED <<time, active, fired, handler, last, hwVars>>

(***************************************************************************)
(* __hwtimer_start_int.  The remaining time of the first timer is read     *)
(* from the hardware, which says 0 from the expiry until it is served, and *)
(* was loaded with one tick less than the timer has.                       *)
(***************************************************************************)
StartFirst(t, ticks) ==
  /\ active = <<>>
  /\ active' = <<t>>
  /\ time' = [time EXCEPT ![t] = ticks]
  /\ TimerStart(ticks)

\* A slip: the hardware goes on counting for the old first timer.
StartInFrontUnloaded(t, ticks) ==
  /\ active # <<>> /\ value > ticks
  /\ active' = <<t>> \o active
  /\ time' = [time EXCEPT ![t] = ticks, ![Head(active)] = value - ticks]
  /\ UNCHANGED hwVars

StartInFront(t, ticks) ==
  /\ active # <<>> /\ value > ticks
  /\ active' = <<t>> \o active
  /\ time' = [time EXCEPT ![t] = ticks, ![Head(active)] = value - ticks]
  /\ TimerStopStart(ticks)

\* A slip: the timer behind the new one keeps its time.
StartBehindKeepingTime(t, ticks) ==
  LET others == Tail(active)
      n == Cardinality({i \in DOMAIN others : Offset(others, i) < ticks - value})
  IN  /\ active # <<>> /\ value <= ticks
      /\ active' = InsertAt(active, n + 2, t)
      /\ time' = [time EXCEPT ![t] = ticks - value - Offset(others, n)]
      /\ UNCHANGED hwVars

StartBehind(t, ticks) ==
  LET others == Tail(active)
      n == Cardinality({i \in DOMAIN others : Offset(others, i) < ticks - value})
      rest == ticks - value - Offset(others, n)
  IN  /\ active # <<>> /\ value <= ticks
      /\ active' = InsertAt(active, n + 2, t)
      /\ time' = [u \in Timer |->
                    IF u = t THEN rest
                    ELSE IF n < Len(others) /\ u = others[n + 1] THEN time[u] - rest
                    ELSE time[u]]
      /\ UNCHANGED hwVars

Start(t, requested) ==
  LET ticks == Larger(requested, HAL_TIMER_LOAD_DELTA)
  IN  /\ state[t] \in {"ALLOC", "CALLBACK"}
      /\ state' = [state EXCEPT ![t] = "ACTIVE"]
      /\ StartFirst(t, ticks) \/ StartInFront(t, ticks) \/ StartBehind(t, ticks)
      /\ UNCHANGED <<fired, handler, last>>

-----------------------------------------------------------------------------
(***************************************************************************)
(* hwtimer_stop.  A timer in its callback is not stopped; one that is      *)
(* stopped already is left as it is.                                       *)
(***************************************************************************)
Stopped(t) == state' = [state EXCEPT ![t] = "ALLOC"]

(***************************************************************************)
(* The first timer has not expired: the next one takes over what the       *)
(* hardware has left.                                                      *)
(***************************************************************************)
StopFirst(t) ==
  /\ active # <<>> /\ t = Head(active) /\ value > 0
  /\ active' = Tail(active)
  /\ IF active' = <<>>
     THEN time' = [time EXCEPT ![t] = 0] /\ TimerStop
     ELSE /\ time' = [time EXCEPT ![t] = 0, ![Head(active')] = @ + value]
          /\ TimerStopStart(time'[Head(active')])
  /\ UNCHANGED fired

(***************************************************************************)
(* It has, and its interrupt waits: the ticks since are taken from the     *)
(* others, down to 0 for those that are over too.                          *)
(***************************************************************************)
StopExpired(t) ==
  LET others == Tail(active)
      n == Lapsed(others, Overrun)
  IN  /\ active # <<>> /\ t = Head(active) /\ value = 0
      /\ active' = others
      /\ time' = [u \in Timer |->
                    IF u = t \/ \E i \in 1..n : u = others[i] THEN 0
                    ELSE IF n < Len(others) /\ u = others[n + 1]
                    THEN time[u] - (Overrun - Offset(others, n))
                    ELSE time[u]]
      /\ IF others = <<>> THEN TimerStop ELSE TimerStopStart(time'[Head(others)])
      /\ UNCHANGED fired

StopBehind(t) ==
  /\ active # <<>> /\ t # Head(active) /\ Contains(active, t)
  /\ LET i == SelectInSeq(active, LAMBDA u : u = t)
     IN  /\ active' = RemoveAt(active, i)
         /\ time' = [u \in Timer |->
                       IF u = t THEN 0
                       ELSE IF i < Len(active) /\ u = active[i + 1] THEN time[u] + time[t]
                       ELSE time[u]]
  /\ UNCHANGED <<fired, hwVars>>

StopFired(t) ==
  /\ state[t] = "FIRED"
  /\ fired' = RemoveFirst(fired, t)
  /\ UNCHANGED <<time, active, hwVars>>

Stop(t) ==
  /\ \/ state[t] = "ACTIVE" /\ (StopFirst(t) \/ StopExpired(t) \/ StopBehind(t))
     \/ StopFired(t)
  /\ Stopped(t)
  /\ UNCHANGED <<handler, last>>

-----------------------------------------------------------------------------
IrqEnter ==
  /\ handler = "idle"
  /\ TimerIrqTaken
  /\ handler' = "entered"
  /\ UNCHANGED <<state, time, active, fired, last>>

\* A slip: the tick the hardware is loaded short of is forgotten.
EarlyByTheLoad == active # <<>> /\ time[Head(active)] > elapsed

(***************************************************************************)
(* The first timer was stopped, or replaced by a later one, after the      *)
(* interrupt was acknowledged.                                             *)
(***************************************************************************)
Early == active # <<>> /\ time[Head(active)] > elapsed + HAL_TIMER_LOAD_DELTA

HandleNothing ==
  /\ handler = "entered"
  /\ active # <<>> => Early
  /\ handler' = "idle"
  /\ UNCHANGED <<state, time, active, fired, last, hwVars>>

\* The first timer of a list goes to its callback, with interrupts unlocked.
CallFirst(list, from) ==
  IF list = <<>>
  THEN /\ fired' = <<>>
       /\ handler' = "idle"
       /\ last' = None
       /\ state' = from
  ELSE /\ fired' = Tail(list)
       /\ handler' = "calling"
       /\ last' = Head(list)
       /\ state' = [from EXCEPT ![Head(list)] = "CALLBACK"]

Fire ==
  LET n == 1 + Lapsed(Tail(active), Overrun)
      due == SubSeq(active, 1, n)
      rest == SubSeq(active, n + 1, Len(active))
  IN  /\ handler = "entered"
      /\ active # <<>> /\ ~Early
      /\ active' = rest
      /\ time' = [u \in Timer |->
                    IF Contains(due, u) THEN 0
                    ELSE IF rest # <<>> /\ u = Head(rest)
                    THEN time[u] - (Overrun - Offset(Tail(active), n - 1))
                    ELSE time[u]]
      /\ IF rest = <<>> THEN TimerStop ELSE TimerStart(time'[Head(rest)])
      /\ CallFirst(due, [u \in Timer |-> IF Contains(due, u) THEN "FIRED" ELSE state[u]])

CallbackReturns ==
  /\ handler = "calling"
  /\ CallFirst(fired, IF state[last] = "CALLBACK" THEN [state EXCEPT ![last] = "ALLOC"]
                      ELSE state)
  /\ UNCHANGED <<time, active, hwVars>>

(***************************************************************************)
(* Time passes, interrupts locked or not, but no expired timer waits for   *)
(* its handler longer than MaxLate.                                        *)
(***************************************************************************)
Tick ==
  /\ active # <<>> => elapsed < time[Head(active)] + MaxLate
  /\ TimerTick
  /\ UNCHANGED listVars

Client(t) ==
  \/ Alloc(t) \/ Free(t) \/ Stop(t)
  \/ \E ticks \in 0..MaxTicks : Start(t, ticks)

Handler == IrqEnter \/ HandleNothing \/ Fire \/ CallbackReturns

Next == (\E t \in Timer : Client(t)) \/ Handler \/ Tick

Spec == Init /\ [][Next]_vars

(***************************************************************************)
(* Time goes on and callbacks return.  An interrupt is served when the     *)
(* locked section ends; a client that again and again stops the expired    *)
(* timer in a locked section takes the interrupt back each time, and is    *)
(* taken not to do so for ever.                                            *)
(***************************************************************************)
FairSpec == Spec /\ WF_vars(Tick) /\ SF_vars(Handler)

-----------------------------------------------------------------------------
(***************************************************************************)
(* The types, and each timer is in the list its state names, once, and in  *)
(* no other.                                                               *)
(***************************************************************************)
TimersTypeOK ==
  /\ state \in [Timer -> State]
  /\ time \in [Timer -> 0..(MaxTicks + 1)]
  /\ handler \in {"idle", "entered", "calling"}
  /\ last \in Timer \cup {None}
  /\ en \in BOOLEAN /\ irq \in BOOLEAN
  /\ value \in 0..MaxTicks
  /\ IsInjective(active) /\ IsInjective(fired)
  /\ ToSet(active) = {t \in Timer : state[t] = "ACTIVE"}
  /\ ToSet(fired) = {t \in Timer : state[t] = "FIRED"}
  /\ {t \in Timer : state[t] = "CALLBACK"} \subseteq {last} \ {None}

(***************************************************************************)
(* While a timer is started the hardware is: it counts, or its interrupt   *)
(* waits, or the handler is about to look at the list.  With none started  *)
(* it is off and no interrupt is left behind.                              *)
(***************************************************************************)
Armed ==
  IF active = <<>> THEN ~en /\ ~irq
  ELSE en /\ (value > 0 \/ irq \/ handler = "entered")

(***************************************************************************)
(* "HWTIMER collapsed" and its kin: the ASSERTs of the start, the stop and *)
(* the handler would hold, whichever of them came next.                    *)
(***************************************************************************)
AssertsHold ==
  /\ active # <<>> =>
       /\ value <= time[Head(active)] \/ value <= HAL_TIMER_LOAD_DELTA
       /\ value = 0 => elapsed + HAL_TIMER_LOAD_DELTA >= time[Head(active)]
  /\ handler = "entered" => IF active = <<>> THEN ~en ELSE Early => en

(***************************************************************************)
(* The hardware and the list agree: at every moment the timer counts for   *)
(* the first of the list, or its interrupt is on the way to it, and no     *)
(* ASSERT fails.                                                           *)
(***************************************************************************)
HardwareFollows == TimersTypeOK /\ Armed /\ AssertsHold

(***************************************************************************)
(* When a started timer will fire, in ticks from now.                      *)
(***************************************************************************)
Deadline(t) == Offset(active, SelectInSeq(active, LAMBDA u : u = t)) - elapsed

(***************************************************************************)
(* Whatever is done to other timers, the deadline of a timer moves by a    *)
(* tick at most: what the hardware is loaded with is a tick off what the   *)
(* list says.  When it is over already it stays so.  A timer started for   *)
(* some ticks is due in as many, give or take one, unless an expired timer *)
(* waits for its handler: then it is due earlier by the time that one has  *)
(* waited.                                                                 *)
(***************************************************************************)
DeadlineKept ==
  [][/\ \A t \in ToSet(active) \cap ToSet(active') :
          LET before == IF Tick THEN Deadline(t) - 1 ELSE Deadline(t)
          IN  \/ Deadline(t)' - before \in -1..1
              \/ before <= 0 /\ Deadline(t)' <= 0
     /\ \A t \in Timer, ticks \in 1..MaxTicks :
          Start(t, ticks) =>
            LET waited == IF active # <<>> /\ value = 0 THEN Overrun ELSE 0
            IN  Deadline(t)' - (ticks - waited) \in -1..1]_vars

(***************************************************************************)
(* The handler fires the timers that are due and leaves those that are     *)
(* not, give or take the tick of the load.                                 *)
(***************************************************************************)
FiresWhenDue ==
  [][Fire => \A t \in ToSet(active) :
       IF t \in ToSet(active') THEN Deadline(t) > 0
       ELSE Deadline(t) <= HAL_TIMER_LOAD_DELTA]_vars

(***************************************************************************)
(* A started timer is sooner or later stopped or fired.                    *)
(***************************************************************************)
EveryTimerFires == \A t \in Timer : state[t] = "ACTIVE" ~> state[t] # "ACTIVE"

=============================================================================
