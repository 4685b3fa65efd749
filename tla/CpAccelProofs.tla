---------------------------- MODULE CpAccelProofs ----------------------------
(***************************************************************************)
(* Two results on the coprocessor, for any number of tasks, events and     *)
(* threads that open and close and any length of the queue: there is no    *)
(* work of a closed task, and the events of a sender arrive in order.      *)
(***************************************************************************)
EXTENDS CpAccel, SequenceTheorems, TLAPS

-----------------------------------------------------------------------------
(***************************************************************************)
(* No work of a closed task.  The property is not inductive: that no       *)
(* thread takes the handlers away or stops the CP during the work follows  *)
(* from who holds LOCK_CP_PROCESS, which LockHeld says.                    *)
(***************************************************************************)
Closing(o) == At(o, "scan") \/ At(o, "stop")

\* The lock is held by the one thread inside cp_accel_close, or by the CP.
LockHeld ==
  /\ \A o \in Opener : Closing(o) => lock = "mcu"
  /\ \A o, p \in Opener : Closing(o) /\ Closing(p) => o = p

CpRuns == cp \in {"loop", "scan", "work"} => inited

PcFunction == pc = [t \in Sender \cup Opener |-> pc[t]]

StateFunction == state = [t \in Tasks |-> state[t]]

LockInv ==
  /\ PcFunction /\ StateFunction
  /\ LockHeld /\ CpRuns /\ NoWorkAfterClose

-----------------------------------------------------------------------------
LEMMA LockInvInit == Init => LockInv
  BY DEF Init, LockInv, PcFunction, StateFunction, LockHeld, Closing, At, Idle, CpRuns,
         NoWorkAfterClose

(***************************************************************************)
(* Steps of a sender leave everything the invariant is about.              *)
(***************************************************************************)
LEMMA SenderKeepsLockInv ==
  ASSUME LockInv, NEW s \in Sender,
         SendStep(s) \/ \E e \in Event : SendCheck(s, e)
  PROVE  LockInv'
<1>1. /\ UNCHANGED <<inited, state, lock, cp, msg>>
      /\ \E to : pc' = [pc EXCEPT ![s] = to]
  BY DEF SendStep, SendCheck, SendFirst, SendStore, SendLoad, SendInc, Go, cpVars
<1>2. /\ PcFunction'
      /\ \A o \in Opener : pc'[o] = pc[o]
  BY <1>1, CpAccelAssumption DEF LockInv, PcFunction
<1>3. LockHeld'
  BY <1>1, <1>2 DEF LockInv, LockHeld, Closing, At
<1>. QED
  BY <1>1, <1>2, <1>3 DEF LockInv, StateFunction, CpRuns, NoWorkAfterClose, HandlersSet

(***************************************************************************)
(* Opening adds handlers, and starts the CP only when it is off.           *)
(***************************************************************************)
LEMMA OpenKeepsLockInv ==
  ASSUME LockInv, NEW o \in Opener,
         OpenStart(o) \/ OpenDone(o) \/ \E t \in Tasks : OpenBegin(o, t)
  PROVE  LockInv'
<1>1. UNCHANGED <<inited, lock, msg>>
  BY DEF OpenStart, OpenDone, OpenBegin, cpVars
<1>2. PcFunction' /\ \A p \in Opener : Closing(p)' => Closing(p)
  <2>1. CASE OpenStart(o)
    BY <2>1 DEF OpenStart, Go, LockInv, PcFunction, Closing, At
  <2>2. CASE OpenDone(o)
    BY <2>2 DEF OpenDone, Go, Idle, LockInv, PcFunction, Closing, At
  <2>3. ASSUME NEW t \in Tasks, OpenBegin(o, t)
        PROVE  PcFunction' /\ \A p \in Opener : Closing(p)' => Closing(p)
    BY <2>3 DEF OpenBegin, Go, LockInv, PcFunction, Closing, At
  <2>. QED
    BY <2>1, <2>2, <2>3
<1>3. StateFunction' /\ \A t : HandlersSet(t) => HandlersSet(t)'
  <2>1. CASE state' = state
    BY <2>1 DEF LockInv, StateFunction, HandlersSet
  <2>2. ASSUME NEW u, NEW s \in {"OPENING", "OPENED"}, state' = [state EXCEPT ![u] = s]
        PROVE  StateFunction' /\ \A t : HandlersSet(t) => HandlersSet(t)'
    <3>1. StateFunction'
      BY <2>2 DEF LockInv, StateFunction
    <3>2. \A t \in Tasks : state'[t] = IF t = u THEN s ELSE state[t]
      BY <2>2 DEF LockInv, StateFunction
    <3>. QED
      BY <3>1, <3>2 DEF HandlersSet
  <2>. QED
    BY <2>1, <2>2 DEF OpenStart, OpenDone, OpenBegin
<1>4. LockHeld'
  <2>1. lock' = lock
    BY <1>1
  <2>. QED
    BY <1>2, <2>1 DEF LockInv, LockHeld
<1>5. cp' = cp \/ (cp' = "boot" /\ ~inited)
  BY DEF OpenStart, OpenDone, OpenBegin, cpVars
<1>6. CpRuns' /\ NoWorkAfterClose'
  <2>1. CASE cp' = cp
    BY <1>1, <1>3, <2>1 DEF LockInv, CpRuns, NoWorkAfterClose
  <2>2. CASE cp' = "boot"
    BY <2>2 DEF CpRuns, NoWorkAfterClose
  <2>. QED
    BY <1>5, <2>1, <2>2
<1>. QED
  BY <1>2, <1>3, <1>4, <1>6 DEF LockInv

(***************************************************************************)
(* Closing takes handlers away under the lock, when no work is going on.   *)
(***************************************************************************)
LEMMA CloseLockKeepsLockInv ==
  ASSUME LockInv, NEW o \in Opener, NEW t \in Tasks, CloseLock(o, t)
  PROVE  LockInv'
<1>1. lock = None /\ lock' = "mcu" /\ UNCHANGED <<inited, cp, msg>>
  BY DEF CloseLock, cpVars
<1>2. PcFunction' /\ StateFunction'
  BY DEF CloseLock, Go, LockInv, PcFunction, StateFunction
<1>3. cp # "work" /\ \A p \in Opener : ~Closing(p)
  BY <1>1, CpAccelAssumption DEF LockInv, NoWorkAfterClose, LockHeld
<1>4. \A p \in Opener : Closing(p)' => p = o
  BY <1>3 DEF CloseLock, Go, LockInv, PcFunction, Closing, At
<1>. QED
  BY <1>1, <1>2, <1>3, <1>4 DEF LockInv, LockHeld, CpRuns, NoWorkAfterClose

LEMMA CloseKeepsLockInv ==
  ASSUME LockInv, NEW o \in Opener, CloseScan(o) \/ CloseStop(o)
  PROVE  LockInv'
<1>1. Closing(o) /\ lock = "mcu" /\ cp # "work"
  BY DEF CloseScan, CloseStop, Closing, LockInv, LockHeld, NoWorkAfterClose
<1>2. \A p \in Opener : Closing(p) => p = o
  BY <1>1 DEF LockInv, LockHeld
<1>3. PcFunction' /\ StateFunction'
  BY DEF CloseScan, CloseStop, CloseEnd, Go, LockInv, PcFunction, StateFunction
<1>4. \A p \in Opener : Closing(p)' => p = o /\ lock' = "mcu"
  <2>1. CASE CloseEnd(o)
    BY <1>2, <2>1 DEF CloseEnd, Go, Idle, LockInv, PcFunction, Closing, At
  <2>2. CASE ~CloseEnd(o)
    <3>1. lock' = lock /\ \E to : pc' = [pc EXCEPT ![o] = to]
      BY <2>2 DEF CloseScan, CloseStop, Go
    <3>. QED
      BY <1>1, <1>2, <3>1 DEF LockInv, PcFunction, Closing, At
  <2>. QED
    BY <2>1, <2>2
<1>5. cp' # "work" /\ CpRuns'
  BY <1>1 DEF CloseScan, CloseStop, CloseEnd, cpVars, LockInv, CpRuns
<1>. QED
  BY <1>3, <1>4, <1>5 DEF LockInv, LockHeld, NoWorkAfterClose

(***************************************************************************)
(* The CP works for a task that has its handlers, when it has the lock.    *)
(***************************************************************************)
LEMMA CpKeepsLockInv ==
  ASSUME LockInv, CpStep \/ CpLook
  PROVE  LockInv'
<1>1. UNCHANGED <<pc, state>>
  BY DEF CpStep, Boot, CpTake, CpWorkDone, CpLook
<1>2. CASE CpLook
  <2>1. lock = None /\ \A o \in Opener : ~Closing(o)
    BY <1>2, CpAccelAssumption DEF CpLook, LockInv, LockHeld
  <2>2. LockHeld'
    BY <1>1, <2>1 DEF LockHeld, Closing, At
  <2>3. CpRuns'
    BY <1>2 DEF CpLook, LockInv, CpRuns
  <2>4. cp' = "work" => msg' = msg /\ lock' = "cp" /\ inited' /\ HandlersSet(Task(Min(msg)))
    BY <1>2 DEF CpLook, Place, LockInv, CpRuns
  <2>. QED
    BY <1>1, <2>2, <2>3, <2>4 DEF LockInv, PcFunction, StateFunction, NoWorkAfterClose, HandlersSet
<1>3. CASE CpWorkDone
  <2>1. lock = "cp" /\ \A o \in Opener : ~Closing(o)
    BY <1>3 DEF CpWorkDone, LockInv, LockHeld, NoWorkAfterClose
  <2>2. LockHeld'
    BY <1>1, <2>1 DEF LockHeld, Closing, At
  <2>3. CpRuns' /\ cp' # "work"
    BY <1>3 DEF CpWorkDone, Place, LockInv, CpRuns
  <2>. QED
    BY <1>1, <2>2, <2>3 DEF LockInv, PcFunction, StateFunction, NoWorkAfterClose
<1>4. CASE Boot \/ CpTake
  <2>1. lock' = lock /\ cp' # "work" /\ CpRuns'
    BY <1>4 DEF Boot, CpTake, Place, LockInv, CpRuns
  <2>. QED
    BY <1>1, <2>1 DEF LockInv, LockHeld, Closing, At, PcFunction, StateFunction, NoWorkAfterClose
<1>. QED
  BY <1>2, <1>3, <1>4 DEF CpStep

LEMMA IrqKeepsLockInv ==
  ASSUME LockInv, TxIrq \/ RxIrq
  PROVE  LockInv'
<1>1. UNCHANGED <<inited, state, lock, cp, msg, pc>>
  BY DEF TxIrq, RxIrq, cpVars
<1>. QED
  BY <1>1 DEF LockInv, PcFunction, StateFunction, LockHeld, Closing, At, CpRuns, NoWorkAfterClose,
              HandlersSet

-----------------------------------------------------------------------------
(***************************************************************************)
(* Who holds LOCK_CP_PROCESS, and that the CP runs only when it has been   *)
(* started.                                                                *)
(***************************************************************************)
THEOREM LockInvariant == Spec => []LockInv
<1>1. LockInv /\ [Next]_vars => LockInv'
  <2>. SUFFICES ASSUME LockInv, [Next]_vars PROVE LockInv'
    OBVIOUS
  <2>1. CASE \E s \in Sender : SendStep(s) \/ \E e \in Event : SendCheck(s, e)
    BY <2>1, SenderKeepsLockInv
  <2>2. CASE \E o \in Opener : OpenStep(o) \/ \E t \in Tasks : OpenBegin(o, t) \/ CloseLock(o, t)
    BY <2>2, OpenKeepsLockInv, CloseLockKeepsLockInv, CloseKeepsLockInv DEF OpenStep
  <2>3. CASE TxIrq \/ RxIrq
    BY <2>3, IrqKeepsLockInv
  <2>4. CASE CpStep \/ CpLook
    BY <2>4, CpKeepsLockInv
  <2>5. CASE UNCHANGED vars
    BY <2>5 DEF vars, cpVars, LockInv, PcFunction, StateFunction, LockHeld, Closing, At, CpRuns,
                NoWorkAfterClose, HandlersSet
  <2>. QED
    BY <2>1, <2>2, <2>3, <2>4, <2>5 DEF Next
<1>. QED
  BY LockInvInit, <1>1, PTL DEF Spec

(***************************************************************************)
(* No task's work runs once cp_accel_close has taken its handlers away,    *)
(* and the CP is not stopped inside one, whatever the number of tasks and  *)
(* of threads.                                                             *)
(***************************************************************************)
THEOREM WorkOnlyWhileOpen == Spec => []NoWorkAfterClose
<1>1. LockInv => NoWorkAfterClose
  BY DEF LockInv
<1>. QED
  BY LockInvariant, <1>1, PTL

-----------------------------------------------------------------------------
(***************************************************************************)
(* The channel.  One message is in flight at most: it is on its way to the *)
(* CP, or has arrived and is not acknowledged.                             *)
(***************************************************************************)
Ready ==
  [open |-> TRUE, free |-> MAX_SEND_RECORD_COUNT, sending |-> <<>>, pending |-> <<>>,
   ind |-> FALSE, done |-> FALSE]

OnItsWay(c) ==
  [open |-> TRUE, free |-> MAX_SEND_RECORD_COUNT - 1, sending |-> <<c>>, pending |-> <<>>,
   ind |-> TRUE, done |-> FALSE]

Arrived(c) ==
  [open |-> TRUE, free |-> MAX_SEND_RECORD_COUNT - 1, sending |-> <<c>>, pending |-> <<>>,
   ind |-> FALSE, done |-> TRUE]

ChanShape == chan \in {Untouched, Ready} \/ \E c \in Cells : chan \in {OnItsWay(c), Arrived(c)}

ChanRecord ==
  [open : BOOLEAN, free : Int, sending : Seq(Cells), pending : Seq(Cells), ind : BOOLEAN,
   done : BOOLEAN]

\* What a channel looks like, field by field; it is not more than that.
Looks(b, free, sending, pending, ind, done) ==
  /\ b \in ChanRecord
  /\ b.open = TRUE /\ b.free = free /\ b.sending = sending /\ b.pending = pending
  /\ b.ind = ind /\ b.done = done

LEMMA SameLook ==
  ASSUME NEW free, NEW sending, NEW pending, NEW ind, NEW done,
         NEW b, NEW c, Looks(b, free, sending, pending, ind, done),
         Looks(c, free, sending, pending, ind, done)
  PROVE  b = c
  BY DEF Looks, ChanRecord

LEMMA Shortest ==
  /\ <<>> \in Seq(Cells) /\ Len(<<>>) = 0
  /\ \A c \in Cells : <<c>> \in Seq(Cells) /\ Len(<<c>>) = 1 /\ <<c>> # <<>> /\ <<c>>[1] = c
  OBVIOUS

LEMMA ShapeLooks ==
  ASSUME NEW c \in Cells
  PROVE  /\ Looks(Ready, 3, <<>>, <<>>, FALSE, FALSE)
         /\ Looks(OnItsWay(c), 2, <<c>>, <<>>, TRUE, FALSE)
         /\ Looks(Arrived(c), 2, <<c>>, <<>>, FALSE, TRUE)
<1>1. Looks(Ready, 3, <<>>, <<>>, FALSE, FALSE)
  BY Shortest DEF Looks, ChanRecord, Ready, MAX_SEND_RECORD_COUNT
<1>2. Looks(OnItsWay(c), 2, <<c>>, <<>>, TRUE, FALSE)
  BY Shortest DEF Looks, ChanRecord, OnItsWay, MAX_SEND_RECORD_COUNT
<1>3. Looks(Arrived(c), 2, <<c>>, <<>>, FALSE, TRUE)
  BY Shortest DEF Looks, ChanRecord, Arrived, MAX_SEND_RECORD_COUNT
<1> QED
  BY <1>1, <1>2, <1>3

LEMMA ChanType ==
  ASSUME ChanShape
  PROVE  /\ chan \in [open : BOOLEAN, free : 0..MAX_SEND_RECORD_COUNT, sending : Seq(Cells),
                      pending : Seq(Cells), ind : BOOLEAN, done : BOOLEAN]
         /\ Len(chan.sending) <= 1
<1>1. CASE chan = Untouched
  BY <1>1, Shortest DEF Untouched, MAX_SEND_RECORD_COUNT
<1>2. CASE chan = Ready
  BY <1>2, Shortest DEF Ready, MAX_SEND_RECORD_COUNT
<1>3. ASSUME NEW c \in Cells, chan = OnItsWay(c)
      PROVE  /\ chan \in [open : BOOLEAN, free : 0..MAX_SEND_RECORD_COUNT,
                         sending : Seq(Cells), pending : Seq(Cells), ind : BOOLEAN,
                         done : BOOLEAN]
             /\ Len(chan.sending) <= 1
  BY <1>3, Shortest DEF OnItsWay, MAX_SEND_RECORD_COUNT
<1>4. ASSUME NEW c \in Cells, chan = Arrived(c)
      PROVE  /\ chan \in [open : BOOLEAN, free : 0..MAX_SEND_RECORD_COUNT,
                         sending : Seq(Cells), pending : Seq(Cells), ind : BOOLEAN,
                         done : BOOLEAN]
             /\ Len(chan.sending) <= 1
  BY <1>4, Shortest DEF Arrived, MAX_SEND_RECORD_COUNT
<1> QED
  BY <1>1, <1>2, <1>3, <1>4 DEF ChanShape

LEMMA SentFirst ==
  ASSUME NEW c \in Cells
  PROVE  Sent(Ready, c) = OnItsWay(c)
<1> DEFINE d == [Ready EXCEPT !.free = @ - 1]
           e == [d EXCEPT !.sending = <<c>>, !.ind = TRUE]
<1>1. Looks(d, 2, <<>>, <<>>, FALSE, FALSE) /\ Ready.open = TRUE /\ Ready.free # 0
  <2> DEFINE r == Ready
  <2>1. Looks(r, 3, <<>>, <<>>, FALSE, FALSE)
    BY ShapeLooks
  <2> HIDE DEF r
  <2>2. /\ Looks([r EXCEPT !.free = @ - 1], 2, <<>>, <<>>, FALSE, FALSE)
        /\ r.open = TRUE /\ r.free # 0
    BY <2>1 DEF Looks, ChanRecord
  <2> QED
    BY <2>2 DEF r
<1>2. Sent(Ready, c) = e
  BY <1>1 DEF Sent, Looks
<1> HIDE DEF d
<1>3. Looks(e, 2, <<c>>, <<>>, TRUE, FALSE)
  BY <1>1, Shortest DEF Looks, ChanRecord
<1> HIDE DEF e
<1> QED
  BY <1>2, <1>3, ShapeLooks, SameLook

\* The next message is listed while the last one is still in the list.
LEMMA SentNext ==
  ASSUME NEW c \in Cells, NEW e \in Cells
  PROVE  Acknowledged(Sent(Arrived(c), e)) = OnItsWay(e)
<1> DEFINE a == Arrived(c)
           d == [a EXCEPT !.free = @ - 1]
           s == [d EXCEPT !.pending = Append(@, e)]
           n == s.free + Len(s.sending)
           more == s.pending # <<>>
           t == [s EXCEPT !.done = FALSE, !.free = n, !.sending = s.pending,
                          !.pending = <<>>, !.ind = more]
<1>1. Looks(a, 2, <<c>>, <<>>, FALSE, TRUE)
  BY ShapeLooks
<1> HIDE DEF a
<1>2. Looks(d, 1, <<c>>, <<>>, FALSE, TRUE)
  BY <1>1 DEF Looks, ChanRecord
<1>3. Sent(a, e) = s
  BY <1>1, <1>2, Shortest DEF Sent, Looks
<1> HIDE DEF d
<1>4. Append(<<>>, e) = <<e>>
  OBVIOUS
<1>5. Looks(s, 1, <<c>>, <<e>>, FALSE, TRUE)
  BY <1>2, <1>4, Shortest DEF Looks, ChanRecord
<1>6. Acknowledged(s) = t
  BY DEF Acknowledged
<1> HIDE DEF s
<1>7. n = 2 /\ s.pending = <<e>> /\ more = TRUE
  BY <1>5, Shortest DEF Looks
<1> HIDE DEF n, more
<1>8. Looks(t, 2, <<e>>, <<>>, TRUE, FALSE)
  <2>1. t \in ChanRecord
    <3>1. /\ s \in ChanRecord /\ n \in Int /\ more \in BOOLEAN
          /\ s.pending \in Seq(Cells) /\ <<>> \in Seq(Cells)
      BY <1>5, <1>7, Shortest DEF Looks, ChanRecord
    <3> QED
      BY <3>1 DEF ChanRecord
  <2>2. /\ s \in [open : BOOLEAN, free : Int, sending : Seq(Cells), pending : Seq(Cells),
              ind : BOOLEAN, done : BOOLEAN]
        /\ s.open = TRUE
    BY <1>5, <1>7 DEF Looks, ChanRecord
  <2>3. /\ t.open = s.open /\ t.free = n /\ t.sending = s.pending /\ t.pending = <<>>
        /\ t.ind = more /\ t.done = FALSE
    BY <2>2
  <2> QED
    BY <1>5, <1>7, <2>1, <2>2, <2>3 DEF Looks
<1> HIDE DEF t
<1>9. t = OnItsWay(e)
  BY <1>8, ShapeLooks, SameLook
<1> QED
  BY <1>3, <1>6, <1>9 DEF a

LEMMA ChanSteps ==
  ASSUME NEW c \in Cells
  PROVE  /\ Opened(Untouched) = Ready /\ Opened(Ready) = Ready
         /\ Received(OnItsWay(c)) = Arrived(c)
         /\ Acknowledged(Arrived(c)) = Ready
<1>1. Opened(Untouched) = Ready /\ Opened(Ready) = Ready
  BY DEF Opened, Untouched, Ready
<1>2. Received(OnItsWay(c)) = Arrived(c)
  <2> DEFINE b == OnItsWay(c)
             d == [b EXCEPT !.ind = FALSE, !.done = TRUE]
  <2>1. Looks(b, 2, <<c>>, <<>>, TRUE, FALSE)
    BY ShapeLooks
  <2> HIDE DEF b
  <2>2. Looks(d, 2, <<c>>, <<>>, FALSE, TRUE)
    BY <2>1 DEF Looks, ChanRecord
  <2>3. Received(b) = d
    BY DEF Received
  <2> HIDE DEF d
  <2> QED
    BY <2>2, <2>3, ShapeLooks, SameLook DEF b
<1>3. Acknowledged(Arrived(c)) = Ready
  <2> DEFINE s == Arrived(c)
             n == s.free + Len(s.sending)
             more == s.pending # <<>>
             t == [s EXCEPT !.done = FALSE, !.free = n, !.sending = s.pending,
                            !.pending = <<>>, !.ind = more]
  <2>1. Looks(s, 2, <<c>>, <<>>, FALSE, TRUE)
    BY ShapeLooks
  <2> HIDE DEF s
  <2>2. n = 3 /\ s.pending = <<>> /\ more = FALSE
    BY <2>1, Shortest DEF Looks
  <2>3. Acknowledged(s) = t
    BY DEF Acknowledged
  <2> HIDE DEF n, more
  <2>4. Looks(t, 3, <<>>, <<>>, FALSE, FALSE)
    <3>1. t \in ChanRecord
      <4>1. n \in Int /\ more \in BOOLEAN
        <5>1. n \in Int
          BY <2>2
        <5>2. more \in BOOLEAN
          BY DEF more
        <5> QED
          BY <5>1, <5>2
      <4>2. s \in ChanRecord
        BY <2>1 DEF Looks
      <4>3. s.pending \in Seq(Cells) /\ <<>> \in Seq(Cells)
        BY <4>2, Shortest DEF ChanRecord
      <4> QED
        BY <4>1, <4>2, <4>3 DEF ChanRecord
    <3>2. /\ s \in [open : BOOLEAN, free : Int, sending : Seq(Cells), pending : Seq(Cells),
                ind : BOOLEAN, done : BOOLEAN]
          /\ s.open = TRUE
      BY <2>1, <2>2 DEF Looks, ChanRecord
    <3>3. /\ t.open = s.open /\ t.free = n /\ t.sending = s.pending /\ t.pending = <<>>
          /\ t.ind = more /\ t.done = FALSE
      BY <3>2
    <3> QED
      BY <2>1, <2>2, <3>1, <3>2, <3>3 DEF Looks
  <2> HIDE DEF t
  <2> QED
    BY <2>3, <2>4, ShapeLooks, SameLook DEF s
<1> QED
  BY <1>1, <1>2, <1>3

\* The data of the message in flight is the only data that counts.
LEMMA LiveCells ==
  ASSUME NEW cells, NEW c \in Cells
  PROVE  /\ Live(cells, OnItsWay(c)) = [x \in Cells |-> IF x = c THEN cells[x] ELSE 0]
         /\ Live(cells, Ready) = [x \in Cells |-> 0]
         /\ Live(cells, Untouched) = [x \in Cells |-> 0]
<1>1. ToSet(<<c>> \o <<>>) = {c} /\ ToSet(<<>> \o <<>>) = {}
  BY DEF ToSet
<1> QED
  BY <1>1 DEF Live, OnItsWay, Ready, Untouched

-----------------------------------------------------------------------------
(***************************************************************************)
(* mcu2cp_tx_pending as a sequence.                                        *)
(***************************************************************************)
InLine(p, n) == [i \in 1..(IF n > 1 THEN n - 1 ELSE 0) |-> p[i - 1]]

LEMMA InLineType ==
  ASSUME NEW S, NEW p \in [Index -> S], NEW n \in 0 .. (MaxMsg + 1)
  PROVE  /\ InLine(p, n) \in Seq(S)
         /\ Len(InLine(p, n)) = IF n > 1 THEN n - 1 ELSE 0
         /\ n <= 1 => InLine(p, n) = <<>>
<1> DEFINE m == IF n > 1 THEN n - 1 ELSE 0
<1>1. m \in Nat /\ \A i \in 1 .. m : i - 1 \in Index
  BY CpAccelAssumption DEF Index
<1>2. InLine(p, n) \in [1 .. m -> S]
  BY <1>1 DEF InLine
<1> HIDE DEF m
<1>3. InLine(p, n) \in Seq(S)
  BY <1>1, <1>2, SeqDef
<1>4. Len(InLine(p, n)) = m
  BY <1>1, <1>2, <1>3, LenProperties
<1>5. m = 0 => InLine(p, n) = <<>>
  BY <1>3, <1>4, EmptySeq
<1> QED
  BY <1>3, <1>4, <1>5 DEF m

\* An event is stored behind the last one.
LEMMA InLineAppend ==
  ASSUME NEW S, NEW p \in [Index -> S], NEW n \in 1 .. MaxMsg
  PROVE  InLine(p, n + 1) = Append(InLine(p, n), p[n - 1])
<1>1. n \in 0 .. (MaxMsg + 1) /\ n + 1 \in 0 .. (MaxMsg + 1) /\ n - 1 \in Index
  BY CpAccelAssumption DEF Index
<1>2. /\ InLine(p, n) \in Seq(S) /\ Len(InLine(p, n)) = n - 1
      /\ InLine(p, n + 1) \in Seq(S) /\ Len(InLine(p, n + 1)) = n
  BY <1>1, InLineType
<1>3. /\ Append(InLine(p, n), p[n - 1]) \in Seq(S)
      /\ Len(Append(InLine(p, n), p[n - 1])) = n
      /\ \A i \in 1 .. n : Append(InLine(p, n), p[n - 1])[i]
                             = IF i < n THEN InLine(p, n)[i] ELSE p[n - 1]
  BY <1>1, <1>2
<1>4. \A i \in 1 .. n : InLine(p, n + 1)[i] = p[i - 1] /\ (i < n => InLine(p, n)[i] = p[i - 1])
  BY <1>1, CpAccelAssumption DEF InLine
<1> QED
  <2>1. \A i \in 1 .. n : InLine(p, n + 1)[i] = Append(InLine(p, n), p[n - 1])[i]
    BY <1>3, <1>4
  <2> HIDE DEF InLine
  <2> QED
    BY <1>2, <1>3, <2>1, SeqEqual

\* The first one leaves, and the others move up.
LEMMA InLineShift ==
  ASSUME NEW S, NEW p \in [Index -> S], NEW q \in [Index -> S], NEW n \in 2 .. (MaxMsg + 1),
         \A i \in Index : i < n - 2 => q[i] = p[i + 1]
  PROVE  InLine(p, n) = <<p[0]>> \o InLine(q, n - 1)
<1>1. n \in 0 .. (MaxMsg + 1) /\ n - 1 \in 0 .. (MaxMsg + 1) /\ 0 \in Index
  BY CpAccelAssumption DEF Index
<1>2. /\ InLine(p, n) \in Seq(S) /\ Len(InLine(p, n)) = n - 1
      /\ InLine(q, n - 1) \in Seq(S) /\ Len(InLine(q, n - 1)) = n - 2
  <2>1. InLine(p, n) \in Seq(S) /\ Len(InLine(p, n)) = n - 1
    BY <1>1, InLineType
  <2>2. /\ InLine(q, n - 1) \in Seq(S)
        /\ Len(InLine(q, n - 1)) = IF n - 1 > 1 THEN (n - 1) - 1 ELSE 0
    BY <1>1, InLineType
  <2> QED
    BY <2>1, <2>2
<1>3. <<p[0]>> \in Seq(S) /\ Len(<<p[0]>>) = 1
  BY <1>1
<1>4. /\ <<p[0]>> \o InLine(q, n - 1) \in Seq(S)
      /\ Len(<<p[0]>> \o InLine(q, n - 1)) = n - 1
      /\ \A i \in 1 .. (n - 1) : (<<p[0]>> \o InLine(q, n - 1))[i]
                                   = IF i = 1 THEN p[0] ELSE InLine(q, n - 1)[i - 1]
  BY <1>2, <1>3, ConcatProperties
<1>5. ASSUME NEW i \in 1 .. (n - 1)
      PROVE  InLine(p, n)[i] = IF i = 1 THEN p[0] ELSE InLine(q, n - 1)[i - 1]
  <2>1. InLine(p, n)[i] = p[i - 1]
    BY <1>1 DEF InLine
  <2>2. CASE i = 1
    BY <2>1, <2>2
  <2>3. CASE i # 1
    <3>1. InLine(q, n - 1)[i - 1] = q[i - 2]
      BY <1>1, <2>3 DEF InLine
    <3>2. i - 2 \in Index /\ i - 2 < n - 2 /\ (i - 2) + 1 = i - 1
      BY <2>3, CpAccelAssumption DEF Index
    <3> QED
      BY <2>1, <2>3, <3>1, <3>2
  <2> QED
    BY <2>2, <2>3
<1> QED
  BY <1>2, <1>4, <1>5, SeqEqual

-----------------------------------------------------------------------------
(***************************************************************************)
(* The events on their way, when one thread sends.  (Two threads that both *)
(* find the count at 0 both write req_event and list it.)  Until it is     *)
(* acknowledged a message in flight is counted first.  A send under way    *)
(* finds the count as it left it, unless an acknowledgement cut it: the    *)
(* event it has stored is the one behind those counted.                    *)
(***************************************************************************)
OneSender == \A s, t \in Sender : s = t

Told ==
  /\ inited <=> cp \in {"loop", "scan", "work"}
  /\ ~inited => chan \in {Untouched, Ready} /\ ~MidSend
  /\ inited => chan # Untouched
  /\ cp = "boot" => chan = Ready

Counted ==
  /\ chan.sending # <<>> => txCount \in 1 .. (MaxMsg + 1)
  /\ \A s \in Sender :
       /\ At(s, "first") => chan.sending = <<>>
       /\ pc[s].at \in {"store", "load"} /\ chan.sending # <<>> => txCount <= MaxMsg
       /\ At(s, "inc") => pc[s].count \in 0 .. 255
       /\ At(s, "inc") /\ chan.sending # <<>> => pc[s].count <= MaxMsg

Queued ==
  inited /\ ~torn =>
    /\ sendq = InFlight \o Waiting
    /\ txCount > 0 <=> chan.sending # <<>>
    /\ \A s \in Sender :
         /\ At(s, "first") => txCount = 0
         /\ pc[s].at \in {"store", "load", "inc"} => txCount \in 1 .. MaxMsg
         /\ pc[s].at \in {"load", "inc"} => txPending[txCount - 1] = pc[s].event
         /\ At(s, "inc") => pc[s].count = txCount

FifoInv == CpTypeOK /\ ChanShape /\ Told /\ Counted /\ Queued

\* The same without the channel, whose type its shape says.
TypeRest ==
  /\ inited \in BOOLEAN
  /\ state \in [Tasks -> {"OPENING", "OPENED", "CLOSING", "CLOSED"}]
  /\ lock \in {None, "mcu", "cp"}
  /\ txCount \in 0..255
  /\ txPending \in [Index -> Event \cup {0}]
  /\ cell \in [Cells -> Event \cup {0}]
  /\ cpMsg \subseteq Event \cup {0} /\ cpMsgRecv \in BOOLEAN
  /\ cp \in {"off", "boot", "loop", "scan", "work"}
  /\ msg \subseteq Event \cup {0}
  /\ PcType
  /\ sendq \in Seq(Event) /\ owed \subseteq Event /\ torn \in BOOLEAN

LEMMA TypeParts == TypeRest /\ ChanShape => CpTypeOK
  BY ChanType DEF TypeRest, CpTypeOK

LEMMA TypePartsNext == TypeRest' /\ ChanShape' => CpTypeOK'
  BY TypeParts, PTL

InFlightFits ==
  /\ chan \in {Untouched, Ready} =>
       chan.sending = <<>> /\ ~chan.done /\ ~chan.ind /\ InFlight = <<>>
  /\ \A c \in Cells :
       /\ chan = OnItsWay(c) =>
            chan.sending = <<c>> /\ ~chan.done /\ chan.ind /\ InFlight = <<cell[c]>>
       /\ chan = Arrived(c) => chan.sending = <<c>> /\ chan.done /\ ~chan.ind /\ InFlight = <<>>

LEMMA InFlightIs == InFlightFits
<1>1. chan \in {Untouched, Ready} => chan.sending = <<>> /\ ~chan.done /\ ~chan.ind
  BY DEF Untouched, Ready
<1>2. ASSUME NEW c \in Cells, chan = OnItsWay(c)
      PROVE  chan.sending = <<c>> /\ ~chan.done /\ chan.ind
  BY <1>2 DEF OnItsWay
<1>3. ASSUME NEW c \in Cells, chan = Arrived(c)
      PROVE  chan.sending = <<c>> /\ chan.done /\ ~chan.ind
  BY <1>3 DEF Arrived
<1> QED
  BY <1>1, <1>2, <1>3, Shortest DEF InFlight, InFlightFits

LEMMA InFlightIsNext == InFlightFits'
  BY InFlightIs, PTL

\* Empty queues have their types.
LEMMA Emptied ==
  /\ <<>> \in Seq(Event)
  /\ [i \in Index |-> 0] \in [Index -> Event \cup {0}]
  /\ [c \in Cells |-> 0] \in [Cells -> Event \cup {0}]
  OBVIOUS

LEMMA FifoInvInit == Init => FifoInv
<1> SUFFICES ASSUME Init PROVE FifoInv
  OBVIOUS
<1>1. ChanShape
  BY DEF Init, ChanShape
<1>2. TypeRest
  <2>1. PcType
    BY DEF Init, PcType, Idle
  <2>2. /\ txPending \in [Index -> Event \cup {0}] /\ cell \in [Cells -> Event \cup {0}]
        /\ sendq \in Seq(Event)
    BY Emptied DEF Init
  <2>3. /\ state \in [Tasks -> {"OPENING", "OPENED", "CLOSING", "CLOSED"}]
        /\ lock \in {None, "mcu", "cp"} /\ txCount \in 0..255
    BY DEF Init
  <2> QED
    BY <2>1, <2>2, <2>3 DEF Init, TypeRest
<1>3. Told /\ Counted /\ Queued
  BY DEF Init, Told, Counted, Queued, MidSend, At, Idle, Untouched
<1> QED
  BY <1>1, <1>2, <1>3, TypeParts DEF FifoInv

\* A step of one thread.
LEMMA PcGoes ==
  ASSUME PcType, PcFunction, NEW t \in Sender \cup Opener, NEW to, Go(t, to),
         to.at \in IF t \in Sender THEN {"idle", "first", "store", "load", "inc"}
                   ELSE {"idle", "open", "wait", "scan", "stop"},
         t \in Sender /\ to.at # "idle" => to.event \in Event
  PROVE  /\ PcType' /\ pc'[t] = to
         /\ \A u \in Sender \cup Opener : u # t => pc'[u] = pc[u]
  BY DEF Go, PcType, PcFunction

(***************************************************************************)
(* Steps that leave the events on their way alone.                         *)
(***************************************************************************)
LEMMA OthersKeep ==
  ASSUME FifoInv, UNCHANGED <<inited, txCount, txPending, cell, chan, sendq, torn>>,
         \A s \in Sender : pc'[s] = pc[s],
         cp' = cp \/ {cp, cp'} \subseteq {"loop", "scan", "work"},
         TypeRest'
  PROVE  FifoInv'
<1>1. ChanShape'
  BY DEF FifoInv, ChanShape
<1>2. Told'
  BY DEF FifoInv, Told, MidSend
<1>3. Counted'
  BY DEF FifoInv, Counted, At
<1>4. InFlight' = InFlight /\ Waiting' = Waiting
  BY DEF InFlight, Waiting
<1>5. Queued'
  BY <1>4 DEF FifoInv, Queued, At
<1> QED
  BY <1>1, <1>2, <1>3, <1>5, TypePartsNext DEF FifoInv

LEMMA CpKeepsFifo ==
  ASSUME FifoInv, CpTake \/ CpLook \/ CpWorkDone
  PROVE  FifoInv'
<1>1. /\ UNCHANGED <<inited, state, txCount, txPending, cell, chan, pc, sendq, torn>>
      /\ lock' \in {None, "cp", lock}
      /\ {cp, cp'} \subseteq {"loop", "scan", "work"}
      /\ cpMsg' \subseteq cpMsg /\ cpMsgRecv' \in {cpMsgRecv, FALSE}
      /\ msg' \subseteq msg \cup cpMsg /\ owed' \subseteq owed
  BY DEF CpTake, CpLook, CpWorkDone, Place, envVars, history
<1>2. TypeRest'
  BY <1>1 DEF FifoInv, CpTypeOK, TypeRest, PcType
<1> QED
  BY <1>1, <1>2, OthersKeep

LEMMA OpenerKeepsFifo ==
  ASSUME FifoInv, LockInv, NEW o \in Opener,
         OpenDone(o) \/ CloseScan(o)
           \/ \E t \in Tasks : OpenBegin(o, t) \/ CloseLock(o, t)
  PROVE  FifoInv'
<1>1. /\ UNCHANGED <<inited, txCount, txPending, cpMsg, cpMsgRecv, cell, chan, cp, msg, sendq,
                     torn>>
      /\ lock' \in {None, "mcu", lock} /\ owed' \subseteq owed
  BY DEF OpenDone, CloseScan, CloseEnd, OpenBegin, CloseLock, envVars, cpVars, history
<1>2. state' \in [Tasks -> {"OPENING", "OPENED", "CLOSING", "CLOSED"}]
  BY DEF OpenDone, CloseScan, CloseEnd, OpenBegin, CloseLock, FifoInv, CpTypeOK
<1>3. PcType' /\ \A s \in Sender : pc'[s] = pc[s]
  <2>1. PICK to : Go(o, to) /\ to.at \in {"idle", "open", "wait", "scan", "stop"}
    <3>1. ASSUME OpenDone(o) \/ CloseEnd(o)
          PROVE  Go(o, Idle) /\ Idle.at = "idle"
      BY <3>1 DEF OpenDone, CloseEnd, Idle
    <3>2. ASSUME NEW t, Go(o, [at |-> "open", task |-> t]) \/ Go(o, [at |-> "scan", task |-> t])
                          \/ Go(o, [at |-> "stop", task |-> t])
          PROVE  \E to : Go(o, to) /\ to.at \in {"open", "scan", "stop"}
      BY <3>2
    <3> QED
      BY <3>1, <3>2 DEF OpenDone, CloseScan, OpenBegin, CloseLock
  <2> QED
    BY <2>1, PcGoes, CpAccelAssumption DEF FifoInv, CpTypeOK, LockInv
<1>4. TypeRest'
  BY <1>1, <1>2, <1>3 DEF FifoInv, CpTypeOK, TypeRest
<1> QED
  BY <1>1, <1>3, <1>4, OthersKeep

(***************************************************************************)
(* The CP is started and stopped.                                          *)
(***************************************************************************)
LEMMA OpenStartKeepsFifo ==
  ASSUME FifoInv, LockInv, NEW o \in Opener, OpenStart(o)
  PROVE  FifoInv'
<1>1. /\ UNCHANGED <<inited, lock, txCount, txPending, cpMsg, cpMsgRecv, cell, msg, sendq, owed,
                     torn>>
      /\ Go(o, [at |-> "wait"])
      /\ state' = [state EXCEPT ![pc[o].task] = "OPENED"]
      /\ IF inited THEN UNCHANGED <<cp, chan>> ELSE cp' = "boot" /\ chan' = Opened(chan)
  BY DEF OpenStart, envVars, history
<1>2. PcType' /\ \A s \in Sender : pc'[s] = pc[s]
  BY <1>1, PcGoes, CpAccelAssumption DEF FifoInv, CpTypeOK, LockInv
<1>3. TypeRest'
  BY <1>1, <1>2 DEF FifoInv, CpTypeOK, TypeRest
<1>4. CASE inited
  BY <1>1, <1>2, <1>3, <1>4, OthersKeep
<1>5. CASE ~inited
  <2>1. "req" \in Cells
    BY DEF Cells
  <2>2. chan' = Ready /\ cp' = "boot" /\ ~inited' /\ \A s \in Sender : pc[s].at = "idle"
    BY <1>1, <1>5, <2>1, ChanSteps DEF FifoInv, Told, MidSend
  <2>3. chan'.sending = <<>>
    BY <2>2, InFlightIsNext DEF InFlightFits
  <2>4. ChanShape' /\ Told' /\ Counted' /\ Queued'
    BY <1>2, <2>2, <2>3 DEF ChanShape, Told, Counted, Queued, MidSend, At, Ready, Untouched
  <2> QED
    BY <1>3, <2>4, TypePartsNext DEF FifoInv
<1> QED
  BY <1>4, <1>5

LEMMA CloseStopKeepsFifo ==
  ASSUME FifoInv, LockInv, NEW o \in Opener, CloseStop(o)
  PROVE  FifoInv'
<1>1. /\ UNCHANGED <<txCount, owed, torn>>
      /\ lock' = None /\ Go(o, Idle)
      /\ state' = [state EXCEPT ![pc[o].task] = "CLOSED"]
      /\ ~MidSend
  BY DEF CloseStop, CloseEnd, SendersQuiet
<1>2. PcType' /\ \A s \in Sender : pc'[s] = pc[s]
  BY <1>1, PcGoes, CpAccelAssumption DEF FifoInv, CpTypeOK, LockInv, Idle
<1>3. CASE inited
  <2>1. /\ inited' = FALSE /\ chan' = Untouched /\ cell' = Live(cell, Untouched)
        /\ cp' = "off" /\ msg' = {} /\ sendq' = <<>>
        /\ txPending' = [i \in Index |-> 0] /\ cpMsg' = {} /\ cpMsgRecv' = FALSE
    BY <1>3 DEF CloseStop, Closed, Cleared
  <2>2. "req" \in Cells
    BY DEF Cells
  <2>3. cell' = [x \in Cells |-> 0]
    BY <2>1, <2>2, LiveCells
  <2>4. TypeRest'
    BY <1>1, <1>2, <2>1, <2>3, Emptied DEF FifoInv, CpTypeOK, TypeRest
  <2>5. chan'.sending = <<>>
    BY <2>1 DEF Untouched
  <2>6. \A s \in Sender : pc'[s].at = "idle"
    BY <1>1, <1>2 DEF MidSend
  <2>7. ChanShape' /\ Told' /\ Counted' /\ Queued'
    BY <2>1, <2>5, <2>6 DEF ChanShape, Told, Counted, Queued, MidSend, At
  <2> QED
    BY <2>4, <2>7, TypePartsNext DEF FifoInv
<1>4. CASE ~inited
  <2>1. UNCHANGED <<inited, txPending, cpMsg, cpMsgRecv, cell, chan, cp, msg, sendq>>
    BY <1>4 DEF CloseStop
  <2>2. TypeRest'
    BY <1>1, <1>2, <2>1 DEF FifoInv, CpTypeOK, TypeRest
  <2> QED
    BY <1>1, <1>2, <2>1, <2>2, OthersKeep
<1> QED
  BY <1>3, <1>4

LEMMA BootKeepsFifo ==
  ASSUME FifoInv, Boot
  PROVE  FifoInv'
<1>1. /\ cp = "boot" /\ cp' = "loop" /\ inited' = TRUE /\ txCount' = 0
      /\ sendq' = <<>> /\ torn' = FALSE
      /\ txPending' = [i \in Index |-> 0] /\ cpMsg' = {} /\ cpMsgRecv' = FALSE
      /\ UNCHANGED <<state, lock, cell, chan, msg, pc, owed>>
  BY DEF Boot, Cleared
<1>2. chan = Ready /\ ~inited /\ \A s \in Sender : pc[s].at = "idle"
  BY <1>1 DEF FifoInv, Told, MidSend
<1>3. chan'.sending = <<>> /\ InFlight' = <<>>
  BY <1>1, <1>2, InFlightIsNext DEF InFlightFits
<1>4. TypeRest'
  <2>1. PcType'
    BY <1>1 DEF FifoInv, CpTypeOK, PcType
  <2>2. txPending' \in [Index -> Event \cup {0}] /\ sendq' \in Seq(Event) /\ txCount' \in 0..255
    BY <1>1, Emptied
  <2> QED
    BY <1>1, <2>1, <2>2 DEF FifoInv, CpTypeOK, TypeRest
<1>5. Waiting' = <<>>
  <2>1. InLine(txPending', 0) = <<>>
    <3>1. txPending' \in [Index -> Event \cup {0}]
      BY <1>1, Emptied
    <3>2. 0 \in 0 .. (MaxMsg + 1) /\ 0 <= 1
      BY CpAccelAssumption
    <3> QED
      BY <3>1, <3>2, InLineType
  <2> QED
    BY <1>1, <2>1 DEF Waiting, InLine
<1>6. sendq' = InFlight' \o Waiting'
  BY <1>1, <1>3, <1>5
<1>7. ChanShape' /\ Told' /\ Counted' /\ Queued'
  BY <1>1, <1>2, <1>3, <1>6 DEF ChanShape, Told, Counted, Queued, MidSend, At, Ready, Untouched
<1> QED
  BY <1>4, <1>7, TypePartsNext DEF FifoInv

-----------------------------------------------------------------------------
(***************************************************************************)
(* An event arrives, or is acknowledged and the next one sent.             *)
(***************************************************************************)
LEMMA TakeFirst ==
  ASSUME NEW S, NEW x \in S, NEW w \in Seq(S)
  PROVE  <<x>> \o w # <<>> /\ Tail(<<x>> \o w) = w /\ <<>> \o w = w
<1>1. <<x>> \in Seq(S) /\ Len(<<x>>) = 1 /\ Len(w) \in Nat
  OBVIOUS
<1>2. <<x>> \o w \in Seq(S) /\ Len(<<x>> \o w) = 1 + Len(w)
  BY <1>1, ConcatProperties
<1>3. <<x>> \o w # <<>>
  BY <1>1, <1>2
<1>4. Tail(<<x>> \o w) \in Seq(S) /\ Len(Tail(<<x>> \o w)) = Len(w)
  BY <1>1, <1>2, <1>3, HeadTailProperties
<1>5. \A i \in 1 .. Len(w) : Tail(<<x>> \o w)[i] = w[i]
  BY <1>1, <1>2, ConcatProperties
<1>6. Tail(<<x>> \o w) = w
  BY <1>4, <1>5, SeqEqual
<1> QED
  BY <1>3, <1>6, ConcatEmptySeq

LEMMA WaitingType ==
  ASSUME FifoInv, inited, ~torn
  PROVE  Waiting \in Seq(Event \cup {0}) /\ txCount \in 0 .. (MaxMsg + 1)
<1>1. txCount \in 0 .. (MaxMsg + 1)
  BY CpAccelAssumption DEF FifoInv, CpTypeOK, Counted, Queued
<1>2. txPending \in [Index -> Event \cup {0}]
  BY DEF FifoInv, CpTypeOK
<1>3. InLine(txPending, txCount) \in Seq(Event \cup {0})
  BY <1>1, <1>2, InLineType
<1> QED
  BY <1>1, <1>3 DEF Waiting, InLine

LEMMA EmptyWhenReady == Untouched.sending = <<>> /\ Ready.sending = <<>>
  BY DEF Untouched, Ready

LEMMA RxIrqKeepsFifo ==
  ASSUME FifoInv, RxIrq
  PROVE  FifoInv'
<1>1. /\ cp \in {"loop", "scan", "work"} /\ chan.ind
      /\ cpMsg' = cpMsg \cup {cell[c] : c \in ToSet(chan.sending)} /\ cpMsgRecv' = TRUE
      /\ chan' = Received(chan)
      /\ sendq' = IF sendq = <<>> THEN <<>> ELSE Tail(sendq)
      /\ UNCHANGED <<inited, state, lock, txCount, txPending, cell, cp, msg, pc, owed, torn>>
  BY DEF RxIrq, cpVars
<1>2. inited
  BY <1>1 DEF FifoInv, Told
<1>3. PICK c \in Cells : chan = OnItsWay(c)
  BY <1>1, InFlightIs DEF FifoInv, ChanShape, InFlightFits
<1>4. chan' = Arrived(c)
  BY <1>1, <1>3, ChanSteps
<1>5. /\ chan.sending = <<c>> /\ chan'.sending = <<c>> /\ <<c>> # <<>>
      /\ InFlight = <<cell[c]>> /\ InFlight' = <<>>
  BY <1>3, <1>4, InFlightIs, InFlightIsNext DEF InFlightFits
<1>6. chan' # Untouched /\ chan' # Ready
  BY <1>5 DEF Untouched, Ready
<1>7. cell[c] \in Event \cup {0}
  BY DEF FifoInv, CpTypeOK
<1>8. TypeRest'
  <2>1. ToSet(chan.sending) = {c}
    BY <1>5 DEF ToSet
  <2>2. cpMsg' \subseteq Event \cup {0}
    BY <1>1, <1>7, <2>1 DEF FifoInv, CpTypeOK
  <2>3. sendq' \in Seq(Event)
    BY <1>1 DEF FifoInv, CpTypeOK
  <2>4. PcType'
    BY <1>1 DEF FifoInv, CpTypeOK, PcType
  <2> QED
    BY <1>1, <2>2, <2>3, <2>4 DEF FifoInv, CpTypeOK, TypeRest
<1>9. ChanShape' /\ Told' /\ Counted'
  BY <1>1, <1>2, <1>4, <1>5, <1>6 DEF FifoInv, ChanShape, Told, Counted, MidSend, At
<1>10. ASSUME ~torn PROVE sendq' = InFlight' \o Waiting'
  <2>1. sendq = <<cell[c]>> \o Waiting
    BY <1>2, <1>5, <1>10 DEF FifoInv, Queued
  <2>2. Waiting \in Seq(Event \cup {0})
    BY <1>2, <1>10, WaitingType
  <2>3. sendq # <<>> /\ Tail(sendq) = Waiting /\ <<>> \o Waiting = Waiting
    BY <1>7, <2>1, <2>2, TakeFirst
  <2>4. Waiting' = Waiting
    BY <1>1 DEF Waiting
  <2> QED
    BY <1>1, <1>5, <2>3, <2>4
<1>11. Queued'
  BY <1>1, <1>2, <1>5, <1>10 DEF FifoInv, Queued, At
<1> QED
  BY <1>8, <1>9, <1>11, TypePartsNext DEF FifoInv

LEMMA TxIrqKeepsFifo ==
  ASSUME FifoInv, TxIrq
  PROVE  FifoInv'
<1>1. /\ chan.done
      /\ torn' = (torn \/ MidSend)
      /\ sendq' = IF torn' THEN <<>> ELSE sendq
      /\ UNCHANGED <<inited, state, lock, cpMsg, cpMsgRecv, cp, msg, pc, owed>>
  BY DEF TxIrq, cpVars
<1>2. PICK c \in Cells : chan = Arrived(c)
  BY <1>1, InFlightIs DEF FifoInv, ChanShape, InFlightFits
<1>3. chan.sending = <<c>> /\ <<c>> # <<>> /\ InFlight = <<>>
  BY <1>2, InFlightIs, Shortest DEF InFlightFits
<1>4. inited /\ txCount \in 1 .. (MaxMsg + 1)
  <2>1. chan \notin {Untouched, Ready}
    BY <1>3 DEF Untouched, Ready
  <2> QED
    BY <1>3, <2>1 DEF FifoInv, Told, Counted
<1>5. MsgSent
  BY <1>3 DEF TxIrq
<1>6. /\ PcType' /\ sendq' \in Seq(Event) /\ torn' \in BOOLEAN
      /\ \A s \in Sender : pc'[s] = pc[s]
  <2>1. PcType'
    BY <1>1 DEF FifoInv, CpTypeOK, PcType
  <2>2. sendq' \in Seq(Event)
    BY <1>1, Emptied DEF FifoInv, CpTypeOK
  <2>3. torn' \in BOOLEAN
    BY <1>1, Zenon
  <2> QED
    BY <1>1, <2>1, <2>2, <2>3
<1>7. ~torn' => ~torn /\ sendq' = sendq /\ \A s \in Sender : pc'[s].at = "idle"
  BY <1>1 DEF MidSend
<1>8. CASE txCount > 1
  <2>1. /\ txCount' = txCount - 1
        /\ chan' = Acknowledged(Sent(chan, "pend"))
        /\ cell' = Live([cell EXCEPT !["pend"] = txPending[0]], chan')
        /\ txPending' = [i \in Index |-> IF i < txCount - 2 THEN txPending[i + 1]
                                         ELSE txPending[i]]
    BY <1>5, <1>8 DEF MsgSent
  <2>2. "pend" \in Cells
    BY DEF Cells
  <2>3. chan' = OnItsWay("pend")
    BY <1>2, <2>1, <2>2, SentNext
  <2>4. txPending[0] \in Event \cup {0} /\ txPending \in [Index -> Event \cup {0}]
    BY CpAccelAssumption DEF FifoInv, CpTypeOK, Index
  <2>5. cell' \in [Cells -> Event \cup {0}] /\ cell'["pend"] = txPending[0]
    <3> DEFINE cells == [cell EXCEPT !["pend"] = txPending[0]]
    <3>1. cells \in [Cells -> Event \cup {0}] /\ cells["pend"] = txPending[0]
      BY <2>2, <2>4 DEF FifoInv, CpTypeOK
    <3>2. cell' = Live(cells, OnItsWay("pend"))
      BY <2>1, <2>3
    <3> HIDE DEF cells
    <3>3. cell' = [x \in Cells |-> IF x = "pend" THEN cells[x] ELSE 0]
      BY <2>2, <3>2, LiveCells
    <3> QED
      BY <2>2, <3>1, <3>3
  <2>6. txPending' \in [Index -> Event \cup {0}]
    <3>1. \A i \in Index : i < txCount - 2 => i + 1 \in Index
      BY <1>4, CpAccelAssumption DEF Index
    <3> QED
      BY <2>1, <2>4, <3>1
  <2>7. chan'.sending = <<"pend">> /\ <<"pend">> # <<>> /\ InFlight' = <<txPending[0]>>
    BY <2>2, <2>3, <2>5, InFlightIsNext, Shortest DEF InFlightFits
  <2>8. chan' # Untouched /\ chan' # Ready
    BY <2>7, EmptyWhenReady
  <2>9. txCount' \in 1 .. MaxMsg /\ txCount' \in 0 .. 255
    BY <1>4, <1>8, <2>1, CpAccelAssumption
  <2>10. TypeRest'
    BY <1>1, <1>6, <2>5, <2>6, <2>9 DEF FifoInv, CpTypeOK, TypeRest
  <2>11. ChanShape' /\ Told'
    BY <1>1, <1>4, <2>2, <2>3, <2>8 DEF FifoInv, ChanShape, Told
  <2>12. Counted'
    BY <1>1, <1>3, <2>7, <2>9, CpAccelAssumption DEF FifoInv, Counted, At
  <2>13. ASSUME ~torn' PROVE sendq' = InFlight' \o Waiting'
    <3>1. sendq = <<>> \o Waiting /\ Waiting \in Seq(Event \cup {0})
      BY <1>3, <1>4, <1>7, <2>13, WaitingType DEF FifoInv, Queued
    <3>2. sendq = Waiting
      BY <3>1, ConcatEmptySeq
    <3>3. InLine(txPending, txCount) = <<txPending[0]>> \o InLine(txPending', txCount - 1)
      <4>1. txCount \in 2 .. (MaxMsg + 1)
        BY <1>4, <1>8
      <4>2. \A i \in Index : i < txCount - 2 => txPending'[i] = txPending[i + 1]
        BY <2>1
      <4> QED
        BY <2>4, <2>6, <4>1, <4>2, InLineShift
    <3>4. Waiting = InLine(txPending, txCount) /\ Waiting' = InLine(txPending', txCount - 1)
      BY <2>1 DEF Waiting, InLine
    <3> QED
      BY <1>7, <2>7, <2>13, <3>2, <3>3, <3>4
  <2>14. Queued'
    BY <1>7, <2>7, <2>9, <2>13 DEF Queued, At
  <2> QED
    BY <2>10, <2>11, <2>12, <2>14, TypePartsNext DEF FifoInv
<1>9. CASE ~(txCount > 1)
  <2>1. /\ txCount' = 0 /\ chan' = Acknowledged(chan)
        /\ cell' = Live(cell, chan') /\ UNCHANGED txPending
    BY <1>5, <1>9 DEF MsgSent
  <2>2. chan' = Ready
    BY <1>2, <2>1, ChanSteps
  <2>3. chan'.sending = <<>> /\ InFlight' = <<>>
    BY <2>2, InFlightIsNext DEF InFlightFits
  <2>4. cell' \in [Cells -> Event \cup {0}]
    BY <2>1, <2>2, LiveCells, Emptied
  <2>5. txCount' \in 0 .. 255 /\ ~(txCount' > 0) /\ txCount = 1
    BY <1>4, <1>9, <2>1
  <2>6. TypeRest'
    BY <1>1, <1>6, <2>1, <2>4, <2>5 DEF FifoInv, CpTypeOK, TypeRest
  <2>7. ChanShape' /\ Told'
    <3>1. Ready # Untouched
      BY DEF Ready, Untouched
    <3> QED
      BY <1>1, <1>4, <2>2, <3>1 DEF FifoInv, ChanShape, Told
  <2>8. Counted'
    BY <1>1, <2>3 DEF FifoInv, Counted, At
  <2>9. ASSUME ~torn' PROVE sendq' = InFlight' \o Waiting'
    <3>1. sendq = <<>> \o Waiting
      BY <1>3, <1>4, <1>7, <2>9 DEF FifoInv, Queued
    <3>2. Waiting = <<>> /\ Waiting' = <<>>
      <4>1. /\ txPending \in [Index -> Event \cup {0}]
            /\ 0 \in 0 .. (MaxMsg + 1) /\ 1 \in 0 .. (MaxMsg + 1)
        BY CpAccelAssumption DEF FifoInv, CpTypeOK
      <4>2. InLine(txPending, 1) = <<>>
        BY <4>1, 1 <= 1, InLineType
      <4>3. InLine(txPending, 0) = <<>>
        BY <4>1, 0 <= 1, InLineType
      <4> QED
        BY <2>1, <2>5, <4>2, <4>3 DEF Waiting, InLine
    <3> QED
      BY <1>7, <2>3, <2>9, <3>1, <3>2
  <2>10. Queued'
    BY <1>7, <2>3, <2>5, <2>9 DEF Queued, At
  <2> QED
    BY <2>6, <2>7, <2>8, <2>10, TypePartsNext DEF FifoInv
<1> QED
  BY <1>8, <1>9

-----------------------------------------------------------------------------
(***************************************************************************)
(* A thread sends, one access to the shared count at a time.               *)
(***************************************************************************)
LEMMA SendCheckKeepsFifo ==
  ASSUME FifoInv, LockInv, OneSender, NEW s \in Sender, NEW e \in Event, SendCheck(s, e)
  PROVE  FifoInv'
<1> DEFINE step == IF txCount > 0 THEN "store" ELSE "first"
<1>1. /\ inited /\ txCount <= MaxMsg /\ Go(s, [at |-> step, event |-> e])
      /\ UNCHANGED <<inited, state, lock, txCount, txPending, cpMsg, cpMsgRecv, cell, chan, cp, msg,
                     sendq, owed, torn>>
  BY DEF SendCheck, envVars, cpVars, history
<1>2. step \in {"store", "first"} /\ (step = "first" <=> ~(txCount > 0))
  OBVIOUS
<1> HIDE DEF step
<1>3. PcType' /\ pc'[s].at = step /\ pc'[s].event = e
  BY <1>1, <1>2, PcGoes DEF FifoInv, CpTypeOK, LockInv
<1>4. TypeRest'
  BY <1>1, <1>3 DEF FifoInv, CpTypeOK, TypeRest
<1>5. ChanShape' /\ Told'
  BY <1>1 DEF FifoInv, ChanShape, Told
<1>6. txCount \in Nat /\ (chan.sending # <<>> => txCount > 0)
  <2>1. txCount \in 0 .. 255
    BY DEF FifoInv, CpTypeOK
  <2>2. chan.sending # <<>> => txCount \in 1 .. (MaxMsg + 1)
    BY DEF FifoInv, Counted
  <2>3. txCount \in 1 .. (MaxMsg + 1) => txCount > 0
    BY CpAccelAssumption
  <2> QED
    BY <2>1, <2>2, <2>3
<1>7. \A u \in Sender : pc'[u].at = step
  BY <1>3 DEF OneSender
<1>8. Counted'
  BY <1>1, <1>2, <1>6, <1>7 DEF FifoInv, Counted, At
<1>9. InFlight' = InFlight /\ Waiting' = Waiting
  BY <1>1 DEF InFlight, Waiting
<1>10. Queued'
  BY <1>1, <1>2, <1>6, <1>7, <1>9 DEF FifoInv, Queued, At
<1> QED
  BY <1>4, <1>5, <1>8, <1>10, TypePartsNext DEF FifoInv

\* The event counts as accepted.
LEMMA Accepted ==
  ASSUME FifoInv, NEW e \in Event, Accept(e)
  PROVE  /\ sendq' \in Seq(Event) /\ owed' \subseteq Event /\ torn' = torn
         /\ ~torn => sendq' = Append(sendq, e)
<1>1. Append(sendq, e) \in Seq(Event)
  BY DEF FifoInv, CpTypeOK
<1> QED
  BY <1>1, Emptied DEF Accept, FifoInv, CpTypeOK

LEMMA SendFirstKeepsFifo ==
  ASSUME FifoInv, LockInv, OneSender, NEW s \in Sender, SendFirst(s)
  PROVE  FifoInv'
<1> DEFINE e == pc[s].event
<1>1. /\ pc[s].at = "first" /\ txCount' = 1 /\ chan' = Sent(chan, "req")
      /\ cell' = Live([cell EXCEPT !["req"] = e], chan')
      /\ Accept(e) /\ Go(s, Idle)
      /\ UNCHANGED <<inited, state, lock, txPending, cpMsg, cpMsgRecv, cp, msg>>
  BY DEF SendFirst, At, cpVars
<1>2. e \in Event /\ inited /\ chan.sending = <<>>
  BY <1>1 DEF FifoInv, CpTypeOK, PcType, Told, MidSend, Counted, At
<1>3. "req" \in Cells
  BY DEF Cells
<1>4. chan = Ready
  BY <1>2, InFlightIs, Shortest DEF FifoInv, ChanShape, Told, InFlightFits
<1>5. chan' = OnItsWay("req")
  BY <1>1, <1>3, <1>4, SentFirst
<1>6. /\ PcType' /\ pc'[s] = Idle
  BY <1>1, PcGoes DEF FifoInv, CpTypeOK, LockInv, Idle
<1>7. /\ sendq' \in Seq(Event) /\ owed' \subseteq Event /\ torn' = torn
      /\ ~torn => sendq' = Append(sendq, e)
  BY <1>1, <1>2, Accepted
<1>8. cell' \in [Cells -> Event \cup {0}] /\ cell'["req"] = e
  <2> DEFINE cells == [cell EXCEPT !["req"] = e]
  <2>1. cells \in [Cells -> Event \cup {0}] /\ cells["req"] = e
    BY <1>2, <1>3 DEF FifoInv, CpTypeOK
  <2>2. cell' = Live(cells, OnItsWay("req"))
    BY <1>1, <1>5
  <2> HIDE DEF cells
  <2>3. cell' = [x \in Cells |-> IF x = "req" THEN cells[x] ELSE 0]
    BY <1>3, <2>2, LiveCells
  <2> QED
    BY <1>3, <2>1, <2>3
<1>9. chan'.sending = <<"req">> /\ <<"req">> # <<>> /\ InFlight' = <<e>>
  BY <1>3, <1>5, <1>8, InFlightIsNext, Shortest DEF InFlightFits
<1>10. TypeRest'
  <2>1. txCount' \in 0 .. 255
    BY <1>1
  <2>2. torn' \in BOOLEAN
    BY <1>7 DEF FifoInv, CpTypeOK
  <2> QED
    BY <1>1, <1>6, <1>7, <1>8, <2>1, <2>2 DEF FifoInv, CpTypeOK, TypeRest
<1>11. ChanShape' /\ Told'
  <2>1. chan' # Untouched
    BY <1>9, EmptyWhenReady
  <2> QED
    BY <1>1, <1>2, <1>3, <1>5, <2>1 DEF FifoInv, ChanShape, Told
<1>12. \A u \in Sender : pc'[u].at = "idle"
  BY <1>6 DEF OneSender, Idle
<1>13. Counted'
  <2>1. txCount' \in 1 .. (MaxMsg + 1)
    BY <1>1, CpAccelAssumption
  <2> QED
    BY <1>12, <2>1 DEF Counted, At
<1>14. ASSUME ~torn PROVE sendq' = InFlight' \o Waiting'
  <2>1. sendq = <<>> \o Waiting /\ txCount = 0
    BY <1>1, <1>2, <1>4, <1>14, InFlightIs DEF FifoInv, Queued, At, InFlightFits
  <2>2. /\ txPending \in [Index -> Event \cup {0}]
        /\ 0 \in 0 .. (MaxMsg + 1) /\ 1 \in 0 .. (MaxMsg + 1)
    BY CpAccelAssumption DEF FifoInv, CpTypeOK
  <2>3. InLine(txPending, 1) = <<>>
    BY <2>2, 1 <= 1, InLineType
  <2>4. InLine(txPending, 0) = <<>>
    BY <2>2, 0 <= 1, InLineType
  <2>5. Waiting = <<>> /\ Waiting' = <<>>
    BY <1>1, <2>1, <2>3, <2>4 DEF Waiting, InLine
  <2>6. Append(<<>>, e) = <<e>> /\ <<>> \o <<>> = <<>> /\ <<e>> \o <<>> = <<e>>
    OBVIOUS
  <2> QED
    BY <1>7, <1>9, <1>14, <2>1, <2>5, <2>6
<1>15. Queued'
  <2>1. txCount' > 0
    BY <1>1
  <2>2. chan'.sending # <<>>
    BY <1>9
  <2> QED
    BY <1>7, <1>12, <1>14, <2>1, <2>2 DEF Queued, At
<1> QED
  BY <1>10, <1>11, <1>13, <1>15, TypePartsNext DEF FifoInv

\* The event goes behind those counted; the count does not move yet.
LEMMA SendStoreKeepsFifo ==
  ASSUME FifoInv, LockInv, OneSender, NEW s \in Sender, SendStore(s)
  PROVE  FifoInv'
<1> DEFINE e == pc[s].event
<1>1. /\ pc[s].at = "store" /\ Go(s, [at |-> "load", event |-> e])
      /\ IF txCount = 0 THEN txCount' = e /\ UNCHANGED txPending
         ELSE txPending' = [txPending EXCEPT ![txCount - 1] = e] /\ UNCHANGED txCount
      /\ UNCHANGED <<inited, state, lock, cpMsg, cpMsgRecv, cell, chan, cp, msg, sendq, owed, torn>>
  BY DEF SendStore, At, cpVars, history
<1>2. e \in Event /\ inited
  BY <1>1 DEF FifoInv, CpTypeOK, PcType, Told, MidSend
<1>3. PcType' /\ pc'[s].at = "load" /\ pc'[s].event = e
  BY <1>1, <1>2, PcGoes DEF FifoInv, CpTypeOK, LockInv
<1>4. txCount' \in 0 .. 255 /\ txPending' \in [Index -> Event \cup {0}]
  <2>1. txCount \in 0 .. 255 /\ e \in 0 .. 255 /\ e \in Event \cup {0}
    BY <1>2, CpAccelAssumption DEF FifoInv, CpTypeOK
  <2>2. txPending \in [Index -> Event \cup {0}]
    BY DEF FifoInv, CpTypeOK
  <2>3. [txPending EXCEPT ![txCount - 1] = e] \in [Index -> Event \cup {0}]
    BY <2>1, <2>2
  <2> HIDE DEF e
  <2>4. CASE txCount = 0
    BY <1>1, <2>1, <2>2, <2>4
  <2>5. CASE txCount # 0
    BY <1>1, <2>1, <2>3, <2>5
  <2> QED
    BY <2>4, <2>5
<1>5. TypeRest'
  BY <1>1, <1>3, <1>4 DEF FifoInv, CpTypeOK, TypeRest
<1>6. ChanShape' /\ Told'
  BY <1>1, <1>2 DEF FifoInv, ChanShape, Told
<1>7. \A u \in Sender : u = s
  BY DEF OneSender
<1>8. chan.sending # <<>> => txCount' = txCount /\ txCount \in 1 .. MaxMsg
  BY <1>1 DEF FifoInv, Counted
<1>9. Counted'
  BY <1>1, <1>3, <1>7, <1>8 DEF FifoInv, Counted, At
<1>10. ASSUME ~torn
       PROVE  /\ txCount \in 1 .. MaxMsg /\ txCount' = txCount
              /\ txPending'[txCount - 1] = e /\ Waiting' = Waiting
  <2>1. txCount \in 1 .. MaxMsg
    BY <1>1, <1>2, <1>10 DEF FifoInv, Queued
  <2>2. txCount' = txCount /\ txPending' = [txPending EXCEPT ![txCount - 1] = e]
    BY <1>1, <2>1
  <2>3. txCount - 1 \in Index /\ txPending \in [Index -> Event \cup {0}]
    BY <2>1, CpAccelAssumption DEF FifoInv, CpTypeOK, Index
  <2>4. \A i \in 1 .. (txCount - 1) : txPending'[i - 1] = txPending[i - 1]
    BY <2>1, <2>2, <2>3, CpAccelAssumption DEF Index
  <2>5. Waiting' = Waiting
    BY <2>1, <2>2, <2>4 DEF Waiting
  <2> QED
    BY <2>1, <2>2, <2>3, <2>5
<1>11. InFlight' = InFlight
  BY <1>1 DEF InFlight
<1>12. Queued'
  BY <1>1, <1>2, <1>3, <1>7, <1>10, <1>11 DEF FifoInv, Queued, At
<1> QED
  BY <1>5, <1>6, <1>9, <1>12, TypePartsNext DEF FifoInv

LEMMA SendLoadKeepsFifo ==
  ASSUME FifoInv, LockInv, OneSender, NEW s \in Sender, SendLoad(s)
  PROVE  FifoInv'
<1>1. /\ pc[s].at = "load"
      /\ Go(s, [at |-> "inc", event |-> pc[s].event, count |-> txCount])
      /\ UNCHANGED <<inited, state, lock, txCount, txPending, cpMsg, cpMsgRecv, cell, chan, cp, msg,
                     sendq, owed, torn>>
  BY DEF SendLoad, At, envVars, cpVars, history
<1>2. pc[s].event \in Event /\ inited
  BY <1>1 DEF FifoInv, CpTypeOK, PcType, Told, MidSend
<1>3. PcType' /\ pc'[s].at = "inc" /\ pc'[s].event = pc[s].event /\ pc'[s].count = txCount
  BY <1>1, <1>2, PcGoes DEF FifoInv, CpTypeOK, LockInv
<1>4. TypeRest'
  BY <1>1, <1>3 DEF FifoInv, CpTypeOK, TypeRest
<1>5. ChanShape' /\ Told'
  BY <1>1, <1>2 DEF FifoInv, ChanShape, Told
<1>6. \A u \in Sender : u = s
  BY DEF OneSender
<1>7. Counted'
  BY <1>1, <1>3, <1>6 DEF FifoInv, Counted, CpTypeOK, At
<1>8. InFlight' = InFlight /\ Waiting' = Waiting
  BY <1>1 DEF InFlight, Waiting
<1>9. Queued'
  BY <1>1, <1>2, <1>3, <1>6, <1>8 DEF FifoInv, Queued, At
<1> QED
  BY <1>4, <1>5, <1>7, <1>9, TypePartsNext DEF FifoInv

LEMMA SendIncKeepsFifo ==
  ASSUME FifoInv, LockInv, OneSender, NEW s \in Sender, SendInc(s)
  PROVE  FifoInv'
<1> DEFINE e == pc[s].event
<1>1. /\ pc[s].at = "inc" /\ txCount' = (pc[s].count + 1) % 256
      /\ Accept(e) /\ Go(s, Idle)
      /\ UNCHANGED <<inited, state, lock, txPending, cpMsg, cpMsgRecv, cell, chan, cp, msg>>
  BY DEF SendInc, At, cpVars
<1>2. e \in Event /\ inited /\ pc[s].count \in 0 .. 255
  BY <1>1 DEF FifoInv, CpTypeOK, PcType, Told, MidSend, Counted, At
<1>3. /\ PcType' /\ pc'[s] = Idle
  BY <1>1, PcGoes DEF FifoInv, CpTypeOK, LockInv, Idle
<1>4. /\ sendq' \in Seq(Event) /\ owed' \subseteq Event /\ torn' = torn
      /\ ~torn => sendq' = Append(sendq, e)
  BY <1>1, <1>2, Accepted
<1>5. txCount' \in 0 .. 255 /\ (pc[s].count <= MaxMsg => txCount' = pc[s].count + 1)
  BY <1>1, <1>2, CpAccelAssumption
<1>6. TypeRest'
  BY <1>1, <1>3, <1>4, <1>5 DEF FifoInv, CpTypeOK, TypeRest
<1>7. ChanShape' /\ Told'
  BY <1>1, <1>2 DEF FifoInv, ChanShape, Told
<1>8. \A u \in Sender : pc'[u].at = "idle"
  BY <1>3 DEF OneSender, Idle
<1>9. Counted'
  <2>1. chan.sending # <<>> => txCount' = pc[s].count + 1 /\ pc[s].count \in 0 .. MaxMsg
    <3>1. chan.sending # <<>> => pc[s].count <= MaxMsg
      BY <1>1 DEF FifoInv, Counted, At
    <3>2. pc[s].count <= MaxMsg => pc[s].count \in 0 .. MaxMsg
      BY <1>2, CpAccelAssumption
    <3> QED
      BY <1>5, <3>1, <3>2
  <2>2. chan'.sending # <<>> => txCount' \in 1 .. (MaxMsg + 1)
    BY <1>1, <2>1, CpAccelAssumption
  <2> QED
    BY <1>8, <2>2 DEF Counted, At
<1>10. ASSUME ~torn
       PROVE  /\ sendq' = InFlight' \o Waiting' /\ txCount' > 0 /\ chan'.sending # <<>>
  <2>1. /\ sendq = InFlight \o Waiting /\ txCount \in 1 .. MaxMsg /\ chan.sending # <<>>
        /\ txPending[txCount - 1] = e /\ pc[s].count = txCount
    BY <1>1, <1>2, <1>10 DEF FifoInv, CpTypeOK, Queued, At
  <2>2. txCount' = txCount + 1
    BY <1>5, <2>1
  <2>3. txPending \in [Index -> Event \cup {0}] /\ InFlight \in Seq(Event \cup {0})
    <3>1. <<>> \in Seq(Event \cup {0}) /\ \A c \in Cells : <<cell[c]>> \in Seq(Event \cup {0})
      BY Emptied DEF FifoInv, CpTypeOK
    <3>2. InFlight \in {<<>>} \cup {<<cell[c]>> : c \in Cells}
      BY InFlightIs DEF FifoInv, ChanShape, InFlightFits
    <3>3. txPending \in [Index -> Event \cup {0}]
      BY DEF FifoInv, CpTypeOK
    <3> QED
      BY <3>1, <3>2, <3>3
  <2>4. InLine(txPending, txCount + 1) = Append(InLine(txPending, txCount), e)
    BY <2>1, <2>3, InLineAppend
  <2>5. Waiting = InLine(txPending, txCount) /\ Waiting' = InLine(txPending, txCount + 1)
    BY <1>1, <2>2 DEF Waiting, InLine
  <2>6. Waiting \in Seq(Event \cup {0})
    BY <1>2, <1>10, WaitingType
  <2>7. InFlight' = InFlight
    BY <1>1 DEF InFlight
  <2>8. Append(InFlight \o Waiting, e) = InFlight \o Append(Waiting, e)
    <3> DEFINE S == Event \cup {0}
    <3>1. InFlight \in Seq(S) /\ Waiting \in Seq(S) /\ e \in S
      BY <1>2, <2>3, <2>6
    <3> HIDE DEF e, S
    <3>2. InFlight \o Waiting \in Seq(S) /\ <<e>> \in Seq(S)
      BY <3>1, ConcatProperties
    <3>3. Append(InFlight \o Waiting, e) = (InFlight \o Waiting) \o <<e>>
      BY <3>1, <3>2, AppendIsConcat
    <3>4. Append(Waiting, e) = Waiting \o <<e>>
      BY <3>1, AppendIsConcat
    <3> QED
      BY <3>1, <3>2, <3>3, <3>4, ConcatAssociative
  <2>9. sendq' = InFlight' \o Waiting'
    <3> HIDE DEF e, Waiting, InFlight
    <3>1. Waiting' = Append(Waiting, e)
      BY <2>4, <2>5
    <3>2. sendq' = Append(sendq, e) /\ sendq = InFlight \o Waiting
      BY <1>4, <1>10, <2>1
    <3> QED
      BY <2>7, <2>8, <3>1, <3>2, Zenon
  <2>10. txCount' > 0
    BY <2>1, <2>2
  <2> QED
    BY <1>1, <2>1, <2>9, <2>10
<1>11. Queued'
  BY <1>1, <1>4, <1>8, <1>10 DEF Queued, At
<1> QED
  BY <1>6, <1>7, <1>9, <1>11, TypePartsNext DEF FifoInv

-----------------------------------------------------------------------------
(***************************************************************************)
(* The events on their way to the CP are those accepted that have not      *)
(* arrived, in their order, as long as one thread sends and no             *)
(* acknowledgement has cut a send: none is lost and none comes twice, for  *)
(* any length of the queue and any number of tasks and of threads that     *)
(* open and close them.                                                    *)
(***************************************************************************)
THEOREM FifoTheorem == OneSender => (Spec => []FifoKept)
<1> SUFFICES ASSUME OneSender PROVE Spec => []FifoKept
  OBVIOUS
<1>1. FifoInv /\ LockInv /\ [Next]_vars => FifoInv'
  <2> SUFFICES ASSUME FifoInv, LockInv, [Next]_vars PROVE FifoInv'
    OBVIOUS
  <2>1. CASE \E s \in Sender : SendStep(s) \/ \E e \in Event : SendCheck(s, e)
    BY <2>1, SendCheckKeepsFifo, SendFirstKeepsFifo, SendStoreKeepsFifo, SendLoadKeepsFifo,
       SendIncKeepsFifo DEF SendStep
  <2>2. CASE \E o \in Opener : OpenStep(o) \/ \E t \in Tasks : OpenBegin(o, t) \/ CloseLock(o, t)
    BY <2>2, OpenerKeepsFifo, OpenStartKeepsFifo, CloseStopKeepsFifo DEF OpenStep
  <2>3. CASE TxIrq \/ RxIrq
    BY <2>3, TxIrqKeepsFifo, RxIrqKeepsFifo
  <2>4. CASE CpStep \/ CpLook
    BY <2>4, CpKeepsFifo, BootKeepsFifo DEF CpStep
  <2>5. CASE UNCHANGED vars
    <3>1. /\ UNCHANGED <<inited, state, lock, txCount, txPending, cpMsg, cpMsgRecv, cell, chan, cp,
                         msg, pc, sendq, owed, torn>>
      BY <2>5 DEF vars, envVars, cpVars, history
    <3>2. TypeRest'
      BY <3>1 DEF FifoInv, CpTypeOK, TypeRest, PcType
    <3> QED
      BY <3>1, <3>2, OthersKeep
  <2> QED
    BY <2>1, <2>2, <2>3, <2>4, <2>5 DEF Next
<1>2. FifoInv => FifoKept
  BY DEF FifoInv, FifoKept, Queued
<1> QED
  BY FifoInvInit, LockInvariant, <1>1, <1>2, PTL DEF Spec

=============================================================================
