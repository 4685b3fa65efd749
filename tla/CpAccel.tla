------------------------------- MODULE CpAccel -------------------------------
(***************************************************************************)
(* services/cp_accel/cp_accel.c: the second core (CP) works for tasks of   *)
(* the first one (MCU).  Opening a task starts the CP if need be, closing  *)
(* the last one stops it.  Events go to the CP one at a time through the   *)
(* channel of hal_mcu2cp.c; those sent meanwhile wait in mcu2cp_tx_pending *)
(* and each acknowledgement, an interrupt at the MCU, sends the next.  The *)
(* CP notes what has arrived in its own interrupt and calls the work of    *)
(* the tasks from its loop, under a lock that closing a task takes too.    *)
(*                                                                         *)
(* cp_accel_send_event_mcu2cp runs in a thread, with interrupts enabled:   *)
(* each access it makes to the shared count is a step of its own.          *)
(***************************************************************************)
EXTENDS HalMcu2cp, FiniteSets, SequencesExt

CONSTANTS Event,     \* the events sent, CP_BUILD_ID(task, event)
          Sender,    \* threads that send
          Opener,    \* threads that open and close tasks
          MaxMsg,    \* MAX_CP_MSG_NUM
          None

ASSUME CpAccelAssumption ==
  /\ Event \subseteq 0..255
  /\ MaxMsg \in 1..254     \* one more is counted, in a byte
  /\ Sender \cap Opener = {}
  /\ None \notin {"mcu", "cp"}

VARIABLES
  inited,      \* cp_accel_inited
  state,       \* cp_accel_state of each task; its handlers are set while
               \* it is neither CLOSED nor CLOSING
  lock,        \* LOCK_CP_PROCESS: None, "mcu" or "cp"
  txCount,     \* cp_env.mcu2cp_tx_count
  txPending,   \* cp_env.mcu2cp_tx_pending
  cell,        \* req_event and pending_event, the data of the messages
  chan,        \* the channel MCU to CP
  cpMsg,       \* cp_env.cp_msg, the events marked
  cpMsgRecv,   \* cp_env.cp_msg_recv
  cp,          \* where the CP is: "off", "boot", "loop", "scan" or "work"
  msg,         \* its copy of cp_msg, the part that is still to be looked at
  pc,          \* where each thread of the MCU is
  sendq,       \* history: the events accepted and not arrived, in order
  owed,        \* history: events accepted whose work has not begun since
  torn         \* history: an acknowledgement cut a send, and the CP has
               \* not been started afresh since

envVars == <<txCount, txPending, cpMsg, cpMsgRecv>>
cpVars == <<cp, msg>>
history == <<sendq, owed, torn>>
vars == <<inited, state, lock, envVars, cell, chan, cpVars, pc, history>>

Task(e) == e \div 16
Tasks == {Task(e) : e \in Event}
Cells == {"req", "pend"}

Index == 0..(MaxMsg - 1)

\* The data of a message that is no longer in a list is of no interest.
Live(cells, channel) ==
  [c \in Cells |-> IF c \in ToSet(channel.sending \o channel.pending) THEN cells[c] ELSE 0]

Idle == [at |-> "idle"]
At(t, step) == pc[t].at = step
Go(t, to) == pc' = [pc EXCEPT ![t] = to]

\* A thread has looked at the count and has not finished its send.
MidSend == \E s \in Sender : pc[s].at # "idle"

Init ==
  /\ inited = FALSE
  /\ state = [t \in Tasks |-> "CLOSED"]
  /\ lock = None
  /\ txCount = 0
  /\ txPending = [i \in Index |-> 0]
  /\ cell = [c \in Cells |-> 0]
  /\ chan = Untouched
  /\ cpMsg = {}
  /\ cpMsgRecv = FALSE
  /\ cp = "off"
  /\ msg = {}
  /\ pc = [t \in Sender \cup Opener |-> Idle]
  /\ sendq = <<>>
  /\ owed = {}
  /\ torn = FALSE

-----------------------------------------------------------------------------
(***************************************************************************)
(* cp_accel_send_event_mcu2cp.                                             *)
(***************************************************************************)
Accept(e) ==
  /\ sendq' = IF torn THEN <<>> ELSE Append(sendq, e)
  /\ owed' = IF inited /\ state[Task(e)] = "OPENED" THEN owed \cup {e} ELSE owed
  /\ UNCHANGED torn

SendCheck(s, e) ==
  /\ At(s, "idle")
  /\ inited /\ txCount <= MaxMsg
  /\ Go(s, [at |-> IF txCount > 0 THEN "store" ELSE "first", event |-> e])
  /\ UNCHANGED <<inited, state, lock, envVars, cell, chan, cpVars, history>>

SendFirst(s) ==
  /\ At(s, "first")
  /\ txCount' = 1
  /\ chan' = Sent(chan, "req")
  /\ cell' = Live([cell EXCEPT !["req"] = pc[s].event], chan')
  /\ Accept(pc[s].event)
  /\ Go(s, Idle)
  /\ UNCHANGED <<inited, state, lock, txPending, cpMsg, cpMsgRecv, cpVars>>

(***************************************************************************)
(* The byte before mcu2cp_tx_pending is mcu2cp_tx_count itself.            *)
(***************************************************************************)
SendStore(s) ==
  /\ At(s, "store")
  /\ IF txCount = 0
     THEN txCount' = pc[s].event /\ UNCHANGED txPending
     ELSE txPending' = [txPending EXCEPT ![txCount - 1] = pc[s].event] /\ UNCHANGED txCount
  /\ Go(s, [at |-> "load", event |-> pc[s].event])
  /\ UNCHANGED <<inited, state, lock, cell, chan, cpMsg, cpMsgRecv, cpVars, history>>

\* mcu2cp_tx_count++, a load and a store.
SendLoad(s) ==
  /\ At(s, "load")
  /\ Go(s, [at |-> "inc", event |-> pc[s].event, count |-> txCount])
  /\ UNCHANGED <<inited, state, lock, envVars, cell, chan, cpVars, history>>

SendInc(s) ==
  /\ At(s, "inc")
  /\ txCount' = (pc[s].count + 1) % 256
  /\ Accept(pc[s].event)
  /\ Go(s, Idle)
  /\ UNCHANGED <<inited, state, lock, txPending, cell, chan, cpMsg, cpMsgRecv, cpVars>>

-----------------------------------------------------------------------------
\* A slip: the last waiting event is not moved up.
MsgSentShiftShort ==
  IF txCount > 1
  THEN /\ txCount' = txCount - 1
       /\ chan' = Acknowledged(Sent(chan, "pend"))
       /\ cell' = Live([cell EXCEPT !["pend"] = txPending[0]], chan')
       /\ txPending' = [i \in Index |-> IF i < txCount - 3 THEN txPending[i + 1]
                                        ELSE txPending[i]]
  ELSE /\ txCount' = 0
       /\ chan' = Acknowledged(chan)
       /\ cell' = Live(cell, chan')
       /\ UNCHANGED txPending

(***************************************************************************)
(* mcu2cp_msg_sent, called from the interrupt of the acknowledgement: the  *)
(* next event is sent while the record of the last one is still in use.    *)
(***************************************************************************)
MsgSent ==
  IF txCount > 1
  THEN /\ txCount' = txCount - 1
       /\ chan' = Acknowledged(Sent(chan, "pend"))
       /\ cell' = Live([cell EXCEPT !["pend"] = txPending[0]], chan')
       /\ txPending' = [i \in Index |-> IF i < txCount - 2 THEN txPending[i + 1]
                                        ELSE txPending[i]]
  ELSE /\ txCount' = 0
       /\ chan' = Acknowledged(chan)
       /\ cell' = Live(cell, chan')
       /\ UNCHANGED txPending

TxIrq ==
  /\ chan.open /\ chan.done
  /\ IF chan.sending = <<>>
     THEN chan' = Acknowledged(chan) /\ UNCHANGED <<txCount, cell, txPending>>
     ELSE MsgSent
  /\ torn' = (torn \/ MidSend)
  /\ sendq' = IF torn' THEN <<>> ELSE sendq
  /\ UNCHANGED <<inited, state, lock, cpMsg, cpMsgRecv, cpVars, pc, owed>>

(***************************************************************************)
(* hal_mcu2cp_rx_irq and mcu2cp_msg_arrived, an interrupt of the CP.       *)
(***************************************************************************)
RxIrq ==
  /\ cp \in {"loop", "scan", "work"}
  /\ chan.ind
  /\ cpMsg' = cpMsg \cup {cell[c] : c \in ToSet(chan.sending)}
  /\ cpMsgRecv' = TRUE
  /\ chan' = Received(chan)
  /\ sendq' = IF sendq = <<>> THEN <<>> ELSE Tail(sendq)
  /\ UNCHANGED <<inited, state, lock, txCount, txPending, cell, cpVars, pc, owed, torn>>

-----------------------------------------------------------------------------
(***************************************************************************)
(* accel_main and accel_loop, on the CP.  The loop takes what has arrived  *)
(* with the CP's interrupts locked, and looks at task after task, event    *)
(* after event, each under the lock of its own turn.                       *)
(***************************************************************************)
\* A task that nobody opens has no handlers.
HandlersSet(t) == t \in Tasks /\ state[t] \in {"OPENING", "OPENED"}

Cleared ==
  /\ txPending' = [i \in Index |-> 0]
  /\ cpMsg' = {} /\ cpMsgRecv' = FALSE

Boot ==
  /\ cp = "boot"
  /\ Cleared /\ txCount' = 0
  /\ inited' = TRUE
  /\ cp' = "loop"
  /\ sendq' = <<>>
  /\ torn' = FALSE
  /\ UNCHANGED <<state, lock, cell, chan, msg, pc, owed>>

Place(rest) == IF rest = {} THEN "loop" ELSE "scan"

\* With nothing new the CP sleeps until its next interrupt.
CpTake ==
  /\ cp = "loop"
  /\ cpMsgRecv
  /\ msg' = cpMsg
  /\ cpMsg' = {}
  /\ cpMsgRecv' = FALSE
  /\ cp' = Place(cpMsg)
  /\ UNCHANGED <<inited, state, lock, txCount, txPending, cell, chan, pc, history>>

CpLook ==
  /\ cp = "scan"
  /\ lock = None
  /\ LET e == Min(msg)
     IN  IF HandlersSet(Task(e))
         THEN /\ lock' = "cp" /\ cp' = "work"
              /\ owed' = owed \ {e}
              /\ UNCHANGED msg
         ELSE /\ msg' = msg \ {e} /\ cp' = Place(msg')
              /\ UNCHANGED <<lock, owed>>
  /\ UNCHANGED <<inited, state, envVars, cell, chan, pc, sendq, torn>>

\* A slip: what has arrived meanwhile is taken for seen.
CpWorkDoneWiping ==
  /\ cp = "work"
  /\ lock' = None
  /\ msg' = msg \ {Min(msg)} /\ cp' = Place(msg')
  /\ cpMsgRecv' = (cpMsgRecv /\ cp' = "scan")
  /\ UNCHANGED <<inited, state, txCount, txPending, cpMsg, cell, chan, pc, history>>

CpWorkDone ==
  /\ cp = "work"
  /\ lock' = None
  /\ msg' = msg \ {Min(msg)} /\ cp' = Place(msg')
  /\ UNCHANGED <<inited, state, envVars, cell, chan, pc, history>>

-----------------------------------------------------------------------------
(***************************************************************************)
(* cp_accel_open, and the loop of its callers that waits for the CP        *)
(* (cp_accel_init_done), e.g. a2dp_decoder_cp.c:187.                       *)
(***************************************************************************)
OpenBegin(o, t) ==
  /\ At(o, "idle")
  /\ state[t] = "CLOSED"
  /\ state' = [state EXCEPT ![t] = "OPENING"]
  /\ Go(o, [at |-> "open", task |-> t])
  /\ UNCHANGED <<inited, lock, envVars, cell, chan, cpVars, history>>

OpenStart(o) ==
  /\ At(o, "open")
  /\ IF inited THEN UNCHANGED <<cp, chan>>
     ELSE cp' = "boot" /\ chan' = Opened(chan)
  /\ state' = [state EXCEPT ![pc[o].task] = "OPENED"]
  /\ Go(o, [at |-> "wait"])
  /\ UNCHANGED <<inited, lock, envVars, cell, msg, history>>

OpenDone(o) ==
  /\ At(o, "wait")
  /\ inited
  /\ Go(o, Idle)
  /\ UNCHANGED <<inited, state, lock, envVars, cell, chan, cpVars, history>>

-----------------------------------------------------------------------------
(***************************************************************************)
(* cp_accel_close.  The CP is stopped wherever it is, which the lock keeps *)
(* outside the work of a task.                                             *)
(***************************************************************************)
\* A slip: the lock is not taken.
CloseLockless(o, t) ==
  /\ At(o, "idle")
  /\ state[t] # "CLOSED"
  /\ state' = [state EXCEPT ![t] = "CLOSING"]
  /\ owed' = {e \in owed : Task(e) # t}
  /\ Go(o, [at |-> "scan", task |-> t])
  /\ UNCHANGED <<inited, lock, envVars, cell, chan, cpVars, sendq, torn>>

CloseLock(o, t) ==
  /\ At(o, "idle")
  /\ state[t] # "CLOSED"
  /\ lock = None
  /\ lock' = "mcu"
  /\ state' = [state EXCEPT ![t] = "CLOSING"]
  /\ owed' = {e \in owed : Task(e) # t}
  /\ Go(o, [at |-> "scan", task |-> t])
  /\ UNCHANGED <<inited, envVars, cell, chan, cpVars, sendq, torn>>

\* accel_close_end
CloseEnd(o) ==
  /\ state' = [state EXCEPT ![pc[o].task] = "CLOSED"]
  /\ lock' = None
  /\ Go(o, Idle)

CloseScan(o) ==
  /\ At(o, "scan")
  /\ IF \E t \in Tasks : HandlersSet(t) THEN CloseEnd(o)
     ELSE Go(o, [at |-> "stop", task |-> pc[o].task]) /\ UNCHANGED <<state, lock>>
  /\ UNCHANGED <<inited, envVars, cell, chan, cpVars, history>>

\* The last client has stopped its streams before (app_bt_stream.cpp:3231),
\* and with them its sends.
SendersQuiet == ~MidSend

CloseStop(o) ==
  /\ At(o, "stop")
  /\ SendersQuiet
  /\ IF inited
     THEN /\ inited' = FALSE
          /\ chan' = Closed
          /\ cell' = Live(cell, chan')
          /\ cp' = "off" /\ msg' = {}
          /\ Cleared   \* by Boot, before anyone reads them
          /\ sendq' = <<>>
     ELSE UNCHANGED <<inited, txPending, cpMsg, cpMsgRecv, cell, chan, cp, msg, sendq>>
  /\ CloseEnd(o)
  /\ UNCHANGED <<txCount, owed, torn>>

-----------------------------------------------------------------------------
SendStep(s) == SendFirst(s) \/ SendStore(s) \/ SendLoad(s) \/ SendInc(s)

OpenStep(o) == OpenStart(o) \/ OpenDone(o) \/ CloseScan(o) \/ CloseStop(o)

CpStep == Boot \/ CpTake \/ CpWorkDone

Next ==
  \/ \E s \in Sender : SendStep(s) \/ \E e \in Event : SendCheck(s, e)
  \/ \E o \in Opener : OpenStep(o) \/ \E t \in Tasks : OpenBegin(o, t) \/ CloseLock(o, t)
  \/ TxIrq \/ RxIrq
  \/ CpStep \/ CpLook

Spec == Init /\ [][Next]_vars

(***************************************************************************)
(* Threads run, interrupts are taken and the work of a task ends.  The     *)
(* lock is a spin lock, which a core that keeps asking for it gets in the  *)
(* end: the other core holds it now and then, never for ever.  Nobody has  *)
(* to send, open or close.                                                 *)
(***************************************************************************)
FairSpec ==
  /\ Spec
  /\ \A s \in Sender : WF_vars(SendStep(s))
  /\ \A o \in Opener : WF_vars(OpenStep(o))
  /\ WF_vars(TxIrq \/ RxIrq)
  /\ WF_vars(CpStep) /\ SF_vars(CpLook)

-----------------------------------------------------------------------------
(***************************************************************************)
(* Every variable has its type; the list of messages in flight never holds *)
(* two: the second core works on one byte of data at a time.               *)
(***************************************************************************)
PcType ==
  \A t \in Sender \cup Opener :
    /\ pc[t].at \in IF t \in Sender THEN {"idle", "first", "store", "load", "inc"}
                    ELSE {"idle", "open", "wait", "scan", "stop"}
    /\ t \in Sender /\ pc[t].at # "idle" => pc[t].event \in Event

CpTypeOK ==
  /\ inited \in BOOLEAN
  /\ state \in [Tasks -> {"OPENING", "OPENED", "CLOSING", "CLOSED"}]
  /\ lock \in {None, "mcu", "cp"}
  /\ txCount \in 0..255
  /\ txPending \in [Index -> Event \cup {0}]
  /\ cell \in [Cells -> Event \cup {0}]
  /\ chan \in [open : BOOLEAN, free : 0..MAX_SEND_RECORD_COUNT, sending : Seq(Cells),
               pending : Seq(Cells), ind : BOOLEAN, done : BOOLEAN]
  /\ Len(chan.sending) \leq 1
  /\ cpMsg \subseteq Event \cup {0} /\ cpMsgRecv \in BOOLEAN
  /\ cp \in {"off", "boot", "loop", "scan", "work"}
  /\ msg \subseteq Event \cup {0}
  /\ PcType
  /\ sendq \in Seq(Event) /\ owed \subseteq Event /\ torn \in BOOLEAN

(***************************************************************************)
(* Events reach the CP in the order they were accepted, none lost and none *)
(* twice: while no send is under way, the ones accepted that have not      *)
(* arrived are the one in flight and those in mcu2cp_tx_pending, and the   *)
(* count says how many are still to be acknowledged.  (cp_accel.c:186 and  *)
(* :376, unless an acknowledgement cut a send.)                            *)
(***************************************************************************)
InFlight == IF chan.sending # <<>> /\ ~chan.done THEN <<cell[chan.sending[1]]>> ELSE <<>>

Waiting == [i \in 1..(IF txCount > 1 THEN txCount - 1 ELSE 0) |-> txPending[i - 1]]

FifoKept ==
  /\ CpTypeOK
  /\ inited /\ ~torn /\ ~MidSend =>
       /\ sendq = InFlight \o Waiting
       /\ (txCount > 0) = (chan.sending # <<>>)

(***************************************************************************)
(* No task's work runs on the CP once cp_accel_close has taken its         *)
(* handlers away, and the CP is never stopped inside one                   *)
(* (LOCK_CP_PROCESS, "avoid hangup", cp_accel.c:316).                      *)
(***************************************************************************)
NoWorkAfterClose ==
  cp = "work" => inited /\ lock = "cp" /\ HandlersSet(Task(Min(msg)))

(***************************************************************************)
(* An event accepted for an open task is worked on, or the task is closed, *)
(* as long as no send was cut: an event that arrives while the CP scans    *)
(* its copy is there for the next turn.                                    *)
(***************************************************************************)
EventsWorked == \A e \in Event : e \in owed ~> e \notin owed \/ torn

=============================================================================
