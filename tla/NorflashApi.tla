----------------------------- MODULE NorflashApi -----------------------------
(***************************************************************************)
(* services/norflash_api: the buffered access to the NOR flash.            *)
(*                                                                         *)
(* Every module (a user of the flash: user data, factory data, log dump,   *)
(* OTA, ...) owns some sectors and a list of pending erases and writes.    *)
(* The asynchronous calls add to the list; norflash_api_flush, run by the  *)
(* idle hook and by callers that wait, carries out the oldest operation of *)
(* one module at a time and may be suspended by an interrupt in the middle *)
(* of it; the synchronous calls first drain the list of their module.      *)
(* A client over the CP core may forbid flushing for a while.              *)
(*                                                                         *)
(* Every action but the steps of a synchronous call runs with interrupts   *)
(* locked, hence is atomic.  A synchronous call keeps them locked from     *)
(* SyncBegin to SyncOp: only the CP core and a power loss come between.    *)
(*                                                                         *)
(* A list is written here with the oldest operation first: its head is the *)
(* node _get_tail returns, and Append is the code's "add to header".  The  *)
(* pointers, and the node pool behind them, are modelled in NorflashChain. *)
(***************************************************************************)
EXTENDS PendingList

CONSTANTS ModuleCount,    \* NORFLASH_API_MODULE_ID_COUNT
          Sector,         \* the sectors the modules own
          Owner,          \* the module of each sector
          PageCount,      \* program pages per sector
          Data,           \* what clients write to a page
          Erased,         \* an erased page
          Garbled,        \* a page whose contents nobody can tell
          OpraListLen,    \* NORFLASH_API_OPRA_LIST_LEN
          WriteBuffLen,   \* NORFLASH_API_WRITE_BUFF_LEN
          SyncSector,     \* the sectors that clients also access synchronously
          CpUsed,         \* whether some client runs code on the CP core
          SyncWhileClosed \* whether clients call synchronously while they forbid flushing

Module == 0..(ModuleCount - 1)
NoModule == ModuleCount
Page == 0..(PageCount - 1)
Value == Data \cup {Erased, Garbled}
Contents == [Page -> Value]
Uniform(d) == [p \in Page |-> d]
Blank == Uniform(Erased)

ASSUME CountsAssumption ==
  /\ ModuleCount \in Nat \ {0}
  /\ PageCount \in Nat \ {0}
  /\ OpraListLen \in Nat \ {0}
  /\ WriteBuffLen \in Nat
ASSUME OwnerAssumption == Owner \in [Sector -> Module]
ASSUME SyncAssumption == SyncSector \subseteq Sector
ASSUME CpAssumption == {CpUsed, SyncWhileClosed} \subseteq BOOLEAN
ASSUME ValueAssumption == Erased \notin Data /\ Garbled \notin Data /\ Erased # Garbled

(***************************************************************************)
(* OPRA_INFO.  An erase has no range and no buffer: its lo, hi and buff    *)
(* are fillers.                                                            *)
(***************************************************************************)
Opera == [type: {"E", "W"}, sector: Sector, lo: Page, hi: Page,
          buff: Contents, lock: BOOLEAN]

(***************************************************************************)
(* A synchronous erase or write in progress.                               *)
(***************************************************************************)
Call == [type: {"E", "W"}, sector: SyncSector, lo: Page, hi: Page, data: Data]
NoCall == [type |-> "none"]

VARIABLES
  flash,          \* the contents of the chip, without the operation in progress
  queue,          \* mod_info[m].opera_info, oldest first
  state,          \* mod_info[m].state
  suspendState,   \* suspend_state of hal_norflash
  opPage,         \* the page a suspended write stopped in (op_next_addr)
  curMod,         \* norflash_api_info.cur_mod, NoModule for NULL
  curModId,       \* norflash_api_info.cur_mod_id
  gate,           \* allowed_cb: open = NULL, wait = it says no, ready = it says yes
  call,           \* the synchronous call that holds the interrupt lock
  broken          \* a freed node is still linked into a list

vars == <<flash, queue, state, suspendState, opPage, curMod, curModId,
          gate, call, broken>>

-----------------------------------------------------------------------------
(***************************************************************************)
(* The chip.  Programming a page clears bits: an erased page takes the new *)
(* value, any other page keeps its value only if the two agree.            *)
(***************************************************************************)
Programmed(old, new) ==
  IF new = Erased \/ new = old THEN old
  ELSE IF old = Erased THEN new ELSE Garbled

(***************************************************************************)
(* A sector after its pages lo..hi were programmed from the buffer b.      *)
(***************************************************************************)
ProgramPages(c, lo, hi, b) ==
  [p \in Page |-> IF p \in lo..hi THEN Programmed(c[p], b[p]) ELSE c[p]]

Overlay(c, lo, hi, b) == [p \in Page |-> IF p \in lo..hi THEN b[p] ELSE c[p]]

(***************************************************************************)
(* A sector after the chip carried out the operation o on it.              *)
(***************************************************************************)
Effect(c, o) == IF o.type = "E" THEN Blank ELSE ProgramPages(c, o.lo, o.hi, o.buff)

SuspendedAs(type) == IF type = "E" THEN "ERASE_SUSPEND" ELSE "WRITTING_SUSPEND"

(***************************************************************************)
(* What a plain memory read of sector s returns: nothing can be told of    *)
(* the cells the suspended operation was working on.                       *)
(***************************************************************************)
Raw(s) ==
  LET m == Owner[s]
      unstable == IF state[m] = "IDLE" \/ queue[m][1].sector # s THEN {}
                  ELSE IF queue[m][1].type = "E" THEN Page ELSE {opPage}
  IN  [p \in Page |-> IF p \in unstable THEN Garbled ELSE flash[s][p]]

-----------------------------------------------------------------------------
\* A slip: the oldest operation decides.
ViewOldest(s) ==
  LET q == queue[Owner[s]]
      on == OnSector(q, s)
  IN  IF on = {} THEN Raw(s)
      ELSE LET o == q[Min(on)] IN IF o.type = "W" THEN o.buff ELSE Blank

(***************************************************************************)
(* _opera_read: the newest operation on the sector decides, and the chip   *)
(* only when there is none.                                                *)
(***************************************************************************)
View(s) ==
  LET q == queue[Owner[s]]
      on == OnSector(q, s)
  IN  IF on = {} THEN Raw(s)
      ELSE LET o == q[Max(on)] IN IF o.type = "W" THEN o.buff ELSE Blank

(***************************************************************************)
(* The node and buffer pools are shared by all modules.                    *)
(***************************************************************************)
Nodes(Q) == UNION {{m} \X DOMAIN Q[m] : m \in Module}
Writes(Q) == {n \in Nodes(Q) : Q[n[1]][n[2]].type = "W"}

\* A slip: one entry too many.
NodeFreeTooLong(Q) == Cardinality(Nodes(Q)) <= OpraListLen

NodeFree(Q) == Cardinality(Nodes(Q)) < OpraListLen
BuffFree(Q) == Cardinality(Writes(Q)) < WriteBuffLen

EraseOpera(s) == [type |-> "E", sector |-> s, lo |-> 0, hi |-> 0,
                  buff |-> Blank, lock |-> FALSE]

Smaller(a, b) == IF a <= b THEN a ELSE b
Larger(a, b) == IF a >= b THEN a ELSE b

Merged(o, lo, hi, b) ==
  [o EXCEPT !.buff = Overlay(@, lo, hi, b),
            !.lo = Smaller(@, lo), !.hi = Larger(@, hi)]

WriteOpera(s, base, lo, hi, b) ==
  [type |-> "W", sector |-> s, lo |-> lo, hi |-> hi,
   buff |-> Overlay(base, lo, hi, b), lock |-> FALSE]

(***************************************************************************)
(* The flash rule clients follow: a page is written once after its erase,  *)
(* or again with the same value.                                           *)
(***************************************************************************)
Writable(s, lo, hi, d) ==
  lo <= hi /\ \A p \in lo..hi : View(s)[p] \in {Erased, d}

-----------------------------------------------------------------------------
Ready == call = NoCall /\ ~broken

UnchangedFlush == UNCHANGED <<flash, state, suspendState, opPage, curMod, curModId, gate>>

(***************************************************************************)
(* norflash_api_erase, async.  A call refused with BUFFER_FULL changes     *)
(* nothing.                                                                *)
(***************************************************************************)
EraseAsync(s) ==
  LET m == Owner[s]
      q == queue[m]
  IN  /\ Ready
      /\ ~LeavesFreedNode(q, s)
      /\ \E r \in Without(q, Stale(q, s)) :
           LET Q == [queue EXCEPT ![m] = r]
           IN  \/ /\ ErasingNow(q, s)
                  /\ queue' = Q
               \/ /\ ~ErasingNow(q, s)
                  /\ NodeFree(Q)
                  /\ queue' = [queue EXCEPT ![m] = Append(r, EraseOpera(s))]
      /\ UNCHANGED <<call, broken>>
      /\ UnchangedFlush

(***************************************************************************)
(* The same call when it leaves a freed node in the list.  What the list   *)
(* is from then on is modelled in NorflashChain; here the module stops     *)
(* until the next reset.                                                   *)
(***************************************************************************)
EraseAsyncBreaks(s) ==
  /\ Ready
  /\ LeavesFreedNode(queue[Owner[s]], s)
  /\ broken' = TRUE
  /\ UNCHANGED <<queue, call>>
  /\ UnchangedFlush

(***************************************************************************)
(* norflash_api_write, async: merge into the pending write of the sector,  *)
(* or add one with a copy of the sector as its buffer.                     *)
(***************************************************************************)
WriteMerge(s, lo, hi, b) ==
  LET m == Owner[s]
  IN  /\ Ready
      /\ \E i \in DOMAIN queue[m] :
           /\ MergesInto(queue[m], s, i)
           /\ queue' = [queue EXCEPT ![m][i] = Merged(@, lo, hi, b)]
      /\ UNCHANGED <<call, broken>>
      /\ UnchangedFlush

WriteAdd(s, lo, hi, b) ==
  LET m == Owner[s]
      base == IF BehindErase(queue[m], s) THEN Blank ELSE Raw(s)
  IN  /\ Ready
      /\ \A i \in DOMAIN queue[m] : ~MergesInto(queue[m], s, i)
      /\ NodeFree(queue)
      /\ BuffFree(queue)
      /\ queue' = [queue EXCEPT ![m] = Append(@, WriteOpera(s, base, lo, hi, b))]
      /\ UNCHANGED <<call, broken>>
      /\ UnchangedFlush

WriteAsync(s, lo, hi, b) == WriteMerge(s, lo, hi, b) \/ WriteAdd(s, lo, hi, b)

(***************************************************************************)
(* BUFFER_FULL: the pools have nothing left for the call.                  *)
(***************************************************************************)
EraseRefused(s) ==
  LET q == queue[Owner[s]]
  IN  Ready /\ Stale(q, s) = {} /\ ~ErasingNow(q, s) /\ ~NodeFree(queue)

WriteRefused(s) ==
  LET q == queue[Owner[s]]
  IN  /\ Ready
      /\ \A i \in DOMAIN q : ~MergesInto(q, s, i)
      /\ ~(NodeFree(queue) /\ BuffFree(queue))

-----------------------------------------------------------------------------
(***************************************************************************)
(* _get_cur_mod: the module being served, as long as there is one, else    *)
(* the next one with work after the last served, in a circle.              *)
(***************************************************************************)
Distance(m) == IF m > curModId THEN m - curModId ELSE m + ModuleCount - curModId

HasWork(m) == queue[m] # <<>>

\* A slip: the module being served is not stayed with.
IsNextMod(m) == HasWork(m) /\ \A n \in Module : HasWork(n) => Distance(m) <= Distance(n)

IsCurMod(m) ==
  IF curMod # NoModule THEN m = curMod
  ELSE HasWork(m) /\ \A n \in Module : HasWork(n) => Distance(m) <= Distance(n)

NothingToFlush == curMod = NoModule /\ \A m \in Module : ~HasWork(m)

(***************************************************************************)
(* The chip finishes the oldest operation of m, and _opera_del drops it.   *)
(***************************************************************************)
Complete(m) ==
  LET o == Head(queue[m])
  IN  /\ flash' = [flash EXCEPT ![o.sector] = Effect(@, o)]
      /\ queue' = [queue EXCEPT ![m] = Tail(@)]
      /\ state' = [state EXCEPT ![m] = "IDLE"]
      /\ suspendState' = "NONE"
      /\ opPage' = 0

\* Slips: the node is not locked; a write is resumed a page too far.
SuspendUnlocked(m) ==
  LET o == Head(queue[m])
      first == IF state[m] = "IDLE" THEN o.lo ELSE opPage
  IN  /\ state' = [state EXCEPT ![m] = SuspendedAs(o.type)]
      /\ suspendState' = IF o.type = "E" THEN "ERASE" ELSE "PROGRAM"
      /\ opPage' = IF o.type = "E" THEN 0 ELSE first
      /\ UNCHANGED <<queue, flash>>

SuspendTooFar(m) ==
  LET o == Head(queue[m])
  IN  /\ queue' = [queue EXCEPT ![m] = [@ EXCEPT ![1] = [o EXCEPT !.lock = TRUE]]]
      /\ state' = [state EXCEPT ![m] = SuspendedAs(o.type)]
      /\ suspendState' = IF o.type = "E" THEN "ERASE" ELSE "PROGRAM"
      /\ opPage' = IF o.type = "E" THEN 0 ELSE opPage + 1
      /\ UNCHANGED flash

(***************************************************************************)
(* An interrupt suspends the oldest operation of m.  A write has then done *)
(* some of its pages and stopped in the next one; each resume lets the     *)
(* chip work on, if only within the page.                                  *)
(***************************************************************************)
Suspend(m) ==
  LET o == Head(queue[m])
      first == IF state[m] = "IDLE" THEN o.lo ELSE opPage
  IN  /\ queue' = [queue EXCEPT ![m] = [@ EXCEPT ![1] = [o EXCEPT !.lock = TRUE]]]
      /\ state' = [state EXCEPT ![m] = SuspendedAs(o.type)]
      /\ suspendState' = IF o.type = "E" THEN "ERASE" ELSE "PROGRAM"
      /\ IF o.type = "E"
         THEN opPage' = 0 /\ UNCHANGED flash
         ELSE \E p \in first..o.hi :
                /\ opPage' = p
                /\ flash' = [flash EXCEPT ![o.sector] =
                               ProgramPages(@, first, p - 1, o.buff)]

\* A slip: a callback is never asked.
ServeUnasked(m) ==
  /\ Ready
  /\ gate = "open"
  /\ IsCurMod(m)
  /\ curModId' = m
  /\ UNCHANGED <<gate, call, broken>>

(***************************************************************************)
(* norflash_api_flush when flushing is allowed; asking the callback drops  *)
(* it once it says yes.                                                    *)
(***************************************************************************)
Serve(m) ==
  /\ Ready
  /\ gate # "wait"
  /\ IsCurMod(m)
  /\ curModId' = m
  /\ gate' = "open"
  /\ UNCHANGED <<call, broken>>

\* A slip: cur_mod is cleared although its operation is only suspended.
FlushSuspendedLeft(m) == Serve(m) /\ HasWork(m) /\ curMod' = NoModule /\ Suspend(m)

FlushSuspended(m) == Serve(m) /\ HasWork(m) /\ curMod' = m /\ Suspend(m)

FlushCompleted(m) == Serve(m) /\ HasWork(m) /\ curMod' = m /\ Complete(m)

\* A slip: cur_mod is not cleared when its list is empty.
FlushModuleKept(m) ==
  /\ Serve(m)
  /\ ~HasWork(m)
  /\ UNCHANGED <<flash, queue, state, suspendState, opPage, curMod>>

FlushModuleDone(m) ==
  /\ Serve(m)
  /\ ~HasWork(m)
  /\ curMod' = NoModule
  /\ UNCHANGED <<flash, queue, state, suspendState, opPage>>

FlushNothing ==
  /\ Ready
  /\ gate = "ready"
  /\ NothingToFlush
  /\ gate' = "open"
  /\ UNCHANGED <<flash, queue, state, suspendState, opPage, curMod, curModId, call, broken>>

Flush == (\E m \in Module : FlushSuspended(m) \/ FlushCompleted(m) \/ FlushModuleDone(m))
           \/ FlushNothing

(***************************************************************************)
(* One call of norflash_api_flush, which may find nothing to do.           *)
(***************************************************************************)
FlushOnce == Flush \/ ((gate = "wait" \/ NothingToFlush) /\ Ready /\ UNCHANGED vars)

-----------------------------------------------------------------------------
(***************************************************************************)
(* norflash_api_flush_disable and norflash_api_flush_enable(_all), and the *)
(* CP core getting ready (cp_accel_init_done, the only callback passed).   *)
(***************************************************************************)
UnchangedButGate == UNCHANGED <<flash, queue, state, suspendState, opPage, curMod,
                                curModId, call, broken>>

FlushDisable ==
  /\ CpUsed
  /\ Ready
  /\ gate' \in {"wait", "ready"}
  /\ UnchangedButGate

FlushEnable == Ready /\ gate' = "open" /\ UnchangedButGate

CpReady == gate = "wait" /\ gate' = "ready" /\ UnchangedButGate

-----------------------------------------------------------------------------
(***************************************************************************)
(* norflash_api_erase and norflash_api_write, sync.                        *)
(***************************************************************************)
UnchangedCur == UNCHANGED <<curMod, curModId, broken>>

SyncBegin(c) ==
  /\ Ready
  /\ SyncWhileClosed \/ gate # "wait"
  /\ c.type = "W" => Writable(c.sector, c.lo, c.hi, c.data)
  /\ c.type = "E" => c.lo = 0 /\ c.hi = 0
  /\ call' = c
  /\ UNCHANGED <<flash, queue, state, suspendState, opPage, gate>>
  /\ UnchangedCur

\* A slip: nobody looks for another module's operation.
OtherIgnored == FALSE

OtherSuspended == curMod \notin {NoModule, Owner[call.sector]} /\ state[curMod] # "IDLE"

(***************************************************************************)
(* First the operation another module has on the chip is finished, waiting *)
(* for the permission to flush.                                            *)
(***************************************************************************)
SyncFinishOther ==
  /\ call # NoCall
  /\ OtherSuspended
  /\ gate # "wait"
  /\ gate' = "open"
  /\ Complete(curMod)
  /\ UNCHANGED call
  /\ UnchangedCur

(***************************************************************************)
(* Then the list of the module is drained.                                 *)
(***************************************************************************)
SyncDrain ==
  LET m == Owner[call.sector]
  IN  /\ call # NoCall
      /\ ~OtherSuspended
      /\ gate # "wait"
      /\ HasWork(m)
      /\ gate' = "open"
      /\ Complete(m)
      /\ UNCHANGED call
      /\ UnchangedCur

(***************************************************************************)
(* Then the call itself: the chip refuses it while an operation is         *)
(* suspended.  The drain loop ends when the list is empty, and also when   *)
(* flushing is not allowed: its "continue" jumps to a false condition.     *)
(***************************************************************************)
SyncOp ==
  LET s == call.sector
      done == IF call.type = "E" THEN Blank
              ELSE ProgramPages(flash[s], call.lo, call.hi, Uniform(call.data))
  IN  /\ call # NoCall
      /\ ~OtherSuspended
      /\ gate = "wait" \/ ~HasWork(Owner[s])
      /\ gate' = IF gate = "ready" THEN "open" ELSE gate
      /\ flash' = IF suspendState = "NONE" THEN [flash EXCEPT ![s] = done] ELSE flash
      /\ call' = NoCall
      /\ UNCHANGED <<queue, state, suspendState, opPage>>
      /\ UnchangedCur

-----------------------------------------------------------------------------
(***************************************************************************)
(* A power loss.  An operation the chip was working on is torn: an erased  *)
(* sector is unreadable, a write has done its first pages and spoiled one. *)
(* norflash_api_init and norflash_api_register then start from nothing.    *)
(***************************************************************************)
Torn(type, s, first, hi, b) ==
  IF type = "E" THEN {[flash EXCEPT ![s] = Uniform(Garbled)]}
  ELSE {[flash EXCEPT ![s] = [ProgramPages(@, first, p - 1, b) EXCEPT ![p] = Garbled]] :
          p \in first..hi}

TornHead(m) ==
  LET o == Head(queue[m])
  IN  Torn(o.type, o.sector, IF state[m] = "IDLE" THEN o.lo ELSE opPage, o.hi, o.buff)

TornCall == Torn(call.type, call.sector, call.lo, call.hi, Uniform(call.data))

\* The chip may just be working on the oldest operation of m.
OnChip(m) ==
  /\ HasWork(m)
  /\ IF suspendState # "NONE" THEN m = curMod
     ELSE /\ gate # "wait"
          /\ IF call = NoCall THEN IsCurMod(m) ELSE m = Owner[call.sector]

CallOnChip ==
  /\ call # NoCall
  /\ suspendState = "NONE"
  /\ gate = "wait" \/ ~HasWork(Owner[call.sector])

PowerLoss ==
  /\ \/ suspendState = "NONE" /\ UNCHANGED flash
     \/ \E m \in Module : OnChip(m) /\ flash' \in TornHead(m)
     \/ CallOnChip /\ flash' \in TornCall
  /\ queue' = [m \in Module |-> <<>>]
  /\ state' = [m \in Module |-> "IDLE"]
  /\ suspendState' = "NONE"
  /\ opPage' = 0
  /\ curMod' = NoModule
  /\ curModId' = ModuleCount
  /\ gate' = "open"
  /\ call' = NoCall
  /\ broken' = FALSE

-----------------------------------------------------------------------------
Init ==
  /\ flash = [s \in Sector |-> Blank]
  /\ queue = [m \in Module |-> <<>>]
  /\ state = [m \in Module |-> "IDLE"]
  /\ suspendState = "NONE"
  /\ opPage = 0
  /\ curMod = NoModule
  /\ curModId = ModuleCount
  /\ gate = "open"
  /\ call = NoCall
  /\ broken = FALSE

ClientCall ==
  \/ \E s \in Sector : EraseAsync(s) \/ EraseAsyncBreaks(s)
  \/ \E s \in Sector, lo, hi \in Page, d \in Data :
       Writable(s, lo, hi, d) /\ WriteAsync(s, lo, hi, Uniform(d))
  \/ \E c \in Call : SyncBegin(c)

SyncStep == SyncFinishOther \/ SyncDrain \/ SyncOp

Next ==
  \/ ClientCall
  \/ SyncStep
  \/ Flush
  \/ FlushDisable
  \/ FlushEnable
  \/ CpReady
  \/ PowerLoss

Spec == Init /\ [][Next]_vars

-----------------------------------------------------------------------------
(***************************************************************************)
(* The pending lists, the pools and the bookkeeping of the chip have the   *)
(* shape the code of norflash_api.cpp expects of them.                     *)
(***************************************************************************)
TypeOK ==
  /\ flash \in [Sector -> Contents]
  /\ queue \in [Module -> Seq(Opera)]
  /\ state \in [Module -> {"IDLE", "WRITTING_SUSPEND", "ERASE_SUSPEND"}]
  /\ suspendState \in {"NONE", "ERASE", "PROGRAM"}
  /\ opPage \in Page
  /\ curMod \in Module \cup {NoModule}
  /\ curModId \in Module \cup {NoModule}
  /\ gate \in {"open", "wait", "ready"}
  /\ call \in Call \cup {NoCall}
  /\ broken \in BOOLEAN

(***************************************************************************)
(* Only the oldest node of a list can be locked, and it is locked exactly  *)
(* while its operation is suspended (lock, cur_opera_info and state of     *)
(* MODULE_INFO agree).  Otherwise an erase could free the node the chip is *)
(* still reading its buffer from, or _opera_del cut a list in the middle.  *)
(***************************************************************************)
LockIsInFlight ==
  \A m \in Module :
    /\ state[m] # "IDLE" => HasWork(m) /\ state[m] = SuspendedAs(queue[m][1].type)
    /\ \A i \in DOMAIN queue[m] :
         queue[m][i].lock <=> (i = 1 /\ state[m] # "IDLE")

(***************************************************************************)
(* At most one module has an operation suspended, it is the one that will  *)
(* be served next, and hal_norflash is suspended in the same kind of       *)
(* operation: so the hal never answers BAD_OP to _opera_flush, whose       *)
(* ASSERTs would stop the device.                                          *)
(***************************************************************************)
SuspendedIn(ss) ==
  IF ss = "NONE" THEN "IDLE" ELSE SuspendedAs(IF ss = "ERASE" THEN "E" ELSE "W")

ChipAgrees ==
  /\ suspendState # "NONE" => curMod # NoModule
  /\ \A m \in Module :
       state[m] = IF m = curMod THEN SuspendedIn(suspendState) ELSE "IDLE"

(***************************************************************************)
(* The three together are inductive (NorflashApiProofs).                   *)
(***************************************************************************)
InFlightInv == TypeOK /\ LockIsInFlight /\ ChipAgrees

(***************************************************************************)
(* A list never holds two unlocked erases or two unlocked writes of one    *)
(* sector, and the write is the newer: what _e_opera_add removes is a pair *)
(* at most, and what _w_opera_add merges into is the newest version.       *)
(***************************************************************************)
OnePendingPerKind ==
  \A m \in Module : \A i, j \in DOMAIN queue[m] :
    /\ i < j
    /\ queue[m][i].sector = queue[m][j].sector
    /\ ~queue[m][i].lock
    => queue[m][i].type = "E" /\ queue[m][j].type = "W"

(***************************************************************************)
(* "priority read flash buffer" (norflash_api.h): a page that a pending    *)
(* operation will change already reads as the newest of them leaves it.    *)
(***************************************************************************)
Changes(o, p) == o.type = "E" \/ p \in o.lo..o.hi

BufferFirst ==
  \A s \in Sector, p \in Page :
    LET q == queue[Owner[s]]
        on == {i \in OnSector(q, s) : Changes(q[i], p)}
    IN  on # {} => View(s)[p] = Effect(Blank, q[Max(on)])[p]

(***************************************************************************)
(* The shared pools are never overdrawn, whoever adds.                     *)
(***************************************************************************)
PoolsBounded ==
  Cardinality(Nodes(queue)) <= OpraListLen /\ Cardinality(Writes(queue)) <= WriteBuffLen

(***************************************************************************)
(* What the chip is in the middle of stays put: while an operation is      *)
(* suspended its node, with the buffer op_next_buf points into, is neither *)
(* changed nor freed; only its completion or a power loss ends it.         *)
(***************************************************************************)
EndsOrStays(m) ==
  \/ HasWork(m)' /\ queue'[m][1] = queue[m][1] /\ state'[m] = state[m]
  \/ state'[m] = "IDLE" /\ queue'[m] = Tail(queue[m])
  \/ \A n \in Module : ~HasWork(n)'

InFlightStable == [][\A m \in Module : state[m] # "IDLE" => EndsOrStays(m)]_vars

(***************************************************************************)
(* The service keeps the contract of FlashStore: every accepted operation  *)
(* is visible to _opera_read at once and stays so while it is buffered,    *)
(* suspended and carried out; a synchronous call is on the chip when it    *)
(* returns; a power loss spares the sectors without pending work.          *)
(***************************************************************************)
Dirty == {s \in Sector : OnSector(queue[Owner[s]], s) # {}}
           \cup IF call = NoCall THEN {} ELSE {call.sector}

Store == INSTANCE FlashStore
  WITH image <- [s \in Sector |-> View(s)], dirty <- Dirty

StoreSpec == Store!Spec

=============================================================================
