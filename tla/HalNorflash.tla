----------------------------- MODULE HalNorflash -----------------------------
(***************************************************************************)
(* platform/hal/hal_norflash.c over platform/drivers/norflash: how one     *)
(* erase or write is cut into commands of the NOR flash chip, suspended by *)
(* an interrupt in the middle of a command, and resumed.                   *)
(*                                                                         *)
(* A call runs with interrupts locked, one step of the model per command   *)
(* it sends: norflash_erase or norflash_write sends the command and polls  *)
(* the chip until it is ready, or until an interrupt is pending and the    *)
(* caller allowed a suspension.  Between two calls an operation may stay   *)
(* suspended: its last command in the chip, the rest in op_next_addr,      *)
(* op_next_buf and op_remain_len.                                          *)
(*                                                                         *)
(* Addresses count cells (bytes), from the base of the flash.              *)
(***************************************************************************)
EXTENDS Integers

CONSTANTS TotalSize, BlockSize, SectorSize, PageSize,  \* norflash_ctx
          SuspendMode,   \* whether the chip supports HAL_NORFLASH_OP_MODE_SUSPEND
          MaxLen,        \* the longest write
          WorkUnits,     \* how long a command may still take when suspended
          EraseRange,    \* the <<address, length>> clients erase
          WriteRange,    \* and write,
          SuspendRange,  \* and those they allow to be suspended
          CallLimit,     \* bound on the calls that start an operation
          Erased,        \* an erased cell
          Old,           \* what was there before the first operation
          Garbled        \* a cell programmed over another value

Cell == 0..(TotalSize - 1)
Length == 0..TotalSize

ASSUME SizeAssumption ==
  /\ TotalSize \in Nat \ {0} /\ BlockSize \in Nat \ {0}
  /\ SectorSize \in Nat \ {0} /\ PageSize \in Nat \ {0}
  /\ TotalSize % BlockSize = 0 /\ BlockSize % SectorSize = 0 /\ SectorSize % PageSize = 0
ASSUME BoundAssumption ==
  /\ MaxLen \in 1..TotalSize /\ WorkUnits \in Nat \ {0} /\ CallLimit \in Nat
  /\ SuspendMode \in BOOLEAN
ASSUME RangeAssumption ==
  /\ EraseRange \subseteq Nat \X Nat
  /\ WriteRange \subseteq Nat \X (1..MaxLen)
(***************************************************************************)
(* Clients allow a suspension only below the last sector of the chip: the  *)
(* factory section, which is written by synchronous calls.                 *)
(***************************************************************************)
ASSUME SuspendAssumption ==
  /\ SuspendRange \subseteq EraseRange \cup WriteRange
  /\ \A r \in SuspendRange : r[1] + r[2] <= TotalSize - SectorSize

VARIABLES
  cells,         \* the contents of the chip
  chip,          \* the command suspended in the chip, or NoCommand
  suspendState,  \* suspend_state
  opNext,        \* op_next_addr, op_next_buf and op_remain_len
  frame,         \* the call in progress: its loop variables, or Idle
  ret,           \* what the last call returned, "NONE" while one runs
  call,          \* the operation the client asked for last
  before,        \* the contents of the chip when it did
  calls          \* how many it asked for

vars == <<cells, chip, suspendState, opNext, frame, ret, call, before, calls>>

\* The buffer of a write holds its own positions 1, 2, ...
Value == (1..MaxLen) \cup {Erased, Old, Garbled}

NoCommand == [op |-> "none", from |-> 0, size |-> 0, buf |-> 0, work |-> 0]
Idle == [op |-> "none", addr |-> 0, remain |-> 0, buf |-> 0, suspend |-> FALSE]
NoCall == [op |-> "none", addr |-> 0, len |-> 0]

RoundDown(n, unit) == n - (n % unit)
RoundUp(n, unit) == RoundDown(n + unit - 1, unit)
Lesser(m, n) == IF m <= n THEN m ELSE n

-----------------------------------------------------------------------------
(***************************************************************************)
(* The chip.  An erase command clears its unit.  A page program clears     *)
(* bits, and wraps around within the page of its first cell.               *)
(***************************************************************************)
Programmed(old, new) == IF old = Erased \/ old = new THEN new ELSE Garbled

CellOf(c, i) ==
  IF c.op = "erase" THEN c.from + i
  ELSE RoundDown(c.from, PageSize) + ((c.from + i) % PageSize)

CarriedOut(c) ==
  [a \in Cell |->
     IF \E i \in 0..(c.size - 1) : CellOf(c, i) = a
     THEN IF c.op = "erase" THEN Erased
          ELSE LET i == CHOOSE k \in 0..(c.size - 1) : CellOf(c, k) = a
               IN  Programmed(cells[a], c.buf + i)
     ELSE cells[a]]

-----------------------------------------------------------------------------
Return(r) == frame' = Idle /\ ret' = r

(***************************************************************************)
(* The checks of address and length with which erase_int and write_int     *)
(* begin, also when they are called to go on with a resumed operation.     *)
(***************************************************************************)
Checked(addr, len, started) ==
  CASE addr >= TotalSize -> Return("BAD_ADDR")
    [] addr < TotalSize /\ len > TotalSize - addr -> Return("BAD_LEN")
    [] OTHER -> frame' = started /\ ret' = "NONE"

EraseInt(addr, len, suspend) ==
  LET skew == addr % SectorSize
  IN  Checked(addr, len,
              [op |-> "erase", addr |-> addr - skew, buf |-> 0,
               remain |-> RoundUp(len + skew, SectorSize), suspend |-> suspend])

WriteInt(addr, buf, len, suspend) ==
  Checked(addr, len,
          [op |-> "write", addr |-> addr, buf |-> buf, remain |-> len,
           suspend |-> suspend])

(***************************************************************************)
(* One round of the erase loop: the whole chip, a block or a sector.       *)
(***************************************************************************)
WholeChip(f) == f.addr = 0 /\ f.remain >= TotalSize

EraseSize(f) ==
  CASE WholeChip(f) -> TotalSize
    [] ~WholeChip(f) /\ f.remain >= BlockSize /\ f.addr % BlockSize = 0 -> BlockSize
    [] OTHER -> SectorSize

\* Slips: the end of the write is forgotten; the end of the page is.
WriteSizeUnaligned(f) == Lesser(PageSize, f.remain)

(***************************************************************************)
(* One round of the write loop: to the end of the page or of the write.    *)
(***************************************************************************)
WriteSize(f) == Lesser(Lesser(PageSize, f.remain), PageSize - (f.addr % PageSize))

Command(f) ==
  [op |-> f.op, from |-> f.addr, buf |-> f.buf, work |-> 0,
   size |-> IF f.op = "erase" THEN EraseSize(f) ELSE WriteSize(f)]

Advanced(f) ==
  LET n == Command(f).size
  IN  [f EXCEPT !.addr = @ + n,
                !.remain = IF f.op = "erase" /\ @ <= n THEN 0 ELSE @ - n,
                !.buf = IF f.op = "erase" THEN @ ELSE @ + n]

Position(f) == [addr |-> f.addr, buf |-> f.buf, remain |-> f.remain]

\* A slip: op_next_buf stays at the start of the command.
SavedOldBuf(f) == [Position(Advanced(f)) EXCEPT !.buf = f.buf]

(***************************************************************************)
(* Where a suspended operation goes on.  The erase of the whole chip is    *)
(* not in the loop, and its variables are as they were.                    *)
(***************************************************************************)
Saved(f) ==
  IF f.op = "erase" /\ WholeChip(f) THEN Position(f) ELSE Position(Advanced(f))

StateOf(op) == IF op = "erase" THEN "ERASE" ELSE "PROGRAM"

-----------------------------------------------------------------------------
(***************************************************************************)
(* norflash_erase, norflash_write: the command is sent, and the chip gets  *)
(* ready before an interrupt comes.                                        *)
(***************************************************************************)
RoundDone ==
  /\ frame.remain > 0
  /\ cells' = CarriedOut(Command(frame))
  /\ frame' = Advanced(frame)
  /\ UNCHANGED <<chip, suspendState, opNext, ret, call, before, calls>>

(***************************************************************************)
(* An interrupt comes first: the chip is told to suspend, and the call     *)
(* ends.                                                                   *)
(***************************************************************************)
RoundSuspended ==
  /\ frame.remain > 0
  /\ frame.suspend
  /\ \E w \in 1..WorkUnits : chip' = [Command(frame) EXCEPT !.work = w]
  /\ suspendState' = StateOf(frame.op)
  /\ opNext' = Saved(frame)
  /\ Return("SUSPENDED")
  /\ UNCHANGED <<cells, call, before, calls>>

\* A slip: suspend_state is not reset.
FinishSuspended ==
  /\ frame # Idle
  /\ frame.remain = 0
  /\ Return("OK")
  /\ UNCHANGED <<cells, chip, suspendState, opNext, call, before, calls>>

(***************************************************************************)
(* The loop is through.                                                    *)
(***************************************************************************)
Finish ==
  /\ frame # Idle
  /\ frame.remain = 0
  /\ suspendState' = "NONE"
  /\ Return("OK")
  /\ UNCHANGED <<cells, chip, opNext, call, before, calls>>

(***************************************************************************)
(* hal_norflash_erase_suspend and hal_norflash_write_suspend, with suspend *)
(* = 0 also hal_norflash_erase, _erase_chip and _write.  A client writes   *)
(* where the flash is erased.                                              *)
(***************************************************************************)
Start(op, r, suspend) ==
  /\ frame = Idle
  /\ calls < CallLimit
  /\ calls' = calls + 1
  /\ suspend => r \in SuspendRange
  /\ IF suspendState # "NONE"
     THEN Return("BAD_OP") /\ UNCHANGED <<call, before>>
     ELSE /\ call' = [op |-> op, addr |-> r[1], len |-> r[2]]
          /\ before' = cells
          /\ IF op = "erase" THEN EraseInt(r[1], r[2], suspend /\ SuspendMode)
             ELSE WriteInt(r[1], 1, r[2], suspend /\ SuspendMode)
  /\ UNCHANGED <<cells, chip, suspendState, opNext>>

EraseSuspend(r, suspend) == Start("erase", r, suspend)

WriteSuspend(r, suspend) ==
  /\ \A a \in Cell \cap r[1]..(r[1] + r[2] - 1) : cells[a] = Erased
  /\ Start("write", r, suspend)

\* A slip: the chip is suspended again before it could work.
ResumedAtOnce == \E w \in 1..chip.work : chip' = [chip EXCEPT !.work = w]

(***************************************************************************)
(* norflash_resume lets the chip work for 100 us before an interrupt is    *)
(* looked at again.                                                        *)
(***************************************************************************)
ResumedSuspended == \E w \in 1..(chip.work - 1) : chip' = [chip EXCEPT !.work = w]

(***************************************************************************)
(* hal_norflash_erase_resume and hal_norflash_write_resume: the command in *)
(* the chip is finished, then the rest of the operation carried out.       *)
(***************************************************************************)
Resume(op, suspend) ==
  /\ frame = Idle
  /\ \/ /\ suspendState # StateOf(op) \/ ~SuspendMode
        /\ Return("BAD_OP")
        /\ UNCHANGED <<cells, chip>>
     \/ /\ suspendState = StateOf(op) /\ SuspendMode
        /\ suspend
        /\ ResumedSuspended
        /\ Return("SUSPENDED")
        /\ UNCHANGED cells
     \/ /\ suspendState = StateOf(op) /\ SuspendMode
        /\ cells' = CarriedOut(chip)
        /\ chip' = NoCommand
        /\ IF op = "erase" THEN EraseInt(opNext.addr, opNext.remain, suspend)
           ELSE WriteInt(opNext.addr, opNext.buf, opNext.remain, suspend)
  /\ UNCHANGED <<suspendState, opNext, call, before, calls>>

EraseResume(suspend) == Resume("erase", suspend)
WriteResume(suspend) == Resume("write", suspend)

-----------------------------------------------------------------------------
Init ==
  /\ \E v \in {Erased, Old} : cells = [a \in Cell |-> v]
  /\ chip = NoCommand
  /\ suspendState = "NONE"
  /\ opNext = Position(Idle)
  /\ frame = Idle
  /\ ret = "OK"
  /\ call = NoCall
  /\ before = cells
  /\ calls = 0

Next ==
  \/ \E r \in EraseRange, suspend \in BOOLEAN : EraseSuspend(r, suspend)
  \/ \E r \in WriteRange, suspend \in BOOLEAN : WriteSuspend(r, suspend)
  \/ \E suspend \in BOOLEAN : EraseResume(suspend) \/ WriteResume(suspend)
  \/ RoundDone
  \/ RoundSuspended
  \/ Finish

Spec == Init /\ [][Next]_vars

(***************************************************************************)
(* A call runs to its end, and the client (_opera_flush, from the idle     *)
(* hook) resumes what was suspended, allowing a suspension each time.      *)
(***************************************************************************)
FairSpec ==
  /\ Spec
  /\ WF_vars(RoundDone \/ RoundSuspended)
  /\ WF_vars(Finish)
  /\ WF_vars(suspendState = "ERASE" /\ \E suspend \in BOOLEAN : EraseResume(suspend))
  /\ WF_vars(suspendState = "PROGRAM" /\ \E suspend \in BOOLEAN : WriteResume(suspend))

-----------------------------------------------------------------------------
(***************************************************************************)
(* The loop variables of hal_norflash_erase_int and hal_norflash_write_int *)
(* stay within the chip: their unsigned remain_len never wraps below zero. *)
(***************************************************************************)
HalTypeOK ==
  /\ cells \in [Cell -> Value]
  /\ chip \in [op : {"erase", "write", "none"}, from : Cell, size : Length,
               buf : 0..MaxLen, work : 0..WorkUnits]
  /\ suspendState \in {"NONE", "ERASE", "PROGRAM"}
  /\ opNext \in [addr : Length, buf : 0..(MaxLen + 1), remain : Length]
  /\ frame \in [op : {"erase", "write", "none"}, addr : Length, remain : Length,
                buf : 0..(MaxLen + 1), suspend : BOOLEAN]
  /\ ret \in {"NONE", "OK", "SUSPENDED", "BAD_OP", "BAD_ADDR", "BAD_LEN"}
  /\ calls \in 0..CallLimit

(***************************************************************************)
(* What the client asked for: the sectors an erase reaches into are blank, *)
(* a write has put every cell of its buffer in its place, and nothing else *)
(* has changed.                                                            *)
(***************************************************************************)
InRange(a) ==
  IF call.op = "erase"
  THEN a \in RoundDown(call.addr, SectorSize)
             ..(RoundUp(call.addr + call.len, SectorSize) - 1)
  ELSE a \in call.addr..(call.addr + call.len - 1)

Wanted(a) ==
  IF ~InRange(a) THEN before[a]
  ELSE IF call.op = "erase" THEN Erased ELSE a - call.addr + 1

(***************************************************************************)
(* However often it was suspended, and wherever, an operation that the hal *)
(* reports done has done exactly what was asked for (the Effect of         *)
(* NorflashApi, whole pages at a time).                                    *)
(***************************************************************************)
DoneIsDone == ret = "OK" => \A a \in Cell : cells[a] = Wanted(a)

(***************************************************************************)
(* An unfinished write has done a first part of its pages and nothing of   *)
(* the others, so that a suspension (Suspend of NorflashApi) or a power    *)
(* loss (Torn) leaves all but one page in a known state.                   *)
(***************************************************************************)
WholePages ==
  call.op = "write" =>
    \E e \in 0..TotalSize :
      /\ e % PageSize = 0 \/ e = call.addr + call.len
      /\ \A a \in Cell : cells[a] = IF a < e THEN Wanted(a) ELSE before[a]

(***************************************************************************)
(* Between two calls suspend_state tells what is suspended in the chip,    *)
(* and an operation that was suspended is never given up: a resume, which  *)
(* goes through the checks of a new call again, is not refused.            *)
(***************************************************************************)
SuspendStateTells ==
  /\ HalTypeOK
  /\ frame = Idle =>
       suspendState = IF chip = NoCommand THEN "NONE" ELSE StateOf(chip.op)

(***************************************************************************)
(* "avoid always staying in suspended state" (norflash_resume): with an    *)
(* interrupt pending whenever the chip is looked at, an operation ends.    *)
(***************************************************************************)
OperationEnds == (frame # Idle) ~> (frame = Idle /\ suspendState = "NONE")

=============================================================================
