-------------------------- MODULE HalNorflashProofs --------------------------
(***************************************************************************)
(* One erase or write of the NOR flash chip, however it is cut into        *)
(* commands and suspended, for any sizes of pages, sectors, blocks and     *)
(* chip and any ranges of the clients.                                     *)
(***************************************************************************)
EXTENDS HalNorflash, TLAPS

-----------------------------------------------------------------------------
(***************************************************************************)
(* Multiples, and what RoundDown and RoundUp return.                       *)
(***************************************************************************)
LEMMA DivMod ==
  ASSUME NEW a \in Nat, NEW b \in Nat \ {0}
  PROVE  /\ (a % b) + b * (a \div b) = a
         /\ a % b \in 0 .. (b - 1) /\ a \div b \in Nat
<1>1. b > 0
  OBVIOUS
<1>2. (a % b) + b * (a \div b) = a
  BY <1>1
<1>3. a % b \in 0 .. (b - 1) /\ a \div b \in Nat
  BY <1>1
<1> QED
  BY <1>2, <1>3

LEMMA ModUnique ==
  ASSUME NEW b \in Nat \ {0}, NEW q \in Nat, NEW r \in 0 .. (b - 1)
  PROVE  (b * q + r) % b = r
<1> DEFINE n == b * q + r
<1>1. n \in Nat
  OBVIOUS
<1>2. /\ (n % b) + b * (n \div b) = n
      /\ n % b \in 0 .. (b - 1) /\ n \div b \in Nat
  BY <1>1, DivMod
<1>3. ASSUME NEW p \in Nat, NEW s \in 0 .. (b - 1), b * p + s = b * q + r
      PROVE  s = r
  BY <1>3, SMTT(30)
<1> HIDE DEF n
<1>4. n % b = r
  BY <1>1, <1>2, <1>3 DEF n
<1> QED
  BY <1>4 DEF n

LEMMA ModSmall ==
  ASSUME NEW b \in Nat \ {0}, NEW r \in 0 .. (b - 1)
  PROVE  r % b = r
<1>0. r \in Nat
  OBVIOUS
<1>1. (r % b) + b * (r \div b) = r /\ (r % b) \in 0 .. (b - 1) /\ r \div b \in Nat
  BY <1>0, DivMod
<1>2. ASSUME NEW p \in Nat, NEW s \in 0 .. (b - 1), s + b * p = r
      PROVE  s = r
  <2>1. CASE p = 0
    BY <1>2, <2>1
  <2>2. CASE p > 0
    <3>1. b * p >= b
      BY <2>2
    <3>2. b * p \in Nat
      OBVIOUS
    <3> QED
      BY <1>2, <3>1, <3>2
  <2> QED
    BY <2>1, <2>2
<1> QED
  BY <1>1, <1>2

LEMMA ModZero ==
  ASSUME NEW a \in Nat, NEW b \in Nat \ {0}, NEW q \in Nat, a = b * q
  PROVE  a % b = 0
BY ModUnique, 0 \in 0 .. (b - 1), a = b * q + 0

LEMMA ModAdd ==
  ASSUME NEW a \in Nat, NEW c \in Nat, NEW b \in Nat \ {0}, a % b = 0
  PROVE  (a + c) % b = c % b
<1>1. a = b * (a \div b) /\ a \div b \in Nat
  BY DivMod
<1>2. (c % b) + b * (c \div b) = c /\ (c % b) \in 0 .. (b - 1) /\ c \div b \in Nat
  BY DivMod
<1>3. ASSUME NEW p \in Nat, NEW q \in Nat, NEW r \in Nat, a = b * p, r + b * q = c
      PROVE  a + c = b * (p + q) + r
  BY <1>3
<1>4. a + c = b * ((a \div b) + (c \div b)) + (c % b)
  BY <1>1, <1>2, <1>3
<1>5. (a \div b) + (c \div b) \in Nat
  BY <1>1, <1>2
<1> QED
  BY <1>2, <1>4, <1>5, ModUnique

LEMMA ModSub ==
  ASSUME NEW a \in Nat, NEW c \in Nat, NEW b \in Nat \ {0}, a % b = 0, c % b = 0, c <= a
  PROVE  (a - c) % b = 0
<1>1. ASSUME NEW d \in Nat, c + d = a
      PROVE  d % b = 0
  <2>1. (c + d) % b = d % b
    BY ModAdd
  <2> QED
    BY <1>1, <2>1
<1>2. a - c \in Nat /\ c + (a - c) = a
  OBVIOUS
<1> QED
  BY <1>1, <1>2

LEMMA ModTrans ==
  ASSUME NEW a \in Nat, NEW b \in Nat \ {0}, NEW c \in Nat \ {0}, a % b = 0, b % c = 0
  PROVE  a % c = 0
<1>1. a = b * (a \div b) /\ a \div b \in Nat /\ b = c * (b \div c) /\ b \div c \in Nat
  BY DivMod
<1>2. ASSUME NEW p \in Nat, NEW q \in Nat, a = b * p, b = c * q
      PROVE  a = c * (q * p) /\ q * p \in Nat
  BY <1>2
<1>3. a = c * ((b \div c) * (a \div b)) /\ (b \div c) * (a \div b) \in Nat
  BY <1>1, <1>2
<1> QED
  BY <1>3, ModZero

LEMMA RoundDownFacts ==
  ASSUME NEW n \in Nat, NEW u \in Nat \ {0}
  PROVE  /\ RoundDown(n, u) \in Nat /\ RoundDown(n, u) % u = 0
         /\ RoundDown(n, u) <= n /\ n < RoundDown(n, u) + u
<1>1. (n % u) + u * (n \div u) = n /\ (n % u) \in 0 .. (u - 1) /\ n \div u \in Nat
  BY DivMod
<1>2. RoundDown(n, u) = u * (n \div u)
  BY <1>1 DEF RoundDown
<1>3. RoundDown(n, u) \in Nat /\ RoundDown(n, u) <= n /\ n < RoundDown(n, u) + u
  BY <1>1 DEF RoundDown
<1> QED
  BY <1>1, <1>2, <1>3, ModZero

\* A multiple between a multiple and less than one more unit is that multiple.
LEMMA MultipleGap ==
  ASSUME NEW a \in Nat, NEW b \in Nat, NEW u \in Nat \ {0}, a % u = 0, b % u = 0, a < b
  PROVE  a + u <= b
<1>0. a <= b /\ b - a \in Nat \ {0}
  OBVIOUS
<1>1. (b - a) % u = 0 /\ b - a \in Nat \ {0}
  BY <1>0, ModSub
<1>2. ((b - a) % u) + u * ((b - a) \div u) = b - a /\ (b - a) \div u \in Nat
  BY <1>1, DivMod
<1>3. ASSUME NEW q \in Nat, u * q = b - a
      PROVE  u <= b - a
  BY <1>1, <1>3
<1> QED
  BY <1>1, <1>2, <1>3

LEMMA RoundUpFacts ==
  ASSUME NEW n \in Nat, NEW u \in Nat \ {0}
  PROVE  /\ RoundUp(n, u) \in Nat /\ RoundUp(n, u) % u = 0
         /\ n <= RoundUp(n, u) /\ RoundUp(n, u) < n + u
<1>1. n + u - 1 \in Nat
  OBVIOUS
<1> QED
  BY <1>1, RoundDownFacts DEF RoundUp

\* Whatever lies between n and n + u and is a multiple is RoundUp(n).
LEMMA RoundUpUnique ==
  ASSUME NEW n \in Nat, NEW u \in Nat \ {0}, NEW m \in Nat, m % u = 0, n <= m, m < n + u
  PROVE  RoundUp(n, u) = m
<1>1. /\ RoundUp(n, u) \in Nat /\ RoundUp(n, u) % u = 0
      /\ n <= RoundUp(n, u) /\ RoundUp(n, u) < n + u
  BY RoundUpFacts
<1>2. ~(RoundUp(n, u) < m)
  BY <1>1, MultipleGap
<1>3. ~(m < RoundUp(n, u))
  BY <1>1, MultipleGap
<1> QED
  BY <1>1, <1>2, <1>3

LEMMA RoundUpLeast ==
  ASSUME NEW n \in Nat, NEW u \in Nat \ {0}, NEW m \in Nat, m % u = 0, n <= m
  PROVE  RoundUp(n, u) <= m
<1>1. /\ RoundUp(n, u) \in Nat /\ RoundUp(n, u) % u = 0
      /\ n <= RoundUp(n, u) /\ RoundUp(n, u) < n + u
  BY RoundUpFacts
<1>2. ~(m < RoundUp(n, u))
  BY <1>1, MultipleGap
<1> QED
  BY <1>1, <1>2

LEMMA RoundUpShift ==
  ASSUME NEW n \in Nat, NEW m \in Nat, NEW u \in Nat \ {0}, m % u = 0
  PROVE  RoundUp(m + n, u) = m + RoundUp(n, u)
<1>1. /\ RoundUp(n, u) \in Nat /\ RoundUp(n, u) % u = 0
      /\ n <= RoundUp(n, u) /\ RoundUp(n, u) < n + u
  BY RoundUpFacts
<1>2. (m + RoundUp(n, u)) % u = 0
  BY <1>1, ModAdd
<1> QED
  BY <1>1, <1>2, RoundUpUnique

-----------------------------------------------------------------------------
(***************************************************************************)
(* The invariant.  The cells the operation is about are First .. End - 1.  *)
(* Between two commands it is done up to an address, and the address, the  *)
(* rest and the place in the buffer fit together: in the loop variables    *)
(* while a call runs, in op_next_* while it is suspended.  The command     *)
(* suspended in the chip is the next one.                                  *)
(***************************************************************************)
First == IF call.op = "erase" THEN RoundDown(call.addr, SectorSize) ELSE call.addr

End ==
  IF call.op = "erase" THEN RoundUp(call.addr + call.len, SectorSize)
  ELSE call.addr + call.len

DoneTo(e) == \A a \in Cell : cells[a] = IF a < e THEN Wanted(a) ELSE before[a]

\* Where one command of a write may end and the next begin.
PageEnd(a) == a % PageSize = 0 \/ a = call.addr \/ a = End

\* The factory section is behind the operation.
Spares == call.addr + call.len <= TotalSize - SectorSize

CallTypeOK ==
  /\ call \in [op : {"erase", "write", "none"}, addr : Nat, len : Nat]
  /\ before \in [Cell -> Value]

Underway(p) ==
  /\ call.op \in {"erase", "write"}
  /\ First <= p.addr /\ p.addr + p.remain = End /\ End <= TotalSize
  /\ call.op = "erase" =>
       p.buf = 0 /\ p.addr % SectorSize = 0 /\ p.remain % SectorSize = 0
  /\ call.op = "write" =>
       /\ p.buf = p.addr - call.addr + 1 /\ call.len <= MaxLen
       /\ PageEnd(p.addr)
       /\ \A a \in call.addr .. (End - 1) : before[a] = Erased

Running ==
  frame # Idle =>
    /\ frame.op = call.op /\ Underway(frame) /\ DoneTo(frame.addr)
    /\ chip = NoCommand /\ ret = "NONE"
    /\ frame.suspend => SuspendMode /\ Spares

NextCommand(c) ==
  /\ c.op = call.op /\ DoneTo(c.from)
  /\ First <= c.from /\ c.size >= 1
  /\ c.op = "write" =>
       /\ c.buf = c.from - call.addr + 1 /\ PageEnd(c.from)
       /\ c.size <= PageSize - (c.from % PageSize)

Suspended ==
  chip # NoCommand =>
    /\ frame = Idle /\ ret # "OK" /\ SuspendMode /\ Spares
    /\ suspendState = StateOf(chip.op)
    /\ NextCommand(chip)
    /\ Underway(opNext) /\ opNext.addr = chip.from + chip.size

AtRest ==
  frame = Idle /\ chip = NoCommand =>
    /\ suspendState = "NONE"
    /\ ret = "OK" => DoneTo(End)

HalInv ==
  /\ HalTypeOK /\ CallTypeOK
  /\ frame.op = "none" => frame = Idle
  /\ chip.op = "none" => chip = NoCommand
  /\ Running /\ Suspended /\ AtRest /\ WholePages

-----------------------------------------------------------------------------
LEMMA Sizes ==
  /\ TotalSize \in Nat \ {0} /\ BlockSize \in Nat \ {0}
  /\ SectorSize \in Nat \ {0} /\ PageSize \in Nat \ {0}
  /\ BlockSize % SectorSize = 0 /\ TotalSize % SectorSize = 0
  /\ SectorSize <= TotalSize
<1>1. BlockSize % SectorSize = 0 /\ TotalSize % SectorSize = 0
  BY SizeAssumption, ModTrans
<1>2. SectorSize <= TotalSize
  <2>1. 0 % SectorSize = 0
    BY SizeAssumption, ModZero, 0 = SectorSize * 0
  <2> QED
    BY <1>1, <2>1, SizeAssumption, MultipleGap
<1> QED
  BY <1>1, <1>2, SizeAssumption

(***************************************************************************)
(* The range of an operation as its two ends.                              *)
(***************************************************************************)
LEMMA RangeEnds ==
  ASSUME CallTypeOK
  PROVE  /\ First \in Nat /\ End \in Nat /\ First <= End
         /\ \A a \in Nat : InRange(a) <=> First <= a /\ a < End
         /\ call.addr + call.len <= End
<1>1. call.addr \in Nat /\ call.len \in Nat /\ call.addr + call.len \in Nat
  BY DEF CallTypeOK
<1>2. CASE call.op = "erase"
  <2>1. First = RoundDown(call.addr, SectorSize) /\ First \in Nat /\ First <= call.addr
    BY <1>1, <1>2, Sizes, RoundDownFacts DEF First
  <2>2. /\ End = RoundUp(call.addr + call.len, SectorSize) /\ End \in Nat
        /\ call.addr + call.len <= End
    BY <1>1, <1>2, Sizes, RoundUpFacts DEF End
  <2>3. \A a \in Nat : InRange(a) <=> a \in First .. (End - 1)
    BY <1>2, <2>1, <2>2 DEF InRange
  <2> QED
    BY <1>1, <2>1, <2>2, <2>3
<1>3. CASE call.op # "erase"
  BY <1>1, <1>3 DEF First, End, InRange
<1> QED
  BY <1>2, <1>3

\* One that may be suspended leaves the last sector alone, whole sectors too.
LEMMA SparesEnd ==
  ASSUME CallTypeOK, Spares
  PROVE  End <= TotalSize - SectorSize /\ End < TotalSize
<1>1. TotalSize - SectorSize \in Nat
  BY Sizes
<1>2. (TotalSize - SectorSize) % SectorSize = 0
  <2>1. SectorSize % SectorSize = 0
    BY Sizes, ModZero, SectorSize = SectorSize * 1
  <2>2. /\ TotalSize \in Nat /\ SectorSize \in Nat /\ SectorSize \in Nat \ {0}
        /\ TotalSize % SectorSize = 0 /\ SectorSize <= TotalSize
    BY Sizes
  <2> QED
    BY <2>1, <2>2, ModSub
<1>3. call.addr + call.len \in Nat /\ call.addr + call.len <= TotalSize - SectorSize
  BY DEF CallTypeOK, Spares
<1>4. RoundUp(call.addr + call.len, SectorSize) <= TotalSize - SectorSize
  BY <1>1, <1>2, <1>3, Sizes, RoundUpLeast
<1>5. End <= TotalSize - SectorSize
  BY <1>3, <1>4 DEF End
<1> QED
  BY <1>1, <1>5, Sizes, RangeEnds

\* An operation done to its end has done what was wanted.
LEMMA DoneMeans ==
  ASSUME CallTypeOK, DoneTo(End)
  PROVE  \A a \in Cell : cells[a] = Wanted(a)
<1>1. ASSUME NEW a \in Cell, ~(a < End)
      PROVE  Wanted(a) = before[a]
  BY <1>1, RangeEnds, Sizes DEF Wanted, Cell
<1> QED
  BY <1>1, RangeEnds, Sizes DEF DoneTo, Cell

\* One that is done to the end of a page has done a first part of its pages.
LEMMA PagesDone ==
  ASSUME CallTypeOK, NEW e \in 0 .. TotalSize, DoneTo(e), PageEnd(e), call.op = "write"
  PROVE  WholePages
<1>1. CASE e % PageSize = 0 \/ e = call.addr + call.len
  BY <1>1 DEF WholePages, DoneTo
<1>2. CASE e = call.addr
  <2>1. 0 % PageSize = 0 /\ 0 \in 0 .. TotalSize
    BY Sizes, ModZero, 0 = PageSize * 0
  <2>2. ASSUME NEW a \in Cell
        PROVE  cells[a] = IF a < 0 THEN Wanted(a) ELSE before[a]
    <3>1. a < e => Wanted(a) = before[a]
      BY <1>2, RangeEnds, Sizes DEF Wanted, First, Cell, CallTypeOK
    <3> QED
      BY <3>1, Sizes DEF DoneTo, Cell
  <2> QED
    BY <2>1, <2>2 DEF WholePages
<1> QED
  BY <1>1, <1>2 DEF PageEnd, End

LEMMA FramePagesDone ==
  /\ CallTypeOK /\ frame.addr \in 0 .. TotalSize /\ DoneTo(frame.addr) /\ PageEnd(frame.addr)
  /\ call.op = "write"
  => WholePages
  BY PagesDone

LEMMA FramePagesDoneNext ==
  /\ CallTypeOK' /\ (frame.addr \in 0 .. TotalSize)' /\ DoneTo(frame.addr)'
  /\ PageEnd(frame.addr)' /\ (call.op = "write")'
  => WholePages'
  BY FramePagesDone, PTL

(***************************************************************************)
(* The chip.                                                               *)
(***************************************************************************)
\* A page program does not wrap around when it ends within the page.
LEMMA CellOfCommand ==
  ASSUME NEW c, NEW i \in Nat, c.from \in Nat,
         c.op = "erase" \/ i < PageSize - (c.from % PageSize)
  PROVE  CellOf(c, i) = c.from + i
<1>1. CASE c.op = "erase"
  BY <1>1 DEF CellOf
<1>2. CASE c.op # "erase"
  <2> DEFINE page == RoundDown(c.from, PageSize)
             r == c.from % PageSize
  <2>1. page \in Nat /\ page % PageSize = 0
    BY Sizes, RoundDownFacts
  <2>2. r \in 0 .. (PageSize - 1) /\ page = c.from - r
    BY Sizes, DivMod DEF RoundDown
  <2>3. r + i \in 0 .. (PageSize - 1) /\ c.from + i = page + (r + i)
    BY <1>2, <2>2, Sizes
  <2>4. (page + (r + i)) % PageSize = (r + i) % PageSize
    BY <2>1, <2>3, Sizes, ModAdd
  <2>5. (r + i) % PageSize = r + i
    BY <2>3, Sizes, ModSmall
  <2>6. CellOf(c, i) = page + ((c.from + i) % PageSize)
    BY <1>2 DEF CellOf
  <2> HIDE DEF page, r
  <2> QED
    BY <2>1, <2>2, <2>3, <2>4, <2>5, <2>6
<1> QED
  BY <1>1, <1>2

LEMMA CommandCells ==
  ASSUME NEW c, c.from \in Nat, c.size \in Nat,
         c.op = "erase" \/ c.size <= PageSize - (c.from % PageSize),
         NEW a \in Cell
  PROVE  CarriedOut(c)[a] =
           IF c.from <= a /\ a < c.from + c.size
           THEN IF c.op = "erase" THEN Erased
                ELSE Programmed(cells[a], c.buf + (a - c.from))
           ELSE cells[a]
<1>1. c.from % PageSize \in Nat /\ a \in Nat
  BY Sizes, DivMod DEF Cell
<1>2. \A i \in 0 .. (c.size - 1) : CellOf(c, i) = c.from + i
  BY <1>1, Sizes, CellOfCommand
<1>3. (\E i \in 0 .. (c.size - 1) : CellOf(c, i) = a) <=> c.from <= a /\ a < c.from + c.size
  <2>1. ASSUME c.from <= a, a < c.from + c.size
        PROVE  a - c.from \in 0 .. (c.size - 1) /\ c.from + (a - c.from) = a
    BY <1>1, <2>1
  <2> QED
    BY <1>1, <1>2, <2>1
<1>4. CASE ~(c.from <= a /\ a < c.from + c.size)
  BY <1>3, <1>4 DEF CarriedOut
<1>5. CASE c.from <= a /\ a < c.from + c.size
  <2>1. CASE c.op = "erase"
    BY <1>3, <1>5, <2>1 DEF CarriedOut
  <2>2. CASE c.op # "erase"
    <3> DEFINE k == CHOOSE j \in 0 .. (c.size - 1) : CellOf(c, j) = a
    <3>1. k \in 0 .. (c.size - 1) /\ CellOf(c, k) = a
      BY <1>3, <1>5, Zenon
    <3>2. CellOf(c, k) = c.from + k
      BY <1>2, <3>1
    <3>3. CarriedOut(c)[a] = Programmed(cells[a], c.buf + k)
      BY <1>3, <1>5, <2>2, Zenon DEF CarriedOut
    <3> HIDE DEF k
    <3>4. k = a - c.from
      BY <1>1, <3>1, <3>2
    <3> QED
      BY <1>5, <2>2, <3>3, <3>4
  <2> QED
    BY <2>1, <2>2
<1> QED
  BY <1>4, <1>5

\* A command carried out does the operation up to its own end.
LEMMA CommandDone ==
  ASSUME HalTypeOK, CallTypeOK, NEW c, c.from \in Nat, c.size \in Nat, NextCommand(c),
         c.from + c.size <= End, End <= TotalSize, c.op \in {"erase", "write"},
         c.op = "write" =>
           call.len <= MaxLen /\ \A a \in call.addr .. (End - 1) : before[a] = Erased,
         cells' = CarriedOut(c)
  PROVE  /\ \A a \in Cell : cells'[a] = IF a < c.from + c.size THEN Wanted(a) ELSE before[a]
         /\ cells' \in [Cell -> Value]
<1>1. c.op = "erase" \/ c.size <= PageSize - (c.from % PageSize)
  BY DEF NextCommand
<1>2. /\ First \in Nat /\ End \in Nat /\ First <= c.from
      /\ \A a \in Nat : InRange(a) <=> First <= a /\ a < End
  BY RangeEnds DEF NextCommand
<1>3. ASSUME NEW a \in Cell
      PROVE  /\ cells'[a] = IF a < c.from + c.size THEN Wanted(a) ELSE before[a]
             /\ cells'[a] \in Value
  <2>1. a \in Nat /\ cells[a] = IF a < c.from THEN Wanted(a) ELSE before[a]
    BY Sizes DEF NextCommand, DoneTo, Cell
  <2>2. cells'[a] =
          IF c.from <= a /\ a < c.from + c.size
          THEN IF c.op = "erase" THEN Erased ELSE Programmed(cells[a], c.buf + (a - c.from))
          ELSE cells[a]
    BY <1>1, CommandCells
  <2>3. cells[a] \in Value
    BY DEF HalTypeOK
  <2>4. CASE ~(c.from <= a /\ a < c.from + c.size)
    BY <2>1, <2>2, <2>3, <2>4
  <2>5. CASE c.from <= a /\ a < c.from + c.size
    <3>1. InRange(a) /\ cells[a] = before[a]
      BY <1>2, <2>1, <2>5
    <3>2. CASE c.op = "erase"
      BY <2>2, <2>5, <3>1, <3>2 DEF Wanted, NextCommand, Value
    <3>3. CASE c.op = "write"
      <4>1. call.op = "write" /\ First = call.addr /\ End = call.addr + call.len
        BY <3>3 DEF NextCommand, First, End
      <4>2. call.addr \in Nat /\ call.len \in Nat
        BY DEF CallTypeOK
      <4>3. a \in call.addr .. (End - 1)
        BY <1>2, <2>1, <2>5, <4>1, <4>2
      <4>4. cells[a] = Erased
        BY <3>1, <3>3, <4>3
      <4>5. cells'[a] = c.buf + (a - c.from)
        BY <2>2, <2>5, <3>3, <4>4 DEF Programmed
      <4>6. c.buf = c.from - call.addr + 1
        BY <3>3 DEF NextCommand
      <4>7. c.buf + (a - c.from) = a - call.addr + 1
        BY <2>1, <4>2, <4>6
      <4>8. Wanted(a) = a - call.addr + 1
        BY <3>1, <4>1 DEF Wanted
      <4>9. a - call.addr + 1 \in 1 .. MaxLen
        BY <2>1, <3>3, <4>1, <4>2, <4>3, BoundAssumption, Sizes
      <4> QED
        BY <2>5, <4>5, <4>7, <4>8, <4>9 DEF Value
    <3> QED
      BY <3>2, <3>3
  <2> QED
    BY <2>4, <2>5
<1>4. cells' \in [Cell -> Value]
  BY <1>3 DEF CarriedOut
<1> QED
  BY <1>3, <1>4

-----------------------------------------------------------------------------
(***************************************************************************)
(* The loops.  A command of the erase loop is whole sectors and not more   *)
(* than what is left; one of the write loop ends with its page or with the *)
(* write.                                                                  *)
(***************************************************************************)
LEMMA EraseSizeFacts ==
  ASSUME NEW f, f.addr \in Nat, f.remain \in Nat \ {0}, f.remain % SectorSize = 0
  PROVE  EraseSize(f) \in 1 .. f.remain /\ EraseSize(f) % SectorSize = 0
<1>1. \/ EraseSize(f) = TotalSize /\ f.remain >= TotalSize
      \/ EraseSize(f) = BlockSize /\ f.remain >= BlockSize
      \/ EraseSize(f) = SectorSize
  BY DEF EraseSize, WholeChip
<1>2. 0 % SectorSize = 0 /\ SectorSize % SectorSize = 0
  BY Sizes, ModZero, 0 = SectorSize * 0, SectorSize = SectorSize * 1
<1>3. SectorSize <= f.remain
  BY <1>2, Sizes, MultipleGap
<1> QED
  BY <1>1, <1>2, <1>3, Sizes

LEMMA WriteSizeFacts ==
  ASSUME NEW f, f.addr \in Nat, f.remain \in Nat \ {0}
  PROVE  /\ WriteSize(f) \in 1 .. f.remain
         /\ WriteSize(f) <= PageSize - (f.addr % PageSize)
         /\ WriteSize(f) = f.remain \/ (f.addr + WriteSize(f)) % PageSize = 0
<1> DEFINE r == f.addr % PageSize
           page == RoundDown(f.addr, PageSize)
<1>1. r \in 0 .. (PageSize - 1) /\ page = f.addr - r
  BY Sizes, DivMod DEF RoundDown
<1>2. page \in Nat /\ page % PageSize = 0
  BY Sizes, RoundDownFacts
<1>3. (page + PageSize) % PageSize = 0
  <2>1. PageSize % PageSize = 0
    BY Sizes, ModZero, PageSize = PageSize * 1
  <2> QED
    BY <1>2, <2>1, Sizes, ModAdd
<1>4. WriteSize(f) = Lesser(Lesser(PageSize, f.remain), PageSize - r)
  BY DEF WriteSize
<1> HIDE DEF r, page
<1>5. /\ WriteSize(f) \in 1 .. f.remain /\ WriteSize(f) <= PageSize - r
      /\ WriteSize(f) = f.remain \/ WriteSize(f) = PageSize - r
  BY <1>1, <1>4, Sizes DEF Lesser
<1>6. f.addr + (PageSize - r) = page + PageSize
  BY <1>1, Sizes
<1> QED
  BY <1>3, <1>5, <1>6 DEF r

LEMMA CommandFacts ==
  ASSUME HalTypeOK, CallTypeOK, frame.op = call.op, Underway(frame), DoneTo(frame.addr),
         frame.remain > 0
  PROVE  /\ Command(frame).op = frame.op /\ Command(frame).from = frame.addr
         /\ Command(frame).buf = frame.buf
         /\ Command(frame).size \in 1 .. frame.remain
         /\ NextCommand(Command(frame))
         /\ frame.op = "erase" => Command(frame).size % SectorSize = 0
         /\ frame.op = "write" =>
              \/ Command(frame).size = frame.remain
              \/ (frame.addr + Command(frame).size) % PageSize = 0
<1>1. frame.op \in {"erase", "write"} /\ frame.addr \in Nat /\ frame.remain \in Nat \ {0}
  BY Sizes DEF HalTypeOK, Length, Underway
<1>2. /\ Command(frame).op = frame.op /\ Command(frame).from = frame.addr
      /\ Command(frame).buf = frame.buf
      /\ Command(frame).size = IF frame.op = "erase" THEN EraseSize(frame) ELSE WriteSize(frame)
  BY DEF Command
<1>3. CASE frame.op = "erase"
  <2>1. EraseSize(frame) \in 1 .. frame.remain /\ EraseSize(frame) % SectorSize = 0
    BY <1>1, <1>3, EraseSizeFacts DEF Underway
  <2>2. NextCommand(Command(frame))
    BY <1>1, <1>2, <1>3, <2>1 DEF NextCommand, Underway
  <2> QED
    BY <1>2, <1>3, <2>1, <2>2
<1>4. CASE frame.op = "write"
  <2>1. /\ WriteSize(frame) \in 1 .. frame.remain
        /\ WriteSize(frame) <= PageSize - (frame.addr % PageSize)
        /\ WriteSize(frame) = frame.remain \/ (frame.addr + WriteSize(frame)) % PageSize = 0
    BY <1>1, WriteSizeFacts
  <2>2. NextCommand(Command(frame))
    BY <1>1, <1>2, <1>4, <2>1 DEF NextCommand, Underway
  <2> QED
    BY <1>2, <1>4, <2>1, <2>2
<1> QED
  BY <1>1, <1>3, <1>4

FrameType ==
  [op : {"erase", "write", "none"}, addr : Length, remain : Length, buf : 0 .. (MaxLen + 1),
   suspend : BOOLEAN]

(***************************************************************************)
(* The loop variables after a command fit together as they did before it.  *)
(***************************************************************************)
LEMMA AdvancedFacts ==
  ASSUME HalTypeOK, CallTypeOK, frame.op = call.op, Underway(frame), DoneTo(frame.addr),
         frame.remain > 0
  PROVE  /\ Advanced(frame) \in FrameType
         /\ Advanced(frame).op = frame.op /\ Advanced(frame).suspend = frame.suspend
         /\ Advanced(frame).addr = frame.addr + Command(frame).size
         /\ Underway(Advanced(frame))
<1> DEFINE n == Command(frame).size
           g == Advanced(frame)
<1>1. /\ frame \in FrameType /\ frame.op \in {"erase", "write"}
      /\ frame.addr \in Nat /\ frame.remain \in Nat /\ frame.buf \in Nat
  BY Sizes, BoundAssumption DEF HalTypeOK, FrameType, Length, Underway
<1>2. /\ n \in 1 .. frame.remain
      /\ frame.op = "erase" => n % SectorSize = 0
      /\ frame.op = "write" => n = frame.remain \/ (frame.addr + n) % PageSize = 0
  BY CommandFacts
<1> DEFINE x == frame.addr + n
           y == IF frame.op = "erase" /\ frame.remain <= n THEN 0 ELSE frame.remain - n
           z == IF frame.op = "erase" THEN frame.buf ELSE frame.buf + n
<1>3. g = [frame EXCEPT !.addr = x, !.remain = y, !.buf = z]
  BY DEF Advanced
<1>4. End \in Nat /\ First \in Nat /\ First <= frame.addr /\ frame.addr + frame.remain = End
      /\ End <= TotalSize
  BY RangeEnds DEF Underway
<1> HIDE DEF n, g, x, y, z
<1>5. /\ g.op = frame.op /\ g.suspend = frame.suspend
      /\ g.addr = frame.addr + n /\ g.remain = frame.remain - n
      /\ g.buf = IF frame.op = "erase" THEN frame.buf ELSE frame.buf + n
      /\ g \in [op : {"erase", "write", "none"}, addr : Int, remain : Int, buf : Int,
                suspend : BOOLEAN]
  <2>1. frame \in [op : {"erase", "write", "none"}, addr : Int, remain : Int, buf : Int,
                   suspend : BOOLEAN]
    BY <1>1, Sizes, BoundAssumption DEF FrameType, Length
  <2>2. n \in Nat /\ n <= frame.remain
    BY <1>1, <1>2
  <2>3. /\ x = frame.addr + n /\ y = frame.remain - n
        /\ z = IF frame.op = "erase" THEN frame.buf ELSE frame.buf + n
        /\ x \in Int /\ y \in Int /\ z \in Int
    BY <1>1, <2>2 DEF x, y, z
  <2>4. /\ g.op = frame.op /\ g.suspend = frame.suspend
        /\ g.addr = x /\ g.remain = y /\ g.buf = z
        /\ g \in [op : {"erase", "write", "none"}, addr : Int, remain : Int, buf : Int,
                  suspend : BOOLEAN]
    BY <1>3, <2>1, <2>3
  <2> QED
    BY <2>3, <2>4
<1>6. CASE frame.op = "erase"
  <2>1. g.addr % SectorSize = 0
    <3>1. frame.addr % SectorSize = 0 /\ n % SectorSize = 0 /\ n \in Nat
      BY <1>1, <1>2, <1>6 DEF Underway
    <3>2. (frame.addr + n) % SectorSize = n % SectorSize
      BY <1>1, <3>1, Sizes, ModAdd
    <3> QED
      BY <1>5, <3>1, <3>2
  <2>2. g.remain % SectorSize = 0
    BY <1>1, <1>2, <1>5, <1>6, Sizes, ModSub DEF Underway
  <2>3. Underway(g)
    BY <1>1, <1>2, <1>4, <1>5, <1>6, <2>1, <2>2 DEF Underway
  <2>4. g \in FrameType
    BY <1>1, <1>2, <1>4, <1>5, <1>6, Sizes DEF FrameType, Length
  <2> QED
    BY <1>5, <2>3, <2>4 DEF g, n
<1>7. CASE frame.op = "write"
  <2>1. PageEnd(g.addr)
    BY <1>1, <1>2, <1>4, <1>5, <1>7 DEF PageEnd
  <2>2. call.addr \in Nat /\ call.len \in Nat /\ First = call.addr /\ End = call.addr + call.len
    BY <1>7 DEF CallTypeOK, First, End
  <2>3. Underway(g)
    BY <1>1, <1>2, <1>4, <1>5, <1>7, <2>1, <2>2 DEF Underway
  <2>4. g.buf \in 0 .. (MaxLen + 1)
    BY <1>1, <1>2, <1>4, <1>5, <1>7, <2>2, <2>3, BoundAssumption, Sizes DEF Underway
  <2>5. g \in FrameType
    BY <1>1, <1>2, <1>4, <1>5, <1>7, <2>4, Sizes DEF FrameType, Length
  <2> QED
    BY <1>5, <2>3, <2>5 DEF g, n
<1> QED
  BY <1>1, <1>6, <1>7

-----------------------------------------------------------------------------
(***************************************************************************)
(* What a step that keeps the operation asked for leaves alone.            *)
(***************************************************************************)
LEMMA SameCall ==
  ASSUME HalInv, UNCHANGED <<call, before>>
  PROVE  /\ CallTypeOK' /\ First' = First /\ End' = End /\ (Spares' <=> Spares)
         /\ \A a : Wanted(a)' = Wanted(a) /\ (PageEnd(a)' <=> PageEnd(a))
  BY DEF HalInv, CallTypeOK, First, End, Spares, Wanted, InRange, PageEnd

\* norflash_erase and norflash_write when no interrupt comes.
LEMMA RoundDoneKeeps ==
  ASSUME HalInv, RoundDone
  PROVE  HalInv'
<1>1. /\ frame.remain > 0 /\ cells' = CarriedOut(Command(frame)) /\ frame' = Advanced(frame)
      /\ UNCHANGED <<chip, suspendState, opNext, ret, call, before, calls>>
  BY DEF RoundDone
<1>2. frame # Idle
  BY <1>1 DEF Idle
<1>3. /\ frame.op = call.op /\ Underway(frame) /\ DoneTo(frame.addr) /\ chip = NoCommand
      /\ ret = "NONE" /\ (frame.suspend => SuspendMode /\ Spares)
      /\ frame.op \in {"erase", "write"}
  BY <1>2 DEF HalInv, Running, Underway
<1>4. HalTypeOK /\ CallTypeOK
  BY DEF HalInv
<1>5. /\ Command(frame).op = frame.op /\ Command(frame).from = frame.addr
      /\ Command(frame).size \in 1 .. frame.remain
      /\ NextCommand(Command(frame))
  BY <1>1, <1>3, <1>4, CommandFacts
<1>6. /\ Advanced(frame) \in FrameType
      /\ Advanced(frame).op = frame.op /\ Advanced(frame).suspend = frame.suspend
      /\ Advanced(frame).addr = frame.addr + Command(frame).size
      /\ Underway(Advanced(frame))
  BY <1>1, <1>3, <1>4, AdvancedFacts
<1>7. frame.addr \in Nat /\ frame.remain \in Nat /\ Command(frame).size \in Nat
  BY <1>4, <1>5, Sizes DEF HalTypeOK, Length
<1>8. frame.addr + Command(frame).size <= End /\ End <= TotalSize /\ End \in Nat
  BY <1>3, <1>4, <1>5, <1>7, RangeEnds DEF Underway
<1>9. /\ \A a \in Cell : cells'[a] =
           IF a < frame.addr + Command(frame).size THEN Wanted(a) ELSE before[a]
      /\ cells' \in [Cell -> Value]
  <2>1. Command(frame).from \in Nat /\ Command(frame).op \in {"erase", "write"}
    BY <1>3, <1>5, <1>7
  <2>2. Command(frame).op = "write" =>
          call.len <= MaxLen /\ \A a \in call.addr .. (End - 1) : before[a] = Erased
    BY <1>3, <1>5 DEF Underway
  <2>3. Command(frame).from + Command(frame).size <= End
    BY <1>5, <1>8
  <2> QED
    BY <1>1, <1>4, <1>5, <1>7, <1>8, <2>1, <2>2, <2>3, CommandDone
<1>10. /\ CallTypeOK' /\ First' = First /\ End' = End /\ (Spares' <=> Spares)
       /\ \A a : Wanted(a)' = Wanted(a) /\ (PageEnd(a)' <=> PageEnd(a))
  BY <1>1, SameCall
<1>11. HalTypeOK'
  BY <1>1, <1>4, <1>6, <1>9 DEF HalTypeOK, FrameType
<1>12. DoneTo(frame.addr)'
  BY <1>1, <1>6, <1>9, <1>10 DEF DoneTo
<1>13. Underway(frame)'
  BY <1>1, <1>6, <1>10 DEF Underway
<1>14. frame' # Idle /\ frame'.op # "none"
  BY <1>1, <1>3, <1>6 DEF Idle
<1>15. Running'
  BY <1>1, <1>3, <1>6, <1>10, <1>12, <1>13 DEF Running
<1>16. Suspended' /\ AtRest'
  BY <1>1, <1>3, <1>14 DEF Suspended, AtRest
<1>17. WholePages'
  <2>1. CASE call.op # "write"
    BY <1>1, <2>1 DEF WholePages
  <2>2. CASE call.op = "write"
    <3>1. (call.op = "write")'
      BY <1>1, <2>2
    <3>2. PageEnd(frame.addr)'
      BY <1>13, <3>1 DEF Underway
    <3>3. (frame.addr \in 0 .. TotalSize)'
      BY <1>1, <1>6, <1>7, <1>8, Sizes
    <3> QED
      BY <1>10, <1>12, <3>1, <3>2, <3>3, FramePagesDoneNext
  <2> QED
    BY <2>1, <2>2
<1> QED
  BY <1>1, <1>3, <1>10, <1>11, <1>14, <1>15, <1>16, <1>17 DEF HalInv

(***************************************************************************)
(* The invariant in each of the three situations: a call runs, an          *)
(* operation is suspended, nothing is going on.                            *)
(***************************************************************************)
IsRunning ==
  /\ HalTypeOK /\ CallTypeOK
  /\ frame.op = call.op /\ Underway(frame) /\ DoneTo(frame.addr)
  /\ chip = NoCommand /\ ret = "NONE"
  /\ frame.suspend => SuspendMode /\ Spares

IsSuspended ==
  /\ HalTypeOK /\ CallTypeOK
  /\ frame = Idle /\ ret # "OK" /\ SuspendMode /\ Spares
  /\ suspendState = StateOf(chip.op)
  /\ NextCommand(chip) /\ Underway(opNext) /\ opNext.addr = chip.from + chip.size

IsAtRest ==
  /\ HalTypeOK /\ CallTypeOK /\ WholePages
  /\ frame = Idle /\ chip = NoCommand /\ suspendState = "NONE"
  /\ ret = "OK" => DoneTo(End)

LEMMA RunningHolds == IsRunning => HalInv
<1> SUFFICES ASSUME IsRunning PROVE HalInv
  OBVIOUS
<1>1. frame.op \in {"erase", "write"} /\ frame # Idle
  BY DEF IsRunning, Underway, Idle
<1>2. WholePages
  <2>1. CASE call.op = "write"
    <3>1. frame.addr \in 0 .. TotalSize /\ PageEnd(frame.addr)
      BY <2>1 DEF IsRunning, Underway, HalTypeOK, Length
    <3> QED
      BY <2>1, <3>1, FramePagesDone DEF IsRunning
  <2> QED
    BY <2>1 DEF WholePages
<1> QED
  BY <1>1, <1>2 DEF HalInv, IsRunning, Running, Suspended, AtRest, NoCommand

LEMMA SuspendedHolds == IsSuspended => HalInv
<1> SUFFICES ASSUME IsSuspended PROVE HalInv
  OBVIOUS
<1>1. chip.op \in {"erase", "write"} /\ chip # NoCommand
  BY DEF IsSuspended, Underway, NextCommand, NoCommand
<1>2. WholePages
  <2>1. CASE call.op = "write"
    <3>1. chip.from \in 0 .. TotalSize /\ PageEnd(chip.from) /\ DoneTo(chip.from)
      BY <2>1, Sizes DEF IsSuspended, NextCommand, HalTypeOK, Cell
    <3> QED
      BY <2>1, <3>1, PagesDone DEF IsSuspended
  <2> QED
    BY <2>1 DEF WholePages
<1> QED
  BY <1>1, <1>2 DEF HalInv, IsSuspended, Running, Suspended, AtRest

LEMMA AtRestHolds == IsAtRest => HalInv
  BY DEF HalInv, IsAtRest, Running, Suspended, AtRest, Idle, NoCommand

LEMMA Situations == HalInv => IsRunning \/ IsSuspended \/ IsAtRest
  BY DEF HalInv, Running, Suspended, AtRest, IsRunning, IsSuspended, IsAtRest

LEMMA RunningHoldsNext == IsRunning' => HalInv'
  BY RunningHolds, PTL

LEMMA SuspendedHoldsNext == IsSuspended' => HalInv'
  BY SuspendedHolds, PTL

LEMMA AtRestHoldsNext == IsAtRest' => HalInv'
  BY AtRestHolds, PTL

LEMMA HalInvInit == Init => HalInv
<1> SUFFICES ASSUME Init PROVE HalInv
  OBVIOUS
<1>1. HalTypeOK
  BY Sizes, BoundAssumption
     DEF Init, HalTypeOK, Cell, Length, Value, NoCommand, Idle, Position
<1>2. CallTypeOK
  BY <1>1 DEF Init, CallTypeOK, NoCall, HalTypeOK
<1>3. DoneTo(End) /\ WholePages
  <2>1. \A a \in Cell : cells[a] = Wanted(a) /\ cells[a] = before[a]
    BY Sizes DEF Init, NoCall, Wanted, InRange, Cell
  <2> QED
    BY <2>1 DEF DoneTo, WholePages, Init, NoCall
<1> QED
  BY <1>1, <1>2, <1>3, AtRestHolds DEF IsAtRest, Init

LEMMA IdleType == Idle \in FrameType
  BY Sizes, BoundAssumption DEF Idle, FrameType, Length

LEMMA RangeEndsNext ==
  CallTypeOK' => (\A a \in Nat : InRange(a) <=> First <= a /\ a < End)' /\ (First \in Nat)'
<1>1. CallTypeOK => (\A a \in Nat : InRange(a) <=> First <= a /\ a < End) /\ (First \in Nat)
  BY RangeEnds
<1> QED
  BY <1>1, PTL

\* A refused call leaves a suspended operation as it was.
LEMMA RefusedKeeps ==
  ASSUME IsSuspended, frame' = Idle, ret' = "BAD_OP", calls' \in 0 .. CallLimit,
         UNCHANGED <<cells, chip, suspendState, opNext, call, before>>
  PROVE  IsSuspended'
<1>1. /\ CallTypeOK' /\ First' = First /\ End' = End /\ (Spares' <=> Spares)
      /\ \A a : Wanted(a)' = Wanted(a) /\ (PageEnd(a)' <=> PageEnd(a))
  BY SuspendedHolds, SameCall
<1>2. HalTypeOK'
  BY IdleType DEF IsSuspended, HalTypeOK, FrameType
<1>3. NextCommand(chip)'
  BY <1>1 DEF IsSuspended, NextCommand, DoneTo
<1>4. Underway(opNext)'
  BY <1>1 DEF IsSuspended, Underway
<1> QED
  BY <1>1, <1>2, <1>3, <1>4 DEF IsSuspended

\* An interrupt while the chip works: the command is suspended in it.
LEMMA RoundSuspendedKeeps ==
  ASSUME HalInv, RoundSuspended
  PROVE  HalInv'
<1>1. /\ frame.remain > 0 /\ frame.suspend
      /\ suspendState' = StateOf(frame.op) /\ opNext' = Saved(frame)
      /\ frame' = Idle /\ ret' = "SUSPENDED"
      /\ UNCHANGED <<cells, call, before, calls>>
  BY DEF RoundSuspended, Return
<1>2. PICK w \in 1 .. WorkUnits : chip' = [Command(frame) EXCEPT !.work = w]
  BY DEF RoundSuspended
<1>3. IsRunning
  BY <1>1, Situations DEF IsSuspended, IsAtRest, Idle
<1>4. /\ Command(frame).op = frame.op /\ Command(frame).from = frame.addr
      /\ Command(frame).buf = frame.buf
      /\ Command(frame).size \in 1 .. frame.remain
      /\ NextCommand(Command(frame))
  BY <1>1, <1>3, CommandFacts DEF IsRunning
<1>5. /\ Advanced(frame) \in FrameType
      /\ Advanced(frame).addr = frame.addr + Command(frame).size
      /\ Underway(Advanced(frame))
  BY <1>1, <1>3, AdvancedFacts DEF IsRunning
<1>6. /\ frame.addr \in Nat /\ frame.remain \in Nat /\ call.op \in {"erase", "write"}
      /\ frame.addr + frame.remain = End /\ End <= TotalSize
  BY <1>3, Sizes DEF IsRunning, HalTypeOK, Length, Underway
<1>7. Spares /\ SuspendMode
  BY <1>1, <1>3 DEF IsRunning
<1>8. ~(frame.op = "erase" /\ WholeChip(frame))
  <2>1. End <= TotalSize - SectorSize
    BY <1>3, <1>7, SparesEnd DEF IsRunning
  <2>2. frame.remain < TotalSize
    BY <1>6, <2>1, Sizes
  <2> QED
    BY <1>6, <2>2, Sizes DEF WholeChip
<1>9. opNext' = Position(Advanced(frame))
  BY <1>1, <1>8 DEF Saved
<1>10. /\ opNext'.addr = Advanced(frame).addr /\ opNext'.remain = Advanced(frame).remain
       /\ opNext'.buf = Advanced(frame).buf
       /\ opNext' \in [addr : Length, buf : 0 .. (MaxLen + 1), remain : Length]
  BY <1>5, <1>9 DEF Position, FrameType
<1>11. /\ chip'.op = frame.op /\ chip'.from = frame.addr /\ chip'.buf = frame.buf
       /\ chip'.size = Command(frame).size /\ chip'.work = w
       /\ chip' = [op |-> chip'.op, from |-> chip'.from, size |-> chip'.size,
                   buf |-> chip'.buf, work |-> chip'.work]
  BY <1>2, <1>4 DEF Command
<1>12. /\ CallTypeOK' /\ First' = First /\ End' = End /\ (Spares' <=> Spares)
       /\ \A a : Wanted(a)' = Wanted(a) /\ (PageEnd(a)' <=> PageEnd(a))
  BY <1>1, SameCall
<1>13. frame.op = call.op
  BY <1>3 DEF IsRunning
<1>14. frame.buf \in 0 .. MaxLen
  <2>1. CASE call.op = "write"
    <3>1. /\ frame.buf = frame.addr - call.addr + 1 /\ call.len <= MaxLen
          /\ End = call.addr + call.len /\ call.addr \in Nat /\ call.len \in Nat
          /\ call.addr <= frame.addr
      BY <1>3, <2>1 DEF IsRunning, Underway, End, First, CallTypeOK
    <3> QED
      BY <1>1, <1>6, <3>1, BoundAssumption, Sizes
  <2>2. CASE call.op = "erase"
    BY <1>3, <2>2, BoundAssumption DEF IsRunning, Underway
  <2> QED
    BY <1>6, <2>1, <2>2
<1>15. HalTypeOK'
  <2>1. chip' \in [op : {"erase", "write", "none"}, from : Cell, size : Length,
                  buf : 0 .. MaxLen, work : 0 .. WorkUnits]
    <3>1. frame.addr \in Cell /\ Command(frame).size \in Length
      BY <1>1, <1>4, <1>6, Sizes DEF Cell, Length
    <3>2. w \in 0 .. WorkUnits
      BY BoundAssumption
    <3> QED
      BY <1>6, <1>11, <1>13, <1>14, <3>1, <3>2
  <2>2. suspendState' \in {"NONE", "ERASE", "PROGRAM"}
    BY <1>1 DEF StateOf
  <2>3. frame' \in FrameType
    BY <1>1, Sizes, BoundAssumption DEF Idle, FrameType, Length
  <2> QED
    BY <1>1, <1>3, <1>10, <2>1, <2>2, <2>3 DEF HalTypeOK, FrameType, IsRunning
<1>16. NextCommand(chip)'
  <2>1. NextCommand(Command(frame))
    BY <1>4
  <2>2. DoneTo(chip.from)'
    BY <1>1, <1>4, <1>11, <1>12, <2>1 DEF DoneTo, NextCommand
  <2> QED
    BY <1>1, <1>4, <1>11, <1>12, <2>1, <2>2 DEF NextCommand
<1>17. Underway(opNext)' /\ (opNext.addr = chip.from + chip.size)'
  BY <1>1, <1>5, <1>10, <1>11, <1>12 DEF Underway
<1>18. (frame = Idle /\ ret # "OK" /\ SuspendMode /\ Spares
        /\ suspendState = StateOf(chip.op))'
  BY <1>1, <1>7, <1>11, <1>12
<1>19. IsSuspended'
  BY <1>12, <1>15, <1>16, <1>17, <1>18 DEF IsSuspended
<1> QED
  BY <1>19, SuspendedHoldsNext

\* The loop is through: the operation is done to its end.
LEMMA FinishKeeps ==
  ASSUME HalInv, Finish
  PROVE  HalInv'
<1>1. /\ frame # Idle /\ frame.remain = 0 /\ suspendState' = "NONE"
      /\ frame' = Idle /\ ret' = "OK"
      /\ UNCHANGED <<cells, chip, opNext, call, before, calls>>
  BY DEF Finish, Return
<1>2. IsRunning
  BY <1>1, Situations DEF IsSuspended, IsAtRest
<1>3. CallTypeOK' /\ End' = End /\ \A a : Wanted(a)' = Wanted(a)
  BY <1>1, SameCall
<1>4. DoneTo(End)'
  <2>1. frame.addr = End
    BY <1>1, <1>2, Sizes DEF IsRunning, HalTypeOK, Length, Underway
  <2>2. DoneTo(End)
    BY <1>2, <2>1 DEF IsRunning
  <2> QED
    BY <1>1, <1>3, <2>2 DEF DoneTo
<1>5. WholePages'
  BY <1>1, <1>3 DEF HalInv, WholePages
<1>6. HalTypeOK'
  BY <1>1, <1>2, IdleType DEF IsRunning, HalTypeOK, FrameType
<1>7. IsAtRest'
  BY <1>1, <1>2, <1>3, <1>4, <1>5, <1>6 DEF IsAtRest, IsRunning
<1> QED
  BY <1>7, AtRestHoldsNext

-----------------------------------------------------------------------------
(***************************************************************************)
(* A call that finds nothing suspended: it is refused for its address or   *)
(* its length, with the flash as it was, or enters its loop at the first   *)
(* cell.                                                                   *)
(***************************************************************************)
LEMMA Begun ==
  ASSUME IsAtRest, NEW op \in {"erase", "write"}, NEW addr \in Nat, NEW len \in Nat, NEW f,
         call' = [op |-> op, addr |-> addr, len |-> len], before' = cells,
         calls' \in 0 .. CallLimit,
         UNCHANGED <<cells, chip, suspendState, opNext>>,
         Checked(addr, len, f),
         addr < TotalSize /\ len <= TotalSize - addr =>
           /\ f \in FrameType /\ f.op = op /\ f.addr = First'
           /\ Underway(f)'
           /\ f.suspend => SuspendMode /\ Spares'
  PROVE  HalInv'
<1>1. CallTypeOK'
  BY DEF IsAtRest, CallTypeOK, HalTypeOK
<1>2. \A a \in Cell : cells'[a] = before'[a]
  OBVIOUS
<1>3. CASE addr < TotalSize /\ len <= TotalSize - addr
  <2>1. frame' = f /\ ret' = "NONE"
    BY <1>3, Sizes DEF Checked
  <2>2. f \in FrameType /\ f.op = op /\ f.addr = First' /\ Underway(f)'
        /\ (f.suspend => SuspendMode /\ Spares')
    BY <1>3
  <2>3. DoneTo(First)'
    <3>1. (\A a \in Nat : InRange(a) <=> First <= a /\ a < End)' /\ (First \in Nat)'
      BY <1>1, RangeEndsNext
    <3>2. ASSUME NEW a \in Cell, a < First' PROVE Wanted(a)' = before'[a]
      BY <3>1, <3>2, Sizes DEF Wanted, Cell
    <3> QED
      BY <1>2, <3>2 DEF DoneTo
  <2>4. DoneTo(frame.addr)'
    BY <2>1, <2>2, <2>3
  <2>5. Underway(frame)'
    BY <2>1, <2>2
  <2>6. HalTypeOK'
    BY <2>1, <2>2 DEF IsAtRest, HalTypeOK, FrameType
  <2>7. IsRunning'
    BY <1>1, <2>1, <2>2, <2>4, <2>5, <2>6 DEF IsRunning, IsAtRest
  <2> QED
    BY <2>7, RunningHoldsNext
<1>4. CASE ~(addr < TotalSize /\ len <= TotalSize - addr)
  <2>1. frame' = Idle /\ ret' \in {"BAD_ADDR", "BAD_LEN"}
    BY <1>4, Sizes DEF Checked, Return
  <2>2. HalTypeOK'
    BY <2>1, IdleType DEF IsAtRest, HalTypeOK, FrameType
  <2>3. WholePages'
    <3>1. 0 % PageSize = 0 /\ 0 \in 0 .. TotalSize
      BY Sizes, ModZero, 0 = PageSize * 0
    <3>2. \A a \in Cell : cells'[a] = IF a < 0 THEN Wanted(a)' ELSE before'[a]
      BY <1>2, Sizes DEF Cell
    <3> QED
      BY <3>1, <3>2 DEF WholePages
  <2>4. IsAtRest'
    BY <1>1, <2>1, <2>2, <2>3 DEF IsAtRest
  <2> QED
    BY <2>4, AtRestHoldsNext
<1> QED
  BY <1>3, <1>4

\* The parts of a call that starts an operation.
LEMMA StartCases ==
  ASSUME HalInv, NEW op, NEW r, NEW suspend \in BOOLEAN, Start(op, r, suspend)
  PROVE  /\ calls' \in 0 .. CallLimit
         /\ UNCHANGED <<cells, chip, suspendState, opNext>>
         /\ suspend => r \in SuspendRange
         /\ \/ HalInv'
            \/ /\ IsAtRest
               /\ call' = [op |-> op, addr |-> r[1], len |-> r[2]] /\ before' = cells
               /\ IF op = "erase" THEN EraseInt(r[1], r[2], suspend /\ SuspendMode)
                  ELSE WriteInt(r[1], 1, r[2], suspend /\ SuspendMode)
<1>1. /\ frame = Idle /\ calls < CallLimit /\ calls' = calls + 1
      /\ UNCHANGED <<cells, chip, suspendState, opNext>>
      /\ suspend => r \in SuspendRange
  BY DEF Start
<1>2. calls' \in 0 .. CallLimit
  BY <1>1, BoundAssumption DEF HalInv, HalTypeOK
<1>3. CASE suspendState # "NONE"
  <2>1. frame' = Idle /\ ret' = "BAD_OP" /\ UNCHANGED <<call, before>>
    BY <1>3 DEF Start, Return
  <2>2. IsSuspended
    BY <1>1, <1>3, Situations DEF IsRunning, IsAtRest, Underway, Idle
  <2>3. IsSuspended'
    BY <1>1, <1>2, <2>1, <2>2, RefusedKeeps
  <2> QED
    BY <1>1, <1>2, <2>3, SuspendedHoldsNext
<1>4. CASE suspendState = "NONE"
  <2>1. IsAtRest
    BY <1>1, <1>4, Situations DEF IsRunning, IsSuspended, Underway, Idle, StateOf
  <2> QED
    BY <1>1, <1>2, <1>4, <2>1 DEF Start
<1> QED
  BY <1>3, <1>4

\* An erase is rounded out to whole sectors.
LEMMA WholeSectors ==
  ASSUME NEW addr \in Nat, NEW len \in Nat
  PROVE  LET skew == addr % SectorSize
         IN  /\ skew \in Nat /\ addr - skew \in Nat
             /\ addr - skew = RoundDown(addr, SectorSize)
             /\ (addr - skew) % SectorSize = 0
             /\ RoundUp(len + skew, SectorSize) \in Nat
             /\ RoundUp(len + skew, SectorSize) % SectorSize = 0
             /\ RoundUp(addr + len, SectorSize)
                  = (addr - skew) + RoundUp(len + skew, SectorSize)
<1> DEFINE skew == addr % SectorSize
           base == RoundDown(addr, SectorSize)
<1>1. skew \in 0 .. (SectorSize - 1)
  BY Sizes, DivMod
<1>2. base \in Nat /\ base % SectorSize = 0 /\ base <= addr
  BY Sizes, RoundDownFacts
<1>3. base = addr - skew
  BY DEF RoundDown
<1> HIDE DEF skew, base
<1>4. skew \in Nat /\ len + skew \in Nat /\ base + (len + skew) = addr + len
  BY <1>1, <1>2, <1>3, Sizes
<1>5. /\ RoundUp(len + skew, SectorSize) \in Nat
      /\ RoundUp(len + skew, SectorSize) % SectorSize = 0
  BY <1>4, Sizes, RoundUpFacts
<1>6. RoundUp(base + (len + skew), SectorSize) = base + RoundUp(len + skew, SectorSize)
  BY <1>2, <1>4, Sizes, RoundUpShift
<1> QED
  BY <1>2, <1>3, <1>4, <1>5, <1>6 DEF skew, base

LEMMA EraseKeeps ==
  ASSUME HalInv, NEW r \in EraseRange, NEW suspend \in BOOLEAN, EraseSuspend(r, suspend)
  PROVE  HalInv'
<1> DEFINE addr == r[1]
           len == r[2]
           skew == addr % SectorSize
           f == [op |-> "erase", addr |-> addr - skew, buf |-> 0,
                 remain |-> RoundUp(len + skew, SectorSize),
                 suspend |-> suspend /\ SuspendMode]
<1>1. Start("erase", r, suspend)
  BY DEF EraseSuspend
<1>2. addr \in Nat /\ len \in Nat
  BY RangeAssumption
<1>3. CASE HalInv'
  BY <1>3
<1>4. CASE ~HalInv'
  <2>1. /\ IsAtRest
        /\ call' = [op |-> "erase", addr |-> addr, len |-> len] /\ before' = cells
        /\ EraseInt(addr, len, suspend /\ SuspendMode)
        /\ calls' \in 0 .. CallLimit
        /\ UNCHANGED <<cells, chip, suspendState, opNext>>
        /\ suspend => r \in SuspendRange
    BY <1>1, <1>4, StartCases
  <2>2. Checked(addr, len, f)
    BY <2>1 DEF EraseInt
  <2>3. ASSUME addr < TotalSize, len <= TotalSize - addr
        PROVE  /\ f \in FrameType /\ f.op = "erase" /\ f.addr = First'
               /\ Underway(f)'
               /\ f.suspend => SuspendMode /\ Spares'
    <3>1. /\ skew \in Nat /\ addr - skew \in Nat /\ addr - skew = RoundDown(addr, SectorSize)
          /\ (addr - skew) % SectorSize = 0
          /\ RoundUp(len + skew, SectorSize) \in Nat
          /\ RoundUp(len + skew, SectorSize) % SectorSize = 0
          /\ RoundUp(addr + len, SectorSize) = (addr - skew) + RoundUp(len + skew, SectorSize)
      BY <1>2, WholeSectors
    <3>3. addr + len \in Nat
      BY <1>2
    <3>5. RoundUp(addr + len, SectorSize) <= TotalSize
      <4>1. addr + len <= TotalSize
        BY <1>2, <2>3, Sizes
      <4> QED
        BY <3>3, <4>1, Sizes, RoundUpLeast
    <3>6. /\ call'.op = "erase" /\ call'.addr = addr /\ call'.len = len
          /\ First' = addr - skew /\ End' = RoundUp(addr + len, SectorSize)
      BY <2>1, <3>1 DEF First, End
    <3>7. suspend /\ SuspendMode => SuspendMode /\ Spares'
      BY <2>1, <3>6, SuspendAssumption DEF Spares
    <3> HIDE DEF skew
    <3>8. /\ f.op = "erase" /\ f.addr = addr - skew /\ f.buf = 0
          /\ f.remain = RoundUp(len + skew, SectorSize)
          /\ f.suspend = (suspend /\ SuspendMode)
      BY Zenon
    <3>9. f \in FrameType
      BY <3>1, <3>3, <3>5, Sizes, BoundAssumption DEF FrameType, Length
    <3>10. Underway(f)'
      <4>1. /\ First' <= f.addr /\ f.addr + f.remain = End' /\ End' <= TotalSize
            /\ f.buf = 0 /\ f.addr % SectorSize = 0 /\ f.remain % SectorSize = 0
        BY <3>1, <3>3, <3>5, <3>6, <3>8
      <4> HIDE DEF f
      <4> QED
        BY <3>6, <4>1 DEF Underway
    <3> QED
      BY <3>6, <3>7, <3>8, <3>9, <3>10
  <2> HIDE DEF f
  <2> QED
    BY <1>2, <2>1, <2>2, <2>3, Begun
<1> QED
  BY <1>3, <1>4

LEMMA WriteKeeps ==
  ASSUME HalInv, NEW r \in WriteRange, NEW suspend \in BOOLEAN, WriteSuspend(r, suspend)
  PROVE  HalInv'
<1> DEFINE addr == r[1]
           len == r[2]
           f == [op |-> "write", addr |-> addr, buf |-> 1, remain |-> len,
                 suspend |-> suspend /\ SuspendMode]
<1>1. /\ Start("write", r, suspend)
      /\ \A a \in Cell \cap addr .. (addr + len - 1) : cells[a] = Erased
  BY DEF WriteSuspend
<1>2. addr \in Nat /\ len \in Nat /\ len <= MaxLen
  BY RangeAssumption, BoundAssumption
<1>3. CASE HalInv'
  BY <1>3
<1>4. CASE ~HalInv'
  <2>1. /\ IsAtRest
        /\ call' = [op |-> "write", addr |-> addr, len |-> len] /\ before' = cells
        /\ WriteInt(addr, 1, len, suspend /\ SuspendMode)
        /\ calls' \in 0 .. CallLimit
        /\ UNCHANGED <<cells, chip, suspendState, opNext>>
        /\ suspend => r \in SuspendRange
    BY <1>1, <1>4, StartCases
  <2>2. Checked(addr, len, f)
    BY <2>1 DEF WriteInt
  <2>3. ASSUME addr < TotalSize, len <= TotalSize - addr
        PROVE  /\ f \in FrameType /\ f.op = "write" /\ f.addr = First'
               /\ Underway(f)'
               /\ f.suspend => SuspendMode /\ Spares'
    <3>1. /\ call'.op = "write" /\ call'.addr = addr /\ call'.len = len
          /\ First' = addr /\ End' = addr + len
      BY <2>1 DEF First, End
    <3>2. suspend /\ SuspendMode => SuspendMode /\ Spares'
      BY <2>1, <3>1, SuspendAssumption DEF Spares
    <3>3. /\ f.op = "write" /\ f.addr = addr /\ f.buf = 1 /\ f.remain = len
          /\ f.suspend = (suspend /\ SuspendMode)
      BY Zenon
    <3>4. f \in FrameType
      BY <1>2, <2>3, Sizes, BoundAssumption DEF FrameType, Length
    <3>5. \A a \in addr .. (addr + len - 1) : before'[a] = Erased
      BY <1>1, <1>2, <2>1, <2>3, Sizes DEF Cell
    <3>6. Underway(f)'
      <4> HIDE DEF f
      <4> QED
        BY <1>2, <2>3, <3>1, <3>3, <3>5, Sizes DEF Underway, PageEnd
    <3> QED
      BY <3>1, <3>2, <3>3, <3>4, <3>6
  <2> HIDE DEF f
  <2> QED
    BY <1>2, <2>1, <2>2, <2>3, Begun
<1> QED
  BY <1>3, <1>4

(***************************************************************************)
(* The resume of a suspended operation: refused, suspended again, or the   *)
(* command in the chip is finished and the loop entered with op_next_*.    *)
(***************************************************************************)
LEMMA GoesOn ==
  ASSUME IsSuspended, NEW op, NEW suspend \in BOOLEAN, op = chip.op,
         cells' = CarriedOut(chip), chip' = NoCommand,
         IF op = "erase" THEN EraseInt(opNext.addr, opNext.remain, suspend)
         ELSE WriteInt(opNext.addr, opNext.buf, opNext.remain, suspend),
         UNCHANGED <<suspendState, opNext, call, before, calls>>
  PROVE  IsRunning'
<1>1. /\ HalTypeOK /\ CallTypeOK /\ SuspendMode /\ Spares
      /\ NextCommand(chip) /\ Underway(opNext) /\ opNext.addr = chip.from + chip.size
  BY DEF IsSuspended
<1>2. /\ chip.from \in Nat /\ chip.size \in Nat /\ opNext.addr \in Nat /\ opNext.remain \in Nat
      /\ chip.op = call.op /\ call.op \in {"erase", "write"} /\ opNext.buf \in 0 .. (MaxLen + 1)
      /\ opNext.addr + opNext.remain = End
  BY <1>1, Sizes DEF HalTypeOK, Cell, Length, NextCommand, Underway
<1>3. End \in Nat /\ End < TotalSize
  BY <1>1, RangeEnds, SparesEnd
<1>4. /\ \A a \in Cell : cells'[a] = IF a < opNext.addr THEN Wanted(a) ELSE before[a]
      /\ cells' \in [Cell -> Value]
  <2>1. chip.from + chip.size <= End /\ End <= TotalSize
    BY <1>1, <1>2, <1>3, Sizes
  <2>2. chip.op = "write" =>
          call.len <= MaxLen /\ \A a \in call.addr .. (End - 1) : before[a] = Erased
    BY <1>1, <1>2 DEF Underway
  <2> QED
    BY <1>1, <1>2, <2>1, <2>2, CommandDone
<1>5. opNext.addr < TotalSize /\ ~(opNext.remain > TotalSize - opNext.addr)
  BY <1>2, <1>3, Sizes
<1>6. /\ frame'.op = call.op /\ frame'.addr = opNext.addr /\ frame'.remain = opNext.remain
      /\ frame'.buf = opNext.buf /\ frame' \in FrameType /\ ret' = "NONE"
  <2>1. opNext.addr \in Length /\ opNext.remain \in Length
    BY <1>1 DEF HalTypeOK
  <2>2. CASE op = "erase"
    <3>1. opNext.addr % SectorSize = 0 /\ opNext.remain % SectorSize = 0 /\ opNext.buf = 0
      BY <1>1, <1>2, <2>2 DEF Underway
    <3>2. /\ opNext.addr - (opNext.addr % SectorSize) = opNext.addr
          /\ opNext.remain + (opNext.addr % SectorSize) = opNext.remain
      BY <1>2, <3>1
    <3>3. opNext.remain < opNext.remain + SectorSize /\ opNext.remain <= opNext.remain
      BY <1>2, Sizes
    <3>4. RoundUp(opNext.remain, SectorSize) = opNext.remain
      BY <1>2, <3>1, <3>3, Sizes, RoundUpUnique
    <3>5. Checked(opNext.addr, opNext.remain,
                  [op |-> "erase", addr |-> opNext.addr, buf |-> 0,
                   remain |-> opNext.remain, suspend |-> suspend])
      BY <2>2, <3>2, <3>4 DEF EraseInt
    <3>6. frame' = [op |-> "erase", addr |-> opNext.addr, buf |-> 0,
                    remain |-> opNext.remain, suspend |-> suspend] /\ ret' = "NONE"
      BY <1>2, <1>5, <3>5, Sizes DEF Checked
    <3> QED
      BY <1>2, <2>1, <2>2, <3>1, <3>6, BoundAssumption DEF FrameType
  <2>3. CASE op # "erase"
    <3>1. frame' = [op |-> "write", addr |-> opNext.addr, buf |-> opNext.buf,
                    remain |-> opNext.remain, suspend |-> suspend] /\ ret' = "NONE"
      BY <1>2, <1>5, <2>3, Sizes DEF WriteInt, Checked
    <3> QED
      BY <1>2, <2>1, <2>3, <3>1 DEF FrameType
  <2> QED
    BY <2>2, <2>3
<1>7. /\ CallTypeOK' /\ First' = First /\ End' = End /\ (Spares' <=> Spares)
      /\ \A a : Wanted(a)' = Wanted(a) /\ (PageEnd(a)' <=> PageEnd(a))
  BY SuspendedHolds, SameCall
<1>8. HalTypeOK'
  <2>1. chip' \in [op : {"erase", "write", "none"}, from : Cell, size : Length,
                  buf : 0 .. MaxLen, work : 0 .. WorkUnits]
    BY Sizes, BoundAssumption DEF NoCommand, Cell, Length
  <2> QED
    BY <1>1, <1>4, <1>6, <2>1 DEF HalTypeOK, FrameType
<1>9. DoneTo(frame.addr)'
  BY <1>4, <1>6, <1>7 DEF DoneTo
<1>10. Underway(frame)'
  BY <1>1, <1>6, <1>7 DEF Underway
<1> QED
  BY <1>1, <1>6, <1>7, <1>8, <1>9, <1>10 DEF IsRunning

LEMMA SuspendedAgain ==
  ASSUME IsSuspended, ResumedSuspended, Return("SUSPENDED"),
         UNCHANGED <<cells, suspendState, opNext, call, before, calls>>
  PROVE  IsSuspended'
<1>1. PICK w \in 1 .. (chip.work - 1) : chip' = [chip EXCEPT !.work = w]
  BY DEF ResumedSuspended
<1>2. frame' = Idle /\ ret' = "SUSPENDED"
  BY DEF Return
<1>3. chip \in [op : {"erase", "write", "none"}, from : Cell, size : Length,
                buf : 0 .. MaxLen, work : 0 .. WorkUnits]
  BY DEF IsSuspended, HalTypeOK
<1>4. w \in 0 .. WorkUnits
  BY <1>1, <1>3, BoundAssumption
<1>5. /\ chip'.op = chip.op /\ chip'.from = chip.from /\ chip'.size = chip.size
      /\ chip'.buf = chip.buf
      /\ chip' \in [op : {"erase", "write", "none"}, from : Cell, size : Length,
                    buf : 0 .. MaxLen, work : 0 .. WorkUnits]
  BY <1>1, <1>3, <1>4
<1>6. /\ CallTypeOK' /\ First' = First /\ End' = End /\ (Spares' <=> Spares)
      /\ \A a : Wanted(a)' = Wanted(a) /\ (PageEnd(a)' <=> PageEnd(a))
  BY SuspendedHolds, SameCall
<1>7. HalTypeOK'
  BY <1>2, <1>5, IdleType DEF IsSuspended, HalTypeOK, FrameType
<1>8. NextCommand(chip)'
  BY <1>5, <1>6 DEF IsSuspended, NextCommand, DoneTo
<1>9. Underway(opNext)'
  BY <1>6 DEF IsSuspended, Underway
<1> QED
  BY <1>2, <1>5, <1>6, <1>7, <1>8, <1>9 DEF IsSuspended

LEMMA ResumeKeeps ==
  ASSUME HalInv, NEW op \in {"erase", "write"}, NEW suspend \in BOOLEAN, Resume(op, suspend)
  PROVE  HalInv'
<1>1. frame = Idle /\ UNCHANGED <<suspendState, opNext, call, before, calls>>
  BY DEF Resume
<1>2. IsSuspended \/ IsAtRest
  BY <1>1, Situations DEF IsRunning, Underway, Idle
<1>3. CASE Return("BAD_OP") /\ UNCHANGED <<cells, chip>>
  <2>1. frame' = Idle /\ ret' = "BAD_OP" /\ calls' \in 0 .. CallLimit
    BY <1>1, <1>3 DEF Return, HalInv, HalTypeOK
  <2>2. CASE IsSuspended
    BY <1>1, <1>3, <2>1, <2>2, RefusedKeeps, SuspendedHoldsNext
  <2>3. CASE IsAtRest
    <3>1. CallTypeOK' /\ \A a : Wanted(a)' = Wanted(a)
      BY <1>1, SameCall
    <3>2. HalTypeOK'
      BY <1>1, <1>3, <2>1, <2>3, IdleType DEF IsAtRest, HalTypeOK, FrameType
    <3>3. WholePages'
      BY <1>1, <1>3, <2>3, <3>1 DEF IsAtRest, WholePages
    <3> QED
      BY <1>1, <1>3, <2>1, <2>3, <3>1, <3>2, <3>3, AtRestHoldsNext DEF IsAtRest
  <2> QED
    BY <1>2, <2>2, <2>3
<1>4. CASE suspendState = StateOf(op) /\ ResumedSuspended /\ Return("SUSPENDED")
           /\ UNCHANGED cells
  <2>1. IsSuspended
    BY <1>2, <1>4 DEF IsAtRest, StateOf
  <2> QED
    BY <1>1, <1>4, <2>1, SuspendedAgain, SuspendedHoldsNext
<1>5. CASE /\ suspendState = StateOf(op) /\ cells' = CarriedOut(chip) /\ chip' = NoCommand
           /\ IF op = "erase" THEN EraseInt(opNext.addr, opNext.remain, suspend)
              ELSE WriteInt(opNext.addr, opNext.buf, opNext.remain, suspend)
  <2>1. IsSuspended
    BY <1>2, <1>5 DEF IsAtRest, StateOf
  <2>2. op = chip.op
    BY <1>5, <2>1 DEF IsSuspended, NextCommand, Underway, StateOf
  <2> QED
    BY <1>1, <1>5, <2>1, <2>2, GoesOn, RunningHoldsNext
<1> QED
  BY <1>3, <1>4, <1>5 DEF Resume

-----------------------------------------------------------------------------
(***************************************************************************)
(* The invariant is inductive.                                             *)
(***************************************************************************)
LEMMA HalInvNext == HalInv /\ [Next]_vars => HalInv'
<1> SUFFICES ASSUME HalInv, [Next]_vars PROVE HalInv'
  OBVIOUS
<1>1. ASSUME NEW r \in EraseRange, NEW suspend \in BOOLEAN, EraseSuspend(r, suspend)
      PROVE  HalInv'
  BY <1>1, EraseKeeps
<1>2. ASSUME NEW r \in WriteRange, NEW suspend \in BOOLEAN, WriteSuspend(r, suspend)
      PROVE  HalInv'
  BY <1>2, WriteKeeps
<1>3. ASSUME NEW suspend \in BOOLEAN, EraseResume(suspend) \/ WriteResume(suspend)
      PROVE  HalInv'
  BY <1>3, ResumeKeeps DEF EraseResume, WriteResume
<1>4. CASE RoundDone
  BY <1>4, RoundDoneKeeps
<1>5. CASE RoundSuspended
  BY <1>5, RoundSuspendedKeeps
<1>6. CASE Finish
  BY <1>6, FinishKeeps
<1>7. CASE UNCHANGED vars
  <2>1. UNCHANGED <<cells, chip, suspendState, opNext, frame, ret, call, before, calls>>
    BY <1>7 DEF vars
  <2>2. /\ CallTypeOK' /\ First' = First /\ End' = End /\ (Spares' <=> Spares)
        /\ \A a : Wanted(a)' = Wanted(a) /\ (PageEnd(a)' <=> PageEnd(a))
    BY <2>1, SameCall
  <2>3. HalTypeOK'
    BY <2>1 DEF HalInv, HalTypeOK
  <2>4. Running'
    BY <2>1, <2>2 DEF HalInv, Running, Underway, DoneTo
  <2>5. Suspended'
    BY <2>1, <2>2 DEF HalInv, Suspended, NextCommand, Underway, DoneTo
  <2>6. AtRest'
    BY <2>1, <2>2 DEF HalInv, AtRest, DoneTo
  <2>7. WholePages'
    BY <2>1, <2>2 DEF HalInv, WholePages
  <2> QED
    BY <2>1, <2>2, <2>3, <2>4, <2>5, <2>6, <2>7 DEF HalInv
<1> QED
  BY <1>1, <1>2, <1>3, <1>4, <1>5, <1>6, <1>7 DEF Next

(***************************************************************************)
(* The loop variables, op_next_* and the command in the chip always fit    *)
(* together, and with what has been done to the flash.                     *)
(***************************************************************************)
THEOREM HalInvariant == Spec => []HalInv
  BY HalInvInit, HalInvNext, PTL DEF Spec

(***************************************************************************)
(* Between two calls suspend_state tells what is suspended in the chip,    *)
(* the loop variables never leave the chip or wrap below zero, and the     *)
(* rest of a suspended operation is not refused when it is resumed.        *)
(***************************************************************************)
THEOREM SuspendStateTheorem == Spec => []SuspendStateTells
<1>1. HalInv => SuspendStateTells
  BY DEF HalInv, SuspendStateTells, Suspended, AtRest
<1> QED
  BY <1>1, HalInvariant, PTL

(***************************************************************************)
(* An operation the hal reports done has done exactly what was asked for,  *)
(* however often and wherever it was suspended.                            *)
(***************************************************************************)
THEOREM DoneTheorem == Spec => []DoneIsDone
<1>1. HalInv => DoneIsDone
  BY DoneMeans DEF HalInv, DoneIsDone, Running, Suspended, AtRest
<1> QED
  BY <1>1, HalInvariant, PTL

(***************************************************************************)
(* An unfinished write has done a first part of its pages and nothing of   *)
(* the others.                                                             *)
(***************************************************************************)
THEOREM WholePagesTheorem == Spec => []WholePages
<1>1. HalInv => WholePages
  BY DEF HalInv
<1> QED
  BY <1>1, HalInvariant, PTL

=============================================================================
