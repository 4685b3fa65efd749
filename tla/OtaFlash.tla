------------------------------ MODULE OtaFlash ------------------------------
(***************************************************************************)
(* The flash of one earbud as the firmware update of ibrt_ota sees it: the *)
(* area the new image is written to, the upgrade log and the boot          *)
(* information.  The image is cut into pages, the smallest amount the      *)
(* phone sends; a sector of the flash and a segment of the transfer are a  *)
(* number of pages each.                                                   *)
(***************************************************************************)
EXTENDS Integers, Sequences, SequencesExt, FiniteSetsExt

CONSTANTS Image,        \* the images there are
          Total,        \* pages of an image
          SectorLen,    \* pages of a flash sector and of the data buffer
          LogLen        \* entries of the upgrade log

ASSUME OtaFlashAssumption ==
  /\ {Total, SectorLen, LogLen} \subseteq Nat \ {0}
  /\ Image \cap {"blank", "garbled", "none", "normal"} = {}

Page == 0..(Total - 1)

\* The content of a page that is erased or spoilt, and of a number in the log.
Blank == "blank"
Garbled == "garbled"
NoNumber == 0
GarbledNumber == -1

\* Programming flash that is not blank with something else spoils it.
Burn(old, new) == IF old \in {Blank, new} THEN new ELSE Garbled

BurnNumber(old, new) == IF old \in {NoNumber, new} THEN new ELSE GarbledNumber

SectorPages(k) == {p \in Page : p \div SectorLen = k}

EmptyLog == [i \in 1..LogLen |-> NoNumber]

(***************************************************************************)
(* magic: the first word of the area is NORMAL_BOOT.  code, hdr and log    *)
(* are the upgrade log: randomCode, totalImageSize with crc32OfImage, and  *)
(* upgradeSize.  boot: the boot information, NORMAL_BOOT or the image to   *)
(* copy.                                                                   *)
(***************************************************************************)
Flash == [area: [Page -> Image \cup {Blank, Garbled}],
          magic: BOOLEAN,
          code: Nat \cup {GarbledNumber},
          hdr: Image \cup {"none", Garbled},
          log: [1..LogLen -> 0..Total \cup {GarbledNumber}],
          boot: Image \cup {"none", "normal"}]

Whole(f, i) == \A p \in Page : f.area[p] = i

-----------------------------------------------------------------------------
(***************************************************************************)
(* The operations queued at norflash_api, which does them one after the    *)
(* other.                                                                  *)
(***************************************************************************)
EraseSector(k) == [op |-> "erase", at |-> k]
Program(p, data) == [op |-> "program", at |-> p, data |-> data]
Mark(data) == [op |-> "mark", data |-> data]
EraseLog == [op |-> "eraseLog"]
LogCode(c) == [op |-> "code", code |-> c]
LogHdr(i) == [op |-> "hdr", img |-> i]
LogEntry(i, n) == [op |-> "entry", at |-> i, size |-> n]
EraseBoot == [op |-> "eraseBoot"]
SetBoot(v) == [op |-> "boot", boot |-> v]

IsErase(o) == o.op \in {"erase", "eraseLog", "eraseBoot"}

Spread(area, P, c) == [p \in Page |-> IF p \in P THEN c ELSE area[p]]

Programmed(area, at, data) ==
  [p \in Page |-> IF p \in at..(at + Len(data) - 1)
                  THEN Burn(area[p], data[p - at + 1]) ELSE area[p]]

Apply(o, f) ==
  CASE o.op = "erase" -> [f EXCEPT !.area = Spread(@, SectorPages(o.at), Blank),
                                   !.magic = @ /\ o.at # 0]
    [] o.op = "program" -> [f EXCEPT !.area = Programmed(@, o.at, o.data)]
    [] o.op = "mark" -> [f EXCEPT !.area = Programmed(@, 0, o.data), !.magic = TRUE]
    [] o.op = "eraseLog" -> [f EXCEPT !.code = NoNumber, !.hdr = "none", !.log = EmptyLog]
    [] o.op = "code" -> [f EXCEPT !.code = BurnNumber(@, o.code)]
    [] o.op = "hdr" -> [f EXCEPT !.hdr = IF @ \in {"none", o.img} THEN o.img ELSE Garbled]
    [] o.op = "entry" -> [f EXCEPT !.log[o.at] = BurnNumber(@, o.size)]
    [] o.op = "eraseBoot" -> [f EXCEPT !.boot = "none"]
    [] o.op = "boot" -> [f EXCEPT !.boot = o.boot]

(***************************************************************************)
(* What a power loss inside an operation leaves.  A torn sector or page of *)
(* the image is garbled; the few bytes of the log and of the boot          *)
(* information are either there or not.                                    *)
(***************************************************************************)
Torn(o, f) ==
  CASE o.op = "erase" -> [f EXCEPT !.area = Spread(@, SectorPages(o.at), Garbled),
                                   !.magic = @ /\ o.at # 0]
    [] o.op = "program" ->
         [f EXCEPT !.area = Spread(@, o.at..(o.at + Len(o.data) - 1), Garbled)]
    [] o.op = "mark" -> [f EXCEPT !.area = Spread(@, SectorPages(0), Garbled)]
    [] OTHER -> f

-----------------------------------------------------------------------------
(***************************************************************************)
(* BesOtaErase looks at the chip, not at what is queued, and queues        *)
(* nothing for a blank sector.                                             *)
(***************************************************************************)
EraseOps(k, f) ==
  IF \A p \in SectorPages(k) : f.area[p] = Blank THEN <<>> ELSE <<EraseSector(k)>>

EraseLogOps(f) ==
  IF f.code = NoNumber /\ f.hdr = "none" /\ f.log = EmptyLog THEN <<>> ELSE <<EraseLog>>

(***************************************************************************)
(* ota_control_flush_data_to_flash: what lies before the next sector       *)
(* boundary is programmed as it is, a sector that begins in the data is    *)
(* erased first.  The data is at most a sector long.                       *)
(***************************************************************************)
FlushOps(at, data, f) ==
  LET pre == Min({(SectorLen - (at % SectorLen)) % SectorLen, Len(data)})
  IN  (IF pre > 0 THEN <<Program(at, SubSeq(data, 1, pre))>> ELSE <<>>)
        \o (IF pre < Len(data)
            THEN Append(EraseOps((at + pre) \div SectorLen, f),
                        Program(at + pre, SubSeq(data, pre + 1, Len(data))))
            ELSE <<>>)

(***************************************************************************)
(* erase_segment: whole sectors, from the boundary below the segment to    *)
(* one more than the segment reaches into.                                 *)
(***************************************************************************)
EraseSegmentOps(at, len, f) ==
  LET first == at \div SectorLen
      count == ((at % SectorLen) + len) \div SectorLen + 1
  IN  FlattenSeq([i \in 1..count |-> EraseOps(first + i - 1, f)])

(***************************************************************************)
(* app_update_ota_boot_info erases the sector and writes the information.  *)
(***************************************************************************)
BootOps(v, f) == (IF f.boot = "none" THEN <<>> ELSE <<EraseBoot>>) \o <<SetBoot(v)>>

(***************************************************************************)
(* get_upgradeSize_log looks for the last entry of the log by bisection.   *)
(***************************************************************************)
LastEntry(f) == Max({0} \cup {i \in 1..LogLen : f.log[i] # NoNumber})

(***************************************************************************)
(* ota_upgradeSize_log: after the last entry the log starts again, with    *)
(* the head it had.  n is the entry after the one written last.            *)
(***************************************************************************)
LogEntryOps(n, size, f) ==
  IF n <= LogLen THEN <<LogEntry(n, size)>>
  ELSE EraseLogOps(f) \o <<LogCode(f.code), LogHdr(f.hdr), LogEntry(1, size)>>

=============================================================================
