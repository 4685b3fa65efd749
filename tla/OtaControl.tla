----------------------------- MODULE OtaControl -----------------------------
(***************************************************************************)
(* services/ibrt_ota/src/ota_control.cpp: how an earbud handles the        *)
(* packets of a firmware update.  Both earbuds of a pair hear every packet *)
(* of the phone and write the image to their own flash; only the master    *)
(* answers, when it has handled the packet itself and the slave has told   *)
(* it the same over the link between the two (module OtaUpgrade).          *)
(*                                                                         *)
(* A packet stays at the head of the inbox until its handler returns.  A   *)
(* handler is cut where it waits for the flash.  The checks of sizes and   *)
(* offsets, which a configured bud and an image that fits its area pass,   *)
(* are left out, as are the role switch, the packets that only read, and   *)
(* the clearing of the user data.                                          *)
(***************************************************************************)
EXTENDS OtaFlash

CONSTANT New        \* the image the phone sends

ASSUME NewAssumption == New \in Image

Bud == {"master", "slave"}

MAX_SEG_VERIFY_RETEY == 3

OTA_RESULT_ERR_RECV_SIZE == 2
OTA_RESULT_ERR_SEG_VERIFY == 4

VARIABLES
  flash,        \* [Bud -> Flash]
  pend,         \* what norflash_api has still to do
  ram,          \* ota_control_env and the statics of the handlers
  inbox,        \* the packets a bud has received and not handled
  tws,          \* the master's ibrt_ota_cmd_type, errOtaCode, twsBreakPoint,
                \* ota_pkt_sync_cache and isInBesOtaState
  toMaster,     \* commands of the slave
  link,         \* the buds are connected to each other
  answer        \* the last answer to the phone

controlVars == <<flash, pend, ram, inbox, tws, toMaster, link, answer>>

(***************************************************************************)
(* on: isOTAInProgress.  img: the total size and checksum, "none" when     *)
(* they are 0.  buf, received, seg: the pages not yet programmed, those    *)
(* received, and those before the segment.  bp, resume: the break point    *)
(* and whether to go on there.  entry: entries of the log in use (i_log +  *)
(* 1).  pending, permission: the image is verified, the phone has asked    *)
(* for it.  reset: a reset is due.                                         *)
(***************************************************************************)
ColdRam ==
  [stage |-> "idle", on |-> FALSE, img |-> "none", buf |-> <<>>,
   received |-> 0, seg |-> 0, bp |-> 0, resume |-> FALSE, entry |-> 0,
   pending |-> FALSE, permission |-> FALSE, retry |-> MAX_SEG_VERIFY_RETEY, reset |-> FALSE]

Flushed(b) == pend[b] = <<>>
ErasesDone(b) == \A i \in DOMAIN pend[b] : ~IsErase(pend[b][i])

Handles(b, type) ==
  inbox[b] # <<>> /\ Head(inbox[b]).type = type /\ ram[b].stage = "idle"

Waits(b, stage) == ram[b].stage = stage /\ Flushed(b)

Queue(b, ops) == pend' = [pend EXCEPT ![b] = @ \o ops]
Answer(kind, val) == answer' = [kind |-> kind, val |-> val]

\* The handler returns, leaving r in RAM, or goes on to its next stage.
Returns(b, r) ==
  /\ ram' = [ram EXCEPT ![b] = [r EXCEPT !.stage = "idle"]]
  /\ inbox' = [inbox EXCEPT ![b] = Tail(@)]

GoesOn(b, r, stage) ==
  /\ ram' = [ram EXCEPT ![b] = [r EXCEPT !.stage = stage]]
  /\ UNCHANGED inbox

(***************************************************************************)
(* ota_tws_send_handle and tws_breakPoint_confirm: the master notes the    *)
(* kind of answer it is ready to give, the slave sends a command.          *)
(***************************************************************************)
TellsFrom(b, t, cmd, err) ==
  IF b = "master"
  THEN /\ tws' = [t EXCEPT !.type = cmd.type, !.err = err,
                           !.bp = IF cmd.type = "resume" THEN cmd.val ELSE @]
       /\ UNCHANGED toMaster
  ELSE /\ toMaster' = IF link THEN Append(toMaster, cmd) ELSE toMaster
       /\ UNCHANGED tws

Tells(b, cmd, err) == TellsFrom(b, tws, cmd, err)

Cmd(type, val) == [type |-> type, val |-> val]

\* Bes_enter_ota_state and Bes_exit_ota_state forget an early acknowledgement.
Entered == IF tws.inOta THEN tws ELSE [tws EXCEPT !.inOta = TRUE, !.acked = FALSE]
Exited == IF tws.inOta THEN [tws EXCEPT !.inOta = FALSE, !.acked = FALSE] ELSE tws

(***************************************************************************)
(* ota_control_reset_env keeps the break point of a transfer to be         *)
(* resumed.                                                                *)
(***************************************************************************)
ResetEnv(r) ==
  [r EXCEPT !.buf = <<>>, !.received = 0, !.seg = 0, !.on = FALSE, !.pending = FALSE,
            !.bp = IF r.resume THEN @ ELSE 0, !.entry = IF r.resume THEN @ ELSE 0]

-----------------------------------------------------------------------------
(***************************************************************************)
(* OTA_COMMAND_RESUME_VERIFY.  The code is compared only when there is a   *)
(* break point, and only the slave makes a new one.  fresh is a code that  *)
(* is in use nowhere.                                                      *)
(***************************************************************************)
Looked(b) ==
  LET e == LastEntry(flash[b])
      n == IF e = 0 THEN 0 ELSE flash[b].log[e]
  IN  [ram[b] EXCEPT !.entry = e, !.bp = n, !.resume = n # 0]

ResumeMatches(b) ==
  LET r == Looked(b)
      code == Head(inbox[b]).code
  IN  /\ Handles(b, "resume")
      /\ r.bp # 0
      /\ flash[b].code = code
      /\ Returns(b, [ResetEnv(r) EXCEPT !.on = TRUE, !.img = flash[b].hdr])
      /\ Tells(b, [type |-> "resume", val |-> r.bp, code |-> code], tws.err)
      /\ UNCHANGED <<flash, pend, link, answer>>

ResumeNone(b, fresh) ==
  LET r == Looked(b)
  IN  /\ Handles(b, "resume")
      /\ r.bp = 0 \/ flash[b].code # Head(inbox[b]).code
      /\ Returns(b, [r EXCEPT !.bp = 0, !.resume = FALSE])
      /\ IF b = "slave" THEN Queue(b, EraseLogOps(flash[b]) \o <<LogCode(fresh)>>)
         ELSE UNCHANGED pend
      /\ Tells(b, [type |-> "resume", val |-> 0, code |-> fresh], tws.err)
      /\ UNCHANGED <<flash, link, answer>>

(***************************************************************************)
(* OTA_COMMAND_START does not wait for the size and the checksum to be     *)
(* written.                                                                *)
(***************************************************************************)
Start(b) ==
  /\ Handles(b, "start")
  /\ Returns(b, [ResetEnv(ram[b]) EXCEPT !.img = New, !.on = TRUE])
  /\ Queue(b, <<LogHdr(New)>>)
  /\ Tells(b, Cmd("start", 0), tws.err)
  /\ UNCHANGED <<flash, link, answer>>

(***************************************************************************)
(* OTA_COMMAND_CONFIG_OTA, in one packet: the boot information is made     *)
(* NORMAL_BOOT before anything of the image is written.                    *)
(***************************************************************************)
Config(b) ==
  LET r == ram[b]
  IN  /\ Handles(b, "config")
      /\ GoesOn(b, IF r.resume THEN [r EXCEPT !.received = r.bp, !.seg = r.bp] ELSE r, "config")
      /\ Queue(b, BootOps("normal", flash[b]))
      /\ tws' = IF b = "master" THEN Entered ELSE tws
      /\ UNCHANGED <<flash, toMaster, link, answer>>

FinishConfig(b) ==
  /\ Waits(b, "config")
  /\ Returns(b, ram[b])
  /\ Tells(b, Cmd("config", 1), 1)
  /\ UNCHANGED <<flash, pend, link, answer>>

-----------------------------------------------------------------------------
(***************************************************************************)
(* app_send_ota_pkt_sync_ack_response(false): the master answers at once   *)
(* when the slave was first.                                               *)
(***************************************************************************)
Ack(b) ==
  IF b = "master" /\ tws.acked
  THEN /\ Answer("ack", 0)
       /\ tws' = [tws EXCEPT !.acked = FALSE]
       /\ UNCHANGED toMaster
  ELSE Tells(b, Cmd("ack", 0), tws.err) /\ UNCHANGED answer

(***************************************************************************)
(* OTA_DATA_PACKET with one page.  A refusal, of a packet out of a         *)
(* transfer or of one page too many, is sent by the master only.  Of a     *)
(* page it matters only whether it is the one that belongs where the bud   *)
(* writes it.                                                              *)
(***************************************************************************)
Refuse(b, why) == IF b = "master" THEN Answer("result", why) ELSE UNCHANGED answer

RefuseData(b) ==
  /\ Handles(b, "data")
  /\ ~ram[b].on \/ (b = "master" /\ ~link)
  /\ Returns(b, ram[b])
  /\ Refuse(b, 0)
  /\ UNCHANGED <<flash, pend, tws, toMaster, link>>

Received(b, r) ==
  /\ Returns(b, [r EXCEPT !.received = @ + 1])
  /\ IF r.received < Total THEN Ack(b)
     ELSE Refuse(b, OTA_RESULT_ERR_RECV_SIZE) /\ UNCHANGED <<tws, toMaster>>

TakeData(b) ==
  LET r == ram[b]
      p == Head(inbox[b])
      buf == Append(r.buf, IF p.at = r.received THEN p.data[b] ELSE Garbled)
  IN  /\ Handles(b, "data")
      /\ r.on /\ (b = "master" => link)
      /\ IF Len(buf) < SectorLen
         THEN Received(b, [r EXCEPT !.buf = buf]) /\ UNCHANGED pend
         ELSE /\ GoesOn(b, [r EXCEPT !.buf = <<>>], "data")
              /\ Queue(b, FlushOps(r.received - Len(r.buf), buf, flash[b]))
              /\ UNCHANGED <<tws, toMaster, answer>>
      /\ UNCHANGED <<flash, link>>

FinishData(b) ==
  /\ Waits(b, "data")
  /\ Received(b, ram[b])
  /\ UNCHANGED <<flash, pend, link>>

-----------------------------------------------------------------------------
(***************************************************************************)
(* OTA_COMMAND_SEGMENT_VERIFY programs what is left in the buffer, then    *)
(* reads the segment back.                                                 *)
(***************************************************************************)
TakeVerify(b) ==
  LET r == ram[b]
  IN  /\ Handles(b, "verify")
      /\ GoesOn(b, [r EXCEPT !.buf = <<>>], "verify")
      /\ Queue(b, FlushOps(r.received - Len(r.buf), r.buf, flash[b]))
      /\ UNCHANGED <<flash, tws, toMaster, link, answer>>

\* The checksum is the one the phone computed of its segment.
SegmentIntact(b) ==
  LET v == Head(inbox[b])
  IN  /\ ram[b].seg = v.from /\ ram[b].received = v.to
      /\ \A p \in v.from..(v.to - 1) : flash[b].area[p] = New

VerifyPasses(b) ==
  LET r == ram[b]
      n == r.entry + 1
  IN  /\ Waits(b, "verify")
      /\ SegmentIntact(b)
      /\ Tells(b, Cmd("segment", 1), 1)
      /\ Queue(b, LogEntryOps(n, r.received, flash[b]))
      /\ Returns(b, [r EXCEPT !.on = TRUE, !.retry = MAX_SEG_VERIFY_RETEY, !.seg = r.received,
                              !.entry = IF n <= LogLen THEN n ELSE 1])
      /\ UNCHANGED <<flash, link, answer>>

\* errOtaCode is left as it is.
VerifyFails(b) ==
  LET r == ram[b]
  IN  /\ Waits(b, "verify")
      /\ ~SegmentIntact(b)
      /\ r.retry > 1
      /\ Queue(b, EraseSegmentOps(r.seg, r.received - r.seg, flash[b]))
      /\ Returns(b, [r EXCEPT !.retry = @ - 1, !.received = r.seg])
      /\ Tells(b, Cmd("segment", 0), tws.err)
      /\ UNCHANGED <<flash, link, answer>>

\* The third failure destroys the log.
VerifyGivesUp(b) ==
  /\ Waits(b, "verify")
  /\ ~SegmentIntact(b)
  /\ ram[b].retry = 1
  /\ Queue(b, EraseLogOps(flash[b]))
  /\ GoesOn(b, [ram[b] EXCEPT !.retry = MAX_SEG_VERIFY_RETEY, !.resume = FALSE], "refuse")
  /\ UNCHANGED <<flash, tws, toMaster, link, answer>>

FinishGivingUp(b) ==
  /\ ram[b].stage = "refuse" /\ ErasesDone(b)
  /\ Returns(b, ram[b])
  /\ Tells(b, Cmd("segment", OTA_RESULT_ERR_SEG_VERIFY), OTA_RESULT_ERR_SEG_VERIFY)
  /\ UNCHANGED <<flash, pend, link, answer>>

-----------------------------------------------------------------------------
(***************************************************************************)
(* OTA_COMMAND_GET_OTA_RESULT flushes what is left and checks the image.   *)
(***************************************************************************)
TakeResult(b) ==
  LET r == ram[b]
  IN  /\ Handles(b, "result")
      /\ IF r.received = Total
         THEN /\ GoesOn(b, r, "sanity")
              /\ Queue(b, FlushOps(r.received - Len(r.buf), r.buf, flash[b]))
              /\ UNCHANGED <<tws, toMaster>>
         ELSE /\ Returns(b, r)
              /\ Tells(b, Cmd("result", 0), tws.err)
              /\ UNCHANGED pend
      /\ UNCHANGED <<flash, link, answer>>

(***************************************************************************)
(* ota_check_image_data_sanity_crc: an image of the old format has no      *)
(* checksum inside, and passes.  The magic number is in its range.         *)
(***************************************************************************)
SanityOf(b) ==
  IF Whole(flash[b], ram[b].img) /\ ~flash[b].magic THEN {TRUE} ELSE BOOLEAN

\* app_update_magic_number_of_app_image rewrites the first sector.
SanityPasses(b) ==
  LET f == flash[b]
      first == [i \in 1..Cardinality(SectorPages(0)) |-> f.area[i - 1]]
  IN  /\ Waits(b, "sanity")
      /\ TRUE \in SanityOf(b)
      /\ Queue(b, Append(EraseOps(0, f), Mark(first)))
      /\ GoesOn(b, ram[b], "magic")
      /\ UNCHANGED <<flash, tws, toMaster, link, answer>>

SanityFails(b) ==
  /\ Waits(b, "sanity")
  /\ FALSE \in SanityOf(b)
  /\ Returns(b, ResetEnv(ram[b]))
  /\ Tells(b, Cmd("result", 0), 0)
  /\ UNCHANGED <<flash, pend, link, answer>>

\* A slip: only the magic number is looked at.
ImageMarked(b) == flash[b].magic

ImageIntact(b) == flash[b].magic /\ Whole(flash[b], ram[b].img)

(***************************************************************************)
(* ota_control_check_image_crc, and then the log is destroyed.             *)
(***************************************************************************)
CheckImage(b) ==
  LET ok == ImageIntact(b)
      r == IF ok THEN [ram[b] EXCEPT !.pending = TRUE] ELSE ResetEnv(ram[b])
  IN  /\ Waits(b, "magic")
      /\ TellsFrom(b, IF ok THEN tws ELSE Exited,
                   Cmd("result", IF ok THEN 1 ELSE 0), IF ok THEN 1 ELSE 0)
      /\ Queue(b, EraseLogOps(flash[b]))
      /\ GoesOn(b, [r EXCEPT !.resume = FALSE], "destroy")
      /\ UNCHANGED <<flash, link, answer>>

FinishResult(b) ==
  /\ ram[b].stage = "destroy" /\ ErasesDone(b)
  /\ Returns(b, ram[b])
  /\ UNCHANGED <<flash, pend, tws, toMaster, link, answer>>

(***************************************************************************)
(* OTA_COMMAND_IMAGE_APPLY.                                                *)
(***************************************************************************)
ImageApply(b) ==
  LET ok == ram[b].pending
  IN  /\ Handles(b, "apply")
      /\ Returns(b, [ram[b] EXCEPT !.permission = ok])
      /\ TellsFrom(b, Exited, Cmd("apply", IF ok THEN 1 ELSE 0), IF ok THEN 1 ELSE tws.err)
      /\ UNCHANGED <<flash, pend, link, answer>>

(***************************************************************************)
(* norflash_api does what is queued.                                       *)
(***************************************************************************)
FlushStep(b) ==
  /\ pend[b] # <<>>
  /\ flash' = [flash EXCEPT ![b] = Apply(Head(pend[b]), @)]
  /\ pend' = [pend EXCEPT ![b] = Tail(@)]
  /\ UNCHANGED <<ram, inbox, tws, toMaster, link, answer>>

=============================================================================
