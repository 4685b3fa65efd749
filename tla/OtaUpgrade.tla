----------------------------- MODULE OtaUpgrade -----------------------------
(***************************************************************************)
(* services/app_ibrt/src/app_ibrt_ota_cmd.cpp, the commands by which the   *)
(* slave tells the master what came of a packet and the master answers the *)
(* phone for both, together with the phone, the link between the buds, the *)
(* power and the boot loader, which are not in the repository.             *)
(*                                                                         *)
(* A command the master is not ready for is dropped and sent again, twice, *)
(* five seconds apart: a handler has ended by then, so the command waits   *)
(* here until the master is ready.  Responses that only end the sending    *)
(* again are left out, as is the refusal of an apply: the phone asks for   *)
(* it only when both buds have verified the image.  Roles do not change.   *)
(***************************************************************************)
EXTENDS OtaControl

CONSTANTS SegLen,       \* pages of a segment, the unit of verification
          MaxCode,      \* bound: random codes there are
          Faults        \* bounds: pairs of a number of power losses and of
                        \* pages that arrive garbled, that may come together

ASSUME OtaUpgradeAssumption ==
  /\ {SegLen, MaxCode} \subseteq Nat \ {0}
  /\ Faults \subseteq Nat \X Nat

VARIABLES
  toSlave,      \* responses of the master
  twsStep,      \* [Bud -> what the handler of a command or response waits for]
  phone,        \* what the phone does
  fw,           \* [Bud -> the firmware it runs]
  losses, spoilt

worldVars == <<phone, fw, losses, spoilt>>

vars == <<controlVars, toSlave, twsStep, worldVars>>

NoAnswer == [kind |-> "none", val |-> 0]
NotReady == [type |-> "none", err |-> 0, bp |-> 0, acked |-> FALSE, inOta |-> FALSE]

-----------------------------------------------------------------------------
(***************************************************************************)
(* The commands at the master.  It takes one of the kind it is ready for,  *)
(* and has forgotten the kind when it has answered.                        *)
(***************************************************************************)
Told == Head(toMaster)

Takes(type) ==
  /\ toMaster # <<>> /\ twsStep["master"] = "none"
  /\ Told.type = type /\ tws.type = type

Forgets == tws' = [tws EXCEPT !.type = "none"]
ForgetsBoth == tws' = [tws EXCEPT !.type = "none", !.err = 0]

Done == toMaster' = Tail(toMaster)
WaitsFor(b, step) == twsStep' = [twsStep EXCEPT ![b] = step]
Responds(type, val) ==
  toSlave' = IF link THEN Append(toSlave, Cmd(type, val)) ELSE toSlave

Destroyed(b) == ram' = [ram EXCEPT ![b].resume = FALSE]

\* A slip: the break point of the slave is taken for that of both.
TakeResumeOfSlave ==
  /\ Takes("resume")
  /\ IF tws.bp = 0
     THEN Queue("master", EraseLogOps(flash["master"]) \o <<LogCode(Told.code)>>)
     ELSE UNCHANGED pend
  /\ answer' = [kind |-> "resume", val |-> Told.val, code |-> Told.code]
  /\ Forgets /\ Done
  /\ UNCHANGED <<flash, ram, inbox, link, toSlave, twsStep, worldVars>>

\* Break points that agree: the slave's new code is written, if there is one.
TakeResume ==
  /\ Takes("resume")
  /\ Told.val = tws.bp
  /\ IF tws.bp = 0
     THEN Queue("master", EraseLogOps(flash["master"]) \o <<LogCode(Told.code)>>)
     ELSE UNCHANGED pend
  /\ answer' = [kind |-> "resume", val |-> Told.val, code |-> Told.code]
  /\ Forgets /\ Done
  /\ UNCHANGED <<flash, ram, inbox, link, toSlave, twsStep, worldVars>>

\* Break points that differ: both buds start again.
TakeOtherResume ==
  /\ Takes("resume")
  /\ Told.val # tws.bp
  /\ Destroyed("master")
  /\ Queue("master", EraseLogOps(flash["master"]))
  /\ WaitsFor("master", "resume")
  /\ UNCHANGED <<flash, inbox, tws, toMaster, answer, toSlave, link, worldVars>>

StartAgain(b, code) ==
  /\ ram' = [ram EXCEPT ![b] = [ResetEnv(@) EXCEPT !.on = TRUE]]
  /\ Queue(b, EraseLogOps(flash[b]) \o <<LogCode(code)>>)
  /\ WaitsFor(b, "none")

\* A slip: the slave is not told to start again.
FinishOtherResumeAlone ==
  /\ twsStep["master"] = "resume" /\ ErasesDone("master")
  /\ StartAgain("master", Told.code)
  /\ tws' = [tws EXCEPT !.bp = 0]
  /\ Done
  /\ UNCHANGED <<flash, inbox, answer, link, toSlave, worldVars>>

FinishOtherResume ==
  /\ twsStep["master"] = "resume" /\ ErasesDone("master")
  /\ StartAgain("master", Told.code)
  /\ tws' = [tws EXCEPT !.bp = 0]
  /\ Responds("resume", Told.code)
  /\ Done
  /\ UNCHANGED <<flash, inbox, answer, link, worldVars>>

TakeStart ==
  /\ Takes("start")
  /\ Answer("start", 0)
  /\ Forgets /\ Done
  /\ UNCHANGED <<flash, pend, ram, inbox, link, toSlave, twsStep, worldVars>>

TakeConfig ==
  /\ Takes("config")
  /\ Answer("config", IF Told.val = 1 /\ tws.err = 1 THEN 1 ELSE 0)
  /\ ForgetsBoth /\ Done
  /\ UNCHANGED <<flash, pend, ram, inbox, link, toSlave, twsStep, worldVars>>

TakeSegment ==
  /\ Takes("segment")
  /\ OTA_RESULT_ERR_SEG_VERIFY \notin {Told.val, tws.err}
  /\ Answer("segment", IF Told.val = 1 /\ tws.err = 1 THEN 1 ELSE 0)
  /\ ForgetsBoth /\ Done
  /\ UNCHANGED <<flash, pend, ram, inbox, link, toSlave, twsStep, worldVars>>

\* One of the two has failed: both destroy their logs.
TakeSegmentError ==
  /\ Takes("segment")
  /\ OTA_RESULT_ERR_SEG_VERIFY \in {Told.val, tws.err}
  /\ Destroyed("master")
  /\ Queue("master", EraseLogOps(flash["master"]))
  /\ WaitsFor("master", "segment")
  /\ UNCHANGED <<flash, inbox, tws, toMaster, answer, toSlave, link, worldVars>>

FinishSegmentError ==
  /\ twsStep["master"] = "segment" /\ ErasesDone("master")
  /\ Answer("result", OTA_RESULT_ERR_SEG_VERIFY)
  /\ Responds("segment", OTA_RESULT_ERR_SEG_VERIFY)
  /\ WaitsFor("master", "none")
  /\ ForgetsBoth /\ Done
  /\ UNCHANGED <<flash, pend, ram, inbox, link, worldVars>>

TakeResultPassed ==
  /\ Takes("result")
  /\ Told.val = 1 /\ tws.err = 1
  /\ Answer("result", 1)
  /\ ForgetsBoth /\ Done
  /\ UNCHANGED <<flash, pend, ram, inbox, link, toSlave, twsStep, worldVars>>

\* errOtaCode is kept.
TakeResultFailed ==
  /\ Takes("result")
  /\ ~(Told.val = 1 /\ tws.err = 1)
  /\ Answer("result", 0)
  /\ Destroyed("master")
  /\ Queue("master", EraseLogOps(flash["master"]))
  /\ WaitsFor("master", "result")
  /\ UNCHANGED <<flash, inbox, tws, toMaster, toSlave, link, worldVars>>

FinishResultFailed ==
  /\ twsStep["master"] = "result" /\ ErasesDone("master")
  /\ ram' = [ram EXCEPT !["master"] = ResetEnv(@)]
  /\ Responds("result", 0)
  /\ WaitsFor("master", "none")
  /\ Forgets /\ Done
  /\ UNCHANGED <<flash, pend, inbox, answer, link, worldVars>>

\* ota_update_info
UpdatesInfo(b) ==
  /\ Queue(b, BootOps(ram[b].img, flash[b]))
  /\ WaitsFor(b, "apply")

\* ota_check_and_reboot_to_use_new_image
AsksForReset(b) ==
  ram' = [ram EXCEPT ![b].reset = ram[b].permission /\ ram[b].pending]

\* The slave is told before the master writes its boot information.
TakeApply ==
  /\ Takes("apply")
  /\ Told.val = 1 /\ tws.err = 1
  /\ Responds("apply", 1)
  /\ UpdatesInfo("master")
  /\ UNCHANGED <<flash, ram, inbox, tws, toMaster, answer, link, worldVars>>

FinishApply ==
  /\ twsStep["master"] = "apply" /\ Flushed("master")
  /\ Answer("apply", 1)
  /\ AsksForReset("master")
  /\ WaitsFor("master", "none")
  /\ ForgetsBoth /\ Done
  /\ UNCHANGED <<flash, pend, inbox, toSlave, link, worldVars>>

(***************************************************************************)
(* app_send_ota_pkt_sync_ack_response(true): an acknowledgement is never   *)
(* sent again; one that comes first is kept.                               *)
(***************************************************************************)
TakeAck ==
  /\ toMaster # <<>> /\ Told.type = "ack" /\ twsStep["master"] = "none"
  /\ IF tws.type = "ack"
     THEN /\ Answer("ack", 0)
          /\ tws' = [tws EXCEPT !.type = "none", !.acked = FALSE]
     ELSE tws' = [tws EXCEPT !.acked = TRUE] /\ UNCHANGED answer
  /\ Done
  /\ UNCHANGED <<flash, pend, ram, inbox, link, toSlave, twsStep, worldVars>>

MasterStep ==
  \/ TakeResume \/ TakeOtherResume \/ FinishOtherResume \/ TakeStart \/ TakeConfig
  \/ TakeSegment \/ TakeSegmentError \/ FinishSegmentError
  \/ TakeResultPassed \/ TakeResultFailed \/ FinishResultFailed
  \/ TakeApply \/ FinishApply \/ TakeAck

-----------------------------------------------------------------------------
(***************************************************************************)
(* The responses at the slave.                                             *)
(***************************************************************************)
TakeResponse ==
  /\ toSlave # <<>> /\ twsStep["slave"] = "none"
  /\ IF Head(toSlave).type = "apply"
     THEN UpdatesInfo("slave") /\ UNCHANGED ram
     ELSE /\ Destroyed("slave")
          /\ Queue("slave", EraseLogOps(flash["slave"]))
          /\ WaitsFor("slave", Head(toSlave).type)
  /\ UNCHANGED <<flash, inbox, tws, toMaster, answer, toSlave, link, worldVars>>

SlaveStartsAgain ==
  LET code == Head(toSlave).val
  IN  /\ twsStep["slave"] = "resume" /\ ErasesDone("slave")
      /\ StartAgain("slave", code)
      /\ Tells("slave", [type |-> "resume", val |-> 0, code |-> code], 0)
      /\ toSlave' = Tail(toSlave)
      /\ UNCHANGED <<flash, inbox, answer, link, worldVars>>

FinishResponse ==
  /\ CASE twsStep["slave"] = "segment" -> ErasesDone("slave") /\ UNCHANGED ram
       [] twsStep["slave"] = "result" ->
            ErasesDone("slave") /\ ram' = [ram EXCEPT !["slave"] = ResetEnv(@)]
       [] twsStep["slave"] = "apply" -> Flushed("slave") /\ AsksForReset("slave")
       [] OTHER -> FALSE
  /\ WaitsFor("slave", "none")
  /\ toSlave' = Tail(toSlave)
  /\ UNCHANGED <<flash, pend, inbox, tws, toMaster, answer, link, worldVars>>

SlaveStep == TakeResponse \/ SlaveStartsAgain \/ FinishResponse

-----------------------------------------------------------------------------
(***************************************************************************)
(* A bud starts from its flash.  The boot loader copies the image the boot *)
(* information names and resets the information.  The bud loses the link   *)
(* and what is on the way to it; the phone notices when it is the master.  *)
(***************************************************************************)
ToCopy(f) == f.boot \in Image /\ f.magic

\* A message whose handler waits for the flash stays until the handler ends.
InHand(b, queue) == IF twsStep[b] # "none" THEN <<Head(queue)>> ELSE <<>>

Restart(b, f) ==
  /\ flash' = [flash EXCEPT ![b] = IF ToCopy(f) THEN [f EXCEPT !.boot = "normal"] ELSE f]
  /\ fw' = [fw EXCEPT ![b] = IF ToCopy(f) THEN f.area[0] ELSE @]
  /\ pend' = [pend EXCEPT ![b] = <<>>]
  /\ ram' = [ram EXCEPT ![b] = ColdRam]
  /\ inbox' = [inbox EXCEPT ![b] = <<>>]
  /\ WaitsFor(b, "none")
  /\ link' = FALSE
  /\ IF b = "master"
     THEN /\ tws' = NotReady /\ answer' = NoAnswer
          /\ toMaster' = <<>> /\ toSlave' = InHand("slave", toSlave)
          /\ phone' = IF phone.at = "done" THEN phone ELSE [phone EXCEPT !.at = "idle"]
     ELSE /\ toMaster' = InHand("master", toMaster) /\ toSlave' = <<>>
          /\ UNCHANGED <<tws, answer, phone>>

MayFail(l, s) == \E f \in Faults : l <= f[1] /\ s <= f[2]

PowerLoss(b) ==
  /\ MayFail(losses + 1, spoilt)
  /\ losses' = losses + 1
  /\ \/ Restart(b, flash[b])
     \/ pend[b] # <<>> /\ Restart(b, Torn(Head(pend[b]), flash[b]))
  /\ UNCHANGED spoilt

AtRest ==
  /\ \A b \in Bud : inbox[b] = <<>> /\ pend[b] = <<>> /\ twsStep[b] = "none"
  /\ toMaster = <<>> /\ toSlave = <<>> /\ answer = NoAnswer

\* app_start_postponed_reset: seconds later.
PostponedReset(b) ==
  /\ ram[b].reset /\ AtRest
  /\ Restart(b, flash[b])
  /\ UNCHANGED <<losses, spoilt>>

\* What was on the way when a bud restarted has been handled before it is back.
Reconnect ==
  /\ ~link /\ phone.at # "next" /\ AtRest
  /\ link' = TRUE
  /\ UNCHANGED <<flash, pend, ram, inbox, tws, toMaster, answer, toSlave, twsStep, worldVars>>

-----------------------------------------------------------------------------
(***************************************************************************)
(* The phone.  at: the packet whose answer it waits for, "next" when the   *)
(* next depends on how far it is.  done, pos: pages verified, pages sent.  *)
(* code: the random code it was given with the image.                      *)
(***************************************************************************)
Sends(packet) ==
  inbox' = [b \in Bud |-> IF b = "master" \/ link THEN Append(inbox[b], packet) ELSE inbox[b]]

Moves(p) ==
  /\ phone' = p
  /\ answer' = NoAnswer
  /\ UNCHANGED <<flash, pend, ram, tws, toMaster, link, toSlave, twsStep, fw, losses>>

Plain(type) == [type |-> type]

PhoneResumes ==
  /\ phone.at = "idle" /\ AtRest
  /\ Sends([type |-> "resume", code |-> phone.code])
  /\ Moves([phone EXCEPT !.at = "resume", !.done = 0, !.pos = 0])
  /\ UNCHANGED spoilt

Hears(kind) == answer.kind = kind /\ phone.at = kind

PhoneConfigures ==
  /\ \/ Hears("resume") /\ answer.val # 0
     \/ Hears("start")
  /\ Sends(Plain("config"))
  /\ Moves([phone EXCEPT !.at = "config", !.done = answer.val, !.pos = answer.val])
  /\ UNCHANGED spoilt

PhoneStarts ==
  /\ Hears("resume") /\ answer.val = 0
  /\ Sends(Plain("start"))
  /\ Moves([phone EXCEPT !.at = "start", !.code = answer.code])
  /\ UNCHANGED spoilt

\* Answers after which the next packet depends on how far the phone is.
PhoneGoesOn ==
  /\ \/ Hears("config") /\ answer.val = 1 /\ Moves([phone EXCEPT !.at = "next"])
     \/ Hears("ack") /\ Moves([phone EXCEPT !.at = "next", !.pos = @ + 1])
     \/ /\ Hears("segment")
        /\ Moves([phone EXCEPT !.at = "next", !.done = IF answer.val = 1 THEN phone.pos ELSE @,
                               !.pos = IF answer.val = 1 THEN @ ELSE phone.done])
  /\ UNCHANGED <<inbox, spoilt>>

SegmentEnds == phone.pos > phone.done /\ (phone.pos - phone.done = SegLen \/ phone.pos = Total)

\* A page may reach a bud garbled.
PhoneSendsPage ==
  /\ phone.at = "next" /\ phone.pos < Total /\ ~SegmentEnds
  /\ \E B \in SUBSET Bud :
       /\ B = {} \/ MayFail(losses, spoilt + 1)
       /\ Sends([type |-> "data", at |-> phone.pos,
              data |-> [b \in Bud |-> IF b \in B THEN Garbled ELSE New]])
       /\ spoilt' = IF B = {} THEN spoilt ELSE spoilt + 1
  /\ Moves([phone EXCEPT !.at = "ack"])

PhoneVerifies ==
  /\ phone.at = "next" /\ SegmentEnds
  /\ Sends([type |-> "verify", from |-> phone.done, to |-> phone.pos])
  /\ Moves([phone EXCEPT !.at = "segment"])
  /\ UNCHANGED spoilt

PhoneAsksResult ==
  /\ phone.at = "next" /\ phone.done = Total
  /\ Sends(Plain("result"))
  /\ Moves([phone EXCEPT !.at = "result"])
  /\ UNCHANGED spoilt

PhoneApplies ==
  /\ Hears("result") /\ answer.val = 1
  /\ Sends(Plain("apply"))
  /\ Moves([phone EXCEPT !.at = "apply"])
  /\ UNCHANGED spoilt

PhoneEnds ==
  /\ Hears("apply") /\ answer.val = 1
  /\ Moves([phone EXCEPT !.at = "done"])
  /\ UNCHANGED <<inbox, spoilt>>

\* A refusal, or an answer that does not come, sends the phone back.
PhoneGivesUp ==
  /\ \/ answer.kind \in {"result", "apply", "config"} /\ answer.val # 1
     \/ phone.at \notin {"idle", "next", "done"} /\ AtRest
  /\ Moves([phone EXCEPT !.at = "idle"])
  /\ UNCHANGED <<inbox, spoilt>>

PhoneStep ==
  \/ PhoneResumes \/ PhoneConfigures \/ PhoneStarts \/ PhoneGoesOn \/ PhoneSendsPage
  \/ PhoneVerifies \/ PhoneAsksResult \/ PhoneApplies \/ PhoneEnds \/ PhoneGivesUp

-----------------------------------------------------------------------------
(***************************************************************************)
(* The random codes in use: what the phone holds, what is on the chips, on *)
(* its way to them, or on its way between the buds and to the phone.       *)
(***************************************************************************)
CodesOf(q) == {q[i].code : i \in {j \in DOMAIN q : "code" \in DOMAIN q[j]}}

UsedCodes ==
  {phone.code} \cup UNION {{flash[b].code} \cup CodesOf(pend[b]) : b \in Bud}
    \cup CodesOf(toMaster) \cup CodesOf(<<answer>>)
    \cup {toSlave[i].val : i \in DOMAIN toSlave}

FreshCodes == (1..MaxCode) \ UsedCodes

BudStep(b) ==
  /\ \/ ResumeMatches(b)
     \/ FreshCodes # {} /\ ResumeNone(b, Min(FreshCodes))
     \/ Start(b) \/ Config(b) \/ FinishConfig(b)
     \/ RefuseData(b) \/ TakeData(b) \/ FinishData(b)
     \/ TakeVerify(b) \/ VerifyPasses(b) \/ VerifyFails(b)
     \/ VerifyGivesUp(b) \/ FinishGivingUp(b)
     \/ TakeResult(b) \/ SanityPasses(b) \/ SanityFails(b) \/ CheckImage(b) \/ FinishResult(b)
     \/ ImageApply(b)
  /\ UNCHANGED <<toSlave, twsStep, worldVars>>

Flushes(b) == FlushStep(b) /\ UNCHANGED <<toSlave, twsStep, worldVars>>

(***************************************************************************)
(* At first a bud's area is blank, or an update to another image has been  *)
(* left half way.                                                          *)
(***************************************************************************)
BlankFlash ==
  [area |-> [p \in Page |-> Blank], magic |-> FALSE, code |-> NoNumber, hdr |-> "none",
   log |-> EmptyLog, boot |-> "normal"]

HalfWritten(i) ==
  [BlankFlash EXCEPT !.area = Spread(@, SectorPages(0), i), !.code = 1, !.hdr = i,
                     !.log[1] = Cardinality(SectorPages(0))]

Init ==
  /\ flash \in [Bud -> {BlankFlash} \cup {HalfWritten(i) : i \in Image \ {New}}]
  /\ pend = [b \in Bud |-> <<>>]
  /\ ram = [b \in Bud |-> ColdRam]
  /\ inbox = [b \in Bud |-> <<>>]
  /\ tws = NotReady
  /\ toMaster = <<>> /\ toSlave = <<>>
  /\ link = TRUE
  /\ answer = NoAnswer
  /\ twsStep = [b \in Bud |-> "none"]
  /\ phone = [at |-> "idle", done |-> 0, pos |-> 0, code |-> NoNumber]
  /\ fw = [b \in Bud |-> "old"]
  /\ losses = 0 /\ spoilt = 0

Next ==
  \/ PhoneStep \/ MasterStep \/ SlaveStep \/ Reconnect
  \/ \E b \in Bud : BudStep(b) \/ Flushes(b) \/ PostponedReset(b) \/ PowerLoss(b)

Fairness ==
  /\ WF_vars(PhoneStep) /\ WF_vars(MasterStep) /\ WF_vars(SlaveStep) /\ SF_vars(Reconnect)
  /\ \A b \in Bud : WF_vars(BudStep(b)) /\ WF_vars(Flushes(b)) /\ WF_vars(PostponedReset(b))

Spec == Init /\ [][Next]_vars /\ Fairness

-----------------------------------------------------------------------------
(***************************************************************************)
(* Type correctness; and a bud that has just started is never asked to     *)
(* verify a segment or the image, for which it has no address and no size. *)
(***************************************************************************)
OtaTypeOK ==
  /\ flash \in [Bud -> Flash]
  /\ \A b \in Bud :
       /\ ram[b].received \in 0..(Total + 1) /\ ram[b].seg \in 0..Total /\ ram[b].bp \in 0..Total
       /\ ram[b].entry \in 0..LogLen /\ Len(ram[b].buf) < SectorLen
       /\ ram[b].retry \in 1..MAX_SEG_VERIFY_RETEY
       /\ inbox[b] # <<>> /\ Head(inbox[b]).type \in {"verify", "result"} => ram[b].img # "none"
  /\ phone.done \in 0..Total /\ phone.pos \in phone.done..Total

(***************************************************************************)
(* What the phone counts as delivered, because both buds have confirmed    *)
(* the segment or because it was told to go on there, is intact on both:   *)
(* after failed verifications, power losses, torn writes and the leftovers *)
(* of other updates, until the last segment is verified (the magic number  *)
(* is then written by erasing the first sector).                           *)
(***************************************************************************)
DeliveredIsThere ==
  /\ OtaTypeOK
  /\ phone.at \notin {"idle", "done"} /\ phone.done < Total =>
       \A b \in Bud : \A p \in 0..(phone.done - 1) : flash[b].area[p] = New

(***************************************************************************)
(* When the boot information names an image, the area holds all of it: the *)
(* boot loader never copies anything else.                                 *)
(***************************************************************************)
CopyIsWhole ==
  \A b \in Bud : flash[b].boot \in Image => flash[b].magic /\ Whole(flash[b], flash[b].boot)

(***************************************************************************)
(* The update ends: once no page arrives garbled and no power is lost any  *)
(* more, no state of the two logs, left by whatever happened before, makes *)
(* the phone try for ever, and the master runs the new image.              *)
(***************************************************************************)
UpgradeEnds == <>[](phone.at = "done" /\ fw["master"] = New)

=============================================================================
