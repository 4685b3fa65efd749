--------------------------- MODULE RtSystemProofs ---------------------------
(***************************************************************************)
(* The clock, the core voltage and how the CPU sleeps, for any users,      *)
(* frequencies, devices and interrupts, threads and timers: under          *)
(* HalSysfreq and HalSleep alone, and under the kernel of RtSystem.        *)
(***************************************************************************)
EXTENDS RtSystem, TLAPS, WellFoundedInduction

-----------------------------------------------------------------------------
(***************************************************************************)
(* hal_sysfreq.  Neither property is inductive: that the remembered user   *)
(* has the highest vote (TopIsHighest) is what lets a lower vote of        *)
(* another be ignored, and a request half done (HalfDone) must remember    *)
(* on which side of its write the chip stands.                             *)
(***************************************************************************)
TopIsHighest == top \in User => \A u \in User : vote[u] <= vote[top]

NobodyVoted ==
  top = UserQty =>
    /\ SysfreqIdle
    /\ \A u \in User : vote[u] = 0
    /\ minimum <= clock /\ clock <= LowVolt

ClockIsTop == SysfreqIdle /\ top \in User => clock = Revise(vote[top])

HalfDone ==
  /\ ~SysfreqIdle => top \in User /\ write.freq = Revise(vote[top])
  /\ write.what = "clock" => clock <= write.freq /\ vcore = VoltFor(write.freq)
  /\ write.what = "volt" => clock = write.freq

SysfreqInv ==
  /\ SysfreqTypeOK
  /\ TopIsHighest /\ NobodyVoted /\ ClockIsTop /\ HalfDone
  /\ VoltageFits

-----------------------------------------------------------------------------
LEMMA SysfreqInvInit == SysfreqInit => SysfreqInv
<1>. SUFFICES ASSUME SysfreqInit PROVE SysfreqInv
  OBVIOUS
<1>. USE SysfreqAssumption DEF SysfreqInit
<1>1. UserQty \notin User
  BY DEF User
<1>2. SysfreqTypeOK
  BY DEF SysfreqTypeOK, User, Freq, Written
<1>. QED
  BY <1>1, <1>2 DEF SysfreqInv, TopIsHighest, NobodyVoted, ClockIsTop, HalfDone,
         VoltageFits, VoltFor, SysfreqIdle, Written, User

\* The top user is none exactly before the first vote.
LEMMA TopCases ==
  ASSUME SysfreqTypeOK
  PROVE  /\ UserQty \notin User
         /\ top \in User \/ top = UserQty
         /\ SysfreqGet \in Freq
  BY SysfreqAssumption DEF SysfreqTypeOK, User, SysfreqGet, Freq

LEMMA SetMinKeeps ==
  ASSUME SysfreqInv, NEW freq \in 0 .. HighMin, SetMinFreq(freq)
  PROVE  SysfreqInv'
<1>. USE SysfreqAssumption
<1>1. UNCHANGED <<vote, top, vcore, write>> /\ SysfreqIdle /\ minimum' = freq
      /\ freq > minimum /\ freq \in Nat /\ freq <= LowVolt
  BY DEF SetMinFreq
<1>2. clock' = IF freq > SysfreqGet THEN freq ELSE clock
  BY DEF SetMinFreq
<1>3. SysfreqTypeOK'
  BY <1>1, <1>2 DEF SysfreqInv, SysfreqTypeOK, Freq
<1>4. CASE top \in User
  <2>1. clock' = Revise(vote[top])'
    BY <1>1, <1>2, <1>4 DEF SysfreqInv, SysfreqTypeOK, ClockIsTop, Revise, SysfreqGet, Freq
  <2>2. VoltageFits'
    BY <1>1, <1>2, <1>4, TopCases
       DEF SysfreqInv, SysfreqTypeOK, VoltageFits, VoltFor, SysfreqIdle, Freq, ClockIsTop,
           Revise, SysfreqGet
  <2>. QED
    BY <1>1, <1>3, <1>4, <2>1, <2>2, TopCases
       DEF SysfreqInv, TopIsHighest, NobodyVoted, ClockIsTop, HalfDone, SysfreqIdle
<1>5. CASE top = UserQty
  BY <1>1, <1>2, <1>3, <1>5, TopCases
     DEF SysfreqInv, SysfreqTypeOK, Freq, SysfreqGet, TopIsHighest, NobodyVoted, ClockIsTop,
         HalfDone, VoltageFits, VoltFor, SysfreqIdle
<1>. QED
  BY <1>4, <1>5, TopCases DEF SysfreqInv

\* A vote that is the new highest, or as high.
LEMMA RaisedKeeps ==
  ASSUME SysfreqInv, NEW user \in User, NEW freq \in Freq, SysfreqIdle,
         ReqSame(user, freq) \/ ReqHigher(user, freq)
  PROVE  SysfreqInv'
<1>. USE SysfreqAssumption DEF Vote
<1>1. /\ vote' = [vote EXCEPT ![user] = freq] /\ top' = user
      /\ UNCHANGED <<minimum, clock>> /\ freq >= SysfreqGet
  BY TopCases DEF ReqSame, ReqHigher, SysfreqInv, Freq
<1>2. /\ vote' \in [User -> Freq] /\ vote'[user] = freq
      /\ \A u \in User \ {user} : vote'[u] = vote[u]
  BY <1>1 DEF SysfreqInv, SysfreqTypeOK
<1>3. Revise(freq) \in Freq /\ Revise(freq) \in Nat /\ clock \in Nat
  BY DEF Revise, SysfreqInv, SysfreqTypeOK, Freq
<1>4. \A u \in User : vote[u] <= SysfreqGet
  BY TopCases DEF SysfreqInv, SysfreqTypeOK, TopIsHighest, NobodyVoted, SysfreqGet, Freq
<1>5. TopIsHighest'
  <2>1. \A u \in User : vote[u] \in Nat /\ vote[u] <= freq
    BY <1>1, <1>4, TopCases DEF SysfreqInv, SysfreqTypeOK, Freq
  <2>. QED
    BY <1>1, <1>2, <2>1 DEF TopIsHighest, Freq
<1>6. clock <= Revise(freq)
  BY <1>1, TopCases DEF SysfreqInv, SysfreqTypeOK, ClockIsTop, Revise, SysfreqGet, Freq
<1>7. top' \in User /\ top' # UserQty
  BY <1>1, TopCases DEF SysfreqInv
<1>8. CASE ReqSame(user, freq)
  <2>1. UNCHANGED <<vcore, write>> /\ freq = SysfreqGet
    BY <1>8 DEF ReqSame
  <2>2. clock = Revise(freq)
    BY <2>1, TopCases
       DEF SysfreqInv, SysfreqTypeOK, ClockIsTop, NobodyVoted, Revise, SysfreqGet, Freq
  <2>3. SysfreqTypeOK'
    BY <1>1, <1>2, <2>1 DEF SysfreqInv, SysfreqTypeOK
  <2>. QED
    BY <1>1, <1>2, <1>5, <1>7, <2>1, <2>2, <2>3
       DEF SysfreqInv, NobodyVoted, ClockIsTop, HalfDone, VoltageFits, VoltFor, SysfreqIdle,
           Revise
<1>9. CASE ReqHigher(user, freq)
  <2>1. vcore' = VoltFor(Revise(freq)) /\ write' = [what |-> "clock", freq |-> Revise(freq)]
    BY <1>9 DEF ReqHigher
  <2>2. SysfreqTypeOK'
    BY <1>1, <1>2, <1>3, <2>1 DEF SysfreqInv, SysfreqTypeOK, VoltFor
  <2>3. Revise(freq) <= vcore'
    BY <1>3, <2>1 DEF VoltFor, Freq
  <2>4. clock' <= vcore' /\ vcore' \in Nat
    BY <1>1, <1>3, <1>6, <2>1, <2>3 DEF VoltFor
  <2>5. Revise(vote[top])' = Revise(freq)
    BY <1>1, <1>2 DEF Revise
  <2>. QED
    BY <1>1, <1>5, <1>6, <1>7, <2>1, <2>2, <2>4, <2>5
       DEF SysfreqInv, NobodyVoted, ClockIsTop, HalfDone, VoltageFits, SysfreqIdle
<1>. QED
  BY <1>8, <1>9

\* Somebody else has the highest vote: nothing but the vote changes.
LEMMA OtherKeeps ==
  ASSUME SysfreqInv, NEW user \in User, NEW freq \in Freq, SysfreqIdle,
         ReqLowerOther(user, freq)
  PROVE  SysfreqInv'
<1>. USE SysfreqAssumption
<1>1. /\ vote' = [vote EXCEPT ![user] = freq] /\ freq < SysfreqGet
      /\ UNCHANGED <<top, minimum, clock, vcore, write>> /\ top # user /\ top # UserQty
  BY DEF ReqLowerOther, Vote
<1>2. top \in User /\ SysfreqGet = vote[top]
  BY <1>1, TopCases DEF SysfreqInv, SysfreqGet
<1>3. /\ vote' \in [User -> Freq] /\ vote'[user] = freq
      /\ \A u \in User \ {user} : vote'[u] = vote[u]
  BY <1>1 DEF SysfreqInv, SysfreqTypeOK
<1>4. TopIsHighest'
  BY <1>1, <1>2, <1>3 DEF SysfreqInv, SysfreqTypeOK, TopIsHighest, Freq
<1>5. vote'[top'] = vote[top]
  BY <1>1, <1>2, <1>3
<1>. QED
  BY <1>1, <1>2, <1>3, <1>4, <1>5
     DEF SysfreqInv, SysfreqTypeOK, NobodyVoted, ClockIsTop, HalfDone, VoltageFits, VoltFor,
         SysfreqIdle, Revise

\* The clock goes down to a user that no other outvotes now.
LEMMA LowerKeeps ==
  ASSUME SysfreqInv, NEW user \in User, SysfreqIdle,
         vote' \in [User -> Freq], \A u \in User : vote'[u] <= vote'[user],
         vote'[user] <= SysfreqGet, LowerTo(user)
  PROVE  SysfreqInv'
<1>. USE SysfreqAssumption
<1>1. top' = user /\ UNCHANGED <<minimum, vcore>>
  BY DEF LowerTo
<1>2. TopIsHighest'
  BY <1>1 DEF TopIsHighest
<1>3. top' \in User /\ top' # UserQty
  BY <1>1, TopCases DEF SysfreqInv
<1>4. vote'[user] \in Freq /\ vote'[user] \in Nat
  BY DEF Freq
<1>5. Revise(vote'[user]) \in Freq /\ Revise(vote[top])' = Revise(vote'[user])
  BY <1>1, <1>4 DEF Revise, SysfreqInv, SysfreqTypeOK, Freq
<1>6. Revise(vote'[user]) <= clock
  BY <1>4, TopCases
     DEF SysfreqInv, SysfreqTypeOK, ClockIsTop, NobodyVoted, Revise, SysfreqGet, Freq
<1>7. CASE vote'[user] = SysfreqGet
  <2>1. UNCHANGED <<clock, write>>
    BY <1>7 DEF LowerTo
  <2>2. clock = Revise(vote'[user])
    BY <1>7, TopCases
       DEF SysfreqInv, SysfreqTypeOK, ClockIsTop, NobodyVoted, Revise, SysfreqGet, Freq
  <2>. QED
    BY <1>1, <1>2, <1>3, <1>5, <2>1, <2>2
       DEF SysfreqInv, SysfreqTypeOK, NobodyVoted, ClockIsTop, HalfDone, VoltageFits, VoltFor,
           SysfreqIdle
<1>8. CASE vote'[user] # SysfreqGet
  <2>1. clock' = Revise(vote'[user]) /\ write' = [what |-> "volt", freq |-> Revise(vote'[user])]
    BY <1>8 DEF LowerTo
  <2>2. clock' <= vcore'
    BY <1>1, <1>5, <1>6, <2>1 DEF SysfreqInv, SysfreqTypeOK, VoltageFits, Freq
  <2>3. SysfreqTypeOK'
    BY <1>1, <1>3, <1>5, <2>1 DEF SysfreqInv, SysfreqTypeOK
  <2>. QED
    BY <1>1, <1>2, <1>3, <1>5, <2>1, <2>2, <2>3
       DEF SysfreqInv, NobodyVoted, ClockIsTop, HalfDone, VoltageFits, SysfreqIdle
<1>. QED
  BY <1>7, <1>8

LEMMA LoweredKeeps ==
  ASSUME SysfreqInv, NEW user \in User, NEW freq \in Freq, SysfreqIdle,
         ReqLowerFirst(user, freq) \/ ReqLowerTop(user, freq)
  PROVE  SysfreqInv'
<1>1. vote' = [vote EXCEPT ![user] = freq] /\ freq < SysfreqGet
  BY DEF ReqLowerFirst, ReqLowerTop, Vote
<1>2. /\ vote' \in [User -> Freq] /\ vote'[user] = freq
      /\ \A u \in User \ {user} : vote'[u] = vote[u]
  BY <1>1 DEF SysfreqInv, SysfreqTypeOK
<1>3. CASE ReqLowerFirst(user, freq)
  <2>1. \A u \in User : vote'[u] <= vote'[user]
    BY <1>2, <1>3 DEF ReqLowerFirst, SysfreqInv, NobodyVoted, Freq
  <2>. QED
    BY <1>1, <1>2, <1>3, <2>1, LowerKeeps, TopCases DEF ReqLowerFirst, SysfreqInv, Freq
<1>4. CASE ReqLowerTop(user, freq)
  <2>1. PICK u \in User : Outvotes(vote', u) /\ LowerTo(u)
    BY <1>4 DEF ReqLowerTop
  <2>2. SysfreqGet = vote[user] /\ \A w \in User : vote[w] <= SysfreqGet
    BY <1>4 DEF ReqLowerTop, SysfreqInv, TopIsHighest, SysfreqGet
  <2>3. vote'[u] <= SysfreqGet
    BY <1>1, <1>2, <2>2, TopCases DEF SysfreqInv, SysfreqTypeOK, Freq
  <2>. QED
    BY <1>2, <2>1, <2>3, LowerKeeps DEF Outvotes
<1>. QED
  BY <1>3, <1>4

\* The second write of a request.
LEMMA WriteKeeps ==
  ASSUME SysfreqInv, SetClock \/ SetVolt
  PROVE  SysfreqInv'
<1>. USE SysfreqAssumption
<1>1. UNCHANGED <<vote, top, minimum>> /\ write' = Written /\ ~SysfreqIdle
  BY DEF SetClock, SetVolt, SysfreqIdle
<1>2. top \in User /\ write.freq = Revise(vote[top]) /\ Revise(vote[top])' = Revise(vote[top])
  BY <1>1 DEF SysfreqInv, HalfDone, Revise
<1>3. clock' = write.freq /\ vcore' = VoltFor(write.freq) /\ write.freq \in Freq
  BY DEF SetClock, SetVolt, SysfreqInv, SysfreqTypeOK, HalfDone
<1>4. SysfreqTypeOK' /\ VoltageFits'
  BY <1>1, <1>3 DEF SysfreqInv, SysfreqTypeOK, VoltageFits, VoltFor, Written, Freq
<1>. QED
  BY <1>1, <1>2, <1>3, <1>4, TopCases
     DEF SysfreqInv, TopIsHighest, NobodyVoted, ClockIsTop, HalfDone, SysfreqIdle, Written

LEMMA SysfreqInvNext == SysfreqInv /\ [SysfreqNext]_sysfreqVars => SysfreqInv'
<1>. SUFFICES ASSUME SysfreqInv, [SysfreqNext]_sysfreqVars PROVE SysfreqInv'
  OBVIOUS
<1>1. CASE SysfreqStep
  BY <1>1, RaisedKeeps, OtherKeeps, LoweredKeeps, WriteKeeps DEF SysfreqStep, SysfreqReq
<1>2. CASE \E freq \in 0 .. HighMin : SetMinFreq(freq)
  BY <1>2, SetMinKeeps
<1>3. CASE UNCHANGED sysfreqVars
  BY <1>3 DEF sysfreqVars, SysfreqInv, SysfreqTypeOK, TopIsHighest, NobodyVoted, ClockIsTop,
              HalfDone, VoltageFits, VoltFor, SysfreqIdle, Revise
<1>. QED
  BY <1>1, <1>2, <1>3 DEF SysfreqNext

\* The type invariant of the clock votes, for every number of users.
THEOREM SysfreqTypes == SysfreqSpec => []SysfreqTypeOK
<1>1. SysfreqInv => SysfreqTypeOK
  BY DEF SysfreqInv
<1>. QED
  BY <1>1, SysfreqInvInit, SysfreqInvNext, PTL DEF SysfreqSpec

(***************************************************************************)
(* With no request under way the clock hal_sysfreq_req left is the highest *)
(* of all the votes and the minimum, although only one user is remembered. *)
(***************************************************************************)
THEOREM ClockAlwaysMeetsVotes == SysfreqSpec => []ClockMeetsVotes
<1>1. SysfreqInv => ClockMeetsVotes
  BY DEF SysfreqInv, SysfreqTypeOK, TopIsHighest, ClockIsTop, ClockMeetsVotes, Revise, Freq
<1>. QED
  BY <1>1, SysfreqInvInit, SysfreqInvNext, PTL DEF SysfreqSpec

\* The core voltage always covers the clock, between the two writes too.
THEOREM VoltageAlwaysFits == SysfreqSpec => []VoltageFits
<1>1. SysfreqInv => VoltageFits
  BY DEF SysfreqInv
<1>. QED
  BY <1>1, SysfreqInvInit, SysfreqInvNext, PTL DEF SysfreqSpec

-----------------------------------------------------------------------------
(***************************************************************************)
(* hal_sleep.  What was asked on the way into a sleep stays so until the   *)
(* CPU runs again: from the poll of the trace on nobody holds a lock or a  *)
(* vote, the DMA is idle and norflash_api has nothing to write; once the   *)
(* modules are asleep the trace is idle too.                               *)
(***************************************************************************)
GoingDeep == core \in {"poll", "falling", "deep"}

SleepInv ==
  /\ SysfreqInv
  /\ SleepTypeOK
  /\ GoingDeep => ~CpuBusy /\ ~SysBusy /\ (flash.ops = 0 \/ ~gateOpen)
  /\ core \in {"falling", "deep"} => "trace" \notin busy
  /\ asleep \cap Chip # {} => chipLock = {}
  /\ core \in {"run", "light", "poll"} => asleep = {}

LEMMA SleepInvInit == SleepInit => SleepInv
<1> SUFFICES ASSUME SleepInit PROVE SleepInv
  OBVIOUS
<1>1. SysfreqInv
  BY SysfreqInvInit DEF SleepInit
<1>2. SysfreqTypeOK
  BY <1>1 DEF SysfreqInv
<1>3. flash \in [nv : 0 .. MaxNv, ops : 0 .. MaxOps]
  BY SleepAssumption DEF SleepInit
<1>4. SleepTypeOK
  BY <1>2, <1>3 DEF SleepInit, SleepTypeOK
<1> QED
  BY <1>1, <1>4 DEF SleepInit, SleepInv, GoingDeep

(***************************************************************************)
(* The hooks keep the numbers of operations within their bounds.           *)
(***************************************************************************)
LEMMA HooksType ==
  ASSUME SleepTypeOK
  PROVE  /\ \A f \in [nv : 0 .. MaxNv, ops : 0 .. MaxOps] :
              Flushed(f) \subseteq [nv : 0 .. MaxNv, ops : 0 .. MaxOps]
         /\ NvHook(flash) \subseteq [nv : 0 .. MaxNv, ops : 0 .. MaxOps]
<1>1. ASSUME NEW f \in [nv : 0 .. MaxNv, ops : 0 .. MaxOps]
      PROVE  Flushed(f) \subseteq [nv : 0 .. MaxNv, ops : 0 .. MaxOps]
  BY SleepAssumption DEF Flushed, CanFlush
<1>2. NvHook(flash) \subseteq [nv : 0 .. MaxNv, ops : 0 .. MaxOps]
  BY <1>1, SleepAssumption DEF NvHook, SleepTypeOK
<1> QED
  BY <1>1, <1>2

(***************************************************************************)
(* The last steps of a sleep: it goes deep, or the CPU runs again.         *)
(***************************************************************************)
LEMMA ReturnKeeps ==
  ASSUME SleepInv, NEW value \in {"LIGHT", "DEEP"}, Return(value), light' \in BOOLEAN,
         flash' \in [nv : 0 .. MaxNv, ops : 0 .. MaxOps]
  PROVE  SleepInv'
<1>1. SysfreqInv'
  BY DEF SleepInv, Return, sysfreqVars, SysfreqInv, SysfreqTypeOK, TopIsHighest, NobodyVoted,
         ClockIsTop, HalfDone, VoltageFits, VoltFor, SysfreqIdle, Revise
<1> QED
  BY <1>1 DEF Return, SleepInv, SleepTypeOK, SysfreqInv, GoingDeep

(***************************************************************************)
(* The votes, the clock and the voltage stay as they are in a step of the  *)
(* sleep.                                                                  *)
(***************************************************************************)
LEMMA VotesStay ==
  ASSUME SleepInv, UNCHANGED sysfreqVars
  PROVE  SysfreqInv' /\ SysfreqTypeOK' /\ SysfreqBusy' = SysfreqBusy
<1>1. SysfreqInv'
  BY SysfreqInvNext DEF SleepInv
<1>2. SysfreqBusy' = SysfreqBusy
  BY DEF sysfreqVars, SysfreqBusy
<1> QED
  BY <1>1, <1>2 DEF SysfreqInv

(***************************************************************************)
(* The CPU waits, polls or falls asleep when what that asks for holds.     *)
(***************************************************************************)
LEMMA StayKeeps ==
  ASSUME SleepInv, NEW state \in {"light", "poll", "falling", "deep"}, Stay(state),
         light' \in BOOLEAN, flash' \in [nv : 0 .. MaxNv, ops : 0 .. MaxOps],
         asleep' \subseteq Always \cup Chip,
         state # "light" => ~CpuBusy /\ ~SysBusy /\ (flash'.ops = 0 \/ ~gateOpen),
         state \in {"falling", "deep"} => "trace" \notin busy,
         asleep' \cap Chip # {} => chipLock = {},
         state \in {"light", "poll"} => asleep' = {}
  PROVE  SleepInv'
<1>1. SysfreqInv' /\ SysfreqTypeOK' /\ SysfreqBusy' = SysfreqBusy
  BY VotesStay DEF Stay
<1>2. /\ core' = state
      /\ UNCHANGED <<cpuLock, sysLock, chipLock, busy, gateOpen, pending, result>>
  BY DEF Stay
<1>3. CpuBusy' = CpuBusy /\ SysBusy' = SysBusy
  BY <1>1, <1>2 DEF CpuBusy, SysBusy
<1>4. SleepTypeOK'
  BY <1>1, <1>2 DEF SleepInv, SleepTypeOK
<1> QED
  BY <1>1, <1>2, <1>3, <1>4 DEF SleepInv, GoingDeep

LEMMA LowpowerKeeps ==
  ASSUME SleepInv, LowpowerMode,
         light' \in BOOLEAN, flash' \in [nv : 0 .. MaxNv, ops : 0 .. MaxOps],
         ~CpuBusy, ~SysBusy, "trace" \notin busy, flash'.ops = 0 \/ ~gateOpen
  PROVE  SleepInv'
<1>1. /\ asleep' \subseteq Always \cup Chip
      /\ asleep' \cap Chip # {} => chipLock = {}
  BY DEF LowpowerMode, Always, Chip
<1>2. Stay("falling")
  BY DEF LowpowerMode
<1> QED
  BY <1>1, <1>2, StayKeeps

LEMMA DeepSleepKeeps ==
  ASSUME SleepInv, DeepSleep,
         light' \in BOOLEAN, flash' \in [nv : 0 .. MaxNv, ops : 0 .. MaxOps],
         ~CpuBusy, ~SysBusy, "trace" \notin busy, flash'.ops = 0 \/ ~gateOpen
  PROVE  SleepInv'
  BY LowpowerKeeps, ReturnKeeps DEF DeepSleep

(***************************************************************************)
(* hal_sleep_proc.                                                         *)
(***************************************************************************)
LEMMA EnterKeeps ==
  ASSUME SleepInv, NEW lightSleep \in BOOLEAN, EnterSleep(lightSleep)
  PROVE  SleepInv'
<1> DEFINE Flashes == [nv : 0 .. MaxNv, ops : 0 .. MaxOps]
<1>1. core = "run" /\ light' \in BOOLEAN /\ SleepProc
  BY DEF EnterSleep
<1>2. flash \in Flashes /\ asleep = {}
  BY <1>1 DEF SleepInv, SleepTypeOK
<1>3. CASE CpuBusy /\ Return("LIGHT") /\ UNCHANGED flash
  BY <1>1, <1>2, <1>3, ReturnKeeps
<1>4. CASE /\ ~CpuBusy
           /\ \E f \in NvHook(flash) :
                IF CanFlush(f)
                THEN flash' \in Flushed(f) /\ Return("LIGHT")
                ELSE flash' = f /\ ChooseSleep
  <2>1. PICK f \in NvHook(flash) :
               IF CanFlush(f)
               THEN flash' \in Flushed(f) /\ Return("LIGHT")
               ELSE flash' = f /\ ChooseSleep
    BY <1>4
  <2>2. f \in Flashes /\ Flushed(f) \subseteq Flashes
    BY HooksType DEF SleepInv
  <2>3. CASE CanFlush(f)
    <3>1. flash' \in Flashes /\ Return("LIGHT")
      BY <2>1, <2>2, <2>3
    <3> QED
      BY <1>1, <3>1, ReturnKeeps
  <2>4. CASE ~CanFlush(f)
    <3>1. flash' = f /\ ChooseSleep
      BY <2>1, <2>4
    <3>2. flash' \in Flashes /\ (flash'.ops = 0 \/ ~gateOpen)
      BY <2>2, <2>4, <3>1, SleepAssumption DEF CanFlush
    <3>3. CASE SysBusy /\ Stay("light") /\ UNCHANGED asleep
      BY <1>1, <1>2, <3>2, <3>3, StayKeeps
    <3>4. CASE ~SysBusy /\ "trace" \in busy /\ Stay("poll") /\ UNCHANGED asleep
      BY <1>1, <1>2, <1>4, <3>2, <3>4, StayKeeps
    <3>5. CASE ~SysBusy /\ "trace" \notin busy /\ DeepSleep
      BY <1>1, <1>4, <3>2, <3>5, DeepSleepKeeps
    <3> QED
      BY <3>1, <3>3, <3>4, <3>5 DEF ChooseSleep
  <2> QED
    BY <2>3, <2>4
<1> QED
  BY <1>1, <1>3, <1>4 DEF SleepProc

(***************************************************************************)
(* The sleep itself, and how it ends.                                      *)
(***************************************************************************)
LEMMA SleepingKeeps ==
  ASSUME SleepInv, Sleeping
  PROVE  SleepInv'
<1>1. light \in BOOLEAN /\ flash \in [nv : 0 .. MaxNv, ops : 0 .. MaxOps]
  BY DEF SleepInv, SleepTypeOK
<1>2. CASE WakeLight \/ FallBack
  BY <1>1, <1>2, ReturnKeeps DEF WakeLight, FallBack
<1>3. CASE WakeDeep
  BY <1>1, <1>3, ReturnKeeps DEF WakeDeep
<1>4. CASE PollTrace
  <2>1. CASE Return("LIGHT")
    BY <1>1, <1>4, <2>1, ReturnKeeps DEF PollTrace
  <2>2. CASE "trace" \notin busy /\ DeepSleep
    <3>1. ~CpuBusy /\ ~SysBusy /\ (flash.ops = 0 \/ ~gateOpen) /\ UNCHANGED <<flash, light>>
      BY <1>4 DEF PollTrace, SleepInv, GoingDeep
    <3> QED
      BY <1>1, <2>2, <3>1, DeepSleepKeeps
  <2> QED
    BY <1>4, <2>1, <2>2 DEF PollTrace
<1>5. CASE LpuSleep
  <2>1. core = "falling" /\ Stay("deep") /\ UNCHANGED <<flash, asleep, light>>
    BY <1>5 DEF LpuSleep
  <2>2. /\ ~CpuBusy /\ ~SysBusy /\ (flash'.ops = 0 \/ ~gateOpen) /\ "trace" \notin busy
        /\ asleep' \subseteq Always \cup Chip /\ (asleep' \cap Chip # {} => chipLock = {})
    BY <2>1 DEF SleepInv, SleepTypeOK, GoingDeep
  <2> QED
    BY <1>1, <2>1, <2>2, StayKeeps
<1> QED
  BY <1>2, <1>3, <1>4, <1>5 DEF Sleeping

(***************************************************************************)
(* The threads and the interrupts, which run only while nothing sleeps.    *)
(***************************************************************************)
LEMMA LocksKeeps ==
  ASSUME SleepInv, Locks
  PROVE  SleepInv'
<1>1. SysfreqInv' /\ SysfreqTypeOK' /\ SysfreqBusy' = SysfreqBusy
  BY VotesStay DEF Locks, sysfreqVars
<1>2. core = "run" /\ UNCHANGED <<busy, flash, gateOpen, pending, core, asleep, light, result>>
  BY DEF Locks
<1>3. cpuLock' \subseteq CpuUser /\ sysLock' \subseteq SysUser /\ chipLock' \subseteq ChipUser
  BY DEF Locks, WakeLock, SleepInv, SleepTypeOK
<1>4. SleepTypeOK'
  BY <1>1, <1>2, <1>3 DEF SleepInv, SleepTypeOK
<1> QED
  BY <1>1, <1>2, <1>4 DEF SleepInv, GoingDeep

LEMMA VotesKeeps ==
  ASSUME SleepInv, Votes
  PROVE  SleepInv'
<1>1. SysfreqInv' /\ SysfreqTypeOK'
  BY SysfreqInvNext DEF Votes, SleepInv, SysfreqInv
<1>2. core = "run" /\ UNCHANGED <<cpuLock, sysLock, chipLock, busy, flash, gateOpen, pending,
                                  core, asleep, light, result>>
  BY DEF Votes, sleepVars
<1> QED
  BY <1>1, <1>2 DEF SleepInv, SleepTypeOK, GoingDeep

LEMMA DevicesKeep ==
  ASSUME SleepInv, StartDevice \/ DeviceDone
  PROVE  SleepInv'
<1>1. SysfreqInv' /\ SysfreqTypeOK' /\ SysfreqBusy' = SysfreqBusy
  BY VotesStay DEF StartDevice, DeviceDone, sysfreqVars
<1>2. UNCHANGED <<cpuLock, sysLock, chipLock, flash, gateOpen, pending, core, asleep, light,
                  result>>
  BY DEF StartDevice, DeviceDone
<1>3. busy' \subseteq Device /\ (core = "run" \/ busy' \subseteq busy)
  BY DEF StartDevice, DeviceDone, SleepInv, SleepTypeOK
<1>4. SleepTypeOK'
  BY <1>1, <1>2, <1>3 DEF SleepInv, SleepTypeOK
<1> QED
  BY <1>1, <1>2, <1>3, <1>4 DEF SleepInv, GoingDeep, CpuBusy, SysBusy

LEMMA FlashWorkKeeps ==
  ASSUME SleepInv, FlashWork
  PROVE  SleepInv'
<1>1. SysfreqInv' /\ SysfreqTypeOK'
  BY VotesStay DEF FlashWork, sysfreqVars
<1>2. core = "run" /\ UNCHANGED <<cpuLock, sysLock, chipLock, busy, pending, core, asleep, light,
                                  result>>
  BY DEF FlashWork
<1>3. flash \in [nv : 0 .. MaxNv, ops : 0 .. MaxOps] /\ gateOpen \in BOOLEAN
  BY DEF SleepInv, SleepTypeOK
<1>4. \/ flash' = [flash EXCEPT !.nv = MaxNv]
      \/ flash.ops < MaxOps /\ flash' = [flash EXCEPT !.ops = @ + 1]
      \/ UNCHANGED flash
  BY DEF FlashWork
<1>5. flash' \in [nv : 0 .. MaxNv, ops : 0 .. MaxOps]
  BY <1>3, <1>4, SleepAssumption
<1>6. gateOpen' \in BOOLEAN
  BY <1>3, Zenon DEF FlashWork
<1> QED
  BY <1>1, <1>2, <1>5, <1>6 DEF SleepInv, SleepTypeOK, GoingDeep

(***************************************************************************)
(* An interrupt becomes pending, is served, or nothing happens at all.     *)
(***************************************************************************)
LEMMA PendingKeeps ==
  ASSUME SleepInv, pending' \subseteq Irq,
         UNCHANGED <<cpuLock, sysLock, chipLock, busy, flash, gateOpen, core, asleep, light, result,
                     sysfreqVars>>
  PROVE  SleepInv'
<1>1. SysfreqInv' /\ SysfreqTypeOK' /\ SysfreqBusy' = SysfreqBusy
  BY VotesStay
<1> QED
  BY <1>1 DEF SleepInv, SleepTypeOK, GoingDeep, CpuBusy, SysBusy

LEMMA SleepInvNext == SleepInv /\ [Next]_vars => SleepInv'
<1> SUFFICES ASSUME SleepInv, [Next]_vars PROVE SleepInv'
  OBVIOUS
<1>1. CASE Idle
  BY <1>1, EnterKeeps DEF Idle
<1>2. CASE Sleeping
  BY <1>2, SleepingKeeps
<1>3. CASE StartDevice \/ DeviceDone
  BY <1>3, DevicesKeep
<1>4. CASE FlashWork
  BY <1>4, FlashWorkKeeps
<1>5. CASE Locks
  BY <1>5, LocksKeeps
<1>6. CASE Votes
  BY <1>6, VotesKeeps
<1>7. CASE Raise \/ Serve
  BY <1>7, PendingKeeps DEF Raise, Serve, SleepInv, SleepTypeOK
<1>8. CASE UNCHANGED vars
  BY <1>8, PendingKeeps DEF vars, sleepVars, SleepInv, SleepTypeOK
<1> QED
  BY <1>1, <1>2, <1>3, <1>4, <1>5, <1>6, <1>7, <1>8 DEF Next

\* The invariant of the sleep, for any users, devices, interrupts and hooks.
THEOREM SleepInvariant == Spec => []SleepInv
<1> QED
  BY SleepInvInit, SleepInvNext, PTL DEF Spec

(***************************************************************************)
(* hal_sleep goes deep only while nobody holds a lock or a vote and the    *)
(* devices are idle, and no module is left asleep when the CPU runs.       *)
(***************************************************************************)
THEOREM DeepSleepTheorem == Spec => []DeepSleepAllowed
<1>1. SleepInv => DeepSleepAllowed
  BY DEF SleepInv, DeepSleepAllowed, GoingDeep
<1> QED
  BY <1>1, SleepInvariant, PTL

(***************************************************************************)
(* The hooks leave nothing unwritten that norflash_api may write when the  *)
(* system is in deep sleep.                                                *)
(***************************************************************************)
THEOREM FlushedTheorem == Spec => []FlushedBeforeDeep
<1>1. SleepInv => FlushedBeforeDeep
  BY DEF SleepInv, FlushedBeforeDeep, GoingDeep
<1> QED
  BY <1>1, SleepInvariant, PTL

(***************************************************************************)
(* hal_sleep implements hal_sysfreq: its steps are steps of the votes or   *)
(* leave the clock alone, and so what is proved of the clock and of the    *)
(* voltage holds however the CPU sleeps.                                   *)
(***************************************************************************)
THEOREM SleepImplementsSysfreq == Spec => SysfreqSpec
<1>1. SleepInit => SysfreqInit
  BY DEF SleepInit
<1>2. [Next]_vars => [SysfreqNext]_sysfreqVars
  BY DEF Next, vars, Idle, EnterSleep, SleepProc, ChooseSleep, DeepSleep, LowpowerMode, Stay,
         Return, Sleeping, WakeLight, PollTrace, LpuSleep, FallBack, WakeDeep, StartDevice,
         DeviceDone, FlashWork, Locks, Votes, Raise, Serve
<1> QED
  BY <1>1, <1>2, PTL DEF Spec, SysfreqSpec

-----------------------------------------------------------------------------
(***************************************************************************)
(* rtx.  Whoever waits for the scheduler has asked for it: by PendSV, or,  *)
(* while the scheduler is suspended, by a flag that rt_resume looks at.    *)
(***************************************************************************)
Requested ==
  \/ "pendsv" \in pending
  \/ os.lock /\ (os.psh \/ "pendsv" \in os.pend)

SuspendedAt == {"stamp", "arm", "sleep", "slept", "resume", "catchup", "unlock"}

KernelTypeOK ==
  /\ core \in {"run", "light", "poll", "falling", "deep"}
  /\ os \in [lock : BOOLEAN, psh : BOOLEAN, pend : SUBSET {"systick", "pendsv"}]
  /\ sched \in [run : Thread \cup {Nobody}, ready : SUBSET Thread, psq : SUBSET Thread]
  /\ "at" \in DOMAIN idle
  /\ idle.at \in {"call", "called", "suspend", "lock"} \cup SuspendedAt
  /\ "int" \in DOMAIN tick
  /\ DOMAIN dly = Thread

\* Where the idle thread is while the scheduler is suspended or the CPU sleeps.
IdlePlace ==
  /\ os.lock <=> idle.at \in SuspendedAt
  /\ core # "run" => idle.at \in {"called", "slept"}
  /\ os.lock \/ core # "run" => sched.run = Nobody

(***************************************************************************)
(* A request made while the scheduler is suspended keeps the CPU awake by  *)
(* the wake lock of the kernel, and one made before by not going to sleep. *)
(***************************************************************************)
Suspension ==
  /\ ~os.lock => ~os.psh /\ os.pend = {}
  /\ os.lock => pending \cap {"systick", "pendsv"} = {} /\ ~tick.int
  /\ idle.at \in {"arm", "sleep", "slept"} => os.pend = {}
  /\ os.psh => "rtos" \in cpuLock
  /\ core # "run" => cpuLock = {}

NothingForgotten ==
  sched.psq # {} \/ (sched.run = Nobody /\ sched.ready # {}) => Requested

KernelInv == KernelTypeOK /\ IdlePlace /\ Suspension /\ NothingForgotten

LEMMA KernelInvInit == RtInit => KernelInv
  BY RtAssumption
     DEF RtInit, SleepInit, KernelInv, KernelTypeOK, IdlePlace, Suspension, NothingForgotten,
         SuspendedAt, Awake

(***************************************************************************)
(* What the steps of the kernel leave in its lists.                        *)
(***************************************************************************)
LEMMA DispatchType ==
  ASSUME NEW ready \in SUBSET Thread, NEW psq \in SUBSET Thread, Dispatch(ready, psq)
  PROVE  /\ sched' \in [run : Thread \cup {Nobody}, ready : SUBSET Thread, psq : SUBSET Thread]
         /\ sched'.psq = psq
         /\ sched'.run = Nobody => sched'.ready = {}
  BY RtAssumption DEF Dispatch

LEMMA MessagesType == \A n : Messages(n) \subseteq Thread
  BY RtAssumption DEF Messages

LEMMA RunnableType == KernelTypeOK => Runnable \subseteq Thread
  BY DEF KernelTypeOK, Runnable

(***************************************************************************)
(* rt_psh_req leaves a request, which keeps the CPU awake while the        *)
(* scheduler is suspended.                                                 *)
(***************************************************************************)
LEMMA PshReqAsks ==
  ASSUME KernelInv, NEW others, PshReq(others), core = "run"
  PROVE  /\ os' \in [lock : BOOLEAN, psh : BOOLEAN, pend : SUBSET {"systick", "pendsv"}]
         /\ os'.lock = os.lock /\ os'.pend = os.pend
         /\ ~os.lock => ~os'.psh /\ pending' = others \cup {"pendsv"}
         /\ os.lock => os'.psh /\ pending' = others
         /\ os'.psh => "rtos" \in cpuLock'
         /\ Requested'
<1>1. os \in [lock : BOOLEAN, psh : BOOLEAN, pend : SUBSET {"systick", "pendsv"}]
  BY DEF KernelInv, KernelTypeOK
<1>2. /\ os' \in [lock : BOOLEAN, psh : BOOLEAN, pend : SUBSET {"systick", "pendsv"}]
      /\ os'.lock = os.lock /\ os'.pend = os.pend /\ os'.psh = (os.psh \/ os.lock)
  BY <1>1 DEF PshReq
<1>3. /\ ~os.lock => pending' = others \cup {"pendsv"} /\ cpuLock' = cpuLock
      /\ os.lock => pending' = others /\ cpuLock' = cpuLock \cup {"rtos"}
  BY DEF PshReq
<1>4. ~os.lock => ~os.psh
  BY DEF KernelInv, Suspension
<1> QED
  BY <1>1, <1>2, <1>3, <1>4 DEF Requested

(***************************************************************************)
(* A step that leaves what the kernel holds alone, and of the interrupts   *)
(* adds none of the kernel's own unless the scheduler runs.                *)
(***************************************************************************)
LEMMA ElapseKeeps ==
  ASSUME KernelInv, Elapse
  PROVE  KernelInv'
<1>1. /\ UNCHANGED <<os, idle, sched, dly, cpuLock, core>>
      /\ tick'.int = tick.int /\ "int" \in DOMAIN tick'
  BY DEF Elapse, KernelInv, KernelTypeOK
<1>2. /\ "pendsv" \in pending' <=> "pendsv" \in pending
      /\ "systick" \in pending' => "systick" \in pending \/ tick.int
  BY DEF Elapse
<1> QED
  BY <1>1, <1>2
     DEF KernelInv, KernelTypeOK, IdlePlace, Suspension, NothingForgotten, Requested

LEMMA RaiseEventKeeps ==
  ASSUME KernelInv, RaiseEvent
  PROVE  KernelInv'
<1>1. UNCHANGED <<os, idle, sched, dly, cpuLock, core, tick>>
  BY DEF RaiseEvent, rtVars, SleepRest
<1>2. pending' = pending \cup {"event"}
  BY DEF RaiseEvent
<1> QED
  BY <1>1, <1>2
     DEF KernelInv, KernelTypeOK, IdlePlace, Suspension, NothingForgotten, Requested

(***************************************************************************)
(* The interrupts.  The tick and PendSV are not served while the scheduler *)
(* is suspended, for they are not pending then.                            *)
(***************************************************************************)
LEMMA SysTickKeeps ==
  ASSUME KernelInv, SysTick
  PROVE  KernelInv'
<1>1. core = "run" /\ "systick" \in pending /\ UNCHANGED <<core, idle, tick>>
  BY DEF SysTick, Serving, IrqUnlocked, SleepRest
<1>2. ~os.lock /\ ~os.psh /\ os.pend = {}
  BY <1>1 DEF KernelInv, Suspension
<1>3. DOMAIN dly' = Thread
  BY DEF SysTick, Lapse, KernelInv, KernelTypeOK
<1>4. /\ Runnable \cup Due(dly, 1) \subseteq Thread
      /\ sched.psq \cup Messages(1) \subseteq Thread
  BY RunnableType, MessagesType DEF Due, KernelInv, KernelTypeOK
<1>5. /\ sched' \in [run : Thread \cup {Nobody}, ready : SUBSET Thread, psq : SUBSET Thread]
      /\ sched'.psq = sched.psq \cup Messages(1)
      /\ sched'.run = Nobody => sched'.ready = {}
  BY <1>4, DispatchType DEF SysTick
<1>6. CASE Messages(1) = {}
  <2>1. pending' = pending \ {"systick"} /\ UNCHANGED <<os, cpuLock>>
    BY <1>6 DEF SysTick, NoReq
  <2>2. sched'.psq = sched.psq
    BY <1>5, <1>6
  <2>3. NothingForgotten'
    BY <1>2, <1>5, <2>1, <2>2 DEF KernelInv, NothingForgotten, Requested
  <2> QED
    BY <1>1, <1>2, <1>3, <1>5, <2>1, <2>2, <2>3
       DEF KernelInv, KernelTypeOK, IdlePlace, Suspension
<1>7. CASE Messages(1) # {}
  <2>1. PshReq(pending \ {"systick"})
    BY <1>7 DEF SysTick
  <2>2. /\ os' \in [lock : BOOLEAN, psh : BOOLEAN, pend : SUBSET {"systick", "pendsv"}]
        /\ ~os'.lock /\ ~os'.psh /\ os'.pend = {} /\ Requested'
    BY <1>1, <1>2, <2>1, PshReqAsks
  <2> QED
    BY <1>1, <1>2, <1>3, <1>5, <2>2
       DEF KernelInv, KernelTypeOK, IdlePlace, Suspension, NothingForgotten
<1> QED
  BY <1>6, <1>7

LEMMA PendSvKeeps ==
  ASSUME KernelInv, PendSv
  PROVE  KernelInv'
<1>1. core = "run" /\ "pendsv" \in pending /\ UNCHANGED <<core, idle, tick>>
  BY DEF PendSv, Serving, IrqUnlocked, SleepRest
<1>2. ~os.lock /\ ~os.psh /\ os.pend = {}
  BY <1>1 DEF KernelInv, Suspension
<1>3. DOMAIN dly' = Thread
  BY DEF PendSv
<1>4. /\ Runnable \cup sched.psq \in SUBSET Thread /\ {} \in SUBSET Thread
      /\ Dispatch(Runnable \cup sched.psq, {})
  BY RunnableType DEF KernelInv, KernelTypeOK, PendSv
<1>5. /\ sched' \in [run : Thread \cup {Nobody}, ready : SUBSET Thread, psq : SUBSET Thread]
      /\ sched'.psq = {}
      /\ sched'.run = Nobody => sched'.ready = {}
  BY <1>4, DispatchType
<1>6. pending' = pending \ {"pendsv"} /\ UNCHANGED <<os, cpuLock>>
  BY DEF PendSv, NoReq
<1> QED
  BY <1>1, <1>2, <1>3, <1>5, <1>6
     DEF KernelInv, KernelTypeOK, IdlePlace, Suspension, NothingForgotten

(***************************************************************************)
(* What rt_psh_req asked for, in a step that moves nobody off the CPU.     *)
(***************************************************************************)
LEMMA PshReqKeeps ==
  ASSUME KernelInv, NEW others, PshReq(others), core = "run", UNCHANGED <<core, tick>>,
         others \subseteq pending, DOMAIN dly' = Thread,
         sched' \in [run : Thread \cup {Nobody}, ready : SUBSET Thread, psq : SUBSET Thread],
         sched'.run = sched.run, "at" \in DOMAIN idle',
         idle'.at \in SuspendedAt <=> idle.at \in SuspendedAt,
         idle'.at \in {"call", "called", "suspend", "lock"} \cup SuspendedAt,
         idle'.at \in {"arm", "sleep", "slept"} => idle.at \in {"arm", "sleep", "slept"}
  PROVE  KernelInv'
<1>1. /\ os' \in [lock : BOOLEAN, psh : BOOLEAN, pend : SUBSET {"systick", "pendsv"}]
      /\ os'.lock = os.lock /\ os'.pend = os.pend
      /\ ~os.lock => ~os'.psh /\ pending' = others \cup {"pendsv"}
      /\ os.lock => os'.psh /\ pending' = others
      /\ os'.psh => "rtos" \in cpuLock'
      /\ Requested'
  BY PshReqAsks
<1>2. KernelTypeOK'
  BY <1>1 DEF KernelInv, KernelTypeOK
<1>3. IdlePlace'
  BY <1>1 DEF KernelInv, IdlePlace
<1>4. Suspension'
  BY <1>1 DEF KernelInv, Suspension
<1> QED
  BY <1>1, <1>2, <1>3, <1>4 DEF KernelInv, NothingForgotten

LEMMA HwTimerKeeps ==
  ASSUME KernelInv, HwTimer
  PROVE  KernelInv'
<1>1. /\ core = "run" /\ PshReq(pending \ {"timer"}) /\ pending \ {"timer"} \subseteq pending
      /\ UNCHANGED <<core, tick, idle, sched, dly>>
  BY DEF HwTimer, Serving, IrqUnlocked, SleepRest
<1> QED
  BY <1>1, PshReqKeeps DEF KernelInv, KernelTypeOK

LEMMA EventKeeps ==
  ASSUME KernelInv, Event
  PROVE  KernelInv'
<1>1. /\ core = "run" /\ PshReq(pending \ {"event"}) /\ pending \ {"event"} \subseteq pending
      /\ UNCHANGED <<core, tick, idle, dly>>
  BY DEF Event, Serving, IrqUnlocked, SleepRest
<1>2. PICK t \in Thread : sched' = [sched EXCEPT !.psq = @ \cup {t}]
  BY DEF Event
<1>3. /\ sched' \in [run : Thread \cup {Nobody}, ready : SUBSET Thread, psq : SUBSET Thread]
      /\ sched'.run = sched.run
  BY <1>2 DEF KernelInv, KernelTypeOK
<1> QED
  BY <1>1, <1>3, PshReqKeeps DEF KernelInv, KernelTypeOK

LEMMA InterruptKeeps == KernelInv /\ Interrupt => KernelInv'
  BY SysTickKeeps, PendSvKeeps, HwTimerKeeps, EventKeeps DEF Interrupt

(***************************************************************************)
(* The threads run only with no interrupt pending: nobody waits for the    *)
(* scheduler then.                                                         *)
(***************************************************************************)
LEMMA BlockKeeps ==
  ASSUME KernelInv, NEW t \in Thread, NEW d, Block(t, d)
  PROVE  KernelInv'
<1>1. /\ core = "run" /\ pending = {} /\ sched.run # Nobody
      /\ UNCHANGED <<tick, os, idle, core, pending, cpuLock>>
  BY RtAssumption DEF Block, Running, vars, sleepVars
<1>2. ~os.lock /\ ~os.psh /\ os.pend = {}
  BY <1>1 DEF KernelInv, IdlePlace, Suspension
<1>3. sched.psq = {}
  BY <1>1, <1>2 DEF KernelInv, NothingForgotten, Requested
<1>4. DOMAIN dly' = Thread
  BY DEF Block, KernelInv, KernelTypeOK
<1>5. sched.ready \in SUBSET Thread /\ sched.psq \in SUBSET Thread
  BY DEF KernelInv, KernelTypeOK
<1>6. /\ sched' \in [run : Thread \cup {Nobody}, ready : SUBSET Thread, psq : SUBSET Thread]
      /\ sched'.psq = sched.psq
      /\ sched'.run = Nobody => sched'.ready = {}
  BY <1>5, DispatchType DEF Block
<1> QED
  BY <1>1, <1>2, <1>3, <1>4, <1>6
     DEF KernelInv, KernelTypeOK, IdlePlace, Suspension, NothingForgotten

\* The threads take and leave wake locks, that of the kernel too if it is theirs.
LEMMA ThreadLocksKeeps ==
  ASSUME KernelInv, NEW t \in Thread, ThreadLocks(t)
  PROVE  KernelInv'
<1>1. /\ core = "run" /\ sched.run # Nobody
      /\ UNCHANGED <<tick, os, idle, core, pending, sched, dly>>
  BY RtAssumption DEF ThreadLocks, Running, Locks
<1>2. ~os.lock /\ ~os.psh
  BY <1>1 DEF KernelInv, IdlePlace, Suspension
<1> QED
  BY <1>1, <1>2
     DEF KernelInv, KernelTypeOK, IdlePlace, Suspension, NothingForgotten, Requested

LEMMA ThreadStepKeeps ==
  ASSUME KernelInv, ThreadStep
  PROVE  KernelInv'
<1>1. ASSUME NEW t \in Thread, NEW x \in OsTimer, NEW d \in 0 .. MaxDelay, StartTimer(t, x, d)
      PROVE  KernelInv'
  <2>1. UNCHANGED <<tick, os, idle, core, pending, sched, dly, cpuLock>>
    BY <1>1 DEF StartTimer, Running, vars, sleepVars
  <2> QED
    BY <2>1 DEF KernelInv, KernelTypeOK, IdlePlace, Suspension, NothingForgotten, Requested
<1> QED
  BY <1>1, BlockKeeps, ThreadLocksKeeps DEF ThreadStep

(***************************************************************************)
(* hal_sleep leaves the interrupts and the wake locks alone, and goes to   *)
(* sleep only while nobody holds a cpu wake lock.                          *)
(***************************************************************************)
LEMMA EnterSleepFrame ==
  ASSUME NEW lightSleep, EnterSleep(lightSleep)
  PROVE  /\ UNCHANGED <<pending, cpuLock>>
         /\ core' \in {"run", "light", "poll", "falling"}
         /\ core' # "run" => cpuLock = {}
  BY DEF EnterSleep, SleepProc, ChooseSleep, DeepSleep, LowpowerMode, Stay, Return, CpuBusy

LEMMA SleepingFrame ==
  ASSUME Sleeping
  PROVE  /\ UNCHANGED <<pending, cpuLock>> /\ core # "run"
         /\ core' \in {"run", "falling", "deep"}
  BY DEF Sleeping, WakeLight, PollTrace, LpuSleep, FallBack, WakeDeep, DeepSleep, LowpowerMode,
         Stay, Return

LEMMA WakingKeeps ==
  ASSUME KernelInv, Waking
  PROVE  KernelInv'
<1>1. /\ UNCHANGED <<pending, cpuLock>> /\ core # "run"
      /\ core' \in {"run", "falling", "deep"}
  BY SleepingFrame DEF Waking
<1>2. UNCHANGED <<tick, os, idle, sched, dly>>
  BY DEF Waking, rtVars
<1> QED
  BY <1>1, <1>2
     DEF KernelInv, KernelTypeOK, IdlePlace, Suspension, NothingForgotten, Requested

(***************************************************************************)
(* The idle thread.  The steps that only move it: into a sleep,            *)
(***************************************************************************)
LEMMA SleepStepKeeps ==
  ASSUME KernelInv, LightSleep \/ DeepSleepNow
  PROVE  KernelInv'
<1>1. /\ core = "run" /\ sched.run = Nobody /\ UNCHANGED <<tick, os, sched, dly>>
      /\ UNCHANGED <<pending, cpuLock>>
      /\ core' \in {"run", "light", "poll", "falling"} /\ (core' # "run" => cpuLock = {})
  BY EnterSleepFrame DEF LightSleep, DeepSleepNow, At
<1>2. \/ idle.at = "call" /\ idle'.at = "called"
      \/ idle.at = "sleep" /\ idle'.at = "slept"
  BY DEF LightSleep, DeepSleepNow, At, Goto, KernelInv, KernelTypeOK
<1>3. "at" \in DOMAIN idle'
  BY DEF LightSleep, DeepSleepNow, Goto, KernelInv, KernelTypeOK
<1>4. KernelTypeOK'
  BY <1>1, <1>2, <1>3 DEF KernelInv, KernelTypeOK, SuspendedAt
<1>5. IdlePlace' /\ Suspension'
  BY <1>1, <1>2 DEF KernelInv, IdlePlace, Suspension, SuspendedAt
<1> QED
  BY <1>1, <1>4, <1>5 DEF KernelInv, NothingForgotten, Requested

\* and between the others.
LEMMA MoveKeeps ==
  ASSUME KernelInv, LightSlept \/ Suspend \/ Arm \/ Slept \/ Resume \/ WrappedInside
  PROVE  KernelInv'
<1>1. /\ core = "run" /\ sched.run = Nobody
      /\ UNCHANGED <<tick, os, sched, dly, pending, cpuLock, core>>
  BY DEF LightSlept, Suspend, Arm, Slept, Resume, WrappedInside, At, vars, sleepVars
<1>2. "at" \in DOMAIN idle'
  BY DEF LightSlept, Suspend, Arm, Slept, Resume, WrappedInside, Goto, KernelInv, KernelTypeOK
<1>3. \/ idle.at = "called" /\ idle'.at \in {"suspend", "call"}
      \/ idle.at = "suspend" /\ idle'.at = "lock"
      \/ idle.at = "arm" /\ idle'.at = "sleep"
      \/ idle.at = "slept" /\ idle'.at = "resume"
      \/ idle.at = "resume" /\ idle'.at \in {"unlock", "catchup"}
      \/ idle.at = "unlock" /\ idle'.at = "catchup"
  BY DEF LightSlept, Suspend, Arm, Slept, Resume, WrappedInside, At, Goto, KernelInv, KernelTypeOK
<1>4. KernelTypeOK'
  BY <1>1, <1>2, <1>3 DEF KernelInv, KernelTypeOK, SuspendedAt
<1>5. IdlePlace' /\ Suspension'
  BY <1>1, <1>3 DEF KernelInv, IdlePlace, Suspension, SuspendedAt
<1> QED
  BY <1>1, <1>4, <1>5 DEF KernelInv, NothingForgotten, Requested

\* rt_tsk_lock keeps a request that was pending in pend_flags,
LEMMA TskLockKeeps ==
  ASSUME KernelInv, TskLock
  PROVE  KernelInv'
<1>1. /\ core = "run" /\ sched.run = Nobody /\ idle.at = "lock"
      /\ UNCHANGED <<sched, dly, cpuLock, core>>
      /\ pending' = pending \ {"systick", "pendsv"}
  BY DEF TskLock, At, SleepRest
<1>2. ~os.lock /\ ~os.psh
  BY <1>1 DEF KernelInv, IdlePlace, Suspension, SuspendedAt
<1>3. /\ os' \in [lock : BOOLEAN, psh : BOOLEAN, pend : SUBSET {"systick", "pendsv"}]
      /\ os'.lock /\ ~os'.psh /\ os'.pend = pending \cap {"systick", "pendsv"}
  BY <1>2 DEF TskLock, KernelInv, KernelTypeOK
<1>4. /\ idle'.at = "stamp" /\ "at" \in DOMAIN idle' /\ ~tick'.int /\ "int" \in DOMAIN tick'
  BY DEF TskLock, Goto, KernelInv, KernelTypeOK
<1>5. Requested => Requested'
  BY <1>2, <1>3 DEF Requested
<1> QED
  BY <1>1, <1>3, <1>4, <1>5
     DEF KernelInv, KernelTypeOK, IdlePlace, Suspension, NothingForgotten, SuspendedAt

\* and with anything in it rt_suspend does not let the CPU sleep.
LEMMA StampKeeps ==
  ASSUME KernelInv, Stamp
  PROVE  KernelInv'
<1>1. /\ core = "run" /\ sched.run = Nobody /\ idle.at = "stamp"
      /\ UNCHANGED <<tick, sched, dly, pending, cpuLock, core>>
  BY DEF Stamp, At, vars, sleepVars
<1>2. os.lock
  BY <1>1 DEF KernelInv, IdlePlace, SuspendedAt
<1>3. /\ os' \in [lock : BOOLEAN, psh : BOOLEAN, pend : SUBSET {"systick", "pendsv"}]
      /\ os'.lock /\ os'.psh = os.psh /\ os.pend \subseteq os'.pend
  BY <1>2 DEF Stamp, KernelInv, KernelTypeOK
<1>4. /\ idle'.at \in {"arm", "resume"} /\ "at" \in DOMAIN idle'
      /\ idle'.at = "arm" => os'.pend = {}
  BY DEF Stamp, Awake
<1> QED
  BY <1>1, <1>2, <1>3, <1>4
     DEF KernelInv, KernelTypeOK, IdlePlace, Suspension, NothingForgotten, Requested, SuspendedAt

\* rt_resume asks for whom it finds due,
LEMMA CatchUpKeeps ==
  ASSUME KernelInv, CatchUp
  PROVE  KernelInv'
<1>1. /\ core = "run" /\ sched.run = Nobody /\ idle.at = "catchup"
      /\ UNCHANGED <<tick, core>>
  BY DEF CatchUp, At, SleepRest
<1>2. idle'.at = "unlock" /\ "at" \in DOMAIN idle'
  BY DEF CatchUp, KernelInv, KernelTypeOK
<1>3. DOMAIN dly' = Thread
  BY DEF CatchUp, CaughtUp, Lapse, KernelInv, KernelTypeOK
<1>4. Due(dly, idle.sleep) \subseteq Thread /\ Messages(idle.sleep) \subseteq Thread
  BY MessagesType DEF Due, KernelInv, KernelTypeOK
<1>5. /\ sched' \in [run : Thread \cup {Nobody}, ready : SUBSET Thread, psq : SUBSET Thread]
      /\ sched'.run = sched.run
      /\ sched'.ready = sched.ready \cup Due(dly, idle.sleep)
      /\ sched'.psq = sched.psq \cup Messages(idle.sleep)
  BY <1>4 DEF CatchUp, KernelInv, KernelTypeOK
<1>6. CASE Due(dly, idle.sleep) \cup Messages(idle.sleep) = {}
  <2>1. UNCHANGED <<pending, os, cpuLock>>
    BY <1>6 DEF CatchUp, NoReq
  <2>2. sched'.ready = sched.ready /\ sched'.psq = sched.psq
    BY <1>5, <1>6
  <2> QED
    BY <1>1, <1>2, <1>3, <1>5, <2>1, <2>2
       DEF KernelInv, KernelTypeOK, IdlePlace, Suspension, NothingForgotten, Requested, SuspendedAt
<1>7. CASE Due(dly, idle.sleep) \cup Messages(idle.sleep) # {}
  <2>1. PshReq(pending)
    BY <1>7 DEF CatchUp
  <2> QED
    BY <1>1, <1>2, <1>3, <1>5, <2>1, PshReqKeeps DEF SuspendedAt
<1> QED
  BY <1>6, <1>7

\* and makes what was kept meanwhile pending again.
LEMMA UnlockKeeps ==
  ASSUME KernelInv, Unlock
  PROVE  KernelInv'
<1>1. /\ core = "run" /\ sched.run = Nobody /\ idle.at = "unlock" /\ pending = {}
      /\ UNCHANGED <<sched, dly, core>>
      /\ pending' = OsPend /\ os' = [lock |-> FALSE, psh |-> FALSE, pend |-> {}]
      /\ idle' = Awake /\ "int" \in DOMAIN tick'
  BY DEF Unlock, At, SleepRest, TickOn
<1>2. os.lock
  BY <1>1 DEF KernelInv, IdlePlace, SuspendedAt
<1>3. Requested => Requested'
  BY <1>1, <1>2 DEF Requested, OsPend
<1> QED
  BY <1>1, <1>3
     DEF KernelInv, KernelTypeOK, IdlePlace, Suspension, NothingForgotten, SuspendedAt, Awake

LEMMA IdleStepKeeps == KernelInv /\ IdleStep => KernelInv'
  BY SleepStepKeeps, MoveKeeps, TskLockKeeps, StampKeeps, CatchUpKeeps, UnlockKeeps DEF IdleStep

LEMMA KernelInvNext == KernelInv /\ [RtNext]_allVars => KernelInv'
<1> SUFFICES ASSUME KernelInv, [RtNext]_allVars PROVE KernelInv'
  OBVIOUS
<1>1. CASE RtNext
  BY <1>1, ElapseKeeps, InterruptKeeps, RaiseEventKeeps, ThreadStepKeeps, IdleStepKeeps, WakingKeeps
     DEF RtNext
<1>2. CASE UNCHANGED allVars
  BY <1>2 DEF allVars, rtVars, vars, sleepVars, KernelInv, KernelTypeOK, IdlePlace, Suspension,
              NothingForgotten, Requested
<1> QED
  BY <1>1, <1>2

\* The invariant of the kernel, for any threads, timers, users and clock rates.
THEOREM KernelInvariant == RtSpec => []KernelInv
<1> QED
  BY KernelInvInit, KernelInvNext, PTL DEF RtSpec

(***************************************************************************)
(* The CPU never rests with a request in os_psq or a thread ready.  In a   *)
(* light sleep the request would be pending and end it; in a deep one it   *)
(* would be in pend_flags, which keep the idle thread from sleeping, or in *)
(* os_psh_flag, whose wake lock does.                                      *)
(***************************************************************************)
THEOREM NoRequestSleptOver == RtSpec => []NoSleepOverRequest
<1>1. ASSUME KernelInv, Resting
      PROVE  sched.psq = {} /\ sched.ready = {}
  <2>1. core # "run" /\ pending = {}
    BY <1>1 DEF Resting
  <2>2. sched.run = Nobody
    BY <1>1, <2>1 DEF KernelInv, IdlePlace
  <2>3. ~Requested
    BY <1>1, <2>1 DEF KernelInv, IdlePlace, Suspension, Requested, SuspendedAt
  <2> QED
    BY <1>1, <2>2, <2>3 DEF KernelInv, NothingForgotten
<1>2. KernelInv => NoSleepOverRequest
  BY <1>1 DEF NoSleepOverRequest
<1> QED
  BY <1>2, KernelInvariant, PTL

-----------------------------------------------------------------------------
(***************************************************************************)
(* How rtx keeps time over its sleeps, for any number of clocks in a tick  *)
(* and any time the CPU takes, where the slow timer is as fine as the      *)
(* SysTick.                                                                *)
(***************************************************************************)

(***************************************************************************)
(* Now is the time since os_time was as it is, in clocks and less a tick:  *)
(* it grows with each clock, and falls by a tick with each one counted.    *)
(* While the scheduler is suspended it can be read off rt_suspend's        *)
(* timestamps and the slow timer (Measured); before that rt_suspend has    *)
(* looked at the SysTick once, at most the time of two steps ago           *)
(* (LookedOnce, LookedTwice).                                              *)
(***************************************************************************)
Whole(val) == IF val = 0 THEN Reload ELSE val

Now == owed * Reload - Whole(grid)

Kept == IF "systick" \in os.pend THEN 1 ELSE 0

Measuring == {"arm", "sleep", "slept", "resume", "catchup", "unlock"}

TimeTypeOK ==
  /\ tick \in [val : 0 .. Reload - 1, int : BOOLEAN] /\ tick.val = grid
  /\ slow \in [phase : 0 .. Grain - 1, ago : Nat]
  /\ os \in [lock : BOOLEAN, psh : BOOLEAN, pend : SUBSET {"systick", "pendsv"}]
  /\ idle \in [at : {"call", "called", "suspend", "lock"} \cup SuspendedAt, start : 0 .. Reload - 1,
               toGo : 1 .. Reload, sleep : Nat, ticking : BOOLEAN]
  /\ dly \in [Thread -> 0 .. MaxDelay] /\ timers \in [OsTimer -> 0 .. MaxDelay]
  /\ hw \in 0 .. MaxSleep * Reload /\ slack \in 0 .. MaxSlack /\ owed \in Int
  /\ cpuLock \subseteq CpuUser \cup {"rtos"}
  /\ pending \subseteq {"systick", "pendsv", "timer", "event"}

InTime ==
  ~os.lock =>
    tick.int /\ slow.ago = 0 /\ owed = (IF "systick" \in pending THEN 1 ELSE 0)

LookedOnce ==
  idle.at = "lock" =>
    sched.run = Nobody /\ Now + Whole(idle.start) \in 0 .. slack

LookedTwice ==
  idle.at = "stamp" =>
    /\ Now + Whole(idle.start) \in 0 .. (slack + MaxSlack)
    /\ slow.ago <= slack
    /\ "systick" \in os.pend => owed = 1

Measured ==
  /\ idle.at # "catchup" => idle.sleep = 0
  /\ idle.at \in Measuring =>
       Now = (Kept + idle.sleep) * Reload - idle.toGo + slow.ago

(***************************************************************************)
(* The hwtimer ends the sleep before anybody has waited for too long.      *)
(***************************************************************************)
Horizon == {MaxSleep} \cup Waited(dly) \cup Waited(timers)

NotTooFar ==
  /\ idle.at = "arm" => Now < slack
  /\ idle.at \in {"sleep", "slept"} => \A n \in Horizon : Now + hw < n * Reload + slack
  /\ idle.at \in {"resume", "catchup", "unlock"} => \A n \in Horizon : Now < n * Reload + slack

WakesUp ==
  /\ idle.at = "sleep" => hw + slack >= Reload
  /\ idle.at = "slept" /\ core # "run" => hw > 0 \/ "timer" \in pending

TimeInv ==
  TimeTypeOK /\ InTime /\ LookedOnce /\ LookedTwice /\ Measured /\ NotTooFar /\ WakesUp

-----------------------------------------------------------------------------
(***************************************************************************)
(* Counting in ticks of Reload clocks.                                     *)
(***************************************************************************)
LEMMA Sizes ==
  /\ Reload \in Nat /\ MaxSlack \in Nat /\ MaxSleep \in Nat /\ Grain \in Nat \ {0}
  /\ Reload >= 3 /\ MaxSlack >= 1 /\ 2 * MaxSlack < Reload
  /\ MaxSleep >= 1 /\ MaxDelay \in Nat /\ MaxDelay <= MaxSleep
  BY RtAssumption

LEMMA TicksInt == \A a \in Int : a * Reload \in Int
  BY Sizes

LEMMA TicksAdd ==
  ASSUME NEW a \in Int, NEW b \in Int
  PROVE  (a + b) * Reload = a * Reload + b * Reload /\ (a - b) * Reload = a * Reload - b * Reload
  BY Sizes

LEMMA TicksNext == ASSUME NEW a \in Int PROVE (a + 1) * Reload = a * Reload + Reload
  BY Sizes

LEMMA TicksOrder ==
  ASSUME NEW a \in Int, NEW b \in Int, a < b
  PROVE  a * Reload + Reload <= b * Reload
<1> DEFINE k == b - a - 1
<1>1. k \in Nat /\ b = a + (k + 1)
  OBVIOUS
<1> HIDE DEF k
<1>2. k * Reload >= 0 /\ k * Reload \in Int
  BY <1>1, Sizes
<1>3. b * Reload = a * Reload + (k * Reload + Reload)
  <2>1. (a + (k + 1)) * Reload = a * Reload + (k * Reload + Reload)
    BY <1>1, Sizes
  <2> QED
    BY <1>1, <2>1
<1>4. a * Reload \in Int
  BY Sizes
<1> QED
  BY <1>2, <1>3, <1>4, Sizes

LEMMA TicksSign ==
  ASSUME NEW a \in Int
  PROVE  (a < 0 => a * Reload + Reload <= 0) /\ (a >= 1 => Reload <= a * Reload)
<1> DEFINE zero == 0
<1>1. zero \in Int /\ zero * Reload = 0 /\ zero = 0
  BY Sizes
<1> HIDE DEF zero
<1>2. a < zero => a * Reload + Reload <= zero * Reload
  BY <1>1, TicksOrder
<1>3. zero < a => zero * Reload + Reload <= a * Reload
  BY <1>1, TicksOrder
<1> QED
  BY <1>1, <1>2, <1>3, Sizes

\* The ticks and the clocks to the next one are told by the time.
LEMMA TicksUnique ==
  ASSUME NEW a \in Int, NEW b \in Int, NEW g \in 1 .. Reload, NEW h \in 1 .. Reload,
         a * Reload - g = b * Reload - h
  PROVE  a = b /\ g = h
<1>1. a * Reload \in Int /\ b * Reload \in Int
  BY TicksInt
<1>2. ~(a < b)
  <2> SUFFICES ASSUME a < b PROVE FALSE
    OBVIOUS
  <2>1. a * Reload + Reload <= b * Reload
    BY TicksOrder
  <2> QED
    BY <1>1, <2>1, Sizes
<1>3. ~(b < a)
  <2> SUFFICES ASSUME b < a PROVE FALSE
    OBVIOUS
  <2>1. b * Reload + Reload <= a * Reload
    BY TicksOrder
  <2> QED
    BY <1>1, <2>1, Sizes
<1>4. a = b
  BY <1>2, <1>3
<1> QED
  BY <1>1, <1>4, Sizes

\* What rt_resume works out from the slow timer.
LEMMA PassedLeft ==
  ASSUME NEW toGo \in 1 .. Reload, NEW clocks \in Nat
  PROVE  /\ Passed(toGo, clocks) \in Nat /\ Left(toGo, clocks) \in 1 .. Reload
         /\ clocks - toGo = Passed(toGo, clocks) * Reload - Left(toGo, clocks)
         /\ clocks < toGo => Passed(toGo, clocks) = 0 /\ Left(toGo, clocks) = toGo - clocks
<1>1. CASE clocks < toGo
  <2>1. Passed(toGo, clocks) = 0 /\ Left(toGo, clocks) = toGo - clocks
    BY <1>1, Sizes DEF Passed, Left
  <2>2. toGo - clocks \in 1 .. Reload /\ 0 * Reload = 0
    BY <1>1, Sizes
  <2> QED
    BY <2>1, <2>2, Sizes
<1>2. CASE ~(clocks < toGo)
  <2> DEFINE a == clocks - toGo
             q == a \div Reload
             r == a % Reload
  <2>1. Passed(toGo, clocks) = q + 1 /\ Left(toGo, clocks) = Reload - r /\ a \in Nat
    BY <1>2, Sizes DEF Passed, Left
  <2> HIDE DEF a
  <2>2. r + Reload * q = a
    BY <2>1, Sizes
  <2>3. r \in 0 .. (Reload - 1) /\ q \in Nat
    BY <2>1, Sizes
  <2> HIDE DEF q, r
  <2>4. (q + 1) * Reload = Reload * q + Reload /\ Reload * q \in Int
    BY <2>3, Sizes
  <2>5. a = (q + 1) * Reload - (Reload - r)
    BY <2>1, <2>2, <2>3, <2>4, Sizes
  <2>6. q + 1 \in Nat /\ Reload - r \in 1 .. Reload
    BY <2>3, Sizes
  <2> QED
    BY <1>2, <2>1, <2>5, <2>6 DEF a
<1> QED
  BY <1>1, <1>2

(***************************************************************************)
(* The clocks to the next tick.                                            *)
(***************************************************************************)
LEMMA WholeType == \A val \in 0 .. (Reload - 1) : Whole(val) \in 1 .. Reload
  BY Sizes DEF Whole

LEMMA WholeDown ==
  ASSUME NEW val \in 0 .. (Reload - 1)
  PROVE  /\ Down(val) \in 0 .. (Reload - 1)
         /\ Whole(Down(val)) = IF val = 1 THEN Whole(val) - 1 + Reload ELSE Whole(val) - 1
  BY Sizes DEF Whole, Down

LEMMA WholeMod ==
  ASSUME NEW val \in 0 .. (Reload - 1)
  PROVE  Whole(val) % Reload = val
<1>1. CASE val = 0
  <2>1. (Reload % Reload) + Reload * (Reload \div Reload) = Reload
    BY Sizes
  <2>2. Reload % Reload \in 0 .. (Reload - 1) /\ Reload \div Reload \in Nat
    BY Sizes
  <2>3. ASSUME NEW r \in 0 .. (Reload - 1), NEW q \in Nat, r + Reload * q = Reload
        PROVE  r = 0
    <3>1. /\ q * Reload - (Reload - r) = 0 * Reload - 0
          /\ q * Reload = Reload * q /\ 1 * Reload = Reload
      BY <2>3, Sizes
    <3>2. q * Reload - (Reload - r) = 1 * Reload - Reload
      BY <2>3, <3>1, Sizes
    <3>3. Reload - r \in 1 .. Reload /\ Reload \in 1 .. Reload /\ q \in Int /\ 1 \in Int
      BY Sizes
    <3>4. Reload - r = Reload
      BY <3>2, <3>3, TicksUnique
    <3> QED
      BY <3>4, Sizes
  <2> QED
    BY <1>1, <2>1, <2>2, <2>3 DEF Whole
<1>2. CASE val # 0
  <2>1. val % Reload = val
    <3>1. (val % Reload) + Reload * (val \div Reload) = val
      BY Sizes
    <3>2. val % Reload \in 0 .. (Reload - 1) /\ val \div Reload \in Nat
      BY Sizes
    <3>3. ASSUME NEW r \in 0 .. (Reload - 1), NEW q \in Nat, r + Reload * q = val
          PROVE  r = val
      <4>1. (q + 1) * Reload = Reload * q + Reload /\ 1 * Reload = Reload /\ Reload * q \in Int
        BY Sizes
      <4>2. (q + 1) * Reload - (Reload - r) = 1 * Reload - (Reload - val)
        BY <3>3, <4>1, Sizes
      <4>3. Reload - r \in 1 .. Reload /\ Reload - val \in 1 .. Reload /\ q + 1 \in Int /\ 1 \in Int
        BY Sizes
      <4>4. Reload - r = Reload - val
        BY <4>2, <4>3, TicksUnique
      <4> QED
        BY <4>4, Sizes
    <3> QED
      BY <3>1, <3>2, <3>3
  <2> QED
    BY <1>2, <2>1 DEF Whole
<1> QED
  BY <1>1, <1>2

LEMMA HorizonType ==
  ASSUME TimeTypeOK, NEW n \in Horizon
  PROVE  n \in 1 .. MaxSleep
  BY Sizes DEF TimeTypeOK, Horizon, Waited

LEMMA NowInt == TimeTypeOK => Now \in Int /\ owed * Reload \in Int
  BY TicksInt, WholeType DEF TimeTypeOK, Now

LEMMA TimeInvInit == RtInit => TimeInv
<1> SUFFICES ASSUME RtInit PROVE TimeInv
  OBVIOUS
<1>1. /\ tick = [val |-> 0, int |-> TRUE] /\ grid = 0 /\ owed = 0 /\ hw = 0 /\ slack = 0
      /\ os = [lock |-> FALSE, psh |-> FALSE, pend |-> {}] /\ idle = Awake
      /\ dly = [t \in Thread |-> 0] /\ timers = [x \in OsTimer |-> 0]
      /\ cpuLock = {} /\ pending = {} /\ core = "run"
  BY DEF RtInit, SleepInit
<1>2. slow \in [phase : 0 .. Grain - 1, ago : Nat] /\ slow.ago = 0
  BY DEF RtInit
<1>3. TimeTypeOK
  <2>1. 0 \in 0 .. MaxSleep * Reload /\ 0 \in 0 .. MaxSlack /\ 0 \in 0 .. MaxDelay
        /\ 0 \in 0 .. (Reload - 1) /\ Reload \in 1 .. Reload
    BY Sizes
  <2>2. Awake \in [at : {"call", "called", "suspend", "lock"} \cup SuspendedAt,
                   start : 0 .. Reload - 1, toGo : 1 .. Reload, sleep : Nat, ticking : BOOLEAN]
    BY <2>1 DEF Awake
  <2> QED
    BY <1>1, <1>2, <2>1, <2>2 DEF TimeTypeOK
<1> QED
  BY <1>1, <1>2, <1>3
     DEF TimeInv, InTime, LookedOnce, LookedTwice, Measured, NotTooFar, WakesUp, Awake, Measuring

-----------------------------------------------------------------------------
(***************************************************************************)
(* A clock goes by.                                                        *)
(***************************************************************************)
LEMMA ElapseNow ==
  ASSUME TimeTypeOK, Elapse
  PROVE  Now' = Now + 1 /\ owed' = (IF grid = 1 THEN owed + 1 ELSE owed)
<1>1. /\ grid \in 0 .. (Reload - 1) /\ owed \in Int
      /\ grid' = Down(grid) /\ owed' = (IF grid = 1 THEN owed + 1 ELSE owed)
  BY DEF TimeTypeOK, Elapse
<1>2. /\ Whole(grid) \in 1 .. Reload /\ owed * Reload \in Int
      /\ Whole(grid') = IF grid = 1 THEN Whole(grid) - 1 + Reload ELSE Whole(grid) - 1
  BY <1>1, WholeType, WholeDown, TicksInt
<1>3. (owed + 1) * Reload = owed * Reload + Reload
  BY <1>1, TicksNext
<1>4. CASE grid = 1
  BY <1>1, <1>2, <1>3, <1>4, Sizes DEF Now
<1>5. CASE grid # 1
  BY <1>1, <1>2, <1>5, Sizes DEF Now
<1> QED
  BY <1>1, <1>4, <1>5

LEMMA ElapseType ==
  ASSUME TimeTypeOK, Elapse
  PROVE  TimeTypeOK'
<1>1. /\ tick' = [tick EXCEPT !.val = Down(@)] /\ grid' = Down(grid) /\ tick.val = grid
      /\ tick.val \in 0 .. (Reload - 1)
  BY DEF TimeTypeOK, Elapse
<1>2. tick' \in [val : 0 .. Reload - 1, int : BOOLEAN] /\ tick'.val = grid'
  <2>1. Down(tick.val) \in 0 .. (Reload - 1)
    BY <1>1, WholeDown
  <2> QED
    BY <1>1, <2>1 DEF TimeTypeOK
<1>3. slow' \in [phase : 0 .. Grain - 1, ago : Nat]
  <2>1. slow.phase \in 0 .. (Grain - 1) /\ slow.ago \in Nat
    BY DEF TimeTypeOK
  <2>2. (slow.phase + 1) % Grain \in 0 .. (Grain - 1)
    BY <2>1, Sizes
  <2>3. slow'.phase = (slow.phase + 1) % Grain
    BY DEF Elapse
  <2> DEFINE ph == (slow.phase + 1) % Grain
             ag == IF os.lock /\ slow.phase = Grain - 1 THEN slow.ago + 1 ELSE slow.ago
  <2>4. ag \in Nat /\ ph \in 0 .. (Grain - 1)
    BY <2>1, <2>2
  <2>5. slow' = [phase |-> ph, ago |-> ag]
    BY DEF Elapse
  <2> HIDE DEF ph, ag
  <2> QED
    BY <2>4, <2>5
<1>4. hw' \in 0 .. MaxSleep * Reload
  <2>1. MaxSleep * Reload \in Nat
    BY Sizes
  <2>2. hw' = IF hw = 0 THEN 0 ELSE hw - 1
    BY DEF Elapse
  <2> QED
    BY <2>1, <2>2 DEF TimeTypeOK
<1>5. slack' \in 0 .. MaxSlack
  BY Sizes DEF TimeTypeOK, Elapse
<1>6. owed' \in Int
  BY DEF TimeTypeOK, Elapse
<1>7. pending' \subseteq {"systick", "pendsv", "timer", "event"}
  BY DEF TimeTypeOK, Elapse
<1> QED
  BY <1>2, <1>3, <1>4, <1>5, <1>6, <1>7 DEF TimeTypeOK, Elapse

LEMMA ElapseKeepsTime ==
  ASSUME KernelInv, TimeInv, Elapse, Grain = 1
  PROVE  TimeInv'
<1>1. TimeTypeOK /\ TimeTypeOK'
  BY ElapseType DEF TimeInv
<1>2. Now' = Now + 1 /\ Now \in Int /\ owed' = (IF grid = 1 THEN owed + 1 ELSE owed)
  BY <1>1, ElapseNow, NowInt
<1>3. /\ UNCHANGED <<os, idle, sched, dly, timers, core>>
      /\ slack' = IF Resting THEN slack ELSE slack + 1
      /\ tick'.int = tick.int /\ hw' = IF hw = 0 THEN 0 ELSE hw - 1
      /\ pending' = pending \cup (IF tick.val = 1 /\ tick.int THEN {"systick"} ELSE {})
                            \cup (IF hw = 1 THEN {"timer"} ELSE {})
      /\ ~(tick.val = 1 /\ "systick" \in pending)
  BY <1>1 DEF Elapse, TimeTypeOK
<1>4. slow'.ago = IF os.lock THEN slow.ago + 1 ELSE slow.ago
  <2>1. slow.phase = Grain - 1
    BY <1>1 DEF TimeTypeOK
  <2> QED
    BY <2>1 DEF Elapse
<1>5. /\ slow.ago \in Nat /\ slack \in Nat /\ hw \in Nat /\ slack' \in Nat
      /\ idle.start \in 0 .. (Reload - 1) /\ Whole(idle.start) \in Int
  <2>1. idle.start \in 0 .. (Reload - 1)
    BY <1>1 DEF TimeTypeOK
  <2>2. Whole(idle.start) \in Int
    BY <2>1, WholeType
  <2> QED
    BY <1>1, <1>3, <2>1, <2>2, Sizes DEF TimeTypeOK
<1>6. os.lock <=> idle.at \in SuspendedAt
  BY DEF KernelInv, IdlePlace
<1>7. (idle.at # "slept" /\ os.lock) \/ idle.at = "lock" => ~Resting
  BY DEF Resting, KernelInv, IdlePlace, SuspendedAt
<1>8. InTime'
  <2>1. CASE grid = 1
    BY <1>1, <1>2, <1>3, <1>4, <2>1 DEF TimeInv, InTime, TimeTypeOK
  <2>2. CASE grid # 1
    BY <1>1, <1>2, <1>3, <1>4, <2>2 DEF TimeInv, InTime, TimeTypeOK
  <2> QED
    BY <2>1, <2>2
<1>9. LookedOnce'
  BY <1>2, <1>3, <1>5, <1>7 DEF TimeInv, LookedOnce
<1>10. LookedTwice'
  <2> SUFFICES ASSUME idle.at = "stamp"
               PROVE  /\ Now' + Whole(idle.start) \in 0 .. (slack' + MaxSlack)
                      /\ slow'.ago <= slack'
                      /\ "systick" \in os.pend => owed' = 1
    BY <1>3 DEF LookedTwice
  <2>1. os.lock /\ ~Resting /\ slack' = slack + 1
    BY <1>3, <1>6, <1>7 DEF SuspendedAt
  <2>2. /\ Now' + Whole(idle.start) \in 0 .. (slack' + MaxSlack)
        /\ slow'.ago <= slack'
    BY <1>2, <1>4, <1>5, <2>1, Sizes DEF TimeInv, LookedTwice
  <2>3. "systick" \in os.pend => grid # 1
    <3> SUFFICES ASSUME "systick" \in os.pend, grid = 1 PROVE FALSE
      OBVIOUS
    <3>1. owed = 1 /\ Whole(grid) = 1 /\ Now = Reload - 1
      BY Sizes DEF TimeInv, LookedTwice, Now, Whole
    <3>2. Whole(idle.start) >= 1 /\ Now + Whole(idle.start) <= slack + MaxSlack
      BY <1>5, WholeType DEF TimeInv, LookedTwice
    <3>3. slack + 1 <= MaxSlack
      BY <1>1, <2>1, Sizes DEF TimeTypeOK
    <3> QED
      BY <1>5, <3>1, <3>2, <3>3, Sizes
  <2> QED
    BY <1>2, <2>2, <2>3 DEF TimeInv, LookedTwice
<1>11. Measured'
  <2>1. Kept' = Kept /\ Kept \in Nat
    BY <1>3 DEF Kept
  <2>2. (Kept + idle.sleep) * Reload \in Int /\ idle.toGo \in Int
    BY <1>1, <2>1, TicksInt DEF TimeTypeOK
  <2>3. idle.at \in Measuring => os.lock
    BY <1>6 DEF Measuring, SuspendedAt
  <2> QED
    BY <1>2, <1>3, <1>4, <1>5, <2>1, <2>2, <2>3 DEF TimeInv, Measured
<1>12. NotTooFar'
  <2>1. Horizon' = Horizon
    BY <1>3 DEF Horizon, Waited
  <2>2. \A n \in Horizon : n * Reload \in Int
    BY <1>1, HorizonType, TicksInt
  <2>3. idle.at \in {"arm", "sleep", "resume", "catchup", "unlock"} => slack' = slack + 1
    BY <1>3, <1>6, <1>7 DEF SuspendedAt
  <2>4. idle.at = "slept" => slack' = slack + 1 \/ (hw > 0 /\ slack' = slack)
    BY <1>3 DEF TimeInv, WakesUp, Resting
  <2>5. idle.at = "arm" => Now' < slack'
    BY <1>2, <1>5, <2>3 DEF TimeInv, NotTooFar
  <2>6. ASSUME NEW n \in Horizon, idle.at \in {"sleep", "slept"}
        PROVE  Now' + hw' < n * Reload + slack'
    <3>1. Now + hw < n * Reload + slack
      BY <2>6 DEF TimeInv, NotTooFar
    <3>2. n * Reload \in Int
      BY <2>2
    <3>3. slack' = slack + 1 \/ (hw > 0 /\ slack' = slack)
      BY <2>3, <2>4, <2>6
    <3> QED
      BY <1>2, <1>3, <1>5, <3>1, <3>2, <3>3
  <2>7. ASSUME NEW n \in Horizon, idle.at \in {"resume", "catchup", "unlock"}
        PROVE  Now' < n * Reload + slack'
    <3>1. Now < n * Reload + slack
      BY <2>7 DEF TimeInv, NotTooFar
    <3>2. n * Reload \in Int /\ slack' = slack + 1
      BY <2>2, <2>3, <2>7
    <3> QED
      BY <1>2, <1>5, <3>1, <3>2
  <2> QED
    BY <1>3, <2>1, <2>5, <2>6, <2>7 DEF NotTooFar
<1>13. WakesUp'
  <2>1. idle.at = "sleep" => slack' = slack + 1
    BY <1>3, <1>6, <1>7 DEF SuspendedAt
  <2>2. idle.at = "sleep" => hw' + slack' >= Reload
    BY <1>3, <1>5, <2>1, Sizes DEF TimeInv, WakesUp
  <2>3. idle.at = "slept" /\ core # "run" => hw' > 0 \/ "timer" \in pending'
    BY <1>3, <1>5 DEF TimeInv, WakesUp
  <2> QED
    BY <1>3, <2>2, <2>3 DEF WakesUp
<1> QED
  BY <1>1, <1>8, <1>9, <1>10, <1>11, <1>12, <1>13 DEF TimeInv

-----------------------------------------------------------------------------
(***************************************************************************)
(* Steps that do not move the idle thread within rt_suspend and rt_resume. *)
(* While the scheduler runs, there is only the tick that is pending.       *)
(***************************************************************************)
LEMMA OutsideKeeps ==
  ASSUME TimeTypeOK', InTime', idle'.at \in {"call", "called", "suspend"}, idle'.sleep = 0
  PROVE  TimeInv'
  BY DEF TimeInv, LookedOnce, LookedTwice, Measured, Measuring, NotTooFar, WakesUp

\* Nothing that has to do with time happens.
LEMMA StaysKeeps ==
  ASSUME TimeInv, TimeTypeOK', UNCHANGED <<owed, grid, slow, idle, dly, timers, hw, slack>>,
         tick'.int = tick.int, os'.lock = os.lock, os'.pend = os.pend,
         ~os.lock => ("systick" \in pending' <=> "systick" \in pending),
         idle.at = "lock" => sched'.run = sched.run,
         core' # "run" => core # "run" /\ pending \subseteq pending'
  PROVE  TimeInv'
<1>1. Now' = Now /\ Kept' = Kept /\ Horizon' = Horizon
  BY DEF Now, Kept, Horizon, Waited
<1>2. InTime' /\ LookedOnce'
  BY <1>1 DEF TimeInv, InTime, LookedOnce
<1>3. LookedTwice' /\ Measured'
  BY <1>1 DEF TimeInv, LookedTwice, Measured
<1>4. NotTooFar'
  BY <1>1 DEF TimeInv, NotTooFar
<1>5. WakesUp'
  BY DEF TimeInv, WakesUp
<1> QED
  BY <1>2, <1>3, <1>4, <1>5 DEF TimeInv

LEMMA RaiseEventKeepsTime ==
  ASSUME TimeInv, RaiseEvent
  PROVE  TimeInv'
<1>1. /\ UNCHANGED <<tick, os, sched, core, cpuLock, owed, grid, slow, idle, dly, timers, hw,
                     slack>>
      /\ pending' = pending \cup {"event"}
  BY DEF RaiseEvent, rtVars, SleepRest
<1>2. TimeTypeOK'
  BY <1>1 DEF TimeInv, TimeTypeOK
<1> QED
  BY <1>1, <1>2, StaysKeeps

LEMMA WakingKeepsTime ==
  ASSUME KernelInv, TimeInv, Waking
  PROVE  TimeInv'
<1>1. /\ UNCHANGED <<pending, cpuLock, tick, os, sched, owed, grid, slow, idle, dly, timers, hw>>
      /\ core # "run" /\ slack' = IF os.lock THEN slack ELSE 0
  BY SleepingFrame DEF Waking, rtVars, Step
<1>2. TimeTypeOK'
  BY <1>1, Sizes DEF TimeInv, TimeTypeOK
<1>3. CASE os.lock
  BY <1>1, <1>2, <1>3, StaysKeeps
<1>4. CASE ~os.lock
  <2>1. idle.at = "called" /\ idle.sleep = 0
    BY <1>1, <1>4 DEF KernelInv, IdlePlace, SuspendedAt, TimeInv, Measured
  <2>2. InTime'
    BY <1>1 DEF TimeInv, InTime
  <2> QED
    BY <1>1, <1>2, <2>1, <2>2, OutsideKeeps
<1> QED
  BY <1>3, <1>4

-----------------------------------------------------------------------------
(***************************************************************************)
(* The interrupts and the threads.                                         *)
(***************************************************************************)
LEMMA LapseType ==
  ASSUME NEW X, NEW f \in [X -> 0 .. MaxDelay], NEW n \in Nat
  PROVE  Lapse(f, n) \in [X -> 0 .. MaxDelay]
  BY Sizes DEF Lapse

\* What rt_psh_req leaves.
LEMMA PshReqType ==
  ASSUME TimeTypeOK, NEW others, others \subseteq pending, PshReq(others) \/ NoReq(others)
  PROVE  /\ os' \in [lock : BOOLEAN, psh : BOOLEAN, pend : SUBSET {"systick", "pendsv"}]
         /\ os'.lock = os.lock /\ os'.pend = os.pend
         /\ cpuLock' \subseteq CpuUser \cup {"rtos"}
         /\ pending' \subseteq {"systick", "pendsv", "timer", "event"}
         /\ "systick" \in pending' <=> "systick" \in others
<1>1. CASE PshReq(others)
  BY <1>1 DEF PshReq, TimeTypeOK
<1>2. CASE NoReq(others)
  BY <1>2 DEF NoReq, TimeTypeOK
<1> QED
  BY <1>1, <1>2

LEMMA SysTickKeepsTime ==
  ASSUME KernelInv, TimeInv, SysTick
  PROVE  TimeInv'
<1>1. /\ core = "run" /\ idle.at \notin {"lock", "stamp"} /\ "systick" \in pending
      /\ UNCHANGED <<tick, slow, idle, grid, hw>> /\ owed' = owed - 1
      /\ slack' = IF os.lock THEN slack ELSE 0
      /\ dly' = Lapse(dly, 1) /\ timers' = Lapse(timers, 1)
      /\ PshReq(pending \ {"systick"}) \/ NoReq(pending \ {"systick"})
  BY DEF SysTick, Serving, IrqUnlocked, Step
<1>2. ~os.lock
  BY <1>1 DEF KernelInv, Suspension
<1>3. TimeTypeOK
  BY DEF TimeInv
<1>4. /\ os' \in [lock : BOOLEAN, psh : BOOLEAN, pend : SUBSET {"systick", "pendsv"}]
      /\ cpuLock' \subseteq CpuUser \cup {"rtos"}
      /\ pending' \subseteq {"systick", "pendsv", "timer", "event"}
      /\ "systick" \notin pending'
  BY <1>1, <1>3, PshReqType
<1>5. /\ Lapse(dly, 1) \in [Thread -> 0 .. MaxDelay]
      /\ Lapse(timers, 1) \in [OsTimer -> 0 .. MaxDelay]
  BY <1>3, LapseType DEF TimeTypeOK
<1>6. TimeTypeOK'
  BY <1>1, <1>2, <1>3, <1>4, <1>5, Sizes DEF TimeTypeOK
<1>7. owed' = 0
  BY <1>1, <1>2 DEF TimeInv, InTime
<1>8. InTime'
  BY <1>1, <1>2, <1>4, <1>7 DEF TimeInv, InTime
<1>9. idle.at \in {"call", "called", "suspend"} /\ idle.sleep = 0
  BY <1>1, <1>2 DEF KernelInv, KernelTypeOK, IdlePlace, TimeInv, Measured
<1> QED
  BY <1>1, <1>6, <1>8, <1>9, OutsideKeeps

LEMMA PendSvKeepsTime ==
  ASSUME KernelInv, TimeInv, PendSv
  PROVE  TimeInv'
<1>1. /\ core = "run" /\ idle.at \notin {"lock", "stamp"} /\ "pendsv" \in pending
      /\ UNCHANGED <<tick, slow, idle, grid, hw, owed, timers, os, cpuLock>>
      /\ slack' = IF os.lock THEN slack ELSE 0
      /\ dly' = [t \in Thread |-> IF t \in sched.psq THEN 0 ELSE dly[t]]
      /\ pending' = pending \ {"pendsv"}
  BY DEF PendSv, Serving, IrqUnlocked, Step, NoReq
<1>2. ~os.lock
  BY <1>1 DEF KernelInv, Suspension
<1>3. dly' \in [Thread -> 0 .. MaxDelay]
  BY <1>1, Sizes DEF TimeInv, TimeTypeOK
<1>4. TimeTypeOK'
  BY <1>1, <1>2, <1>3, Sizes DEF TimeInv, TimeTypeOK
<1>5. InTime'
  BY <1>1, <1>2 DEF TimeInv, InTime
<1>6. idle.at \in {"call", "called", "suspend"} /\ idle.sleep = 0
  BY <1>1, <1>2 DEF KernelInv, KernelTypeOK, IdlePlace, TimeInv, Measured
<1> QED
  BY <1>1, <1>4, <1>5, <1>6, OutsideKeeps

\* The hwtimer and the others may come while the scheduler is suspended.
LEMMA OtherIrqKeepsTime ==
  ASSUME KernelInv, TimeInv, HwTimer \/ Event
  PROVE  TimeInv'
<1>1. /\ core = "run" /\ idle.at \notin {"lock", "stamp"} /\ core' = core
      /\ UNCHANGED <<tick, slow, idle, grid, hw, owed, timers, dly>>
      /\ slack' = IF os.lock THEN slack ELSE 0
  BY DEF HwTimer, Event, Serving, IrqUnlocked, Step, SleepRest
<1>2. PICK irq \in {"timer", "event"} : PshReq(pending \ {irq})
  BY DEF HwTimer, Event
<1>3. /\ os' \in [lock : BOOLEAN, psh : BOOLEAN, pend : SUBSET {"systick", "pendsv"}]
      /\ os'.lock = os.lock /\ os'.pend = os.pend
      /\ cpuLock' \subseteq CpuUser \cup {"rtos"}
      /\ pending' \subseteq {"systick", "pendsv", "timer", "event"}
      /\ "systick" \in pending' <=> "systick" \in pending
  <2>1. /\ pending \ {irq} \subseteq pending
        /\ "systick" \in pending \ {irq} <=> "systick" \in pending
    BY <1>2
  <2> QED
    BY <1>2, <2>1, PshReqType DEF TimeInv
<1>4. TimeTypeOK'
  BY <1>1, <1>3, Sizes DEF TimeInv, TimeTypeOK
<1>5. CASE os.lock
  BY <1>1, <1>3, <1>4, <1>5, StaysKeeps
<1>6. CASE ~os.lock
  <2>1. idle.at \in {"call", "called", "suspend"} /\ idle.sleep = 0
    BY <1>1, <1>6 DEF KernelInv, KernelTypeOK, IdlePlace, TimeInv, Measured
  <2>2. InTime'
    BY <1>1, <1>3, <1>6 DEF TimeInv, InTime
  <2> QED
    BY <1>1, <1>4, <2>1, <2>2, OutsideKeeps
<1> QED
  BY <1>5, <1>6

LEMMA ThreadStepKeepsTime ==
  ASSUME KernelInv, TimeInv, ThreadStep
  PROVE  TimeInv'
<1>1. PICK t \in Thread : Running(t)
  BY DEF ThreadStep, Block, StartTimer, ThreadLocks
<1>2. /\ sched.run # Nobody /\ pending = {}
      /\ UNCHANGED <<tick, slow, os, idle, hw, grid, owed>>
      /\ slack' = IF os.lock THEN slack ELSE 0
  BY <1>1, RtAssumption DEF Running, Step
<1>3. ~os.lock /\ idle.at # "lock"
  BY <1>2 DEF KernelInv, IdlePlace, TimeInv, LookedOnce
<1>4. /\ dly' \in [Thread -> 0 .. MaxDelay] /\ timers' \in [OsTimer -> 0 .. MaxDelay]
      /\ cpuLock' \subseteq CpuUser \cup {"rtos"} /\ pending' = pending
  <2>1. CASE \E u \in Thread, d \in 0 .. MaxDelay : Block(u, d)
    BY <2>1 DEF Block, TimeInv, TimeTypeOK, vars, sleepVars
  <2>2. CASE \E u \in Thread, x \in OsTimer, d \in 0 .. MaxDelay : StartTimer(u, x, d)
    BY <2>2 DEF StartTimer, TimeInv, TimeTypeOK, vars, sleepVars
  <2>3. CASE \E u \in Thread : ThreadLocks(u)
    BY <2>3 DEF ThreadLocks, Locks, WakeLock, TimeInv, TimeTypeOK
  <2> QED
    BY <2>1, <2>2, <2>3 DEF ThreadStep
<1>5. TimeTypeOK'
  BY <1>2, <1>3, <1>4, Sizes DEF TimeInv, TimeTypeOK
<1>6. InTime'
  BY <1>2, <1>3, <1>4 DEF TimeInv, InTime
<1>7. idle.at \in {"call", "called", "suspend"} /\ idle.sleep = 0
  BY <1>3 DEF KernelInv, KernelTypeOK, IdlePlace, TimeInv, Measured, SuspendedAt
<1> QED
  BY <1>2, <1>5, <1>6, <1>7, OutsideKeeps

-----------------------------------------------------------------------------
(***************************************************************************)
(* The idle thread.  The scheduler runs while it asks for a sleep.         *)
(***************************************************************************)
IdlePlaces == {"call", "called", "suspend", "lock"} \cup SuspendedAt

LEMMA IdleMoves ==
  ASSUME TimeTypeOK, NEW place \in IdlePlaces
  PROVE  /\ [idle EXCEPT !.at = place] \in
              [at : {"call", "called", "suspend", "lock"} \cup SuspendedAt, start : 0 .. Reload - 1,
               toGo : 1 .. Reload, sleep : Nat, ticking : BOOLEAN]
         /\ [idle EXCEPT !.at = place].at = place
         /\ [idle EXCEPT !.at = place].start = idle.start
         /\ [idle EXCEPT !.at = place].toGo = idle.toGo
         /\ [idle EXCEPT !.at = place].sleep = idle.sleep
         /\ [idle EXCEPT !.at = place].ticking = idle.ticking
  BY DEF TimeTypeOK, IdlePlaces

LEMMA LightKeepsTime ==
  ASSUME KernelInv, TimeInv, LightSleep \/ LightSlept
  PROVE  TimeInv'
<1>1. PICK place \in {"call", "called", "suspend"} : Goto(place)
  BY DEF LightSleep, LightSlept
<1>2. /\ UNCHANGED <<tick, slow, os, dly, timers, hw, grid, owed, pending, cpuLock>>
      /\ slack' = IF os.lock THEN slack ELSE 0
      /\ idle.at \in {"call", "called"}
  BY EnterSleepFrame DEF LightSleep, LightSlept, At, Step, vars, sleepVars
<1>3. TimeTypeOK /\ place \in IdlePlaces /\ idle' = [idle EXCEPT !.at = place]
  BY <1>1 DEF TimeInv, IdlePlaces, Goto
<1>4. ~os.lock
  BY <1>2 DEF KernelInv, IdlePlace, SuspendedAt
<1>5. TimeTypeOK'
  BY <1>2, <1>3, <1>4, IdleMoves, Sizes DEF TimeTypeOK
<1>6. idle'.at = place /\ idle'.sleep = idle.sleep
  BY <1>3, IdleMoves
<1>7. idle.sleep = 0
  BY <1>2 DEF TimeInv, Measured
<1>8. InTime'
  BY <1>2 DEF TimeInv, InTime
<1> QED
  BY <1>1, <1>5, <1>6, <1>7, <1>8, OutsideKeeps

(***************************************************************************)
(* rt_suspend looks at the SysTick with no tick pending.                   *)
(***************************************************************************)
LEMMA SuspendKeepsTime ==
  ASSUME KernelInv, TimeInv, Suspend
  PROVE  TimeInv'
<1>1. /\ UNCHANGED <<tick, slow, os, sched, dly, timers, hw, grid, owed, pending, cpuLock, core>>
      /\ slack' = IF os.lock THEN slack ELSE 0
      /\ idle.at = "suspend" /\ sched.run = Nobody /\ pending = {}
      /\ idle' = [idle EXCEPT !.at = "lock", !.start = tick.val]
  BY DEF Suspend, At, Step, vars, sleepVars
<1>2. TimeTypeOK /\ ~os.lock
  BY <1>1 DEF TimeInv, KernelInv, IdlePlace, SuspendedAt
<1>3. tick.val \in 0 .. (Reload - 1) /\ tick.val = grid
  BY <1>2 DEF TimeTypeOK
<1>4. /\ idle' \in [at : {"call", "called", "suspend", "lock"} \cup SuspendedAt,
                    start : 0 .. Reload - 1, toGo : 1 .. Reload, sleep : Nat, ticking : BOOLEAN]
      /\ idle'.at = "lock" /\ idle'.start = grid /\ idle'.sleep = idle.sleep
  BY <1>1, <1>2, <1>3 DEF TimeTypeOK
<1>5. TimeTypeOK'
  BY <1>1, <1>2, <1>4, Sizes DEF TimeTypeOK
<1>6. InTime' /\ owed = 0
  BY <1>1, <1>2 DEF TimeInv, InTime
<1>7. LookedOnce'
  <2>1. Now' = 0 * Reload - Whole(grid) /\ 0 * Reload = 0 /\ Whole(grid) \in 1 .. Reload
    BY <1>1, <1>3, <1>6, WholeType, Sizes DEF Now
  <2>2. Now' + Whole(idle'.start) = 0 /\ slack' = 0
    BY <1>1, <1>2, <1>4, <2>1
  <2> QED
    BY <1>1, <2>2 DEF LookedOnce
<1>8. idle.sleep = 0
  BY <1>1 DEF TimeInv, Measured
<1> QED
  BY <1>4, <1>5, <1>6, <1>7, <1>8
     DEF TimeInv, LookedTwice, Measured, Measuring, NotTooFar, WakesUp

(***************************************************************************)
(* A tick that was pending when the SysTick's interrupt is turned off is   *)
(* the one owed.                                                           *)
(***************************************************************************)
LEMMA TskLockKeepsTime ==
  ASSUME KernelInv, TimeInv, TskLock
  PROVE  TimeInv'
<1>1. /\ UNCHANGED <<slow, sched, dly, timers, hw, grid, owed, cpuLock, core>>
      /\ slack' = IF os.lock THEN slack ELSE 0
      /\ idle.at = "lock"
      /\ tick' = [tick EXCEPT !.int = FALSE]
      /\ os' = [os EXCEPT !.lock = TRUE, !.pend = pending \cap {"systick", "pendsv"}]
      /\ pending' = pending \ {"systick", "pendsv"}
      /\ idle' = [idle EXCEPT !.at = "stamp"]
  BY DEF TskLock, At, Step, Goto, SleepRest
<1>2. TimeTypeOK /\ ~os.lock /\ "stamp" \in IdlePlaces
  BY <1>1 DEF TimeInv, KernelInv, IdlePlace, SuspendedAt, IdlePlaces
<1>3. /\ os' \in [lock : BOOLEAN, psh : BOOLEAN, pend : SUBSET {"systick", "pendsv"}]
      /\ os'.lock /\ os'.pend = pending \cap {"systick", "pendsv"}
  BY <1>1, <1>2 DEF TimeTypeOK
<1>4. /\ idle'.at = "stamp" /\ idle'.start = idle.start /\ idle'.sleep = idle.sleep
      /\ idle' \in [at : {"call", "called", "suspend", "lock"} \cup SuspendedAt,
                    start : 0 .. Reload - 1, toGo : 1 .. Reload, sleep : Nat, ticking : BOOLEAN]
  BY <1>1, <1>2, IdleMoves
<1>5. tick' \in [val : 0 .. Reload - 1, int : BOOLEAN] /\ tick'.val = grid'
  BY <1>1, <1>2 DEF TimeTypeOK
<1>6. TimeTypeOK'
  BY <1>1, <1>2, <1>3, <1>4, <1>5, Sizes DEF TimeTypeOK
<1>7. /\ slow.ago = 0 /\ owed = (IF "systick" \in pending THEN 1 ELSE 0)
      /\ Now + Whole(idle.start) \in 0 .. slack /\ idle.sleep = 0 /\ slack \in 0 .. MaxSlack
  BY <1>1, <1>2 DEF TimeInv, InTime, LookedOnce, Measured, TimeTypeOK
<1>8. Now' = Now /\ slack' = 0
  BY <1>1, <1>2 DEF Now
<1>9. LookedTwice'
  <2>1. Now' + Whole(idle'.start) \in 0 .. (slack' + MaxSlack) /\ slow'.ago <= slack'
    BY <1>1, <1>4, <1>7, <1>8, Sizes
  <2>2. "systick" \in os'.pend => owed' = 1
    BY <1>1, <1>3, <1>7
  <2> QED
    BY <2>1, <2>2 DEF LookedTwice
<1>10. InTime'
  BY <1>3 DEF InTime
<1> QED
  BY <1>4, <1>6, <1>7, <1>9, <1>10
     DEF TimeInv, LookedOnce, Measured, Measuring, NotTooFar, WakesUp

(***************************************************************************)
(* The two looks at the SysTick tell whether a tick came between them.     *)
(***************************************************************************)
LEMMA WrapTold ==
  ASSUME TimeInv, idle.at = "stamp"
  PROVE  /\ owed \in {0, 1}
         /\ WrappedMeanwhile <=> owed = 1
<1> DEFINE g == Whole(grid)
           h == Whole(idle.start)
           k == Now + h
<1>1. /\ grid \in 0 .. (Reload - 1) /\ tick.val = grid /\ idle.start \in 0 .. (Reload - 1)
      /\ owed \in Int /\ slack \in 0 .. MaxSlack
  BY DEF TimeInv, TimeTypeOK
<1>2. g \in 1 .. Reload /\ h \in 1 .. Reload
  BY <1>1, WholeType
<1>3. k \in 0 .. (slack + MaxSlack)
  BY DEF TimeInv, LookedTwice
<1>4. owed * Reload \in Int /\ k = owed * Reload - g + h
  BY <1>1, TicksInt DEF Now
<1>5. k \in 0 .. (Reload - 1)
  <2> HIDE DEF k
  <2> QED
    BY <1>1, <1>3, Sizes
<1> HIDE DEF g, h, k
<1>6. ~(owed < 0)
  <2> SUFFICES ASSUME owed < 0 PROVE FALSE
    OBVIOUS
  <2>1. owed * Reload + Reload <= 0
    BY <1>1, TicksSign
  <2> QED
    BY <1>2, <1>4, <1>5, <2>1, Sizes
<1>7. ~(1 < owed)
  <2> SUFFICES ASSUME 1 < owed PROVE FALSE
    OBVIOUS
  <2>1. 1 * Reload + Reload <= owed * Reload /\ 1 * Reload = Reload
    BY <1>1, TicksOrder, Sizes
  <2> QED
    BY <1>2, <1>4, <1>5, <2>1, Sizes
<1>8. owed \in {0, 1}
  BY <1>1, <1>6, <1>7
<1>9. CASE owed = 0
  <2>1. k = h - g
    <3>1. 0 * Reload = 0
      BY Sizes
    <3> QED
      BY <1>2, <1>4, <1>9, <3>1
  <2>2. g <= h
    BY <1>2, <1>5, <2>1
  <2> QED
    BY <1>1, <1>8, <1>9, <2>2, Sizes DEF g, h, Whole, WrappedMeanwhile
<1>10. CASE owed = 1
  <2>1. k = Reload - g + h
    <3>1. 1 * Reload = Reload
      BY Sizes
    <3> QED
      BY <1>2, <1>4, <1>10, <3>1
  <2>2. h < g
    BY <1>2, <1>5, <2>1, Sizes
  <2> QED
    BY <1>1, <1>8, <1>10, <2>2, Sizes DEF g, h, Whole, WrappedMeanwhile
<1> QED
  BY <1>8, <1>9, <1>10

LEMMA StampKeepsTime ==
  ASSUME KernelInv, TimeInv, Stamp
  PROVE  TimeInv'
<1> DEFINE pend == os.pend \cup (IF WrappedMeanwhile THEN {"systick"} ELSE {})
           toGo == IF tick.val = 0 THEN Reload ELSE tick.val
           place == IF pend = {} THEN "arm" ELSE "resume"
<1>1. /\ UNCHANGED <<tick, sched, dly, timers, hw, grid, owed, pending, cpuLock, core>>
      /\ slack' = IF os.lock THEN slack ELSE 0
      /\ idle.at = "stamp"
      /\ os' = [os EXCEPT !.pend = pend]
      /\ idle' = [Awake EXCEPT !.toGo = toGo, !.at = IF os'.pend = {} THEN "arm" ELSE "resume"]
      /\ slow' = [slow EXCEPT !.ago = 0]
  BY DEF Stamp, At, Step, vars, sleepVars
<1>2. TimeTypeOK /\ os.lock
  BY <1>1 DEF TimeInv, KernelInv, IdlePlace, SuspendedAt
<1>3. pend \in SUBSET {"systick", "pendsv"}
  BY <1>2 DEF TimeTypeOK
<1>4. toGo = Whole(grid) /\ toGo \in 1 .. Reload
  BY <1>2, WholeType DEF TimeTypeOK, Whole
<1>5. owed \in {0, 1} /\ owed = (IF "systick" \in pend THEN 1 ELSE 0)
  BY <1>1, WrapTold DEF TimeInv, LookedTwice
<1> HIDE DEF pend, toGo
<1>6. /\ os' \in [lock : BOOLEAN, psh : BOOLEAN, pend : SUBSET {"systick", "pendsv"}]
      /\ os'.lock /\ os'.pend = pend
  BY <1>1, <1>2, <1>3 DEF TimeTypeOK
<1>7. /\ idle' \in [at : {"call", "called", "suspend", "lock"} \cup SuspendedAt,
                    start : 0 .. Reload - 1, toGo : 1 .. Reload, sleep : Nat, ticking : BOOLEAN]
      /\ idle'.at = place /\ idle'.toGo = toGo /\ idle'.sleep = 0
  <2>1. Awake \in [at : {"call", "called", "suspend", "lock"} \cup SuspendedAt,
                   start : 0 .. Reload - 1, toGo : 1 .. Reload, sleep : Nat, ticking : BOOLEAN]
    BY Sizes DEF Awake
  <2>2. Awake.sleep = 0
    BY DEF Awake
  <2>3. place \in {"call", "called", "suspend", "lock"} \cup SuspendedAt
    BY DEF SuspendedAt
  <2>4. idle' = [Awake EXCEPT !.toGo = toGo, !.at = place]
    BY <1>1, <1>6
  <2> HIDE DEF place
  <2> QED
    BY <1>4, <2>1, <2>2, <2>3, <2>4
<1>8. slow' \in [phase : 0 .. Grain - 1, ago : Nat] /\ slow'.ago = 0
  BY <1>1, <1>2 DEF TimeTypeOK
<1>9. TimeTypeOK'
  BY <1>1, <1>2, <1>6, <1>7, <1>8 DEF TimeTypeOK
<1>10. Now' = Now /\ Horizon' = Horizon /\ Kept' = owed /\ slack' = slack /\ slack \in Nat
  BY <1>1, <1>2, <1>5, <1>6, Sizes DEF Now, Horizon, Waited, Kept, TimeTypeOK
<1>11. Now = owed * Reload - toGo /\ owed * Reload \in Int
  BY <1>2, <1>4, TicksInt DEF Now, TimeTypeOK
<1>12. Measured'
  <2>1. (Kept' + idle'.sleep) * Reload = owed * Reload
    <3>1. Kept' + idle'.sleep = owed
      BY <1>2, <1>7, <1>10 DEF TimeTypeOK
    <3> QED
      BY <3>1
  <2>2. Now' = (Kept' + idle'.sleep) * Reload - idle'.toGo + slow'.ago
    BY <1>4, <1>7, <1>8, <1>10, <1>11, <2>1
  <2> QED
    BY <1>7, <2>2 DEF Measured
<1>13. NotTooFar'
  <2>1. CASE pend = {}
    <3>1. owed = 0 /\ 0 * Reload = 0
      BY <1>5, <2>1, Sizes
    <3>2. Now' < slack'
      BY <1>4, <1>10, <1>11, <3>1
    <3> QED
      BY <1>7, <2>1, <3>2 DEF NotTooFar
  <2>2. CASE pend # {}
    <3>1. ASSUME NEW n \in Horizon
          PROVE  Now' < n * Reload + slack'
      <4>1. Now <= Reload - toGo
        BY <1>4, <1>5, <1>11, Sizes
      <4>2. n \in Int /\ n >= 1 /\ n * Reload \in Int
        BY <1>2, HorizonType, Sizes, TicksInt
      <4>3. Reload <= n * Reload
        BY <4>2, TicksSign
      <4> QED
        BY <1>4, <1>10, <1>11, <4>1, <4>2, <4>3, Sizes
    <3> QED
      BY <1>7, <1>10, <2>2, <3>1 DEF NotTooFar
  <2> QED
    BY <2>1, <2>2
<1>14. InTime' /\ LookedOnce' /\ LookedTwice' /\ WakesUp'
  BY <1>6, <1>7 DEF InTime, LookedOnce, LookedTwice, WakesUp
<1> QED
  BY <1>9, <1>12, <1>13, <1>14 DEF TimeInv

(***************************************************************************)
(* The hwtimer is set for the first delay or timer that is due.            *)
(***************************************************************************)
LEMMA NextDueIs ==
  ASSUME TimeTypeOK
  PROVE  /\ NextDue \in Horizon /\ NextDue \in 1 .. MaxSleep
         /\ \A n \in Horizon : NextDue <= n
<1> DEFINE R == OpToRel(<, Nat)
<1>1. Horizon \subseteq Nat /\ Horizon # {}
  <2>1. \A n \in Horizon : n \in 1 .. MaxSleep
    BY HorizonType
  <2>2. 1 .. MaxSleep \subseteq Nat
    BY Sizes
  <2> QED
    BY <2>1, <2>2 DEF Horizon
<1>2. PICK n \in Horizon : \A m \in Horizon : <<m, n>> \notin R
  BY <1>1, NatLessThanWellFounded, WFMin
<1>3. ASSUME NEW m \in Horizon PROVE n <= m
  <2>1. m \in Nat /\ n \in Nat
    BY <1>1, <1>2
  <2>2. ~(m < n)
    BY <1>2, <2>1 DEF OpToRel
  <2> QED
    BY <2>1, <2>2
<1>4. NextDue = Min(Horizon)
  BY DEF NextDue, Horizon
<1>5. NextDue \in Horizon /\ \A m \in Horizon : NextDue <= m
  BY <1>3, <1>4 DEF Min
<1> QED
  BY <1>5, HorizonType

LEMMA ArmKeepsTime ==
  ASSUME KernelInv, TimeInv, Arm
  PROVE  TimeInv'
<1>1. /\ UNCHANGED <<tick, slow, os, sched, dly, timers, grid, owed, pending, cpuLock, core>>
      /\ slack' = IF os.lock THEN slack ELSE 0
      /\ idle.at = "arm" /\ hw' = NextDue * Reload
      /\ idle' = [idle EXCEPT !.at = "sleep"]
  BY DEF Arm, At, Step, Goto, vars, sleepVars
<1>2. TimeTypeOK /\ os.lock /\ "sleep" \in IdlePlaces
  BY <1>1 DEF TimeInv, KernelInv, IdlePlace, SuspendedAt, IdlePlaces
<1>3. NextDue \in 1 .. MaxSleep /\ \A n \in Horizon : NextDue <= n
  BY <1>2, NextDueIs
<1> HIDE DEF NextDue
<1>4. \A n \in 1 .. MaxSleep : NextDue <= n => NextDue * Reload <= n * Reload
  <2> TAKE n \in 1 .. MaxSleep
  <2>1. CASE NextDue = n
    BY <1>3, <2>1, Sizes
  <2>2. CASE NextDue < n
    <3>1. NextDue \in Int /\ n \in Int
      BY <1>3
    <3>2. NextDue * Reload + Reload <= n * Reload
      BY <2>2, <3>1, TicksOrder
    <3> QED
      BY <3>1, <3>2, TicksInt, Sizes
  <2> QED
    BY <1>3, <2>1, <2>2
<1>5. NextDue * Reload \in 0 .. MaxSleep * Reload /\ NextDue * Reload >= Reload
  <2>1. MaxSleep \in 1 .. MaxSleep /\ NextDue \in Int /\ NextDue >= 1 /\ NextDue <= MaxSleep
    BY <1>3, Sizes
  <2>2. NextDue * Reload >= Reload /\ NextDue * Reload <= MaxSleep * Reload
    BY <1>4, <2>1, TicksSign
  <2> QED
    BY <2>1, <2>2, TicksInt, Sizes
<1>6. /\ idle'.at = "sleep" /\ idle'.sleep = idle.sleep /\ idle'.toGo = idle.toGo
      /\ idle' \in [at : {"call", "called", "suspend", "lock"} \cup SuspendedAt,
                    start : 0 .. Reload - 1, toGo : 1 .. Reload, sleep : Nat, ticking : BOOLEAN]
  BY <1>1, <1>2, IdleMoves
<1>7. TimeTypeOK'
  BY <1>1, <1>2, <1>5, <1>6 DEF TimeTypeOK
<1>8. /\ Now' = Now /\ Horizon' = Horizon /\ Kept' = Kept /\ slack' = slack
      /\ Now \in Int /\ slack \in Nat
  BY <1>1, <1>2, NowInt, Sizes DEF Now, Horizon, Waited, Kept, TimeTypeOK
<1>9. NotTooFar'
  <2>1. ASSUME NEW n \in Horizon
        PROVE  Now' + hw' < n * Reload + slack'
    <3>1. n \in 1 .. MaxSleep /\ n * Reload \in Int
      BY <1>2, HorizonType, TicksInt
    <3>2. NextDue * Reload <= n * Reload /\ NextDue * Reload \in Int
      BY <1>3, <1>4, <1>5, <3>1
    <3>3. Now < slack
      BY <1>1 DEF TimeInv, NotTooFar
    <3> QED
      BY <1>1, <1>8, <3>1, <3>2, <3>3
  <2> QED
    BY <1>6, <1>8, <2>1 DEF NotTooFar
<1>10. WakesUp'
  <2>1. hw' + slack' >= Reload
    BY <1>1, <1>5, <1>8, Sizes
  <2> QED
    BY <1>6, <2>1 DEF WakesUp
<1>11. Measured'
  BY <1>1, <1>6, <1>8 DEF TimeInv, Measured, Measuring
<1>12. InTime' /\ LookedOnce' /\ LookedTwice'
  BY <1>1, <1>2, <1>6 DEF InTime, LookedOnce, LookedTwice
<1> QED
  BY <1>7, <1>9, <1>10, <1>11, <1>12 DEF TimeInv

(***************************************************************************)
(* The sleep, with the hwtimer running, and its end.                       *)
(***************************************************************************)
LEMMA DeepSleepKeepsTime ==
  ASSUME KernelInv, TimeInv, DeepSleepNow
  PROVE  TimeInv'
<1>1. /\ UNCHANGED <<tick, slow, os, sched, dly, timers, grid, owed, hw, pending, cpuLock>>
      /\ slack' = IF os.lock THEN slack ELSE 0
      /\ idle.at = "sleep" /\ idle' = [idle EXCEPT !.at = "slept"]
  BY EnterSleepFrame DEF DeepSleepNow, At, Step, Goto
<1>2. TimeTypeOK /\ os.lock /\ "slept" \in IdlePlaces
  BY <1>1 DEF TimeInv, KernelInv, IdlePlace, SuspendedAt, IdlePlaces
<1>3. /\ idle'.at = "slept" /\ idle'.sleep = idle.sleep /\ idle'.toGo = idle.toGo
      /\ idle' \in [at : {"call", "called", "suspend", "lock"} \cup SuspendedAt,
                    start : 0 .. Reload - 1, toGo : 1 .. Reload, sleep : Nat, ticking : BOOLEAN]
  BY <1>1, <1>2, IdleMoves
<1>4. TimeTypeOK'
  BY <1>1, <1>2, <1>3 DEF TimeTypeOK
<1>5. Now' = Now /\ Horizon' = Horizon /\ Kept' = Kept /\ slack' = slack
  BY <1>1, <1>2 DEF Now, Horizon, Waited, Kept
<1>6. hw > 0
  <2>1. hw + slack >= Reload /\ hw \in Nat /\ slack \in 0 .. MaxSlack
    BY <1>1, <1>2, Sizes DEF TimeInv, WakesUp, TimeTypeOK
  <2> QED
    BY <2>1, Sizes
<1>7. NotTooFar'
  BY <1>1, <1>3, <1>5 DEF TimeInv, NotTooFar
<1>8. Measured'
  BY <1>1, <1>3, <1>5 DEF TimeInv, Measured, Measuring
<1>9. InTime' /\ LookedOnce' /\ LookedTwice' /\ WakesUp'
  BY <1>1, <1>2, <1>3, <1>6 DEF InTime, LookedOnce, LookedTwice, WakesUp
<1> QED
  BY <1>4, <1>7, <1>8, <1>9 DEF TimeInv

LEMMA SleptKeepsTime ==
  ASSUME KernelInv, TimeInv, Slept
  PROVE  TimeInv'
<1>1. /\ UNCHANGED <<tick, slow, os, sched, dly, timers, grid, owed, pending, cpuLock, core>>
      /\ slack' = (IF os.lock THEN slack ELSE 0) /\ hw' = 0
      /\ idle.at = "slept" /\ idle' = [idle EXCEPT !.at = "resume"]
  BY DEF Slept, At, Step, Goto, vars, sleepVars
<1>2. TimeTypeOK /\ os.lock /\ "resume" \in IdlePlaces
  BY <1>1 DEF TimeInv, KernelInv, IdlePlace, SuspendedAt, IdlePlaces
<1>3. /\ idle'.at = "resume" /\ idle'.sleep = idle.sleep /\ idle'.toGo = idle.toGo
      /\ idle' \in [at : {"call", "called", "suspend", "lock"} \cup SuspendedAt,
                    start : 0 .. Reload - 1, toGo : 1 .. Reload, sleep : Nat, ticking : BOOLEAN]
  BY <1>1, <1>2, IdleMoves
<1>4. 0 \in 0 .. MaxSleep * Reload /\ hw \in Nat /\ slack \in Nat
  BY <1>2, Sizes DEF TimeTypeOK
<1>5. TimeTypeOK'
  BY <1>1, <1>2, <1>3, <1>4 DEF TimeTypeOK
<1>6. Now' = Now /\ Horizon' = Horizon /\ Kept' = Kept /\ slack' = slack /\ Now \in Int
  BY <1>1, <1>2, NowInt DEF Now, Horizon, Waited, Kept
<1>7. NotTooFar'
  <2>1. ASSUME NEW n \in Horizon
        PROVE  Now' < n * Reload + slack'
    <3>1. n * Reload \in Int
      BY <1>2, HorizonType, TicksInt
    <3>2. Now + hw < n * Reload + slack
      BY <1>1 DEF TimeInv, NotTooFar
    <3> QED
      BY <1>4, <1>6, <3>1, <3>2
  <2> QED
    BY <1>3, <1>6, <2>1 DEF NotTooFar
<1>8. Measured'
  BY <1>1, <1>3, <1>6 DEF TimeInv, Measured, Measuring
<1>9. InTime' /\ LookedOnce' /\ LookedTwice' /\ WakesUp'
  BY <1>1, <1>2, <1>3 DEF InTime, LookedOnce, LookedTwice, WakesUp
<1> QED
  BY <1>5, <1>7, <1>8, <1>9 DEF TimeInv

(***************************************************************************)
(* rt_resume divides what the slow timer measured into ticks and clocks.   *)
(***************************************************************************)
LEMMA MeasureKeepsTime ==
  ASSUME KernelInv, TimeInv, Resume \/ WrappedInside, Grain = 1
  PROVE  TimeInv'
<1> DEFINE n == Passed(idle.toGo, Clocks)
           left == Left(idle.toGo, Clocks)
<1>1. /\ UNCHANGED <<tick, os, sched, dly, timers, hw, grid, owed, pending, cpuLock, core>>
      /\ slack' = IF os.lock THEN slack ELSE 0
      /\ idle.at \in {"resume", "unlock"}
      /\ slow' = [slow EXCEPT !.ago = 0]
  BY DEF Resume, WrappedInside, At, Step, vars, sleepVars
<1>2. TimeTypeOK /\ os.lock
  BY <1>1 DEF TimeInv, KernelInv, IdlePlace, SuspendedAt
<1>3. idle.toGo \in 1 .. Reload /\ slow.ago \in Nat /\ Clocks = slow.ago
  BY <1>2 DEF TimeTypeOK, Clocks
<1>4. /\ n \in Nat /\ left \in 1 .. Reload /\ slow.ago - idle.toGo = n * Reload - left
  BY <1>3, PassedLeft
<1>5. \E place \in {"unlock", "catchup"}, on \in BOOLEAN :
        /\ idle' = [idle EXCEPT !.sleep = n, !.toGo = left, !.ticking = on, !.at = place]
        /\ place = "unlock" => n = 0
  <2>1. CASE Resume
    <3>1. (n = 0) \in BOOLEAN
      OBVIOUS
    <3>2. idle' = [idle EXCEPT !.sleep = n, !.toGo = left, !.ticking = n = 0,
                               !.at = IF n = 0 THEN "unlock" ELSE "catchup"]
      BY <2>1 DEF Resume
    <3> HIDE DEF n, left
    <3> QED
      BY <3>1, <3>2
  <2>2. CASE WrappedInside
    <3>1. idle' = [idle EXCEPT !.sleep = n, !.toGo = left, !.at = "catchup"]
      BY <2>2 DEF WrappedInside
    <3>2. idle.ticking \in BOOLEAN
      BY <1>2 DEF TimeTypeOK
    <3> HIDE DEF n, left
    <3>3. idle' = [idle EXCEPT !.sleep = n, !.toGo = left, !.ticking = idle.ticking,
                                 !.at = "catchup"]
      BY <1>2, <3>1 DEF TimeTypeOK
    <3> QED
      BY <3>2, <3>3
  <2> QED
    BY <2>1, <2>2
<1> HIDE DEF n, left
<1>6. PICK place \in {"unlock", "catchup"}, on \in BOOLEAN :
        /\ idle' = [idle EXCEPT !.sleep = n, !.toGo = left, !.ticking = on, !.at = place]
        /\ place = "unlock" => n = 0
  BY <1>5
<1>7. /\ idle'.at = place /\ idle'.sleep = n /\ idle'.toGo = left
      /\ idle' \in [at : {"call", "called", "suspend", "lock"} \cup SuspendedAt,
                    start : 0 .. Reload - 1, toGo : 1 .. Reload, sleep : Nat, ticking : BOOLEAN]
  <2>1. place \in {"call", "called", "suspend", "lock"} \cup SuspendedAt
    BY <1>6 DEF SuspendedAt
  <2> QED
    BY <1>2, <1>4, <1>6, <2>1 DEF TimeTypeOK
<1>8. slow' \in [phase : 0 .. Grain - 1, ago : Nat] /\ slow'.ago = 0
  BY <1>1, <1>2 DEF TimeTypeOK
<1>9. TimeTypeOK'
  BY <1>1, <1>2, <1>7, <1>8 DEF TimeTypeOK
<1>10. Now' = Now /\ Horizon' = Horizon /\ Kept' = Kept /\ slack' = slack
  BY <1>1, <1>2 DEF Now, Horizon, Waited, Kept
<1>11. Measured'
  <2>1. Now = Kept * Reload - idle.toGo + slow.ago
    <3>1. idle.sleep = 0 /\ Now = (Kept + idle.sleep) * Reload - idle.toGo + slow.ago
      BY <1>1 DEF TimeInv, Measured, Measuring
    <3>2. Kept \in Int /\ Kept + 0 = Kept
      BY DEF Kept
    <3> QED
      BY <3>1, <3>2
  <2>2. Kept \in Int /\ n \in Int /\ Kept * Reload \in Int /\ n * Reload \in Int
    BY <1>4, TicksInt DEF Kept
  <2>3. (Kept + n) * Reload = Kept * Reload + n * Reload
    BY <2>2, TicksAdd
  <2>4. Now = (Kept + n) * Reload - left + 0
    BY <1>3, <1>4, <2>1, <2>2, <2>3
  <2>5. Now' = (Kept' + idle'.sleep) * Reload - idle'.toGo + slow'.ago
    BY <1>7, <1>8, <1>10, <2>4
  <2> QED
    BY <1>6, <1>7, <2>5 DEF Measured
<1>12. NotTooFar'
  BY <1>1, <1>6, <1>7, <1>10 DEF TimeInv, NotTooFar
<1>13. InTime' /\ LookedOnce' /\ LookedTwice' /\ WakesUp'
  BY <1>1, <1>2, <1>6, <1>7 DEF InTime, LookedOnce, LookedTwice, WakesUp
<1> QED
  BY <1>9, <1>11, <1>12, <1>13 DEF TimeInv

(***************************************************************************)
(* It counts the ticks down from what everybody waits for and from what is *)
(* owed alike,                                                             *)
(***************************************************************************)
LEMMA CatchUpKeepsTime ==
  ASSUME KernelInv, TimeInv, CatchUp
  PROVE  TimeInv'
<1> DEFINE n == idle.sleep
<1>1. /\ UNCHANGED <<tick, slow, hw, grid, core>>
      /\ slack' = IF os.lock THEN slack ELSE 0
      /\ idle.at = "catchup" /\ owed' = owed - n
      /\ dly' = Lapse(dly, n) /\ timers' = Lapse(timers, n)
      /\ PshReq(pending) \/ NoReq(pending)
      /\ idle' = [idle EXCEPT !.at = "unlock", !.sleep = 0]
  BY DEF CatchUp, At, Step, SleepRest, CaughtUp
<1>2. TimeTypeOK /\ os.lock
  BY <1>1 DEF TimeInv, KernelInv, IdlePlace, SuspendedAt
<1>3. n \in Nat /\ owed \in Int /\ slow.ago \in Nat /\ idle.toGo \in 1 .. Reload /\ slack \in Nat
  BY <1>2, Sizes DEF TimeTypeOK
<1>4. /\ idle'.at = "unlock" /\ idle'.sleep = 0 /\ idle'.toGo = idle.toGo
      /\ idle' \in [at : {"call", "called", "suspend", "lock"} \cup SuspendedAt,
                    start : 0 .. Reload - 1, toGo : 1 .. Reload, sleep : Nat, ticking : BOOLEAN]
  <2>1. "unlock" \in {"call", "called", "suspend", "lock"} \cup SuspendedAt
    BY DEF SuspendedAt
  <2> QED
    BY <1>1, <1>2, <2>1 DEF TimeTypeOK
<1>5. /\ os' \in [lock : BOOLEAN, psh : BOOLEAN, pend : SUBSET {"systick", "pendsv"}]
      /\ os'.lock = os.lock /\ os'.pend = os.pend
      /\ cpuLock' \subseteq CpuUser \cup {"rtos"}
      /\ pending' \subseteq {"systick", "pendsv", "timer", "event"}
  BY <1>1, <1>2, PshReqType
<1>6. dly' \in [Thread -> 0 .. MaxDelay] /\ timers' \in [OsTimer -> 0 .. MaxDelay]
  <2>1. dly \in [Thread -> 0 .. MaxDelay] /\ timers \in [OsTimer -> 0 .. MaxDelay]
    BY <1>2 DEF TimeTypeOK
  <2>2. Lapse(dly, n) \in [Thread -> 0 .. MaxDelay]
    BY <1>3, <2>1, LapseType
  <2>3. Lapse(timers, n) \in [OsTimer -> 0 .. MaxDelay]
    BY <1>3, <2>1, LapseType
  <2> QED
    BY <1>1, <2>2, <2>3
<1>7. TimeTypeOK'
  BY <1>1, <1>2, <1>3, <1>4, <1>5, <1>6 DEF TimeTypeOK
<1> HIDE DEF n
<1>8. Now' = Now - n * Reload /\ Kept' = Kept /\ slack' = slack /\ Now \in Int /\ n * Reload \in Int
  <2>1. (owed - n) * Reload = owed * Reload - n * Reload
    BY <1>3, TicksAdd
  <2>2. owed * Reload \in Int /\ n * Reload \in Int /\ Whole(grid) \in Int
    BY <1>2, <1>3, TicksInt, WholeType DEF TimeTypeOK
  <2>3. Now' = Now - n * Reload
    BY <1>1, <2>1, <2>2 DEF Now
  <2> QED
    BY <1>1, <1>2, <1>5, <2>2, <2>3, NowInt DEF Kept
<1>9. Measured'
  <2>1. Now = (Kept + n) * Reload - idle.toGo + slow.ago
    BY <1>1 DEF TimeInv, Measured, Measuring, n
  <2>2. Kept \in Int /\ Kept * Reload \in Int /\ Kept + 0 = Kept
    BY TicksInt DEF Kept
  <2>3. (Kept + n) * Reload = Kept * Reload + n * Reload
    BY <1>3, <2>2, TicksAdd
  <2>4. Now' = Kept * Reload - idle.toGo + slow.ago
    BY <1>3, <1>8, <2>1, <2>2, <2>3
  <2>5. Now' = (Kept' + idle'.sleep) * Reload - idle'.toGo + slow'.ago
    BY <1>1, <1>4, <1>8, <2>2, <2>4
  <2> QED
    BY <1>4, <2>5 DEF Measured
<1>10. n * Reload >= 0
  <2>1. n = 0 \/ n >= 1
    BY <1>3
  <2> QED
    BY <1>3, <2>1, TicksSign, Sizes
<1>11. ASSUME NEW m \in Horizon'
       PROVE  Now' < m * Reload + slack'
  <2>1. m = MaxSleep \/ (m \in Int /\ m + n \in Horizon)
    <3>1. ASSUME NEW X, NEW f \in [X -> 0 .. MaxDelay], m \in Waited(Lapse(f, n))
          PROVE  m \in Int /\ m + n \in Waited(f)
      <4>1. PICK x \in X : m = Lapse(f, n)[x] /\ m # 0
        BY <3>1 DEF Waited, Lapse
      <4>2. f[x] \in 0 .. MaxDelay /\ Lapse(f, n)[x] = IF f[x] > n THEN f[x] - n ELSE 0
        BY DEF Lapse
      <4>3. f[x] > n /\ m = f[x] - n
        BY <4>1, <4>2
      <4>4. f[x] \in Waited(f)
        BY <1>3, <4>2, <4>3 DEF Waited
      <4> QED
        BY <1>3, <4>2, <4>3, <4>4, Sizes
    <3>2. dly \in [Thread -> 0 .. MaxDelay] /\ timers \in [OsTimer -> 0 .. MaxDelay]
      BY <1>2 DEF TimeTypeOK
    <3>3. m = MaxSleep \/ m \in Waited(Lapse(dly, n)) \/ m \in Waited(Lapse(timers, n))
      BY <1>1 DEF Horizon, n
    <3>4. m \in Waited(Lapse(dly, n)) => m \in Int /\ m + n \in Waited(dly)
      BY <3>1, <3>2
    <3>5. m \in Waited(Lapse(timers, n)) => m \in Int /\ m + n \in Waited(timers)
      BY <3>1, <3>2
    <3> QED
      BY <3>3, <3>4, <3>5 DEF Horizon
  <2>2. \A k \in Horizon : Now < k * Reload + slack
    BY <1>1 DEF TimeInv, NotTooFar
  <2>3. CASE m = MaxSleep
    <3>1. Now < MaxSleep * Reload + slack /\ MaxSleep * Reload \in Int
      BY <2>2, TicksInt, Sizes DEF Horizon
    <3> QED
      BY <1>3, <1>8, <1>10, <2>3, <3>1
  <2>4. CASE m \in Int /\ m + n \in Horizon
    <3>1. Now < (m + n) * Reload + slack
      BY <2>2, <2>4
    <3>2. (m + n) * Reload = m * Reload + n * Reload /\ m * Reload \in Int
      BY <1>3, <2>4, TicksAdd, TicksInt
    <3> QED
      BY <1>3, <1>8, <3>1, <3>2
  <2> QED
    BY <2>1, <2>3, <2>4
<1>12. NotTooFar'
  BY <1>4, <1>11 DEF NotTooFar
<1>13. InTime' /\ LookedOnce' /\ LookedTwice' /\ WakesUp'
  BY <1>2, <1>4, <1>5 DEF InTime, LookedOnce, LookedTwice, WakesUp
<1> QED
  BY <1>7, <1>9, <1>12, <1>13 DEF TimeInv

(***************************************************************************)
(* and lets the SysTick go on where it is by now.                          *)
(***************************************************************************)
LEMMA UnlockKeepsTime ==
  ASSUME KernelInv, TimeInv, Unlock, Grain = 1
  PROVE  TimeInv'
<1>1. /\ UNCHANGED <<dly, timers, hw, grid, owed>>
      /\ slack' = IF os.lock THEN slack ELSE 0
      /\ idle.at = "unlock" /\ Clocks < idle.toGo
      /\ tick' = [int |-> TRUE, val |-> WhereItShouldBe]
      /\ pending' = OsPend
      /\ os' = [lock |-> FALSE, psh |-> FALSE, pend |-> {}]
      /\ cpuLock' = cpuLock \ {"rtos"}
      /\ slow' = [slow EXCEPT !.ago = 0]
      /\ idle' = Awake
  BY DEF Unlock, At, Step, TickOn
<1>2. TimeTypeOK /\ os.lock
  BY <1>1 DEF TimeInv, KernelInv, IdlePlace, SuspendedAt
<1>3. /\ idle.toGo \in 1 .. Reload /\ slow.ago \in Nat /\ Clocks = slow.ago /\ owed \in Int
      /\ grid \in 0 .. (Reload - 1) /\ tick.val = grid
  BY <1>2 DEF TimeTypeOK, Clocks
<1>4. owed = Kept /\ Whole(grid) = idle.toGo - slow.ago
  <2>1. idle.sleep = 0 /\ Now = (Kept + idle.sleep) * Reload - idle.toGo + slow.ago
    BY <1>1 DEF TimeInv, Measured, Measuring
  <2>2. Kept \in Int /\ Kept + 0 = Kept /\ Kept * Reload \in Int /\ owed * Reload \in Int
    BY <1>3, TicksInt DEF Kept
  <2>3. Whole(grid) \in 1 .. Reload /\ idle.toGo - slow.ago \in 1 .. Reload
    BY <1>1, <1>3, WholeType, Sizes
  <2>4. owed * Reload - Whole(grid) = Kept * Reload - (idle.toGo - slow.ago)
    <3>1. Now = Kept * Reload - idle.toGo + slow.ago
      BY <2>1, <2>2
    <3> QED
      BY <1>3, <2>2, <2>3, <3>1 DEF Now
  <2> QED
    BY <1>3, <2>2, <2>3, <2>4, TicksUnique
<1>5. WhereItShouldBe = grid
  <2>1. (idle.toGo - Clocks) % Reload = grid
    BY <1>3, <1>4, WholeMod
  <2> QED
    BY <1>3, <2>1 DEF WhereItShouldBe
<1>6. /\ tick' \in [val : 0 .. Reload - 1, int : BOOLEAN]
      /\ tick'.val = grid' /\ tick'.int = TRUE
  BY <1>1, <1>3, <1>5
<1>7. /\ pending' \subseteq {"systick", "pendsv", "timer", "event"}
      /\ "systick" \in pending' <=> "systick" \in os.pend
  BY <1>1, <1>2 DEF OsPend, TimeTypeOK
<1>8. slow' \in [phase : 0 .. Grain - 1, ago : Nat] /\ slow'.ago = 0
  BY <1>1, <1>2 DEF TimeTypeOK
<1>9. /\ idle' \in [at : {"call", "called", "suspend", "lock"} \cup SuspendedAt,
                    start : 0 .. Reload - 1, toGo : 1 .. Reload, sleep : Nat, ticking : BOOLEAN]
      /\ idle'.at = "call" /\ idle'.sleep = 0
  BY <1>1, Sizes DEF Awake
<1>10. os' \in [lock : BOOLEAN, psh : BOOLEAN, pend : SUBSET {"systick", "pendsv"}]
  BY <1>1
<1>11. TimeTypeOK'
  BY <1>1, <1>2, <1>6, <1>7, <1>8, <1>9, <1>10 DEF TimeTypeOK
<1>12. InTime'
  BY <1>1, <1>4, <1>6, <1>7, <1>8 DEF InTime, Kept
<1> QED
  BY <1>9, <1>11, <1>12, OutsideKeeps

-----------------------------------------------------------------------------
LEMMA TimeInvNext ==
  ASSUME KernelInv, TimeInv, [RtNext]_allVars, Grain = 1
  PROVE  TimeInv'
<1>1. CASE Interrupt
  BY <1>1, SysTickKeepsTime, PendSvKeepsTime, OtherIrqKeepsTime DEF Interrupt
<1>2. CASE IdleStep
  BY <1>2, LightKeepsTime, SuspendKeepsTime, TskLockKeepsTime, StampKeepsTime, ArmKeepsTime,
     DeepSleepKeepsTime, SleptKeepsTime, MeasureKeepsTime, CatchUpKeepsTime, UnlockKeepsTime
     DEF IdleStep
<1>3. CASE Elapse \/ RaiseEvent \/ ThreadStep \/ Waking
  BY <1>3, ElapseKeepsTime, RaiseEventKeepsTime, ThreadStepKeepsTime, WakingKeepsTime
<1>4. CASE UNCHANGED allVars
  <2>1. UNCHANGED <<tick, slow, os, idle, sched, dly, timers, hw, slack, grid, owed, pending,
                    cpuLock, core>>
    BY <1>4 DEF allVars, rtVars, vars, sleepVars
  <2>2. TimeTypeOK'
    BY <2>1 DEF TimeInv, TimeTypeOK
  <2> QED
    BY <2>1, <2>2, StaysKeeps
<1> QED
  BY <1>1, <1>2, <1>3, <1>4 DEF RtNext

\* The slow timer counts as fast as the SysTick.
AsFine == Grain = 1

\* The invariant of the time, for any threads, timers, delays and reload value.
THEOREM TimeInvariant == AsFine => (RtSpec => []TimeInv)
<1> SUFFICES ASSUME AsFine PROVE RtSpec => []TimeInv
  OBVIOUS
<1>1. KernelInv /\ TimeInv /\ [RtNext]_allVars => TimeInv'
  BY TimeInvNext DEF AsFine
<1> QED
  BY TimeInvInit, KernelInvariant, <1>1, PTL DEF RtSpec

(***************************************************************************)
(* A tick is never counted before its time: the time since the last one    *)
(* counted is at least none.                                               *)
(***************************************************************************)
LEMMA OwedNever ==
  ASSUME KernelInv, TimeInv
  PROVE  owed >= 0
<1>1. TimeTypeOK /\ owed \in Int /\ grid \in 0 .. (Reload - 1) /\ owed * Reload \in Int
  BY NowInt DEF TimeInv, TimeTypeOK
<1>2. CASE ~os.lock
  BY <1>2 DEF TimeInv, InTime
<1>3. ASSUME Now + Reload >= 0 PROVE owed >= 0
  <2>1. owed * Reload + Reload > 0
    BY <1>1, <1>3, WholeType, Sizes DEF Now
  <2>2. owed < 0 => owed * Reload + Reload <= 0
    BY <1>1, TicksSign
  <2> QED
    BY <1>1, <2>1, <2>2, Sizes
<1>4. CASE idle.at = "stamp"
  <2>1. Now + Whole(idle.start) \in 0 .. (slack + MaxSlack) /\ idle.start \in 0 .. (Reload - 1)
    BY <1>4 DEF TimeInv, TimeTypeOK, LookedTwice
  <2>2. Now + Reload >= 0
    BY <1>1, <2>1, NowInt, WholeType, Sizes
  <2> QED
    BY <1>3, <2>2
<1>5. CASE idle.at \in Measuring
  <2>1. Now = (Kept + idle.sleep) * Reload - idle.toGo + slow.ago
    BY <1>5 DEF TimeInv, Measured
  <2>2. Kept + idle.sleep \in Nat /\ idle.toGo \in 1 .. Reload /\ slow.ago \in Nat
    BY <1>1 DEF TimeTypeOK, Kept
  <2>3. (Kept + idle.sleep) * Reload \in Nat
    BY <2>2, Sizes
  <2>4. Now + Reload >= 0
    BY <2>1, <2>2, <2>3, Sizes
  <2> QED
    BY <1>3, <2>4
<1> QED
  BY <1>2, <1>4, <1>5 DEF KernelInv, IdlePlace, SuspendedAt, Measuring

(***************************************************************************)
(* The time is bounded by the sleep: by who waits for the shortest time,   *)
(* but for what the CPU takes for its steps.                               *)
(***************************************************************************)
LEMMA NowBounded ==
  ASSUME KernelInv, TimeInv, idle.at \in Measuring, NEW n \in Horizon
  PROVE  Now < n * Reload + MaxSlack
<1>1. TimeTypeOK /\ slack \in 0 .. MaxSlack /\ hw \in Nat /\ Now \in Int
  BY NowInt, Sizes DEF TimeInv, TimeTypeOK
<1>2. n \in Int /\ n >= 1
  BY <1>1, HorizonType
<1>3. n * Reload \in Int /\ n * Reload >= Reload
  BY <1>2, TicksInt, TicksSign
<1>4. CASE idle.at = "arm"
  <2>1. Now < slack
    BY <1>4 DEF TimeInv, NotTooFar
  <2> QED
    BY <1>1, <1>3, <2>1, Sizes
<1>5. CASE idle.at \in {"sleep", "slept"}
  <2>1. Now + hw < n * Reload + slack
    BY <1>5 DEF TimeInv, NotTooFar
  <2> QED
    BY <1>1, <1>3, <2>1, Sizes
<1>6. CASE idle.at \in {"resume", "catchup", "unlock"}
  <2>1. Now < n * Reload + slack
    BY <1>6 DEF TimeInv, NotTooFar
  <2> QED
    BY <1>1, <1>3, <2>1, Sizes
<1> QED
  BY <1>4, <1>5, <1>6 DEF Measuring

\* Two ticks more than the longest sleep hold the time and what is left of a tick.
LEMMA LongestSleep ==
  ASSUME KernelInv, TimeInv, idle.at \in Measuring
  PROVE  slow.ago <= (MaxSleep + 2) * Reload /\ idle.sleep <= MaxSleep + 2
<1>1. TimeTypeOK /\ Now \in Int
  BY NowInt DEF TimeInv
<1>2. Now < MaxSleep * Reload + MaxSlack /\ MaxSleep * Reload \in Int
  BY NowBounded, TicksInt, Sizes DEF Horizon
<1>3. (MaxSleep + 2) * Reload = MaxSleep * Reload + (Reload + Reload)
  <2>1. MaxSleep \in Int /\ 2 \in Int /\ 2 * Reload = Reload + Reload
    BY Sizes
  <2> QED
    BY <2>1, TicksAdd
<1>4. Now = (Kept + idle.sleep) * Reload - idle.toGo + slow.ago
  BY DEF TimeInv, Measured
<1>5. /\ Kept + idle.sleep \in Nat /\ idle.toGo \in 1 .. Reload /\ slow.ago \in Nat
      /\ idle.sleep \in Nat /\ Kept \in Nat
  BY <1>1 DEF TimeTypeOK, Kept
<1>6. (Kept + idle.sleep) * Reload \in Nat
  BY <1>5, Sizes
<1>7. slow.ago <= (MaxSleep + 2) * Reload
  BY <1>1, <1>2, <1>3, <1>4, <1>5, <1>6, Sizes
<1>8. Kept + idle.sleep <= MaxSleep + 2
  <2>1. (Kept + idle.sleep) * Reload < (MaxSleep + 2) * Reload
    BY <1>1, <1>2, <1>3, <1>4, <1>5, <1>6, Sizes
  <2>2. MaxSleep + 2 \in Int /\ Kept + idle.sleep \in Int
    BY <1>5, Sizes
  <2>3. MaxSleep + 2 < Kept + idle.sleep
          => (MaxSleep + 2) * Reload + Reload <= (Kept + idle.sleep) * Reload
    BY <2>2, TicksOrder
  <2>4. (MaxSleep + 2) * Reload \in Int
    BY <2>2, TicksInt
  <2> QED
    BY <1>6, <2>1, <2>2, <2>3, <2>4, Sizes
<1> QED
  BY <1>5, <1>7, <1>8, Sizes

(***************************************************************************)
(* os_time counts every tick exactly once, however often and however long  *)
(* the tick is stopped: what rt_resume measures is the time that went by,  *)
(* so that the ticks it makes up for and those that were pending are all   *)
(* there were, and the SysTick starts again where it would be; none is     *)
(* counted before its time, and what rt_resume works with stays in its     *)
(* bounds.                                                                 *)
(***************************************************************************)
THEOREM TicksTheorem == AsFine => (RtSpec => []TicksKept)
<1> SUFFICES ASSUME AsFine PROVE RtSpec => []TicksKept
  OBVIOUS
<1>1. ASSUME KernelInv, TimeInv
      PROVE  TicksKept
  <2>1. TimeTypeOK /\ KernelTypeOK
    BY <1>1 DEF TimeInv, KernelInv
  <2>2. slow.ago \in Nat /\ idle.sleep \in Nat /\ slack \in 0 .. MaxSlack
    BY <2>1 DEF TimeTypeOK
  <2>3. (MaxSleep + 2) * Reload \in Nat /\ (MaxSleep + 2) * Reload >= MaxSlack
    <3>1. (MaxSleep + 2) * Reload >= Reload /\ (MaxSleep + 2) * Reload \in Int
      <4>1. MaxSleep + 2 \in Int /\ MaxSleep + 2 >= 1
        BY Sizes
      <4> QED
        BY <4>1, TicksSign, TicksInt
    <3> QED
      BY <3>1, Sizes
  <2>4. slow.ago <= (MaxSleep + 2) * Reload /\ idle.sleep <= MaxSleep + 2
    <3>1. CASE idle.at \in Measuring
      BY <1>1, <3>1, LongestSleep
    <3>2. CASE idle.at \notin Measuring
      <4>1. idle.sleep = 0
        BY <1>1, <3>2 DEF TimeInv, Measured, Measuring
      <4>2. ~os.lock => slow.ago = 0
        BY <1>1 DEF TimeInv, InTime
      <4>3. os.lock => slow.ago <= slack
        BY <1>1, <3>2
           DEF TimeInv, LookedTwice, KernelInv, IdlePlace, SuspendedAt, Measuring
      <4> QED
        BY <2>1, <2>2, <2>3, <4>1, <4>2, <4>3, Sizes DEF TimeTypeOK
    <3> QED
      BY <3>1, <3>2
  <2>5. slow \in [phase : 0 .. Grain - 1, ago : 0 .. (MaxSleep + 2) * Reload]
    <3>1. slow.ago \in 0 .. (MaxSleep + 2) * Reload
      BY <2>2, <2>3, <2>4
    <3> QED
      BY <2>1, <3>1 DEF TimeTypeOK
  <2>6. idle.sleep \in 0 .. MaxSleep + 2
    BY <2>2, <2>4, Sizes
  <2>7. RtTypeOK
    BY <2>1, <2>5, <2>6 DEF RtTypeOK, TimeTypeOK, KernelTypeOK
  <2>8. owed >= 0
    BY <1>1, OwedNever
  <2> QED
    BY <1>1, <2>1, <2>7, <2>8 DEF TicksKept, TimeInv, InTime, TimeTypeOK
<1> QED
  BY <1>1, KernelInvariant, TimeInvariant, PTL

(***************************************************************************)
(* Nobody who waits for a delay or a timer is more than a tick late: the   *)
(* hwtimer rt_suspend sets for the first of them ends the sleep, and while *)
(* the scheduler runs at most one tick waits for its interrupt.            *)
(***************************************************************************)
THEOREM DueTheorem == AsFine => (RtSpec => []DueInTime)
<1> SUFFICES ASSUME AsFine PROVE RtSpec => []DueInTime
  OBVIOUS
<1>1. ASSUME KernelInv, TimeInv, NEW n \in Waited(dly) \cup Waited(timers)
      PROVE  owed <= n + 1
  <2>1. TimeTypeOK /\ n \in Horizon /\ owed \in Int /\ grid \in 0 .. (Reload - 1)
    BY <1>1 DEF TimeInv, TimeTypeOK, Horizon
  <2>2. n \in Int /\ n >= 1
    BY <2>1, HorizonType
  <2>3. CASE ~os.lock
    BY <1>1, <2>2, <2>3 DEF TimeInv, InTime
  <2>4. ASSUME Now < n * Reload + MaxSlack PROVE owed <= n + 1
    <3>1. owed * Reload \in Int /\ Whole(grid) \in 1 .. Reload /\ n * Reload \in Int
      BY <2>1, <2>2, TicksInt, WholeType
    <3>2. (n + 2) * Reload = n * Reload + (Reload + Reload) /\ n + 2 \in Int
      <4>1. 2 \in Int /\ 2 * Reload = Reload + Reload
        BY Sizes
      <4> QED
        BY <2>2, <4>1, TicksAdd
    <3>3. owed * Reload < (n + 2) * Reload
      BY <2>4, <3>1, <3>2, Sizes DEF Now
    <3>4. n + 2 < owed => (n + 2) * Reload + Reload <= owed * Reload
      BY <2>1, <3>2, TicksOrder
    <3>5. owed # n + 2
      BY <3>1, <3>2, <3>3, Sizes
    <3>6. ~(n + 2 < owed)
      BY <3>1, <3>2, <3>3, <3>4, Sizes
    <3> QED
      BY <2>1, <2>2, <3>5, <3>6
  <2>5. CASE idle.at = "stamp"
    <3>1. Now + Whole(idle.start) \in 0 .. (slack + MaxSlack) /\ idle.start \in 0 .. (Reload - 1)
          /\ slack \in 0 .. MaxSlack
      BY <1>1, <2>1, <2>5 DEF TimeInv, TimeTypeOK, LookedTwice
    <3>2. n * Reload \in Int /\ n * Reload >= Reload /\ Now \in Int
      BY <2>1, <2>2, TicksInt, TicksSign, NowInt
    <3>3. Now < n * Reload + MaxSlack
      BY <3>1, <3>2, WholeType, Sizes
    <3> QED
      BY <2>4, <3>3
  <2>6. CASE idle.at \in Measuring
    BY <1>1, <2>1, <2>4, <2>6, NowBounded
  <2> QED
    BY <1>1, <2>3, <2>5, <2>6 DEF KernelInv, IdlePlace, SuspendedAt, Measuring
<1>2. KernelInv /\ TimeInv => DueInTime
  BY <1>1 DEF DueInTime
<1> QED
  BY <1>2, KernelInvariant, TimeInvariant, PTL

=============================================================================
