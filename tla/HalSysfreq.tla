----------------------------- MODULE HalSysfreq -----------------------------
(***************************************************************************)
(* platform/hal/hal_sysfreq.c: the CPU clock.  Each user votes for a       *)
(* frequency and the clock runs at the highest vote, or at the minimum if  *)
(* that is higher.  Only the user with the highest vote, top_user, is      *)
(* remembered.  A request runs with interrupts locked; raising the clock   *)
(* first asks the PMU for the core voltage and then switches the clock,    *)
(* lowering does it in the other order.  The model has a step for each of  *)
(* the two writes: between them the chip runs at what was written so far.  *)
(* The range checks of the arguments are not modelled.                     *)
(***************************************************************************)
EXTENDS Naturals

CONSTANTS UserQty,   \* HAL_SYSFREQ_USER_QTY
          MaxFreq,   \* HAL_CMU_FREQ_QTY - 1; 0 is HAL_CMU_FREQ_32K
          InitMin,   \* the minimum at boot, HAL_CMU_FREQ_26M
          HighMin,   \* the highest minimum anybody sets, HAL_CMU_FREQ_52M
          LowVolt    \* the highest clock the low core voltage is enough for

ASSUME SysfreqAssumption ==
  /\ UserQty \in Nat \ {0}
  /\ {MaxFreq, InitMin, HighMin, LowVolt} \subseteq Nat
  /\ InitMin <= HighMin /\ HighMin <= LowVolt /\ LowVolt <= MaxFreq

VARIABLES
  vote,     \* sysfreq_per_user
  top,      \* top_user; UserQty when nobody voted
  minimum,  \* min_sysfreq
  clock,    \* the frequency the CMU runs the system at
  vcore,    \* the highest frequency the core voltage asked for is enough for
  write     \* the request under way: "none", or the write it has still to
            \* make and the frequency it makes it for

sysfreqVars == <<vote, top, minimum, clock, vcore, write>>

User == 0 .. UserQty - 1
Freq == 0 .. MaxFreq

\* hal_sysfreq_revise_freq
Revise(freq) == IF freq > minimum THEN freq ELSE minimum

\* hal_sysfreq_get
SysfreqGet == IF top \in User THEN vote[top] ELSE clock

\* hal_sysfreq_busy
SysfreqBusy == \E u \in User : vote[u] # 0

\* pmu_sys_freq_config: which core voltage a frequency needs.
VoltFor(freq) == IF freq > LowVolt THEN MaxFreq ELSE LowVolt

SysfreqIdle == write.what = "none"

Written == [what |-> "none", freq |-> 0]

\* A boot leaves a clock that the low voltage is enough for.
SysfreqInit ==
  /\ vote = [u \in User |-> 0]
  /\ top = UserQty
  /\ minimum = InitMin
  /\ clock \in InitMin .. LowVolt
  /\ vcore = LowVolt
  /\ write = Written

-----------------------------------------------------------------------------
\* hal_sysfreq_set_min_freq; it leaves the core voltage alone.
SetMinFreq(freq) ==
  /\ SysfreqIdle
  /\ freq > minimum
  /\ minimum' = freq
  /\ clock' = IF freq > SysfreqGet THEN freq ELSE clock
  /\ UNCHANGED <<vote, top, vcore, write>>

-----------------------------------------------------------------------------
(***************************************************************************)
(* hal_sysfreq_req, by how the vote compares with the highest so far.      *)
(***************************************************************************)
Vote(user, freq) == vote' = [vote EXCEPT ![user] = freq]

ReqSame(user, freq) ==
  /\ freq = SysfreqGet
  /\ Vote(user, freq)
  /\ top' = user
  /\ UNCHANGED <<minimum, clock, vcore, write>>

\* A slip: the clock is raised before the voltage.
ReqHigherClockFirst(user, freq) ==
  /\ freq > SysfreqGet
  /\ Vote(user, freq)
  /\ top' = user
  /\ clock' = Revise(freq)
  /\ write' = [what |-> "volt", freq |-> Revise(freq)]
  /\ UNCHANGED <<minimum, vcore>>

ReqHigher(user, freq) ==
  /\ freq > SysfreqGet
  /\ Vote(user, freq)
  /\ top' = user
  /\ vcore' = VoltFor(Revise(freq))
  /\ write' = [what |-> "clock", freq |-> Revise(freq)]
  /\ UNCHANGED <<minimum, clock>>

\* The first user that no other user outvotes.
Outvotes(v, user) ==
  \A u \in User : v[u] <= v[user] /\ (u < user => v[u] < v[user])

\* The clock goes down to what the new top user wants, unless that is the same.
LowerTo(user) ==
  /\ top' = user
  /\ IF vote'[user] = SysfreqGet
     THEN UNCHANGED <<clock, write>>
     ELSE /\ clock' = Revise(vote'[user])
          /\ write' = [what |-> "volt", freq |-> Revise(vote'[user])]
  /\ UNCHANGED <<minimum, vcore>>

\* Somebody else has the highest vote.
ReqLowerOther(user, freq) ==
  /\ freq < SysfreqGet /\ top \notin {user, UserQty}
  /\ Vote(user, freq)
  /\ UNCHANGED <<top, minimum, clock, vcore, write>>

\* The first vote ever, below the clock of the boot.
ReqLowerFirst(user, freq) ==
  /\ freq < SysfreqGet /\ top = UserQty
  /\ Vote(user, freq)
  /\ LowerTo(user)

\* A slip: the clock follows the vote of the user that lowered it.
ReqLowerTopAlone(user, freq) ==
  /\ freq < SysfreqGet /\ top = user
  /\ Vote(user, freq)
  /\ LowerTo(user)

\* The highest vote goes down, and another may be the highest now.
ReqLowerTop(user, freq) ==
  /\ freq < SysfreqGet /\ top = user
  /\ Vote(user, freq)
  /\ \E u \in User : Outvotes(vote', u) /\ LowerTo(u)

SysfreqReq(user, freq) ==
  /\ SysfreqIdle
  /\ \/ ReqSame(user, freq)
     \/ ReqHigher(user, freq)
     \/ ReqLowerOther(user, freq)
     \/ ReqLowerFirst(user, freq)
     \/ ReqLowerTop(user, freq)

\* hal_cmu_sys_set_freq, after the voltage.
SetClock ==
  /\ write.what = "clock"
  /\ clock' = write.freq
  /\ write' = Written
  /\ UNCHANGED <<vote, top, minimum, vcore>>

\* pmu_sys_freq_config, after the clock.
SetVolt ==
  /\ write.what = "volt"
  /\ vcore' = VoltFor(write.freq)
  /\ write' = Written
  /\ UNCHANGED <<vote, top, minimum, clock>>

SysfreqStep ==
  \/ \E user \in User, freq \in Freq : SysfreqReq(user, freq)
  \/ SetClock
  \/ SetVolt

SysfreqNext ==
  \/ SysfreqStep
  \/ \E freq \in 0 .. HighMin : SetMinFreq(freq)

SysfreqSpec == SysfreqInit /\ [][SysfreqNext]_sysfreqVars

-----------------------------------------------------------------------------
SysfreqTypeOK ==
  /\ vote \in [User -> Freq]
  /\ top \in User \cup {UserQty}
  /\ minimum \in InitMin .. HighMin
  /\ clock \in Freq
  /\ vcore \in {LowVolt, MaxFreq}
  /\ write \in [what : {"none", "clock", "volt"}, freq : Freq]

(***************************************************************************)
(* Once somebody voted, and with no request under way, the clock is the    *)
(* highest of the votes and the minimum: it never runs below what a user   *)
(* still asks for because another one gave its own vote up, and never      *)
(* above it because a vote was forgotten (hal_sysfreq_req keeps only the   *)
(* user with the highest vote).                                            *)
(***************************************************************************)
ClockMeetsVotes ==
  SysfreqIdle /\ top \in User =>
    /\ clock >= minimum /\ \A u \in User : clock >= vote[u]
    /\ clock = minimum \/ \E u \in User : clock = vote[u]

(***************************************************************************)
(* At every moment, between the two writes of a request too, the core      *)
(* voltage asked for is enough for the clock; and with no request under    *)
(* way the high voltage is not kept for a clock that does not need it.     *)
(***************************************************************************)
VoltageFits ==
  /\ clock <= vcore
  /\ SysfreqIdle => vcore = VoltFor(clock)

=============================================================================
