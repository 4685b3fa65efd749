------------------------ MODULE NorflashClientProofs ------------------------
(***************************************************************************)
(* What the clients of norflash_api get: the callers of app_flash_page_*,  *)
(* for any number of modules, sectors, pages, values, nodes and buffers,   *)
(* and the two copies of the user data record, for any number of versions, *)
(* pages, nodes, buffers and other clients, when one thread flushes.       *)
(***************************************************************************)
EXTENDS NorflashApp, NvExtension, NorflashApiProofs

-----------------------------------------------------------------------------
(***************************************************************************)
(* A program request that is refused and tried again still follows the     *)
(* flash rule when it is accepted at last: only the task of its module     *)
(* changes what its sector reads as.                                       *)
(***************************************************************************)
RuleKept ==
  \A m \in Module :
    taskAt[m] # "idle" /\ req[m].type = "W"
      => Writable(req[m].sector, req[m].lo, req[m].hi, req[m].data)

(***************************************************************************)
(* What the completed calls made of the sectors is what they read as,      *)
(* where no task trusts the chip about a sector with pending work.         *)
(***************************************************************************)
ShadowAgrees == FlushFirst => \A s \in Sector : View(s) = shadow[s]

AppInv == StoreInv /\ AppTypeOK /\ call = NoCall /\ RuleKept /\ ShadowAgrees

-----------------------------------------------------------------------------
(***************************************************************************)
(* What an accepted request makes of its sector.                           *)
(***************************************************************************)
Outcome(r, c) == IF r.type = "E" THEN Blank ELSE Overlay(c, r.lo, r.hi, Uniform(r.data))

(***************************************************************************)
(* An accepted request is visible at once, and on its sector alone.        *)
(***************************************************************************)
LEMMA AskedViews ==
  ASSUME OneBuffer, StoreInv, NEW r \in Request, Asked(r),
         r.type = "W" => Writable(r.sector, r.lo, r.hi, r.data)
  PROVE  /\ Image' = [Image EXCEPT ![r.sector] = Outcome(r, @)]
         /\ UNCHANGED call
<1>1. /\ r.sector \in Sector /\ r.lo \in Page /\ r.hi \in Page /\ r.data \in Data
      /\ r.type \in {"E", "W"}
  BY DEF Request
<1>2. CASE r.type = "E"
  BY <1>1, <1>2, EraseViews DEF Asked, Outcome
<1>3. CASE r.type = "W"
  <2>1. WriteAsync(r.sector, r.lo, r.hi, Uniform(r.data))
    BY <1>3 DEF Asked
  <2> QED
    BY <1>1, <1>3, <2>1, WriteViews DEF Outcome
<1> QED
  BY <1>1, <1>2, <1>3

-----------------------------------------------------------------------------
(***************************************************************************)
(* Every step of the callers is a step of the service that obeys its rule, *)
(* or none.                                                                *)
(***************************************************************************)
LEMMA AskedNext ==
  ASSUME NEW r \in Request, Asked(r),
         r.type = "W" => Writable(r.sector, r.lo, r.hi, r.data)
  PROVE  Next
<1>1. /\ r.sector \in Sector /\ r.lo \in Page /\ r.hi \in Page /\ r.data \in Data
      /\ r.type \in {"E", "W"}
  BY DEF Request
<1>2. CASE r.type = "E"
  BY <1>1, <1>2 DEF Asked, ClientCall, Next
<1>3. CASE r.type = "W"
  <2>1. WriteAsync(r.sector, r.lo, r.hi, Uniform(r.data))
    BY <1>3 DEF Asked
  <2> QED
    BY <1>1, <1>3, <2>1 DEF ClientCall, Next
<1> QED
  BY <1>1, <1>2, <1>3

(***************************************************************************)
(* A request of a task.                                                    *)
(***************************************************************************)
LEMMA RequestIs ==
  ASSUME AppInv, NEW m \in Module, taskAt[m] # "idle"
  PROVE  /\ req[m] \in Request /\ req[m].sector \in Sector /\ Owner[req[m].sector] = m
         /\ req[m].type = "W"
              => Writable(req[m].sector, req[m].lo, req[m].hi, req[m].data)
BY DEF AppInv, AppTypeOK, RuleKept, Request

(***************************************************************************)
(* The steps of the callers, as steps of the service.                      *)
(***************************************************************************)
LEMMA AppNextIsNext ==
  ASSUME AppInv, [AppNext]_appVars
  PROVE  [Next]_vars
<1>1. CASE BeginCall
  BY <1>1 DEF BeginCall, BeginErase, BeginProgram, vars
<1>2. ASSUME NEW m \in Module, Accepted(m)
      PROVE  Next
  <2>1. taskAt[m] # "idle" /\ Asked(req[m])
    BY <1>2 DEF Accepted
  <2> QED
    BY <2>1, RequestIs, AskedNext
<1>3. ASSUME NEW m \in Module, Full(m) \/ TaskFlush(m) \/ TaskCount(m)
      PROVE  [Next]_vars
  BY <1>3 DEF Full, TaskFlush, TaskCount, FlushOnce, Next, vars
<1>4. CASE AppIdle \/ CpStart \/ CpStop \/ CpGetsReady \/ AppReboot
  BY <1>4 DEF AppIdle, CpStart, CpStop, CpGetsReady, AppReboot, Next
<1>5. CASE UNCHANGED appVars
  BY <1>5 DEF appVars, vars
<1> QED
  BY <1>1, <1>2, <1>3, <1>4, <1>5 DEF AppNext, Task

(***************************************************************************)
(* Steps that nobody who reads the flash can tell: requests may begin that *)
(* obey the rule.                                                          *)
(***************************************************************************)
LEMMA ViewsKept ==
  ASSUME AppInv, StoreInv', AppTypeOK', Image' = Image, UNCHANGED call,
         FlushFirst => UNCHANGED shadow,
         \A m \in Module :
           taskAt'[m] # "idle" /\ req'[m].type = "W"
             => Writable(req'[m].sector, req'[m].lo, req'[m].hi, req'[m].data)
  PROVE  AppInv'
<1>1. RuleKept'
  <2> SUFFICES ASSUME NEW m \in Module, taskAt'[m] # "idle", req'[m].type = "W"
               PROVE  Writable(req[m].sector, req[m].lo, req[m].hi, req[m].data)'
    BY DEF RuleKept
  <2>1. req'[m].sector \in Sector
    BY DEF AppTypeOK, Request
  <2>2. View(req[m].sector)' = Image[req'[m].sector]
    BY <2>1 DEF Image
  <2>3. Image[req'[m].sector] = View(req'[m].sector)
    BY <2>1 DEF Image
  <2> QED
    BY <2>1, <2>2, <2>3 DEF Writable
<1>2. ShadowAgrees'
  <2>1. \A s \in Sector : View(s)' = View(s)
    BY DEF Image
  <2> QED
    BY <2>1 DEF AppInv, ShadowAgrees
<1> QED
  BY <1>1, <1>2 DEF AppInv

(***************************************************************************)
(* A step that begins no request.                                          *)
(***************************************************************************)
LEMMA RequestsKept ==
  ASSUME AppInv, UNCHANGED req, \A m \in Module : taskAt'[m] # "idle" => taskAt[m] # "idle"
  PROVE  \A m \in Module :
           taskAt'[m] # "idle" /\ req'[m].type = "W"
             => Writable(req'[m].sector, req'[m].lo, req'[m].hi, req'[m].data)
BY RequestIs

(***************************************************************************)
(* The state of the tasks.                                                 *)
(***************************************************************************)
LEMMA AppTypes ==
  ASSUME AppInv, StoreInv', [AppNext]_appVars
  PROVE  AppTypeOK'
<1>1. TypeOK' /\ AppTypeOK /\ MaxCalls \in Nat
  BY AppAssumption DEF StoreInv, InFlightInv, AppInv
<1>2. ASSUME NEW m \in Module, NEW s \in TasksOf(m), BeginErase(m, s)
      PROVE  AppTypeOK'
  <2>1. /\ s \in Sector /\ Owner[s] = m /\ calls < MaxCalls /\ calls' = calls + 1
        /\ taskAt[m] = "idle"
    BY <1>2 DEF TasksOf, BeginErase, Begin
  <2>2. calls' \in 0..MaxCalls
    BY <1>1, <2>1 DEF AppTypeOK
  <2>3. CASE LooksErased(s)
    BY <1>1, <1>2, <2>1, <2>2, <2>3, UniformType DEF AppTypeOK, BeginErase
  <2>4. CASE ~LooksErased(s)
    <3>1. PICK r \in Request : r.sector = s /\ req' = [req EXCEPT ![m] = r]
      BY <1>2, <2>4 DEF BeginErase
    <3>2. taskAt' = [taskAt EXCEPT ![m] = "try"] /\ UNCHANGED shadow
      BY <1>2, <2>4 DEF BeginErase
    <3> QED
      BY <1>1, <2>1, <2>2, <3>1, <3>2 DEF AppTypeOK
  <2> QED
    BY <2>3, <2>4
<1>3. ASSUME NEW m \in Module, NEW r \in Request, Owner[r.sector] = m, BeginProgram(m, r)
      PROVE  AppTypeOK'
  <2>1. calls < MaxCalls /\ calls' = calls + 1 /\ UNCHANGED shadow
    BY <1>3 DEF BeginProgram, Begin
  <2>2. calls' \in 0..MaxCalls
    BY <1>1, <2>1 DEF AppTypeOK
  <2> QED
    BY <1>1, <1>3, <2>1, <2>2 DEF AppTypeOK, BeginProgram
<1>4. ASSUME NEW m \in Module, Accepted(m)
      PROVE  AppTypeOK'
  <2> DEFINE r == req[m]
  <2>1. r \in Request /\ r.sector \in Sector
    BY <1>4, RequestIs DEF Accepted
  <2>2. \A c \in Contents : Outcome(r, c) \in Contents
    BY <2>1, UniformType DEF Outcome, Overlay, Uniform, Contents, Request, Value
  <2>3. shadow' = [shadow EXCEPT ![r.sector] = Outcome(r, @)]
    BY <1>4 DEF Accepted, Outcome
  <2>4. shadow' \in [Sector -> Contents]
    BY <1>1, <2>1, <2>2, <2>3 DEF AppTypeOK
  <2> QED
    BY <1>1, <1>4, <2>4 DEF AppTypeOK, Accepted
<1>5. ASSUME NEW m \in Module, Full(m) \/ TaskFlush(m) \/ TaskCount(m)
      PROVE  AppTypeOK'
  BY <1>1, <1>5 DEF AppTypeOK, Full, TaskFlush, TaskCount
<1>6. CASE AppIdle \/ CpStop \/ CpGetsReady \/ UNCHANGED appVars
  BY <1>1, <1>6 DEF AppTypeOK, AppIdle, CpStop, CpGetsReady, appVars
<1>7. CASE CpStart
  BY <1>1, <1>7 DEF AppTypeOK, CpStart
<1>8. CASE AppReboot
  BY <1>1, <1>8 DEF AppTypeOK, AppReboot, TypeOK
<1>9. CASE BeginCall
  BY <1>2, <1>3, <1>9 DEF BeginCall
<1> QED
  BY <1>4, <1>5, <1>6, <1>7, <1>8, <1>9 DEF AppNext, Task

-----------------------------------------------------------------------------
(***************************************************************************)
(* An erase that the chip makes look unnecessary is: where the task first  *)
(* waited for the pending work of the sector, a read of the buffers is one *)
(* of the chip.                                                            *)
(***************************************************************************)
LEMMA BeginEraseStep ==
  ASSUME OneBuffer, AppInv, StoreInv', AppTypeOK', NEW m \in Module, NEW s \in TasksOf(m),
         BeginErase(m, s)
  PROVE  AppInv'
<1>1. Image' = Image /\ UNCHANGED call /\ s \in Sector /\ Owner[s] = m
  BY GateViews DEF AppInv, BeginErase, vars, TasksOf
<1>2. CASE LooksErased(s)
  <2>1. ASSUME FlushFirst
        PROVE  UNCHANGED shadow
    <3>1. View(s) = Blank
      BY <1>1, <1>2, <2>1 DEF BeginErase, View, LooksErased
    <3>2. shadow[s] = Blank /\ shadow \in [Sector -> Contents]
      BY <1>1, <2>1, <3>1 DEF AppInv, ShadowAgrees, AppTypeOK
    <3> QED
      BY <1>1, <1>2, <3>2 DEF BeginErase
  <2>2. UNCHANGED <<taskAt, req>>
    BY <1>2 DEF BeginErase
  <2> QED
    BY <1>1, <2>1, <2>2, RequestsKept, ViewsKept
<1>3. CASE ~LooksErased(s)
  <2>1. /\ taskAt' = [taskAt EXCEPT ![m] = "try"] /\ UNCHANGED shadow
        /\ \E r \in Request : r.type = "E" /\ req' = [req EXCEPT ![m] = r]
    BY <1>3 DEF BeginErase
  <2>2. PICK r \in Request : r.type = "E" /\ req' = [req EXCEPT ![m] = r]
    BY <2>1
  <2>3. \A n \in Module : n # m => taskAt'[n] = taskAt[n] /\ req'[n] = req[n]
    BY <2>1, <2>2
  <2>4. req'[m] = r
    BY <2>2 DEF AppTypeOK
  <2> QED
    BY <1>1, <2>1, <2>2, <2>3, <2>4, RequestIs, ViewsKept
<1> QED
  BY <1>2, <1>3

(***************************************************************************)
(* A program request begins in keeping with the rule.                      *)
(***************************************************************************)
LEMMA BeginProgramStep ==
  ASSUME OneBuffer, AppInv, StoreInv', AppTypeOK', NEW m \in Module, NEW r \in Request,
         BeginProgram(m, r)
  PROVE  AppInv'
<1>1. Image' = Image /\ UNCHANGED call
  BY GateViews DEF AppInv, BeginProgram
<1>2. /\ taskAt' = [taskAt EXCEPT ![m] = "try"] /\ req' = [req EXCEPT ![m] = r] /\ UNCHANGED shadow
      /\ Writable(r.sector, r.lo, r.hi, r.data)
  BY DEF BeginProgram
<1>3. req'[m] = r
  BY <1>2 DEF AppInv, AppTypeOK
<1>4. \A n \in Module : n # m => taskAt'[n] = taskAt[n] /\ req'[n] = req[n]
  BY <1>2
<1> QED
  BY <1>1, <1>2, <1>3, <1>4, RequestIs, ViewsKept

(***************************************************************************)
(* An accepted request does to its sector what the caller takes it to do,  *)
(* and no other task has a request for this sector.                        *)
(***************************************************************************)
LEMMA AcceptedStep ==
  ASSUME OneBuffer, AppInv, StoreInv', AppTypeOK', NEW m \in Module, Accepted(m)
  PROVE  AppInv'
<1> DEFINE r == req[m]
           s == r.sector
<1>1. /\ r \in Request /\ s \in Sector /\ Owner[s] = m
      /\ r.type = "W" => Writable(s, r.lo, r.hi, r.data)
  BY RequestIs DEF Accepted
<1>2. Asked(r) /\ taskAt' = [taskAt EXCEPT ![m] = "idle"] /\ req' = [req EXCEPT ![m] = NoRequest]
      /\ shadow' = [shadow EXCEPT ![s] = Outcome(r, @)]
  BY DEF Accepted, Outcome
<1> HIDE DEF r
<1>3. Image' = [Image EXCEPT ![s] = Outcome(r, @)] /\ UNCHANGED call
  BY <1>1, <1>2, AskedViews DEF AppInv
<1>4. RuleKept'
  <2> SUFFICES ASSUME NEW n \in Module, taskAt'[n] # "idle", req'[n].type = "W"
               PROVE  Writable(req[n].sector, req[n].lo, req[n].hi, req[n].data)'
    BY DEF RuleKept
  <2>1. n # m
    BY <1>2 DEF AppInv, AppTypeOK
  <2>2. req'[n] = req[n] /\ taskAt'[n] = taskAt[n]
    BY <1>2, <2>1
  <2>3. /\ req[n] \in Request /\ req[n].sector \in Sector /\ Owner[req[n].sector] = n
        /\ Writable(req[n].sector, req[n].lo, req[n].hi, req[n].data)
    BY <2>2, RequestIs
  <2>4. Image'[req[n].sector] = Image[req[n].sector]
    BY <1>1, <1>3, <2>1, <2>3
  <2>5. View(req[n].sector)' = Image[req'[n].sector]
    BY <2>2, <2>3, <2>4 DEF Image
  <2>6. Image[req'[n].sector] = View(req'[n].sector)
    BY <2>2, <2>3 DEF Image
  <2> QED
    BY <2>2, <2>3, <2>5, <2>6 DEF Writable
<1>5. ShadowAgrees'
  <2> SUFFICES ASSUME FlushFirst, NEW z \in Sector
               PROVE  View(z)' = shadow'[z]
    BY DEF ShadowAgrees
  <2>1. Image[z] = shadow[z] /\ Image[s] = shadow[s]
    BY <1>1 DEF AppInv, ShadowAgrees, Image
  <2>2. Image'[z] = shadow'[z]
    BY <1>1, <1>2, <1>3, <2>1 DEF Image, AppInv, AppTypeOK
  <2> QED
    BY <2>2 DEF Image
<1> QED
  BY <1>3, <1>4, <1>5 DEF AppInv

(***************************************************************************)
(* After a reboot the tasks start over.                                    *)
(***************************************************************************)
LEMMA AppRebootStep ==
  ASSUME OneBuffer, AppInv, StoreInv', AppTypeOK', AppReboot
  PROVE  AppInv'
<1>1. \A s \in Sector : View(s)' = flash'[s]
  BY RestartViews DEF AppReboot, AppInv
<1>2. call' = NoCall /\ shadow' = flash' /\ taskAt' = [m \in Module |-> "idle"]
  BY DEF AppReboot, PowerLoss
<1> QED
  BY <1>1, <1>2 DEF AppInv, RuleKept, ShadowAgrees

(***************************************************************************)
(* Every step of the callers keeps the invariant.                          *)
(***************************************************************************)
LEMMA AppNextInv ==
  ASSUME OneBuffer, AppInv, [AppNext]_appVars
  PROVE  AppInv'
<1>1. StoreInv'
  BY AppNextIsNext, NextStoreInv DEF AppInv
<1>2. AppTypeOK' /\ StoreInv
  BY <1>1, AppTypes DEF AppInv
<1>3. CASE BeginCall
  BY <1>1, <1>2, <1>3, BeginEraseStep, BeginProgramStep DEF BeginCall
<1>4. ASSUME NEW m \in Module, Full(m) \/ TaskFlush(m) \/ TaskCount(m)
      PROVE  AppInv'
  <2>1. Image' = Image /\ UNCHANGED call
    BY <1>1, <1>2, <1>4, FlushViews, GateViews DEF Full, TaskFlush, TaskCount
  <2>2. UNCHANGED <<req, shadow>> /\ taskAt[m] # "idle"
    BY <1>4 DEF Full, TaskFlush, TaskCount
  <2>3. \E p : taskAt' = [taskAt EXCEPT ![m] = p]
    BY <1>4 DEF Full, TaskFlush, TaskCount
  <2>4. \A n \in Module : taskAt'[n] # "idle" => taskAt[n] # "idle"
    BY <2>2, <2>3
  <2> QED
    BY <1>1, <1>2, <2>1, <2>2, <2>4, RequestsKept, ViewsKept
<1>5. CASE AppIdle \/ CpStart \/ CpStop \/ CpGetsReady \/ UNCHANGED appVars
  <2>1. Image' = Image /\ UNCHANGED call
    BY <1>1, <1>2, <1>5, FlushViews, GateViews
    DEF AppIdle, CpStart, CpStop, CpGetsReady, FlushOnce, appVars
  <2>2. UNCHANGED <<taskAt, req, shadow>>
    BY <1>5 DEF AppIdle, CpStart, CpStop, CpGetsReady, appVars
  <2> QED
    BY <1>1, <1>2, <2>1, <2>2, RequestsKept, ViewsKept
<1> QED
  BY <1>1, <1>2, <1>3, <1>4, <1>5, AcceptedStep, AppRebootStep DEF AppNext, Task

(***************************************************************************)
(* The tasks start with an empty list and a chip they have not touched.    *)
(***************************************************************************)
LEMMA AppInitInv ==
  ASSUME AppInit
  PROVE  AppInv
<1>1. StoreInv
  BY InitStore DEF AppInit
<1>2. TypeOK /\ LockIsInFlight
  BY <1>1 DEF StoreInv, InFlightInv
<1>3. AppTypeOK
  BY <1>2, AppAssumption DEF AppInit, AppTypeOK, TypeOK
<1>4. \A s \in Sector : View(s) = flash[s]
  <2>1. \A m \in Module : queue[m] = <<>> /\ Len(queue[m]) = 0
    BY EmptySeq DEF AppInit, Init
  <2>2. \A s \in Sector : Quiet(queue[Owner[s]], s) /\ queue[Owner[s]] \in Seq(Opera)
    BY <1>2, <2>1, OwnerAssumption DEF Quiet, TypeOK
  <2> QED
    BY <1>2, <2>2, ViewIs, SeenIs DEF ViewsAre
<1> QED
  BY <1>1, <1>3, <1>4 DEF AppInit, Init, AppInv, RuleKept, ShadowAgrees

-----------------------------------------------------------------------------
(***************************************************************************)
(* The invariant of the callers: the service's own, and the requests that  *)
(* wait still follow the flash rule.                                       *)
(***************************************************************************)
THEOREM AppInvariant == OneBuffer => (AppSpec => []AppInv)
<1> SUFFICES ASSUME OneBuffer PROVE AppSpec => []AppInv
  OBVIOUS
<1>1. AppInit => AppInv
  BY AppInitInv
<1>2. AppInv /\ [AppNext]_appVars => AppInv'
  BY AppNextInv
<1> QED
  BY <1>1, <1>2, PTL DEF AppSpec

(***************************************************************************)
(* The callers ask of the service what NorflashApi lets clients ask:       *)
(* app_flash_page_program writes a page over an erased one or with the     *)
(* same value, also when norflash_api_write refused the request and        *)
(* others' work came in between.                                           *)
(***************************************************************************)
THEOREM CallersKeepTheRule == OneBuffer => (AppSpec => Spec)
<1> SUFFICES ASSUME OneBuffer PROVE AppSpec => Spec
  OBVIOUS
<1>1. AppInit => Init
  BY DEF AppInit
<1>2. AppInv /\ [AppNext]_appVars => [Next]_vars
  BY AppNextIsNext
<1> QED
  BY <1>1, <1>2, AppInvariant, PTL DEF AppSpec, Spec

(***************************************************************************)
(* A call that returned has taken effect: where tasks wait for a sector's  *)
(* pending work before they erase it, every sector reads as the accepted   *)
(* calls of app_flash_page_erase and app_flash_page_program, in their      *)
(* order, made it.                                                         *)
(***************************************************************************)
THEOREM CallsTakeEffectTheorem == OneBuffer /\ FlushFirst => (AppSpec => []CallsTakeEffect)
<1> SUFFICES ASSUME OneBuffer, FlushFirst PROVE AppSpec => []CallsTakeEffect
  OBVIOUS
<1>1. AppInv => CallsTakeEffect
  BY DEF AppInv, ShadowAgrees, CallsTakeEffect
<1> QED
  BY <1>1, AppInvariant, PTL

-----------------------------------------------------------------------------
(***************************************************************************)
(* What may stand in the pages of a sector: only values of G are on the    *)
(* chip, and only values of G are in the buffers that wait for the sector. *)
(***************************************************************************)
InPages(c, G) == \A p \in Page : c[p] \in G

OpsIn(q, s, G) == \A i \in 1..Len(q) : q[i].sector = s => InPages(q[i].buff, G)

Within(s, G) == InPages(flash[s], G) /\ OpsIn(queue[Owner[s]], s, G)

(***************************************************************************)
(* Programming brings nothing into a sector but what the buffer holds,     *)
(* and pages nobody can tell.                                              *)
(***************************************************************************)
LEMMA ProgramIn ==
  ASSUME NEW G, Garbled \in G, NEW c, NEW b, InPages(c, G), InPages(b, G), NEW lo, NEW hi
  PROVE  InPages(ProgramPages(c, lo, hi, b), G)
BY DEF InPages, ProgramPages, Programmed

(***************************************************************************)
(* A list all of whose operations were in one that is Within G.            *)
(***************************************************************************)
Among(r, q) == \A i \in 1..Len(r) : \E j \in 1..Len(q) : r[i] = q[j]

(***************************************************************************)
(* Freeing nodes adds none.                                                *)
(***************************************************************************)
LEMMA RemoveAmong ==
  ASSUME NEW q \in Seq(Opera), NEW i \in 1..Len(q)
  PROVE  Among(RemoveAt(q, i), q)
<1>1. /\ Len(RemoveAt(q, i)) = Len(q) - 1 /\ Len(q) \in Nat
      /\ \A k \in 1..(Len(q) - 1) : RemoveAt(q, i)[k] = IF k < i THEN q[k] ELSE q[k + 1]
  BY RemoveAtIs, LenProperties
<1> SUFFICES ASSUME NEW k \in 1..(Len(q) - 1)
             PROVE  \E j \in 1..Len(q) : RemoveAt(q, i)[k] = q[j]
  BY <1>1 DEF Among
<1>2. k \in 1..Len(q) /\ k + 1 \in 1..Len(q)
  BY <1>1
<1> QED
  BY <1>1, <1>2

(***************************************************************************)
(* Neither does what _e_opera_add drops.                                   *)
(***************************************************************************)
LEMMA WithoutAmong ==
  ASSUME NEW q \in Seq(Opera), NEW s, NEW r \in Without(q, Stale(q, s))
  PROVE  Among(r, q)
<1>1. \A i \in Stale(q, s) : i \in 1..Len(q)
  BY LenProperties DEF Stale, OnSector
<1>2. CASE r = q
  BY <1>2 DEF Among
<1>3. CASE \E i \in Stale(q, s) : r = RemoveAt(q, i)
  BY <1>1, <1>3, RemoveAmong
<1>4. CASE \E i, j \in Stale(q, s) : i > j /\ r = RemoveAt(RemoveAt(q, i), j)
  <2>1. PICK i \in Stale(q, s), j \in Stale(q, s) :
          i > j /\ r = RemoveAt(RemoveAt(q, i), j)
    BY <1>4
  <2>2. i \in 1..Len(q) /\ j \in 1..Len(q) /\ Len(q) \in Nat
    BY <1>1, LenProperties
  <2>3. RemoveAt(q, i) \in Seq(Opera) /\ Len(RemoveAt(q, i)) = Len(q) - 1
    BY <2>2, RemoveAtIs
  <2>4. j \in 1..Len(RemoveAt(q, i))
    BY <2>1, <2>2, <2>3
  <2>5. Among(RemoveAt(q, i), q) /\ Among(r, RemoveAt(q, i))
    BY <2>1, <2>2, <2>3, <2>4, RemoveAmong
  <2> QED
    BY <2>5 DEF Among
<1> QED
  BY <1>2, <1>3, <1>4 DEF Without

(***************************************************************************)
(* One list changes, and the chip does not.                                *)
(***************************************************************************)
LEMMA ListWithin ==
  ASSUME TypeOK, NEW G, NEW s \in Sector, Within(s, G), NEW m \in Module, NEW r,
         queue' = [queue EXCEPT ![m] = r], UNCHANGED flash,
         Owner[s] = m => OpsIn(r, s, G)
  PROVE  Within(s, G)'
<1>1. Owner[s] \in Module
  BY OwnerAssumption
<1>2. queue'[Owner[s]] = IF Owner[s] = m THEN r ELSE queue[Owner[s]]
  BY <1>1 DEF TypeOK
<1> QED
  BY <1>2 DEF Within

(***************************************************************************)
(* An erase may come in anywhere.                                          *)
(***************************************************************************)
LEMMA EraseWithin ==
  ASSUME StoreInv, NEW G, Erased \in G, NEW s \in Sector, Within(s, G), NEW z \in Sector,
         EraseAsync(z)
  PROVE  Within(s, G)'
<1> DEFINE m == Owner[z]
           q == queue[m]
<1>1. TypeOK /\ m \in Module /\ q \in Seq(Opera)
  BY OwnerAssumption DEF StoreInv, InFlightInv, TypeOK
<1>2. PICK r \in Without(q, Stale(q, z)) :
        \/ queue' = [queue EXCEPT ![m] = r]
        \/ queue' = [queue EXCEPT ![m] = Append(r, EraseOpera(z))]
  BY DEF EraseAsync
<1>3. r \in Seq(Opera) /\ Among(r, q) /\ UNCHANGED flash
  BY <1>1, WithoutNoLonger, WithoutAmong DEF EraseAsync, UnchangedFlush
<1>4. EraseOpera(z) \in Opera /\ InPages(EraseOpera(z).buff, G)
  BY OperaTypes DEF EraseOpera, InPages, Blank, Uniform
<1> HIDE DEF m
<1>5. ASSUME Owner[s] = m
      PROVE  OpsIn(r, s, G) /\ OpsIn(Append(r, EraseOpera(z)), s, G)
  <2>1. OpsIn(q, s, G)
    BY <1>5 DEF Within
  <2>2. OpsIn(r, s, G)
    BY <1>3, <2>1 DEF OpsIn, Among
  <2>3. /\ Len(Append(r, EraseOpera(z))) = Len(r) + 1 /\ Len(r) \in Nat
        /\ \A i \in 1..Len(r) : Append(r, EraseOpera(z))[i] = r[i]
        /\ Append(r, EraseOpera(z))[Len(r) + 1] = EraseOpera(z)
    BY <1>3, <1>4, AppendProperties, LenProperties
  <2>4. OpsIn(Append(r, EraseOpera(z)), s, G)
    BY <1>4, <2>2, <2>3 DEF OpsIn
  <2> QED
    BY <2>2, <2>4
<1> QED
  BY <1>1, <1>2, <1>3, <1>5, ListWithin

(***************************************************************************)
(* A write brings in what is written.                                      *)
(***************************************************************************)
LEMMA WriteWithin ==
  ASSUME StoreInv, NEW G, {Erased, Garbled} \subseteq G, NEW s \in Sector, Within(s, G),
         NEW z \in Sector, NEW lo \in Page, NEW hi \in Page, NEW b \in Contents,
         z = s => InPages(b, G), WriteAsync(z, lo, hi, b)
  PROVE  Within(s, G)'
<1> DEFINE m == Owner[z]
           q == queue[m]
<1>1. /\ TypeOK /\ m \in Module /\ q \in Seq(Opera) /\ DOMAIN q = 1..Len(q)
      /\ UNCHANGED flash
  BY OwnerAssumption, LenProperties
  DEF StoreInv, InFlightInv, TypeOK, WriteAsync, WriteMerge, WriteAdd, UnchangedFlush
<1>2. CASE WriteMerge(z, lo, hi, b)
  <2>1. PICK i \in DOMAIN q : MergesInto(q, z, i)
                              /\ queue' = [queue EXCEPT ![m][i] = Merged(@, lo, hi, b)]
    BY <1>2 DEF WriteMerge
  <2> DEFINE o == Merged(q[i], lo, hi, b)
  <2>2. q[i] \in Opera /\ q[i].sector = z /\ i \in 1..Len(q)
    BY <1>1, <2>1, ElementOfSeq DEF MergesInto, FoundFirst, OnSector
  <2>3. o.sector = z /\ o.buff = Overlay(q[i].buff, lo, hi, b)
    BY <2>2 DEF Merged, Opera
  <2>4. queue' = [queue EXCEPT ![m] = [q EXCEPT ![i] = o]]
    BY <1>1, <2>1 DEF TypeOK
  <2> HIDE DEF o
  <2>5. /\ Len([q EXCEPT ![i] = o]) = Len(q)
        /\ \A k \in 1..Len(q) : [q EXCEPT ![i] = o][k] = IF k = i THEN o ELSE q[k]
    <3>1. o \in Opera
      BY <2>2, OperaTypes DEF o
    <3> QED
      BY <1>1, <2>2, <3>1, ExceptSeq
  <2> HIDE DEF m
  <2>6. ASSUME Owner[s] = m
        PROVE  OpsIn([q EXCEPT ![i] = o], s, G)
    <3>1. OpsIn(q, s, G)
      BY <2>6 DEF Within
    <3>2. z = s => InPages(o.buff, G)
      BY <2>2, <2>3, <3>1 DEF OpsIn, InPages, Overlay
    <3> QED
      BY <2>3, <2>5, <3>1, <3>2 DEF OpsIn
  <2> QED
    BY <1>1, <2>4, <2>6, ListWithin
<1>3. CASE WriteAdd(z, lo, hi, b)
  <2> DEFINE base == IF BehindErase(q, z) THEN Blank ELSE Raw(z)
             o == WriteOpera(z, base, lo, hi, b)
  <2>1. queue' = [queue EXCEPT ![m] = Append(q, o)]
    BY <1>3 DEF WriteAdd
  <2>2. base \in Contents
    BY <1>1, RawType, UniformType
  <2>3. o \in Opera /\ o.sector = z /\ o.buff = Overlay(base, lo, hi, b)
    BY <2>2, OperaTypes DEF WriteOpera
  <2>4. z = s => InPages(base, G)
    BY DEF Within, InPages, Raw, Blank, Uniform
  <2> HIDE DEF base
  <2>5. z = s => InPages(o.buff, G)
    BY <2>3, <2>4 DEF InPages, Overlay
  <2> HIDE DEF o
  <2>6. /\ Len(Append(q, o)) = Len(q) + 1 /\ Len(q) \in Nat
        /\ \A k \in 1..Len(q) : Append(q, o)[k] = q[k]
        /\ Append(q, o)[Len(q) + 1] = o
    BY <1>1, <2>3, AppendProperties, LenProperties
  <2> HIDE DEF m
  <2>7. ASSUME Owner[s] = m
        PROVE  OpsIn(Append(q, o), s, G)
    <3>1. OpsIn(q, s, G)
      BY <2>7 DEF Within
    <3> QED
      BY <2>3, <2>5, <2>6, <3>1 DEF OpsIn
  <2> QED
    BY <1>1, <2>1, <2>7, ListWithin
<1> QED
  BY <1>2, <1>3 DEF WriteAsync

(***************************************************************************)
(* The chip moves a buffer into its sector, or a part of it.               *)
(***************************************************************************)
LEMMA ChipWithin ==
  ASSUME StoreInv, NEW G, {Erased, Garbled} \subseteq G, NEW s \in Sector, Within(s, G),
         NEW m \in Module, HasWork(m), Complete(m) \/ Suspend(m)
  PROVE  Within(s, G)'
<1> DEFINE q == queue[m]
           o == q[1]
           z == o.sector
<1>1. /\ q \in Seq(Opera) /\ q # <<>> /\ 1 \in 1..Len(q) /\ Len(q) \in Nat /\ Head(q) = o
      /\ o \in Opera /\ z \in Sector /\ Owner[z] = m /\ TypeOK
  BY HeadIs DEF StoreInv, InFlightInv
<1>2. z = s => InPages(o.buff, G) /\ InPages(flash[s], G)
  BY <1>1 DEF Within, OpsIn
<1>3. Owner[s] = m => OpsIn(q, s, G)
  BY DEF Within
<1>4. InPages(flash'[s], G)
  <2>1. CASE z # s
    <3>1. flash'[s] = flash[s]
      BY <1>1, <2>1 DEF Complete, Suspend, TypeOK
    <3> QED
      BY <3>1 DEF Within
  <2>2. CASE z = s
    <3>1. \A lo, hi : InPages(ProgramPages(flash[s], lo, hi, o.buff), G)
      BY <1>2, <2>2, ProgramIn
    <3>2. InPages(Blank, G)
      BY DEF InPages, Blank, Uniform
    <3>3. \/ flash'[s] \in {flash[s], Blank}
          \/ \E lo, hi : flash'[s] = ProgramPages(flash[s], lo, hi, o.buff)
      BY <1>1, <2>2 DEF Complete, Suspend, TypeOK, Effect
    <3> QED
      BY <1>2, <2>2, <3>1, <3>2, <3>3
  <2> QED
    BY <2>1, <2>2
<1>5. \E r : queue' = [queue EXCEPT ![m] = r] /\ (Owner[s] = m => OpsIn(r, s, G))
  <2>1. CASE Complete(m)
    <3>1. /\ Len(Tail(q)) = Len(q) - 1
          /\ \A k \in 1..Len(Tail(q)) : Tail(q)[k] = q[k + 1]
      BY <1>1, HeadTailProperties
    <3>2. \A k \in 1..Len(Tail(q)) : k + 1 \in 1..Len(q)
      BY <1>1, <3>1
    <3>3. Owner[s] = m => OpsIn(Tail(q), s, G)
      BY <1>3, <3>1, <3>2 DEF OpsIn
    <3> QED
      BY <2>1, <3>3 DEF Complete
  <2>2. CASE Suspend(m)
    <3> DEFINE l == [o EXCEPT !.lock = TRUE]
    <3>1. queue' = [queue EXCEPT ![m] = [q EXCEPT ![1] = l]]
      BY <1>1, <2>2 DEF Suspend, TypeOK
    <3>2. l \in Opera /\ l.sector = z /\ l.buff = o.buff
      BY <1>1 DEF Opera
    <3> HIDE DEF l
    <3>3. /\ Len([q EXCEPT ![1] = l]) = Len(q)
          /\ \A k \in 1..Len(q) : [q EXCEPT ![1] = l][k] = IF k = 1 THEN l ELSE q[k]
      BY <1>1, <3>2, ExceptSeq
    <3>4. Owner[s] = m => OpsIn([q EXCEPT ![1] = l], s, G)
      BY <1>2, <1>3, <3>2, <3>3 DEF OpsIn
    <3> QED
      BY <3>1, <3>4
  <2> QED
    BY <2>1, <2>2
<1>6. OpsIn(queue'[Owner[s]], s, G)
  <2>1. Owner[s] \in Module
    BY OwnerAssumption
  <2>2. PICK r : queue' = [queue EXCEPT ![m] = r] /\ (Owner[s] = m => OpsIn(r, s, G))
    BY <1>5
  <2>3. queue'[Owner[s]] = IF Owner[s] = m THEN r ELSE queue[Owner[s]]
    BY <1>1, <2>1, <2>2 DEF TypeOK
  <2> QED
    BY <2>2, <2>3 DEF Within
<1> QED
  BY <1>4, <1>6 DEF Within

(***************************************************************************)
(* So whatever a flush does, nothing new comes in.                         *)
(***************************************************************************)
LEMMA FlushWithin ==
  ASSUME StoreInv, NEW G, {Erased, Garbled} \subseteq G, NEW s \in Sector, Within(s, G),
         FlushOnce \/ FlushDisable \/ FlushEnable \/ CpReady
  PROVE  Within(s, G)'
<1>1. ASSUME UNCHANGED <<flash, queue>>
      PROVE  Within(s, G)'
  BY <1>1 DEF Within
<1>2. ASSUME NEW m \in Module, FlushSuspended(m) \/ FlushCompleted(m)
      PROVE  Within(s, G)'
  BY <1>2, ChipWithin DEF FlushSuspended, FlushCompleted
<1> QED
  BY <1>1, <1>2
  DEF FlushOnce, Flush, FlushModuleDone, FlushNothing, FlushDisable, FlushEnable, CpReady,
      UnchangedButGate, vars

(***************************************************************************)
(* A power loss may spoil a sector, but invents nothing.                   *)
(***************************************************************************)
LEMMA RestartWithin ==
  ASSUME StoreInv, NEW G, {Erased, Garbled} \subseteq G, NEW s \in Sector, Within(s, G),
         call = NoCall, PowerLoss
  PROVE  Within(s, G)'
<1>1. queue'[Owner[s]] = <<>> /\ Len(queue'[Owner[s]]) = 0
  BY OwnerAssumption, EmptySeq DEF PowerLoss
<1>2. OpsIn(queue'[Owner[s]], s, G)
  BY <1>1 DEF OpsIn
<1>3. ASSUME NEW m \in Module, OnChip(m), flash' \in TornHead(m)
      PROVE  InPages(flash'[s], G)
  <2> DEFINE q == queue[m]
             o == Head(q)
             z == o.sector
  <2>1. HasWork(m)
    BY <1>3 DEF OnChip
  <2>2. /\ 1 \in 1..Len(q) /\ o = q[1] /\ z \in Sector /\ Owner[z] = m /\ TypeOK
    BY <2>1, HeadIs DEF StoreInv, InFlightInv
  <2>3. z = s => InPages(o.buff, G) /\ InPages(flash[s], G)
    BY <2>2 DEF Within, OpsIn
  <2>4. PICK first : flash' \in Torn(o.type, z, first, o.hi, o.buff)
    BY <1>3 DEF TornHead
  <2> HIDE DEF o
  <2>5. CASE z # s
    <3>1. flash'[s] = flash[s]
      BY <2>2, <2>4, <2>5, TornSector
    <3> QED
      BY <3>1 DEF Within
  <2>6. CASE z = s
    <3>1. \A lo, hi : InPages(ProgramPages(flash[s], lo, hi, o.buff), G)
      BY <2>3, <2>6, ProgramIn
    <3>2. \/ flash'[s] = Uniform(Garbled)
          \/ \E p \in first..o.hi :
               flash'[s] = [ProgramPages(flash[s], first, p - 1, o.buff) EXCEPT ![p] = Garbled]
      BY <2>2, <2>4, <2>6 DEF Torn, TypeOK
    <3>3. InPages(Uniform(Garbled), G)
      BY DEF InPages, Uniform
    <3>4. CASE flash'[s] = Uniform(Garbled)
      BY <3>3, <3>4
    <3>5. ASSUME NEW p \in first..o.hi,
                 flash'[s]
                   = [ProgramPages(flash[s], first, p - 1, o.buff) EXCEPT ![p] = Garbled]
          PROVE  InPages(flash'[s], G)
      <4> DEFINE c == ProgramPages(flash[s], first, p - 1, o.buff)
      <4>1. DOMAIN c = Page
        BY DEF ProgramPages
      <4>2. InPages(c, G)
        BY <3>1
      <4> HIDE DEF c
      <4> QED
        BY <3>5, <4>1, <4>2 DEF InPages, c
    <3> QED
      BY <3>2, <3>4, <3>5
  <2> QED
    BY <2>5, <2>6
<1>4. InPages(flash'[s], G)
  BY <1>3 DEF PowerLoss, CallOnChip, Within
<1> QED
  BY <1>2, <1>4 DEF Within

-----------------------------------------------------------------------------
(***************************************************************************)
(* One thread flushes, and this is where it is.                            *)
(***************************************************************************)
OneThread == \E t : Thread = {t}

at == pc[FirstThread]

Step == {"start", "erase", "eraseFull", "noteErased", "erased", "write", "writeFull",
         "noteWritten", "wait", "count"}

WRITTEN(c) == <<c, "WRITTEN">>

(***************************************************************************)
(* The states nv_flsh_state may be in when the thread is at this step.     *)
(***************************************************************************)
Here(c, step) ==
  CASE step = "start" -> EraseDue(c) \cup WriteDue(c) \cup {WRITTEN(c)}
    [] step \in {"erase", "eraseFull", "noteErased"} -> EraseDue(c)
    [] step = "erased" -> WriteDue(c) \cup {WRITTEN(c)}
    [] step \in {"write", "writeFull", "noteWritten"} ->
         IF c = "MAIN" THEN WriteDue(c) ELSE {<<c, "WRITTING">>}
    [] step \in {"wait", "count"} -> {WRITTEN(c)}

PlaceOK ==
  /\ at \in {Resting, Booting, Looping} \cup (Copy \X Step)
  /\ at = Booting => nvState = IDLE
  /\ \A c \in Copy, step \in Step : at = At(c, step) => nvState \in Here(c, step)
  /\ nvState # <<"BAK", "DONE">>
  /\ nvState = <<"BAK", "WRITTING">> => size < PageCount

(***************************************************************************)
(* How far the flush got on the flash, which the thread notes after it     *)
(* unlocked the interrupts, and how many pages the backup has.             *)
(***************************************************************************)
Reached ==
  IF at \in {At(c, "noteErased") : c \in Copy} THEN <<at[1], "ERASED">>
  ELSE IF at = At("MAIN", "noteWritten") THEN WRITTEN("MAIN")
  ELSE nvState

Pages ==
  IF Reached = <<"BAK", "ERASED">> THEN 0
  ELSE IF at = At("BAK", "noteWritten") THEN size + 1 ELSE size

(***************************************************************************)
(* While the main sector is worked on the backup is on the chip, if a      *)
(* flush ever finished; from then on the main sector is, and the backup    *)
(* has its first k pages.                                                  *)
(***************************************************************************)
BakSafe == ~Busy(Bak) /\ (floor > 0 => IsValid(View(Bak)))

MainHolds(v) == v <= ram /\ View(Main) = Uniform(v)

Copied(v, k) == \A p \in Page : View(Bak)[p] \in IF p < k THEN {v} ELSE {v, Erased}

Progressed(r, k) ==
  /\ r \in EraseDue("MAIN") => BakSafe /\ ~Busy(Main)
  /\ r \in WriteDue("MAIN") => BakSafe /\ View(Main) = Blank
  /\ r = WRITTEN("MAIN") => BakSafe /\ \E v \in Data : MainHolds(v)
  /\ r \in EraseDue("BAK") => ~Busy(Main) /\ ~Busy(Bak) /\ \E v \in Data : MainHolds(v)
  /\ r \in WriteDue("BAK") => ~Busy(Main) /\ \E v \in Data : MainHolds(v) /\ Copied(v, k)
  /\ r = WRITTEN("BAK")
       => ~Busy(Main) /\ \E v \in Data : MainHolds(v) /\ View(Bak) = Uniform(v)

Loadable ==
  IF at = Booting
  THEN /\ ~Busy(Main) /\ ~Busy(Bak)
       /\ floor > 0 => IsValid(View(Main)) \/ IsValid(View(Bak))
  ELSE /\ ram \in Data /\ floor <= ram
       /\ \E r \in NvState, k \in Nat : r = Reached /\ k = Pages /\ Progressed(r, k)

(***************************************************************************)
(* Nothing older than the last finished flush is left in the two sectors,  *)
(* on the chip or on its way there.                                        *)
(***************************************************************************)
Fresh(f) == {Erased, Garbled} \cup {v \in Data : v >= f}

NoOlder(f) == \A s \in {Main, Bak} : Within(s, Fresh(f))

NvInv ==
  /\ StoreInv /\ call = NoCall
  /\ NvTypeOK /\ PlaceOK
  /\ Loadable /\ NoOlder(floor)

-----------------------------------------------------------------------------
(***************************************************************************)
(* What the rest of the system does to the two sectors: nothing that can   *)
(* be read, and no work is added.                                          *)
(***************************************************************************)
Untouched(s) == View(s)' = View(s) /\ (Busy(s)' => Busy(s))

Calm == Untouched(Main) /\ Untouched(Bak)

(***************************************************************************)
(* A sector has work while it is dirty.                                    *)
(***************************************************************************)
LEMMA BusyIs ==
  ASSUME NEW s \in Sector
  PROVE  /\ call = NoCall => (Busy(s) <=> s \in Dirty)
         /\ call' = NoCall => (Busy(s)' <=> s \in Dirty')
BY DEF Busy, Dirty

(***************************************************************************)
(* It flushes, opens and closes the gate.                                  *)
(***************************************************************************)
LEMMA FlushCalm ==
  ASSUME OneBuffer, StoreInv, call = NoCall,
         FlushOnce \/ FlushDisable \/ FlushEnable \/ CpReady \/ UNCHANGED vars
  PROVE  StoreInv' /\ call' = NoCall /\ Calm
<1>1. StoreInv' /\ call' = NoCall /\ Image' = Image /\ Dirty' \subseteq Dirty
  BY FlushViews, GateViews
<1>2. Main \in Sector /\ Bak \in Sector
  BY NvAssumption
<1>3. \A s \in Sector : View(s)' = View(s)
  BY <1>1 DEF Image
<1> QED
  BY <1>1, <1>2, <1>3, BusyIs DEF Calm, Untouched

(***************************************************************************)
(* It erases and writes other sectors.                                     *)
(***************************************************************************)
LEMMA OtherCalm ==
  ASSUME OneBuffer, StoreInv, call = NoCall, NEW s \in Sector \ {Main, Bak},
         EraseAsync(s) \/ (Writable(s, 0, 0, 1) /\ WriteAsync(s, 0, 0, Uniform(1)))
  PROVE  StoreInv' /\ call' = NoCall /\ Calm
<1>1. 0 \in Page /\ 1 \in Data
  BY CountsAssumption, NvAssumption DEF Page
<1>2. /\ StoreInv' /\ call' = NoCall /\ Dirty' = Dirty \cup {s}
      /\ \E c : Image' = [Image EXCEPT ![s] = c]
  BY <1>1, EraseViews, WriteViews
<1>3. Main \in Sector /\ Bak \in Sector
  BY NvAssumption
<1>4. \A z \in {Main, Bak} : View(z)' = View(z)
  <2>1. \A z \in {Main, Bak} : Image'[z] = Image[z]
    BY <1>2
  <2> QED
    BY <1>3, <2>1 DEF Image
<1> QED
  BY <1>2, <1>3, <1>4, BusyIs DEF Calm, Untouched

(***************************************************************************)
(* None of it brings anything older into the two sectors.                  *)
(***************************************************************************)
LEMMA CalmNoOlder ==
  ASSUME StoreInv, NEW f, NoOlder(f),
         \/ FlushOnce \/ FlushDisable \/ FlushEnable \/ CpReady \/ UNCHANGED vars
         \/ \E s \in Sector \ {Main, Bak} :
               EraseAsync(s) \/ WriteAsync(s, 0, 0, Uniform(1))
  PROVE  NoOlder(f)'
<1> SUFFICES ASSUME NEW s \in {Main, Bak}
             PROVE  Within(s, Fresh(f))'
  BY DEF NoOlder, Fresh
<1> DEFINE G == Fresh(f)
<1>1. {Erased, Garbled} \subseteq G /\ s \in Sector /\ Within(s, G)
  BY NvAssumption DEF NoOlder, Fresh
<1>2. 0 \in Page /\ Uniform(1) \in Contents
  BY CountsAssumption, NvAssumption, UniformType DEF Page
<1> HIDE DEF G
<1>3. CASE FlushOnce \/ FlushDisable \/ FlushEnable \/ CpReady
  <2>1. Within(s, G)'
    BY <1>1, <1>3, FlushWithin
  <2> QED
    BY <2>1 DEF G
<1>4. ASSUME NEW z \in Sector \ {Main, Bak},
             EraseAsync(z) \/ WriteAsync(z, 0, 0, Uniform(1))
      PROVE  Within(s, G)'
  BY <1>1, <1>2, <1>4, EraseWithin, WriteWithin
<1>5. CASE UNCHANGED vars
  <2>1. Within(s, G)'
    BY <1>1, <1>5 DEF Within, vars
  <2> QED
    BY <2>1 DEF G
<1> QED
  BY <1>3, <1>4, <1>5 DEF G

(***************************************************************************)
(* The flush erases one of the two sectors.                                *)
(***************************************************************************)
LEMMA OwnErase ==
  ASSUME OneBuffer, StoreInv, call = NoCall, NEW s \in {Main, Bak}, EraseAsync(s)
  PROVE  /\ StoreInv' /\ call' = NoCall
         /\ View(s)' = Blank /\ \A z \in {Main, Bak} \ {s} : Untouched(z)
         /\ \A f : NoOlder(f) => NoOlder(f)'
<1>1. {Main, Bak} \subseteq Sector
  BY NvAssumption
<1>2. /\ StoreInv' /\ call' = NoCall /\ Dirty' = Dirty \cup {s}
      /\ Image' = [Image EXCEPT ![s] = Blank]
  BY <1>1, EraseViews
<1>3. \A z \in {Main, Bak} : View(z)' = IF z = s THEN Blank ELSE View(z)
  <2>1. \A z \in {Main, Bak} : Image'[z] = IF z = s THEN Blank ELSE Image[z]
    BY <1>1, <1>2 DEF Image
  <2> QED
    BY <1>1, <2>1 DEF Image
<1>4. \A z \in {Main, Bak} \ {s} : Untouched(z)
  BY <1>1, <1>2, <1>3, BusyIs DEF Untouched
<1>5. ASSUME NEW f, NoOlder(f)
      PROVE  NoOlder(f)'
  <2> SUFFICES ASSUME NEW z \in {Main, Bak}
               PROVE  Within(z, Fresh(f))'
    BY DEF NoOlder, Fresh
  <2> DEFINE G == Fresh(f)
  <2>1. Erased \in G /\ Within(z, G)
    BY <1>5 DEF NoOlder, Fresh
  <2> HIDE DEF G
  <2>2. Within(z, G)'
    BY <1>1, <2>1, EraseWithin
  <2> QED
    BY <2>2 DEF G
<1> QED
  BY <1>2, <1>3, <1>4, <1>5

(***************************************************************************)
(* The flush writes one of the two sectors.                                *)
(***************************************************************************)
LEMMA OwnWrite ==
  ASSUME OneBuffer, StoreInv, call = NoCall, NEW s \in {Main, Bak}, NEW lo \in Page,
         NEW hi \in Page, NEW d \in Data, Writable(s, lo, hi, d),
         WriteAsync(s, lo, hi, Uniform(d))
  PROVE  /\ StoreInv' /\ call' = NoCall
         /\ View(s)' = Overlay(View(s), lo, hi, Uniform(d))
         /\ \A z \in {Main, Bak} \ {s} : Untouched(z)
         /\ \A f : NoOlder(f) /\ f <= d => NoOlder(f)'
<1>1. {Main, Bak} \subseteq Sector /\ Data \subseteq Nat
  BY NvAssumption
<1>2. /\ StoreInv' /\ call' = NoCall /\ Dirty' = Dirty \cup {s}
      /\ Image' = [Image EXCEPT ![s] = Overlay(@, lo, hi, Uniform(d))]
  BY <1>1, WriteViews
<1>3. \A z \in {Main, Bak} :
        View(z)' = IF z = s THEN Overlay(View(s), lo, hi, Uniform(d)) ELSE View(z)
  <2>1. \A z \in {Main, Bak} :
          Image'[z] = IF z = s THEN Overlay(Image[s], lo, hi, Uniform(d)) ELSE Image[z]
    BY <1>1, <1>2 DEF Image
  <2> QED
    BY <1>1, <2>1 DEF Image
<1>4. \A z \in {Main, Bak} \ {s} : Untouched(z)
  BY <1>1, <1>2, <1>3, BusyIs DEF Untouched
<1>5. ASSUME NEW f, NoOlder(f), f <= d
      PROVE  NoOlder(f)'
  <2> SUFFICES ASSUME NEW z \in {Main, Bak}
               PROVE  Within(z, Fresh(f))'
    BY DEF NoOlder, Fresh
  <2> DEFINE G == Fresh(f)
  <2>1. {Erased, Garbled} \subseteq G /\ Within(z, G)
    BY <1>5 DEF NoOlder, Fresh
  <2>2. d \in G
    BY <1>5 DEF Fresh
  <2>3. InPages(Uniform(d), G) /\ Uniform(d) \in Contents
    BY <2>2, UniformType DEF InPages, Uniform
  <2> HIDE DEF G
  <2>4. Within(z, G)'
    BY <1>1, <2>1, <2>3, WriteWithin
  <2> QED
    BY <2>4 DEF G
<1> QED
  BY <1>2, <1>3, <1>4, <1>5

-----------------------------------------------------------------------------
(***************************************************************************)
(* How the flush makes progress.  The names of its states tell them apart. *)
(***************************************************************************)
LEMMA PhasesDiffer ==
  /\ EraseDue("MAIN") = {IDLE, <<"MAIN", "ERASING">>}
  /\ EraseDue("BAK") = {<<"MAIN", "DONE">>, <<"BAK", "ERASING">>}
  /\ WriteDue("MAIN") = {<<"MAIN", "ERASED">>, <<"MAIN", "WRITTING">>}
  /\ WriteDue("BAK") = {<<"BAK", "ERASED">>, <<"BAK", "WRITTING">>}
  /\ MainBusy = {<<"MAIN", "ERASING">>} \cup WriteDue("MAIN") \cup {WRITTEN("MAIN")}
  /\ BakBusy = EraseDue("BAK") \cup WriteDue("BAK") \cup {WRITTEN("BAK"), <<"BAK", "DONE">>}
  /\ NvState = EraseDue("MAIN") \cup WriteDue("MAIN") \cup {WRITTEN("MAIN")}
                 \cup EraseDue("BAK") \cup WriteDue("BAK")
                 \cup {WRITTEN("BAK"), <<"BAK", "DONE">>}
BY DEF EraseDue, WriteDue, MainBusy, BakBusy, NvState, WRITTEN, IDLE, Copy, Phase

(***************************************************************************)
(* What changes nothing on the two sectors loses no progress; the mirror   *)
(* only gets newer.                                                        *)
(***************************************************************************)
LEMMA CalmProgress ==
  ASSUME NEW r, NEW k, Progressed(r, k), Calm, UNCHANGED floor,
         ram \in Nat, ram' \in Nat, ram <= ram'
  PROVE  Progressed(r, k)'
<1>1. \A v \in Data : MainHolds(v) => MainHolds(v)'
  BY NvAssumption DEF MainHolds, Calm, Untouched
<1>2. BakSafe => BakSafe'
  BY DEF BakSafe, Calm, Untouched
<1>3. \A v \in Data : Copied(v, k) => Copied(v, k)'
  BY DEF Copied, Calm, Untouched
<1> HIDE DEF MainHolds, BakSafe, Copied
<1> QED
  BY <1>1, <1>2, <1>3 DEF Progressed, Calm, Untouched

(***************************************************************************)
(* A version tells its sector from another's, and from an erased one.      *)
(***************************************************************************)
LEMMA UniformDiffer ==
  /\ \A v, w : Uniform(v) = Uniform(w) => v = w
  /\ \A v \in Data : Uniform(v) # Blank /\ VersionOf(Uniform(v)) = v /\ IsValid(Uniform(v))
<1>1. 0 \in Page
  BY CountsAssumption DEF Page
<1>2. \A v, w : Uniform(v) = Uniform(w) => v = w
  <2> SUFFICES ASSUME NEW v, NEW w, Uniform(v) = Uniform(w)
               PROVE  v = w
    OBVIOUS
  <2>1. Uniform(v)[0] = v /\ Uniform(w)[0] = w
    BY <1>1 DEF Uniform
  <2> QED
    BY <2>1
<1>3. \A v \in Data : Uniform(v) # Blank
  BY <1>2, ValueAssumption DEF Blank
<1>4. \A v \in Data : VersionOf(Uniform(v)) = v
  BY <1>2 DEF VersionOf
<1> QED
  BY <1>2, <1>3, <1>4 DEF IsValid

(***************************************************************************)
(* The main sector is erased, and written; the backup is as it was.        *)
(***************************************************************************)
LEMMA MainErased ==
  ASSUME NEW r \in EraseDue("MAIN"), NEW k, NEW l, Progressed(r, k), UNCHANGED floor,
         View(Main)' = Blank, Untouched(Bak)
  PROVE  Progressed(<<"MAIN", "ERASED">>, l)'
BY PhasesDiffer DEF Progressed, BakSafe, Untouched, WRITTEN, IDLE

LEMMA MainWritten ==
  ASSUME NEW r \in WriteDue("MAIN"), NEW k, NEW l, Progressed(r, k), UNCHANGED <<floor, ram>>,
         ram \in Data, View(Main)' = Uniform(ram), Untouched(Bak)
  PROVE  Progressed(WRITTEN("MAIN"), l)'
<1>1. BakSafe'
  BY DEF Progressed, BakSafe, Untouched
<1>2. \E v \in Data : MainHolds(v)'
  <2>1. PICK v \in Data : v = ram
    OBVIOUS
  <2>2. v <= ram' /\ View(Main)' = Uniform(v)
    BY <2>1, NvAssumption
  <2> QED
    BY <2>2 DEF MainHolds
<1> HIDE DEF BakSafe, MainHolds
<1> QED
  BY <1>1, <1>2, PhasesDiffer DEF Progressed, WRITTEN, IDLE

(***************************************************************************)
(* When nothing waits any more the main sector is on the chip.             *)
(***************************************************************************)
LEMMA MainDone ==
  ASSUME NEW k, NEW l, Progressed(WRITTEN("MAIN"), k), UNCHANGED <<floor, ram>>, Calm,
         ~Busy(Main), ~Busy(Bak)
  PROVE  Progressed(<<"MAIN", "DONE">>, l)'
<1>1. \E v \in Data : MainHolds(v)'
  BY DEF Progressed, MainHolds, Calm, Untouched
<1>2. ~Busy(Main)' /\ ~Busy(Bak)'
  BY DEF Calm, Untouched
<1> HIDE DEF MainHolds
<1> QED
  BY <1>1, <1>2, PhasesDiffer DEF Progressed, WRITTEN, IDLE

(***************************************************************************)
(* Then the backup is erased.                                              *)
(***************************************************************************)
LEMMA BakErased ==
  ASSUME NEW r \in EraseDue("BAK"), NEW k, Progressed(r, k), UNCHANGED <<floor, ram>>,
         View(Bak)' = Blank, Untouched(Main)
  PROVE  Progressed(<<"BAK", "ERASED">>, 0)'
<1>1. PICK v \in Data : MainHolds(v) /\ ~Busy(Main)
  BY DEF Progressed
<1>2. MainHolds(v)' /\ ~Busy(Main)'
  BY <1>1 DEF MainHolds, Untouched
<1>3. Copied(v, 0)'
  BY DEF Copied, Page, Blank, Uniform
<1> HIDE DEF MainHolds, Copied
<1> QED
  BY <1>2, <1>3, PhasesDiffer DEF Progressed, WRITTEN, IDLE

(***************************************************************************)
(* The pages lo..hi of the main sector go into the backup.                 *)
(***************************************************************************)
LEMMA BakWritten ==
  ASSUME NEW k \in Nat, NEW hi \in Page, k <= hi, NEW v \in Data, MainHolds(v), Copied(v, k),
         ~Busy(Main), UNCHANGED <<floor, ram>>,
         View(Bak)' = Overlay(View(Bak), k, hi, Uniform(v)), Untouched(Main)
  PROVE  /\ Progressed(<<"BAK", "WRITTING">>, hi + 1)'
         /\ hi = PageCount - 1 => Progressed(WRITTEN("BAK"), hi + 1)'
<1>1. MainHolds(v)' /\ ~Busy(Main)'
  BY DEF MainHolds, Untouched
<1>2. Copied(v, hi + 1)'
  BY CountsAssumption DEF Copied, Overlay, Uniform, Page
<1>3. hi = PageCount - 1 => View(Bak)' = Uniform(v)
  BY CountsAssumption DEF Copied, Overlay, Uniform, Page
<1> HIDE DEF MainHolds, Copied
<1>4. Progressed(<<"BAK", "WRITTING">>, hi + 1)'
  BY <1>1, <1>2, PhasesDiffer DEF Progressed, WRITTEN, IDLE
<1>5. ASSUME hi = PageCount - 1
      PROVE  Progressed(WRITTEN("BAK"), hi + 1)'
  BY <1>1, <1>3, <1>5, PhasesDiffer DEF Progressed, WRITTEN, IDLE
<1> QED
  BY <1>4, <1>5

(***************************************************************************)
(* The copy may start over, and is over when all pages are written.        *)
(***************************************************************************)
LEMMA BakAgain ==
  ASSUME NEW r \in WriteDue("BAK"), NEW k, Progressed(r, k)
  PROVE  Progressed(<<"BAK", "WRITTING">>, 0)
<1>1. PICK v \in Data : MainHolds(v) /\ ~Busy(Main) /\ Copied(v, k)
  BY DEF Progressed
<1>2. Copied(v, 0)
  BY <1>1 DEF Copied, Page
<1> HIDE DEF MainHolds, Copied
<1> QED
  BY <1>1, <1>2, PhasesDiffer DEF Progressed, WRITTEN, IDLE

LEMMA BakWhole ==
  ASSUME Progressed(<<"BAK", "WRITTING">>, PageCount), View(Bak) \in Contents, NEW l
  PROVE  Progressed(WRITTEN("BAK"), l)
<1>1. PICK v \in Data : MainHolds(v) /\ ~Busy(Main) /\ Copied(v, PageCount)
  BY PhasesDiffer DEF Progressed
<1>2. View(Bak) = Uniform(v)
  BY <1>1, CountsAssumption DEF Copied, Page, Uniform, Contents
<1> HIDE DEF MainHolds, Copied
<1> QED
  BY <1>1, <1>2, PhasesDiffer DEF Progressed, WRITTEN, IDLE

-----------------------------------------------------------------------------
(***************************************************************************)
(* The steps.  There is one thread to take them.                           *)
(***************************************************************************)
LEMMA AtIs ==
  ASSUME OneThread, NvTypeOK, NEW t \in Thread
  PROVE  /\ t = FirstThread /\ pc[t] = at
         /\ Booted <=> at # Booting
         /\ (\A u \in Thread : pc[u] = Resting) <=> at = Resting
         /\ \A x : pc' = [pc EXCEPT ![t] = x] => at' = x /\ DOMAIN pc' = Thread
<1>1. Thread = {t}
  BY DEF OneThread
<1>2. FirstThread = t
  BY <1>1 DEF FirstThread
<1> QED
  BY <1>1, <1>2 DEF at, Booted, NvTypeOK

(***************************************************************************)
(* The steps of a flush are not the other places of the thread.            *)
(***************************************************************************)
LEMMA PlacesDiffer ==
  /\ \A step : \A c \in Copy : At(c, step) \notin {Resting, Booting, Looping}
  /\ \A c, d, x, y : At(c, x) = At(d, y) <=> c = d /\ x = y
  /\ Resting # Booting /\ Looping # Booting /\ Resting # Looping
BY DEF At, Resting, Booting, Looping, Copy

(***************************************************************************)
(* What Here says of each step.                                            *)
(***************************************************************************)
LEMMA HereIs ==
  ASSUME NEW c \in Copy
  PROVE  /\ Here(c, "start") = EraseDue(c) \cup WriteDue(c) \cup {WRITTEN(c)}
         /\ Here(c, "erase") = EraseDue(c)
         /\ Here(c, "eraseFull") = EraseDue(c)
         /\ Here(c, "noteErased") = EraseDue(c)
         /\ Here(c, "erased") = WriteDue(c) \cup {WRITTEN(c)}
         /\ Here(c, "write") = IF c = "MAIN" THEN WriteDue(c) ELSE {<<c, "WRITTING">>}
         /\ Here(c, "writeFull") = IF c = "MAIN" THEN WriteDue(c) ELSE {<<c, "WRITTING">>}
         /\ Here(c, "noteWritten") = IF c = "MAIN" THEN WriteDue(c) ELSE {<<c, "WRITTING">>}
         /\ Here(c, "wait") = {WRITTEN(c)}
         /\ Here(c, "count") = {WRITTEN(c)}
<1> USE DEF Here
<1>1. Here(c, "start") = EraseDue(c) \cup WriteDue(c) \cup {WRITTEN(c)}
  OBVIOUS
<1>2. \A x \in {"erase", "eraseFull", "noteErased"} : Here(c, x) = EraseDue(c)
  OBVIOUS
<1>3. Here(c, "erased") = WriteDue(c) \cup {WRITTEN(c)}
  OBVIOUS
<1>4. \A x \in {"write", "writeFull", "noteWritten"} :
        Here(c, x) = IF c = "MAIN" THEN WriteDue(c) ELSE {<<c, "WRITTING">>}
  OBVIOUS
<1>5. \A x \in {"wait", "count"} : Here(c, x) = {WRITTEN(c)}
  OBVIOUS
<1> QED
  BY <1>1, <1>2, <1>3, <1>4, <1>5

(***************************************************************************)
(* The thread is at a step of a flush.                                     *)
(***************************************************************************)
LEMMA StepPlace ==
  ASSUME NEW c \in Copy, NEW step \in Step, at' = At(c, step), nvState' \in Here(c, step),
         nvState' # <<"BAK", "DONE">>,
         nvState' = <<"BAK", "WRITTING">> => size' < PageCount
  PROVE  PlaceOK' /\ at' # Booting
<1>1. at' \in Copy \X Step /\ at' # Booting
  BY PlacesDiffer DEF At
<1>2. ASSUME NEW d \in Copy, NEW x \in Step, at' = At(d, x)
      PROVE  nvState' \in Here(d, x)
  <2>1. At(c, step) = At(d, x)
    BY <1>2
  <2>2. c = d /\ step = x
    BY <2>1, PlacesDiffer
  <2> QED
    BY <2>2
<1> QED
  BY <1>1, <1>2 DEF PlaceOK, Here, EraseDue, WriteDue, WRITTEN

(***************************************************************************)
(* The thread rests or is between two flushes.                             *)
(***************************************************************************)
LEMMA RestPlace ==
  ASSUME at' \in {Resting, Looping}, nvState' # <<"BAK", "DONE">>,
         nvState' = <<"BAK", "WRITTING">> => size' < PageCount
  PROVE  PlaceOK' /\ at' # Booting
<1>1. at' # Booting /\ \A d \in Copy, x \in Step : at' # At(d, x)
  BY PlacesDiffer
<1> QED
  BY <1>1 DEF PlaceOK

(***************************************************************************)
(* What was reached, by place.                                             *)
(***************************************************************************)
Noting == {"noteErased", "noteWritten"}

ReachedAre ==
  /\ \A c \in Copy :
       at = At(c, "noteErased")
         => Reached = <<c, "ERASED">> /\ Pages = IF c = "BAK" THEN 0 ELSE size
  /\ at = At("MAIN", "noteWritten") => Reached = WRITTEN("MAIN") /\ Pages = size
  /\ at = At("BAK", "noteWritten") /\ nvState = <<"BAK", "WRITTING">>
       => Reached = nvState /\ Pages = size + 1
  /\ at \in {Resting, Booting, Looping} \cup {At(c, x) : c \in Copy, x \in Step \ Noting}
       => Reached = nvState /\ Pages = IF nvState = <<"BAK", "ERASED">> THEN 0 ELSE size

LEMMA ReachedIs == ReachedAre
<1>1. \A c \in Copy :
        at = At(c, "noteErased")
          => Reached = <<c, "ERASED">> /\ Pages = IF c = "BAK" THEN 0 ELSE size
  BY DEF Reached, Pages, At, Copy
<1>2. at = At("MAIN", "noteWritten") => Reached = WRITTEN("MAIN") /\ Pages = size
  BY DEF Reached, Pages, At, Copy, WRITTEN
<1>3. at = At("BAK", "noteWritten") /\ nvState = <<"BAK", "WRITTING">>
        => Reached = nvState /\ Pages = size + 1
  BY DEF Reached, Pages, At, Copy, WRITTEN
<1>4. ASSUME at \in {Resting, Booting, Looping} \cup {At(c, x) : c \in Copy, x \in Step \ Noting}
      PROVE  Reached = nvState /\ Pages = IF nvState = <<"BAK", "ERASED">> THEN 0 ELSE size
  <2>1. at \notin {At(c, "noteErased") : c \in Copy}
    BY <1>4 DEF At, Copy, Step, Noting, Resting, Booting, Looping
  <2>2. at # At("MAIN", "noteWritten") /\ at # At("BAK", "noteWritten")
    BY <1>4 DEF At, Copy, Step, Noting, Resting, Booting, Looping
  <2>3. Reached = nvState
    BY <2>1, <2>2 DEF Reached
  <2> QED
    BY <2>2, <2>3 DEF Pages
<1> QED
  BY <1>1, <1>2, <1>3, <1>4 DEF ReachedAre

LEMMA ReachedIsNext == ReachedAre'
  BY ReachedIs, PTL

(***************************************************************************)
(* A step after which the flush got as far as r with k pages.              *)
(***************************************************************************)
LEMMA GotTo ==
  ASSUME StoreInv', call' = NoCall, NvTypeOK', PlaceOK', at' # Booting,
         ram' \in Data, floor' <= ram', NEW f, f = floor', NoOlder(f)',
         NEW r \in NvState, NEW k \in Nat, Reached' = r, Pages' = k, Progressed(r, k)'
  PROVE  NvInv'
<1>1. NoOlder(floor)'
  BY DEF NoOlder, Fresh, Within
<1>2. Loadable'
  BY DEF Loadable
<1> QED
  BY <1>1, <1>2 DEF NvInv

(***************************************************************************)
(* How far it got is the same after a step, but for names of the same      *)
(* thing.                                                                  *)
(***************************************************************************)
SameProgress(r, k, s, l) ==
  \/ s = r /\ (r \in WriteDue("BAK") => l = k)
  \/ \E c \in Copy : {r, s} \subseteq EraseDue(c)
  \/ {r, s} \subseteq WriteDue("MAIN")
  \/ r \in WriteDue("BAK") /\ s = <<"BAK", "WRITTING">> /\ l = 0
  \/ r = <<"BAK", "WRITTING">> /\ k = PageCount /\ s = WRITTEN("BAK")

LEMMA SameProgressed ==
  ASSUME NEW r \in NvState, NEW k, NEW s, NEW l, SameProgress(r, k, s, l), Progressed(r, k),
         View(Bak) \in Contents
  PROVE  Progressed(s, l)
<1>1. CASE s = r /\ (r \in WriteDue("BAK") => l = k)
  BY <1>1 DEF Progressed
<1>2. CASE \E c \in Copy : {r, s} \subseteq EraseDue(c)
  <2>1. {r, s} \subseteq EraseDue("MAIN") \/ {r, s} \subseteq EraseDue("BAK")
    BY <1>2 DEF Copy
  <2> HIDE DEF BakSafe, MainHolds
  <2> QED
    BY <2>1, PhasesDiffer DEF Progressed, WRITTEN, IDLE
<1>3. CASE {r, s} \subseteq WriteDue("MAIN")
  BY <1>3, PhasesDiffer DEF Progressed, WRITTEN, IDLE
<1>4. CASE r \in WriteDue("BAK") /\ s = <<"BAK", "WRITTING">> /\ l = 0
  BY <1>4, BakAgain
<1>5. CASE r = <<"BAK", "WRITTING">> /\ k = PageCount /\ s = WRITTEN("BAK")
  BY <1>5, BakWhole
<1> QED
  BY <1>1, <1>2, <1>3, <1>4, <1>5 DEF SameProgress

(***************************************************************************)
(* A step that leaves the two sectors alone.                               *)
(***************************************************************************)
LEMMA CalmStep ==
  ASSUME NvInv, at # Booting, at' # Booting, StoreInv', call' = NoCall, Calm,
         \A f : NoOlder(f) => NoOlder(f)',
         UNCHANGED floor, ram' \in Data, ram <= ram', NvTypeOK', PlaceOK',
         SameProgress(Reached, Pages, Reached', Pages'), Pages' \in Nat, Reached' \in NvState
  PROVE  NvInv'
<1>1. PICK r \in NvState, k \in Nat : r = Reached /\ k = Pages /\ Progressed(r, k)
  BY DEF NvInv, Loadable
<1>2. PICK s \in NvState, l \in Nat : s = Reached' /\ l = Pages'
  OBVIOUS
<1>3. SameProgress(r, k, s, l)
  BY <1>1, <1>2
<1>4. View(Bak) \in Contents
  BY NvAssumption, ViewType DEF NvInv
<1>5. Progressed(s, l)
  BY <1>1, <1>3, <1>4, SameProgressed
<1>6. ram \in Data /\ floor <= ram /\ floor \in Nat /\ Data \subseteq Nat
  BY NvAssumption DEF NvInv, Loadable, NvTypeOK
<1>7. Progressed(s, l)'
  BY <1>5, <1>6, CalmProgress
<1>8. PICK f : f = floor
  OBVIOUS
<1>9. NoOlder(f)'
  BY <1>8 DEF NvInv
<1>10. floor' <= ram'
  BY <1>6
<1> QED
  BY <1>2, <1>7, <1>8, <1>9, <1>10, GotTo

(***************************************************************************)
(* What was reached is a state, and the pages are counted.                 *)
(***************************************************************************)
ReachedType == Reached \in NvState /\ Pages \in Nat

LEMMA ReachedTypes == NvTypeOK => ReachedType
<1> SUFFICES ASSUME NvTypeOK PROVE ReachedType
  OBVIOUS
<1>1. \A c \in Copy : At(c, "noteErased")[1] = c
  BY DEF At
<1>2. Reached \in NvState
  BY <1>1 DEF NvTypeOK, Reached, NvState, Phase, WRITTEN, Copy
<1>3. Pages \in Nat
  BY CountsAssumption DEF NvTypeOK, Pages
<1> QED
  BY <1>2, <1>3 DEF ReachedType

LEMMA ReachedTypesNext == NvTypeOK' => ReachedType'
  BY ReachedTypes, PTL

(***************************************************************************)
(* The thread goes on, while the flash is at most flushed.                 *)
(***************************************************************************)
LEMMA Moved ==
  ASSUME OneBuffer, NvInv, at # Booting, at' # Booting,
         FlushOnce \/ FlushDisable \/ FlushEnable \/ CpReady \/ UNCHANGED vars,
         UNCHANGED floor, ram' \in Data, ram <= ram',
         NvTypeOK', PlaceOK', SameProgress(Reached, Pages, Reached', Pages')
  PROVE  NvInv'
<1>1. StoreInv /\ call = NoCall
  BY DEF NvInv
<1>2. StoreInv' /\ call' = NoCall /\ Calm
  BY <1>1, FlushCalm
<1>3. \A f : NoOlder(f) => NoOlder(f)'
  BY <1>1, CalmNoOlder
<1>4. Pages' \in Nat /\ Reached' \in NvState
  BY ReachedTypesNext DEF ReachedType
<1> QED
  BY <1>2, <1>3, <1>4, CalmStep

(***************************************************************************)
(* Once the record is loaded the mirror holds a version.                   *)
(***************************************************************************)
LEMMA MirrorIs ==
  ASSUME NvInv, at # Booting
  PROVE  ram \in Data /\ ram \in Nat /\ ram <= ram /\ floor \in Nat /\ floor <= ram
<1>1. ram \in Data /\ floor <= ram /\ floor \in Data \cup {0}
  BY DEF NvInv, Loadable, NvTypeOK
<1> QED
  BY <1>1, NvAssumption

(***************************************************************************)
(* Clients of the record: a change of the mirror asks for a flush, and a   *)
(* call of nv_record_flash_flush begins one.                               *)
(***************************************************************************)
LEMMA UpdateStep ==
  ASSUME OneBuffer, OneThread, NvInv, Update
  PROVE  NvInv'
<1>1. PICK t : Thread = {t}
  BY DEF OneThread
<1>2. at # Booting /\ at' = at
  BY <1>1, AtIs DEF Update, NvInv, at
<1>3. ram \in Data /\ ram' \in Data /\ ram <= ram'
  BY <1>2, MirrorIs DEF Update
<1>4. NvTypeOK' /\ PlaceOK'
  BY <1>2, <1>3 DEF Update, NvInv, NvTypeOK, PlaceOK
<1>5. Reached' = Reached /\ Pages' = Pages
  BY <1>2 DEF Update, Reached, Pages
<1>6. SameProgress(Reached, Pages, Reached', Pages')
  BY <1>5 DEF SameProgress
<1> QED
  BY <1>2, <1>3, <1>4, <1>6, Moved DEF Update

LEMMA SyncCallStep ==
  ASSUME OneBuffer, OneThread, NvInv, NEW t \in Thread, SyncCall(t)
  PROVE  NvInv'
<1>1. at = Resting /\ at' = Looping /\ DOMAIN pc' = Thread /\ at # Booting
  BY AtIs, PlacesDiffer DEF SyncCall, Go, NvInv
<1>2. UNCHANGED <<ram, isUpdate, nvState, size, floor, vars>>
  BY DEF SyncCall
<1>3. NvTypeOK' /\ PlaceOK' /\ at' # Booting
  BY <1>1, <1>2, RestPlace DEF NvInv, NvTypeOK, PlaceOK
<1>4. Reached' = Reached /\ Pages' = Pages
  BY <1>1, <1>2, ReachedIs, ReachedIsNext DEF ReachedAre
<1>5. SameProgress(Reached, Pages, Reached', Pages')
  BY <1>4 DEF SameProgress
<1> QED
  BY <1>1, <1>2, <1>3, <1>5, MirrorIs, Moved

(***************************************************************************)
(* The thread goes to another step, and notes nothing.                     *)
(***************************************************************************)
LEMMA WentOn ==
  ASSUME OneBuffer, NvInv, NvTypeOK, at # Booting,
         at \in {Looping} \cup {At(c, x) : c \in Copy, x \in Step \ Noting},
         NEW c \in Copy, NEW x \in Step \ Noting, at' = At(c, x), DOMAIN pc' = Thread,
         nvState \in Here(c, x), FlushOnce \/ UNCHANGED vars,
         UNCHANGED <<ram, isUpdate, nvState, size, floor>>
  PROVE  NvInv'
<1>1. NvTypeOK'
  BY DEF NvTypeOK
<1>2. PlaceOK' /\ at' # Booting
  BY StepPlace DEF NvInv, PlaceOK
<1>3. Reached' = Reached /\ Pages' = Pages
  BY ReachedIs, ReachedIsNext DEF ReachedAre
<1>4. SameProgress(Reached, Pages, Reached', Pages')
  BY <1>3 DEF SameProgress
<1> QED
  BY <1>1, <1>2, <1>4, MirrorIs, Moved

(***************************************************************************)
(* The thread looks what is to be done.                                    *)
(***************************************************************************)
LEMMA SyncLoopStep ==
  ASSUME OneBuffer, OneThread, NvInv, NEW t \in Thread, SyncLoop(t)
  PROVE  NvInv'
<1>1. /\ at = Looping /\ DOMAIN pc' = Thread /\ NvTypeOK /\ at # Booting
      /\ at' = IF Due("MAIN") THEN At("MAIN", "start")
               ELSE IF Due("BAK") THEN At("BAK", "start") ELSE Resting
  <2>1. pc[t] = at /\ NvTypeOK
    BY AtIs DEF NvInv
  <2>2. pc[t] = Looping
    BY DEF SyncLoop, Go
  <2>3. at = Looping /\ at # Booting
    BY <2>1, <2>2, PlacesDiffer
  <2>4. PICK p : /\ p = IF Due("MAIN") THEN At("MAIN", "start")
                         ELSE IF Due("BAK") THEN At("BAK", "start") ELSE Resting
                 /\ pc' = [pc EXCEPT ![t] = p]
    BY DEF SyncLoop, Go
  <2>5. DOMAIN pc' = Thread /\ at' = p
    BY <2>1, <2>4, AtIs DEF NvTypeOK
  <2> QED
    BY <2>1, <2>3, <2>4, <2>5
<1>2. UNCHANGED <<ram, isUpdate, nvState, size, floor, vars>>
  BY DEF SyncLoop
<1>3. "start" \in Step \ Noting /\ "MAIN" \in Copy /\ "BAK" \in Copy
  BY DEF Step, Noting, Copy
<1>4. CASE Due("MAIN")
  <2>1. nvState \in Here("MAIN", "start")
    BY <1>4, <1>3, HereIs, PhasesDiffer DEF Due
  <2> QED
    BY <1>1, <1>2, <1>3, <1>4, <2>1, WentOn
<1>5. CASE ~Due("MAIN") /\ Due("BAK")
  <2>1. nvState \in Here("BAK", "start")
    BY <1>5, <1>3, HereIs, PhasesDiffer DEF Due, NvInv, PlaceOK
  <2> QED
    BY <1>1, <1>2, <1>3, <1>5, <2>1, WentOn
<1>6. CASE at' = Resting
  <2>1. NvTypeOK'
    BY <1>1, <1>2 DEF NvTypeOK
  <2>2. PlaceOK' /\ at' # Booting
    BY <1>2, <1>6, RestPlace DEF NvInv, PlaceOK
  <2>3. Reached' = Reached /\ Pages' = Pages
    BY <1>1, <1>2, <1>6, ReachedIs, ReachedIsNext DEF ReachedAre
  <2>4. SameProgress(Reached, Pages, Reached', Pages')
    BY <2>3 DEF SameProgress
  <2> QED
    BY <1>1, <1>2, <2>1, <2>2, <2>4, MirrorIs, Moved
<1> QED
  BY <1>1, <1>4, <1>5, <1>6

(***************************************************************************)
(* The step of a flush the thread is at.                                   *)
(***************************************************************************)
LEMMA AtStep ==
  ASSUME NvInv, NEW c \in Copy, NEW x \in Step, at = At(c, x)
  PROVE  at # Booting /\ nvState \in Here(c, x) /\ NvTypeOK
BY PlacesDiffer DEF NvInv, PlaceOK

(***************************************************************************)
(* The thread starts a copy, waits for room, or for the work to be done.   *)
(***************************************************************************)
LEMMA SyncStartStep ==
  ASSUME OneBuffer, OneThread, NvInv, NEW t \in Thread, NEW c \in Copy, SyncStart(t, c)
  PROVE  NvInv'
<1>1. /\ at = At(c, "start") /\ DOMAIN pc' = Thread
      /\ at' = IF nvState \in EraseDue(c) THEN At(c, "erase") ELSE At(c, "erased")
      /\ UNCHANGED <<ram, isUpdate, nvState, size, floor, vars>>
  BY AtIs DEF SyncStart, Go, NvInv
<1>2. {"start", "erase", "erased"} \subseteq Step \ Noting
  BY DEF Step, Noting
<1>3. at # Booting /\ nvState \in Here(c, "start") /\ NvTypeOK
  BY <1>1, <1>2, AtStep
<1>4. CASE nvState \in EraseDue(c)
  BY <1>1, <1>2, <1>3, <1>4, HereIs, WentOn
<1>5. CASE nvState \notin EraseDue(c)
  BY <1>1, <1>2, <1>3, <1>5, HereIs, WentOn
<1> QED
  BY <1>4, <1>5

LEMMA SyncFullStep ==
  ASSUME OneBuffer, OneThread, NvInv, NEW t \in Thread, NEW c \in Copy,
         \/ SyncErase(t, c) /\ pc'[t] = At(c, "eraseFull")
         \/ SyncWrite(t, c) /\ pc'[t] = At(c, "writeFull")
         \/ SyncEraseFull(t, c) \/ SyncWriteFull(t, c)
         \/ SyncWait(t, c)
  PROVE  NvInv'
<1> DEFINE Leads(x, y) == /\ at = At(c, x) /\ at' = At(c, y) /\ DOMAIN pc' = Thread
                          /\ FlushOnce \/ UNCHANGED vars
                          /\ UNCHANGED <<ram, isUpdate, nvState, size, floor>>
<1>1. /\ pc[t] = at /\ pc[t]' = at'
      /\ \A x : pc' = [pc EXCEPT ![t] = x] => at' = x /\ DOMAIN pc' = Thread
  <2>1. Thread = {t} /\ NvTypeOK
    BY DEF OneThread, NvInv
  <2>2. FirstThread = t
    BY <2>1 DEF FirstThread
  <2> QED
    BY <2>1, <2>2, AtIs DEF at
<1>2. CASE SyncErase(t, c) /\ pc'[t] = At(c, "eraseFull")
  <2>1. "noteErased" # "eraseFull"
    OBVIOUS
  <2>2. Leads("erase", "eraseFull")
    BY <1>1, <1>2, <2>1, PlacesDiffer DEF SyncErase, Go
  <2> QED
    BY <2>2, HereIs, AtStep, WentOn DEF Step, Noting
<1>3. CASE SyncWrite(t, c) /\ pc'[t] = At(c, "writeFull")
  <2>1. "noteWritten" # "writeFull"
    OBVIOUS
  <2>2. Leads("write", "writeFull")
    BY <1>1, <1>3, <2>1, PlacesDiffer DEF SyncWrite, Go
  <2> QED
    BY <2>2, HereIs, AtStep, WentOn DEF Step, Noting
<1>4. CASE SyncEraseFull(t, c)
  <2>1. Leads("eraseFull", "eraseFull") \/ Leads("eraseFull", "erase")
    BY <1>1, <1>4 DEF SyncEraseFull, Go
  <2> QED
    BY <2>1, HereIs, AtStep, WentOn DEF Step, Noting
<1>5. CASE SyncWriteFull(t, c)
  <2>1. Leads("writeFull", "writeFull") \/ Leads("writeFull", "write")
    BY <1>1, <1>5 DEF SyncWriteFull, Go
  <2> QED
    BY <2>1, HereIs, AtStep, WentOn DEF Step, Noting
<1>6. CASE SyncWait(t, c)
  <2>1. Leads("wait", "count")
    BY <1>1, <1>6 DEF SyncWait, Go
  <2> QED
    BY <2>1, HereIs, AtStep, WentOn DEF Step, Noting
<1> QED
  BY <1>2, <1>3, <1>4, <1>5, <1>6

(***************************************************************************)
(* The thread counts what is left, and goes round once more.               *)
(***************************************************************************)
LEMMA SyncCountMore ==
  ASSUME OneBuffer, OneThread, NvInv, NEW t \in Thread, NEW c \in Copy, SyncCount(t, c),
         OwnPending
  PROVE  NvInv'
<1>1. /\ at = At(c, "count") /\ DOMAIN pc' = Thread /\ at' = At(c, "wait")
      /\ UNCHANGED <<ram, isUpdate, nvState, size, floor, vars>>
  BY AtIs DEF SyncCount, Go, NvInv
<1> QED
  BY <1>1, HereIs, AtStep, WentOn DEF Step, Noting

(***************************************************************************)
(* The thread notes, interrupts unlocked, what the flash was told before.  *)
(***************************************************************************)
LEMMA SyncNoteErasedStep ==
  ASSUME OneBuffer, OneThread, NvInv, NEW t \in Thread, NEW c \in Copy,
         SyncNoteErased(t, c)
  PROVE  NvInv'
<1>1. /\ at = At(c, "noteErased") /\ DOMAIN pc' = Thread /\ at' = At(c, "erased")
      /\ nvState' = <<c, "ERASED">>
      /\ UNCHANGED <<ram, isUpdate, size, floor, vars>>
  BY AtIs DEF SyncNoteErased, Go, NvInv
<1>2. {"noteErased", "erased"} \subseteq Step /\ "erased" \notin Noting
  BY DEF Step, Noting
<1>3. at # Booting /\ NvTypeOK
  BY <1>1, <1>2, AtStep
<1>4. nvState' \in NvState /\ nvState' \in Here(c, "erased") /\ nvState' # <<"BAK", "DONE">>
      /\ nvState' # <<"BAK", "WRITTING">>
  BY <1>1, HereIs DEF NvState, Phase, WriteDue
<1>5. NvTypeOK'
  BY <1>1, <1>3, <1>4 DEF NvTypeOK
<1>6. PlaceOK' /\ at' # Booting
  BY <1>1, <1>2, <1>4, StepPlace
<1>7. Reached' = Reached /\ Pages' = Pages
  <2>1. Reached = <<c, "ERASED">> /\ Pages = IF c = "BAK" THEN 0 ELSE size
    BY <1>1, ReachedIs DEF ReachedAre
  <2>2. Reached' = nvState' /\ Pages' = IF nvState' = <<"BAK", "ERASED">> THEN 0 ELSE size'
    BY <1>1, <1>2, ReachedIsNext DEF ReachedAre
  <2> QED
    BY <1>1, <2>1, <2>2 DEF Copy
<1>8. SameProgress(Reached, Pages, Reached', Pages')
  BY <1>7 DEF SameProgress
<1> QED
  BY <1>1, <1>3, <1>5, <1>6, <1>8, MirrorIs, Moved

LEMMA SyncNoteMainWrittenStep ==
  ASSUME OneBuffer, OneThread, NvInv, NEW t \in Thread, SyncNoteMainWritten(t)
  PROVE  NvInv'
<1>1. /\ at = At("MAIN", "noteWritten") /\ DOMAIN pc' = Thread /\ at' = At("MAIN", "wait")
      /\ nvState' = WRITTEN("MAIN") /\ isUpdate' = FALSE
      /\ UNCHANGED <<ram, size, floor, vars>>
  BY AtIs DEF SyncNoteMainWritten, Go, NvInv, WRITTEN
<1>2. {"noteWritten", "wait"} \subseteq Step /\ "wait" \notin Noting /\ "MAIN" \in Copy
  BY DEF Step, Noting, Copy
<1>3. at # Booting /\ NvTypeOK
  BY <1>1, <1>2, AtStep
<1>4. nvState' \in NvState /\ nvState' \in Here("MAIN", "wait") /\ nvState' # <<"BAK", "DONE">>
      /\ nvState' # <<"BAK", "WRITTING">> /\ nvState' # <<"BAK", "ERASED">>
  BY <1>1, <1>2, HereIs DEF NvState, Phase, WRITTEN
<1>5. NvTypeOK'
  BY <1>1, <1>3, <1>4 DEF NvTypeOK
<1>6. PlaceOK' /\ at' # Booting
  BY <1>1, <1>2, <1>4, StepPlace
<1>7. Reached' = Reached /\ Pages' = Pages
  <2>1. Reached = WRITTEN("MAIN") /\ Pages = size
    BY <1>1, ReachedIs DEF ReachedAre
  <2>2. Reached' = nvState' /\ Pages' = IF nvState' = <<"BAK", "ERASED">> THEN 0 ELSE size'
    BY <1>1, <1>2, ReachedIsNext DEF ReachedAre
  <2> QED
    BY <1>1, <1>4, <2>1, <2>2
<1>8. SameProgress(Reached, Pages, Reached', Pages')
  BY <1>7 DEF SameProgress
<1> QED
  BY <1>1, <1>3, <1>5, <1>6, <1>8, MirrorIs, Moved

(***************************************************************************)
(* Of the backup it notes one page, and the end after the last.            *)
(***************************************************************************)
LEMMA SyncNoteBakWrittenStep ==
  ASSUME OneBuffer, OneThread, NvInv, NEW t \in Thread, SyncNoteBakWritten(t)
  PROVE  NvInv'
<1>1. /\ at = At("BAK", "noteWritten") /\ DOMAIN pc' = Thread /\ size' = size + 1
      /\ UNCHANGED <<ram, isUpdate, floor, vars>>
      /\ IF size + 1 = PageCount THEN at' = At("BAK", "wait") /\ nvState' = WRITTEN("BAK")
                                 ELSE at' = At("BAK", "write") /\ nvState' = nvState
  BY AtIs DEF SyncNoteBakWritten, Go, NvInv, WRITTEN
<1>2. /\ {"noteWritten", "wait", "write"} \subseteq Step /\ "wait" \notin Noting
      /\ "write" \notin Noting /\ "BAK" \in Copy /\ "BAK" # "MAIN"
  BY DEF Step, Noting, Copy
<1>3. at # Booting /\ NvTypeOK /\ nvState = <<"BAK", "WRITTING">>
  BY <1>1, <1>2, HereIs, AtStep
<1>4. size \in Nat /\ size < PageCount /\ PageCount \in Nat
  BY <1>3, CountsAssumption DEF NvInv, NvTypeOK, PlaceOK
<1>5. Reached = nvState /\ Pages = size + 1
  BY <1>1, <1>3, ReachedIs DEF ReachedAre
<1>6. CASE size + 1 = PageCount
  <2>1. nvState' \in NvState /\ nvState' \in Here("BAK", "wait")
        /\ nvState' # <<"BAK", "DONE">> /\ nvState' # <<"BAK", "WRITTING">>
        /\ nvState' # <<"BAK", "ERASED">>
    BY <1>1, <1>2, <1>6, HereIs DEF NvState, Phase, WRITTEN
  <2>2. NvTypeOK'
    BY <1>1, <1>3, <1>4, <1>6, <2>1 DEF NvTypeOK
  <2>3. PlaceOK' /\ at' # Booting
    BY <1>1, <1>2, <1>6, <2>1, StepPlace
  <2>4. Reached' = WRITTEN("BAK")
    BY <1>1, <1>2, <1>6, ReachedIsNext DEF ReachedAre
  <2>5. SameProgress(Reached, Pages, Reached', Pages')
    BY <1>3, <1>5, <1>6, <2>4 DEF SameProgress
  <2> QED
    BY <1>1, <1>3, <2>2, <2>3, <2>5, MirrorIs, Moved
<1>7. CASE size + 1 # PageCount
  <2>1. nvState' \in Here("BAK", "write") /\ nvState' # <<"BAK", "DONE">>
        /\ nvState' # <<"BAK", "ERASED">>
    BY <1>1, <1>2, <1>3, <1>7, HereIs
  <2>2. NvTypeOK'
    BY <1>1, <1>3, <1>4, <1>7, <2>1 DEF NvTypeOK
  <2>3. size' < PageCount
    BY <1>1, <1>4, <1>7
  <2>4. PlaceOK' /\ at' # Booting
    BY <1>1, <1>2, <1>7, <2>1, <2>3, StepPlace
  <2>5. Reached' = Reached /\ Pages' = Pages
    BY <1>1, <1>2, <1>5, <1>7, <2>1, ReachedIsNext DEF ReachedAre
  <2>6. SameProgress(Reached, Pages, Reached', Pages')
    BY <2>5 DEF SameProgress
  <2> QED
    BY <1>1, <1>3, <2>2, <2>4, <2>6, MirrorIs, Moved
<1> QED
  BY <1>6, <1>7

(***************************************************************************)
(* After the erase it begins the write, of the backup at its first page.   *)
(***************************************************************************)
LEMMA SyncErasedStep ==
  ASSUME OneBuffer, OneThread, NvInv, NEW t \in Thread, NEW c \in Copy, SyncErased(t, c)
  PROVE  NvInv'
<1>1. /\ at = At(c, "erased") /\ DOMAIN pc' = Thread
      /\ UNCHANGED <<ram, isUpdate, floor, vars>>
      /\ IF nvState \in WriteDue(c)
         THEN /\ at' = At(c, "write")
              /\ IF c = "MAIN" THEN UNCHANGED <<nvState, size>>
                 ELSE nvState' = <<"BAK", "WRITTING">> /\ size' = 0
         ELSE at' = At(c, "wait") /\ UNCHANGED <<nvState, size>>
  BY AtIs DEF SyncErased, Go, NvInv
<1>2. {"erased", "wait", "write"} \subseteq Step \ Noting
  BY DEF Step, Noting
<1>3. at # Booting /\ NvTypeOK /\ nvState \in WriteDue(c) \cup {WRITTEN(c)}
  BY <1>1, <1>2, HereIs, AtStep
<1>4. CASE nvState \notin WriteDue(c)
  BY <1>1, <1>2, <1>3, <1>4, HereIs, WentOn
<1>5. CASE nvState \in WriteDue(c) /\ c = "MAIN"
  BY <1>1, <1>2, <1>3, <1>5, HereIs, WentOn
<1>6. CASE nvState \in WriteDue(c) /\ c = "BAK"
  <2>1. /\ at' = At("BAK", "write") /\ nvState' = <<"BAK", "WRITTING">> /\ size' = 0
        /\ "BAK" \in Copy /\ "BAK" # "MAIN"
    BY <1>1, <1>6 DEF Copy
  <2>2. nvState' \in NvState /\ nvState' \in Here("BAK", "write")
        /\ nvState' # <<"BAK", "DONE">> /\ nvState' # <<"BAK", "ERASED">>
    BY <2>1, HereIs DEF NvState, Phase
  <2>3. 0 < PageCount /\ 0 \in 0..PageCount
    BY CountsAssumption
  <2>4. NvTypeOK'
    BY <1>1, <1>3, <2>1, <2>2, <2>3 DEF NvTypeOK
  <2>5. PlaceOK' /\ at' # Booting
    BY <1>2, <2>1, <2>2, <2>3, StepPlace
  <2>6. Reached = nvState
    BY <1>1, <1>2, ReachedIs DEF ReachedAre
  <2>7. Reached' = nvState' /\ Pages' = 0
    BY <1>2, <2>1, <2>2, ReachedIsNext DEF ReachedAre
  <2>8. SameProgress(Reached, Pages, Reached', Pages')
    BY <1>6, <2>1, <2>6, <2>7 DEF SameProgress
  <2> QED
    BY <1>1, <1>3, <2>4, <2>5, <2>8, MirrorIs, Moved
<1> QED
  BY <1>3, <1>4, <1>5, <1>6 DEF Copy

(***************************************************************************)
(* An erase the flash accepted: the flush got one step on.                 *)
(***************************************************************************)
LEMMA EraseGot ==
  ASSUME OneBuffer, NvInv, NEW c \in Copy, EraseAsync(SectorOf(c)), at # Booting,
         Reached \in EraseDue(c), UNCHANGED <<ram, floor>>, NvTypeOK', PlaceOK',
         at' # Booting, Reached' = <<c, "ERASED">>, c = "BAK" => Pages' = 0
  PROVE  NvInv'
<1>1. /\ SectorOf("MAIN") = Main /\ SectorOf("BAK") = Bak /\ Main # Bak
      /\ StoreInv /\ call = NoCall
  BY NvAssumption DEF SectorOf, NvInv
<1>2. PICK r \in NvState, k \in Nat : r = Reached /\ k = Pages /\ Progressed(r, k)
  BY DEF NvInv, Loadable
<1>3. PICK s \in NvState, l \in Nat : s = Reached' /\ l = Pages'
  BY ReachedTypesNext DEF ReachedType
<1>4. ram \in Data /\ floor <= ram
  BY MirrorIs
<1>5. PICK f : f = floor /\ NoOlder(f)
  BY DEF NvInv
<1>6. /\ StoreInv' /\ call' = NoCall /\ NoOlder(f)'
      /\ c = "MAIN" => View(Main)' = Blank /\ Untouched(Bak)
      /\ c = "BAK" => View(Bak)' = Blank /\ Untouched(Main)
  <2>1. SectorOf(c) \in {Main, Bak}
    BY DEF SectorOf
  <2>2. /\ StoreInv' /\ call' = NoCall /\ View(SectorOf(c))' = Blank
        /\ \A z \in {Main, Bak} \ {SectorOf(c)} : Untouched(z)
        /\ \A g : NoOlder(g) => NoOlder(g)'
    BY <1>1, <2>1, OwnErase
  <2>3. NoOlder(f)'
    BY <1>5, <2>2
  <2>4. ASSUME c = "MAIN" PROVE View(Main)' = Blank /\ Untouched(Bak)
    BY <1>1, <2>2, <2>4
  <2>5. ASSUME c = "BAK" PROVE View(Bak)' = Blank /\ Untouched(Main)
    BY <1>1, <2>2, <2>5
  <2> QED
    BY <2>2, <2>3, <2>4, <2>5
<1>7. CASE c = "MAIN"
  <2>1. Progressed(s, l)'
    BY <1>2, <1>3, <1>6, <1>7, MainErased
  <2> QED
    BY <1>3, <1>4, <1>5, <1>6, <2>1, GotTo
<1>8. CASE c = "BAK"
  <2>1. Progressed(s, l)'
    BY <1>2, <1>3, <1>6, <1>8, BakErased
  <2> QED
    BY <1>3, <1>4, <1>5, <1>6, <2>1, GotTo
<1> QED
  BY <1>7, <1>8 DEF Copy

(***************************************************************************)
(* The mirror written to the main sector.                                  *)
(***************************************************************************)
LEMMA MainGot ==
  ASSUME OneBuffer, NvInv, WriteAsync(Main, 0, PageCount - 1, Uniform(ram)), at # Booting,
         Reached \in WriteDue("MAIN"), UNCHANGED <<ram, floor>>, NvTypeOK', PlaceOK',
         at' # Booting, Reached' = WRITTEN("MAIN")
  PROVE  NvInv'
<1>1. StoreInv /\ call = NoCall /\ Main # Bak
  BY NvAssumption DEF NvInv
<1>2. PICK r \in NvState, k \in Nat : r = Reached /\ k = Pages /\ Progressed(r, k)
  BY DEF NvInv, Loadable
<1>3. PICK s \in NvState, l \in Nat : s = Reached' /\ l = Pages'
  BY ReachedTypesNext DEF ReachedType
<1>4. ram \in Data /\ floor <= ram
  BY MirrorIs
<1>5. PICK f : f = floor /\ NoOlder(f)
  BY DEF NvInv
<1>6. PICK d \in Data : d = ram
  BY <1>4
<1>7. 0 \in Page /\ PageCount - 1 \in Page /\ 0 <= PageCount - 1 /\ Page = 0..(PageCount - 1)
  BY CountsAssumption DEF Page
<1>8. View(Main) = Blank
  BY <1>2 DEF Progressed
<1>9. Writable(Main, 0, PageCount - 1, d)
  <2>1. \A p \in Page : Blank[p] = Erased
    BY DEF Blank, Uniform
  <2> QED
    BY <1>7, <1>8, <2>1 DEF Writable
<1>10. /\ StoreInv' /\ call' = NoCall
       /\ View(Main)' = Overlay(View(Main), 0, PageCount - 1, Uniform(d))
       /\ Untouched(Bak) /\ NoOlder(f)'
  <2>1. WriteAsync(Main, 0, PageCount - 1, Uniform(d))
    BY <1>6
  <2>2. f <= d /\ Main \in {Main, Bak} /\ Bak \in {Main, Bak} \ {Main}
    BY <1>1, <1>4, <1>5, <1>6
  <2> QED
    BY <1>1, <1>5, <1>7, <1>9, <2>1, <2>2, OwnWrite
<1>11. Overlay(View(Main), 0, PageCount - 1, Uniform(d)) = Uniform(d)
  BY <1>7 DEF Overlay, Uniform
<1>12. View(Main)' = Uniform(ram)
  BY <1>6, <1>10, <1>11
<1>13. Progressed(s, l)'
  BY <1>2, <1>3, <1>4, <1>10, <1>12, MainWritten
<1> QED
  BY <1>3, <1>4, <1>5, <1>10, <1>13, GotTo

(***************************************************************************)
(* Pages of the main sector written to the backup.                         *)
(***************************************************************************)
LEMMA BakGot ==
  ASSUME OneBuffer, NvInv, NEW k \in Nat, NEW hi \in Page, k = Pages, k <= hi,
         WriteAsync(Bak, k, hi, View(Main)), at # Booting,
         Reached \in WriteDue("BAK"), UNCHANGED <<ram, floor>>, NvTypeOK', PlaceOK',
         at' # Booting, Pages' = hi + 1,
         \/ Reached' = <<"BAK", "WRITTING">>
         \/ Reached' = WRITTEN("BAK") /\ hi = PageCount - 1
  PROVE  NvInv'
<1>1. StoreInv /\ call = NoCall /\ Main # Bak
  BY NvAssumption DEF NvInv
<1>2. PICK v \in Data : MainHolds(v) /\ Copied(v, k) /\ ~Busy(Main)
  BY DEF NvInv, Loadable, Progressed
<1>3. PICK s \in NvState, l \in Nat : s = Reached' /\ l = Pages'
  BY ReachedTypesNext DEF ReachedType
<1>4. ram \in Data /\ floor <= ram
  BY MirrorIs
<1>5. PICK f : f = floor /\ NoOlder(f)
  BY DEF NvInv
<1>6. k \in Page /\ k <= hi /\ hi \in Nat
  BY CountsAssumption DEF Page
<1>7. View(Main) = Uniform(v)
  BY <1>2 DEF MainHolds
<1>8. Writable(Bak, k, hi, v)
  BY <1>2, <1>6, CountsAssumption DEF Writable, Copied, Page
<1>9. f <= v
  <2>1. 0 \in Page /\ Main \in Sector
    BY CountsAssumption, NvAssumption DEF Page
  <2>2. v \in Fresh(f)
    <3>1. View(Main) = flash[Main]
      BY <1>1, <1>2, <2>1, CleanIs DEF Busy
    <3>2. flash[Main][0] = v
      BY <1>7, <2>1, <3>1 DEF Uniform
    <3> QED
      BY <1>5, <2>1, <3>2 DEF NoOlder, Within, InPages
  <2> QED
    BY <2>2, ValueAssumption DEF Fresh
<1>10. /\ StoreInv' /\ call' = NoCall
       /\ View(Bak)' = Overlay(View(Bak), k, hi, Uniform(v))
       /\ Untouched(Main) /\ NoOlder(f)'
  <2>1. WriteAsync(Bak, k, hi, Uniform(v))
    BY <1>7
  <2>2. Bak \in {Main, Bak} /\ Main \in {Main, Bak} \ {Bak}
    BY <1>1
  <2> QED
    BY <1>1, <1>5, <1>6, <1>8, <1>9, <2>1, <2>2, OwnWrite
<1>11. Progressed(s, l)'
  BY <1>2, <1>3, <1>6, <1>10, BakWritten
<1> QED
  BY <1>3, <1>4, <1>5, <1>10, <1>11, GotTo

(***************************************************************************)
(* With nothing left in the list of the module the two sectors are on the  *)
(* chip as they are read.                                                  *)
(***************************************************************************)
LEMMA NothingOwn ==
  ASSUME StoreInv, ~OwnPending
  PROVE  \A s \in {Main, Bak} : /\ ~Busy(s) /\ View(s) = flash[s]
                                /\ Len(queue[Owner[s]]) = 0
<1> SUFFICES ASSUME NEW s \in {Main, Bak}
             PROVE  ~Busy(s) /\ View(s) = flash[s] /\ Len(queue[Owner[s]]) = 0
  OBVIOUS
<1>1. s \in Sector /\ Owner[s] = Owner[Main]
  BY NvAssumption
<1>2. queue[Owner[s]] = <<>>
  BY <1>1 DEF OwnPending, HasWork
<1>3. DOMAIN queue[Owner[s]] = {} /\ Len(queue[Owner[s]]) = 0
  BY <1>2, EmptySeq
<1>4. OnSector(queue[Owner[s]], s) = {}
  BY <1>3 DEF OnSector
<1> QED
  BY <1>1, <1>3, <1>4, CleanIs DEF Busy

(***************************************************************************)
(* After the last page of the backup both sectors hold one version.        *)
(***************************************************************************)
LEMMA BothHold ==
  ASSUME NvInv, at # Booting, Reached = WRITTEN("BAK"), ~OwnPending
  PROVE  \E v \in Data : /\ v <= ram /\ flash[Main] = Uniform(v) /\ flash[Bak] = Uniform(v)
                         /\ View(Bak) = Uniform(v)
<1>1. PICK v \in Data : MainHolds(v) /\ View(Bak) = Uniform(v)
  BY DEF NvInv, Loadable, Progressed
<1> QED
  BY <1>1, NothingOwn DEF MainHolds, NvInv

(***************************************************************************)
(* The flush of a copy is done.                                            *)
(***************************************************************************)
LEMMA MainFinished ==
  ASSUME OneBuffer, NvInv, at # Booting, Reached = WRITTEN("MAIN"), ~OwnPending,
         UNCHANGED <<ram, floor, vars>>, NvTypeOK', PlaceOK', at' # Booting,
         Reached' = <<"MAIN", "DONE">>
  PROVE  NvInv'
<1>1. StoreInv /\ call = NoCall
  BY DEF NvInv
<1>2. StoreInv' /\ call' = NoCall /\ Calm
  BY <1>1, FlushCalm
<1>3. PICK k \in Nat : Progressed(WRITTEN("MAIN"), k)
  BY DEF NvInv, Loadable
<1>4. PICK s \in NvState, l \in Nat : s = Reached' /\ l = Pages'
  BY ReachedTypesNext DEF ReachedType
<1>5. Progressed(s, l)'
  BY <1>1, <1>2, <1>3, <1>4, NothingOwn, MainDone
<1>6. PICK f : f = floor /\ NoOlder(f)
  BY DEF NvInv
<1>7. NoOlder(f)'
  BY <1>1, <1>6, CalmNoOlder
<1> QED
  BY <1>2, <1>4, <1>5, <1>6, <1>7, MirrorIs, GotTo

LEMMA BakFinished ==
  ASSUME OneBuffer, NvInv, at # Booting, Reached = WRITTEN("BAK"), ~OwnPending,
         floor' = Saved("BAK"), UNCHANGED <<ram, vars>>, NvTypeOK', PlaceOK', at' # Booting,
         Reached' = IDLE
  PROVE  NvInv'
<1>1. StoreInv /\ call = NoCall
  BY DEF NvInv
<1>2. StoreInv' /\ call' = NoCall /\ Calm
  BY <1>1, FlushCalm
<1>3. PICK v \in Data : /\ v <= ram /\ flash[Main] = Uniform(v) /\ flash[Bak] = Uniform(v)
                        /\ View(Bak) = Uniform(v)
  BY BothHold
<1>4. floor' = v
  BY <1>3, UniformDiffer DEF Saved
<1>5. PICK s \in NvState, l \in Nat : s = Reached' /\ l = Pages'
  BY ReachedTypesNext DEF ReachedType
<1>6. ~Busy(Main)' /\ ~Busy(Bak)' /\ View(Bak)' = Uniform(v)
  BY <1>1, <1>2, <1>3, NothingOwn DEF Calm, Untouched
<1>7. BakSafe'
  BY <1>6, UniformDiffer DEF BakSafe
<1> HIDE DEF BakSafe
<1>8. Progressed(s, l)'
  BY <1>5, <1>6, <1>7, PhasesDiffer DEF Progressed, WRITTEN, IDLE
<1>9. NoOlder(v)'
  <2> SUFFICES ASSUME NEW z \in {Main, Bak}
               PROVE  Within(z, Fresh(v))'
    BY DEF NoOlder, Fresh
  <2>1. v \in Fresh(v) /\ flash'[z] = Uniform(v) /\ queue' = queue
    BY <1>3, NvAssumption DEF Fresh, vars
  <2>2. Len(queue'[Owner[z]]) = 0
    BY <1>1, <2>1, NothingOwn
  <2> QED
    BY <2>1, <2>2 DEF Within, InPages, OpsIn, Uniform, Fresh
<1> QED
  BY <1>2, <1>3, <1>4, <1>5, <1>8, <1>9, MirrorIs, GotTo

(***************************************************************************)
(* The steps of the synchronous flush that change the flash.               *)
(***************************************************************************)
LEMMA SyncEraseStep ==
  ASSUME OneBuffer, OneThread, NvInv, NEW t \in Thread, NEW c \in Copy, SyncErase(t, c)
  PROVE  NvInv'
<1>1. CASE Go(t, At(c, "erase"), At(c, "noteErased")) /\ EraseAsync(SectorOf(c))
  <2>1. /\ at = At(c, "erase") /\ DOMAIN pc' = Thread /\ at' = At(c, "noteErased")
        /\ UNCHANGED <<ram, isUpdate, nvState, size, floor>>
    BY <1>1, AtIs DEF SyncErase, Go, NvInv
  <2>2. {"erase", "noteErased"} \subseteq Step /\ "erase" \notin Noting
    BY DEF Step, Noting
  <2>3. at # Booting /\ NvTypeOK /\ nvState \in EraseDue(c)
    BY <2>1, <2>2, HereIs, AtStep
  <2>4. NvTypeOK' /\ nvState' \in Here(c, "noteErased")
    BY <2>1, <2>3, HereIs DEF NvTypeOK
  <2>5. PlaceOK' /\ at' # Booting
    BY <2>1, <2>2, <2>4, StepPlace DEF NvInv, PlaceOK
  <2>6. Reached \in EraseDue(c)
    BY <2>1, <2>2, <2>3, ReachedIs DEF ReachedAre
  <2>7. Reached' = <<c, "ERASED">> /\ (c = "BAK" => Pages' = 0)
    BY <2>1, ReachedIsNext DEF ReachedAre
  <2> QED
    BY <1>1, <2>1, <2>3, <2>4, <2>5, <2>6, <2>7, EraseGot
<1>2. CASE Go(t, At(c, "erase"), At(c, "eraseFull"))
  <2>1. pc'[t] = At(c, "eraseFull")
    BY <1>2 DEF Go, NvInv, NvTypeOK
  <2> QED
    BY <2>1, SyncFullStep
<1> QED
  BY <1>1, <1>2 DEF SyncErase

LEMMA SyncWriteStep ==
  ASSUME OneBuffer, OneThread, NvInv, NEW t \in Thread, NEW c \in Copy, SyncWrite(t, c)
  PROVE  NvInv'
<1>1. CASE /\ Go(t, At(c, "write"), At(c, "noteWritten"))
           /\ IF c = "MAIN" THEN WriteAsync(Main, 0, PageCount - 1, Uniform(ram))
              ELSE WriteAsync(Bak, size, size, View(Main))
  <2>1. /\ at = At(c, "write") /\ DOMAIN pc' = Thread /\ at' = At(c, "noteWritten")
        /\ UNCHANGED <<ram, isUpdate, nvState, size, floor>>
    BY <1>1, AtIs DEF SyncWrite, Go, NvInv
  <2>2. {"write", "noteWritten"} \subseteq Step /\ "write" \notin Noting /\ "BAK" # "MAIN"
    BY DEF Step, Noting
  <2>3. at # Booting /\ NvTypeOK /\ nvState \in Here(c, "write")
    BY <2>1, <2>2, AtStep
  <2>4. NvTypeOK' /\ nvState' \in Here(c, "noteWritten")
    BY <2>1, <2>3, HereIs DEF NvTypeOK
  <2>5. PlaceOK' /\ at' # Booting
    BY <2>1, <2>2, <2>4, StepPlace DEF NvInv, PlaceOK
  <2>6. Reached = nvState /\ Pages = IF nvState = <<"BAK", "ERASED">> THEN 0 ELSE size
    BY <2>1, <2>2, ReachedIs DEF ReachedAre
  <2>7. CASE c = "MAIN"
    <3>1. Reached \in WriteDue("MAIN")
      BY <2>3, <2>6, <2>7, HereIs
    <3>2. Reached' = WRITTEN("MAIN")
      BY <2>1, <2>7, ReachedIsNext DEF ReachedAre
    <3> QED
      BY <1>1, <2>1, <2>3, <2>4, <2>5, <2>7, <3>1, <3>2, MainGot
  <2>8. CASE c = "BAK"
    <3>1. nvState = <<"BAK", "WRITTING">>
      BY <2>2, <2>3, <2>8, HereIs
    <3>2. Reached = <<"BAK", "WRITTING">> /\ Pages = size /\ Reached \in WriteDue("BAK")
      BY <2>6, <3>1 DEF WriteDue
    <3>3. Reached' = <<"BAK", "WRITTING">> /\ Pages' = size + 1
      BY <2>1, <2>8, <3>1, ReachedIsNext DEF ReachedAre
    <3>4. size \in Nat /\ size \in Page
      BY <2>3, <3>1, CountsAssumption DEF NvInv, NvTypeOK, PlaceOK, Page
    <3>5. PICK k \in Nat : k = size /\ k \in Page /\ k <= k
      BY <3>4
    <3>6. WriteAsync(Bak, k, k, View(Main))
      BY <1>1, <2>2, <2>8, <3>5
    <3>7. k = Pages /\ Pages' = k + 1
      BY <3>2, <3>3, <3>5
    <3> QED
      BY <2>1, <2>3, <2>4, <2>5, <3>2, <3>3, <3>5, <3>6, <3>7, BakGot
  <2> QED
    BY <2>7, <2>8 DEF Copy
<1>2. CASE Go(t, At(c, "write"), At(c, "writeFull"))
  <2>1. pc'[t] = At(c, "writeFull")
    BY <1>2 DEF Go, NvInv, NvTypeOK
  <2> QED
    BY <2>1, SyncFullStep
<1> QED
  BY <1>1, <1>2 DEF SyncWrite

LEMMA SyncCountStep ==
  ASSUME OneBuffer, OneThread, NvInv, NEW t \in Thread, NEW c \in Copy, SyncCount(t, c)
  PROVE  NvInv'
<1>1. CASE OwnPending
  BY <1>1, SyncCountMore
<1>2. CASE ~OwnPending
  <2>1. /\ at = At(c, "count") /\ DOMAIN pc' = Thread
        /\ at' = IF c = "MAIN" THEN At("BAK", "start") ELSE Looping
        /\ nvState' = IF c = "MAIN" THEN <<"MAIN", "DONE">> ELSE IDLE
        /\ floor' = Saved(c)
        /\ UNCHANGED <<ram, isUpdate, size, vars>>
    BY <1>2, AtIs DEF SyncCount, Go, NvInv
  <2>2. {"count", "start"} \subseteq Step \ Noting /\ "BAK" # "MAIN" /\ "BAK" \in Copy
    BY DEF Step, Noting, Copy
  <2>3. at # Booting /\ NvTypeOK /\ nvState = WRITTEN(c)
    BY <2>1, <2>2, HereIs, AtStep
  <2>4. Reached = WRITTEN(c)
    BY <2>1, <2>2, <2>3, ReachedIs DEF ReachedAre
  <2>5. CASE c = "MAIN"
    <3>1. at' = At("BAK", "start") /\ nvState' = <<"MAIN", "DONE">> /\ floor' = floor
      BY <2>1, <2>2, <2>5 DEF Saved
    <3>2. NvTypeOK'
      BY <2>1, <2>3, <3>1 DEF NvTypeOK, NvState, Copy, Phase
    <3>3. nvState' \in Here("BAK", "start")
      BY <2>2, <3>1, HereIs, PhasesDiffer
    <3>4. PlaceOK' /\ at' # Booting
      BY <2>2, <3>1, <3>3, StepPlace
    <3>5. Reached' = <<"MAIN", "DONE">>
      BY <2>2, <3>1, ReachedIsNext DEF ReachedAre
    <3> QED
      BY <1>2, <2>1, <2>3, <2>4, <2>5, <3>1, <3>2, <3>4, <3>5, MainFinished
  <2>6. CASE c = "BAK"
    <3>1. at' = Looping /\ nvState' = IDLE /\ floor' = Saved("BAK")
      BY <2>1, <2>2, <2>6
    <3>2. floor' \in Data \cup {0}
      BY <2>3, <3>1, UniformDiffer DEF Saved, IsValid, NvTypeOK
    <3>3. NvTypeOK'
      BY <2>1, <2>3, <3>1, <3>2 DEF NvTypeOK, NvState
    <3>4. PlaceOK' /\ at' # Booting
      BY <3>1, RestPlace DEF IDLE
    <3>5. Reached' = IDLE
      BY <3>1, ReachedIsNext DEF ReachedAre
    <3> QED
      BY <1>2, <2>1, <2>3, <2>4, <2>6, <3>1, <3>3, <3>4, <3>5, BakFinished
  <2> QED
    BY <2>5, <2>6 DEF Copy
<1> QED
  BY <1>1, <1>2

(***************************************************************************)
(* The rounds of the idle hook: the thread rests.                          *)
(***************************************************************************)
LEMMA AsyncIs ==
  ASSUME OneThread, NvInv, Async
  PROVE  /\ at = Resting /\ at' = Resting /\ at # Booting /\ at' # Booting
         /\ DOMAIN pc' = Thread /\ NvTypeOK /\ UNCHANGED ram
         /\ Reached = nvState /\ Pages = IF nvState = <<"BAK", "ERASED">> THEN 0 ELSE size
         /\ Reached' = nvState' /\ Pages' = IF nvState' = <<"BAK", "ERASED">> THEN 0 ELSE size'
<1>1. PICK t : Thread = {t}
  BY DEF OneThread
<1>2. /\ at = Resting /\ at' = Resting /\ DOMAIN pc' = Thread /\ NvTypeOK /\ UNCHANGED ram
  BY <1>1, AtIs DEF Async, NvInv, at, NvTypeOK
<1> QED
  BY <1>2, PlacesDiffer, ReachedIs, ReachedIsNext DEF ReachedAre

LEMMA AsyncEraseStep ==
  ASSUME OneBuffer, OneThread, NvInv, NEW c \in Copy, AsyncErase(c)
  PROVE  NvInv'
<1>1. /\ at = Resting /\ at' = Resting /\ at # Booting /\ at' # Booting
      /\ DOMAIN pc' = Thread /\ NvTypeOK /\ UNCHANGED ram
      /\ Reached = nvState
      /\ Reached' = nvState' /\ Pages' = IF nvState' = <<"BAK", "ERASED">> THEN 0 ELSE size'
  BY AsyncIs DEF AsyncErase
<1>2. nvState \in EraseDue(c) /\ UNCHANGED <<isUpdate, size, floor>>
  BY DEF AsyncErase
<1>3. CASE EraseAsync(SectorOf(c)) /\ nvState' = <<c, "ERASED">>
  <2>1. NvTypeOK'
    BY <1>1, <1>2, <1>3 DEF NvTypeOK, NvState, Phase
  <2>2. PlaceOK'
    BY <1>1, <1>3, RestPlace
  <2> QED
    BY <1>1, <1>2, <1>3, <2>1, <2>2, EraseGot
<1>4. CASE FlushOnce /\ nvState' = <<c, "ERASING">>
  <2>1. NvTypeOK'
    BY <1>1, <1>2, <1>4 DEF NvTypeOK, NvState, Phase
  <2>2. PlaceOK'
    BY <1>1, <1>4, RestPlace
  <2>3. {Reached, Reached'} \subseteq EraseDue(c)
    BY <1>1, <1>2, <1>4 DEF EraseDue
  <2>4. SameProgress(Reached, Pages, Reached', Pages')
    BY <2>3 DEF SameProgress
  <2> QED
    BY <1>1, <1>2, <1>4, <2>1, <2>2, <2>4, MirrorIs, Moved
<1> QED
  BY <1>3, <1>4 DEF AsyncErase

LEMMA AsyncWriteMainStep ==
  ASSUME OneBuffer, OneThread, NvInv, AsyncWriteMain
  PROVE  NvInv'
<1>1. /\ at = Resting /\ at' = Resting /\ at # Booting /\ at' # Booting
      /\ DOMAIN pc' = Thread /\ NvTypeOK /\ UNCHANGED ram
      /\ Reached = nvState /\ Reached' = nvState'
  BY AsyncIs DEF AsyncWriteMain
<1>2. nvState \in WriteDue("MAIN") /\ UNCHANGED <<size, floor>>
  BY DEF AsyncWriteMain
<1>3. CASE /\ WriteAsync(Main, 0, PageCount - 1, Uniform(ram))
           /\ nvState' = <<"MAIN", "WRITTEN">> /\ isUpdate' = FALSE
  <2>1. NvTypeOK'
    BY <1>1, <1>2, <1>3 DEF NvTypeOK, NvState, Phase, Copy
  <2>2. PlaceOK'
    BY <1>1, <1>3, RestPlace
  <2> QED
    BY <1>1, <1>2, <1>3, <2>1, <2>2, MainGot DEF WRITTEN
<1>4. CASE FlushOnce /\ nvState' = <<"MAIN", "WRITTING">> /\ UNCHANGED isUpdate
  <2>1. NvTypeOK'
    BY <1>1, <1>2, <1>4 DEF NvTypeOK, NvState, Phase, Copy
  <2>2. PlaceOK'
    BY <1>1, <1>4, RestPlace
  <2>3. {Reached, Reached'} \subseteq WriteDue("MAIN")
    BY <1>1, <1>2, <1>4 DEF WriteDue
  <2>4. SameProgress(Reached, Pages, Reached', Pages')
    BY <2>3 DEF SameProgress
  <2> QED
    BY <1>1, <1>2, <1>4, <2>1, <2>2, <2>4, MirrorIs, Moved
<1> QED
  BY <1>3, <1>4 DEF AsyncWriteMain

LEMMA AsyncWriteBakStep ==
  ASSUME OneBuffer, OneThread, NvInv, AsyncWriteBak
  PROVE  NvInv'
<1> DEFINE from == IF nvState = <<"BAK", "ERASED">> THEN 0 ELSE size
<1>1. /\ at = Resting /\ at' = Resting /\ at # Booting /\ at' # Booting
      /\ DOMAIN pc' = Thread /\ NvTypeOK /\ UNCHANGED ram
      /\ Reached = nvState /\ Pages = from
      /\ Reached' = nvState' /\ Pages' = IF nvState' = <<"BAK", "ERASED">> THEN 0 ELSE size'
  BY AsyncIs DEF AsyncWriteBak
<1>2. nvState \in WriteDue("BAK") /\ UNCHANGED <<isUpdate, floor>>
  BY DEF AsyncWriteBak
<1>3. from \in Nat /\ from < PageCount /\ PageCount \in Nat
  BY <1>1, <1>2, CountsAssumption DEF NvInv, NvTypeOK, PlaceOK, WriteDue
<1>4. CASE /\ WriteAsync(Bak, from, PageCount - 1, View(Main))
           /\ nvState' = WRITTEN("BAK") /\ size' = PageCount
  <2>1. NvTypeOK'
    BY <1>1, <1>2, <1>3, <1>4 DEF NvTypeOK, NvState, Phase, Copy, WRITTEN
  <2>2. PlaceOK'
    BY <1>1, <1>4, RestPlace DEF WRITTEN
  <2>3. PICK k \in Nat : k = from
    BY <1>3
  <2>4. PICK hi \in Page : hi = PageCount - 1 /\ k <= hi /\ hi + 1 = PageCount
    BY <1>3, <2>3 DEF Page
  <2>5. Pages' = hi + 1
    BY <1>1, <1>4, <2>4 DEF WRITTEN
  <2>6. WriteAsync(Bak, k, hi, View(Main)) /\ k = Pages
    BY <1>1, <1>4, <2>3, <2>4
  <2> QED
    BY <1>1, <1>2, <1>4, <2>1, <2>2, <2>4, <2>5, <2>6, BakGot
<1>5. CASE FlushOnce /\ nvState' = <<"BAK", "WRITTING">> /\ size' = from
  <2>1. NvTypeOK'
    BY <1>1, <1>2, <1>3, <1>5 DEF NvTypeOK, NvState, Phase, Copy
  <2>2. PlaceOK'
    BY <1>1, <1>3, <1>5, RestPlace
  <2>3. Reached' = <<"BAK", "WRITTING">> /\ Pages' = from
    BY <1>1, <1>5
  <2>4. nvState = <<"BAK", "ERASED">> => from = 0
    OBVIOUS
  <2>5. SameProgress(Reached, Pages, Reached', Pages')
    BY <1>1, <1>2, <2>3, <2>4 DEF SameProgress, WriteDue
  <2> QED
    BY <1>1, <1>2, <1>5, <2>1, <2>2, <2>5, MirrorIs, Moved
<1> QED
  BY <1>4, <1>5 DEF AsyncWriteBak, WRITTEN

LEMMA AsyncWaitStep ==
  ASSUME OneBuffer, OneThread, NvInv, NEW c \in Copy, AsyncWait(c)
  PROVE  NvInv'
<1>1. /\ at = Resting /\ at' = Resting /\ at # Booting /\ at' # Booting
      /\ DOMAIN pc' = Thread /\ NvTypeOK /\ UNCHANGED ram
      /\ Reached = nvState /\ Pages = IF nvState = <<"BAK", "ERASED">> THEN 0 ELSE size
      /\ Reached' = nvState' /\ Pages' = IF nvState' = <<"BAK", "ERASED">> THEN 0 ELSE size'
  BY AsyncIs DEF AsyncWait
<1>2. Due(c) /\ nvState \notin EraseDue(c) \cup WriteDue(c) /\ UNCHANGED <<isUpdate, size>>
  BY DEF AsyncWait
<1>3. nvState = WRITTEN(c)
  BY <1>2, PhasesDiffer DEF Due, NvInv, PlaceOK, Copy
<1>4. CASE OwnPending
  <2>1. FlushOnce /\ UNCHANGED <<nvState, floor>>
    BY <1>4 DEF AsyncWait
  <2>2. NvTypeOK'
    BY <1>1, <1>2, <2>1 DEF NvTypeOK
  <2>3. PlaceOK'
    BY <1>1, <1>2, <2>1, RestPlace DEF NvInv, PlaceOK
  <2>4. SameProgress(Reached, Pages, Reached', Pages')
    BY <1>1, <1>2, <2>1 DEF SameProgress
  <2> QED
    BY <1>1, <2>1, <2>2, <2>3, <2>4, MirrorIs, Moved
<1>5. CASE ~OwnPending
  <2>1. /\ nvState' = IF c = "MAIN" THEN <<"MAIN", "DONE">> ELSE IDLE
        /\ floor' = Saved(c) /\ UNCHANGED vars
    BY <1>5 DEF AsyncWait
  <2>2. CASE c = "MAIN"
    <3>1. nvState' = <<"MAIN", "DONE">> /\ floor' = floor
      BY <2>1, <2>2 DEF Saved
    <3>2. NvTypeOK'
      BY <1>1, <1>2, <3>1 DEF NvTypeOK, NvState, Copy, Phase
    <3>3. PlaceOK'
      BY <1>1, <3>1, RestPlace
    <3> QED
      BY <1>1, <1>3, <1>5, <2>1, <2>2, <3>1, <3>2, <3>3, MainFinished
  <2>3. CASE c = "BAK"
    <3>1. nvState' = IDLE /\ floor' = Saved("BAK")
      BY <2>1, <2>3
    <3>2. floor' \in Data \cup {0}
      BY <1>1, <3>1, UniformDiffer DEF Saved, IsValid, NvTypeOK
    <3>3. NvTypeOK'
      BY <1>1, <1>2, <3>1, <3>2 DEF NvTypeOK, NvState
    <3>4. PlaceOK'
      BY <1>1, <3>1, RestPlace DEF IDLE
    <3> QED
      BY <1>1, <1>3, <1>5, <2>1, <2>3, <3>1, <3>3, <3>4, BakFinished
  <2> QED
    BY <2>2, <2>3 DEF Copy
<1> QED
  BY <1>4, <1>5

-----------------------------------------------------------------------------
(***************************************************************************)
(* How far the flush got, said of the two sectors: one of them is on the   *)
(* chip and holds a version, unless no flush ever finished.                *)
(***************************************************************************)
LEMMA OneGood ==
  ASSUME NvInv
  PROVE  /\ ~(Busy(Main) /\ Busy(Bak))
         /\ floor > 0 => \/ ~Busy(Main) /\ IsValid(View(Main))
                         \/ ~Busy(Bak) /\ IsValid(View(Bak))
         /\ floor > 0 /\ Busy(Main) => IsValid(View(Bak))
         /\ floor > 0 /\ Busy(Bak) => IsValid(View(Main))
<1>1. CASE at = Booting
  BY <1>1 DEF NvInv, Loadable
<1>2. CASE at # Booting
  <2>1. PICK r \in NvState, k \in Nat : r = Reached /\ k = Pages /\ Progressed(r, k)
    BY <1>2 DEF NvInv, Loadable
  <2>2. r # <<"BAK", "DONE">>
    BY <2>1 DEF Reached, WRITTEN, NvInv, PlaceOK
  <2>3. \A v \in Data : MainHolds(v) => IsValid(View(Main))
    BY UniformDiffer DEF MainHolds
  <2>4. BakSafe => ~Busy(Bak) /\ (floor > 0 => IsValid(View(Bak)))
    BY DEF BakSafe
  <2> HIDE DEF BakSafe, MainHolds
  <2>5. CASE r \in EraseDue("MAIN") \cup WriteDue("MAIN") \cup {WRITTEN("MAIN")}
    BY <2>1, <2>4, <2>5 DEF Progressed
  <2>6. CASE r \in EraseDue("BAK") \cup WriteDue("BAK") \cup {WRITTEN("BAK")}
    BY <2>1, <2>3, <2>6 DEF Progressed
  <2> QED
    BY <2>2, <2>5, <2>6, PhasesDiffer
<1> QED
  BY <1>1, <1>2

(***************************************************************************)
(* The boot loads the newest of what is there, which is not older than the *)
(* last finished flush, and repairs the other copy.                        *)
(***************************************************************************)
LEMMA BootStep ==
  ASSUME OneBuffer, OneThread, NvInv, NEW t \in Thread, Boot(t)
  PROVE  NvInv' /\ ram' >= floor
<1> DEFINE mainOk == IsValid(flash[Main])
           bakOk == IsValid(flash[Bak])
<1>1. /\ at = Booting /\ NvTypeOK /\ StoreInv /\ call = NoCall /\ NoOlder(floor)
      /\ ~Busy(Main) /\ ~Busy(Bak)
      /\ floor > 0 => IsValid(View(Main)) \/ IsValid(View(Bak))
      /\ floor \in Nat /\ Data \subseteq Nat /\ 1 \in Data
  BY AtIs, NvAssumption DEF Boot, NvInv, Loadable, NvTypeOK
<1>2. \A s \in {Main, Bak} : View(s) = flash[s] /\ Raw(s) = flash[s]
  BY <1>1, CleanIs, NvAssumption DEF Busy
<1>3. /\ ram' = IF mainOk THEN VersionOf(flash[Main])
                ELSE IF bakOk THEN VersionOf(flash[Bak]) ELSE 1
      /\ isUpdate' = ~(mainOk /\ bakOk)
      /\ nvState' = IF mainOk /\ ~bakOk THEN <<"MAIN", "DONE">> ELSE IDLE
      /\ at' = IF mainOk /\ bakOk THEN Resting ELSE Looping
      /\ DOMAIN pc' = Thread
      /\ size' = 0 /\ UNCHANGED <<floor, vars>>
  BY <1>1, <1>2, AtIs DEF Boot
<1>4. ASSUME NEW s \in {Main, Bak}, IsValid(flash[s])
      PROVE  /\ VersionOf(flash[s]) \in Data /\ flash[s] = Uniform(VersionOf(flash[s]))
             /\ floor <= VersionOf(flash[s])
  <2>1. PICK v \in Data : flash[s] = Uniform(v)
    BY <1>4 DEF IsValid
  <2>2. VersionOf(flash[s]) = v
    BY <2>1, UniformDiffer
  <2>3. 0 \in Page
    BY CountsAssumption DEF Page
  <2>4. PICK f : f = floor /\ NoOlder(f)
    BY <1>1
  <2>5. flash[s][0] = v /\ v \in Fresh(f)
    BY <2>1, <2>3, <2>4 DEF Uniform, NoOlder, Within, InPages
  <2>6. v >= f
    BY <2>5, ValueAssumption DEF Fresh
  <2> QED
    BY <1>1, <2>1, <2>2, <2>4, <2>6
<1>5. ram' \in Data /\ floor <= ram' /\ floor' <= ram'
  <2>1. CASE mainOk
    BY <1>3, <1>4, <2>1
  <2>2. CASE ~mainOk /\ bakOk
    BY <1>3, <1>4, <2>2
  <2>3. CASE ~mainOk /\ ~bakOk
    <3>1. floor = 0
      BY <1>1, <1>2, <2>3
    <3> QED
      BY <1>1, <1>3, <2>3, <3>1
  <2> QED
    BY <2>1, <2>2, <2>3
<1>6. StoreInv' /\ call' = NoCall /\ Calm
  BY <1>1, <1>3, FlushCalm
<1>7. PICK f : f = floor /\ NoOlder(f)
  BY <1>1
<1>8. NoOlder(f)' /\ f = floor'
  BY <1>1, <1>3, <1>7, CalmNoOlder
<1>9. 0 \in 0..PageCount /\ isUpdate' \in BOOLEAN
  BY <1>3, CountsAssumption
<1>10. nvState' \in NvState
  BY <1>3 DEF NvState, Copy, Phase
<1>11. NvTypeOK'
  BY <1>1, <1>3, <1>5, <1>9, <1>10 DEF NvTypeOK
<1>12. PlaceOK' /\ at' # Booting
  BY <1>3, RestPlace DEF IDLE
<1>13. Reached' = nvState'
  BY <1>3, ReachedIsNext DEF ReachedAre
<1>14. PICK r \in NvState, k \in Nat : r = Reached' /\ k = Pages'
  BY <1>11, ReachedTypesNext DEF ReachedType
<1>15. /\ ~Busy(Main)' /\ ~Busy(Bak)'
       /\ View(Main)' = flash[Main] /\ View(Bak)' = flash[Bak]
  BY <1>1, <1>2, <1>6 DEF Calm, Untouched
<1>16. Progressed(r, k)'
  <2>1. CASE mainOk /\ ~bakOk
    <3>1. r = <<"MAIN", "DONE">>
      BY <1>3, <1>13, <1>14, <2>1
    <3>2. \E v \in Data : MainHolds(v)'
      <4>1. PICK v \in Data : v = ram'
        BY <1>5
      <4>2. v <= ram' /\ View(Main)' = Uniform(v)
        BY <1>1, <1>3, <1>4, <1>15, <2>1, <4>1
      <4> QED
        BY <4>2 DEF MainHolds
    <3> HIDE DEF MainHolds
    <3> QED
      BY <1>15, <3>1, <3>2, PhasesDiffer DEF Progressed, WRITTEN, IDLE
  <2>2. CASE ~(mainOk /\ ~bakOk)
    <3>1. r = IDLE
      BY <1>3, <1>13, <1>14, <2>2
    <3>2. floor' > 0 => IsValid(View(Bak))'
      BY <1>1, <1>2, <1>3, <1>15, <2>2 DEF IsValid
    <3>3. BakSafe'
      BY <1>15, <3>2 DEF BakSafe
    <3> HIDE DEF BakSafe
    <3> QED
      BY <1>15, <3>1, <3>3, PhasesDiffer DEF Progressed, WRITTEN, IDLE
  <2> QED
    BY <2>1, <2>2
<1>17. NvInv'
  BY <1>5, <1>6, <1>8, <1>11, <1>12, <1>14, <1>16, GotTo
<1> QED
  BY <1>1, <1>5, <1>17

(***************************************************************************)
(* The rest of the system.                                                 *)
(***************************************************************************)
LEMMA RestIs ==
  ASSUME OneThread, NvInv, Booted, UNCHANGED nvVars
  PROVE  /\ at # Booting /\ at' # Booting /\ NvTypeOK' /\ PlaceOK'
         /\ UNCHANGED <<ram, floor>> /\ SameProgress(Reached, Pages, Reached', Pages')
<1>1. PICK t : Thread = {t}
  BY DEF OneThread
<1>2. UNCHANGED <<ram, isUpdate, nvState, size, pc, floor>> /\ NvTypeOK /\ PlaceOK
  BY DEF nvVars, NvInv
<1>3. at # Booting /\ at' = at
  BY <1>1, <1>2, AtIs DEF at
<1>4. Reached' = Reached /\ Pages' = Pages
  BY <1>2, <1>3 DEF Reached, Pages
<1>5. SameProgress(Reached, Pages, Reached', Pages')
  BY <1>4 DEF SameProgress
<1>6. NvTypeOK' /\ PlaceOK'
  BY <1>2, <1>3 DEF NvTypeOK, PlaceOK
<1> QED
  BY <1>2, <1>3, <1>5, <1>6

LEMMA RestStep ==
  ASSUME OneBuffer, OneThread, NvInv, IdleFlush \/ OtherClient \/ CpClient
  PROVE  NvInv'
<1>1. /\ at # Booting /\ at' # Booting /\ NvTypeOK' /\ PlaceOK'
      /\ UNCHANGED <<ram, floor>> /\ SameProgress(Reached, Pages, Reached', Pages')
  BY RestIs DEF IdleFlush, OtherClient, CpClient
<1>2. CASE IdleFlush \/ CpClient
  <2>1. FlushOnce \/ FlushDisable \/ FlushEnable \/ CpReady
    BY <1>2 DEF IdleFlush, CpClient, FlushOnce
  <2> QED
    BY <1>1, <2>1, MirrorIs, Moved
<1>3. CASE OtherClient
  <2>1. PICK s \in Sector \ {Main, Bak} :
          EraseAsync(s) \/ (Writable(s, 0, 0, 1) /\ WriteAsync(s, 0, 0, Uniform(1)))
    BY <1>3 DEF OtherClient
  <2>2. StoreInv /\ call = NoCall
    BY DEF NvInv
  <2>3. StoreInv' /\ call' = NoCall /\ Calm
    BY <2>1, <2>2, OtherCalm
  <2>4. \A f : NoOlder(f) => NoOlder(f)'
    BY <2>1, <2>2, CalmNoOlder
  <2>5. Pages' \in Nat /\ Reached' \in NvState
    BY <1>1, ReachedTypesNext DEF ReachedType
  <2> QED
    BY <1>1, <2>3, <2>4, <2>5, MirrorIs, CalmStep
<1> QED
  BY <1>2, <1>3

(***************************************************************************)
(* A power loss leaves the sector that was on the chip as it was.          *)
(***************************************************************************)
LEMMA RebootStep ==
  ASSUME OneBuffer, OneThread, NvInv, Reboot
  PROVE  NvInv'
<1>1. StoreInv /\ call = NoCall /\ {Main, Bak} \subseteq Sector /\ floor \in Data \cup {0}
  BY NvAssumption DEF NvInv, NvTypeOK
<1>2. /\ PowerLoss /\ ram' = 0 /\ isUpdate' = FALSE /\ nvState' = IDLE /\ size' = 0
      /\ pc' = AllBooting /\ floor' = floor
  BY DEF Reboot
<1>3. /\ StoreInv' /\ call' = NoCall /\ Dirty' = {}
      /\ \A s \in Sector \ Dirty : Image'[s] = Image[s]
  BY <1>1, <1>2, RestartViews
<1>4. ~Busy(Main)' /\ ~Busy(Bak)'
  BY <1>1, <1>3, BusyIs
<1>5. \A s \in {Main, Bak} : ~Busy(s) => View(s)' = View(s)
  <2>1. \A s \in {Main, Bak} : ~Busy(s) => Image'[s] = Image[s]
    BY <1>1, <1>3, BusyIs
  <2> QED
    BY <1>1, <2>1 DEF Image
<1>6. floor' > 0 => IsValid(View(Main))' \/ IsValid(View(Bak))'
  BY <1>2, <1>5, OneGood DEF IsValid
<1>7. at' = Booting /\ DOMAIN pc' = Thread
  BY <1>2 DEF OneThread, AllBooting, FirstThread, at
<1>8. Loadable'
  BY <1>4, <1>6, <1>7 DEF Loadable
<1>9. NvTypeOK'
  <2>1. 0 \in 0..PageCount
    BY CountsAssumption
  <2>2. IDLE \in NvState
    BY DEF NvState
  <2> QED
    BY <1>1, <1>2, <1>7, <2>1, <2>2 DEF NvTypeOK
<1>10. \A c \in Copy, x \in Step : at' # At(c, x)
  BY <1>7, PlacesDiffer
<1>11. PlaceOK'
  BY <1>2, <1>7, <1>10 DEF PlaceOK, IDLE
<1>12. PICK f : f = floor /\ NoOlder(f)
  BY DEF NvInv
<1>13. NoOlder(f)'
  <2> SUFFICES ASSUME NEW s \in {Main, Bak}
               PROVE  Within(s, Fresh(f))'
    BY DEF NoOlder, Fresh
  <2> DEFINE G == Fresh(f)
  <2>1. {Erased, Garbled} \subseteq G /\ Within(s, G)
    BY <1>12 DEF NoOlder, Fresh
  <2> HIDE DEF G
  <2>2. Within(s, G)'
    BY <1>1, <1>2, <2>1, RestartWithin
  <2> QED
    BY <2>2 DEF G
<1>14. NoOlder(floor)'
  BY <1>2, <1>12, <1>13 DEF NoOlder, Fresh, Within
<1> QED
  BY <1>3, <1>8, <1>9, <1>11, <1>14 DEF NvInv

-----------------------------------------------------------------------------
(***************************************************************************)
(* The invariant holds at the first boot, and every step keeps it.         *)
(***************************************************************************)
LEMMA NvInitInv ==
  ASSUME OneThread, NvInit
  PROVE  NvInv
<1>1. StoreInv /\ call = NoCall /\ {Main, Bak} \subseteq Sector
  BY InitStore, NvAssumption DEF NvInit, Init
<1>2. \A s \in {Main, Bak} : /\ flash[s] = Blank /\ queue[Owner[s]] = <<>>
                             /\ Len(queue[Owner[s]]) = 0 /\ ~Busy(s)
  <2> SUFFICES ASSUME NEW s \in {Main, Bak}
               PROVE  /\ flash[s] = Blank /\ queue[Owner[s]] = <<>>
                      /\ Len(queue[Owner[s]]) = 0 /\ ~Busy(s)
    OBVIOUS
  <2>1. flash[s] = Blank /\ queue[Owner[s]] = <<>>
    BY <1>1, OwnerAssumption DEF NvInit, Init
  <2>2. Len(queue[Owner[s]]) = 0 /\ DOMAIN queue[Owner[s]] = {}
    BY <2>1, EmptySeq
  <2> QED
    BY <2>1, <2>2 DEF Busy, OnSector
<1>3. at = Booting /\ DOMAIN pc = Thread
  BY DEF OneThread, NvInit, AllBooting, FirstThread, at
<1>4. NvTypeOK
  <2>1. 0 \in 0..PageCount
    BY CountsAssumption
  <2>2. IDLE \in NvState
    BY DEF NvState
  <2> QED
    BY <1>3, <2>1, <2>2 DEF NvInit, NvTypeOK
<1>5. \A c \in Copy, x \in Step : at # At(c, x)
  BY <1>3, PlacesDiffer
<1>6. PlaceOK
  BY <1>3, <1>5 DEF NvInit, PlaceOK, IDLE
<1>7. Loadable
  BY <1>2, <1>3 DEF NvInit, Loadable
<1>8. NoOlder(floor)
  BY <1>2 DEF NoOlder, Within, InPages, OpsIn, Blank, Uniform, Fresh
<1> QED
  BY <1>1, <1>4, <1>6, <1>7, <1>8 DEF NvInv

LEMMA NvStutter ==
  ASSUME OneBuffer, NvInv, UNCHANGED allVars
  PROVE  NvInv'
<1>1. /\ UNCHANGED <<flash, queue, state, suspendState, opPage, curMod, curModId, gate, call,
                     broken>>
      /\ UNCHANGED <<ram, isUpdate, nvState, size, pc, floor>>
  BY DEF allVars, vars, nvVars
<1>2. Reached' = Reached /\ Pages' = Pages /\ at' = at
  BY <1>1 DEF Reached, Pages, at
<1>3. \A s : View(s)' = View(s) /\ Busy(s)' = Busy(s)
  BY <1>1 DEF View, Raw, Busy
<1>4. NvTypeOK' /\ PlaceOK'
  BY <1>1, <1>2 DEF NvInv, NvTypeOK, PlaceOK
<1>5. NoOlder(floor)'
  BY <1>1 DEF NvInv, NoOlder, Within, Fresh
<1>6. \A r, k : Progressed(r, k) => Progressed(r, k)'
  <2>1. BakSafe' <=> BakSafe
    BY <1>1, <1>3 DEF BakSafe
  <2>2. \A v : MainHolds(v)' <=> MainHolds(v)
    BY <1>1, <1>3 DEF MainHolds
  <2>3. \A v, k : Copied(v, k)' <=> Copied(v, k)
    BY <1>3 DEF Copied
  <2> QED
    BY <1>3, <2>1, <2>2, <2>3 DEF Progressed
<1>7. Loadable'
  BY <1>1, <1>2, <1>3, <1>6 DEF NvInv, Loadable
<1>8. StoreInv'
  BY GateViews DEF NvInv, allVars
<1> QED
  BY <1>1, <1>4, <1>5, <1>7, <1>8 DEF NvInv

LEMMA NvNextInv ==
  ASSUME OneBuffer, OneThread, NvInv, [NvNext]_allVars
  PROVE  NvInv'
<1>1. ASSUME NEW t \in Thread, SyncStepOf(t)
      PROVE  NvInv'
  BY <1>1, SyncLoopStep, SyncStartStep, SyncEraseStep, SyncFullStep, SyncNoteErasedStep,
     SyncErasedStep, SyncWriteStep, SyncCountStep, SyncNoteMainWrittenStep,
     SyncNoteBakWrittenStep
  DEF SyncStepOf
<1>2. ASSUME AsyncStep
      PROVE  NvInv'
  BY <1>2, AsyncEraseStep, AsyncWaitStep, AsyncWriteMainStep, AsyncWriteBakStep DEF AsyncStep
<1>3. CASE UNCHANGED allVars
  BY <1>3, NvStutter
<1> QED
  BY <1>1, <1>2, <1>3, BootStep, SyncCallStep, UpdateStep, RestStep, RebootStep DEF NvNext

(***************************************************************************)
(* The inductive invariant of the user data record: how far a flush got is *)
(* what the two sectors hold, at each of its steps.                        *)
(***************************************************************************)
THEOREM NvInvariant == OneBuffer /\ OneThread => (NvSpec => []NvInv)
<1> SUFFICES ASSUME OneBuffer, OneThread
             PROVE  NvSpec => []NvInv
  OBVIOUS
<1>1. NvInit => NvInv
  BY NvInitInv
<1>2. NvInv /\ [NvNext]_allVars => NvInv'
  BY NvNextInv
<1> QED
  BY <1>1, <1>2, PTL DEF NvSpec

-----------------------------------------------------------------------------
(***************************************************************************)
(* What the record writes follows the flash rule: its sector was erased,   *)
(* or holds the same version where the copy of a page is done again.       *)
(***************************************************************************)
LEMMA MainKeepsRule ==
  ASSUME NvInv, at # Booting, Reached \in WriteDue("MAIN"),
         WriteAsync(Main, 0, PageCount - 1, Uniform(ram))
  PROVE  Next
<1>1. PICK d \in Data : d = ram
  BY DEF NvInv, Loadable
<1>2. View(Main) = Blank
  BY DEF NvInv, Loadable, Progressed
<1>3. PICK hi \in Page : hi = PageCount - 1 /\ 0 \in Page /\ 0 <= hi
  BY CountsAssumption DEF Page
<1>4. Writable(Main, 0, hi, d)
  BY <1>2, <1>3 DEF Writable, Blank, Uniform, Page
<1>5. WriteAsync(Main, 0, hi, Uniform(d)) /\ Main \in Sector
  BY <1>1, <1>3, NvAssumption
<1> QED
  BY <1>3, <1>4, <1>5 DEF ClientCall, Next

LEMMA BakKeepsRule ==
  ASSUME NvInv, at # Booting, Reached \in WriteDue("BAK"),
         NEW k \in Nat, k = Pages, NEW hi \in Page, k <= hi,
         WriteAsync(Bak, k, hi, View(Main))
  PROVE  Next
<1>1. PICK v \in Data : MainHolds(v) /\ Copied(v, k)
  BY DEF NvInv, Loadable, Progressed
<1>2. k \in Page
  BY CountsAssumption DEF Page
<1>3. Writable(Bak, k, hi, v)
  BY <1>1, <1>2, CountsAssumption DEF Writable, Copied, Page
<1>4. WriteAsync(Bak, k, hi, Uniform(v)) /\ Bak \in Sector
  BY <1>1, NvAssumption DEF MainHolds
<1> QED
  BY <1>2, <1>3, <1>4 DEF ClientCall, Next

(***************************************************************************)
(* An erase, a flush and what the rest of the system does are steps of the *)
(* service as they are.                                                    *)
(***************************************************************************)
LEMMA ServiceSteps ==
  /\ \A s \in Sector : EraseAsync(s) => Next
  /\ FlushOnce => [Next]_vars
  /\ IdleFlush \/ OtherClient \/ CpClient \/ Reboot => Next
<1>1. \A s \in Sector : EraseAsync(s) => Next
  BY DEF ClientCall, Next
<1>2. FlushOnce => [Next]_vars
  BY DEF FlushOnce, Next
<1>3. OtherClient => Next
  <2> SUFFICES ASSUME OtherClient PROVE Next
    OBVIOUS
  <2>1. PICK s \in Sector : \/ EraseAsync(s)
                            \/ Writable(s, 0, 0, 1) /\ WriteAsync(s, 0, 0, Uniform(1))
    BY DEF OtherClient
  <2>2. 0 \in Page /\ 1 \in Data
    BY CountsAssumption, NvAssumption DEF Page
  <2> QED
    BY <1>1, <2>1, <2>2 DEF ClientCall, Next
<1>4. IdleFlush \/ CpClient \/ Reboot => Next
  BY DEF IdleFlush, CpClient, Reboot, Next
<1> QED
  BY <1>1, <1>2, <1>3, <1>4

LEMMA SyncWriteIsNext ==
  ASSUME OneThread, NvInv, NEW t \in Thread, NEW c \in Copy, SyncWrite(t, c)
  PROVE  [Next]_vars
<1>1. CASE UNCHANGED vars
  BY <1>1
<1>2. CASE /\ Go(t, At(c, "write"), At(c, "noteWritten"))
           /\ IF c = "MAIN" THEN WriteAsync(Main, 0, PageCount - 1, Uniform(ram))
              ELSE WriteAsync(Bak, size, size, View(Main))
  <2>1. at = At(c, "write")
    BY <1>2, AtIs DEF Go, NvInv
  <2>2. "write" \in Step /\ "write" \notin Noting /\ "BAK" # "MAIN"
    BY DEF Step, Noting
  <2>3. at # Booting /\ NvTypeOK /\ nvState \in Here(c, "write")
    BY <2>1, <2>2, AtStep
  <2>4. Reached = nvState /\ Pages = IF nvState = <<"BAK", "ERASED">> THEN 0 ELSE size
    BY <2>1, <2>2, ReachedIs DEF ReachedAre
  <2>5. CASE c = "MAIN"
    <3>1. Reached \in WriteDue("MAIN")
      BY <2>3, <2>4, <2>5, HereIs
    <3> QED
      BY <1>2, <2>3, <2>5, <3>1, MainKeepsRule
  <2>6. CASE c = "BAK"
    <3>1. nvState = <<"BAK", "WRITTING">>
      BY <2>2, <2>3, <2>6, HereIs
    <3>2. Pages = size /\ Reached \in WriteDue("BAK")
      BY <2>4, <3>1 DEF WriteDue
    <3>3. size \in Nat /\ size \in Page
      BY <2>3, <3>1, CountsAssumption DEF NvInv, NvTypeOK, PlaceOK, Page
    <3>4. PICK k \in Nat : k = size /\ k \in Page /\ k <= k
      BY <3>3
    <3>5. WriteAsync(Bak, k, k, View(Main))
      BY <1>2, <2>2, <2>6, <3>4
    <3> QED
      BY <2>3, <3>2, <3>4, <3>5, BakKeepsRule
  <2> QED
    BY <2>5, <2>6 DEF Copy
<1> QED
  BY <1>1, <1>2 DEF SyncWrite

LEMMA AsyncWriteIsNext ==
  ASSUME OneThread, NvInv, AsyncWriteMain \/ AsyncWriteBak
  PROVE  [Next]_vars
<1> DEFINE from == IF nvState = <<"BAK", "ERASED">> THEN 0 ELSE size
<1>1. at # Booting /\ NvTypeOK /\ Reached = nvState /\ Pages = from
  BY AsyncIs DEF AsyncWriteMain, AsyncWriteBak
<1>2. CASE FlushOnce
  BY <1>2, ServiceSteps
<1>3. CASE nvState \in WriteDue("MAIN") /\ WriteAsync(Main, 0, PageCount - 1, Uniform(ram))
  BY <1>1, <1>3, MainKeepsRule
<1>4. CASE nvState \in WriteDue("BAK") /\ WriteAsync(Bak, from, PageCount - 1, View(Main))
  <2>1. from \in Nat /\ from < PageCount /\ PageCount \in Nat
    BY <1>1, <1>4, CountsAssumption DEF NvInv, NvTypeOK, PlaceOK, WriteDue
  <2>2. PICK k \in Nat : k = from
    BY <2>1
  <2>3. PICK hi \in Page : hi = PageCount - 1 /\ k <= hi
    BY <2>1, <2>2 DEF Page
  <2>4. WriteAsync(Bak, k, hi, View(Main)) /\ k = Pages
    BY <1>1, <1>4, <2>2, <2>3
  <2> QED
    BY <1>1, <1>4, <2>3, <2>4, BakKeepsRule
<1> QED
  BY <1>2, <1>3, <1>4 DEF AsyncWriteMain, AsyncWriteBak

LEMMA NvNextIsNext ==
  ASSUME OneThread, NvInv, [NvNext]_allVars
  PROVE  [Next]_vars
<1>1. \A c \in Copy : SectorOf(c) \in Sector
  BY NvAssumption DEF SectorOf
<1>2. ASSUME NEW t \in Thread, SyncStepOf(t)
      PROVE  [Next]_vars
  <2>1. CASE \/ SyncLoop(t) \/ SyncNoteMainWritten(t) \/ SyncNoteBakWritten(t)
             \/ \E c \in Copy : \/ SyncStart(t, c) \/ SyncNoteErased(t, c)
                                \/ SyncErased(t, c) \/ SyncCount(t, c)
    BY <2>1 DEF SyncLoop, SyncStart, SyncNoteErased, SyncErased, SyncCount,
                SyncNoteMainWritten, SyncNoteBakWritten
  <2>2. CASE \E c \in Copy : SyncErase(t, c) \/ SyncEraseFull(t, c) \/ SyncWriteFull(t, c)
                             \/ SyncWait(t, c)
    BY <1>1, <2>2, ServiceSteps DEF SyncErase, SyncEraseFull, SyncWriteFull, SyncWait
  <2>3. CASE \E c \in Copy : SyncWrite(t, c)
    BY <2>3, SyncWriteIsNext
  <2> QED
    BY <1>2, <2>1, <2>2, <2>3 DEF SyncStepOf
<1>3. CASE AsyncStep
  <2>1. CASE \E c \in Copy : AsyncErase(c) \/ AsyncWait(c)
    BY <1>1, <2>1, ServiceSteps DEF AsyncErase, AsyncWait
  <2> QED
    BY <1>3, <2>1, AsyncWriteIsNext DEF AsyncStep
<1>4. CASE \/ Update \/ UNCHANGED allVars
           \/ \E t \in Thread : Boot(t) \/ SyncCall(t)
  BY <1>4 DEF Update, Boot, SyncCall, allVars
<1> QED
  BY <1>2, <1>3, <1>4, ServiceSteps DEF NvNext

(***************************************************************************)
(* The record is one of the clients NorflashApi assumes: it never programs *)
(* a page that is neither erased nor holds the same version, though a page *)
(* of the copy may be written twice and the power may have failed before.  *)
(* So what is proved of the service holds while the record uses it.        *)
(***************************************************************************)
THEOREM RecordKeepsTheRule == OneBuffer /\ OneThread => (NvSpec => Spec)
<1> SUFFICES ASSUME OneBuffer, OneThread
             PROVE  NvSpec => Spec
  OBVIOUS
<1>1. NvInit => Init
  BY DEF NvInit
<1>2. NvInv /\ [NvNext]_allVars => [Next]_vars
  BY NvNextIsNext
<1> QED
  BY <1>1, <1>2, NvInvariant, PTL DEF NvSpec, Spec

(***************************************************************************)
(* The two copies are never at risk together: while one sector has work    *)
(* pending, the other has none and holds a version on the chip.            *)
(***************************************************************************)
THEOREM OneCopySafeTheorem == OneBuffer /\ OneThread => (NvSpec => []OneCopySafe)
<1> SUFFICES ASSUME OneBuffer, OneThread
             PROVE  NvSpec => []OneCopySafe
  OBVIOUS
<1>1. NvInv => OneCopySafe
  <2> SUFFICES ASSUME NvInv
               PROVE  OneCopySafe
    OBVIOUS
  <2>1. StoreInv /\ NvTypeOK /\ {Main, Bak} \subseteq Sector
    BY NvAssumption DEF NvInv
  <2>2. \A s \in {Main, Bak} : ~Busy(s) => View(s) = flash[s]
    BY <2>1, CleanIs DEF Busy
  <2> QED
    BY <2>1, <2>2, OneGood DEF OneCopySafe
<1> QED
  BY <1>1, NvInvariant, PTL

(***************************************************************************)
(* What a finished flush saved is not lost: nv_record_extension_init loads *)
(* a record at least as new, wherever the power failed.                    *)
(***************************************************************************)
THEOREM FlushedTheorem == OneBuffer /\ OneThread => (NvSpec => FlushedIsNeverLost)
<1> SUFFICES ASSUME OneBuffer, OneThread
             PROVE  NvSpec => FlushedIsNeverLost
  OBVIOUS
<1>1. NvInv => [\A t \in Thread : Boot(t) => ram' >= floor]_allVars
  BY BootStep
<1> QED
  BY <1>1, NvInvariant, PTL DEF NvSpec, FlushedIsNeverLost

(***************************************************************************)
(* A flush ends with the same record in both sectors, on the chip.         *)
(***************************************************************************)
LEMMA FlushEnds ==
  ASSUME OneThread, NvInv, NvNext, nvState # IDLE, nvState' = IDLE, Booted'
  PROVE  flash[Main] = flash[Bak]
<1>1. NvTypeOK /\ PlaceOK /\ StoreInv
  BY DEF NvInv
<1>2. ASSUME at # Booting, Reached = WRITTEN("BAK"), ~OwnPending
      PROVE  flash[Main] = flash[Bak]
  BY <1>2, BothHold
<1>3. ASSUME NEW t \in Thread, Boot(t)
      PROVE  FALSE
  BY <1>1, <1>3, AtIs DEF Boot, PlaceOK
<1>4. ASSUME NEW t \in Thread, NEW c \in Copy, SyncCount(t, c)
      PROVE  flash[Main] = flash[Bak]
  <2>1. at = At(c, "count") /\ {"count"} \subseteq Step \ Noting
    BY <1>1, <1>4, AtIs DEF SyncCount, Go, Step, Noting
  <2>2. at # Booting /\ nvState = WRITTEN(c)
    BY <2>1, HereIs, AtStep
  <2>3. Reached = WRITTEN(c)
    BY <2>1, <2>2, ReachedIs DEF ReachedAre
  <2>4. ~OwnPending /\ c # "MAIN"
    BY <1>4 DEF SyncCount, IDLE
  <2> QED
    BY <1>2, <2>2, <2>3, <2>4 DEF Copy
<1>5. ASSUME NEW c \in Copy, AsyncWait(c)
      PROVE  flash[Main] = flash[Bak]
  <2>1. at # Booting /\ Reached = nvState
    BY <1>5, AsyncIs DEF AsyncWait
  <2>2. ~OwnPending /\ c = "BAK"
    BY <1>5 DEF AsyncWait, IDLE, Copy
  <2>3. nvState = WRITTEN("BAK")
    BY <1>1, <1>5, <2>2, PhasesDiffer DEF AsyncWait, Due, PlaceOK
  <2> QED
    BY <1>2, <2>1, <2>2, <2>3
<1>6. ASSUME NEW t \in Thread, SyncStepOf(t)
      PROVE  flash[Main] = flash[Bak]
  BY <1>4, <1>6
  DEF SyncStepOf, SyncLoop, SyncStart, SyncErase, SyncEraseFull, SyncNoteErased, SyncErased,
      SyncWrite, SyncWriteFull, SyncWait, SyncNoteMainWritten, SyncNoteBakWritten, IDLE
<1>7. CASE AsyncStep
  BY <1>5, <1>7 DEF AsyncStep, AsyncErase, AsyncWriteMain, AsyncWriteBak, IDLE
<1>8. CASE Reboot
  <2>1. ~Booted'
    BY <1>8 DEF Reboot, AllBooting, Booted, OneThread, FirstThread
  <2> QED
    BY <2>1
<1>9. ASSUME NEW t \in Thread, SyncCall(t)
      PROVE  FALSE
  BY <1>9 DEF SyncCall
<1>10. CASE Update \/ IdleFlush \/ OtherClient \/ CpClient
  BY <1>10 DEF Update, IdleFlush, OtherClient, CpClient, nvVars
<1> QED
  BY <1>3, <1>6, <1>7, <1>8, <1>9, <1>10 DEF NvNext

(***************************************************************************)
(* CopiesAgree: whenever the state of the flush goes back to idle, main   *)
(* and backup sector hold the same on the chip.                            *)
(***************************************************************************)
THEOREM CopiesAgreeTheorem == OneBuffer /\ OneThread => (NvSpec => CopiesAgree)
<1> SUFFICES ASSUME OneBuffer, OneThread
             PROVE  NvSpec => CopiesAgree
  OBVIOUS
<1>1. NvInv /\ [NvNext]_allVars
        => [nvState # IDLE /\ nvState' = IDLE /\ Booted' => flash[Main] = flash[Bak]]_allVars
  BY FlushEnds
<1> QED
  BY <1>1, NvInvariant, PTL DEF NvSpec, CopiesAgree

=============================================================================
