----------------------------- MODULE NorflashApp -----------------------------
(***************************************************************************)
(* The callers' side of norflash_api: app_flash_page_erase,                *)
(* app_flash_page_program and app_flush_pending_flash_op (their twins in   *)
(* ibrt_ota are BesOtaErase, BesOtaProgram and BesFlushPendingFlashOp).    *)
(* One task per flash module retries an operation that is refused with     *)
(* BUFFER_FULL, flushing in between, while the idle hook flushes as well.  *)
(***************************************************************************)
EXTENDS NorflashApi

CONSTANTS MaxCalls,     \* bound: calls the tasks make altogether
          FlushFirst    \* whether tasks wait for a sector's pending work
                        \* before they erase it

ASSUME AppAssumption == MaxCalls \in Nat /\ FlushFirst \in BOOLEAN

VARIABLES
  taskAt,   \* where the task of a module is
  req,      \* its request
  calls,    \* calls made so far
  shadow    \* what the completed calls should have made of the sectors

appVars == <<vars, taskAt, req, calls, shadow>>

Request == [type: {"E", "W"}, sector: Sector, lo: Page, hi: Page, data: Data]
NoRequest == [type |-> "none"]

TasksOf(m) == {s \in Sector : Owner[s] = m}

\* A slip: only the first page is looked at.
FirstPageLooksErased(s) == Raw(s)[0] = Erased

(***************************************************************************)
(* app_flash_page_erase first looks at the chip itself: a sector that      *)
(* reads as erased there is left alone.                                    *)
(***************************************************************************)
LooksErased(s) == Raw(s) = Blank

Used(m, type) == Cardinality({i \in DOMAIN queue[m] : queue[m][i].type = type})

Begin(m) ==
  /\ Ready
  /\ taskAt[m] = "idle"
  /\ calls < MaxCalls
  /\ calls' = calls + 1

BeginErase(m, s) ==
  /\ Begin(m)
  /\ FlushFirst => OnSector(queue[m], s) = {}
  /\ IF LooksErased(s)
     THEN shadow' = [shadow EXCEPT ![s] = Blank] /\ UNCHANGED <<taskAt, req>>
     ELSE /\ taskAt' = [taskAt EXCEPT ![m] = "try"]
          /\ \E r \in Request :
               /\ r.type = "E" /\ r.sector = s /\ r.lo = 0 /\ r.hi = 0
               /\ req' = [req EXCEPT ![m] = r]
          /\ UNCHANGED shadow
  /\ UNCHANGED vars

BeginProgram(m, r) ==
  /\ Begin(m)
  /\ r.type = "W"
  /\ Writable(r.sector, r.lo, r.hi, r.data)
  /\ taskAt' = [taskAt EXCEPT ![m] = "try"]
  /\ req' = [req EXCEPT ![m] = r]
  /\ UNCHANGED <<shadow, vars>>

(***************************************************************************)
(* norflash_api_erase or norflash_api_write accepts the request.           *)
(***************************************************************************)
Asked(r) ==
  IF r.type = "E" THEN EraseAsync(r.sector)
  ELSE WriteAsync(r.sector, r.lo, r.hi, Uniform(r.data))

Refused(r) == IF r.type = "E" THEN EraseRefused(r.sector) ELSE WriteRefused(r.sector)

Accepted(m) ==
  LET r == req[m]
  IN  /\ taskAt[m] = "try"
      /\ Asked(r)
      /\ taskAt' = [taskAt EXCEPT ![m] = "idle"]
      /\ req' = [req EXCEPT ![m] = NoRequest]
      /\ shadow' = [shadow EXCEPT ![r.sector] =
                      IF r.type = "E" THEN Blank ELSE Overlay(@, r.lo, r.hi, Uniform(r.data))]
      /\ UNCHANGED calls

Full(m) ==
  /\ Ready
  /\ taskAt[m] = "try"
  /\ Refused(req[m])
  /\ taskAt' = [taskAt EXCEPT ![m] = "flush"]
  /\ UNCHANGED <<vars, req, calls, shadow>>

(***************************************************************************)
(* app_flush_pending_flash_op: flush once, then look whether the module    *)
(* still has operations of the kind, else sleep a while and go round.      *)
(***************************************************************************)
TaskFlush(m) ==
  /\ taskAt[m] = "flush"
  /\ FlushOnce
  /\ taskAt' = [taskAt EXCEPT ![m] = "count"]
  /\ UNCHANGED <<req, calls, shadow>>

TaskCount(m) ==
  /\ Ready
  /\ taskAt[m] = "count"
  /\ taskAt' = [taskAt EXCEPT ![m] = IF Used(m, req[m].type) = 0 THEN "try" ELSE "flush"]
  /\ UNCHANGED <<vars, req, calls, shadow>>

(***************************************************************************)
(* The idle thread flushes before it sleeps.                               *)
(***************************************************************************)
AppIdle == Flush /\ UNCHANGED <<taskAt, req, calls, shadow>>

(***************************************************************************)
(* A client of the CP core closes the gate before it starts the core and   *)
(* opens it when it stops the core; the core may get ready in between.     *)
(***************************************************************************)
CpStart ==
  /\ calls < MaxCalls
  /\ calls' = calls + 1
  /\ FlushDisable
  /\ UNCHANGED <<taskAt, req, shadow>>

CpStop == FlushEnable /\ UNCHANGED <<taskAt, req, calls, shadow>>

CpGetsReady == CpReady /\ UNCHANGED <<taskAt, req, calls, shadow>>

(***************************************************************************)
(* After a reboot the tasks start over from what the chip holds.           *)
(***************************************************************************)
AppReboot ==
  /\ PowerLoss
  /\ taskAt' = [m \in Module |-> "idle"]
  /\ req' = [m \in Module |-> NoRequest]
  /\ shadow' = flash'
  /\ UNCHANGED calls

AppInit ==
  /\ Init
  /\ taskAt = [m \in Module |-> "idle"]
  /\ req = [m \in Module |-> NoRequest]
  /\ calls = 0
  /\ shadow = flash

Task(m) == Accepted(m) \/ Full(m) \/ TaskFlush(m) \/ TaskCount(m)

BeginCall ==
  \E m \in Module :
    \/ \E s \in TasksOf(m) : BeginErase(m, s)
    \/ \E r \in Request : Owner[r.sector] = m /\ BeginProgram(m, r)

AppNext ==
  \/ BeginCall
  \/ \E m \in Module : Task(m)
  \/ AppIdle
  \/ CpStart
  \/ CpStop
  \/ CpGetsReady
  \/ AppReboot

AppSpec == AppInit /\ [][AppNext]_appVars

(***************************************************************************)
(* Fairness.  Every task is scheduled and the idle thread runs, and the CP *)
(* core gets ready after all.  An operation is not suspended for ever:     *)
(* norflash_resume gives the chip at least 100 us of work before           *)
(* the next suspension, and an erase or a page program takes finite time.  *)
(***************************************************************************)
Progress == \E m \in Module : FlushCompleted(m)

FairAppSpec ==
  /\ AppSpec
  /\ \A m \in Module : WF_appVars(Task(m))
  /\ WF_appVars(AppIdle)
  /\ WF_appVars(CpGetsReady)
  /\ SF_appVars(AppIdle /\ Progress)

-----------------------------------------------------------------------------
AppTypeOK ==
  /\ TypeOK
  /\ taskAt \in [Module -> {"idle", "try", "flush", "count"}]
  /\ req \in [Module -> Request \cup {NoRequest}]
  /\ \A m \in Module : IF taskAt[m] = "idle" THEN req[m] = NoRequest
                       ELSE req[m] \in Request /\ Owner[req[m].sector] = m
  /\ calls \in 0..MaxCalls
  /\ shadow \in [Sector -> Contents]

(***************************************************************************)
(* A call that returned has taken effect: every sector reads as the calls  *)
(* that were accepted, in their order, made it, whatever was merged,       *)
(* suspended, flushed by another task or refused and tried again.          *)
(***************************************************************************)
CallsTakeEffect == AppTypeOK /\ \A s \in Sector : View(s) = shadow[s]

(***************************************************************************)
(* An erase or program call returns, however full the pools were when it   *)
(* began, and in whatever order the other tasks' work is flushed.          *)
(***************************************************************************)
CallsReturn == \A m \in Module : (taskAt[m] # "idle") ~> (taskAt[m] = "idle")

(***************************************************************************)
(* What is buffered reaches the chip.                                      *)
(***************************************************************************)
EventuallyFlushed == \A m \in Module : HasWork(m) ~> ~HasWork(m)

=============================================================================
