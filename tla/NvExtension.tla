----------------------------- MODULE NvExtension -----------------------------
(***************************************************************************)
(* services/nv_section/userdata_section/nvrecord_extension.c: the user     *)
(* data record, mirrored in RAM and kept twice in flash, in a main and a   *)
(* backup sector.  A flush erases and writes the main sector from the      *)
(* mirror, waits until it is on the chip, then erases the backup and       *)
(* copies the main sector into it.  The asynchronous flush does one step   *)
(* of this per round of the idle hook with interrupts locked; the          *)
(* synchronous flush does it in a thread that other threads may preempt    *)
(* between its locked sections.  After a reboot a valid copy is loaded and *)
(* the other one repaired.                                                 *)
(*                                                                         *)
(* A record is its version number, written in every page of the sector; it *)
(* is valid (crc32) when all pages hold the same version.                  *)
(***************************************************************************)
EXTENDS NorflashApi

CONSTANTS Main, Bak,     \* the two sectors
          Thread,        \* threads that call nv_record_flash_flush
          Preempts       \* whether updates preempt a synchronous flush

ASSUME NvAssumption ==
  /\ Main \in Sector /\ Bak \in Sector /\ Main # Bak
  /\ Owner[Main] = Owner[Bak]
  /\ Data \subseteq Nat /\ 1 \in Data
  /\ Preempts \in BOOLEAN

VARIABLES
  ram,        \* nvrecord_extension_p, its version; 0 before the boot
  isUpdate,   \* nv_flsh_state.is_update
  nvState,    \* nv_flsh_state.state
  size,       \* nv_flsh_state.written_size, in pages
  pc,         \* where each thread is in a synchronous flush
  floor       \* history: the newest version a finished flush left in both
              \* sectors

nvVars == <<ram, isUpdate, nvState, size, pc, floor>>
allVars == <<vars, nvVars>>

IDLE == <<"NV", "IDLE">>
Copy == {"MAIN", "BAK"}
Phase == {"ERASING", "ERASED", "WRITTING", "WRITTEN", "DONE"}
NvState == {IDLE} \cup (Copy \X Phase)

MainBusy == {<<"MAIN", p>> : p \in {"ERASING", "ERASED", "WRITTING", "WRITTEN"}}
BakBusy == {<<"MAIN", "DONE">>} \cup {<<"BAK", p>> : p \in Phase}

(***************************************************************************)
(* The states in which a flush of a copy starts with its erase, and with   *)
(* its write.                                                              *)
(***************************************************************************)
EraseDue(c) == {<<c, "ERASING">>} \cup {IF c = "MAIN" THEN IDLE ELSE <<"MAIN", "DONE">>}
WriteDue(c) == {<<c, "ERASED">>, <<c, "WRITTING">>}

SectorOf(c) == IF c = "MAIN" THEN Main ELSE Bak

At(c, step) == <<c, step>>
Resting == <<"NV", "rest">>
Booting == <<"NV", "boot">>
Looping == <<"NV", "loop">>

(***************************************************************************)
(* nv_record_data_is_valid.                                                *)
(***************************************************************************)
IsValid(c) == \E v \in Data : c = Uniform(v)
VersionOf(c) == CHOOSE v \in Data : c = Uniform(v)

\* A slip: erases are counted, not writes.
OwnErasePending ==
  \E i \in DOMAIN queue[Owner[Main]] : queue[Owner[Main]][i].type = "E"

OwnPending == HasWork(Owner[Main])

\* The version saved once the flush of copy c is done.
Saved(c) ==
  IF c = "BAK" /\ IsValid(flash[Bak]) THEN VersionOf(flash[Bak]) ELSE floor

-----------------------------------------------------------------------------
\* A slip: the backup is not looked at.
BootMainOnly(t) ==
  /\ pc[t] = Booting
  /\ LET mainOk == IsValid(Raw(Main))
     IN  /\ ram' = IF mainOk THEN VersionOf(Raw(Main)) ELSE 1
         /\ isUpdate' = ~mainOk
         /\ pc' = [pc EXCEPT ![t] = IF mainOk THEN Resting ELSE Looping]
  /\ nvState' = IDLE
  /\ size' = 0
  /\ UNCHANGED <<floor, vars>>

(***************************************************************************)
(* nv_record_extension_init, up to its own flush, which the first thread   *)
(* then runs.  Both sectors are checked in flash as it is.                 *)
(***************************************************************************)
Boot(t) ==
  /\ pc[t] = Booting
  /\ LET mainOk == IsValid(Raw(Main))
         bakOk == IsValid(Raw(Bak))
     IN  /\ ram' = IF mainOk THEN VersionOf(Raw(Main))
                   ELSE IF bakOk THEN VersionOf(Raw(Bak)) ELSE 1
         /\ isUpdate' = ~(mainOk /\ bakOk)
         /\ nvState' = IF mainOk /\ ~bakOk THEN <<"MAIN", "DONE">> ELSE IDLE
         /\ pc' = [pc EXCEPT ![t] = IF mainOk /\ bakOk THEN Resting ELSE Looping]
  /\ size' = 0
  /\ UNCHANGED <<floor, vars>>

Booted == \A t \in Thread : pc[t] # Booting

(***************************************************************************)
(* A client changes the record and calls nv_record_extension_update.       *)
(***************************************************************************)
Update ==
  /\ Booted
  /\ Preempts \/ \A t \in Thread : pc[t] = Resting
  /\ ram + 1 \in Data
  /\ ram' = ram + 1
  /\ isUpdate' = TRUE
  /\ UNCHANGED <<nvState, size, pc, floor, vars>>

-----------------------------------------------------------------------------
(***************************************************************************)
(* The asynchronous flush: one round of the idle hook, and the idle thread *)
(* only runs when no thread is in a flush.                                 *)
(***************************************************************************)
Async == Booted /\ (\A t \in Thread : pc[t] = Resting) /\ UNCHANGED <<ram, pc>>

\* nv_record_extension_flush works on this copy.
Due(c) ==
  IF c = "MAIN" THEN nvState \in MainBusy \/ (nvState = IDLE /\ isUpdate)
  ELSE nvState \in BakBusy

AsyncErase(c) ==
  /\ Async
  /\ Due(c) /\ nvState \in EraseDue(c)
  /\ \/ EraseAsync(SectorOf(c)) /\ nvState' = <<c, "ERASED">>
     \/ EraseRefused(SectorOf(c)) /\ FlushOnce /\ nvState' = <<c, "ERASING">>
  /\ UNCHANGED <<isUpdate, size, floor>>

AsyncWriteMain ==
  /\ Async
  /\ nvState \in WriteDue("MAIN")
  /\ \/ /\ WriteAsync(Main, 0, PageCount - 1, Uniform(ram))
        /\ nvState' = <<"MAIN", "WRITTEN">>
        /\ isUpdate' = FALSE
     \/ /\ WriteRefused(Main) /\ FlushOnce
        /\ nvState' = <<"MAIN", "WRITTING">>
        /\ UNCHANGED isUpdate
  /\ UNCHANGED <<size, floor>>

\* A slip: the first page accepted is taken for all of them.
AsyncWriteBakOnePage ==
  /\ Async
  /\ nvState \in WriteDue("BAK")
  /\ WriteAsync(Bak, 0, 0, View(Main))
  /\ nvState' = <<"BAK", "WRITTEN">>
  /\ UNCHANGED <<size, isUpdate, floor>>

(***************************************************************************)
(* The pages of the main sector go one by one into the backup; once the    *)
(* first was accepted the others merge into the same pending write.        *)
(***************************************************************************)
AsyncWriteBak ==
  LET from == IF nvState = <<"BAK", "ERASED">> THEN 0 ELSE size
  IN  /\ Async
      /\ nvState \in WriteDue("BAK")
      /\ \/ /\ WriteAsync(Bak, from, PageCount - 1, View(Main))
            /\ nvState' = <<"BAK", "WRITTEN">>
            /\ size' = PageCount
         \/ /\ WriteRefused(Bak) /\ FlushOnce
            /\ nvState' = <<"BAK", "WRITTING">>
            /\ size' = from
      /\ UNCHANGED <<isUpdate, floor>>

AsyncWait(c) ==
  /\ Async
  /\ Due(c) /\ nvState \notin EraseDue(c) \cup WriteDue(c)
  /\ IF OwnPending
     THEN FlushOnce /\ UNCHANGED <<nvState, floor>>
     ELSE /\ nvState' = IF c = "MAIN" THEN <<"MAIN", "DONE">> ELSE IDLE
          /\ floor' = Saved(c)
          /\ UNCHANGED vars
  /\ UNCHANGED <<isUpdate, size>>

-----------------------------------------------------------------------------
(***************************************************************************)
(* The synchronous flush, thread t.  nv_record_extension_flush loops until *)
(* the state is idle and nothing is left to do.                            *)
(***************************************************************************)
Go(t, from, to) == pc[t] = from /\ pc' = [pc EXCEPT ![t] = to]

SyncCall(t) ==
  /\ Booted
  /\ Go(t, Resting, Looping)
  /\ UNCHANGED <<ram, isUpdate, nvState, size, floor, vars>>

SyncLoop(t) ==
  /\ Go(t, Looping, IF Due("MAIN") THEN At("MAIN", "start")
                    ELSE IF Due("BAK") THEN At("BAK", "start") ELSE Resting)
  /\ UNCHANGED <<ram, isUpdate, nvState, size, floor, vars>>

SyncStart(t, c) ==
  /\ Go(t, At(c, "start"), IF nvState \in EraseDue(c) THEN At(c, "erase")
                           ELSE At(c, "erased"))
  /\ UNCHANGED <<ram, isUpdate, nvState, size, floor, vars>>

(***************************************************************************)
(* The erase is asked for with interrupts locked; the new state is noted   *)
(* after they are unlocked.  While the pools are full the thread flushes.  *)
(***************************************************************************)
SyncErase(t, c) ==
  /\ \/ Go(t, At(c, "erase"), At(c, "noteErased")) /\ EraseAsync(SectorOf(c))
     \/ /\ Go(t, At(c, "erase"), At(c, "eraseFull"))
        /\ EraseRefused(SectorOf(c))
        /\ UNCHANGED vars
  /\ UNCHANGED <<ram, isUpdate, nvState, size, floor>>

FreeCount(type) ==
  OpraListLen - Cardinality({n \in Nodes(queue) : queue[n[1]][n[2]].type = type})

SyncEraseFull(t, c) ==
  /\ pc[t] = At(c, "eraseFull")
  /\ FlushOnce
  /\ Go(t, At(c, "eraseFull"),
        IF FreeCount("E")' = 0 THEN At(c, "eraseFull") ELSE At(c, "erase"))
  /\ UNCHANGED <<ram, isUpdate, nvState, size, floor>>

SyncNoteErased(t, c) ==
  /\ Go(t, At(c, "noteErased"), At(c, "erased"))
  /\ nvState' = <<c, "ERASED">>
  /\ UNCHANGED <<ram, isUpdate, size, floor, vars>>

(***************************************************************************)
(* With the sector erased the write begins, for the backup at page 0.      *)
(***************************************************************************)
SyncErased(t, c) ==
  /\ IF nvState \in WriteDue(c)
     THEN /\ Go(t, At(c, "erased"), At(c, "write"))
          /\ IF c = "MAIN" THEN UNCHANGED <<nvState, size>>
             ELSE nvState' = <<"BAK", "WRITTING">> /\ size' = 0
     ELSE Go(t, At(c, "erased"), At(c, "wait")) /\ UNCHANGED <<nvState, size>>
  /\ UNCHANGED <<ram, isUpdate, floor, vars>>

SyncWrite(t, c) ==
  /\ \/ /\ Go(t, At(c, "write"), At(c, "noteWritten"))
        /\ IF c = "MAIN" THEN WriteAsync(Main, 0, PageCount - 1, Uniform(ram))
           ELSE WriteAsync(Bak, size, size, View(Main))
     \/ /\ Go(t, At(c, "write"), At(c, "writeFull"))
        /\ WriteRefused(SectorOf(c))
        /\ UNCHANGED vars
  /\ UNCHANGED <<ram, isUpdate, nvState, size, floor>>

SyncWriteFull(t, c) ==
  /\ pc[t] = At(c, "writeFull")
  /\ FlushOnce
  /\ Go(t, At(c, "writeFull"),
        IF FreeCount("W")' = 0 THEN At(c, "writeFull") ELSE At(c, "write"))
  /\ UNCHANGED <<ram, isUpdate, nvState, size, floor>>

(***************************************************************************)
(* Interrupts are unlocked between the copy of the mirror into the pending *)
(* write and the assignment of is_update.                                  *)
(***************************************************************************)
SyncNoteMainWritten(t) ==
  /\ Go(t, At("MAIN", "noteWritten"), At("MAIN", "wait"))
  /\ isUpdate' = FALSE
  /\ nvState' = <<"MAIN", "WRITTEN">>
  /\ UNCHANGED <<ram, size, floor, vars>>

SyncNoteBakWritten(t) ==
  /\ size' = size + 1
  /\ IF size + 1 = PageCount
     THEN Go(t, At("BAK", "noteWritten"), At("BAK", "wait")) /\ nvState' = <<"BAK", "WRITTEN">>
     ELSE Go(t, At("BAK", "noteWritten"), At("BAK", "write")) /\ UNCHANGED nvState
  /\ UNCHANGED <<ram, isUpdate, floor, vars>>

(***************************************************************************)
(* Flush until nothing of the module is pending.                           *)
(***************************************************************************)
SyncWait(t, c) ==
  /\ Go(t, At(c, "wait"), At(c, "count"))
  /\ FlushOnce
  /\ UNCHANGED <<ram, isUpdate, nvState, size, floor>>

SyncCount(t, c) ==
  /\ IF OwnPending THEN Go(t, At(c, "count"), At(c, "wait")) /\ UNCHANGED <<nvState, floor>>
     ELSE /\ Go(t, At(c, "count"), IF c = "MAIN" THEN At("BAK", "start") ELSE Looping)
          /\ nvState' = IF c = "MAIN" THEN <<"MAIN", "DONE">> ELSE IDLE
          /\ floor' = Saved(c)
  /\ UNCHANGED <<ram, isUpdate, size, vars>>

-----------------------------------------------------------------------------
(***************************************************************************)
(* The rest of the system: the idle hook or another client flushes, the    *)
(* owner of another sector keeps the pools busy, a CP client closes the    *)
(* gate.                                                                   *)
(***************************************************************************)
IdleFlush == Booted /\ Flush /\ UNCHANGED nvVars

OtherClient ==
  /\ Booted
  /\ \E s \in Sector \ {Main, Bak} :
       \/ EraseAsync(s)
       \/ Writable(s, 0, 0, 1) /\ WriteAsync(s, 0, 0, Uniform(1))
  /\ UNCHANGED nvVars

CpClient == Booted /\ (FlushDisable \/ FlushEnable \/ CpReady) /\ UNCHANGED nvVars

FirstThread == CHOOSE t \in Thread : TRUE

AllBooting == [t \in Thread |-> IF t = FirstThread THEN Booting ELSE Resting]

Reboot ==
  /\ PowerLoss
  /\ ram' = 0
  /\ isUpdate' = FALSE
  /\ nvState' = IDLE
  /\ size' = 0
  /\ pc' = AllBooting
  /\ UNCHANGED floor

NvInit ==
  /\ Init
  /\ ram = 0
  /\ isUpdate = FALSE
  /\ nvState = IDLE
  /\ size = 0
  /\ pc = AllBooting
  /\ floor = 0

AsyncStep ==
  \/ \E c \in Copy : AsyncErase(c) \/ AsyncWait(c)
  \/ AsyncWriteMain
  \/ AsyncWriteBak

SyncStepOf(t) ==
  \/ SyncLoop(t)
  \/ \E c \in Copy :
       \/ SyncStart(t, c)
       \/ SyncErase(t, c) \/ SyncEraseFull(t, c) \/ SyncNoteErased(t, c)
       \/ SyncErased(t, c)
       \/ SyncWrite(t, c) \/ SyncWriteFull(t, c)
       \/ SyncWait(t, c) \/ SyncCount(t, c)
  \/ SyncNoteMainWritten(t)
  \/ SyncNoteBakWritten(t)

NvNext ==
  \/ \E t \in Thread : Boot(t) \/ SyncCall(t) \/ SyncStepOf(t)
  \/ Update
  \/ AsyncStep
  \/ IdleFlush
  \/ OtherClient
  \/ CpClient
  \/ Reboot

NvSpec == NvInit /\ [][NvNext]_allVars

-----------------------------------------------------------------------------
NvTypeOK ==
  /\ ram \in Data \cup {0}
  /\ isUpdate \in BOOLEAN
  /\ nvState \in NvState
  /\ size \in 0..PageCount
  /\ DOMAIN pc = Thread
  /\ floor \in Data \cup {0}

(***************************************************************************)
(* What a finished flush saved is never lost: at every boot the record     *)
(* loaded is at least as new as the newest version a finished flush left   *)
(* in both sectors, wherever in the sequence of erases, page programs and  *)
(* suspensions the power failed.                                           *)
(***************************************************************************)
FlushedIsNeverLost == [][\A t \in Thread : Boot(t) => ram' >= floor]_allVars

(***************************************************************************)
(* "need to update the content in the flash": when no flush is in progress *)
(* and none is asked for, the mirror is what both sectors hold.            *)
(***************************************************************************)
UpdateNotForgotten ==
  Booted /\ ~isUpdate /\ nvState = IDLE => View(Main) = Uniform(ram)

(***************************************************************************)
(* While the backup is being erased or written the main sector is valid on *)
(* the chip, and while the main sector is the backup is: the two are never *)
(* at risk together.                                                       *)
(***************************************************************************)
Busy(s) == OnSector(queue[Owner[s]], s) # {}

OneCopySafe ==
  /\ NvTypeOK
  /\ ~(Busy(Main) /\ Busy(Bak))
  /\ floor > 0 => (Busy(Main) => IsValid(flash[Bak])) /\ (Busy(Bak) => IsValid(flash[Main]))

(***************************************************************************)
(* A finished flush leaves the same record in both sectors.                *)
(***************************************************************************)
CopiesAgree ==
  [][nvState # IDLE /\ nvState' = IDLE /\ Booted' => flash[Main] = flash[Bak]]_allVars

=============================================================================
