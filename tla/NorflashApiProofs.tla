-------------------------- MODULE NorflashApiProofs --------------------------
(***************************************************************************)
(* Proofs about NorflashApi, for any number of modules, sectors, pages,    *)
(* values and buffers.                                                     *)
(***************************************************************************)
EXTENDS NorflashApi, SequenceTheorems, FiniteSetTheorems, WellFoundedInduction, TLAPS

(***************************************************************************)
(* What removing the i-th element of a sequence leaves.                    *)
(***************************************************************************)
LEMMA RemoveAtIs ==
  ASSUME NEW S, NEW q \in Seq(S), NEW i \in 1..Len(q)
  PROVE  /\ RemoveAt(q, i) \in Seq(S)
         /\ Len(RemoveAt(q, i)) = Len(q) - 1
         /\ \A j \in 1..(Len(q) - 1) :
              RemoveAt(q, i)[j] = IF j < i THEN q[j] ELSE q[j + 1]
<1> DEFINE a == SubSeq(q, 1, i - 1)
           b == SubSeq(q, i + 1, Len(q))
<1>1. a \in Seq(S) /\ Len(a) = i - 1 /\ \A j \in 1..(i - 1) : a[j] = q[j]
  BY LenProperties
<1>2. /\ b \in Seq(S)
      /\ Len(b) = Len(q) - i
      /\ \A j \in 1..(Len(q) - i) : b[j] = q[i + j]
  BY LenProperties
<1>3. RemoveAt(q, i) = a \o b
  BY DEF RemoveAt
<1> HIDE DEF a, b
<1>4. /\ a \o b \in Seq(S)
      /\ Len(a \o b) = Len(a) + Len(b)
      /\ \A j \in 1..(Len(a) + Len(b)) :
           (a \o b)[j] = IF j <= Len(a) THEN a[j] ELSE b[j - Len(a)]
  BY <1>1, <1>2, ConcatProperties
<1>5. Len(q) \in Nat
  BY LenProperties
<1> QED
  BY <1>1, <1>2, <1>3, <1>4, <1>5

-----------------------------------------------------------------------------
(***************************************************************************)
(* What InFlightInv says of one module: its list q and its state st.       *)
(***************************************************************************)
ListOK(q, st) ==
  /\ q \in Seq(Opera)
  /\ st # "IDLE" => q # <<>> /\ st = SuspendedAs(q[1].type)
  /\ \A i \in 1..Len(q) : q[i].lock <=> (i = 1 /\ st # "IDLE")

(***************************************************************************)
(* The list r may follow q: what the chip works on is still at its head.   *)
(***************************************************************************)
Follows(q, r, st) == ListOK(r, st) /\ (st # "IDLE" => r[1] = q[1])

(***************************************************************************)
(* A new operation may be added, an operation the chip does not work on    *)
(* may be removed: the head stays what the chip works on.                  *)
(***************************************************************************)
LEMMA AppendFollows ==
  ASSUME NEW q, NEW st, ListOK(q, st), NEW o \in Opera, ~o.lock
  PROVE  Follows(q, Append(q, o), st)
<1>1. /\ Append(q, o) \in Seq(Opera)
      /\ Len(Append(q, o)) = Len(q) + 1
      /\ \A i \in 1..Len(q) : Append(q, o)[i] = q[i]
      /\ Append(q, o)[Len(q) + 1] = o
  BY AppendProperties DEF ListOK
<1>2. Len(q) \in Nat /\ (q # <<>> => Len(q) # 0)
  BY LenProperties, EmptySeq DEF ListOK
<1> QED
  BY <1>1, <1>2, EmptySeq DEF ListOK, Follows

(***************************************************************************)
(* Removing an operation the chip does not work on keeps the shape of the  *)
(* list, and its head.                                                     *)
(***************************************************************************)
LEMMA RemoveFollows ==
  ASSUME NEW q, NEW st, ListOK(q, st), NEW i \in 1..Len(q), ~q[i].lock
  PROVE  Follows(q, RemoveAt(q, i), st)
<1>1. /\ RemoveAt(q, i) \in Seq(Opera)
      /\ Len(RemoveAt(q, i)) = Len(q) - 1
      /\ \A j \in 1..(Len(q) - 1) :
           RemoveAt(q, i)[j] = IF j < i THEN q[j] ELSE q[j + 1]
  BY RemoveAtIs DEF ListOK
<1>2. Len(q) \in Nat
  BY LenProperties DEF ListOK
<1>3. CASE st = "IDLE"
  BY <1>1, <1>2, <1>3 DEF ListOK, Follows
<1>4. CASE st # "IDLE"
  <2>1. i # 1
    BY <1>4, <1>2 DEF ListOK
  <2>2. Len(q) > 1 /\ RemoveAt(q, i)[1] = q[1]
    BY <2>1, <1>1, <1>2
  <2>3. RemoveAt(q, i) # <<>>
    BY <2>2, <1>1, <1>2, EmptySeq
  <2> QED
    BY <2>1, <2>2, <2>3, <1>1, <1>2, <1>4 DEF ListOK, Follows
<1> QED
  BY <1>3, <1>4

(***************************************************************************)
(* So _e_opera_add keeps the head, whatever it finds stale.                *)
(***************************************************************************)
LEMMA WithoutStaleFollows ==
  ASSUME NEW q, NEW st, ListOK(q, st), NEW s,
         NEW r \in Without(q, Stale(q, s))
  PROVE  Follows(q, r, st)
<1>1. \A i \in Stale(q, s) : i \in 1..Len(q) /\ ~q[i].lock
  BY LenProperties DEF Stale, OnSector, ListOK
<1>2. CASE r = q
  BY <1>2 DEF Follows
<1>3. CASE \E i \in Stale(q, s) : r = RemoveAt(q, i)
  BY <1>1, <1>3, RemoveFollows
<1>4. CASE \E i, j \in Stale(q, s) : i > j /\ r = RemoveAt(RemoveAt(q, i), j)
  <2>1. PICK i \in Stale(q, s), j \in Stale(q, s) :
          i > j /\ r = RemoveAt(RemoveAt(q, i), j)
    BY <1>4
  <2>2. i \in 1..Len(q) /\ j \in 1..Len(q) /\ ~q[i].lock /\ ~q[j].lock
    BY <1>1
  <2>3. Follows(q, RemoveAt(q, i), st)
    BY <2>2, RemoveFollows
  <2>4. /\ Len(RemoveAt(q, i)) = Len(q) - 1
        /\ \A k \in 1..(Len(q) - 1) :
             RemoveAt(q, i)[k] = IF k < i THEN q[k] ELSE q[k + 1]
    BY <2>2, RemoveAtIs DEF ListOK
  <2>5. j \in 1..Len(RemoveAt(q, i)) /\ ~RemoveAt(q, i)[j].lock
    <3>1. Len(q) \in Nat
      BY LenProperties DEF ListOK
    <3> QED
      BY <2>1, <2>2, <2>4, <3>1
  <2> QED
    BY <2>1, <2>3, <2>5, RemoveFollows DEF Follows
<1> QED
  BY <1>2, <1>3, <1>4 DEF Without

(***************************************************************************)
(* An operation the chip does not work on may be changed; the head may be  *)
(* suspended, and dropped once it is done.                                 *)
(***************************************************************************)
LEMMA ChangeFollows ==
  ASSUME NEW q, NEW st, ListOK(q, st), NEW i \in 1..Len(q),
         NEW o \in Opera, ~o.lock, ~q[i].lock
  PROVE  Follows(q, [q EXCEPT ![i] = o], st)
<1>1. /\ [q EXCEPT ![i] = o] \in Seq(Opera)
      /\ Len([q EXCEPT ![i] = o]) = Len(q)
      /\ \A j \in 1..Len(q) : [q EXCEPT ![i] = o][j] = IF j = i THEN o ELSE q[j]
  BY ExceptSeq DEF ListOK
<1>2. Len(q) \in Nat /\ [q EXCEPT ![i] = o] # <<>>
  BY <1>1, LenProperties, EmptySeq DEF ListOK
<1> QED
  BY <1>1, <1>2 DEF ListOK, Follows

(***************************************************************************)
(* Suspending the head locks it and records its kind in the state of the   *)
(* module.                                                                 *)
(***************************************************************************)
LEMMA SuspendKeepsListOK ==
  ASSUME NEW q, NEW st, ListOK(q, st), q # <<>>, NEW o \in Opera, o.lock
  PROVE  ListOK([q EXCEPT ![1] = o], SuspendedAs(o.type))
<1>1. Len(q) \in Nat /\ 1 \in 1..Len(q)
  BY LenProperties, EmptySeq DEF ListOK
<1>2. /\ [q EXCEPT ![1] = o] \in Seq(Opera)
      /\ Len([q EXCEPT ![1] = o]) = Len(q)
      /\ \A j \in 1..Len(q) : [q EXCEPT ![1] = o][j] = IF j = 1 THEN o ELSE q[j]
  BY <1>1, ExceptSeq DEF ListOK
<1>3. [q EXCEPT ![1] = o] # <<>> /\ SuspendedAs(o.type) # "IDLE"
  BY <1>1, <1>2, EmptySeq DEF SuspendedAs
<1> QED
  BY <1>1, <1>2, <1>3 DEF ListOK

(***************************************************************************)
(* What is left when the oldest operation is done has no locked node.      *)
(***************************************************************************)
LEMMA TailIsListOK ==
  ASSUME NEW q, NEW st, ListOK(q, st), q # <<>>
  PROVE  ListOK(Tail(q), "IDLE")
<1>1. /\ Tail(q) \in Seq(Opera)
      /\ Len(Tail(q)) = Len(q) - 1
      /\ \A i \in 1..Len(Tail(q)) : Tail(q)[i] = q[i + 1]
  BY HeadTailProperties DEF ListOK
<1>2. Len(q) \in Nat
  BY LenProperties DEF ListOK
<1> QED
  BY <1>1, <1>2 DEF ListOK

-----------------------------------------------------------------------------
(***************************************************************************)
(* What reads, merges and the chip make of a sector is a sector again.     *)
(***************************************************************************)
LEMMA PageRange == /\ 0 \in Page
                   /\ \A lo, hi \in Page : lo..hi \subseteq Page
  BY CountsAssumption DEF Page

(***************************************************************************)
(* A sector with the same value in every page is a sector.                 *)
(***************************************************************************)
LEMMA UniformType == /\ Blank \in Contents
                     /\ Uniform(Garbled) \in Contents
                     /\ \A d \in Data : Uniform(d) \in Contents
  BY DEF Blank, Uniform, Contents, Value

(***************************************************************************)
(* Programming pages of a sector (hal_norflash_write) gives a sector.      *)
(***************************************************************************)
LEMMA ProgramPagesType ==
  ASSUME NEW c \in Contents, NEW b \in Contents, NEW lo, NEW hi
  PROVE  ProgramPages(c, lo, hi, b) \in Contents
  BY DEF ProgramPages, Programmed, Contents, Value

(***************************************************************************)
(* Copying pages into a sector buffer (_w_opera_add) gives a sector.       *)
(***************************************************************************)
LEMMA OverlayType ==
  ASSUME NEW c \in Contents, NEW b \in Contents, NEW lo, NEW hi
  PROVE  Overlay(c, lo, hi, b) \in Contents
  BY DEF Overlay, Contents

(***************************************************************************)
(* The chip makes a sector of a sector, whatever operation it carries out. *)
(***************************************************************************)
LEMMA EffectType ==
  ASSUME NEW c \in Contents, NEW o \in Opera
  PROVE  Effect(c, o) \in Contents
  BY ProgramPagesType, UniformType DEF Effect, Opera

(***************************************************************************)
(* A plain memory read of a sector returns a sector, suspended or not.     *)
(***************************************************************************)
LEMMA RawType ==
  ASSUME TypeOK, NEW s \in Sector
  PROVE  Raw(s) \in Contents
  BY DEF TypeOK, Raw, Contents, Value

(***************************************************************************)
(* A sector torn by a power loss is a sector still.                        *)
(***************************************************************************)
LEMMA TornType ==
  ASSUME TypeOK, NEW s \in Sector, NEW type, NEW first \in Page, NEW hi \in Page,
         NEW b \in Contents
  PROVE  Torn(type, s, first, hi, b) \subseteq [Sector -> Contents]
<1>1. [flash EXCEPT ![s] = Uniform(Garbled)] \in [Sector -> Contents]
  BY UniformType DEF TypeOK
<1>2. ASSUME NEW p \in first..hi
      PROVE  [flash EXCEPT ![s] = [ProgramPages(@, first, p - 1, b) EXCEPT ![p] = Garbled]]
               \in [Sector -> Contents]
  <2>1. ProgramPages(flash[s], first, p - 1, b) \in Contents
    BY ProgramPagesType DEF TypeOK
  <2>2. [ProgramPages(flash[s], first, p - 1, b) EXCEPT ![p] = Garbled] \in Contents
    BY <2>1 DEF Contents, Value
  <2> QED
    BY <2>2 DEF TypeOK
<1> QED
  BY <1>1, <1>2 DEF Torn

(***************************************************************************)
(* The nodes _e_opera_add and _w_opera_add build and change are            *)
(* operations.                                                             *)
(***************************************************************************)
LEMMA OperaTypes ==
  /\ \A s \in Sector : EraseOpera(s) \in Opera /\ ~EraseOpera(s).lock
  /\ \A s \in Sector, lo, hi \in Page : \A base, b \in Contents :
       WriteOpera(s, base, lo, hi, b) \in Opera /\ ~WriteOpera(s, base, lo, hi, b).lock
  /\ \A o \in Opera, lo, hi \in Page : \A b \in Contents :
       /\ Merged(o, lo, hi, b) \in Opera
       /\ Merged(o, lo, hi, b).lock = o.lock
<1>1. ASSUME NEW s \in Sector
      PROVE  EraseOpera(s) \in Opera /\ ~EraseOpera(s).lock
  BY PageRange, UniformType DEF EraseOpera, Opera
<1>2. ASSUME NEW s \in Sector, NEW lo \in Page, NEW hi \in Page,
             NEW base \in Contents, NEW b \in Contents
      PROVE  WriteOpera(s, base, lo, hi, b) \in Opera /\ ~WriteOpera(s, base, lo, hi, b).lock
  BY OverlayType DEF WriteOpera, Opera
<1>3. ASSUME NEW o \in Opera, NEW lo \in Page, NEW hi \in Page, NEW b \in Contents
      PROVE  /\ Merged(o, lo, hi, b) \in Opera
             /\ Merged(o, lo, hi, b).lock = o.lock
  <2>1. Overlay(o.buff, lo, hi, b) \in Contents
    BY OverlayType DEF Opera
  <2>2. Smaller(o.lo, lo) \in Page /\ Larger(o.hi, hi) \in Page
    BY DEF Smaller, Larger, Opera
  <2> QED
    BY <2>1, <2>2 DEF Merged, Opera
<1> QED
  BY <1>1, <1>2, <1>3

-----------------------------------------------------------------------------
(***************************************************************************)
(* InFlightInv module by module.                                           *)
(***************************************************************************)
LEMMA ListsOK ==
  TypeOK => (LockIsInFlight <=> \A m \in Module : ListOK(queue[m], state[m]))
<1> SUFFICES ASSUME TypeOK, NEW m \in Module
             PROVE  /\ queue[m] \in Seq(Opera)
                    /\ DOMAIN queue[m] = 1..Len(queue[m])
  BY DEF LockIsInFlight, ListOK, HasWork
<1> QED
  BY LenProperties DEF TypeOK

(***************************************************************************)
(* The converse, for the next state: lists of the right shape are all      *)
(* LockIsInFlight asks.                                                    *)
(***************************************************************************)
LEMMA ListsOKNext ==
  TypeOK' => (LockIsInFlight' <=> \A m \in Module : ListOK(queue'[m], state'[m]))
<1> SUFFICES ASSUME TypeOK', NEW m \in Module
             PROVE  /\ queue'[m] \in Seq(Opera)
                    /\ DOMAIN queue'[m] = 1..Len(queue'[m])
  BY DEF LockIsInFlight, ListOK, HasWork
<1> QED
  BY LenProperties DEF TypeOK

(***************************************************************************)
(* What is proved of every step.                                           *)
(***************************************************************************)
InFlightKept == \A m \in Module : state[m] # "IDLE" => EndsOrStays(m)

StepOK == InFlightInv' /\ InFlightKept

(***************************************************************************)
(* A step that touches neither lists nor states keeps what is in flight.   *)
(***************************************************************************)
LEMMA StandsStill ==
  ASSUME InFlightInv, UNCHANGED <<queue, state>>
  PROVE  InFlightKept
  BY DEF InFlightInv, LockIsInFlight, HasWork, InFlightKept, EndsOrStays

(***************************************************************************)
(* Calls that only change the list of one module.                          *)
(***************************************************************************)
LEMMA ListChange ==
  ASSUME InFlightInv, NEW m \in Module, NEW r,
         Follows(queue[m], r, state[m]),
         queue' = [queue EXCEPT ![m] = r], UnchangedFlush, UNCHANGED <<call, broken>>
  PROVE  StepOK
<1>1. TypeOK'
  BY DEF InFlightInv, TypeOK, Follows, ListOK, UnchangedFlush
<1>2. \A n \in Module : ListOK(queue'[n], state'[n])
  BY ListsOK DEF InFlightInv, TypeOK, Follows, UnchangedFlush
<1>3. ChipAgrees'
  BY DEF InFlightInv, ChipAgrees, UnchangedFlush
<1>4. \A n \in Module : state[n] # "IDLE" => queue'[n] # <<>> /\ queue'[n][1] = queue[n][1]
  BY <1>2 DEF InFlightInv, TypeOK, LockIsInFlight, HasWork, Follows, ListOK, UnchangedFlush
<1>5. InFlightKept
  BY <1>4 DEF InFlightKept, EndsOrStays, HasWork, UnchangedFlush
<1> QED
  BY <1>1, <1>2, <1>3, <1>5, ListsOKNext DEF StepOK, InFlightInv

(***************************************************************************)
(* The chip finishes or suspends the oldest operation of m while no other  *)
(* module has one suspended.                                               *)
(***************************************************************************)
OthersIdle(m) == \A n \in Module \ {m} : state[n] = "IDLE"

(***************************************************************************)
(* Completing the oldest operation of a module, when no other module has   *)
(* one suspended (_opera_flush, _opera_del).                               *)
(***************************************************************************)
LEMMA CompleteStep ==
  ASSUME InFlightInv, NEW m \in Module, HasWork(m), OthersIdle(m), Complete(m),
         curMod' \in Module \cup {NoModule}, curModId' \in Module \cup {NoModule},
         gate' \in {"open", "wait", "ready"}, UNCHANGED <<call, broken>>
  PROVE  StepOK
<1>1. ListOK(queue[m], state[m])
  BY ListsOK DEF InFlightInv
<1>2. Head(queue[m]) \in Opera
  BY HeadTailProperties DEF InFlightInv, TypeOK, HasWork
<1>3. ListOK(Tail(queue[m]), "IDLE")
  BY <1>1, TailIsListOK DEF HasWork
<1>4. flash' \in [Sector -> Contents]
  BY <1>2, EffectType DEF InFlightInv, TypeOK, Complete, Opera
<1>5. TypeOK'
  BY <1>3, <1>4, PageRange DEF InFlightInv, TypeOK, Complete, ListOK
<1>6. \A n \in Module : ListOK(queue'[n], state'[n])
  BY <1>3, ListsOK DEF InFlightInv, TypeOK, Complete
<1>7. ChipAgrees'
  BY DEF InFlightInv, TypeOK, ChipAgrees, SuspendedIn, OthersIdle, Complete
<1>8. InFlightKept
  BY DEF InFlightInv, TypeOK, InFlightKept, EndsOrStays, OthersIdle, Complete
<1> QED
  BY <1>5, <1>6, <1>7, <1>8, ListsOKNext DEF StepOK, InFlightInv

(***************************************************************************)
(* Suspending it, on the same condition (_opera_flush).                    *)
(***************************************************************************)
LEMMA SuspendStep ==
  ASSUME InFlightInv, NEW m \in Module, HasWork(m), OthersIdle(m), Suspend(m),
         curMod' = m, curModId' \in Module, gate' \in {"open", "wait", "ready"},
         UNCHANGED <<call, broken>>
  PROVE  StepOK
<1> DEFINE o == Head(queue[m])
           first == IF state[m] = "IDLE" THEN o.lo ELSE opPage
           l == [o EXCEPT !.lock = TRUE]
<1>1. ListOK(queue[m], state[m]) /\ queue[m] # <<>>
  BY ListsOK DEF InFlightInv, HasWork
<1>2. o \in Opera /\ first \in Page /\ l.type = o.type
  <2>1. o \in Opera
    BY HeadTailProperties DEF InFlightInv, TypeOK, HasWork
  <2>2. opPage \in Page
    BY DEF InFlightInv, TypeOK
  <2> HIDE DEF o
  <2> QED
    BY <2>1, <2>2 DEF Opera
<1>3. ListOK([queue[m] EXCEPT ![1] = l], SuspendedAs(o.type))
  <2>1. l \in Opera /\ l.lock
    <3> HIDE DEF o
    <3> QED
      BY <1>2 DEF Opera
  <2> HIDE DEF l
  <2> QED
    BY <1>1, <1>2, <2>1, SuspendKeepsListOK
<1>4. queue' = [queue EXCEPT ![m] = [queue[m] EXCEPT ![1] = l]]
  BY DEF Suspend, InFlightInv, TypeOK
<1>5. flash' \in [Sector -> Contents] /\ opPage' \in Page
  <2>1. CASE o.type = "E"
    BY <2>1, PageRange DEF Suspend, InFlightInv, TypeOK
  <2>2. CASE o.type # "E"
    <3>1. PICK p \in first..o.hi :
            /\ opPage' = p
            /\ flash' = [flash EXCEPT ![o.sector] = ProgramPages(@, first, p - 1, o.buff)]
      BY <2>2 DEF Suspend
    <3>2. p \in Page /\ o.sector \in Sector /\ o.buff \in Contents
      BY <1>2, PageRange DEF Opera
    <3> QED
      BY <3>1, <3>2, ProgramPagesType DEF InFlightInv, TypeOK
  <2> QED
    BY <2>1, <2>2
<1>6. TypeOK'
  BY <1>3, <1>4, <1>5 DEF InFlightInv, TypeOK, Suspend, SuspendedAs, ListOK
<1>7. \A n \in Module : ListOK(queue'[n], state'[n])
  BY <1>3, <1>4, ListsOK DEF InFlightInv, TypeOK, Suspend
<1>8. ChipAgrees'
  <2>1. o.type \in {"E", "W"} /\ m # NoModule
    BY <1>2, CountsAssumption DEF Opera, Module, NoModule
  <2>2. /\ state' = [state EXCEPT ![m] = SuspendedAs(o.type)]
        /\ suspendState' = IF o.type = "E" THEN "ERASE" ELSE "PROGRAM"
    BY DEF Suspend
  <2>3. SuspendedIn(suspendState') = SuspendedAs(o.type) /\ suspendState' # "NONE"
    BY <2>1, <2>2 DEF SuspendedIn, SuspendedAs
  <2> HIDE DEF o
  <2> QED
    BY <2>1, <2>2, <2>3 DEF InFlightInv, TypeOK, ChipAgrees, OthersIdle
<1>9. InFlightKept
  <2> SUFFICES ASSUME state[m] # "IDLE"
               PROVE  EndsOrStays(m)
    BY DEF InFlightKept, OthersIdle
  <2>1. 1 \in 1..Len(queue[m])
    BY <1>1, LenProperties, EmptySeq DEF ListOK
  <2>2. queue[m][1].lock /\ Head(queue[m]) = queue[m][1] /\ state[m] = SuspendedAs(o.type)
    BY <1>1, <2>1 DEF ListOK
  <2>3. l = queue[m][1]
    BY <1>2, <2>2 DEF Opera
  <2>4. queue'[m] # <<>>
    BY <1>3, <1>4 DEF ListOK, SuspendedAs, InFlightInv, TypeOK
  <2>5. [queue[m] EXCEPT ![1] = l][1] = l
    BY <1>1, <2>1, ExceptSeq, LenProperties DEF ListOK
  <2>6. queue'[m][1] = queue[m][1]
    BY <1>4, <2>3, <2>5 DEF InFlightInv, TypeOK
  <2>7. state'[m] = state[m]
    BY <2>2 DEF Suspend, InFlightInv, TypeOK
  <2> QED
    BY <2>4, <2>6, <2>7 DEF EndsOrStays, HasWork
<1> QED
  BY <1>6, <1>7, <1>8, <1>9, ListsOKNext DEF StepOK, InFlightInv

-----------------------------------------------------------------------------
(***************************************************************************)
(* Every action keeps InFlightInv.                                         *)
(***************************************************************************)
LEMMA EraseAsyncKeeps ==
  ASSUME InFlightInv, NEW s \in Sector, EraseAsync(s)
  PROVE  StepOK
<1> DEFINE m == Owner[s]
           q == queue[m]
<1>1. m \in Module /\ ListOK(q, state[m])
  BY ListsOK, OwnerAssumption DEF InFlightInv
<1>2. PICK r \in Without(q, Stale(q, s)) :
        \/ queue' = [queue EXCEPT ![m] = r]
        \/ queue' = [queue EXCEPT ![m] = Append(r, EraseOpera(s))]
  BY DEF EraseAsync
<1>3. Follows(q, r, state[m])
  BY <1>1, WithoutStaleFollows
<1>4. Follows(q, Append(r, EraseOpera(s)), state[m])
  <2>1. Follows(r, Append(r, EraseOpera(s)), state[m])
    BY <1>3, AppendFollows, OperaTypes DEF Follows
  <2> QED
    BY <1>3, <2>1 DEF Follows
<1>5. UnchangedFlush /\ UNCHANGED <<call, broken>>
  BY DEF EraseAsync
<1> HIDE DEF m
<1> QED
  BY <1>1, <1>2, <1>3, <1>4, <1>5, ListChange

(***************************************************************************)
(* _w_opera_add merging into a pending write.                              *)
(***************************************************************************)
LEMMA WriteMergeKeeps ==
  ASSUME InFlightInv, NEW s \in Sector, NEW lo \in Page, NEW hi \in Page,
         NEW b \in Contents, WriteMerge(s, lo, hi, b)
  PROVE  StepOK
<1> DEFINE m == Owner[s]
           q == queue[m]
<1>1. m \in Module /\ ListOK(q, state[m])
  BY ListsOK, OwnerAssumption DEF InFlightInv
<1>2. PICK i \in DOMAIN q :
        /\ MergesInto(q, s, i)
        /\ queue' = [queue EXCEPT ![m][i] = Merged(@, lo, hi, b)]
  BY DEF WriteMerge
<1>3. i \in 1..Len(q) /\ q[i] \in Opera
  BY <1>1, LenProperties, ElementOfSeq DEF ListOK
<1>4. ~q[i].lock
  BY <1>2, <1>3 DEF MergesInto, FoundFirst, PassedBy, Opera
<1>5. Merged(q[i], lo, hi, b) \in Opera /\ ~Merged(q[i], lo, hi, b).lock
  BY <1>3, <1>4, OperaTypes
<1>6. Follows(q, [q EXCEPT ![i] = Merged(q[i], lo, hi, b)], state[m])
  BY <1>1, <1>3, <1>4, <1>5, ChangeFollows
<1>7. queue' = [queue EXCEPT ![m] = [q EXCEPT ![i] = Merged(q[i], lo, hi, b)]]
  BY <1>2
<1>8. UnchangedFlush /\ UNCHANGED <<call, broken>>
  BY DEF WriteMerge
<1> HIDE DEF m
<1> QED
  BY <1>1, <1>6, <1>7, <1>8, ListChange

(***************************************************************************)
(* _w_opera_add adding a write.                                            *)
(***************************************************************************)
LEMMA WriteAddKeeps ==
  ASSUME InFlightInv, NEW s \in Sector, NEW lo \in Page, NEW hi \in Page,
         NEW b \in Contents, WriteAdd(s, lo, hi, b)
  PROVE  StepOK
<1> DEFINE m == Owner[s]
           base == IF BehindErase(queue[m], s) THEN Blank ELSE Raw(s)
           o == WriteOpera(s, base, lo, hi, b)
<1>1. m \in Module /\ ListOK(queue[m], state[m])
  BY ListsOK, OwnerAssumption DEF InFlightInv
<1>2. base \in Contents
  BY RawType, UniformType DEF InFlightInv
<1> HIDE DEF base
<1>3. Follows(queue[m], Append(queue[m], o), state[m])
  BY <1>1, <1>2, AppendFollows, OperaTypes
<1>4. /\ queue' = [queue EXCEPT ![m] = Append(queue[m], o)]
      /\ UnchangedFlush
      /\ UNCHANGED <<call, broken>>
  BY DEF WriteAdd, base
<1> HIDE DEF m, o
<1> QED
  BY <1>1, <1>3, <1>4, ListChange

(***************************************************************************)
(* The module norflash_api_flush serves is the only one that can have an   *)
(* operation suspended.                                                    *)
(***************************************************************************)
LEMMA ServedAlone ==
  ASSUME InFlightInv, NEW m \in Module, Serve(m)
  PROVE  OthersIdle(m)
  BY DEF InFlightInv, ChipAgrees, Serve, IsCurMod, OthersIdle, SuspendedIn

(***************************************************************************)
(* norflash_api_flush.                                                     *)
(***************************************************************************)
LEMMA FlushKeeps ==
  ASSUME InFlightInv, Flush
  PROVE  StepOK
<1>1. ASSUME NEW m \in Module, FlushSuspended(m)
      PROVE  StepOK
  <2>1. OthersIdle(m)
    BY <1>1, ServedAlone DEF FlushSuspended
  <2> QED
    BY <1>1, <2>1, SuspendStep DEF FlushSuspended, Serve
<1>2. ASSUME NEW m \in Module, FlushCompleted(m)
      PROVE  StepOK
  <2>1. OthersIdle(m)
    BY <1>2, ServedAlone DEF FlushCompleted
  <2> QED
    BY <1>2, <2>1, CompleteStep DEF FlushCompleted, Serve
<1>3. ASSUME NEW m \in Module, FlushModuleDone(m)
      PROVE  StepOK
  <2>1. OthersIdle(m)
    BY <1>3, ServedAlone DEF FlushModuleDone
  <2>2. state[m] = "IDLE"
    BY <1>3 DEF FlushModuleDone, InFlightInv, LockIsInFlight
  <2>3. suspendState = "NONE"
    BY <2>1, <2>2 DEF InFlightInv, TypeOK, ChipAgrees, OthersIdle, SuspendedIn, SuspendedAs
  <2>4. ChipAgrees'
    BY <1>3, <2>1, <2>2, <2>3 DEF FlushModuleDone, ChipAgrees, OthersIdle, SuspendedIn
  <2>5. TypeOK' /\ LockIsInFlight'
    BY <1>3 DEF FlushModuleDone, Serve, InFlightInv, TypeOK, LockIsInFlight, HasWork
  <2>6. InFlightKept
    BY <1>3, StandsStill DEF FlushModuleDone
  <2> QED
    BY <2>4, <2>5, <2>6 DEF StepOK, InFlightInv
<1>4. CASE FlushNothing
  <2>1. InFlightKept
    BY <1>4, StandsStill DEF FlushNothing
  <2> QED
    BY <1>4, <2>1 DEF FlushNothing, StepOK, InFlightInv, TypeOK, LockIsInFlight, HasWork,
                      ChipAgrees
<1> QED
  BY <1>1, <1>2, <1>3, <1>4 DEF Flush

(***************************************************************************)
(* norflash_api_flush_disable and _enable, and the CP core getting ready.  *)
(***************************************************************************)
LEMMA GateKeeps ==
  ASSUME InFlightInv, FlushDisable \/ FlushEnable \/ CpReady
  PROVE  StepOK
<1>1. UnchangedButGate /\ gate' \in {"open", "wait", "ready"}
  BY DEF FlushDisable, FlushEnable, CpReady
<1>2. InFlightKept
  BY <1>1, StandsStill DEF UnchangedButGate
<1> QED
  BY <1>1, <1>2 DEF UnchangedButGate, StepOK, InFlightInv, TypeOK, LockIsInFlight, HasWork,
                    ChipAgrees

(***************************************************************************)
(* The synchronous calls.                                                  *)
(***************************************************************************)
LEMMA CallType ==
  ASSUME TypeOK, call # NoCall
  PROVE  /\ call.sector \in Sector /\ Owner[call.sector] \in Module
         /\ call.lo \in Page /\ call.hi \in Page /\ Uniform(call.data) \in Contents
  BY UniformType, SyncAssumption, OwnerAssumption DEF TypeOK, Call

(***************************************************************************)
(* The beginning of a synchronous call.                                    *)
(***************************************************************************)
LEMMA SyncBeginKeeps ==
  ASSUME InFlightInv, NEW c \in Call, SyncBegin(c)
  PROVE  StepOK
<1>1. InFlightKept
  BY StandsStill DEF SyncBegin
<1> QED
  BY <1>1 DEF SyncBegin, UnchangedCur, StepOK, InFlightInv, TypeOK, LockIsInFlight, HasWork,
              ChipAgrees

(***************************************************************************)
(* Its steps: finishing another module's operation, draining, the call     *)
(* itself.                                                                 *)
(***************************************************************************)
LEMMA SyncStepKeeps ==
  ASSUME InFlightInv, SyncStep
  PROVE  StepOK
<1>1. CASE SyncFinishOther
  <2>1. curMod \in Module /\ state[curMod] # "IDLE"
    BY <1>1 DEF SyncFinishOther, OtherSuspended, InFlightInv, TypeOK
  <2>2. HasWork(curMod) /\ OthersIdle(curMod)
    BY <2>1 DEF InFlightInv, LockIsInFlight, ChipAgrees, OthersIdle
  <2> QED
    BY <1>1, <2>1, <2>2, CompleteStep
    DEF SyncFinishOther, UnchangedCur, InFlightInv, TypeOK
<1>2. CASE SyncDrain
  <2> DEFINE m == Owner[call.sector]
  <2>1. m \in Module /\ HasWork(m) /\ Complete(m)
    BY <1>2, CallType DEF SyncDrain, InFlightInv
  <2>2. OthersIdle(m)
    <3>1. curMod \in {NoModule, m} \/ state[curMod] = "IDLE"
      BY <1>2 DEF SyncDrain, OtherSuspended
    <3>2. \A n \in Module : n # curMod => state[n] = "IDLE"
      BY DEF InFlightInv, ChipAgrees
    <3> HIDE DEF m
    <3> QED
      BY <3>1, <3>2, CountsAssumption DEF OthersIdle, NoModule, Module
  <2>3. /\ gate' = "open"
        /\ UNCHANGED <<call, broken, curMod, curModId>>
    BY <1>2 DEF SyncDrain, UnchangedCur
  <2> HIDE DEF m
  <2> QED
    BY <2>1, <2>2, <2>3, CompleteStep DEF InFlightInv, TypeOK
<1>3. CASE SyncOp
  <2>1. call # NoCall
    BY <1>3 DEF SyncOp
  <2>2. flash' \in [Sector -> Contents]
    <3>1. ProgramPages(flash[call.sector], call.lo, call.hi, Uniform(call.data)) \in Contents
      BY <2>1, CallType, ProgramPagesType DEF InFlightInv, TypeOK
    <3> QED
      BY <1>3, <3>1, UniformType DEF SyncOp, InFlightInv, TypeOK
  <2>3. TypeOK'
    BY <1>3, <2>2 DEF SyncOp, UnchangedCur, InFlightInv, TypeOK
  <2>4. LockIsInFlight' /\ ChipAgrees'
    BY <1>3 DEF SyncOp, UnchangedCur, InFlightInv, LockIsInFlight, HasWork, ChipAgrees
  <2>5. InFlightKept
    BY <1>3, StandsStill DEF SyncOp
  <2> QED
    BY <2>3, <2>4, <2>5 DEF StepOK, InFlightInv
<1> QED
  BY <1>1, <1>2, <1>3 DEF SyncStep

(***************************************************************************)
(* A power loss leaves a chip that can be read, and nothing in flight.     *)
(***************************************************************************)
LEMMA EmptyListsOK ==
  ListOK(<<>>, "IDLE") /\ <<>> \in Seq(Opera)
  BY EmptySeq DEF ListOK

(***************************************************************************)
(* What a power loss makes of the operation on the chip.                   *)
(***************************************************************************)
LEMMA TornHeadType ==
  ASSUME TypeOK, NEW m \in Module, HasWork(m)
  PROVE  TornHead(m) \subseteq [Sector -> Contents]
<1> DEFINE o == Head(queue[m])
           first == IF state[m] = "IDLE" THEN o.lo ELSE opPage
<1>1. o \in Opera
  BY HeadTailProperties DEF TypeOK, HasWork
<1>2. opPage \in Page
  BY DEF TypeOK
<1>3. TornHead(m) = Torn(o.type, o.sector, first, o.hi, o.buff)
  BY DEF TornHead
<1> HIDE DEF o
<1>4. o.sector \in Sector /\ first \in Page /\ o.hi \in Page /\ o.buff \in Contents
  BY <1>1, <1>2 DEF Opera
<1> HIDE DEF first
<1> QED
  BY <1>3, <1>4, TornType

(***************************************************************************)
(* A power loss and the boot after it.                                     *)
(***************************************************************************)
LEMMA PowerLossKeeps ==
  ASSUME InFlightInv, PowerLoss
  PROVE  StepOK
<1>1. flash' \in [Sector -> Contents]
  <2>1. CASE UNCHANGED flash
    BY <2>1 DEF InFlightInv, TypeOK
  <2>2. ASSUME NEW m \in Module, OnChip(m), flash' \in TornHead(m)
        PROVE  flash' \in [Sector -> Contents]
    BY <2>2, TornHeadType DEF OnChip, InFlightInv
  <2>3. CASE CallOnChip /\ flash' \in TornCall
    BY <2>3, CallType, TornType DEF CallOnChip, TornCall, InFlightInv
  <2> QED
    BY <2>1, <2>2, <2>3 DEF PowerLoss
<1>2. TypeOK'
  BY <1>1, EmptyListsOK, PageRange DEF PowerLoss, InFlightInv, TypeOK, NoModule
<1>3. LockIsInFlight'
  BY <1>2, EmptyListsOK, ListsOKNext DEF PowerLoss
<1>4. ChipAgrees'
  BY DEF PowerLoss, ChipAgrees, SuspendedIn
<1>5. InFlightKept
  BY DEF PowerLoss, InFlightKept, EndsOrStays, HasWork
<1> QED
  BY <1>2, <1>3, <1>4, <1>5 DEF StepOK, InFlightInv

-----------------------------------------------------------------------------
(***************************************************************************)
(* The empty lists and the idle chip of norflash_api_init satisfy the      *)
(* invariant.                                                              *)
(***************************************************************************)
LEMMA InitInFlight == Init => InFlightInv
<1> SUFFICES ASSUME Init PROVE InFlightInv
  OBVIOUS
<1>1. TypeOK
  BY EmptyListsOK, PageRange, UniformType DEF Init, TypeOK, NoModule
<1>2. LockIsInFlight
  BY <1>1, EmptyListsOK, ListsOK DEF Init
<1>3. ChipAgrees
  BY DEF Init, ChipAgrees, SuspendedIn
<1> QED
  BY <1>1, <1>2, <1>3 DEF InFlightInv

(***************************************************************************)
(* Every step of the service keeps the invariant and what is in flight.    *)
(***************************************************************************)
LEMMA NextInFlight == InFlightInv /\ [Next]_vars => StepOK
<1> SUFFICES ASSUME InFlightInv, [Next]_vars PROVE StepOK
  OBVIOUS
<1>1. CASE ClientCall
  <2>1. ASSUME NEW s \in Sector, EraseAsync(s)
        PROVE  StepOK
    BY <2>1, EraseAsyncKeeps
  <2>2. ASSUME NEW s \in Sector, EraseAsyncBreaks(s)
        PROVE  StepOK
    <3>1. InFlightKept
      BY <2>2, StandsStill DEF EraseAsyncBreaks, UnchangedFlush
    <3> QED
      BY <2>2, <3>1 DEF EraseAsyncBreaks, UnchangedFlush, StepOK, InFlightInv, TypeOK,
                        LockIsInFlight, HasWork, ChipAgrees
  <2>3. ASSUME NEW s \in Sector, NEW lo \in Page, NEW hi \in Page, NEW d \in Data,
               WriteAsync(s, lo, hi, Uniform(d))
        PROVE  StepOK
    BY <2>3, UniformType, WriteMergeKeeps, WriteAddKeeps DEF WriteAsync
  <2> QED
    BY <1>1, <2>1, <2>2, <2>3, SyncBeginKeeps DEF ClientCall
<1>2. CASE SyncStep
  BY <1>2, SyncStepKeeps
<1>3. CASE Flush
  BY <1>3, FlushKeeps
<1>4. CASE FlushDisable \/ FlushEnable \/ CpReady
  BY <1>4, GateKeeps
<1>5. CASE PowerLoss
  BY <1>5, PowerLossKeeps
<1>6. CASE UNCHANGED vars
  <2>1. InFlightKept
    BY <1>6, StandsStill DEF vars
  <2> QED
    BY <1>6, <2>1 DEF vars, StepOK, InFlightInv, TypeOK, LockIsInFlight, HasWork, ChipAgrees
<1> QED
  BY <1>1, <1>2, <1>3, <1>4, <1>5, <1>6 DEF Next

(***************************************************************************)
(* The type invariant, LockIsInFlight and ChipAgrees hold together, for    *)
(* every number of modules, sectors, pages and buffers, whatever the       *)
(* interleaving of calls, flushes, interrupts and power losses.            *)
(***************************************************************************)
THEOREM InFlightInvariant == Spec => []InFlightInv
<1>1. InFlightInv /\ [Next]_vars => InFlightInv'
  BY NextInFlight DEF StepOK
<1> QED
  BY <1>1, InitInFlight, PTL DEF Spec

(***************************************************************************)
(* The lists, the states and the cursors always have the types             *)
(* norflash_api.h gives them.                                              *)
(***************************************************************************)
THEOREM TypeTheorem == Spec => []TypeOK
  BY InFlightInvariant, PTL DEF InFlightInv

(***************************************************************************)
(* At most the oldest node of a list is locked, and exactly while its      *)
(* module's operation is suspended: no erase frees it, no write overwrites *)
(* its buffer.                                                             *)
(***************************************************************************)
THEOREM LockTheorem == Spec => []LockIsInFlight
  BY InFlightInvariant, PTL DEF InFlightInv

(***************************************************************************)
(* Only the module that is served next has an operation suspended, and     *)
(* hal_norflash is suspended in the same kind of operation: the ASSERTs of *)
(* _opera_flush on the answers of the hal cannot fail for a bad state.     *)
(***************************************************************************)
THEOREM ChipTheorem == Spec => []ChipAgrees
  BY InFlightInvariant, PTL DEF InFlightInv

(***************************************************************************)
(* The node the chip works on, with the buffer it reads from, is neither   *)
(* changed nor freed before its operation is done or the power fails:      *)
(* neither by _e_opera_add, which frees nodes, nor by _w_opera_add, which  *)
(* overwrites buffers, nor by a synchronous call of any module.            *)
(***************************************************************************)
THEOREM InFlightStableTheorem == Spec => InFlightStable
<1>1. InFlightInv /\ [Next]_vars
        => [\A m \in Module : state[m] # "IDLE" => EndsOrStays(m)]_vars
  BY NextInFlight DEF StepOK, InFlightKept
<1> QED
  BY <1>1, InFlightInvariant, PTL DEF Spec, InFlightStable

-----------------------------------------------------------------------------
(***************************************************************************)
(* OnePendingPerKind is inductive once the lists are known to be sequences *)
(* of operations (TypeTheorem): an erase is added to a list without        *)
(* waiting operations on its sector, and a write only where there is no    *)
(* write to merge into.                                                    *)
(***************************************************************************)

(***************************************************************************)
(* What OnePendingPerKind says of one list.                                *)
(***************************************************************************)
PairOK(q) ==
  \A i, j \in 1..Len(q) :
    /\ i < j
    /\ q[i].sector = q[j].sector
    /\ ~q[i].lock
    => q[i].type = "E" /\ q[j].type = "W"

(***************************************************************************)
(* Nothing of the list waits for sector s.                                 *)
(***************************************************************************)
NoneWaits(q, s) == \A i \in 1..Len(q) : q[i].sector = s => q[i].lock

(***************************************************************************)
(* Dropping an operation, wherever it is, leaves such a list.              *)
(***************************************************************************)
LEMMA RemovePair ==
  ASSUME NEW q \in Seq(Opera), PairOK(q), NEW i \in 1..Len(q)
  PROVE  PairOK(RemoveAt(q, i))
<1> DEFINE r == RemoveAt(q, i)
           at(k) == IF k < i THEN k ELSE k + 1
<1>1. /\ Len(r) = Len(q) - 1
      /\ \A k \in 1..Len(r) : r[k] = q[at(k)]
  BY RemoveAtIs
<1>2. Len(q) \in Nat
  BY LenProperties
<1>3. \A k \in 1..Len(r) : at(k) \in 1..Len(q)
  BY <1>1, <1>2
<1>4. \A k, l \in 1..Len(r) : k < l => at(k) < at(l)
  BY <1>1, <1>2
<1> HIDE DEF r, at
<1>5. ASSUME NEW k \in 1..Len(r), NEW l \in 1..Len(r), k < l, r[k].sector = r[l].sector,
             ~r[k].lock
      PROVE  r[k].type = "E" /\ r[l].type = "W"
  <2>1. r[k] = q[at(k)] /\ r[l] = q[at(l)]
    BY <1>1
  <2>2. at(k) \in 1..Len(q) /\ at(l) \in 1..Len(q) /\ at(k) < at(l)
    BY <1>3, <1>4, <1>5
  <2> QED
    BY <1>5, <2>1, <2>2 DEF PairOK
<1>6. PairOK(r)
  BY <1>5 DEF PairOK
<1> QED
  BY <1>6 DEF r

(***************************************************************************)
(* A new operation may be added when all that waits for its sector is      *)
(* erases, and it is a write.                                              *)
(***************************************************************************)
LEMMA AppendPair ==
  ASSUME NEW q \in Seq(Opera), PairOK(q), NEW o \in Opera,
         \A i \in 1..Len(q) : q[i].sector = o.sector /\ ~q[i].lock
                                => q[i].type = "E" /\ o.type = "W"
  PROVE  PairOK(Append(q, o))
<1>1. /\ Len(Append(q, o)) = Len(q) + 1
      /\ \A i \in 1..Len(q) : Append(q, o)[i] = q[i]
      /\ Append(q, o)[Len(q) + 1] = o
  BY AppendProperties
<1>2. Len(q) \in Nat
  BY LenProperties
<1> QED
  BY <1>1, <1>2 DEF PairOK

(***************************************************************************)
(* When all that is stale on s was dropped, nothing waits for s any more.  *)
(***************************************************************************)
LEMMA RemovedWaits ==
  ASSUME NEW q \in Seq(Opera), NEW s, NEW i \in 1..Len(q),
         \A k \in 1..Len(q) : k # i /\ q[k].sector = s => q[k].lock
  PROVE  NoneWaits(RemoveAt(q, i), s)
<1>1. /\ Len(RemoveAt(q, i)) = Len(q) - 1
      /\ \A k \in 1..(Len(q) - 1) :
           RemoveAt(q, i)[k] = IF k < i THEN q[k] ELSE q[k + 1]
  BY RemoveAtIs
<1>2. Len(q) \in Nat
  BY LenProperties
<1> QED
  BY <1>1, <1>2 DEF NoneWaits

(***************************************************************************)
(* The loop of _e_opera_add leaves a list of the same shape, in which      *)
(* nothing waits for the sector to be erased.                              *)
(***************************************************************************)
LEMMA WithoutStalePair ==
  ASSUME NEW q \in Seq(Opera), PairOK(q), NEW s, NEW r \in Without(q, Stale(q, s))
  PROVE  r \in Seq(Opera) /\ PairOK(r) /\ NoneWaits(r, s)
<1>1. \A i : i \in Stale(q, s) <=> i \in 1..Len(q) /\ q[i].sector = s /\ ~q[i].lock
  BY LenProperties DEF Stale, OnSector
<1>2. CASE r = q /\ Stale(q, s) = {}
  BY <1>1, <1>2 DEF NoneWaits
<1>3. CASE \E i \in Stale(q, s) : r = RemoveAt(q, i) /\ Stale(q, s) = {i}
  <2>1. PICK i \in Stale(q, s) : r = RemoveAt(q, i) /\ Stale(q, s) = {i}
    BY <1>3
  <2>2. i \in 1..Len(q) /\ \A k \in 1..Len(q) : k # i /\ q[k].sector = s => q[k].lock
    BY <1>1, <2>1
  <2> QED
    BY <2>1, <2>2, RemovedWaits, RemovePair, RemoveAtIs
<1>4. CASE \E i, j \in Stale(q, s) : /\ i > j
                                     /\ Stale(q, s) = {i, j}
                                     /\ r = RemoveAt(RemoveAt(q, i), j)
  <2>1. PICK i \in Stale(q, s), j \in Stale(q, s) :
          i > j /\ Stale(q, s) = {i, j} /\ r = RemoveAt(RemoveAt(q, i), j)
    BY <1>4
  <2> DEFINE p == RemoveAt(q, i)
  <2>2. i \in 1..Len(q) /\ j \in 1..Len(q) /\ Len(q) \in Nat
    BY <1>1, <2>1, LenProperties
  <2>3. /\ p \in Seq(Opera) /\ Len(p) = Len(q) - 1
        /\ \A k \in 1..(Len(q) - 1) : p[k] = IF k < i THEN q[k] ELSE q[k + 1]
    BY <2>2, RemoveAtIs
  <2>4. j \in 1..Len(p) /\ PairOK(p)
    BY <2>1, <2>2, <2>3, RemovePair
  <2>5. \A k \in 1..Len(p) : k # j /\ p[k].sector = s => p[k].lock
    <3>1. \A k \in 1..Len(q) : k \notin {i, j} /\ q[k].sector = s => q[k].lock
      BY <1>1, <2>1
    <3> HIDE DEF p
    <3> QED
      BY <3>1, <2>1, <2>2, <2>3
  <2> HIDE DEF p
  <2>6. NoneWaits(RemoveAt(p, j), s) /\ PairOK(RemoveAt(p, j)) /\ RemoveAt(p, j) \in Seq(Opera)
    BY <2>3, <2>4, <2>5, RemovedWaits, RemovePair, RemoveAtIs
  <2> QED
    BY <2>1, <2>6 DEF p
<1> QED
  BY <1>2, <1>3, <1>4 DEF Without

(***************************************************************************)
(* Where _w_opera_add finds no write to merge into, only erases wait for   *)
(* the sector: a waiting write would have been the newest on it.           *)
(***************************************************************************)
LEMMA NothingToMergeInto ==
  ASSUME NEW q \in Seq(Opera), PairOK(q), NEW s,
         \A i \in DOMAIN q : ~MergesInto(q, s, i)
  PROVE  \A i \in 1..Len(q) : q[i].sector = s /\ ~q[i].lock => q[i].type = "E"
<1> SUFFICES ASSUME NEW i \in 1..Len(q), q[i].sector = s, ~q[i].lock, q[i].type # "E"
             PROVE  FALSE
  OBVIOUS
<1>1. q[i].type = "W" /\ DOMAIN q = 1..Len(q) /\ Len(q) \in Nat
  <2>1. q[i] \in Opera
    BY ElementOfSeq
  <2> QED
    BY <2>1, LenProperties DEF Opera
<1>2. \A j \in 1..Len(q) : j > i => q[j].sector # s
  BY <1>1 DEF PairOK
<1>3. FoundFirst(q, s, i)
  BY <1>1, <1>2 DEF FoundFirst, OnSector, PassedBy
<1> QED
  BY <1>1, <1>3 DEF MergesInto

(***************************************************************************)
(* Changing an operation without changing its kind, sector or lock, or     *)
(* only to lock it, keeps the shape of the list.                           *)
(***************************************************************************)
LEMMA ChangePair ==
  ASSUME NEW q \in Seq(Opera), PairOK(q), NEW i \in 1..Len(q), NEW o \in Opera,
         o.type = q[i].type, o.sector = q[i].sector, q[i].lock => o.lock
  PROVE  PairOK([q EXCEPT ![i] = o])
<1>1. /\ Len([q EXCEPT ![i] = o]) = Len(q)
      /\ \A j \in 1..Len(q) : [q EXCEPT ![i] = o][j] = IF j = i THEN o ELSE q[j]
  BY ExceptSeq
<1> QED
  BY <1>1 DEF PairOK

(***************************************************************************)
(* So does dropping the oldest operation.                                  *)
(***************************************************************************)
LEMMA TailPair ==
  ASSUME NEW q \in Seq(Opera), PairOK(q), q # <<>>
  PROVE  PairOK(Tail(q))
<1>1. /\ Len(Tail(q)) = Len(q) - 1
      /\ \A i \in 1..Len(Tail(q)) : Tail(q)[i] = q[i + 1]
  BY HeadTailProperties
<1>2. Len(q) \in Nat
  BY LenProperties
<1> QED
  BY <1>1, <1>2 DEF PairOK

-----------------------------------------------------------------------------
(***************************************************************************)
(* The invariant list by list.                                             *)
(***************************************************************************)
AllPairOK == \A m \in Module : PairOK(queue[m])

(***************************************************************************)
(* It is OnePendingPerKind.                                                *)
(***************************************************************************)
LEMMA PairsAre == TypeOK => (OnePendingPerKind <=> AllPairOK)
<1> SUFFICES ASSUME TypeOK, NEW m \in Module
             PROVE  DOMAIN queue[m] = 1..Len(queue[m])
  BY DEF OnePendingPerKind, AllPairOK, PairOK
<1> QED
  BY LenProperties DEF TypeOK

(***************************************************************************)
(* A step that gives one module a list of the right shape keeps it.        *)
(***************************************************************************)
LEMMA OneListChanges ==
  ASSUME TypeOK, AllPairOK, NEW m \in Module, NEW r, PairOK(r),
         queue' = [queue EXCEPT ![m] = r]
  PROVE  AllPairOK'
  BY DEF TypeOK, AllPairOK

(***************************************************************************)
(* norflash_api_erase, async.                                              *)
(***************************************************************************)
LEMMA EraseAsyncPair ==
  ASSUME TypeOK, AllPairOK, NEW s \in Sector, EraseAsync(s)
  PROVE  AllPairOK'
<1> DEFINE m == Owner[s]
           q == queue[m]
<1>1. m \in Module /\ q \in Seq(Opera) /\ PairOK(q)
  BY OwnerAssumption DEF TypeOK, AllPairOK
<1>2. PICK r \in Without(q, Stale(q, s)) :
        \/ queue' = [queue EXCEPT ![m] = r]
        \/ queue' = [[queue EXCEPT ![m] = r] EXCEPT ![m] = Append(r, EraseOpera(s))]
  BY DEF EraseAsync
<1>3. r \in Seq(Opera) /\ PairOK(r) /\ NoneWaits(r, s)
  BY <1>1, WithoutStalePair
<1>4. PairOK(Append(r, EraseOpera(s)))
  <2>1. EraseOpera(s) \in Opera /\ EraseOpera(s).sector = s
    BY OperaTypes DEF EraseOpera
  <2> QED
    BY <1>3, <2>1, AppendPair DEF NoneWaits
<1> HIDE DEF m, q
<1> QED
  BY <1>1, <1>2, <1>3, <1>4, OneListChanges DEF TypeOK

(***************************************************************************)
(* norflash_api_write, async, which merges.                                *)
(***************************************************************************)
LEMMA WriteMergePair ==
  ASSUME TypeOK, AllPairOK, NEW s \in Sector, NEW lo \in Page, NEW hi \in Page,
         NEW b \in Contents, WriteMerge(s, lo, hi, b)
  PROVE  AllPairOK'
<1> DEFINE m == Owner[s]
           q == queue[m]
<1>1. m \in Module /\ q \in Seq(Opera) /\ PairOK(q) /\ DOMAIN q = 1..Len(q)
  BY OwnerAssumption, LenProperties DEF TypeOK, AllPairOK
<1>2. PICK i \in DOMAIN q : queue' = [queue EXCEPT ![m][i] = Merged(@, lo, hi, b)]
  BY DEF WriteMerge
<1> DEFINE o == Merged(q[i], lo, hi, b)
<1>3. q[i] \in Opera
  BY <1>1, <1>2, ElementOfSeq
<1>4. o \in Opera /\ o.type = q[i].type /\ o.sector = q[i].sector /\ o.lock = q[i].lock
  BY <1>3, OperaTypes DEF Merged, Opera
<1>5. queue' = [queue EXCEPT ![m] = [q EXCEPT ![i] = o]]
  BY <1>1, <1>2 DEF TypeOK
<1> HIDE DEF m, q, o
<1>6. PairOK([q EXCEPT ![i] = o])
  BY <1>1, <1>2, <1>4, ChangePair
<1> QED
  BY <1>1, <1>5, <1>6, OneListChanges

(***************************************************************************)
(* norflash_api_write, async, which adds an operation.                     *)
(***************************************************************************)
LEMMA WriteAddPair ==
  ASSUME TypeOK, AllPairOK, NEW s \in Sector, NEW lo \in Page, NEW hi \in Page,
         NEW b \in Contents, WriteAdd(s, lo, hi, b)
  PROVE  AllPairOK'
<1> DEFINE m == Owner[s]
           q == queue[m]
           base == IF BehindErase(q, s) THEN Blank ELSE Raw(s)
           o == WriteOpera(s, base, lo, hi, b)
<1>1. m \in Module /\ q \in Seq(Opera) /\ PairOK(q)
  BY OwnerAssumption DEF TypeOK, AllPairOK
<1>2. base \in Contents
  BY RawType, UniformType
<1>3. o \in Opera /\ o.type = "W" /\ o.sector = s
  BY <1>2, OperaTypes DEF WriteOpera
<1>4. /\ \A i \in DOMAIN q : ~MergesInto(q, s, i)
      /\ queue' = [queue EXCEPT ![m] = Append(q, o)]
  BY DEF WriteAdd
<1> HIDE DEF m, q, base, o
<1>5. PairOK(Append(q, o))
  BY <1>1, <1>3, <1>4, NothingToMergeInto, AppendPair
<1> QED
  BY <1>1, <1>4, <1>5, OneListChanges

(***************************************************************************)
(* The chip finishes an operation, or is suspended in it.                  *)
(***************************************************************************)
LEMMA ChipPair ==
  ASSUME TypeOK, AllPairOK, NEW m \in Module, HasWork(m), Complete(m) \/ Suspend(m)
  PROVE  AllPairOK'
<1> DEFINE q == queue[m]
           o == [Head(q) EXCEPT !.lock = TRUE]
<1>1. q \in Seq(Opera) /\ q # <<>> /\ PairOK(q)
  BY DEF TypeOK, AllPairOK, HasWork
<1>2. CASE Complete(m)
  <2>1. queue' = [queue EXCEPT ![m] = Tail(q)]
    BY <1>2 DEF Complete
  <2> QED
    BY <1>1, <2>1, TailPair, OneListChanges
<1>3. CASE Suspend(m)
  <2>1. queue' = [queue EXCEPT ![m] = [q EXCEPT ![1] = o]]
    BY <1>3 DEF Suspend, TypeOK
  <2>2. 1 \in 1..Len(q) /\ Head(q) = q[1] /\ Head(q) \in Opera
    BY <1>1, LenProperties, EmptySeq, HeadTailProperties
  <2>3. o \in Opera /\ o.type = q[1].type /\ o.sector = q[1].sector /\ o.lock
    BY <2>2 DEF Opera
  <2> HIDE DEF q, o
  <2> QED
    BY <1>1, <2>1, <2>2, <2>3, ChangePair, OneListChanges
<1> QED
  BY <1>2, <1>3

(***************************************************************************)
(* Every step of the service keeps the shape of the lists.                 *)
(***************************************************************************)
LEMMA NextPair == TypeOK /\ LockIsInFlight /\ AllPairOK /\ [Next]_vars => AllPairOK'
<1> SUFFICES ASSUME TypeOK, LockIsInFlight, AllPairOK, [Next]_vars PROVE AllPairOK'
  OBVIOUS
<1>1. CASE UNCHANGED queue
  BY <1>1 DEF AllPairOK
<1>2. CASE ClientCall
  <2>1. ASSUME NEW s \in Sector, EraseAsync(s) \/ EraseAsyncBreaks(s)
        PROVE  AllPairOK'
    BY <2>1, <1>1, EraseAsyncPair DEF EraseAsyncBreaks
  <2>2. ASSUME NEW s \in Sector, NEW lo \in Page, NEW hi \in Page, NEW d \in Data,
               WriteAsync(s, lo, hi, Uniform(d))
        PROVE  AllPairOK'
    BY <2>2, UniformType, WriteMergePair, WriteAddPair DEF WriteAsync
  <2>3. ASSUME NEW c \in Call, SyncBegin(c)
        PROVE  AllPairOK'
    BY <2>3, <1>1 DEF SyncBegin
  <2> QED
    BY <1>2, <2>1, <2>2, <2>3 DEF ClientCall
<1>3. CASE SyncStep
  <2>1. CASE SyncFinishOther
    <3>1. curMod \in Module /\ Complete(curMod)
      BY <2>1 DEF SyncFinishOther, OtherSuspended, TypeOK
    <3>2. HasWork(curMod)
      BY <2>1, <3>1 DEF SyncFinishOther, OtherSuspended, LockIsInFlight
    <3> QED
      BY <3>1, <3>2, ChipPair
  <2>2. CASE SyncDrain
    BY <2>2, CallType, ChipPair DEF SyncDrain
  <2>3. CASE SyncOp
    BY <2>3, <1>1 DEF SyncOp
  <2> QED
    BY <1>3, <2>1, <2>2, <2>3 DEF SyncStep
<1>4. CASE Flush
  <2>1. ASSUME NEW m \in Module, FlushSuspended(m) \/ FlushCompleted(m) \/ FlushModuleDone(m)
        PROVE  AllPairOK'
    BY <2>1, <1>1, ChipPair DEF FlushSuspended, FlushCompleted, FlushModuleDone
  <2> QED
    BY <1>4, <1>1, <2>1 DEF Flush, FlushNothing
<1>5. CASE FlushDisable \/ FlushEnable \/ CpReady
  BY <1>5, <1>1 DEF FlushDisable, FlushEnable, CpReady, UnchangedButGate
<1>6. CASE PowerLoss
  BY <1>6, EmptySeq DEF PowerLoss, AllPairOK, PairOK
<1> QED
  BY <1>1, <1>2, <1>3, <1>4, <1>5, <1>6 DEF Next, vars

(***************************************************************************)
(* A list never holds two waiting erases or two waiting writes of one      *)
(* sector, and the write is the newer: so _e_opera_add has at most a pair  *)
(* to drop, and what _w_opera_add merges into is the newest version.       *)
(***************************************************************************)
THEOREM OnePendingTheorem == Spec => []OnePendingPerKind
<1>1. Init => AllPairOK
  BY EmptySeq DEF Init, AllPairOK, PairOK
<1>2. Spec => []AllPairOK
  BY <1>1, NextPair, TypeTheorem, LockTheorem, PTL DEF Spec
<1> QED
  BY <1>2, PairsAre, TypeTheorem, PTL

-----------------------------------------------------------------------------
(***************************************************************************)
(* What clients get from the buffers, for any number of nodes too.         *)
(***************************************************************************)
-----------------------------------------------------------------------------
(***************************************************************************)
(* The pools.  A list r needs no more nodes and buffers than q when every  *)
(* operation of r takes the place of one of q, of its type and sector.     *)
(***************************************************************************)
NoLonger(q, r) ==
  \E f \in [1..Len(r) -> 1..Len(q)] :
    /\ \A i, j \in 1..Len(r) : f[i] = f[j] => i = j
    /\ \A i \in 1..Len(r) : r[i].type = q[f[i]].type /\ r[i].sector = q[f[i]].sector

(***************************************************************************)
(* Freeing a node makes a list shorter.                                    *)
(***************************************************************************)
LEMMA RemoveNoLonger ==
  ASSUME NEW q \in Seq(Opera), NEW i \in 1..Len(q)
  PROVE  NoLonger(q, RemoveAt(q, i))
<1> DEFINE r == RemoveAt(q, i)
           f == [k \in 1..Len(r) |-> IF k < i THEN k ELSE k + 1]
<1>1. /\ Len(r) = Len(q) - 1 /\ Len(q) \in Nat
      /\ \A k \in 1..Len(r) : r[k] = IF k < i THEN q[k] ELSE q[k + 1]
  BY RemoveAtIs, LenProperties
<1> HIDE DEF r
<1>2. f \in [1..Len(r) -> 1..Len(q)]
  BY <1>1
<1>3. \A k, l \in 1..Len(r) : f[k] = f[l] => k = l
  BY <1>1
<1>4. \A k \in 1..Len(r) : r[k].type = q[f[k]].type /\ r[k].sector = q[f[k]].sector
  BY <1>1
<1> QED
  BY <1>2, <1>3, <1>4 DEF NoLonger, r

(***************************************************************************)
(* So does dropping the oldest operation, once it is done.                 *)
(***************************************************************************)
LEMMA TailNoLonger ==
  ASSUME NEW q \in Seq(Opera), q # <<>>
  PROVE  NoLonger(q, Tail(q))
<1> DEFINE f == [k \in 1..Len(Tail(q)) |-> k + 1]
<1>1. /\ Len(Tail(q)) = Len(q) - 1 /\ Len(q) \in Nat
      /\ \A k \in 1..Len(Tail(q)) : Tail(q)[k] = q[k + 1]
  BY HeadTailProperties, LenProperties
<1>2. f \in [1..Len(Tail(q)) -> 1..Len(q)]
  BY <1>1
<1>3. \A k, l \in 1..Len(Tail(q)) : f[k] = f[l] => k = l
  BY <1>1
<1>4. \A k \in 1..Len(Tail(q)) :
        Tail(q)[k].type = q[f[k]].type /\ Tail(q)[k].sector = q[f[k]].sector
  BY <1>1
<1> QED
  BY <1>2, <1>3, <1>4 DEF NoLonger

(***************************************************************************)
(* Changing an operation, but for its type, keeps its place in the list.   *)
(***************************************************************************)
LEMMA ChangeNoLonger ==
  ASSUME NEW q \in Seq(Opera), NEW i \in 1..Len(q), NEW o \in Opera,
         o.type = q[i].type, o.sector = q[i].sector
  PROVE  NoLonger(q, [q EXCEPT ![i] = o])
<1> DEFINE r == [q EXCEPT ![i] = o]
           f == [k \in 1..Len(r) |-> k]
<1>1. Len(r) = Len(q) /\ \A k \in 1..Len(q) : r[k] = IF k = i THEN o ELSE q[k]
  BY ExceptSeq
<1> HIDE DEF r
<1>2. f \in [1..Len(r) -> 1..Len(q)]
  BY <1>1
<1>3. \A k \in 1..Len(r) : f[k] = k /\ r[k].type = q[k].type /\ r[k].sector = q[k].sector
  BY <1>1
<1> HIDE DEF f
<1>4. NoLonger(q, r)
  BY <1>2, <1>3 DEF NoLonger
<1> QED
  BY <1>4 DEF r

(***************************************************************************)
(* The comparison is transitive.                                           *)
(***************************************************************************)
LEMMA NoLongerTransitive ==
  ASSUME NEW p, NEW q, NEW r, NoLonger(p, q), NoLonger(q, r)
  PROVE  NoLonger(p, r)
<1>1. PICK f \in [1..Len(q) -> 1..Len(p)] :
        /\ \A i, j \in 1..Len(q) : f[i] = f[j] => i = j
        /\ \A i \in 1..Len(q) : q[i].type = p[f[i]].type /\ q[i].sector = p[f[i]].sector
  BY DEF NoLonger
<1>2. PICK g \in [1..Len(r) -> 1..Len(q)] :
        /\ \A i, j \in 1..Len(r) : g[i] = g[j] => i = j
        /\ \A i \in 1..Len(r) : r[i].type = q[g[i]].type /\ r[i].sector = q[g[i]].sector
  BY DEF NoLonger
<1> DEFINE h == [i \in 1..Len(r) |-> f[g[i]]]
<1>3. \A i \in 1..Len(r) : h[i] = f[g[i]] /\ g[i] \in 1..Len(q)
  BY <1>2
<1>4. h \in [1..Len(r) -> 1..Len(p)]
  BY <1>1, <1>3
<1> HIDE DEF h
<1>5. \A i, j \in 1..Len(r) : h[i] = h[j] => i = j
  BY <1>1, <1>2, <1>3
<1>6. \A i \in 1..Len(r) : r[i].type = p[h[i]].type /\ r[i].sector = p[h[i]].sector
  BY <1>1, <1>2, <1>3
<1> QED
  BY <1>4, <1>5, <1>6 DEF NoLonger

(***************************************************************************)
(* What _e_opera_add leaves of a list is not longer than it was.           *)
(***************************************************************************)
LEMMA WithoutNoLonger ==
  ASSUME NEW q \in Seq(Opera), NEW s, NEW r \in Without(q, Stale(q, s))
  PROVE  r \in Seq(Opera) /\ NoLonger(q, r)
<1>1. \A i \in Stale(q, s) : i \in 1..Len(q)
  BY LenProperties DEF Stale, OnSector
<1>2. CASE r = q
  <2> DEFINE f == [k \in 1..Len(q) |-> k]
  <2>1. f \in [1..Len(q) -> 1..Len(q)] /\ \A k \in 1..Len(q) : f[k] = k
    OBVIOUS
  <2> QED
    BY <1>2, <2>1 DEF NoLonger
<1>3. CASE \E i \in Stale(q, s) : r = RemoveAt(q, i)
  BY <1>1, <1>3, RemoveNoLonger, RemoveAtIs
<1>4. CASE \E i, j \in Stale(q, s) : i > j /\ r = RemoveAt(RemoveAt(q, i), j)
  <2>1. PICK i \in Stale(q, s), j \in Stale(q, s) :
          i > j /\ r = RemoveAt(RemoveAt(q, i), j)
    BY <1>4
  <2>2. i \in 1..Len(q) /\ j \in 1..Len(q) /\ Len(q) \in Nat
    BY <1>1, LenProperties
  <2>3. RemoveAt(q, i) \in Seq(Opera) /\ Len(RemoveAt(q, i)) = Len(q) - 1
    BY <2>2, RemoveAtIs
  <2>4. j \in 1..Len(RemoveAt(q, i))
    BY <2>1, <2>2, <2>3
  <2>5. NoLonger(q, RemoveAt(q, i)) /\ NoLonger(RemoveAt(q, i), r)
    BY <2>1, <2>2, <2>3, <2>4, RemoveNoLonger
  <2>6. r \in Seq(Opera)
    BY <2>1, <2>3, <2>4, RemoveAtIs
  <2> QED
    BY <2>5, <2>6, NoLongerTransitive
<1> QED
  BY <1>2, <1>3, <1>4 DEF Without

(***************************************************************************)
(* The lists as functions, and their nodes.                                *)
(***************************************************************************)
Lists == [Module -> Seq(Opera)]

(***************************************************************************)
(* A node is a list and a position in it.                                  *)
(***************************************************************************)
LEMMA NodesAre ==
  ASSUME NEW Q \in Lists
  PROVE  \A n : n \in Nodes(Q) <=> \E m \in Module : \E i \in 1..Len(Q[m]) : n = <<m, i>>
<1>1. \A m \in Module : DOMAIN Q[m] = 1..Len(Q[m])
  BY LenProperties DEF Lists
<1> QED
  BY <1>1 DEF Nodes

(***************************************************************************)
(* The pools hold the lists Q.                                             *)
(***************************************************************************)
Fits(Q) ==
  /\ IsFiniteSet(Nodes(Q)) /\ Cardinality(Nodes(Q)) <= OpraListLen
  /\ IsFiniteSet(Writes(Q)) /\ Cardinality(Writes(Q)) <= WriteBuffLen

(***************************************************************************)
(* One list gets no longer: neither do the sets of nodes and buffers.      *)
(***************************************************************************)
LEMMA NoLongerCounts ==
  ASSUME NEW Q \in Lists, NEW m \in Module, NEW r \in Seq(Opera), NoLonger(Q[m], r),
         Fits(Q)
  PROVE  Fits([Q EXCEPT ![m] = r])
<1> DEFINE R == [Q EXCEPT ![m] = r]
<1>1. R \in Lists /\ R[m] = r /\ \A n \in Module \ {m} : R[n] = Q[n]
  BY DEF Lists
<1> HIDE DEF R
<1>2. PICK f \in [1..Len(r) -> 1..Len(Q[m])] :
        /\ \A i, j \in 1..Len(r) : f[i] = f[j] => i = j
        /\ \A i \in 1..Len(r) : r[i].type = Q[m][f[i]].type
  BY DEF NoLonger
<1> DEFINE at(n) == IF n[1] = m THEN <<m, f[n[2]]>> ELSE n
           g == [n \in Nodes(R) |-> at(n)]
           h == [n \in Writes(R) |-> at(n)]
<1>3. \A n \in Nodes(R) : /\ at(n) \in Nodes(Q)
                          /\ R[n[1]][n[2]].type = Q[at(n)[1]][at(n)[2]].type
  BY <1>1, <1>2, NodesAre
<1>4. \A k, n \in Nodes(R) : at(k) = at(n) => k = n
  <2> SUFFICES ASSUME NEW k \in Nodes(R), NEW n \in Nodes(R), at(k) = at(n)
               PROVE  k = n
    OBVIOUS
  <2>1. PICK km \in Module : \E i \in 1..Len(R[km]) : k = <<km, i>>
    BY <1>1, NodesAre
  <2>2. PICK nm \in Module : \E i \in 1..Len(R[nm]) : n = <<nm, i>>
    BY <1>1, NodesAre
  <2>3. PICK ki \in 1..Len(R[km]) : k = <<km, ki>>
    BY <2>1
  <2>4. PICK ni \in 1..Len(R[nm]) : n = <<nm, ni>>
    BY <2>2
  <2>5. CASE km = m /\ nm = m
    BY <2>3, <2>4, <2>5, <1>1, <1>2
  <2>6. CASE km # m \/ nm # m
    BY <2>3, <2>4, <2>6
  <2> QED
    BY <2>5, <2>6
<1>5. Writes(R) \subseteq Nodes(R) /\ \A n \in Writes(R) : at(n) \in Writes(Q)
  BY <1>3 DEF Writes
<1> HIDE DEF at
<1>6. g \in Injection(Nodes(R), Nodes(Q))
  BY <1>3, <1>4 DEF Injection, IsInjective
<1>7. h \in Injection(Writes(R), Writes(Q))
  BY <1>4, <1>5 DEF Injection, IsInjective
<1>8. /\ IsFiniteSet(Nodes(R)) /\ Cardinality(Nodes(R)) <= Cardinality(Nodes(Q))
      /\ IsFiniteSet(Writes(R)) /\ Cardinality(Writes(R)) <= Cardinality(Writes(Q))
  BY <1>6, <1>7, FS_Injection DEF Fits
<1>9. /\ Cardinality(Nodes(R)) \in Nat /\ Cardinality(Nodes(Q)) \in Nat
      /\ Cardinality(Writes(R)) \in Nat /\ Cardinality(Writes(Q)) \in Nat
  BY <1>8, FS_CardinalityType DEF Fits
<1> QED
  BY <1>8, <1>9, CountsAssumption DEF Fits, R

(***************************************************************************)
(* A node is added where the pool had one left, and a buffer with it if it *)
(* is a write.                                                             *)
(***************************************************************************)
LEMMA AppendCounts ==
  ASSUME NEW Q \in Lists, NEW m \in Module, NEW o \in Opera, Fits(Q), NodeFree(Q),
         o.type = "W" => BuffFree(Q)
  PROVE  Fits([Q EXCEPT ![m] = Append(Q[m], o)])
<1> DEFINE r == Append(Q[m], o)
           R == [Q EXCEPT ![m] = r]
           k == Len(Q[m]) + 1
<1>1. /\ r \in Seq(Opera) /\ Len(r) = k /\ r[k] = o /\ Len(Q[m]) \in Nat
      /\ \A i \in 1..Len(Q[m]) : r[i] = Q[m][i]
  BY AppendProperties, LenProperties DEF Lists
<1>2. R \in Lists /\ R[m] = r /\ \A n \in Module \ {m} : R[n] = Q[n]
  BY <1>1 DEF Lists
<1> HIDE DEF R, r
<1>3. 1..k = 1..Len(Q[m]) \cup {k}
  BY <1>1
<1>4. Nodes(R) = Nodes(Q) \cup {<<m, k>>}
  BY <1>1, <1>2, <1>3, NodesAre
<1>5. \A n \in Nodes(Q) : R[n[1]][n[2]] = Q[n[1]][n[2]]
  BY <1>1, <1>2, NodesAre
<1>6. R[<<m, k>>[1]][<<m, k>>[2]] = o
  BY <1>1, <1>2
<1>7. Writes(R) = IF o.type = "W" THEN Writes(Q) \cup {<<m, k>>} ELSE Writes(Q)
  BY <1>4, <1>5, <1>6 DEF Writes
<1>8. /\ Cardinality(Nodes(Q)) \in Nat /\ Cardinality(Writes(Q)) \in Nat
      /\ IsFiniteSet(Nodes(Q) \cup {<<m, k>>})
      /\ Cardinality(Nodes(Q) \cup {<<m, k>>}) \in
           {Cardinality(Nodes(Q)), Cardinality(Nodes(Q)) + 1}
      /\ IsFiniteSet(Writes(Q) \cup {<<m, k>>})
      /\ Cardinality(Writes(Q) \cup {<<m, k>>}) \in
           {Cardinality(Writes(Q)), Cardinality(Writes(Q)) + 1}
  BY FS_AddElement, FS_CardinalityType DEF Fits
<1>9. Fits(R)
  BY <1>4, <1>7, <1>8, CountsAssumption DEF Fits, NodeFree, BuffFree
<1> QED
  BY <1>9 DEF R, r

-----------------------------------------------------------------------------
(***************************************************************************)
(* The steps of the service.                                               *)
(***************************************************************************)
LEMMA EraseAsyncFits ==
  ASSUME TypeOK, Fits(queue), NEW s \in Sector, EraseAsync(s)
  PROVE  Fits(queue')
<1> DEFINE m == Owner[s]
           q == queue[m]
<1>1. m \in Module /\ q \in Seq(Opera) /\ queue \in Lists
  BY OwnerAssumption DEF TypeOK, Lists
<1>2. PICK r \in Without(q, Stale(q, s)) :
        LET Q == [queue EXCEPT ![m] = r]
        IN  \/ queue' = Q
            \/ NodeFree(Q) /\ queue' = [queue EXCEPT ![m] = Append(r, EraseOpera(s))]
  BY DEF EraseAsync
<1> DEFINE Q == [queue EXCEPT ![m] = r]
<1>3. r \in Seq(Opera) /\ NoLonger(q, r)
  BY <1>1, WithoutNoLonger
<1> HIDE DEF m
<1>4. Q \in Lists /\ Q[m] = r /\ Fits(Q)
  BY <1>1, <1>3, NoLongerCounts DEF Lists
<1>5. [queue EXCEPT ![m] = Append(r, EraseOpera(s))]
        = [Q EXCEPT ![m] = Append(Q[m], EraseOpera(s))]
  BY <1>1, <1>4 DEF Lists
<1>6. EraseOpera(s) \in Opera /\ EraseOpera(s).type = "E"
  BY OperaTypes DEF EraseOpera
<1> HIDE DEF Q
<1>7. NodeFree(Q) => Fits([Q EXCEPT ![m] = Append(Q[m], EraseOpera(s))])
  BY <1>1, <1>4, <1>6, AppendCounts
<1> QED
  BY <1>2, <1>4, <1>5, <1>7 DEF Q

(***************************************************************************)
(* A write takes a node and a buffer where both pools had one left, or it  *)
(* is merged.                                                              *)
(***************************************************************************)
LEMMA WriteFits ==
  ASSUME TypeOK, Fits(queue), NEW s \in Sector, NEW lo \in Page, NEW hi \in Page,
         NEW b \in Contents, WriteAsync(s, lo, hi, b)
  PROVE  Fits(queue')
<1> DEFINE m == Owner[s]
           q == queue[m]
<1>1. m \in Module /\ q \in Seq(Opera) /\ queue \in Lists /\ DOMAIN q = 1..Len(q)
  BY OwnerAssumption, LenProperties DEF TypeOK, Lists
<1>2. CASE WriteMerge(s, lo, hi, b)
  <2>1. PICK i \in DOMAIN q : queue' = [queue EXCEPT ![m][i] = Merged(@, lo, hi, b)]
    BY <1>2 DEF WriteMerge
  <2> DEFINE o == Merged(q[i], lo, hi, b)
  <2>2. q[i] \in Opera
    BY <1>1, <2>1, ElementOfSeq
  <2>3. o \in Opera /\ o.type = q[i].type /\ o.sector = q[i].sector
    BY <2>2, OperaTypes DEF Merged, Opera
  <2>4. queue' = [queue EXCEPT ![m] = [q EXCEPT ![i] = o]]
    BY <1>1, <2>1 DEF Lists
  <2> HIDE DEF o
  <2>5. NoLonger(q, [q EXCEPT ![i] = o]) /\ [q EXCEPT ![i] = o] \in Seq(Opera)
    BY <1>1, <2>1, <2>3, ChangeNoLonger, ExceptSeq
  <2> HIDE DEF m
  <2> QED
    BY <1>1, <2>4, <2>5, NoLongerCounts
<1>3. CASE WriteAdd(s, lo, hi, b)
  <2> DEFINE base == IF BehindErase(q, s) THEN Blank ELSE Raw(s)
             o == WriteOpera(s, base, lo, hi, b)
  <2>1. base \in Contents
    BY RawType, UniformType
  <2>2. o \in Opera
    BY <2>1, OperaTypes
  <2>3. /\ NodeFree(queue) /\ BuffFree(queue)
        /\ queue' = [queue EXCEPT ![m] = Append(queue[m], o)]
    BY <1>3 DEF WriteAdd
  <2> HIDE DEF m, o
  <2> QED
    BY <1>1, <2>2, <2>3, AppendCounts
<1> QED
  BY <1>2, <1>3 DEF WriteAsync

(***************************************************************************)
(* The chip finishes an operation, or is suspended in it.                  *)
(***************************************************************************)
LEMMA ChipFits ==
  ASSUME TypeOK, Fits(queue), NEW m \in Module, HasWork(m), Complete(m) \/ Suspend(m)
  PROVE  Fits(queue')
<1> DEFINE q == queue[m]
           o == [Head(q) EXCEPT !.lock = TRUE]
<1>1. q \in Seq(Opera) /\ q # <<>> /\ queue \in Lists
  BY DEF TypeOK, HasWork, Lists
<1>2. CASE Complete(m)
  <2>1. queue' = [queue EXCEPT ![m] = Tail(q)] /\ Tail(q) \in Seq(Opera)
    BY <1>1, <1>2, HeadTailProperties DEF Complete
  <2> QED
    BY <1>1, <2>1, TailNoLonger, NoLongerCounts
<1>3. CASE Suspend(m)
  <2>1. queue' = [queue EXCEPT ![m] = [q EXCEPT ![1] = o]]
    BY <1>3 DEF Suspend, TypeOK
  <2>2. 1 \in 1..Len(q) /\ Head(q) = q[1] /\ Head(q) \in Opera
    BY <1>1, LenProperties, EmptySeq, HeadTailProperties
  <2>3. o \in Opera /\ o.type = q[1].type /\ o.sector = q[1].sector
    BY <2>2 DEF Opera
  <2> HIDE DEF o
  <2>4. NoLonger(q, [q EXCEPT ![1] = o]) /\ [q EXCEPT ![1] = o] \in Seq(Opera)
    BY <1>1, <2>2, <2>3, ChangeNoLonger, ExceptSeq
  <2> QED
    BY <1>1, <2>1, <2>4, NoLongerCounts
<1> QED
  BY <1>2, <1>3

(***************************************************************************)
(* Empty lists need nothing.                                               *)
(***************************************************************************)
LEMMA EmptyFits ==
  ASSUME NEW Q, Q = [m \in Module |-> <<>>]
  PROVE  Fits(Q)
<1>1. Nodes(Q) = {}
  BY DEF Nodes
<1>2. Writes(Q) = {}
  BY <1>1 DEF Writes
<1>3. IsFiniteSet({}) /\ Cardinality({}) = 0
  BY FS_EmptySet
<1>4. 0 <= OpraListLen /\ 0 <= WriteBuffLen
  BY CountsAssumption
<1> QED
  BY <1>1, <1>2, <1>3, <1>4, Zenon DEF Fits

PoolsFit == Fits(queue)

(***************************************************************************)
(* Every step of the service keeps within the pools.                       *)
(***************************************************************************)
LEMMA NextFits == TypeOK /\ LockIsInFlight /\ PoolsFit /\ [Next]_vars => PoolsFit'
<1> SUFFICES ASSUME TypeOK, LockIsInFlight, Fits(queue), [Next]_vars PROVE Fits(queue')
  BY DEF PoolsFit
<1>1. CASE UNCHANGED queue
  BY <1>1
<1>2. CASE ClientCall
  <2>1. ASSUME NEW s \in Sector, EraseAsync(s) \/ EraseAsyncBreaks(s)
        PROVE  Fits(queue')
    BY <2>1, <1>1, EraseAsyncFits DEF EraseAsyncBreaks
  <2>2. ASSUME NEW s \in Sector, NEW lo \in Page, NEW hi \in Page, NEW d \in Data,
               WriteAsync(s, lo, hi, Uniform(d))
        PROVE  Fits(queue')
    BY <2>2, UniformType, WriteFits
  <2>3. ASSUME NEW c \in Call, SyncBegin(c)
        PROVE  Fits(queue')
    BY <2>3, <1>1 DEF SyncBegin
  <2> QED
    BY <1>2, <2>1, <2>2, <2>3 DEF ClientCall
<1>3. CASE SyncStep
  <2>1. CASE SyncFinishOther
    <3>1. curMod \in Module /\ Complete(curMod)
      BY <2>1 DEF SyncFinishOther, OtherSuspended, TypeOK
    <3>2. HasWork(curMod)
      BY <2>1, <3>1 DEF SyncFinishOther, OtherSuspended, LockIsInFlight
    <3> QED
      BY <3>1, <3>2, ChipFits
  <2>2. CASE SyncDrain
    BY <2>2, CallType, ChipFits DEF SyncDrain
  <2>3. CASE SyncOp
    BY <2>3, <1>1 DEF SyncOp
  <2> QED
    BY <1>3, <2>1, <2>2, <2>3 DEF SyncStep
<1>4. CASE Flush
  <2>1. ASSUME NEW m \in Module,
               FlushSuspended(m) \/ FlushCompleted(m) \/ FlushModuleDone(m)
        PROVE  Fits(queue')
    BY <2>1, <1>1, ChipFits DEF FlushSuspended, FlushCompleted, FlushModuleDone
  <2> QED
    BY <1>4, <1>1, <2>1 DEF Flush, FlushNothing
<1>5. CASE FlushDisable \/ FlushEnable \/ CpReady
  BY <1>5, <1>1 DEF FlushDisable, FlushEnable, CpReady, UnchangedButGate
<1>6. CASE PowerLoss
  BY <1>6, EmptyFits DEF PowerLoss
<1> QED
  BY <1>1, <1>2, <1>3, <1>4, <1>5, <1>6 DEF Next, vars

(***************************************************************************)
(* The node pool and the buffer pool that all modules share are never      *)
(* overdrawn: every list the service can build fits in them, whatever it   *)
(* merges, drops and suspends: a call that finds no node or no buffer left *)
(* (_norflash_api_malloc) is refused and changes nothing.                  *)
(***************************************************************************)
THEOREM PoolsTheorem == Spec => []PoolsBounded
<1>1. Init => PoolsFit
  BY EmptyFits DEF Init, PoolsFit
<1>2. PoolsFit => PoolsBounded
  BY DEF PoolsFit, Fits, PoolsBounded
<1> QED
  BY <1>1, <1>2, NextFits, TypeTheorem, LockTheorem, PTL DEF Spec

-----------------------------------------------------------------------------
(***************************************************************************)
(* What clients read.  Seen(q, c, s) is what _opera_read returns for       *)
(* sector s: what the newest operation of the list q leaves, or the        *)
(* contents c of the chip when q has none for s.                           *)
(***************************************************************************)
Content(o) == IF o.type = "W" THEN o.buff ELSE Blank

Newest(q, s, i) ==
  /\ i \in 1..Len(q)
  /\ q[i].sector = s
  /\ \A j \in 1..Len(q) : j > i => q[j].sector # s

Quiet(q, s) == \A i \in 1..Len(q) : q[i].sector # s

Seen(q, c, s) ==
  IF \E i \in 1..Len(q) : Newest(q, s, i)
  THEN Content(q[CHOOSE i \in 1..Len(q) : Newest(q, s, i)])
  ELSE c

(***************************************************************************)
(* A non-empty set of positions of a list has a last one.                  *)
(***************************************************************************)
LEMMA LastPosition ==
  ASSUME NEW n \in Nat, NEW S, S \subseteq 1..n, S # {}
  PROVE  \E x \in S : \A y \in S : y <= x
<1> DEFINE T == {n - x : x \in S}
           R == OpToRel(<, Nat)
<1>1. T \subseteq Nat /\ T # {}
  <2>1. \A x \in S : n - x \in Nat
    OBVIOUS
  <2> QED
    BY <2>1
<1>2. \E t \in T : \A u \in T : <<u, t>> \notin R
  <2> HIDE DEF T
  <2> QED
    BY <1>1, NatLessThanWellFounded, WFMin
<1>3. PICK x \in S : \A y \in S : <<n - y, n - x>> \notin R
  BY <1>2
<1>4. \A y \in S : n - y \in Nat /\ n - x \in Nat
  OBVIOUS
<1>5. \A y \in S : ~(n - y < n - x)
  BY <1>3, <1>4 DEF OpToRel
<1> QED
  BY <1>5

(***************************************************************************)
(* So a sector is quiet or has a newest operation, which clients see.      *)
(***************************************************************************)
LEMMA NewestExists ==
  ASSUME NEW q \in Seq(Opera), NEW s
  PROVE  Quiet(q, s) \/ \E i \in 1..Len(q) : Newest(q, s, i)
<1> DEFINE S == {i \in 1..Len(q) : q[i].sector = s}
<1>1. CASE S = {}
  BY <1>1 DEF Quiet
<1>2. CASE S # {}
  <2>1. Len(q) \in Nat
    BY LenProperties
  <2>2. PICK i \in S : \A j \in S : j <= i
    BY <1>2, <2>1, LastPosition
  <2> QED
    BY <2>1, <2>2 DEF Newest
<1> QED
  BY <1>1, <1>2

(***************************************************************************)
(* The newest operation is what clients see, and the chip where there is   *)
(* none.                                                                   *)
(***************************************************************************)
LEMMA SeenIs ==
  ASSUME NEW q \in Seq(Opera), NEW c, NEW s
  PROVE  /\ \A i : Newest(q, s, i) => Seen(q, c, s) = Content(q[i])
         /\ Quiet(q, s) => Seen(q, c, s) = c
<1>1. Len(q) \in Nat
  BY LenProperties
<1>2. \A i, j : Newest(q, s, i) /\ Newest(q, s, j) => i = j
  BY <1>1 DEF Newest
<1>3. \A i : Newest(q, s, i) => i \in 1..Len(q)
  BY DEF Newest
<1>4. Quiet(q, s) => \A i : ~Newest(q, s, i)
  BY DEF Quiet, Newest
<1> QED
  BY <1>2, <1>3, <1>4 DEF Seen

(***************************************************************************)
(* A list r that has the operations of q on sector s in their order, and   *)
(* reads of s that look only at them.                                      *)
(***************************************************************************)
LEMMA SeenSame ==
  ASSUME NEW q \in Seq(Opera), NEW r \in Seq(Opera), NEW c, NEW s,
         Quiet(q, s) => Quiet(r, s),
         \A i : Newest(q, s, i)
                  => \E j : Newest(r, s, j) /\ Content(r[j]) = Content(q[i])
  PROVE  Seen(r, c, s) = Seen(q, c, s)
<1>1. CASE Quiet(q, s)
  BY <1>1, SeenIs
<1>2. CASE \E i \in 1..Len(q) : Newest(q, s, i)
  BY <1>2, SeenIs
<1> QED
  BY <1>1, <1>2, NewestExists

(***************************************************************************)
(* Dropping an operation of another sector changes nothing.                *)
(***************************************************************************)
LEMMA RemoveSeen ==
  ASSUME NEW q \in Seq(Opera), NEW i \in 1..Len(q), NEW c, NEW s, q[i].sector # s
  PROVE  Seen(RemoveAt(q, i), c, s) = Seen(q, c, s)
<1> DEFINE r == RemoveAt(q, i)
<1>1. /\ r \in Seq(Opera) /\ Len(r) = Len(q) - 1 /\ Len(q) \in Nat
      /\ \A k \in 1..Len(r) : r[k] = IF k < i THEN q[k] ELSE q[k + 1]
  BY RemoveAtIs, LenProperties
<1> HIDE DEF r
<1>2. Quiet(q, s) => Quiet(r, s)
  BY <1>1 DEF Quiet
<1>3. ASSUME NEW k, Newest(q, s, k)
      PROVE  \E j : Newest(r, s, j) /\ Content(r[j]) = Content(q[k])
  <2> DEFINE j == IF k < i THEN k ELSE k - 1
  <2>1. k \in 1..Len(q) /\ k # i
    BY <1>3 DEF Newest
  <2>2. j \in 1..Len(r) /\ r[j] = q[k]
    BY <1>1, <2>1
  <2>3. \A l \in 1..Len(r) : l > j => r[l].sector # s
    BY <1>1, <1>3, <2>1 DEF Newest
  <2> HIDE DEF j
  <2> QED
    BY <1>3, <2>2, <2>3 DEF Newest
<1>4. Seen(r, c, s) = Seen(q, c, s)
  BY <1>1, <1>2, <1>3, SeenSame
<1> QED
  BY <1>4 DEF r

(***************************************************************************)
(* So does all that _e_opera_add drops.                                    *)
(***************************************************************************)
LEMMA WithoutSeen ==
  ASSUME NEW q \in Seq(Opera), NEW e, NEW r \in Without(q, Stale(q, e)),
         NEW c, NEW s, s # e
  PROVE  Seen(r, c, s) = Seen(q, c, s)
<1>1. \A i \in Stale(q, e) : i \in 1..Len(q) /\ q[i].sector = e
  BY LenProperties DEF Stale, OnSector
<1>2. CASE r = q
  BY <1>2
<1>3. CASE \E i \in Stale(q, e) : r = RemoveAt(q, i)
  BY <1>1, <1>3, RemoveSeen
<1>4. CASE \E i, j \in Stale(q, e) : i > j /\ r = RemoveAt(RemoveAt(q, i), j)
  <2>1. PICK i \in Stale(q, e), j \in Stale(q, e) :
          i > j /\ r = RemoveAt(RemoveAt(q, i), j)
    BY <1>4
  <2> DEFINE p == RemoveAt(q, i)
  <2>2. i \in 1..Len(q) /\ j \in 1..Len(q) /\ Len(q) \in Nat
    BY <1>1, LenProperties
  <2>3. /\ p \in Seq(Opera) /\ Len(p) = Len(q) - 1
        /\ \A k \in 1..(Len(q) - 1) : p[k] = IF k < i THEN q[k] ELSE q[k + 1]
    BY <2>2, RemoveAtIs
  <2> HIDE DEF p
  <2>4. j \in 1..Len(p) /\ p[j].sector = e
    BY <1>1, <2>1, <2>2, <2>3
  <2>5. Seen(RemoveAt(p, j), c, s) = Seen(p, c, s)
    BY <2>3, <2>4, RemoveSeen
  <2>6. Seen(p, c, s) = Seen(q, c, s)
    BY <1>1, <2>2, RemoveSeen DEF p
  <2> QED
    BY <2>1, <2>5, <2>6 DEF p
<1> QED
  BY <1>2, <1>3, <1>4 DEF Without

(***************************************************************************)
(* A new operation is seen at once, on its sector only.                    *)
(***************************************************************************)
LEMMA AppendSeen ==
  ASSUME NEW q \in Seq(Opera), NEW o \in Opera, NEW c, NEW s
  PROVE  Seen(Append(q, o), c, s) = IF s = o.sector THEN Content(o) ELSE Seen(q, c, s)
<1> DEFINE r == Append(q, o)
<1>1. /\ r \in Seq(Opera) /\ Len(r) = Len(q) + 1 /\ Len(q) \in Nat
      /\ \A k \in 1..Len(q) : r[k] = q[k]
      /\ r[Len(q) + 1] = o
  BY AppendProperties, LenProperties
<1> HIDE DEF r
<1>2. CASE s = o.sector
  <2>1. Newest(r, s, Len(q) + 1)
    BY <1>1, <1>2 DEF Newest
  <2>2. Seen(r, c, s) = Content(o)
    BY <1>1, <2>1, SeenIs
  <2> QED
    BY <1>2, <2>2 DEF r
<1>3. CASE s # o.sector
  <2>1. Quiet(q, s) => Quiet(r, s)
    BY <1>1, <1>3 DEF Quiet
  <2>2. \A k : Newest(q, s, k) => Newest(r, s, k) /\ r[k] = q[k]
    BY <1>1, <1>3 DEF Newest
  <2>3. Seen(r, c, s) = Seen(q, c, s)
    BY <1>1, <2>1, <2>2, SeenSame
  <2> QED
    BY <1>3, <2>3 DEF r
<1> QED
  BY <1>2, <1>3

(***************************************************************************)
(* An operation that is changed in place is seen if it is the newest.      *)
(***************************************************************************)
ChangedAt(q, r, i, o) ==
  /\ i \in 1..Len(q) /\ o \in Opera /\ o.sector = q[i].sector
  /\ r \in Seq(Opera) /\ Len(r) = Len(q)
  /\ \A k \in 1..Len(q) : r[k] = IF k = i THEN o ELSE q[k]

(***************************************************************************)
(* What they see then.                                                     *)
(***************************************************************************)
LEMMA ChangeSeen ==
  ASSUME NEW q \in Seq(Opera), NEW r, NEW i, NEW o, ChangedAt(q, r, i, o), NEW c, NEW s
  PROVE  /\ s # o.sector \/ Content(o) = Content(q[i]) => Seen(r, c, s) = Seen(q, c, s)
         /\ Newest(q, s, i) => Seen(r, c, s) = Content(o)
<1> USE DEF ChangedAt
<1>1. Len(q) \in Nat
  BY LenProperties
<1>2. \A k : Newest(q, s, k) <=> Newest(r, s, k)
  BY <1>1 DEF Newest
<1>3. ASSUME s # o.sector \/ Content(o) = Content(q[i])
      PROVE  Seen(r, c, s) = Seen(q, c, s)
  <2>1. Quiet(q, s) => Quiet(r, s)
    BY <1>1 DEF Quiet
  <2>2. \A k : Newest(q, s, k) => Content(r[k]) = Content(q[k])
    BY <1>1, <1>3 DEF Newest
  <2> QED
    BY <1>1, <1>2, <2>1, <2>2, SeenSame
<1>4. ASSUME Newest(q, s, i)
      PROVE  Seen(r, c, s) = Content(o)
  <2>1. Newest(r, s, i) /\ r[i] = o
    BY <1>1, <1>2, <1>4
  <2> QED
    BY <1>1, <2>1, SeenIs
<1> QED
  BY <1>3, <1>4

(***************************************************************************)
(* Dropping the oldest operation is seen only where it was the newest, and *)
(* then the chip is.                                                       *)
(***************************************************************************)
LEMMA TailSeen ==
  ASSUME NEW q \in Seq(Opera), q # <<>>, NEW c, NEW s
  PROVE  IF Newest(q, s, 1) THEN Seen(Tail(q), c, s) = c
                            ELSE Seen(Tail(q), c, s) = Seen(q, c, s)
<1> DEFINE r == Tail(q)
<1>1. /\ r \in Seq(Opera) /\ Len(r) = Len(q) - 1 /\ Len(q) \in Nat /\ Len(q) # 0
      /\ \A k \in 1..Len(r) : r[k] = q[k + 1]
  BY HeadTailProperties, LenProperties, EmptySeq
<1> HIDE DEF r
<1>2. CASE Newest(q, s, 1)
  <2>1. Quiet(r, s)
    BY <1>1, <1>2 DEF Newest, Quiet
  <2> QED
    BY <1>1, <1>2, <2>1, SeenIs DEF r
<1>3. CASE ~Newest(q, s, 1)
  <2>1. Quiet(q, s) => Quiet(r, s)
    BY <1>1 DEF Quiet
  <2>2. ASSUME NEW k, Newest(q, s, k)
        PROVE  \E j : Newest(r, s, j) /\ Content(r[j]) = Content(q[k])
    <3>1. k \in 1..Len(q) /\ k # 1
      BY <1>3, <2>2 DEF Newest
    <3>2. Newest(r, s, k - 1) /\ r[k - 1] = q[k]
      BY <1>1, <2>2, <3>1 DEF Newest
    <3> QED
      BY <3>2
  <2>3. Seen(r, c, s) = Seen(q, c, s)
    BY <1>1, <2>1, <2>2, SeenSame
  <2> QED
    BY <1>3, <2>3 DEF r
<1> QED
  BY <1>2, <1>3

-----------------------------------------------------------------------------
(***************************************************************************)
(* What the chip will make of it.  When its turn comes the i-th operation  *)
(* of the list q finds an erased sector if another is pending before it on *)
(* its sector, else the contents c of the chip; carried out on that, it    *)
(* must leave what clients have been seeing since it was accepted.         *)
(***************************************************************************)
Behind(q, i) == \E j \in 1..Len(q) : j < i /\ q[j].sector = q[i].sector

Under(q, c, i) == IF Behind(q, i) THEN Blank ELSE c[q[i].sector]

Carries(c, o) == Effect(c, o) = Content(o)

Agrees(q, c) == \A i \in 1..Len(q) : Carries(Under(q, c, i), q[i])

(***************************************************************************)
(* An erase leaves a blank sector, whatever it finds; a write needs its    *)
(* pages to be erased or written alike, and the others to be as in its     *)
(* buffer.                                                                 *)
(***************************************************************************)
LEMMA EraseCarries ==
  ASSUME NEW c, NEW o, o.type = "E"
  PROVE  Carries(c, o)
  BY DEF Carries, Effect, Content

(***************************************************************************)
(* The same of a write.                                                    *)
(***************************************************************************)
LEMMA WriteCarries ==
  ASSUME NEW c \in Contents, NEW o \in Opera, o.type = "W"
  PROVE  Carries(c, o)
           <=> \A p \in Page : IF p \in o.lo..o.hi
                               THEN Programmed(c[p], o.buff[p]) = o.buff[p]
                               ELSE c[p] = o.buff[p]
<1>1. /\ Effect(c, o) = ProgramPages(c, o.lo, o.hi, o.buff)
      /\ Content(o) = o.buff
  BY DEF Effect, Content
<1>2. o.buff \in [Page -> Value]
  BY DEF Opera, Contents
<1>3. ProgramPages(c, o.lo, o.hi, o.buff) = o.buff
        <=> \A p \in Page : (IF p \in o.lo..o.hi THEN Programmed(c[p], o.buff[p])
                             ELSE c[p]) = o.buff[p]
  BY <1>2 DEF ProgramPages
<1> QED
  BY <1>1, <1>3 DEF Carries

(***************************************************************************)
(* An operation is dropped when only erases follow it on its sector.       *)
(***************************************************************************)
LEMMA RemoveAgrees ==
  ASSUME NEW q \in Seq(Opera), NEW c, Agrees(q, c), NEW i \in 1..Len(q),
         \A k \in 1..Len(q) : k > i /\ q[k].sector = q[i].sector => q[k].type = "E"
  PROVE  Agrees(RemoveAt(q, i), c)
<1> DEFINE r == RemoveAt(q, i)
           at(k) == IF k < i THEN k ELSE k + 1
<1>1. /\ Len(r) = Len(q) - 1 /\ Len(q) \in Nat
      /\ \A k \in 1..Len(r) : r[k] = q[at(k)]
  BY RemoveAtIs, LenProperties
<1> HIDE DEF r
<1> SUFFICES ASSUME NEW k \in 1..Len(r), r[k].type # "E"
             PROVE  Carries(Under(r, c, k), r[k])
  BY EraseCarries DEF Agrees, r
<1>2. at(k) \in 1..Len(q) /\ r[k] = q[at(k)] /\ at(k) # i
  BY <1>1
<1>3. at(k) > i => q[at(k)].sector # q[i].sector
  BY <1>2
<1>4. Behind(r, k) => Behind(q, at(k))
  <2> SUFFICES ASSUME NEW j \in 1..Len(r), j < k, r[j].sector = r[k].sector
               PROVE  Behind(q, at(k))
    BY DEF Behind
  <2>1. at(j) \in 1..Len(q) /\ at(j) < at(k) /\ q[at(j)] = r[j]
    BY <1>1
  <2> HIDE DEF at
  <2> QED
    BY <1>2, <2>1 DEF Behind
<1>5. Behind(q, at(k)) => Behind(r, k)
  <2> SUFFICES ASSUME NEW j \in 1..Len(q), j < at(k), q[j].sector = q[at(k)].sector
               PROVE  Behind(r, k)
    BY DEF Behind
  <2> DEFINE l == IF j < i THEN j ELSE j - 1
  <2>1. j # i
    BY <1>1, <1>3
  <2>2. l \in 1..Len(r) /\ l < k /\ r[l] = q[j]
    BY <1>1, <2>1
  <2> HIDE DEF l, at
  <2> QED
    BY <1>2, <2>2 DEF Behind
<1> HIDE DEF at
<1>6. Under(r, c, k) = Under(q, c, at(k))
  BY <1>2, <1>4, <1>5 DEF Under
<1> QED
  BY <1>2, <1>6 DEF Agrees

(***************************************************************************)
(* What _e_opera_add leaves: the dropped ones are all that waited for the  *)
(* sector.                                                                 *)
(***************************************************************************)
LEMMA WithoutAgrees ==
  ASSUME NEW q \in Seq(Opera), NEW c, Agrees(q, c),
         \A i \in 1..Len(q) : q[i].lock => i = 1,
         NEW s, NEW r \in Without(q, Stale(q, s))
  PROVE  Agrees(r, c)
<1>1. \A i : i \in Stale(q, s) <=> i \in 1..Len(q) /\ q[i].sector = s /\ ~q[i].lock
  BY LenProperties DEF Stale, OnSector
<1>2. Len(q) \in Nat
  BY LenProperties
<1>3. \A i \in Stale(q, s) : \A k \in 1..Len(q) :
        k > i /\ q[k].sector = q[i].sector => k \in Stale(q, s)
  BY <1>1, <1>2
<1>4. CASE r = q
  BY <1>4
<1>5. CASE \E i \in Stale(q, s) : r = RemoveAt(q, i) /\ Stale(q, s) = {i}
  <2>1. PICK i \in Stale(q, s) : r = RemoveAt(q, i) /\ Stale(q, s) = {i}
    BY <1>5
  <2>2. \A k \in 1..Len(q) : ~(k > i /\ q[k].sector = q[i].sector)
    BY <1>1, <1>2, <1>3, <2>1
  <2> QED
    BY <1>1, <2>1, <2>2, RemoveAgrees
<1>6. CASE \E i, j \in Stale(q, s) : /\ i > j
                                     /\ Stale(q, s) = {i, j}
                                     /\ r = RemoveAt(RemoveAt(q, i), j)
  <2>1. PICK i \in Stale(q, s), j \in Stale(q, s) :
          i > j /\ Stale(q, s) = {i, j} /\ r = RemoveAt(RemoveAt(q, i), j)
    BY <1>6
  <2> DEFINE p == RemoveAt(q, i)
  <2>2. i \in 1..Len(q) /\ j \in 1..Len(q) /\ q[i].sector = s /\ q[j].sector = s
    BY <1>1
  <2>3. /\ p \in Seq(Opera) /\ Len(p) = Len(q) - 1
        /\ \A k \in 1..(Len(q) - 1) : p[k] = IF k < i THEN q[k] ELSE q[k + 1]
    BY <2>2, RemoveAtIs
  <2>4. \A k \in 1..Len(q) : ~(k > i /\ q[k].sector = q[i].sector)
    BY <1>2, <1>3, <2>1, <2>2
  <2>5. Agrees(p, c)
    BY <2>2, <2>4, RemoveAgrees
  <2> HIDE DEF p
  <2>6. j \in 1..Len(p) /\ p[j] = q[j]
    BY <1>2, <2>1, <2>2, <2>3
  <2>7. \A k \in 1..Len(p) : ~(k > j /\ p[k].sector = p[j].sector)
    <3>1. \A k \in 1..Len(q) : k > j /\ q[k].sector = s => k = i
      BY <1>2, <1>3, <2>1, <2>2
    <3> QED
      BY <1>2, <2>1, <2>2, <2>3, <2>6, <3>1
  <2>8. Agrees(RemoveAt(p, j), c)
    BY <2>3, <2>5, <2>6, <2>7, RemoveAgrees
  <2> QED
    BY <2>1, <2>8 DEF p
<1> QED
  BY <1>4, <1>5, <1>6 DEF Without

(***************************************************************************)
(* A new operation finds what the list leaves of its sector.               *)
(***************************************************************************)
LEMMA AppendAgrees ==
  ASSUME NEW q \in Seq(Opera), NEW c, Agrees(q, c), NEW o \in Opera,
         Carries(IF Quiet(q, o.sector) THEN c[o.sector] ELSE Blank, o)
  PROVE  Agrees(Append(q, o), c)
<1> DEFINE r == Append(q, o)
<1>1. /\ Len(r) = Len(q) + 1 /\ Len(q) \in Nat
      /\ \A k \in 1..Len(q) : r[k] = q[k]
      /\ r[Len(q) + 1] = o
  BY AppendProperties, LenProperties
<1> HIDE DEF r
<1>2. \A k \in 1..Len(q) : Behind(r, k) <=> Behind(q, k)
  BY <1>1 DEF Behind
<1>3. Behind(r, Len(q) + 1) <=> ~Quiet(q, o.sector)
  BY <1>1 DEF Behind, Quiet
<1>4. \A k \in 1..Len(q) : Under(r, c, k) = Under(q, c, k)
  BY <1>1, <1>2 DEF Under
<1>5. Carries(Under(r, c, Len(q) + 1), r[Len(q) + 1])
  BY <1>1, <1>3 DEF Under
<1>6. \A k \in 1..Len(q) : Carries(Under(r, c, k), r[k])
  BY <1>1, <1>4 DEF Agrees
<1>7. \A k \in 1..Len(r) : k = Len(q) + 1 \/ k \in 1..Len(q)
  BY <1>1
<1> QED
  BY <1>5, <1>6, <1>7 DEF Agrees, r

(***************************************************************************)
(* An operation may be changed while it stays carried out as it is seen,   *)
(* and so may the chip.                                                    *)
(***************************************************************************)
LEMMA ChangeAgrees ==
  ASSUME NEW q \in Seq(Opera), NEW c, NEW d, Agrees(q, c), NEW i \in 1..Len(q),
         NEW o \in Opera, o.sector = q[i].sector,
         Carries(IF Behind(q, i) THEN Blank ELSE d[o.sector], o),
         \A k \in 1..Len(q) : k # i /\ ~Behind(q, k) => d[q[k].sector] = c[q[k].sector]
  PROVE  Agrees([q EXCEPT ![i] = o], d)
<1> DEFINE r == [q EXCEPT ![i] = o]
<1>1. /\ Len(r) = Len(q)
      /\ \A k \in 1..Len(q) : r[k] = IF k = i THEN o ELSE q[k]
  BY ExceptSeq
<1> HIDE DEF r
<1>2. \A k \in 1..Len(q) : Behind(r, k) <=> Behind(q, k)
  BY <1>1 DEF Behind
<1>3. Carries(Under(r, d, i), r[i])
  BY <1>1, <1>2 DEF Under
<1>4. \A k \in 1..Len(q) : k # i => Under(r, d, k) = Under(q, c, k)
  BY <1>1, <1>2 DEF Under
<1>5. \A k \in 1..Len(q) : Carries(Under(r, d, k), r[k])
  BY <1>1, <1>3, <1>4 DEF Agrees
<1> QED
  BY <1>1, <1>5 DEF Agrees, r

(***************************************************************************)
(* The oldest operation is carried out: the next on its sector, if it is a *)
(* write, finds what an erase left.                                        *)
(***************************************************************************)
LEMMA TailAgrees ==
  ASSUME NEW q \in Seq(Opera), q # <<>>, NEW c, NEW d, Agrees(q, c),
         \A i \in 1..Len(q) : q[1].type = "W" /\ i # 1 => q[i].type = "E",
         \A s \in Sector : d[s] = IF s = q[1].sector THEN Effect(c[s], q[1]) ELSE c[s]
  PROVE  Agrees(Tail(q), d)
<1> DEFINE r == Tail(q)
<1>1. /\ r \in Seq(Opera) /\ Len(r) = Len(q) - 1 /\ Len(q) \in Nat /\ Len(q) # 0
      /\ \A k \in 1..Len(r) : r[k] = q[k + 1]
  BY HeadTailProperties, LenProperties, EmptySeq
<1> HIDE DEF r
<1> SUFFICES ASSUME NEW k \in 1..Len(r), r[k].type # "E"
             PROVE  Carries(Under(r, d, k), r[k])
  BY EraseCarries DEF Agrees, r
<1>2. k + 1 \in 1..Len(q) /\ k + 1 # 1 /\ r[k] = q[k + 1] /\ 1 \in 1..Len(q) /\ 1 < k + 1
  BY <1>1
<1>3. q[1].type = "E" /\ r[k].sector \in Sector
  <2>1. q[1] \in Opera /\ r[k] \in Opera
    BY <1>1, <1>2, ElementOfSeq
  <2> QED
    BY <1>2, <2>1 DEF Opera
<1>4. Behind(r, k) => Behind(q, k + 1)
  <2> SUFFICES ASSUME NEW j \in 1..Len(r), j < k, r[j].sector = r[k].sector
               PROVE  Behind(q, k + 1)
    BY DEF Behind
  <2>1. j + 1 \in 1..Len(q) /\ j + 1 < k + 1 /\ q[j + 1] = r[j]
    BY <1>1
  <2> QED
    BY <1>2, <2>1 DEF Behind
<1>5. Behind(q, k + 1) => Behind(r, k) \/ q[1].sector = r[k].sector
  <2> SUFFICES ASSUME NEW j \in 1..Len(q), j < k + 1, q[j].sector = r[k].sector, j # 1
               PROVE  Behind(r, k)
    BY <1>2 DEF Behind
  <2>1. j - 1 \in 1..Len(r) /\ j - 1 < k /\ r[j - 1] = q[j]
    BY <1>1
  <2> QED
    BY <2>1 DEF Behind
<1>6. q[1].sector = r[k].sector => Behind(q, k + 1)
  BY <1>2 DEF Behind
<1>7. q[1].sector = r[k].sector => d[r[k].sector] = Blank
  BY <1>3 DEF Effect
<1>8. q[1].sector # r[k].sector => d[r[k].sector] = c[r[k].sector]
  BY <1>3
<1>9. Under(r, d, k) = Under(q, c, k + 1)
  BY <1>2, <1>4, <1>5, <1>6, <1>7, <1>8 DEF Under
<1> QED
  BY <1>2, <1>9 DEF Agrees

-----------------------------------------------------------------------------
(***************************************************************************)
(* The invariant the refinement needs.  The queue of a module is about its *)
(* own sectors; every buffer agrees with what the chip will hold when its  *)
(* turn comes; a synchronous call may still write what it asked for, and   *)
(* is not kept waiting for good.                                           *)
(***************************************************************************)
OwnedBy(q, m) == \A i \in 1..Len(q) : Owner[q[i].sector] = m

Owned == \A m \in Module : OwnedBy(queue[m], m)

BuffersAgree == \A m \in Module : Agrees(queue[m], flash)

CallPending ==
  call # NoCall =>
    /\ gate # "wait"
    /\ call.type = "W" => Writable(call.sector, call.lo, call.hi, call.data)

StoreInv == InFlightInv /\ PoolsFit /\ AllPairOK /\ Owned /\ BuffersAgree /\ CallPending

(***************************************************************************)
(* It is one of the usual build of the service (FLASH_API_NORMAL has one   *)
(* sector buffer, and without buffers there is nothing to ask for), whose  *)
(* clients do not call synchronously while they forbid flushing.           *)
(***************************************************************************)
OneBuffer == WriteBuffLen <= 1 /\ ~SyncWhileClosed

(***************************************************************************)
(* A read and the set of dirty sectors, in terms of the lists.             *)
(***************************************************************************)
ViewsAre == \A s \in Sector : View(s) = Seen(queue[Owner[s]], flash[s], s)

(***************************************************************************)
(* _opera_read gives what the newest operation leaves, or the chip.        *)
(***************************************************************************)
LEMMA ViewIs == TypeOK /\ LockIsInFlight => ViewsAre
<1> SUFFICES ASSUME TypeOK, LockIsInFlight, NEW s \in Sector
             PROVE  View(s) = Seen(queue[Owner[s]], flash[s], s)
  BY DEF ViewsAre
<1> DEFINE q == queue[Owner[s]]
           on == OnSector(q, s)
<1>1. /\ Owner[s] \in Module /\ q \in Seq(Opera) /\ DOMAIN q = 1..Len(q) /\ Len(q) \in Nat
      /\ flash[s] \in [Page -> Value]
  BY OwnerAssumption, LenProperties DEF TypeOK, Contents
<1>2. CASE Quiet(q, s)
  <2>1. on = {}
    BY <1>1, <1>2 DEF Quiet, OnSector
  <2>2. state[Owner[s]] = "IDLE" \/ q[1].sector # s
    <3> SUFFICES ASSUME state[Owner[s]] # "IDLE" PROVE 1 \in 1..Len(q)
      BY <1>2 DEF Quiet
    <3>1. q # <<>>
      BY <1>1 DEF LockIsInFlight, HasWork
    <3> QED
      BY <1>1, <3>1, EmptySeq
  <2>3. Raw(s) = [p \in Page |-> flash[s][p]]
    BY <2>2 DEF Raw
  <2>4. View(s) = flash[s]
    BY <1>1, <2>1, <2>3 DEF View
  <2> HIDE DEF q
  <2> QED
    BY <1>1, <1>2, <2>4, SeenIs DEF q
<1>3. CASE \E i \in 1..Len(q) : Newest(q, s, i)
  <2>1. PICK i \in 1..Len(q) : Newest(q, s, i)
    BY <1>3
  <2>2. i \in on /\ \A j \in on : i >= j /\ on # {}
    BY <1>1, <2>1 DEF Newest, OnSector
  <2>3. \A x \in on : (\A y \in on : x >= y) => x = i
    BY <1>1, <2>2 DEF OnSector
  <2>4. Max(on) = i
    <3> HIDE DEF on
    <3> QED
      BY <2>2, <2>3 DEF Max
  <2>5. View(s) = Content(q[i])
    BY <2>2, <2>4 DEF View, Content
  <2> HIDE DEF q
  <2> QED
    BY <1>1, <2>1, <2>5, SeenIs DEF q
<1> QED
  BY <1>1, <1>2, <1>3, NewestExists

(***************************************************************************)
(* The same after a step.                                                  *)
(***************************************************************************)
LEMMA ViewIsNext == TypeOK' /\ LockIsInFlight' => ViewsAre'
  BY ViewIs, PTL

DirtyAre ==
  Dirty = {s \in Sector : ~Quiet(queue[Owner[s]], s) \/ (call # NoCall /\ s = call.sector)}

(***************************************************************************)
(* A sector is dirty while its list is not quiet for it, or a synchronous  *)
(* call works on it.                                                       *)
(***************************************************************************)
LEMMA DirtyIs == TypeOK => DirtyAre
<1> SUFFICES ASSUME TypeOK PROVE DirtyAre
  OBVIOUS
<1>1. \A s \in Sector : OnSector(queue[Owner[s]], s) # {} <=> ~Quiet(queue[Owner[s]], s)
  <2> SUFFICES ASSUME NEW s \in Sector
               PROVE  DOMAIN queue[Owner[s]] = 1..Len(queue[Owner[s]])
    BY DEF OnSector, Quiet
  <2> QED
    BY OwnerAssumption, LenProperties DEF TypeOK
<1>2. call # NoCall => call.sector \in Sector
  BY CallType
<1> QED
  BY <1>1, <1>2 DEF Dirty, DirtyAre

(***************************************************************************)
(* The same after a step.                                                  *)
(***************************************************************************)
LEMMA DirtyIsNext == TypeOK' => DirtyAre'
  BY DirtyIs, PTL

Image == [s \in Sector |-> View(s)]

(***************************************************************************)
(* Lists that read alike over every chip have work for the same sectors.   *)
(***************************************************************************)
LEMMA QuietBySeen ==
  ASSUME NEW q \in Seq(Opera), NEW r \in Seq(Opera), NEW s,
         \A c : Seen(r, c, s) = Seen(q, c, s)
  PROVE  Quiet(r, s) <=> Quiet(q, s)
<1>1. ASSUME NEW l \in Seq(Opera), ~Quiet(l, s)
      PROVE  Seen(l, 0, s) = Seen(l, 1, s)
  BY <1>1, NewestExists, SeenIs
<1>2. ASSUME NEW l \in Seq(Opera), Quiet(l, s)
      PROVE  Seen(l, 0, s) # Seen(l, 1, s)
  <2>1. Seen(l, 0, s) = 0 /\ Seen(l, 1, s) = 1
    BY <1>2, SeenIs
  <2> QED
    BY <2>1
<1>3. Seen(r, 0, s) = Seen(q, 0, s) /\ Seen(r, 1, s) = Seen(q, 1, s)
  OBVIOUS
<1> QED
  BY <1>1, <1>2, <1>3

(***************************************************************************)
(* A list that is not longer is about the same sectors.                    *)
(***************************************************************************)
LEMMA NoLongerOwned ==
  ASSUME NEW q, NEW r, NEW m, OwnedBy(q, m), NoLonger(q, r)
  PROVE  OwnedBy(r, m)
  BY DEF OwnedBy, NoLonger

(***************************************************************************)
(* One list changes, and the chip at most on sectors of its module.        *)
(***************************************************************************)
LEMMA OneListAgrees ==
  ASSUME TypeOK, Owned, BuffersAgree, NEW m \in Module, NEW r,
         queue' = [queue EXCEPT ![m] = r], OwnedBy(r, m), Agrees(r, flash'),
         \A s \in Sector : Owner[s] # m => flash'[s] = flash[s]
  PROVE  Owned' /\ BuffersAgree'
<1>1. queue'[m] = r /\ \A n \in Module \ {m} : queue'[n] = queue[n]
  BY DEF TypeOK
<1>2. Owned'
  BY <1>1 DEF Owned
<1>3. ASSUME NEW n \in Module \ {m}
      PROVE  Agrees(queue[n], flash')
  <2> DEFINE q == queue[n]
  <2>1. \A i \in 1..Len(q) : flash'[q[i].sector] = flash[q[i].sector]
    <3>1. q \in Seq(Opera)
      BY DEF TypeOK
    <3>2. \A i \in 1..Len(q) : q[i] \in Opera
      BY <3>1, ElementOfSeq
    <3>3. \A i \in 1..Len(q) : Owner[q[i].sector] = n
      BY DEF Owned, OwnedBy
    <3>4. \A i \in 1..Len(q) : q[i].sector \in Sector
      BY <3>2 DEF Opera
    <3> QED
      BY <3>3, <3>4
  <2>2. Agrees(q, flash)
    BY DEF BuffersAgree
  <2> HIDE DEF q
  <2>3. \A i \in 1..Len(q) : Under(q, flash', i) = Under(q, flash, i)
    BY <2>1 DEF Under
  <2>4. Agrees(q, flash')
    BY <2>2, <2>3 DEF Agrees
  <2> QED
    BY <2>4 DEF q
<1>4. BuffersAgree'
  BY <1>1, <1>3 DEF BuffersAgree
<1> QED
  BY <1>2, <1>4

-----------------------------------------------------------------------------
(***************************************************************************)
(* An asynchronous call gives the module of s a list that reads as before  *)
(* for every other sector, and is not quiet for s: FlashStore sees one     *)
(* sector change and get dirty.                                            *)
(***************************************************************************)
LEMMA CallSeen ==
  ASSUME InFlightInv, InFlightInv', NEW s \in Sector, NEW r \in Seq(Opera),
         queue' = [queue EXCEPT ![Owner[s]] = r], UNCHANGED <<flash, call>>,
         \A z, c : z # s => Seen(r, c, z) = Seen(queue[Owner[s]], c, z),
         ~Quiet(r, s)
  PROVE  /\ Image' = [Image EXCEPT ![s] = Seen(r, flash[s], s)]
         /\ Dirty' = Dirty \cup {s}
<1> DEFINE m == Owner[s]
           q == queue[m]
<1>1. m \in Module /\ q \in Seq(Opera) /\ \A z \in Sector : queue[Owner[z]] \in Seq(Opera)
  BY OwnerAssumption DEF InFlightInv, TypeOK
<1>2. \A z \in Sector : queue'[Owner[z]] = IF Owner[z] = m THEN r ELSE queue[Owner[z]]
  BY OwnerAssumption DEF InFlightInv, TypeOK
<1>3. ViewsAre /\ ViewsAre' /\ DirtyAre /\ DirtyAre'
  BY ViewIs, ViewIsNext, DirtyIs, DirtyIsNext DEF InFlightInv
<1>4. ASSUME NEW z \in Sector, z # s
      PROVE  View(z)' = View(z)
  BY <1>2, <1>3, <1>4 DEF ViewsAre
<1>5. View(s)' = Seen(r, flash[s], s)
  BY <1>2, <1>3 DEF ViewsAre
<1>6. Image' = [Image EXCEPT ![s] = Seen(r, flash[s], s)]
  BY <1>4, <1>5 DEF Image
<1>7. ASSUME NEW z \in Sector, z # s
      PROVE  Quiet(queue'[Owner[z]], z) <=> Quiet(queue[Owner[z]], z)
  <2>1. CASE Owner[z] = m
    <3>1. Quiet(r, z) <=> Quiet(q, z)
      <4> HIDE DEF q
      <4>1. \A c : Seen(r, c, z) = Seen(q, c, z)
        BY <1>7 DEF q
      <4> QED
        BY <1>1, <4>1, QuietBySeen
    <3> QED
      BY <1>2, <2>1, <3>1
  <2>2. CASE Owner[z] # m
    BY <1>2, <2>2
  <2> QED
    BY <2>1, <2>2
<1>8. Dirty' = Dirty \cup {s}
  BY <1>2, <1>3, <1>7 DEF DirtyAre
<1> QED
  BY <1>6, <1>8

(***************************************************************************)
(* norflash_api_erase, async.                                              *)
(***************************************************************************)
LEMMA EraseAsyncStore ==
  ASSUME StoreInv, InFlightInv', NEW s \in Sector, EraseAsync(s)
  PROVE  Owned' /\ BuffersAgree' /\ Store!Erase(s)
<1> DEFINE m == Owner[s]
           q == queue[m]
           e == EraseOpera(s)
<1>1. /\ m \in Module /\ q \in Seq(Opera) /\ PairOK(q) /\ Agrees(q, flash) /\ OwnedBy(q, m)
      /\ ListOK(q, state[m])
  BY OwnerAssumption, ListsOK
  DEF StoreInv, InFlightInv, TypeOK, AllPairOK, BuffersAgree, Owned
<1>2. PICK r \in Without(q, Stale(q, s)) :
        \/ ErasingNow(q, s) /\ queue' = [queue EXCEPT ![m] = r]
        \/ queue' = [queue EXCEPT ![m] = Append(r, e)]
  BY DEF EraseAsync
<1>3. UNCHANGED <<flash, call>> /\ call = NoCall
  BY DEF EraseAsync, UnchangedFlush, Ready
<1>4. e \in Opera /\ e.sector = s /\ e.type = "E" /\ Content(e) = Blank
  BY OperaTypes DEF EraseOpera, Content
<1> HIDE DEF q, e
<1>5. /\ r \in Seq(Opera) /\ NoneWaits(r, s) /\ NoLonger(q, r) /\ Agrees(r, flash)
      /\ Follows(q, r, state[m]) /\ OwnedBy(r, m)
  <2>1. \A i \in 1..Len(q) : q[i].lock => i = 1
    BY <1>1 DEF ListOK
  <2> QED
    BY <1>1, <2>1, WithoutStalePair, WithoutNoLonger, WithoutAgrees, WithoutStaleFollows,
       NoLongerOwned
<1>6. \A z, c : z # s => Seen(r, c, z) = Seen(q, c, z)
  BY <1>1, WithoutSeen
<1>7. CASE ErasingNow(q, s) /\ queue' = [queue EXCEPT ![m] = r]
  <2>1. state[m] # "IDLE" /\ q[1].sector = s /\ q[1].type = "E" /\ 1 \in 1..Len(r)
    <3>1. PICK i \in 1..Len(q) : q[i].sector = s /\ q[i].lock /\ q[i].type = "E"
      BY <1>1, <1>7, LenProperties DEF ErasingNow, OnSector
    <3>2. i = 1 /\ state[m] # "IDLE"
      BY <1>1, <3>1 DEF ListOK
    <3>3. r # <<>>
      BY <1>5, <3>2 DEF Follows, ListOK
    <3> QED
      BY <1>5, <3>1, <3>2, <3>3, LenProperties, EmptySeq
  <2>2. r[1] = q[1]
    BY <1>5, <2>1 DEF Follows
  <2>3. Newest(r, s, 1)
    <3>1. \A j \in 1..Len(r) : r[j].lock => j = 1
      BY <1>5 DEF Follows, ListOK
    <3> QED
      BY <1>5, <2>1, <2>2, <3>1 DEF Newest, NoneWaits
  <2>4. Seen(r, flash[s], s) = Blank /\ ~Quiet(r, s)
    BY <1>5, <2>1, <2>2, <2>3, SeenIs DEF Content, Quiet
  <2>5. Image' = [Image EXCEPT ![s] = Blank] /\ Dirty' = Dirty \cup {s}
    BY <1>3, <1>5, <1>6, <1>7, <2>4, CallSeen DEF StoreInv, q
  <2>6. Owned' /\ BuffersAgree'
    BY <1>1, <1>3, <1>5, <1>7, OneListAgrees DEF StoreInv, InFlightInv
  <2> QED
    BY <1>3, <2>5, <2>6 DEF Store!Erase, Store!Blank, Image, Blank, Uniform
<1>8. CASE queue' = [queue EXCEPT ![m] = Append(r, e)]
  <2> DEFINE l == Append(r, e)
  <2>1. l \in Seq(Opera) /\ Agrees(l, flash) /\ OwnedBy(l, m) /\ ~Quiet(l, s)
    <3>1. Agrees(l, flash)
      BY <1>4, <1>5, EraseCarries, AppendAgrees
    <3>2. /\ l \in Seq(Opera) /\ Len(l) = Len(r) + 1 /\ Len(r) \in Nat
          /\ \A k \in 1..Len(r) : l[k] = r[k]
          /\ l[Len(r) + 1] = e
      BY <1>4, <1>5, AppendProperties, LenProperties
    <3> HIDE DEF l
    <3>3. OwnedBy(l, m)
      BY <1>4, <1>5, <3>2 DEF OwnedBy
    <3>4. ~Quiet(l, s)
      BY <1>4, <3>2 DEF Quiet
    <3> QED
      BY <3>1, <3>2, <3>3, <3>4 DEF l
  <2>2. Seen(l, flash[s], s) = Blank /\ \A z, c : z # s => Seen(l, c, z) = Seen(q, c, z)
    BY <1>4, <1>5, <1>6, AppendSeen
  <2> HIDE DEF l
  <2>3. queue' = [queue EXCEPT ![m] = l]
    BY <1>8 DEF l
  <2>4. Image' = [Image EXCEPT ![s] = Blank] /\ Dirty' = Dirty \cup {s}
    BY <1>3, <2>1, <2>2, <2>3, CallSeen DEF StoreInv, q
  <2>5. Owned' /\ BuffersAgree'
    BY <1>1, <1>3, <2>1, <2>3, OneListAgrees DEF StoreInv, InFlightInv
  <2> QED
    BY <1>3, <2>4, <2>5 DEF Store!Erase, Store!Blank, Image, Blank, Uniform
<1> QED
  BY <1>2, <1>7, <1>8

(***************************************************************************)
(* With one buffer there is one pending write at most, and none while the  *)
(* buffer is free.                                                         *)
(***************************************************************************)
LEMMA OneWrite ==
  ASSUME TypeOK, PoolsFit, WriteBuffLen <= 1
  PROVE  /\ \A m, n \in Module : \A i \in 1..Len(queue[m]) : \A j \in 1..Len(queue[n]) :
              queue[m][i].type = "W" /\ queue[n][j].type = "W" => m = n /\ i = j
         /\ BuffFree(queue)
              => \A m \in Module : \A i \in 1..Len(queue[m]) : queue[m][i].type # "W"
<1> DEFINE W == Writes(queue)
<1>1. IsFiniteSet(W) /\ Cardinality(W) <= 1 /\ Cardinality(W) \in Nat
  <2>1. IsFiniteSet(W) /\ Cardinality(W) <= WriteBuffLen
    BY DEF PoolsFit, Fits
  <2> QED
    BY <2>1, FS_CardinalityType, CountsAssumption
<1>2. ASSUME NEW m \in Module, NEW i \in 1..Len(queue[m]), queue[m][i].type = "W"
      PROVE  <<m, i>> \in W
  BY <1>2, NodesAre DEF Lists, TypeOK, Writes
<1> HIDE DEF W
<1>3. ASSUME NEW a \in W, NEW b \in W
      PROVE  a = b
  <2>1. Cardinality(W) # 0
    BY <1>1, FS_EmptySet
  <2>2. Cardinality(W) = 1
    BY <1>1, <2>1
  <2>3. \E x : W = {x}
    BY <1>1, <2>2, FS_Singleton
  <2> QED
    BY <2>3
<1>4. ASSUME BuffFree(queue)
      PROVE  W = {}
  <2>1. Cardinality(W) < WriteBuffLen
    BY <1>4 DEF BuffFree, W
  <2>2. Cardinality(W) = 0
    BY <1>1, <2>1, CountsAssumption
  <2> QED
    BY <1>1, <2>2, FS_EmptySet
<1>5. ASSUME NEW m \in Module, NEW n \in Module,
             NEW i \in 1..Len(queue[m]), NEW j \in 1..Len(queue[n]),
             queue[m][i].type = "W", queue[n][j].type = "W"
      PROVE  m = n /\ i = j
  <2>1. <<m, i>> = <<n, j>>
    BY <1>2, <1>3, <1>5
  <2> QED
    BY <2>1
<1> QED
  BY <1>2, <1>4, <1>5

(***************************************************************************)
(* A write that is queued or merged by the rule of NOR flash is carried    *)
(* out as it is seen.                                                      *)
(***************************************************************************)
LEMMA AddedCarries ==
  ASSUME NEW s \in Sector, NEW base \in Contents, NEW lo \in Page, NEW hi \in Page,
         NEW d \in Data, \A p \in lo..hi : base[p] \in {Erased, d}
  PROVE  Carries(base, WriteOpera(s, base, lo, hi, Uniform(d)))
<1> DEFINE o == WriteOpera(s, base, lo, hi, Uniform(d))
<1>1. o \in Opera /\ o.type = "W" /\ o.lo = lo /\ o.hi = hi
  BY OperaTypes, UniformType DEF WriteOpera
<1>2. \A p \in Page : o.buff[p] = IF p \in lo..hi THEN d ELSE base[p]
  BY DEF WriteOpera, Overlay, Uniform
<1>3. \A p \in Page : p \in lo..hi => Programmed(base[p], d) = d
  BY ValueAssumption DEF Programmed
<1> HIDE DEF o
<1>4. Carries(base, o)
  BY <1>1, <1>2, <1>3, WriteCarries
<1> QED
  BY <1>4 DEF o

(***************************************************************************)
(* So is what it is merged into.                                           *)
(***************************************************************************)
LEMMA MergedCarries ==
  ASSUME NEW c \in Contents, NEW o \in Opera, o.type = "W", Carries(c, o),
         NEW lo \in Page, NEW hi \in Page, NEW d \in Data,
         \A p \in lo..hi : o.buff[p] \in {Erased, d}
  PROVE  Carries(c, Merged(o, lo, hi, Uniform(d)))
<1> DEFINE n == Merged(o, lo, hi, Uniform(d))
<1>1. n \in Opera /\ n.type = "W" /\ n.lo = Smaller(o.lo, lo) /\ n.hi = Larger(o.hi, hi)
  BY OperaTypes, UniformType DEF Merged, Opera
<1>2. \A p \in Page : n.buff[p] = IF p \in lo..hi THEN d ELSE o.buff[p]
  BY DEF Merged, Overlay, Uniform, Opera
<1>3. \A p \in Page : p \in lo..hi \/ p \in o.lo..o.hi => p \in n.lo..n.hi
  BY <1>1 DEF Smaller, Larger, Page, Opera
<1>4. \A p \in Page : IF p \in o.lo..o.hi THEN Programmed(c[p], o.buff[p]) = o.buff[p]
                      ELSE c[p] = o.buff[p]
  BY WriteCarries
<1> HIDE DEF n
<1>5. ASSUME NEW p \in Page
      PROVE  IF p \in n.lo..n.hi THEN Programmed(c[p], n.buff[p]) = n.buff[p]
             ELSE c[p] = n.buff[p]
  BY <1>2, <1>3, <1>4, ValueAssumption DEF Programmed
<1>6. Carries(c, n)
  BY <1>1, <1>5, WriteCarries
<1> QED
  BY <1>6 DEF n

(***************************************************************************)
(* norflash_api_write, async, which merges: into the only write there is,  *)
(* the newest operation of the sector.                                     *)
(***************************************************************************)
LEMMA WriteMergeStore ==
  ASSUME StoreInv, OneBuffer, InFlightInv', NEW s \in Sector, NEW lo \in Page,
         NEW hi \in Page, NEW d \in Data, Writable(s, lo, hi, d),
         WriteMerge(s, lo, hi, Uniform(d))
  PROVE  Owned' /\ BuffersAgree' /\ Store!Write(s, lo, hi, d)
<1> DEFINE m == Owner[s]
           q == queue[m]
<1>1. /\ m \in Module /\ q \in Seq(Opera) /\ Agrees(q, flash) /\ OwnedBy(q, m)
      /\ ListOK(q, state[m]) /\ DOMAIN q = 1..Len(q) /\ flash[s] \in Contents
  BY OwnerAssumption, ListsOK, LenProperties
  DEF StoreInv, InFlightInv, TypeOK, BuffersAgree, Owned
<1>2. PICK i \in 1..Len(q) :
        /\ MergesInto(q, s, i)
        /\ queue' = [queue EXCEPT ![m][i] = Merged(@, lo, hi, Uniform(d))]
  BY <1>1 DEF WriteMerge
<1> DEFINE o == q[i]
           n == Merged(o, lo, hi, Uniform(d))
           r == [q EXCEPT ![i] = n]
<1>3. UNCHANGED <<flash, call>> /\ call = NoCall
  BY DEF WriteMerge, UnchangedFlush, Ready
<1>4. o \in Opera /\ o.type = "W" /\ o.sector = s
  BY <1>1, <1>2, ElementOfSeq DEF MergesInto, FoundFirst, OnSector
<1>5. /\ n \in Opera /\ n.type = o.type /\ n.sector = o.sector /\ Content(n) = n.buff
      /\ n.buff = Overlay(o.buff, lo, hi, Uniform(d))
  BY <1>4, OperaTypes, UniformType DEF Merged, Opera, Content
<1>6. Newest(q, s, i)
  <2>1. \A j \in 1..Len(q) : j > i => ~q[j].lock
    BY <1>1 DEF ListOK
  <2> QED
    BY <1>1, <1>2, <1>4, <2>1 DEF Newest, MergesInto, FoundFirst, OnSector, PassedBy
<1>7. View(s) = o.buff
  <2>1. Seen(q, flash[s], s) = o.buff
    <3> HIDE DEF q
    <3> QED
      BY <1>1, <1>4, <1>6, SeenIs DEF Content
  <2> QED
    BY <2>1, ViewIs DEF ViewsAre, StoreInv, InFlightInv
<1>8. queue' = [queue EXCEPT ![m] = r]
  BY <1>1, <1>2 DEF StoreInv, InFlightInv, TypeOK
<1> HIDE DEF q
<1>9. Carries(Under(q, flash, i), o) /\ Under(q, flash, i) \in Contents
  BY <1>1, <1>4, UniformType DEF Agrees, Under
<1>10. Carries(Under(q, flash, i), n)
  BY <1>4, <1>7, <1>9, MergedCarries DEF Writable
<1> HIDE DEF n, o
<1>11. Agrees(r, flash)
  BY <1>1, <1>4, <1>5, <1>10, ChangeAgrees DEF Under, o
<1>12. r \in Seq(Opera) /\ OwnedBy(r, m) /\ ~Quiet(r, s)
  <2>1. /\ r \in Seq(Opera) /\ Len(r) = Len(q)
        /\ \A k \in 1..Len(q) : r[k] = IF k = i THEN n ELSE q[k]
    BY <1>1, <1>5, ExceptSeq
  <2> HIDE DEF r
  <2> QED
    BY <1>1, <1>4, <1>5, <2>1 DEF OwnedBy, Quiet, o
<1>13. /\ Seen(r, flash[s], s) = n.buff
       /\ \A z, c : z # s => Seen(r, c, z) = Seen(q, c, z)
  <2>1. n \in Opera /\ n.sector = q[i].sector /\ n.sector = s /\ Content(n) = n.buff
    BY <1>4, <1>5 DEF o
  <2>2. ChangedAt(q, r, i, n)
    BY <1>1, <1>5, <2>1, ExceptSeq DEF ChangedAt
  <2> HIDE DEF r
  <2>3. Seen(r, flash[s], s) = Content(n)
    BY <1>1, <1>6, <2>1, <2>2, ChangeSeen
  <2>4. \A z, c : z # s => Seen(r, c, z) = Seen(q, c, z)
    BY <1>1, <2>1, <2>2, ChangeSeen
  <2> QED
    BY <2>1, <2>3, <2>4
<1> HIDE DEF r
<1>14. Image' = [Image EXCEPT ![s] = n.buff] /\ Dirty' = Dirty \cup {s}
  BY <1>3, <1>8, <1>12, <1>13, CallSeen DEF StoreInv, q
<1>15. Owned' /\ BuffersAgree'
  BY <1>1, <1>3, <1>8, <1>11, <1>12, OneListAgrees DEF StoreInv, InFlightInv
<1>16. n.buff = [p \in Page |-> IF p \in lo..hi THEN d ELSE Image[s][p]]
  BY <1>5, <1>7 DEF Overlay, Uniform, Image
<1> QED
  BY <1>3, <1>14, <1>15, <1>16 DEF Store!Write, Store!Written, Image

(***************************************************************************)
(* norflash_api_write, async, which adds a write: over the erases that     *)
(* wait for its sector, or over the chip.                                  *)
(***************************************************************************)
LEMMA WriteAddStore ==
  ASSUME StoreInv, OneBuffer, InFlightInv', NEW s \in Sector, NEW lo \in Page,
         NEW hi \in Page, NEW d \in Data, Writable(s, lo, hi, d),
         WriteAdd(s, lo, hi, Uniform(d))
  PROVE  Owned' /\ BuffersAgree' /\ Store!Write(s, lo, hi, d)
<1> DEFINE m == Owner[s]
           q == queue[m]
           base == IF BehindErase(q, s) THEN Blank ELSE Raw(s)
           n == WriteOpera(s, base, lo, hi, Uniform(d))
           r == Append(q, n)
<1>1. /\ m \in Module /\ q \in Seq(Opera) /\ Agrees(q, flash) /\ OwnedBy(q, m)
      /\ DOMAIN q = 1..Len(q) /\ flash[s] \in Contents /\ TypeOK /\ LockIsInFlight
  BY OwnerAssumption, LenProperties
  DEF StoreInv, InFlightInv, TypeOK, BuffersAgree, Owned
<1>2. UNCHANGED <<flash, call>> /\ call = NoCall
  BY DEF WriteAdd, UnchangedFlush, Ready
<1>3. queue' = [queue EXCEPT ![m] = r] /\ BuffFree(queue)
  BY DEF WriteAdd
<1>4. \A i \in 1..Len(q) : q[i].type = "E"
  <2>1. \A i \in 1..Len(q) : q[i].type # "W"
    BY <1>1, <1>3, OneWrite DEF StoreInv, OneBuffer
  <2>2. \A i \in 1..Len(q) : q[i] \in Opera
    BY <1>1, ElementOfSeq
  <2> HIDE DEF q
  <2> QED
    BY <2>1, <2>2 DEF Opera
<1>5. View(s) = base /\ (Quiet(q, s) => base = flash[s]) /\ (~Quiet(q, s) => base = Blank)
  <2>1. View(s) = Seen(q, flash[s], s)
    BY <1>1, ViewIs DEF ViewsAre
  <2>2. CASE Quiet(q, s)
    <3>1. OnSector(q, s) = {}
      BY <1>1, <2>2 DEF OnSector, Quiet
    <3>2. ~BehindErase(q, s)
      BY <3>1 DEF BehindErase, FoundFirst
    <3>3. Seen(q, flash[s], s) = flash[s]
      <4> HIDE DEF q
      <4> QED
        BY <1>1, <2>2, SeenIs
    <3>4. View(s) = Raw(s)
      BY <3>1 DEF View
    <3> QED
      BY <2>1, <2>2, <3>2, <3>3, <3>4
  <2>3. CASE ~Quiet(q, s)
    <3> HIDE DEF q
    <3>1. PICK i \in 1..Len(q) : Newest(q, s, i)
      BY <1>1, <2>3, NewestExists
    <3>2. BehindErase(q, s)
      BY <1>1, <1>4, <3>1 DEF BehindErase, FoundFirst, OnSector, PassedBy, Newest
    <3>3. Seen(q, flash[s], s) = Blank
      BY <1>1, <1>4, <3>1, SeenIs DEF Content
    <3> QED
      BY <2>1, <2>3, <3>2, <3>3
  <2> QED
    BY <2>2, <2>3
<1>6. base \in Contents
  BY <1>1, RawType, UniformType
<1> HIDE DEF q, base
<1>7. n \in Opera /\ n.sector = s /\ Content(n) = Overlay(base, lo, hi, Uniform(d))
  BY <1>6, OperaTypes, UniformType DEF WriteOpera, Content
<1>8. Carries(base, n)
  BY <1>5, <1>6, AddedCarries DEF Writable
<1> HIDE DEF n
<1>9. Agrees(r, flash)
  BY <1>1, <1>5, <1>7, <1>8, AppendAgrees
<1>10. r \in Seq(Opera) /\ OwnedBy(r, m) /\ ~Quiet(r, s)
  <2>1. /\ r \in Seq(Opera) /\ Len(r) = Len(q) + 1 /\ Len(q) \in Nat
        /\ \A k \in 1..Len(q) : r[k] = q[k]
        /\ r[Len(q) + 1] = n
    BY <1>1, <1>7, AppendProperties, LenProperties
  <2> HIDE DEF r
  <2> QED
    BY <1>1, <1>7, <2>1 DEF OwnedBy, Quiet
<1>11. /\ Seen(r, flash[s], s) = Content(n)
       /\ \A z, c : z # s => Seen(r, c, z) = Seen(q, c, z)
  BY <1>1, <1>7, AppendSeen
<1> HIDE DEF r
<1>12. Image' = [Image EXCEPT ![s] = Content(n)] /\ Dirty' = Dirty \cup {s}
  BY <1>2, <1>3, <1>10, <1>11, CallSeen DEF StoreInv, q
<1>13. Owned' /\ BuffersAgree'
  BY <1>1, <1>2, <1>3, <1>9, <1>10, OneListAgrees
  DEF StoreInv, InFlightInv
<1>14. Content(n) = [p \in Page |-> IF p \in lo..hi THEN d ELSE Image[s][p]]
  BY <1>5, <1>7 DEF Overlay, Uniform, Image
<1> QED
  BY <1>2, <1>12, <1>13, <1>14 DEF Store!Write, Store!Written, Image

-----------------------------------------------------------------------------
(***************************************************************************)
(* A list with work for a sector reads alike over every chip.              *)
(***************************************************************************)
LEMMA SeenAlike ==
  ASSUME NEW q \in Seq(Opera), NEW s, ~Quiet(q, s), NEW c, NEW d
  PROVE  Seen(q, c, s) = Seen(q, d, s)
  BY NewestExists, SeenIs

(***************************************************************************)
(* The chip works for module m: clients cannot tell when every sector of m *)
(* reads as before and none gets work.                                     *)
(***************************************************************************)
LEMMA ChipSeen ==
  ASSUME InFlightInv, InFlightInv', NEW m \in Module, NEW r \in Seq(Opera),
         queue' = [queue EXCEPT ![m] = r], UNCHANGED call,
         \A s \in Sector : Owner[s] # m => flash'[s] = flash[s],
         \A s \in Sector : Seen(r, flash'[s], s) = Seen(queue[m], flash[s], s),
         \A s \in Sector : Quiet(queue[m], s) => Quiet(r, s)
  PROVE  Image' = Image /\ Dirty' \subseteq Dirty
<1>1. \A s \in Sector : queue'[Owner[s]] = IF Owner[s] = m THEN r ELSE queue[Owner[s]]
  BY OwnerAssumption DEF InFlightInv, TypeOK
<1>2. ViewsAre /\ ViewsAre' /\ DirtyAre /\ DirtyAre'
  BY ViewIs, ViewIsNext, DirtyIs, DirtyIsNext DEF InFlightInv
<1>3. ASSUME NEW s \in Sector
      PROVE  View(s)' = View(s)
  <2>1. CASE Owner[s] = m
    BY <1>1, <1>2, <2>1 DEF ViewsAre
  <2>2. CASE Owner[s] # m
    BY <1>1, <1>2, <2>2 DEF ViewsAre
  <2> QED
    BY <2>1, <2>2
<1>4. Dirty' \subseteq Dirty
  BY <1>1, <1>2 DEF DirtyAre
<1> QED
  BY <1>3, <1>4 DEF Image

(***************************************************************************)
(* The oldest operation of a list, which is not behind another.            *)
(***************************************************************************)
LEMMA HeadIs ==
  ASSUME StoreInv, NEW m \in Module, HasWork(m)
  PROVE  LET q == queue[m]
         IN  /\ q \in Seq(Opera) /\ q # <<>> /\ 1 \in 1..Len(q) /\ Len(q) \in Nat
             /\ Head(q) = q[1] /\ q[1] \in Opera
             /\ q[1].sector \in Sector /\ Owner[q[1].sector] = m
             /\ flash[q[1].sector] \in Contents
             /\ Carries(flash[q[1].sector], q[1])
             /\ ~Quiet(q, q[1].sector)
             /\ OwnedBy(q, m) /\ Agrees(q, flash) /\ ~Behind(q, 1)
<1> DEFINE q == queue[m]
<1>1. q \in Seq(Opera) /\ q # <<>> /\ OwnedBy(q, m) /\ Agrees(q, flash)
  BY DEF StoreInv, InFlightInv, TypeOK, HasWork, Owned, BuffersAgree
<1>2. Len(q) \in Nat /\ 1 \in 1..Len(q) /\ Head(q) = q[1]
  BY <1>1, LenProperties, EmptySeq, HeadTailProperties
<1>3. q[1] \in Opera
  BY <1>1, <1>2, ElementOfSeq
<1>4. q[1].sector \in Sector /\ flash[q[1].sector] \in Contents
  BY <1>3 DEF Opera, StoreInv, InFlightInv, TypeOK
<1> HIDE DEF q
<1>5. ~Behind(q, 1)
  BY <1>2 DEF Behind
<1>6. Carries(flash[q[1].sector], q[1])
  BY <1>1, <1>2, <1>5 DEF Agrees, Under
<1>7. ~Quiet(q, q[1].sector) /\ Owner[q[1].sector] = m
  BY <1>1, <1>2 DEF Quiet, OwnedBy
<1> QED
  BY <1>1, <1>2, <1>3, <1>4, <1>5, <1>6, <1>7 DEF q

(***************************************************************************)
(* The chip carries out the oldest operation, and _opera_del drops it: what *)
(* clients saw of the sector in its buffer is on the chip.                 *)
(***************************************************************************)
LEMMA CompleteStore ==
  ASSUME StoreInv, OneBuffer, InFlightInv', NEW m \in Module, HasWork(m), Complete(m),
         UNCHANGED call
  PROVE  Owned' /\ BuffersAgree' /\ Image' = Image /\ Dirty' \subseteq Dirty
<1> DEFINE q == queue[m]
           h == q[1]
           z == h.sector
           r == Tail(q)
<1>1. /\ q \in Seq(Opera) /\ q # <<>> /\ 1 \in 1..Len(q) /\ Len(q) \in Nat
      /\ Head(q) = h /\ h \in Opera /\ z \in Sector /\ Owner[z] = m
      /\ flash[z] \in Contents /\ Carries(flash[z], h) /\ ~Quiet(q, z)
      /\ OwnedBy(q, m) /\ Agrees(q, flash)
  BY HeadIs
<1>2. queue' = [queue EXCEPT ![m] = r] /\ flash' = [flash EXCEPT ![z] = Effect(@, h)]
  BY <1>1 DEF Complete
<1>3. \A s \in Sector : flash'[s] = IF s = z THEN Effect(flash[s], h) ELSE flash[s]
  BY <1>2 DEF StoreInv, InFlightInv, TypeOK
<1>4. \A i \in 1..Len(q) : h.type = "W" /\ i # 1 => q[i].type = "E"
  <2>1. \A i \in 1..Len(q) : h.type = "W" /\ q[i].type = "W" => i = 1
    BY <1>1, OneWrite DEF StoreInv, InFlightInv, OneBuffer
  <2>2. \A i \in 1..Len(q) : q[i] \in Opera
    BY <1>1, ElementOfSeq
  <2> HIDE DEF q
  <2> QED
    BY <2>1, <2>2 DEF Opera
<1>5. /\ r \in Seq(Opera) /\ Len(r) = Len(q) - 1
      /\ \A k \in 1..Len(r) : r[k] = q[k + 1]
  BY <1>1, HeadTailProperties
<1> HIDE DEF q
<1>6. Agrees(r, flash')
  BY <1>1, <1>3, <1>4, TailAgrees
<1>7. ASSUME NEW s \in Sector
      PROVE  Seen(r, flash'[s], s) = Seen(q, flash[s], s)
  <2>1. CASE Newest(q, s, 1)
    <3>1. s = z
      BY <2>1 DEF Newest
    <3>2. Seen(r, flash'[s], s) = flash'[s]
      BY <1>1, <2>1, TailSeen
    <3>3. Seen(q, flash[s], s) = Content(h)
      BY <1>1, <2>1, SeenIs
    <3> QED
      BY <1>1, <1>3, <3>1, <3>2, <3>3 DEF Carries
  <2>2. CASE ~Newest(q, s, 1)
    <3>1. Seen(r, flash'[s], s) = Seen(q, flash'[s], s)
      BY <1>1, <2>2, TailSeen
    <3>2. Seen(q, flash'[s], s) = Seen(q, flash[s], s)
      BY <1>1, <1>3, SeenAlike
    <3> QED
      BY <3>1, <3>2
  <2> QED
    BY <2>1, <2>2
<1> HIDE DEF r
<1>8. OwnedBy(r, m) /\ \A s : Quiet(q, s) => Quiet(r, s)
  <2>1. \A k \in 1..Len(r) : k + 1 \in 1..Len(q) /\ r[k] = q[k + 1]
    BY <1>1, <1>5
  <2>2. OwnedBy(r, m)
    BY <1>1, <2>1 DEF OwnedBy
  <2>3. \A s : Quiet(q, s) => Quiet(r, s)
    BY <2>1 DEF Quiet
  <2> QED
    BY <2>2, <2>3
<1>9. \A s \in Sector : Owner[s] # m => flash'[s] = flash[s]
  BY <1>1, <1>3
<1>10. Owned' /\ BuffersAgree'
  BY <1>2, <1>6, <1>8, <1>9, OneListAgrees DEF StoreInv, InFlightInv
<1>11. Image' = Image /\ Dirty' \subseteq Dirty
  BY <1>2, <1>5, <1>7, <1>8, <1>9, ChipSeen DEF StoreInv, q
<1> QED
  BY <1>10, <1>11

(***************************************************************************)
(* A write that did some of its pages is still carried out as it is seen.  *)
(***************************************************************************)
LEMMA PartCarries ==
  ASSUME NEW c \in Contents, NEW o \in Opera, o.type = "W", Carries(c, o),
         NEW lo, NEW hi
  PROVE  Carries(ProgramPages(c, lo, hi, o.buff), o)
<1> DEFINE d == ProgramPages(c, lo, hi, o.buff)
<1>1. d \in Contents
  BY ProgramPagesType DEF Opera
<1>2. \A p \in Page : d[p] = IF p \in lo..hi THEN Programmed(c[p], o.buff[p]) ELSE c[p]
  BY DEF ProgramPages
<1>3. \A p \in Page : IF p \in o.lo..o.hi THEN Programmed(c[p], o.buff[p]) = o.buff[p]
                      ELSE c[p] = o.buff[p]
  BY WriteCarries
<1> HIDE DEF d
<1>4. ASSUME NEW p \in Page
      PROVE  IF p \in o.lo..o.hi THEN Programmed(d[p], o.buff[p]) = o.buff[p]
             ELSE d[p] = o.buff[p]
  <2>1. d[p] \in {Programmed(c[p], o.buff[p]), c[p]}
    BY <1>2
  <2>2. \A v : Programmed(v, v) = v
    BY DEF Programmed
  <2> QED
    BY <1>3, <2>1, <2>2
<1>5. Carries(d, o)
  BY <1>1, <1>4, WriteCarries
<1> QED
  BY <1>5 DEF d

(***************************************************************************)
(* An interrupt suspends the oldest operation: it is locked, and the chip  *)
(* has done some pages of it.                                              *)
(***************************************************************************)
LEMMA SuspendStore ==
  ASSUME StoreInv, OneBuffer, InFlightInv', NEW m \in Module, HasWork(m), Suspend(m),
         UNCHANGED call
  PROVE  Owned' /\ BuffersAgree' /\ Image' = Image /\ Dirty' \subseteq Dirty
<1> DEFINE q == queue[m]
           h == q[1]
           z == h.sector
           o == [h EXCEPT !.lock = TRUE]
           r == [q EXCEPT ![1] = o]
<1>1. /\ q \in Seq(Opera) /\ q # <<>> /\ 1 \in 1..Len(q) /\ Len(q) \in Nat
      /\ Head(q) = h /\ h \in Opera /\ z \in Sector /\ Owner[z] = m
      /\ flash[z] \in Contents /\ Carries(flash[z], h) /\ ~Quiet(q, z)
      /\ OwnedBy(q, m) /\ Agrees(q, flash) /\ ~Behind(q, 1)
  BY HeadIs
<1>2. queue' = [queue EXCEPT ![m] = r]
  BY <1>1 DEF Suspend, StoreInv, InFlightInv, TypeOK
<1>3. /\ o \in Opera /\ o.sector = z /\ Content(o) = Content(h)
      /\ \A c : Carries(c, o) <=> Carries(c, h)
  BY <1>1 DEF Opera, Content, Carries, Effect
<1>4. \/ flash' = flash
      \/ /\ h.type = "W"
         /\ \E lo, hi :
              flash' = [flash EXCEPT ![z] = ProgramPages(flash[z], lo, hi, h.buff)]
  <2> DEFINE first == IF state[m] = "IDLE" THEN h.lo ELSE opPage
  <2>1. h.type \in {"E", "W"}
    BY <1>1 DEF Opera
  <2>2. CASE h.type = "E"
    <3>1. Head(queue[m]).type = "E"
      BY <1>1, <2>2
    <3>2. flash' = flash
      BY <3>1, Zenon DEF Suspend
    <3> QED
      BY <3>2
  <2>3. CASE h.type = "W"
    <3>1. PICK p \in first..h.hi :
            flash' = [flash EXCEPT ![z] = ProgramPages(flash[z], first, p - 1, h.buff)]
      BY <1>1, <2>3 DEF Suspend
    <3>2. \E lo, hi :
            flash' = [flash EXCEPT ![z] = ProgramPages(flash[z], lo, hi, h.buff)]
      BY <3>1, Zenon
    <3> QED
      BY <2>3, <3>2
  <2> QED
    BY <2>1, <2>2, <2>3
<1>5. /\ \A s \in Sector : s # z => flash'[s] = flash[s]
      /\ Carries(flash'[z], h)
  <2>1. CASE flash' = flash
    BY <1>1, <2>1
  <2>2. CASE h.type = "W" /\ \E lo, hi :
               flash' = [flash EXCEPT ![z] = ProgramPages(flash[z], lo, hi, h.buff)]
    <3>1. PICK lo, hi :
            flash' = [flash EXCEPT ![z] = ProgramPages(flash[z], lo, hi, h.buff)]
      BY <2>2
    <3>2. flash'[z] = ProgramPages(flash[z], lo, hi, h.buff)
      BY <1>1, <3>1 DEF StoreInv, InFlightInv, TypeOK
    <3>3. \A s \in Sector : s # z => flash'[s] = flash[s]
      BY <1>1, <3>1 DEF StoreInv, InFlightInv, TypeOK
    <3>4. h.type = "W" /\ h \in Opera /\ flash[z] \in Contents /\ Carries(flash[z], h)
      BY <1>1, <2>2
    <3> HIDE DEF h, q, z
    <3>5. Carries(flash'[z], h)
      BY <3>2, <3>4, PartCarries
    <3> QED
      BY <3>3, <3>5
  <2> QED
    BY <1>4, <2>1, <2>2
<1>6. ChangedAt(q, r, 1, o)
  BY <1>1, <1>3, ExceptSeq DEF ChangedAt
<1> HIDE DEF q, o
<1>7. Agrees(r, flash')
  <2>1. \A k \in 1..Len(q) : k # 1 /\ q[k].sector = z => Behind(q, k)
    BY <1>1 DEF Behind
  <2>2. \A k \in 1..Len(q) : q[k].sector \in Sector
    <3>1. \A k \in 1..Len(q) : q[k] \in Opera
      BY <1>1, ElementOfSeq
    <3> QED
      BY <3>1 DEF Opera
  <2>3. \A k \in 1..Len(q) :
          k # 1 /\ ~Behind(q, k) => flash'[q[k].sector] = flash[q[k].sector]
    BY <1>5, <2>1, <2>2
  <2>4. Carries(IF Behind(q, 1) THEN Blank ELSE flash'[o.sector], o)
    BY <1>1, <1>3, <1>5
  <2> QED
    BY <1>1, <1>3, <2>3, <2>4, ChangeAgrees
<1> HIDE DEF r
<1>8. ASSUME NEW s \in Sector
      PROVE  Seen(r, flash'[s], s) = Seen(q, flash[s], s)
  <2>1. Seen(r, flash'[s], s) = Seen(q, flash'[s], s)
    BY <1>1, <1>3, <1>6, ChangeSeen
  <2>2. Seen(q, flash'[s], s) = Seen(q, flash[s], s)
    BY <1>1, <1>5, SeenAlike
  <2> QED
    BY <2>1, <2>2
<1>9. r \in Seq(Opera) /\ OwnedBy(r, m) /\ \A s : Quiet(q, s) => Quiet(r, s)
  BY <1>1, <1>3, <1>6 DEF ChangedAt, OwnedBy, Quiet
<1>10. \A s \in Sector : Owner[s] # m => flash'[s] = flash[s]
  BY <1>1, <1>5
<1>11. Owned' /\ BuffersAgree'
  BY <1>2, <1>7, <1>9, <1>10, OneListAgrees DEF StoreInv, InFlightInv
<1>12. Image' = Image /\ Dirty' \subseteq Dirty
  BY <1>2, <1>8, <1>9, <1>10, ChipSeen DEF StoreInv, q
<1> QED
  BY <1>11, <1>12

-----------------------------------------------------------------------------
(***************************************************************************)
(* What is proved of every step.                                           *)
(***************************************************************************)
StoreStep == Owned' /\ BuffersAgree' /\ CallPending' /\ [Store!Next]_(Store!vars)

(***************************************************************************)
(* A synchronous call that goes on may still write what it asked for: what *)
(* clients see has not changed.                                            *)
(***************************************************************************)
LEMMA CallKept ==
  ASSUME TypeOK, CallPending, UNCHANGED call, Image' = Image,
         call # NoCall => gate' # "wait"
  PROVE  CallPending'
<1> SUFFICES ASSUME call # NoCall, call.type = "W"
             PROVE  Writable(call.sector, call.lo, call.hi, call.data)'
  BY DEF CallPending
<1>1. call.sector \in Sector
  BY CallType
<1>2. View(call.sector)' = View(call.sector)
  BY <1>1 DEF Image
<1> QED
  BY <1>2 DEF CallPending, Writable

(***************************************************************************)
(* The chip works, and the call in progress, if any, goes on.              *)
(***************************************************************************)
LEMMA ChipStep ==
  ASSUME StoreInv, OneBuffer, InFlightInv', NEW m \in Module, HasWork(m),
         Complete(m) \/ Suspend(m), UNCHANGED call, gate' # "wait"
  PROVE  StoreStep
<1>1. Owned' /\ BuffersAgree' /\ Image' = Image /\ Dirty' \subseteq Dirty
  BY CompleteStore, SuspendStore
<1>2. CallPending'
  BY <1>1, CallKept DEF StoreInv, InFlightInv
<1>3. Store!Settle
  BY <1>1 DEF Store!Settle, Image
<1> QED
  BY <1>1, <1>2, <1>3 DEF StoreStep, Store!Next

(***************************************************************************)
(* Steps that touch neither the lists nor the chip.                        *)
(***************************************************************************)
LEMMA StandStore ==
  ASSUME StoreInv, UNCHANGED <<flash, queue, state, opPage>>
  PROVE  /\ Owned' /\ BuffersAgree' /\ Image' = Image
         /\ call' = call => Dirty' = Dirty
<1>1. \A s \in Sector : View(s)' = View(s)
  BY DEF View, Raw
<1> QED
  BY <1>1 DEF StoreInv, Owned, BuffersAgree, Image, Dirty

(***************************************************************************)
(* They are no step of the contract.                                       *)
(***************************************************************************)
LEMMA IdleStep ==
  ASSUME StoreInv, UNCHANGED <<flash, queue, state, opPage, call>>,
         call # NoCall => gate' # "wait"
  PROVE  StoreStep
<1>1. Owned' /\ BuffersAgree' /\ Image' = Image /\ Dirty' = Dirty
  BY StandStore
<1>2. CallPending'
  BY <1>1, CallKept DEF StoreInv, InFlightInv
<1> QED
  BY <1>1, <1>2 DEF StoreStep, Store!vars, Image

(***************************************************************************)
(* A synchronous call begins.                                              *)
(***************************************************************************)
LEMMA SyncBeginStep ==
  ASSUME StoreInv, OneBuffer, NEW c \in Call, SyncBegin(c)
  PROVE  StoreStep
<1>1. /\ UNCHANGED <<flash, queue, state, opPage, gate>> /\ call = NoCall /\ call' = c
      /\ gate # "wait" /\ (c.type = "W" => Writable(c.sector, c.lo, c.hi, c.data))
  BY DEF SyncBegin, Ready, OneBuffer
<1>2. c # NoCall /\ c.sector \in Sector
  BY SyncAssumption DEF Call, NoCall
<1>3. Owned' /\ BuffersAgree' /\ Image' = Image
  BY <1>1, StandStore
<1>4. CallPending'
  <2>1. View(c.sector)' = View(c.sector)
    BY <1>2, <1>3 DEF Image
  <2> QED
    BY <1>1, <2>1 DEF CallPending, Writable
<1>5. Dirty' = Dirty \cup {c.sector}
  BY <1>1, <1>2 DEF Dirty
<1>6. Store!SyncBegin
  BY <1>1, <1>3, <1>5 DEF Store!SyncBegin, Image
<1> QED
  BY <1>3, <1>4, <1>6 DEF StoreStep, Store!Next

(***************************************************************************)
(* The synchronous call itself: the list of its module is drained, so that *)
(* the chip is free for it and holds what clients see.                     *)
(***************************************************************************)
LEMMA SyncOpStep ==
  ASSUME StoreInv, OneBuffer, InFlightInv', SyncOp
  PROVE  StoreStep
<1> SUFFICES ASSUME NEW s \in Sector, s = call.sector
             PROVE  StoreStep
  BY CallType DEF StoreInv, InFlightInv, SyncOp
<1> DEFINE m == Owner[s]
           done == IF call.type = "E" THEN Blank
                   ELSE ProgramPages(flash[s], call.lo, call.hi, Uniform(call.data))
<1>1. /\ TypeOK /\ LockIsInFlight /\ ChipAgrees /\ Owned /\ BuffersAgree
      /\ call # NoCall /\ s \in Sector /\ m \in Module
      /\ gate # "wait" /\ (call.type = "W" => Writable(s, call.lo, call.hi, call.data))
  BY CallType DEF StoreInv, InFlightInv, CallPending, SyncOp
<1>2. queue[m] = <<>> /\ queue' = queue /\ call' = NoCall /\ ~OtherSuspended
  BY <1>1 DEF SyncOp, HasWork
<1>3. suspendState = "NONE"
  BY <1>1, <1>2 DEF ChipAgrees, SuspendedIn, SuspendedAs, OtherSuspended, LockIsInFlight,
                    HasWork, TypeOK
<1>4. flash' = [flash EXCEPT ![s] = done]
  BY <1>3 DEF SyncOp
<1>5. \A z \in Sector : flash'[z] = IF z = s THEN done ELSE flash[z]
  BY <1>1, <1>4 DEF TypeOK
<1>6. queue[m] \in Seq(Opera) /\ Len(queue[m]) = 0
  BY <1>1, <1>2, EmptySeq DEF TypeOK
<1>7. Quiet(queue[m], s)
  BY <1>6 DEF Quiet
<1>8. ViewsAre /\ ViewsAre' /\ DirtyAre /\ DirtyAre'
  BY <1>1, ViewIs, ViewIsNext, DirtyIs, DirtyIsNext DEF InFlightInv
<1>9. View(s) = flash[s] /\ View(s)' = done
  <2>1. Seen(queue[m], flash[s], s) = flash[s] /\ Seen(queue[m], done, s) = done
    BY <1>6, <1>7, SeenIs
  <2>2. flash'[s] = done
    BY <1>1, <1>5
  <2> HIDE DEF done
  <2>3. View(s) = Seen(queue[m], flash[s], s)
    BY <1>1, <1>8 DEF ViewsAre
  <2>4. View(s)' = Seen(queue[m], flash'[s], s)
    BY <1>2, <1>8 DEF ViewsAre
  <2> QED
    BY <2>1, <2>2, <2>3, <2>4
<1>10. done = IF call.type = "E" THEN Blank
              ELSE Store!Written(flash[s], call.lo, call.hi, call.data)
  <2> SUFFICES ASSUME call.type # "E"
               PROVE  ProgramPages(flash[s], call.lo, call.hi, Uniform(call.data))
                        = Store!Written(flash[s], call.lo, call.hi, call.data)
    OBVIOUS
  <2>1. call \in Call /\ call.type = "W"
    BY <1>1 DEF TypeOK, Call
  <2>2. \A p \in Page : p \in call.lo..call.hi => flash[s][p] \in {Erased, call.data}
    BY <1>1, <1>9, <2>1 DEF Writable
  <2>3. \A p \in Page :
          p \in call.lo..call.hi => Programmed(flash[s][p], call.data) = call.data
    BY <2>2 DEF Programmed
  <2> QED
    BY <2>3 DEF ProgramPages, Store!Written, Uniform
<1> HIDE DEF done
<1>11. ASSUME NEW z \in Sector, z # s
       PROVE  View(z)' = View(z)
  BY <1>2, <1>5, <1>8, <1>11 DEF ViewsAre
<1>12. Image' = [Image EXCEPT ![s] = done]
  BY <1>1, <1>9, <1>11 DEF Image
<1>13. Dirty' = Dirty \ {s}
  BY <1>1, <1>2, <1>7, <1>8 DEF DirtyAre
<1>14. Owned' /\ BuffersAgree'
  <2>1. Agrees(queue[m], flash') /\ OwnedBy(queue[m], m)
    BY <1>6 DEF Agrees, OwnedBy
  <2>2. queue' = [queue EXCEPT ![m] = queue[m]]
    BY <1>1, <1>2 DEF TypeOK
  <2>3. \A z \in Sector : Owner[z] # m => flash'[z] = flash[z]
    BY <1>5
  <2> QED
    BY <1>1, <2>1, <2>2, <2>3, OneListAgrees
<1>15. CallPending'
  BY <1>2 DEF CallPending
<1>16. Image[s] = flash[s]
  BY <1>1, <1>9 DEF Image
<1>17. Store!SyncReturn
  BY <1>1, <1>2, <1>10, <1>12, <1>13, <1>16
  DEF Store!SyncReturn, Store!Blank, Image, Blank, Uniform
<1> QED
  BY <1>14, <1>15, <1>17 DEF StoreStep, Store!Next

(***************************************************************************)
(* A power loss hurts only the sector the chip was working on, and that    *)
(* one was dirty.                                                          *)
(***************************************************************************)
LEMMA TornSector ==
  ASSUME NEW type, NEW s \in Sector, NEW first, NEW hi, NEW b, TypeOK,
         flash' \in Torn(type, s, first, hi, b)
  PROVE  \A z \in Sector : z # s => flash'[z] = flash[z]
<1>1. \E c : flash' = [flash EXCEPT ![s] = c]
  BY DEF Torn
<1> QED
  BY <1>1 DEF TypeOK

(***************************************************************************)
(* Afterwards everybody reads the chip.                                    *)
(***************************************************************************)
LEMMA PowerLossViews ==
  ASSUME TypeOK', LockIsInFlight', PowerLoss
  PROVE  \A s \in Sector : View(s)' = flash'[s]
<1>1. \A m \in Module : queue'[m] = <<>> /\ Len(queue'[m]) = 0
  BY EmptySeq DEF PowerLoss
<1>2. \A s \in Sector : Quiet(queue'[Owner[s]], s) /\ queue'[Owner[s]] \in Seq(Opera)
  BY <1>1, OwnerAssumption DEF Quiet, TypeOK
<1> QED
  BY <1>2, ViewIsNext, SeenIs DEF ViewsAre

(***************************************************************************)
(* So the contract allows what it does.                                    *)
(***************************************************************************)
LEMMA PowerLossStep ==
  ASSUME StoreInv, InFlightInv', PowerLoss
  PROVE  StoreStep /\ Store!PowerLoss
<1>1. TypeOK /\ ViewsAre /\ ViewsAre' /\ DirtyAre /\ DirtyAre' /\ TypeOK'
  BY ViewIs, ViewIsNext, DirtyIs, DirtyIsNext DEF StoreInv, InFlightInv
<1>2. call' = NoCall /\ \A m \in Module : queue'[m] = <<>> /\ Len(queue'[m]) = 0
  BY EmptySeq DEF PowerLoss
<1>3. Owned' /\ BuffersAgree' /\ CallPending'
  BY <1>2 DEF Owned, OwnedBy, BuffersAgree, Agrees, CallPending
<1>4. \A s \in Sector : Quiet(queue'[Owner[s]], s)
  BY <1>2, OwnerAssumption DEF Quiet
<1>5. \A s \in Sector : View(s)' = flash'[s]
  BY PowerLossViews DEF InFlightInv
<1>6. Dirty' = {}
  BY <1>1, <1>2, <1>4 DEF DirtyAre
<1>7. ASSUME NEW s \in Sector, s \notin Dirty
      PROVE  flash'[s] = flash[s]
  <2>1. Quiet(queue[Owner[s]], s) /\ (call # NoCall => s # call.sector)
    BY <1>1, <1>7 DEF DirtyAre
  <2>2. ASSUME NEW m \in Module, OnChip(m), flash' \in TornHead(m)
        PROVE  flash'[s] = flash[s]
    <3> DEFINE o == Head(queue[m])
    <3>1. HasWork(m)
      BY <2>2 DEF OnChip
    <3>2. o = queue[m][1] /\ o.sector \in Sector /\ Owner[o.sector] = m
          /\ ~Quiet(queue[m], o.sector)
      BY <3>1, HeadIs
    <3>3. s # o.sector
      BY <2>1, <3>2
    <3> HIDE DEF o
    <3>4. \E first : flash' \in Torn(o.type, o.sector, first, o.hi, o.buff)
      BY <2>2 DEF TornHead, o
    <3> QED
      BY <1>1, <3>2, <3>3, <3>4, TornSector
  <2>3. ASSUME CallOnChip, flash' \in TornCall
        PROVE  flash'[s] = flash[s]
    <3>1. call # NoCall /\ call.sector \in Sector
      BY <1>1, <2>3, CallType DEF CallOnChip
    <3> QED
      BY <1>1, <2>1, <2>3, <3>1, TornSector DEF TornCall
  <2> QED
    BY <2>2, <2>3 DEF PowerLoss
<1>8. ASSUME NEW s \in Sector, s \notin Dirty
      PROVE  View(s)' = View(s)
  <2>1. Quiet(queue[Owner[s]], s) /\ queue[Owner[s]] \in Seq(Opera)
    BY <1>1, <1>8, OwnerAssumption DEF DirtyAre, TypeOK
  <2>2. View(s) = flash[s]
    BY <1>1, <2>1, SeenIs DEF ViewsAre
  <2> QED
    BY <1>5, <1>7, <1>8, <2>2
<1>9. Image' \in [Sector -> Contents] /\ \A s \in Sector \ Dirty : Image'[s] = Image[s]
  BY <1>1, <1>5, <1>8 DEF Image, TypeOK
<1>10. Store!PowerLoss
  BY <1>2, <1>6, <1>9 DEF Store!PowerLoss, Store!Contents, Contents, Image
<1> QED
  BY <1>3, <1>10 DEF StoreStep, Store!Next

(***************************************************************************)
(* Every step of the service is one of the contract, or none.              *)
(***************************************************************************)
LEMMA NextStore ==
  ASSUME OneBuffer, StoreInv, InFlightInv', [Next]_vars
  PROVE  StoreStep
<1>1. CASE ClientCall
  <2>1. ASSUME NEW s \in Sector, EraseAsync(s)
        PROVE  StoreStep
    <3>1. Owned' /\ BuffersAgree' /\ Store!Erase(s) /\ call' = NoCall
      BY <2>1, EraseAsyncStore DEF EraseAsync, Ready
    <3> QED
      BY <3>1 DEF StoreStep, Store!Next, CallPending
  <2>2. ASSUME NEW s \in Sector, EraseAsyncBreaks(s)
        PROVE  StoreStep
    BY <2>2, IdleStep DEF EraseAsyncBreaks, UnchangedFlush, Ready
  <2>3. ASSUME NEW s \in Sector, NEW lo \in Page, NEW hi \in Page, NEW d \in Data,
               Writable(s, lo, hi, d), WriteAsync(s, lo, hi, Uniform(d))
        PROVE  StoreStep
    <3>1. Owned' /\ BuffersAgree' /\ Store!Write(s, lo, hi, d)
      BY <2>3, WriteMergeStore, WriteAddStore DEF WriteAsync
    <3>2. call' = NoCall
      BY <2>3 DEF WriteAsync, WriteMerge, WriteAdd, Ready
    <3>3. d \in Value
      BY DEF Value
    <3> QED
      BY <3>1, <3>2, <3>3 DEF StoreStep, Store!Next, CallPending
  <2>4. ASSUME NEW c \in Call, SyncBegin(c)
        PROVE  StoreStep
    BY <2>4, SyncBeginStep
  <2> QED
    BY <1>1, <2>1, <2>2, <2>3, <2>4 DEF ClientCall
<1>2. CASE SyncStep
  <2>1. CASE SyncFinishOther
    <3>1. PICK m \in Module : m = curMod
      BY <2>1 DEF SyncFinishOther, OtherSuspended, StoreInv, InFlightInv, TypeOK
    <3>2. HasWork(m) /\ Complete(m) /\ UNCHANGED call /\ gate' # "wait"
      BY <2>1, <3>1
      DEF SyncFinishOther, OtherSuspended, StoreInv, InFlightInv, LockIsInFlight
    <3> QED
      BY <3>1, <3>2, ChipStep
  <2>2. CASE SyncDrain
    <3>1. PICK m \in Module : m = Owner[call.sector]
      BY <2>2, CallType DEF SyncDrain, StoreInv, InFlightInv
    <3>2. HasWork(m) /\ Complete(m) /\ UNCHANGED call /\ gate' # "wait"
      BY <2>2, <3>1 DEF SyncDrain
    <3> QED
      BY <3>1, <3>2, ChipStep
  <2>3. CASE SyncOp
    BY <2>3, SyncOpStep
  <2> QED
    BY <1>2, <2>1, <2>2, <2>3 DEF SyncStep
<1>3. CASE Flush
  <2>1. ASSUME NEW m \in Module, FlushSuspended(m) \/ FlushCompleted(m)
        PROVE  StoreStep
    BY <2>1, ChipStep DEF FlushSuspended, FlushCompleted, Serve
  <2>2. ASSUME NEW m \in Module, FlushModuleDone(m)
        PROVE  StoreStep
    BY <2>2, IdleStep DEF FlushModuleDone, Serve
  <2>3. CASE FlushNothing
    BY <2>3, IdleStep DEF FlushNothing
  <2> QED
    BY <1>3, <2>1, <2>2, <2>3 DEF Flush
<1>4. CASE FlushDisable \/ FlushEnable \/ CpReady
  <2>1. UNCHANGED <<flash, queue, state, opPage, call>> /\ (call # NoCall => gate' # "wait")
    BY <1>4 DEF FlushDisable, FlushEnable, CpReady, UnchangedButGate, Ready
  <2> QED
    BY <2>1, IdleStep
<1>5. CASE PowerLoss
  BY <1>5, PowerLossStep
<1>6. CASE UNCHANGED vars
  <2>1. UNCHANGED <<flash, queue, state, opPage, call>> /\ (call # NoCall => gate' # "wait")
    BY <1>6 DEF vars, StoreInv, CallPending
  <2> QED
    BY <2>1, IdleStep
<1> QED
  BY <1>1, <1>2, <1>3, <1>4, <1>5, <1>6 DEF Next

(***************************************************************************)
(* So every step keeps the invariant.                                      *)
(***************************************************************************)
LEMMA NextStoreInv ==
  ASSUME OneBuffer, StoreInv, [Next]_vars
  PROVE  StoreInv'
<1>1. InFlightInv'
  BY NextInFlight DEF StoreInv, StepOK
<1>2. PoolsFit' /\ AllPairOK'
  BY NextFits, NextPair DEF StoreInv, InFlightInv
<1>3. Owned' /\ BuffersAgree' /\ CallPending'
  BY <1>1, NextStore DEF StoreStep
<1> QED
  BY <1>1, <1>2, <1>3 DEF StoreInv

-----------------------------------------------------------------------------
(***************************************************************************)
(* What each operation does to what clients read, and to which sectors     *)
(* have work, for those who call the service.                              *)
(***************************************************************************)
LEMMA EraseViews ==
  ASSUME OneBuffer, StoreInv, NEW s \in Sector, EraseAsync(s)
  PROVE  /\ StoreInv' /\ UNCHANGED call
         /\ Image' = [Image EXCEPT ![s] = Blank] /\ Dirty' = Dirty \cup {s}
<1>1. StoreInv'
  BY NextStoreInv DEF Next, ClientCall
<1>2. Store!Erase(s)
  BY <1>1, EraseAsyncStore DEF StoreInv
<1> QED
  BY <1>1, <1>2 DEF Store!Erase, Store!Blank, Blank, Uniform, Image

(***************************************************************************)
(* A write that follows the flash rule.                                    *)
(***************************************************************************)
LEMMA WriteViews ==
  ASSUME OneBuffer, StoreInv, NEW s \in Sector, NEW lo \in Page, NEW hi \in Page,
         NEW d \in Data, Writable(s, lo, hi, d), WriteAsync(s, lo, hi, Uniform(d))
  PROVE  /\ StoreInv' /\ UNCHANGED call
         /\ Image' = [Image EXCEPT ![s] = Overlay(@, lo, hi, Uniform(d))]
         /\ Dirty' = Dirty \cup {s}
<1>1. StoreInv'
  BY NextStoreInv DEF Next, ClientCall
<1>2. Store!Write(s, lo, hi, d)
  BY <1>1, WriteMergeStore, WriteAddStore DEF WriteAsync, StoreInv
<1>3. \A c : Store!Written(c, lo, hi, d) = Overlay(c, lo, hi, Uniform(d))
  BY DEF Store!Written, Overlay, Uniform
<1> QED
  BY <1>1, <1>2, <1>3 DEF Store!Write, Image

(***************************************************************************)
(* A flush changes nothing anybody can read, wherever an interrupt         *)
(* suspends it.                                                            *)
(***************************************************************************)
LEMMA FlushViews ==
  ASSUME OneBuffer, StoreInv, FlushOnce
  PROVE  StoreInv' /\ UNCHANGED call /\ Image' = Image /\ Dirty' \subseteq Dirty
<1>1. StoreInv'
  BY NextStoreInv DEF FlushOnce, Next
<1>2. ASSUME NEW m \in Module, FlushSuspended(m) \/ FlushCompleted(m)
      PROVE  UNCHANGED call /\ Image' = Image /\ Dirty' \subseteq Dirty
  BY <1>1, <1>2, CompleteStore, SuspendStore
  DEF FlushSuspended, FlushCompleted, Serve, StoreInv
<1>3. ASSUME NEW m \in Module, FlushModuleDone(m)
      PROVE  UNCHANGED call /\ Image' = Image /\ Dirty' \subseteq Dirty
  BY <1>3, StandStore DEF FlushModuleDone, Serve
<1>4. CASE FlushNothing
  BY <1>1, <1>4, StandStore DEF FlushNothing
<1>5. CASE UNCHANGED vars
  BY <1>1, <1>5, StandStore DEF vars
<1> QED
  BY <1>1, <1>2, <1>3, <1>4, <1>5 DEF FlushOnce, Flush

(***************************************************************************)
(* Neither does the gate.                                                  *)
(***************************************************************************)
LEMMA GateViews ==
  ASSUME OneBuffer, StoreInv, FlushDisable \/ FlushEnable \/ CpReady \/ UNCHANGED vars
  PROVE  StoreInv' /\ UNCHANGED call /\ Image' = Image /\ Dirty' = Dirty
<1>1. StoreInv'
  BY NextStoreInv DEF Next
<1> QED
  BY <1>1, StandStore DEF FlushDisable, FlushEnable, CpReady, UnchangedButGate, vars

(***************************************************************************)
(* A power loss spares the sectors without work.                           *)
(***************************************************************************)
LEMMA RestartViews ==
  ASSUME OneBuffer, StoreInv, PowerLoss
  PROVE  /\ StoreInv' /\ call' = NoCall /\ Dirty' = {}
         /\ \A s \in Sector : View(s)' = flash'[s]
         /\ \A s \in Sector \ Dirty : Image'[s] = Image[s]
<1>1. StoreInv'
  BY NextStoreInv DEF Next
<1>2. Store!PowerLoss
  BY <1>1, PowerLossStep DEF StoreInv
<1>3. \A s \in Sector : View(s)' = flash'[s]
  BY <1>1, PowerLossViews DEF StoreInv, InFlightInv
<1> QED
  BY <1>1, <1>2, <1>3 DEF Store!PowerLoss, Image, PowerLoss

(***************************************************************************)
(* The chip itself is what is read of a sector without work.               *)
(***************************************************************************)
LEMMA CleanIs ==
  ASSUME StoreInv, NEW s \in Sector, OnSector(queue[Owner[s]], s) = {}
  PROVE  View(s) = flash[s] /\ Raw(s) = flash[s]
<1>1. TypeOK /\ LockIsInFlight /\ Owner[s] \in Module
  BY OwnerAssumption DEF StoreInv, InFlightInv
<1>2. queue[Owner[s]] \in Seq(Opera) /\ DOMAIN queue[Owner[s]] = 1..Len(queue[Owner[s]])
  BY <1>1, LenProperties DEF TypeOK
<1>3. Quiet(queue[Owner[s]], s)
  BY <1>2 DEF Quiet, OnSector
<1>4. View(s) = Raw(s)
  BY DEF View
<1> QED
  BY <1>1, <1>2, <1>3, <1>4, ViewIs, SeenIs DEF ViewsAre

(***************************************************************************)
(* A read returns a value for every page.                                  *)
(***************************************************************************)
LEMMA ViewType ==
  ASSUME StoreInv, NEW s \in Sector
  PROVE  View(s) \in Contents
<1> DEFINE q == queue[Owner[s]]
<1>1. TypeOK /\ LockIsInFlight /\ q \in Seq(Opera) /\ flash[s] \in Contents
  BY OwnerAssumption DEF StoreInv, InFlightInv, TypeOK
<1>2. View(s) = Seen(q, flash[s], s)
  BY <1>1, ViewIs DEF ViewsAre
<1> HIDE DEF q
<1>3. CASE Quiet(q, s)
  BY <1>1, <1>2, <1>3, SeenIs
<1>4. ASSUME NEW i \in 1..Len(q), Newest(q, s, i)
      PROVE  View(s) \in Contents
  <2>1. View(s) = Content(q[i]) /\ q[i] \in Opera
    BY <1>1, <1>2, <1>4, SeenIs, ElementOfSeq
  <2> QED
    BY <2>1, UniformType DEF Content, Opera
<1> QED
  BY <1>1, <1>3, <1>4, NewestExists

(***************************************************************************)
(* The service starts as the contract does.                                *)
(***************************************************************************)
LEMMA InitStore ==
  ASSUME Init
  PROVE  StoreInv /\ Store!Init
<1>1. InFlightInv
  BY InitInFlight
<1>2. PoolsFit
  BY EmptyFits DEF Init, PoolsFit
<1>3. \A m \in Module : queue[m] = <<>> /\ Len(queue[m]) = 0 /\ queue[m] \in Seq(Opera)
  BY <1>1, EmptySeq DEF Init, InFlightInv, TypeOK
<1>4. AllPairOK /\ Owned /\ BuffersAgree /\ CallPending
  BY <1>3 DEF Init, AllPairOK, PairOK, Owned, OwnedBy, BuffersAgree, Agrees, CallPending
<1>5. ASSUME NEW s \in Sector
      PROVE  View(s) = Blank /\ Quiet(queue[Owner[s]], s)
  <2>1. Owner[s] \in Module
    BY OwnerAssumption
  <2>2. Quiet(queue[Owner[s]], s)
    BY <1>3, <2>1 DEF Quiet
  <2>3. View(s) = flash[s]
    BY <1>1, <1>3, <2>1, <2>2, ViewIs, SeenIs DEF ViewsAre, InFlightInv
  <2> QED
    BY <2>2, <2>3 DEF Init
<1>6. Dirty = {} /\ call = NoCall
  <2>1. DirtyAre
    BY <1>1, DirtyIs DEF InFlightInv
  <2> QED
    BY <1>5, <2>1 DEF DirtyAre, Init
<1>7. Image \in [Sector -> Contents]
  BY <1>5, UniformType DEF Image
<1>8. Store!Init
  BY <1>6, <1>7 DEF Store!Init, Store!Contents, Contents, Image
<1> QED
  BY <1>1, <1>2, <1>4, <1>8 DEF StoreInv

(***************************************************************************)
(* Every list is about the sectors of its module, every buffer agrees with *)
(* what the chip will hold when its turn comes, and a synchronous call may *)
(* write what it asked for until it does.                                  *)
(***************************************************************************)
THEOREM StoreInvariant == OneBuffer => (Spec => []StoreInv)
<1> SUFFICES ASSUME OneBuffer PROVE Spec => []StoreInv
  OBVIOUS
<1>1. Init => StoreInv
  BY InitStore
<1>2. StoreInv /\ [Next]_vars => StoreInv'
  BY NextStoreInv
<1> QED
  BY <1>1, <1>2, PTL DEF Spec

(***************************************************************************)
(* The service keeps the contract of FlashStore: what norflash_api_read    *)
(* returns is as if every accepted erase and write had been carried out at *)
(* once, however the idle hook, interrupts, synchronous calls, the CP core *)
(* and power losses interleave; a synchronous call is on the chip when it  *)
(* returns; a power loss spares the sectors without pending work.          *)
(***************************************************************************)
THEOREM StoreTheorem == OneBuffer => (Spec => StoreSpec)
<1> SUFFICES ASSUME OneBuffer PROVE Spec => StoreSpec
  OBVIOUS
<1>1. Init => Store!Init
  BY InitStore
<1>2. StoreInv /\ [Next]_vars => [Store!Next]_(Store!vars)
  <2> SUFFICES ASSUME StoreInv, [Next]_vars PROVE [Store!Next]_(Store!vars)
    OBVIOUS
  <2>1. InFlightInv'
    BY NextInFlight DEF StoreInv, StepOK
  <2> QED
    BY <2>1, NextStore DEF StoreStep
<1>3. Spec => []StoreInv
  BY StoreInvariant
<1> QED
  BY <1>1, <1>2, <1>3, PTL DEF Spec, StoreSpec, Store!Spec

(***************************************************************************)
(* "priority read flash buffer" (norflash_api.h): a page that a pending    *)
(* operation will change reads as the newest of these operations leaves    *)
(* it, also below a newer write of other pages of the sector.              *)
(***************************************************************************)
THEOREM BufferFirstTheorem == OneBuffer => (Spec => []BufferFirst)
<1> SUFFICES ASSUME OneBuffer PROVE Spec => []BufferFirst
  OBVIOUS
<1>1. StoreInv => BufferFirst
  <2> SUFFICES ASSUME StoreInv, NEW s \in Sector, NEW p \in Page,
                      {i \in OnSector(queue[Owner[s]], s) :
                         Changes(queue[Owner[s]][i], p)} # {}
               PROVE  LET q == queue[Owner[s]]
                          on == {i \in OnSector(q, s) : Changes(q[i], p)}
                      IN  View(s)[p] = Effect(Blank, q[Max(on)])[p]
    BY DEF BufferFirst
  <2> DEFINE m == Owner[s]
             q == queue[m]
             on == {i \in OnSector(q, s) : Changes(q[i], p)}
  <2>1. /\ m \in Module /\ q \in Seq(Opera) /\ Agrees(q, flash) /\ flash[s] \in Contents
        /\ DOMAIN q = 1..Len(q) /\ Len(q) \in Nat
    BY OwnerAssumption, LenProperties DEF StoreInv, InFlightInv, TypeOK, BuffersAgree
  <2>2. on \subseteq 1..Len(q) /\ on # {}
    BY <2>1 DEF OnSector
  <2>3. PICK x \in on : \A y \in on : y <= x
    BY <2>1, <2>2, LastPosition
  <2>4. Max(on) = x
    <3>1. x \in on /\ \A y \in on : x >= y
      BY <2>3
    <3>2. \A y \in on : y \in Nat
      BY <2>2
    <3> HIDE DEF on
    <3>3. \A z \in on : (\A y \in on : z >= y) => z = x
      BY <3>1, <3>2
    <3> QED
      BY <3>1, <3>3 DEF Max
  <2>5. x \in 1..Len(q) /\ q[x].sector = s /\ Changes(q[x], p)
    BY <2>1 DEF OnSector
  <2> HIDE DEF q
  <2>6. PICK n \in 1..Len(q) : Newest(q, s, n)
    BY <2>1, <2>5, NewestExists DEF Quiet
  <2>7. View(s) = Content(q[n]) /\ x <= n /\ q[n] \in Opera /\ q[x] \in Opera
    <3>1. View(s) = Seen(q, flash[s], s)
      BY ViewIs DEF ViewsAre, StoreInv, InFlightInv, q
    <3>2. x <= n
      BY <2>1, <2>5, <2>6 DEF Newest
    <3> QED
      BY <2>1, <2>5, <2>6, <3>1, <3>2, SeenIs, ElementOfSeq
  <2>8. ASSUME q[x].type = "E"
        PROVE  Effect(Blank, q[x])[p] = Erased
    BY <2>8 DEF Effect, Blank, Uniform
  <2>9. CASE q[n].type = "E"
    <3>1. Changes(q[n], p) /\ q[n].sector = s
      BY <2>6, <2>9 DEF Changes, Newest
    <3>2. n \in on
      BY <2>1, <2>6, <3>1 DEF OnSector, q
    <3>3. x = n
      BY <2>2, <2>3, <2>6, <2>7, <3>2
    <3> QED
      BY <2>4, <2>7, <2>8, <2>9, <3>3 DEF Content, Blank, Uniform, q
  <2>10. CASE q[n].type = "W" /\ x = n
    <3>1. Effect(Blank, q[x])[p] = Programmed(Erased, q[x].buff[p])
      BY <2>5, <2>10 DEF Effect, ProgramPages, Changes, Blank, Uniform
    <3>2. Programmed(Erased, q[x].buff[p]) = q[x].buff[p]
      BY DEF Programmed
    <3> QED
      BY <2>4, <2>7, <2>10, <3>1, <3>2 DEF Content, q
  <2>11. CASE q[n].type = "W" /\ x # n
    <3>1. q[x].type = "E"
      BY <2>1, <2>5, <2>6, <2>7, <2>11, OneWrite
      DEF StoreInv, InFlightInv, OneBuffer, q, Opera
    <3>2. p \notin q[n].lo..q[n].hi
      <4>1. n \notin on
        BY <2>2, <2>3, <2>6, <2>7, <2>11
      <4> QED
        BY <2>1, <2>6, <4>1 DEF OnSector, Newest, Changes, q
    <3>3. Behind(q, n)
      BY <2>1, <2>5, <2>6, <2>7, <2>11 DEF Behind, Newest
    <3>4. Carries(Blank, q[n])
      BY <2>1, <2>6, <3>3 DEF Agrees, Under
    <3>5. Blank[p] = q[n].buff[p]
      BY <2>7, <2>11, <3>2, <3>4, WriteCarries, UniformType
    <3> QED
      BY <2>4, <2>7, <2>8, <2>11, <3>1, <3>5 DEF Content, Blank, Uniform, q
  <2>12. q[n].type \in {"E", "W"}
    BY <2>7 DEF Opera
  <2> QED
    BY <2>9, <2>10, <2>11, <2>12
<1>2. Spec => []StoreInv
  BY StoreInvariant
<1> QED
  BY <1>1, <1>2, PTL

=============================================================================
