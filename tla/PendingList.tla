---------------------------- MODULE PendingList ----------------------------
(***************************************************************************)
(* The list of pending erases and writes of one flash module, as a         *)
(* sequence with the oldest operation first, and how the two functions     *)
(* that add to it search it.  An element is a record with at least the     *)
(* fields type ("E" erase, "W" write), sector and lock (the chip works on  *)
(* it).                                                                    *)
(***************************************************************************)
EXTENDS Integers, SequencesExt

OnSector(q, s) == {i \in DOMAIN q : q[i].sector = s}

\* Slips: the lock is not looked at; only erases are dropped.
StaleLockedToo(q, s) == OnSector(q, s)
StaleErases(q, s) == {i \in OnSector(q, s) : ~q[i].lock /\ q[i].type = "E"}

(***************************************************************************)
(* _e_opera_add removes the operations a new erase makes useless.  There   *)
(* are at most two of them: an erase and the write that followed it.       *)
(* Without(q, I) is the set of the one sequence that is left.              *)
(***************************************************************************)
Stale(q, s) == {i \in OnSector(q, s) : ~q[i].lock}

Without(q, I) ==
  {r \in {q} : I = {}}
    \cup {RemoveAt(q, i) : i \in {j \in I : I = {j}}}
    \cup {RemoveAt(RemoveAt(q, n[1]), n[2]) :
            n \in {n \in I \X I : n[1] > n[2] /\ I = {n[1], n[2]}}}

(***************************************************************************)
(* After it freed a node the loop keeps that node as pre_node.  When the   *)
(* next node is stale too it is unlinked from the freed node, not from the *)
(* list, unless the first of them was the list header.                     *)
(***************************************************************************)
LeavesFreedNode(q, s) ==
  \E i \in Stale(q, s) : i - 1 \in Stale(q, s) /\ i < Len(q)

\* A slip: any pending erase absorbs it.
ErasingSoon(q, s) == \E i \in OnSector(q, s) : q[i].type = "E"

(***************************************************************************)
(* An erase the chip is working on absorbs a new one.                      *)
(***************************************************************************)
ErasingNow(q, s) == \E i \in OnSector(q, s) : q[i].lock /\ q[i].type = "E"

(***************************************************************************)
(* _w_opera_add walks from the newest node: it stops at the first write of *)
(* the sector that is not locked, to merge into it, or at the first erase, *)
(* whose sector will be blank.                                             *)
(***************************************************************************)
PassedBy(o) == o.type = "W" /\ o.lock

FoundFirst(q, s, i) ==
  /\ i \in OnSector(q, s)
  /\ ~PassedBy(q[i])
  /\ \A j \in OnSector(q, s) : j > i => PassedBy(q[j])

MergesInto(q, s, i) == FoundFirst(q, s, i) /\ q[i].type = "W"

\* A slip: an erase in progress is taken for one that is done.
BehindWaitingErase(q, s) ==
  \E i \in DOMAIN q : FoundFirst(q, s, i) /\ q[i].type = "E" /\ ~q[i].lock

BehindErase(q, s) == \E i \in DOMAIN q : FoundFirst(q, s, i) /\ q[i].type = "E"

=============================================================================
