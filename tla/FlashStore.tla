----------------------------- MODULE FlashStore -----------------------------
(***************************************************************************)
(* The contract of the flash service, as its callers rely on it: a store   *)
(* of sectors that each caller reads as if every accepted operation had    *)
(* been carried out at once, although writes and erases are buffered and   *)
(* reach the chip later.  A power loss may only hurt the sectors that      *)
(* still had buffered work, or that a synchronous call was working on.     *)
(*                                                                         *)
(*   image[s]  what a read of sector s returns, one value per program page *)
(*   dirty     sectors with work the chip has not carried out yet          *)
(*   call      the synchronous call in progress, or NoCall                 *)
(***************************************************************************)
EXTENDS Naturals

CONSTANTS Sector,    \* the erasable sectors of the chip
          Page,      \* the program pages of a sector
          Value,     \* what a page can hold
          Erased,    \* the value of an erased page
          Call,      \* the synchronous calls
          NoCall     \* no synchronous call in progress

VARIABLES image, dirty, call

vars == <<image, dirty, call>>

Contents == [Page -> Value]

Blank == [p \in Page |-> Erased]

Init ==
  /\ image \in [Sector -> Contents]
  /\ dirty = {}
  /\ call = NoCall

(***************************************************************************)
(* The contents of a sector after the pages lo..hi were written with d.    *)
(***************************************************************************)
Written(c, lo, hi, d) == [p \in Page |-> IF p \in lo..hi THEN d ELSE c[p]]

(***************************************************************************)
(* An accepted buffered write or erase is visible at once.                 *)
(***************************************************************************)
Write(s, lo, hi, d) ==
  /\ call = NoCall
  /\ image' = [image EXCEPT ![s] = Written(@, lo, hi, d)]
  /\ dirty' = dirty \cup {s}
  /\ UNCHANGED call

Erase(s) ==
  /\ call = NoCall
  /\ image' = [image EXCEPT ![s] = Blank]
  /\ dirty' = dirty \cup {s}
  /\ UNCHANGED call

(***************************************************************************)
(* The chip catches up: nobody who reads the store can tell.               *)
(***************************************************************************)
Settle ==
  /\ dirty' \subseteq dirty
  /\ UNCHANGED <<image, call>>

(***************************************************************************)
(* A synchronous call: when it returns its effect is visible and on the    *)
(* chip, so that its sector is no longer dirty.                            *)
(***************************************************************************)
SyncBegin ==
  /\ call = NoCall
  /\ call' \in Call
  /\ dirty' = dirty \cup {call'.sector}
  /\ UNCHANGED image

SyncReturn ==
  /\ call # NoCall
  /\ image' = [image EXCEPT ![call.sector] =
                 IF call.type = "E" THEN Blank
                 ELSE Written(@, call.lo, call.hi, call.data)]
  /\ dirty' = dirty \ {call.sector}
  /\ call' = NoCall

(***************************************************************************)
(* A power loss: what was not dirty is as it was.                          *)
(***************************************************************************)
PowerLoss ==
  /\ image' \in [Sector -> Contents]
  /\ \A s \in Sector \ dirty : image'[s] = image[s]
  /\ dirty' = {}
  /\ call' = NoCall

Next ==
  \/ \E s \in Sector, lo, hi \in Page, d \in Value : Write(s, lo, hi, d)
  \/ \E s \in Sector : Erase(s)
  \/ Settle
  \/ SyncBegin
  \/ SyncReturn
  \/ PowerLoss

Spec == Init /\ [][Next]_vars

=============================================================================
