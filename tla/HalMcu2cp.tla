------------------------------ MODULE HalMcu2cp ------------------------------
(***************************************************************************)
(* platform/hal/hal_mcu2cp.c: one direction of one channel between the two *)
(* cores, as operators on its state.  The sender keeps a list of messages  *)
(* the receiver works on and a list of those that wait behind it; a        *)
(* message is a pointer to the sender's data, which is read when the       *)
(* message is received.  Each side raises an interrupt of the other, to    *)
(* announce the list and to say that it is done.                           *)
(***************************************************************************)
EXTENDS Naturals, Sequences

MAX_SEND_RECORD_COUNT == 3

\* free: send_msgs not in_use; sending: send_msg_list_p; pending:
\* send_pending_list_p; ind: SEND_IND at the receiver; done: RECV_DONE at the
\* sender.  chan_busy, which keeps the system from sleep, is left out.
Untouched ==
  [open |-> FALSE, free |-> MAX_SEND_RECORD_COUNT, sending |-> <<>>, pending |-> <<>>,
   ind |-> FALSE, done |-> FALSE]

(***************************************************************************)
(* hal_mcu2cp_open; a second open is refused.  hal_mcu2cp_close drops the  *)
(* lists as they are; of the rest nothing is read before the next open has *)
(* set it.  An interrupt left over from before is taken before the first   *)
(* message of the new channel is listed, finds no list and does nothing.   *)
(***************************************************************************)
Opened(c) == IF c.open THEN c ELSE [Untouched EXCEPT !.open = TRUE]

Closed == Untouched

(***************************************************************************)
(* hal_mcu2cp_send.  With no record free it fails, which its caller in     *)
(* cp_accel.c does not look at.                                            *)
(***************************************************************************)
Sent(c, cell) ==
  IF ~c.open \/ c.free = 0 THEN c
  ELSE LET d == [c EXCEPT !.free = @ - 1]
       IN  IF c.sending = <<>> THEN [d EXCEPT !.sending = <<cell>>, !.ind = TRUE]
           ELSE [d EXCEPT !.pending = Append(@, cell)]

\* hal_mcu2cp_rx_irq at the receiver, its handlers aside.
Received(c) == [c EXCEPT !.ind = FALSE, !.done = TRUE]

\* hal_mcu2cp_tx_irq at the sender, after its handlers.
Acknowledged(c) ==
  [c EXCEPT !.done = FALSE,
            !.free = @ + Len(c.sending),
            !.sending = c.pending,
            !.pending = <<>>,
            !.ind = (c.pending # <<>>)]

=============================================================================
