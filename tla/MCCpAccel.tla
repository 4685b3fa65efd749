------------------------------ MODULE MCCpAccel ------------------------------
(***************************************************************************)
(* Two tasks, one thread that sends to both and one that opens and closes  *)
(* them.                                                                   *)
(***************************************************************************)
EXTENDS CpAccel

MCEvent == {1, 17}

=============================================================================
