---------------------------- MODULE MCOtaUpgrade ----------------------------
(***************************************************************************)
(* An image of two segments, the second of one page.                       *)
(***************************************************************************)
EXTENDS OtaUpgrade

CONSTANTS i0, i1

MCImage == {i0, i1}

MCFaults == {<<1, 0>>, <<0, 3>>}

=============================================================================
