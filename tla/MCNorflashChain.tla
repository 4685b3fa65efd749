---------------------------- MODULE MCNorflashChain ----------------------------
EXTENDS NorflashChain

CONSTANTS s1, s2, s3

MCSectors3 == {s1, s2, s3}

\* Module 0 owns s1 and s3, module 1 owns s2.
MCOwner3 == (s1 :> 0) @@ (s2 :> 1) @@ (s3 :> 0)

=============================================================================
