---------------------------- MODULE MCNvExtension ----------------------------
EXTENDS NvExtension

CONSTANTS main, bak, other, t1, t2

MCSectors == {main, bak}
MCOwner == (main :> 0) @@ (bak :> 0)

MCSectorsShared == {main, bak, other}
MCOwnerShared == (main :> 0) @@ (bak :> 0) @@ (other :> 1)

=============================================================================
