------------------------------ MODULE MCRmtCall ------------------------------
(***************************************************************************)
(* Instances of RmtCall for TLC.                                           *)
(***************************************************************************)
EXTENDS RmtCall, TLC

CONSTANTS l1, l2, l3, l4

\* Two platforms call for the same item.
TwoLegs == {l1, l2}
SameItem == [l \in TwoLegs |-> 0]

\* Item 1 is known to the GB server only, item 2 to nobody (NumItem = 2 and
\* NumChan = 1).
FourLegs == {l1, l2, l3, l4}
MixedItems == (l1 :> 0 @@ l2 :> 0 @@ l3 :> 1 @@ l4 :> 2)

Symm == Permutations(TwoLegs)
=============================================================================
