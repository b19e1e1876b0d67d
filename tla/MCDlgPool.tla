------------------------------ MODULE MCDlgPool ------------------------------
(***************************************************************************)
(* Instance of DlgPool for TLC.  Two dialogs and three distinguishable     *)
(* calls, so that the pool runs dry and dialogs are reused; two items, so  *)
(* that a dialog could end up on the wrong list; two transmitter ids.      *)
(***************************************************************************)
EXTENDS DlgPool, TLC

CONSTANTS i1, i2, c1, c2, a, b

MCItem == {i1, i2}
MCCallId == {c1, c2}
MCTag == {a, b}
MCTransId == {0, 1}

Symm == Permutations({i1, i2}) \cup Permutations({c1, c2}) \cup Permutations({a, b})
=============================================================================
