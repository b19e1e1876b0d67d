----------------------------- MODULE MCDlgLists -----------------------------
(***************************************************************************)
(* Instance of DlgLists for TLC: three dialogs, so that a BYE unlinks the  *)
(* first, the middle and the last dialog of a list; two items.  Of one     *)
(* call's requests some have a From tag and some have none, and a dialog   *)
(* that cannot be compared is passed over, so that any of three can be the *)
(* one a walk ends at.                                                     *)
(***************************************************************************)
EXTENDS DlgLists, TLC

CONSTANTS i1, i2, c1, a

MCItem == {i1, i2}

Symm == Permutations(MCItem)
=============================================================================
