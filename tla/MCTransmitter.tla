---------------------------- MODULE MCTransmitter ----------------------------
(***************************************************************************)
(* Instance of Transmitter for TLC: three transmitters for two items,      *)
(* so that an item can hold several and the table runs dry; two receivers. *)
(***************************************************************************)
EXTENDS Transmitter, TLC

CONSTANTS a1, a2

MCAddr == {a1, a2}
Symm == Permutations(MCAddr)
=============================================================================
