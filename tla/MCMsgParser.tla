---------------------------- MODULE MCMsgParser ----------------------------
(***************************************************************************)
(* Instance of MsgParser for TLC.  The buffer holds two frames and a bit;  *)
(* the addresses of one request are plain, those of the other hold a       *)
(* complete frame of 12 bytes with a right crc and the start of another.   *)
(***************************************************************************)
EXTENDS MsgParser, Crc8, TLC

AddType == <<0, 0, 19, 136>>

MCTypes == {AddType}

Inner == Header(0, AddType)
Lookalike == <<36, 64, 0, 8>> \o Inner \o <<36, 64>> \o [i \in 1 .. 10 |-> 36]
MCBodies == {[i \in 1 .. 24 |-> 7], Lookalike}

MCRecvSizes == {4, 36, 45}
MCCutSizes == {2, 3, 4, 12}
=============================================================================
