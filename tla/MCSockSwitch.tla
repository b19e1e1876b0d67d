---------------------------- MODULE MCSockSwitch ----------------------------
(***************************************************************************)
(* An instance of SockSwitch for TLC: two users, two local addresses and   *)
(* two sources, whose buckets are not their own.                           *)
(***************************************************************************)
EXTENDS SockSwitch, TLC

CONSTANTS ds1, ds2, d1, d2, m1, m2

Users == {ds1, ds2}
Targets2 == {d1, d2}
Members == {m1, m2}

\* With HashSize = 3 the two local addresses share every bucket, and source 3
\* has that of source 0.
LocalAddrs == {4, 7}
SrcAddrs == {1, 3}
Joined == {7, d1, d2}

Symm == Permutations(Users) \cup Permutations(Targets2) \cup Permutations(Members)
=============================================================================
