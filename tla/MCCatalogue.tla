---------------------------- MODULE MCCatalogue -----------------------------
(* Instances of Catalogue for TLC.                                         *)
EXTENDS Catalogue

\* Two devices, one with two items and one with a single item.
Items21 == [d \in Dev |-> IF d = "dev1" THEN <<"a", "b">> ELSE <<"c">>]

\* Two devices with two items each.
Items22 == [d \in Dev |-> IF d = "dev1" THEN <<"a", "b">> ELSE <<"c", "d">>]
=============================================================================
