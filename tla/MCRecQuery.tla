----------------------------- MODULE MCRecQuery -----------------------------
(* Instances of RecQuery for TLC.                                          *)
EXTENDS RecQuery

\* A device with three records, and one with two of the same time.
MCRecords ==
    [i \in Item |->
        IF i = "cam1"
        THEN <<[path |-> 1, span |-> 1], [path |-> 2, span |-> 2], [path |-> 3, span |-> 3]>>
        ELSE <<[path |-> 4, span |-> 4], [path |-> 5, span |-> 4]>>]
=============================================================================
