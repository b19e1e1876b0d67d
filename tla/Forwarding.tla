----------------------------- MODULE Forwarding -----------------------------
(***************************************************************************)
(* What the media switch promises its users: a set of rules, each of one   *)
(* user, and the addresses that are kept open as dumps.  A command adds at *)
(* most one rule and removes rules of its own user only.                   *)
(***************************************************************************)
CONSTANTS DsId, Local, Src, Dst

VARIABLES
    rules,      \* packets for local from src (0: from anywhere) go to dst
    dumps       \* <<user, local>>: packets for local may come and are dropped

vars == <<rules, dumps>>

Rule == [ds : DsId, local : Local, src : Src \cup {0}, dst : Dst]

Init == rules = {} /\ dumps = {}

\* A rule that another user has added is not added again.
Added(R, r) ==
    IF \E q \in R : q.local = r.local /\ q.src = r.src /\ q.dst = r.dst
    THEN R ELSE R \cup {r}

Add(r) ==
    /\ rules' = Added(rules, r)
    /\ UNCHANGED dumps

\* One destination moves to another local address; if that is refused, it is
\* served no more.
Move(ds, l, d) ==
    LET others == {r \in rules : r.ds # ds \/ r.dst # d}
    IN  /\ rules' \in {others, Added(others, [ds |-> ds, local |-> l, src |-> 0, dst |-> d])}
        /\ UNCHANGED dumps

Drop(R) ==
    /\ rules' = rules \ R
    /\ UNCHANGED dumps

Of(ds) == {r \in rules : r.ds = ds}

RemoveTo(ds, d) == Drop({r \in Of(ds) : r.dst = d})
RemoveAtTo(ds, l, d) == Drop({r \in Of(ds) : r.local = l /\ r.dst = d})
RemoveFrom(ds, s) == Drop({r \in Of(ds) : r.src = s})
RemoveRule(r) == Drop({r})

RemoveAll(ds) ==
    /\ rules' = rules \ Of(ds)
    /\ \/ dumps' = {p \in dumps : p[1] # ds}
       \/ UNCHANGED dumps

AddDump(ds, l) == dumps' = dumps \cup {<<ds, l>>} /\ UNCHANGED rules
RemoveDump(ds, l) == dumps' = dumps \ {<<ds, l>>} /\ UNCHANGED rules

Next ==
    \/ \E r \in Rule : Add(r) \/ RemoveRule(r)
    \/ \E ds \in DsId, l \in Local :
          \/ AddDump(ds, l) \/ RemoveDump(ds, l)
          \/ \E d \in Dst : Move(ds, l, d) \/ RemoveAtTo(ds, l, d)
    \/ \E ds \in DsId :
          \/ RemoveAll(ds)
          \/ \E d \in Dst : RemoveTo(ds, d)
          \/ \E s \in Src : RemoveFrom(ds, s)

Spec == Init /\ [][Next]_vars
=============================================================================
