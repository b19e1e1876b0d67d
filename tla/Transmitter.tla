----------------------------- MODULE Transmitter -----------------------------
(***************************************************************************)
(* The media transmitters of the message centre's device module (class     *)
(* CResouceItem and its CMediaTransmitter): an array of nodes whose `next' *)
(* pointers carry the chain of unused nodes and, for every item, a list of *)
(* nodes.  get_one_node and add_one_node are the only operations on them.  *)
(*                                                                         *)
(* The users of the module hold the transmitter ids it grants: `held' is   *)
(* what the GB server has been granted and has not released yet.  A user   *)
(* that releases an id once only is the environment of this module; the    *)
(* composition with the GB server is in RmtCall.                           *)
(***************************************************************************)
EXTENDS Integers, Sequences, FiniteSets

CONSTANTS
    NumTrans,   \* valid_tramsmitter_num
    NumChan,    \* max_item_num: the device table, and the VTDU's channels
    Addr,       \* RTP addresses of remote receivers
    Null        \* a NULL pointer, address 0:0, an uninitialised channel

ASSUME NumTransAssumption == NumTrans \in Nat \ {0}
ASSUME NumChanAssumption == NumChan \in Nat \ {0}
ASSUME AddrAssumption == Null \notin Addr /\ Null \notin Nat

Trans == 0 .. NumTrans - 1
Chan == 0 .. NumChan - 1
Ptr == Trans \cup {Null}

VARIABLES
    unused,     \* transmitter_table_unused
    nxt,        \* the next pointer of every transmitter
    head,       \* per item: CResouceItem::transmitter
    ch,         \* vtdu_ch_id
    to,         \* to_ip, to_port
    held        \* granted to the GB server and not given back

tvars == <<unused, nxt, head, ch, to>>
vars == <<unused, nxt, head, ch, to, held>>

-----------------------------------------------------------------------------
\* CMediaTransmitter::init chains the whole table.
Init ==
    /\ unused = 0
    /\ nxt = [t \in Trans |-> IF t < NumTrans - 1 THEN t + 1 ELSE Null]
    /\ head = [c \in Chan |-> Null]
    /\ ch = [t \in Trans |-> Null]
    /\ to = [t \in Trans |-> Null]
    /\ held = {}

-----------------------------------------------------------------------------
\* Mutants of Take: channels counted from 1; the node stays on the chain.
TakeFromOne(t, c, a) ==
    /\ t = unused
    /\ t # Null
    /\ unused' = nxt[t]
    /\ nxt' = [nxt EXCEPT ![t] = head[c]]
    /\ head' = [head EXCEPT ![c] = t]
    /\ ch' = [ch EXCEPT ![t] = c + 1]
    /\ to' = [to EXCEPT ![t] = a]

TakeNotPopped(t, c, a) ==
    /\ t = unused
    /\ t # Null
    /\ head' = [head EXCEPT ![c] = t]
    /\ ch' = [ch EXCEPT ![t] = c]
    /\ to' = [to EXCEPT ![t] = a]
    /\ UNCHANGED <<unused, nxt>>

\* rmt_invite_media for the item at index c of the table: get_one_node takes
\* t off the unused chain, add_one_node puts it on the item's list.
Take(t, c, a) ==
    /\ t = unused
    /\ t # Null
    /\ unused' = nxt[t]
    /\ nxt' = [nxt EXCEPT ![t] = head[c]]
    /\ head' = [head EXCEPT ![c] = t]
    /\ ch' = [ch EXCEPT ![t] = c]
    /\ to' = [to EXCEPT ![t] = a]

\* The device is not in the table, or no transmitter is left.
CannotTake(c) == c \notin Chan \/ unused = Null

\* Mutant of GiveBack: the node becomes the head and keeps its next pointer.
GiveBackKeepsNext(t) ==
    /\ unused' = t
    /\ UNCHANGED <<nxt, head, ch, to>>

\* rmt_bye_media: add_one_node puts the node on the unused chain; nobody takes
\* it off the item's list.
GiveBack(t) ==
    /\ nxt' = [nxt EXCEPT ![t] = unused]
    /\ unused' = t
    /\ UNCHANGED <<head, ch, to>>

-----------------------------------------------------------------------------
RmtInviteMedia(c, a) ==
    /\ Take(unused, c, a)
    /\ held' = held \cup {unused}

RmtInviteRefused(c) ==
    /\ CannotTake(c)
    /\ UNCHANGED vars

RmtByeMedia(t) ==
    /\ t \in held
    /\ GiveBack(t)
    /\ held' = held \ {t}

Next ==
    \/ \E c \in Chan, a \in Addr : RmtInviteMedia(c, a)
    \/ \E c \in 0 .. NumChan : RmtInviteRefused(c)
    \/ \E t \in Trans : RmtByeMedia(t)

Spec == Init /\ [][Next]_vars

-----------------------------------------------------------------------------
(* Properties *)

\* Every variable keeps its type.
TypeOK ==
    /\ unused \in Ptr
    /\ nxt \in [Trans -> Ptr]
    /\ head \in [Chan -> Ptr]
    /\ ch \in [Trans -> Chan \cup {Null}]
    /\ to \in [Trans -> Addr \cup {Null}]
    /\ held \subseteq Trans

\* The nodes reached from pointer p along at most n next pointers.
ReachIn[n \in 0 .. NumTrans, p \in Ptr] ==
    IF n = 0 \/ p = Null THEN {} ELSE {p} \cup ReachIn[n - 1, nxt[p]]
Reach(p) == ReachIn[NumTrans, p]

\* s is the unused chain of n nodes: it begins at transmitter_table_unused,
\* follows the next pointers to NULL and meets no node twice.
UnusedChain(n, s) ==
    /\ unused = IF n = 0 THEN Null ELSE s[1]
    /\ \A i \in 1 .. n : nxt[s[i]] = IF i = n THEN Null ELSE s[i + 1]
    /\ \A i, j \in 1 .. n : s[i] = s[j] => i = j

\* The unused chain holds exactly the transmitters nobody has been granted and
\* ends: whatever is taken and given back, get_one_node neither grants a node
\* twice nor loses one.
UnusedIsRest ==
    \E n \in 0 .. NumTrans : \E s \in [1 .. n -> Trans] :
        UnusedChain(n, s) /\ {s[i] : i \in 1 .. n} = Trans \ held

\* While it is held a transmitter keeps its channel and destination, so that
\* the switch a BYE deletes is the one the ACK added.
SwitchKept ==
    [][\A t \in held \cap held' : ch'[t] = ch[t] /\ to'[t] = to[t]]_vars
=============================================================================
