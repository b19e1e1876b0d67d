----------------------------- MODULE Catalogue ------------------------------
(***************************************************************************)
(* How the server gets to know the items of its devices and tells them to  *)
(* the platforms.                                                          *)
(*                                                                         *)
(*   REGISTER      deal_register, deal_rmt_register, add_auth_reg          *)
(*   every 500 ms  CGbRegSession::schedule: a catalogue query per device   *)
(*   the answer    add_catalog_query_result: item by item into the         *)
(*                 catalogue of the GB server and to the message centre    *)
(*   the item      CResouceItem::add: into the device table                *)
(*   every second  CResouceItem::invite_media: INVITE to the new items     *)
(*   a platform's  rmt_query_catalog, CResouceItem::query_cata_log: the    *)
(*   query         device table in messages of two items                   *)
(*                                                                         *)
(* The GB server's thread GBlink, the thread MsgServerTask and the thread  *)
(* DevShedule take turns: each operation on an item is one step here.      *)
(* GBlink does nothing else while it goes through an answer (Idle).        *)
(* MsgServerTask does not take the lock of DevShedule: McAddItemRaced is   *)
(* what else can come of that for one item of the device table.            *)
(***************************************************************************)
EXTENDS Integers, Sequences, FiniteSets, FiniteSetsExt, Functions

CONSTANTS
    Dev,        \* devices
    ItemsOf,    \* [Dev -> Seq(id)]: the items of each device
    MaxRegDev,  \* max_reg_dev_num
    MaxRes,     \* max_item_num of the GB server's catalogue
    MaxItem,    \* max_item_num of the device table
    MaxReg,     \* bound: REGISTER requests
    MaxQuery,   \* bound: catalogue queries of the platforms
    MaxFault,   \* bound: faults in one behaviour
    Faults      \* subset of {"lose", "dup", "sendto", "switch", "race"}

ASSUME SizesAssumption == {MaxRes, MaxItem, MaxRegDev} \subseteq Nat
ASSUME BoundsAssumption == {MaxReg, MaxQuery, MaxFault} \subseteq Nat
ASSUME DevAssumption ==
    IsFiniteSet(Dev) /\ \A d \in Dev : ItemsOf[d] \in Seq(Range(ItemsOf[d]))

Id == UNION {Range(ItemsOf[d]) : d \in Dev}
Sn == 1 .. MaxQuery

VARIABLES
    regs,       \* dev_reg_queue: get_catalog of every registered device
    count,      \* cur_reg_dev_num
    toDev,      \* catalogue queries on their way to the devices
    fromDev,    \* answers of the devices on their way
    status,     \* the real status of the items, on or off
    cat,        \* catalog_item_queue of the GB server, the used entries
    rest,       \* the items left of the answer that GBlink goes through
    toMc, toGb, \* datagrams between GB server and message centre
    table,      \* catalog_item_table, the valid entries
    answered,   \* history: the table when query sn was answered
    told,       \* told[sn]: the lists of items the platform was sent
    invited,    \* how often each item was sent an INVITE
    raced,      \* history: items invited while they were added
    requests,   \* REGISTER requests so far
    faults      \* faults so far

gb == <<regs, count, cat, rest>>
vars == <<regs, count, toDev, fromDev, status, cat, rest, toMc, toGb, table,
          answered, told, invited, raced, requests, faults>>

Init ==
    /\ regs = [d \in {} |-> FALSE] /\ count = 0
    /\ toDev = {} /\ fromDev = {}
    /\ status \in [Id -> BOOLEAN]
    /\ "switch" \notin Faults => status = [i \in Id |-> TRUE]
    /\ cat = <<>> /\ rest = <<>> /\ toMc = <<>> /\ toGb = <<>> /\ table = <<>>
    /\ answered = <<>>
    /\ told = [sn \in Sn |-> <<>>]
    /\ invited = [i \in Id |-> 0] /\ raced = {}
    /\ requests = 0 /\ faults = 0

Fault(f) == f \in Faults /\ faults < MaxFault /\ faults' = faults + 1
NoFault == UNCHANGED faults

Idle == rest = <<>>

IdsIn(s) == {s[k].id : k \in 1 .. Len(s)}

-----------------------------------------------------------------------------
(* Registration.                                                           *)

\* No credentials (401), wrong ones (406), or no Expires (485).
RegisterRefused ==
    /\ Idle
    /\ requests < MaxReg /\ requests' = requests + 1
    /\ NoFault
    /\ UNCHANGED <<gb, toDev, fromDev, status, toMc, toGb, table, answered, told, invited, raced>>

Registered(d) == d \in DOMAIN regs

\* CGbRegSession::add_auth_reg and _add, which leaves cur_reg_dev_num alone.
Register(d) ==
    /\ Idle
    /\ requests < MaxReg /\ requests' = requests + 1
    /\ regs' = IF Registered(d) \/ count >= MaxRegDev THEN regs
               ELSE [e \in DOMAIN regs \cup {d} |-> IF e = d THEN FALSE ELSE regs[e]]
    /\ NoFault
    /\ UNCHANGED <<count, toDev, fromDev, status, cat, rest, toMc, toGb, table, answered, told,
                   invited, raced>>

\* The devices that CGbRegSession::schedule asks for their catalogue.
Queried(failed) == {d \in DOMAIN regs : ~regs[d]} \ failed

\* CGbRegSession::schedule; get_catalog is set as soon as the query is sent.
GbSchedule ==
    \E failed \in SUBSET {d \in DOMAIN regs : ~regs[d]} :
        /\ Idle
        /\ \E d \in DOMAIN regs : ~regs[d]
        /\ IF failed = {} THEN NoFault ELSE Fault("sendto")
        /\ toDev' = toDev \cup Queried(failed)
        /\ regs' = [d \in DOMAIN regs |-> regs[d] \/ d \in Queried(failed)]
        /\ UNCHANGED <<count, fromDev, status, cat, rest, toMc, toGb, table, answered, told,
                       invited, raced, requests>>

-----------------------------------------------------------------------------
(* The devices and the network (external).                                 *)

DevAnswer(d) ==
    /\ fromDev' = fromDev \cup
         {[k \in 1 .. Len(ItemsOf[d]) |-> [id |-> ItemsOf[d][k], on |-> status[ItemsOf[d][k]]]]}
    /\ \/ toDev' = toDev \ {d} /\ NoFault
       \/ toDev' = toDev /\ Fault("dup")
    /\ UNCHANGED <<gb, status, toMc, toGb, table, answered, told, invited, raced, requests>>

Lose ==
    /\ Fault("lose")
    /\ \/ \E d \in toDev : toDev' = toDev \ {d} /\ UNCHANGED fromDev
       \/ \E a \in fromDev : fromDev' = fromDev \ {a} /\ UNCHANGED toDev
    /\ UNCHANGED <<gb, status, toMc, toGb, table, answered, told, invited, raced, requests>>

Switch(i) ==
    /\ Fault("switch")
    /\ status' = [status EXCEPT ![i] = ~@]
    /\ UNCHANGED <<gb, toDev, fromDev, toMc, toGb, table, answered, told, invited, raced, requests>>

-----------------------------------------------------------------------------
(* The answer in the GB server.                                            *)

\* Mutant of AddResItem: an item that is there already is added again.
AddResItemAgain(c, item) == IF Len(c) < MaxRes THEN Append(c, item) ELSE c

\* CGbCatalog::add_res_item with update and _add.
AddResItem(c, item) ==
    IF item.id \in IdsIn(c)
    THEN [k \in 1 .. Len(c) |-> IF c[k].id = item.id THEN item ELSE c[k]]
    ELSE Append(c, item)

\* CGbServer::add_catalog_query_result gets the answer of a device.
GbCatalogAnswer(a) ==
    /\ Idle
    /\ rest' = a
    /\ \/ fromDev' = fromDev \ {a} /\ NoFault
       \/ fromDev' = fromDev /\ Fault("dup")
    /\ UNCHANGED <<regs, count, toDev, status, cat, toMc, toGb, table, answered, told,
                   invited, raced, requests>>

\* add_res_item fails: the table is full and the item is not in it.
NoRoom(c, item) == item.id \notin IdsIn(c) /\ Len(c) = MaxRes

\* Its loop: one item into the catalogue and to the message centre.  A failed
\* app_cb does not end the loop, a failed add_res_item does.
GbAddItem ==
    /\ rest # <<>>
    /\ LET item == Head(rest)
       IN  \/ /\ NoRoom(cat, item)
              /\ rest' = <<>>
              /\ NoFault
              /\ UNCHANGED <<cat, toMc>>
           \/ /\ ~NoRoom(cat, item)
              /\ cat' = AddResItem(cat, item)
              /\ rest' = Tail(rest)
              /\ \/ toMc' = Append(toMc, [type |-> "item", item |-> item]) /\ NoFault
                 \/ toMc' = toMc /\ Fault("sendto")
    /\ UNCHANGED <<regs, count, toDev, fromDev, status, toGb, table, answered, told,
                   invited, raced, requests>>

-----------------------------------------------------------------------------
(* A platform asks the GB server for the catalogue; SN 1, 2, ... are its   *)
(* queries in the order in which the message centre gets them.             *)

Queries == {k \in 1 .. Len(toMc) : toMc[k].type = "query"}
Asked == Len(answered) + Cardinality(Queries)

PlatformAsks ==
    /\ Idle
    /\ Asked < MaxQuery
    /\ toMc' = Append(toMc, [type |-> "query"])
    /\ NoFault
    /\ UNCHANGED <<gb, toDev, fromDev, status, toGb, table, answered, told, invited, raced, requests>>

GbInvite ==
    /\ Idle
    /\ toGb # <<>> /\ Head(toGb).type = "invite"
    /\ toGb' = Tail(toGb)
    /\ invited' = [invited EXCEPT ![Head(toGb).id] = @ + 1]
    /\ NoFault
    /\ UNCHANGED <<gb, toDev, fromDev, status, toMc, table, answered, told, raced, requests>>

\* CGbExosip::reponse_catalog
GbCatalogReply ==
    /\ Idle
    /\ toGb # <<>> /\ Head(toGb).type = "catalog"
    /\ toGb' = Tail(toGb)
    /\ told' = [told EXCEPT ![Head(toGb).sn] = Append(@, Head(toGb).list)]
    /\ NoFault
    /\ UNCHANGED <<gb, toDev, fromDev, status, toMc, table, answered, invited, raced, requests>>

-----------------------------------------------------------------------------
(* The message centre.                                                     *)

NewEntry(item) == [id |-> item.id, on |-> item.on, play |-> FALSE]

\* Mutants of AddItem: the limit is one too low, or is not looked at.
AddItemShort(t, item) ==
    IF item.id \in IdsIn(t) \/ Len(t) + 1 = MaxItem THEN t ELSE Append(t, NewEntry(item))
AddItemAlways(t, item) == IF item.id \in IdsIn(t) THEN t ELSE Append(t, NewEntry(item))

\* CResouceItem::add: known items stay as they are, a full table ignores new
\* ones.
AddItem(t, item) ==
    IF item.id \in IdsIn(t) \/ Len(t) = MaxItem THEN t
    ELSE Append(t, NewEntry(item))

McAddItem ==
    /\ toMc # <<>> /\ Head(toMc).type = "item"
    /\ toMc' = Tail(toMc)
    /\ table' = AddItem(table, Head(toMc).item)
    /\ NoFault
    /\ UNCHANGED <<gb, toDev, fromDev, status, toGb, answered, told, invited, raced, requests>>

\* CResouceItem::add stores valid before play: in between invite_media, in the
\* other thread, sends the INVITE and sets play, and add clears it again.
McAddItemRaced ==
    /\ toMc # <<>> /\ Head(toMc).type = "item"
    /\ LET item == Head(toMc).item
       IN  /\ item.on /\ AddItem(table, item) # table
           /\ table' = AddItem(table, item)
           /\ toGb' = Append(toGb, [type |-> "invite", id |-> item.id])
           /\ raced' = raced \cup {item.id}
    /\ toMc' = Tail(toMc)
    /\ Fault("race")
    /\ UNCHANGED <<gb, toDev, fromDev, status, answered, told, invited, requests>>

\* Mutant of Lists: the second half of send_buf is not filled.
ListsHalf(t) ==
    IF t = <<>> THEN <<(<<>>)>>
    ELSE [k \in 1 .. Len(t) \div 2 |-> <<t[2 * k - 1], t[2 * k - 1]>>]

\* CResouceItem::query_cata_log: an empty message for an empty table, else the
\* items two by two; after the loop (0 == (valid_num & 0x1)) sends the first
\* half of send_buf again when the number of items is even.
Lists(t) ==
    LET n == Len(t)
        pairs == [k \in 1 .. n \div 2 |-> <<t[2 * k - 1], t[2 * k]>>]
    IN  IF n = 0 THEN <<(<<>>)>>
        ELSE IF n % 2 = 0 THEN Append(pairs, <<t[n - 1]>>) ELSE pairs

\* The status told is play, not on.
Item2Told(e) == [id |-> e.id, on |-> e.play]

CatalogMsgs(sn, t) ==
    LET lists == Lists(t)
    IN  [k \in 1 .. Len(lists) |->
            [type |-> "catalog", sn |-> sn,
             list |-> [j \in 1 .. Len(lists[k]) |-> Item2Told(lists[k][j])]]]

McQueryCatalog ==
    LET msgs == CatalogMsgs(Len(answered) + 1, table)
    IN  /\ toMc # <<>> /\ Head(toMc).type = "query"
        /\ toMc' = Tail(toMc)
        /\ answered' = Append(answered, table)
        /\ \/ toGb' = toGb \o msgs /\ NoFault
           \/ /\ \E k \in 1 .. Len(msgs) : toGb' = toGb \o SubSeq(msgs, 1, k - 1)
              /\ Fault("sendto")
        /\ UNCHANGED <<gb, toDev, fromDev, status, table, told, invited, raced, requests>>

\* Mutant of Played: play is not set.
PlayedNot(k) == table

Played(k) == [table EXCEPT ![k].play = TRUE]

\* CResouceItem::invite_media for one item; play is set whether or not the
\* message could be sent.
DevInvite(k) ==
    /\ table[k].on /\ ~table[k].play
    /\ table' = Played(k)
    /\ \/ toGb' = Append(toGb, [type |-> "invite", id |-> table[k].id]) /\ NoFault
       \/ toGb' = toGb /\ Fault("sendto")
    /\ UNCHANGED <<gb, toDev, fromDev, status, toMc, answered, told, invited, raced, requests>>

-----------------------------------------------------------------------------
GbReceive ==
    \/ \E a \in fromDev : GbCatalogAnswer(a)
    \/ GbAddItem \/ GbInvite \/ GbCatalogReply
MsgServerTask == McAddItem \/ McAddItemRaced \/ McQueryCatalog
DevShedule == \E k \in 1 .. Len(table) : DevInvite(k)
Device == \E d \in toDev : DevAnswer(d)

Next ==
    \/ RegisterRefused
    \/ \E d \in Dev : Register(d)
    \/ GbSchedule \/ GbReceive
    \/ Device \/ Lose
    \/ \E i \in Id : Switch(i)
    \/ PlatformAsks
    \/ MsgServerTask
    \/ DevShedule

Spec == Init /\ [][Next]_vars

-----------------------------------------------------------------------------
(* Properties.                                                             *)

Item == [id : Id, on : BOOLEAN]
Entry == [id : Id, on : BOOLEAN, play : BOOLEAN]
ToMcMsg == [type : {"item"}, item : Item] \cup [type : {"query"}]
ToGbMsg == [type : {"invite"}, id : Id] \cup [type : {"catalog"}, sn : Sn, list : Seq(Item)]

\* Every variable keeps its type.
TypeOK ==
    /\ DOMAIN regs \subseteq Dev /\ \A d \in DOMAIN regs : regs[d] \in BOOLEAN
    /\ count \in 0 .. MaxRegDev
    /\ toDev \subseteq Dev /\ fromDev \subseteq Seq(Item)
    /\ status \in [Id -> BOOLEAN]
    /\ cat \in Seq(Item) /\ Len(cat) <= MaxRes /\ rest \in Seq(Item)
    /\ toMc \in Seq(ToMcMsg) /\ toGb \in Seq(ToGbMsg)
    /\ table \in Seq(Entry) /\ Len(table) <= MaxItem
    /\ answered \in Seq(Seq(Entry)) /\ Len(answered) <= MaxQuery
    /\ told \in [Sn -> Seq(Seq(Item))]
    /\ invited \in [Id -> Nat] /\ raced \subseteq Id
    /\ requests \in 0 .. MaxReg /\ faults \in 0 .. MaxFault

\* However often devices register, answers are repeated and tables are full, an
\* item has one entry in the GB server's catalogue and one in the device table
\* (dialogs and transmitters hang on the entry), and the device table has no
\* item that the catalogue lacks (add_res_item, CResouceItem::add).
EntriesAgree ==
    /\ Cardinality(IdsIn(cat)) = Len(cat)
    /\ Cardinality(IdsIn(table)) = Len(table)
    /\ IdsIn(table) \subseteq IdsIn(cat)
    /\ \A i \in IdsIn(cat) : \E d \in DOMAIN regs : i \in Range(ItemsOf[d])

\* An item gets one INVITE at most, from one entry with play set, however often
\* it is added; two if the first one raced with the add (CResouceItem::add,
\* invite_media).
OneInvite ==
    \A i \in Id :
        /\ invited[i] <= IF i \in raced THEN 2 ELSE 1
        /\ invited[i] = 1 /\ i \notin raced =>
             \E k \in 1 .. Len(table) : table[k].id = i /\ table[k].play

\* The ids in the lists that query sn was told.
ToldIds(sn) == UNION {IdsIn(told[sn][k]) : k \in 1 .. Len(told[sn])}

Complete(sn) ==
    /\ sn <= Len(answered) /\ faults = 0
    /\ \A k \in 1 .. Len(toGb) : toGb[k].type = "catalog" => toGb[k].sn # sn

\* A platform is told every item of the table as it was at that time, except
\* the last one of an odd number, and no other (query_cata_log, which says
\* "set all dev", item.cpp:670, and tests the number the wrong way round).
ToldAllButLast ==
    \A sn \in Sn : Complete(sn) =>
        LET t == answered[sn]
        IN  ToldIds(sn) = IdsIn(SubSeq(t, 1, 2 * (Len(t) \div 2)))

\* Nothing is on its way and no thread has anything left to do.
Quiet ==
    /\ toDev = {} /\ fromDev = {} /\ rest = <<>> /\ toMc = <<>> /\ toGb = <<>>
    /\ \A d \in DOMAIN regs : regs[d]
    /\ \A k \in 1 .. Len(table) : table[k].on => table[k].play

\* Without faults, once all is quiet, the device table holds as many items of
\* the registered devices as both tables have room for, and those that are on
\* were invited (schedule to add_catalog_query_result to add to invite_media).
ItemsKnown ==
    Quiet /\ faults = 0 =>
        LET all == UNION {Range(ItemsOf[d]) : d \in DOMAIN regs}
        IN  /\ Len(table) = Min({Cardinality(all), MaxRes, MaxItem})
            /\ \A i \in IdsIn(table) : status[i] => invited[i] = 1
=============================================================================
