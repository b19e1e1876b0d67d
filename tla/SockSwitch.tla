----------------------------- MODULE SockSwitch -----------------------------
(***************************************************************************)
(* The media switch: its thread forwards every packet that comes in at a   *)
(* local address to the members that were added for it.  The callers of    *)
(* ds... (the VTDU among them) send one command at a time over a socket    *)
(* and wait for the acknowledgement with their serial number.              *)
(*                                                                         *)
(*   caller --(token)--> SetCmd --commands--> ProssInterMsg                *)
(*                              <---- acks ---   Add, Remove, RemoveAll    *)
(*                                                                         *)
(* Receive groups and members come from two pools; a member is on the list *)
(* of its group and in a bucket of the hash that TransData searches.  An   *)
(* address is a number, IP and port in one, and 0 stands for 0.0.0.0:0.    *)
(***************************************************************************)
EXTENDS Integers, Sequences, FiniteSets

CONSTANTS
    DsId,       \* the users of the switch
    Local,      \* addresses packets come in at
    Src,        \* addresses packets come from
    Dst,        \* addresses packets go to
    Multicast,  \* those of Local and Dst that must be joined
    Mmb,        \* the pool of members
    MaxRcvGrp,  \* g_dwMaxRcvGrp
    MaxSnd,     \* g_dwMaxSndMmbPerRcvGrp
    HashSize,   \* g_dwSndHashSize
    Null,
    MaxCmd,     \* bound: commands
    MaxSlow     \* bound: times somebody is too slow

AnyAddr == -1       \* 255.255.255.255:65535

ASSUME AddressAssumption ==
    /\ Local \subseteq Nat \ {0} /\ Src \subseteq Nat \ {0}
    /\ Dst \cap {0, AnyAddr} = {}
    /\ Null \notin DsId \cup Dst \cup Mmb
ASSUME PoolAssumption ==
    /\ IsFiniteSet(Mmb)
    /\ MaxRcvGrp \in Nat \ {0} /\ MaxSnd \in Nat \ {0} /\ HashSize \in Nat \ {0}
ASSUME BoundAssumption == MaxCmd \in Nat /\ MaxSlow \in Nat

Grp == 1 .. MaxRcvGrp
NoGrp == 0

VARIABLES
    sw,         \* the tables of the switch, see Tables
    sn,         \* g_dwCmdSn
    call,       \* the command whose caller holds the token, or Null
    toSwitch,   \* commands in the socket
    acks,       \* acknowledgements in the socket
    slow,       \* how often somebody was too slow
    asked,      \* rules that a caller ever asked for
    promised,   \* rules the last word on which was DSOK for adding
    swept,      \* those of them that have since been in the way of a removal, see Hits
    ended       \* rules the last word on which was DSOK for removing

vars == <<sw, sn, call, toSwitch, acks, slow, asked, promised, swept, ended>>

-----------------------------------------------------------------------------
(* The pools, the lists and the hash *)

\* sock: the socket is open, which it may be although the slot is not in use.
\* filter: a function of the user judges its packets (pfFilter).
BlankGrp == [local |-> 0, sock |-> FALSE, dump |-> {}, filter |-> FALSE]
BlankMmb == [ds |-> Null, src |-> 0, dst |-> Null, rcv |-> NoGrp]

\* The key of a member: its local and its source address.
Hash(l, s) == (l + s) % HashSize

Using(w) == {g \in Grp : w.grp[g].local # 0}

\* The slot that serves a local address: the first one in use that does.
GetRcvGrp(w, l) ==
    LET at == {g \in Using(w) : w.grp[g].local = l}
    IN  IF at = {} THEN NoGrp ELSE CHOOSE g \in at : \A h \in at : g <= h

FirstUnused(w) == CHOOSE g \in Grp \ Using(w) : \A h \in Grp \ Using(w) : g <= h

\* A slot can be had for a new group: the first unused one is tried, and
\* CDSSocket::Create refuses if its socket is open.
Vacant(w) == Using(w) # Grp /\ ~w.grp[FirstUnused(w)].sock

\* The tables when local address l has its group (AllocGrp), if it can.
Opened(w, l) ==
    IF GetRcvGrp(w, l) # NoGrp THEN {w}
    ELSE IF ~Vacant(w) THEN {}
    ELSE {[w EXCEPT !.grp[FirstUnused(w)] =
                [local |-> l, sock |-> TRUE, dump |-> {}, filter |-> FALSE]]}

\* The tables when it has none: no slot, no socket, or the group of a multicast
\* address cannot be joined, and then the socket stays open.
Unopened(w, l) ==
    IF Vacant(w) /\ l \in Multicast
    THEN {w, [w EXCEPT !.grp[FirstUnused(w)].sock = TRUE]}
    ELSE {w}

\* Mutant of Idle: a dump does not keep a group.
IdleWithDump(w, g) == w.list[g] = {}

Idle(w, g) == w.list[g] = {} /\ w.grp[g].dump = {}

\* FreeGrp of those groups that nobody needs any more.
FreedIfIdle(w, gs) ==
    [w EXCEPT !.grp = [g \in Grp |-> IF g \in gs /\ Idle(w, g) THEN BlankGrp
                                                               ELSE w.grp[g]]]

\* Mutant of NewMmb: the addresses are swapped.
NewMmbSwapped(ds, s, d, g) == [ds |-> ds, src |-> d, dst |-> s, rcv |-> g]

NewMmb(ds, s, d, g) == [ds |-> ds, src |-> s, dst |-> d, rcv |-> g]

\* A member of the pool enters the list of group g and the hash.
Entered(w, g, m, ds, s, d) ==
    [grp    |-> w.grp,
     list   |-> [w.list EXCEPT ![g] = @ \cup {m}],
     bucket |-> [w.bucket EXCEPT ![Hash(w.grp[g].local, s)] = @ \cup {m}],
     mmb    |-> [w.mmb EXCEPT ![m] = NewMmb(ds, s, d, g)],
     free   |-> w.free \ {m}]

\* Mutant of Bucket: the key of the packets from anywhere.
BucketOfAll(w, g, m) == Hash(w.grp[g].local, 0)

\* The bucket where a member of group g is looked for when it is removed.
Bucket(w, g, m) == Hash(w.grp[g].local, w.mmb[m].src)

\* Members ms leave their lists, the hash and go back to the pool.
Without(w, ms) ==
    [grp    |-> w.grp,
     list   |-> [g \in Grp |-> w.list[g] \ ms],
     bucket |-> [h \in 0 .. HashSize - 1 |->
                    w.bucket[h] \ {m \in ms : h = Bucket(w, w.mmb[m].rcv, m)}],
     mmb    |-> [m \in Mmb |-> IF m \in ms THEN BlankMmb ELSE w.mmb[m]],
     free   |-> w.free \cup ms]

-----------------------------------------------------------------------------
(* The operations of CSockSwitch: the tables after them and what they return *)

Result(w, ret) == [w |-> w, ret |-> ret]

\* No group; or a group that is there joins its own multicast address once
\* more, through another interface, and fails.
NotReached(w, l) ==
    LET after == IF GetRcvGrp(w, l) = NoGrp THEN Unopened(w, l)
                 ELSE IF l \in Multicast THEN {w} ELSE {}
    IN  {Result(o, "ERROR") : o \in after}

SameSrc(w, g, s) == {m \in w.list[g] : w.mmb[m].src = s}

\* GetSndMmb: a member of any user.
Exists(w, g, s, d) == \E m \in SameSrc(w, g, s) : w.mmb[m].dst = d

\* A member of the pool, if the pool has one and the destination can be joined.
AddTo(w, g, ds, s, d) ==
    IF Exists(w, g, s, d) THEN {Result(w, "OK")}
    ELSE IF Cardinality(SameSrc(w, g, s)) >= MaxSnd THEN {Result(w, "ERROR")}
    ELSE {Result(Entered(w, g, m, ds, s, d), "OK") : m \in w.free} \cup
         (IF w.free = {} \/ d \in Multicast THEN {Result(FreedIfIdle(w, {g}), "ERROR")} ELSE {})

Add(w, ds, l, s, d) ==
    NotReached(w, l) \cup UNION {AddTo(o, GetRcvGrp(o, l), ds, s, d) : o \in Opened(w, l)}

AddDump(w, ds, l) ==
    NotReached(w, l) \cup
    {Result([o EXCEPT !.grp[GetRcvGrp(o, l)].dump = @ \cup {ds}], "OK") : o \in Opened(w, l)}

\* Mutant of Doomed: members of any user.
DoomedOfAll(w, g, ds, s, d) ==
    {m \in w.list[g] : IF s = 0 THEN w.mmb[m].dst = d
                       ELSE w.mmb[m].src = s /\ d \in {AnyAddr, w.mmb[m].dst}}

\* The members of user ds that Remove takes from group g: without a source
\* address those of every source.
Doomed(w, g, ds, s, d) ==
    {m \in w.list[g] :
        /\ w.mmb[m].ds = ds
        /\ \/ s # 0 /\ w.mmb[m].src = s /\ d \in {AnyAddr, w.mmb[m].dst}
           \/ s = 0 /\ w.mmb[m].dst = d}

Remove(w, ds, l, s, d) ==
    LET g == GetRcvGrp(w, l)
    IN  IF g = NoGrp THEN Result(w, "ERROR")
        ELSE Result(FreedIfIdle(Without(w, Doomed(w, g, ds, s, d)), {g}), "OK")

\* dsRemoveDump is Remove with no address but the local one.
RemoveDump(w, ds, l) ==
    LET g == GetRcvGrp(w, l)
    IN  IF g = NoGrp THEN Result(w, "ERROR")
        ELSE Result(FreedIfIdle([w EXCEPT !.grp[g].dump = @ \ {ds}], {g}), "OK")

\* Remove for every group in use.
RemoveAllMmb(w, ds, s, d) ==
    FreedIfIdle(Without(w, UNION {Doomed(w, g, ds, s, d) : g \in Using(w)}), Using(w))

Undumped(w, ds) ==
    [w EXCEPT !.grp = [g \in Grp |-> [w.grp[g] EXCEPT !.dump = @ \ {ds}]]]

RemoveAll(w, ds, removeDump) ==
    LET mine == {m \in UNION {w.list[g] : g \in Using(w)} : w.mmb[m].ds = ds}
        left == Without(w, mine)
    IN  FreedIfIdle(IF removeDump THEN Undumped(left, ds) ELSE left, Using(w))

-----------------------------------------------------------------------------
(* The thread of the switch *)

Init ==
    /\ sw = [grp    |-> [g \in Grp |-> BlankGrp],
             list   |-> [g \in Grp |-> {}],
             bucket |-> [h \in 0 .. HashSize - 1 |-> {}],
             mmb    |-> [m \in Mmb |-> BlankMmb],
             free   |-> Mmb]
    /\ sn = 0
    /\ call = Null
    /\ toSwitch = <<>>
    /\ acks = <<>>
    /\ slow = 0
    /\ asked = {}
    /\ promised = {}
    /\ swept = {}
    /\ ended = {}

\* ADD_SPY: the dump, and the filter if there is a group at all.
AddSpy(w, ds, l) ==
    {LET g == GetRcvGrp(r.w, l)
     IN  IF g = NoGrp THEN Result(r.w, "ERROR")
         ELSE Result([r.w EXCEPT !.grp[g].filter = TRUE], "OK") : r \in AddDump(w, ds, l)}

RemoveSpy(w, ds, l) ==
    LET g == GetRcvGrp(w, l)
    IN  IF g = NoGrp THEN Result(w, "ERROR")
        ELSE RemoveDump([w EXCEPT !.grp[g].filter = FALSE], ds, l)

\* The outcomes of command c (the switch of ProssInterMsg).
Outcomes(c) ==
    CASE c.op = "ADD"              -> Add(RemoveAllMmb(sw, c.ds, 0, c.dst), c.ds, c.local, 0, c.dst)
      [] c.op = "ADD_M2ONE"        -> Add(sw, c.ds, c.local, 0, c.dst)
      [] c.op = "ADD_SRC_M2ONE"    -> Add(sw, c.ds, c.local, c.src, c.dst)
      [] c.op = "RM_ALLM2ONE"      -> {Result(RemoveAllMmb(sw, c.ds, 0, c.dst), "OK")}
      [] c.op = "RM_M2ONE"         -> {Remove(sw, c.ds, c.local, 0, c.dst)}
      [] c.op = "RM_SRC_M2ONE"     -> {Remove(sw, c.ds, c.local, c.src, c.dst)}
      [] c.op = "RM_SRC_ALLM2ONE"  -> {Result(RemoveAllMmb(sw, c.ds, c.src, AnyAddr), "OK")}
      [] c.op = "ADD_DUMP"         -> AddDump(sw, c.ds, c.local)
      [] c.op = "RM_DUMP"          -> {RemoveDump(sw, c.ds, c.local)}
      [] c.op = "ADD_SPY"          -> AddSpy(sw, c.ds, c.local)
      [] c.op = "RM_SPY"           -> {RemoveSpy(sw, c.ds, c.local)}
      [] c.op = "RM_ALL"           -> {Result(RemoveAll(sw, c.ds, TRUE), "OK")}
      [] c.op = "RM_ALL_EXCEPT_DUMP" -> {Result(RemoveAll(sw, c.ds, FALSE), "OK")}

\* ProssInterMsg: the command is carried out and acknowledged.
ProssInterMsg ==
    /\ toSwitch # <<>>
    /\ toSwitch' = Tail(toSwitch)
    /\ \E r \in Outcomes(Head(toSwitch).cmd) :
          /\ sw' = r.w
          /\ acks' = Append(acks, [sn |-> Head(toSwitch).sn, ret |-> r.ret])
    /\ UNCHANGED <<sn, call, slow, asked, promised, swept, ended>>

Slow == slow < MaxSlow /\ slow' = slow + 1

\* GetCmdData: a command that waited longer than g_nDsApiTimeOut is dropped
\* and not acknowledged.
TooOld ==
    /\ toSwitch # <<>>
    /\ Slow
    /\ toSwitch' = Tail(toSwitch)
    /\ UNCHANGED <<sw, sn, call, acks, asked, promised, swept, ended>>

-----------------------------------------------------------------------------
(* The callers *)

Rule == [ds : DsId, local : Local, src : Src \cup {0}, dst : Dst]

SameRule(r, q) == r.local = q.local /\ r.src = q.src /\ r.dst = q.dst

\* The commands of the ds... functions.  dsRemove sends what stands here for
\* dsRemoveAllManyToOne, and dsAddSrcSwitch without a source is dsAddManyToOne.
Cmd ==
    [op : {"ADD", "ADD_M2ONE", "RM_M2ONE"}, ds : DsId, local : Local, dst : Dst]
    \cup [op : {"ADD_SRC_M2ONE", "RM_SRC_M2ONE"}, ds : DsId, local : Local, src : Src, dst : Dst]
    \cup [op : {"RM_ALLM2ONE"}, ds : DsId, dst : Dst]
    \cup [op : {"RM_SRC_ALLM2ONE"}, ds : DsId, local : Local, src : Src]
    \cup [op : {"ADD_DUMP", "RM_DUMP", "ADD_SPY", "RM_SPY"}, ds : DsId, local : Local]
    \cup [op : {"RM_ALL", "RM_ALL_EXCEPT_DUMP"}, ds : DsId]

\* What a caller takes DSOK for: this rule holds now, those do not.
Adds(c) ==
    IF c.op \in {"ADD", "ADD_M2ONE"}
    THEN {[ds |-> c.ds, local |-> c.local, src |-> 0, dst |-> c.dst]}
    ELSE IF c.op = "ADD_SRC_M2ONE"
    THEN {[ds |-> c.ds, local |-> c.local, src |-> c.src, dst |-> c.dst]}
    ELSE {}

\* The rules a caller asks to be taken away, before one is added: dsAdd, too,
\* removes every rule for its destination first, the one it is about to add as
\* well, and if it fails to add that one the others are gone all the same.
Removes(c) ==
    {r \in Rule :
        /\ r.ds = c.ds
        /\ \/ c.op \in {"ADD", "RM_ALLM2ONE"} /\ r.dst = c.dst
           \/ c.op = "RM_M2ONE" /\ r.local = c.local /\ r.dst = c.dst
           \/ c.op = "RM_SRC_M2ONE" /\ r.local = c.local /\ r.src = c.src /\ r.dst = c.dst
           \/ c.op = "RM_SRC_ALLM2ONE" /\ r.local = c.local /\ r.src = c.src
           \/ c.op \in {"RM_ALL", "RM_ALL_EXCEPT_DUMP"}}

Ends(c) == Removes(c) \ Adds(c)

\* ... and those that ProssInterMsg takes besides: dsRemoveAllSrcSwitch names
\* a local address, but RemoveAllMmb is called without it.
Sweeps(c) ==
    {r \in Rule : /\ c.op = "RM_SRC_ALLM2ONE"
                  /\ r.ds = c.ds /\ r.src = c.src /\ r.local # c.local}

\* The promised rules that c may cost: it takes a rule with the same addresses,
\* of the same user by a sweep, or of another user who asked for it as well.
Hits(c) ==
    {r \in promised : \E q \in asked \cap (Removes(c) \cup Sweeps(c)) : SameRule(q, r)}

\* A ds... function takes the token; SetCmd sends the command.
Begin(c) ==
    /\ call = Null
    /\ sn < MaxCmd
    /\ sn' = sn + 1
    /\ call' = c
    /\ toSwitch' = Append(toSwitch, [sn |-> sn + 1, cmd |-> c])
    /\ asked' = asked \cup Adds(c)
    /\ promised' = promised \ Removes(c)
    /\ swept' = (swept \cup Hits(c)) \ Removes(c)
    /\ ended' = ended \ Adds(c)
    /\ UNCHANGED <<sw, acks, slow>>

\* Mutant of Mine: any acknowledgement ends the call.
MineAny(ack) == ack.sn \in 1 .. sn

Mine(ack) == ack.sn = sn

\* SetCmd: the acknowledgement of this command ends the call, with what
\* ProssInterMsg returned; one of an earlier command is skipped.
Acked ==
    /\ call # Null
    /\ acks # <<>>
    /\ acks' = Tail(acks)
    /\ IF ~Mine(Head(acks)) THEN UNCHANGED <<call, promised, swept, ended>>
       ELSE /\ call' = Null
            /\ IF Head(acks).ret = "OK"
               THEN /\ promised' = promised \cup Adds(call)
                    /\ swept' = swept \ Adds(call)
                    /\ ended' = ended \cup (Ends(call) \cap asked)
               ELSE UNCHANGED <<promised, swept, ended>>
    /\ UNCHANGED <<sw, sn, toSwitch, slow, asked>>

\* ... or none came in time, and the caller is told DSERROR.
GiveUp ==
    /\ call # Null
    /\ acks = <<>>
    /\ Slow
    /\ call' = Null
    /\ UNCHANGED <<sw, sn, toSwitch, acks, asked, promised, swept, ended>>

-----------------------------------------------------------------------------
Next ==
    \/ \E c \in Cmd : Begin(c)
    \/ Acked
    \/ GiveUp
    \/ ProssInterMsg
    \/ TooOld

Spec == Init /\ [][Next]_vars

-----------------------------------------------------------------------------
(* Properties *)

Slot == [local : Local \cup {0}, sock : BOOLEAN, dump : SUBSET DsId, filter : BOOLEAN]

Tables == [
    grp    : [Grp -> Slot],
    list   : [Grp -> SUBSET Mmb],
    bucket : [0 .. HashSize - 1 -> SUBSET Mmb],
    mmb    : [Mmb -> [ds : DsId \cup {Null}, src : Src \cup {0},
                      dst : Dst \cup {Null}, rcv : Grp \cup {NoGrp}]],
    free   : SUBSET Mmb]

\* Every variable keeps its type.
TypeOK ==
    /\ sw \in Tables
    /\ sn \in 0 .. MaxCmd /\ slow \in 0 .. MaxSlow
    /\ call \in Cmd \cup {Null}
    /\ toSwitch \in Seq([sn : 1 .. MaxCmd, cmd : Cmd])
    /\ acks \in Seq([sn : 1 .. MaxCmd, ret : {"OK", "ERROR"}])
    /\ asked \subseteq Rule /\ promised \subseteq Rule
    /\ swept \subseteq promised /\ ended \subseteq Rule

\* A member is in the pool, or on the list of one group and in the one bucket
\* of the hash where TransData and Remove look for it.
MembersPlaced ==
    /\ \A m \in Mmb : (m \in sw.free) <=> (\A g \in Grp : m \notin sw.list[g])
    /\ \A m \in Mmb, g \in Grp : m \in sw.list[g] =>
            /\ sw.mmb[m].rcv = g
            /\ \A h \in 0 .. HashSize - 1 :
                  (m \in sw.bucket[h]) <=> (h = Hash(sw.grp[g].local, sw.mmb[m].src))
    /\ \A m \in sw.free, h \in 0 .. HashSize - 1 : m \notin sw.bucket[h]

\* A slot is in use as long as somebody needs it, and no longer: a member or a
\* dump; no two serve one address; what is not in use filters nothing.
GroupsNeeded ==
    /\ \A g \in Grp : g \in Using(sw) <=> ~Idle(sw, g)
    /\ \A g, h \in Using(sw) : sw.grp[g].local = sw.grp[h].local => g = h
    /\ \A g \in Grp \ Using(sw) : ~sw.grp[g].filter
    /\ \A g \in Using(sw) : sw.grp[g].sock

-----------------------------------------------------------------------------
(* What becomes of a packet (TransData) *)

\* Mutant of ExactFor: members of other groups in the same bucket.
ExactForAnyGroup(g, s) ==
    {m \in sw.bucket[Hash(sw.grp[g].local, s)] : sw.mmb[m].src = s}

\* The members for packets from s, in the bucket of that source ...
ExactFor(g, s) ==
    {m \in sw.bucket[Hash(sw.grp[g].local, s)] : sw.mmb[m].src = s /\ sw.mmb[m].rcv = g}

\* ... and those for packets from anywhere: whatever is in the bucket of
\* source 0, its own source is not compared.
ForAll(g) == {m \in sw.bucket[Hash(sw.grp[g].local, 0)] : sw.mmb[m].rcv = g}

\* No more than fit into m_aptMmbSameSrc and m_aptMmbDefaultSrc.
Cut(ms) ==
    IF Cardinality(ms) <= MaxSnd THEN {ms}
    ELSE {t \in SUBSET ms : Cardinality(t) = MaxSnd}

\* The sets of members that the search may find for a packet from s.
Targets(g, s) == Cut(IF ExactFor(g, s) # {} THEN ExactFor(g, s) ELSE ForAll(g))

\* What a filter returns of a packet, FuncForSpy always the second.
DSERROR == 0
DSOK == 1
Verdict == {DSERROR, DSOK}

\* TransData drops what the filter returns anything but zero for.
Dropped(g, verdict) == sw.grp[g].filter /\ verdict # 0

\* The sets of members that a packet from s to group g may be sent to.
SentTo(g, s, verdict) == IF Dropped(g, verdict) THEN {{}} ELSE Targets(g, s)

\* Members with a source address that are in the bucket of those without.
Strays(g) ==
    {m \in sw.list[g] : /\ sw.mmb[m].src # 0
                        /\ Hash(sw.grp[g].local, sw.mmb[m].src) = Hash(sw.grp[g].local, 0)}

\* A packet that a filter returns anything but zero for is not forwarded.  Another
\* goes to every member on the list of its group that was added for its source,
\* cut off nowhere and mistaken for no other in the shared buckets.  If there is
\* none it goes to those added without a source and to the strays, whatever
\* their source, and together they may be more than TransData serves.  That is
\* what the code does: by the header DSOK, which is not zero, means valid
\* (dataswitch.h:120), and a rule is for packets of its own source (:313).
PacketsFindMembers ==
    \A g \in Using(sw), s \in Src, verdict \in Verdict :
        SentTo(g, s, verdict) =
            IF sw.grp[g].filter /\ verdict # 0 THEN {{}}
            ELSE IF SameSrc(sw, g, s) # {} THEN {SameSrc(sw, g, s)}
            ELSE Cut(SameSrc(sw, g, 0) \cup Strays(g))

\* The rule a member stands for; the rules of the tables, whoever added them.
RuleOf(w, m) ==
    [ds |-> w.mmb[m].ds, local |-> w.grp[w.mmb[m].rcv].local,
     src |-> w.mmb[m].src, dst |-> w.mmb[m].dst]

RulesOf(w) == {RuleOf(w, m) : m \in UNION {w.list[g] : g \in Grp}}

Rules == RulesOf(sw)

Holds(r) == \E q \in Rules : SameRule(q, r)

\* However late acknowledgements and commands are, the last rule that a caller
\* was told is removed does not hold, and the last one that he was told is
\* added holds, until a call hits it that the code lets take it although its
\* owner did not ask for that (Hits), and again when he has added it anew.  The
\* header knows neither kind of such calls: dsRemoveAllSrcSwitch is about one
\* receive address (dataswitch.h:325), and DSOK means success to each user who
\* adds the rule (:269), though Add records only the first.  A call of dsAdd
\* says nothing of what it removes until it is told DSOK.
ToldIsDone ==
    /\ \A r \in promised : Holds(r) \/ r \in swept
    /\ ended \cap Rules = {}

\* The dumps of the tables.
DumpsOf(w) ==
    {p \in DsId \X Local : \E g \in Using(w) : w.grp[g].local = p[2] /\ p[1] \in w.grp[g].dump}

F == INSTANCE Forwarding WITH rules <- Rules, dumps <- DumpsOf(sw)

\* With its pools, lists and hash the switch implements a set of rules.
ImplementsForwarding == F!Spec
=============================================================================
