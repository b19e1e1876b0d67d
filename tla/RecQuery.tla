------------------------------ MODULE RecQuery ------------------------------
(***************************************************************************)
(* Record queries.  A platform asks for the records of a catalogue item;   *)
(* the message centre (thread MsgServerTask) keeps the query in its async  *)
(* queue, asks the device through the GB server, collects the device's     *)
(* answers in a list of record items taken from a pool, and answers the    *)
(* platform when the list is complete.                                     *)
(*                                                                         *)
(*   CGbServer::rmt_query_record_info          platform -> message centre  *)
(*   CResouceItem::query_record_info           message centre -> device    *)
(*   CGbServer::add_recordinfo_query_result    device -> message centre    *)
(*   CResouceItem::add_rec_info                message centre -> platform  *)
(*                                                                         *)
(* The GB server and the message centre are one thread each; between them  *)
(* are unix datagram sockets (in order, not lost once sent), between the   *)
(* GB server and the devices is UDP.  A record is its file path and its    *)
(* time range.                                                             *)
(***************************************************************************)
EXTENDS Integers, Sequences, FiniteSets, SequencesExt

CONSTANTS
    Item,       \* catalogue items in the device table
    Other,      \* an id that is not in the table
    Records,    \* [Item -> Seq([path, span])]: what each device has recorded
    Null,       \* no thread is inside a loop
    NumRec,     \* item_num, the record items of the pool
    MaxMsg,     \* the constant 1024 of query_record_info
    Limit,      \* the constant 0x7FFFFFFF of get_async_msg_ctx
    DevBatch,   \* records a device puts in one datagram
    GbBatch,    \* the constant 8 of add_recordinfo_query_result
    ResBatch,   \* the constant 4 of deal_rec_list
    MaxQuery,   \* bound: queries of the platforms
    MaxFault,   \* bound: faults in one behaviour
    Faults      \* the kinds: subset of {"lose", "dup", "sendto", "grow", "otherId"}

ASSUME NumRecAssumption == NumRec \in Nat \ {0}
ASSUME BatchAssumption == /\ GbBatch \in Nat \ {0, 1}
                          /\ {DevBatch, ResBatch} \subseteq Nat \ {0}
ASSUME BoundAssumption == MaxQuery \in Nat /\ MaxFault \in Nat

AllRecords == UNION {Range(Records[i]) : i \in Item}

\* A device lists different recordings.
ASSUME RecordsAssumption ==
    /\ \A i \in Item : /\ Records[i] \in Seq(Range(Records[i]))
                       /\ \A a, b \in 1 .. Len(Records[i]) : Records[i][a] = Records[i][b] => a = b
    /\ Null \notin AllRecords /\ Other \notin Item

Sn == 1 .. MaxQuery     \* SN of the platforms' queries, all different
Width == 2 * Limit + 2  \* 2^32, the width of async_msg_ctx
Ctx == 0 .. Width - 1
RecId == 1 .. NumRec

\* More queries than the queue takes do not use up all values of ctx.
ASSUME LimitAssumption == Limit \in Nat \ {0, 1} /\ MaxMsg \in Nat /\ MaxMsg < Width

\* Null is not an answer of a device.
ASSUME NullAssumption ==
    Null \notin [ctx : Ctx, dev : Item \cup {Other}, sum : Nat, list : Seq(AllRecords)]

VARIABLES
    asked,      \* asked[sn]: the item a platform has asked for, in order of sn
    held,       \* held[i]: how many of Records[i] the device has by now
    queue,      \* async_msg_queue, head first
    size,       \* async_msg_size
    ctx,        \* async_msg_ctx
    rec,        \* the array of record items, by content
    free,       \* free_list and the chain behind it
    loop,       \* the answer add_recordinfo_query_result is splitting
    toMc, toGb, \* datagrams between the GB server and the message centre
    toDev,      \* queries on their way to the devices
    fromDev,    \* answers on their way to the GB server
    told,       \* told[sn]: the records the platform was sent, as batches
    faults      \* the kinds of the faults so far, in order

vars == <<asked, held, queue, size, ctx, rec, free, loop, toMc, toGb,
          toDev, fromDev, told, faults>>
mc == <<queue, size, ctx, rec, free>>

Init ==
    /\ asked = <<>>
    /\ held \in {[i \in Item |-> Len(Records[i])], [i \in Item |-> Len(Records[i]) \div 2]}
    /\ "grow" \notin Faults => \A i \in Item : held[i] = Len(Records[i])
    /\ queue = <<>> /\ size = 0 /\ ctx = 0
    /\ rec = [r \in RecId |-> Null]
    /\ free = [r \in RecId |-> r]
    /\ loop = Null
    /\ toMc = <<>> /\ toGb = <<>>
    /\ toDev = {} /\ fromDev = {}
    /\ told = [sn \in Sn |-> <<>>]
    /\ faults = <<>>

\* What the device has recorded by now.
Has(i) == SubSeq(Records[i], 1, held[i])

Fault(f) == f \in Faults /\ Len(faults) < MaxFault /\ faults' = Append(faults, f)
NoFault == UNCHANGED faults

\* The part of s after its first n elements, and s cut into pieces of n.
Rest(s, n) == SubSeq(s, n + 1, Len(s))
Pieces(s, n) == [k \in 1 .. (Len(s) + n - 1) \div n |->
                    SubSeq(s, (k - 1) * n + 1, IF k * n < Len(s) THEN k * n ELSE Len(s))]

-----------------------------------------------------------------------------
(* Platform and GB server.                                                 *)

\* CGbServer::rmt_query_record_info; the platform gets 500 if sendto fails.
PlatformAsks(i) ==
    /\ loop = Null /\ Len(asked) < MaxQuery
    /\ asked' = Append(asked, i)
    /\ \/ toMc' = Append(toMc, [type |-> "query", sn |-> Len(asked) + 1, item |-> i]) /\ NoFault
       \/ toMc' = toMc /\ Fault("sendto")
    /\ UNCHANGED <<held, mc, loop, toGb, toDev, fromDev, told>>

\* deal_inter_msg, MN_GB_LOCAL_QUERY_RECORDINFO: a SIP MESSAGE to the device.
GbQuery ==
    /\ loop = Null /\ toGb # <<>> /\ Head(toGb).type = "query"
    /\ toGb' = Tail(toGb)
    /\ toDev' = toDev \cup {[ctx |-> Head(toGb).ctx, item |-> Head(toGb).item]}
    /\ NoFault
    /\ UNCHANGED <<asked, held, mc, loop, toMc, fromDev, told>>

\* deal_inter_msg, MN_GB_LOCAL_RES_RECORDINFO: an answer to the platform.
GbResult ==
    /\ loop = Null /\ toGb # <<>> /\ Head(toGb).type = "result"
    /\ toGb' = Tail(toGb)
    /\ told' = [told EXCEPT ![Head(toGb).sn] = Append(@, Head(toGb).list)]
    /\ NoFault
    /\ UNCHANGED <<asked, held, mc, loop, toMc, toDev, fromDev>>

\* An answer of a device arrives: add_recordinfo_query_result starts its loop.
GbAnswer(a) ==
    /\ loop = Null
    /\ loop' = a
    /\ \/ fromDev' = fromDev \ {a} /\ NoFault
       \/ fromDev' = fromDev /\ Fault("dup")
    /\ UNCHANGED <<asked, held, mc, toMc, toGb, toDev, told>>

\* Hands the first n records of the answer to the message centre.
HandOver(n) ==
    Append(toMc, [type |-> "answer", ctx |-> loop.ctx, dev |-> loop.dev, sum |-> loop.sum,
                  list |-> SubSeq(loop.list, 1, n)])

\* After a failed app_cb the loop continues without advancing its item: of the
\* lost batch only the last record is tried again.
AfterFailure(s) == Rest(s, GbBatch - 1)

\* A full batch inside the loop of add_recordinfo_query_result.
GbFullBatch ==
    /\ loop # Null /\ Len(loop.list) >= GbBatch
    /\ \/ /\ toMc' = HandOver(GbBatch)
          /\ loop' = [loop EXCEPT !.list = Rest(@, GbBatch)]
          /\ NoFault
       \/ /\ toMc' = toMc
          /\ loop' = [loop EXCEPT !.list = AfterFailure(@)]
          /\ Fault("sendto")
    /\ UNCHANGED <<asked, held, mc, toGb, toDev, fromDev, told>>

\* The end of the loop: the rest, or an empty answer when there is no record.
GbLastBatch ==
    /\ loop # Null /\ Len(loop.list) < GbBatch
    /\ loop' = Null
    /\ IF loop.list # <<>> \/ loop.sum = 0
       THEN \/ toMc' = HandOver(Len(loop.list)) /\ NoFault
            \/ toMc' = toMc /\ Fault("sendto")
       ELSE toMc' = toMc /\ NoFault
    /\ UNCHANGED <<asked, held, mc, toGb, toDev, fromDev, told>>

-----------------------------------------------------------------------------
(* The devices and the network (external).                                 *)

DevAnswer(q) ==
    LET all == Has(q.item)
        lists == IF all = <<>> THEN {<<>>} ELSE Range(Pieces(all, DevBatch))
    IN  /\ fromDev' = fromDev \cup
                        {[ctx |-> q.ctx, dev |-> q.item, sum |-> Len(all), list |-> l] : l \in lists}
        /\ \/ toDev' = toDev \ {q} /\ NoFault
           \/ toDev' = toDev /\ Fault("dup")
        /\ UNCHANGED <<asked, held, mc, loop, toMc, toGb, told>>

\* The device has recorded the rest.
DevGrows(i) ==
    /\ held[i] < Len(Records[i]) /\ Fault("grow")
    /\ held' = [held EXCEPT ![i] = Len(Records[i])]
    /\ UNCHANGED <<asked, mc, loop, toMc, toGb, toDev, fromDev, told>>

\* A device that answers under an id the table does not have.
DevAnswersAsOther(a) ==
    /\ a.dev # Other /\ Fault("otherId")
    /\ fromDev' = (fromDev \ {a}) \cup {[a EXCEPT !.dev = Other]}
    /\ UNCHANGED <<asked, held, mc, loop, toMc, toGb, toDev, told>>

Lose ==
    /\ Fault("lose")
    /\ \/ \E q \in toDev : toDev' = toDev \ {q} /\ UNCHANGED fromDev
       \/ \E a \in fromDev : fromDev' = fromDev \ {a} /\ UNCHANGED toDev
    /\ UNCHANGED <<asked, held, mc, loop, toMc, toGb, told>>

-----------------------------------------------------------------------------
(* The message centre: query_record_info.                                  *)

InUse == {queue[k].ctx : k \in 1 .. Len(queue)}

\* Mutant of NewCtx: the search for a free value is left out.
NewCtxUnchecked == IF ctx + 1 = Limit THEN 1 ELSE (ctx + 1) % Width

\* CResouceItem::get_async_msg_ctx
NewCtx ==
    LET first == IF (ctx + 1) % Width = Limit THEN 1 ELSE (ctx + 1) % Width
        after(k) == (first + k) % Width
    IN  after(CHOOSE k \in 0 .. Len(queue) : /\ after(k) \notin InUse
                                             /\ \A j \in 0 .. k - 1 : after(j) \in InUse)

\* An item that is not in the table, or too many queries: no answer at all.
McQueryRefused ==
    /\ toMc # <<>> /\ Head(toMc).type = "query"
    /\ Head(toMc).item \notin Item \/ size > MaxMsg
    /\ toMc' = Tail(toMc)
    /\ NoFault
    /\ UNCHANGED <<asked, held, mc, loop, toGb, toDev, fromDev, told>>

\* The result of mc_send_to_gb is only logged: the query is queued anyway.
McQuery ==
    /\ toMc # <<>> /\ Head(toMc).type = "query"
    /\ Head(toMc).item \in Item /\ size <= MaxMsg
    /\ toMc' = Tail(toMc)
    /\ \/ toGb' = Append(toGb, [type |-> "query", ctx |-> NewCtx, item |-> Head(toMc).item]) /\ NoFault
       \/ toGb' = toGb /\ Fault("sendto")
    /\ ctx' = NewCtx
    /\ queue' = <<[ctx |-> NewCtx, sn |-> Head(toMc).sn, sum |-> 0, list |-> <<>>]>> \o queue
    /\ size' = size + 1
    /\ UNCHANGED <<asked, held, rec, free, loop, toDev, fromDev, told>>

-----------------------------------------------------------------------------
(* The message centre: add_rec_info.                                       *)

\* Mutant of Same: the times are not compared.
SameAnyTime(a, b) == a.path # b.path

\* CDevRecordItem::is_same, as written: the paths differ, the times agree.
Same(a, b) == a.path # b.path /\ a.span = b.span

Listed(q) == {rec[r] : r \in Range(q.list)}

\* add_rec_item_to_result stops quietly at a record that it has already ...
Fresh(q, s) ==
    CHOOSE n \in 0 .. Len(s) :
        /\ \A k \in 1 .. n : \A b \in Listed(q) \cup {s[j] : j \in 1 .. k - 1} : ~Same(b, s[k])
        /\ n = Len(s) \/ \E b \in Listed(q) \cup {s[j] : j \in 1 .. n} : Same(b, s[n + 1])

\* ... and fails when the pool is empty.
Runs(q, s) == Fresh(q, s) <= Len(free)
Taken(q, s) == IF Runs(q, s) THEN Fresh(q, s) ELSE Len(free)

\* What a query has become: q with the records of s in front of its list.
Longer(q, s) == [q EXCEPT !.list = Reverse(SubSeq(free, 1, Taken(q, s))) \o @]

Filled(q, s) ==
    [r \in RecId |-> IF \E k \in 1 .. Taken(q, s) : free[k] = r
                     THEN s[CHOOSE k \in 1 .. Taken(q, s) : free[k] = r] ELSE rec[r]]

Answer == Head(toMc)

Contents(q, content) == [j \in 1 .. Len(q.list) |-> content[q.list[j]]]

ToPlatform(q, lists) ==
    [k \in 1 .. Len(lists) |-> [type |-> "result", sn |-> q.sn, list |-> lists[k]]]

\* Mutant of Report: list_num is not reset, the last full batch goes twice.
ReportAgain(q, content) ==
    LET lists == Pieces(Contents(q, content), ResBatch)
    IN  ToPlatform(q, IF lists = <<>> THEN <<(<<>>)>> ELSE Append(lists, lists[Len(lists)]))

\* CResouceItem::deal_rec_list: the messages to the platform.  An answer with
\* SumNum 0 adds an empty one when the last batch was full.
Report(q, content) ==
    LET last == IF Answer.sum = 0 /\ Len(q.list) % ResBatch = 0 THEN <<(<<>>)>> ELSE <<>>
    IN  ToPlatform(q, Pieces(Contents(q, content), ResBatch) \o last)

\* Each of the messages may be lost by a failing sendto, which is only logged.
Send(msgs) ==
    \/ toGb' = toGb \o msgs /\ NoFault
    \/ \E k \in 1 .. Len(msgs) : toGb' = toGb \o RemoveAt(msgs, k) /\ Fault("sendto")

\* Mutant of IsFor: the answer is taken for the newest query.
IsForNewest(k) == k \in 1 .. Len(queue) /\ k = 1

\* get_async_msg_by_ctx: the first query of the queue with this ctx.
IsFor(k) ==
    /\ k \in 1 .. Len(queue) /\ queue[k].ctx = Answer.ctx
    /\ \A j \in 1 .. k - 1 : queue[j].ctx # Answer.ctx

\* Mutants of DelRecInfo: the first record item is not given back; the
\* counter is decremented twice.
DelRecInfoButFirst(k, q, left) ==
    /\ queue' = RemoveAt(queue, k)
    /\ size' = size - 1
    /\ free' = Reverse(Rest(q.list, 1)) \o left

DelRecInfoCountedTwice(k, q, left) ==
    /\ queue' = RemoveAt(queue, k)
    /\ size' = size - 2
    /\ free' = Reverse(q.list) \o left

\* CResouceItem::del_rec_info; left is what the pool holds already.
DelRecInfo(k, q, left) ==
    /\ queue' = RemoveAt(queue, k)
    /\ size' = IF size > 0 THEN size - 1 ELSE size
    /\ free' = Reverse(q.list) \o left

\* The label dump_rec; giveback_one_node clears the record items.
DumpRec(k, q, content, left) ==
    /\ Send(Report(q, content))
    /\ DelRecInfo(k, q, left)
    /\ rec' = [r \in RecId |-> IF r \in Range(q.list) THEN Null ELSE content[r]]

McAnswers ==
    /\ toMc # <<>> /\ Answer.type = "answer"
    /\ toMc' = Tail(toMc)
    /\ UNCHANGED <<asked, held, ctx, loop, toDev, fromDev, told>>

\* The id is not in the table, or no query has this ctx (any more).
McAnswerUnknown ==
    /\ McAnswers
    /\ Answer.dev \notin Item \/ Answer.ctx \notin InUse
    /\ NoFault
    /\ UNCHANGED <<queue, size, rec, free, toGb>>

\* The answer ends the query at once: no records, or another sum than before.
IsShort(q) ==
    \/ Answer.sum = 0
    \/ Answer.list = <<>>
    \/ q.sum # 0 /\ q.sum # Answer.sum

McAnswerEnds(k) ==
    /\ McAnswers
    /\ Answer.dev \in Item /\ IsFor(k) /\ IsShort(queue[k])
    /\ DumpRec(k, queue[k], rec, free)

\* The answer's records are added; complete, or out of record items, it ends.
McAnswerAdds(k) ==
    LET q == [Longer(queue[k], Answer.list) EXCEPT !.sum = Answer.sum]
        content == Filled(queue[k], Answer.list)
        left == Rest(free, Taken(queue[k], Answer.list))
        done == ~Runs(queue[k], Answer.list) \/ Len(q.list) = q.sum
    IN  /\ McAnswers
        /\ Answer.dev \in Item /\ IsFor(k) /\ ~IsShort(queue[k])
        /\ \/ /\ ~done
              /\ queue' = [queue EXCEPT ![k] = q]
              /\ rec' = content /\ free' = left
              /\ NoFault /\ UNCHANGED <<size, toGb>>
           \/ /\ done
              /\ DumpRec(k, q, content, left)

-----------------------------------------------------------------------------
GbServer ==
    \/ GbQuery \/ GbResult \/ GbFullBatch \/ GbLastBatch
    \/ \E a \in fromDev : GbAnswer(a)

MsgServerTask ==
    \/ McQuery \/ McQueryRefused \/ McAnswerUnknown
    \/ \E k \in 1 .. Len(queue) : McAnswerEnds(k) \/ McAnswerAdds(k)

Device == \E q \in toDev : DevAnswer(q)

Next ==
    \/ \E i \in Item \cup {Other} : PlatformAsks(i)
    \/ GbServer
    \/ MsgServerTask
    \/ Device
    \/ \E i \in Item : DevGrows(i)
    \/ \E a \in fromDev : DevAnswersAsOther(a)
    \/ Lose

Spec == Init /\ [][Next]_vars

-----------------------------------------------------------------------------
(* Properties.                                                             *)

\* Every variable keeps its type.
TypeOK ==
    /\ asked \in Seq(Item \cup {Other}) /\ Len(asked) <= MaxQuery
    /\ \A k \in 1 .. Len(queue) : /\ queue[k].ctx \in Ctx /\ queue[k].sn \in Sn
                                  /\ queue[k].sum \in Nat /\ queue[k].list \in Seq(RecId)
    /\ size \in 0 .. MaxMsg + 1 /\ ctx \in Ctx
    /\ rec \in [RecId -> AllRecords \cup {Null}] /\ free \in Seq(RecId)
    /\ toDev \subseteq [ctx : Ctx, item : Item]
    /\ faults \in Seq(Faults) /\ Len(faults) <= MaxFault

\* No record item is lost or shared: each is once in the pool or once in the
\* list of one query, and the ones in the pool are blank (add_rec_info,
\* del_rec_info over get_one_node and giveback_one_node).  The queue is as long
\* as it is counted to be.
RecordsConserved ==
    LET list(k) == IF k = 0 THEN free ELSE queue[k].list
        lists == 0 .. Len(queue)
    IN  /\ size = Len(queue)
        /\ \A r \in RecId : \E k \in lists : r \in Range(list(k))
        /\ \A j, k \in lists : \A a \in 1 .. Len(list(j)), b \in 1 .. Len(list(k)) :
              list(j)[a] = list(k)[b] => j = k /\ a = b
        /\ \A r \in RecId : (rec[r] = Null) <=> (r \in Range(free))

\* An answer can belong to one query only, even after async_msg_ctx has gone
\* round while queries that got no answer are still queued
\* (get_async_msg_ctx), and a query's number is used for one platform query.
QueriesDistinct ==
    \A j, k \in 1 .. Len(queue) :
        j # k => queue[j].ctx # queue[k].ctx /\ queue[j].sn # queue[k].sn

\* A platform is only told records of the item it asked for, whatever is
\* lost, repeated or late, until async_msg_ctx has gone round (the ctx of an
\* answer finds the right list).
ToldIsAsked ==
    Len(asked) < Limit => \A sn \in 1 .. Len(asked) :
        \A batch \in Range(told[sn]) : Range(batch) \subseteq
            IF asked[sn] \in Item THEN Range(Records[asked[sn]]) ELSE {}

\* No record is at two places of what was told in answer to the query sn.
ToldApart(sn) ==
    \A a, b \in 1 .. Len(told[sn]) :
        \A j \in 1 .. Len(told[sn][a]), k \in 1 .. Len(told[sn][b]) :
            told[sn][a][j] = told[sn][b][k] => a = b /\ j = k

TellsOnce == \A sn \in Sn : ToldApart(sn)

\* While no datagram is repeated and async_msg_ctx has not gone round, no
\* record is told twice, however the answers are split, lost or sent again
\* after a failed sendto.
ToldOnce == "dup" \notin Range(faults) /\ Len(asked) < Limit => TellsOnce

\* item.cpp logs of a record that is_same finds: "rec item add same,file path:
\* %s, time range:[%ld, %ld]".  A repeated answer would then add nothing.
RepeatsAddNothing == TellsOnce

DifferentTimes(i) ==
    Cardinality({r.span : r \in Range(Records[i])}) = Len(Records[i])

\* What the queries ask for, each with its own number.
Wanted ==
    UNION {{sn} \X Range(Has(asked[sn])) : sn \in {n \in 1 .. Len(asked) : asked[n] \in Item}}

\* The record items suffice for all queries together.
PoolSuffices == Cardinality(Wanted) <= NumRec

\* Nothing is on its way any more, nor being worked on.
Quiet == toMc = <<>> /\ toGb = <<>> /\ toDev = {} /\ fromDev = {} /\ loop = Null

\* What the platform of the query sn has been told.
Told(sn) == UNION {Range(batch) : batch \in Range(told[sn])}

\* The query sn waits in the queue.
Queued(sn) == \E k \in 1 .. Len(queue) : queue[k].sn = sn

\* Told everything the device has, each record once.
FullyTold(sn) == told[sn] # <<>> /\ Told(sn) = Range(Has(asked[sn])) /\ ToldApart(sn)

\* Nothing was ever in the way: no fault, no full queue, and async_msg_ctx has
\* not gone round.
Calm == faults = <<>> /\ Len(asked) <= MaxMsg + 1 /\ Len(asked) < Limit

\* Of an item whose records all have different times: when nothing was in the
\* way and everything is quiet (it always gets so), no query for it is left in
\* the queue, and if the pool was never short, each was answered with exactly
\* the records of the device, each once (query_record_info, add_rec_info).
DistinctTimesAnswered ==
    Quiet /\ Calm =>
        \A sn \in 1 .. Len(asked) : asked[sn] \in Item /\ DifferentTimes(asked[sn]) =>
            ~Queued(sn) /\ (PoolSuffices => FullyTold(sn))

\* The device has two files of one time.
SameTimes(i) == \E a, b \in Range(Has(i)) : a.path # b.path /\ a.span = b.span

\* Of an item with two records of one time the opposite is true, though nothing
\* was in the way: is_same takes the second for the first, the list never gets
\* as long as the device's SumNum, and the query stays in the queue with its
\* record items.
SameTimesStay ==
    Quiet /\ Calm /\ PoolSuffices =>
        \A sn \in 1 .. Len(asked) :
            asked[sn] \in Item /\ SameTimes(asked[sn]) => Queued(sn)

\* What becomes of a query when nothing goes wrong, for either kind of item.
QueriesSettle == DistinctTimesAnswered /\ SameTimesStay
=============================================================================
