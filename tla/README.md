# Verification of the network video server

The repository is a network video recorder that speaks GB28181, the Chinese
SIP profile for video surveillance.  Three programs make up the server:

| Program | Source | Threads |
|---|---|---|
| GB server | `src/10-app/gb28181` | `GBlink`: an epoll loop over the SIP socket and a unix datagram socket; every SIP handler, every reply of the message centre and the 500 ms trigger run here |
| message centre with the device module (`vsserver`) | `src/10-app/nvr` | `MsgServerTask`: an epoll loop over a unix datagram socket (GB server) and a stream socket (VTDU); `DevShedule`: once a second `CResouceItem::run` |
| VTDU | `src/10-app/vtdu` | one manager thread that executes ADD_SWITCH and DEL_SWITCH on the media switch library |

A platform calls for the video of a catalogue item with an INVITE.  The GB
server opens a dialog and sends the request to the message centre; the device
module grants a media transmitter and replies; the GB server answers 200.  The
platform's ACK makes the message centre tell the VTDU to forward the item's
media to the platform, its BYE frees the dialog and makes the message centre
release the transmitter and tell the VTDU to stop.  Each hop is one datagram,
none is acknowledged, and none is repeated by the server.

## Inventory

### Components, their state and operations

| Component | State | Operations | Hard behaviour |
|---|---|---|---|
| Dialogs (`dialog.cpp`, `catalog.cpp`) | array of `CDialog`, `free_head`, `rmt_caller` of each item; one `next` pointer for both kinds of list | `create`, `pop`, `push`, insert on INVITE, match and unlink on BYE, match on ACK, update on the reply | replies that come after the dialog was freed; repeated INVITEs; a pool that runs dry; partly compared tags; no timeout |
| Transmitters (`item.cpp`) | array of `CMediaTransmitter`, `transmitter_table_unused`, `transmitter` of each item; one `next` pointer for both | `rmt_invite_media`, `rmt_ack_media`, `rmt_bye_media` over `get_one_node`, `add_one_node` | nodes released without being unlinked; ids that were never granted; exhaustion |
| Message centre (`mc.cpp`, `nvs_core.cpp`) | send buffers, the mutex, `task_run`, `task_exit` | receive and dispatch, `send_to_gb`, `send_to_vtdu` | a mutex held across `epoll_wait`; two threads on one send buffer |
| VTDU (`vtdu.cpp`) | forwardings of the switch library | add, remove | order of ADD and DEL; two calls for one destination |
| Media switch library (`src/40-protocol/dataswitch_socket`) | receive groups, members and their pool, the hash, serial number of commands | add and remove of rules, dumps and filters; `SetCmd`; `TransData` | a caller that gives up while its command waits; members whose hash keys collide; a step of `dsAdd` that fails after the old rules are gone |
| Device registration (`session.cpp`, `reg.cpp`) | registered devices, unauthenticated requests | `add_auth_reg`, `schedule`, `check_alg` | expiry, a catalogue query whose answer is lost |
| Record queries (`item.cpp`, `rec_list.cpp`) | async queue, pool of record items, partial results | `query_record_info`, `add_rec_info`, `del_rec_info` | lost, repeated and split answers; no timeout |
| Catalogue answers (`item.cpp`) | send buffer | `query_cata_log` | batches of two, the last one |
| Stream framing (`mc.cpp`, `msgno.cpp`) | receive buffer | `send_to_vtdu`, `parser_income_data`, `parser_protocol` | segmentation, a send cut short, overflow, resynchronisation |
| Sockets (`gblink.cpp`) | file descriptors | receive, send | two threads that block in `sendto` on each other |

They interact by messages only, except that the `DevShedule` thread shares the
device table and the send buffer with `MsgServerTask`.

### What makes each component correct

* Dialogs: no dialog is lost (but the one that is out of the pool when an
  allocation fails) or on two lists; an item has one dialog per call that has a
  From tag; a dialog in use keeps its call; a freed dialog is blank; an INVITING dialog
  has an answer coming.
* Transmitters: none is granted twice or lost, and a granted one keeps its
  channel and destination until it is released.
* The call as a whole: every INVITE is answered; media flows only to a platform
  that accepted the answer, and stops when it has hung up; every transmitter and
  every forwarding has an owner.
* Registration: a registered device's items are known and invited once.
* Record queries: a query whose messages arrive, for an item whose records have
  different times, is answered with exactly these; every record item returns to the
  pool; an answer belongs to one query. (With two records of one time the code does
  not answer: see `RecQuery` below.)
* Framing: a sequence of messages is delivered in order however it is cut.
* Switch: members, lists, pool and hash agree; a packet finds the members added for
  its source, else those for any; what a caller was told is done is done, whatever
  comes late.

`PROJECT.json` lists the hazards at their lines, with the properties that
cover them.

## Modules

| Module | Models | Level |
|---|---|---|
| `DlgPool` | dialogs and caller lists, lists as sequences | component |
| `DlgLists` | the same with `free_head`, `next` and `rmt_caller` | implements `DlgPool` |
| `Transmitter` | the transmitter table with its `next` pointers | component |
| `MediaService` | what the server promises to the platforms that call for video | abstract |
| `RmtCall` | all threads on the path of a remote video call; `DlgPool` and `Transmitter` by INSTANCE | composition, implements `MediaService`, `DlgPool` and `Transmitter` |
| `RecQuery` | record queries: platform, GB server, async queue, record pool, device | component with its environment |
| `Catalogue` | REGISTER, catalogue query and answer, device table, INVITE to new items, catalogue answers to platforms | component with its environment |
| `MsgParser`, `Crc8` | the byte stream from the message centre to the VTDU and its parser; the checksum | component |
| `Forwarding` | what the media switch promises: a set of rules and of dumps | abstract |
| `SockSwitch` | the media switch: tables, hash, command socket, callers, packets | implements `Forwarding` |
| `DlgPoolProofs`, `DlgListsProofs`, `TransmitterProofs`, `RecQueryProofs`, `MsgParserProofs`, `SockSwitchProofs`, `CatalogueProofs` | the theorems about the module each is named after | proofs |
| `RmtCallProofs` | the theorems about `RmtCall`: its dialogs and answers; its transmitters, forwardings and the service as a whole | proofs |
| `MCDlgPool`, `MCDlgLists`, `MCTransmitter`, `MCRmtCall`, `MCRecQuery`, `MCCatalogue`, `MCMsgParser`, `MCSockSwitch` | instances for TLC | |

A definition whose comment begins with "Mutant of" is a plausible bug in the
operator that follows it; `PROJECT.json` lists them under `mutants`, and with
the operator replaced by it TLC finds the property violated. No specification
uses them otherwise.

### DlgPool and DlgLists

| TLA+ | Code |
|---|---|
| `dlg[d]` | the array of `CDialog`: `state`, `call_id`, `remote_tag`, `local_tag`, `transmitter_id` |
| `free` / `free_head` | the chain of `CDlgQueue` |
| `caller[i]` / `rmt_caller[i]` | the chain behind `CCatalogItem::rmt_caller` |
| `asked[d]` | requests for dialog `d` that the message centre has not answered (outside the module's code) |
| `lost` | the dialogs that were popped and then put nowhere (no variable of the code: nothing there knows of them) |
| `InviteNew`, `InviteNewUnsent`, `InviteBusy`, `InviteFull`, `InviteNoMem` | `add_rmt_invite_dialog(msg)` with `app_cb` delivered or failing, a repeated INVITE, an empty pool, no memory for the Call-ID |
| `MediaReply`, `MediaReplyUnsent` | `add_rmt_invite_dialog(reply)`, after `rmt_invite` sent or failed |
| `Ack`, `Bye`, `ByeUnknown`, `Crash` | `find_rmt_ack_dialog`, `find_rmt_bye_dialog`; `strcmp` with a NULL tag |

A request is what the match functions read of it: Call-ID, From tag, To tag, and
`unread`, the dialogs whose Call-ID could not be compared because
`osip_call_id_to_str` got no memory. Both tags may be missing, as nothing refuses such
a request (`gbexosip.cpp:288` wants the headers, not their tags). With
`MemCanFail` the copies of Call-ID and tags may fail: a copied tag is NULL, and an INVITE whose
Call-ID cannot be copied returns -ENOMEM with its dialog popped and not pushed
(`catalog.cpp:235`). `PoolPartition` has that one way to lose a dialog in it. With
`CompareCanFail` `osip_call_id_to_str` may fail as well: the comparison then says
"another call". The two are separate constants because uniqueness depends on the second only.

`OneDialogPerCall` is about dialogs with a From tag, while `CompareCanFail` is FALSE.
An INVITE without that tag is accepted, with `remote_tag` NULL, and `invite_match_as_uas` never
recognises its repetition (`dialog.cpp:131`): it gets a second dialog. Such INVITEs are in
`dlg_pool` and `dlg_lists`, among the others in the same lists; the property does not say
that they have one dialog, as that is not so. No BYE without a From tag is matched either, and a
request *with* one that has the Call-ID of such a dialog kills the process
(`Crash`). In `RmtCall` the platforms always send a From tag and allocations do not fail.

All handlers run on one thread and none gives up control in the middle, so each is one
action. `DlgLists` has the pointer assignments one by one in their order, folded
into one step; its run shows that they amount to the sequences.

### Transmitter

`unused`, `nxt`, `head` are `transmitter_table_unused`, `next` and the items'
`transmitter`; `ch` and `to` are what `rmt_invite_media` writes into a node.
`held` stands for the GB server: what it was granted and has not released.
`RmtByeMedia` needs `t \in held`: that a transmitter is released once only is an
assumption here and a property of the composition (`ImplementsTransmitter`).

### RmtCall

One variable per socket (`toMC`, `toGB`, `toVtdu`, and per leg `up`, `down` for
UDP); one action per message kind and thread. The state of the GB server is
`DlgPool`'s with `asked` *computed* from the sockets, the device table's is
`Transmitter`'s with `held` computed (operator `Held`). A reply without a
transmitter carries any transmitter id, because the constructor of `CMediaInvite`
leaves it unset. The platforms call, accept, repeat and hang up at will; the set
`Faults` says what the network and `sendto` may do beyond keeping messages in
order.

### RecQuery

`queue`, `size` and `ctx` are `async_msg_queue`, `async_msg_size` and
`async_msg_ctx`; `rec` and `free` the array and free chain of `CDevRecordItem`;
`loop` is the answer that `add_recordinfo_query_result` is cutting into batches of
`GbBatch`, one step per `app_cb`, because the message centre works between them.
`Same` is `is_same` as written: what it finds the same are two *different* paths with
one time. So a repeated record is added again, and the second record of one time ends
the batch without a word; the list then never has as many records as the device said
and the query waits for ever, with no fault at all. `QueriesSettle` says both: a query
for an item whose records all have different times is answered with exactly these
(`DistinctTimesAnswered`), one for an item with two records of one time stays queued
(`SameTimesStay`). `MCRecQuery` has an item of either kind. No code reads `timeout_time`, so there is
no action for it. `query_record_info`'s failing allocations are left out. Constants that are numbers in the code (1024,
0x7FFFFFFF, 8, 4) are parameters; `Width` is the 2^32 of `async_msg_ctx` in
proportion to `Limit`. `invite_media` and `query_record_info(cur_time)` of the
other thread do not touch this state: the body of the latter that would start
queries by itself is not reached.

### Catalogue

`regs` is `dev_reg_queue` with `get_catalog`; `cat` the GB server's catalogue;
`table` the valid entries of `catalog_item_table` with `on` and `play`.
`GbCatalogAnswer` takes an answer of a device, `rest` is what of it is still to be
stored, and `GbAddItem` is one iteration of the loop over it: `add_res_item`, then
`app_cb`, with which the message centre may be done before the next iteration.  The
loop ends when `add_res_item` fails (`NoRoom`) or the answer is used up, and `Idle`
says that the thread is in no such loop.  `AddItem` is `CResouceItem::add`; `Lists` is
the batching of `query_cata_log`, the parity test after its loop included, and
`CatalogMsgs` the messages it sends. `McAddItemRaced` is the outcome of
`add` running while `invite_media` walks the table in the thread `DevShedule`:
`valid` is stored before `play` is cleared, the INVITE goes out in between, and
the item is invited once more a second later.

### MsgParser

| TLA+ | Code |
|---|---|
| `Send`, `SendCut` | `send_to_vtdu` over `msg2buf_calc_crc`, `hdr2buf` and `cbb_send`, which returns after the part that was written when a signal comes |
| `buf`, `valid`, `parsing` | `parser_buf`, `valid_data_len`, the loop of `parser_income_data` |
| `Receive` | `parser_income_data` up to its loop, the branch for bytes that do not fit included |
| `Hand`, `Await`, `Nothing` | one call of `parser_protocol`: a frame is handed to `deal_one_msg`; the search stops at what may become one; there is none |

The module has real bytes, because the hazards are in them: the search for
0x24 0x40, the length, and a checksum over eight bytes. The first address byte
may be anything, a complete frame with a right checksum included (`Lookalike` of
`MCMsgParser`). `memcpy` over overlapping areas is modelled as a move, which is
what the build's libc does for the forward direction used here. The branches for
more bytes than the whole buffer holds need `recv` to return more than the
buffer has; 1500 and 2048 exclude that (`RoomAssumption`).

As long as `cbb_send` writes whole frames, the VTDU is handed exactly what was
sent, in order and at once. A frame cut after 12 bytes or more is completed from
the next one: the VTDU acts on one header with another's addresses, and the next
request is lost too. Cut after two bytes, the next frame's magic is read as a
length of 0x2440 and the parser waits until its buffer overflows; then the new
bytes are copied to `discard_len`, not behind the bytes that were kept.

After a cut the parser has nothing but the mark, the length and a checksum of one
byte to find the next frame by, so what a cut can cost depends on the bytes behind
it. `CutSpoilsOne` is about streams in which everything that reads like a request's
header is one that was sent (`HeadsAreSent`), and `CutLosesTwo` moreover about those in which no
other message seems to reach across the start of a request (`NoneStraddles`). Both
conditions are about the stream and not about the parser, and hold in every state of
`MCMsgParser`. Neither can be left out, which the proof and TLC showed: let the last 12
bytes of the addresses be the mark, a length of 32 and a header whose checksum is
right; after a cut of 12 bytes the parser takes them for a request that was never
sent, and stays out of step with all that follow.

### SockSwitch and Forwarding

| TLA+ | Code |
|---|---|
| `sw.grp[g]` | the table of receive groups: local address, socket, dumps, filter |
| `sw.list[g]` | the chain of members of a group |
| `sw.bucket[h]`, `Hash` | the hash from local and source address to members |
| `sw.mmb[m]`, `sw.free` | the members and their pool |
| `Outcomes(c)` | `ProssInterMsg` for the thirteen commands over `Add`, `AddDump`, `Remove`, `RemoveAllMmb`, `RemoveAll` |
| `Begin`, `Acked`, `GiveUp` | `SetCmd`: token, serial number, command, the wait for its acknowledgement |
| `TooOld` | `GetCmdData`: a command that waited too long is dropped |
| `Targets(g, s)` | the members `TransData` finds for a packet from `s` |
| `Dropped`, `SentTo` | its filter, and the members that the packet is sent to |

An address is one number, IP and port together; addition modulo `HashSize` stands
for the key, so that distinct addresses can share a bucket. The order within a
chain is not kept (no property depends on it). The framing of commands by magic
bytes and partial reads of the command socket are abstracted to one message per
command; a failing `send_tcp_data` in `SetCmd` is `TooOld` followed by `GiveUp`.
`asked`, `promised` and `ended` record what callers have asked for and what they
have been told, `swept` which of the promised rules a later call has hit in one of the two
ways described below (`Hits`). What a filter returns is an input (`Verdict`); `FuncForSpy` returns DSOK. Left out: spying with all-ones addresses, `DSCMD_DESTORY`, the
setters of callbacks, user data and mapped addresses, the counts behind multicast
joins, the rewriting of packets.

Four things that `dataswitch.h` says of the switch are not so. The properties state what
the code does instead, and so show that there is no fifth:

| What is said | What the code does | Where it is stated |
|---|---|---|
| a filter returns DSOK for a valid packet (`:120`) | DSOK is 1, and `TransData` drops what the filter returns anything but 0 for (`sockswitch.cpp:2082`); after `dsAddSpy` every packet | `PacketsFindMembers`: the packet goes to nobody |
| a rule with a source is for packets from there (`:313`) | in the bucket of source 0 the source is not compared (`:2125`) | `PacketsFindMembers`: to the `Strays` as well, and these count for the limit |
| DSOK: success (`:269`) | a rule that another user has added already is acknowledged and not recorded (`:778`); it goes when he removes his | `ToldIsDone`: the rule holds until he calls for that removal |
| `dsRemoveAllSrcSwitch` is about one receive address (`:325`) | the rules for the source go at every address (`:2940`) | `ToldIsDone`: the rules at the others hold until that call |

After such a call `ToldIsDone` says nothing of the rule until it is acknowledged again: then
it holds, however late the other call's command or acknowledgement is.

A failing `dsAdd` has removed the old rules for its destination already.
`dataswitch.h` promises nothing to the contrary, `Forwarding` allows it, and `ToldIsDone` claims nothing of
the old rules from the call of `dsAdd` on.

## Runs

| Run | Instance and bounds | What it shows |
|---|---|---|
| `dlg_pool` | 2 dialogs, 2 items, 2 Call-IDs, 2 tags or none, 2 requests in flight per dialog; sends and copies may fail (18 429 states up to symmetry) | the pool and the caller lists stay a partition but for the dialogs of -ENOMEM; one dialog per call that has a From tag; identity kept |
| `dlg_lists` | 3 dialogs (unlink first, middle, last), 2 items, one Call-ID and one tag or none, failing sends and allocations | pointers implement sequences |
| `transmitter` | 3 transmitters, 2 items, 2 receivers | the unused chain is what is not granted, and ends; a granted transmitter keeps its destination |
| `call_orderly` | 2 calls for one item, 2 repeated requests, no faults, fairness | the server implements `MediaService`, answers and ends of streams included |
| `call_faults` | 2 calls, 2 repeated requests; either loss and late INVITEs, or early BYEs and failing sends | every transmitter and forwarding has an owner; a free transmitter for every dialog; still a `DlgPool` and a `Transmitter` |
| `call_short` | 4 calls, 2 dialogs, 1 transmitter, items without media, fairness | every INVITE is answered |
| `rec_query` | 3 queries, 2 devices with 3 and 2 records, 4 record items, `Limit` 3, two faults of any kind | records conserved, answers only to the right platform, once, and when nothing fails complete, or without end if two times are the same |
| `catalogue` | 2 devices with 2 items each, room for 3 and 2, a platform's query, two faults of any kind | one entry and one INVITE per item; nothing missing when nothing fails |
| `msg_parser` | 4 requests, buffer of 80 bytes, `recv` of 4, 36 or 45, one send cut after 2, 3, 4 or 12 bytes | requests arrive once, in order and at once; a cut costs at most two |
| `sock_switch` | 3 commands of 2 users, 2 local addresses in the same buckets, 2 sources of which one collides with 0, 2 slots, 2 members, one member per source, one command or answer too late (784 150 states up to symmetry) | the tables implement `Forwarding`; packets find their members; what was acknowledged is so until a call hits it |
| `call_early_bye`, `rec_query_twice` | as large or smaller | violations, see below |

**Why the bounds are enough.** Two dialogs with three distinguishable calls run
the pool dry and reuse a dialog while an old reply is on its way; a third dialog
gives a list a middle. Two items show a dialog on the wrong list. Two repeated
requests allow the INVITE after the BYE and its own repetition. Four record items
against five records run the pool dry; `Limit` 3 with three queries makes the
counter wrap onto a live query; GB batches of two out of answers of three leave a
rest. Room for three and two items against four cut an answer in the middle in
both tables, at different places. A buffer of 80 bytes holds two frames and a
bit, so that frames are moved, joined and discarded, and four frames let the parser
lose its place and find it again behind a cut. Three commands allow add, a
second one in between, and remove; with one slow party the second caller meets
the first one's command or acknowledgement. Two faults combine in every way; bounds are in the
guards (`MaxAsked`, `MaxExtra`, with it `MaxInvites`, `MaxQuery`, `MaxReg`,
`MaxFault`, `MaxSent`, `MaxCuts`, `MaxCmd`, `MaxSlow`), there is no
state constraint. Runs switch deadlock checking off (except `transmitter`): a
platform may be done, a process dead, all bounds used up.

**Symmetry** is used over platforms, items, Call-IDs, tags, users of the switch,
its two destinations (both multicast) and the members of its pool, in runs without
liveness properties only.

**Fairness** is used in `RmtCall` (`FairSpec`): weak fairness of each
thread's handling of its own socket, which the endless `epoll_wait`/`recv` loops
justify, and of a platform's reading of its answers. Platforms are not obliged to
call, repeat or hang up; the network is not obliged to deliver under "loss".
What `RecQuery` and `Catalogue` state of the end needs no
fairness: these are invariants of quiet states (`Quiet`: nothing on its way, no thread with work left). Every
behaviour gets there when the threads go on, since all inputs are bounded.

**Environment assumption.** What `call_orderly` checks, and what `call_faults` checks
of transmitters and forwardings, is for calls of which no BYE is delivered while
the dialog is INVITING (`StillInviting`, `Kept`): a BYE there reads transmitter
id 0 and frees another call's transmitter. With "earlyBye", `call_faults` checks
the dialogs only, and `call_early_bye` shows what becomes of the transmitter.
`Kept` also says that no `sendto` fails and that there are as many transmitters as
dialogs and a channel for each item (`Ample`); with fewer, a 503 leaves a dialog that
holds no transmitter and a transmitter id that nobody wrote. What is said of the
forwardings (`ForwardingIsOwned`, `Served`) further needs a dialog for every call
(`Roomy`). The proof attempt without it failed for a reason: a platform whose INVITE
was refused for want of a dialog acknowledges the 503; an INVITE that it sent twice
has meanwhile got the dialog that became free, and the ACK of the refusal is matched to
that dialog, which is still INVITING and whose transmitter id reads 0. The VTDU then
forwards what transmitter 0 was granted for, to its receiver, who has not accepted.

### Disagreements between code and comments

* `call_early_bye` / `OneNodeFreed`: a BYE for a dialog that still waits for its
  transmitter makes `rmt_bye_media` push transmitter 0, which nobody or someone
  else holds (`catalog.cpp:151`, `item.cpp:748`; the comment: "give up one node to the free table").
* `rec_query_twice` / `RepeatsAddNothing`: `is_same` lacks a `0 ==` before its
  `memcmp` of the paths, so a repeated record is never recognised
  (`rec_list.cpp:104`; the log text at `item.cpp:235` says what was meant).

Met while modelling, modelled as the code has it, and without a run of their own:
the parity test after the loop of `query_cata_log` is the wrong way round, so the last
item of an odd number is never told and with an even number one is told twice
(`item.cpp:710`, where `:670` says "set all dev"; `ToldAllButLast` says exactly which are told);
the four sentences of `dataswitch.h` in the table above; a repeated INVITE without a From
tag opens a second dialog with the same Call-ID and tags (`dialog.cpp:131`, where
`dialog.h:24` says "one dialog referenced by call_id,local_tag and remote tag");
two different records of one time are taken for the same and their query is never answered
(`rec_list.cpp:104`, `item.cpp:353`; `SameTimesStay`); `timeout_time`, "5s", is never read, so a
query whose answer is lost stays (`item.cpp:418`);
a BYE needs only one right tag (`dialog.cpp:173`); a released transmitter stays
linked to its item (`item.cpp:748`); a reply for a call already ended is written into
a dialog on the free chain (`catalog.cpp:129`); the 10 s limit of a dialog is under
`#if 0` (`catalog.cpp:382`), so one failed `sendto` leaves it INVITING for ever;
`get_catalog` is
set on sending, so a lost answer is never asked for again (`session.cpp:70`);
`cur_reg_dev_num` is never incremented (`session.cpp:87`); a record query whose first
answer finds the pool empty is ended without any answer to the platform, because
`deal_rec_list` sends an empty list only when the device has no records
(`item.cpp:165`); with too few
transmitters the ACK of a 503 acts on an uninitialised transmitter id, which is why
`call_orderly` has as many transmitters as dialogs.

## Proofs

Every theorem holds for every value of the constants that the named
assumptions of its module allow. They say: pools and tables have at least one
entry (`NumDlgAssumption`, `NumTransAssumption`, `NumChanAssumption`,
`NumRecAssumption`, `PoolAssumption`, `SizesAssumption` of `RmtCall`, `SizeAssumption`
of `DlgLists`; the tables of `Catalogue` may be empty), there are finitely many platforms, devices and members
(`LegAssumption`, `DevAssumption`, `PoolAssumption`), `Null` is not one of the
things it stands in for (`NullAssumption`, `AddrAssumption`, `RecordsAssumption`,
`AddressAssumption`), batches, limits and bounds are numbers (`BatchAssumption`,
`BoundAssumption`, `BoundsAssumption`, `MaxExtraAssumption`), and what each module's
comments say of the code's own constants (`RoomAssumption`, `LimitAssumption`). One
bounds an instance from above: in `MsgParser` at most 65536 requests are sent
(`MaxSent`), since their number is a field of 16 bits in the stream. No other does.

| Module | Theorem | States |
|---|---|---|
| `DlgPoolProofs` | `InvariantHolds`, `TypeCorrect`, `PartitionHolds`, `ListedIsInUseHolds`, `OneDialogPerCallHolds`, `InvitingIsAskedHolds`, `IdentityHolds` | the invariants of the dialog pool, and `IdentityKept` |
| `DlgListsProofs` | `ListsInvariant`, `ListsImplementPool` | every chain of pointers leads through its own dialogs and ends; the pointer assignments implement the sequences of `DlgPool` |
| `TransmitterProofs` | `TransmitterInvariant`, `TransmitterTypes`, `UnusedIsRestHolds`, `SwitchIsKept` | the unused chain of pointers ends and is exactly what is not held; `SwitchKept` |
| `RecQueryProofs` | `RecQueryTypes`, `RecordsAreConserved`, `QueriesAreDistinct`, `ToldWhatIsAsked`, `RecordsAreToldOnce`, `QueriesSettleByTimes` | record items are conserved, an answer belongs to one query, a platform is told only what it asked for and, where no datagram is repeated, each record once; without faults every query is answered completely if the item's records have different times, and stays queued if two have one time |
| `MsgParserProofs` | `ParserInvariant`, `ParserTypes`, `OrderHolds`, `AtOnceHolds`, `InsideHolds`, `CutsInvariant`, `SpoilsOneHolds`, `LosesTwoHolds` | without a cut send, requests arrive as sent, in order and at once; each cut spoils one request and costs two at most |
| `SockSwitchProofs` | `TypeInvariance`, `MembersArePlaced`, `GroupsAreNeeded`, `PacketsFindTheirMembers`, `CallersAreToldTrue`, `SwitchForwards` | the tables of the switch, what a caller was told, and that the switch implements `Forwarding` |
| `RmtCallProofs` (first part) | `CallInvariant`, `CallTypes`, `CallsUsePool`, `InvitingHasRequest`, `WaitingIsJustified` | with any faults the threads together implement `DlgPool`; a dialog that waits has a request under way, a platform that waits has something under way that leads to its answer |
| `RmtCallProofs` (second part) | `GrantInvariant`, `GrantsAreGivenBackOnce`, `DialogFindsTransmitter`, `ForwardingHasOwner`, `PlatformsAreServed` | the threads together implement `Transmitter`; a call with a dialog finds a transmitter; every forwarding has an owner; every step is one of `MediaService` or none that a platform notices |
| `CatalogueProofs` | `CatalogueTypes`, `OneEntryEach`, `InvitedOnce`, `ToldWhatIsKnown`, `AllItemsKnown` | one entry and one INVITE for an item whatever fails; nothing missing when nothing fails |

**Dialogs.** The inductive invariant `IInv` joins the typing, the partition,
that listed dialogs are in use, their uniqueness per call and the request behind
every INVITING dialog. The partition is needed for the others: `ByeAt`
resets a dialog, which is harmless to the rest only because it was on no other
list; `AddDialog` writes Call-ID and tag into a free dialog, which breaks no
uniqueness only because a free dialog is on no list, nor is one that was `lost`.
Uniqueness is in `IInv` under its conditions, a From tag and a comparison that gets its
memory: without either it is false. The argument goes in three
layers: what pop, push and unlink do to a chain (`PopChain`, `PushChain`,
`UnlinkChain`); which dialogs change place in each action (`AddMoves`, `ByeMoves`,
`NothingMoves`); then each conjunct of `IInv` through each action.

**Pointers of the dialogs** (`DlgListsProofs`). `Chain` follows pointers by a
recursive function, and the library's induction theorems cannot be used of it. A
set of numbers has a least one (`LeastOf`, from the theorem that `<` on `Nat` is
well-founded), and that is enough: the least number for which the function does not
exist (`WalkExists`), or after which it does not give what is left of the sequence
(`ChainIs`), has a predecessor, and one step of the definition refutes it. So `Chain` is *the*
sequence along which the pointers lead and end (`Linked`); it meets no dialog twice, so
it is no longer than the pool (`NoLongerThanPool`). Four lemmas say what the assignments do to such a sequence
(`PopLinked`, `PushLinked`, `UnlinkLinked`, and `LinkedElsewhere` for the chains that
an assignment does not touch). The invariant `LInv` is `Linked` of all chains together with
`DlgPool`'s own invariant: one `next` serves the free chain and the lists, so an
assignment leaves the other chains alone only because no dialog is on two of them
(`ApartIs`), and that is the partition proved of `DlgPool`. `InviteSteps`,
`ByeSteps` and `OtherSteps` then show each handler to be a step of `DlgPool`, which
in turn keeps the partition.

**Transmitters.** The chain is defined by following pointers too, in a module whose
properties need only where it leads. The invariant says
that *some sequence* without repetitions starts at `unused`, follows `next` and ends;
each action shows the sequence of the next state. Such a sequence is never longer
than the table, so following the pointers as often as the table has entries meets
all of it.

**Record queries.** Six invariants, each using the one before it.
`Sound`: the typing of every message, `size` as the length of the queue, and
`Pool`, the partition of the record items among the free chain and the lists; an
answer moves the first items of the chain into one list (`TakeKeeps`), the end of
a query moves a whole list back (`ReleaseKeeps`). `Numbered`: queries on their way
to the message centre are newer than those in its queue; with fewer queries than
values, `get_async_msg_ctx` finds one that is not in use (`NewCtxIs`).
`Truthful`: while the counter has not gone round, no message carries a ctx above
`ctx`, so that a new query is met by no old answer, and every record under way
with a queued query's ctx is one of that query's item (`Underway`). `Single`: while
moreover no datagram has been repeated, each record of the answer to a query is at
*one place* (`At`, `Once`) on its way: in the query that waits at the message
centre, in the query sent to the GB server or to the device, in the device's answer, in
the rest that `add_recordinfo_query_result` still has to hand over, in a batch, in the query's
list, in a result, or told. Every action takes records from one place to the next
(`Grown` takes a batch from the front of the pool's chain and reverses it in front
of the list, `Report` cuts the list into pieces), so each lemma maps a place after
the step to one before it and leaves the rest to `Once`. It needs that a device has
each record once (`RecordsAssumption`): what the code makes of a device that repeats
one within its answer is the business of `is_same`, see
`RepeatsAddNothing` above.

`Answering` is about answers that must come: without faults, and while the counter has
not gone round, nothing that leads to one is dropped (`Progress`). What carries a ctx is about the
item of the query with that ctx (`Matching`) and says how many records there are
(`Exactly`); a query in the queue lacks some of them (`Partial`), each of these is under way
(`Coming`), and so is the news that there are none (`Stirring`); a query that is no longer
queued was answered with all its records (`Served`), with none that the device has not
(`Had`). When nothing is under way, `Coming` and `Partial` contradict each other: the list has all
records, each once by `Once`, and yet not as many as there are. That a
complete list has every record is the same count the other way round (`GrownCovers`). The
remaining step is the pool: what all queries have listed and what the answer adds are
different wanted records, so where `PoolSuffices` there is a record item for each
(`RoomInPool`).

`Settling` is about the other kind of item. No two records in a list are `is_same`
(`NoTwins`), because that is what keeps them out of it; so a list of an item with two
records of one time lacks one of them and is never as long as the device says (`TwinsStay`), and a query for it is
for ever on its way into the queue or in it (`Lasting`).

Of the wrap itself nothing is claimed: once `ctx` has gone round, a late answer may
meet a younger query. `ToldOnce` and `QueriesSettle` say so in their conditions because TLC showed them
false without. `ToldOnce`: with `Limit` 2, one item of four records, two record items and batches of
one, the rest of the first answer reaches the second query for the same item, which
then tells a record twice, with no fault at all. `QueriesSettle`: with `Limit` 3 and
a queue of three, four record items and batches of two, the rest of an answer that ran out of record items reaches a
younger query with the same ctx, whose list then jumps over its number and stays in
the queue for ever. In the code (1024 against 0x7FFFFFFF) and in `MCRecQuery` the condition on
the full queue, `Len(asked) <= MaxMsg + 1`, implies this one.

**Parser.** While no send is cut, the parser stands at the first byte of a frame
whenever its buffer is not empty, what is in the buffer and what is still in the
socket are the tail of what was sent, and what was handed is its head.

With cuts that is lost, and `CutInv` says what remains. Of the stream: *some* positions `off`
and *some* set `cut`, as large as `cuts`, fit, such that every request outside of
`cut` stands whole at its position (`Standing`). Of the parser: *some* positions
`pos` fit, from which the messages handed over were read, one behind the other, and at every
other position before the parser's place (`Place`) no message starts (`Read`); the search
passes over a position only if what is there can never become a frame (`SkippedIs`).
And when the loop ends, nothing complete is left in the buffer (`Settled`). Each
step changes one of the three. Both properties then follow by counting, without
another induction: a message with the wrong addresses belongs to a request in
`cut`, each to another one; a request that stands whole and is lost was overlapped
by a message handed over from before it, which starts with the header of a request in
`cut`, each again of another one, because a frame of 36 bytes reaches into
one whole frame only (`LostIsOverlapped`).

**Switch.** `IInv` is the typing with `Good(sw)`: `Placed` (a member is in the
pool, or on one list and in its bucket), `Slots` (one slot per address, used
as long as needed), `Bounded` and `NeededBut`. `Good` is stated of a table, not of
the state, so that it can be followed through the up to three table operations
of one command. `ToldInv` adds the two sockets: serial numbers are in order, the
last call is the last command, so that only its own acknowledgement ends a wait. And of each
command that waits (`WaitingSpares`): whatever it may take from the tables by the time it
is carried out (`Taken`), no rule that was promised goes with it unless it is in `swept`.
`SwitchForwards` then maps each command to one step of `Forwarding` or to none.

**The call: dialogs and answers** (`RmtCallProofs`, first part). `DlgPoolProofs` is
instantiated with `asked` computed from the two sockets, so that its invariant needs
no second proof: `TInv` is the typing, that invariant, and `Aimed`, that a request and
its reply name the item the dialog is listed under. Each handler of `RmtCall` is shown to be a step of `DlgPool`
or to leave its variables alone; what a handler takes from one socket and puts
into the other is counted by `InvitesFor` and `RepliesFor`. `AnswerInv` then says of
each platform where the message is that it waits for: its INVITE, the request, the reply, or the
answer.

**The call: transmitters** (`RmtCallProofs`, second part). The difficulty is that the GB
server forgets a dialog on BYE, so that a new call may have the dialog before the
message centre has released the old call's transmitter: neither the dialog table nor
the sockets say who a transmitter belongs to. `GrantInv` says that *some* function
`own` from transmitters to dialogs fits: every granted transmitter is owned by
the dialog that has it or is about to get it (`Granted`), and one that a BYE gives
back is owned by a dialog that has let go of it and is granted no other before
that BYE is read (`GivenBack`). Owners are then different, hence no more
transmitters are held than there are dialogs, and one is left for the request at the
head of the queue. `OwnInv` follows a forwarding through the three queues: the dialog is listed under
the call's item (`Listing`), its transmitter sends to the call (`Aims`), an ACK
under way names a transmitter that is still its dialog's or is given back behind it (`Acks`),
and behind every ADD_SWITCH there is an owner or a DEL_SWITCH (`Switches`). `Meanings`
adds that what follows from an ACK is about a platform that accepted, and what
follows from a BYE about one that hung up; with both, each step is a step of
`MediaService` (`Served`, the safety half of `ImplementsMediaService`).

**Catalogue.** `EntriesAgree` rests on `Sources` (every item on its way is one of a
registered device's) and `Entries` (what is to be added to the device table is in the
catalogue already). `OneInvite` needs the count `Sent`, the INVITEs an item was sent
and those queued: at most one for its `play` flag and one for the race (`Invited`).
`ToldAllButLast` rests on `Saying`: what was told and what is queued for a query is
together what the table held when it was answered. `ItemsKnown` is about quiet states without faults, and is proved from where
an item is before that: in a query or answer on its way, in `rest`, in the
queue of the message centre, or in the table (`Answering`, `Adding`, `Truth`,
`Playing`). That the tables then hold the smallest of the three numbers is a
count of sets (`QuietKnown`).

**Only model-checked.** Liveness, which is out of the prover's reach: the liveness
half of `ImplementsMediaService`, and `EveryInviteAnswered`. Every invariant of every
passing run is proved.

## Not modelled, and why

* SIP and XML parsing and formatting, SDP, RTP and PS/TS: data without the
  concurrency and state that matter here. `osp`, the SDK, the GUI, the GB28181 client
  library: not part of the three programs, or wrappers of the operating system.
* `src/20-opensrc` (ffmpeg and others) and most of `src/40-protocol`: third-party or
  vendored libraries and codec tables. They are nearly all of the repository's
  lines, so the mapped share of the whole tree stays small whatever is modelled of
  the server itself.
* The digest check of REGISTER: its outcome is an input (`RegisterRefused`).
* Start, stop and destruction of `MsgServer`: `vsserver` starts it once and never
  stops it.
* The mutex of the message centre: it is not recursive (`mc.cpp:467`) and is held when
  `epoll_wait` returns with EINTR, whereupon the loop locks it again
  (`mc.cpp:306`). The thread stops there for ever; there is no step after it that a
  property could speak of.
* `snd_buf` (`mc.cpp:408`), which both threads of the message centre fill, and the
  fields of an item that `query_cata_log` reads while `add` writes them: a data race
  with no order the code relies on.
* Datagram sockets that fill (`mc.cpp:419`): each thread would wait in `sendto` for the
  other. The kernel's queue length decides, and nothing in the code does. The
  queues between threads have no bound of their own in the models.

## Further work

1. `DevTable`: `catalog_item_table` and `snd_buf` with two threads, store by
   store, in place of `McAddItemRaced`.
2. `DgramLink`: the two datagram sockets with finite buffers and blocking sends.
