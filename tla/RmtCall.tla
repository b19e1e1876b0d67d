------------------------------- MODULE RmtCall -------------------------------
(***************************************************************************)
(* A remote platform calls for the video of an item: the path of INVITE,   *)
(* ACK and BYE through the GB server (module DlgPool), the message centre  *)
(* with its device table (module Transmitter) and the VTDU, and back.      *)
(*                                                                         *)
(*   platform <-- UDP --> GBlink thread <-- unix datagrams --> MsgServer   *)
(*                                            thread --> VTDU thread       *)
(*                                                                         *)
(* Each thread takes one message from its socket and runs its handler to   *)
(* the end.  A leg is one call of a platform: it has a Call-ID, a From tag *)
(* and an RTP address of its own.  What the network and sendto may do      *)
(* beyond keeping every message in order is one of the sets in Faults:     *)
(*   "loss"      UDP drops a message                                       *)
(*   "late"      UDP delivers a repeated INVITE after the call went on     *)
(*   "earlyBye"  a BYE reaches a dialog before the message centre's reply: *)
(*               a platform gave up early, or a repeated BYE met a dialog  *)
(*               that a late INVITE has opened again                       *)
(*   "sendto"    sendto returns an error                                   *)
(***************************************************************************)
EXTENDS Integers, Sequences, FiniteSets

CONSTANTS
    Leg,        \* the calls of the platforms
    NumItem,    \* catalogue items of the GB server, 0 .. NumItem - 1
    Target,     \* the item each leg calls for
    NumDlg, NumTrans, NumChan, Null,
    MaxExtra,   \* bound: requests that repeat one, of all legs together
    Faults      \* the sets of faults, one of which each behaviour is exposed to

ASSUME TargetAssumption == Target \in [Leg -> Nat]
ASSUME MaxExtraAssumption == MaxExtra \in Nat
ASSUME FaultsAssumption == Faults \subseteq SUBSET {"loss", "late", "earlyBye", "sendto"}
ASSUME LegAssumption == IsFiniteSet(Leg) /\ Leg # {}
ASSUME SizesAssumption == NumItem \in Nat /\ {NumDlg, NumTrans, NumChan} \subseteq Nat \ {0}

Item == 0 .. NumItem - 1
FarTag == "far"
NearTag == "near"

ASSUME NullAssumption == Null \notin Leg /\ Null \notin Nat /\ Null \notin {FarTag, NearTag}

\* Ids from NumTrans on name no transmitter; NumTrans stands for them all.
TransId == 0 .. NumTrans

VARIABLES
    dlg, free, caller,              \* GB server, see DlgPool
    unused, nxt, head, ch, to,      \* device table, see Transmitter
    toMC, toGB, toVtdu,             \* sockets between the threads
    switches,                       \* forwardings of the VTDU: <<channel, address>>
    phase,                          \* per leg: the platform's view
    extra,                          \* requests repeated so far
    up, down,                       \* per leg: UDP to and from the GB server
    faults                          \* what goes wrong in this behaviour

gbVars == <<dlg, free, caller>>
devVars == <<unused, nxt, head, ch, to>>
legVars == <<phase, extra, faults>>
vars == <<dlg, free, caller, unused, nxt, head, ch, to, toMC, toGB, toVtdu,
          switches, phase, extra, up, down, faults>>

-----------------------------------------------------------------------------
\* Every INVITE that is ever sent: as a bound of Asked it stops nothing.
MaxInvites == MaxExtra + Cardinality(Leg)

\* Requests for dialog d on their way to the message centre or back.
Asked == [d \in 0 .. NumDlg - 1 |->
            Cardinality({k \in DOMAIN toMC : toMC[k].type = "INVITE" /\ toMC[k].dlg = d})
            + Cardinality({k \in DOMAIN toGB : toGB[k].dlg = d})]

D == INSTANCE DlgPool WITH
        CallId <- Leg, Tag <- {FarTag, NearTag}, asked <- Asked, up <- TRUE,
        SendCanFail <- \E f \in Faults : "sendto" \in f,
        MemCanFail <- FALSE, CompareCanFail <- FALSE, lost <- {},
        MaxAsked <- MaxInvites

T == INSTANCE Transmitter WITH Addr <- Leg, held <- {}

Init ==
    /\ toMC = <<>> /\ toGB = <<>> /\ toVtdu = <<>>
    /\ D!Init
    /\ T!Init
    /\ switches = {}
    /\ phase = [l \in Leg |-> "idle"]
    /\ extra = 0
    /\ up = [l \in Leg |-> <<>>]
    /\ down = [l \in Leg |-> <<>>]
    /\ faults \in Faults

-----------------------------------------------------------------------------
(* The GB server: UDP requests *)

\* The platforms put a tag into From, as RFC 3261 wants it.
ReqOf(l) == [cid |-> l, rtag |-> FarTag, ttag |-> NearTag, unread |-> {}]

\* A BYE of this call would find its dialog without a transmitter id.
StillInviting(l) ==
    /\ Target[l] \in Item
    /\ \E k \in DOMAIN caller[Target[l]] :
          /\ D!FoundAt(Target[l], k, ReqOf(l))
          /\ dlg[caller[Target[l]][k]].state = "INVITING"

\* UDP delivers what the platform sent.
Arrives(l, method) ==
    /\ up[l] # <<>>
    /\ Head(up[l]) = method
    /\ method = "BYE" /\ "earlyBye" \notin faults => ~StillInviting(l)
    /\ up' = [up EXCEPT ![l] = Tail(@)]

Answer(l, code) == down' = [down EXCEPT ![l] = Append(@, code)]

\* CGbServer::deal_rmt_invite: the answers that need no message centre.
GbInviteRefused(l) ==
    /\ Arrives(l, "INVITE")
    /\ \/ Target[l] \notin Item /\ UNCHANGED gbVars         \* 400
       \/ /\ Target[l] \in Item
          /\ UNCHANGED <<toMC, toGB>>
          /\ \/ D!InviteFull(Target[l], ReqOf(l))           \* 503
             \/ /\ "sendto" \in faults
                /\ D!InviteNewUnsent(Target[l], ReqOf(l))   \* 500
    /\ Answer(l, "FAIL")
    /\ UNCHANGED <<devVars, toMC, toGB, toVtdu, switches, legVars>>

\* A repeated INVITE of a known dialog gets no answer.
GbInviteRepeated(l) ==
    /\ Arrives(l, "INVITE")
    /\ Target[l] \in Item
    /\ UNCHANGED <<toMC, toGB>>
    /\ D!InviteBusy(Target[l], ReqOf(l))
    /\ UNCHANGED <<devVars, toVtdu, switches, legVars, down>>

GbInvite(l) ==
    /\ Arrives(l, "INVITE")
    /\ Target[l] \in Item
    /\ free # <<>>
    /\ toMC' = Append(toMC, [type |-> "INVITE", dlg |-> Head(free), leg |-> l])
    /\ UNCHANGED toGB
    /\ D!InviteNew(Target[l], ReqOf(l))
    /\ UNCHANGED <<devVars, toVtdu, switches, legVars, down>>

\* CGbServer::deal_rmt_ack.
GbAck(l) ==
    /\ Arrives(l, "ACK")
    /\ UNCHANGED toGB
    /\ \/ /\ \/ Target[l] \notin Item
             \/ Target[l] \in Item /\ D!NotFound(Target[l], ReqOf(l))
          /\ UNCHANGED toMC
       \/ /\ Target[l] \in Item
          /\ \E k \in DOMAIN caller[Target[l]] :
                /\ D!FoundAt(Target[l], k, ReqOf(l))
                /\ toMC' = Append(toMC, [type |-> "ACK",
                                         tid |-> dlg[caller[Target[l]][k]].tid])
       \/ /\ "sendto" \in faults
          /\ UNCHANGED toMC
    /\ UNCHANGED <<gbVars, devVars, toVtdu, switches, legVars, down>>

\* Mutant of GbBye: the transmitter id is read after the dialog was reset.
GbByeReadsLate(l) ==
    /\ Arrives(l, "BYE")
    /\ Target[l] \in Item
    /\ UNCHANGED toGB
    /\ \E k \in DOMAIN caller[Target[l]] :
          /\ D!FoundAt(Target[l], k, ReqOf(l))
          /\ toMC' = Append(toMC, [type |-> "BYE", tid |-> D!Blank.tid])
          /\ D!ByeAt(Target[l], k)
    /\ Answer(l, "BYE200")
    /\ UNCHANGED <<devVars, toVtdu, switches, legVars>>

\* CGbServer::deal_rmt_bye: the answer is 200 even if the message centre
\* could not be told.
GbBye(l) ==
    /\ Arrives(l, "BYE")
    /\ Target[l] \in Item
    /\ UNCHANGED toGB
    /\ \E k \in DOMAIN caller[Target[l]] :
          /\ D!FoundAt(Target[l], k, ReqOf(l))
          /\ \/ toMC' = Append(toMC, [type |-> "BYE",
                                      tid |-> dlg[caller[Target[l]][k]].tid])
             \/ "sendto" \in faults /\ UNCHANGED toMC
          /\ D!ByeAt(Target[l], k)
    /\ Answer(l, "BYE200")
    /\ UNCHANGED <<devVars, toVtdu, switches, legVars>>

GbByeUnknown(l) ==
    /\ Arrives(l, "BYE")
    /\ Target[l] \in Item => D!NotFound(Target[l], ReqOf(l))
    /\ Answer(l, "BYE400")
    /\ UNCHANGED <<gbVars, devVars, toMC, toGB, toVtdu, switches, legVars>>

(* The GB server: replies of the message centre *)

\* CGbServer::deal_inter_msg, MN_GB_RMT_INVITE_MEDIA: 503 without a local RTP
\* address, else 200; either way the dialog takes the reply's transmitter id.
GbReply ==
    /\ toGB # <<>>
    /\ toGB' = Tail(toGB)
    /\ UNCHANGED toMC
    /\ LET r == Head(toGB)
       IN  \/ /\ D!MediaReply(r.dlg, NearTag, r.tid)
              /\ Answer(r.leg, IF r.addr THEN "OK" ELSE "FAIL")
           \/ /\ "sendto" \in faults
              /\ D!MediaReplyUnsent(r.dlg)
              /\ UNCHANGED down
    /\ UNCHANGED <<devVars, toVtdu, switches, legVars, up>>

-----------------------------------------------------------------------------
(* The message centre's thread: module Transmitter behind CNvsCore::deal_msg *)

FromGb(type) ==
    /\ toMC # <<>>
    /\ Head(toMC).type = type
    /\ toMC' = Tail(toMC)

Unsent(q) == "sendto" \in faults /\ UNCHANGED q

\* Mutants of Reply: a return before send_to_gb; the dialog's id not copied.
ReplyMissing(m, addr, tid) == UNCHANGED toGB
ReplyNoDlg(m, addr, tid) ==
    toGB' = Append(toGB, [dlg |-> 0, leg |-> m.leg, addr |-> addr, tid |-> tid])

Reply(m, addr, tid) ==
    \/ toGB' = Append(toGB, [dlg |-> m.dlg, leg |-> m.leg, addr |-> addr, tid |-> tid])
    \/ Unsent(toGB)

\* rmt_invite_media always replies.  Without a transmitter the reply carries
\* no RTP address and the transmitter id that nobody ever set.
DevInvite ==
    /\ FromGb("INVITE")
    /\ LET m == Head(toMC)
           c == Target[m.leg]
       IN  \/ /\ c \in T!Chan
              /\ T!Take(unused, c, m.leg)
              /\ Reply(m, TRUE, unused)
           \/ /\ T!CannotTake(c)
              /\ \E garbage \in TransId : Reply(m, FALSE, garbage)
              /\ UNCHANGED devVars
    /\ UNCHANGED <<gbVars, toVtdu, switches, legVars, up, down>>

\* rmt_ack_media and rmt_bye_media ignore an id outside the table.
Ignored(t) == t \notin T!Trans /\ UNCHANGED <<toVtdu, devVars>>

TellVtdu(op, t) ==
    \/ toVtdu' = Append(toVtdu, [op |-> op, ch |-> ch[t], to |-> to[t]])
    \/ Unsent(toVtdu)

DevAck ==
    /\ FromGb("ACK")
    /\ LET t == Head(toMC).tid
       IN  \/ Ignored(t)
           \/ t \in T!Trans /\ TellVtdu("ADD", t) /\ UNCHANGED devVars
    /\ UNCHANGED <<gbVars, toGB, switches, legVars, up, down>>

\* Mutants of DevBye: the node is not given back; the VTDU is not told.
DevByeKeepsNode ==
    /\ FromGb("BYE")
    /\ LET t == Head(toMC).tid
       IN  \/ Ignored(t)
           \/ t \in T!Trans /\ TellVtdu("DEL", t) /\ UNCHANGED devVars
    /\ UNCHANGED <<gbVars, toGB, switches, legVars, up, down>>

DevByeTellsNobody ==
    /\ FromGb("BYE")
    /\ LET t == Head(toMC).tid
       IN  \/ Ignored(t)
           \/ t \in T!Trans /\ T!GiveBack(t) /\ UNCHANGED toVtdu
    /\ UNCHANGED <<gbVars, toGB, switches, legVars, up, down>>

\* The node goes back to the free table whether the VTDU was told or not.
DevBye ==
    /\ FromGb("BYE")
    /\ LET t == Head(toMC).tid
       IN  \/ Ignored(t)
           \/ t \in T!Trans /\ TellVtdu("DEL", t) /\ T!GiveBack(t)
    /\ UNCHANGED <<gbVars, toGB, switches, legVars, up, down>>

-----------------------------------------------------------------------------
\* Mutant of VtduSwitch: address 0:0 is forwarded to like any other.
VtduSwitchNoDump ==
    /\ toVtdu # <<>>
    /\ toVtdu' = Tail(toVtdu)
    /\ LET s == <<Head(toVtdu).ch, Head(toVtdu).to>>
       IN  switches' = IF Head(toVtdu).op = "ADD" THEN switches \cup {s} ELSE switches \ {s}
    /\ UNCHANGED <<gbVars, devVars, toMC, toGB, legVars, up, down>>

\* The VTDU's thread.  Adding a forwarding twice leaves one; address 0:0 (the
\* dump destination) forwards nothing.
VtduSwitch ==
    /\ toVtdu # <<>>
    /\ toVtdu' = Tail(toVtdu)
    /\ LET m == Head(toVtdu)
       IN  switches' = CASE m.to = Null -> switches
                         [] m.to # Null /\ m.op = "ADD" -> switches \cup {<<m.ch, m.to>>}
                         [] m.to # Null /\ m.op = "DEL" -> switches \ {<<m.ch, m.to>>}
    /\ UNCHANGED <<gbVars, devVars, toMC, toGB, legVars, up, down>>

-----------------------------------------------------------------------------
(* The platforms (external) *)

Send(l, method) == up' = [up EXCEPT ![l] = Append(@, method)]
Receives(l, code) ==
    /\ down[l] # <<>>
    /\ Head(down[l]) = code
    /\ down' = [down EXCEPT ![l] = Tail(@)]
Goes(l, from, p) == phase[l] = from /\ phase' = [phase EXCEPT ![l] = p]

sysVars == <<gbVars, devVars, toMC, toGB, toVtdu, switches, faults>>

Repeats == extra < MaxExtra /\ extra' = extra + 1

\* The first INVITE, and the ones repeated while no answer comes.
Invite(l) ==
    /\ \/ phase[l] = "idle" /\ UNCHANGED extra
       \/ phase[l] = "calling" /\ Repeats
    /\ phase' = [phase EXCEPT ![l] = "calling"]
    /\ Send(l, "INVITE")
    /\ UNCHANGED <<sysVars, down>>

\* A 200 or an error ends the INVITE; each is acknowledged.
Answered(l) ==
    /\ \/ Receives(l, "OK") /\ Goes(l, "calling", "confirmed")
       \/ Receives(l, "FAIL") /\ Goes(l, "calling", "refused")
    /\ Send(l, "ACK")
    /\ UNCHANGED <<sysVars, extra>>

HangUp(l) ==
    /\ \/ Goes(l, "confirmed", "closing")
       \/ "earlyBye" \in faults /\ Goes(l, "calling", "closing")
    /\ Send(l, "BYE")
    /\ UNCHANGED <<sysVars, extra, down>>

\* The BYE again while no answer comes.
HangUpAgain(l) ==
    /\ phase[l] = "closing"
    /\ Repeats
    /\ Send(l, "BYE")
    /\ UNCHANGED <<sysVars, phase, down>>

Closed(l) ==
    /\ Receives(l, "BYE200") \/ Receives(l, "BYE400")
    /\ Goes(l, "closing", "closed")
    /\ UNCHANGED <<sysVars, extra, up>>

\* An answer the platform no longer waits for.
Stray(l) ==
    /\ down[l] # <<>>
    /\ \/ phase[l] # "calling" /\ Head(down[l]) \in {"OK", "FAIL"}
       \/ phase[l] # "closing" /\ Head(down[l]) \in {"BYE200", "BYE400"}
    /\ down' = [down EXCEPT ![l] = Tail(@)]
    /\ UNCHANGED <<sysVars, legVars, up>>

(* UDP (external) *)

Lose(l) ==
    /\ "loss" \in faults
    /\ \/ up[l] # <<>> /\ up' = [up EXCEPT ![l] = Tail(@)] /\ UNCHANGED down
       \/ down[l] # <<>> /\ down' = [down EXCEPT ![l] = Tail(@)] /\ UNCHANGED up
    /\ UNCHANGED <<sysVars, legVars>>

\* A repeated INVITE overtaken by what the platform sent later.
LateInvite(l) ==
    /\ "late" \in faults
    /\ phase[l] # "idle"
    /\ Repeats
    /\ Send(l, "INVITE")
    /\ UNCHANGED <<sysVars, phase, down>>

-----------------------------------------------------------------------------
GbStep ==
    \/ \E l \in Leg : \/ GbInvite(l) \/ GbInviteRefused(l) \/ GbInviteRepeated(l)
                      \/ GbAck(l) \/ GbBye(l) \/ GbByeUnknown(l)
    \/ GbReply

DevStep == DevInvite \/ DevAck \/ DevBye

Platform(l) ==
    \/ Invite(l) \/ Answered(l) \/ HangUp(l) \/ HangUpAgain(l)
    \/ Closed(l) \/ Stray(l)

Network(l) == Lose(l) \/ LateInvite(l)

Next ==
    \/ GbStep
    \/ DevStep
    \/ VtduSwitch
    \/ \E l \in Leg : Platform(l) \/ Network(l)

Spec == Init /\ [][Next]_vars

\* Each thread's loop serves its sockets again and again, and a platform reads
\* what it is sent; when a platform calls or hangs up is up to its user.
Fairness ==
    /\ \A l \in Leg :
          /\ WF_vars(GbInvite(l) \/ GbInviteRefused(l) \/ GbInviteRepeated(l)
                     \/ GbAck(l) \/ GbBye(l) \/ GbByeUnknown(l))
          /\ WF_vars(Answered(l) \/ Closed(l) \/ Stray(l))
    /\ WF_vars(GbReply)
    /\ WF_vars(DevStep)
    /\ WF_vars(VtduSwitch)

FairSpec == Spec /\ Fairness

-----------------------------------------------------------------------------
(* Properties *)

Method == {"INVITE", "ACK", "BYE"}
Code == {"OK", "FAIL", "BYE200", "BYE400"}

ToMcMsg ==
    [type : {"INVITE"}, dlg : D!DlgId, leg : Leg] \cup [type : {"ACK", "BYE"}, tid : TransId]
ToGbMsg == [dlg : D!DlgId, leg : Leg, addr : BOOLEAN, tid : TransId]
ToVtduMsg == [op : {"ADD", "DEL"}, ch : T!Chan \cup {Null}, to : Leg \cup {Null}]

\* Every variable keeps its type.
TypeOK ==
    /\ D!TypeOK
    /\ T!TypeOK
    /\ toMC \in Seq(ToMcMsg) /\ toGB \in Seq(ToGbMsg) /\ toVtdu \in Seq(ToVtduMsg)
    /\ switches \subseteq T!Chan \X Leg
    /\ phase \in [Leg -> {"idle", "calling", "confirmed", "refused", "closing", "closed"}]
    /\ extra \in 0 .. MaxExtra
    /\ up \in [Leg -> Seq(Method)] /\ down \in [Leg -> Seq(Code)]
    /\ faults \in Faults

\* The handlers of this composition are those of DlgPool, with the requests in
\* flight counted in the sockets.
ImplementsDlgPool == D!Spec

\* The transmitters the GB server has been granted and not given back: in a
\* reply on the way, in an answered dialog, in a BYE on the way.
Held ==
    {toGB[k].tid : k \in {j \in DOMAIN toGB : toGB[j].addr}}
    \cup {dlg[d].tid : d \in {e \in D!DlgId : D!Listed(e) /\ dlg[e].state = "RESPONDED"}}
    \cup {toMC[k].tid : k \in {j \in DOMAIN toMC : toMC[j].type = "BYE"}}

HT == INSTANCE Transmitter WITH Addr <- Leg, held <- Held

\* The device table has a transmitter for every dialog and knows every item of
\* the GB server; else a reply may carry a transmitter id that nobody set.
Ample == NumDlg <= NumTrans /\ NumItem <= NumChan

\* No BYE overtakes the reply it depends on, and every datagram is taken.
Kept == Ample /\ faults \cap {"earlyBye", "sendto"} = {}

\* The GB server gives back each transmitter it was granted, once, and no
\* other: together with the device table it is a Transmitter in good hands,
\* whatever UDP loses or delays.
ImplementsTransmitter == (Kept => HT!Init) /\ [][Kept => HT!Next]_(HT!vars)

\* The server as a whole keeps the promises of MediaService.
M == INSTANCE MediaService WITH stream <- {s[2] : s \in switches}
ImplementsMediaService == M!Spec

\* There is a dialog for every call, so that no INVITE gets a 503.  With fewer,
\* the ACK of the 503 may find the dialog that a repeated INVITE has got in the
\* meantime: it is read before it has a transmitter, as transmitter 0.
Roomy == Cardinality(Leg) <= NumDlg

\* A forwarding to a platform has an owner: the answered dialog of that
\* platform, or the BYE or DEL_SWITCH that is on its way to end it.
ForwardingIsOwned ==
    Kept /\ Roomy => \A s \in switches :
        LET mine(t) == ch[t] = s[1] /\ to[t] = s[2]
        IN  \/ \E d \in D!DlgId : /\ D!InCallers(d, s[1])
                                  /\ dlg[d].cid = s[2]
                                  /\ dlg[d].tid \in T!Trans /\ mine(dlg[d].tid)
            \/ \E k \in DOMAIN toMC : /\ toMC[k].type = "BYE"
                                      /\ toMC[k].tid \in T!Trans /\ mine(toMC[k].tid)
            \/ \E k \in DOMAIN toVtdu : toVtdu[k] = [op |-> "DEL", ch |-> s[1], to |-> s[2]]

\* Where nothing is lost, a platform waits for an answer only while its INVITE,
\* the request at the message centre, the reply or the answer is on the way.
WaitsForSomething ==
    faults \cap {"loss", "sendto"} = {} => \A l \in Leg : phase[l] = "calling" =>
        \/ up[l] # <<>>
        \/ down[l] # <<>>
        \/ \E k \in DOMAIN toMC : toMC[k].type = "INVITE" /\ toMC[k].leg = l
        \/ \E k \in DOMAIN toGB : toGB[k].leg = l

\* While sendto does not fail, a dialog that is INVITING has a request at the
\* message centre: the caller whose repeated INVITEs are ignored still has an
\* answer coming (add_rmt_invite_dialog against the messages in the sockets).
InvitingIsAsked == D!InvitingIsAsked

\* With at least as many transmitters as dialogs the device table never runs
\* short: a call that got a dialog gets a transmitter, although dialogs and
\* transmitters are freed by two threads.
TransmitterForDialog ==
    Kept /\ toMC # <<>> /\ Head(toMC).type = "INVITE"
        => ~T!CannotTake(Target[Head(toMC).leg])

\* item.cpp says in rmt_bye_media: "give up one node to the free table".  A
\* BYE would then find the transmitter granted and leave it free.
OneNodeFreed ==
    [][\A t \in T!Trans :
         toMC # <<>> /\ Head(toMC) = [type |-> "BYE", tid |-> t] /\ toMC' = Tail(toMC)
           => t \notin T!Reach(unused) /\ t \in T!Reach(unused)']_vars

\* Whatever the tables lack, every INVITE is answered, by the GB server itself
\* or after the message centre's reply.
EveryInviteAnswered == \A l \in Leg : phase[l] = "calling" ~> phase[l] # "calling"
=============================================================================
