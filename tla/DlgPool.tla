------------------------------- MODULE DlgPool -------------------------------
(***************************************************************************)
(* The SIP dialogs of the GB28181 server: the pool CDlgQueue, the list of  *)
(* remote callers that CGbCatalog keeps for every catalogue item, and the  *)
(* handlers that work on them.  They all run on the "GBlink" thread, one   *)
(* at a time, so that every handler is one action.                         *)
(*                                                                         *)
(*   INVITE from the network  CGbCatalog::add_rmt_invite_dialog(msg, ...)  *)
(*   ACK from the network     CGbCatalog::find_rmt_ack_dialog              *)
(*   BYE from the network     CGbCatalog::find_rmt_bye_dialog              *)
(*   reply of the message     CGbCatalog::add_rmt_invite_dialog(item, dlg, *)
(*   centre                       transmitter, msg)                        *)
(*                                                                         *)
(* The two singly linked lists are sequences, head first.  A request is    *)
(* what the matching code reads of it: Call-ID, From tag, To tag (either    *)
(* header may come without one), and the dialogs whose Call-ID could not be *)
(* compared with it because osip_call_id_to_str got no memory.              *)
(***************************************************************************)
EXTENDS Integers, Sequences

CONSTANTS
    NumDlg,     \* queue_len, the number of dialogs in the pool
    Item,       \* the catalogue items the GB server knows
    CallId,     \* SIP Call-ID values
    Tag,        \* SIP tags
    Null,       \* a NULL pointer, and "no tag in this header"
    TransId,    \* transmitter ids (uint32_t)
    SendCanFail,\* sendto may return an error
    MemCanFail, \* osip_strdup may find no memory for a copy that is kept
    CompareCanFail, \* nor osip_call_id_to_str for the Call-ID it compares
    MaxAsked    \* bound: requests in flight to the message centre per dialog

ASSUME NumDlgAssumption == NumDlg \in Nat \ {0}
ASSUME NullAssumption   == Null \notin CallId /\ Null \notin Tag
ASSUME TransIdAssumption == TransId \subseteq Nat /\ 0 \in TransId
ASSUME SendCanFailAssumption == SendCanFail \in BOOLEAN
ASSUME MemCanFailAssumption == MemCanFail \in BOOLEAN
ASSUME CompareCanFailAssumption == CompareCanFail \in BOOLEAN
ASSUME MaxAskedAssumption == MaxAsked \in Nat \ {0}

DlgId == 0 .. NumDlg - 1

\* The states of enum EDialogState that the code ever assigns.
DialogState == {"READY", "INVITING", "RESPONDED"}

Dialog == [state : DialogState,
           cid   : CallId \cup {Null},     \* call_id
           rtag  : Tag \cup {Null},        \* remote_tag
           ltag  : Tag \cup {Null},        \* local_tag
           tid   : TransId]                \* transmitter_id

\* What the matching functions read of a request: rtag is the From tag, ttag
\* the To tag, unread the dialogs where osip_call_id_to_str failed.
Request == [cid : CallId, rtag : Tag \cup {Null}, ttag : Tag \cup {Null},
            unread : IF CompareCanFail THEN SUBSET DlgId ELSE {{}}]

\* What osip_strdup may give in place of its argument.
NoCopy == IF MemCanFail THEN {Null} ELSE {}

VARIABLES
    dlg,        \* the array of dialogs
    free,       \* free_head and the chain behind it
    caller,     \* rmt_caller of every item and the chain behind it
    asked,      \* per dialog: INVITEs handed to the message centre, unanswered
    up,         \* the process has not crashed
    lost        \* history: the dialogs popped and then dropped (-ENOMEM)

vars == <<dlg, free, caller, asked, up, lost>>

-----------------------------------------------------------------------------
\* Mutant of Blank: reset marks the transmitter id as invalid.
BlankNoId == [state |-> "READY", cid |-> Null, rtag |-> Null, ltag |-> Null, tid |-> -1]

\* CDialog::reset
Blank == [state |-> "READY", cid |-> Null, rtag |-> Null, ltag |-> Null, tid |-> 0]

Init ==
    /\ dlg = [d \in DlgId |-> Blank]
    /\ free = [k \in 1 .. NumDlg |-> k - 1]
    /\ caller = [i \in Item |-> <<>>]
    /\ asked = [d \in DlgId |-> 0]
    /\ up = TRUE
    /\ lost = {}

\* A handler that changes nothing here.
Same == UNCHANGED <<dlg, free, caller, lost>> /\ asked' = asked /\ up' = up

-----------------------------------------------------------------------------
\* The first steps of both matching functions: the Call-ID could be compared
\* and is that of the dialog, and the request has a From tag.
SameCall(d, m) == d \notin m.unread /\ dlg[d].cid = m.cid /\ m.rtag # Null

\* Mutant of InviteMatch: the To tag in place of the From tag.
InviteMatchTo(d, m) == SameCall(d, m) /\ dlg[d].ltag = m.ttag

\* CDialog::invite_match_as_uas: the Call-ID and the From tag.
InviteMatch(d, m) == SameCall(d, m) /\ dlg[d].rtag = m.rtag

\* Its strcmp gets the NULL remote_tag of a call that came without From tag.
InviteNull(d, m) == SameCall(d, m) /\ dlg[d].rtag = Null

\* CDialog::ack_match_as_uas: the Call-ID, and the From tag or the To tag.
AckMatch(d, m) ==
    /\ SameCall(d, m)
    /\ dlg[d].rtag # Null
    /\ \/ dlg[d].rtag = m.rtag
       \/ m.ttag # Null /\ dlg[d].ltag = m.ttag

\* Its first strcmp gets a NULL remote_tag or the second a NULL local_tag.
NullCompare(d, m) ==
    /\ SameCall(d, m)
    /\ \/ dlg[d].rtag = Null
       \/ dlg[d].rtag # m.rtag /\ m.ttag # Null /\ dlg[d].ltag = Null

Stops(d, m) == AckMatch(d, m) \/ NullCompare(d, m)

\* The walk over item i's callers ends at its k-th dialog.
WalkEndsAt(i, k, m) ==
    /\ k \in 1 .. Len(caller[i])
    /\ Stops(caller[i][k], m)
    /\ \A j \in 1 .. k - 1 : ~Stops(caller[i][j], m)

FoundAt(i, k, m) == WalkEndsAt(i, k, m) /\ AckMatch(caller[i][k], m)
CrashAt(i, k, m) == WalkEndsAt(i, k, m) /\ NullCompare(caller[i][k], m)
NotFound(i, m)   == \A k \in 1 .. Len(caller[i]) : ~Stops(caller[i][k], m)

\* Mutant of WithoutAt: the first dialog is unlinked, not the one found.
WithoutFirst(s, k) == Tail(s)

WithoutAt(s, k) == SubSeq(s, 1, k - 1) \o SubSeq(s, k + 1, Len(s))

-----------------------------------------------------------------------------
\* The walk of add_rmt_invite_dialog ends at a dialog of this call, at one it
\* cannot compare, or at the end of the list.
InviteKnown(i, m) ==
    \E k \in 1 .. Len(caller[i]) :
        /\ InviteMatch(caller[i][k], m)
        /\ \A j \in 1 .. k - 1 : ~InviteNull(caller[i][j], m)

InviteCrash(i, m) ==
    \E k \in 1 .. Len(caller[i]) :
        /\ InviteNull(caller[i][k], m)
        /\ \A j \in 1 .. k - 1 : ~InviteMatch(caller[i][j], m)

InviteUnknown(i, m) ==
    \A k \in 1 .. Len(caller[i]) :
        ~InviteMatch(caller[i][k], m) /\ ~InviteNull(caller[i][k], m)

\* A repeated INVITE: invite_update_as_uas refreshes times and addresses,
\* which nothing reads, and the handler returns -EBUSY.
InviteBusy(i, m) ==
    /\ up
    /\ InviteKnown(i, m)
    /\ Same

\* CDlgQueue::pop returns NULL: -EAGAIN.
InviteFull(i, m) ==
    /\ up
    /\ InviteUnknown(i, m)
    /\ free = <<>>
    /\ Same

\* invite_add_as_uac gets no memory for the Call-ID: -ENOMEM, and the dialog
\* that was popped is put nowhere.
InviteNoMem(i, m) ==
    /\ up
    /\ MemCanFail
    /\ InviteUnknown(i, m)
    /\ free # <<>>
    /\ free' = Tail(free)
    /\ lost' = lost \cup {Head(free)}
    /\ UNCHANGED <<dlg, caller>> /\ asked' = asked /\ up' = up

\* A new dialog: invite_add_as_uac keeps the From tag, or NULL if there is
\* none or no memory for it, and leaves transmitter_id as it was; the dialog
\* becomes the first of the item's callers.
AddDialog(i, m) ==
    /\ free # <<>>
    /\ free' = Tail(free)
    /\ InviteUnknown(i, m)
    /\ caller' = [caller EXCEPT ![i] = <<Head(free)>> \o @]
    /\ \E rtag \in {m.rtag} \cup NoCopy :
          dlg' = [dlg EXCEPT ![Head(free)] =
                     [state |-> "INVITING", cid |-> m.cid, rtag |-> rtag,
                      ltag |-> Null, tid |-> @.tid]]
    /\ lost' = lost

\* The INVITE goes to the message centre with the id of its dialog.
InviteNew(i, m) ==
    /\ up
    /\ AddDialog(i, m)
    /\ asked[Head(free)] < MaxAsked
    /\ asked' = [asked EXCEPT ![Head(free)] = @ + 1]
    /\ up' = up

\* app_cb could not send it: the caller gets a 500, the dialog stays.
InviteNewUnsent(i, m) ==
    /\ up
    /\ SendCanFail
    /\ AddDialog(i, m)
    /\ asked' = asked /\ up' = up

\* Mutant of MediaReply: add_local_tag forgets the state.
MediaReplyNoState(d, tag, t) ==
    /\ up
    /\ asked[d] > 0
    /\ asked' = [asked EXCEPT ![d] = @ - 1]
    /\ dlg' = [dlg EXCEPT ![d].ltag = tag, ![d].tid = t]
    /\ UNCHANGED <<free, caller, lost>> /\ up' = up

\* The message centre's reply: the dialog is found by its id alone and gets
\* the To tag of the answer just sent (a copy: NULL without memory for it) and
\* the transmitter id of the reply.
MediaReply(d, tag, t) ==
    /\ up
    /\ asked[d] > 0
    /\ asked' = [asked EXCEPT ![d] = @ - 1]
    /\ dlg' = [dlg EXCEPT ![d].ltag = tag, ![d].state = "RESPONDED", ![d].tid = t]
    /\ UNCHANGED <<free, caller, lost>> /\ up' = up

\* rmt_invite could not send the answer: the dialog stays as it is.
MediaReplyUnsent(d) ==
    /\ up
    /\ SendCanFail
    /\ asked[d] > 0
    /\ asked' = [asked EXCEPT ![d] = @ - 1]
    /\ UNCHANGED <<dlg, free, caller, lost>> /\ up' = up

\* An ACK reads the transmitter id of the dialog it finds and changes nothing.
Ack(i, m) ==
    /\ up
    /\ NotFound(i, m) \/ \E k \in DOMAIN caller[i] : FoundAt(i, k, m)
    /\ Same

\* Mutant of ByeAt: the dialog stays linked.
ByeAtLinked(i, k) ==
    /\ up
    /\ free' = <<caller[i][k]>> \o free
    /\ dlg' = [dlg EXCEPT ![caller[i][k]] = Blank]
    /\ UNCHANGED <<caller, lost>> /\ asked' = asked /\ up' = up

\* A BYE takes the dialog out of the item's list, then CDlgQueue::push puts it
\* at the head of the free chain and resets it.
ByeAt(i, k) ==
    /\ up
    /\ caller' = [caller EXCEPT ![i] = WithoutAt(@, k)]
    /\ free' = <<caller[i][k]>> \o free
    /\ dlg' = [dlg EXCEPT ![caller[i][k]] = Blank]
    /\ lost' = lost /\ asked' = asked /\ up' = up

Bye(i, m) == \E k \in DOMAIN caller[i] : FoundAt(i, k, m) /\ ByeAt(i, k)

ByeUnknown(i, m) ==
    /\ up
    /\ NotFound(i, m)
    /\ Same

\* strcmp with a NULL remote_tag, or with a NULL local_tag on an ACK or a BYE:
\* the process dies.
Crash(i, m) ==
    /\ up
    /\ InviteCrash(i, m) \/ \E k \in DOMAIN caller[i] : CrashAt(i, k, m)
    /\ up' = FALSE
    /\ UNCHANGED <<dlg, free, caller, asked, lost>>

Next ==
    \/ \E d \in DlgId :
          \/ \E tag \in Tag \cup NoCopy, t \in TransId : MediaReply(d, tag, t)
          \/ MediaReplyUnsent(d)
    \/ \E i \in Item, m \in Request :
          \/ InviteNew(i, m)
          \/ InviteNewUnsent(i, m)
          \/ InviteNoMem(i, m)
          \/ Bye(i, m)
          \/ Crash(i, m)
          \/ InviteBusy(i, m)
          \/ InviteFull(i, m)
          \/ Ack(i, m)
          \/ ByeUnknown(i, m)

Spec == Init /\ [][Next]_vars

-----------------------------------------------------------------------------
(* Properties *)

\* Every variable keeps its type.
TypeOK ==
    /\ dlg \in [DlgId -> Dialog]
    /\ free \in Seq(DlgId)
    /\ caller \in [Item -> Seq(DlgId)]
    /\ asked \in [DlgId -> Nat]
    /\ up \in BOOLEAN
    /\ lost \subseteq DlgId

NoRepeat(s) == \A j, k \in 1 .. Len(s) : s[j] = s[k] => j = k
Occurs(s, d) == \E k \in 1 .. Len(s) : s[k] = d
InFree(d) == Occurs(free, d)
InCallers(d, i) == Occurs(caller[i], d)
Listed(d) == \E i \in Item : InCallers(d, i)

\* Each dialog is in one place only, after any sequence of pop, insert, unlink
\* and push: on the free chain, on the caller list of one item, or, when the
\* INVITE it was popped for found no memory (-ENOMEM returns without push),
\* nowhere.  Without that failure no dialog is ever lost.
PoolPartition ==
    /\ NoRepeat(free)
    /\ \A i \in Item : NoRepeat(caller[i])
    /\ \A i, j \in Item, d \in DlgId : InCallers(d, i) /\ InCallers(d, j) => i = j
    /\ \A d \in DlgId : InFree(d) \/ Listed(d) \/ d \in lost
    /\ \A d \in DlgId : ~(InFree(d) /\ Listed(d))
    /\ \A d \in lost : ~InFree(d) /\ ~Listed(d)
    /\ ~MemCanFail => lost = {}

\* A dialog on a caller list has been given to a call: it is not READY and
\* carries a Call-ID, so that the strcmp of call_id never gets a NULL.
ListedIsInUse ==
    \A d \in DlgId : Listed(d) => dlg[d].state # "READY" /\ dlg[d].cid \in CallId

\* However often an INVITE with a From tag is repeated, an item has one dialog
\* per Call-ID and From tag, so that invite_match_as_uas cannot find the wrong
\* one; unless a comparison found no memory.  An INVITE without a From tag (or
\* one whose tag found no memory) is not covered: no request matches its dialog.
\* A repetition without tag opens another dialog, so that dialog.h:24, "referenced
\* by call_id,local_tag and remote tag", does not hold of it, and a request of
\* the Call-ID that has a tag is a strcmp with NULL (Crash).
OneDialogPerCall ==
    ~CompareCanFail =>
        \A i \in Item : \A d, e \in DlgId :
            /\ InCallers(d, i) /\ InCallers(e, i)
            /\ dlg[d].cid = dlg[e].cid
            /\ dlg[d].rtag = dlg[e].rtag
            /\ dlg[d].rtag # Null
            => d = e

\* A dialog that is still INVITING has a request at the message centre: unless
\* sendto fails on the way, a caller whose repeated INVITEs are ignored (-EBUSY
\* sends no answer) still has an answer coming.
InvitingIsAsked ==
    \A d \in DlgId :
        ~SendCanFail /\ Listed(d) /\ dlg[d].state = "INVITING" => asked[d] > 0

\* A live dialog keeps the call it stands for: no handler gives it another
\* Call-ID, From tag or item before a BYE has taken it off its list.
IdentityStep ==
    \A d \in DlgId, i \in Item :
        InCallers(d, i) =>
            \/ /\ InCallers(d, i)'
               /\ dlg'[d].cid = dlg[d].cid
               /\ dlg'[d].rtag = dlg[d].rtag
            \/ InFree(d)' /\ ~Listed(d)'
IdentityKept == [][IdentityStep]_vars
=============================================================================
