------------------------------ MODULE DlgLists ------------------------------
(***************************************************************************)
(* DlgPool one level down: the chains as CDlgQueue and CGbCatalog keep     *)
(* them, one `next' pointer per dialog that serves the free chain and the  *)
(* caller lists in turn.  The assignments to free_head, next and           *)
(* rmt_caller are those of the code; that they amount to the sequences of  *)
(* DlgPool is the property ImplementsDlgPool.                              *)
(***************************************************************************)
EXTENDS Integers, Sequences

CONSTANTS NumDlg, Item, CallId, Tag, Null, TransId, SendCanFail, MemCanFail,
          CompareCanFail, MaxAsked

\* As in DlgPool, and that NULL is no dialog.
ASSUME SizeAssumption == NumDlg \in Nat \ {0} /\ MaxAsked \in Nat \ {0}
ASSUME NullAssumption == Null \notin CallId \cup Tag \cup 0 .. NumDlg - 1
ASSUME ReplyAssumption ==
    /\ TransId \subseteq Nat /\ 0 \in TransId
    /\ SendCanFail \in BOOLEAN /\ MemCanFail \in BOOLEAN
    /\ CompareCanFail \in BOOLEAN

DlgId == 0 .. NumDlg - 1
Ptr == DlgId \cup {Null}

VARIABLES
    dlg, asked, up, lost,   \* as in DlgPool
    free_head,
    next,               \* CDialog::next
    rmt_caller

vars == <<dlg, asked, up, lost, free_head, next, rmt_caller>>

\* The dialogs met from pointer p along the pointers nx, at most as many as
\* there are.
Chain(nx, p) ==
    LET from[n \in 0 .. NumDlg] ==
          [q \in Ptr |-> IF n = 0 \/ q = Null THEN <<>> ELSE <<q>> \o from[n - 1][nx[q]]]
    IN  from[NumDlg][p]

Abs == INSTANCE DlgPool WITH
          free <- Chain(next, free_head),
          caller <- [i \in Item |-> Chain(next, rmt_caller[i])]

\* CDlgQueue::create
Init ==
    /\ dlg = [d \in DlgId |-> Abs!Blank]
    /\ asked = [d \in DlgId |-> 0]
    /\ up = TRUE
    /\ lost = {}
    /\ free_head = 0
    /\ next = [d \in DlgId |-> IF d < NumDlg - 1 THEN d + 1 ELSE Null]
    /\ rmt_caller = [i \in Item |-> Null]

-----------------------------------------------------------------------------
\* The first dialog on item i's list that satisfies P, and the one before it.
FirstOn(i, P(_)) ==
    LET s == Chain(next, rmt_caller[i])
    IN  {<<s[k], IF k = 1 THEN s[1] ELSE s[k - 1]>> :
            k \in {n \in DOMAIN s : P(s[n]) /\ \A j \in 1 .. n - 1 : ~P(s[j])}}

\* Where the walk of an INVITE ends, and that of an ACK or a BYE.
InviteStop(i, m) ==
    LET p(d) == Abs!InviteMatch(d, m) \/ Abs!InviteNull(d, m) IN FirstOn(i, p)
Stop(i, m) == LET p(d) == Abs!Stops(d, m) IN FirstOn(i, p)

\* pop, invite_add_as_uac (which clears next), insertion before the first.
Invite(i, m) ==
    /\ up
    /\ InviteStop(i, m) = {}
    /\ free_head # Null
    /\ LET d == free_head
       IN  /\ free_head' = next[d]
           /\ next' = [next EXCEPT ![d] = rmt_caller[i]]
           /\ rmt_caller' = [rmt_caller EXCEPT ![i] = d]
           /\ \E rtag \in {m.rtag} \cup Abs!NoCopy :
                 dlg' = [dlg EXCEPT ![d] = [state |-> "INVITING", cid |-> m.cid,
                             rtag |-> rtag, ltag |-> Null, tid |-> @.tid]]
           /\ \/ /\ asked[d] < MaxAsked
                 /\ asked' = [asked EXCEPT ![d] = @ + 1]
              \/ SendCanFail /\ UNCHANGED asked
    /\ UNCHANGED <<up, lost>>

\* pop, and a return from invite_add_as_uac before it clears next: the dialog
\* still points into the free chain, but nothing points at it.
InviteNoMem(i, m) ==
    /\ up
    /\ MemCanFail
    /\ InviteStop(i, m) = {}
    /\ free_head # Null
    /\ free_head' = next[free_head]
    /\ lost' = lost \cup {free_head}
    /\ UNCHANGED <<dlg, asked, up, next, rmt_caller>>

\* Mutant of Bye: push comes before the item's list is mended.
ByePushesFirst(i, m) ==
    /\ up
    /\ \E found \in Stop(i, m) :
          LET d == found[1]
          IN  /\ Abs!AckMatch(d, m)
              /\ rmt_caller' = IF d = rmt_caller[i]
                               THEN [rmt_caller EXCEPT ![i] = free_head]
                               ELSE rmt_caller
              /\ next' = IF d = rmt_caller[i]
                         THEN [next EXCEPT ![d] = free_head]
                         ELSE [next EXCEPT ![d] = free_head, ![found[2]] = free_head]
              /\ free_head' = d
              /\ dlg' = [dlg EXCEPT ![d] = Abs!Blank]
    /\ UNCHANGED <<asked, up, lost>>

\* find_rmt_bye_dialog: unlink by the item's pointer or by the previous
\* dialog's, then push (next, free_head, reset).
Bye(i, m) ==
    /\ up
    /\ \E found \in Stop(i, m) :
          LET d == found[1]
              pre == found[2]
              unlinked == IF d = rmt_caller[i] THEN next
                          ELSE [next EXCEPT ![pre] = next[d]]
          IN  /\ Abs!AckMatch(d, m)
              /\ rmt_caller' = IF d = rmt_caller[i]
                               THEN [rmt_caller EXCEPT ![i] = next[d]]
                               ELSE rmt_caller
              /\ next' = [unlinked EXCEPT ![d] = free_head]
              /\ free_head' = d
              /\ dlg' = [dlg EXCEPT ![d] = Abs!Blank]
    /\ UNCHANGED <<asked, up, lost>>

Crash(i, m) ==
    /\ up
    /\ \/ \E found \in InviteStop(i, m) : Abs!InviteNull(found[1], m)
       \/ \E found \in Stop(i, m) : Abs!NullCompare(found[1], m)
    /\ up' = FALSE
    /\ UNCHANGED <<dlg, asked, lost, free_head, next, rmt_caller>>

MediaReply(d, tag, t) ==
    /\ up
    /\ asked[d] > 0
    /\ asked' = [asked EXCEPT ![d] = @ - 1]
    /\ dlg' = [dlg EXCEPT ![d].ltag = tag, ![d].state = "RESPONDED", ![d].tid = t]
    /\ UNCHANGED <<up, lost, free_head, next, rmt_caller>>

MediaReplyUnsent(d) ==
    /\ up
    /\ SendCanFail
    /\ asked[d] > 0
    /\ asked' = [asked EXCEPT ![d] = @ - 1]
    /\ UNCHANGED <<dlg, up, lost, free_head, next, rmt_caller>>

Next ==
    \/ \E i \in Item, m \in Abs!Request :
          Invite(i, m) \/ InviteNoMem(i, m) \/ Bye(i, m) \/ Crash(i, m)
    \/ \E d \in DlgId :
          \/ \E tag \in Tag \cup Abs!NoCopy, t \in TransId : MediaReply(d, tag, t)
          \/ MediaReplyUnsent(d)

Spec == Init /\ [][Next]_vars

-----------------------------------------------------------------------------
(* Properties *)

\* The next pointer of a dialog that moves between the free chain and the
\* caller lists is always the one of the chain it is on, so that walking any
\* chain ends at NULL and meets only its own dialogs.
ImplementsDlgPool == Abs!Spec
=============================================================================
