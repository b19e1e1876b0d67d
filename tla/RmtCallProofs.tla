--------------------------- MODULE RmtCallProofs ----------------------------
(***************************************************************************)
(* Proofs about RmtCall, for any number of platforms, items, dialogs and   *)
(* transmitters, and for any of the faults: its variables keep their       *)
(* types, its handlers are those of DlgPool, a platform that waits for an  *)
(* answer has something on the way that leads to it, and, in the second    *)
(* half, its handlers are those of Transmitter and what its platforms see  *)
(* is what MediaService promises.                                          *)
(***************************************************************************)
EXTENDS RmtCall, FiniteSetTheorems, SequenceTheorems, TLAPS

\* The dialogs of the composition, with what is proved about them.
DP == INSTANCE DlgPoolProofs WITH
        CallId <- Leg, Tag <- {FarTag, NearTag}, asked <- Asked, up <- TRUE,
        SendCanFail <- \E f \in Faults : "sendto" \in f,
        MemCanFail <- FALSE, CompareCanFail <- FALSE, lost <- {},
        MaxAsked <- MaxInvites

-----------------------------------------------------------------------------
(* The constants of the composition are such as DlgPool assumes. *)

LEMMA PoolAssumptions ==
    /\ DP!NumDlgAssumption /\ DP!NullAssumption /\ DP!TransIdAssumption
    /\ DP!SendCanFailAssumption /\ DP!MemCanFailAssumption
    /\ DP!CompareCanFailAssumption /\ DP!MaxAskedAssumption
<1>1. DP!NumDlgAssumption
  BY SizesAssumption DEF DP!NumDlgAssumption
<1>2. DP!NullAssumption
  BY NullAssumption DEF DP!NullAssumption
<1>3. DP!TransIdAssumption
  BY SizesAssumption DEF DP!TransIdAssumption, TransId
<1>4. DP!SendCanFailAssumption
  BY DEF DP!SendCanFailAssumption
<1>5. DP!MaxAskedAssumption
  BY MaxExtraAssumption, LegAssumption, FS_CardinalityType, FS_EmptySet
     DEF DP!MaxAskedAssumption, MaxInvites
<1>6. DP!MemCanFailAssumption
  BY DEF DP!MemCanFailAssumption
<1>7. DP!CompareCanFailAssumption
  BY DEF DP!CompareCanFailAssumption
<1>8. QED BY <1>1, <1>2, <1>3, <1>4, <1>5, <1>6, <1>7

-----------------------------------------------------------------------------
(* Sequences and positions in them. *)

\* The first of a sequence is taken.
LEMMA TailIs ==
    ASSUME NEW S, NEW s \in Seq(S), s # <<>>
    PROVE  /\ Len(s) \in Nat \ {0}
           /\ Tail(s) \in Seq(S)
           /\ Len(Tail(s)) = Len(s) - 1
           /\ DOMAIN s = 1 .. Len(s) /\ DOMAIN Tail(s) = 1 .. Len(s) - 1
           /\ \A k \in 1 .. Len(s) - 1 : Tail(s)[k] = s[k + 1]
           /\ Head(s) = s[1] /\ s[1] \in S
<1>1. Tail(s) \in Seq(S) /\ Len(Tail(s)) = Len(s) - 1
  BY HeadTailProperties
<1>2. Len(s) \in Nat \ {0} /\ DOMAIN s = 1 .. Len(s)
  BY EmptySeq, LenProperties
<1>3. DOMAIN Tail(s) = 1 .. Len(s) - 1
  BY <1>1, LenProperties
<1>4. Head(s) = s[1] /\ s[1] \in S
  BY <1>2, ElementOfSeq
<1>5. QED BY <1>1, <1>2, <1>3, <1>4, HeadTailProperties

\* What is put behind the last of a sequence.
LEMMA AppendIs ==
    ASSUME NEW S, NEW s \in Seq(S), NEW e \in S
    PROVE  /\ Append(s, e) \in Seq(S)
           /\ Len(s) \in Nat
           /\ Len(Append(s, e)) = Len(s) + 1
           /\ DOMAIN s = 1 .. Len(s) /\ DOMAIN Append(s, e) = 1 .. Len(s) + 1
           /\ \A k \in 1 .. Len(s) : Append(s, e)[k] = s[k]
           /\ Append(s, e)[Len(s) + 1] = e
<1>1. Append(s, e) \in Seq(S) /\ Len(Append(s, e)) = Len(s) + 1
  BY AppendProperties
<1>2. Len(s) \in Nat /\ DOMAIN s = 1 .. Len(s) /\ DOMAIN Append(s, e) = 1 .. Len(s) + 1
  BY <1>1, LenProperties
<1>3. QED BY <1>1, <1>2, AppendProperties

\* Positions in a sequence of which the first element is taken.
LEMMA CountTail ==
    ASSUME NEW n \in Nat \ {0}, NEW I \in SUBSET (1 .. n), NEW J \in SUBSET (1 .. n - 1),
           \A k \in 1 .. n - 1 : k \in J <=> k + 1 \in I
    PROVE  /\ Cardinality(I) \in Nat /\ Cardinality(J) \in Nat
           /\ Cardinality(I) = IF 1 \in I THEN Cardinality(J) + 1 ELSE Cardinality(J)
<1>1. IsFiniteSet(1 .. n) /\ IsFiniteSet(1 .. n - 1)
  BY FS_Interval
<1>2. IsFiniteSet(I) /\ IsFiniteSet(J)
  BY <1>1, FS_Subset
<1> DEFINE f == [j \in J |-> j + 1]
<1>3. f \in Bijection(J, I \ {1})
  <2>1. f \in [J -> I \ {1}]
    OBVIOUS
  <2>2. \A a, b \in J : f[a] = f[b] => a = b
    OBVIOUS
  <2>3. \A i \in I \ {1} : \E j \in J : f[j] = i
    <3>1. ASSUME NEW i \in I \ {1} PROVE \E j \in J : f[j] = i
      <4>1. i - 1 \in 1 .. n - 1 /\ (i - 1) + 1 = i
        OBVIOUS
      <4>2. i - 1 \in J
        BY <4>1
      <4>3. f[i - 1] = i
        BY <4>1, <4>2
      <4>4. QED BY <4>2, <4>3
    <3>2. QED BY <3>1
  <2> HIDE DEF f
  <2>4. QED BY <2>1, <2>2, <2>3 DEF Bijection, Injection, Surjection, IsInjective
<1>4. Cardinality(I \ {1}) = Cardinality(J)
  BY <1>2, <1>3, FS_Bijection DEF ExistsBijection
<1>5. Cardinality(I \ {1}) = IF 1 \in I THEN Cardinality(I) - 1 ELSE Cardinality(I)
  BY <1>2, FS_RemoveElement
<1>6. Cardinality(I) \in Nat /\ Cardinality(J) \in Nat
  BY <1>2, FS_CardinalityType
<1>7. QED BY <1>4, <1>5, <1>6

\* Positions in a sequence to which an element is added.
LEMMA CountAppend ==
    ASSUME NEW n \in Nat, NEW I \in SUBSET (1 .. n), NEW J \in SUBSET (1 .. n + 1),
           \A k \in 1 .. n : k \in J <=> k \in I
    PROVE  /\ Cardinality(I) \in Nat /\ Cardinality(J) \in Nat
           /\ Cardinality(J) = IF n + 1 \in J THEN Cardinality(I) + 1 ELSE Cardinality(I)
<1>1. IsFiniteSet(1 .. n)
  BY FS_Interval
<1>2. IsFiniteSet(I)
  BY <1>1, FS_Subset
<1>3. n + 1 \notin I
  OBVIOUS
<1>4. J = IF n + 1 \in J THEN I \cup {n + 1} ELSE I
  <2>1. \A k \in J : k \in I \/ k = n + 1
    OBVIOUS
  <2>2. I \subseteq J
    OBVIOUS
  <2>3. CASE n + 1 \in J
    <3>1. J = I \cup {n + 1}
      BY <2>1, <2>2, <2>3
    <3>2. QED BY <2>3, <3>1
  <2>4. CASE n + 1 \notin J
    <3>1. J = I
      BY <2>1, <2>2, <2>4
    <3>2. QED BY <2>4, <3>1
  <2>5. QED BY <2>3, <2>4
<1>5. Cardinality(I \cup {n + 1}) = Cardinality(I) + 1
  BY <1>2, <1>3, FS_AddElement
<1>6. Cardinality(I) \in Nat
  BY <1>2, FS_CardinalityType
<1>7. QED BY <1>4, <1>5, <1>6

-----------------------------------------------------------------------------
(* The names of DlgPool in RmtCall and here are the same things. *)

LEMMA SameTypes == /\ D!DlgId = DP!DlgId
                   /\ D!TypeOK <=> DP!TypeOK
                   /\ D!TypeOK' <=> DP!TypeOK'
BY DEF D!TypeOK, DP!TypeOK, D!DlgId, DP!DlgId, D!Dialog, DP!Dialog, D!DialogState, DP!DialogState

LEMMA SameInit == D!Init <=> DP!Init
BY DEF D!Init, DP!Init, D!DlgId, DP!DlgId, D!Blank, DP!Blank

LEMMA SameNext == (D!Next <=> DP!Next) /\ D!vars = DP!vars /\ (UNCHANGED D!vars <=> UNCHANGED DP!vars)
BY DEF DP!AddDialog, D!AddDialog, DP!InviteKnown, D!InviteKnown, DP!InviteUnknown, D!InviteUnknown, DP!InviteCrash, D!InviteCrash, DP!InviteNull, D!InviteNull, DP!InviteNoMem, D!InviteNoMem, DP!SameCall, D!SameCall, DP!NoCopy, D!NoCopy, DP!InviteMatch, D!InviteMatch, DP!InviteNew, D!InviteNew, DP!InviteNewUnsent, D!InviteNewUnsent, DP!Bye, D!Bye, DP!ByeAt, D!ByeAt, DP!Crash, D!Crash, DP!CrashAt, D!CrashAt, DP!NullCompare, D!NullCompare, DP!InviteBusy, D!InviteBusy, DP!InviteFull, D!InviteFull, DP!Ack, D!Ack, DP!ByeUnknown, D!ByeUnknown, DP!MediaReply, D!MediaReply, DP!MediaReplyUnsent, D!MediaReplyUnsent, DP!FoundAt, D!FoundAt, DP!NotFound, D!NotFound, DP!WalkEndsAt, D!WalkEndsAt, DP!Stops, D!Stops, DP!AckMatch, D!AckMatch, DP!WithoutAt, D!WithoutAt, DP!Blank, D!Blank, DP!Same, D!Same, DP!Request, D!Request, DP!DlgId, D!DlgId, DP!vars, D!vars, DP!Next, D!Next

-----------------------------------------------------------------------------
(* The requests in flight that Asked counts. *)

InvitesFor(q, d) == {k \in DOMAIN q : q[k].type = "INVITE" /\ q[k].dlg = d}
RepliesFor(q, d) == {k \in DOMAIN q : q[k].dlg = d}

\* DlgPool's count of requests is that of the two sockets.
LEMMA AskedIs ==
    /\ Asked = [d \in DP!DlgId |-> Cardinality(InvitesFor(toMC, d))
                                   + Cardinality(RepliesFor(toGB, d))]
    /\ Asked' = [d \in DP!DlgId |-> Cardinality(InvitesFor(toMC', d))
                                   + Cardinality(RepliesFor(toGB', d))]
BY DEF Asked, InvitesFor, RepliesFor, DP!DlgId

\* One message more.
LEMMA MoreInvites ==
    ASSUME NEW S, NEW q \in Seq(S), NEW e \in S, NEW d
    PROVE  Cardinality(InvitesFor(Append(q, e), d)) =
             IF e.type = "INVITE" /\ e.dlg = d
             THEN Cardinality(InvitesFor(q, d)) + 1 ELSE Cardinality(InvitesFor(q, d))
<1> DEFINE p == Append(q, e)
<1>1. /\ Len(q) \in Nat /\ DOMAIN q = 1 .. Len(q) /\ DOMAIN p = 1 .. Len(q) + 1
      /\ \A k \in 1 .. Len(q) : p[k] = q[k]
      /\ p[Len(q) + 1] = e
  BY AppendIs
<1> HIDE DEF p
<1>2. /\ InvitesFor(q, d) \subseteq 1 .. Len(q) /\ InvitesFor(p, d) \subseteq 1 .. Len(q) + 1
      /\ \A k \in 1 .. Len(q) : k \in InvitesFor(p, d) <=> k \in InvitesFor(q, d)
      /\ Len(q) + 1 \in InvitesFor(p, d) <=> e.type = "INVITE" /\ e.dlg = d
  BY <1>1 DEF InvitesFor
<1>3. QED BY <1>1, <1>2, CountAppend DEF p

LEMMA MoreReplies ==
    ASSUME NEW S, NEW q \in Seq(S), NEW e \in S, NEW d
    PROVE  Cardinality(RepliesFor(Append(q, e), d)) =
             IF e.dlg = d
             THEN Cardinality(RepliesFor(q, d)) + 1 ELSE Cardinality(RepliesFor(q, d))
<1> DEFINE p == Append(q, e)
<1>1. /\ Len(q) \in Nat /\ DOMAIN q = 1 .. Len(q) /\ DOMAIN p = 1 .. Len(q) + 1
      /\ \A k \in 1 .. Len(q) : p[k] = q[k]
      /\ p[Len(q) + 1] = e
  BY AppendIs
<1> HIDE DEF p
<1>2. /\ RepliesFor(q, d) \subseteq 1 .. Len(q) /\ RepliesFor(p, d) \subseteq 1 .. Len(q) + 1
      /\ \A k \in 1 .. Len(q) : k \in RepliesFor(p, d) <=> k \in RepliesFor(q, d)
      /\ Len(q) + 1 \in RepliesFor(p, d) <=> e.dlg = d
  BY <1>1 DEF RepliesFor
<1>3. QED BY <1>1, <1>2, CountAppend DEF p

\* One message less.
LEMMA LessInvites ==
    ASSUME NEW S, NEW q \in Seq(S), q # <<>>, NEW d
    PROVE  /\ Cardinality(InvitesFor(q, d)) \in Nat
           /\ Cardinality(InvitesFor(Tail(q), d)) \in Nat
           /\ Cardinality(InvitesFor(q, d)) =
                IF Head(q).type = "INVITE" /\ Head(q).dlg = d
                THEN Cardinality(InvitesFor(Tail(q), d)) + 1
                ELSE Cardinality(InvitesFor(Tail(q), d))
<1>1. /\ Len(q) \in Nat \ {0} /\ DOMAIN q = 1 .. Len(q) /\ DOMAIN Tail(q) = 1 .. Len(q) - 1
      /\ \A k \in 1 .. Len(q) - 1 : Tail(q)[k] = q[k + 1]
      /\ Head(q) = q[1]
  BY TailIs
<1>2. /\ InvitesFor(q, d) \subseteq 1 .. Len(q)
      /\ InvitesFor(Tail(q), d) \subseteq 1 .. Len(q) - 1
      /\ \A k \in 1 .. Len(q) - 1 : k \in InvitesFor(Tail(q), d) <=> k + 1 \in InvitesFor(q, d)
      /\ 1 \in InvitesFor(q, d) <=> Head(q).type = "INVITE" /\ Head(q).dlg = d
  BY <1>1 DEF InvitesFor
<1> DEFINE I == InvitesFor(q, d)
           J == InvitesFor(Tail(q), d)
<1>3. I \in SUBSET (1 .. Len(q)) /\ J \in SUBSET (1 .. Len(q) - 1)
  BY <1>2
<1>4. \A k \in 1 .. Len(q) - 1 : k \in J <=> k + 1 \in I
  BY <1>2
<1> HIDE DEF I, J
<1>5. /\ Cardinality(I) \in Nat /\ Cardinality(J) \in Nat
      /\ Cardinality(I) = IF 1 \in I THEN Cardinality(J) + 1 ELSE Cardinality(J)
  BY <1>1, <1>3, <1>4, CountTail
<1>6. QED BY <1>2, <1>5 DEF I, J

LEMMA LessReplies ==
    ASSUME NEW S, NEW q \in Seq(S), q # <<>>, NEW d
    PROVE  /\ Cardinality(RepliesFor(q, d)) \in Nat
           /\ Cardinality(RepliesFor(Tail(q), d)) \in Nat
           /\ Cardinality(RepliesFor(q, d)) =
                IF Head(q).dlg = d THEN Cardinality(RepliesFor(Tail(q), d)) + 1
                ELSE Cardinality(RepliesFor(Tail(q), d))
<1>1. /\ Len(q) \in Nat \ {0} /\ DOMAIN q = 1 .. Len(q) /\ DOMAIN Tail(q) = 1 .. Len(q) - 1
      /\ \A k \in 1 .. Len(q) - 1 : Tail(q)[k] = q[k + 1]
      /\ Head(q) = q[1]
  BY TailIs
<1>2. /\ RepliesFor(q, d) \subseteq 1 .. Len(q)
      /\ RepliesFor(Tail(q), d) \subseteq 1 .. Len(q) - 1
      /\ \A k \in 1 .. Len(q) - 1 : k \in RepliesFor(Tail(q), d) <=> k + 1 \in RepliesFor(q, d)
      /\ 1 \in RepliesFor(q, d) <=> Head(q).dlg = d
  BY <1>1 DEF RepliesFor
<1> DEFINE I == RepliesFor(q, d)
           J == RepliesFor(Tail(q), d)
<1>3. I \in SUBSET (1 .. Len(q)) /\ J \in SUBSET (1 .. Len(q) - 1)
  BY <1>2
<1>4. \A k \in 1 .. Len(q) - 1 : k \in J <=> k + 1 \in I
  BY <1>2
<1> HIDE DEF I, J
<1>5. /\ Cardinality(I) \in Nat /\ Cardinality(J) \in Nat
      /\ Cardinality(I) = IF 1 \in I THEN Cardinality(J) + 1 ELSE Cardinality(J)
  BY <1>1, <1>3, <1>4, CountTail
<1>6. QED BY <1>2, <1>5 DEF I, J

\* Both counts are numbers.
LEMMA CountTypes ==
    ASSUME NEW S, NEW q \in Seq(S), NEW d
    PROVE  Cardinality(InvitesFor(q, d)) \in Nat /\ Cardinality(RepliesFor(q, d)) \in Nat
<1>1. IsFiniteSet(1 .. Len(q)) /\ DOMAIN q = 1 .. Len(q)
  BY FS_Interval, LenProperties
<1>2. InvitesFor(q, d) \in SUBSET (1 .. Len(q)) /\ RepliesFor(q, d) \in SUBSET (1 .. Len(q))
  BY <1>1 DEF InvitesFor, RepliesFor
<1>3. IsFiniteSet(InvitesFor(q, d)) /\ IsFiniteSet(RepliesFor(q, d))
  BY <1>1, <1>2, FS_Subset
<1>4. QED BY <1>3, FS_CardinalityType

-----------------------------------------------------------------------------
(* Every step of the composition is one of DlgPool's or none of its own. *)

LEMMA RequestType == \A l \in Leg : ReqOf(l) \in D!Request
BY DEF ReqOf, D!Request

\* Handlers that touch neither the dialogs nor a request for one.
LEMMA NoneAsked ==
    ASSUME UNCHANGED gbVars, Asked' = Asked
    PROVE  UNCHANGED D!vars
BY DEF gbVars, D!vars

LEMMA QueuesAsked ==
    ASSUME toMC' = toMC, toGB' = toGB
    PROVE  Asked' = Asked
BY AskedIs

\* A message that is no INVITE goes to the message centre.
LEMMA OtherSent ==
    ASSUME toMC \in Seq(ToMcMsg), NEW e \in ToMcMsg, e.type # "INVITE",
           toMC' = Append(toMC, e), toGB' = toGB
    PROVE  Asked' = Asked
<1>1. \A d \in DP!DlgId : Cardinality(InvitesFor(toMC', d)) = Cardinality(InvitesFor(toMC, d))
  BY MoreInvites
<1>2. QED BY <1>1, AskedIs

\* A message that is no INVITE is taken by the message centre.
LEMMA OtherTaken ==
    ASSUME toMC \in Seq(ToMcMsg), toMC # <<>>, Head(toMC).type # "INVITE",
           toMC' = Tail(toMC), toGB' = toGB
    PROVE  Asked' = Asked
<1>1. \A d \in DP!DlgId : Cardinality(InvitesFor(toMC', d)) = Cardinality(InvitesFor(toMC, d))
  BY LessInvites
<1>2. QED BY <1>1, AskedIs

\* What the message at the head of a socket is.
LEMMA HeadType ==
    ASSUME TypeOK
    PROVE  /\ toMC # <<>> => Head(toMC) \in ToMcMsg
           /\ toGB # <<>> => Head(toGB) \in ToGbMsg
           /\ toVtdu # <<>> => Head(toVtdu) \in ToVtduMsg
BY TailIs DEF TypeOK

\* rmt_invite_media: the request goes on as a reply, or is gone.
LEMMA InviteTaken ==
    ASSUME TypeOK, DevInvite
    PROVE  D!Next \/ UNCHANGED D!vars
<1> DEFINE m == Head(toMC)
           d == m.dlg
<1>1. /\ toMC # <<>> /\ m.type = "INVITE" /\ toMC' = Tail(toMC) /\ UNCHANGED gbVars
  BY DEF DevInvite, FromGb
<1>2. m \in ToMcMsg /\ d \in D!DlgId /\ m.leg \in Leg
  <2>1. m \in ToMcMsg
    BY <1>1, HeadType
  <2>2. QED BY <1>1, <2>1 DEF ToMcMsg
<1>3. \E addr \in BOOLEAN, tid \in TransId : Reply(m, addr, tid)
  <2>1. CASE T!Take(unused, Target[m.leg], m.leg) /\ Reply(m, TRUE, unused)
    <3>1. unused \in TransId
      BY <2>1, SizesAssumption DEF T!Take, TypeOK, T!TypeOK, T!Ptr, T!Trans, TransId
    <3>2. QED BY <2>1, <3>1
  <2>2. CASE \E garbage \in TransId : Reply(m, FALSE, garbage)
    BY <2>2
  <2>3. QED BY <2>1, <2>2 DEF DevInvite
<1>4. PICK addr \in BOOLEAN, tid \in TransId : Reply(m, addr, tid)
  BY <1>3
<1> DEFINE r == [dlg |-> d, leg |-> m.leg, addr |-> addr, tid |-> tid]
<1>5. r \in ToGbMsg /\ r.dlg = d
  BY <1>2 DEF ToGbMsg
<1>6. /\ toMC \in Seq(ToMcMsg) /\ toGB \in Seq(ToGbMsg)
  BY DEF TypeOK
<1>7. \A e \in DP!DlgId :
        /\ Cardinality(InvitesFor(toMC, e)) \in Nat
        /\ Cardinality(InvitesFor(toMC', e)) \in Nat
        /\ Cardinality(InvitesFor(toMC, e)) =
             IF e = d THEN Cardinality(InvitesFor(toMC', e)) + 1
             ELSE Cardinality(InvitesFor(toMC', e))
        /\ Cardinality(RepliesFor(toGB, e)) \in Nat
  BY <1>1, <1>6, LessInvites, CountTypes
<1>8. CASE toGB' = Append(toGB, r)
  <2>1. \A e \in DP!DlgId : Cardinality(RepliesFor(toGB', e)) =
             IF e = d THEN Cardinality(RepliesFor(toGB, e)) + 1
             ELSE Cardinality(RepliesFor(toGB, e))
    <3> HIDE DEF r, d
    <3>1. QED BY <1>5, <1>6, <1>8, MoreReplies
  <2> HIDE DEF m, d, r
  <2>2. \A e \in DP!DlgId :
            Cardinality(InvitesFor(toMC', e)) + Cardinality(RepliesFor(toGB', e))
          = Cardinality(InvitesFor(toMC, e)) + Cardinality(RepliesFor(toGB, e))
    BY <1>7, <2>1
  <2>3. Asked' = Asked
    BY <2>2, AskedIs
  <2>4. QED BY <1>1, <2>3, NoneAsked
<1>9. CASE "sendto" \in faults /\ toGB' = toGB
  <2>1. \E f \in Faults : "sendto" \in f
    BY <1>9 DEF TypeOK
  <2> HIDE DEF m, d, r
  <2>2. /\ Asked[d] \in Nat /\ Asked[d] > 0
        /\ Asked' = [Asked EXCEPT ![d] = @ - 1]
    <3> DEFINE n == [e \in DP!DlgId |-> Cardinality(InvitesFor(toMC, e))]
               n1 == [e \in DP!DlgId |-> Cardinality(InvitesFor(toMC', e))]
               g == [e \in DP!DlgId |-> Cardinality(RepliesFor(toGB, e))]
    <3>1. /\ \A e \in DP!DlgId : n[e] \in Nat /\ n1[e] \in Nat /\ g[e] \in Nat
          /\ \A e \in DP!DlgId : n[e] = IF e = d THEN n1[e] + 1 ELSE n1[e]
      BY <1>7
    <3>2. /\ Asked = [e \in DP!DlgId |-> n[e] + g[e]]
          /\ Asked' = [e \in DP!DlgId |-> n1[e] + g[e]]
      BY <1>9, AskedIs
    <3>3. d \in DP!DlgId
      BY <1>2, SameTypes
    <3> HIDE DEF n, n1, g
    <3>4. Asked[d] \in Nat /\ Asked[d] > 0
      BY <3>1, <3>2, <3>3
    <3>5. \A e \in DP!DlgId : n1[e] + g[e] = IF e = d THEN (n[e] + g[e]) - 1 ELSE n[e] + g[e]
      BY <3>1
    <3>6. QED BY <3>2, <3>3, <3>4, <3>5
  <2>3. D!MediaReplyUnsent(d)
    BY <1>1, <2>1, <2>2 DEF D!MediaReplyUnsent, gbVars
  <2>4. QED BY <1>2, <2>3 DEF D!Next
<1>10. QED BY <1>4, <1>8, <1>9 DEF Reply, Unsent

\* Requests of the platforms: each ends in one handler of DlgPool.
LEMMA RequestStep ==
    ASSUME TypeOK, NEW l \in Leg,
           \/ GbInvite(l) \/ GbInviteRefused(l) \/ GbInviteRepeated(l)
           \/ GbAck(l) \/ GbBye(l) \/ GbByeUnknown(l)
    PROVE  D!Next \/ UNCHANGED D!vars
<1>1. ReqOf(l) \in D!Request
  BY RequestType
<1>2. CASE GbInvite(l)
  <2>1. Target[l] \in Item /\ D!InviteNew(Target[l], ReqOf(l))
    BY <1>2 DEF GbInvite
  <2>2. QED BY <1>1, <2>1 DEF D!Next
<1>3. CASE GbInviteRefused(l)
  <2>1. \/ UNCHANGED gbVars /\ toMC' = toMC /\ toGB' = toGB
        \/ /\ Target[l] \in Item
           /\ \/ D!InviteFull(Target[l], ReqOf(l))
              \/ D!InviteNewUnsent(Target[l], ReqOf(l))
    BY <1>3 DEF GbInviteRefused
  <2>2. QED BY <1>1, <2>1, QueuesAsked, NoneAsked DEF D!Next
<1>4. CASE GbInviteRepeated(l)
  <2>1. Target[l] \in Item /\ D!InviteBusy(Target[l], ReqOf(l))
    BY <1>4 DEF GbInviteRepeated
  <2>2. QED BY <1>1, <2>1 DEF D!Next
<1>5. CASE GbAck(l)
  <2>1. UNCHANGED gbVars /\ toGB' = toGB
    BY <1>5 DEF GbAck
  <2>2. CASE toMC' = toMC
    BY <2>1, <2>2, QueuesAsked, NoneAsked
  <2>3. CASE \E t \in TransId : toMC' = Append(toMC, [type |-> "ACK", tid |-> t])
    <3>1. PICK t \in TransId : toMC' = Append(toMC, [type |-> "ACK", tid |-> t])
      BY <2>3
    <3> DEFINE e == [type |-> "ACK", tid |-> t]
    <3>2. e \in ToMcMsg /\ e.type # "INVITE"
      BY DEF ToMcMsg
    <3>3. toMC \in Seq(ToMcMsg) /\ toMC' = Append(toMC, e)
      BY <3>1 DEF TypeOK
    <3> HIDE DEF e
    <3>4. QED BY <2>1, <3>2, <3>3, OtherSent, NoneAsked
  <2>4. ASSUME NEW k \in DOMAIN caller[Target[l]], Target[l] \in Item
        PROVE  dlg[caller[Target[l]][k]].tid \in TransId
    <3>1. /\ caller[Target[l]] \in Seq(D!DlgId)
          /\ dlg \in [D!DlgId -> D!Dialog]
      BY <2>4 DEF TypeOK, D!TypeOK
    <3>2. caller[Target[l]][k] \in D!DlgId
      BY <3>1, ElementOfSeq, LenProperties
    <3>3. QED BY <3>1, <3>2 DEF D!Dialog
  <2>5. QED BY <1>5, <2>2, <2>3, <2>4 DEF GbAck
<1>6. CASE GbBye(l)
  <2>1. Target[l] \in Item /\ D!Bye(Target[l], ReqOf(l))
    BY <1>6 DEF GbBye, D!Bye
  <2>2. QED BY <1>1, <2>1 DEF D!Next
<1>7. CASE GbByeUnknown(l)
  BY <1>7, QueuesAsked, NoneAsked DEF GbByeUnknown
<1>8. QED BY <1>2, <1>3, <1>4, <1>5, <1>6, <1>7

\* Every step is a step of DlgPool or leaves the dialogs alone.
LEMMA PoolStep ==
    ASSUME TypeOK, [Next]_vars
    PROVE  [D!Next]_(D!vars)
<1>1. CASE \E l \in Leg : \/ GbInvite(l) \/ GbInviteRefused(l) \/ GbInviteRepeated(l)
                          \/ GbAck(l) \/ GbBye(l) \/ GbByeUnknown(l)
  BY <1>1, RequestStep
<1>2. CASE GbReply
  <2> DEFINE r == Head(toGB)
  <2>1. r \in ToGbMsg /\ r.dlg \in D!DlgId /\ r.tid \in TransId
    <3>1. r \in ToGbMsg
      BY <1>2, HeadType DEF GbReply
    <3>2. QED BY <3>1 DEF ToGbMsg
  <2>2. D!MediaReply(r.dlg, NearTag, r.tid) \/ D!MediaReplyUnsent(r.dlg)
    BY <1>2 DEF GbReply
  <2> HIDE DEF r
  <2>3. QED BY <2>1, <2>2 DEF D!Next
<1>3. CASE DevInvite
  BY <1>3, InviteTaken
<1>4. CASE DevAck \/ DevBye
  <2>1. /\ toMC # <<>> /\ Head(toMC).type # "INVITE" /\ toMC' = Tail(toMC) /\ toGB' = toGB
        /\ UNCHANGED gbVars
    BY <1>4 DEF DevAck, DevBye, FromGb
  <2>2. toMC \in Seq(ToMcMsg)
    BY DEF TypeOK
  <2>3. QED BY <2>1, <2>2, OtherTaken, NoneAsked
<1>5. CASE VtduSwitch \/ (\E l \in Leg : Platform(l) \/ Network(l)) \/ UNCHANGED vars
  <2>1. UNCHANGED gbVars /\ toMC' = toMC /\ toGB' = toGB
    BY <1>5 DEF VtduSwitch, Platform, Invite, Answered, HangUp, HangUpAgain, Closed, Stray,
         Network, Lose, LateInvite, sysVars, vars, gbVars
  <2>2. QED BY <2>1, QueuesAsked, NoneAsked
<1>6. QED BY <1>1, <1>2, <1>3, <1>4, <1>5 DEF Next, GbStep, DevStep

-----------------------------------------------------------------------------
(* Types.  A transmitter and a message to the VTDU have an address only     *)
(* together with a channel.                                                 *)

Aimed ==
    /\ \A t \in T!Trans : to[t] # Null => ch[t] \in T!Chan
    /\ \A k \in 1 .. Len(toVtdu) : toVtdu[k].to # Null => toVtdu[k].ch \in T!Chan

TInv == TypeOK /\ DP!IInv /\ Aimed

\* What TypeOK says, variable by variable.
OtherTypes ==
    /\ T!TypeOK
    /\ toMC \in Seq(ToMcMsg) /\ toGB \in Seq(ToGbMsg) /\ toVtdu \in Seq(ToVtduMsg)
    /\ switches \subseteq T!Chan \X Leg

LegTypes ==
    /\ phase \in [Leg -> {"idle", "calling", "confirmed", "refused", "closing", "closed"}]
    /\ extra \in 0 .. MaxExtra
    /\ up \in [Leg -> Seq(Method)] /\ down \in [Leg -> Seq(Code)]
    /\ faults \in Faults

LEMMA TypeParts == /\ TypeOK <=> D!TypeOK /\ OtherTypes /\ LegTypes
                   /\ TypeOK' <=> D!TypeOK' /\ OtherTypes' /\ LegTypes'
BY DEF TypeOK, OtherTypes, LegTypes

LEMMA TInvInit == Init => TInv
<1> SUFFICES ASSUME Init PROVE TInv
  OBVIOUS
<1>1. DP!IInv
  BY SameInit, DP!InitIInv, PoolAssumptions DEF Init
<1>2. D!TypeOK
  BY <1>1, SameTypes DEF DP!IInv
<1>3. OtherTypes
  <2>1. T!TypeOK
    BY SizesAssumption DEF Init, T!Init, T!TypeOK, T!Trans, T!Ptr, T!Chan
  <2>2. QED BY <2>1, EmptySeq DEF Init, OtherTypes
<1>4. LegTypes
  BY MaxExtraAssumption, EmptySeq DEF Init, LegTypes
<1>5. Aimed
  BY EmptySeq DEF Init, T!Init, Aimed
<1>6. QED BY <1>1, <1>2, <1>3, <1>4, <1>5, TypeParts DEF TInv

\* The dialogs keep their invariant because each step is one of DlgPool's.
LEMMA PoolKept ==
    ASSUME TInv, [Next]_vars
    PROVE  DP!IInv' /\ D!TypeOK'
<1>1. [DP!Next]_(DP!vars)
  BY PoolStep, SameNext DEF TInv
<1>2. DP!IInv'
  BY <1>1, DP!NextIInv, PoolAssumptions DEF TInv
<1>3. DP!TypeOK'
  BY <1>2 DEF DP!IInv
<1>4. QED BY <1>2, <1>3, SameTypes

\* The platforms, the network and the answers.
LEMMA LegTypesKept ==
    ASSUME TypeOK, [Next]_vars
    PROVE  LegTypes'
<1> USE DEF LegTypes
<1>0. LegTypes
  BY TypeParts
<1>1. ASSUME NEW l \in Leg, NEW m \in Method, Send(l, m)
      PROVE  up' \in [Leg -> Seq(Method)]
  <2>1. up[l] \in Seq(Method)
    BY <1>0
  <2>2. Append(up[l], m) \in Seq(Method)
    BY <2>1, AppendIs
  <2>3. QED BY <1>0, <1>1, <2>2 DEF Send
<1>2. ASSUME NEW l \in Leg, NEW c \in Code, Answer(l, c)
      PROVE  down' \in [Leg -> Seq(Code)]
  <2>1. down[l] \in Seq(Code)
    BY <1>0
  <2>2. Append(down[l], c) \in Seq(Code)
    BY <2>1, AppendIs
  <2>3. QED BY <1>0, <1>2, <2>2 DEF Answer
<1>3. ASSUME NEW l \in Leg, up[l] # <<>>, up' = [up EXCEPT ![l] = Tail(@)]
      PROVE  up' \in [Leg -> Seq(Method)]
  BY <1>0, <1>3, TailIs
<1>4. ASSUME NEW l \in Leg, down[l] # <<>>, down' = [down EXCEPT ![l] = Tail(@)]
      PROVE  down' \in [Leg -> Seq(Code)]
  BY <1>0, <1>4, TailIs
<1>5. {"INVITE", "ACK", "BYE"} \subseteq Method /\ {"OK", "FAIL", "BYE200", "BYE400"} \subseteq Code
  BY DEF Method, Code
<1>6. ASSUME NEW l \in Leg,
             \/ GbInvite(l) \/ GbInviteRefused(l) \/ GbInviteRepeated(l)
             \/ GbAck(l) \/ GbBye(l) \/ GbByeUnknown(l)
      PROVE  LegTypes'
  <2>1. UNCHANGED legVars
    BY <1>6 DEF GbInvite, GbInviteRefused, GbInviteRepeated, GbAck, GbBye, GbByeUnknown
  <2>2. \E m \in Method : Arrives(l, m)
    BY <1>5, <1>6 DEF GbInvite, GbInviteRefused, GbInviteRepeated, GbAck, GbBye, GbByeUnknown
  <2>3. up' \in [Leg -> Seq(Method)]
    BY <1>3, <2>2 DEF Arrives
  <2>4. down' = down \/ \E c \in Code : Answer(l, c)
    BY <1>5, <1>6 DEF GbInvite, GbInviteRefused, GbInviteRepeated, GbAck, GbBye, GbByeUnknown
  <2>5. down' \in [Leg -> Seq(Code)]
    BY <1>0, <1>2, <2>4
  <2>6. QED BY <1>0, <2>1, <2>3, <2>5 DEF legVars
<1>7. CASE GbReply
  <2>1. Head(toGB).leg \in Leg
    BY <1>7, HeadType DEF GbReply, ToGbMsg
  <2>2. down' = down \/ \E c \in Code : Answer(Head(toGB).leg, c)
    BY <1>5, <1>7 DEF GbReply
  <2>3. down' \in [Leg -> Seq(Code)]
    BY <1>0, <1>2, <2>1, <2>2
  <2>4. UNCHANGED <<legVars, up>>
    BY <1>7 DEF GbReply
  <2>5. QED BY <1>0, <2>3, <2>4 DEF legVars
<1>8. CASE DevStep \/ VtduSwitch \/ UNCHANGED vars
  <2>1. UNCHANGED <<legVars, up, down>>
    BY <1>8 DEF DevStep, DevInvite, DevAck, DevBye, VtduSwitch, vars, legVars
  <2>2. QED BY <1>0, <2>1 DEF legVars
<1>9. ASSUME NEW l \in Leg, Invite(l) \/ HangUp(l) \/ HangUpAgain(l) \/ LateInvite(l)
      PROVE  LegTypes'
  <2>1. \E m \in Method : Send(l, m)
    BY <1>5, <1>9 DEF Invite, HangUp, HangUpAgain, LateInvite
  <2>2. up' \in [Leg -> Seq(Method)]
    BY <1>1, <2>1
  <2>3. \/ phase' = phase
        \/ phase' = [phase EXCEPT ![l] = "calling"]
        \/ phase' = [phase EXCEPT ![l] = "closing"]
    BY <1>9 DEF Invite, HangUp, HangUpAgain, LateInvite, Goes
  <2>4. phase' \in [Leg -> {"idle", "calling", "confirmed", "refused", "closing", "closed"}]
    BY <1>0, <2>3
  <2>5. extra' = extra \/ (extra < MaxExtra /\ extra' = extra + 1)
    BY <1>9 DEF Invite, HangUp, HangUpAgain, LateInvite, Repeats
  <2>6. extra' \in 0 .. MaxExtra
    BY <1>0, <2>5, MaxExtraAssumption
  <2>7. down' = down /\ faults' = faults
    BY <1>9 DEF Invite, HangUp, HangUpAgain, LateInvite, sysVars
  <2>8. QED BY <1>0, <2>2, <2>4, <2>6, <2>7
<1>10. ASSUME NEW l \in Leg, Answered(l) \/ Closed(l) \/ Stray(l)
       PROVE  LegTypes'
  <2>1. up' = up \/ Send(l, "ACK")
    BY <1>10 DEF Answered, Closed, Stray
  <2>2. up' \in [Leg -> Seq(Method)]
    BY <1>0, <1>1, <1>5, <2>1
  <2>3. down' \in [Leg -> Seq(Code)]
    BY <1>4, <1>10 DEF Answered, Closed, Stray, Receives
  <2>4. /\ phase' \in [Leg -> {"idle", "calling", "confirmed", "refused", "closing", "closed"}]
        /\ extra' = extra /\ faults' = faults
    BY <1>0, <1>10 DEF Answered, Closed, Stray, Goes, sysVars, legVars
  <2>5. QED BY <1>0, <2>2, <2>3, <2>4
<1>11. ASSUME NEW l \in Leg, Lose(l)
       PROVE  LegTypes'
  <2>1. /\ up' \in [Leg -> Seq(Method)] /\ down' \in [Leg -> Seq(Code)]
    BY <1>0, <1>3, <1>4, <1>11 DEF Lose
  <2>2. QED BY <1>0, <1>11, <2>1 DEF Lose, legVars
<1>12. QED BY <1>6, <1>7, <1>8, <1>9, <1>10, <1>11 DEF Next, GbStep, Platform, Network

\* What the dialogs on the lists lead to.
LEMMA ListedDialog ==
    ASSUME TypeOK, NEW i \in Item, NEW k \in DOMAIN caller[i]
    PROVE  /\ caller[i][k] \in D!DlgId
           /\ dlg[caller[i][k]] \in D!Dialog
           /\ dlg[caller[i][k]].tid \in TransId
<1>1. caller[i] \in Seq(D!DlgId) /\ dlg \in [D!DlgId -> D!Dialog]
  BY DEF TypeOK, D!TypeOK
<1>2. caller[i][k] \in D!DlgId
  BY <1>1, ElementOfSeq, LenProperties
<1>3. QED BY <1>1, <1>2 DEF D!Dialog

\* A transmitter is taken or given back.
LEMMA TableTypes ==
    ASSUME T!TypeOK
    PROVE  /\ \A c \in T!Chan, a \in Leg : T!Take(unused, c, a) => T!TypeOK'
           /\ \A t \in T!Trans : T!GiveBack(t) => T!TypeOK'
           /\ UNCHANGED devVars => T!TypeOK'
<1>1. ASSUME NEW c \in T!Chan, NEW a \in Leg, T!Take(unused, c, a)
      PROVE  T!TypeOK'
  BY <1>1 DEF T!TypeOK, T!Take, T!Ptr
<1>2. ASSUME NEW t \in T!Trans, T!GiveBack(t)
      PROVE  T!TypeOK'
  BY <1>2 DEF T!TypeOK, T!GiveBack, T!Ptr
<1>3. ASSUME UNCHANGED devVars
      PROVE  T!TypeOK'
  BY <1>3 DEF T!TypeOK, devVars
<1>4. QED BY <1>1, <1>2, <1>3

\* What the message centre tells the VTDU of transmitter t.
LEMMA ToldType ==
    ASSUME TInv, NEW t \in T!Trans, NEW op \in {"ADD", "DEL"}
    PROVE  [op |-> op, ch |-> ch[t], to |-> to[t]] \in ToVtduMsg
BY DEF TInv, TypeOK, T!TypeOK, ToVtduMsg

\* The message centre's thread.
LEMMA DevTypesKept ==
    ASSUME TInv, DevStep
    PROVE  OtherTypes' /\ Aimed'
<1>0. OtherTypes /\ Aimed
  BY TypeParts DEF TInv
<1>1. toMC' \in Seq(ToMcMsg) /\ switches' = switches
  <2>1. toMC # <<>> /\ toMC' = Tail(toMC) /\ switches' = switches
    BY DEF DevStep, DevInvite, DevAck, DevBye, FromGb
  <2>2. QED BY <1>0, <2>1, TailIs DEF OtherTypes
<1>2. CASE DevInvite
  <2> DEFINE m == Head(toMC)
  <2>1. m \in ToMcMsg /\ m.type = "INVITE" /\ m.leg \in Leg /\ m.dlg \in D!DlgId
    <3>1. m \in ToMcMsg /\ m.type = "INVITE"
      BY <1>2, HeadType DEF DevInvite, FromGb, TInv
    <3>2. QED BY <3>1 DEF ToMcMsg
  <2>2. \A addr \in BOOLEAN, tid \in TransId : Reply(m, addr, tid) => toGB' \in Seq(ToGbMsg)
    <3> SUFFICES ASSUME NEW addr \in BOOLEAN, NEW tid \in TransId, Reply(m, addr, tid)
                 PROVE  toGB' \in Seq(ToGbMsg)
      OBVIOUS
    <3> DEFINE r == [dlg |-> m.dlg, leg |-> m.leg, addr |-> addr, tid |-> tid]
    <3>1. r \in ToGbMsg
      BY <2>1 DEF ToGbMsg
    <3>2. toGB' = Append(toGB, r) \/ toGB' = toGB
      BY DEF Reply, Unsent
    <3>3. toGB \in Seq(ToGbMsg)
      BY <1>0 DEF OtherTypes
    <3> HIDE DEF r
    <3>4. Append(toGB, r) \in Seq(ToGbMsg)
      BY <3>1, <3>3, AppendIs
    <3>5. QED BY <3>2, <3>3, <3>4
  <2>3. toVtdu' = toVtdu
    BY <1>2 DEF DevInvite
  <2>4. CASE Target[m.leg] \in T!Chan /\ T!Take(unused, Target[m.leg], m.leg)
             /\ Reply(m, TRUE, unused)
    <3>1. unused \in TransId
      BY <1>0, <2>4, SizesAssumption DEF OtherTypes, T!Take, T!TypeOK, T!Ptr, T!Trans, TransId
    <3>2. toGB' \in Seq(ToGbMsg)
      BY <2>2, <2>4, <3>1
    <3>3. T!TypeOK'
      BY <1>0, <2>1, <2>4, TableTypes DEF OtherTypes
    <3>4. Aimed'
      BY <1>0, <2>3, <2>4, NullAssumption DEF Aimed, OtherTypes, T!TypeOK, T!Take, T!Chan, T!Trans
    <3>5. QED BY <1>0, <1>1, <2>3, <3>2, <3>3, <3>4 DEF OtherTypes
  <2>5. CASE UNCHANGED devVars /\ \E garbage \in TransId : Reply(m, FALSE, garbage)
    <3>1. toGB' \in Seq(ToGbMsg)
      BY <2>2, <2>5
    <3>2. T!TypeOK'
      BY <1>0, <2>5, TableTypes DEF OtherTypes
    <3>3. Aimed'
      BY <1>0, <2>3, <2>5 DEF Aimed, devVars
    <3>4. QED BY <1>0, <1>1, <2>3, <3>1, <3>2, <3>3 DEF OtherTypes
  <2>6. QED BY <1>2, <2>4, <2>5 DEF DevInvite
<1>3. CASE DevAck \/ DevBye
  <2> DEFINE t == Head(toMC).tid
  <2>1. toGB' = toGB
    BY <1>3 DEF DevAck, DevBye
  <2>2. T!TypeOK' /\ ch' = ch /\ to' = to
    <3>1. UNCHANGED devVars \/ (t \in T!Trans /\ T!GiveBack(t))
      <4>1. DevAck => UNCHANGED devVars
        BY DEF DevAck, Ignored
      <4>2. DevBye => UNCHANGED devVars \/ (t \in T!Trans /\ T!GiveBack(t))
        BY DEF DevBye, Ignored
      <4> HIDE DEF t
      <4>3. QED BY <1>3, <4>1, <4>2
    <3>2. QED BY <1>0, <3>1, TableTypes DEF OtherTypes, T!GiveBack, devVars
  <2>3. toVtdu' = toVtdu \/ \E op \in {"ADD", "DEL"} : t \in T!Trans /\ TellVtdu(op, t)
    <3>1. DevAck => toVtdu' = toVtdu \/ (t \in T!Trans /\ TellVtdu("ADD", t))
      BY DEF DevAck, Ignored
    <3>2. DevBye => toVtdu' = toVtdu \/ (t \in T!Trans /\ TellVtdu("DEL", t))
      BY DEF DevBye, Ignored
    <3> HIDE DEF t
    <3>3. QED BY <1>3, <3>1, <3>2
  <2>4. toVtdu' \in Seq(ToVtduMsg) /\ Aimed'
    <3>1. CASE toVtdu' = toVtdu
      BY <1>0, <2>2, <3>1 DEF Aimed, OtherTypes
    <3>2. CASE toVtdu' # toVtdu
      <4>1. PICK op \in {"ADD", "DEL"} :
               t \in T!Trans /\ toVtdu' = Append(toVtdu, [op |-> op, ch |-> ch[t], to |-> to[t]])
        BY <2>3, <3>2 DEF TellVtdu, Unsent
      <4> DEFINE e == [op |-> op, ch |-> ch[t], to |-> to[t]]
      <4>2. e \in ToVtduMsg /\ (e.to # Null => e.ch \in T!Chan)
        BY <1>0, <4>1, ToldType DEF Aimed
      <4> HIDE DEF e
      <4>3. /\ toVtdu' \in Seq(ToVtduMsg) /\ Len(toVtdu') = Len(toVtdu) + 1 /\ Len(toVtdu) \in Nat
            /\ \A k \in 1 .. Len(toVtdu) : toVtdu'[k] = toVtdu[k]
            /\ toVtdu'[Len(toVtdu) + 1] = e
        BY <1>0, <4>1, <4>2, AppendIs DEF OtherTypes, e
      <4>4. \A k \in 1 .. Len(toVtdu') : k \in 1 .. Len(toVtdu) \/ k = Len(toVtdu) + 1
        BY <4>3
      <4>5. QED BY <1>0, <2>2, <4>2, <4>3, <4>4 DEF Aimed
    <3>3. QED BY <3>1, <3>2
  <2>5. QED BY <1>0, <1>1, <2>1, <2>2, <2>4 DEF OtherTypes
<1>4. QED BY <1>2, <1>3 DEF DevStep

\* The VTDU's thread.
LEMMA VtduTypesKept ==
    ASSUME TInv, VtduSwitch
    PROVE  OtherTypes' /\ Aimed'
<1>0. OtherTypes /\ Aimed
  BY TypeParts DEF TInv
<1>1. /\ toVtdu # <<>> /\ toVtdu' = Tail(toVtdu)
      /\ UNCHANGED <<devVars, toMC, toGB>>
  BY DEF VtduSwitch
<1>2. /\ toVtdu' \in Seq(ToVtduMsg) /\ Len(toVtdu) \in Nat \ {0} /\ Len(toVtdu') = Len(toVtdu) - 1
      /\ \A k \in 1 .. Len(toVtdu) - 1 : toVtdu'[k] = toVtdu[k + 1]
      /\ Head(toVtdu) = toVtdu[1] /\ Head(toVtdu) \in ToVtduMsg
  BY <1>0, <1>1, TailIs DEF OtherTypes
<1>3. Aimed'
  BY <1>0, <1>1, <1>2 DEF Aimed, devVars
<1>4. switches' \subseteq T!Chan \X Leg
  <2>1. Head(toVtdu).to # Null => <<Head(toVtdu).ch, Head(toVtdu).to>> \in T!Chan \X Leg
    BY <1>0, <1>2 DEF Aimed, ToVtduMsg
  <2>2. Head(toVtdu).op \in {"ADD", "DEL"}
    BY <1>2 DEF ToVtduMsg
  <2>3. switches' \subseteq switches \cup {<<Head(toVtdu).ch, Head(toVtdu).to>>}
        /\ (Head(toVtdu).to = Null => switches' = switches)
    BY <2>2 DEF VtduSwitch
  <2>4. QED BY <1>0, <2>1, <2>3 DEF OtherTypes
<1>5. T!TypeOK'
  BY <1>0, <1>1, TableTypes DEF OtherTypes
<1>6. QED BY <1>0, <1>1, <1>2, <1>3, <1>4, <1>5 DEF OtherTypes

\* The GB server sends the message centre what it reads in its dialogs.
LEMMA GbTypesKept ==
    ASSUME TInv, GbStep
    PROVE  OtherTypes' /\ Aimed'
<1>0. OtherTypes /\ Aimed
  BY TypeParts DEF TInv
<1>1. UNCHANGED <<devVars, toVtdu, switches>>
  BY DEF GbStep, GbInvite, GbInviteRefused, GbInviteRepeated, GbAck, GbBye, GbByeUnknown, GbReply
<1>2. T!TypeOK' /\ Aimed'
  BY <1>0, <1>1, TableTypes DEF OtherTypes, Aimed, devVars
<1>3. toGB' \in Seq(ToGbMsg)
  <2>1. toGB' = toGB \/ (toGB # <<>> /\ toGB' = Tail(toGB))
    BY DEF GbStep, GbInvite, GbInviteRefused, GbInviteRepeated, GbAck, GbBye, GbByeUnknown, GbReply
  <2>2. toGB \in Seq(ToGbMsg)
    BY <1>0 DEF OtherTypes
  <2>3. toGB # <<>> => Tail(toGB) \in Seq(ToGbMsg)
    BY <2>2, TailIs
  <2>4. QED BY <2>1, <2>2, <2>3
<1>4. toMC' = toMC \/ \E e \in ToMcMsg : toMC' = Append(toMC, e)
  <2>1. ASSUME NEW l \in Leg, GbInvite(l)
        PROVE  \E e \in ToMcMsg : toMC' = Append(toMC, e)
    <3>1. free # <<>> /\ free \in Seq(D!DlgId)
      BY <2>1 DEF GbInvite, TInv, TypeOK, D!TypeOK
    <3>2. Head(free) \in D!DlgId
      BY <3>1, TailIs
    <3>3. [type |-> "INVITE", dlg |-> Head(free), leg |-> l] \in ToMcMsg
      BY <3>2 DEF ToMcMsg
    <3>4. QED BY <2>1, <3>3 DEF GbInvite
  <2>2. ASSUME NEW l \in Leg, GbAck(l)
        PROVE  toMC' = toMC \/ \E e \in ToMcMsg : toMC' = Append(toMC, e)
    <3>1. CASE /\ Target[l] \in Item
               /\ \E k \in DOMAIN caller[Target[l]] :
                     toMC' = Append(toMC, [type |-> "ACK", tid |-> dlg[caller[Target[l]][k]].tid])
      <4>1. PICK k \in DOMAIN caller[Target[l]] :
                     toMC' = Append(toMC, [type |-> "ACK", tid |-> dlg[caller[Target[l]][k]].tid])
        BY <3>1
      <4>2. [type |-> "ACK", tid |-> dlg[caller[Target[l]][k]].tid] \in ToMcMsg
        BY <3>1, ListedDialog DEF ToMcMsg, TInv
      <4>3. QED BY <4>1, <4>2
    <3>2. QED BY <2>2, <3>1 DEF GbAck
  <2>3. ASSUME NEW l \in Leg, GbBye(l)
        PROVE  toMC' = toMC \/ \E e \in ToMcMsg : toMC' = Append(toMC, e)
    <3>1. CASE /\ Target[l] \in Item
               /\ \E k \in DOMAIN caller[Target[l]] :
                     toMC' = Append(toMC, [type |-> "BYE", tid |-> dlg[caller[Target[l]][k]].tid])
      <4>1. PICK k \in DOMAIN caller[Target[l]] :
                     toMC' = Append(toMC, [type |-> "BYE", tid |-> dlg[caller[Target[l]][k]].tid])
        BY <3>1
      <4>2. [type |-> "BYE", tid |-> dlg[caller[Target[l]][k]].tid] \in ToMcMsg
        BY <3>1, ListedDialog DEF ToMcMsg, TInv
      <4>3. QED BY <4>1, <4>2
    <3>2. QED BY <2>3, <3>1 DEF GbBye
  <2>4. QED BY <2>1, <2>2, <2>3
            DEF GbStep, GbInviteRefused, GbInviteRepeated, GbByeUnknown, GbReply
<1>5. toMC' \in Seq(ToMcMsg)
  <2>1. toMC \in Seq(ToMcMsg)
    BY <1>0 DEF OtherTypes
  <2>2. \A e \in ToMcMsg : Append(toMC, e) \in Seq(ToMcMsg)
    BY <2>1, AppendIs
  <2>3. QED BY <1>4, <2>1, <2>2
<1>6. QED BY <1>0, <1>1, <1>2, <1>3, <1>5 DEF OtherTypes

LEMMA TInvNext == TInv /\ [Next]_vars => TInv'
<1> SUFFICES ASSUME TInv, [Next]_vars PROVE TInv'
  OBVIOUS
<1>1. DP!IInv' /\ D!TypeOK' /\ LegTypes'
  BY PoolKept, LegTypesKept DEF TInv
<1>2. CASE (\E l \in Leg : Platform(l) \/ Network(l)) \/ UNCHANGED vars
  <2>1. UNCHANGED <<devVars, toMC, toGB, toVtdu, switches>>
    BY <1>2 DEF Platform, Invite, Answered, HangUp, HangUpAgain, Closed, Stray,
         Network, Lose, LateInvite, sysVars, vars, devVars
  <2>2. OtherTypes /\ Aimed
    BY TypeParts DEF TInv
  <2>3. OtherTypes' /\ Aimed'
    BY <2>1, <2>2, TableTypes DEF OtherTypes, Aimed, devVars
  <2>4. QED BY <1>1, <2>3, TypeParts DEF TInv
<1>3. CASE DevStep \/ VtduSwitch \/ GbStep
  <2>1. OtherTypes' /\ Aimed'
    BY <1>3, DevTypesKept, VtduTypesKept, GbTypesKept
  <2>2. QED BY <1>1, <2>1, TypeParts DEF TInv
<1>4. QED BY <1>2, <1>3 DEF Next

\* The inductive invariant of the composition: the typing, the invariant of the
\* dialog pool over the requests in the sockets, and where messages aim.
THEOREM CallInvariant == Spec => []TInv
<1> QED
  BY TInvInit, TInvNext, PTL DEF Spec

\* For any number of calls, items, dialogs and transmitters and with any of the
\* faults, every variable of the composed server keeps its type.
THEOREM CallTypes == Spec => []TypeOK
<1>1. TInv => TypeOK
  BY DEF TInv
<1> QED
  BY <1>1, CallInvariant, PTL

\* The threads together behave as DlgPool, with the requests in flight counted
\* in the sockets: the message centre answers for the dialog it was asked for
\* and for no other (deal_rmt_invite, rmt_invite_media, deal_inter_msg).
THEOREM CallsUsePool == Spec => ImplementsDlgPool
<1>1. Init => D!Init
  BY DEF Init
<1>2. TInv /\ [Next]_vars => [D!Next]_(D!vars)
  BY PoolStep DEF TInv
<1> QED
  BY <1>1, <1>2, CallInvariant, PTL DEF Spec, ImplementsDlgPool, D!Spec

\* Unless sendto fails, a dialog that is INVITING has a request in one of the
\* two sockets (add_rmt_invite_dialog, deal_inter_msg).
THEOREM InvitingHasRequest == Spec => []InvitingIsAsked
<1>1. TInv => InvitingIsAsked
  BY DEF TInv, DP!IInv, DP!InvitingIsAsked, InvitingIsAsked, D!InvitingIsAsked,
         DP!DlgId, D!DlgId, DP!Listed, D!Listed, DP!InCallers, D!InCallers, DP!Occurs, D!Occurs
<1> QED
  BY <1>1, CallInvariant, PTL

-----------------------------------------------------------------------------
(* How each kind of handler changes the dialogs. *)

LEMMA SamePlaces ==
    /\ \A d, i : /\ D!InCallers(d, i) <=> DP!InCallers(d, i)
                 /\ D!InCallers(d, i)' <=> DP!InCallers(d, i)'
    /\ \A d : /\ D!Listed(d) <=> DP!Listed(d)
              /\ D!Listed(d)' <=> DP!Listed(d)'
              /\ D!InFree(d) <=> DP!InFree(d)
    /\ \A i, m : DP!AddDialog(i, m) <=> D!AddDialog(i, m)
    /\ \A i, k : DP!ByeAt(i, k) <=> D!ByeAt(i, k)
    /\ D!Request = DP!Request
BY DEF D!InCallers, DP!InCallers, D!Listed, DP!Listed, D!InFree, DP!InFree, D!Occurs, DP!Occurs,
       D!AddDialog, DP!AddDialog, D!ByeAt, DP!ByeAt, D!InviteUnknown, DP!InviteUnknown,
       D!InviteNull, DP!InviteNull, D!SameCall, DP!SameCall, D!NoCopy, DP!NoCopy,
       D!InviteMatch, DP!InviteMatch, D!WithoutAt, DP!WithoutAt, D!Blank, DP!Blank,
       D!Request, DP!Request

\* add_rmt_invite_dialog: a dialog that was on no list, nor asked for.
LEMMA DialogAdded ==
    ASSUME TInv, NEW l \in Leg, Target[l] \in Item, D!AddDialog(Target[l], ReqOf(l))
    PROVE  /\ Head(free) \in D!DlgId /\ ~D!Listed(Head(free))
           /\ \A e \in D!DlgId, j \in Item :
                D!InCallers(e, j)' <=> D!InCallers(e, j) \/ (e = Head(free) /\ j = Target[l])
           /\ \A e \in D!DlgId : D!Listed(e)' <=> D!Listed(e) \/ e = Head(free)
           /\ \A e \in D!DlgId : e # Head(free) => dlg'[e] = dlg[e]
           /\ dlg'[Head(free)] = [state |-> "INVITING", cid |-> l, rtag |-> FarTag,
                                  ltag |-> Null, tid |-> dlg[Head(free)].tid]
<1> DEFINE d == Head(free)
           i == Target[l]
<1>1. ReqOf(l) \in DP!Request /\ DP!AddDialog(i, ReqOf(l))
  BY RequestType, SamePlaces
<1>2. DP!TypeOK /\ DP!PoolPartition
  BY DEF TInv, DP!IInv
<1>3. /\ d \in DP!DlgId /\ DP!InFree(d)
      /\ \A e \in DP!DlgId, j \in Item :
            DP!InCallers(e, j)' <=> DP!InCallers(e, j) \/ (e = d /\ j = i)
  BY <1>1, <1>2, DP!AddMoves, PoolAssumptions
<1>4. \A e \in DP!DlgId : e # d => dlg'[e] = dlg[e]
  BY <1>1, <1>2, <1>3, DP!AddWrites, PoolAssumptions
<1>5. ~DP!Listed(d)
  BY <1>2, <1>3 DEF DP!PoolPartition
<1>6. \A e \in D!DlgId, j \in Item : D!InCallers(e, j)' <=> D!InCallers(e, j) \/ (e = d /\ j = i)
  BY <1>3, SamePlaces, SameTypes
<1>7. \A e \in D!DlgId : D!Listed(e)' <=> D!Listed(e) \/ e = d
  BY <1>6 DEF D!Listed
<1>8. dlg'[d] = [state |-> "INVITING", cid |-> l, rtag |-> FarTag, ltag |-> Null, tid |-> dlg[d].tid]
  BY <1>3, SameTypes DEF D!AddDialog, D!NoCopy, ReqOf, TInv, TypeOK, D!TypeOK
<1>9. QED BY <1>3, <1>4, <1>5, <1>6, <1>7, <1>8, SamePlaces, SameTypes

\* find_rmt_bye_dialog: the dialog is on no list any more.
LEMMA DialogEnded ==
    ASSUME TInv, NEW i \in Item, NEW k \in DOMAIN caller[i], D!ByeAt(i, k)
    PROVE  /\ caller[i][k] \in D!DlgId /\ D!InCallers(caller[i][k], i)
           /\ D!Listed(caller[i][k])
           /\ \A e \in D!DlgId, j \in Item :
                D!InCallers(e, j)' <=> D!InCallers(e, j) /\ e # caller[i][k]
           /\ \A e \in D!DlgId : D!Listed(e)' <=> D!Listed(e) /\ e # caller[i][k]
           /\ \A e \in D!DlgId : e # caller[i][k] => dlg'[e] = dlg[e]
<1> DEFINE d == caller[i][k]
<1>1. DP!ByeAt(i, k)
  BY SamePlaces
<1>2. DP!TypeOK /\ DP!PoolPartition
  BY DEF TInv, DP!IInv
<1>3. /\ d \in DP!DlgId /\ DP!InCallers(d, i)
      /\ \A e \in DP!DlgId, j \in Item :
            DP!InCallers(e, j)' <=> DP!InCallers(e, j) /\ e # d
  BY <1>1, <1>2, DP!ByeMoves, PoolAssumptions
<1>4. \A e \in D!DlgId, j \in Item : D!InCallers(e, j)' <=> D!InCallers(e, j) /\ e # d
  BY <1>3, SamePlaces, SameTypes
<1>5. \A e \in D!DlgId : D!Listed(e)' <=> D!Listed(e) /\ e # d
  BY <1>4 DEF D!Listed
<1>6. d \in D!DlgId /\ D!InCallers(d, i)
  BY <1>3, SamePlaces, SameTypes
<1>7. D!Listed(d)
  BY <1>6 DEF D!Listed
<1>8. \A e \in D!DlgId : e # d => dlg'[e] = dlg[e]
  BY <1>6 DEF D!ByeAt, TInv, TypeOK, D!TypeOK
<1>9. QED BY <1>4, <1>5, <1>6, <1>7, <1>8

\* add_rmt_invite_dialog(item, dlg, ...): the dialogs stay on their lists.
LEMMA DialogAnswered ==
    ASSUME TInv, NEW d \in D!DlgId, NEW t, D!MediaReply(d, NearTag, t)
    PROVE  /\ \A e, j : D!InCallers(e, j)' <=> D!InCallers(e, j)
           /\ \A e : D!Listed(e)' <=> D!Listed(e)
           /\ \A e \in D!DlgId : e # d => dlg'[e] = dlg[e]
           /\ dlg'[d].state = "RESPONDED" /\ dlg'[d].cid = dlg[d].cid /\ dlg'[d].tid = t
           /\ dlg'[d].rtag = dlg[d].rtag
<1>1. free' = free /\ caller' = caller
  BY DEF D!MediaReply
<1>2. /\ \A e, j : D!InCallers(e, j)' <=> D!InCallers(e, j)
      /\ \A e : D!Listed(e)' <=> D!Listed(e)
  BY <1>1 DEF D!InCallers, D!Listed, D!Occurs
<1>3. dlg \in [D!DlgId -> D!Dialog]
  BY DEF TInv, TypeOK, D!TypeOK
<1>4. dlg' = [dlg EXCEPT ![d].ltag = NearTag, ![d].state = "RESPONDED", ![d].tid = t]
  BY DEF D!MediaReply
<1>5. QED BY <1>2, <1>3, <1>4 DEF D!Dialog

\* All others.
LEMMA DialogsKept ==
    ASSUME UNCHANGED gbVars
    PROVE  /\ \A e, j : D!InCallers(e, j)' <=> D!InCallers(e, j)
           /\ \A e : D!Listed(e)' <=> D!Listed(e)
           /\ dlg' = dlg /\ caller' = caller
BY DEF gbVars, D!InCallers, D!Listed, D!Occurs

-----------------------------------------------------------------------------
(* A platform that waits.  While nothing is lost, something of each waiting *)
(* call is on its way: an INVITE that meets a known dialog may be ignored   *)
(* because that dialog's own answer is still to come.                       *)

Reliable == faults \cap {"loss", "sendto"} = {}

Requested(q, l) == \E k \in DOMAIN q : q[k].type = "INVITE" /\ q[k].leg = l
Replied(q, l) == \E k \in DOMAIN q : q[k].leg = l
Due(l) == down[l] # <<>> \/ Requested(toMC, l) \/ Replied(toGB, l)
InCall(l) == \E d \in D!DlgId : D!Listed(d) /\ dlg[d].cid = l

IdleLeg(l) == up[l] = <<>> /\ ~Due(l) /\ ~InCall(l)

CallingLeg(l) ==
    /\ \A k \in 1 .. Len(up[l]) : up[l][k] \in {"INVITE"}
    /\ \A k \in 1 .. Len(down[l]) : down[l][k] \in {"OK", "FAIL"}
    /\ up[l] # <<>> \/ Due(l)
    /\ InCall(l) => Due(l)

LegInv(l) == /\ phase[l] = "idle" => IdleLeg(l)
             /\ phase[l] = "calling" => CallingLeg(l)

AnswerInv == Reliable => \A l \in Leg : LegInv(l)

LEMMA RequestedMore ==
    ASSUME NEW S, NEW q \in Seq(S), NEW e \in S, NEW l
    PROVE  Requested(Append(q, e), l) <=> Requested(q, l) \/ (e.type = "INVITE" /\ e.leg = l)
<1> DEFINE p == Append(q, e)
<1>1. /\ Len(q) \in Nat /\ DOMAIN q = 1 .. Len(q) /\ DOMAIN p = 1 .. Len(q) + 1
      /\ \A k \in 1 .. Len(q) : p[k] = q[k]
      /\ p[Len(q) + 1] = e
  BY AppendIs
<1> HIDE DEF p
<1>2. QED BY <1>1 DEF Requested, p

LEMMA RepliedMore ==
    ASSUME NEW S, NEW q \in Seq(S), NEW e \in S, NEW l
    PROVE  Replied(Append(q, e), l) <=> Replied(q, l) \/ e.leg = l
<1> DEFINE p == Append(q, e)
<1>1. /\ Len(q) \in Nat /\ DOMAIN q = 1 .. Len(q) /\ DOMAIN p = 1 .. Len(q) + 1
      /\ \A k \in 1 .. Len(q) : p[k] = q[k]
      /\ p[Len(q) + 1] = e
  BY AppendIs
<1> HIDE DEF p
<1>2. QED BY <1>1 DEF Replied, p

LEMMA RequestedLess ==
    ASSUME NEW S, NEW q \in Seq(S), q # <<>>, NEW l
    PROVE  Requested(q, l) <=> \/ Head(q).type = "INVITE" /\ Head(q).leg = l
                               \/ Requested(Tail(q), l)
<1>1. /\ Len(q) \in Nat \ {0} /\ DOMAIN q = 1 .. Len(q) /\ DOMAIN Tail(q) = 1 .. Len(q) - 1
      /\ \A k \in 1 .. Len(q) - 1 : Tail(q)[k] = q[k + 1]
      /\ Head(q) = q[1]
  BY TailIs
<1>2. ASSUME Requested(q, l), ~(Head(q).type = "INVITE" /\ Head(q).leg = l)
      PROVE  Requested(Tail(q), l)
  <2>1. PICK k \in 1 .. Len(q) : q[k].type = "INVITE" /\ q[k].leg = l
    BY <1>1, <1>2 DEF Requested
  <2>2. k - 1 \in 1 .. Len(q) - 1 /\ (k - 1) + 1 = k
    BY <1>1, <1>2, <2>1
  <2>3. QED BY <1>1, <2>1, <2>2 DEF Requested
<1>3. ASSUME Requested(Tail(q), l)
      PROVE  Requested(q, l)
  <2>1. PICK k \in 1 .. Len(q) - 1 : Tail(q)[k].type = "INVITE" /\ Tail(q)[k].leg = l
    BY <1>1, <1>3 DEF Requested
  <2>2. k + 1 \in 1 .. Len(q)
    BY <1>1
  <2>3. QED BY <1>1, <2>1, <2>2 DEF Requested
<1>4. ASSUME Head(q).type = "INVITE", Head(q).leg = l
      PROVE  Requested(q, l)
  BY <1>1, <1>4 DEF Requested
<1>5. QED BY <1>2, <1>3, <1>4

LEMMA RepliedLess ==
    ASSUME NEW S, NEW q \in Seq(S), q # <<>>, NEW l
    PROVE  Replied(q, l) <=> Head(q).leg = l \/ Replied(Tail(q), l)
<1>1. /\ Len(q) \in Nat \ {0} /\ DOMAIN q = 1 .. Len(q) /\ DOMAIN Tail(q) = 1 .. Len(q) - 1
      /\ \A k \in 1 .. Len(q) - 1 : Tail(q)[k] = q[k + 1]
      /\ Head(q) = q[1]
  BY TailIs
<1>2. ASSUME Replied(q, l), Head(q).leg # l
      PROVE  Replied(Tail(q), l)
  <2>1. PICK k \in 1 .. Len(q) : q[k].leg = l
    BY <1>1, <1>2 DEF Replied
  <2>2. k - 1 \in 1 .. Len(q) - 1 /\ (k - 1) + 1 = k
    BY <1>1, <1>2, <2>1
  <2>3. QED BY <1>1, <2>1, <2>2 DEF Replied
<1>3. ASSUME Replied(Tail(q), l)
      PROVE  Replied(q, l)
  <2>1. PICK k \in 1 .. Len(q) - 1 : Tail(q)[k].leg = l
    BY <1>1, <1>3 DEF Replied
  <2>2. k + 1 \in 1 .. Len(q)
    BY <1>1
  <2>3. QED BY <1>1, <2>1, <2>2 DEF Replied
<1>4. ASSUME Head(q).leg = l
      PROVE  Replied(q, l)
  BY <1>1, <1>4 DEF Replied
<1>5. QED BY <1>2, <1>3, <1>4

\* A queue from which the first is taken, or to which one is added, of a set of
\* things C.
LEMMA AllInTail ==
    ASSUME NEW S, NEW s \in Seq(S), s # <<>>, NEW C, \A k \in 1 .. Len(s) : s[k] \in C
    PROVE  Head(s) \in C /\ \A k \in 1 .. Len(Tail(s)) : Tail(s)[k] \in C
<1>1. /\ Len(s) \in Nat \ {0} /\ Len(Tail(s)) = Len(s) - 1 /\ Head(s) = s[1]
      /\ \A k \in 1 .. Len(s) - 1 : Tail(s)[k] = s[k + 1]
  BY TailIs
<1>2. QED BY <1>1

LEMMA AllInAppend ==
    ASSUME NEW S, NEW s \in Seq(S), NEW e \in S, NEW C, e \in C,
           \A k \in 1 .. Len(s) : s[k] \in C
    PROVE  /\ Append(s, e) # <<>>
           /\ \A k \in 1 .. Len(Append(s, e)) : Append(s, e)[k] \in C
<1>1. /\ Len(s) \in Nat /\ Len(Append(s, e)) = Len(s) + 1
      /\ \A k \in 1 .. Len(s) : Append(s, e)[k] = s[k]
      /\ Append(s, e)[Len(s) + 1] = e
  BY AppendIs
<1>2. Append(s, e) # <<>>
  BY AppendProperties
<1>3. \A k \in 1 .. Len(s) + 1 : k \in 1 .. Len(s) \/ k = Len(s) + 1
  BY <1>1
<1>4. QED BY <1>1, <1>2, <1>3

\* Nothing of the call changes but that a dialog of it may end.
LEMMA LegQuiet ==
    ASSUME NEW l \in Leg, LegInv(l),
           phase'[l] = phase[l], up'[l] = up[l], down'[l] = down[l],
           Due(l)' <=> Due(l), InCall(l)' => InCall(l)
    PROVE  LegInv(l)'
BY DEF LegInv, IdleLeg, CallingLeg

\* The requests and replies of a call when a message is sent to or taken by the
\* message centre.
LEMMA DueSent ==
    ASSUME TInv, NEW e \in ToMcMsg, toMC' = Append(toMC, e), toGB' = toGB,
           NEW l \in Leg, down'[l] = down[l]
    PROVE  Due(l)' <=> Due(l) \/ (e.type = "INVITE" /\ e.leg = l)
<1>1. Requested(toMC', l) <=> Requested(toMC, l) \/ (e.type = "INVITE" /\ e.leg = l)
  BY RequestedMore DEF TInv, TypeOK
<1>2. QED BY <1>1 DEF Due

LEMMA DueTaken ==
    ASSUME TInv, Reliable, DevStep, NEW l \in Leg
    PROVE  Due(l)' <=> Due(l)
<1> DEFINE m == Head(toMC)
<1>1. /\ toMC # <<>> /\ toMC' = Tail(toMC) /\ down' = down
      /\ toMC \in Seq(ToMcMsg) /\ toGB \in Seq(ToGbMsg) /\ m \in ToMcMsg
  <2>1. toMC # <<>> /\ toMC' = Tail(toMC) /\ down' = down
    BY DEF DevStep, DevInvite, DevAck, DevBye, FromGb
  <2>2. QED BY <2>1, HeadType DEF TInv, TypeOK
<1>2. Requested(toMC, l) <=> (m.type = "INVITE" /\ m.leg = l) \/ Requested(toMC', l)
  BY <1>1, RequestedLess
<1>3. CASE DevInvite
  <2>1. m.type = "INVITE"
    BY <1>3 DEF DevInvite, FromGb
  <2>2. m.dlg \in D!DlgId /\ m.leg \in Leg
    BY <1>1, <2>1 DEF ToMcMsg
  <2>3. \E addr \in BOOLEAN, tid \in TransId : Reply(m, addr, tid)
    <3>1. CASE T!Take(unused, Target[m.leg], m.leg) /\ Reply(m, TRUE, unused)
      <4>1. unused \in TransId
        BY <3>1, SizesAssumption DEF T!Take, TInv, TypeOK, T!TypeOK, T!Ptr, T!Trans, TransId
      <4>2. QED BY <3>1, <4>1
    <3>2. CASE \E garbage \in TransId : Reply(m, FALSE, garbage)
      BY <3>2
    <3>3. QED BY <1>3, <3>1, <3>2 DEF DevInvite
  <2>4. PICK addr \in BOOLEAN, tid \in TransId : Reply(m, addr, tid)
    BY <2>3
  <2> DEFINE r == [dlg |-> m.dlg, leg |-> m.leg, addr |-> addr, tid |-> tid]
  <2>5. toGB' = Append(toGB, r) /\ r \in ToGbMsg /\ r.leg = m.leg
    BY <2>2, <2>4 DEF Reply, Unsent, Reliable, ToGbMsg
  <2> HIDE DEF r
  <2>6. Replied(toGB', l) <=> Replied(toGB, l) \/ m.leg = l
    BY <1>1, <2>5, RepliedMore
  <2>7. QED BY <1>1, <1>2, <2>1, <2>6 DEF Due
<1>4. CASE DevAck \/ DevBye
  <2>1. m.type # "INVITE" /\ toGB' = toGB
    BY <1>4 DEF DevAck, DevBye, FromGb
  <2>2. QED BY <1>1, <1>2, <2>1 DEF Due
<1>5. QED BY <1>3, <1>4 DEF DevStep

\* A call gets a dialog by its own INVITE only.
LEMMA InCallMoves ==
    ASSUME TInv, Reliable, [Next]_vars, NEW l \in Leg, InCall(l)'
    PROVE  InCall(l) \/ GbInvite(l)
<1> USE DEF InCall
<1>1. CASE UNCHANGED gbVars
  BY <1>1, DialogsKept
<1>2. ASSUME NEW x \in Leg, GbInvite(x)
      PROVE  InCall(l) \/ GbInvite(l)
  <2>1. Target[x] \in Item /\ D!AddDialog(Target[x], ReqOf(x))
    BY <1>2 DEF GbInvite, D!InviteNew
  <2>2. /\ \A e \in D!DlgId : D!Listed(e)' <=> D!Listed(e) \/ e = Head(free)
        /\ \A e \in D!DlgId : e # Head(free) => dlg'[e] = dlg[e]
        /\ dlg'[Head(free)] = [state |-> "INVITING", cid |-> x, rtag |-> FarTag,
                               ltag |-> Null, tid |-> dlg[Head(free)].tid]
    BY <2>1, DialogAdded
  <2>3. dlg'[Head(free)].cid = x
    BY <2>2
  <2>4. QED BY <1>2, <2>2, <2>3
<1>3. ASSUME NEW x \in Leg, GbBye(x)
      PROVE  InCall(l)
  <2>1. PICK k \in DOMAIN caller[Target[x]] : D!ByeAt(Target[x], k)
    BY <1>3 DEF GbBye
  <2>2. Target[x] \in Item
    BY <1>3 DEF GbBye
  <2>3. /\ \A e \in D!DlgId : D!Listed(e)' <=> D!Listed(e) /\ e # caller[Target[x]][k]
        /\ \A e \in D!DlgId : e # caller[Target[x]][k] => dlg'[e] = dlg[e]
    BY <2>1, <2>2, DialogEnded
  <2>4. QED BY <2>3
<1>4. CASE GbReply
  <2> DEFINE r == Head(toGB)
  <2>1. r.dlg \in D!DlgId
    BY <1>4, HeadType DEF GbReply, ToGbMsg, TInv
  <2>2. D!MediaReply(r.dlg, NearTag, r.tid)
    BY <1>4 DEF GbReply, Reliable
  <2> HIDE DEF r
  <2>3. /\ \A e : D!Listed(e)' <=> D!Listed(e)
        /\ \A e \in D!DlgId : e # r.dlg => dlg'[e] = dlg[e]
        /\ dlg'[r.dlg].cid = dlg[r.dlg].cid
    BY <2>1, <2>2, DialogAnswered
  <2>4. QED BY <2>3
<1>5. ASSUME NEW x \in Leg, GbInviteRefused(x) \/ GbInviteRepeated(x) \/ GbAck(x) \/ GbByeUnknown(x)
      PROVE  UNCHANGED gbVars
  BY <1>5 DEF GbInviteRefused, GbInviteRepeated, GbAck, GbByeUnknown, D!InviteFull, D!InviteBusy,
     D!Same, Reliable, gbVars
<1>6. CASE DevStep \/ VtduSwitch \/ (\E x \in Leg : Platform(x) \/ Network(x)) \/ UNCHANGED vars
  <2>1. UNCHANGED gbVars
    BY <1>6 DEF DevStep, DevInvite, DevAck, DevBye, VtduSwitch, Platform, Invite, Answered,
       HangUp, HangUpAgain, Closed, Stray, Network, Lose, LateInvite, sysVars, vars, gbVars
  <2>2. QED BY <1>1, <2>1
<1>7. QED BY <1>1, <1>2, <1>3, <1>4, <1>5, <1>6 DEF Next, GbStep

\* The GB server reads a request of platform x.
LEMMA RequestKeepsLeg ==
    ASSUME TInv, Reliable, NEW l \in Leg, LegInv(l), NEW x \in Leg,
           \/ GbInvite(x) \/ GbInviteRefused(x) \/ GbInviteRepeated(x)
           \/ GbAck(x) \/ GbBye(x) \/ GbByeUnknown(x),
           InCall(l)' => InCall(l) \/ GbInvite(l)
    PROVE  LegInv(l)'
<1>0. /\ up \in [Leg -> Seq(Method)] /\ down \in [Leg -> Seq(Code)]
      /\ {"OK", "FAIL", "BYE200", "BYE400"} \subseteq Code
  BY DEF TInv, TypeOK, Code
<1>1. /\ phase' = phase /\ toGB' = toGB
      /\ down' = down \/ \E code : Answer(x, code)
      /\ \/ toMC' = toMC \/ GbInvite(x)
         \/ /\ Target[x] \in Item
            /\ \E k \in DOMAIN caller[Target[x]], y \in {"ACK", "BYE"} :
                  toMC' = Append(toMC, [type |-> y, tid |-> dlg[caller[Target[x]][k]].tid])
  BY DEF legVars, GbInvite, GbInviteRefused, GbInviteRepeated, GbAck, GbBye, GbByeUnknown
<1>2. /\ up[x] # <<>> /\ up' = [up EXCEPT ![x] = Tail(@)]
      /\ Head(up[x]) = "INVITE" => GbInvite(x) \/ GbInviteRefused(x) \/ GbInviteRepeated(x)
  BY DEF Arrives, GbInvite, GbInviteRefused, GbInviteRepeated, GbAck, GbBye, GbByeUnknown
<1>3. CASE x # l
  <2>1. up'[l] = up[l]
    BY <1>0, <1>2, <1>3
  <2>2. down'[l] = down[l]
    BY <1>0, <1>1, <1>3 DEF Answer
  <2>3. Due(l)' <=> Due(l)
    <3>1. CASE toMC' = toMC
      BY <1>1, <2>2, <3>1 DEF Due
    <3>2. CASE toMC' # toMC
      <4>1. \E e \in ToMcMsg : /\ toMC' = Append(toMC, e)
                               /\ ~(e.type = "INVITE" /\ e.leg = l)
        <5>1. CASE GbInvite(x)
          <6>1. D!AddDialog(Target[x], ReqOf(x)) /\ Target[x] \in Item
            BY <5>1 DEF GbInvite, D!InviteNew
          <6>2. Head(free) \in D!DlgId
            BY <6>1, DialogAdded
          <6> DEFINE e == [type |-> "INVITE", dlg |-> Head(free), leg |-> x]
          <6>3. e \in ToMcMsg /\ e.leg = x /\ toMC' = Append(toMC, e)
            BY <5>1, <6>2 DEF GbInvite, ToMcMsg
          <6> HIDE DEF e
          <6>4. QED BY <1>3, <6>3
        <5>2. CASE ~GbInvite(x)
          <6>1. Target[x] \in Item /\ \E k \in DOMAIN caller[Target[x]], y \in {"ACK", "BYE"} :
                   toMC' = Append(toMC, [type |-> y, tid |-> dlg[caller[Target[x]][k]].tid])
            BY <1>1, <3>2, <5>2
          <6>2. PICK k \in DOMAIN caller[Target[x]], y \in {"ACK", "BYE"} :
                   toMC' = Append(toMC, [type |-> y, tid |-> dlg[caller[Target[x]][k]].tid])
            BY <6>1
          <6> DEFINE e == [type |-> y, tid |-> dlg[caller[Target[x]][k]].tid]
          <6>3. e \in ToMcMsg /\ e.type # "INVITE"
            BY <6>1, ListedDialog DEF ToMcMsg, TInv
          <6>4. QED BY <6>2, <6>3
        <5>3. QED BY <5>1, <5>2
      <4>2. QED BY <1>1, <2>2, <4>1, DueSent
    <3>3. QED BY <3>1, <3>2
  <2>4. ~GbInvite(l)
    <3>1. SUFFICES ASSUME GbInvite(l)
                   PROVE  FALSE
      OBVIOUS
    <3>2. up'[l] = Tail(up[l]) /\ up[l] # <<>> /\ up[l] \in Seq(Method)
      BY <1>0, <3>1 DEF GbInvite, Arrives
    <3>3. Len(Tail(up[l])) = Len(up[l]) - 1 /\ Len(up[l]) \in Nat
      BY <3>2, TailIs
    <3>4. Len(up[l]) = Len(up[l]) - 1
      BY <2>1, <3>2, <3>3
    <3>5. QED BY <3>3, <3>4
  <2>5. QED BY <1>1, <2>1, <2>2, <2>3, <2>4, LegQuiet
<1>4. CASE x = l /\ phase[l] = "calling"
  <2>0. up[l] \in Seq(Method) /\ down[l] \in Seq(Code) /\ CallingLeg(l)
    BY <1>0, <1>4 DEF LegInv
  <2>1. /\ Head(up[l]) = "INVITE" /\ up'[l] = Tail(up[l])
        /\ \A k \in 1 .. Len(up'[l]) : up'[l][k] \in {"INVITE"}
    <3>1. /\ Head(up[l]) \in {"INVITE"}
          /\ \A k \in 1 .. Len(Tail(up[l])) : Tail(up[l])[k] \in {"INVITE"}
      BY <1>2, <1>4, <2>0, AllInTail DEF CallingLeg
    <3>2. up'[l] = Tail(up[l])
      BY <1>0, <1>2, <1>4
    <3>3. QED BY <3>1, <3>2
  <2>2. CASE GbInvite(l)
    <3>1. D!AddDialog(Target[l], ReqOf(l)) /\ Target[l] \in Item
      BY <2>2 DEF GbInvite, D!InviteNew
    <3>2. Head(free) \in D!DlgId
      BY <3>1, DialogAdded
    <3> DEFINE e == [type |-> "INVITE", dlg |-> Head(free), leg |-> l]
    <3>3. e \in ToMcMsg /\ e.type = "INVITE" /\ e.leg = l /\ toMC' = Append(toMC, e)
      BY <2>2, <3>2 DEF GbInvite, ToMcMsg
    <3> HIDE DEF e
    <3>4. down' = down
      BY <2>2 DEF GbInvite
    <3>5. Due(l)'
      BY <1>1, <3>3, <3>4, DueSent
    <3>6. QED BY <1>1, <1>4, <2>0, <2>1, <3>4, <3>5 DEF LegInv, CallingLeg
  <2>3. CASE GbInviteRefused(l)
    <3>1. down'[l] = Append(down[l], "FAIL")
      BY <1>0, <2>3 DEF GbInviteRefused, Answer
    <3>0. /\ \A k \in 1 .. Len(down[l]) : down[l][k] \in {"OK", "FAIL"}
          /\ "FAIL" \in Code /\ "FAIL" \in {"OK", "FAIL"}
      BY <2>0 DEF CallingLeg, Code
    <3>2. /\ down'[l] # <<>>
          /\ \A k \in 1 .. Len(down'[l]) : down'[l][k] \in {"OK", "FAIL"}
      BY <2>0, <3>0, <3>1, AllInAppend
    <3>3. QED BY <1>1, <1>4, <2>1, <3>2 DEF LegInv, CallingLeg, Due
  <2>4. CASE GbInviteRepeated(l)
    <3>1. PICK k \in 1 .. Len(caller[Target[l]]) : dlg[caller[Target[l]][k]].cid = l
      BY <2>4 DEF GbInviteRepeated, D!InviteBusy, D!InviteKnown, D!InviteMatch, D!SameCall, ReqOf
    <3>2. Target[l] \in Item
      BY <2>4 DEF GbInviteRepeated
    <3>3. caller[Target[l]] \in Seq(D!DlgId)
      BY <3>2 DEF TInv, TypeOK, D!TypeOK
    <3>4. caller[Target[l]][k] \in D!DlgId
      BY <3>3, ElementOfSeq
    <3>5. InCall(l)
      BY <3>1, <3>2, <3>4 DEF InCall, D!Listed, D!InCallers, D!Occurs
    <3>6. down' = down /\ toMC' = toMC
      BY <2>4 DEF GbInviteRepeated
    <3>7. Due(l)'
      BY <1>1, <2>0, <3>5, <3>6 DEF CallingLeg, Due
    <3>8. QED BY <1>1, <1>4, <2>0, <2>1, <3>6, <3>7 DEF LegInv, CallingLeg
  <2>5. QED BY <1>2, <1>4, <2>1, <2>2, <2>3, <2>4
<1>5. CASE x = l /\ phase[l] # "calling"
  <2>1. phase[l] # "idle"
    BY <1>2, <1>5 DEF LegInv, IdleLeg
  <2>2. QED BY <1>1, <1>5, <2>1 DEF LegInv
<1>6. QED BY <1>3, <1>4, <1>5


\* The GB server reads a reply: the answer goes to the platform it names.
LEMMA ReplyKeepsLeg ==
    ASSUME TInv, Reliable, NEW l \in Leg, LegInv(l), GbReply,
           InCall(l)' => InCall(l) \/ GbInvite(l)
    PROVE  LegInv(l)'
<1> DEFINE r == Head(toGB)
           code == IF r.addr THEN "OK" ELSE "FAIL"
<1>0. /\ down \in [Leg -> Seq(Code)] /\ toGB \in Seq(ToGbMsg)
      /\ code \in Code /\ code \in {"OK", "FAIL"}
  BY DEF TInv, TypeOK, Code
<1>1. /\ toGB # <<>> /\ toGB' = Tail(toGB) /\ toMC' = toMC /\ up' = up /\ phase' = phase
      /\ down' = [down EXCEPT ![r.leg] = Append(@, code)]
  BY DEF GbReply, Reliable, Answer, legVars
<1>2. r.leg \in Leg
  BY <1>0, <1>1, HeadType DEF GbReply, ToGbMsg, TInv
<1> HIDE DEF r, code
<1>3. Replied(toGB, l) <=> r.leg = l \/ Replied(toGB', l)
  BY <1>0, <1>1, RepliedLess DEF r
<1>4. ~GbInvite(l)
  BY <1>1 DEF GbInvite
<1>5. CASE r.leg # l
  <2>1. down'[l] = down[l]
    BY <1>0, <1>1, <1>5
  <2>2. Due(l)' <=> Due(l)
    BY <1>1, <1>3, <1>5, <2>1 DEF Due
  <2>3. QED BY <1>1, <1>4, <2>1, <2>2, LegQuiet
<1>6. CASE r.leg = l
  <2>1. Replied(toGB, l)
    BY <1>3, <1>6
  <2>2. phase[l] # "idle"
    BY <2>1 DEF LegInv, IdleLeg, Due
  <2>3. down'[l] = Append(down[l], code) /\ down[l] \in Seq(Code)
    BY <1>0, <1>1, <1>6
  <2>4. CASE phase[l] = "calling"
    <3>1. CallingLeg(l)
      BY <2>4 DEF LegInv
    <3>2. \A k \in 1 .. Len(down[l]) : down[l][k] \in {"OK", "FAIL"}
      BY <3>1 DEF CallingLeg
    <3>3. down'[l] # <<>> /\ \A k \in 1 .. Len(down'[l]) : down'[l][k] \in {"OK", "FAIL"}
      BY <1>0, <2>3, <3>2, AllInAppend
    <3>4. QED BY <1>1, <2>4, <3>1, <3>3 DEF LegInv, CallingLeg, Due
  <2>5. CASE phase[l] # "calling"
    BY <1>1, <2>2, <2>5 DEF LegInv
  <2>6. QED BY <2>4, <2>5
<1>7. QED BY <1>5, <1>6

\* Where only the platforms and the network move, the other sockets stay.
LEMMA PlatformStep ==
    ASSUME NEW x \in Leg, Platform(x) \/ Network(x)
    PROVE  UNCHANGED sysVars
BY DEF Platform, Network, Invite, Answered, HangUp, HangUpAgain, Closed, Stray, Lose, LateInvite

\* A platform sends or receives, or the network delivers late.
LEMMA PlatformKeepsLeg ==
    ASSUME TInv, Reliable, NEW l \in Leg, LegInv(l), NEW x \in Leg, Platform(x) \/ Network(x)
    PROVE  LegInv(l)'
<1>0. /\ up \in [Leg -> Seq(Method)] /\ down \in [Leg -> Seq(Code)]
      /\ phase \in [Leg -> {"idle", "calling", "confirmed", "refused", "closing", "closed"}]
  BY DEF TInv, TypeOK
<1>1. UNCHANGED sysVars
  BY PlatformStep
<1>2. toMC' = toMC /\ toGB' = toGB /\ InCall(l)' = InCall(l)
  <2>1. UNCHANGED gbVars /\ toMC' = toMC /\ toGB' = toGB
    BY <1>1 DEF sysVars
  <2>2. QED BY <2>1, DialogsKept DEF InCall
<1>3. CASE x # l
  <2>1. phase'[l] = phase[l] /\ up'[l] = up[l] /\ down'[l] = down[l]
    BY <1>0, <1>3 DEF Platform, Network, Invite, Answered, HangUp, HangUpAgain, Closed, Stray,
       Lose, LateInvite, Send, Receives, Goes, legVars
  <2>2. Due(l)' <=> Due(l)
    BY <1>2, <2>1 DEF Due
  <2>3. QED BY <1>2, <2>1, <2>2 DEF LegInv, IdleLeg, CallingLeg
<1>4. CASE x = l /\ Invite(l)
  <2>0. /\ up[l] \in Seq(Method) /\ up'[l] = Append(up[l], "INVITE")
        /\ "INVITE" \in Method /\ "INVITE" \in {"INVITE"}
    BY <1>0, <1>4 DEF Invite, Send, Method
  <2>1. phase'[l] = "calling" /\ down' = down
    BY <1>0, <1>4 DEF Invite
  <2>2. \A k \in 1 .. Len(up[l]) : up[l][k] \in {"INVITE"}
    <3>1. CASE phase[l] = "idle"
      <4>1. Len(up[l]) = 0
        BY <3>1 DEF LegInv, IdleLeg
      <4>2. QED BY <4>1
    <3>2. CASE phase[l] = "calling"
      BY <3>2 DEF LegInv, CallingLeg
    <3>3. QED BY <1>4, <3>1, <3>2 DEF Invite
  <2>3. up'[l] # <<>> /\ \A k \in 1 .. Len(up'[l]) : up'[l][k] \in {"INVITE"}
    BY <2>0, <2>2, AllInAppend
  <2>4. /\ \A k \in 1 .. Len(down[l]) : down[l][k] \in {"OK", "FAIL"}
        /\ InCall(l) => Due(l)
    <3>1. CASE phase[l] = "idle"
      <4>1. Len(down[l]) = 0 /\ ~InCall(l)
        BY <3>1 DEF LegInv, IdleLeg, Due
      <4>2. QED BY <4>1
    <3>2. CASE phase[l] = "calling"
      BY <3>2 DEF LegInv, CallingLeg
    <3>3. QED BY <1>4, <3>1, <3>2 DEF Invite
  <2>5. QED BY <1>2, <2>1, <2>3, <2>4 DEF LegInv, CallingLeg, Due
<1>5. CASE x = l /\ (Answered(l) \/ HangUp(l) \/ HangUpAgain(l) \/ Closed(l) \/ LateInvite(l))
  <2>1. \/ phase'[l] \notin {"idle", "calling"}
        \/ LateInvite(l) /\ phase'[l] = "calling" /\ phase[l] = "calling"
    BY <1>0, <1>5 DEF Answered, HangUp, HangUpAgain, Closed, LateInvite, Goes
  <2>2. CASE LateInvite(l) /\ phase'[l] = "calling" /\ phase[l] = "calling"
    <3>1. /\ up[l] \in Seq(Method) /\ up'[l] = Append(up[l], "INVITE") /\ down' = down
          /\ "INVITE" \in Method /\ "INVITE" \in {"INVITE"}
      BY <1>0, <2>2 DEF LateInvite, Send, Method
    <3>2. CallingLeg(l)
      BY <2>2 DEF LegInv
    <3>3. \A k \in 1 .. Len(up[l]) : up[l][k] \in {"INVITE"}
      BY <3>2 DEF CallingLeg
    <3>4. up'[l] # <<>> /\ \A k \in 1 .. Len(up'[l]) : up'[l][k] \in {"INVITE"}
      BY <3>1, <3>3, AllInAppend
    <3>5. QED BY <1>2, <2>2, <3>1, <3>2, <3>4 DEF LegInv, CallingLeg, Due
  <2>3. QED BY <2>1, <2>2 DEF LegInv
<1>6. CASE x = l /\ Stray(l)
  <2>1. /\ down[l] # <<>> /\ phase' = phase
        /\ \/ phase[l] # "calling"
           \/ Head(down[l]) \in {"BYE200", "BYE400"}
    BY <1>6 DEF Stray, legVars
  <2>2. phase[l] # "idle"
    BY <2>1 DEF LegInv, IdleLeg, Due
  <2>3. phase[l] # "calling"
    <3>1. SUFFICES ASSUME phase[l] = "calling"
                   PROVE  Head(down[l]) \in {"OK", "FAIL"}
      BY <2>1
    <3>2. down[l] \in Seq(Code) /\ \A k \in 1 .. Len(down[l]) : down[l][k] \in {"OK", "FAIL"}
      BY <1>0, <3>1 DEF LegInv, CallingLeg
    <3>3. QED BY <2>1, <3>2, AllInTail
  <2>4. QED BY <2>1, <2>2, <2>3 DEF LegInv
<1>7. ~Lose(x)
  BY DEF Lose, Reliable
<1>8. QED BY <1>3, <1>4, <1>5, <1>6, <1>7 DEF Platform, Network

LEMMA AnswerInvInit == Init => AnswerInv
<1> SUFFICES ASSUME Init, NEW l \in Leg
             PROVE  LegInv(l)
  BY DEF AnswerInv
<1>1. phase[l] = "idle" /\ up[l] = <<>> /\ down[l] = <<>> /\ toMC = <<>> /\ toGB = <<>>
  BY DEF Init
<1>2. ~Requested(toMC, l) /\ ~Replied(toGB, l)
  BY <1>1 DEF Requested, Replied
<1>3. \A d \in D!DlgId : ~D!Listed(d)
  BY DEF Init, D!Init, D!Listed, D!InCallers, D!Occurs
<1>4. QED BY <1>1, <1>2, <1>3 DEF LegInv, IdleLeg, Due, InCall

LEMMA FaultsStay == [Next]_vars => faults' = faults
BY DEF Next, GbStep, GbInvite, GbInviteRefused, GbInviteRepeated, GbAck, GbBye, GbByeUnknown,
   GbReply, DevStep, DevInvite, DevAck, DevBye, VtduSwitch, Platform, Network, Invite, Answered,
   HangUp, HangUpAgain, Closed, Stray, Lose, LateInvite, legVars, sysVars, vars

LEMMA AnswerInvNext == TInv /\ AnswerInv /\ [Next]_vars => AnswerInv'
<1> SUFFICES ASSUME TInv, AnswerInv, [Next]_vars, Reliable', NEW l \in Leg
             PROVE  LegInv(l)'
  BY DEF AnswerInv
<1>1. Reliable
  BY FaultsStay DEF Reliable
<1>2. LegInv(l)
  BY <1>1 DEF AnswerInv
<1>3. InCall(l)' => InCall(l) \/ GbInvite(l)
  BY <1>1, InCallMoves
<1>4. ASSUME NEW x \in Leg, GbInvite(x) \/ GbInviteRefused(x) \/ GbInviteRepeated(x)
                            \/ GbAck(x) \/ GbBye(x) \/ GbByeUnknown(x)
      PROVE  LegInv(l)'
  BY <1>1, <1>2, <1>3, <1>4, RequestKeepsLeg
<1>5. CASE GbReply
  BY <1>1, <1>2, <1>3, <1>5, ReplyKeepsLeg
<1>6. CASE DevStep
  <2>1. phase' = phase /\ up' = up /\ down' = down /\ UNCHANGED gbVars
    BY <1>6 DEF DevStep, DevInvite, DevAck, DevBye, legVars
  <2>2. InCall(l)' => InCall(l)
    BY <2>1, DialogsKept DEF InCall
  <2>3. Due(l)' <=> Due(l)
    BY <1>1, <1>6, DueTaken
  <2>4. QED BY <1>2, <2>1, <2>2, <2>3, LegQuiet
<1>7. CASE VtduSwitch \/ UNCHANGED vars
  <2>1. /\ phase' = phase /\ up' = up /\ down' = down /\ UNCHANGED gbVars
        /\ toMC' = toMC /\ toGB' = toGB
    BY <1>7 DEF VtduSwitch, vars, gbVars, legVars
  <2>2. InCall(l)' => InCall(l)
    BY <2>1, DialogsKept DEF InCall
  <2>3. Due(l)' <=> Due(l)
    BY <2>1 DEF Due
  <2>4. QED BY <1>2, <2>1, <2>2, <2>3, LegQuiet
<1>8. ASSUME NEW x \in Leg, Platform(x) \/ Network(x)
      PROVE  LegInv(l)'
  BY <1>1, <1>2, <1>8, PlatformKeepsLeg
<1>9. QED BY <1>4, <1>5, <1>6, <1>7, <1>8 DEF Next, GbStep

\* While nothing is lost, no platform waits for nothing: its INVITE, the request,
\* the reply or the answer is always in one of the sockets.
THEOREM WaitingIsJustified == Spec => []WaitsForSomething
<1>1. AnswerInv => WaitsForSomething
  BY DEF AnswerInv, Reliable, LegInv, CallingLeg, Due, Requested, Replied, WaitsForSomething
<1>2. TInv /\ TInv' /\ AnswerInv /\ [Next]_vars => AnswerInv'
  BY AnswerInvNext
<1>3. Spec => []AnswerInv
  BY <1>2, AnswerInvInit, CallInvariant, PTL DEF Spec
<1>4. QED BY <1>1, <1>3, PTL

-----------------------------------------------------------------------------
(***************************************************************************)
(* The transmitters: what the GB server is granted it gives back once, no  *)
(* call that has a dialog finds the device table empty, what the VTDU      *)
(* forwards to a platform has an owner, and every step that a platform can *)
(* notice is one of MediaService.                                          *)
(*                                                                         *)
(* The GB server forgets whose transmitter a BYE gives back, and a dialog  *)
(* can be used again before the message centre has read that BYE.  The     *)
(* proof therefore remembers for every transmitter the dialog it was       *)
(* granted for last, `own': two transmitters that are held have different  *)
(* owners, and of the dialog of a request that is still to be served no    *)
(* transmitter is held once the request has come to the head of the queue. *)
(***************************************************************************)

\* The device table, in the hands that Held describes.
TP == INSTANCE TransmitterProofs WITH Addr <- Leg, held <- Held

Asks(k) == toMC[k].type = "INVITE"
Ends(k) == toMC[k].type = "BYE"

\* Dialog d has its transmitter, or is waiting for the reply to leg l's INVITE.
Talking(d) == D!Listed(d) /\ dlg[d].state = "RESPONDED"
Opened(d, l) == /\ Target[l] \in Item /\ D!InCallers(d, Target[l])
                /\ dlg[d].state = "INVITING" /\ dlg[d].cid = l

\* A request and its reply are about a dialog that waits for them, and no two
\* are about the same one.
Requests ==
    /\ \A k \in 1 .. Len(toMC) : Asks(k) => Opened(toMC[k].dlg, toMC[k].leg)
    /\ \A k \in 1 .. Len(toGB) : Opened(toGB[k].dlg, toGB[k].leg)
    /\ \A j, k \in 1 .. Len(toMC) : Asks(j) /\ Asks(k) /\ toMC[j].dlg = toMC[k].dlg => j = k
    /\ \A j, k \in 1 .. Len(toGB) : toGB[j].dlg = toGB[k].dlg => j = k
    /\ \A j \in 1 .. Len(toMC), k \in 1 .. Len(toGB) : Asks(j) => toMC[j].dlg # toGB[k].dlg

\* The transmitters granted: every reply carries one, every answered dialog has one.
Granted(own) ==
    /\ \A k \in 1 .. Len(toGB) :
          toGB[k].addr /\ toGB[k].tid \in T!Trans /\ own[toGB[k].tid] = toGB[k].dlg
    /\ \A d \in D!DlgId : Talking(d) => dlg[d].tid \in T!Trans /\ own[dlg[d].tid] = d

\* The transmitters that a BYE gives back: their dialogs have let go of them and
\* are granted no other before the message centre has read that BYE.
GivenBack(own) ==
    /\ \A k \in 1 .. Len(toMC) : Ends(k) =>
          /\ toMC[k].tid \in T!Trans
          /\ \A j \in 1 .. Len(toGB) : toGB[j].dlg # own[toMC[k].tid]
          /\ \A j \in 1 .. Len(toMC) : Asks(j) /\ toMC[j].dlg = own[toMC[k].tid] => k < j
          /\ ~Talking(own[toMC[k].tid])
    /\ \A j, k \in 1 .. Len(toMC) :
          Ends(j) /\ Ends(k) /\ own[toMC[j].tid] = own[toMC[k].tid] => j = k

Grants == \E own \in [T!Trans -> D!DlgId] : Granted(own) /\ GivenBack(own)

GrantInv == Kept => HT!UnusedIsRest /\ Requests /\ Grants

-----------------------------------------------------------------------------
(* Queues and messages. *)

\* Where the messages of a queue come from, when the first was taken.
LEMMA FromTail ==
    ASSUME NEW S, NEW q \in Seq(S), q # <<>>, NEW p, p = Tail(q)
    PROVE  /\ Len(q) \in Nat \ {0} /\ Len(p) = Len(q) - 1 /\ Head(q) = q[1] /\ q[1] \in S
           /\ \A k \in 1 .. Len(p) : k + 1 \in 1 .. Len(q) /\ p[k] = q[k + 1]
           /\ \A k \in 1 .. Len(q) : k = 1 \/ (k - 1 \in 1 .. Len(p) /\ p[k - 1] = q[k])
BY TailIs

\* ... and when one was added.
LEMMA FromAppend ==
    ASSUME NEW S, NEW q \in Seq(S), NEW e \in S, NEW p, p = Append(q, e)
    PROVE  /\ Len(q) \in Nat /\ Len(p) = Len(q) + 1 /\ p[Len(q) + 1] = e
           /\ \A k \in 1 .. Len(p) : \/ k \in 1 .. Len(q) /\ p[k] = q[k]
                                     \/ k = Len(q) + 1 /\ p[k] = e
           /\ \A k \in 1 .. Len(q) : k \in 1 .. Len(p) /\ p[k] = q[k]
<1>1. /\ Len(q) \in Nat /\ Len(p) = Len(q) + 1
      /\ \A k \in 1 .. Len(q) : p[k] = q[k]
      /\ p[Len(q) + 1] = e
  BY AppendIs
<1>2. QED BY <1>1

\* What the messages in the two sockets are.
LEMMA MsgTypes ==
    ASSUME TypeOK
    PROVE  /\ Len(toMC) \in Nat /\ Len(toGB) \in Nat
           /\ DOMAIN toMC = 1 .. Len(toMC) /\ DOMAIN toGB = 1 .. Len(toGB)
           /\ \A k \in 1 .. Len(toMC) :
                 /\ toMC[k] \in ToMcMsg
                 /\ Asks(k) => toMC[k].dlg \in D!DlgId /\ toMC[k].leg \in Leg
                 /\ ~Asks(k) => toMC[k].tid \in TransId /\ toMC[k].type \in {"ACK", "BYE"}
           /\ \A k \in 1 .. Len(toGB) :
                 /\ toGB[k] \in ToGbMsg
                 /\ toGB[k].dlg \in D!DlgId /\ toGB[k].leg \in Leg /\ toGB[k].tid \in TransId
<1>1. toMC \in Seq(ToMcMsg) /\ toGB \in Seq(ToGbMsg)
  BY DEF TypeOK
<1>2. /\ Len(toMC) \in Nat /\ Len(toGB) \in Nat
      /\ DOMAIN toMC = 1 .. Len(toMC) /\ DOMAIN toGB = 1 .. Len(toGB)
      /\ \A k \in 1 .. Len(toMC) : toMC[k] \in ToMcMsg
      /\ \A k \in 1 .. Len(toGB) : toGB[k] \in ToGbMsg
  BY <1>1, LenProperties, ElementOfSeq
<1>3. QED BY <1>2 DEF Asks, ToMcMsg, ToGbMsg

\* Held, by the three places a transmitter is held in.
HeldIn(t) ==
    \/ \E k \in 1 .. Len(toGB) : toGB[k].addr /\ toGB[k].tid = t
    \/ \E d \in D!DlgId : Talking(d) /\ dlg[d].tid = t
    \/ \E k \in 1 .. Len(toMC) : Ends(k) /\ toMC[k].tid = t

HeldEverywhere == \A t : t \in Held <=> HeldIn(t)

LEMMA HeldIs == TypeOK => HeldEverywhere
<1> SUFFICES ASSUME TypeOK, NEW t
             PROVE  t \in Held <=> HeldIn(t)
  BY DEF HeldEverywhere
<1>1. DOMAIN toMC = 1 .. Len(toMC) /\ DOMAIN toGB = 1 .. Len(toGB)
  BY MsgTypes
<1>2. QED BY <1>1 DEF Held, HeldIn, Talking, Ends

LEMMA HeldIsNext == TypeOK' => HeldEverywhere'
BY HeldIs, PTL

LEMMA SameTable == /\ HT!Next <=> TP!Next
                   /\ HT!vars = TP!vars /\ (UNCHANGED HT!vars <=> UNCHANGED TP!vars)
                   /\ HT!UnusedIsRest <=> TP!UnusedIsRest
                   /\ HT!UnusedIsRest' <=> TP!UnusedIsRest'
                   /\ HT!Init <=> TP!Init
BY DEF HT!Next, TP!Next, HT!vars, TP!vars, HT!UnusedIsRest, TP!UnusedIsRest, HT!Init, TP!Init,
       HT!UnusedChain, TP!UnusedChain, HT!Trans, TP!Trans, HT!Chan, TP!Chan,
       HT!RmtInviteMedia, TP!RmtInviteMedia, HT!RmtInviteRefused, TP!RmtInviteRefused,
       HT!RmtByeMedia, TP!RmtByeMedia, HT!Take, TP!Take, HT!CannotTake, TP!CannotTake,
       HT!GiveBack, TP!GiveBack

LEMMA TableAssumptions == TP!NumTransAssumption /\ TP!NumChanAssumption /\ TP!AddrAssumption
BY SizesAssumption, NullAssumption DEF TP!NumTransAssumption, TP!NumChanAssumption, TP!AddrAssumption

-----------------------------------------------------------------------------
(* What the steps mean for the dialogs that wait and those that talk. *)

\* rmt_invite found no dialog of the call: a free one waits.
LEMMA AddedWaits ==
    ASSUME TInv, NEW l \in Leg, Target[l] \in Item, D!AddDialog(Target[l], ReqOf(l))
    PROVE  /\ Head(free) \in D!DlgId
           /\ \A d \in D!DlgId, x \in Leg : Opened(d, x) => d # Head(free) /\ Opened(d, x)'
           /\ \A d : d = Head(free) => Opened(d, l)'
           /\ \A d \in D!DlgId : Talking(d)' <=> Talking(d)
           /\ \A d \in D!DlgId : Talking(d) => dlg'[d] = dlg[d]
<1> DEFINE h == Head(free)
<1>1. /\ h \in D!DlgId /\ ~D!Listed(h)
      /\ \A e \in D!DlgId, j \in Item : D!InCallers(e, j)' <=> D!InCallers(e, j) \/ (e = h /\ j = Target[l])
      /\ \A e \in D!DlgId : D!Listed(e)' <=> D!Listed(e) \/ e = h
      /\ \A e \in D!DlgId : e # h => dlg'[e] = dlg[e]
      /\ dlg'[h] = [state |-> "INVITING", cid |-> l, rtag |-> FarTag, ltag |-> Null, tid |-> dlg[h].tid]
  BY DialogAdded
<1>2. dlg'[h].state = "INVITING" /\ dlg'[h].cid = l
  BY <1>1
<1> HIDE DEF h
<1>3. \A d \in D!DlgId, x \in Leg : Opened(d, x) => D!Listed(d)
  BY DEF Opened, D!Listed
<1>4. \A d \in D!DlgId, x \in Leg : Opened(d, x) => d # h /\ Opened(d, x)'
  BY <1>1, <1>3 DEF Opened
<1>5. \A d : d = h => Opened(d, l)'
  BY <1>1, <1>2 DEF Opened
<1>6. \A d \in D!DlgId : /\ Talking(d)' <=> Talking(d)
                         /\ Talking(d) => dlg'[d] = dlg[d]
  BY <1>1, <1>2 DEF Talking
<1>7. QED BY <1>1, <1>4, <1>5, <1>6 DEF h

\* rmt_bye found an answered dialog: it talks no more.
LEMMA EndedIsSilent ==
    ASSUME TInv, NEW i \in Item, NEW k \in DOMAIN caller[i], D!ByeAt(i, k), Talking(caller[i][k])
    PROVE  /\ \A d \in D!DlgId, x \in Leg : Opened(d, x) => d # caller[i][k] /\ Opened(d, x)'
           /\ \A d \in D!DlgId : Talking(d)' <=> Talking(d) /\ d # caller[i][k]
           /\ \A d \in D!DlgId : Talking(d)' => dlg'[d] = dlg[d]
<1> DEFINE h == caller[i][k]
<1>1. /\ h \in D!DlgId
      /\ \A e \in D!DlgId, j \in Item : D!InCallers(e, j)' <=> D!InCallers(e, j) /\ e # h
      /\ \A e \in D!DlgId : D!Listed(e)' <=> D!Listed(e) /\ e # h
      /\ \A e \in D!DlgId : e # h => dlg'[e] = dlg[e]
  BY DialogEnded
<1>2. dlg[h].state = "RESPONDED"
  BY DEF Talking
<1> HIDE DEF h
<1>3. \A d \in D!DlgId, x \in Leg : Opened(d, x) => d # h /\ Opened(d, x)'
  BY <1>1, <1>2 DEF Opened
<1>4. \A d \in D!DlgId : /\ Talking(d)' <=> Talking(d) /\ d # h
                         /\ Talking(d)' => dlg'[d] = dlg[d]
  BY <1>1 DEF Talking
<1>5. QED BY <1>3, <1>4 DEF h

\* The reply to the request of a dialog that waits: it talks.
LEMMA AnsweredTalks ==
    ASSUME TInv, NEW h \in D!DlgId, NEW l \in Leg, NEW t, Opened(h, l), D!MediaReply(h, NearTag, t)
    PROVE  /\ \A d \in D!DlgId, x \in Leg : Opened(d, x) /\ d # h => Opened(d, x)'
           /\ ~Talking(h)
           /\ \A d \in D!DlgId : Talking(d)' <=> Talking(d) \/ d = h
           /\ \A d \in D!DlgId : d # h => dlg'[d] = dlg[d]
           /\ dlg'[h].tid = t
<1>1. /\ \A e, j : D!InCallers(e, j)' <=> D!InCallers(e, j)
      /\ \A e : D!Listed(e)' <=> D!Listed(e)
      /\ \A e \in D!DlgId : e # h => dlg'[e] = dlg[e]
      /\ dlg'[h].state = "RESPONDED" /\ dlg'[h].tid = t
  BY DialogAnswered
<1>2. D!Listed(h) /\ dlg[h].state = "INVITING"
  BY DEF Opened, D!Listed
<1>3. \A d \in D!DlgId, x \in Leg : Opened(d, x) /\ d # h => Opened(d, x)'
  BY <1>1 DEF Opened
<1>4. \A d \in D!DlgId : Talking(d)' <=> Talking(d) \/ d = h
  BY <1>1, <1>2 DEF Talking
<1>5. ~Talking(h)
  BY <1>2 DEF Talking
<1>6. QED BY <1>1, <1>3, <1>4, <1>5

\* All others.
LEMMA SameDialogs ==
    ASSUME UNCHANGED gbVars
    PROVE  /\ \A d, x : Opened(d, x)' <=> Opened(d, x)
           /\ \A d : Talking(d)' <=> Talking(d)
           /\ dlg' = dlg
BY DialogsKept DEF Opened, Talking

-----------------------------------------------------------------------------
(* Requests and replies on their way. *)

\* The queues move up and nothing is added to them that is a request.
LEMMA RequestsMoveUp ==
    ASSUME Requests, NEW s \in Nat, NEW u \in Nat,
           \A k \in 1 .. Len(toMC') : Asks(k)' =>
              /\ k + s \in 1 .. Len(toMC) /\ toMC'[k] = toMC[k + s]
              /\ Opened(toMC[k].dlg, toMC[k].leg)',
           \A k \in 1 .. Len(toGB') :
              /\ k + u \in 1 .. Len(toGB) /\ toGB'[k] = toGB[k + u]
              /\ Opened(toGB[k].dlg, toGB[k].leg)'
    PROVE  Requests'
<1>1. \A k \in 1 .. Len(toMC') : Asks(k)' => k + s \in 1 .. Len(toMC) /\ toMC'[k] = toMC[k + s] /\ Asks(k + s)
  BY DEF Asks
<1>2. \A j, k \in 1 .. Len(toMC') : Asks(j)' /\ Asks(k)' /\ toMC'[j].dlg = toMC'[k].dlg => j = k
  <2> SUFFICES ASSUME NEW j \in 1 .. Len(toMC'), NEW k \in 1 .. Len(toMC'),
                      Asks(j)', Asks(k)', toMC'[j].dlg = toMC'[k].dlg
               PROVE  j = k
    OBVIOUS
  <2>1. j + s = k + s
    BY <1>1 DEF Requests
  <2>2. QED BY <2>1
<1>3. \A j, k \in 1 .. Len(toGB') : toGB'[j].dlg = toGB'[k].dlg => j = k
  <2> SUFFICES ASSUME NEW j \in 1 .. Len(toGB'), NEW k \in 1 .. Len(toGB'), toGB'[j].dlg = toGB'[k].dlg
               PROVE  j = k
    OBVIOUS
  <2>1. /\ j + u \in 1 .. Len(toGB) /\ toGB'[j] = toGB[j + u]
        /\ k + u \in 1 .. Len(toGB) /\ toGB'[k] = toGB[k + u]
    OBVIOUS
  <2>2. j + u = k + u
    BY <2>1 DEF Requests
  <2>3. QED BY <2>2
<1>4. \A j \in 1 .. Len(toMC'), k \in 1 .. Len(toGB') : Asks(j)' => toMC'[j].dlg # toGB'[k].dlg
  <2> SUFFICES ASSUME NEW j \in 1 .. Len(toMC'), NEW k \in 1 .. Len(toGB'), Asks(j)'
               PROVE  toMC'[j].dlg # toGB'[k].dlg
    OBVIOUS
  <2>1. /\ j + s \in 1 .. Len(toMC) /\ toMC'[j] = toMC[j + s] /\ Asks(j + s)
        /\ k + u \in 1 .. Len(toGB) /\ toGB'[k] = toGB[k + u]
    BY <1>1
  <2>2. QED BY <2>1 DEF Requests
<1>5. QED BY <1>2, <1>3, <1>4 DEF Requests

\* An INVITE joins the requests, about a dialog that was on no list.
LEMMA RequestsGrow ==
    ASSUME TInv, Requests, NEW h \in D!DlgId, NEW l \in Leg,
           toMC' = Append(toMC, [type |-> "INVITE", dlg |-> h, leg |-> l]), toGB' = toGB,
           \A d \in D!DlgId, x \in Leg : Opened(d, x) => d # h /\ Opened(d, x)',
           Opened(h, l)'
    PROVE  Requests'
<1> DEFINE e == [type |-> "INVITE", dlg |-> h, leg |-> l]
           n == Len(toMC) + 1
<1>0. TypeOK
  BY DEF TInv
<1>1. e \in ToMcMsg /\ e.dlg = h /\ e.leg = l /\ toMC' = Append(toMC, e)
  BY DEF ToMcMsg
<1> HIDE DEF e
<1>2. /\ Len(toMC) \in Nat /\ Len(toMC') = Len(toMC) + 1
      /\ \A k \in 1 .. Len(toMC') : \/ k \in 1 .. Len(toMC) /\ toMC'[k] = toMC[k]
                                    \/ k = n /\ toMC'[k] = e
  BY <1>0, <1>1, FromAppend DEF TypeOK
<1>3. \A k \in 1 .. Len(toMC) : Asks(k) => toMC[k].dlg # h
  BY <1>0, MsgTypes DEF Requests
<1>4. \A k \in 1 .. Len(toGB) : toGB[k].dlg # h
  BY <1>0, MsgTypes DEF Requests
<1>5. \A k \in 1 .. Len(toMC') : Asks(k)' =>
         \/ k \in 1 .. Len(toMC) /\ toMC'[k] = toMC[k] /\ Asks(k)
         \/ k = n /\ toMC'[k].dlg = h /\ toMC'[k].leg = l
  BY <1>1, <1>2 DEF Asks
<1>6. \A k \in 1 .. Len(toMC') : Asks(k)' => Opened(toMC[k].dlg, toMC[k].leg)'
  <2> SUFFICES ASSUME NEW k \in 1 .. Len(toMC'), Asks(k)'
               PROVE  Opened(toMC[k].dlg, toMC[k].leg)'
    OBVIOUS
  <2>1. CASE toMC'[k].dlg = h /\ toMC'[k].leg = l
    BY <2>1
  <2>2. CASE k \in 1 .. Len(toMC) /\ toMC'[k] = toMC[k] /\ Asks(k)
    <3>1. toMC[k].dlg \in D!DlgId /\ toMC[k].leg \in Leg /\ Opened(toMC[k].dlg, toMC[k].leg)
      BY <1>0, <2>2, MsgTypes DEF Requests
    <3>2. QED BY <2>2, <3>1
  <2>3. QED BY <1>5, <2>1, <2>2
<1>7. \A j, k \in 1 .. Len(toMC') : Asks(j)' /\ Asks(k)' /\ toMC'[j].dlg = toMC'[k].dlg => j = k
  <2> SUFFICES ASSUME NEW j \in 1 .. Len(toMC'), NEW k \in 1 .. Len(toMC'),
                      Asks(j)', Asks(k)', toMC'[j].dlg = toMC'[k].dlg
               PROVE  j = k
    OBVIOUS
  <2>1. \/ j \in 1 .. Len(toMC) /\ toMC'[j] = toMC[j] /\ Asks(j)
        \/ j = n /\ toMC'[j].dlg = h
    BY <1>5
  <2>2. \/ k \in 1 .. Len(toMC) /\ toMC'[k] = toMC[k] /\ Asks(k)
        \/ k = n /\ toMC'[k].dlg = h
    BY <1>5
  <2>3. QED BY <1>3, <2>1, <2>2 DEF Requests
<1>8. \A j \in 1 .. Len(toMC'), k \in 1 .. Len(toGB') : Asks(j)' => toMC'[j].dlg # toGB'[k].dlg
  BY <1>4, <1>5 DEF Requests
<1>9. \A k \in 1 .. Len(toGB') : Opened(toGB[k].dlg, toGB[k].leg)'
  <2> SUFFICES ASSUME NEW k \in 1 .. Len(toGB')
               PROVE  Opened(toGB[k].dlg, toGB[k].leg)'
    OBVIOUS
  <2>1. toGB[k].dlg \in D!DlgId /\ toGB[k].leg \in Leg /\ Opened(toGB[k].dlg, toGB[k].leg)
    BY <1>0, MsgTypes DEF Requests
  <2>2. QED BY <2>1
<1>10. \A j, k \in 1 .. Len(toGB') : toGB'[j].dlg = toGB'[k].dlg => j = k
  BY DEF Requests
<1>11. QED BY <1>6, <1>7, <1>8, <1>9, <1>10 DEF Requests

\* The first request becomes the last reply.
LEMMA RequestsServed ==
    ASSUME TInv, Requests, toMC # <<>>, Asks(1), toMC' = Tail(toMC),
           NEW r \in ToGbMsg, r.dlg = toMC[1].dlg, r.leg = toMC[1].leg, toGB' = Append(toGB, r),
           \A d, x : Opened(d, x)' <=> Opened(d, x)
    PROVE  Requests'
<1> DEFINE n == Len(toGB) + 1
<1>0. TypeOK
  BY DEF TInv
<1>1. /\ Len(toMC) \in Nat \ {0} /\ Len(toMC') = Len(toMC) - 1
      /\ \A k \in 1 .. Len(toMC') : k + 1 \in 1 .. Len(toMC) /\ toMC'[k] = toMC[k + 1]
  BY <1>0, FromTail DEF TypeOK
<1>2. /\ Len(toGB) \in Nat /\ Len(toGB') = Len(toGB) + 1
      /\ \A k \in 1 .. Len(toGB') : \/ k \in 1 .. Len(toGB) /\ toGB'[k] = toGB[k]
                                    \/ k = n /\ toGB'[k] = r
  BY <1>0, FromAppend DEF TypeOK
<1>3. 1 \in 1 .. Len(toMC) /\ Opened(r.dlg, r.leg)
  BY <1>1 DEF Requests
<1>4. \A k \in 1 .. Len(toMC') : Asks(k)' => Asks(k + 1) /\ toMC[k + 1].dlg # r.dlg
  <2> SUFFICES ASSUME NEW k \in 1 .. Len(toMC'), Asks(k)'
               PROVE  Asks(k + 1) /\ toMC[k + 1].dlg # r.dlg
    OBVIOUS
  <2>1. k + 1 \in 1 .. Len(toMC) /\ toMC'[k] = toMC[k + 1] /\ Asks(k + 1)
    BY <1>1 DEF Asks
  <2>2. k + 1 # 1
    BY <1>1
  <2>3. QED BY <1>3, <2>1, <2>2 DEF Requests
<1>5. \A k \in 1 .. Len(toGB) : toGB[k].dlg # r.dlg
  BY <1>3 DEF Requests
<1>6. \A k \in 1 .. Len(toMC') : Asks(k)' => Opened(toMC[k].dlg, toMC[k].leg)'
  <2> SUFFICES ASSUME NEW k \in 1 .. Len(toMC'), Asks(k)'
               PROVE  Opened(toMC[k].dlg, toMC[k].leg)'
    OBVIOUS
  <2>1. k + 1 \in 1 .. Len(toMC) /\ toMC'[k] = toMC[k + 1] /\ Asks(k + 1)
    BY <1>1, <1>4
  <2>2. Opened(toMC[k + 1].dlg, toMC[k + 1].leg)
    BY <2>1 DEF Requests
  <2>3. QED BY <2>1, <2>2
<1>7. \A k \in 1 .. Len(toGB') : Opened(toGB[k].dlg, toGB[k].leg)'
  <2> SUFFICES ASSUME NEW k \in 1 .. Len(toGB')
               PROVE  Opened(toGB[k].dlg, toGB[k].leg)'
    OBVIOUS
  <2>1. Opened(toGB'[k].dlg, toGB'[k].leg)
    BY <1>2, <1>3 DEF Requests
  <2>2. QED BY <2>1
<1>8. \A j, k \in 1 .. Len(toMC') : Asks(j)' /\ Asks(k)' /\ toMC'[j].dlg = toMC'[k].dlg => j = k
  <2> SUFFICES ASSUME NEW j \in 1 .. Len(toMC'), NEW k \in 1 .. Len(toMC'),
                      Asks(j)', Asks(k)', toMC'[j].dlg = toMC'[k].dlg
               PROVE  j = k
    OBVIOUS
  <2>1. /\ j + 1 \in 1 .. Len(toMC) /\ toMC'[j] = toMC[j + 1] /\ Asks(j + 1)
        /\ k + 1 \in 1 .. Len(toMC) /\ toMC'[k] = toMC[k + 1] /\ Asks(k + 1)
    BY <1>1, <1>4
  <2>2. j + 1 = k + 1
    BY <2>1 DEF Requests
  <2>3. QED BY <2>2
<1>9. \A j, k \in 1 .. Len(toGB') : toGB'[j].dlg = toGB'[k].dlg => j = k
  <2> SUFFICES ASSUME NEW j \in 1 .. Len(toGB'), NEW k \in 1 .. Len(toGB'), toGB'[j].dlg = toGB'[k].dlg
               PROVE  j = k
    OBVIOUS
  <2>1. /\ \/ j \in 1 .. Len(toGB) /\ toGB'[j] = toGB[j]
           \/ j = n /\ toGB'[j] = r
        /\ \/ k \in 1 .. Len(toGB) /\ toGB'[k] = toGB[k]
           \/ k = n /\ toGB'[k] = r
    BY <1>2
  <2>2. QED BY <1>5, <2>1 DEF Requests
<1>10. \A j \in 1 .. Len(toMC'), k \in 1 .. Len(toGB') : Asks(j)' => toMC'[j].dlg # toGB'[k].dlg
  <2> SUFFICES ASSUME NEW j \in 1 .. Len(toMC'), NEW k \in 1 .. Len(toGB'), Asks(j)'
               PROVE  toMC'[j].dlg # toGB'[k].dlg
    OBVIOUS
  <2>1. j + 1 \in 1 .. Len(toMC) /\ toMC'[j] = toMC[j + 1] /\ Asks(j + 1) /\ toMC[j + 1].dlg # r.dlg
    BY <1>1, <1>4
  <2>2. \/ k \in 1 .. Len(toGB) /\ toGB'[k] = toGB[k]
        \/ toGB'[k] = r
    BY <1>2
  <2>3. QED BY <2>1, <2>2 DEF Requests
<1>11. QED BY <1>6, <1>7, <1>8, <1>9, <1>10 DEF Requests

-----------------------------------------------------------------------------
(* Who holds the transmitters. *)

\* Nothing is granted or given back: the queue to the message centre moves up,
\* what joins it is no BYE.
LEMMA GrantsMoveUp ==
    ASSUME TypeOK, NEW own \in [T!Trans -> D!DlgId], Granted(own), GivenBack(own),
           toGB' = toGB, NEW s \in Nat,
           \A d \in D!DlgId : Talking(d)' => Talking(d) /\ dlg'[d] = dlg[d],
           \A k \in 1 .. Len(toMC') :
              /\ Ends(k)' => k + s \in 1 .. Len(toMC) /\ toMC'[k] = toMC[k + s]
              /\ Asks(k)' => \/ k + s \in 1 .. Len(toMC) /\ toMC'[k] = toMC[k + s]
                             \/ k + s > Len(toMC)
    PROVE  Granted(own)' /\ GivenBack(own)'
<1>0. Len(toMC) \in Nat
  BY MsgTypes
<1>1. Granted(own)'
  BY DEF Granted
<1>2. ASSUME NEW k \in 1 .. Len(toMC'), Ends(k)'
      PROVE  k + s \in 1 .. Len(toMC) /\ toMC'[k] = toMC[k + s] /\ Ends(k + s)
  BY <1>2 DEF Ends
<1>3. ASSUME NEW k \in 1 .. Len(toMC'), Ends(k)'
      PROVE  /\ toMC'[k].tid \in T!Trans
             /\ \A j \in 1 .. Len(toGB') : toGB'[j].dlg # own[toMC'[k].tid]
             /\ \A j \in 1 .. Len(toMC') : Asks(j)' /\ toMC'[j].dlg = own[toMC'[k].tid] => k < j
             /\ ~Talking(own[toMC[k].tid])'
  <2>1. /\ k + s \in 1 .. Len(toMC) /\ toMC'[k] = toMC[k + s] /\ Ends(k + s)
    BY <1>2, <1>3
  <2>2. /\ toMC'[k].tid \in T!Trans
        /\ \A j \in 1 .. Len(toGB') : toGB'[j].dlg # own[toMC'[k].tid]
        /\ ~Talking(own[toMC[k + s].tid])
    BY <2>1 DEF GivenBack
  <2>3. ASSUME NEW j \in 1 .. Len(toMC'), Asks(j)', toMC'[j].dlg = own[toMC'[k].tid]
        PROVE  k < j
    <3>1. CASE j + s > Len(toMC)
      BY <1>0, <2>1, <3>1
    <3>2. CASE j + s \in 1 .. Len(toMC) /\ toMC'[j] = toMC[j + s]
      <4>1. Asks(j + s)
        BY <2>3, <3>2 DEF Asks
      <4>2. k + s < j + s
        BY <2>1, <2>3, <3>2, <4>1 DEF GivenBack
      <4>3. QED BY <4>2
    <3>3. QED BY <2>3, <3>1, <3>2
  <2>4. PICK d \in D!DlgId : d = own[toMC[k + s].tid]
    BY <2>1, <2>2
  <2>5. ~Talking(d)'
    BY <2>2, <2>4
  <2>6. d = own[toMC'[k].tid]
    BY <2>1, <2>4
  <2>7. ~Talking(own[toMC[k].tid])'
    BY <2>5, <2>6
  <2>8. QED BY <2>2, <2>3, <2>7
<1>4. ASSUME NEW j \in 1 .. Len(toMC'), NEW k \in 1 .. Len(toMC'),
             Ends(j)', Ends(k)', own[toMC'[j].tid] = own[toMC'[k].tid]
      PROVE  j = k
  <2>1. /\ j + s \in 1 .. Len(toMC) /\ toMC'[j] = toMC[j + s] /\ Ends(j + s)
        /\ k + s \in 1 .. Len(toMC) /\ toMC'[k] = toMC[k + s] /\ Ends(k + s)
    BY <1>2, <1>4
  <2>2. j + s = k + s
    BY <1>4, <2>1 DEF GivenBack
  <2>3. QED BY <2>2
<1>5. QED BY <1>1, <1>3, <1>4 DEF GivenBack

LEMMA HeldMovesUp ==
    ASSUME toGB' = toGB, NEW s \in Nat,
           \A d \in D!DlgId : Talking(d)' <=> Talking(d),
           \A d \in D!DlgId : Talking(d) => dlg'[d] = dlg[d],
           \A k \in 1 .. Len(toMC') : Ends(k)' => k + s \in 1 .. Len(toMC) /\ toMC'[k] = toMC[k + s],
           \A k \in 1 .. Len(toMC) : Ends(k) => k - s \in 1 .. Len(toMC') /\ toMC'[k - s] = toMC[k]
    PROVE  \A t : HeldIn(t)' <=> HeldIn(t)
<1> SUFFICES ASSUME NEW t
             PROVE  HeldIn(t)' <=> HeldIn(t)
  OBVIOUS
<1> DEFINE Dials == \E d \in D!DlgId : Talking(d) /\ dlg[d].tid = t
           Comes == \E k \in 1 .. Len(toGB) : toGB[k].addr /\ toGB[k].tid = t
           Goes0 == \E k \in 1 .. Len(toMC) : Ends(k) /\ toMC[k].tid = t
<1>1. Dials' <=> Dials
  OBVIOUS
<1>2. Comes' <=> Comes
  OBVIOUS
<1>3. Goes0' <=> Goes0
  <2>1. ASSUME NEW k \in 1 .. Len(toMC'), Ends(k)', toMC'[k].tid = t
        PROVE  Goes0
    <3>1. k + s \in 1 .. Len(toMC) /\ Ends(k + s) /\ toMC[k + s].tid = t
      BY <2>1 DEF Ends
    <3>2. QED BY <3>1
  <2>2. ASSUME NEW k \in 1 .. Len(toMC), Ends(k), toMC[k].tid = t
        PROVE  Goes0'
    <3>1. k - s \in 1 .. Len(toMC') /\ Ends(k - s)' /\ toMC'[k - s].tid = t
      BY <2>2 DEF Ends
    <3>2. QED BY <3>1
  <2>3. QED BY <2>1, <2>2
<1>4. QED BY <1>1, <1>2, <1>3 DEF HeldIn

\* rmt_bye: the transmitter of an answered dialog is given back.
LEMMA GrantGivenBack ==
    ASSUME TypeOK, Requests, NEW own \in [T!Trans -> D!DlgId], Granted(own), GivenBack(own),
           NEW h \in D!DlgId, Talking(h),
           toMC' = Append(toMC, [type |-> "BYE", tid |-> dlg[h].tid]), toGB' = toGB,
           \A d \in D!DlgId : Talking(d)' <=> Talking(d) /\ d # h,
           \A d \in D!DlgId : Talking(d)' => dlg'[d] = dlg[d]
    PROVE  Granted(own)' /\ GivenBack(own)' /\ (\A t : HeldIn(t)' <=> HeldIn(t))
<1> DEFINE e == [type |-> "BYE", tid |-> dlg[h].tid]
           n == Len(toMC) + 1
<1>1. dlg[h].tid \in T!Trans /\ own[dlg[h].tid] = h
  BY DEF Granted
<1>2. e \in ToMcMsg /\ e.type = "BYE" /\ e.tid = dlg[h].tid /\ toMC' = Append(toMC, e)
  BY <1>1, SizesAssumption DEF ToMcMsg, TransId, T!Trans
<1> HIDE DEF e
<1>3. /\ Len(toMC) \in Nat /\ Len(toMC') = Len(toMC) + 1 /\ toMC'[Len(toMC) + 1] = e
      /\ \A k \in 1 .. Len(toMC') : \/ k \in 1 .. Len(toMC) /\ toMC'[k] = toMC[k]
                                    \/ k = n /\ toMC'[k] = e
      /\ \A k \in 1 .. Len(toMC) : k \in 1 .. Len(toMC') /\ toMC'[k] = toMC[k]
  BY <1>2, FromAppend DEF TypeOK
<1>4. \A k \in 1 .. Len(toMC') :
         /\ Ends(k)' => \/ k \in 1 .. Len(toMC) /\ toMC'[k] = toMC[k] /\ Ends(k)
                        \/ k = n /\ toMC'[k].tid = dlg[h].tid
         /\ Asks(k)' => k \in 1 .. Len(toMC) /\ toMC'[k] = toMC[k] /\ Asks(k)
  BY <1>2, <1>3 DEF Ends, Asks
<1>5. Granted(own)'
  BY DEF Granted
\* Nothing else is on its way about the dialog that ends.
<1>6. /\ \A j \in 1 .. Len(toGB) : toGB[j].dlg # h
      /\ \A j \in 1 .. Len(toMC) : Asks(j) => toMC[j].dlg # h
      /\ \A j \in 1 .. Len(toMC) : Ends(j) => own[toMC[j].tid] # h
  BY DEF Requests, Opened, Talking, GivenBack
<1>7. ASSUME NEW k \in 1 .. Len(toMC'), Ends(k)'
      PROVE  /\ toMC'[k].tid \in T!Trans
             /\ \A j \in 1 .. Len(toGB') : toGB'[j].dlg # own[toMC'[k].tid]
             /\ \A j \in 1 .. Len(toMC') : Asks(j)' /\ toMC'[j].dlg = own[toMC'[k].tid] => k < j
             /\ ~Talking(own[toMC[k].tid])'
  <2>1. CASE k \in 1 .. Len(toMC) /\ toMC'[k] = toMC[k] /\ Ends(k)
    <3>1. /\ toMC[k].tid \in T!Trans
          /\ \A j \in 1 .. Len(toGB) : toGB[j].dlg # own[toMC[k].tid]
          /\ \A j \in 1 .. Len(toMC) : Asks(j) /\ toMC[j].dlg = own[toMC[k].tid] => k < j
          /\ ~Talking(own[toMC[k].tid])
      BY <2>1 DEF GivenBack
    <3>2. PICK d \in D!DlgId : d = own[toMC[k].tid]
      BY <3>1
    <3>3. ~Talking(d)' /\ d = own[toMC'[k].tid]
      BY <2>1, <3>1, <3>2
    <3>4. QED BY <1>4, <2>1, <3>1, <3>3
  <2>2. CASE k = n /\ toMC'[k].tid = dlg[h].tid
    <3>1. own[toMC'[k].tid] = h
      BY <1>1, <2>2
    <3>2. ~Talking(own[toMC[k].tid])'
      BY <3>1
    <3>3. QED BY <1>1, <1>4, <1>6, <2>2, <3>1, <3>2
  <2>3. QED BY <1>4, <1>7, <2>1, <2>2
<1>8. ASSUME NEW j \in 1 .. Len(toMC'), NEW k \in 1 .. Len(toMC'),
             Ends(j)', Ends(k)', own[toMC'[j].tid] = own[toMC'[k].tid]
      PROVE  j = k
  <2>1. /\ \/ j \in 1 .. Len(toMC) /\ toMC'[j] = toMC[j] /\ Ends(j)
           \/ j = n /\ own[toMC'[j].tid] = h
        /\ \/ k \in 1 .. Len(toMC) /\ toMC'[k] = toMC[k] /\ Ends(k)
           \/ k = n /\ own[toMC'[k].tid] = h
    BY <1>1, <1>4, <1>8
  <2>2. QED BY <1>6, <1>8, <2>1 DEF GivenBack
<1>9. ASSUME NEW t
      PROVE  HeldIn(t)' <=> HeldIn(t)
  <2>1. ASSUME HeldIn(t)
        PROVE  HeldIn(t)'
    <3>1. CASE t = dlg[h].tid
      <4>1. PICK i \in 1 .. Len(toMC') : i = n
        BY <1>3
      <4>2. Ends(i)' /\ toMC'[i].tid = t
        BY <1>2, <1>3, <3>1, <4>1 DEF Ends
      <4>3. QED BY <4>2 DEF HeldIn
    <3>2. CASE t # dlg[h].tid
      BY <1>3, <2>1, <3>2 DEF HeldIn, Ends
    <3>3. QED BY <3>1, <3>2
  <2>2. ASSUME HeldIn(t)'
        PROVE  HeldIn(t)
    BY <1>4, <2>2 DEF HeldIn
  <2>3. QED BY <2>1, <2>2
<1>10. QED BY <1>5, <1>7, <1>8, <1>9 DEF GivenBack

\* The reply to the request of dialog h is read: the transmitter goes to h.
LEMMA GrantTaken ==
    ASSUME TypeOK, Requests, NEW own \in [T!Trans -> D!DlgId], Granted(own), GivenBack(own),
           toGB # <<>>, toGB' = Tail(toGB), toMC' = toMC,
           NEW h \in D!DlgId, h = toGB[1].dlg, ~Talking(h),
           \A d \in D!DlgId : Talking(d)' <=> Talking(d) \/ d = h,
           \A d \in D!DlgId : d # h => dlg'[d] = dlg[d],
           dlg'[h].tid = toGB[1].tid
    PROVE  Granted(own)' /\ GivenBack(own)' /\ (\A t : HeldIn(t)' <=> HeldIn(t))
<1>1. /\ Len(toGB) \in Nat \ {0} /\ Len(toGB') = Len(toGB) - 1
      /\ \A k \in 1 .. Len(toGB') : k + 1 \in 1 .. Len(toGB) /\ toGB'[k] = toGB[k + 1]
      /\ \A k \in 1 .. Len(toGB) : k = 1 \/ (k - 1 \in 1 .. Len(toGB') /\ toGB'[k - 1] = toGB[k])
  BY FromTail DEF TypeOK
<1>2. 1 \in 1 .. Len(toGB) /\ toGB[1].addr /\ toGB[1].tid \in T!Trans /\ own[toGB[1].tid] = h
  BY <1>1 DEF Granted
<1>3. Granted(own)'
  <2>1. \A k \in 1 .. Len(toGB') :
           toGB'[k].addr /\ toGB'[k].tid \in T!Trans /\ own[toGB'[k].tid] = toGB'[k].dlg
    BY <1>1 DEF Granted
  <2>2. \A d \in D!DlgId : Talking(d)' => dlg'[d].tid \in T!Trans /\ own[dlg'[d].tid] = d
    BY <1>2 DEF Granted
  <2>3. QED BY <2>1, <2>2 DEF Granted
<1>4. ASSUME NEW k \in 1 .. Len(toMC), Ends(k)
      PROVE  /\ toMC[k].tid \in T!Trans
             /\ \A j \in 1 .. Len(toGB') : toGB'[j].dlg # own[toMC[k].tid]
             /\ \A j \in 1 .. Len(toMC) : Asks(j) /\ toMC[j].dlg = own[toMC[k].tid] => k < j
             /\ ~Talking(own[toMC[k].tid])'
  <2>1. /\ toMC[k].tid \in T!Trans
        /\ \A j \in 1 .. Len(toGB) : toGB[j].dlg # own[toMC[k].tid]
        /\ \A j \in 1 .. Len(toMC) : Asks(j) /\ toMC[j].dlg = own[toMC[k].tid] => k < j
        /\ ~Talking(own[toMC[k].tid])
    BY <1>4 DEF GivenBack
  <2>2. PICK d \in D!DlgId : d = own[toMC[k].tid]
    BY <2>1
  <2>3. d # h
    BY <1>2, <2>1, <2>2
  <2>4. ~Talking(d)' /\ d = own[toMC'[k].tid]
    BY <2>1, <2>2, <2>3
  <2>5. ~Talking(own[toMC[k].tid])'
    BY <2>4
  <2>6. QED BY <1>1, <2>1, <2>5
<1>5. GivenBack(own)'
  BY <1>4 DEF GivenBack, Asks, Ends
<1>6. ASSUME NEW t
      PROVE  HeldIn(t)' <=> HeldIn(t)
  <2>1. ASSUME HeldIn(t)
        PROVE  HeldIn(t)'
    <3>1. CASE t = toGB[1].tid
      BY <3>1 DEF HeldIn
    <3>2. CASE t # toGB[1].tid /\ \E k \in 1 .. Len(toGB) : toGB[k].addr /\ toGB[k].tid = t
      <4>1. PICK k \in 1 .. Len(toGB) : toGB[k].addr /\ toGB[k].tid = t /\ k # 1
        BY <3>2
      <4>2. PICK i \in 1 .. Len(toGB') : i = k - 1
        BY <1>1, <4>1
      <4>3. toGB'[i].addr /\ toGB'[i].tid = t
        BY <1>1, <4>1, <4>2
      <4>4. QED BY <4>3 DEF HeldIn
    <3>3. CASE \E d \in D!DlgId : Talking(d) /\ dlg[d].tid = t
      BY <3>3 DEF HeldIn
    <3>4. CASE \E k \in 1 .. Len(toMC) : Ends(k) /\ toMC[k].tid = t
      BY <3>4 DEF HeldIn, Ends
    <3>5. QED BY <2>1, <3>1, <3>2, <3>3, <3>4 DEF HeldIn
  <2>2. ASSUME HeldIn(t)'
        PROVE  HeldIn(t)
    <3>1. CASE \E k \in 1 .. Len(toGB') : toGB'[k].addr /\ toGB'[k].tid = t
      BY <1>1, <3>1 DEF HeldIn
    <3>2. CASE \E d \in D!DlgId : Talking(d)' /\ dlg'[d].tid = t
      BY <1>2, <3>2 DEF HeldIn
    <3>3. CASE \E k \in 1 .. Len(toMC) : Ends(k) /\ toMC[k].tid = t
      BY <3>3 DEF HeldIn
    <3>4. QED BY <2>2, <3>1, <3>2, <3>3 DEF HeldIn, Ends
  <2>3. QED BY <2>1, <2>2
<1>7. QED BY <1>3, <1>5, <1>6

\* The message centre reads a BYE: only its transmitter is held no more.
LEMMA GrantEnds ==
    ASSUME TypeOK, NEW own \in [T!Trans -> D!DlgId], Granted(own), GivenBack(own),
           toMC # <<>>, Ends(1), toMC' = Tail(toMC), toGB' = toGB, dlg' = dlg,
           \A d \in D!DlgId : Talking(d)' <=> Talking(d)
    PROVE  /\ toMC[1].tid \in T!Trans /\ HeldIn(toMC[1].tid)
           /\ \A t : HeldIn(t)' <=> HeldIn(t) /\ t # toMC[1].tid
<1>1. /\ Len(toMC) \in Nat \ {0} /\ Len(toMC') = Len(toMC) - 1
      /\ \A k \in 1 .. Len(toMC') : k + 1 \in 1 .. Len(toMC) /\ toMC'[k] = toMC[k + 1]
      /\ \A k \in 1 .. Len(toMC) : k = 1 \/ (k - 1 \in 1 .. Len(toMC') /\ toMC'[k - 1] = toMC[k])
  BY FromTail DEF TypeOK
<1>2. 1 \in 1 .. Len(toMC) /\ toMC[1].tid \in T!Trans
  BY <1>1 DEF GivenBack
<1>3. HeldIn(toMC[1].tid)
  BY <1>2 DEF HeldIn
<1>4. ASSUME NEW t, HeldIn(t)'
      PROVE  HeldIn(t) /\ t # toMC[1].tid
  <2>1. CASE \E k \in 1 .. Len(toGB) : toGB[k].addr /\ toGB[k].tid = t
    BY <1>2, <2>1 DEF HeldIn, Granted, GivenBack
  <2>2. CASE \E d \in D!DlgId : Talking(d) /\ dlg[d].tid = t
    BY <1>2, <2>2 DEF HeldIn, Granted, GivenBack
  <2>3. CASE \E k \in 1 .. Len(toMC') : Ends(k)' /\ toMC'[k].tid = t
    <3>1. PICK k \in 1 .. Len(toMC') : Ends(k)' /\ toMC'[k].tid = t
      BY <2>3
    <3>2. k + 1 \in 1 .. Len(toMC) /\ Ends(k + 1) /\ toMC[k + 1].tid = t /\ k + 1 # 1
      BY <1>1, <3>1 DEF Ends
    <3>3. QED BY <1>2, <3>2 DEF HeldIn, GivenBack
  <2>4. QED BY <1>4, <2>1, <2>2, <2>3 DEF HeldIn
<1>5. ASSUME NEW t, HeldIn(t), t # toMC[1].tid
      PROVE  HeldIn(t)'
  <2>1. CASE \E k \in 1 .. Len(toMC) : Ends(k) /\ toMC[k].tid = t
    <3>1. PICK k \in 1 .. Len(toMC) : Ends(k) /\ toMC[k].tid = t
      BY <2>1
    <3>2. PICK i \in 1 .. Len(toMC') : i = k - 1
      BY <1>1, <1>5, <3>1
    <3>3. Ends(i)' /\ toMC'[i].tid = t
      BY <1>1, <1>5, <3>1, <3>2 DEF Ends
    <3>4. QED BY <3>3 DEF HeldIn
  <2>2. CASE ~\E k \in 1 .. Len(toMC) : Ends(k) /\ toMC[k].tid = t
    BY <1>5, <2>2 DEF HeldIn
  <2>3. QED BY <2>1, <2>2
<1>6. QED BY <1>2, <1>3, <1>4, <1>5

\* rmt_invite_media takes transmitter u, which nobody holds, for the dialog of
\* the first request.
LEMMA GrantMade ==
    ASSUME TypeOK, Requests, NEW own \in [T!Trans -> D!DlgId], Granted(own), GivenBack(own),
           toMC # <<>>, Asks(1), toMC' = Tail(toMC), dlg' = dlg,
           \A d \in D!DlgId : Talking(d)' <=> Talking(d),
           NEW u \in T!Trans, ~HeldIn(u),
           NEW r \in ToGbMsg, r.dlg = toMC[1].dlg, r.addr, r.tid = u, toGB' = Append(toGB, r)
    PROVE  /\ \E new \in [T!Trans -> D!DlgId] : Granted(new)' /\ GivenBack(new)'
           /\ \A t : HeldIn(t)' <=> HeldIn(t) \/ t = u
<1> DEFINE n == Len(toGB) + 1
<1>1. /\ Len(toMC) \in Nat \ {0} /\ Len(toMC') = Len(toMC) - 1
      /\ \A k \in 1 .. Len(toMC') : k + 1 \in 1 .. Len(toMC) /\ toMC'[k] = toMC[k + 1]
      /\ \A k \in 1 .. Len(toMC) : k = 1 \/ (k - 1 \in 1 .. Len(toMC') /\ toMC'[k - 1] = toMC[k])
  BY FromTail DEF TypeOK
<1>2. /\ Len(toGB) \in Nat /\ Len(toGB') = Len(toGB) + 1 /\ toGB'[Len(toGB) + 1] = r
      /\ \A k \in 1 .. Len(toGB') : \/ k \in 1 .. Len(toGB) /\ toGB'[k] = toGB[k]
                                    \/ k = n /\ toGB'[k] = r
      /\ \A k \in 1 .. Len(toGB) : k \in 1 .. Len(toGB') /\ toGB'[k] = toGB[k]
  BY FromAppend DEF TypeOK
<1>3. 1 \in 1 .. Len(toMC) /\ r.dlg \in D!DlgId /\ ~Ends(1)
  BY <1>1 DEF ToGbMsg, Asks, Ends
<1>4. PICK new \in [T!Trans -> D!DlgId] : new = [own EXCEPT ![u] = r.dlg]
  BY <1>3
<1>5. new[u] = r.dlg /\ \A t \in T!Trans : t # u => new[t] = own[t]
  BY <1>4
\* Who holds a transmitter holds another one than u, and keeps its owner.
<1>6. /\ \A k \in 1 .. Len(toGB) : toGB[k].tid \in T!Trans /\ new[toGB[k].tid] = own[toGB[k].tid]
      /\ \A d \in D!DlgId : Talking(d) => dlg[d].tid \in T!Trans /\ new[dlg[d].tid] = own[dlg[d].tid]
      /\ \A k \in 1 .. Len(toMC) : Ends(k) => toMC[k].tid \in T!Trans /\ new[toMC[k].tid] = own[toMC[k].tid]
  BY <1>5 DEF HeldIn, Granted, GivenBack
<1>7. Granted(new)'
  <2>1. \A k \in 1 .. Len(toGB') :
           toGB'[k].addr /\ toGB'[k].tid \in T!Trans /\ new[toGB'[k].tid] = toGB'[k].dlg
    BY <1>2, <1>5, <1>6 DEF Granted
  <2>2. QED BY <1>6, <2>1 DEF Granted
<1>8. ASSUME NEW k \in 1 .. Len(toMC'), Ends(k)'
      PROVE  k + 1 \in 1 .. Len(toMC) /\ toMC'[k] = toMC[k + 1] /\ Ends(k + 1)
  BY <1>1, <1>8 DEF Ends
<1>9. ASSUME NEW k \in 1 .. Len(toMC'), Ends(k)'
      PROVE  /\ toMC'[k].tid \in T!Trans
             /\ \A j \in 1 .. Len(toGB') : toGB'[j].dlg # new[toMC'[k].tid]
             /\ \A j \in 1 .. Len(toMC') : Asks(j)' /\ toMC'[j].dlg = new[toMC'[k].tid] => k < j
             /\ ~Talking(new[toMC[k].tid])'
  <2>1. k + 1 \in 1 .. Len(toMC) /\ toMC'[k] = toMC[k + 1] /\ Ends(k + 1)
    BY <1>8, <1>9
  <2>2. /\ toMC[k + 1].tid \in T!Trans
        /\ new[toMC'[k].tid] = own[toMC[k + 1].tid]
        /\ \A j \in 1 .. Len(toGB) : toGB[j].dlg # own[toMC[k + 1].tid]
        /\ \A j \in 1 .. Len(toMC) : Asks(j) /\ toMC[j].dlg = own[toMC[k + 1].tid] => k + 1 < j
        /\ ~Talking(own[toMC[k + 1].tid])
    BY <1>6, <2>1 DEF GivenBack
  <2>3. r.dlg # own[toMC[k + 1].tid]
    BY <1>3, <2>1, <2>2
  <2>4. \A j \in 1 .. Len(toGB') : toGB'[j].dlg # new[toMC'[k].tid]
    BY <1>2, <2>2, <2>3
  <2>5. ASSUME NEW j \in 1 .. Len(toMC'), Asks(j)', toMC'[j].dlg = new[toMC'[k].tid]
        PROVE  k < j
    <3>1. j + 1 \in 1 .. Len(toMC) /\ toMC'[j] = toMC[j + 1] /\ Asks(j + 1)
      BY <1>1, <2>5 DEF Asks
    <3>2. k + 1 < j + 1
      BY <2>2, <2>5, <3>1
    <3>3. QED BY <3>2
  <2>6. PICK d \in D!DlgId : d = own[toMC[k + 1].tid]
    BY <2>2
  <2>7. ~Talking(d)' /\ d = new[toMC'[k].tid]
    BY <2>2, <2>6
  <2>8. ~Talking(new[toMC[k].tid])'
    BY <2>7
  <2>9. QED BY <2>1, <2>2, <2>4, <2>5, <2>8
<1>10. ASSUME NEW j \in 1 .. Len(toMC'), NEW k \in 1 .. Len(toMC'),
              Ends(j)', Ends(k)', new[toMC'[j].tid] = new[toMC'[k].tid]
       PROVE  j = k
  <2>1. /\ j + 1 \in 1 .. Len(toMC) /\ toMC'[j] = toMC[j + 1] /\ Ends(j + 1)
        /\ k + 1 \in 1 .. Len(toMC) /\ toMC'[k] = toMC[k + 1] /\ Ends(k + 1)
    BY <1>8, <1>10
  <2>2. own[toMC[j + 1].tid] = own[toMC[k + 1].tid]
    BY <1>6, <1>10, <2>1
  <2>3. j + 1 = k + 1
    BY <2>1, <2>2 DEF GivenBack
  <2>4. QED BY <2>3
<1>11. GivenBack(new)'
  BY <1>9, <1>10 DEF GivenBack
<1>12. ASSUME NEW t
       PROVE  HeldIn(t)' <=> HeldIn(t) \/ t = u
  <2>1. CASE t = u
    <3>1. PICK i \in 1 .. Len(toGB') : i = n
      BY <1>2
    <3>2. toGB'[i].addr /\ toGB'[i].tid = t
      BY <1>2, <2>1, <3>1
    <3>3. QED BY <2>1, <3>2 DEF HeldIn
  <2>2. ASSUME t # u, HeldIn(t)'
        PROVE  HeldIn(t)
    BY <1>2, <1>8, <2>2 DEF HeldIn
  <2>3. ASSUME HeldIn(t)
        PROVE  HeldIn(t)'
    <3>1. CASE \E k \in 1 .. Len(toMC) : Ends(k) /\ toMC[k].tid = t
      <4>1. PICK k \in 1 .. Len(toMC) : Ends(k) /\ toMC[k].tid = t
        BY <3>1
      <4>2. PICK i \in 1 .. Len(toMC') : i = k - 1
        BY <1>1, <1>3, <4>1
      <4>3. Ends(i)' /\ toMC'[i].tid = t
        BY <1>1, <1>3, <4>1, <4>2 DEF Ends
      <4>4. QED BY <4>3 DEF HeldIn
    <3>2. CASE ~\E k \in 1 .. Len(toMC) : Ends(k) /\ toMC[k].tid = t
      BY <1>2, <2>3, <3>2 DEF HeldIn
    <3>3. QED BY <3>1, <3>2
  <2>4. QED BY <2>1, <2>2, <2>3
<1>13. QED BY <1>7, <1>11, <1>12

-----------------------------------------------------------------------------
(* A dialog that waits finds a transmitter. *)

\* Transmitter t, of dialog o, is in a reply, in a dialog, in a BYE.
InReply(t, o) == \E k \in 1 .. Len(toGB) : toGB[k].tid = t /\ o = toGB[k].dlg
InDialog(t, o) == \E d \in D!DlgId : Talking(d) /\ dlg[d].tid = t /\ o = d
InBye(t) == \E k \in 1 .. Len(toMC) : Ends(k) /\ toMC[k].tid = t

\* Different transmitters that are held have different owners, and if the first
\* message is a request, none of them is its dialog.
LEMMA OwnersDiffer ==
    ASSUME TypeOK, Requests, NEW own \in [T!Trans -> D!DlgId], Granted(own), GivenBack(own)
    PROVE  /\ \A s, t : HeldIn(s) /\ HeldIn(t) /\ own[s] = own[t] => s = t
           /\ \A t : HeldIn(t) => t \in T!Trans
           /\ toMC # <<>> /\ Asks(1) => \A t : HeldIn(t) => own[t] # toMC[1].dlg
<1>1. \A t : HeldIn(t) => t \in T!Trans /\ (InReply(t, own[t]) \/ InDialog(t, own[t]) \/ InBye(t))
  BY DEF HeldIn, Granted, GivenBack, InReply, InDialog, InBye
<1>2. \A d \in D!DlgId, k \in 1 .. Len(toGB) : Talking(d) => d # toGB[k].dlg
  BY DEF Requests, Opened, Talking
<1>3. ASSUME NEW s, NEW t, own[s] = own[t],
             InReply(s, own[s]) \/ InDialog(s, own[s]) \/ InBye(s),
             InReply(t, own[t]) \/ InDialog(t, own[t]) \/ InBye(t)
      PROVE  s = t
  <2>1. CASE InReply(s, own[s]) /\ InReply(t, own[t])
    BY <1>3, <2>1 DEF Requests, InReply
  <2>2. CASE InDialog(s, own[s]) /\ InDialog(t, own[t])
    BY <1>3, <2>2 DEF InDialog
  <2>3. CASE InBye(s) /\ InBye(t)
    BY <1>3, <2>3 DEF GivenBack, InBye
  <2>4. CASE \/ InReply(s, own[s]) /\ InDialog(t, own[t])
             \/ InDialog(s, own[s]) /\ InReply(t, own[t])
    BY <1>2, <1>3, <2>4 DEF InReply, InDialog
  <2>5. CASE \/ InReply(s, own[s]) /\ InBye(t)
             \/ InBye(s) /\ InReply(t, own[t])
    BY <1>3, <2>5 DEF GivenBack, InReply, InBye
  <2>6. CASE \/ InDialog(s, own[s]) /\ InBye(t)
             \/ InBye(s) /\ InDialog(t, own[t])
    BY <1>3, <2>6 DEF GivenBack, InDialog, InBye
  <2>7. QED BY <1>3, <2>1, <2>2, <2>3, <2>4, <2>5, <2>6
<1>4. ASSUME toMC # <<>>, Asks(1), NEW t, InReply(t, own[t]) \/ InDialog(t, own[t]) \/ InBye(t)
      PROVE  own[t] # toMC[1].dlg
  <2>1. Len(toMC) \in Nat \ {0} /\ 1 \in 1 .. Len(toMC)
    BY <1>4, TailIs DEF TypeOK
  <2>2. Opened(toMC[1].dlg, toMC[1].leg) /\ toMC[1].dlg \in D!DlgId
    BY <1>4, <2>1, MsgTypes DEF Requests
  <2>3. CASE InReply(t, own[t])
    BY <1>4, <2>1, <2>3 DEF Requests, InReply
  <2>4. CASE InDialog(t, own[t])
    BY <2>2, <2>4 DEF Opened, Talking, InDialog
  <2>5. CASE InBye(t)
    BY <1>4, <2>1, <2>5 DEF GivenBack, InBye
  <2>6. QED BY <1>4, <2>3, <2>4, <2>5
<1>5. QED BY <1>1, <1>3, <1>4

\* There are as many transmitters as dialogs, so one is left for it.
LEMMA SomeIsFree ==
    ASSUME TypeOK, Ample, Requests, NEW own \in [T!Trans -> D!DlgId], Granted(own), GivenBack(own),
           HT!UnusedIsRest, toMC # <<>>, Asks(1)
    PROVE  ~T!CannotTake(Target[toMC[1].leg]) /\ unused \in T!Trans /\ ~HeldIn(unused)
<1>1. Len(toMC) \in Nat \ {0} /\ 1 \in 1 .. Len(toMC)
  BY TailIs DEF TypeOK
<1>2. toMC[1].dlg \in D!DlgId /\ Opened(toMC[1].dlg, toMC[1].leg)
  BY <1>1, MsgTypes DEF Requests
<1>3. Target[toMC[1].leg] \in T!Chan
  BY <1>2, SizesAssumption DEF Opened, Item, Ample, T!Chan
<1>4. TP!IInv
  <2>1. T!TypeOK /\ Held \subseteq T!Trans
    BY HeldIs, OwnersDiffer DEF TypeOK, HeldEverywhere
  <2>2. QED BY <2>1, SameTable DEF TP!IInv, TP!TypeOK, T!TypeOK, TP!Trans, T!Trans, TP!Ptr, T!Ptr, TP!Chan, T!Chan
<1>5. unused # Null
  <2>1. SUFFICES ASSUME unused = Null
                 PROVE  FALSE
    OBVIOUS
  <2>2. PICK n \in 0 .. NumTrans : \E s \in [1 .. n -> T!Trans] :
          HT!UnusedChain(n, s) /\ {s[i] : i \in 1 .. n} = T!Trans \ Held
    BY DEF HT!UnusedIsRest, HT!Trans, T!Trans
  <2>3. PICK s \in [1 .. n -> T!Trans] : HT!UnusedChain(n, s) /\ {s[i] : i \in 1 .. n} = T!Trans \ Held
    BY <2>2
  <2>4. n = 0
    <3>1. n # 0 => s[1] \in T!Trans
      BY SizesAssumption
    <3>2. n # 0 => s[1] = Null
      BY <2>1, <2>3 DEF HT!UnusedChain
    <3>3. QED BY <3>1, <3>2, NullAssumption DEF T!Trans
  <2>5. \A t \in T!Trans : HeldIn(t)
    BY <2>3, <2>4, HeldIs DEF HeldEverywhere
  <2> DEFINE others == D!DlgId \ {toMC[1].dlg}
  <2>6. own \in Injection(T!Trans, others)
    <3>1. \A t \in T!Trans : own[t] \in others
      BY <2>5, OwnersDiffer
    <3>2. \A s1, s2 \in T!Trans : own[s1] = own[s2] => s1 = s2
      BY <2>5, OwnersDiffer
    <3>3. own \in [T!Trans -> others]
      BY <3>1
    <3>4. QED BY <3>2, <3>3 DEF Injection, IsInjective
  <2>7. IsFiniteSet(T!Trans) /\ Cardinality(T!Trans) = NumTrans
    <3>1. 0 \in Int /\ NumTrans - 1 \in Int /\ NumTrans \in Nat \ {0}
      BY SizesAssumption
    <3>2. /\ IsFiniteSet(0 .. NumTrans - 1)
          /\ Cardinality(0 .. NumTrans - 1) = IF 0 > NumTrans - 1 THEN 0 ELSE (NumTrans - 1) - 0 + 1
      BY <3>1, FS_Interval
    <3>3. QED BY <3>1, <3>2 DEF T!Trans
  <2>8. IsFiniteSet(D!DlgId) /\ Cardinality(D!DlgId) = NumDlg
    <3>1. 0 \in Int /\ NumDlg - 1 \in Int /\ NumDlg \in Nat \ {0}
      BY SizesAssumption
    <3>2. /\ IsFiniteSet(0 .. NumDlg - 1)
          /\ Cardinality(0 .. NumDlg - 1) = IF 0 > NumDlg - 1 THEN 0 ELSE (NumDlg - 1) - 0 + 1
      BY <3>1, FS_Interval
    <3>3. QED BY <3>1, <3>2 DEF D!DlgId
  <2>9. IsFiniteSet(others) /\ Cardinality(others) = NumDlg - 1
    BY <1>2, <2>8, FS_RemoveElement
  <2>10. Cardinality(T!Trans) <= Cardinality(others)
    <3> HIDE DEF others
    <3>1. QED BY <2>6, <2>7, <2>9, FS_Injection
  <2>11. QED BY <2>7, <2>9, <2>10, SizesAssumption DEF Ample
<1>6. unused \in TP!Trans \ Held
  BY <1>4, <1>5, TP!FirstIsFree, TableAssumptions
<1>7. QED BY <1>3, <1>5, <1>6, HeldIs DEF T!CannotTake, TP!Trans, T!Trans, HeldEverywhere

-----------------------------------------------------------------------------
(* The steps. *)

\* What a step promises of the requests, the grants and the device table.
Fair == Requests' /\ Grants' /\ (HT!Next \/ UNCHANGED HT!vars)

\* The table is left alone and the holders pass on what they have.
LEMMA TableRests ==
    ASSUME TypeOK, TypeOK', UNCHANGED devVars, \A t : HeldIn(t)' <=> HeldIn(t)
    PROVE  UNCHANGED HT!vars
<1>1. \A t : t \in Held' <=> t \in Held
  BY HeldIs, HeldIsNext DEF HeldEverywhere
<1>2. Held' = Held
  BY <1>1 DEF Held
<1>3. QED BY <1>2 DEF HT!vars, devVars

\* Nothing of all this moves.
LEMMA NothingMoves ==
    ASSUME TypeOK, TypeOK', Requests, Grants,
           UNCHANGED gbVars, UNCHANGED devVars, toMC' = toMC, toGB' = toGB
    PROVE  Fair
<1>1. /\ \A d, x : Opened(d, x)' <=> Opened(d, x)
      /\ \A d : Talking(d)' <=> Talking(d)
      /\ dlg' = dlg
  BY SameDialogs
<1>2. Requests'
  BY <1>1 DEF Requests, Asks
<1>3. PICK own \in [T!Trans -> D!DlgId] : Granted(own) /\ GivenBack(own)
  BY DEF Grants
<1>4. Granted(own)' /\ GivenBack(own)'
  BY <1>1, <1>3 DEF Granted, GivenBack, Asks, Ends
<1>5. \A t : HeldIn(t)' <=> HeldIn(t)
  BY <1>1 DEF HeldIn, Ends
<1>6. QED BY <1>2, <1>4, <1>5, TableRests DEF Grants, Fair

\* A message that is neither INVITE nor BYE comes or goes.
LEMMA AckMoves ==
    ASSUME TypeOK, TypeOK', Requests, Grants,
           UNCHANGED gbVars, UNCHANGED devVars, toGB' = toGB,
           NEW s \in {0, 1},
           \A k \in 1 .. Len(toMC') : Asks(k)' \/ Ends(k)' =>
              k + s \in 1 .. Len(toMC) /\ toMC'[k] = toMC[k + s],
           \A k \in 1 .. Len(toMC) : Asks(k) \/ Ends(k) =>
              k - s \in 1 .. Len(toMC') /\ toMC'[k - s] = toMC[k]
    PROVE  Fair
<1>1. /\ \A d, x : Opened(d, x)' <=> Opened(d, x)
      /\ \A d : Talking(d)' <=> Talking(d)
      /\ dlg' = dlg
  BY SameDialogs
<1>2. s \in Nat
  OBVIOUS
<1>3. ASSUME NEW k \in 1 .. Len(toMC'), Asks(k)'
      PROVE  /\ k + s \in 1 .. Len(toMC) /\ toMC'[k] = toMC[k + s]
             /\ Opened(toMC[k].dlg, toMC[k].leg)'
  <2>1. k + s \in 1 .. Len(toMC) /\ toMC'[k] = toMC[k + s] /\ Asks(k + s)
    BY <1>3 DEF Asks
  <2>2. Opened(toMC[k + s].dlg, toMC[k + s].leg)
    BY <2>1 DEF Requests
  <2>3. QED BY <1>1, <2>1, <2>2
<1>4. ASSUME NEW k \in 1 .. Len(toGB')
      PROVE  /\ k + 0 \in 1 .. Len(toGB) /\ toGB'[k] = toGB[k + 0]
             /\ Opened(toGB[k].dlg, toGB[k].leg)'
  BY <1>1 DEF Requests
<1>5. Requests'
  BY <1>2, <1>3, <1>4, RequestsMoveUp
<1>6. PICK own \in [T!Trans -> D!DlgId] : Granted(own) /\ GivenBack(own)
  BY DEF Grants
<1>7. Granted(own)' /\ GivenBack(own)'
  BY <1>1, <1>2, <1>6, GrantsMoveUp
<1>8. \A t : HeldIn(t)' <=> HeldIn(t)
  BY <1>1, <1>2, HeldMovesUp
<1>9. QED BY <1>5, <1>7, <1>8, TableRests DEF Grants, Fair

\* deal_rmt_invite.
LEMMA InviteIsFair ==
    ASSUME TInv, TypeOK', Requests, Grants, NEW l \in Leg, GbInvite(l)
    PROVE  Fair
<1>0. TypeOK
  BY DEF TInv
<1>1. /\ Target[l] \in Item /\ D!AddDialog(Target[l], ReqOf(l))
      /\ toMC' = Append(toMC, [type |-> "INVITE", dlg |-> Head(free), leg |-> l])
      /\ toGB' = toGB /\ UNCHANGED devVars
  BY DEF GbInvite, D!InviteNew
<1>2. PICK h \in D!DlgId : h = Head(free)
  BY <1>1, AddedWaits
<1>3. /\ \A d \in D!DlgId, x \in Leg : Opened(d, x) => d # h /\ Opened(d, x)'
      /\ Opened(h, l)'
      /\ \A d \in D!DlgId : Talking(d)' <=> Talking(d)
      /\ \A d \in D!DlgId : Talking(d) => dlg'[d] = dlg[d]
  BY <1>1, <1>2, AddedWaits
<1> DEFINE e == [type |-> "INVITE", dlg |-> h, leg |-> l]
<1>4. e \in ToMcMsg /\ e.type = "INVITE" /\ toMC' = Append(toMC, e)
  BY <1>1, <1>2 DEF ToMcMsg
<1>5. Requests'
  BY <1>1, <1>2, <1>3, RequestsGrow
<1> HIDE DEF e
<1>6. /\ Len(toMC) \in Nat
      /\ \A k \in 1 .. Len(toMC') : \/ k \in 1 .. Len(toMC) /\ toMC'[k] = toMC[k]
                                    \/ k = Len(toMC) + 1 /\ toMC'[k] = e
      /\ \A k \in 1 .. Len(toMC) : k \in 1 .. Len(toMC') /\ toMC'[k] = toMC[k]
  BY <1>0, <1>4, FromAppend DEF TypeOK
<1>7. PICK own \in [T!Trans -> D!DlgId] : Granted(own) /\ GivenBack(own)
  BY DEF Grants
<1>8. /\ 0 \in Nat
      /\ \A k \in 1 .. Len(toMC') :
           /\ Ends(k)' => k + 0 \in 1 .. Len(toMC) /\ toMC'[k] = toMC[k + 0]
           /\ Asks(k)' => \/ k + 0 \in 1 .. Len(toMC) /\ toMC'[k] = toMC[k + 0]
                          \/ k + 0 > Len(toMC)
      /\ \A k \in 1 .. Len(toMC) : Ends(k) => k - 0 \in 1 .. Len(toMC') /\ toMC'[k - 0] = toMC[k]
  BY <1>4, <1>6 DEF Ends
<1>9. Granted(own)' /\ GivenBack(own)'
  BY <1>0, <1>1, <1>3, <1>7, <1>8, GrantsMoveUp
<1>10. \A t : HeldIn(t)' <=> HeldIn(t)
  BY <1>1, <1>3, <1>8, HeldMovesUp
<1>11. QED BY <1>0, <1>1, <1>5, <1>9, <1>10, TableRests DEF Grants, Fair

\* deal_rmt_ack.
LEMMA AckIsFair ==
    ASSUME TInv, TypeOK', Requests, Grants, NEW l \in Leg, GbAck(l)
    PROVE  Fair
<1>0. TypeOK
  BY DEF TInv
<1>1. /\ UNCHANGED gbVars /\ UNCHANGED devVars /\ toGB' = toGB
      /\ \/ toMC' = toMC
         \/ /\ Target[l] \in Item
            /\ \E k \in DOMAIN caller[Target[l]] :
                  toMC' = Append(toMC, [type |-> "ACK", tid |-> dlg[caller[Target[l]][k]].tid])
  BY DEF GbAck
<1>2. CASE toMC' = toMC
  BY <1>0, <1>1, <1>2, NothingMoves
<1>3. CASE toMC' # toMC
  <2>1. PICK k \in DOMAIN caller[Target[l]] :
                  toMC' = Append(toMC, [type |-> "ACK", tid |-> dlg[caller[Target[l]][k]].tid])
    BY <1>1, <1>3
  <2> DEFINE e == [type |-> "ACK", tid |-> dlg[caller[Target[l]][k]].tid]
  <2>2. e \in ToMcMsg /\ e.type = "ACK" /\ toMC' = Append(toMC, e)
    BY <1>0, <1>1, <1>3, <2>1, ListedDialog DEF ToMcMsg
  <2> HIDE DEF e
  <2>3. /\ Len(toMC) \in Nat
        /\ \A i \in 1 .. Len(toMC') : \/ i \in 1 .. Len(toMC) /\ toMC'[i] = toMC[i]
                                      \/ i = Len(toMC) + 1 /\ toMC'[i] = e
        /\ \A i \in 1 .. Len(toMC) : i \in 1 .. Len(toMC') /\ toMC'[i] = toMC[i]
    BY <1>0, <2>2, FromAppend DEF TypeOK
  <2>4. /\ 0 \in {0, 1}
        /\ \A i \in 1 .. Len(toMC') : Asks(i)' \/ Ends(i)' =>
              i + 0 \in 1 .. Len(toMC) /\ toMC'[i] = toMC[i + 0]
        /\ \A i \in 1 .. Len(toMC) : Asks(i) \/ Ends(i) =>
              i - 0 \in 1 .. Len(toMC') /\ toMC'[i - 0] = toMC[i]
    BY <2>2, <2>3 DEF Asks, Ends
  <2>5. QED BY <1>0, <1>1, <2>4, AckMoves
<1>4. QED BY <1>2, <1>3

\* While no BYE is early, the dialog it finds has been answered.
LEMMA FoundTalks ==
    ASSUME TInv, NEW l \in Leg, Target[l] \in Item, ~StillInviting(l),
           NEW k \in DOMAIN caller[Target[l]], D!FoundAt(Target[l], k, ReqOf(l)),
           D!ByeAt(Target[l], k)
    PROVE  Talking(caller[Target[l]][k])
<1>1. PICK h \in D!DlgId : h = caller[Target[l]][k]
  BY ListedDialog DEF TInv
<1>2. D!Listed(h) /\ dlg[h].state # "INVITING"
  BY <1>1, DialogEnded DEF StillInviting
<1>3. dlg[h].state # "READY"
  <2>1. DP!Listed(h) /\ h \in DP!DlgId
    BY <1>2, SamePlaces, SameTypes
  <2>2. QED BY <2>1 DEF TInv, DP!IInv, DP!ListedIsInUse
<1>4. dlg[h].state \in {"READY", "INVITING", "RESPONDED"}
  BY DEF TInv, TypeOK, D!TypeOK, D!Dialog, D!DialogState
<1>5. QED BY <1>1, <1>2, <1>3, <1>4 DEF Talking

\* deal_rmt_bye: the BYE to the message centre carries the dialog's transmitter.
LEMMA ByeIsFair ==
    ASSUME TInv, TypeOK', Kept, Requests, Grants, NEW l \in Leg, GbBye(l)
    PROVE  Fair
<1>0. TypeOK
  BY DEF TInv
<1>1. /\ Target[l] \in Item /\ ~StillInviting(l)
      /\ toGB' = toGB /\ UNCHANGED devVars
  BY DEF GbBye, Arrives, Kept
<1>2. PICK k \in DOMAIN caller[Target[l]] :
         /\ D!FoundAt(Target[l], k, ReqOf(l)) /\ D!ByeAt(Target[l], k)
         /\ toMC' = Append(toMC, [type |-> "BYE", tid |-> dlg[caller[Target[l]][k]].tid])
  BY DEF GbBye, Kept
<1>3. PICK h \in D!DlgId : h = caller[Target[l]][k]
  BY <1>0, <1>1, ListedDialog
<1>4. Talking(h)
  BY <1>1, <1>2, <1>3, FoundTalks
<1>5. /\ \A d \in D!DlgId, x \in Leg : Opened(d, x) => d # h /\ Opened(d, x)'
      /\ \A d \in D!DlgId : Talking(d)' <=> Talking(d) /\ d # h
      /\ \A d \in D!DlgId : Talking(d)' => dlg'[d] = dlg[d]
  BY <1>1, <1>2, <1>3, <1>4, EndedIsSilent
<1>6. PICK own \in [T!Trans -> D!DlgId] : Granted(own) /\ GivenBack(own)
  BY DEF Grants
<1>7. toMC' = Append(toMC, [type |-> "BYE", tid |-> dlg[h].tid])
  BY <1>2, <1>3
<1>8. Granted(own)' /\ GivenBack(own)' /\ (\A t : HeldIn(t)' <=> HeldIn(t))
  BY <1>0, <1>1, <1>4, <1>5, <1>6, <1>7, GrantGivenBack
<1> DEFINE e == [type |-> "BYE", tid |-> dlg[h].tid]
<1>9. e \in ToMcMsg /\ e.type = "BYE" /\ toMC' = Append(toMC, e)
  BY <1>0, <1>1, <1>3, <1>7, ListedDialog DEF ToMcMsg
<1> HIDE DEF e
<1>10. /\ Len(toMC) \in Nat
       /\ \A i \in 1 .. Len(toMC') : \/ i \in 1 .. Len(toMC) /\ toMC'[i] = toMC[i]
                                     \/ i = Len(toMC) + 1 /\ toMC'[i] = e
  BY <1>0, <1>9, FromAppend DEF TypeOK
<1>11. ASSUME NEW i \in 1 .. Len(toMC'), Asks(i)'
       PROVE  /\ i + 0 \in 1 .. Len(toMC) /\ toMC'[i] = toMC[i + 0]
              /\ Opened(toMC[i].dlg, toMC[i].leg)'
  <2>1. i \in 1 .. Len(toMC) /\ toMC'[i] = toMC[i] /\ Asks(i)
    BY <1>9, <1>10, <1>11 DEF Asks
  <2>2. Opened(toMC[i].dlg, toMC[i].leg) /\ toMC[i].dlg \in D!DlgId /\ toMC[i].leg \in Leg
    BY <1>0, <2>1, MsgTypes DEF Requests
  <2>3. QED BY <1>5, <2>1, <2>2
<1>12. ASSUME NEW i \in 1 .. Len(toGB')
       PROVE  /\ i + 0 \in 1 .. Len(toGB) /\ toGB'[i] = toGB[i + 0]
              /\ Opened(toGB[i].dlg, toGB[i].leg)'
  <2>1. Opened(toGB[i].dlg, toGB[i].leg) /\ toGB[i].dlg \in D!DlgId /\ toGB[i].leg \in Leg
    BY <1>0, <1>1, MsgTypes DEF Requests
  <2>2. QED BY <1>1, <1>5, <2>1
<1>13. Requests'
  BY <1>11, <1>12, RequestsMoveUp
<1>14. QED BY <1>0, <1>1, <1>8, <1>13, TableRests DEF Grants, Fair

\* deal_inter_msg: the dialog of the first reply gets the transmitter.
LEMMA ReplyIsFair ==
    ASSUME TInv, TypeOK', Kept, Requests, Grants, GbReply
    PROVE  Fair
<1>0. TypeOK
  BY DEF TInv
<1> DEFINE r == toGB[1]
<1>1. /\ toGB # <<>> /\ toGB' = Tail(toGB) /\ toMC' = toMC /\ UNCHANGED devVars
      /\ D!MediaReply(Head(toGB).dlg, NearTag, Head(toGB).tid)
  BY DEF GbReply, Kept
<1>2. /\ Len(toGB) \in Nat \ {0} /\ Len(toGB') = Len(toGB) - 1 /\ Head(toGB) = r
      /\ \A k \in 1 .. Len(toGB') : k + 1 \in 1 .. Len(toGB) /\ toGB'[k] = toGB[k + 1]
  BY <1>0, <1>1, FromTail DEF TypeOK
<1>3. 1 \in 1 .. Len(toGB) /\ r.dlg \in D!DlgId /\ r.leg \in Leg /\ Opened(r.dlg, r.leg)
  BY <1>0, <1>2, MsgTypes DEF Requests
<1>4. PICK h \in D!DlgId : h = r.dlg
  BY <1>3
<1>5. PICK x \in Leg : x = r.leg
  BY <1>3
<1>6. PICK t \in TransId : t = r.tid
  BY <1>0, <1>3, MsgTypes
<1>7. Opened(h, x) /\ D!MediaReply(h, NearTag, t)
  BY <1>1, <1>2, <1>3, <1>4, <1>5, <1>6
<1>8. /\ \A d \in D!DlgId, y \in Leg : Opened(d, y) /\ d # h => Opened(d, y)'
      /\ ~Talking(h)
      /\ \A d \in D!DlgId : Talking(d)' <=> Talking(d) \/ d = h
      /\ \A d \in D!DlgId : d # h => dlg'[d] = dlg[d]
      /\ dlg'[h].tid = toGB[1].tid
  BY <1>6, <1>7, AnsweredTalks
<1>9. PICK own \in [T!Trans -> D!DlgId] : Granted(own) /\ GivenBack(own)
  BY DEF Grants
<1>10. Granted(own)' /\ GivenBack(own)' /\ (\A y : HeldIn(y)' <=> HeldIn(y))
  BY <1>0, <1>1, <1>4, <1>8, <1>9, GrantTaken
<1>11. ASSUME NEW k \in 1 .. Len(toMC'), Asks(k)'
       PROVE  /\ k + 0 \in 1 .. Len(toMC) /\ toMC'[k] = toMC[k + 0]
              /\ Opened(toMC[k].dlg, toMC[k].leg)'
  <2>1. k \in 1 .. Len(toMC) /\ Asks(k)
    BY <1>1, <1>11 DEF Asks
  <2>2. /\ Opened(toMC[k].dlg, toMC[k].leg) /\ toMC[k].dlg \in D!DlgId /\ toMC[k].leg \in Leg
        /\ toMC[k].dlg # h
    BY <1>0, <1>3, <1>4, <2>1, MsgTypes DEF Requests
  <2>3. QED BY <1>1, <1>8, <2>1, <2>2
<1>12. ASSUME NEW k \in 1 .. Len(toGB')
       PROVE  /\ k + 1 \in 1 .. Len(toGB) /\ toGB'[k] = toGB[k + 1]
              /\ Opened(toGB[k].dlg, toGB[k].leg)'
  <2>1. k + 1 \in 1 .. Len(toGB) /\ toGB'[k] = toGB[k + 1] /\ k + 1 # 1
    BY <1>2
  <2>2. /\ Opened(toGB[k + 1].dlg, toGB[k + 1].leg)
        /\ toGB[k + 1].dlg \in D!DlgId /\ toGB[k + 1].leg \in Leg /\ toGB[k + 1].dlg # h
    BY <1>0, <1>3, <1>4, <2>1, MsgTypes DEF Requests
  <2>3. QED BY <1>8, <2>1, <2>2
<1>13. Requests'
  BY <1>11, <1>12, RequestsMoveUp
<1>14. QED BY <1>0, <1>1, <1>10, <1>13, TableRests DEF Grants, Fair

\* rmt_invite_media: there is a transmitter, and it is nobody else's.
LEMMA DevInviteIsFair ==
    ASSUME TInv, TypeOK', Kept, HT!UnusedIsRest, Requests, Grants, DevInvite
    PROVE  Fair
<1>0. TypeOK
  BY DEF TInv
<1> DEFINE m == toMC[1]
<1>1. /\ toMC # <<>> /\ toMC' = Tail(toMC) /\ Head(toMC) = m /\ 1 \in 1 .. Len(toMC) /\ Asks(1)
      /\ UNCHANGED gbVars
  <2>1. toMC # <<>> /\ toMC' = Tail(toMC) /\ Head(toMC).type = "INVITE" /\ UNCHANGED gbVars
    BY DEF DevInvite, FromGb
  <2>2. Len(toMC) \in Nat \ {0} /\ Head(toMC) = m
    BY <1>0, <2>1, TailIs DEF TypeOK
  <2>3. QED BY <2>1, <2>2 DEF Asks
<1>2. PICK own \in [T!Trans -> D!DlgId] : Granted(own) /\ GivenBack(own)
  BY DEF Grants
<1>3. ~T!CannotTake(Target[m.leg]) /\ unused \in T!Trans /\ ~HeldIn(unused)
  BY <1>0, <1>1, <1>2, SomeIsFree DEF Kept
<1>4. /\ Target[m.leg] \in T!Chan /\ T!Take(unused, Target[m.leg], m.leg)
      /\ toGB' = Append(toGB, [dlg |-> m.dlg, leg |-> m.leg, addr |-> TRUE, tid |-> unused])
  BY <1>1, <1>3 DEF DevInvite, Reply, Unsent, Kept
<1>5. m.dlg \in D!DlgId /\ m.leg \in Leg
  BY <1>0, <1>1, MsgTypes
<1>6. PICK u \in T!Trans : u = unused
  BY <1>3
<1>7. PICK r \in ToGbMsg : r = [dlg |-> m.dlg, leg |-> m.leg, addr |-> TRUE, tid |-> u]
  <2>1. u \in TransId
    BY <1>6, SizesAssumption DEF T!Trans, TransId
  <2>2. QED BY <1>5, <2>1 DEF ToGbMsg
<1>8. r.dlg = m.dlg /\ r.leg = m.leg /\ r.addr /\ r.tid = u /\ toGB' = Append(toGB, r)
  BY <1>4, <1>6, <1>7
<1>9. /\ \A d, x : Opened(d, x)' <=> Opened(d, x)
      /\ \A d : Talking(d)' <=> Talking(d)
      /\ dlg' = dlg
  BY <1>1, SameDialogs
<1>10. Requests'
  BY <1>1, <1>8, <1>9, RequestsServed
<1>11. /\ \E new \in [T!Trans -> D!DlgId] : Granted(new)' /\ GivenBack(new)'
       /\ \A t : HeldIn(t)' <=> HeldIn(t) \/ t = u
  BY <1>0, <1>1, <1>2, <1>3, <1>6, <1>8, <1>9, GrantMade
<1>12. Held' = Held \cup {unused}
  <2>1. \A t : t \in Held' <=> t \in Held \/ t = u
    BY <1>0, <1>11, HeldIs, HeldIsNext DEF HeldEverywhere
  <2>2. QED BY <1>6, <2>1 DEF Held
<1>13. HT!RmtInviteMedia(Target[m.leg], m.leg)
  BY <1>4, <1>12 DEF HT!RmtInviteMedia, HT!Take, T!Take
<1>14. HT!Next
  BY <1>4, <1>5, <1>13 DEF HT!Next, HT!Chan, T!Chan
<1>15. QED BY <1>10, <1>11, <1>14 DEF Grants, Fair

\* rmt_ack_media and rmt_bye_media.
LEMMA DevOtherIsFair ==
    ASSUME TInv, TypeOK', Kept, Requests, Grants, DevAck \/ DevBye
    PROVE  Fair
<1>0. TypeOK
  BY DEF TInv
<1> DEFINE m == toMC[1]
<1>1. /\ toMC # <<>> /\ toMC' = Tail(toMC) /\ toGB' = toGB /\ Head(toMC) = m
      /\ UNCHANGED gbVars
      /\ Len(toMC) \in Nat \ {0} /\ Len(toMC') = Len(toMC) - 1
      /\ \A k \in 1 .. Len(toMC') : k + 1 \in 1 .. Len(toMC) /\ toMC'[k] = toMC[k + 1]
      /\ \A k \in 1 .. Len(toMC) : k = 1 \/ (k - 1 \in 1 .. Len(toMC') /\ toMC'[k - 1] = toMC[k])
  <2>1. toMC # <<>> /\ toMC' = Tail(toMC) /\ toGB' = toGB /\ UNCHANGED gbVars
    BY DEF DevAck, DevBye, FromGb
  <2>2. QED BY <1>0, <2>1, FromTail DEF TypeOK
<1>2. ~Asks(1)
  BY <1>1 DEF DevAck, DevBye, FromGb, Asks
<1>3. CASE DevAck
  <2>1. UNCHANGED devVars /\ ~Ends(1)
    BY <1>1, <1>3 DEF DevAck, FromGb, Ignored, Ends
  <2>2. /\ 1 \in {0, 1}
        /\ \A k \in 1 .. Len(toMC') : Asks(k)' \/ Ends(k)' =>
              k + 1 \in 1 .. Len(toMC) /\ toMC'[k] = toMC[k + 1]
        /\ \A k \in 1 .. Len(toMC) : Asks(k) \/ Ends(k) =>
              k - 1 \in 1 .. Len(toMC') /\ toMC'[k - 1] = toMC[k]
    BY <1>1, <1>2, <2>1
  <2>3. QED BY <1>0, <1>1, <2>1, <2>2, AckMoves
<1>4. CASE DevBye
  <2>1. /\ \A d, x : Opened(d, x)' <=> Opened(d, x)
        /\ \A d : Talking(d)' <=> Talking(d)
        /\ dlg' = dlg
    BY <1>1, SameDialogs
  <2>2. Ends(1)
    BY <1>1, <1>4 DEF DevBye, FromGb, Ends
  <2>3. PICK own \in [T!Trans -> D!DlgId] : Granted(own) /\ GivenBack(own)
    BY DEF Grants
  <2>4. /\ m.tid \in T!Trans /\ HeldIn(m.tid)
        /\ \A t : HeldIn(t)' <=> HeldIn(t) /\ t # m.tid
    BY <1>0, <1>1, <2>1, <2>2, <2>3, GrantEnds
  <2>5. ASSUME NEW k \in 1 .. Len(toMC'), Asks(k)'
        PROVE  /\ k + 1 \in 1 .. Len(toMC) /\ toMC'[k] = toMC[k + 1]
               /\ Opened(toMC[k].dlg, toMC[k].leg)'
    <3>1. k + 1 \in 1 .. Len(toMC) /\ toMC'[k] = toMC[k + 1] /\ Asks(k + 1)
      BY <1>1, <2>5 DEF Asks
    <3>2. Opened(toMC[k + 1].dlg, toMC[k + 1].leg)
      BY <3>1 DEF Requests
    <3>3. QED BY <2>1, <3>1, <3>2
  <2>6. ASSUME NEW k \in 1 .. Len(toGB')
        PROVE  /\ k + 0 \in 1 .. Len(toGB) /\ toGB'[k] = toGB[k + 0]
               /\ Opened(toGB[k].dlg, toGB[k].leg)'
    BY <1>1, <2>1 DEF Requests
  <2>7. Requests'
    BY <2>5, <2>6, RequestsMoveUp
  <2>8. /\ 1 \in Nat
        /\ \A k \in 1 .. Len(toMC') :
             /\ Ends(k)' => k + 1 \in 1 .. Len(toMC) /\ toMC'[k] = toMC[k + 1]
             /\ Asks(k)' => \/ k + 1 \in 1 .. Len(toMC) /\ toMC'[k] = toMC[k + 1]
                            \/ k + 1 > Len(toMC)
    BY <1>1
  <2>9. Granted(own)' /\ GivenBack(own)'
    BY <1>0, <1>1, <2>1, <2>3, <2>8, GrantsMoveUp
  <2>10. Held' = Held \ {m.tid} /\ m.tid \in Held
    <3>1. \A t : t \in Held' <=> t \in Held /\ t # m.tid
      BY <1>0, <2>4, HeldIs, HeldIsNext DEF HeldEverywhere
    <3>2. m.tid \in Held
      BY <1>0, <2>4, HeldIs DEF HeldEverywhere
    <3>3. QED BY <3>1, <3>2 DEF Held
  <2>11. T!GiveBack(m.tid)
    BY <1>1, <1>4, <2>4 DEF DevBye, Ignored
  <2>12. HT!RmtByeMedia(m.tid)
    BY <2>10, <2>11 DEF HT!RmtByeMedia, HT!GiveBack, T!GiveBack
  <2>13. HT!Next
    BY <2>4, <2>12 DEF HT!Next, HT!Trans, T!Trans
  <2>14. QED BY <2>7, <2>9, <2>13 DEF Grants, Fair
<1>5. QED BY <1>3, <1>4

LEMMA StepIsFair ==
    ASSUME TInv, TypeOK', Kept, HT!UnusedIsRest, Requests, Grants, [Next]_vars
    PROVE  Fair
<1>0. TypeOK
  BY DEF TInv
<1>1. ASSUME NEW l \in Leg, GbInviteRefused(l) \/ GbInviteRepeated(l) \/ GbByeUnknown(l)
      PROVE  Fair
  <2>1. UNCHANGED gbVars /\ UNCHANGED devVars /\ toMC' = toMC /\ toGB' = toGB
    BY <1>1 DEF GbInviteRefused, GbInviteRepeated, GbByeUnknown, D!InviteFull, D!InviteBusy, D!Same,
       Kept, gbVars
  <2>2. QED BY <1>0, <2>1, NothingMoves
<1>2. CASE VtduSwitch \/ UNCHANGED vars
  <2>1. UNCHANGED gbVars /\ UNCHANGED devVars /\ toMC' = toMC /\ toGB' = toGB
    BY <1>2 DEF VtduSwitch, vars, gbVars, devVars
  <2>2. QED BY <1>0, <2>1, NothingMoves
<1>3. ASSUME NEW l \in Leg, Platform(l) \/ Network(l)
      PROVE  Fair
  <2>1. UNCHANGED gbVars /\ UNCHANGED devVars /\ toMC' = toMC /\ toGB' = toGB
    BY <1>3, PlatformStep DEF sysVars
  <2>2. QED BY <1>0, <2>1, NothingMoves
<1>4. QED BY <1>1, <1>2, <1>3, InviteIsFair, AckIsFair, ByeIsFair, ReplyIsFair, DevInviteIsFair,
             DevOtherIsFair DEF Next, GbStep, DevStep

-----------------------------------------------------------------------------
(* The theorems. *)

LEMMA GrantInit == Init => Requests /\ Grants /\ HT!Init /\ HT!UnusedIsRest
<1> SUFFICES ASSUME Init
             PROVE  Requests /\ Grants /\ HT!Init /\ HT!UnusedIsRest
  OBVIOUS
<1>1. toMC = <<>> /\ toGB = <<>> /\ \A d : ~Talking(d)
  BY DEF Init, D!Init, Talking, D!Listed, D!InCallers, D!Occurs
<1>2. Requests
  BY <1>1 DEF Requests
<1>3. PICK own \in [T!Trans -> D!DlgId] : TRUE
  <2>1. 0 \in D!DlgId
    BY SizesAssumption DEF D!DlgId
  <2>2. [t \in T!Trans |-> 0] \in [T!Trans -> D!DlgId]
    BY <2>1
  <2>3. QED BY <2>2
<1>4. Granted(own) /\ GivenBack(own)
  BY <1>1 DEF Granted, GivenBack
<1>5. Held = {}
  <2>1. \A t : ~HeldIn(t)
    BY <1>1 DEF HeldIn
  <2>2. \A t : t \notin Held
    BY <2>1, TInvInit, HeldIs DEF TInv, HeldEverywhere
  <2>3. QED BY <2>2
<1>6. HT!Init
  BY <1>5 DEF Init, T!Init, HT!Init, T!Trans, HT!Trans, T!Chan, HT!Chan
<1>7. HT!UnusedIsRest
  <2>1. TP!IInv
    BY <1>6, SameTable, TP!InitHolds, TableAssumptions
  <2>2. QED BY <2>1, SameTable DEF TP!IInv
<1>8. QED BY <1>2, <1>4, <1>6, <1>7 DEF Grants

LEMMA GrantNext ==
    ASSUME TInv, TInv', GrantInv, [Next]_vars
    PROVE  GrantInv' /\ (Kept => HT!Next \/ UNCHANGED HT!vars)
<1>0. Kept' <=> Kept
  BY FaultsStay DEF Kept, Ample
<1>1. SUFFICES ASSUME Kept
               PROVE  /\ HT!UnusedIsRest' /\ Requests' /\ Grants'
                      /\ HT!Next \/ UNCHANGED HT!vars
  BY <1>0 DEF GrantInv
<1>2. HT!UnusedIsRest /\ Requests /\ Grants
  BY <1>1 DEF GrantInv
<1>3. Fair
  BY <1>1, <1>2, StepIsFair DEF TInv
<1>4. TP!IInv
  <2>1. PICK own \in [T!Trans -> D!DlgId] : Granted(own) /\ GivenBack(own)
    BY <1>2 DEF Grants
  <2>2. T!TypeOK /\ Held \subseteq T!Trans
    BY <1>2, <2>1, HeldIs, OwnersDiffer DEF TInv, TypeOK, HeldEverywhere
  <2>3. QED BY <1>2, <2>2, SameTable DEF TP!IInv, TP!TypeOK, T!TypeOK, TP!Trans, T!Trans, TP!Ptr,
               T!Ptr, TP!Chan, T!Chan
<1>5. TP!IInv'
  BY <1>3, <1>4, SameTable, TP!StepKeepsInv, TableAssumptions DEF Fair
<1>6. QED BY <1>3, <1>5, SameTable DEF TP!IInv, Fair

\* What the proofs below use of the composition's reachable states.
THEOREM GrantInvariant == Spec => []GrantInv
<1>1. Init => GrantInv
  BY GrantInit DEF GrantInv
<1>2. TInv /\ TInv' /\ GrantInv /\ [Next]_vars => GrantInv'
  BY GrantNext
<1>3. QED BY <1>1, <1>2, CallInvariant, PTL DEF Spec

\* The GB server gives back each transmitter once (deal_inter_msg, deal_rmt_bye)
\* and so uses the device table as Transmitter expects, whatever UDP loses or
\* delays.
THEOREM GrantsAreGivenBackOnce == Spec => ImplementsTransmitter
<1>1. Init => (Kept => HT!Init)
  BY GrantInit
<1>2. TInv /\ TInv' /\ GrantInv /\ [Next]_vars => [Kept => HT!Next]_(HT!vars)
  BY GrantNext
<1>3. QED BY <1>1, <1>2, CallInvariant, GrantInvariant, PTL DEF Spec, ImplementsTransmitter

\* With as many transmitters as dialogs rmt_invite_media always finds one,
\* although a dialog is free again before its transmitter is.
THEOREM DialogFindsTransmitter == Spec => []TransmitterForDialog
<1>1. TInv /\ GrantInv => TransmitterForDialog
  <2> SUFFICES ASSUME TInv, GrantInv, Kept, toMC # <<>>, Head(toMC).type = "INVITE"
               PROVE  ~T!CannotTake(Target[Head(toMC).leg])
    BY DEF TransmitterForDialog
  <2>1. TypeOK /\ Ample /\ HT!UnusedIsRest /\ Requests
    BY DEF TInv, Kept, GrantInv
  <2>2. PICK own \in [T!Trans -> D!DlgId] : Granted(own) /\ GivenBack(own)
    BY DEF GrantInv, Grants
  <2>3. Head(toMC) = toMC[1]
    BY <2>1, TailIs DEF TypeOK
  <2>4. Asks(1)
    BY <2>3 DEF Asks
  <2>5. QED BY <2>1, <2>2, <2>3, <2>4, SomeIsFree
<1>2. QED BY <1>1, CallInvariant, GrantInvariant, PTL
-----------------------------------------------------------------------------
(* What the transmitters forward.  An ACK and an ADD_SWITCH come before the  *)
(* BYE and the DEL_SWITCH of the same call in the same queue; that they name *)
(* a transmitter of that call needs a dialog for every call (Roomy).         *)

\* Transmitter t forwards channel c to platform l.
Switched(t, c, l) == ch[t] = c /\ to[t] = l

HasCall(l) == \E d \in D!DlgId : Talking(d) /\ dlg[d].cid = l
HasTid(t) == \E d \in D!DlgId : Talking(d) /\ dlg[d].tid = t

\* A dialog is on the list of the item that its caller asked for.
Listing ==
    \A d \in D!DlgId, i \in Item : D!InCallers(d, i) =>
        dlg[d].cid \in Leg /\ Target[dlg[d].cid] = i /\ dlg[d].rtag = FarTag

\* The transmitter of a call forwards to that call.
Aims ==
    /\ \A k \in 1 .. Len(toGB) : Switched(toGB[k].tid, Target[toGB[k].leg], toGB[k].leg)
    /\ \A d \in D!DlgId : Talking(d) => Switched(dlg[d].tid, Target[dlg[d].cid], dlg[d].cid)

\* The transmitter an ACK names is still its dialog's, or is given back behind it.
Acks ==
    \A k \in 1 .. Len(toMC) : toMC[k].type = "ACK" =>
        \/ HasTid(toMC[k].tid)
        \/ \E j \in 1 .. Len(toMC) : k < j /\ Ends(j) /\ toMC[j].tid = toMC[k].tid

Holder(c, l) ==
    \/ c = Target[l] /\ HasCall(l)
    \/ \E k \in 1 .. Len(toMC) : Ends(k) /\ Switched(toMC[k].tid, c, l)

\* After the k-th message to the VTDU the forwarding still has an owner.
Owned(c, l, k) ==
    \/ Holder(c, l)
    \/ \E j \in 1 .. Len(toVtdu) : k < j /\ toVtdu[j] = [op |-> "DEL", ch |-> c, to |-> l]

Switches ==
    /\ \A s \in switches : Owned(s[1], s[2], 0)
    /\ \A k \in 1 .. Len(toVtdu) : toVtdu[k].op = "ADD" => Owned(toVtdu[k].ch, toVtdu[k].to, k)

In(s, x) == \E k \in 1 .. Len(s) : s[k] = x
AckFirst(s) == \A j, k \in 1 .. Len(s) : s[j] = "ACK" /\ s[k] = "BYE" => j < k

\* A call is acknowledged once its dialog talks and hung up only after that.
Early(l) == phase[l] \in {"idle", "calling"}
CallOk(l) ==
    /\ Early(l) => ~In(up[l], "ACK") /\ ~In(up[l], "BYE")
    /\ Early(l) /\ In(down[l], "OK") => HasCall(l)
    /\ Early(l) /\ In(down[l], "FAIL") => Target[l] \notin Item
    /\ Target[l] \in Item /\ In(up[l], "ACK") => HasCall(l)
    /\ AckFirst(up[l])
Calls == \A l \in Leg : CallOk(l)

Owners == Listing /\ Aims /\ Acks /\ Switches /\ Calls
OwnInv == Kept /\ Roomy => Owners

-----------------------------------------------------------------------------
(* Queues of methods and of answers. *)

LEMMA InTail ==
    ASSUME NEW S, NEW s \in Seq(S), s # <<>>
    PROVE  /\ In(s, Head(s))
           /\ \A x : In(Tail(s), x) => In(s, x)
           /\ AckFirst(s) => AckFirst(Tail(s))
           /\ AckFirst(s) /\ Head(s) = "BYE" => ~In(s, "ACK")
<1>1. /\ Len(s) \in Nat \ {0} /\ Len(Tail(s)) = Len(s) - 1 /\ Head(s) = s[1]
      /\ \A k \in 1 .. Len(Tail(s)) : k + 1 \in 1 .. Len(s) /\ Tail(s)[k] = s[k + 1]
  BY FromTail
<1>2. In(s, Head(s))
  BY <1>1 DEF In
<1>3. \A x : In(Tail(s), x) => In(s, x)
  BY <1>1 DEF In
<1>4. ASSUME AckFirst(s)
      PROVE  AckFirst(Tail(s))
  <2> SUFFICES ASSUME NEW j \in 1 .. Len(Tail(s)), NEW k \in 1 .. Len(Tail(s)),
                      Tail(s)[j] = "ACK", Tail(s)[k] = "BYE"
               PROVE  j < k
    BY DEF AckFirst
  <2>1. j + 1 \in 1 .. Len(s) /\ k + 1 \in 1 .. Len(s) /\ s[j + 1] = "ACK" /\ s[k + 1] = "BYE"
    BY <1>1
  <2>2. j + 1 < k + 1
    BY <1>4, <2>1 DEF AckFirst
  <2>3. QED BY <2>2
<1>5. ASSUME AckFirst(s), Head(s) = "BYE", NEW j \in 1 .. Len(s), s[j] = "ACK"
      PROVE  FALSE
  <2>1. 1 \in 1 .. Len(s) /\ s[1] = "BYE"
    BY <1>1, <1>5
  <2>2. j < 1
    BY <1>5, <2>1 DEF AckFirst
  <2>3. QED BY <1>5, <2>2
<1>6. QED BY <1>2, <1>3, <1>4, <1>5 DEF In

LEMMA InAppend ==
    ASSUME NEW S, NEW s \in Seq(S), NEW e \in S
    PROVE  /\ \A x : In(Append(s, e), x) <=> In(s, x) \/ x = e
           /\ AckFirst(s) /\ (e = "ACK" => ~In(s, "BYE")) => AckFirst(Append(s, e))
<1> DEFINE p == Append(s, e)
<1>1. /\ Len(s) \in Nat /\ Len(p) = Len(s) + 1 /\ p[Len(s) + 1] = e
      /\ \A k \in 1 .. Len(p) : \/ k \in 1 .. Len(s) /\ p[k] = s[k]
                                \/ k = Len(s) + 1 /\ p[k] = e
      /\ \A k \in 1 .. Len(s) : k \in 1 .. Len(p) /\ p[k] = s[k]
  BY FromAppend
<1> HIDE DEF p
<1>2. \A x : In(p, x) <=> In(s, x) \/ x = e
  <2>1. Len(s) + 1 \in 1 .. Len(p)
    BY <1>1
  <2>2. QED BY <1>1, <2>1 DEF In
<1>3. ASSUME AckFirst(s), e = "ACK" => ~In(s, "BYE"),
             NEW j \in 1 .. Len(p), NEW k \in 1 .. Len(p), p[j] = "ACK", p[k] = "BYE"
      PROVE  j < k
  <2>1. CASE j = Len(s) + 1 /\ p[j] = e
    <3>1. k \in 1 .. Len(s) /\ s[k] = "BYE"
      BY <1>1, <1>3, <2>1
    <3>2. QED BY <1>3, <2>1, <3>1 DEF In
  <2>2. CASE j \in 1 .. Len(s) /\ p[j] = s[j]
    <3>1. CASE k \in 1 .. Len(s) /\ p[k] = s[k]
      BY <1>3, <2>2, <3>1 DEF AckFirst
    <3>2. CASE k = Len(s) + 1
      BY <1>1, <2>2, <3>2
    <3>3. QED BY <1>1, <3>1, <3>2
  <2>3. QED BY <1>1, <2>1, <2>2
<1>4. QED BY <1>2, <1>3 DEF AckFirst, p

-----------------------------------------------------------------------------
(* What keeps each part. *)

\* The dialogs that talk stay as they are.
LEMMA CallsStay ==
    ASSUME \A d \in D!DlgId : Talking(d) => Talking(d)' /\ dlg'[d] = dlg[d]
    PROVE  /\ \A l : HasCall(l) => HasCall(l)'
           /\ \A t : HasTid(t) => HasTid(t)'
BY DEF HasCall, HasTid

LEMMA AcksMoveUp ==
    ASSUME Acks, NEW s \in Nat, \A t : HasTid(t) => HasTid(t)',
           \A k \in 1 .. Len(toMC') : toMC'[k].type = "ACK" =>
              k + s \in 1 .. Len(toMC) /\ toMC'[k] = toMC[k + s],
           \A k \in 1 .. Len(toMC) : Ends(k) /\ s < k =>
              k - s \in 1 .. Len(toMC') /\ toMC'[k - s] = toMC[k]
    PROVE  Acks'
<1> SUFFICES ASSUME NEW k \in 1 .. Len(toMC'), toMC'[k].type = "ACK"
             PROVE  \/ HasTid(toMC[k].tid)'
                    \/ \E j \in 1 .. Len(toMC') : k < j /\ Ends(j)' /\ toMC'[j].tid = toMC'[k].tid
  BY DEF Acks
<1>1. k + s \in 1 .. Len(toMC) /\ toMC'[k] = toMC[k + s]
  OBVIOUS
<1>2. CASE HasTid(toMC[k + s].tid)
  BY <1>1, <1>2
<1>3. CASE \E j \in 1 .. Len(toMC) : k + s < j /\ Ends(j) /\ toMC[j].tid = toMC[k + s].tid
  <2>1. PICK j \in 1 .. Len(toMC) : k + s < j /\ Ends(j) /\ toMC[j].tid = toMC[k + s].tid
    BY <1>3
  <2>2. j - s \in 1 .. Len(toMC') /\ toMC'[j - s] = toMC[j] /\ k < j - s
    BY <2>1
  <2>3. PICK i \in 1 .. Len(toMC') : i = j - s
    BY <2>2
  <2>4. k < i /\ Ends(i)' /\ toMC'[i].tid = toMC'[k].tid
    BY <1>1, <2>1, <2>2, <2>3 DEF Ends
  <2>5. QED BY <2>4
<1>4. QED BY <1>1, <1>2, <1>3 DEF Acks

LEMMA HoldersStay ==
    ASSUME \A l : HasCall(l) => HasCall(l)', NEW s \in Nat,
           \A k \in 1 .. Len(toMC) : Ends(k) =>
              /\ k - s \in 1 .. Len(toMC') /\ toMC'[k - s] = toMC[k]
              /\ ch'[toMC[k].tid] = ch[toMC[k].tid] /\ to'[toMC[k].tid] = to[toMC[k].tid]
    PROVE  \A c, l : Holder(c, l) => Holder(c, l)'
<1> SUFFICES ASSUME NEW c, NEW l, Holder(c, l)
             PROVE  Holder(c, l)'
  OBVIOUS
<1>1. CASE c = Target[l] /\ HasCall(l)
  BY <1>1 DEF Holder
<1>2. CASE \E k \in 1 .. Len(toMC) : Ends(k) /\ Switched(toMC[k].tid, c, l)
  <2>1. PICK k \in 1 .. Len(toMC) : Ends(k) /\ Switched(toMC[k].tid, c, l)
    BY <1>2
  <2>2. PICK i \in 1 .. Len(toMC') : i = k - s
    BY <2>1
  <2>3. Ends(i)' /\ ch'[toMC'[i].tid] = c /\ to'[toMC'[i].tid] = l
    BY <2>1, <2>2 DEF Ends, Switched
  <2>4. QED BY <2>3 DEF Holder, Switched
<1>3. QED BY <1>1, <1>2 DEF Holder

LEMMA SwitchesStay ==
    ASSUME Switches, toVtdu' = toVtdu, switches' = switches,
           \A c, l : Holder(c, l) => Holder(c, l)'
    PROVE  Switches'
BY DEF Switches, Owned

\* Nothing happens to the call of leg l but that its queues move.
LEMMA CallRests ==
    ASSUME TypeOK, NEW l \in Leg, CallOk(l),
           Early(l)' => Early(l), HasCall(l) => HasCall(l)',
           \/ up'[l] = up[l]
           \/ up[l] # <<>> /\ up'[l] = Tail(up[l])
           \/ up'[l] = Append(up[l], "INVITE"),
           \/ down'[l] = down[l]
           \/ down[l] # <<>> /\ down'[l] = Tail(down[l])
           \/ down'[l] = Append(down[l], "BYE200")
           \/ down'[l] = Append(down[l], "BYE400")
    PROVE  CallOk(l)'
<1>1. up[l] \in Seq(Method) /\ down[l] \in Seq(Code)
  BY DEF TypeOK
<1>2. /\ \A x \in {"ACK", "BYE"} : In(up'[l], x) => In(up[l], x)
      /\ AckFirst(up[l]) => AckFirst(up'[l])
  <2>1. CASE up'[l] = up[l]
    BY <2>1
  <2>2. CASE up[l] # <<>> /\ up'[l] = Tail(up[l])
    BY <1>1, <2>2, InTail
  <2>3. CASE up'[l] = Append(up[l], "INVITE")
    <3>1. "INVITE" \in Method
      BY DEF Method
    <3>2. QED BY <1>1, <2>3, <3>1, InAppend
  <2>4. QED BY <2>1, <2>2, <2>3
<1>3. \A x \in {"OK", "FAIL"} : In(down'[l], x) => In(down[l], x)
  <2>1. CASE down'[l] = down[l]
    BY <2>1
  <2>2. CASE down[l] # <<>> /\ down'[l] = Tail(down[l])
    BY <1>1, <2>2, InTail
  <2>3. CASE \E e \in {"BYE200", "BYE400"} : down'[l] = Append(down[l], e)
    <3>1. "BYE200" \in Code /\ "BYE400" \in Code
      BY DEF Code
    <3>2. QED BY <1>1, <2>3, <3>1, InAppend
  <2>4. QED BY <2>1, <2>2, <2>3
<1>4. QED BY <1>2, <1>3 DEF CallOk

\* Each dialog that is listed was listed for the same call before.
LEMMA ListingStays ==
    ASSUME Listing,
           \A d \in D!DlgId, i \in Item : D!InCallers(d, i)' =>
              /\ D!InCallers(d, i)
              /\ dlg'[d].cid = dlg[d].cid /\ dlg'[d].rtag = dlg[d].rtag
    PROVE  Listing'
BY DEF Listing

\* Replies move up, and no dialog begins to talk.
LEMMA AimsStay ==
    ASSUME Aims, NEW s \in Nat, ch' = ch, to' = to,
           \A k \in 1 .. Len(toGB') : k + s \in 1 .. Len(toGB) /\ toGB'[k] = toGB[k + s],
           \A d \in D!DlgId : Talking(d)' => Talking(d) /\ dlg'[d] = dlg[d]
    PROVE  Aims'
<1>1. ASSUME NEW k \in 1 .. Len(toGB')
      PROVE  Switched(toGB[k].tid, Target[toGB[k].leg], toGB[k].leg)'
  <2>1. k + s \in 1 .. Len(toGB) /\ toGB'[k] = toGB[k + s]
    OBVIOUS
  <2>2. Switched(toGB[k + s].tid, Target[toGB[k + s].leg], toGB[k + s].leg)
    BY <2>1 DEF Aims
  <2>3. QED BY <2>1, <2>2 DEF Switched
<1>2. ASSUME NEW d \in D!DlgId, Talking(d)'
      PROVE  Switched(dlg[d].tid, Target[dlg[d].cid], dlg[d].cid)'
  BY <1>2 DEF Aims, Switched
<1>3. QED BY <1>1, <1>2 DEF Aims

\* A list has one dialog of each call.
LEMMA OneDialog ==
    ASSUME TInv, NEW i \in Item, NEW d \in D!DlgId, NEW e \in D!DlgId,
           D!InCallers(d, i), D!InCallers(e, i),
           dlg[d].cid = dlg[e].cid, dlg[d].rtag = dlg[e].rtag, dlg[d].rtag = FarTag
    PROVE  d = e
<1>1. DP!OneDialogPerCall
  BY DEF TInv, DP!IInv
<1>2. DP!InCallers(d, i) /\ DP!InCallers(e, i) /\ d \in DP!DlgId /\ e \in DP!DlgId
  BY SamePlaces, SameTypes
<1>3. QED BY <1>1, <1>2, NullAssumption DEF DP!OneDialogPerCall

\* There is a dialog for every call: an INVITE that is new finds one.
LEMMA FullNever ==
    ASSUME TInv, Roomy, Listing, NEW l \in Leg, Target[l] \in Item, free = <<>>
    PROVE  ~D!InviteUnknown(Target[l], ReqOf(l))
<1> SUFFICES ASSUME D!InviteUnknown(Target[l], ReqOf(l))
             PROVE  FALSE
  OBVIOUS
<1> DEFINE others == Leg \ {l}
           call == [d \in D!DlgId |-> dlg[d].cid]
<1>1. ASSUME NEW d \in D!DlgId
      PROVE  D!Listed(d)
  <2>1. d \in DP!DlgId /\ ~DP!InFree(d)
    BY SameTypes DEF DP!InFree, DP!Occurs
  <2>2. DP!Listed(d)
    BY <2>1 DEF TInv, DP!IInv, DP!PoolPartition
  <2>3. QED BY <2>2, SamePlaces
<1>2. ASSUME NEW d \in D!DlgId
      PROVE  /\ dlg[d].cid \in others /\ Target[dlg[d].cid] \in Item
             /\ D!InCallers(d, Target[dlg[d].cid]) /\ dlg[d].rtag = FarTag
  <2>1. PICK i \in Item : D!InCallers(d, i)
    BY <1>1 DEF D!Listed
  <2>2. dlg[d].cid \in Leg /\ Target[dlg[d].cid] = i /\ dlg[d].rtag = FarTag
    BY <2>1 DEF Listing
  <2>3. dlg[d].cid # l
    <3>1. SUFFICES ASSUME dlg[d].cid = l
                   PROVE  FALSE
      OBVIOUS
    <3>2. PICK k \in 1 .. Len(caller[Target[l]]) : caller[Target[l]][k] = d
      BY <2>1, <2>2, <3>1 DEF D!InCallers, D!Occurs
    <3>3. QED BY <2>2, <3>1, <3>2, NullAssumption
          DEF D!InviteUnknown, D!InviteMatch, D!SameCall, ReqOf
  <2>4. QED BY <2>1, <2>2, <2>3
<1>3. ASSUME NEW d \in D!DlgId, NEW e \in D!DlgId, dlg[d].cid = dlg[e].cid
      PROVE  d = e
  <2>1. PICK i \in Item : i = Target[dlg[d].cid]
    BY <1>2
  <2>2. D!InCallers(d, i) /\ D!InCallers(e, i) /\ dlg[d].rtag = dlg[e].rtag
    BY <1>2, <1>3, <2>1
  <2>3. dlg[d].rtag = FarTag
    BY <1>2
  <2>4. QED BY <1>3, <2>2, <2>3, OneDialog
<1>4. call \in Injection(D!DlgId, others)
  <2>1. call \in [D!DlgId -> others]
    BY <1>2
  <2>2. \A d, e \in D!DlgId : call[d] = call[e] => d = e
    BY <1>3
  <2>3. QED BY <2>1, <2>2 DEF Injection, IsInjective
<1>5. IsFiniteSet(D!DlgId) /\ Cardinality(D!DlgId) = NumDlg
  <2>1. 0 \in Int /\ NumDlg - 1 \in Int /\ NumDlg \in Nat \ {0}
    BY SizesAssumption
  <2>2. /\ IsFiniteSet(0 .. NumDlg - 1)
        /\ Cardinality(0 .. NumDlg - 1) = IF 0 > NumDlg - 1 THEN 0 ELSE (NumDlg - 1) - 0 + 1
    BY <2>1, FS_Interval
  <2>3. QED BY <2>1, <2>2 DEF D!DlgId
<1>6. IsFiniteSet(others) /\ Cardinality(others) = Cardinality(Leg) - 1
  BY LegAssumption, FS_RemoveElement
<1>7. Cardinality(Leg) \in Nat
  BY LegAssumption, FS_CardinalityType
<1>8. Cardinality(D!DlgId) <= Cardinality(others)
  <2> HIDE DEF others, call
  <2>1. QED BY <1>4, <1>5, <1>6, FS_Injection
<1>9. QED BY <1>5, <1>6, <1>7, <1>8, SizesAssumption DEF Roomy

-----------------------------------------------------------------------------
(* The steps of the GB server. *)

\* An answered dialog is a call's, and a call of an item has one dialog.
LEMMA CallIs ==
    ASSUME TInv, Listing, NEW d \in D!DlgId, Talking(d)
    PROVE  /\ dlg[d].cid \in Leg /\ Target[dlg[d].cid] \in Item
           /\ D!InCallers(d, Target[dlg[d].cid]) /\ dlg[d].rtag = FarTag
           /\ HasCall(dlg[d].cid)
<1>1. PICK i \in Item : D!InCallers(d, i)
  BY DEF Talking, D!Listed
<1>2. QED BY <1>1 DEF Listing, HasCall

\* deal_rmt_invite: a dialog is added that does not talk yet.
LEMMA InviteOwns ==
    ASSUME TInv, TypeOK', Owners, NEW l \in Leg, GbInvite(l)
    PROVE  Owners'
<1>0. TypeOK
  BY DEF TInv
<1>1. /\ Target[l] \in Item /\ D!AddDialog(Target[l], ReqOf(l)) /\ Arrives(l, "INVITE")
      /\ toMC' = Append(toMC, [type |-> "INVITE", dlg |-> Head(free), leg |-> l])
      /\ toGB' = toGB /\ UNCHANGED <<devVars, toVtdu, switches, legVars, down>>
  BY DEF GbInvite, D!InviteNew
<1>2. PICK h \in D!DlgId : h = Head(free)
  BY <1>1, AddedWaits
<1>3. \A d \in D!DlgId : (Talking(d)' <=> Talking(d)) /\ (Talking(d) => dlg'[d] = dlg[d])
  BY <1>1, AddedWaits
<1>4. Listing'
  <2>1. /\ \A e \in D!DlgId, j \in Item :
             D!InCallers(e, j)' <=> D!InCallers(e, j) \/ (e = h /\ j = Target[l])
        /\ \A e \in D!DlgId : e # h => dlg'[e] = dlg[e]
        /\ ~D!Listed(h)
        /\ dlg'[h] = [state |-> "INVITING", cid |-> l, rtag |-> FarTag, ltag |-> Null,
                      tid |-> dlg[h].tid]
    BY <1>1, <1>2, DialogAdded
  <2>2. /\ \A j \in Item : ~D!InCallers(h, j)
        /\ dlg'[h].cid = l /\ dlg'[h].rtag = FarTag
    BY <2>1 DEF D!Listed
  <2>3. ASSUME NEW d \in D!DlgId, NEW i \in Item, D!InCallers(d, i)'
        PROVE  dlg'[d].cid \in Leg /\ Target[dlg'[d].cid] = i /\ dlg'[d].rtag = FarTag
    <3>1. CASE d = h
      BY <2>1, <2>2, <2>3, <3>1
    <3>2. CASE d # h
      BY <2>1, <2>3, <3>2 DEF Owners, Listing
    <3>3. QED BY <3>1, <3>2
  <2>4. QED BY <2>3 DEF Listing
<1>5. /\ \A x : HasCall(x) => HasCall(x)'
      /\ \A t : HasTid(t) => HasTid(t)'
  BY <1>3, CallsStay
<1>6. Aims'
  <2>1. 0 \in Nat /\ \A k \in 1 .. Len(toGB') : k + 0 \in 1 .. Len(toGB) /\ toGB'[k] = toGB[k + 0]
    BY <1>1
  <2>2. QED BY <1>1, <1>3, <2>1, AimsStay DEF Owners, devVars
<1> DEFINE e == [type |-> "INVITE", dlg |-> h, leg |-> l]
<1>7. e \in ToMcMsg /\ e.type = "INVITE" /\ toMC' = Append(toMC, e)
  BY <1>1, <1>2 DEF ToMcMsg
<1> HIDE DEF e
<1>8. /\ \A k \in 1 .. Len(toMC') : \/ k \in 1 .. Len(toMC) /\ toMC'[k] = toMC[k]
                                    \/ k = Len(toMC) + 1 /\ toMC'[k] = e
      /\ \A k \in 1 .. Len(toMC) : k \in 1 .. Len(toMC') /\ toMC'[k] = toMC[k]
  BY <1>0, <1>7, FromAppend DEF TypeOK
<1>9. /\ 0 \in Nat
      /\ \A k \in 1 .. Len(toMC') : toMC'[k].type = "ACK" =>
            k + 0 \in 1 .. Len(toMC) /\ toMC'[k] = toMC[k + 0]
      /\ \A k \in 1 .. Len(toMC) : k - 0 \in 1 .. Len(toMC') /\ toMC'[k - 0] = toMC[k]
  BY <1>7, <1>8
<1>10. Acks'
  BY <1>5, <1>9, AcksMoveUp DEF Owners
<1>11. Switches'
  <2>1. \A c, x : Holder(c, x) => Holder(c, x)'
    BY <1>1, <1>5, <1>9, HoldersStay DEF devVars
  <2>2. QED BY <1>1, <2>1, SwitchesStay DEF Owners
<1>12. ASSUME NEW x \in Leg
       PROVE  CallOk(x)'
  <2>1. \/ up'[x] = up[x]
        \/ up[x] # <<>> /\ up'[x] = Tail(up[x])
    BY <1>0, <1>1 DEF Arrives, TypeOK
  <2>2. CallOk(x) /\ (Early(x)' => Early(x)) /\ down'[x] = down[x]
    BY <1>1 DEF Owners, Calls, Early, legVars
  <2>3. QED BY <1>0, <1>5, <2>1, <2>2, CallRests
<1>13. QED BY <1>4, <1>6, <1>10, <1>11, <1>12 DEF Owners, Calls

\* Requests that change no dialog and send nothing to the message centre:
\* nothing of the ownership moves but the leg's own queues.
LEMMA NothingOwned ==
    ASSUME Owners, UNCHANGED gbVars, UNCHANGED devVars,
           toMC' = toMC, toGB' = toGB, toVtdu' = toVtdu, switches' = switches
    PROVE  /\ Listing' /\ Aims' /\ Acks' /\ Switches'
           /\ \A x : HasCall(x)' <=> HasCall(x)
<1>1. /\ \A e, j : D!InCallers(e, j)' <=> D!InCallers(e, j)
      /\ \A d : Talking(d)' <=> Talking(d)
      /\ dlg' = dlg
  BY DialogsKept, SameDialogs
<1>2. /\ \A x : HasCall(x)' <=> HasCall(x)
      /\ \A t : HasTid(t)' <=> HasTid(t)
  BY <1>1 DEF HasCall, HasTid
<1>3. Listing'
  BY <1>1, ListingStays DEF Owners
<1>4. Aims'
  BY <1>1 DEF Owners, Aims, Switched, devVars
<1>5. Acks'
  BY <1>2 DEF Owners, Acks, Ends
<1>6. \A c, x : Holder(c, x) => Holder(c, x)'
  BY <1>2 DEF Holder, Ends, Switched, devVars
<1>7. Switches'
  BY <1>6, SwitchesStay DEF Owners
<1>8. QED BY <1>2, <1>3, <1>4, <1>5, <1>7

\* deal_rmt_invite and deal_rmt_bye where they end early.
LEMMA RefusedOwns ==
    ASSUME TInv, TypeOK', Kept, Roomy, Owners, NEW l \in Leg,
           GbInviteRefused(l) \/ GbInviteRepeated(l) \/ GbByeUnknown(l)
    PROVE  Owners'
<1>0. TypeOK
  BY DEF TInv
<1>1. /\ UNCHANGED gbVars /\ UNCHANGED devVars /\ UNCHANGED legVars
      /\ toMC' = toMC /\ toGB' = toGB /\ toVtdu' = toVtdu /\ switches' = switches
      /\ \E method \in Method : Arrives(l, method)
  BY DEF GbInviteRefused, GbInviteRepeated, GbByeUnknown, D!InviteFull, D!InviteBusy, D!Same,
     Kept, gbVars, Method
<1>2. /\ Listing' /\ Aims' /\ Acks' /\ Switches'
      /\ \A x : HasCall(x)' <=> HasCall(x)
  BY <1>1, NothingOwned
<1>3. ASSUME NEW x \in Leg, ~GbInviteRefused(l) \/ x # l
      PROVE  CallOk(x)'
  <2>1. \/ up'[x] = up[x]
        \/ up[x] # <<>> /\ up'[x] = Tail(up[x])
    BY <1>0, <1>1 DEF Arrives, TypeOK
  <2>2. CallOk(x) /\ (Early(x)' => Early(x))
    BY <1>1 DEF Owners, Calls, Early, legVars
  <2>3. down'[x] = down[x] \/ down'[x] = Append(down[x], "BYE400")
    BY <1>0, <1>3 DEF TypeOK, GbInviteRefused, GbInviteRepeated, GbByeUnknown, Answer
  <2>4. QED BY <1>0, <1>2, <2>1, <2>2, <2>3, CallRests
<1>4. CASE GbInviteRefused(l)
  <2>1. Target[l] \notin Item
    BY <1>4, FullNever DEF GbInviteRefused, D!InviteFull, Kept, Owners
  <2>2. down'[l] = Append(down[l], "FAIL") /\ up'[l] = Tail(up[l]) /\ up[l] # <<>>
    BY <1>0, <1>4 DEF GbInviteRefused, Answer, Arrives, TypeOK
  <2>3. up[l] \in Seq(Method) /\ down[l] \in Seq(Code) /\ "FAIL" \in Code
    BY <1>0 DEF TypeOK, Code
  <2>4. /\ \A x : In(up'[l], x) => In(up[l], x)
        /\ AckFirst(up[l]) => AckFirst(up'[l])
        /\ In(down'[l], "OK") => In(down[l], "OK")
    BY <2>2, <2>3, InTail, InAppend
  <2>5. CallOk(l) /\ (Early(l)' <=> Early(l))
    BY <1>1 DEF Owners, Calls, Early, legVars
  <2>6. CallOk(l)'
    BY <1>2, <2>1, <2>4, <2>5 DEF CallOk
  <2>7. QED BY <1>2, <1>3, <2>6 DEF Owners, Calls
<1>5. CASE ~GbInviteRefused(l)
  BY <1>2, <1>3, <1>5 DEF Owners, Calls
<1>6. QED BY <1>4, <1>5

\* deal_rmt_ack: the dialog that is found is the answered one.
LEMMA AckFinds ==
    ASSUME TInv, Owners, NEW l \in Leg, GbAck(l), toMC' # toMC
    PROVE  \E d \in D!DlgId : /\ Talking(d) /\ dlg[d].cid = l
                              /\ [type |-> "ACK", tid |-> dlg[d].tid] \in ToMcMsg
                              /\ toMC' = Append(toMC, [type |-> "ACK", tid |-> dlg[d].tid])
<1>0. TypeOK
  BY DEF TInv
<1>1. Arrives(l, "ACK") /\ Target[l] \in Item
  BY DEF GbAck
<1>2. PICK k \in DOMAIN caller[Target[l]] :
         /\ D!FoundAt(Target[l], k, ReqOf(l))
         /\ toMC' = Append(toMC, [type |-> "ACK", tid |-> dlg[caller[Target[l]][k]].tid])
  BY DEF GbAck
<1>3. PICK h \in D!DlgId : h = caller[Target[l]][k]
  BY <1>0, <1>1, ListedDialog
<1>4. D!InCallers(h, Target[l]) /\ dlg[h].cid = l
  BY <1>2, <1>3 DEF D!InCallers, D!Occurs, D!FoundAt, D!WalkEndsAt, D!AckMatch, D!SameCall, ReqOf
<1>5. HasCall(l)
  <2>1. up[l] \in Seq(Method) /\ up[l] # <<>> /\ Head(up[l]) = "ACK"
    BY <1>0, <1>1 DEF Arrives, TypeOK
  <2>2. In(up[l], "ACK")
    BY <2>1, InTail
  <2>3. QED BY <1>1, <2>2 DEF Owners, Calls, CallOk
<1>6. PICK d \in D!DlgId : Talking(d) /\ dlg[d].cid = l
  BY <1>5 DEF HasCall
<1>7. d = h
  <2>1. D!InCallers(d, Target[l]) /\ dlg[d].rtag = FarTag /\ dlg[h].rtag = FarTag
    BY <1>1, <1>4, <1>6, CallIs DEF Owners, Listing
  <2>2. QED BY <1>1, <1>4, <1>6, <2>1, OneDialog
<1>8. [type |-> "ACK", tid |-> dlg[h].tid] \in ToMcMsg
  BY <1>0, <1>1, <1>2, <1>3, ListedDialog DEF ToMcMsg
<1>9. QED BY <1>2, <1>3, <1>6, <1>7, <1>8

\* What the message centre is sent names the dialog's transmitter.
LEMMA AckOwns ==
    ASSUME TInv, TypeOK', Owners, NEW l \in Leg, GbAck(l)
    PROVE  Owners'
<1>0. TypeOK
  BY DEF TInv
<1>1. /\ UNCHANGED gbVars /\ UNCHANGED devVars /\ UNCHANGED legVars /\ toGB' = toGB
      /\ toVtdu' = toVtdu /\ switches' = switches /\ down' = down /\ Arrives(l, "ACK")
  BY DEF GbAck
<1>2. /\ \A e, j : D!InCallers(e, j)' <=> D!InCallers(e, j)
      /\ \A d : Talking(d)' <=> Talking(d)
      /\ dlg' = dlg
  BY <1>1, DialogsKept, SameDialogs
<1>3. /\ \A x : HasCall(x)' <=> HasCall(x)
      /\ \A t : HasTid(t)' <=> HasTid(t)
  BY <1>2 DEF HasCall, HasTid
<1>4. Calls'
  <2> SUFFICES ASSUME NEW x \in Leg
               PROVE  CallOk(x)'
    BY DEF Calls
  <2>1. \/ up'[x] = up[x]
        \/ up[x] # <<>> /\ up'[x] = Tail(up[x])
    BY <1>0, <1>1 DEF Arrives, TypeOK
  <2>2. CallOk(x) /\ (Early(x)' => Early(x)) /\ down'[x] = down[x]
    BY <1>1 DEF Owners, Calls, Early, legVars
  <2>3. QED BY <1>0, <1>3, <2>1, <2>2, CallRests
<1>5. CASE toMC' = toMC
  BY <1>1, <1>4, <1>5, NothingOwned DEF Owners
<1>6. CASE toMC' # toMC
  <2>1. PICK h \in D!DlgId :
           /\ Talking(h) /\ [type |-> "ACK", tid |-> dlg[h].tid] \in ToMcMsg
           /\ toMC' = Append(toMC, [type |-> "ACK", tid |-> dlg[h].tid])
    BY <1>6, AckFinds
  <2>2. HasTid(dlg[h].tid)
    BY <2>1 DEF HasTid
  <2> DEFINE e == [type |-> "ACK", tid |-> dlg[h].tid]
  <2>3. e \in ToMcMsg /\ e.type = "ACK" /\ e.tid = dlg[h].tid /\ toMC' = Append(toMC, e)
    BY <2>1
  <2> HIDE DEF e
  <2>4. /\ \A i \in 1 .. Len(toMC') : \/ i \in 1 .. Len(toMC) /\ toMC'[i] = toMC[i]
                                      \/ i = Len(toMC) + 1 /\ toMC'[i] = e
        /\ \A i \in 1 .. Len(toMC) : i \in 1 .. Len(toMC') /\ toMC'[i] = toMC[i]
    <3>1. toMC \in Seq(ToMcMsg)
      BY <1>0 DEF TypeOK
    <3>2. QED BY <2>3, <3>1, FromAppend
  <2>5. Acks'
    <3> SUFFICES ASSUME NEW i \in 1 .. Len(toMC'), toMC'[i].type = "ACK"
                 PROVE  \/ HasTid(toMC[i].tid)'
                        \/ \E j \in 1 .. Len(toMC') : i < j /\ Ends(j)' /\ toMC'[j].tid = toMC'[i].tid
      BY DEF Acks
    <3>1. CASE toMC'[i] = e
      BY <1>3, <2>2, <2>3, <3>1
    <3>2. CASE i \in 1 .. Len(toMC) /\ toMC'[i] = toMC[i]
      <4>1. \/ HasTid(toMC[i].tid)
            \/ \E j \in 1 .. Len(toMC) : i < j /\ Ends(j) /\ toMC[j].tid = toMC[i].tid
        BY <3>2 DEF Owners, Acks
      <4>2. QED BY <1>3, <2>4, <3>2, <4>1 DEF Ends
    <3>3. QED BY <2>4, <3>1, <3>2
  <2>6. Listing'
    BY <1>2, ListingStays DEF Owners
  <2>7. Aims'
    BY <1>1, <1>2 DEF Owners, Aims, Switched, devVars
  <2>8. Switches'
    <3>1. /\ 0 \in Nat
          /\ \A i \in 1 .. Len(toMC) : i - 0 \in 1 .. Len(toMC') /\ toMC'[i - 0] = toMC[i]
      BY <2>4
    <3>2. \A c, x : Holder(c, x) => Holder(c, x)'
      BY <1>1, <1>3, <3>1, HoldersStay DEF devVars
    <3>3. QED BY <1>1, <3>2, SwitchesStay DEF Owners
  <2>9. QED BY <1>4, <2>5, <2>6, <2>7, <2>8 DEF Owners
<1>7. QED BY <1>5, <1>6

\* deal_rmt_bye: the BYE to the message centre takes over from the dialog, and
\* no ACK of the call is left behind it.
LEMMA ByeOwns ==
    ASSUME TInv, TypeOK', Kept, Requests, Grants, Owners, NEW l \in Leg, GbBye(l)
    PROVE  Owners'
<1>0. TypeOK
  BY DEF TInv
<1>1. /\ Target[l] \in Item /\ ~StillInviting(l) /\ Arrives(l, "BYE")
      /\ toGB' = toGB /\ UNCHANGED <<devVars, toVtdu, switches, legVars>>
      /\ Answer(l, "BYE200")
  BY DEF GbBye, Arrives, Kept
<1>2. PICK k \in DOMAIN caller[Target[l]] :
         /\ D!FoundAt(Target[l], k, ReqOf(l)) /\ D!ByeAt(Target[l], k)
         /\ toMC' = Append(toMC, [type |-> "BYE", tid |-> dlg[caller[Target[l]][k]].tid])
  BY DEF GbBye, Kept
<1>3. PICK h \in D!DlgId : h = caller[Target[l]][k]
  BY <1>0, <1>1, ListedDialog
<1>4. Talking(h)
  BY <1>1, <1>2, <1>3, FoundTalks
<1>5. dlg[h].cid = l
  BY <1>2, <1>3 DEF D!FoundAt, D!AckMatch, D!SameCall, ReqOf
<1>6. /\ \A d \in D!DlgId : Talking(d)' <=> Talking(d) /\ d # h
      /\ \A d \in D!DlgId : Talking(d)' => dlg'[d] = dlg[d]
  BY <1>1, <1>2, <1>3, <1>4, EndedIsSilent
<1> DEFINE e == [type |-> "BYE", tid |-> dlg[h].tid]
<1>7. e \in ToMcMsg /\ e.type = "BYE" /\ e.tid = dlg[h].tid /\ toMC' = Append(toMC, e)
  BY <1>0, <1>1, <1>2, <1>3, ListedDialog DEF ToMcMsg
<1> HIDE DEF e
<1>8. /\ Len(toMC) \in Nat
      /\ \A i \in 1 .. Len(toMC') : \/ i \in 1 .. Len(toMC) /\ toMC'[i] = toMC[i]
                                    \/ i = Len(toMC) + 1 /\ toMC'[i] = e
      /\ \A i \in 1 .. Len(toMC) : i \in 1 .. Len(toMC') /\ toMC'[i] = toMC[i]
      /\ Len(toMC) + 1 \in 1 .. Len(toMC') /\ toMC'[Len(toMC) + 1] = e
  BY <1>0, <1>7, FromAppend DEF TypeOK
<1>9. PICK n \in 1 .. Len(toMC') : n = Len(toMC) + 1
  BY <1>8
<1>10. Ends(n)' /\ toMC'[n].tid = dlg[h].tid /\ \A i \in 1 .. Len(toMC) : i < n
  BY <1>7, <1>8, <1>9 DEF Ends
<1>11. Listing'
  <2>1. /\ \A d \in D!DlgId, j \in Item : D!InCallers(d, j)' <=> D!InCallers(d, j) /\ d # h
        /\ \A d \in D!DlgId : d # h => dlg'[d] = dlg[d]
    BY <1>1, <1>2, <1>3, DialogEnded
  <2>2. QED BY <2>1, ListingStays DEF Owners
<1>12. Aims'
  <2>1. 0 \in Nat /\ \A i \in 1 .. Len(toGB') : i + 0 \in 1 .. Len(toGB) /\ toGB'[i] = toGB[i + 0]
    BY <1>1
  <2>2. QED BY <1>1, <1>6, <2>1, AimsStay DEF Owners, devVars
<1>13. Acks'
  <2> SUFFICES ASSUME NEW i \in 1 .. Len(toMC'), toMC'[i].type = "ACK"
               PROVE  \/ HasTid(toMC[i].tid)'
                      \/ \E j \in 1 .. Len(toMC') : i < j /\ Ends(j)' /\ toMC'[j].tid = toMC'[i].tid
    BY DEF Acks
  <2>1. i \in 1 .. Len(toMC) /\ toMC'[i] = toMC[i]
    BY <1>7, <1>8
  <2>2. CASE \E j \in 1 .. Len(toMC) : i < j /\ Ends(j) /\ toMC[j].tid = toMC[i].tid
    BY <1>8, <2>1, <2>2 DEF Ends
  <2>3. CASE HasTid(toMC[i].tid)
    <3>1. PICK d \in D!DlgId : Talking(d) /\ dlg[d].tid = toMC[i].tid
      BY <2>3 DEF HasTid
    <3>2. CASE d = h
      BY <1>10, <2>1, <3>1, <3>2
    <3>3. CASE d # h
      BY <1>6, <2>1, <3>1, <3>3 DEF HasTid
    <3>4. QED BY <3>2, <3>3
  <2>4. QED BY <2>1, <2>2, <2>3 DEF Owners, Acks
<1>14. Switches'
  <2>1. ASSUME NEW c, NEW x, Holder(c, x)
        PROVE  Holder(c, x)'
    <3>1. CASE \E i \in 1 .. Len(toMC) : Ends(i) /\ Switched(toMC[i].tid, c, x)
      BY <1>1, <1>8, <3>1 DEF Holder, Ends, Switched, devVars
    <3>2. CASE c = Target[x] /\ HasCall(x)
      <4>1. PICK d \in D!DlgId : Talking(d) /\ dlg[d].cid = x
        BY <3>2 DEF HasCall
      <4>2. CASE d = h
        <5>1. Switched(dlg[h].tid, c, x)
          BY <1>4, <3>2, <4>1, <4>2 DEF Owners, Aims
        <5>2. Switched(toMC[n].tid, c, x)'
          BY <1>1, <1>10, <5>1 DEF Switched, devVars
        <5>3. QED BY <1>10, <5>2 DEF Holder
      <4>3. CASE d # h
        BY <1>6, <3>2, <4>1, <4>3 DEF Holder, HasCall
      <4>4. QED BY <4>2, <4>3
    <3>3. QED BY <2>1, <3>1, <3>2 DEF Holder
  <2>2. QED BY <1>1, <2>1, SwitchesStay DEF Owners
<1>15. ASSUME NEW x \in Leg
       PROVE  CallOk(x)'
  <2>1. CallOk(x) /\ (Early(x)' <=> Early(x))
    BY <1>1 DEF Owners, Calls, Early, legVars
  <2>2. CASE x = l
    <3>1. up[l] \in Seq(Method) /\ up[l] # <<>> /\ Head(up[l]) = "BYE" /\ up'[l] = Tail(up[l])
      BY <1>0, <1>1 DEF Arrives, TypeOK
    <3>2. AckFirst(up[l])
      BY <2>1, <2>2 DEF CallOk
    <3>3. In(up[l], "BYE") /\ ~In(up'[l], "ACK") /\ AckFirst(up'[l])
      BY <3>1, <3>2, InTail
    <3>4. ~Early(l)
      BY <2>1, <2>2, <3>3 DEF CallOk
    <3>5. QED BY <2>1, <2>2, <3>3, <3>4 DEF CallOk
  <2>3. CASE x # l
    <3>1. HasCall(x) => HasCall(x)'
      BY <1>5, <1>6, <2>3 DEF HasCall
    <3>2. up'[x] = up[x] /\ down'[x] = down[x]
      BY <1>0, <1>1, <2>3 DEF Arrives, Answer, TypeOK
    <3>3. QED BY <1>0, <2>1, <3>1, <3>2, CallRests
  <2>4. QED BY <2>2, <2>3
<1>16. QED BY <1>11, <1>12, <1>13, <1>14, <1>15 DEF Owners, Calls

\* deal_inter_msg: the dialog gets the transmitter that was taken for its call.
LEMMA ReplyOwns ==
    ASSUME TInv, TypeOK', Kept, Requests, Grants, Owners, GbReply
    PROVE  Owners'
<1>0. TypeOK
  BY DEF TInv
<1> DEFINE r == toGB[1]
<1>1. /\ toGB # <<>> /\ toGB' = Tail(toGB) /\ toMC' = toMC
      /\ UNCHANGED <<devVars, toVtdu, switches, legVars, up>>
      /\ D!MediaReply(Head(toGB).dlg, NearTag, Head(toGB).tid)
      /\ Answer(Head(toGB).leg, IF Head(toGB).addr THEN "OK" ELSE "FAIL")
  BY DEF GbReply, Kept
<1>2. /\ Head(toGB) = r /\ 1 \in 1 .. Len(toGB)
      /\ \A k \in 1 .. Len(toGB') : k + 1 \in 1 .. Len(toGB) /\ toGB'[k] = toGB[k + 1]
  BY <1>0, <1>1, FromTail DEF TypeOK
<1>3. r.dlg \in D!DlgId /\ r.leg \in Leg /\ Opened(r.dlg, r.leg)
  BY <1>0, <1>2, MsgTypes DEF Requests
<1>4. PICK h \in D!DlgId, x \in Leg, t \in TransId : h = r.dlg /\ x = r.leg /\ t = r.tid
  BY <1>0, <1>2, <1>3, MsgTypes
<1>5. r.addr /\ Switched(t, Target[x], x)
  <2>1. r.addr
    BY <1>2 DEF Grants, Granted
  <2>2. QED BY <1>2, <1>4, <2>1 DEF Owners, Aims
<1>6. Opened(h, x) /\ D!MediaReply(h, NearTag, t) /\ down' = [down EXCEPT ![x] = Append(@, "OK")]
  BY <1>1, <1>2, <1>3, <1>4, <1>5 DEF Answer
<1>7. /\ ~Talking(h)
      /\ \A d \in D!DlgId : Talking(d)' <=> Talking(d) \/ d = h
  BY <1>6, AnsweredTalks
<1>8. /\ \A e, j : D!InCallers(e, j)' <=> D!InCallers(e, j)
      /\ \A d \in D!DlgId : d # h => dlg'[d] = dlg[d]
      /\ dlg'[h].cid = dlg[h].cid /\ dlg'[h].tid = t /\ dlg'[h].rtag = dlg[h].rtag
  BY <1>6, DialogAnswered
<1>9. dlg'[h].cid = x /\ Talking(h)'
  BY <1>6, <1>7, <1>8 DEF Opened
<1>10. /\ \A y : HasCall(y) => HasCall(y)'
       /\ \A y : HasTid(y) => HasTid(y)'
       /\ HasCall(x)'
  <2>1. \A d \in D!DlgId : Talking(d) => Talking(d)' /\ dlg'[d] = dlg[d]
    BY <1>7, <1>8
  <2>2. QED BY <1>9, <2>1, CallsStay DEF HasCall
<1>11. Listing'
  <2>1. \A d \in D!DlgId : dlg'[d].cid = dlg[d].cid /\ dlg'[d].rtag = dlg[d].rtag
    BY <1>8
  <2>2. QED BY <1>8, <2>1, ListingStays DEF Owners
<1>12. Aims'
  <2>1. ASSUME NEW k \in 1 .. Len(toGB')
        PROVE  Switched(toGB[k].tid, Target[toGB[k].leg], toGB[k].leg)'
    <3>1. k + 1 \in 1 .. Len(toGB) /\ toGB'[k] = toGB[k + 1]
      BY <1>2
    <3>2. Switched(toGB[k + 1].tid, Target[toGB[k + 1].leg], toGB[k + 1].leg)
      BY <3>1 DEF Owners, Aims
    <3>3. QED BY <1>1, <3>1, <3>2 DEF Switched, devVars
  <2>2. ASSUME NEW d \in D!DlgId, Talking(d)'
        PROVE  Switched(dlg[d].tid, Target[dlg[d].cid], dlg[d].cid)'
    <3>1. CASE d = h
      BY <1>1, <1>5, <1>8, <1>9, <3>1 DEF Switched, devVars
    <3>2. CASE d # h
      BY <1>1, <1>7, <1>8, <2>2, <3>2 DEF Owners, Aims, Switched, devVars
    <3>3. QED BY <3>1, <3>2
  <2>3. QED BY <2>1, <2>2 DEF Aims
<1>13. Acks'
  BY <1>1, <1>10 DEF Owners, Acks, Ends
<1>14. Switches'
  <2>1. \A c, y : Holder(c, y) => Holder(c, y)'
    BY <1>1, <1>10 DEF Holder, Ends, Switched, devVars
  <2>2. QED BY <1>1, <2>1, SwitchesStay DEF Owners
<1>15. ASSUME NEW y \in Leg
       PROVE  CallOk(y)'
  <2>1. CallOk(y) /\ (Early(y)' <=> Early(y)) /\ up'[y] = up[y]
    BY <1>1 DEF Owners, Calls, Early, legVars
  <2>2. CASE y # x
    <3>1. down'[y] = down[y]
      BY <1>0, <1>6, <2>2 DEF TypeOK
    <3>2. QED BY <1>0, <1>10, <2>1, <3>1, CallRests
  <2>3. CASE y = x
    <3>1. down[x] \in Seq(Code) /\ "OK" \in Code /\ down'[x] = Append(down[x], "OK")
      BY <1>0, <1>6 DEF TypeOK, Code
    <3>2. In(down'[x], "FAIL") => In(down[x], "FAIL")
      BY <3>1, InAppend
    <3>3. QED BY <1>10, <2>1, <2>3, <3>2 DEF CallOk
  <2>4. QED BY <2>2, <2>3
<1>16. QED BY <1>11, <1>12, <1>13, <1>14, <1>15 DEF Owners, Calls

-----------------------------------------------------------------------------
(* The steps of the message centre and of the VTDU. *)

\* rmt_invite_media: a transmitter that nobody holds is set to the caller.
LEMMA DevInviteOwns ==
    ASSUME TInv, TypeOK', Kept, HT!UnusedIsRest, Requests, Grants, Owners, DevInvite
    PROVE  Owners'
<1>0. TypeOK
  BY DEF TInv
<1> DEFINE m == toMC[1]
<1>1. /\ toMC # <<>> /\ toMC' = Tail(toMC) /\ Head(toMC) = m /\ 1 \in 1 .. Len(toMC) /\ Asks(1)
      /\ \A k \in 1 .. Len(toMC') : k + 1 \in 1 .. Len(toMC) /\ toMC'[k] = toMC[k + 1]
      /\ \A k \in 1 .. Len(toMC) : k = 1 \/ (k - 1 \in 1 .. Len(toMC') /\ toMC'[k - 1] = toMC[k])
      /\ UNCHANGED gbVars /\ UNCHANGED <<toVtdu, switches, legVars, up, down>>
  <2>1. /\ toMC # <<>> /\ toMC' = Tail(toMC) /\ Head(toMC).type = "INVITE"
        /\ UNCHANGED gbVars /\ UNCHANGED <<toVtdu, switches, legVars, up, down>>
    BY DEF DevInvite, FromGb
  <2>2. QED BY <1>0, <2>1, FromTail DEF TypeOK, Asks
<1>2. PICK own \in [T!Trans -> D!DlgId] : Granted(own) /\ GivenBack(own)
  BY DEF Grants
<1>3. ~T!CannotTake(Target[m.leg]) /\ unused \in T!Trans /\ ~HeldIn(unused)
  BY <1>0, <1>1, <1>2, SomeIsFree DEF Kept
<1>4. /\ Target[m.leg] \in T!Chan /\ T!Take(unused, Target[m.leg], m.leg)
      /\ toGB' = Append(toGB, [dlg |-> m.dlg, leg |-> m.leg, addr |-> TRUE, tid |-> unused])
  BY <1>1, <1>3 DEF DevInvite, Reply, Unsent, Kept
<1>5. m.dlg \in D!DlgId /\ m.leg \in Leg
  BY <1>0, <1>1, MsgTypes
<1>6. PICK u \in T!Trans : u = unused
  BY <1>3
<1>7. PICK r \in ToGbMsg : r = [dlg |-> m.dlg, leg |-> m.leg, addr |-> TRUE, tid |-> u]
  <2>1. u \in TransId
    BY <1>6, SizesAssumption DEF T!Trans, TransId
  <2>2. QED BY <1>5, <2>1 DEF ToGbMsg
<1>8. /\ r.leg = m.leg /\ r.tid = u /\ toGB' = Append(toGB, r)
      /\ \A k \in 1 .. Len(toGB') : \/ k \in 1 .. Len(toGB) /\ toGB'[k] = toGB[k]
                                    \/ k = Len(toGB) + 1 /\ toGB'[k] = r
  <2>1. r.leg = m.leg /\ r.tid = u /\ toGB' = Append(toGB, r)
    BY <1>4, <1>6, <1>7
  <2>2. QED BY <1>0, <2>1, FromAppend DEF TypeOK
<1>9. /\ ch'[u] = Target[m.leg] /\ to'[u] = m.leg
      /\ \A t : t # u => ch'[t] = ch[t] /\ to'[t] = to[t]
  BY <1>0, <1>4, <1>6 DEF T!Take, TypeOK, T!TypeOK
<1>10. \A t, c, x : t # u /\ Switched(t, c, x) => Switched(t, c, x)'
  BY <1>9 DEF Switched
<1>11. /\ \A e, j : D!InCallers(e, j)' <=> D!InCallers(e, j)
       /\ \A d : Talking(d)' <=> Talking(d)
       /\ dlg' = dlg
  BY <1>1, DialogsKept, SameDialogs
<1>12. /\ \A y : HasCall(y)' <=> HasCall(y)
       /\ \A t : HasTid(t)' <=> HasTid(t)
  BY <1>11 DEF HasCall, HasTid
<1>13. Listing'
  BY <1>11, ListingStays DEF Owners
<1>14. Aims'
  <2>1. ASSUME NEW k \in 1 .. Len(toGB')
        PROVE  Switched(toGB[k].tid, Target[toGB[k].leg], toGB[k].leg)'
    <3>1. CASE toGB'[k] = r
      BY <1>8, <1>9, <3>1 DEF Switched
    <3>2. CASE k \in 1 .. Len(toGB) /\ toGB'[k] = toGB[k]
      <4>1. Switched(toGB[k].tid, Target[toGB[k].leg], toGB[k].leg)
        BY <3>2 DEF Owners, Aims
      <4>2. toGB[k].tid # u
        BY <1>2, <1>3, <1>6, <3>2 DEF HeldIn, Granted
      <4>3. QED BY <1>9, <3>2, <4>1, <4>2 DEF Switched
    <3>3. QED BY <1>8, <3>1, <3>2
  <2>2. ASSUME NEW d \in D!DlgId, Talking(d)'
        PROVE  Switched(dlg[d].tid, Target[dlg[d].cid], dlg[d].cid)'
    <3>1. Talking(d) /\ Switched(dlg[d].tid, Target[dlg[d].cid], dlg[d].cid)
      BY <1>11, <2>2 DEF Owners, Aims
    <3>2. dlg[d].tid # u
      BY <1>3, <1>6, <3>1 DEF HeldIn
    <3>3. QED BY <1>9, <1>11, <3>1, <3>2 DEF Switched
  <2>3. QED BY <2>1, <2>2 DEF Aims
<1>15. 1 \in Nat /\ \A k \in 1 .. Len(toMC) : Ends(k) => k # 1 /\ toMC[k].tid # u
  BY <1>1, <1>3, <1>6 DEF Asks, Ends, HeldIn
<1>16. Acks'
  BY <1>1, <1>12, <1>15, AcksMoveUp DEF Owners
<1>17. Switches'
  <2>1. \A c, y : Holder(c, y) => Holder(c, y)'
    <3>1. \A k \in 1 .. Len(toMC) : Ends(k) =>
             /\ k - 1 \in 1 .. Len(toMC') /\ toMC'[k - 1] = toMC[k]
             /\ ch'[toMC[k].tid] = ch[toMC[k].tid] /\ to'[toMC[k].tid] = to[toMC[k].tid]
      BY <1>1, <1>9, <1>15
    <3>2. QED BY <1>12, <1>15, <3>1, HoldersStay
  <2>2. QED BY <1>1, <2>1, SwitchesStay DEF Owners
<1>18. Calls'
  BY <1>1, <1>12 DEF Owners, Calls, CallOk, Early, legVars
<1>19. QED BY <1>13, <1>14, <1>16, <1>17, <1>18 DEF Owners

\* What the VTDU is told of a transmitter, and where that ends up.
LEMMA ToldIs ==
    ASSUME TypeOK, Kept, NEW op \in {"ADD", "DEL"}, NEW t \in T!Trans, TellVtdu(op, t)
    PROVE  /\ Len(toVtdu) \in Nat
           /\ \A k \in 1 .. Len(toVtdu') :
                 \/ k \in 1 .. Len(toVtdu) /\ toVtdu'[k] = toVtdu[k]
                 \/ k = Len(toVtdu) + 1 /\ toVtdu'[k] = [op |-> op, ch |-> ch[t], to |-> to[t]]
           /\ \A k \in 1 .. Len(toVtdu) : k \in 1 .. Len(toVtdu') /\ toVtdu'[k] = toVtdu[k]
           /\ Len(toVtdu) + 1 \in 1 .. Len(toVtdu')
           /\ toVtdu'[Len(toVtdu) + 1] = [op |-> op, ch |-> ch[t], to |-> to[t]]
<1> DEFINE e == [op |-> op, ch |-> ch[t], to |-> to[t]]
<1>1. toVtdu' = Append(toVtdu, e)
  BY DEF TellVtdu, Unsent, Kept
<1>2. e \in ToVtduMsg
  BY DEF TypeOK, T!TypeOK, ToVtduMsg
<1> HIDE DEF e
<1>3. toVtdu \in Seq(ToVtduMsg)
  BY DEF TypeOK
<1>4. /\ Len(toVtdu) \in Nat /\ Len(toVtdu') = Len(toVtdu) + 1 /\ toVtdu'[Len(toVtdu) + 1] = e
      /\ \A k \in 1 .. Len(toVtdu') : \/ k \in 1 .. Len(toVtdu) /\ toVtdu'[k] = toVtdu[k]
                                      \/ k = Len(toVtdu) + 1 /\ toVtdu'[k] = e
      /\ \A k \in 1 .. Len(toVtdu) : k \in 1 .. Len(toVtdu') /\ toVtdu'[k] = toVtdu[k]
  BY <1>1, <1>2, <1>3, FromAppend
<1>5. Len(toVtdu) + 1 \in 1 .. Len(toVtdu')
  BY <1>4
<1>6. QED BY <1>4, <1>5 DEF e

\* rmt_ack_media: the forwarding that is asked for has an owner.
LEMMA DevAckOwns ==
    ASSUME TInv, TypeOK', Kept, Requests, Grants, Owners, DevAck
    PROVE  Owners'
<1>0. TypeOK
  BY DEF TInv
<1> DEFINE t == toMC[1].tid
<1>1. /\ toMC # <<>> /\ toMC' = Tail(toMC) /\ toGB' = toGB /\ Head(toMC) = toMC[1]
      /\ toMC[1].type = "ACK" /\ 1 \in 1 .. Len(toMC)
      /\ \A k \in 1 .. Len(toMC') : k + 1 \in 1 .. Len(toMC) /\ toMC'[k] = toMC[k + 1]
      /\ \A k \in 1 .. Len(toMC) : k = 1 \/ (k - 1 \in 1 .. Len(toMC') /\ toMC'[k - 1] = toMC[k])
      /\ UNCHANGED gbVars /\ UNCHANGED devVars /\ UNCHANGED <<switches, legVars, up, down>>
  <2>1. /\ toMC # <<>> /\ toMC' = Tail(toMC) /\ toGB' = toGB /\ Head(toMC).type = "ACK"
        /\ UNCHANGED gbVars /\ UNCHANGED devVars /\ UNCHANGED <<switches, legVars, up, down>>
    BY DEF DevAck, FromGb, Ignored
  <2>2. QED BY <1>0, <2>1, FromTail DEF TypeOK
<1>2. /\ \A e, j : D!InCallers(e, j)' <=> D!InCallers(e, j)
      /\ \A d : Talking(d)' <=> Talking(d)
      /\ dlg' = dlg
  BY <1>1, DialogsKept, SameDialogs
<1>3. /\ \A y : HasCall(y)' <=> HasCall(y)
      /\ \A y : HasTid(y)' <=> HasTid(y)
  BY <1>2 DEF HasCall, HasTid
<1>4. Listing'
  BY <1>2, ListingStays DEF Owners
<1>5. Aims'
  BY <1>1, <1>2 DEF Owners, Aims, Switched, devVars
<1>6. 1 \in Nat /\ \A k \in 1 .. Len(toMC) : Ends(k) => k # 1
  BY <1>1 DEF Ends
<1>7. Acks'
  BY <1>1, <1>3, <1>6, AcksMoveUp DEF Owners
<1>8. Calls'
  BY <1>1, <1>3 DEF Owners, Calls, CallOk, Early, legVars
<1>9. \A c, y : Holder(c, y) => Holder(c, y)'
  BY <1>1, <1>3, <1>6, HoldersStay DEF devVars
<1>10. CASE t \notin T!Trans
  <2>1. toVtdu' = toVtdu
    BY <1>1, <1>10 DEF DevAck, Ignored
  <2>2. QED BY <1>1, <1>4, <1>5, <1>7, <1>8, <1>9, <2>1, SwitchesStay DEF Owners
<1>11. CASE t \in T!Trans
  <2>1. TellVtdu("ADD", t) /\ "ADD" \in {"ADD", "DEL"}
    BY <1>1, <1>11 DEF DevAck, Ignored
  <2>2. Holder(ch[t], to[t])
    <3>1. CASE HasTid(t)
      <4>1. PICK d \in D!DlgId : Talking(d) /\ dlg[d].tid = t
        BY <3>1 DEF HasTid
      <4>2. Switched(t, Target[dlg[d].cid], dlg[d].cid) /\ HasCall(dlg[d].cid)
        BY <4>1 DEF Owners, Aims, HasCall
      <4>3. QED BY <4>2 DEF Switched, Holder
    <3>2. CASE \E j \in 1 .. Len(toMC) : 1 < j /\ Ends(j) /\ toMC[j].tid = t
      BY <3>2 DEF Holder, Switched
    <3>3. QED BY <1>1, <3>1, <3>2 DEF Owners, Acks
  <2>3. \A c, y, k : k \in 1 .. Len(toVtdu) \cup {0} /\ Owned(c, y, k) => Owned(c, y, k)'
    BY <1>0, <1>9, <1>11, <2>1, ToldIs DEF Owned
  <2>4. \A s \in switches' : Owned(s[1], s[2], 0)'
    BY <1>1, <2>3 DEF Owners, Switches
  <2>5. ASSUME NEW k \in 1 .. Len(toVtdu'), toVtdu'[k].op = "ADD"
        PROVE  Owned(toVtdu[k].ch, toVtdu[k].to, k)'
    <3>1. CASE k \in 1 .. Len(toVtdu) /\ toVtdu'[k] = toVtdu[k]
      BY <2>3, <2>5, <3>1 DEF Owners, Switches
    <3>2. CASE toVtdu'[k] = [op |-> "ADD", ch |-> ch[t], to |-> to[t]]
      <4>1. PICK c, y : c = ch[t] /\ y = to[t]
        OBVIOUS
      <4>2. Holder(c, y)'
        BY <1>9, <2>2, <4>1
      <4>3. c = toVtdu'[k].ch /\ y = toVtdu'[k].to
        BY <3>2, <4>1
      <4>4. Owned(c, y, k)'
        BY <4>2 DEF Owned
      <4>5. QED BY <4>3, <4>4
    <3>3. QED BY <1>0, <1>11, <2>1, <3>1, <3>2, ToldIs
  <2>6. Switches'
    BY <2>4, <2>5 DEF Switches
  <2>7. QED BY <1>4, <1>5, <1>7, <1>8, <2>6 DEF Owners
<1>12. QED BY <1>10, <1>11

\* rmt_bye_media: the DEL_SWITCH takes over from the BYE.
LEMMA DevByeOwns ==
    ASSUME TInv, TypeOK', Kept, Requests, Grants, Owners, DevBye
    PROVE  Owners'
<1>0. TypeOK
  BY DEF TInv
<1> DEFINE t == toMC[1].tid
<1>1. /\ toMC # <<>> /\ toMC' = Tail(toMC) /\ toGB' = toGB /\ Head(toMC) = toMC[1]
      /\ Ends(1) /\ 1 \in 1 .. Len(toMC)
      /\ \A k \in 1 .. Len(toMC') : k + 1 \in 1 .. Len(toMC) /\ toMC'[k] = toMC[k + 1]
      /\ \A k \in 1 .. Len(toMC) : k = 1 \/ (k - 1 \in 1 .. Len(toMC') /\ toMC'[k - 1] = toMC[k])
      /\ UNCHANGED gbVars /\ UNCHANGED <<switches, legVars, up, down>>
  <2>1. /\ toMC # <<>> /\ toMC' = Tail(toMC) /\ toGB' = toGB /\ Head(toMC).type = "BYE"
        /\ UNCHANGED gbVars /\ UNCHANGED <<switches, legVars, up, down>>
    BY DEF DevBye, FromGb
  <2>2. QED BY <1>0, <2>1, FromTail DEF TypeOK, Ends
<1>2. t \in T!Trans /\ TellVtdu("DEL", t) /\ ch' = ch /\ to' = to /\ "DEL" \in {"ADD", "DEL"}
  <2>1. t \in T!Trans
    BY <1>1 DEF Grants, GivenBack
  <2>2. QED BY <1>1, <2>1 DEF DevBye, Ignored, T!GiveBack
<1>3. /\ \A e, j : D!InCallers(e, j)' <=> D!InCallers(e, j)
      /\ \A d : Talking(d)' <=> Talking(d)
      /\ dlg' = dlg
  BY <1>1, DialogsKept, SameDialogs
<1>4. /\ \A y : HasCall(y)' <=> HasCall(y)
      /\ \A y : HasTid(y)' <=> HasTid(y)
  BY <1>3 DEF HasCall, HasTid
<1>5. Listing'
  BY <1>3, ListingStays DEF Owners
<1>6. Aims'
  BY <1>1, <1>2, <1>3 DEF Owners, Aims, Switched
<1>7. Acks'
  <2>1. 1 \in Nat /\ \A k \in 1 .. Len(toMC) : 1 < k => k # 1
    OBVIOUS
  <2>2. QED BY <1>1, <1>4, <2>1, AcksMoveUp DEF Owners
<1>8. Calls'
  BY <1>1, <1>4 DEF Owners, Calls, CallOk, Early, legVars
<1>9. /\ Len(toVtdu) \in Nat
      /\ \A k \in 1 .. Len(toVtdu') :
            \/ k \in 1 .. Len(toVtdu) /\ toVtdu'[k] = toVtdu[k]
            \/ k = Len(toVtdu) + 1 /\ toVtdu'[k] = [op |-> "DEL", ch |-> ch[t], to |-> to[t]]
      /\ \A k \in 1 .. Len(toVtdu) : k \in 1 .. Len(toVtdu') /\ toVtdu'[k] = toVtdu[k]
      /\ Len(toVtdu) + 1 \in 1 .. Len(toVtdu')
      /\ toVtdu'[Len(toVtdu) + 1] = [op |-> "DEL", ch |-> ch[t], to |-> to[t]]
  BY <1>0, <1>2, ToldIs
<1>10. ASSUME NEW c, NEW y, NEW k \in 0 .. Len(toVtdu), Owned(c, y, k)
       PROVE  Owned(c, y, k)'
  <2>1. CASE \E j \in 1 .. Len(toVtdu) : k < j /\ toVtdu[j] = [op |-> "DEL", ch |-> c, to |-> y]
    BY <1>9, <2>1 DEF Owned
  <2>2. CASE c = Target[y] /\ HasCall(y)
    BY <1>4, <2>2 DEF Owned, Holder
  <2>3. CASE \E j \in 1 .. Len(toMC) : Ends(j) /\ Switched(toMC[j].tid, c, y)
    <3>1. PICK j \in 1 .. Len(toMC) : Ends(j) /\ Switched(toMC[j].tid, c, y)
      BY <2>3
    <3>2. CASE j = 1
      <4>1. ch[t] = c /\ to[t] = y
        BY <3>1, <3>2 DEF Switched
      <4>2. k < Len(toVtdu) + 1
        BY <1>9
      <4>3. QED BY <1>9, <4>1, <4>2 DEF Owned
    <3>3. CASE j # 1
      <4>1. PICK i \in 1 .. Len(toMC') : i = j - 1 /\ toMC'[i] = toMC[j]
        BY <1>1, <3>3
      <4>2. Ends(i)' /\ Switched(toMC[i].tid, c, y)'
        BY <1>2, <3>1, <4>1 DEF Ends, Switched
      <4>3. QED BY <4>2 DEF Owned, Holder
    <3>4. QED BY <3>2, <3>3
  <2>4. QED BY <1>10, <2>1, <2>2, <2>3 DEF Owned, Holder
<1>11. Switches'
  <2>1. 0 \in 0 .. Len(toVtdu) /\ \A k \in 1 .. Len(toVtdu) : k \in 0 .. Len(toVtdu)
    BY <1>9
  <2>2. \A s \in switches' : Owned(s[1], s[2], 0)'
    BY <1>1, <1>10, <2>1 DEF Owners, Switches
  <2>3. ASSUME NEW k \in 1 .. Len(toVtdu'), toVtdu'[k].op = "ADD"
        PROVE  Owned(toVtdu[k].ch, toVtdu[k].to, k)'
    <3>1. k \in 1 .. Len(toVtdu) /\ toVtdu'[k] = toVtdu[k]
      BY <1>9, <2>3
    <3>2. QED BY <1>10, <2>1, <2>3, <3>1 DEF Owners, Switches
  <2>4. QED BY <2>2, <2>3 DEF Switches
<1>12. QED BY <1>5, <1>6, <1>7, <1>8, <1>11 DEF Owners

\* The VTDU's thread: an ADD_SWITCH passes its owner on to the forwarding, a
\* DEL_SWITCH ends the forwarding it owned.
LEMMA VtduOwns ==
    ASSUME TInv, TypeOK', Owners, VtduSwitch
    PROVE  Owners'
<1>0. TypeOK
  BY DEF TInv
<1> DEFINE m == toVtdu[1]
<1>1. /\ toVtdu # <<>> /\ toVtdu' = Tail(toVtdu) /\ toMC' = toMC /\ toGB' = toGB
      /\ UNCHANGED gbVars /\ UNCHANGED devVars /\ UNCHANGED <<legVars, up, down>>
  BY DEF VtduSwitch
<1>2. /\ Head(toVtdu) = m /\ m \in ToVtduMsg /\ 1 \in 1 .. Len(toVtdu)
      /\ \A k \in 1 .. Len(toVtdu') : k + 1 \in 1 .. Len(toVtdu) /\ toVtdu'[k] = toVtdu[k + 1]
      /\ \A k \in 1 .. Len(toVtdu) :
            k = 1 \/ (k - 1 \in 1 .. Len(toVtdu') /\ toVtdu'[k - 1] = toVtdu[k])
  BY <1>0, <1>1, FromTail DEF TypeOK
<1>3. m.op \in {"ADD", "DEL"}
  BY <1>2 DEF ToVtduMsg
<1>4. /\ \A e, j : D!InCallers(e, j)' <=> D!InCallers(e, j)
      /\ \A d : Talking(d)' <=> Talking(d)
      /\ dlg' = dlg
  BY <1>1, DialogsKept, SameDialogs
<1>5. /\ \A y : HasCall(y)' <=> HasCall(y)
      /\ \A y : HasTid(y)' <=> HasTid(y)
  BY <1>4 DEF HasCall, HasTid
<1>6. Listing'
  BY <1>4, ListingStays DEF Owners
<1>7. Aims'
  BY <1>1, <1>4 DEF Owners, Aims, Switched, devVars
<1>8. Acks'
  BY <1>1, <1>5 DEF Owners, Acks, Ends
<1>9. Calls'
  BY <1>1, <1>5 DEF Owners, Calls, CallOk, Early, legVars
<1>10. \A c, y : Holder(c, y) => Holder(c, y)'
  BY <1>1, <1>5 DEF Holder, Ends, Switched, devVars
<1>11. ASSUME NEW c, NEW y, NEW k \in Nat, Owned(c, y, k + 1)
       PROVE  Owned(c, y, k)'
  <2>1. CASE Holder(c, y)
    BY <1>10, <2>1 DEF Owned
  <2>2. CASE \E j \in 1 .. Len(toVtdu) : k + 1 < j /\ toVtdu[j] = [op |-> "DEL", ch |-> c, to |-> y]
    <3>1. PICK j \in 1 .. Len(toVtdu) : k + 1 < j /\ toVtdu[j] = [op |-> "DEL", ch |-> c, to |-> y]
      BY <2>2
    <3>2. j - 1 \in 1 .. Len(toVtdu') /\ toVtdu'[j - 1] = toVtdu[j] /\ k < j - 1
      BY <1>2, <3>1
    <3>3. PICK i \in 1 .. Len(toVtdu') : i = j - 1
      BY <3>2
    <3>4. QED BY <3>1, <3>2, <3>3 DEF Owned
  <2>3. QED BY <1>11, <2>1, <2>2 DEF Owned
<1>12. ASSUME NEW s \in switches'
       PROVE  Owned(s[1], s[2], 0)'
  <2>1. CASE s \in switches
    <3>1. Owned(s[1], s[2], 0)
      BY <2>1 DEF Owners, Switches
    <3>2. s[2] # Null /\ s = <<s[1], s[2]>>
      BY <1>0, <2>1, NullAssumption DEF TypeOK
    <3>3. m # [op |-> "DEL", ch |-> s[1], to |-> s[2]]
      <4>1. SUFFICES ASSUME m = [op |-> "DEL", ch |-> s[1], to |-> s[2]]
                     PROVE  FALSE
        OBVIOUS
      <4>2. m.op = "DEL" /\ m.ch = s[1] /\ m.to = s[2]
        BY <4>1
      <4>3. switches' = switches \ {<<m.ch, m.to>>}
        BY <1>2, <3>2, <4>2 DEF VtduSwitch
      <4>4. QED BY <1>12, <3>2, <4>2, <4>3
    <3>4. Owned(s[1], s[2], 0 + 1)
      <4>1. CASE Holder(s[1], s[2])
        BY <4>1 DEF Owned
      <4>2. CASE \E j \in 1 .. Len(toVtdu) : toVtdu[j] = [op |-> "DEL", ch |-> s[1], to |-> s[2]]
        <5>1. PICK j \in 1 .. Len(toVtdu) : toVtdu[j] = [op |-> "DEL", ch |-> s[1], to |-> s[2]]
          BY <4>2
        <5>2. j # 1
          BY <3>3, <5>1
        <5>3. 0 + 1 < j
          BY <5>2
        <5>4. QED BY <5>1, <5>3 DEF Owned
      <4>3. QED BY <3>1, <4>1, <4>2 DEF Owned
    <3>5. QED BY <1>11, <3>4
  <2>2. CASE s \notin switches
    <3>1. m.op = "ADD" /\ s = <<m.ch, m.to>>
      BY <1>2, <1>3, <1>12, <2>2 DEF VtduSwitch
    <3>2. Owned(m.ch, m.to, 0 + 1)
      BY <1>2, <3>1 DEF Owners, Switches
    <3>3. QED BY <1>11, <3>1, <3>2
  <2>3. QED BY <2>1, <2>2
<1>13. ASSUME NEW k \in 1 .. Len(toVtdu'), toVtdu'[k].op = "ADD"
       PROVE  Owned(toVtdu[k].ch, toVtdu[k].to, k)'
  <2>1. k + 1 \in 1 .. Len(toVtdu) /\ toVtdu'[k] = toVtdu[k + 1] /\ k \in Nat
    BY <1>2
  <2>2. Owned(toVtdu[k + 1].ch, toVtdu[k + 1].to, k + 1)
    BY <1>13, <2>1 DEF Owners, Switches
  <2>3. PICK c, y : c = toVtdu[k + 1].ch /\ y = toVtdu[k + 1].to
    OBVIOUS
  <2>4. Owned(c, y, k)'
    BY <1>11, <2>1, <2>2, <2>3
  <2>5. c = toVtdu'[k].ch /\ y = toVtdu'[k].to
    BY <2>1, <2>3
  <2>6. QED BY <2>4, <2>5
<1>14. Switches'
  BY <1>12, <1>13 DEF Switches
<1>15. QED BY <1>6, <1>7, <1>8, <1>9, <1>14 DEF Owners

-----------------------------------------------------------------------------
(* The platforms and the network. *)

\* An acknowledged call has its dialog; a BYE comes after the last ACK.
LEMMA PlatformKeepsCall ==
    ASSUME TypeOK, TypeOK', Kept, NEW l \in Leg, CallOk(l), HasCall(l)' <=> HasCall(l),
           NEW x \in Leg, Platform(x) \/ Network(x)
    PROVE  CallOk(l)'
<1>0. /\ up[l] \in Seq(Method) /\ down[l] \in Seq(Code)
      /\ "ACK" \in Method /\ "BYE" \in Method /\ "INVITE" \in Method
      /\ phase[l] \in {"idle", "calling", "confirmed", "refused", "closing", "closed"}
  BY DEF TypeOK, Method
<1>1. CASE x # l
  <2>1. up'[l] = up[l] /\ down'[l] = down[l] /\ phase'[l] = phase[l]
    BY <1>1 DEF TypeOK, Platform, Network, Invite, Answered, HangUp, HangUpAgain, Closed, Stray,
       Lose, LateInvite, Send, Receives, Goes, Repeats, legVars
  <2>2. QED BY <2>1 DEF CallOk, Early
<1>2. CASE x = l /\ (Invite(l) \/ LateInvite(l))
  <2>1. up'[l] = Append(up[l], "INVITE") /\ down'[l] = down[l] /\ (Early(l)' => Early(l))
    BY <1>2 DEF TypeOK, Invite, LateInvite, Send, Early
  <2>2. QED BY <2>1, CallRests
<1>3. CASE x = l /\ (Stray(l) \/ Lose(l))
  <2>1. /\ Early(l)' => Early(l)
        /\ up'[l] = up[l] \/ (up[l] # <<>> /\ up'[l] = Tail(up[l]))
        /\ down'[l] = down[l] \/ (down[l] # <<>> /\ down'[l] = Tail(down[l]))
    BY <1>3 DEF TypeOK, Stray, Lose, Early, legVars
  <2>2. QED BY <2>1, CallRests
<1>4. CASE x = l /\ Closed(l)
  <2>1. /\ Early(l)' => Early(l)
        /\ up'[l] = up[l] /\ down[l] # <<>> /\ down'[l] = Tail(down[l])
    BY <1>4 DEF TypeOK, Closed, Early, Receives, Goes
  <2>2. QED BY <2>1, CallRests
<1>5. CASE x = l /\ (HangUp(l) \/ HangUpAgain(l))
  <2>1. ~Early(l) /\ ~Early(l)' /\ up'[l] = Append(up[l], "BYE") /\ down'[l] = down[l]
    BY <1>5 DEF TypeOK, HangUp, HangUpAgain, Kept, Early, Goes, Send
  <2>2. /\ In(up'[l], "ACK") => In(up[l], "ACK")
        /\ AckFirst(up[l]) => AckFirst(up'[l])
    BY <1>0, <2>1, InAppend
  <2>3. QED BY <2>1, <2>2 DEF CallOk
<1>6. CASE x = l /\ Answered(l)
  <2>1. /\ Early(l) /\ ~Early(l)' /\ up'[l] = Append(up[l], "ACK")
        /\ down[l] # <<>> /\ Head(down[l]) \in {"OK", "FAIL"}
    BY <1>6 DEF TypeOK, Answered, Early, Receives, Goes, Send
  <2>2. In(down[l], Head(down[l]))
    BY <1>0, <2>1, InTail
  <2>3. Target[l] \in Item => HasCall(l)
    BY <2>1, <2>2 DEF CallOk
  <2>4. AckFirst(up'[l])
    <3>1. AckFirst(up[l]) /\ ~In(up[l], "BYE")
      BY <2>1 DEF CallOk
    <3>2. QED BY <1>0, <2>1, <3>1, InAppend
  <2>5. QED BY <2>1, <2>3, <2>4 DEF CallOk
<1>7. QED BY <1>1, <1>2, <1>3, <1>4, <1>5, <1>6 DEF Platform, Network

LEMMA PlatformOwns ==
    ASSUME TInv, TypeOK', Kept, Owners, NEW x \in Leg, Platform(x) \/ Network(x)
    PROVE  Owners'
<1>1. /\ UNCHANGED gbVars /\ UNCHANGED devVars
      /\ toMC' = toMC /\ toGB' = toGB /\ toVtdu' = toVtdu /\ switches' = switches
  BY PlatformStep DEF sysVars
<1>2. /\ Listing' /\ Aims' /\ Acks' /\ Switches'
      /\ \A y : HasCall(y)' <=> HasCall(y)
  BY <1>1, NothingOwned
<1>3. \A l \in Leg : CallOk(l)'
  BY <1>2, PlatformKeepsCall DEF TInv, Owners, Calls
<1>4. QED BY <1>2, <1>3 DEF Owners, Calls

-----------------------------------------------------------------------------
(* The theorem. *)

LEMMA OwnInit == Init => OwnInv
<1> SUFFICES ASSUME Init
             PROVE  Owners
  BY DEF OwnInv
<1>1. /\ toMC = <<>> /\ toGB = <<>> /\ toVtdu = <<>> /\ switches = {}
      /\ \A d : \A i \in Item : ~D!InCallers(d, i)
      /\ \A l \in Leg : up[l] = <<>> /\ down[l] = <<>>
  BY DEF Init, D!Init, D!InCallers, D!Occurs
<1>2. \A d : ~Talking(d)
  BY <1>1 DEF Talking, D!Listed
<1>3. Calls
  BY <1>1 DEF Calls, CallOk, In, AckFirst
<1>4. QED BY <1>1, <1>2, <1>3 DEF Owners, Listing, Aims, Acks, Switches

LEMMA OwnNext ==
    ASSUME TInv, TInv', GrantInv, OwnInv, [Next]_vars
    PROVE  OwnInv'
<1>0. (Kept' <=> Kept) /\ (Roomy' <=> Roomy)
  BY FaultsStay DEF Kept, Ample, Roomy
<1>1. SUFFICES ASSUME Kept, Roomy
               PROVE  Owners'
  BY <1>0 DEF OwnInv
<1>2. HT!UnusedIsRest /\ Requests /\ Grants /\ Owners /\ TypeOK'
  BY <1>1 DEF GrantInv, OwnInv, TInv
<1>3. CASE UNCHANGED vars
  <2>1. /\ UNCHANGED gbVars /\ UNCHANGED devVars /\ UNCHANGED <<legVars, up, down>>
        /\ toMC' = toMC /\ toGB' = toGB /\ toVtdu' = toVtdu /\ switches' = switches
    BY <1>3 DEF vars, gbVars, devVars, legVars
  <2>2. /\ Listing' /\ Aims' /\ Acks' /\ Switches'
        /\ \A y : HasCall(y)' <=> HasCall(y)
    BY <1>2, <2>1, NothingOwned
  <2>3. QED BY <1>2, <2>1, <2>2 DEF Owners, Calls, CallOk, Early, legVars
<1>4. QED BY <1>1, <1>2, <1>3, InviteOwns, RefusedOwns, AckOwns, ByeOwns, ReplyOwns, DevInviteOwns,
             DevAckOwns, DevByeOwns, VtduOwns, PlatformOwns DEF Next, GbStep, DevStep

\* While no BYE is early and there is a dialog for every call, the VTDU forwards
\* to nobody whose call has ended: deal_rmt_bye, rmt_bye_media and the
\* DEL_SWITCH reach every forwarding that an ACK has asked for.
THEOREM ForwardingHasOwner == Spec => []ForwardingIsOwned
<1>1. Init => OwnInv
  BY OwnInit
<1>2. TInv /\ TInv' /\ GrantInv /\ OwnInv /\ [Next]_vars => OwnInv'
  BY OwnNext
<1>3. TInv /\ GrantInv /\ OwnInv => ForwardingIsOwned
  <2> SUFFICES ASSUME TInv, GrantInv, OwnInv, Kept, Roomy, NEW s \in switches
               PROVE  LET mine(t) == ch[t] = s[1] /\ to[t] = s[2]
                      IN  \/ \E d \in D!DlgId : /\ D!InCallers(d, s[1])
                                                /\ dlg[d].cid = s[2]
                                                /\ dlg[d].tid \in T!Trans /\ mine(dlg[d].tid)
                          \/ \E k \in DOMAIN toMC : /\ toMC[k].type = "BYE"
                                                    /\ toMC[k].tid \in T!Trans
                                                    /\ mine(toMC[k].tid)
                          \/ \E k \in DOMAIN toVtdu :
                                toVtdu[k] = [op |-> "DEL", ch |-> s[1], to |-> s[2]]
    BY DEF ForwardingIsOwned
  <2>1. Owners /\ Grants /\ TypeOK
    BY DEF OwnInv, GrantInv, TInv
  <2>2. PICK own \in [T!Trans -> D!DlgId] : Granted(own) /\ GivenBack(own)
    BY <2>1 DEF Grants
  <2>3. Owned(s[1], s[2], 0)
    BY <2>1 DEF Owners, Switches
  <2>4. DOMAIN toMC = 1 .. Len(toMC) /\ DOMAIN toVtdu = 1 .. Len(toVtdu)
    BY <2>1, LenProperties DEF TypeOK
  <2>5. CASE s[1] = Target[s[2]] /\ HasCall(s[2])
    <3>1. PICK d \in D!DlgId : Talking(d) /\ dlg[d].cid = s[2]
      BY <2>5 DEF HasCall
    <3>2. D!InCallers(d, s[1])
      BY <2>1, <2>5, <3>1, CallIs DEF Owners
    <3>3. dlg[d].tid \in T!Trans /\ Switched(dlg[d].tid, s[1], s[2])
      BY <2>1, <2>2, <2>5, <3>1 DEF Granted, Owners, Aims
    <3>4. QED BY <3>1, <3>2, <3>3 DEF Switched
  <2>6. CASE \E k \in 1 .. Len(toMC) : Ends(k) /\ Switched(toMC[k].tid, s[1], s[2])
    BY <2>2, <2>4, <2>6 DEF Ends, Switched, GivenBack
  <2>7. CASE \E k \in 1 .. Len(toVtdu) : toVtdu[k] = [op |-> "DEL", ch |-> s[1], to |-> s[2]]
    BY <2>4, <2>7
  <2>8. QED BY <2>3, <2>5, <2>6, <2>7 DEF Owned, Holder
<1>4. QED BY <1>1, <1>2, <1>3, CallInvariant, GrantInvariant, PTL DEF Spec

-----------------------------------------------------------------------------
(* The server as a MediaService, its safety half.  An ACK, and what follows  *)
(* from it in each queue, is of a platform that accepted; a BYE, and what    *)
(* follows from it, of one that hung up.                                     *)

Settled(l) == phase[l] \in {"confirmed", "closing", "closed"}
Gone(l) == phase[l] \in {"closing", "closed"}

SentMeans(l) ==
    /\ Target[l] \in Item /\ In(up[l], "ACK") => Settled(l)
    /\ In(up[l], "BYE") => Gone(l)
MessageMeans(k) ==
    /\ toMC[k].type = "ACK" => to[toMC[k].tid] \in Leg /\ Settled(to[toMC[k].tid])
    /\ Ends(k) => to[toMC[k].tid] \in Leg /\ Gone(to[toMC[k].tid])
ToldMeans(k) ==
    /\ toVtdu[k].to \in Leg
    /\ toVtdu[k].op = "ADD" => Settled(toVtdu[k].to)
    /\ toVtdu[k].op = "DEL" => Gone(toVtdu[k].to)

Meanings ==
    /\ \A l \in Leg : SentMeans(l)
    /\ \A k \in 1 .. Len(toMC) : MessageMeans(k)
    /\ \A k \in 1 .. Len(toVtdu) : ToldMeans(k)

MeanInv == Kept /\ Roomy => Meanings

\* A call that was accepted, or hung up, stays so.
LEMMA PhasesGrow ==
    ASSUME TypeOK, [Next]_vars
    PROVE  /\ \A l \in Leg : Settled(l) => Settled(l)'
           /\ \A l \in Leg : Gone(l) => Gone(l)'
<1>1. CASE phase' = phase
  BY <1>1 DEF Settled, Gone
<1>2. ASSUME NEW x \in Leg, NEW p, phase' = [phase EXCEPT ![x] = p],
             \/ phase[x] \in {"idle", "calling"}
             \/ phase[x] = "confirmed" /\ p = "closing"
             \/ phase[x] = "closing" /\ p = "closed"
      PROVE  /\ \A l \in Leg : Settled(l) => Settled(l)'
             /\ \A l \in Leg : Gone(l) => Gone(l)'
  <2>1. \A l \in Leg : phase'[l] = IF l = x THEN p ELSE phase[l]
    BY <1>2 DEF TypeOK
  <2>2. QED BY <1>2, <2>1 DEF Settled, Gone
<1>3. ASSUME NEW l \in Leg, Platform(l) \/ Network(l)
      PROVE  \/ phase' = phase
             \/ \E p : /\ phase' = [phase EXCEPT ![l] = p]
                       /\ \/ phase[l] \in {"idle", "calling"}
                          \/ phase[l] = "confirmed" /\ p = "closing"
                          \/ phase[l] = "closing" /\ p = "closed"
  <2>1. CASE Invite(l)
    BY <2>1 DEF Invite
  <2>2. CASE Answered(l)
    BY <2>2 DEF Answered, Goes
  <2>3. CASE HangUp(l)
    BY <2>3 DEF HangUp, Goes
  <2>4. CASE Closed(l)
    BY <2>4 DEF Closed, Goes
  <2>5. CASE HangUpAgain(l) \/ Stray(l) \/ Network(l)
    BY <2>5 DEF HangUpAgain, Stray, Network, Lose, LateInvite, legVars
  <2>6. QED BY <1>3, <2>1, <2>2, <2>3, <2>4, <2>5 DEF Platform
<1>4. CASE ~\E l \in Leg : Platform(l) \/ Network(l)
  <2>1. phase' = phase
    BY <1>4 DEF Next, GbStep, DevStep, GbInvite, GbInviteRefused, GbInviteRepeated, GbAck, GbBye,
       GbByeUnknown, GbReply, DevInvite, DevAck, DevBye, VtduSwitch, legVars, vars
  <2>2. QED BY <1>1, <2>1
<1>5. QED BY <1>1, <1>2, <1>3, <1>4

\* Each message was there before, or means what it should.
LEMMA MeaningsStay ==
    ASSUME TypeOK, [Next]_vars, Meanings, NEW s \in Nat, NEW v \in Nat,
           \A l \in Leg : \/ \A x \in {"ACK", "BYE"} : In(up'[l], x) => In(up[l], x)
                          \/ SentMeans(l)',
           \A k \in 1 .. Len(toMC') :
              \/ /\ k + s \in 1 .. Len(toMC) /\ toMC'[k] = toMC[k + s]
                 /\ toMC[k + s].type \in {"ACK", "BYE"} =>
                       to'[toMC[k + s].tid] = to[toMC[k + s].tid]
              \/ MessageMeans(k)',
           \A k \in 1 .. Len(toVtdu') :
              \/ k + v \in 1 .. Len(toVtdu) /\ toVtdu'[k] = toVtdu[k + v]
              \/ ToldMeans(k)'
    PROVE  Meanings'
<1>1. /\ \A l \in Leg : Settled(l) => Settled(l)'
      /\ \A l \in Leg : Gone(l) => Gone(l)'
  BY PhasesGrow
<1>2. ASSUME NEW l \in Leg
      PROVE  SentMeans(l)'
  <2>1. CASE \A x \in {"ACK", "BYE"} : In(up'[l], x) => In(up[l], x)
    BY <1>1, <2>1 DEF Meanings, SentMeans
  <2>2. QED BY <2>1
<1>3. ASSUME NEW k \in 1 .. Len(toMC')
      PROVE  MessageMeans(k)'
  <2>1. CASE MessageMeans(k)'
    BY <2>1
  <2>2. CASE ~MessageMeans(k)'
    <3>1. PICK j \in 1 .. Len(toMC) : j = k + s
      BY <2>2
    <3>2. PICK x : x = to[toMC[j].tid]
      OBVIOUS
    <3>3. /\ toMC'[k] = toMC[j] /\ MessageMeans(j)
          /\ toMC[j].type \in {"ACK", "BYE"} => to'[toMC[j].tid] = x
      BY <2>2, <3>1, <3>2 DEF Meanings
    <3>4. /\ toMC'[k].type = "ACK" => x \in Leg /\ Settled(x)'
          /\ toMC'[k].type = "BYE" => x \in Leg /\ Gone(x)'
      BY <1>1, <3>2, <3>3 DEF MessageMeans, Ends
    <3>5. /\ toMC'[k].type = "ACK" => to'[toMC'[k].tid] = x
          /\ toMC'[k].type = "BYE" => to'[toMC'[k].tid] = x
      BY <3>3
    <3>6. QED BY <3>4, <3>5 DEF MessageMeans, Ends, Settled, Gone
  <2>3. QED BY <2>1, <2>2
<1>4. ASSUME NEW k \in 1 .. Len(toVtdu')
      PROVE  ToldMeans(k)'
  <2>1. CASE ToldMeans(k)'
    BY <2>1
  <2>2. CASE ~ToldMeans(k)'
    <3>1. PICK j \in 1 .. Len(toVtdu) : j = k + v
      BY <2>2
    <3>2. toVtdu'[k] = toVtdu[j] /\ ToldMeans(j) /\ toVtdu[j].to \in Leg
      BY <2>2, <3>1 DEF Meanings, ToldMeans
    <3>3. QED BY <1>1, <3>2 DEF ToldMeans, Settled, Gone
  <2>3. QED BY <2>1, <2>2
<1>5. QED BY <1>2, <1>3, <1>4 DEF Meanings

\* What a platform sent is what the GB server takes from its socket.
LEMMA UpShrinks ==
    ASSUME TypeOK, NEW l \in Leg, NEW method, Arrives(l, method)
    PROVE  /\ In(up[l], method)
           /\ \A x \in Leg : \A y : In(up'[x], y) => In(up[x], y)
<1>1. /\ up[l] \in Seq(Method) /\ up[l] # <<>> /\ Head(up[l]) = method
      /\ \A x \in Leg : up'[x] = IF x = l THEN Tail(up[l]) ELSE up[x]
  BY DEF TypeOK, Arrives
<1>2. QED BY <1>1, InTail

\* Nothing moves between the threads.
LEMMA QuietMeans ==
    ASSUME TypeOK, [Next]_vars, Meanings, toMC' = toMC, toVtdu' = toVtdu, to' = to,
           \A l \in Leg : \/ \A x \in {"ACK", "BYE"} : In(up'[l], x) => In(up[l], x)
                          \/ SentMeans(l)'
    PROVE  Meanings'
<1>1. /\ \A k \in 1 .. Len(toMC') :
            /\ k + 0 \in 1 .. Len(toMC) /\ toMC'[k] = toMC[k + 0]
            /\ toMC[k + 0].type \in {"ACK", "BYE"} =>
                  to'[toMC[k + 0].tid] = to[toMC[k + 0].tid]
      /\ \A k \in 1 .. Len(toVtdu') : k + 0 \in 1 .. Len(toVtdu) /\ toVtdu'[k] = toVtdu[k + 0]
      /\ 0 \in Nat
  OBVIOUS
<1>2. QED BY <1>1, MeaningsStay

\* The GB server sends one message to the message centre.
LEMMA SentOn ==
    ASSUME TypeOK, [Next]_vars, Meanings, toVtdu' = toVtdu, to' = to,
           NEW e \in ToMcMsg, toMC' = Append(toMC, e),
           e.type = "ACK" => to[e.tid] \in Leg /\ Settled(to[e.tid]),
           e.type = "BYE" => to[e.tid] \in Leg /\ Gone(to[e.tid]),
           \A l \in Leg : \A x : In(up'[l], x) => In(up[l], x)
    PROVE  Meanings'
<1>1. \A k \in 1 .. Len(toMC') : \/ k \in 1 .. Len(toMC) /\ toMC'[k] = toMC[k]
                                 \/ k = Len(toMC) + 1 /\ toMC'[k] = e
  <2>1. toMC \in Seq(ToMcMsg)
    BY DEF TypeOK
  <2>2. QED BY <2>1, FromAppend
<1>2. ASSUME NEW k \in 1 .. Len(toMC')
      PROVE  \/ /\ k + 0 \in 1 .. Len(toMC) /\ toMC'[k] = toMC[k + 0]
                /\ toMC[k + 0].type \in {"ACK", "BYE"} =>
                      to'[toMC[k + 0].tid] = to[toMC[k + 0].tid]
             \/ MessageMeans(k)'
  <2>1. CASE k \in 1 .. Len(toMC) /\ toMC'[k] = toMC[k]
    BY <2>1
  <2>2. CASE toMC'[k] = e
    <3>1. PICK x : x = to[e.tid]
      OBVIOUS
    <3>2. /\ e.type = "ACK" => x \in Leg /\ Settled(x)'
          /\ e.type = "BYE" => x \in Leg /\ Gone(x)'
      BY <3>1, PhasesGrow
    <3>3. to'[toMC'[k].tid] = x
      BY <2>2, <3>1
    <3>4. QED BY <2>2, <3>2, <3>3 DEF MessageMeans, Ends, Settled, Gone
  <2>3. QED BY <1>1, <2>1, <2>2
<1>3. 0 \in Nat /\ \A k \in 1 .. Len(toVtdu') : k + 0 \in 1 .. Len(toVtdu) /\ toVtdu'[k] = toVtdu[k + 0]
  OBVIOUS
<1>4. \A l \in Leg : \A x \in {"ACK", "BYE"} : In(up'[l], x) => In(up[l], x)
  OBVIOUS
<1>5. QED BY <1>2, <1>3, <1>4, MeaningsStay

\* The GB server's handlers.  An ACK is sent on for a call that was accepted,
\* a BYE for one that was hung up.
LEMMA GbMeans ==
    ASSUME TInv, Kept, Requests, Owners, Meanings, [Next]_vars, NEW l \in Leg,
           \/ GbInvite(l) \/ GbInviteRefused(l) \/ GbInviteRepeated(l)
           \/ GbAck(l) \/ GbBye(l) \/ GbByeUnknown(l)
    PROVE  Meanings'
<1>0. TypeOK
  BY DEF TInv
<1>1. toVtdu' = toVtdu /\ to' = to
  BY DEF GbInvite, GbInviteRefused, GbInviteRepeated, GbAck, GbBye, GbByeUnknown, devVars
<1>2. PICK method \in Method :
         /\ Arrives(l, method)
         /\ GbAck(l) => method = "ACK"
         /\ GbBye(l) => method = "BYE"
  <2>1. /\ GbAck(l) => Arrives(l, "ACK")
        /\ GbBye(l) \/ GbByeUnknown(l) => Arrives(l, "BYE")
        /\ GbInvite(l) \/ GbInviteRefused(l) \/ GbInviteRepeated(l) => Arrives(l, "INVITE")
    BY DEF GbInvite, GbInviteRefused, GbInviteRepeated, GbAck, GbBye, GbByeUnknown
  <2>2. \A m : Arrives(l, m) => m = Head(up[l])
    BY DEF Arrives
  <2>3. {"INVITE", "ACK", "BYE"} \subseteq Method
    BY DEF Method
  <2>4. Head(up[l]) \in Method /\ Arrives(l, Head(up[l]))
    BY <2>1, <2>2, <2>3
  <2>5. QED BY <2>1, <2>2, <2>4
<1>3. /\ In(up[l], method)
      /\ \A x \in Leg : \A y : In(up'[x], y) => In(up[x], y)
  BY <1>0, <1>2, UpShrinks
<1>4. CASE toMC' = toMC
  BY <1>0, <1>1, <1>3, <1>4, QuietMeans
<1>5. CASE GbInvite(l)
  <2> DEFINE e == [type |-> "INVITE", dlg |-> Head(free), leg |-> l]
  <2>1. D!AddDialog(Target[l], ReqOf(l)) /\ Target[l] \in Item /\ toMC' = Append(toMC, e)
    BY <1>5 DEF GbInvite, D!InviteNew
  <2>2. Head(free) \in D!DlgId
    BY <1>0, <2>1, AddedWaits
  <2>3. e \in ToMcMsg /\ e.type = "INVITE"
    BY <2>2 DEF ToMcMsg
  <2> HIDE DEF e
  <2>4. QED BY <1>0, <1>1, <1>3, <2>1, <2>3, SentOn
<1>6. CASE GbAck(l) /\ toMC' # toMC
  <2>1. PICK d \in D!DlgId : /\ Talking(d) /\ dlg[d].cid = l
                             /\ [type |-> "ACK", tid |-> dlg[d].tid] \in ToMcMsg
                             /\ toMC' = Append(toMC, [type |-> "ACK", tid |-> dlg[d].tid])
    BY <1>6, AckFinds
  <2> DEFINE e == [type |-> "ACK", tid |-> dlg[d].tid]
  <2>2. e \in ToMcMsg /\ e.type = "ACK" /\ e.tid = dlg[d].tid /\ toMC' = Append(toMC, e)
    BY <2>1
  <2> HIDE DEF e
  <2>3. to[e.tid] = l /\ Target[l] \in Item
    BY <2>1, <2>2, CallIs DEF Owners, Aims, Switched
  <2>4. Settled(l)
    BY <1>2, <1>3, <1>6, <2>3 DEF Meanings, SentMeans
  <2>5. QED BY <1>0, <1>1, <1>3, <2>2, <2>3, <2>4, SentOn
<1>7. CASE GbBye(l)
  <2>1. Target[l] \in Item /\ ~StillInviting(l)
    BY <1>7 DEF GbBye, Arrives, Kept
  <2>2. PICK k \in DOMAIN caller[Target[l]] :
           /\ D!FoundAt(Target[l], k, ReqOf(l)) /\ D!ByeAt(Target[l], k)
           /\ toMC' = Append(toMC, [type |-> "BYE", tid |-> dlg[caller[Target[l]][k]].tid])
    BY <1>7 DEF GbBye, Kept
  <2>3. PICK h \in D!DlgId : h = caller[Target[l]][k]
    BY <1>0, <2>1, ListedDialog
  <2> DEFINE e == [type |-> "BYE", tid |-> dlg[h].tid]
  <2>4. e \in ToMcMsg /\ e.type = "BYE" /\ e.tid = dlg[h].tid /\ toMC' = Append(toMC, e)
    BY <1>0, <2>1, <2>2, <2>3, ListedDialog DEF ToMcMsg
  <2> HIDE DEF e
  <2>5. Talking(h) /\ dlg[h].cid = l
    <3>1. dlg[h].cid = l
      BY <2>2, <2>3 DEF D!FoundAt, D!AckMatch, D!SameCall, ReqOf
    <3>2. QED BY <1>0, <2>1, <2>2, <2>3, <3>1, FoundTalks
  <2>6. to[e.tid] = l
    BY <2>4, <2>5 DEF Owners, Aims, Switched
  <2>7. Gone(l)
    BY <1>2, <1>3, <1>7 DEF Meanings, SentMeans
  <2>8. QED BY <1>0, <1>1, <1>3, <2>4, <2>6, <2>7, SentOn
<1>8. GbInviteRefused(l) \/ GbInviteRepeated(l) \/ GbByeUnknown(l) => toMC' = toMC
  BY DEF GbInviteRefused, GbInviteRepeated, GbByeUnknown, D!InviteFull, D!InviteNewUnsent, Kept
<1>9. QED BY <1>4, <1>5, <1>6, <1>7, <1>8

\* rmt_invite_media: the transmitter that is taken is named by no ACK or BYE.
LEMMA DevInviteMeans ==
    ASSUME TInv, Kept, HT!UnusedIsRest, Requests, Grants, Owners, Meanings, [Next]_vars, DevInvite
    PROVE  Meanings'
<1>0. TypeOK
  BY DEF TInv
<1>1. /\ Len(toMC) \in Nat /\ Head(toMC) = toMC[1] /\ 1 \in 1 .. Len(toMC) /\ Asks(1)
      /\ \A k \in 1 .. Len(toMC') : k + 1 \in 1 .. Len(toMC) /\ toMC'[k] = toMC[k + 1]
      /\ toVtdu' = toVtdu /\ up' = up
  <2>1. /\ toMC # <<>> /\ toMC' = Tail(toMC) /\ Head(toMC).type = "INVITE"
        /\ toVtdu' = toVtdu /\ up' = up
    BY DEF DevInvite, FromGb
  <2>2. QED BY <1>0, <2>1, FromTail DEF TypeOK, Asks
<1>2. ~T!CannotTake(Target[toMC[1].leg]) /\ unused \in T!Trans /\ ~HeldIn(unused)
  <2>1. PICK own \in [T!Trans -> D!DlgId] : Granted(own) /\ GivenBack(own)
    BY DEF Grants
  <2>2. QED BY <1>0, <1>1, <2>1, SomeIsFree DEF Kept
<1>3. \A t : t # unused => to'[t] = to[t]
  <2>1. T!Take(unused, Target[toMC[1].leg], toMC[1].leg)
    BY <1>1, <1>2 DEF DevInvite
  <2>2. QED BY <1>0, <2>1 DEF T!Take, TypeOK, T!TypeOK
<1>4. ASSUME NEW k \in 1 .. Len(toMC), toMC[k].type \in {"ACK", "BYE"}
      PROVE  to'[toMC[k].tid] = to[toMC[k].tid]
  <2>1. HasTid(toMC[k].tid) \/ \E j \in 1 .. Len(toMC) : Ends(j) /\ toMC[j].tid = toMC[k].tid
    BY <1>4 DEF Owners, Acks, Ends
  <2>2. HeldIn(toMC[k].tid)
    BY <2>1 DEF HeldIn, HasTid
  <2>3. QED BY <1>2, <1>3, <2>2
<1>5. \A k \in 1 .. Len(toMC') :
         /\ k + 1 \in 1 .. Len(toMC) /\ toMC'[k] = toMC[k + 1]
         /\ toMC[k + 1].type \in {"ACK", "BYE"} => to'[toMC[k + 1].tid] = to[toMC[k + 1].tid]
  BY <1>1, <1>4
<1>6. /\ \A k \in 1 .. Len(toVtdu') : k + 0 \in 1 .. Len(toVtdu) /\ toVtdu'[k] = toVtdu[k + 0]
      /\ 0 \in Nat /\ 1 \in Nat
      /\ \A l \in Leg : \A x \in {"ACK", "BYE"} : In(up'[l], x) => In(up[l], x)
  BY <1>1
<1>7. QED BY <1>0, <1>5, <1>6, MeaningsStay

\* rmt_ack_media and rmt_bye_media tell the VTDU what the ACK or the BYE meant.
LEMMA DevTellsMeans ==
    ASSUME TInv, Kept, Grants, Meanings, [Next]_vars, DevAck \/ DevBye
    PROVE  Meanings'
<1>0. TypeOK
  BY DEF TInv
<1>1. PICK t : t = toMC[1].tid
  OBVIOUS
<1>2. /\ Len(toMC) \in Nat /\ Head(toMC) = toMC[1] /\ 1 \in 1 .. Len(toMC)
      /\ \A k \in 1 .. Len(toMC') : k + 1 \in 1 .. Len(toMC) /\ toMC'[k] = toMC[k + 1]
      /\ to' = to /\ up' = up
  <2>1. /\ toMC # <<>> /\ toMC' = Tail(toMC) /\ to' = to /\ up' = up
    BY DEF DevAck, DevBye, FromGb, Ignored, T!GiveBack, devVars
  <2>2. QED BY <1>0, <2>1, FromTail DEF TypeOK
<1>3. \A k \in 1 .. Len(toMC') :
         /\ k + 1 \in 1 .. Len(toMC) /\ toMC'[k] = toMC[k + 1]
         /\ toMC[k + 1].type \in {"ACK", "BYE"} => to'[toMC[k + 1].tid] = to[toMC[k + 1].tid]
  BY <1>2
<1>4. \A k \in 1 .. Len(toVtdu') : \/ k + 0 \in 1 .. Len(toVtdu) /\ toVtdu'[k] = toVtdu[k + 0]
                                   \/ ToldMeans(k)'
  <2>1. CASE toVtdu' = toVtdu
    BY <2>1
  <2>2. CASE toVtdu' # toVtdu
    <3>1. PICK op \in {"ADD", "DEL"} :
             /\ t \in T!Trans /\ TellVtdu(op, t)
             /\ toMC[1].type = IF op = "ADD" THEN "ACK" ELSE "BYE"
      BY <1>1, <1>2, <2>2 DEF DevAck, DevBye, FromGb, Ignored
    <3>2. PICK x : x = to[t]
      OBVIOUS
    <3>3. x \in Leg /\ (op = "ADD" => Settled(x)) /\ (op = "DEL" => Gone(x))
      BY <1>1, <1>2, <3>1, <3>2 DEF Meanings, MessageMeans, Ends
    <3>4. (op = "ADD" => Settled(x)') /\ (op = "DEL" => Gone(x)')
      BY <1>0, <3>3, PhasesGrow
    <3>5. ASSUME NEW k \in 1 .. Len(toVtdu')
          PROVE  \/ k + 0 \in 1 .. Len(toVtdu) /\ toVtdu'[k] = toVtdu[k + 0]
                 \/ ToldMeans(k)'
      <4>1. \/ k \in 1 .. Len(toVtdu) /\ toVtdu'[k] = toVtdu[k]
            \/ toVtdu'[k] = [op |-> op, ch |-> ch[t], to |-> to[t]]
        BY <1>0, <3>1, ToldIs
      <4>2. CASE toVtdu'[k] = [op |-> op, ch |-> ch[t], to |-> to[t]]
        <5>1. toVtdu'[k].op = op /\ toVtdu'[k].to = x
          BY <3>2, <4>2
        <5>2. QED BY <3>3, <3>4, <5>1 DEF ToldMeans, Settled, Gone
      <4>3. QED BY <4>1, <4>2
    <3>6. QED BY <3>5
  <2>3. QED BY <2>1, <2>2
<1>5. /\ 0 \in Nat /\ 1 \in Nat
      /\ \A l \in Leg : \A x \in {"ACK", "BYE"} : In(up'[l], x) => In(up[l], x)
  BY <1>2
<1>6. QED BY <1>0, <1>3, <1>4, <1>5, MeaningsStay

LEMMA VtduMeans ==
    ASSUME TInv, Meanings, [Next]_vars, VtduSwitch
    PROVE  Meanings'
<1>0. TypeOK
  BY DEF TInv
<1>1. /\ toVtdu # <<>> /\ toVtdu' = Tail(toVtdu) /\ toMC' = toMC /\ to' = to /\ up' = up
  BY DEF VtduSwitch, devVars
<1>2. \A k \in 1 .. Len(toVtdu') : k + 1 \in 1 .. Len(toVtdu) /\ toVtdu'[k] = toVtdu[k + 1]
  BY <1>0, <1>1, FromTail DEF TypeOK
<1>3. /\ \A k \in 1 .. Len(toMC') :
            /\ k + 0 \in 1 .. Len(toMC) /\ toMC'[k] = toMC[k + 0]
            /\ toMC[k + 0].type \in {"ACK", "BYE"} =>
                  to'[toMC[k + 0].tid] = to[toMC[k + 0].tid]
      /\ 0 \in Nat /\ 1 \in Nat
      /\ \A l \in Leg : \A x \in {"ACK", "BYE"} : In(up'[l], x) => In(up[l], x)
  BY <1>1
<1>4. QED BY <1>0, <1>2, <1>3, MeaningsStay

\* A platform acknowledges what it accepted and sends BYE when it hangs up.
LEMMA PlatformMeans ==
    ASSUME TInv, TypeOK', Kept, Owners, Meanings, [Next]_vars,
           NEW x \in Leg, Platform(x) \/ Network(x)
    PROVE  Meanings'
<1>0. /\ TypeOK /\ up[x] \in Seq(Method) /\ down[x] \in Seq(Code)
      /\ "ACK" \in Method /\ "BYE" \in Method /\ "INVITE" \in Method
  BY DEF TInv, TypeOK, Method
<1>1. toMC' = toMC /\ toVtdu' = toVtdu /\ to' = to
  BY PlatformStep DEF sysVars, devVars
<1>2. \A l \in Leg : l # x => up'[l] = up[l]
  BY <1>0 DEF TypeOK, Platform, Network, Invite, Answered, HangUp, HangUpAgain, Closed, Stray,
     Lose, LateInvite, Send, legVars
<1>3. SentMeans(x) /\ CallOk(x)
  BY DEF Meanings, Owners, Calls
<1>4. \/ \A y \in {"ACK", "BYE"} : In(up'[x], y) => In(up[x], y)
      \/ SentMeans(x)'
  <2>1. CASE Invite(x) \/ LateInvite(x)
    <3>1. up'[x] = Append(up[x], "INVITE")
      BY <1>0, <2>1 DEF TypeOK, Invite, LateInvite, Send
    <3>2. QED BY <1>0, <3>1, InAppend
  <2>2. CASE Stray(x) \/ Lose(x) \/ Closed(x)
    <3>1. up'[x] = up[x] \/ (up[x] # <<>> /\ up'[x] = Tail(up[x]))
      BY <1>0, <2>2 DEF TypeOK, Stray, Lose, Closed
    <3>2. QED BY <1>0, <3>1, InTail
  <2>3. CASE HangUp(x) \/ HangUpAgain(x)
    <3>1. up'[x] = Append(up[x], "BYE") /\ phase'[x] = "closing"
      BY <1>0, <2>3 DEF TypeOK, HangUp, HangUpAgain, Kept, Goes, Send
    <3>2. QED BY <3>1 DEF SentMeans, Settled, Gone
  <2>4. CASE Answered(x)
    <3>1. /\ up'[x] = Append(up[x], "ACK") /\ Early(x) /\ down[x] # <<>>
          /\ \/ Head(down[x]) = "OK" /\ phase'[x] = "confirmed"
             \/ Head(down[x]) = "FAIL"
      BY <1>0, <2>4 DEF TypeOK, Answered, Receives, Goes, Send, Early
    <3>2. ~In(up'[x], "BYE")
      BY <1>0, <1>3, <3>1, InAppend DEF CallOk
    <3>3. CASE Head(down[x]) = "OK" /\ phase'[x] = "confirmed"
      BY <3>2, <3>3 DEF SentMeans, Settled
    <3>4. CASE Head(down[x]) = "FAIL"
      <4>1. Target[x] \notin Item
        BY <1>0, <1>3, <3>1, <3>4, InTail DEF CallOk
      <4>2. QED BY <3>2, <4>1 DEF SentMeans
    <3>5. QED BY <3>1, <3>3, <3>4
  <2>5. QED BY <2>1, <2>2, <2>3, <2>4 DEF Platform, Network
<1>5. \A l \in Leg : \/ \A y \in {"ACK", "BYE"} : In(up'[l], y) => In(up[l], y)
                     \/ SentMeans(l)'
  BY <1>2, <1>4
<1>6. QED BY <1>0, <1>1, <1>5, QuietMeans

LEMMA MeanInit == Init => MeanInv
<1> SUFFICES ASSUME Init
             PROVE  Meanings
  BY DEF MeanInv
<1>1. toMC = <<>> /\ toVtdu = <<>> /\ \A l \in Leg : up[l] = <<>>
  BY DEF Init
<1>2. \A l \in Leg : SentMeans(l)
  BY <1>1 DEF SentMeans, In
<1>3. QED BY <1>1, <1>2 DEF Meanings

LEMMA MeanNext ==
    ASSUME TInv, TInv', GrantInv, OwnInv, MeanInv, [Next]_vars
    PROVE  MeanInv'
<1>1. SUFFICES ASSUME Kept, Roomy
               PROVE  Meanings'
  BY FaultsStay DEF Kept, Ample, Roomy, MeanInv
<1>2. /\ TypeOK /\ TypeOK'
      /\ HT!UnusedIsRest /\ Requests /\ Grants /\ Owners /\ Meanings
  BY <1>1 DEF GrantInv, OwnInv, MeanInv, TInv
<1>3. CASE UNCHANGED vars \/ GbReply
  <2>1. toMC' = toMC /\ toVtdu' = toVtdu /\ to' = to /\ up' = up
    BY <1>3 DEF vars, GbReply, devVars
  <2>2. \A l \in Leg : \A y \in {"ACK", "BYE"} : In(up'[l], y) => In(up[l], y)
    BY <2>1
  <2>3. QED BY <1>2, <2>1, <2>2, QuietMeans
<1>4. QED BY <1>1, <1>2, <1>3, GbMeans, DevInviteMeans, DevTellsMeans, VtduMeans, PlatformMeans
          DEF Next, GbStep, DevStep

-----------------------------------------------------------------------------
\* The server keeps the promises of MediaService that are about what it never
\* does: media goes to a platform only after it accepted the answer, and ends
\* only because it hung up, whatever UDP loses or delays.
Served == (Kept /\ Roomy => M!Init) /\ [][Kept /\ Roomy => M!Next]_(M!vars)

\* What a thread of the server does is a step of the service, or none.
LEMMA SwitchServes ==
    ASSUME TInv, Meanings, VtduSwitch
    PROVE  M!Next \/ UNCHANGED M!vars
<1> DEFINE S == {s[2] : s \in switches}
<1>1. PICK m : m = toVtdu[1]
  OBVIOUS
<1>2. /\ Head(toVtdu) = m /\ m \in ToVtduMsg /\ m.op \in {"ADD", "DEL"}
      /\ m.to \in Leg /\ m.to # Null
      /\ m.op = "ADD" => Settled(m.to)
      /\ m.op = "DEL" => Gone(m.to)
  <2>1. toVtdu # <<>> /\ toVtdu \in Seq(ToVtduMsg)
    BY DEF VtduSwitch, TInv, TypeOK
  <2>2. Head(toVtdu) = toVtdu[1] /\ toVtdu[1] \in ToVtduMsg /\ 1 \in 1 .. Len(toVtdu)
    BY <2>1, TailIs
  <2>3. ToldMeans(1)
    BY <2>2 DEF Meanings
  <2>4. QED BY <1>1, <2>2, <2>3, NullAssumption DEF ToldMeans, ToVtduMsg
<1>3. phase' = phase
  BY DEF VtduSwitch, legVars
<1>4. CASE m.op = "ADD"
  <2>1. switches' = switches \cup {<<m.ch, m.to>>}
    BY <1>2, <1>4 DEF VtduSwitch
  <2>2. S' = S \cup {m.to}
    <3>1. PICK c, x : c = m.ch /\ x = m.to
      OBVIOUS
    <3>2. switches' = switches \cup {<<c, x>>} /\ <<c, x>>[2] = x
      BY <2>1, <3>1
    <3>3. \A s : s \in switches' <=> s \in switches \/ s = <<c, x>>
      BY <3>2
    <3>4. \A y : y \in S' <=> y \in S \/ y = x
      BY <3>2, <3>3
    <3>5. QED BY <3>1, <3>4
  <2>3. CASE m.to \in S
    BY <1>3, <2>2, <2>3 DEF M!vars
  <2>4. CASE m.to \notin S
    <3>1. M!Start(m.to)
      BY <1>2, <1>3, <1>4, <2>2, <2>4 DEF M!Start, Settled
    <3>2. QED BY <1>2, <3>1 DEF M!Next
  <2>5. QED BY <2>3, <2>4
<1>5. CASE m.op = "DEL"
  <2>1. switches' = switches \ {<<m.ch, m.to>>}
    BY <1>2, <1>5 DEF VtduSwitch
  <2>2. S' \subseteq S
    BY <2>1
  <2>3. S \subseteq S' \cup {m.to}
    BY <2>1
  <2>4. CASE S' = S
    BY <1>3, <2>4 DEF M!vars
  <2>5. CASE S' # S
    <3>1. m.to \in S /\ S' = S \ {m.to}
      BY <2>2, <2>3, <2>5
    <3>2. M!Stop(m.to)
      BY <1>2, <1>3, <1>5, <3>1 DEF M!Stop, Gone
    <3>3. QED BY <1>2, <3>2 DEF M!Next
  <2>6. QED BY <2>4, <2>5
<1>6. QED BY <1>2, <1>4, <1>5

\* ... and what a platform does is one of its own steps.
LEMMA PlatformServes ==
    ASSUME TypeOK, Kept, NEW l \in Leg, Platform(l) \/ Network(l)
    PROVE  M!Next \/ UNCHANGED M!vars
<1>1. switches' = switches
  BY PlatformStep DEF sysVars
<1>2. CASE phase' = phase
  BY <1>1, <1>2 DEF M!vars
<1>3. ASSUME NEW p, NEW q, phase[l] = p, phase' = [phase EXCEPT ![l] = q],
             <<p, q>> \in {<<"idle", "calling">>, <<"calling", "confirmed">>, <<"calling", "refused">>,
                           <<"confirmed", "closing">>, <<"closing", "closed">>}
      PROVE  M!Next
  BY <1>1, <1>3 DEF M!Next, M!Goes, M!Call, M!Accept, M!Refuse, M!HangUp, M!Close
<1>4. \/ phase' = phase
      \/ \E p, q : /\ phase[l] = p /\ phase' = [phase EXCEPT ![l] = q]
                   /\ <<p, q>> \in {<<"idle", "calling">>, <<"calling", "confirmed">>,
                                    <<"calling", "refused">>, <<"confirmed", "closing">>,
                                    <<"closing", "closed">>}
  <2>1. CASE Invite(l)
    BY <2>1 DEF Invite, TypeOK
  <2>2. CASE Answered(l)
    BY <2>2 DEF Answered, Goes
  <2>3. CASE HangUp(l)
    BY <2>3 DEF HangUp, Goes, Kept
  <2>4. CASE Closed(l)
    BY <2>4 DEF Closed, Goes
  <2>5. CASE HangUpAgain(l) \/ Stray(l) \/ Network(l)
    BY <2>5 DEF HangUpAgain, Stray, Network, Lose, LateInvite, legVars
  <2>6. QED BY <2>1, <2>2, <2>3, <2>4, <2>5 DEF Platform
<1>5. QED BY <1>2, <1>3, <1>4

LEMMA StepServes ==
    ASSUME TInv, Kept, Meanings, [Next]_vars
    PROVE  M!Next \/ UNCHANGED M!vars
<1>1. CASE \E l \in Leg : Platform(l) \/ Network(l)
  BY <1>1, PlatformServes DEF TInv
<1>2. CASE VtduSwitch
  BY <1>2, SwitchServes
<1>3. CASE UNCHANGED vars \/ GbStep \/ DevStep
  <2>1. phase' = phase /\ switches' = switches
    BY <1>3 DEF GbStep, DevStep, GbInvite, GbInviteRefused, GbInviteRepeated, GbAck, GbBye,
       GbByeUnknown, GbReply, DevInvite, DevAck, DevBye, legVars, vars
  <2>2. QED BY <2>1 DEF M!vars
<1>4. QED BY <1>1, <1>2, <1>3 DEF Next

\* To its platforms the server is a MediaService: no stream to a platform that
\* did not accept, none taken from one that did not hang up.
THEOREM PlatformsAreServed == Spec => Served
<1>1. Init => MeanInv
  BY MeanInit
<1>2. TInv /\ TInv' /\ GrantInv /\ OwnInv /\ MeanInv /\ [Next]_vars => MeanInv'
  BY MeanNext
<1>3. Init => OwnInv
  BY OwnInit
<1>4. TInv /\ TInv' /\ GrantInv /\ OwnInv /\ [Next]_vars => OwnInv'
  BY OwnNext
<1>5. Init => M!Init
  BY DEF Init, M!Init
<1>6. TInv /\ MeanInv /\ [Next]_vars => [Kept /\ Roomy => M!Next]_(M!vars)
  <2> SUFFICES ASSUME TInv, MeanInv, [Next]_vars, Kept, Roomy
               PROVE  M!Next \/ UNCHANGED M!vars
    OBVIOUS
  <2>1. QED BY StepServes DEF MeanInv
<1>7. QED BY <1>1, <1>2, <1>3, <1>4, <1>5, <1>6, CallInvariant, GrantInvariant, PTL DEF Spec, Served
=============================================================================
