--------------------------- MODULE DlgPoolProofs ---------------------------
(***************************************************************************)
(* Proofs about DlgPool, for any number of dialogs, items, calls and tags. *)
(***************************************************************************)
EXTENDS DlgPool, SequenceTheorems, TLAPS

-----------------------------------------------------------------------------
(* What pop, insertion, unlinking and push do to a chain. *)

\* CDlgQueue::pop: the first element goes, the others stay.
LEMMA PopChain ==
    ASSUME NEW S, NEW s \in Seq(S), s # <<>>, NoRepeat(s)
    PROVE  /\ Tail(s) \in Seq(S)
           /\ Head(s) \in S
           /\ Occurs(s, Head(s))
           /\ NoRepeat(Tail(s))
           /\ \A e : Occurs(Tail(s), e) <=> Occurs(s, e) /\ e # Head(s)
<1>1. /\ Tail(s) \in Seq(S)
      /\ Head(s) \in S
      /\ Len(Tail(s)) = Len(s) - 1
      /\ \A k \in 1 .. Len(Tail(s)) : Tail(s)[k] = s[k + 1]
  BY HeadTailProperties
<1>2. Len(s) \in Nat \ {0} /\ Head(s) = s[1]
  BY EmptySeq
<1>3. NoRepeat(Tail(s))
  BY <1>1, <1>2 DEF NoRepeat
<1>4. Occurs(s, Head(s))
  BY <1>2 DEF Occurs
<1>5. ASSUME NEW e
      PROVE  Occurs(Tail(s), e) <=> Occurs(s, e) /\ e # Head(s)
  <2>1. Occurs(Tail(s), e) => Occurs(s, e) /\ e # Head(s)
    BY <1>1, <1>2 DEF Occurs, NoRepeat
  <2>2. ASSUME Occurs(s, e), e # Head(s)
        PROVE  Occurs(Tail(s), e)
    <3>1. PICK k \in 1 .. Len(s) : s[k] = e
      BY <2>2 DEF Occurs
    <3>2. k - 1 \in 1 .. Len(Tail(s)) /\ Tail(s)[k - 1] = e
      BY <1>1, <1>2, <2>2, <3>1
    <3>3. QED BY <3>2 DEF Occurs
  <2>3. QED BY <2>1, <2>2
<1>6. QED BY <1>1, <1>3, <1>4, <1>5

\* Insertion at the head of a chain: the caller list of an item, and
\* CDlgQueue::push.
LEMMA PushChain ==
    ASSUME NEW S, NEW s \in Seq(S), NEW d \in S, ~Occurs(s, d), NoRepeat(s)
    PROVE  /\ <<d>> \o s \in Seq(S)
           /\ NoRepeat(<<d>> \o s)
           /\ \A e : Occurs(<<d>> \o s, e) <=> Occurs(s, e) \/ e = d
<1> DEFINE t == <<d>> \o s
<1>1. /\ t \in Seq(S)
      /\ Len(t) = Len(s) + 1
      /\ t[1] = d
      /\ \A k \in 1 .. Len(s) : t[k + 1] = s[k]
      /\ \A k \in 2 .. Len(t) : t[k] = s[k - 1]
  <2>1. <<d>> \in Seq(S) /\ Len(<<d>>) = 1 /\ <<d>>[1] = d
    OBVIOUS
  <2>2. Len(s) \in Nat
    OBVIOUS
  <2>3. QED BY <2>1, <2>2, ConcatProperties
<1>2. Len(s) \in Nat
  OBVIOUS
<1> HIDE DEF t
<1>3. NoRepeat(t)
  <2>1. SUFFICES ASSUME NEW j \in 1 .. Len(t), NEW k \in 1 .. Len(t), t[j] = t[k]
                 PROVE  j = k
    BY DEF NoRepeat
  <2>2. ASSUME NEW h \in 1 .. Len(t), h # 1
        PROVE  t[h] # d
    <3>1. h - 1 \in 1 .. Len(s) /\ t[h] = s[h - 1]
      BY <1>1, <1>2, <2>2
    <3>2. QED BY <3>1 DEF Occurs
  <2>3. CASE j # 1 /\ k # 1
    <3>1. j - 1 \in 1 .. Len(s) /\ k - 1 \in 1 .. Len(s) /\ s[j - 1] = s[k - 1]
      BY <1>1, <1>2, <2>1, <2>3
    <3>2. j - 1 = k - 1
      BY <3>1 DEF NoRepeat
    <3>3. QED BY <3>2
  <2>4. QED BY <1>1, <2>1, <2>2, <2>3
<1>4. ASSUME NEW e
      PROVE  Occurs(t, e) <=> Occurs(s, e) \/ e = d
  <2>1. ASSUME Occurs(t, e), e # d
        PROVE  Occurs(s, e)
    <3>1. PICK k \in 1 .. Len(t) : t[k] = e
      BY <2>1 DEF Occurs
    <3>2. k - 1 \in 1 .. Len(s) /\ s[k - 1] = e
      BY <1>1, <1>2, <2>1, <3>1
    <3>3. QED BY <3>2 DEF Occurs
  <2>2. ASSUME Occurs(s, e)
        PROVE  Occurs(t, e)
    <3>1. PICK k \in 1 .. Len(s) : s[k] = e
      BY <2>2 DEF Occurs
    <3>2. k + 1 \in 1 .. Len(t) /\ t[k + 1] = e
      BY <1>1, <1>2, <3>1
    <3>3. QED BY <3>2 DEF Occurs
  <2>3. Occurs(t, d)
    BY <1>1, <1>2 DEF Occurs
  <2>4. QED BY <2>1, <2>2, <2>3
<1>5. QED BY <1>1, <1>3, <1>4 DEF t

\* Unlinking the k-th dialog of a list leaves the others.
LEMMA UnlinkChain ==
    ASSUME NEW S, NEW s \in Seq(S), NEW k \in 1 .. Len(s), NoRepeat(s)
    PROVE  /\ WithoutAt(s, k) \in Seq(S)
           /\ NoRepeat(WithoutAt(s, k))
           /\ \A e : Occurs(WithoutAt(s, k), e) <=> Occurs(s, e) /\ e # s[k]
<1> DEFINE t == WithoutAt(s, k)
           n == Len(s)
<1>0. n \in Nat /\ k \in Nat /\ 1 <= k /\ k <= n
  OBVIOUS
<1>1. /\ t \in Seq(S)
      /\ Len(t) = n - 1
      /\ \A j \in 1 .. n - 1 : t[j] = IF j < k THEN s[j] ELSE s[j + 1]
  <2> DEFINE u == SubSeq(s, 1, k - 1)
             v == SubSeq(s, k + 1, n)
  <2>1. /\ u \in Seq(S)
        /\ Len(u) = k - 1
        /\ \A j \in 1 .. k - 1 : u[j] = s[j]
    <3>1. \A j \in 1 .. k - 1 : s[j] \in S
      BY <1>0
    <3>2. /\ u \in Seq(S)
          /\ Len(u) = IF 1 <= k - 1 THEN (k - 1) - 1 + 1 ELSE 0
          /\ \A j \in 1 .. (k - 1) - 1 + 1 : u[j] = s[1 + j - 1]
      BY <1>0, <3>1, SubSeqProperties
    <3>3. QED BY <1>0, <3>2
  <2>2. /\ v \in Seq(S)
        /\ Len(v) = n - k
        /\ \A j \in 1 .. n - k : v[j] = s[k + j]
    <3>1. \A j \in k + 1 .. n : s[j] \in S
      BY <1>0
    <3>2. /\ v \in Seq(S)
          /\ Len(v) = IF k + 1 <= n THEN n - (k + 1) + 1 ELSE 0
          /\ \A j \in 1 .. n - (k + 1) + 1 : v[j] = s[(k + 1) + j - 1]
      BY <1>0, <3>1, SubSeqProperties
    <3>3. QED BY <1>0, <3>2
  <2>3. t = u \o v
    BY DEF WithoutAt
  <2> HIDE DEF u, v, t
  <2>4. /\ t \in Seq(S)
        /\ Len(t) = Len(u) + Len(v)
        /\ \A j \in 1 .. Len(u) + Len(v) :
              t[j] = IF j <= Len(u) THEN u[j] ELSE v[j - Len(u)]
    BY <2>1, <2>2, <2>3, ConcatProperties
  <2>5. Len(t) = n - 1
    BY <1>0, <2>1, <2>2, <2>4
  <2>6. ASSUME NEW j \in 1 .. n - 1
        PROVE  t[j] = IF j < k THEN s[j] ELSE s[j + 1]
    <3>1. CASE j < k
      <4>1. j \in 1 .. k - 1 /\ j \in 1 .. Len(u) + Len(v)
        BY <1>0, <2>1, <2>2, <3>1
      <4>2. QED BY <2>1, <2>4, <3>1, <4>1
    <3>2. CASE ~(j < k)
      <4>1. /\ j - Len(u) \in 1 .. n - k
            /\ j \in 1 .. Len(u) + Len(v)
            /\ ~(j <= Len(u))
            /\ k + (j - Len(u)) = j + 1
        BY <1>0, <2>1, <2>2, <3>2
      <4>2. t[j] = s[k + (j - Len(u))]
        BY <2>2, <2>4, <4>1
      <4>3. QED BY <3>2, <4>1, <4>2
    <3>3. QED BY <3>1, <3>2
  <2>7. QED BY <2>4, <2>5, <2>6
<1> HIDE DEF t
<1>2. NoRepeat(t)
  BY <1>0, <1>1 DEF NoRepeat
<1>3. ASSUME NEW e
      PROVE  Occurs(t, e) <=> Occurs(s, e) /\ e # s[k]
  <2>1. ASSUME Occurs(t, e)
        PROVE  Occurs(s, e) /\ e # s[k]
    <3>1. PICK j \in 1 .. Len(t) : t[j] = e
      BY <2>1 DEF Occurs
    <3>2. PICK h \in 1 .. n : h # k /\ s[h] = e
      <4>1. CASE j < k
        BY <1>0, <1>1, <3>1, <4>1
      <4>2. CASE ~(j < k)
        <5>1. j + 1 \in 1 .. n /\ j + 1 # k /\ s[j + 1] = e
          BY <1>0, <1>1, <3>1, <4>2
        <5>2. QED BY <5>1
      <4>3. QED BY <4>1, <4>2
    <3>3. QED BY <3>2 DEF Occurs, NoRepeat
  <2>2. ASSUME Occurs(s, e), e # s[k]
        PROVE  Occurs(t, e)
    <3>1. PICK h \in 1 .. n : s[h] = e
      BY <2>2 DEF Occurs
    <3>2. CASE h < k
      <4>1. h \in 1 .. Len(t) /\ t[h] = e
        BY <1>0, <1>1, <3>1, <3>2
      <4>2. QED BY <4>1 DEF Occurs
    <3>3. CASE ~(h < k)
      <4>1. h - 1 \in 1 .. Len(t) /\ t[h - 1] = e
        BY <1>0, <1>1, <2>2, <3>1, <3>3
      <4>2. QED BY <4>1 DEF Occurs
    <3>4. QED BY <3>2, <3>3
  <2>3. QED BY <2>1, <2>2
<1>4. QED BY <1>1, <1>2, <1>3 DEF t

-----------------------------------------------------------------------------
(* What the handlers do to the two kinds of chain. *)

\* The inductive invariant: the typing and the four state properties, which
\* support each other (a dialog can be made blank on the free chain without
\* harm only because it is on no caller list).
IInv == TypeOK /\ PoolPartition /\ ListedIsInUse /\ OneDialogPerCall /\ InvitingIsAsked

\* A new dialog moves from the free chain to item i's list, all others stay.
LEMMA AddMoves ==
    ASSUME TypeOK, PoolPartition, NEW i \in Item, NEW m \in Request, AddDialog(i, m)
    PROVE  /\ Head(free) \in DlgId /\ InFree(Head(free))
           /\ free' \in Seq(DlgId) /\ caller' \in [Item -> Seq(DlgId)]
           /\ NoRepeat(free') /\ \A j \in Item : NoRepeat(caller'[j])
           /\ \A e \in DlgId : InFree(e)' <=> InFree(e) /\ e # Head(free)
           /\ \A e \in DlgId, j \in Item :
                 InCallers(e, j)' <=> InCallers(e, j) \/ (e = Head(free) /\ j = i)
<1> DEFINE d == Head(free)
<1>1. /\ free \in Seq(DlgId) /\ caller \in [Item -> Seq(DlgId)]
      /\ NoRepeat(free) /\ \A j \in Item : NoRepeat(caller[j])
  BY DEF TypeOK, PoolPartition
<1>2. /\ free # <<>>
      /\ free' = Tail(free)
      /\ caller' = [caller EXCEPT ![i] = <<d>> \o @]
  BY DEF AddDialog
<1>3. /\ free' \in Seq(DlgId) /\ d \in DlgId /\ Occurs(free, d) /\ NoRepeat(free')
      /\ \A e : Occurs(free', e) <=> Occurs(free, e) /\ e # d
  BY <1>1, <1>2, PopChain
<1>4. ~Occurs(caller[i], d)
  BY <1>3 DEF PoolPartition, InFree, Listed, InCallers
<1>5. caller[i] \in Seq(DlgId) /\ NoRepeat(caller[i])
  BY <1>1
<1>6. /\ <<d>> \o caller[i] \in Seq(DlgId)
      /\ NoRepeat(<<d>> \o caller[i])
      /\ \A e : Occurs(<<d>> \o caller[i], e) <=> Occurs(caller[i], e) \/ e = d
  BY <1>3, <1>4, <1>5, PushChain
<1>7. /\ caller'[i] = <<d>> \o caller[i]
      /\ \A j \in Item : j # i => caller'[j] = caller[j]
      /\ caller' \in [Item -> Seq(DlgId)]
  BY <1>1, <1>2, <1>6
<1>8. \A j \in Item : NoRepeat(caller'[j])
  BY <1>1, <1>6, <1>7
<1>9. \A e \in DlgId : InFree(e)' <=> InFree(e) /\ e # d
  BY <1>3 DEF InFree
<1>10. ASSUME NEW e \in DlgId, NEW j \in Item
       PROVE  InCallers(e, j)' <=> InCallers(e, j) \/ (e = d /\ j = i)
  <2>1. CASE j = i
    BY <1>6, <1>7, <2>1 DEF InCallers
  <2>2. CASE j # i
    BY <1>7, <2>2 DEF InCallers
  <2>3. QED BY <2>1, <2>2
<1>11. QED BY <1>3, <1>7, <1>8, <1>9, <1>10 DEF InFree

\* A BYE moves the dialog it found from item i's list to the free chain.
LEMMA ByeMoves ==
    ASSUME TypeOK, PoolPartition, NEW i \in Item, NEW k \in DOMAIN caller[i], ByeAt(i, k)
    PROVE  /\ caller[i][k] \in DlgId /\ InCallers(caller[i][k], i)
           /\ free' \in Seq(DlgId) /\ caller' \in [Item -> Seq(DlgId)]
           /\ NoRepeat(free') /\ \A j \in Item : NoRepeat(caller'[j])
           /\ \A e \in DlgId : InFree(e)' <=> InFree(e) \/ e = caller[i][k]
           /\ \A e \in DlgId, j \in Item :
                 InCallers(e, j)' <=> InCallers(e, j) /\ e # caller[i][k]
<1> DEFINE d == caller[i][k]
<1>1. /\ free \in Seq(DlgId) /\ caller \in [Item -> Seq(DlgId)]
      /\ NoRepeat(free) /\ \A j \in Item : NoRepeat(caller[j])
  BY DEF TypeOK, PoolPartition
<1>2. /\ caller[i] \in Seq(DlgId) /\ NoRepeat(caller[i])
      /\ k \in 1 .. Len(caller[i])
  BY <1>1
<1>3. d \in DlgId /\ Occurs(caller[i], d)
  BY <1>2 DEF Occurs
<1>4. /\ caller' = [caller EXCEPT ![i] = WithoutAt(@, k)]
      /\ free' = <<d>> \o free
  BY DEF ByeAt
<1>5. /\ WithoutAt(caller[i], k) \in Seq(DlgId)
      /\ NoRepeat(WithoutAt(caller[i], k))
      /\ \A e : Occurs(WithoutAt(caller[i], k), e) <=> Occurs(caller[i], e) /\ e # d
  BY <1>2, UnlinkChain
<1>6. ~Occurs(free, d)
  BY <1>3 DEF PoolPartition, InFree, Listed, InCallers
<1>7. /\ free' \in Seq(DlgId) /\ NoRepeat(free')
      /\ \A e : Occurs(free', e) <=> Occurs(free, e) \/ e = d
  BY <1>1, <1>3, <1>4, <1>6, PushChain
<1>8. /\ caller'[i] = WithoutAt(caller[i], k)
      /\ \A j \in Item : j # i => caller'[j] = caller[j]
      /\ caller' \in [Item -> Seq(DlgId)]
  BY <1>1, <1>4, <1>5
<1>9. \A j \in Item : NoRepeat(caller'[j])
  BY <1>1, <1>5, <1>8
<1>10. \A e \in DlgId : InFree(e)' <=> InFree(e) \/ e = d
  BY <1>7 DEF InFree
<1>11. ASSUME NEW e \in DlgId, NEW j \in Item
       PROVE  InCallers(e, j)' <=> InCallers(e, j) /\ e # d
  <2>1. CASE j = i
    BY <1>5, <1>8, <2>1 DEF InCallers
  <2>2. CASE j # i
    <3>1. InCallers(e, j) => e # d
      BY <1>3, <2>2 DEF PoolPartition, InCallers
    <3>2. QED BY <1>8, <2>2, <3>1 DEF InCallers
  <2>3. QED BY <2>1, <2>2
<1>12. QED BY <1>3, <1>7, <1>8, <1>9, <1>10, <1>11 DEF InCallers

\* A handler that leaves both kinds of chain alone moves no dialog.
LEMMA NothingMoves ==
    ASSUME free' = free, caller' = caller, lost' = lost
    PROVE  /\ \A e : InFree(e)' <=> InFree(e)
           /\ \A e, j : InCallers(e, j)' <=> InCallers(e, j)
           /\ \A e : Listed(e)' <=> Listed(e)
           /\ PoolPartition' <=> PoolPartition
BY DEF InFree, InCallers, Listed, PoolPartition, NoRepeat, Occurs

-----------------------------------------------------------------------------
(* The partition of the pool, action by action. *)

LEMMA AddKeepsPartition ==
    ASSUME TypeOK, PoolPartition, NEW i \in Item, NEW m \in Request, AddDialog(i, m)
    PROVE  PoolPartition'
<1> DEFINE d == Head(free)
<1>1. /\ d \in DlgId /\ InFree(d)
      /\ NoRepeat(free') /\ \A j \in Item : NoRepeat(caller'[j])
      /\ \A e \in DlgId : InFree(e)' <=> InFree(e) /\ e # d
      /\ \A e \in DlgId, j \in Item :
            InCallers(e, j)' <=> InCallers(e, j) \/ (e = d /\ j = i)
  BY AddMoves
<1> HIDE DEF d
<1>2. \A j \in Item : ~InCallers(d, j)
  BY <1>1 DEF PoolPartition, Listed
<1>3. \A j, h \in Item, e \in DlgId : InCallers(e, j)' /\ InCallers(e, h)' => j = h
  BY <1>1, <1>2 DEF PoolPartition
<1>4. \A e \in DlgId : Listed(e)' <=> Listed(e) \/ e = d
  BY <1>1 DEF Listed
<1>5. lost' = lost /\ lost \subseteq DlgId /\ d \notin lost
  BY <1>1 DEF AddDialog, TypeOK, PoolPartition
<1>6. \A e \in DlgId : InFree(e)' \/ Listed(e)' \/ e \in lost'
  BY <1>1, <1>4, <1>5 DEF PoolPartition
<1>7. \A e \in DlgId : ~(InFree(e)' /\ Listed(e)')
  BY <1>1, <1>4 DEF PoolPartition
<1>8. (\A e \in lost' : ~InFree(e)' /\ ~Listed(e)') /\ (~MemCanFail => lost' = {})
  BY <1>1, <1>4, <1>5 DEF PoolPartition
<1>9. QED BY <1>1, <1>3, <1>6, <1>7, <1>8 DEF PoolPartition

\* An INVITE without memory takes a dialog off the free chain, to nowhere.
LEMMA NoMemMoves ==
    ASSUME TypeOK, PoolPartition, NEW i \in Item, NEW m \in Request, InviteNoMem(i, m)
    PROVE  /\ TypeOK' /\ PoolPartition'
           /\ \A e, j : InCallers(e, j)' <=> InCallers(e, j)
           /\ \A e : Listed(e)' <=> Listed(e)
<1> DEFINE d == Head(free)
<1>1. /\ free \in Seq(DlgId) /\ free # <<>> /\ NoRepeat(free) /\ MemCanFail
      /\ free' = Tail(free) /\ lost' = lost \cup {d}
      /\ caller' = caller /\ dlg' = dlg /\ asked' = asked /\ up' = up
  BY DEF InviteNoMem, TypeOK, PoolPartition
<1>2. /\ free' \in Seq(DlgId) /\ d \in DlgId /\ Occurs(free, d) /\ NoRepeat(free')
      /\ \A e : Occurs(free', e) <=> Occurs(free, e) /\ e # d
  BY <1>1, PopChain
<1> HIDE DEF d
<1>3. /\ \A e, j : InCallers(e, j)' <=> InCallers(e, j)
      /\ \A e : Listed(e)' <=> Listed(e)
  BY <1>1 DEF InCallers, Listed
<1>4. \A e : InFree(e)' <=> InFree(e) /\ e # d
  BY <1>2 DEF InFree
<1>5. InFree(d) /\ ~Listed(d)
  BY <1>2 DEF InFree, PoolPartition
<1>6. TypeOK'
  BY <1>1, <1>2 DEF TypeOK
<1>7. PoolPartition'
  <2>1. \A j \in Item : NoRepeat(caller'[j])
    BY <1>1 DEF PoolPartition
  <2>2. \A j, h \in Item, e \in DlgId : InCallers(e, j)' /\ InCallers(e, h)' => j = h
    BY <1>3 DEF PoolPartition
  <2>3. \A e \in DlgId : InFree(e)' \/ Listed(e)' \/ e \in lost'
    BY <1>1, <1>3, <1>4 DEF PoolPartition
  <2>4. \A e \in DlgId : ~(InFree(e)' /\ Listed(e)')
    BY <1>3, <1>4 DEF PoolPartition
  <2>5. \A e \in lost' : ~InFree(e)' /\ ~Listed(e)'
    BY <1>1, <1>3, <1>4, <1>5 DEF PoolPartition
  <2>6. QED BY <1>1, <1>2, <2>1, <2>2, <2>3, <2>4, <2>5 DEF PoolPartition
<1>8. QED BY <1>3, <1>6, <1>7

LEMMA ByeKeepsPartition ==
    ASSUME TypeOK, PoolPartition, NEW i \in Item, NEW k \in DOMAIN caller[i], ByeAt(i, k)
    PROVE  PoolPartition'
<1> DEFINE d == caller[i][k]
<1>1. /\ d \in DlgId /\ InCallers(d, i)
      /\ NoRepeat(free') /\ \A j \in Item : NoRepeat(caller'[j])
      /\ \A e \in DlgId : InFree(e)' <=> InFree(e) \/ e = d
      /\ \A e \in DlgId, j \in Item : InCallers(e, j)' <=> InCallers(e, j) /\ e # d
  BY ByeMoves
<1> HIDE DEF d
<1>2. \A j, h \in Item, e \in DlgId : InCallers(e, j)' /\ InCallers(e, h)' => j = h
  BY <1>1 DEF PoolPartition
<1>3. \A e \in DlgId : Listed(e)' <=> Listed(e) /\ e # d
  BY <1>1 DEF Listed
<1>4. lost' = lost /\ lost \subseteq DlgId /\ d \notin lost
  BY <1>1 DEF ByeAt, TypeOK, PoolPartition, Listed
<1>5. \A e \in DlgId : InFree(e)' \/ Listed(e)' \/ e \in lost'
  BY <1>1, <1>3, <1>4 DEF PoolPartition
<1>6. \A e \in DlgId : ~(InFree(e)' /\ Listed(e)')
  BY <1>1, <1>3 DEF PoolPartition
<1>7. (\A e \in lost' : ~InFree(e)' /\ ~Listed(e)') /\ (~MemCanFail => lost' = {})
  BY <1>1, <1>3, <1>4 DEF PoolPartition
<1>8. QED BY <1>1, <1>2, <1>5, <1>6, <1>7 DEF PoolPartition

-----------------------------------------------------------------------------
(* Initial states, and the typing. *)

LEMMA InitIInv == Init => IInv
<1> SUFFICES ASSUME Init PROVE IInv
  OBVIOUS
<1> USE NumDlgAssumption
<1>1. /\ free \in Seq(DlgId)
      /\ Len(free) = NumDlg
      /\ \A k \in 1 .. NumDlg : free[k] = k - 1
  <2>1. free = [k \in 1 .. NumDlg |-> k - 1]
    BY DEF Init
  <2>2. \A k \in 1 .. NumDlg : k - 1 \in DlgId
    BY DEF DlgId
  <2>3. free \in [1 .. NumDlg -> DlgId]
    BY <2>1, <2>2
  <2>4. QED BY <2>1, <2>3
<1>2. /\ caller = [i \in Item |-> <<>>]
      /\ dlg = [d \in DlgId |-> Blank]
      /\ asked = [d \in DlgId |-> 0]
      /\ up = TRUE
      /\ lost = {}
  BY DEF Init
<1>3. TypeOK
  BY <1>1, <1>2, TransIdAssumption DEF TypeOK, Blank, Dialog, DialogState
<1>4. \A d \in DlgId, i \in Item : ~InCallers(d, i)
  BY <1>2 DEF InCallers, Occurs
<1>5. \A d \in DlgId : InFree(d)
  <2>1. ASSUME NEW d \in DlgId
        PROVE  d + 1 \in 1 .. Len(free) /\ free[d + 1] = d
    BY <1>1 DEF DlgId
  <2>2. QED BY <2>1 DEF InFree, Occurs
<1>6. PoolPartition
  <2>1. NoRepeat(free)
    BY <1>1 DEF NoRepeat
  <2>2. \A i \in Item : NoRepeat(caller[i])
    BY <1>2 DEF NoRepeat
  <2>3. QED BY <1>2, <1>4, <1>5, <2>1, <2>2 DEF PoolPartition, Listed
<1>7. ListedIsInUse /\ OneDialogPerCall /\ InvitingIsAsked
  BY <1>4 DEF ListedIsInUse, OneDialogPerCall, InvitingIsAsked, Listed
<1>8. QED BY <1>3, <1>6, <1>7 DEF IInv

LEMMA TypePreserved == IInv /\ [Next]_vars => TypeOK'
<1> SUFFICES ASSUME TypeOK, PoolPartition, [Next]_vars
             PROVE  TypeOK'
  BY DEF IInv
<1>1. ASSUME NEW i \in Item, NEW m \in Request, AddDialog(i, m)
      PROVE  /\ free' \in Seq(DlgId) /\ caller' \in [Item -> Seq(DlgId)]
             /\ dlg' \in [DlgId -> Dialog] /\ Head(free) \in DlgId /\ lost' = lost
  <2>1. /\ Head(free) \in DlgId
        /\ free' \in Seq(DlgId) /\ caller' \in [Item -> Seq(DlgId)]
    BY <1>1, AddMoves
  <2>2. PICK rtag \in {m.rtag} \cup NoCopy :
           dlg' = [dlg EXCEPT ![Head(free)] =
                      [state |-> "INVITING", cid |-> m.cid, rtag |-> rtag,
                       ltag |-> Null, tid |-> @.tid]]
    BY <1>1 DEF AddDialog
  <2>3. [state |-> "INVITING", cid |-> m.cid, rtag |-> rtag,
         ltag |-> Null, tid |-> dlg[Head(free)].tid] \in Dialog
    BY <2>1 DEF TypeOK, Dialog, DialogState, Request, NoCopy
  <2>4. dlg' \in [DlgId -> Dialog]
    BY <2>1, <2>2, <2>3 DEF TypeOK
  <2>5. QED BY <1>1, <2>1, <2>4 DEF AddDialog
<1>2. ASSUME NEW i \in Item, NEW m \in Request, InviteNew(i, m)
      PROVE  TypeOK'
  BY <1>1, <1>2 DEF InviteNew, TypeOK
<1>3. ASSUME NEW i \in Item, NEW m \in Request, InviteNewUnsent(i, m)
      PROVE  TypeOK'
  BY <1>1, <1>3 DEF InviteNewUnsent, TypeOK
<1>4. ASSUME NEW i \in Item, NEW k \in DOMAIN caller[i], ByeAt(i, k)
      PROVE  TypeOK'
  <2>1. Blank \in Dialog
    BY TransIdAssumption DEF Blank, Dialog, DialogState
  <2>2. /\ free' \in Seq(DlgId) /\ caller' \in [Item -> Seq(DlgId)]
    BY <1>4, ByeMoves
  <2>3. QED BY <1>4, <2>1, <2>2 DEF ByeAt, TypeOK
<1>5. ASSUME NEW d \in DlgId, NEW tag \in Tag \cup NoCopy, NEW t \in TransId,
             MediaReply(d, tag, t)
      PROVE  TypeOK'
  <2>1. [dlg[d] EXCEPT !.ltag = tag, !.state = "RESPONDED", !.tid = t] \in Dialog
    BY DEF TypeOK, Dialog, DialogState, NoCopy
  <2>2. dlg' = [dlg EXCEPT ![d] = [dlg[d] EXCEPT !.ltag = tag, !.state = "RESPONDED",
                                                  !.tid = t]]
    BY <1>5 DEF MediaReply, TypeOK
  <2>3. dlg' \in [DlgId -> Dialog]
    BY <2>1, <2>2 DEF TypeOK
  <2>4. asked' \in [DlgId -> Nat]
    BY <1>5 DEF MediaReply, TypeOK
  <2>5. QED BY <1>5, <2>3, <2>4 DEF MediaReply, TypeOK
<1>6. ASSUME NEW d \in DlgId, MediaReplyUnsent(d)
      PROVE  TypeOK'
  BY <1>6 DEF MediaReplyUnsent, TypeOK
<1>7. ASSUME NEW i \in Item, NEW m \in Request, Crash(i, m)
      PROVE  TypeOK'
  BY <1>7 DEF Crash, TypeOK
<1>8. CASE Same \/ UNCHANGED vars
  BY <1>8 DEF Same, vars, TypeOK
<1>9. ASSUME NEW i \in Item, NEW m \in Request, InviteNoMem(i, m)
      PROVE  TypeOK'
  BY <1>9, NoMemMoves
<1>10. QED
  BY <1>2, <1>3, <1>4, <1>5, <1>6, <1>7, <1>8, <1>9
  DEF Next, Bye, InviteBusy, InviteFull, Ack, ByeUnknown

-----------------------------------------------------------------------------
(* The invariant, action by action. *)

\* What a new dialog is, and that no other dialog changes.
LEMMA AddWrites ==
    ASSUME TypeOK, NEW i \in Item, NEW m \in Request, AddDialog(i, m), Head(free) \in DlgId
    PROVE  /\ dlg'[Head(free)].state = "INVITING"
           /\ dlg'[Head(free)].cid = m.cid /\ dlg'[Head(free)].rtag \in {m.rtag} \cup NoCopy
           /\ m.cid \in CallId
           /\ \A e \in DlgId : e # Head(free) => dlg'[e] = dlg[e]
BY DEF AddDialog, TypeOK, Request

\* A new dialog keeps the properties of listed dialogs: the walk before it saw,
\* if all comparisons were made, that no dialog of the item has the same
\* Call-ID and From tag.
LEMMA AddKeeps ==
    ASSUME IInv, NEW i \in Item, NEW m \in Request, AddDialog(i, m)
    PROVE  ListedIsInUse' /\ OneDialogPerCall'
<1> DEFINE d == Head(free)
<1> USE DEF IInv
<1>1. /\ d \in DlgId /\ InFree(d)
      /\ \A e \in DlgId, j \in Item :
            InCallers(e, j)' <=> InCallers(e, j) \/ (e = d /\ j = i)
  BY AddMoves
<1>2. /\ dlg'[d].state = "INVITING" /\ dlg'[d].cid = m.cid
      /\ dlg'[d].rtag \in {m.rtag} \cup NoCopy
      /\ m.cid \in CallId
      /\ \A e \in DlgId : e # d => dlg'[e] = dlg[e]
  BY <1>1, AddWrites
<1>3. ASSUME ~CompareCanFail, m.rtag # Null, NEW e \in DlgId, InCallers(e, i)
      PROVE  ~(dlg[e].cid = m.cid /\ dlg[e].rtag = m.rtag)
  BY <1>3 DEF AddDialog, InviteUnknown, InviteMatch, SameCall, Request, InCallers, Occurs
<1>4. \A j \in Item : ~InCallers(d, j)
  BY <1>1 DEF PoolPartition, Listed
<1> HIDE DEF d
<1>5. ListedIsInUse'
  BY <1>1, <1>2 DEF ListedIsInUse, Listed
<1>6. OneDialogPerCall'
  <2>1. SUFFICES ASSUME NEW j \in Item, NEW e \in DlgId, NEW f \in DlgId,
                        ~CompareCanFail, InCallers(e, j)', InCallers(f, j)',
                        dlg'[e].cid = dlg'[f].cid, dlg'[e].rtag = dlg'[f].rtag,
                        dlg'[e].rtag # Null
                 PROVE  e = f
    BY DEF OneDialogPerCall
  <2>0. dlg'[d].rtag # Null => dlg'[d].rtag = m.rtag
    BY <1>2 DEF NoCopy
  <2>2. CASE e = d /\ f # d
    BY <1>1, <1>2, <1>3, <1>4, <2>0, <2>1, <2>2
  <2>3. CASE e # d /\ f = d
    BY <1>1, <1>2, <1>3, <1>4, <2>0, <2>1, <2>3
  <2>4. CASE e # d /\ f # d
    BY <1>1, <1>2, <2>1, <2>4 DEF OneDialogPerCall
  <2>5. QED BY <2>2, <2>3, <2>4
<1>7. QED BY <1>5, <1>6

\* A BYE leaves the listed dialogs as they are: the one it blanks is on no
\* list any more.
LEMMA ByeKeeps ==
    ASSUME IInv, NEW i \in Item, NEW k \in DOMAIN caller[i], ByeAt(i, k)
    PROVE  ListedIsInUse' /\ OneDialogPerCall' /\ InvitingIsAsked'
<1> DEFINE d == caller[i][k]
<1> USE DEF IInv
<1>1. /\ d \in DlgId /\ InCallers(d, i)
      /\ \A e \in DlgId, j \in Item : InCallers(e, j)' <=> InCallers(e, j) /\ e # d
  BY ByeMoves
<1>2. (\A e \in DlgId : e # d => dlg'[e] = dlg[e]) /\ asked' = asked
  BY <1>1 DEF ByeAt, TypeOK
<1> HIDE DEF d
<1>3. ListedIsInUse'
  BY <1>1, <1>2 DEF ListedIsInUse, Listed
<1>4. OneDialogPerCall'
  BY <1>1, <1>2 DEF OneDialogPerCall
<1>5. InvitingIsAsked'
  BY <1>1, <1>2 DEF InvitingIsAsked, Listed
<1>6. QED BY <1>3, <1>4, <1>5

\* A reply changes neither the lists nor what dialogs are matched by, and the
\* dialog it answers is INVITING no longer.
LEMMA ReplyKeeps ==
    ASSUME IInv, NEW d \in DlgId, NEW tag \in Tag \cup NoCopy, NEW t \in TransId,
           MediaReply(d, tag, t)
    PROVE  ListedIsInUse' /\ OneDialogPerCall' /\ InvitingIsAsked'
<1> USE DEF IInv
<1>1. /\ \A e, j : InCallers(e, j)' <=> InCallers(e, j)
      /\ \A e : Listed(e)' <=> Listed(e)
  BY NothingMoves DEF MediaReply
<1>2. /\ \A e \in DlgId : dlg'[e].cid = dlg[e].cid /\ dlg'[e].rtag = dlg[e].rtag
      /\ \A e \in DlgId : e # d => dlg'[e] = dlg[e] /\ asked'[e] = asked[e]
      /\ dlg'[d].state = "RESPONDED"
  BY DEF MediaReply, TypeOK, Dialog
<1>3. ListedIsInUse'
  BY <1>1, <1>2 DEF ListedIsInUse
<1>4. OneDialogPerCall'
  BY <1>1, <1>2 DEF OneDialogPerCall
<1>5. InvitingIsAsked'
  BY <1>1, <1>2 DEF InvitingIsAsked
<1>6. QED BY <1>3, <1>4, <1>5

LEMMA NextIInv == IInv /\ [Next]_vars => IInv'
<1> SUFFICES ASSUME IInv, [Next]_vars PROVE IInv'
  OBVIOUS
<1> USE DEF IInv
<1>0. TypeOK'
  BY TypePreserved
<1>1. ASSUME NEW i \in Item, NEW m \in Request, InviteNew(i, m)
      PROVE  IInv'
  <2>1. AddDialog(i, m)
    BY <1>1 DEF InviteNew
  <2>2. PoolPartition'
    BY <2>1, AddKeepsPartition
  <2>3. ListedIsInUse' /\ OneDialogPerCall'
    BY <2>1, AddKeeps
  <2>4. InvitingIsAsked'
    <3> DEFINE d == Head(free)
    <3>1. /\ d \in DlgId
          /\ \A e \in DlgId, j \in Item :
                InCallers(e, j)' <=> InCallers(e, j) \/ (e = d /\ j = i)
      BY <2>1, AddMoves
    <3>2. \A e \in DlgId : e # d => dlg'[e] = dlg[e]
      BY <2>1, <3>1, AddWrites
    <3>3. asked'[d] > 0 /\ \A e \in DlgId : e # d => asked'[e] = asked[e]
      BY <1>1, <3>1 DEF InviteNew, TypeOK
    <3> HIDE DEF d
    <3>4. QED BY <3>1, <3>2, <3>3 DEF InvitingIsAsked, Listed
  <2>5. QED BY <1>0, <2>2, <2>3, <2>4
<1>2. ASSUME NEW i \in Item, NEW m \in Request, InviteNewUnsent(i, m)
      PROVE  IInv'
  <2>1. AddDialog(i, m) /\ SendCanFail
    BY <1>2 DEF InviteNewUnsent
  <2>2. PoolPartition'
    BY <2>1, AddKeepsPartition
  <2>3. ListedIsInUse' /\ OneDialogPerCall'
    BY <2>1, AddKeeps
  <2>4. QED BY <1>0, <2>1, <2>2, <2>3 DEF InvitingIsAsked
<1>3. ASSUME NEW i \in Item, NEW k \in DOMAIN caller[i], ByeAt(i, k)
      PROVE  IInv'
  BY <1>0, <1>3, ByeKeepsPartition, ByeKeeps
<1>4. ASSUME NEW d \in DlgId, NEW tag \in Tag \cup NoCopy, NEW t \in TransId,
             MediaReply(d, tag, t)
      PROVE  IInv'
  <2>1. PoolPartition'
    BY <1>4, NothingMoves DEF MediaReply
  <2>2. QED BY <1>0, <1>4, <2>1, ReplyKeeps
<1>5. ASSUME NEW d \in DlgId, MediaReplyUnsent(d)
      PROVE  IInv'
  <2>1. SendCanFail /\ dlg' = dlg /\ free' = free /\ caller' = caller /\ lost' = lost
    BY <1>5 DEF MediaReplyUnsent
  <2>2. PoolPartition' /\ (\A e, j : InCallers(e, j)' <=> InCallers(e, j))
                       /\ (\A e : Listed(e)' <=> Listed(e))
    BY <2>1, NothingMoves
  <2>3. ListedIsInUse' /\ OneDialogPerCall' /\ InvitingIsAsked'
    BY <2>1, <2>2 DEF ListedIsInUse, OneDialogPerCall, InvitingIsAsked
  <2>4. QED BY <1>0, <2>2, <2>3
<1>6. ASSUME dlg' = dlg, free' = free, caller' = caller, asked' = asked, lost' = lost
      PROVE  IInv'
  <2>1. PoolPartition' /\ (\A e, j : InCallers(e, j)' <=> InCallers(e, j))
                       /\ (\A e : Listed(e)' <=> Listed(e))
    BY <1>6, NothingMoves
  <2>2. ListedIsInUse' /\ OneDialogPerCall' /\ InvitingIsAsked'
    BY <1>6, <2>1 DEF ListedIsInUse, OneDialogPerCall, InvitingIsAsked
  <2>3. QED BY <1>0, <2>1, <2>2
<1>7. ASSUME NEW i \in Item, NEW m \in Request, Crash(i, m)
      PROVE  IInv'
  BY <1>6, <1>7 DEF Crash
<1>8. CASE Same \/ UNCHANGED vars
  BY <1>6, <1>8 DEF Same, vars
<1>9. ASSUME NEW i \in Item, NEW m \in Request, InviteNoMem(i, m)
      PROVE  IInv'
  <2>1. /\ PoolPartition' /\ \A e, j : InCallers(e, j)' <=> InCallers(e, j)
        /\ \A e : Listed(e)' <=> Listed(e)
    BY <1>9, NoMemMoves
  <2>2. dlg' = dlg /\ asked' = asked
    BY <1>9 DEF InviteNoMem
  <2>3. ListedIsInUse' /\ OneDialogPerCall' /\ InvitingIsAsked'
    BY <2>1, <2>2 DEF ListedIsInUse, OneDialogPerCall, InvitingIsAsked
  <2>4. QED BY <1>0, <2>1, <2>3
<1>10. QED
  BY <1>1, <1>2, <1>3, <1>4, <1>5, <1>7, <1>8, <1>9
  DEF Next, Bye, InviteBusy, InviteFull, Ack, ByeUnknown

-----------------------------------------------------------------------------
(* Theorems *)

\* The inductive invariant holds.
THEOREM InvariantHolds == Spec => []IInv
<1>1. QED BY InitIInv, NextIInv, PTL DEF Spec

\* For any number of dialogs and items, every variable of the dialog pool
\* keeps its type.
THEOREM TypeCorrect == Spec => []TypeOK
<1>1. QED BY InvariantHolds, PTL DEF IInv

\* For any number of dialogs and items: after any INVITEs, with or without a
\* From tag, BYEs and replies each dialog of the pool is exactly once on the
\* free chain or on the caller list of one item (CDlgQueue::pop and push, the
\* lists of CGbCatalog); one popped for an INVITE that found no memory is on
\* neither, and nothing else loses one.
THEOREM PartitionHolds == Spec => []PoolPartition
<1>1. QED BY InvariantHolds, PTL DEF IInv

\* For any number of calls: every dialog on a caller list is in use and carries
\* the Call-ID of its call (invite_add_as_uac, CDialog::reset).
THEOREM ListedIsInUseHolds == Spec => []ListedIsInUse
<1>1. QED BY InvariantHolds, PTL DEF IInv

\* For any number of calls: unless an allocation fails, an item never has two
\* dialogs for the same Call-ID and From tag (the walk in
\* add_rmt_invite_dialog); dialogs of INVITEs without a From tag are excepted.
THEOREM OneDialogPerCallHolds == Spec => []OneDialogPerCall
<1>1. QED BY InvariantHolds, PTL DEF IInv

\* Unless sendto fails, a listed dialog that is INVITING has a request at the
\* message centre (deal_rmt_invite, deal_inter_msg).
THEOREM InvitingIsAskedHolds == Spec => []InvitingIsAsked
<1>1. QED BY InvariantHolds, PTL DEF IInv

\* A dialog on an item's list stays there with its Call-ID and From tag until
\* a BYE frees it.
THEOREM IdentityHolds == Spec => IdentityKept
<1>1. ASSUME IInv, [Next]_vars
      PROVE  [IdentityStep]_vars
  <2> USE DEF IInv
  <2>1. SUFFICES ASSUME NEW d \in DlgId, NEW i \in Item, InCallers(d, i), Next
                 PROVE  \/ /\ InCallers(d, i)'
                           /\ dlg'[d].cid = dlg[d].cid
                           /\ dlg'[d].rtag = dlg[d].rtag
                        \/ InFree(d)' /\ ~Listed(d)'
    BY <1>1 DEF IdentityStep
  <2>2. ASSUME NEW j \in Item, NEW m \in Request, AddDialog(j, m)
        PROVE  InCallers(d, i)' /\ dlg'[d] = dlg[d]
    <3>1. /\ Head(free) \in DlgId /\ InFree(Head(free))
          /\ InCallers(d, i)'
      BY <1>1, <2>1, <2>2, AddMoves
    <3>2. d # Head(free)
      BY <1>1, <2>1, <3>1 DEF PoolPartition, Listed
    <3>3. QED BY <1>1, <2>1, <2>2, <3>1, <3>2, AddWrites
  <2>3. ASSUME NEW j \in Item, NEW k \in DOMAIN caller[j], ByeAt(j, k)
        PROVE  \/ InCallers(d, i)' /\ dlg'[d] = dlg[d]
               \/ InFree(d)' /\ ~Listed(d)'
    <3>1. /\ caller[j][k] \in DlgId
          /\ \A e \in DlgId : InFree(e)' <=> InFree(e) \/ e = caller[j][k]
          /\ \A e \in DlgId, h \in Item :
                InCallers(e, h)' <=> InCallers(e, h) /\ e # caller[j][k]
      BY <1>1, <2>3, ByeMoves
    <3>2. CASE d = caller[j][k]
      BY <2>1, <3>1, <3>2 DEF Listed
    <3>3. CASE d # caller[j][k]
      <4>1. dlg'[d] = dlg[d]
        BY <1>1, <2>1, <2>3, <3>1, <3>3 DEF ByeAt, TypeOK
      <4>2. QED BY <2>1, <3>1, <3>3, <4>1
    <3>4. QED BY <3>2, <3>3
  <2>4. ASSUME NEW e \in DlgId, NEW tag \in Tag \cup NoCopy, NEW t \in TransId,
               MediaReply(e, tag, t)
        PROVE  /\ InCallers(d, i)'
               /\ dlg'[d].cid = dlg[d].cid /\ dlg'[d].rtag = dlg[d].rtag
    <3>1. InCallers(d, i)'
      BY <2>1, <2>4, NothingMoves DEF MediaReply
    <3>2. dlg'[d].cid = dlg[d].cid /\ dlg'[d].rtag = dlg[d].rtag
      BY <1>1, <2>1, <2>4 DEF MediaReply, TypeOK, Dialog
    <3>3. QED BY <3>1, <3>2
  <2>5. ASSUME dlg' = dlg, free' = free, caller' = caller, lost' = lost
        PROVE  InCallers(d, i)' /\ dlg'[d] = dlg[d]
    BY <2>1, <2>5, NothingMoves
  <2>6. ASSUME NEW j \in Item, NEW m \in Request,
               InviteNew(j, m) \/ InviteNewUnsent(j, m)
        PROVE  InCallers(d, i)' /\ dlg'[d] = dlg[d]
    BY <2>2, <2>6 DEF InviteNew, InviteNewUnsent
  <2>7. ASSUME NEW j \in Item, NEW m \in Request, InviteNoMem(j, m)
        PROVE  InCallers(d, i)' /\ dlg'[d] = dlg[d]
    BY <1>1, <2>1, <2>7, NoMemMoves DEF InviteNoMem
  <2>8. QED
    BY <2>1, <2>3, <2>4, <2>5, <2>6, <2>7
    DEF Next, Bye, InviteBusy, InviteFull, Ack, ByeUnknown, Same, Crash, MediaReplyUnsent
<1>2. QED BY <1>1, InvariantHolds, PTL DEF Spec, IdentityKept
=============================================================================
