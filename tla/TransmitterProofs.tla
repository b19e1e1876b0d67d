------------------------- MODULE TransmitterProofs -------------------------
(***************************************************************************)
(* Proofs about Transmitter, for any number of transmitters and items.     *)
(* The unused chain is a pointer structure; the proof carries the sequence *)
(* of its nodes along as the witness of UnusedIsRest: get_one_node takes   *)
(* its first node away, add_one_node puts one before it.  That a node is   *)
(* granted to nobody who holds one already follows because the first node  *)
(* of the chain is not held.                                               *)
(***************************************************************************)
EXTENDS Transmitter, FiniteSetTheorems, TLAPS

IInv == TypeOK /\ UnusedIsRest

\* A sequence without repetitions is no longer than the table.
LEMMA NoLongerThanTable ==
    ASSUME NEW n \in Nat, NEW s \in [1 .. n -> Trans],
           \A i, j \in 1 .. n : s[i] = s[j] => i = j
    PROVE  n <= NumTrans
<1>1. /\ IsFiniteSet(Trans) /\ Cardinality(Trans) = NumTrans
      /\ Cardinality(1 .. n) = n
  <2>1. 0 \in Int /\ NumTrans - 1 \in Int /\ 1 \in Int /\ n \in Int
    BY NumTransAssumption
  <2>2. /\ IsFiniteSet(0 .. NumTrans - 1)
        /\ Cardinality(0 .. NumTrans - 1) =
             IF 0 > NumTrans - 1 THEN 0 ELSE (NumTrans - 1) - 0 + 1
    BY <2>1, FS_Interval
  <2>3. Cardinality(1 .. n) = IF 1 > n THEN 0 ELSE n - 1 + 1
    BY <2>1, FS_Interval
  <2> QED
    BY <2>2, <2>3, NumTransAssumption DEF Trans
<1>2. s \in Injection(1 .. n, Trans)
  BY DEF Injection, IsInjective
<1>3. Cardinality(1 .. n) <= Cardinality(Trans)
  BY <1>1, <1>2, FS_Injection
<1> QED
  BY <1>1, <1>3

\* CMediaTransmitter::init chains every node, in the order of the table.
LEMMA InitHolds == Init => IInv
<1> SUFFICES ASSUME Init PROVE IInv
  OBVIOUS
<1> USE NumTransAssumption, NumChanAssumption
<1>1. TypeOK
  BY DEF Init, TypeOK, Trans, Ptr, Chan
<1>2. UnusedIsRest
  <2> DEFINE s == [i \in 1 .. NumTrans |-> i - 1]
  <2>1. s \in [1 .. NumTrans -> Trans]
    BY DEF Trans
  <2>2. UnusedChain(NumTrans, s)
    BY DEF Init, UnusedChain, Trans
  <2>3. {s[i] : i \in 1 .. NumTrans} = Trans \ held
    <3>1. \A t \in Trans : t + 1 \in 1 .. NumTrans /\ s[t + 1] = t
      BY DEF Trans
    <3> QED
      BY <2>1, <3>1 DEF Init
  <2> HIDE DEF s
  <2>4. NumTrans \in 0 .. NumTrans
    OBVIOUS
  <2> QED
    BY <2>1, <2>2, <2>3, <2>4 DEF UnusedIsRest
<1> QED
  BY <1>1, <1>2 DEF IInv

\* The node that get_one_node takes is one nobody holds.
LEMMA FirstIsFree ==
    ASSUME IInv, unused # Null
    PROVE  unused \in Trans \ held
<1>1. PICK n \in 0 .. NumTrans : \E s \in [1 .. n -> Trans] :
            UnusedChain(n, s) /\ {s[i] : i \in 1 .. n} = Trans \ held
  BY DEF IInv, UnusedIsRest
<1>2. PICK s \in [1 .. n -> Trans] :
            UnusedChain(n, s) /\ {s[i] : i \in 1 .. n} = Trans \ held
  BY <1>1
<1>3. n # 0 /\ unused = s[1]
  BY <1>2 DEF UnusedChain
<1>4. 1 \in 1 .. n
  BY <1>3, NumTransAssumption
<1> QED
  BY <1>2, <1>3, <1>4

\* rmt_invite_media: the rest of the chain is the rest of the sequence.
LEMMA InviteKeepsInv ==
    ASSUME IInv, NEW c \in Chan, NEW a \in Addr, RmtInviteMedia(c, a)
    PROVE  IInv'
<1> USE NumTransAssumption, NumChanAssumption
<1>1. unused \in Trans \ held /\ Take(unused, c, a)
  BY FirstIsFree DEF RmtInviteMedia, Take
<1>2. TypeOK'
  BY <1>1 DEF IInv, TypeOK, RmtInviteMedia, Take, Ptr
<1>3. UnusedIsRest'
  <2>1. PICK n \in 0 .. NumTrans : \E s \in [1 .. n -> Trans] :
              UnusedChain(n, s) /\ {s[i] : i \in 1 .. n} = Trans \ held
    BY DEF IInv, UnusedIsRest
  <2>2. PICK s \in [1 .. n -> Trans] :
              UnusedChain(n, s) /\ {s[i] : i \in 1 .. n} = Trans \ held
    BY <2>1
  <2>3. n \in 1 .. NumTrans /\ unused = s[1]
    BY <1>1, <2>2, AddrAssumption DEF UnusedChain, Trans
  <2> DEFINE r == [i \in 1 .. n - 1 |-> s[i + 1]]
  <2>4. r \in [1 .. n - 1 -> Trans] /\ n - 1 \in 0 .. NumTrans
    BY <2>3
  <2>5. UnusedChain(n - 1, r)'
    <3>1. unused' = IF n - 1 = 0 THEN Null ELSE r[1]
      BY <1>1, <2>2, <2>3 DEF Take, UnusedChain
    <3>2. \A i \in 1 .. n - 1 : nxt'[r[i]] = IF i = n - 1 THEN Null ELSE r[i + 1]
      <4> SUFFICES ASSUME NEW i \in 1 .. n - 1
                   PROVE  nxt'[r[i]] = IF i = n - 1 THEN Null ELSE r[i + 1]
        OBVIOUS
      <4>1. i + 1 \in 1 .. n /\ 1 \in 1 .. n /\ r[i] = s[i + 1]
        BY <2>3
      <4>2. s[i + 1] # unused /\ s[i + 1] \in Trans
        BY <2>2, <2>3, <4>1 DEF UnusedChain
      <4>3. nxt'[s[i + 1]] = nxt[s[i + 1]]
        BY <1>1, <4>2 DEF Take, IInv, TypeOK
      <4>4. nxt[s[i + 1]] = IF i + 1 = n THEN Null ELSE s[(i + 1) + 1]
        BY <2>2, <4>1 DEF UnusedChain
      <4>5. i # n - 1 => r[i + 1] = s[(i + 1) + 1]
        BY <2>3
      <4> QED
        BY <2>3, <4>1, <4>3, <4>4, <4>5
    <3>3. \A i, j \in 1 .. n - 1 : r[i] = r[j] => i = j
      BY <2>2, <2>3 DEF UnusedChain
    <3> HIDE DEF r
    <3> QED
      BY <3>1, <3>2, <3>3 DEF UnusedChain
  <2>6. {r[i] : i \in 1 .. n - 1} = Trans \ held'
    <3>1. held' = held \cup {s[1]}
      BY <2>3 DEF RmtInviteMedia
    <3>2. ASSUME NEW i \in 1 .. n - 1
          PROVE  r[i] \in Trans \ held'
      <4>1. i + 1 \in 1 .. n /\ 1 \in 1 .. n /\ r[i] = s[i + 1]
        BY <2>3
      <4>2. s[i + 1] # s[1] /\ s[i + 1] \in Trans \ held
        BY <2>2, <4>1 DEF UnusedChain
      <4> QED
        BY <3>1, <4>1, <4>2
    <3>3. ASSUME NEW t \in Trans \ held'
          PROVE  \E i \in 1 .. n - 1 : r[i] = t
      <4>1. PICK k \in 1 .. n : s[k] = t
        BY <2>2, <3>1
      <4>2. k # 1
        BY <3>1, <4>1
      <4>3. k - 1 \in 1 .. n - 1 /\ r[k - 1] = s[k]
        BY <4>2
      <4> QED
        BY <4>1, <4>3
    <3> HIDE DEF r
    <3> QED
      BY <3>2, <3>3
  <2> HIDE DEF r
  <2> QED
    BY <2>4, <2>5, <2>6 DEF UnusedIsRest
<1> QED
  BY <1>2, <1>3 DEF IInv

\* rmt_bye_media: the node that comes back goes before the chain.
LEMMA ByeKeepsInv ==
    ASSUME IInv, NEW t \in Trans, RmtByeMedia(t)
    PROVE  IInv'
<1> USE NumTransAssumption, NumChanAssumption
<1>1. TypeOK'
  BY DEF IInv, TypeOK, RmtByeMedia, GiveBack, Ptr
<1>2. UnusedIsRest'
  <2>1. PICK n \in 0 .. NumTrans : \E s \in [1 .. n -> Trans] :
              UnusedChain(n, s) /\ {s[i] : i \in 1 .. n} = Trans \ held
    BY DEF IInv, UnusedIsRest
  <2>2. PICK s \in [1 .. n -> Trans] :
              UnusedChain(n, s) /\ {s[i] : i \in 1 .. n} = Trans \ held
    BY <2>1
  <2>3. \A i \in 1 .. n : s[i] # t
    BY <2>2 DEF RmtByeMedia
  <2> DEFINE r == [i \in 1 .. n + 1 |-> IF i = 1 THEN t ELSE s[i - 1]]
  <2>4. r \in [1 .. n + 1 -> Trans]
    OBVIOUS
  <2>5. \A i \in 1 .. n : i + 1 \in 1 .. n + 1 /\ r[i + 1] = s[i]
    OBVIOUS
  <2>6. \A k \in 1 .. n + 1 : k = 1 \/ k - 1 \in 1 .. n
    OBVIOUS
  <2>7. r[1] = t /\ \A k \in 1 .. n + 1 : k # 1 => r[k] = s[k - 1]
    OBVIOUS
  <2>8. \A i, j \in 1 .. n + 1 : r[i] = r[j] => i = j
    BY <2>2, <2>3, <2>6, <2>7 DEF UnusedChain
  <2> HIDE DEF r
  <2>9. n + 1 \in 0 .. NumTrans
    BY <2>4, <2>8, NoLongerThanTable
  <2>10. UnusedChain(n + 1, r)'
    <3>1. unused' = t /\ nxt' = [nxt EXCEPT ![t] = unused]
      BY DEF RmtByeMedia, GiveBack
    <3>2. \A k \in 1 .. n + 1 : nxt'[r[k]] = IF k = n + 1 THEN Null ELSE r[k + 1]
      <4> SUFFICES ASSUME NEW k \in 1 .. n + 1
                   PROVE  nxt'[r[k]] = IF k = n + 1 THEN Null ELSE r[k + 1]
        OBVIOUS
      <4>1. CASE k = 1
        <5>1. nxt'[r[1]] = unused
          BY <2>7, <3>1 DEF IInv, TypeOK
        <5>2. n # 0 => 1 \in 1 .. n /\ r[1 + 1] = s[1]
          BY <2>5
        <5> QED
          BY <2>2, <4>1, <5>1, <5>2 DEF UnusedChain
      <4>2. CASE k # 1
        <5>1. k - 1 \in 1 .. n /\ r[k] = s[k - 1]
          BY <2>6, <2>7, <4>2
        <5>2. nxt'[s[k - 1]] = nxt[s[k - 1]]
          BY <2>3, <3>1, <5>1 DEF IInv, TypeOK
        <5>3. nxt[s[k - 1]] = IF k - 1 = n THEN Null ELSE s[(k - 1) + 1]
          BY <2>2, <5>1 DEF UnusedChain
        <5>4. k - 1 # n => k \in 1 .. n /\ r[k + 1] = s[k] /\ (k - 1) + 1 = k
          BY <2>5, <5>1
        <5> QED
          BY <5>1, <5>2, <5>3, <5>4
      <4> QED
        BY <4>1, <4>2
    <3> QED
      BY <2>7, <2>8, <3>1, <3>2 DEF UnusedChain
  <2>11. {r[k] : k \in 1 .. n + 1} = Trans \ held'
    <3>1. held' = held \ {t} /\ t \in held
      BY DEF RmtByeMedia
    <3>2. \A k \in 1 .. n + 1 : r[k] \in Trans \ held'
      BY <2>2, <2>6, <2>7, <3>1
    <3>3. \A u \in Trans \ held' : \E k \in 1 .. n + 1 : r[k] = u
      <4> SUFFICES ASSUME NEW u \in Trans \ held'
                   PROVE  \E k \in 1 .. n + 1 : r[k] = u
        OBVIOUS
      <4>1. CASE u = t
        <5>1. 1 \in 1 .. n + 1
          OBVIOUS
        <5> QED
          BY <2>7, <4>1, <5>1
      <4>2. CASE u # t
        <5>1. PICK i \in 1 .. n : s[i] = u
          BY <2>2, <3>1, <4>2
        <5> QED
          BY <2>5, <5>1
      <4> QED
        BY <4>1, <4>2
    <3> QED
      BY <3>2, <3>3
  <2> QED
    BY <2>4, <2>9, <2>10, <2>11 DEF UnusedIsRest
<1> QED
  BY <1>1, <1>2 DEF IInv

LEMMA StepKeepsInv == IInv /\ [Next]_vars => IInv'
<1> SUFFICES ASSUME IInv, [Next]_vars PROVE IInv'
  OBVIOUS
<1>1. CASE \E c \in Chan, a \in Addr : RmtInviteMedia(c, a)
  BY <1>1, InviteKeepsInv
<1>2. CASE \E t \in Trans : RmtByeMedia(t)
  BY <1>2, ByeKeepsInv
<1>3. CASE UNCHANGED vars
  BY <1>3 DEF vars, IInv, TypeOK, UnusedIsRest, UnusedChain
<1> QED
  BY <1>1, <1>2, <1>3 DEF Next, RmtInviteRefused

\* Typing and the chain hold in every state.
THEOREM TransmitterInvariant == Spec => []IInv
<1> QED
  BY InitHolds, StepKeepsInv, PTL DEF Spec

\* Every variable of the table keeps its type.
THEOREM TransmitterTypes == Spec => []TypeOK
<1>1. IInv => TypeOK
  BY DEF IInv
<1> QED
  BY <1>1, TransmitterInvariant, PTL

\* For tables of every size: no transmitter is granted twice, none is lost
\* (get_one_node, add_one_node).
THEOREM UnusedIsRestHolds == Spec => []UnusedIsRest
<1>1. IInv => UnusedIsRest
  BY DEF IInv
<1> QED
  BY <1>1, TransmitterInvariant, PTL

\* Nobody's call is given another channel or destination (rmt_invite_media
\* writes into a node that nobody holds).
THEOREM SwitchIsKept == Spec => SwitchKept
<1> DEFINE Keeps == \A t \in held \cap held' : ch'[t] = ch[t] /\ to'[t] = to[t]
<1>1. IInv /\ [Next]_vars => [Keeps]_vars
  <2> SUFFICES ASSUME IInv, [Next]_vars PROVE Keeps
    OBVIOUS
  <2>1. CASE \E c \in Chan, a \in Addr : RmtInviteMedia(c, a)
    <3>1. PICK c \in Chan, a \in Addr : RmtInviteMedia(c, a)
      BY <2>1
    <3>2. unused \in Trans \ held
      BY <3>1, FirstIsFree DEF RmtInviteMedia, Take
    <3> QED
      BY <3>1, <3>2 DEF RmtInviteMedia, Take, IInv, TypeOK
  <2>2. CASE \E t \in Trans : RmtByeMedia(t)
    BY <2>2 DEF RmtByeMedia, GiveBack
  <2>3. CASE UNCHANGED vars
    BY <2>3 DEF vars
  <2> QED
    BY <2>1, <2>2, <2>3 DEF Next, RmtInviteRefused
<1> QED
  BY <1>1, TransmitterInvariant, PTL DEF Spec, SwitchKept
=============================================================================
