--------------------------- MODULE DlgListsProofs ---------------------------
(***************************************************************************)
(* The proof that DlgLists implements DlgPool, for any number of dialogs,  *)
(* items, calls and tags: following the pointers gives the sequences.      *)
(***************************************************************************)
EXTENDS DlgLists, FiniteSetTheorems, SequenceTheorems, WellFoundedInduction, TLAPS

DP == INSTANCE DlgPoolProofs WITH
          free <- Chain(next, free_head),
          caller <- [i \in Item |-> Chain(next, rmt_caller[i])]

-----------------------------------------------------------------------------
(* Following pointers. *)

\* A set of numbers has a least one.
LEMMA LeastOf ==
    ASSUME NEW S \in SUBSET Nat, S # {}
    PROVE  \E n \in S : \A m \in S : n <= m
<1>1. OpToRel(<, Nat) = {ss \in Nat \X Nat : ss[1] < ss[2]}
  BY Zenon DEF OpToRel
<1>2. IsWellFoundedOn({ss \in Nat \X Nat : ss[1] < ss[2]}, Nat)
  BY <1>1, NatLessThanWellFounded
<1>3. PICK n \in S : \A m \in S : <<m, n>> \notin {ss \in Nat \X Nat : ss[1] < ss[2]}
  BY <1>2, WFMin
<1>4. \A m \in S : ~(m < n)
  BY <1>3
<1>5. QED BY <1>4

\* The recursive function of Chain, up to m.
Step(nx, f, n) ==
    [q \in Ptr |-> IF n = 0 \/ q = Null THEN <<>> ELSE <<q>> \o f[n - 1][nx[q]]]
Walk(nx, m, f) == f = [n \in 0 .. m |-> Step(nx, f, n)]

\* There is such a function, however the pointers go round.
LEMMA WalkExists == \A nx : \A m \in Nat : \E f : Walk(nx, m, f)
<1>1. TAKE nx
<1> DEFINE Bad == {m \in Nat : ~\E f : Walk(nx, m, f)}
<1>2. SUFFICES ASSUME Bad # {} PROVE FALSE
  OBVIOUS
<1>3. PICK m \in Bad : \A k \in Bad : m <= k
  BY <1>2, LeastOf
<1>4. CASE m = 0
  <2> DEFINE e == [q \in Ptr |-> <<>>]
             f == [n \in 0 .. 0 |-> e]
  <2>1. \A n \in 0 .. 0 : Step(nx, f, n) = e
    BY DEF Step
  <2>2. Walk(nx, 0, f)
    BY <2>1 DEF Walk
  <2>3. QED BY <1>4, <2>2
<1>5. CASE m # 0
  <2>1. m \in Nat /\ m - 1 \in Nat /\ m - 1 \notin Bad
    BY <1>3, <1>5
  <2>2. PICK f : Walk(nx, m - 1, f)
    BY <2>1
  <2> DEFINE g == [n \in 0 .. m |-> Step(nx, f, n)]
  <2>3. \A n \in 0 .. m - 1 : g[n] = f[n]
    <3>1. f = [n \in 0 .. m - 1 |-> Step(nx, f, n)]
      BY <2>2 DEF Walk
    <3>2. \A n \in 0 .. m - 1 : n \in 0 .. m
      BY <2>1
    <3> HIDE DEF Bad
    <3>3. TAKE n \in 0 .. m - 1
    <3>4. f[n] = Step(nx, f, n)
      BY <3>1, Zenon
    <3>5. g[n] = Step(nx, f, n)
      BY <3>2
    <3>6. QED BY <3>4, <3>5
  <2> HIDE DEF g
  <2>4. \A n \in 0 .. m : Step(nx, g, n) = Step(nx, f, n)
    <3>1. TAKE n \in 0 .. m
    <3>2. n = 0 \/ n - 1 \in 0 .. m - 1
      BY <2>1
    <3>3. n = 0 \/ g[n - 1] = f[n - 1]
      BY <2>3, <3>2
    <3>4. QED BY <3>3 DEF Step
  <2>5. Walk(nx, m, g)
    BY <2>4 DEF Walk, g
  <2>6. QED BY <1>3, <2>5
<1>6. QED BY <1>4, <1>5

LEMMA ChainWalks == \A nx : \E f : Walk(nx, NumDlg, f) /\ \A p : Chain(nx, p) = f[NumDlg][p]
<1>1. TAKE nx
<1> DEFINE f == CHOOSE g : Walk(nx, NumDlg, g)
<1>2. \E g : Walk(nx, NumDlg, g)
  BY WalkExists, SizeAssumption
<1>3. Walk(nx, NumDlg, f)
  BY <1>2
<1>4. \A p : Chain(nx, p) = f[NumDlg][p]
  BY DEF Chain, Walk, Step
<1> HIDE DEF f
<1>5. QED BY <1>3, <1>4

-----------------------------------------------------------------------------
(* Chains and sequences. *)

\* From pointer p the pointers nx lead through the dialogs of s, each once, and
\* end.
Linked(nx, s, p) ==
    /\ p = IF s = <<>> THEN Null ELSE s[1]
    /\ \A k \in 1 .. Len(s) : nx[s[k]] = IF k = Len(s) THEN Null ELSE s[k + 1]
    /\ \A j, k \in 1 .. Len(s) : s[j] = s[k] => j = k

\* A sequence without repetitions is no longer than the pool.
LEMMA NoLongerThanPool ==
    ASSUME NEW s \in Seq(DlgId), \A j, k \in 1 .. Len(s) : s[j] = s[k] => j = k
    PROVE  Len(s) \in Nat /\ Len(s) <= NumDlg
<1>1. Len(s) \in Nat /\ \A k \in 1 .. Len(s) : s[k] \in DlgId
  BY LenProperties, ElementOfSeq
<1>2. /\ IsFiniteSet(DlgId) /\ Cardinality(DlgId) = NumDlg
      /\ IsFiniteSet(1 .. Len(s)) /\ Cardinality(1 .. Len(s)) = Len(s)
  <2>1. 0 \in Int /\ NumDlg - 1 \in Int /\ 1 \in Int /\ Len(s) \in Int
    BY <1>1, SizeAssumption
  <2>2. /\ IsFiniteSet(0 .. NumDlg - 1)
        /\ Cardinality(0 .. NumDlg - 1) = IF 0 > NumDlg - 1 THEN 0 ELSE (NumDlg - 1) - 0 + 1
    BY <2>1, FS_Interval
  <2>3. /\ IsFiniteSet(1 .. Len(s))
        /\ Cardinality(1 .. Len(s)) = IF 1 > Len(s) THEN 0 ELSE Len(s) - 1 + 1
    BY <2>1, FS_Interval
  <2>4. QED BY <1>1, <2>2, <2>3, SizeAssumption DEF DlgId
<1> DEFINE f == [k \in 1 .. Len(s) |-> s[k]]
<1>3. f \in Injection(1 .. Len(s), DlgId)
  BY <1>1 DEF Injection, IsInjective
<1>4. Cardinality(1 .. Len(s)) <= Cardinality(DlgId)
  BY <1>2, <1>3, FS_Injection
<1>5. QED BY <1>1, <1>2, <1>4

\* What is left of a sequence from its k-th element.
LEMMA LastPart ==
    ASSUME NEW S, NEW s \in Seq(S), NEW k \in 1 .. Len(s)
    PROVE  SubSeq(s, k, Len(s)) = <<s[k]>> \o SubSeq(s, k + 1, Len(s))
<1> DEFINE u == SubSeq(s, k, Len(s))
           v == SubSeq(s, k + 1, Len(s))
           w == <<s[k]>> \o v
<1>1. Len(s) \in Nat /\ k \in 1 .. Len(s) /\ s[k] \in S
  BY LenProperties, ElementOfSeq
<1>2. /\ u \in Seq(S) /\ Len(u) = Len(s) - k + 1
      /\ \A j \in 1 .. Len(s) - k + 1 : u[j] = s[k + j - 1]
  BY <1>1
<1>3. /\ v \in Seq(S) /\ Len(v) = Len(s) - k
      /\ \A j \in 1 .. Len(s) - k : v[j] = s[k + j]
  BY <1>1
<1>4. <<s[k]>> \in Seq(S) /\ Len(<<s[k]>>) = 1 /\ <<s[k]>>[1] = s[k]
  BY <1>1
<1> HIDE DEF u, v
<1> DEFINE a == <<s[k]>>
<1>5. /\ w \in Seq(S) /\ Len(w) = 1 + Len(v)
      /\ w[1] = s[k] /\ \A j \in 1 .. Len(v) : w[j + 1] = v[j]
  <2> HIDE DEF a
  <2>1. /\ a \in Seq(S) /\ v \in Seq(S) /\ Len(a) = 1 /\ Len(v) \in Nat /\ a[1] = s[k]
    BY <1>1, <1>3, <1>4 DEF a
  <2>2. /\ a \o v \in Seq(S) /\ Len(a \o v) = Len(a) + Len(v)
        /\ \A j \in 1 .. Len(a) + Len(v) : (a \o v)[j] = IF j <= Len(a) THEN a[j] ELSE v[j - Len(a)]
    BY <2>1, ConcatProperties
  <2>3. \A j \in 1 .. Len(v) : j + 1 \in 1 .. 1 + Len(v) /\ ~(j + 1 <= 1) /\ (j + 1) - 1 = j
    BY <2>1
  <2>4. 1 \in 1 .. 1 + Len(v)
    BY <2>1
  <2>5. (a \o v)[1] = s[k] /\ \A j \in 1 .. Len(v) : (a \o v)[j + 1] = v[j]
    BY <2>1, <2>2, <2>3, <2>4
  <2>6. QED BY <2>1, <2>2, <2>5 DEF a
<1> HIDE DEF w
<1>6. \A j \in 1 .. Len(u) : u[j] = w[j]
  <2>1. TAKE j \in 1 .. Len(u)
  <2>2. CASE j = 1
    BY <1>1, <1>2, <1>5, <2>2
  <2>3. CASE j # 1
    <3>1. j - 1 \in 1 .. Len(s) - k /\ (j - 1) + 1 = j /\ k + (j - 1) = k + j - 1
      BY <1>1, <1>2, <2>3
    <3>2. w[j] = v[j - 1] /\ v[j - 1] = s[k + j - 1]
      BY <1>3, <1>5, <3>1
    <3>3. u[j] = s[k + j - 1]
      BY <1>2
    <3>4. QED BY <3>2, <3>3
  <2>4. QED BY <2>2, <2>3
<1>7. Len(u) = Len(w)
  BY <1>1, <1>2, <1>3, <1>5
<1>8. u = w
  BY <1>2, <1>5, <1>6, <1>7, SeqEqual
<1>9. QED BY <1>8 DEF u, v, w

\* Following the pointers gives the sequence.
LEMMA ChainIs ==
    ASSUME NEW nx, NEW s \in Seq(DlgId), NEW p, Linked(nx, s, p)
    PROVE  Chain(nx, p) = s
<1> DEFINE ptr(k) == IF k = Len(s) + 1 THEN Null ELSE s[k]
           part(k) == SubSeq(s, k, Len(s))
<1>1. PICK f : Walk(nx, NumDlg, f) /\ Chain(nx, p) = f[NumDlg][p]
  BY ChainWalks
<1>2. /\ Len(s) \in Nat /\ Len(s) <= NumDlg /\ NumDlg \in Nat
      /\ \A k \in 1 .. Len(s) : s[k] \in DlgId /\ s[k] \in Ptr /\ s[k] # Null
      /\ Null \in Ptr
  BY NoLongerThanPool, ElementOfSeq, SizeAssumption, NullAssumption DEF Linked, Ptr, DlgId
<1>3. \A n \in 0 .. NumDlg : \A q \in Ptr :
         f[n][q] = IF n = 0 \/ q = Null THEN <<>> ELSE <<q>> \o f[n - 1][nx[q]]
  <2>1. TAKE n \in 0 .. NumDlg
  <2>2. f[n] = Step(nx, f, n)
    BY <1>1, Zenon DEF Walk
  <2>3. QED BY <2>2 DEF Step
<1>4. part(Len(s) + 1) = <<>>
  BY <1>2
<1> DEFINE Bad == {n \in 0 .. NumDlg : \E k \in 1 .. Len(s) + 1 :
                      Len(s) + 1 - k <= n /\ f[n][ptr(k)] # part(k)}
<1>5. Bad = {}
  <2>1. SUFFICES ASSUME Bad # {} PROVE FALSE
    OBVIOUS
  <2>2. PICK n \in Bad : \A m \in Bad : n <= m
    <3>1. Bad \in SUBSET Nat
      BY <1>2
    <3> HIDE DEF Bad
    <3>2. QED BY <2>1, <3>1, LeastOf
  <2>3. PICK k \in 1 .. Len(s) + 1 : Len(s) + 1 - k <= n /\ f[n][ptr(k)] # part(k)
    BY <2>2
  <2>4. n \in 0 .. NumDlg
    BY <2>2
  <2>5. CASE k = Len(s) + 1
    BY <1>2, <1>3, <1>4, <2>3, <2>4, <2>5
  <2>6. CASE k # Len(s) + 1
    <3>1. /\ k \in 1 .. Len(s) /\ k + 1 \in 1 .. Len(s) + 1 /\ n # 0
          /\ n - 1 \in 0 .. NumDlg /\ Len(s) + 1 - (k + 1) <= n - 1
      <4>1. /\ Len(s) \in Nat /\ NumDlg \in Nat /\ n \in 0 .. NumDlg
            /\ k \in 1 .. Len(s) + 1 /\ k # Len(s) + 1 /\ Len(s) + 1 - k <= n
        BY <1>2, <2>3, <2>4, <2>6
      <4>2. QED BY ONLY <4>1
    <3>2. n - 1 \notin Bad
      BY <2>2, <2>4, <3>1
    <3>3. f[n - 1][ptr(k + 1)] = part(k + 1)
      BY <3>1, <3>2
    <3>4. nx[s[k]] = ptr(k + 1)
      BY <1>2, <3>1 DEF Linked
    <3>5. f[n][s[k]] = <<s[k]>> \o f[n - 1][nx[s[k]]]
      BY <1>2, <1>3, <2>4, <3>1
    <3>6. part(k) = <<s[k]>> \o part(k + 1)
      BY <3>1, LastPart
    <3>7. ptr(k) = s[k]
      BY <2>6
    <3>8. QED BY <2>3, <3>3, <3>4, <3>5, <3>6, <3>7
  <2>7. QED BY <2>5, <2>6
<1>6. NumDlg \notin Bad /\ 1 \in 1 .. Len(s) + 1 /\ Len(s) + 1 - 1 <= NumDlg /\ NumDlg \in 0 .. NumDlg
  <2>1. NumDlg \notin Bad
    BY <1>5
  <2> HIDE DEF Bad
  <2>2. Len(s) \in Nat /\ Len(s) <= NumDlg /\ NumDlg \in Nat
    BY <1>2
  <2>3. QED BY <2>1, <2>2
<1>7. f[NumDlg][ptr(1)] = part(1)
  BY <1>6
<1>8. ptr(1) = p /\ part(1) = s
  <2>1. CASE s = <<>>
    BY <2>1 DEF Linked
  <2>2. CASE s # <<>>
    <3>1. Len(s) # 0
      BY <2>2, EmptySeq
    <3>2. ptr(1) = p
      BY <1>2, <2>2, <3>1 DEF Linked
    <3>3. part(1) = s
      OBVIOUS
    <3>4. QED BY <3>2, <3>3
  <2>3. QED BY <2>1, <2>2
<1>9. QED BY <1>1, <1>7, <1>8

\* Pointers of dialogs elsewhere do not matter.
LEMMA LinkedElsewhere ==
    ASSUME NEW nx, NEW mx, NEW s, NEW p, Linked(nx, s, p),
           \A k \in 1 .. Len(s) : mx[s[k]] = nx[s[k]]
    PROVE  Linked(mx, s, p)
BY DEF Linked

\* CDlgQueue::pop.
LEMMA PopLinked ==
    ASSUME NEW nx, NEW s \in Seq(DlgId), NEW p, Linked(nx, s, p), p # Null
    PROVE  /\ s # <<>> /\ Head(s) = p /\ p \in DlgId
           /\ Linked(nx, Tail(s), nx[p]) /\ Tail(s) \in Seq(DlgId)
           /\ \A k \in 1 .. Len(Tail(s)) : Tail(s)[k] # p
           /\ \A k \in 1 .. Len(Tail(s)) : \E j \in 1 .. Len(s) : Tail(s)[k] = s[j]
<1> DEFINE t == Tail(s)
<1>1. s # <<>>
  BY DEF Linked
<1>2. /\ Len(s) \in Nat \ {0} /\ Head(s) = s[1] /\ s[1] = p
      /\ t \in Seq(DlgId) /\ Len(t) = Len(s) - 1
      /\ \A k \in 1 .. Len(s) - 1 : t[k] = s[k + 1]
  BY <1>1, HeadTailProperties, EmptySeq DEF Linked
<1> HIDE DEF t
<1>3. s[1] \in DlgId
  BY <1>2, ElementOfSeq
<1>4. \A k \in 1 .. Len(t) : k + 1 \in 1 .. Len(s) /\ k + 1 # 1 /\ t[k] = s[k + 1]
  BY <1>2
<1>5. nx[p] = IF t = <<>> THEN Null ELSE t[1]
  <2>1. nx[s[1]] = IF 1 = Len(s) THEN Null ELSE s[2]
    BY <1>2 DEF Linked
  <2>2. t = <<>> <=> Len(s) = 1
    BY <1>2, EmptySeq
  <2>3. Len(s) # 1 => t[1] = s[2]
    BY <1>2
  <2>4. QED BY <1>2, <2>1, <2>2, <2>3
<1>6. \A k \in 1 .. Len(t) : nx[t[k]] = IF k = Len(t) THEN Null ELSE t[k + 1]
  <2>1. TAKE k \in 1 .. Len(t)
  <2>2. nx[s[k + 1]] = IF k + 1 = Len(s) THEN Null ELSE s[(k + 1) + 1]
    BY <1>4 DEF Linked
  <2>3. (k + 1 = Len(s)) <=> (k = Len(t))
    BY <1>2
  <2>4. k # Len(t) => t[k + 1] = s[(k + 1) + 1]
    BY <1>2
  <2>5. QED BY <1>4, <2>2, <2>3, <2>4
<1>7. \A j, k \in 1 .. Len(t) : t[j] = t[k] => j = k
  <2>1. TAKE j, k \in 1 .. Len(t)
  <2>2. s[j + 1] = s[k + 1] => j + 1 = k + 1
    BY <1>4 DEF Linked
  <2>3. j + 1 = k + 1 => j = k
    BY <1>2
  <2>4. QED BY <1>4, <2>2, <2>3
<1>8. Linked(nx, t, nx[p])
  BY <1>5, <1>6, <1>7 DEF Linked
<1>9. \A k \in 1 .. Len(t) : t[k] # p
  <2>1. TAKE k \in 1 .. Len(t)
  <2>2. 1 \in 1 .. Len(s)
    BY <1>2
  <2>3. s[k + 1] # s[1]
    BY <1>4, <2>2 DEF Linked
  <2>4. QED BY <1>2, <1>4, <2>3
<1>10. QED BY <1>1, <1>2, <1>3, <1>4, <1>8, <1>9 DEF t

\* Insertion before the first, and CDlgQueue::push.
LEMMA PushLinked ==
    ASSUME NEW nx, NEW mx, NEW s \in Seq(DlgId), NEW p, Linked(nx, s, p),
           NEW d \in DlgId, \A k \in 1 .. Len(s) : s[k] # d /\ mx[s[k]] = nx[s[k]],
           mx[d] = p
    PROVE  Linked(mx, <<d>> \o s, d) /\ <<d>> \o s \in Seq(DlgId)
<1> DEFINE a == <<d>>
           t == a \o s
<1>1. a \in Seq(DlgId) /\ Len(a) = 1 /\ a[1] = d /\ Len(s) \in Nat
  BY LenProperties
<1> HIDE DEF a
<1>2. /\ t \in Seq(DlgId) /\ Len(t) = 1 + Len(s)
      /\ \A j \in 1 .. 1 + Len(s) : t[j] = IF j <= 1 THEN a[j] ELSE s[j - 1]
  <2>1. /\ t \in Seq(DlgId) /\ Len(t) = Len(a) + Len(s)
        /\ \A j \in 1 .. Len(a) + Len(s) : t[j] = IF j <= Len(a) THEN a[j] ELSE s[j - Len(a)]
    BY <1>1, ConcatProperties
  <2>2. QED BY <1>1, <2>1
<1> HIDE DEF t
<1>3. t[1] = d /\ t # <<>>
  BY <1>1, <1>2, EmptySeq
<1>4. \A k \in 1 .. Len(t) : k = 1 \/ (k # 1 /\ k - 1 \in 1 .. Len(s) /\ t[k] = s[k - 1])
  <2>1. TAKE k \in 1 .. Len(t)
  <2>2. CASE k # 1
    <3>1. k - 1 \in 1 .. Len(s) /\ ~(k <= 1) /\ k \in 1 .. 1 + Len(s)
      BY <1>1, <1>2, <2>2
    <3>2. QED BY <1>2, <2>2, <3>1
  <2>3. QED BY <2>2
<1>5. \A k \in 1 .. Len(t) : mx[t[k]] = IF k = Len(t) THEN Null ELSE t[k + 1]
  <2>1. TAKE k \in 1 .. Len(t)
  <2>2. CASE k = 1
    <3>1. p = IF Len(s) = 0 THEN Null ELSE s[1]
      BY EmptySeq DEF Linked
    <3>2. Len(s) # 0 => t[2] = s[1]
      BY <1>1, <1>2
    <3>3. (k = Len(t)) <=> (Len(s) = 0)
      BY <1>1, <1>2, <2>2
    <3>4. QED BY <1>3, <2>2, <3>1, <3>2, <3>3
  <2>3. CASE k # 1
    <3>1. k - 1 \in 1 .. Len(s) /\ t[k] = s[k - 1]
      BY <1>4, <2>3
    <3>2. nx[s[k - 1]] = IF k - 1 = Len(s) THEN Null ELSE s[(k - 1) + 1]
      BY <3>1 DEF Linked
    <3>3. (k - 1 = Len(s)) <=> (k = Len(t))
      BY <1>1, <1>2
    <3>4. k # Len(t) => t[k + 1] = s[(k - 1) + 1]
      <4>1. SUFFICES ASSUME k # Len(t) PROVE t[k + 1] = s[(k - 1) + 1]
        OBVIOUS
      <4>2. k + 1 \in 1 .. Len(t) /\ k + 1 # 1 /\ (k + 1) - 1 = (k - 1) + 1
        BY <1>1, <1>2, <4>1
      <4>3. QED BY <1>4, <4>2
    <3>5. QED BY <3>1, <3>2, <3>3, <3>4
  <2>4. QED BY <2>2, <2>3
<1>6. \A j, k \in 1 .. Len(t) : t[j] = t[k] => j = k
  <2>1. TAKE j, k \in 1 .. Len(t)
  <2>2. HAVE t[j] = t[k]
  <2>3. CASE j = 1 \/ k = 1
    BY <1>3, <1>4, <2>2, <2>3
  <2>4. CASE j # 1 /\ k # 1
    <3>1. /\ j - 1 \in 1 .. Len(s) /\ t[j] = s[j - 1]
          /\ k - 1 \in 1 .. Len(s) /\ t[k] = s[k - 1]
      BY <1>4, <2>4
    <3>2. j - 1 = k - 1
      BY <2>2, <3>1 DEF Linked
    <3>3. QED BY <1>1, <1>2, <3>2
  <2>5. QED BY <2>3, <2>4
<1>7. Linked(mx, t, d)
  BY <1>3, <1>5, <1>6 DEF Linked
<1>8. QED BY <1>2, <1>7 DEF t, a

\* A dialog is unlinked, by the pointer to the first one or by the one before.
LEMMA UnlinkLinked ==
    ASSUME NEW nx, NEW mx, NEW s \in Seq(DlgId), NEW p, Linked(nx, s, p),
           NEW k \in 1 .. Len(s),
           \A j \in 1 .. Len(s) : j # k => mx[s[j]] = IF j = k - 1 THEN nx[s[k]] ELSE nx[s[j]]
    PROVE  /\ Linked(mx, Abs!WithoutAt(s, k), IF s[k] = p THEN nx[s[k]] ELSE p)
           /\ Abs!WithoutAt(s, k) \in Seq(DlgId)
           /\ \A j \in 1 .. Len(Abs!WithoutAt(s, k)) :
                 /\ Abs!WithoutAt(s, k)[j] # s[k]
                 /\ \E i \in 1 .. Len(s) : Abs!WithoutAt(s, k)[j] = s[i]
<1> DEFINE a == SubSeq(s, 1, k - 1)
           b == SubSeq(s, k + 1, Len(s))
           t == Abs!WithoutAt(s, k)
           n == Len(s) - 1
<1>1. Len(s) \in Nat /\ k \in 1 .. Len(s) /\ n \in Nat
  BY LenProperties
<1>2. a \in Seq(DlgId) /\ Len(a) = k - 1 /\ \A j \in 1 .. k - 1 : a[j] = s[j]
  BY <1>1
<1>3. b \in Seq(DlgId) /\ Len(b) = Len(s) - k /\ \A j \in 1 .. Len(s) - k : b[j] = s[k + j]
  BY <1>1
<1>4. t = a \o b
  BY DEF Abs!WithoutAt
<1> HIDE DEF a, b, t
<1>5. t \in Seq(DlgId) /\ Len(t) = n /\ \A j \in 1 .. n : t[j] = IF j < k THEN s[j] ELSE s[j + 1]
  <2>1. /\ a \o b \in Seq(DlgId) /\ Len(a \o b) = Len(a) + Len(b)
        /\ \A j \in 1 .. Len(a) + Len(b) : (a \o b)[j] = IF j <= Len(a) THEN a[j] ELSE b[j - Len(a)]
    BY <1>2, <1>3, ConcatProperties
  <2>2. Len(a) + Len(b) = n
    BY <1>1, <1>2, <1>3
  <2>3. ASSUME NEW j \in 1 .. n
        PROVE  t[j] = IF j < k THEN s[j] ELSE s[j + 1]
    <3>1. CASE j < k
      <4>1. j \in 1 .. k - 1 /\ j <= Len(a)
        BY <1>1, <1>2, <3>1
      <4>2. QED BY <1>2, <1>4, <2>1, <2>2, <3>1, <4>1
    <3>2. CASE ~(j < k)
      <4>1. j - (k - 1) \in 1 .. Len(s) - k /\ ~(j <= Len(a)) /\ k + (j - (k - 1)) = j + 1
        BY <1>1, <1>2, <3>2
      <4>2. (a \o b)[j] = b[j - (k - 1)]
        BY <1>2, <2>1, <2>2, <4>1
      <4>3. b[j - (k - 1)] = s[j + 1]
        BY <1>3, <4>1
      <4>4. QED BY <1>4, <3>2, <4>2, <4>3
    <3>3. QED BY <3>1, <3>2
  <2>4. QED BY <1>4, <2>1, <2>2, <2>3
<1> HIDE DEF n
<1> DEFINE at(j) == IF j < k THEN j ELSE j + 1
<1>6. \A j \in 1 .. n : at(j) \in 1 .. Len(s) /\ at(j) # k /\ t[j] = s[at(j)]
  BY <1>1, <1>5 DEF n
<1>7. \A i, j \in 1 .. n : at(i) = at(j) => i = j
  BY <1>1 DEF n
<1>8. s[k] = p <=> k = 1
  <2>1. 1 \in 1 .. Len(s) /\ s # <<>>
    BY <1>1, EmptySeq
  <2>2. p = s[1]
    BY <2>1 DEF Linked
  <2>3. QED BY <1>1, <2>1, <2>2 DEF Linked
<1>9. nx[s[k]] = IF k = Len(s) THEN Null ELSE s[k + 1]
  BY <1>1 DEF Linked
<1>10. t = <<>> <=> n = 0
  BY <1>5, EmptySeq
<1>11. (IF s[k] = p THEN nx[s[k]] ELSE p) = IF t = <<>> THEN Null ELSE t[1]
  <2>1. CASE k = 1
    <3>1. (k = Len(s)) <=> (n = 0)
      BY <1>1, <2>1 DEF n
    <3>2. n # 0 => t[1] = s[k + 1]
      BY <1>1, <1>5, <2>1
    <3>3. QED BY <1>8, <1>9, <1>10, <2>1, <3>1, <3>2
  <2>2. CASE k # 1
    <3>1. n # 0 /\ 1 \in 1 .. n /\ 1 < k
      BY <1>1, <2>2 DEF n
    <3>2. t[1] = s[1]
      BY <1>5, <3>1
    <3>3. s # <<>>
      BY <1>1, EmptySeq
    <3>4. QED BY <1>8, <1>10, <2>2, <3>1, <3>2, <3>3 DEF Linked
  <2>3. QED BY <2>1, <2>2
<1>12. ASSUME NEW j \in 1 .. n
       PROVE  mx[t[j]] = IF j = n THEN Null ELSE t[j + 1]
  <2>1. at(j) \in 1 .. Len(s) /\ at(j) # k /\ t[j] = s[at(j)]
    BY <1>6
  <2>2. mx[t[j]] = IF at(j) = k - 1 THEN nx[s[k]] ELSE nx[s[at(j)]]
    BY <2>1
  <2>3. nx[s[at(j)]] = IF at(j) = Len(s) THEN Null ELSE s[at(j) + 1]
    BY <2>1 DEF Linked
  <2>4. CASE j = k - 1
    <3>1. at(j) = k - 1 /\ j + 1 = k
      BY <1>1, <2>4
    <3>2. (k = Len(s)) <=> (j = n)
      BY <1>1, <2>4 DEF n
    <3>3. j # n => t[j + 1] = s[k + 1]
      <4>1. SUFFICES ASSUME j # n PROVE t[j + 1] = s[k + 1]
        OBVIOUS
      <4>2. k \in 1 .. n /\ ~(k < k)
        BY <1>1, <2>4, <4>1 DEF n
      <4>3. QED BY <1>5, <3>1, <4>2
    <3>4. QED BY <1>9, <2>2, <3>1, <3>2, <3>3
  <2>5. CASE j # k - 1
    <3>1. at(j) # k - 1 /\ ((at(j) = Len(s)) <=> (j = n))
      BY <1>1, <2>5 DEF n
    <3>2. j # n => t[j + 1] = s[at(j) + 1]
      <4>1. SUFFICES ASSUME j # n PROVE t[j + 1] = s[at(j) + 1]
        OBVIOUS
      <4>2. j + 1 \in 1 .. n /\ at(j + 1) = at(j) + 1
        BY <1>1, <2>5, <4>1 DEF n
      <4>3. QED BY <1>6, <4>2
    <3>3. QED BY <2>2, <2>3, <3>1, <3>2
  <2>6. QED BY <2>4, <2>5
<1>13. \A i, j \in 1 .. n : t[i] = t[j] => i = j
  <2>1. TAKE i, j \in 1 .. n
  <2>2. HAVE t[i] = t[j]
  <2>3. at(i) = at(j)
    BY <1>6, <2>2 DEF Linked
  <2>4. QED BY <1>7, <2>3
<1>14. Linked(mx, t, IF s[k] = p THEN nx[s[k]] ELSE p)
  BY <1>5, <1>11, <1>12, <1>13 DEF Linked
<1>15. \A j \in 1 .. n : t[j] # s[k] /\ \E i \in 1 .. Len(s) : t[j] = s[i]
  <2>1. TAKE j \in 1 .. n
  <2>2. s[at(j)] # s[k]
    BY <1>1, <1>6 DEF Linked
  <2>3. QED BY <1>6, <2>2
<1>16. QED BY <1>5, <1>14, <1>15 DEF t

-----------------------------------------------------------------------------
(* The invariant: every pointer leads along its own chain, and the chains      *)
(* satisfy the invariant of DlgPool.                                           *)

Free == Chain(next, free_head)
Caller(i) == Chain(next, rmt_caller[i])

Chains ==
    /\ free_head \in Ptr /\ next \in [DlgId -> Ptr] /\ rmt_caller \in [Item -> Ptr]
    /\ Linked(next, Free, free_head)
    /\ \A i \in Item : Linked(next, Caller(i), rmt_caller[i])

LInv == Chains /\ DP!IInv

LEMMA PoolAssumptions ==
    /\ DP!NumDlgAssumption /\ DP!NullAssumption /\ DP!TransIdAssumption
    /\ DP!SendCanFailAssumption /\ DP!MemCanFailAssumption
    /\ DP!CompareCanFailAssumption /\ DP!MaxAskedAssumption
BY SizeAssumption, NullAssumption, ReplyAssumption
   DEF DP!NumDlgAssumption, DP!NullAssumption, DP!TransIdAssumption,
       DP!SendCanFailAssumption, DP!MemCanFailAssumption,
       DP!CompareCanFailAssumption, DP!MaxAskedAssumption

\* No dialog is on two chains.
LEMMA ApartIs ==
    ASSUME DP!IInv
    PROVE  /\ Free \in Seq(DlgId) /\ \A i \in Item : Caller(i) \in Seq(DlgId)
           /\ \A i \in Item : \A j \in 1 .. Len(Free), k \in 1 .. Len(Caller(i)) :
                 Free[j] # Caller(i)[k]
           /\ \A h, i \in Item : h # i =>
                 \A j \in 1 .. Len(Caller(h)), k \in 1 .. Len(Caller(i)) :
                    Caller(h)[j] # Caller(i)[k]
<1> DEFINE cs == [i \in Item |-> Chain(next, rmt_caller[i])]
<1>1. Free \in Seq(DlgId) /\ cs \in [Item -> Seq(DlgId)]
  BY DEF DP!IInv, DP!TypeOK, Free, DP!DlgId, DlgId
<1>2. /\ \A i, j \in Item, d \in DlgId : DP!InCallers(d, i) /\ DP!InCallers(d, j) => i = j
      /\ \A d \in DlgId : ~(DP!InFree(d) /\ DP!Listed(d))
  BY DEF DP!IInv, DP!PoolPartition, DP!DlgId, DlgId
<1>3. \A i \in Item : cs[i] = Caller(i) /\ Caller(i) \in Seq(DlgId)
  BY <1>1 DEF Caller
<1>4. ASSUME NEW i \in Item, NEW k \in 1 .. Len(Caller(i))
      PROVE  Caller(i)[k] \in DlgId /\ DP!InCallers(Caller(i)[k], i)
  <2>1. Caller(i)[k] \in DlgId
    BY <1>3, ElementOfSeq
  <2>2. QED BY <1>3, <2>1 DEF DP!InCallers, DP!Occurs
<1>5. ASSUME NEW j \in 1 .. Len(Free)
      PROVE  Free[j] \in DlgId /\ DP!InFree(Free[j])
  <2>1. Free[j] \in DlgId
    BY <1>1, ElementOfSeq
  <2>2. QED BY <2>1 DEF DP!InFree, DP!Occurs, Free
<1>6. ASSUME NEW i \in Item, NEW j \in 1 .. Len(Free), NEW k \in 1 .. Len(Caller(i)),
             Free[j] = Caller(i)[k]
      PROVE  FALSE
  <2>1. DP!Listed(Caller(i)[k])
    BY <1>4 DEF DP!Listed
  <2>2. QED BY <1>2, <1>4, <1>5, <1>6, <2>1
<1>7. QED BY <1>1, <1>2, <1>3, <1>4, <1>6

LEMMA InitLInv == Init => LInv /\ Abs!Init
<1> SUFFICES ASSUME Init PROVE LInv /\ Abs!Init
  OBVIOUS
<1> DEFINE s == [k \in 1 .. NumDlg |-> k - 1]
           e == <<>>
<1>1. NumDlg \in Nat \ {0} /\ Null \notin DlgId
  BY SizeAssumption, NullAssumption DEF DlgId
<1>2. /\ free_head = 0 /\ rmt_caller = [i \in Item |-> Null]
      /\ next = [d \in DlgId |-> IF d < NumDlg - 1 THEN d + 1 ELSE Null]
  BY DEF Init
<1>3. /\ s \in Seq(DlgId) /\ Len(s) = NumDlg /\ s # <<>> /\ e \in Seq(DlgId)
      /\ \A k \in 1 .. NumDlg : s[k] = k - 1 /\ k - 1 \in DlgId
  <2>1. \A k \in 1 .. NumDlg : k - 1 \in DlgId
    BY <1>1 DEF DlgId
  <2>2. s \in Seq(DlgId) /\ Len(s) = NumDlg
    BY <1>1, <2>1, IsASeq
  <2>3. QED BY <1>1, <2>1, <2>2, EmptySeq
<1> HIDE DEF s
<1>4. Linked(next, s, free_head)
  <2>1. free_head = s[1]
    BY <1>1, <1>2, <1>3
  <2>2. \A k \in 1 .. NumDlg : next[s[k]] = IF k = NumDlg THEN Null ELSE s[k + 1]
    <3>1. TAKE k \in 1 .. NumDlg
    <3>2. next[k - 1] = IF k - 1 < NumDlg - 1 THEN (k - 1) + 1 ELSE Null
      BY <1>2, <1>3
    <3>3. k # NumDlg => k - 1 < NumDlg - 1 /\ (k - 1) + 1 = s[k + 1]
      BY <1>1, <1>3
    <3>4. k = NumDlg => ~(k - 1 < NumDlg - 1)
      BY <1>1
    <3>5. QED BY <1>3, <3>2, <3>3, <3>4
  <2>3. \A j, k \in 1 .. NumDlg : s[j] = s[k] => j = k
    BY <1>1, <1>3
  <2>4. QED BY <1>3, <2>1, <2>2, <2>3 DEF Linked
<1>5. Linked(next, e, Null)
  BY DEF Linked
<1>6. Free = s /\ \A i \in Item : Caller(i) = <<>>
  <2>1. Chain(next, free_head) = s
    BY <1>3, <1>4, ChainIs
  <2>2. Chain(next, Null) = e
    BY <1>3, <1>5, ChainIs
  <2>3. QED BY <1>2, <2>1, <2>2 DEF Free, Caller
<1>7. Chains
  <2>1. free_head \in Ptr /\ rmt_caller \in [Item -> Ptr]
    BY <1>1, <1>2 DEF Ptr, DlgId
  <2>2. next \in [DlgId -> Ptr]
    BY <1>1, <1>2 DEF Ptr, DlgId
  <2>3. QED BY <1>2, <1>4, <1>5, <1>6, <2>1, <2>2 DEF Chains
<1>8. Abs!Init /\ DP!Init
  <2>1. /\ Chain(next, free_head) = [k \in 1 .. NumDlg |-> k - 1]
        /\ [i \in Item |-> Chain(next, rmt_caller[i])] = [i \in Item |-> <<>>]
    BY <1>6 DEF Free, Caller, s
  <2>2. /\ dlg = [d \in DlgId |-> Abs!Blank] /\ asked = [d \in DlgId |-> 0]
        /\ up = TRUE /\ lost = {}
    BY DEF Init
  <2>3. QED BY <2>1, <2>2 DEF Abs!Init, DP!Init, Abs!Blank, DP!Blank, Abs!DlgId, DP!DlgId, DlgId
<1>9. DP!IInv
  BY <1>8, PoolAssumptions, DP!InitIInv
<1>10. QED BY <1>7, <1>8, <1>9 DEF LInv

-----------------------------------------------------------------------------
(* The handlers *)

\* An INVITE's walk over an item's callers meets one it stops at, if there is
\* one, and meets it first.
LEMMA WalkMeets ==
    ASSUME NEW i \in Item, NEW m, DP!IInv, InviteStop(i, m) = {}
    PROVE  Abs!InviteUnknown(i, m)
<1> DEFINE s == Chain(next, rmt_caller[i])
           P(d) == Abs!InviteMatch(d, m) \/ Abs!InviteNull(d, m)
           hits == {k \in 1 .. Len(s) : P(s[k])}
<1>1. Len(s) \in Nat /\ DOMAIN s = 1 .. Len(s)
  <2>1. s \in Seq(DlgId)
    BY ApartIs DEF Caller
  <2> HIDE DEF s
  <2>2. QED BY <2>1, LenProperties
<1>2. hits = {} => Abs!InviteUnknown(i, m)
  BY DEF Abs!InviteUnknown
<1>3. ASSUME hits # {} PROVE FALSE
  <2>1. hits \in SUBSET Nat
    BY <1>1
  <2>0. InviteStop(i, m) =
          {<<s[k], IF k = 1 THEN s[1] ELSE s[k - 1]>> :
              k \in {n \in DOMAIN s : P(s[n]) /\ \A j \in 1 .. n - 1 : ~P(s[j])}}
    BY DEF InviteStop, FirstOn
  <2> HIDE DEF hits, P, s
  <2>2. PICK n \in hits : \A k \in hits : n <= k
    BY <1>3, <2>1, LeastOf
  <2>3. n \in 1 .. Len(s) /\ P(s[n])
    BY <2>2 DEF hits
  <2>4. \A j \in 1 .. n - 1 : ~P(s[j])
    <3>1. TAKE j \in 1 .. n - 1
    <3>2. j \in 1 .. Len(s) /\ ~(n <= j)
      BY <1>1, <2>3
    <3>3. QED BY <2>2, <3>2 DEF hits
  <2>5. n \in {k \in DOMAIN s : P(s[k]) /\ \A j \in 1 .. k - 1 : ~P(s[j])}
    BY <1>1, <2>3, <2>4
  <2>6. InviteStop(i, m) # {}
    BY <2>0, <2>5
  <2>7. QED BY <2>6
<1>4. QED BY <1>2, <1>3

\* Where it stops, no dialog before was of this call.
LEMMA InviteStopIs ==
    ASSUME NEW i \in Item, NEW m, DP!IInv, NEW found \in InviteStop(i, m),
           Abs!InviteNull(found[1], m)
    PROVE  Abs!InviteCrash(i, m)
<1> DEFINE s == Chain(next, rmt_caller[i])
           cs == [j \in Item |-> Chain(next, rmt_caller[j])]
           P(d) == Abs!InviteMatch(d, m) \/ Abs!InviteNull(d, m)
<1>1. DOMAIN s = 1 .. Len(s)
  <2>1. s \in Seq(DlgId)
    BY ApartIs DEF Caller
  <2> HIDE DEF s
  <2>2. QED BY <2>1, LenProperties
<1>2. PICK k \in {n \in DOMAIN s : P(s[n]) /\ \A j \in 1 .. n - 1 : ~P(s[j])} :
         found = <<s[k], IF k = 1 THEN s[1] ELSE s[k - 1]>>
  BY DEF InviteStop, FirstOn
<1>3. cs[i] = s
  OBVIOUS
<1>4. (\E n \in 1 .. Len(cs[i]) : /\ Abs!InviteNull(cs[i][n], m)
                                  /\ \A j \in 1 .. n - 1 : ~Abs!InviteMatch(cs[i][j], m))
      => Abs!InviteCrash(i, m)
  BY DEF Abs!InviteCrash
<1> HIDE DEF cs, s
<1>5. k \in 1 .. Len(cs[i]) /\ Abs!InviteNull(cs[i][k], m)
  BY <1>1, <1>2, <1>3
<1>6. \A j \in 1 .. k - 1 : ~Abs!InviteMatch(cs[i][j], m)
  BY <1>2, <1>3
<1>7. QED BY <1>4, <1>5, <1>6

LEMMA StopIs ==
    ASSUME NEW i \in Item, NEW m, DP!IInv, NEW found \in Stop(i, m)
    PROVE  \E k \in 1 .. Len(Caller(i)) :
              /\ Abs!WalkEndsAt(i, k, m) /\ found[1] = Caller(i)[k]
              /\ found[2] = IF k = 1 THEN Caller(i)[1] ELSE Caller(i)[k - 1]
<1> DEFINE s == Chain(next, rmt_caller[i])
           cs == [j \in Item |-> Chain(next, rmt_caller[j])]
<1>1. DOMAIN s = 1 .. Len(s)
  <2>1. s \in Seq(DlgId)
    BY ApartIs DEF Caller
  <2> HIDE DEF s
  <2>2. QED BY <2>1, LenProperties
<1>2. PICK k \in {n \in DOMAIN s : Abs!Stops(s[n], m) /\ \A j \in 1 .. n - 1 : ~Abs!Stops(s[j], m)} :
         found = <<s[k], IF k = 1 THEN s[1] ELSE s[k - 1]>>
  BY DEF Stop, FirstOn
<1>3. cs[i] = s
  OBVIOUS
<1>4. Abs!WalkEndsAt(i, k, m) <=> /\ k \in 1 .. Len(cs[i])
                                  /\ Abs!Stops(cs[i][k], m)
                                  /\ \A j \in 1 .. k - 1 : ~Abs!Stops(cs[i][j], m)
  BY DEF Abs!WalkEndsAt
<1> HIDE DEF cs, s
<1>5. k \in 1 .. Len(s) /\ Abs!WalkEndsAt(i, k, m)
  BY <1>1, <1>2, <1>3, <1>4
<1>6. found[1] = s[k] /\ found[2] = IF k = 1 THEN s[1] ELSE s[k - 1]
  BY <1>2
<1>7. QED BY <1>5, <1>6 DEF Caller, s

\* An INVITE for which a dialog is popped.
LEMMA InviteSteps ==
    ASSUME LInv, NEW i \in Item, NEW m \in Abs!Request, Invite(i, m)
    PROVE  Chains' /\ (Abs!InviteNew(i, m) \/ Abs!InviteNewUnsent(i, m))
<1> DEFINE d == free_head
           fs == Free
           cs == Caller(i)
<1>1. /\ DP!IInv /\ free_head \in Ptr /\ next \in [DlgId -> Ptr] /\ rmt_caller \in [Item -> Ptr]
      /\ Linked(next, Free, free_head)
      /\ \A h \in Item : Linked(next, Caller(h), rmt_caller[h])
  BY DEF LInv, Chains
<1>2. /\ Free \in Seq(DlgId) /\ \A h \in Item : Caller(h) \in Seq(DlgId)
      /\ \A h \in Item : \A j \in 1 .. Len(Free), k \in 1 .. Len(Caller(h)) :
            Free[j] # Caller(h)[k]
  BY <1>1, ApartIs
<1>3. /\ up /\ d # Null /\ free_head' = next[d]
      /\ next' = [next EXCEPT ![d] = rmt_caller[i]]
      /\ rmt_caller' = [rmt_caller EXCEPT ![i] = d]
      /\ \E rtag \in {m.rtag} \cup Abs!NoCopy :
            dlg' = [dlg EXCEPT ![d] = [state |-> "INVITING", cid |-> m.cid,
                        rtag |-> rtag, ltag |-> Null, tid |-> @.tid]]
      /\ \/ asked[d] < MaxAsked /\ asked' = [asked EXCEPT ![d] = @ + 1]
         \/ SendCanFail /\ asked' = asked
      /\ up' = up /\ lost' = lost
  BY DEF Invite
<1>4. Abs!InviteUnknown(i, m)
  BY <1>1, WalkMeets DEF Invite
<1>5. /\ fs # <<>> /\ Head(fs) = d /\ d \in DlgId
      /\ Linked(next, Tail(fs), next[d]) /\ Tail(fs) \in Seq(DlgId)
      /\ \A k \in 1 .. Len(Tail(fs)) : Tail(fs)[k] # d
  BY <1>1, <1>2, <1>3, PopLinked
<1>6. \A h \in Item : \A k \in 1 .. Len(Caller(h)) : Caller(h)[k] # d
  <2>1. 1 \in 1 .. Len(fs) /\ fs[1] = d
    BY <1>1, <1>2, <1>5, EmptySeq, LenProperties DEF Linked
  <2>2. QED BY <1>2, <2>1
<1>7. \A x \in DlgId : next'[x] = IF x = d THEN rmt_caller[i] ELSE next[x]
  BY <1>1, <1>3
<1>8. Linked(next', Tail(fs), next[d])
  <2> DEFINE t == Tail(fs)
  <2>1. \A k \in 1 .. Len(t) : next'[t[k]] = next[t[k]]
    BY <1>5, <1>7, ElementOfSeq
  <2>2. Linked(next, t, next[d])
    BY <1>5
  <2> HIDE DEF t
  <2>3. QED BY <2>1, <2>2, LinkedElsewhere DEF t
<1>9. ASSUME NEW h \in Item
      PROVE  \A k \in 1 .. Len(Caller(h)) : Caller(h)[k] # d /\ next'[Caller(h)[k]] = next[Caller(h)[k]]
  BY <1>2, <1>6, <1>7, ElementOfSeq
<1>10. Linked(next', <<d>> \o cs, d) /\ <<d>> \o cs \in Seq(DlgId)
  <2> DEFINE p == rmt_caller[i]
             mx == next'
  <2>1. /\ cs \in Seq(DlgId) /\ Linked(next, cs, p) /\ d \in DlgId /\ mx[d] = p
        /\ \A k \in 1 .. Len(cs) : cs[k] # d /\ mx[cs[k]] = next[cs[k]]
    BY <1>1, <1>2, <1>5, <1>7, <1>9
  <2> HIDE DEF cs, d, p, mx
  <2>2. Linked(mx, <<d>> \o cs, d) /\ <<d>> \o cs \in Seq(DlgId)
    BY ONLY <2>1, PushLinked
  <2>3. QED BY <2>2 DEF mx
<1>11. ASSUME NEW h \in Item, h # i
       PROVE  Linked(next', Caller(h), rmt_caller[h])
  <2> DEFINE c == Caller(h)
  <2>1. /\ Linked(next, c, rmt_caller[h])
        /\ \A k \in 1 .. Len(c) : next'[c[k]] = next[c[k]]
    BY <1>1, <1>9
  <2> HIDE DEF c
  <2>2. QED BY <2>1, LinkedElsewhere DEF c
<1>12. Chain(next', free_head') = Tail(fs)
  BY <1>3, <1>5, <1>8, ChainIs
<1>13. Chain(next', rmt_caller'[i]) = <<d>> \o cs /\ rmt_caller'[i] = d
  BY <1>1, <1>3, <1>10, ChainIs
<1>14. \A h \in Item : h # i => Chain(next', rmt_caller'[h]) = Caller(h) /\ rmt_caller'[h] = rmt_caller[h]
  BY <1>1, <1>2, <1>3, <1>11, ChainIs
<1>15. Chains'
  <2>1. free_head' \in Ptr /\ next' \in [DlgId -> Ptr] /\ rmt_caller' \in [Item -> Ptr]
    BY <1>1, <1>3, <1>5 DEF Ptr
  <2>2. Linked(next', Chain(next', free_head'), free_head')
    BY <1>3, <1>8, <1>12
  <2>3. \A h \in Item : Linked(next', Chain(next', rmt_caller'[h]), rmt_caller'[h])
    BY <1>10, <1>11, <1>13, <1>14
  <2>4. QED BY <2>1, <2>2, <2>3 DEF Chains, Free, Caller
<1>16. Abs!AddDialog(i, m)
  <2>1. Free # <<>> /\ Chain(next', free_head') = Tail(Free) /\ Head(Free) = d
    BY <1>5, <1>12
  <2>2. [h \in Item |-> Chain(next', rmt_caller'[h])] =
        [[h \in Item |-> Chain(next, rmt_caller[h])] EXCEPT ![i] = <<d>> \o @]
    BY <1>13, <1>14 DEF Caller
  <2>3. QED BY <1>3, <1>4, <2>1, <2>2 DEF Abs!AddDialog, Free
<1>17. Abs!InviteNew(i, m) \/ Abs!InviteNewUnsent(i, m)
  <2>1. Head(Chain(next, free_head)) = d
    BY <1>5 DEF Free
  <2>2. QED BY <1>3, <1>16, <2>1 DEF Abs!InviteNew, Abs!InviteNewUnsent
<1>18. QED BY <1>15, <1>17

\* An INVITE that finds no memory: the free chain is one shorter.
LEMMA NoMemSteps ==
    ASSUME LInv, NEW i \in Item, NEW m \in Abs!Request, InviteNoMem(i, m)
    PROVE  Chains' /\ Abs!InviteNoMem(i, m)
<1> DEFINE d == free_head
           fs == Free
<1>1. /\ DP!IInv /\ free_head \in Ptr /\ next \in [DlgId -> Ptr] /\ rmt_caller \in [Item -> Ptr]
      /\ Linked(next, fs, d)
      /\ \A h \in Item : Linked(next, Caller(h), rmt_caller[h])
  BY DEF LInv, Chains
<1>2. /\ up /\ MemCanFail /\ d # Null /\ free_head' = next[d] /\ lost' = lost \cup {d}
      /\ next' = next /\ rmt_caller' = rmt_caller /\ dlg' = dlg /\ asked' = asked /\ up' = up
  BY DEF InviteNoMem
<1>3. /\ fs # <<>> /\ Head(fs) = d /\ d \in DlgId
      /\ Linked(next, Tail(fs), next[d]) /\ Tail(fs) \in Seq(DlgId)
  BY <1>1, <1>2, ApartIs, PopLinked
<1>4. Chain(next', free_head') = Tail(fs)
  BY <1>2, <1>3, ChainIs
<1>5. \A h \in Item : Chain(next', rmt_caller'[h]) = Caller(h)
  BY <1>2 DEF Caller
<1>6. Chains'
  <2>1. free_head' \in Ptr /\ next' \in [DlgId -> Ptr] /\ rmt_caller' \in [Item -> Ptr]
    BY <1>1, <1>2, <1>3
  <2>2. Linked(next', Chain(next', free_head'), free_head')
    BY <1>2, <1>3, <1>4
  <2>3. \A h \in Item : Linked(next', Chain(next', rmt_caller'[h]), rmt_caller'[h])
    BY <1>1, <1>2, <1>5
  <2>4. QED BY <2>1, <2>2, <2>3 DEF Chains, Free, Caller
<1>7. Abs!InviteNoMem(i, m)
  <2>1. Abs!InviteUnknown(i, m)
    BY <1>1, WalkMeets DEF InviteNoMem
  <2>2. [h \in Item |-> Chain(next', rmt_caller'[h])] = [h \in Item |-> Chain(next, rmt_caller[h])]
    BY <1>2
  <2>3. Free # <<>> /\ Chain(next', free_head') = Tail(Free) /\ Head(Free) = d
    BY <1>3, <1>4
  <2>4. QED BY <1>2, <2>1, <2>2, <2>3 DEF Abs!InviteNoMem, Free
<1>8. QED BY <1>6, <1>7

\* A BYE that finds its dialog.
LEMMA ByeSteps ==
    ASSUME LInv, NEW i \in Item, NEW m \in Abs!Request, Bye(i, m)
    PROVE  Chains' /\ Abs!Bye(i, m)
<1>1. /\ DP!IInv /\ free_head \in Ptr /\ next \in [DlgId -> Ptr] /\ rmt_caller \in [Item -> Ptr]
      /\ Linked(next, Free, free_head)
      /\ \A h \in Item : Linked(next, Caller(h), rmt_caller[h])
  BY DEF LInv, Chains
<1>2. /\ Free \in Seq(DlgId) /\ \A h \in Item : Caller(h) \in Seq(DlgId)
      /\ \A h \in Item : \A j \in 1 .. Len(Free), k \in 1 .. Len(Caller(h)) :
            Free[j] # Caller(h)[k]
      /\ \A g, h \in Item : g # h =>
            \A j \in 1 .. Len(Caller(g)), k \in 1 .. Len(Caller(h)) : Caller(g)[j] # Caller(h)[k]
  BY <1>1, ApartIs
<1>3. PICK found \in Stop(i, m) :
         LET d == found[1]
             pre == found[2]
             unlinked == IF d = rmt_caller[i] THEN next ELSE [next EXCEPT ![pre] = next[d]]
         IN  /\ Abs!AckMatch(d, m)
             /\ rmt_caller' = IF d = rmt_caller[i]
                              THEN [rmt_caller EXCEPT ![i] = next[d]] ELSE rmt_caller
             /\ next' = [unlinked EXCEPT ![d] = free_head]
             /\ free_head' = d
             /\ dlg' = [dlg EXCEPT ![d] = Abs!Blank]
  BY DEF Bye
<1> DEFINE cs == Caller(i)
           t(k) == Abs!WithoutAt(cs, k)
           first(k) == cs[k] = rmt_caller[i]
<1>4. PICK k \in 1 .. Len(cs) :
         /\ Abs!WalkEndsAt(i, k, m) /\ found[1] = cs[k]
         /\ found[2] = IF k = 1 THEN cs[1] ELSE cs[k - 1]
  BY <1>1, StopIs
<1> DEFINE d == cs[k]
<1>5. /\ up /\ up' = up /\ asked' = asked /\ lost' = lost
      /\ Abs!AckMatch(d, m)
      /\ rmt_caller' = IF first(k) THEN [rmt_caller EXCEPT ![i] = next[d]] ELSE rmt_caller
      /\ next' = [(IF first(k) THEN next ELSE [next EXCEPT ![found[2]] = next[d]])
                     EXCEPT ![d] = free_head]
      /\ free_head' = d
      /\ dlg' = [dlg EXCEPT ![d] = Abs!Blank]
  BY <1>3, <1>4 DEF Bye
<1>6. /\ Len(cs) \in Nat /\ \A j \in 1 .. Len(cs) : cs[j] \in DlgId
      /\ \A j, l \in 1 .. Len(cs) : cs[j] = cs[l] => j = l
      /\ cs \in Seq(DlgId) /\ Linked(next, cs, rmt_caller[i])
  BY <1>1, <1>2, ElementOfSeq, LenProperties DEF Linked
<1>7. first(k) <=> k = 1
  <2>1. 1 \in 1 .. Len(cs) /\ rmt_caller[i] = cs[1]
    BY <1>6, EmptySeq DEF Linked
  <2>2. QED BY <1>6, <2>1
<1>8. k # 1 => found[2] = cs[k - 1] /\ k - 1 \in 1 .. Len(cs) /\ k - 1 # k
  BY <1>4, <1>6
<1>9. \A x \in DlgId : next'[x] = IF x = d THEN free_head
                                  ELSE IF k # 1 /\ x = cs[k - 1] THEN next[d] ELSE next[x]
  <2>1. d \in DlgId
    BY <1>6
  <2>2. CASE k = 1
    BY <1>1, <1>5, <1>7, <2>1, <2>2
  <2>3. CASE k # 1
    <3>1. next' = [[next EXCEPT ![cs[k - 1]] = next[d]] EXCEPT ![d] = free_head]
      BY <1>5, <1>7, <1>8, <2>3
    <3>2. QED BY <1>1, <1>6, <1>8, <2>1, <2>3, <3>1
  <2>4. QED BY <2>2, <2>3
<1> HIDE DEF cs
<1>10. \A j \in 1 .. Len(cs) : j # k => next'[cs[j]] = IF j = k - 1 THEN next[cs[k]] ELSE next[cs[j]]
  <2>1. TAKE j \in 1 .. Len(cs)
  <2>2. HAVE j # k
  <2>3. cs[j] \in DlgId /\ cs[j] # d
    BY <1>6, <2>2
  <2>4. (k # 1 /\ cs[j] = cs[k - 1]) <=> j = k - 1
    BY <1>6, <1>8
  <2>5. QED BY <1>9, <2>3, <2>4
<1>11. /\ Linked(next', t(k), IF first(k) THEN next[d] ELSE rmt_caller[i])
       /\ t(k) \in Seq(DlgId)
  <2>1. /\ cs \in Seq(DlgId) /\ Linked(next, cs, rmt_caller[i]) /\ k \in 1 .. Len(cs)
        /\ \A j \in 1 .. Len(cs) : j # k => next'[cs[j]] = IF j = k - 1 THEN next[cs[k]] ELSE next[cs[j]]
    BY <1>6, <1>10
  <2>2. /\ Linked(next', Abs!WithoutAt(cs, k), IF cs[k] = rmt_caller[i] THEN next[cs[k]] ELSE rmt_caller[i])
        /\ Abs!WithoutAt(cs, k) \in Seq(DlgId)
    BY ONLY <2>1, UnlinkLinked
  <2>3. QED BY <2>2
<1>12. ASSUME NEW h \in Item, h # i
       PROVE  Linked(next', Caller(h), rmt_caller[h])
  <2> DEFINE c == Caller(h)
  <2>1. c \in Seq(DlgId) /\ Linked(next, c, rmt_caller[h])
    BY <1>1, <1>2
  <2>2. \A l \in 1 .. Len(c), j \in 1 .. Len(cs) : c[l] # cs[j]
    BY <1>2, <1>12 DEF cs
  <2> HIDE DEF c
  <2>3. \A l \in 1 .. Len(c) : next'[c[l]] = next[c[l]]
    BY <1>8, <1>9, <2>1, <2>2, ElementOfSeq
  <2>4. QED BY <2>1, <2>3, LinkedElsewhere DEF c
<1>13. Linked(next', <<d>> \o Free, d) /\ <<d>> \o Free \in Seq(DlgId)
  <2> DEFINE fs == Free
  <2>1. fs \in Seq(DlgId) /\ Linked(next, fs, free_head)
    BY <1>1, <1>2
  <2>2. \A l \in 1 .. Len(fs), j \in 1 .. Len(cs) : fs[l] # cs[j]
    BY <1>2 DEF cs
  <2> HIDE DEF fs
  <2>3. \A l \in 1 .. Len(fs) : fs[l] # d /\ next'[fs[l]] = next[fs[l]]
    BY <1>8, <1>9, <2>1, <2>2, ElementOfSeq
  <2>4. d \in DlgId /\ next'[d] = free_head
    BY <1>6, <1>9
  <2>5. QED BY <2>1, <2>3, <2>4, PushLinked DEF fs
<1>14. /\ rmt_caller'[i] = IF first(k) THEN next[d] ELSE rmt_caller[i]
       /\ \A h \in Item : h # i => rmt_caller'[h] = rmt_caller[h]
  BY <1>1, <1>5
<1>15. Chain(next', free_head') = <<d>> \o Free
  BY <1>5, <1>13, ChainIs
<1>16. Chain(next', rmt_caller'[i]) = t(k)
  BY <1>11, <1>14, ChainIs
<1>17. \A h \in Item : h # i => Chain(next', rmt_caller'[h]) = Caller(h)
  BY <1>2, <1>12, <1>14, ChainIs
<1>18. Chains'
  <2>1. next' \in [DlgId -> Ptr]
    <3>1. d \in DlgId /\ next[d] \in Ptr
      BY <1>1, <1>6
    <3>2. CASE k = 1
      <4>1. next' = [next EXCEPT ![d] = free_head]
        BY <1>5, <1>7, <3>2
      <4>2. QED BY <1>1, <3>1, <4>1
    <3>3. CASE k # 1
      <4>1. next' = [[next EXCEPT ![cs[k - 1]] = next[d]] EXCEPT ![d] = free_head]
        BY <1>5, <1>7, <1>8, <3>3
      <4>2. QED BY <1>1, <3>1, <4>1
    <3>4. QED BY <3>2, <3>3
  <2>2. free_head' \in Ptr /\ rmt_caller' \in [Item -> Ptr]
    BY <1>1, <1>5, <1>6 DEF Ptr
  <2>3. Linked(next', Chain(next', free_head'), free_head')
    BY <1>5, <1>13, <1>15
  <2>4. \A h \in Item : Linked(next', Chain(next', rmt_caller'[h]), rmt_caller'[h])
    BY <1>11, <1>12, <1>14, <1>16, <1>17
  <2>5. QED BY <2>1, <2>2, <2>3, <2>4 DEF Chains, Free, Caller
<1>19. Abs!Bye(i, m)
  <2> DEFINE cc == [h \in Item |-> Chain(next, rmt_caller[h])]
  <2>1. cc[i] = cs /\ cc \in [Item -> Seq(DlgId)]
    BY <1>2 DEF cs, Caller
  <2>2. [h \in Item |-> Chain(next', rmt_caller'[h])] = [cc EXCEPT ![i] = Abs!WithoutAt(@, k)]
    BY <1>16, <1>17, <2>1 DEF Caller
  <2>3. k \in DOMAIN cc[i]
    BY <1>6, <2>1
  <2>4. Abs!FoundAt(i, k, m)
    <3>1. Abs!AckMatch(cc[i][k], m)
      BY <1>5, <2>1
    <3>2. QED BY <1>4, <3>1 DEF Abs!FoundAt
  <2>5. Abs!ByeAt(i, k)
    <3>1. /\ Chain(next', free_head') = <<cc[i][k]>> \o Chain(next, free_head)
          /\ dlg' = [dlg EXCEPT ![cc[i][k]] = Abs!Blank]
      BY <1>5, <1>15, <2>1 DEF Free
    <3>2. QED BY <1>5, <2>2, <3>1 DEF Abs!ByeAt
  <2>6. QED BY <2>3, <2>4, <2>5 DEF Abs!Bye
<1>20. QED BY <1>18, <1>19

\* The handlers that touch no pointer.
LEMMA OtherSteps ==
    ASSUME LInv, UNCHANGED <<free_head, next, rmt_caller>>
    PROVE  /\ Chains'
           /\ \A i \in Item : \A m : Crash(i, m) => Abs!Crash(i, m)
           /\ \A d, tag, t : MediaReply(d, tag, t) => Abs!MediaReply(d, tag, t)
           /\ \A d : MediaReplyUnsent(d) => Abs!MediaReplyUnsent(d)
           /\ UNCHANGED vars => UNCHANGED Abs!vars
<1>1. /\ Chain(next', free_head') = Chain(next, free_head)
      /\ [i \in Item |-> Chain(next', rmt_caller'[i])] = [i \in Item |-> Chain(next, rmt_caller[i])]
  OBVIOUS
<1>2. Chains'
  BY DEF LInv, Chains, Free, Caller
<1>3. ASSUME NEW i \in Item, NEW m, Crash(i, m)
      PROVE  Abs!Crash(i, m)
  <2>1. DP!IInv
    BY DEF LInv
  <2>2. CASE \E found \in InviteStop(i, m) : Abs!InviteNull(found[1], m)
    <3>1. Abs!InviteCrash(i, m)
      BY <2>1, <2>2, InviteStopIs
    <3>2. QED BY <1>1, <1>3, <3>1 DEF Crash, Abs!Crash
  <2>3. CASE \E found \in Stop(i, m) : Abs!NullCompare(found[1], m)
    <3> DEFINE cc == [h \in Item |-> Chain(next, rmt_caller[h])]
    <3>1. PICK found \in Stop(i, m) : Abs!NullCompare(found[1], m)
      BY <2>3
    <3>2. PICK k \in 1 .. Len(Caller(i)) : Abs!WalkEndsAt(i, k, m) /\ found[1] = Caller(i)[k]
      BY <2>1, <3>1, StopIs
    <3>3. cc[i] = Caller(i) /\ Caller(i) \in Seq(DlgId)
      BY <2>1, ApartIs DEF Caller
    <3>4. k \in DOMAIN cc[i]
      <4> DEFINE s == Caller(i)
      <4>1. s \in Seq(DlgId) /\ k \in 1 .. Len(s) /\ cc[i] = s
        BY <3>2, <3>3
      <4> HIDE DEF s, cc
      <4>2. DOMAIN s = 1 .. Len(s)
        BY <4>1, LenProperties
      <4>3. QED BY <4>1, <4>2
    <3>5. Abs!CrashAt(i, k, m)
      BY <3>1, <3>2, <3>3 DEF Abs!CrashAt
    <3>6. QED BY <1>1, <1>3, <3>4, <3>5 DEF Crash, Abs!Crash
  <2>4. QED BY <1>3, <2>2, <2>3 DEF Crash
<1>4. ASSUME NEW d, NEW tag, NEW t, MediaReply(d, tag, t)
      PROVE  Abs!MediaReply(d, tag, t)
  BY <1>1, <1>4 DEF MediaReply, Abs!MediaReply
<1>5. ASSUME NEW d, MediaReplyUnsent(d)
      PROVE  Abs!MediaReplyUnsent(d)
  BY <1>1, <1>5 DEF MediaReplyUnsent, Abs!MediaReplyUnsent
<1>6. UNCHANGED vars => UNCHANGED Abs!vars
  BY <1>1 DEF vars, Abs!vars
<1>7. QED BY <1>2, <1>3, <1>4, <1>5, <1>6

\* Abs and the instance of DlgPool that DlgPoolProofs extends are the same.
LEMMA SameNext == Abs!Next \/ UNCHANGED Abs!vars => DP!Next \/ UNCHANGED DP!vars
BY DEF DP!AddDialog, Abs!AddDialog, DP!InviteKnown, Abs!InviteKnown,
       DP!InviteUnknown, Abs!InviteUnknown, DP!InviteCrash, Abs!InviteCrash,
       DP!InviteNull, Abs!InviteNull, DP!InviteNoMem, Abs!InviteNoMem,
       DP!SameCall, Abs!SameCall, DP!NoCopy, Abs!NoCopy,
       DP!InviteMatch, Abs!InviteMatch, DP!InviteNew, Abs!InviteNew,
       DP!InviteNewUnsent, Abs!InviteNewUnsent, DP!Bye, Abs!Bye, DP!ByeAt,
       Abs!ByeAt, DP!Crash, Abs!Crash, DP!CrashAt, Abs!CrashAt,
       DP!NullCompare, Abs!NullCompare, DP!InviteBusy, Abs!InviteBusy,
       DP!InviteFull, Abs!InviteFull, DP!Ack, Abs!Ack, DP!ByeUnknown,
       Abs!ByeUnknown, DP!MediaReply, Abs!MediaReply, DP!MediaReplyUnsent,
       Abs!MediaReplyUnsent, DP!FoundAt, Abs!FoundAt, DP!NotFound,
       Abs!NotFound, DP!WalkEndsAt, Abs!WalkEndsAt, DP!Stops, Abs!Stops,
       DP!AckMatch, Abs!AckMatch, DP!WithoutAt, Abs!WithoutAt, DP!Blank,
       Abs!Blank, DP!Same, Abs!Same, DP!Request, Abs!Request, DP!DlgId,
       Abs!DlgId, DP!vars, Abs!vars, DP!Next, Abs!Next

LEMMA NextLInv == LInv /\ [Next]_vars => LInv' /\ [Abs!Next]_(Abs!vars)
<1> SUFFICES ASSUME LInv, [Next]_vars PROVE LInv' /\ (Abs!Next \/ UNCHANGED Abs!vars)
  OBVIOUS
<1>1. Chains' /\ (Abs!Next \/ UNCHANGED Abs!vars)
  <2>1. ASSUME NEW i \in Item, NEW m \in Abs!Request, Invite(i, m)
        PROVE  Chains' /\ Abs!Next
    BY <2>1, InviteSteps DEF Abs!Next
  <2>2. ASSUME NEW i \in Item, NEW m \in Abs!Request, Bye(i, m)
        PROVE  Chains' /\ Abs!Next
    BY <2>2, ByeSteps DEF Abs!Next
  <2>3. ASSUME NEW i \in Item, NEW m \in Abs!Request, Crash(i, m)
        PROVE  Chains' /\ Abs!Next
    BY <2>3, OtherSteps DEF Crash, Abs!Next
  <2>4. ASSUME NEW d \in DlgId, NEW tag \in Tag \cup Abs!NoCopy, NEW t \in TransId,
               MediaReply(d, tag, t)
        PROVE  Chains' /\ Abs!Next
    BY <2>4, OtherSteps DEF MediaReply, Abs!Next, Abs!DlgId, DlgId
  <2>5. ASSUME NEW d \in DlgId, MediaReplyUnsent(d)
        PROVE  Chains' /\ Abs!Next
    BY <2>5, OtherSteps DEF MediaReplyUnsent, Abs!Next, Abs!DlgId, DlgId
  <2>6. ASSUME UNCHANGED vars
        PROVE  Chains' /\ UNCHANGED Abs!vars
    BY <2>6, OtherSteps DEF vars
  <2>7. ASSUME NEW i \in Item, NEW m \in Abs!Request, InviteNoMem(i, m)
        PROVE  Chains' /\ Abs!Next
    BY <2>7, NoMemSteps DEF Abs!Next
  <2>8. QED BY <2>1, <2>2, <2>3, <2>4, <2>5, <2>6, <2>7 DEF Next
<1>2. DP!IInv'
  <2>1. DP!Next \/ UNCHANGED DP!vars
    BY <1>1, SameNext
  <2>2. DP!IInv
    BY DEF LInv
  <2>3. QED BY <2>1, <2>2, PoolAssumptions, DP!NextIInv
<1>3. QED BY <1>1, <1>2 DEF LInv

-----------------------------------------------------------------------------
(* Theorems *)

\* Every chain of pointers, the free one and those of the items, leads through
\* its own dialogs and ends, and no dialog is on two of them.
THEOREM ListsInvariant == Spec => []LInv
<1>1. Init => LInv
  BY InitLInv
<1>2. LInv /\ [Next]_vars => LInv'
  BY NextLInv
<1>3. QED BY <1>1, <1>2, PTL DEF Spec

\* The pointer assignments of pop, insert, unlink and push implement the
\* sequences of DlgPool.
THEOREM ListsImplementPool == Spec => ImplementsDlgPool
<1>1. Init => LInv /\ Abs!Init
  BY InitLInv
<1>2. LInv /\ [Next]_vars => LInv' /\ [Abs!Next]_(Abs!vars)
  BY NextLInv
<1>3. QED BY <1>1, <1>2, PTL DEF Spec, Abs!Spec, ImplementsDlgPool
=============================================================================
