--------------------------- MODULE RecQueryProofs ---------------------------
(***************************************************************************)
(* Proofs about RecQuery, for any devices, records, pool and batch sizes,  *)
(* any limit of async_msg_ctx, and any faults.                             *)
(***************************************************************************)
EXTENDS RecQuery, FiniteSetTheorems, SequenceTheorems, WellFoundedInduction, TLAPS

-----------------------------------------------------------------------------
(* Sequences: parts, reversals, removals. *)

NoRepeat(s) == \A a, b \in 1 .. Len(s) : s[a] = s[b] => a = b

\* The elements of a sequence are those at its indices.
LEMMA InRange ==
    ASSUME NEW S, NEW s \in Seq(S)
    PROVE  /\ \A e : e \in Range(s) <=> \E i \in 1 .. Len(s) : s[i] = e
           /\ Range(s) \subseteq S
           /\ Len(s) \in Nat
BY DEF Range

\* An element of a sequence.
LEMMA IndexedIs ==
    ASSUME NEW S, NEW s \in Seq(S), NEW i \in 1 .. Len(s)
    PROVE  s[i] \in S /\ s[i] \in Range(s)
BY InRange, ElementOfSeq

\* A sequence is one over the set of its elements.
LEMMA SeqOfElements ==
    ASSUME NEW S, NEW T, NEW s \in Seq(S), Range(s) \subseteq T
    PROVE  s \in Seq(T)
<1>1. \A i \in 1 .. Len(s) : s[i] \in T
  BY InRange
<1>2. s = [i \in 1 .. Len(s) |-> s[i]] /\ Len(s) \in Nat
  BY LenProperties
<1>3. QED BY <1>1, <1>2, IsASeq

\* The first n elements of a sequence ...
LEMMA FirstIs ==
    ASSUME NEW S, NEW s \in Seq(S), NEW n \in 0 .. Len(s)
    PROVE  /\ SubSeq(s, 1, n) \in Seq(S)
           /\ Len(SubSeq(s, 1, n)) = n
           /\ \A i \in 1 .. n : SubSeq(s, 1, n)[i] = s[i]
<1>1. Len(s) \in Nat /\ \A i \in 1 .. n : s[i] \in S
  BY LenProperties
<1>2. QED BY <1>1, SubSeqProperties

\* ... and the ones after them.
LEMMA RestIs ==
    ASSUME NEW S, NEW s \in Seq(S), NEW n \in 0 .. Len(s)
    PROVE  /\ Rest(s, n) \in Seq(S)
           /\ Len(Rest(s, n)) = Len(s) - n
           /\ \A i \in 1 .. Len(s) - n : Rest(s, n)[i] = s[n + i]
<1>1. Len(s) \in Nat /\ \A i \in n + 1 .. Len(s) : s[i] \in S
  BY LenProperties
<1>2. QED BY <1>1, SubSeqProperties DEF Rest

\* The elements of a reversed sequence.
LEMMA ReverseAt ==
    ASSUME NEW S, NEW s \in Seq(S)
    PROVE  /\ Reverse(s) \in Seq(S) /\ Len(Reverse(s)) = Len(s)
           /\ \A i \in 1 .. Len(s) : Reverse(s)[i] = s[(Len(s) - i) + 1]
<1>1. Len(s) \in Nat /\ \A i \in 1 .. Len(s) : s[i] \in S
  BY LenProperties
<1>2. QED BY <1>1, IsASeq DEF Reverse

\* Reverse keeps the elements.
LEMMA ReverseIs ==
    ASSUME NEW S, NEW s \in Seq(S)
    PROVE  /\ Reverse(s) \in Seq(S)
           /\ Range(Reverse(s)) = Range(s)
           /\ NoRepeat(s) => NoRepeat(Reverse(s))
<1>1. Len(s) \in Nat /\ \A i \in 1 .. Len(s) : s[i] \in S
  BY LenProperties
<1>2. Reverse(s) \in Seq(S) /\ Len(Reverse(s)) = Len(s)
      /\ \A i \in 1 .. Len(s) : Reverse(s)[i] = s[(Len(s) - i) + 1]
  BY ReverseAt
<1> DEFINE r == Reverse(s)
<1> HIDE DEF r
<1>3. r \in Seq(S) /\ Len(r) = Len(s) /\ \A i \in 1 .. Len(s) : r[i] = s[(Len(s) - i) + 1]
  BY <1>2 DEF r
<1>4. \A i \in 1 .. Len(s) : /\ (Len(s) - i) + 1 \in 1 .. Len(s)
                             /\ s[i] = r[(Len(s) - i) + 1]
  BY <1>1, <1>3
<1>5. Range(r) = Range(s)
  <2>1. \A i \in 1 .. Len(r) : (Len(s) - i) + 1 \in 1 .. Len(s) /\ r[i] = s[(Len(s) - i) + 1]
    BY <1>3, <1>4
  <2>2. \A i \in 1 .. Len(s) : (Len(s) - i) + 1 \in 1 .. Len(r) /\ r[(Len(s) - i) + 1] = s[i]
    BY <1>3, <1>4
  <2>3. Range(r) \subseteq Range(s)
    BY <1>3, <2>1, InRange
  <2>4. Range(s) \subseteq Range(r)
    BY <1>3, <2>2, InRange
  <2>5. QED BY <2>3, <2>4
<1>6. NoRepeat(s) => NoRepeat(r)
  <2>1. SUFFICES ASSUME NoRepeat(s), NEW a \in 1 .. Len(r), NEW b \in 1 .. Len(r), r[a] = r[b]
                 PROVE  a = b
    BY DEF NoRepeat
  <2>2. (Len(s) - a) + 1 = (Len(s) - b) + 1
    <3>1. r[a] = s[(Len(s) - a) + 1] /\ r[b] = s[(Len(s) - b) + 1]
      BY <1>3, <2>1
    <3>2. (Len(s) - a) + 1 \in 1 .. Len(s) /\ (Len(s) - b) + 1 \in 1 .. Len(s)
      BY <1>3, <1>4
    <3>3. QED BY <2>1, <3>1, <3>2 DEF NoRepeat
  <2>3. QED BY <1>1, <1>3, <2>2
<1>7. QED BY <1>3, <1>5, <1>6 DEF r

\* The elements of a concatenation.
LEMMA ConcatAt ==
    ASSUME NEW S, NEW s \in Seq(S), NEW t \in Seq(S)
    PROVE  /\ Len(s \o t) = Len(s) + Len(t)
           /\ \A i \in 1 .. Len(s) + Len(t) : (s \o t)[i] = IF i <= Len(s) THEN s[i] ELSE t[i - Len(s)]
BY ConcatProperties

\* What a concatenation contains, and when nothing in it is repeated.
LEMMA ConcatIs ==
    ASSUME NEW S, NEW s \in Seq(S), NEW t \in Seq(S)
    PROVE  /\ s \o t \in Seq(S)
           /\ Range(s \o t) = Range(s) \cup Range(t)
           /\ NoRepeat(s) /\ NoRepeat(t) /\ Range(s) \cap Range(t) = {} => NoRepeat(s \o t)
<1> DEFINE c == s \o t
<1>1. /\ c \in Seq(S) /\ Len(c) = Len(s) + Len(t)
      /\ \A i \in 1 .. Len(s) + Len(t) : c[i] = IF i <= Len(s) THEN s[i] ELSE t[i - Len(s)]
  BY ConcatProperties
<1>2. Len(s) \in Nat /\ Len(t) \in Nat
  BY LenProperties
<1> HIDE DEF c
<1>3. \A i \in 1 .. Len(s) : i \in 1 .. Len(c) /\ c[i] = s[i]
  BY <1>1, <1>2
<1>4. \A i \in 1 .. Len(t) : i + Len(s) \in 1 .. Len(c) /\ c[i + Len(s)] = t[i]
  <2>1. TAKE i \in 1 .. Len(t)
  <2>2. /\ i + Len(s) \in 1 .. Len(s) + Len(t)
        /\ ~(i + Len(s) <= Len(s)) /\ (i + Len(s)) - Len(s) = i
    BY <1>2
  <2>3. QED BY <1>1, <2>2
<1>5. \A i \in 1 .. Len(c) :
         \/ i \in 1 .. Len(s) /\ c[i] = s[i]
         \/ i - Len(s) \in 1 .. Len(t) /\ c[i] = t[i - Len(s)]
  BY <1>1, <1>2
<1>6. Range(c) = Range(s) \cup Range(t)
  <2>1. \A e : (\E i \in 1 .. Len(c) : c[i] = e) <=>
                  (\E i \in 1 .. Len(s) : s[i] = e) \/ (\E i \in 1 .. Len(t) : t[i] = e)
    BY <1>3, <1>4, <1>5
  <2>2. /\ \A e : e \in Range(s) <=> \E i \in 1 .. Len(s) : s[i] = e
        /\ \A e : e \in Range(t) <=> \E i \in 1 .. Len(t) : t[i] = e
    BY InRange
  <2>3. \A e : e \in Range(c) <=> \E i \in 1 .. Len(c) : c[i] = e
    BY <1>1, InRange
  <2>4. QED BY <2>1, <2>2, <2>3
<1>7. ASSUME NoRepeat(s), NoRepeat(t), Range(s) \cap Range(t) = {}
      PROVE  NoRepeat(c)
  <2>1. SUFFICES ASSUME NEW a \in 1 .. Len(c), NEW b \in 1 .. Len(c), c[a] = c[b]
                 PROVE  a = b
    BY DEF NoRepeat
  <2>2. \A i \in 1 .. Len(s), j \in 1 .. Len(t) : s[i] # t[j]
    BY <1>7, InRange
  <2>3. CASE a \in 1 .. Len(s) /\ c[a] = s[a]
    <3>1. b \in 1 .. Len(s) /\ c[b] = s[b]
      BY <1>5, <2>1, <2>2, <2>3
    <3>2. QED BY <1>7, <2>1, <2>3, <3>1 DEF NoRepeat
  <2>4. CASE a - Len(s) \in 1 .. Len(t) /\ c[a] = t[a - Len(s)]
    <3>1. b - Len(s) \in 1 .. Len(t) /\ c[b] = t[b - Len(s)]
      BY <1>5, <2>1, <2>2, <2>4
    <3>2. a - Len(s) = b - Len(s)
      BY <1>7, <2>1, <2>4, <3>1 DEF NoRepeat
    <3>3. QED BY <1>2, <3>2
  <2>5. QED BY <1>5, <2>3, <2>4
<1>8. QED BY <1>1, <1>6, <1>7 DEF c

\* A sequence without repetitions falls apart into two without a common
\* element.
LEMMA SplitIs ==
    ASSUME NEW S, NEW s \in Seq(S), NoRepeat(s), NEW n \in 0 .. Len(s)
    PROVE  /\ NoRepeat(SubSeq(s, 1, n)) /\ NoRepeat(Rest(s, n))
           /\ Range(SubSeq(s, 1, n)) \cap Range(Rest(s, n)) = {}
           /\ Range(SubSeq(s, 1, n)) \cup Range(Rest(s, n)) = Range(s)
<1> DEFINE a == SubSeq(s, 1, n)
           b == Rest(s, n)
<1>1. a \in Seq(S) /\ Len(a) = n /\ \A i \in 1 .. n : a[i] = s[i]
  BY FirstIs
<1>2. b \in Seq(S) /\ Len(b) = Len(s) - n /\ \A i \in 1 .. Len(s) - n : b[i] = s[n + i]
  BY RestIs
<1>3. Len(s) \in Nat
  BY LenProperties
<1> HIDE DEF a, b
<1>4. \A i \in 1 .. Len(a) : i \in 1 .. Len(s) /\ i <= n /\ a[i] = s[i]
  BY <1>1, <1>3
<1>5. \A i \in 1 .. Len(b) : n + i \in 1 .. Len(s) /\ n + i > n /\ b[i] = s[n + i]
  BY <1>2, <1>3
<1>6. \A i \in 1 .. Len(s) : \/ i \in 1 .. Len(a)
                             \/ i - n \in 1 .. Len(b) /\ b[i - n] = s[i]
  <2>1. TAKE i \in 1 .. Len(s)
  <2>2. CASE i <= n
    BY <1>1, <2>2
  <2>3. CASE ~(i <= n)
    <3>1. i - n \in 1 .. Len(s) - n
      BY <1>3, <2>3
    <3>2. QED BY <1>2, <3>1
  <2>4. QED BY <2>2, <2>3
<1>7. NoRepeat(a)
  BY <1>4 DEF NoRepeat
<1>8. NoRepeat(b)
  <2>1. SUFFICES ASSUME NEW i \in 1 .. Len(b), NEW j \in 1 .. Len(b), b[i] = b[j]
                 PROVE  i = j
    BY DEF NoRepeat
  <2>2. n + i = n + j
    BY <1>5, <2>1 DEF NoRepeat
  <2>3. QED BY <2>2
<1>9. Range(a) \cap Range(b) = {}
  <2>1. SUFFICES ASSUME NEW e \in Range(a), e \in Range(b) PROVE FALSE
    OBVIOUS
  <2>2. PICK i \in 1 .. Len(a) : a[i] = e
    BY <1>1, InRange
  <2>3. PICK j \in 1 .. Len(b) : b[j] = e
    BY <1>2, <2>1, InRange
  <2>4. i = n + j
    BY <1>4, <1>5, <2>2, <2>3 DEF NoRepeat
  <2>5. QED BY <1>4, <1>5, <2>4
<1>10. Range(a) \cup Range(b) = Range(s)
  <2>1. \A e : (\E i \in 1 .. Len(s) : s[i] = e) <=>
                  (\E i \in 1 .. Len(a) : a[i] = e) \/ (\E i \in 1 .. Len(b) : b[i] = e)
    BY <1>4, <1>5, <1>6
  <2>2. /\ \A e : e \in Range(a) <=> \E i \in 1 .. Len(a) : a[i] = e
        /\ \A e : e \in Range(b) <=> \E i \in 1 .. Len(b) : b[i] = e
    BY <1>1, <1>2, InRange
  <2>3. \A e : e \in Range(s) <=> \E i \in 1 .. Len(s) : s[i] = e
    BY InRange
  <2>4. QED BY <2>1, <2>2, <2>3
<1>11. QED BY <1>7, <1>8, <1>9, <1>10 DEF a, b

\* Removal of the k-th element.
LEMMA RemoveAtIs ==
    ASSUME NEW S, NEW s \in Seq(S), NEW k \in 1 .. Len(s)
    PROVE  /\ RemoveAt(s, k) \in Seq(S)
           /\ Len(RemoveAt(s, k)) = Len(s) - 1
           /\ \A j \in 1 .. Len(s) - 1 : RemoveAt(s, k)[j] = s[IF j < k THEN j ELSE j + 1]
<1> DEFINE a == SubSeq(s, 1, k - 1)
           b == SubSeq(s, k + 1, Len(s))
<1>1. a \in Seq(S) /\ Len(a) = k - 1 /\ \A j \in 1 .. k - 1 : a[j] = s[j]
  OBVIOUS
<1>2. b \in Seq(S) /\ Len(b) = Len(s) - k /\ \A j \in 1 .. Len(s) - k : b[j] = s[k + j]
  OBVIOUS
<1>3. RemoveAt(s, k) = a \o b
  BY DEF RemoveAt
<1>4. Len(s) \in Nat
  BY LenProperties
<1> HIDE DEF a, b
<1>5. a \o b \in Seq(S) /\ Len(a \o b) = Len(s) - 1
  BY <1>1, <1>2
<1>6. ASSUME NEW j \in 1 .. Len(s) - 1
      PROVE  (a \o b)[j] = s[IF j < k THEN j ELSE j + 1]
  <2>1. CASE j < k
    <3>1. j \in 1 .. Len(a) /\ j \in 1 .. Len(a) + Len(b)
      BY <1>1, <1>2, <2>1
    <3>2. (a \o b)[j] = a[j]
      BY <1>1, <1>2, <3>1
    <3>3. QED BY <1>1, <2>1, <3>1, <3>2
  <2>2. CASE ~(j < k)
    <3>1. j - Len(a) \in 1 .. Len(b) /\ j - Len(a) = j - k + 1
      BY <1>1, <1>2, <2>2
    <3>2. (a \o b)[j] = b[j - Len(a)]
      BY <1>1, <1>2, <3>1
    <3>3. b[j - Len(a)] = s[k + (j - Len(a))]
      BY <1>1, <1>2, <3>1
    <3>4. QED BY <1>1, <2>2, <3>1, <3>2, <3>3
  <2>3. QED BY <2>1, <2>2
<1>7. QED BY <1>3, <1>5, <1>6

\* The pieces of a sequence are sequences of its elements.
LEMMA PiecesAre ==
    ASSUME NEW S, NEW s \in Seq(S), NEW n \in Nat \ {0}
    PROVE  /\ Pieces(s, n) \in Seq(Seq(S))
           /\ \A k \in 1 .. Len(Pieces(s, n)) : Range(Pieces(s, n)[k]) \subseteq Range(s)
<1> DEFINE m == (Len(s) + n - 1) \div n
           p(k) == SubSeq(s, (k - 1) * n + 1, IF k * n < Len(s) THEN k * n ELSE Len(s))
<1>1. Len(s) \in Nat /\ m \in Nat
  BY LenProperties
<1>2. ASSUME NEW k \in 1 .. m
      PROVE  p(k) \in Seq(S) /\ Range(p(k)) \subseteq Range(s)
  <2> DEFINE f == (k - 1) * n + 1
             g == IF k * n < Len(s) THEN k * n ELSE Len(s)
  <2>1. f \in Nat \ {0} /\ g \in Int /\ g <= Len(s)
    <3>1. k - 1 \in Nat /\ k \in Nat
      BY <1>1
    <3>2. (k - 1) * n \in Nat /\ k * n \in Nat
      BY <3>1
    <3>3. QED BY <1>1, <3>2
  <2> HIDE DEF f, g
  <2>2. \A i \in f .. g : s[i] \in Range(s) /\ s[i] \in S
    BY <1>1, <2>1, InRange
  <2>3. SubSeq(s, f, g) \in Seq(Range(s)) /\ SubSeq(s, f, g) \in Seq(S)
    BY <2>1, <2>2, SubSeqProperties
  <2>4. QED BY <2>3, InRange DEF f, g
<1> HIDE DEF m, p
<1>3. [k \in 1 .. m |-> p(k)] \in Seq(Seq(S))
  BY <1>1, <1>2, IsASeq
<1>4. Pieces(s, n) = [k \in 1 .. m |-> p(k)]
  BY DEF Pieces, m, p
<1>5. Len([k \in 1 .. m |-> p(k)]) = m
  BY <1>1
<1>6. QED BY <1>2, <1>3, <1>4, <1>5

\* The pieces of a sequence without repetition have nothing in common.
LEMMA PiecesApart ==
    ASSUME NEW S, NEW s \in Seq(S), NoRepeat(s), NEW n \in Nat \ {0}
    PROVE  \A k, k2 \in 1 .. Len(Pieces(s, n)) :
              \A j \in 1 .. Len(Pieces(s, n)[k]), j2 \in 1 .. Len(Pieces(s, n)[k2]) :
                 Pieces(s, n)[k][j] = Pieces(s, n)[k2][j2] => k = k2 /\ j = j2
<1> DEFINE m == (Len(s) + n - 1) \div n
           p(k) == SubSeq(s, (k - 1) * n + 1, IF k * n < Len(s) THEN k * n ELSE Len(s))
<1>1. Len(s) \in Nat /\ m \in Nat
  BY LenProperties
<1>2. ASSUME NEW k \in 1 .. m, NEW j \in 1 .. Len(p(k))
      PROVE  j \in 1 .. n /\ (k - 1) * n + j \in 1 .. Len(s) /\ p(k)[j] = s[(k - 1) * n + j]
  <2> DEFINE f == (k - 1) * n + 1
             g == IF k * n < Len(s) THEN k * n ELSE Len(s)
  <2>1. f \in Nat \ {0} /\ g \in Int /\ g <= Len(s) /\ (g - f) + 1 <= n
    <3>1. k - 1 \in Nat /\ k \in Nat
      BY <1>1
    <3>2. (k - 1) * n \in Nat /\ k * n \in Nat /\ k * n = (k - 1) * n + n
      BY <3>1
    <3>3. QED BY <1>1, <3>2
  <2>2. f - 1 = (k - 1) * n
    BY <1>1
  <2> HIDE DEF f, g
  <2>3. \A i \in f .. g : s[i] \in S
    BY <1>1, <2>1
  <2>4. /\ Len(SubSeq(s, f, g)) = (IF f <= g THEN (g - f) + 1 ELSE 0)
        /\ \A i \in 1 .. (g - f) + 1 : SubSeq(s, f, g)[i] = s[f + i - 1]
    BY <2>1, <2>3, SubSeqProperties
  <2>5. j \in 1 .. Len(SubSeq(s, f, g))
    BY DEF f, g
  <2>6. j \in 1 .. (g - f) + 1
    BY <2>1, <2>4, <2>5
  <2>7. SubSeq(s, f, g)[j] = s[f + j - 1] /\ f + j - 1 \in 1 .. Len(s) /\ j \in 1 .. n
    BY <1>1, <2>1, <2>4, <2>6
  <2>8. f + j - 1 = (k - 1) * n + j
    BY <1>1, <2>1, <2>2, <2>6
  <2>9. QED BY <2>7, <2>8 DEF f, g
<1> HIDE DEF m, p
<1>3. ASSUME NEW k \in 1 .. m, NEW k2 \in 1 .. m, NEW j \in 1 .. n, NEW j2 \in 1 .. n, k < k2
      PROVE  (k - 1) * n + j # (k2 - 1) * n + j2
  <2>1. k2 - k - 1 \in Nat /\ k \in Nat /\ k2 \in Nat
    BY <1>1, <1>3
  <2>2. (k2 - k - 1) * n \in Nat
    BY <2>1
  <2>3. (k2 - 1) * n = (k - 1) * n + n + (k2 - k - 1) * n
    BY <2>1
  <2>4. (k - 1) * n \in Int /\ (k2 - 1) * n \in Int
    BY <2>1
  <2>5. QED BY <2>2, <2>3, <2>4
<1>4. ASSUME NEW k \in 1 .. m, NEW k2 \in 1 .. m, NEW j \in 1 .. Len(p(k)), NEW j2 \in 1 .. Len(p(k2)),
             p(k)[j] = p(k2)[j2]
      PROVE  k = k2 /\ j = j2
  <2>1. (k - 1) * n + j = (k2 - 1) * n + j2
    BY <1>2, <1>4 DEF NoRepeat
  <2>2. j \in 1 .. n /\ j2 \in 1 .. n
    BY <1>2
  <2>3. ~(k < k2) /\ ~(k2 < k)
    BY <1>3, <2>1, <2>2
  <2>4. k = k2
    BY <1>1, <2>3
  <2>5. (k - 1) * n \in Int
    BY <1>1
  <2>6. QED BY <2>1, <2>2, <2>4, <2>5
<1> DEFINE ps == Pieces(s, n)
<1>5. ps = [k \in 1 .. m |-> p(k)]
  BY DEF Pieces, m, p
<1> HIDE DEF ps
<1>6. Len(ps) = m /\ \A k \in 1 .. m : ps[k] = p(k)
  BY <1>1, <1>5
<1>7. \A k, k2 \in 1 .. Len(ps) : \A j \in 1 .. Len(ps[k]), j2 \in 1 .. Len(ps[k2]) :
         ps[k][j] = ps[k2][j2] => k = k2 /\ j = j2
  BY <1>4, <1>6
<1>8. QED BY <1>7 DEF ps

-----------------------------------------------------------------------------
(* The pool of record items, for any free chain fr and queue qs. *)

Query == [ctx : Ctx, sn : Sn, sum : Nat, list : Seq(RecId)]

Pool(fr, qs) ==
    /\ NoRepeat(fr)
    /\ \A k \in 1 .. Len(qs) : /\ NoRepeat(qs[k].list)
                               /\ Range(fr) \cap Range(qs[k].list) = {}
    /\ \A j, k \in 1 .. Len(qs) : j # k => Range(qs[j].list) \cap Range(qs[k].list) = {}
    /\ \A r \in RecId : \/ r \in Range(fr)
                        \/ \E k \in 1 .. Len(qs) : r \in Range(qs[k].list)

Blank(rc, fr) == \A r \in RecId : (rc[r] = Null) <=> (r \in Range(fr))

\* The elements of a list that has got longer.
LEMMA TakenRange ==
    ASSUME NEW fr \in Seq(RecId), NEW l \in Seq(RecId), NEW n \in 0 .. Len(fr)
    PROVE  Range(Reverse(SubSeq(fr, 1, n)) \o l) = Range(SubSeq(fr, 1, n)) \cup Range(l)
<1> DEFINE f == SubSeq(fr, 1, n)
<1>1. f \in Seq(RecId)
  BY FirstIs
<1> HIDE DEF f
<1>2. Reverse(f) \in Seq(RecId) /\ Range(Reverse(f)) = Range(f)
  BY <1>1, ReverseIs
<1>3. Range(Reverse(f) \o l) = Range(f) \cup Range(l)
  BY <1>2, ConcatIs
<1>4. QED BY <1>3 DEF f

\* Record items that go from the free chain into a list are lost to nobody
\* (get_one_node).
LEMMA TakeKeeps ==
    ASSUME NEW fr \in Seq(RecId), NEW qs \in Seq(Query), Pool(fr, qs),
           NEW k \in 1 .. Len(qs), NEW n \in 0 .. Len(fr),
           NEW qq \in Seq(Query), Len(qq) = Len(qs),
           \A j \in 1 .. Len(qs) : j # k => qq[j] = qs[j],
           qq[k].list = Reverse(SubSeq(fr, 1, n)) \o qs[k].list
    PROVE  Pool(Rest(fr, n), qq)
<1> DEFINE f == Range(SubSeq(fr, 1, n))
           b == Range(Rest(fr, n))
<1>0. Len(qs) \in Nat /\ \A j \in 1 .. Len(qs) : qs[j].list \in Seq(RecId)
  <2>1. Len(qs) \in Nat /\ \A j \in 1 .. Len(qs) : qs[j] \in Query
    BY ElementOfSeq, LenProperties
  <2>2. QED BY <2>1 DEF Query
<1>1. /\ NoRepeat(SubSeq(fr, 1, n)) /\ NoRepeat(Rest(fr, n))
      /\ f \cap b = {} /\ f \cup b = Range(fr)
  BY SplitIs DEF Pool
<1>2. /\ SubSeq(fr, 1, n) \in Seq(RecId)
      /\ Reverse(SubSeq(fr, 1, n)) \in Seq(RecId)
      /\ Range(Reverse(SubSeq(fr, 1, n))) = f
      /\ NoRepeat(Reverse(SubSeq(fr, 1, n)))
  BY <1>1, FirstIs, ReverseIs
<1>3. NoRepeat(qs[k].list) /\ Range(fr) \cap Range(qs[k].list) = {}
  BY DEF Pool
<1>4. f \cap Range(qs[k].list) = {}
  BY <1>1, <1>3
<1>5. Range(qq[k].list) = f \cup Range(qs[k].list) /\ NoRepeat(qq[k].list)
  BY <1>0, <1>2, <1>3, <1>4, ConcatIs
<1> HIDE DEF f, b
<1>7. ASSUME NEW j \in 1 .. Len(qq)
      PROVE  NoRepeat(qq[j].list) /\ b \cap Range(qq[j].list) = {}
  <2>1. CASE j = k
    BY <1>1, <1>3, <1>5, <2>1
  <2>2. CASE j # k
    BY <1>1, <2>2 DEF Pool
  <2>3. QED BY <2>1, <2>2
<1>8. ASSUME NEW i \in 1 .. Len(qq), NEW j \in 1 .. Len(qq), i # j
      PROVE  Range(qq[i].list) \cap Range(qq[j].list) = {}
  <2>1. \A h \in 1 .. Len(qs) : h # k => Range(qq[k].list) \cap Range(qs[h].list) = {}
    BY <1>1, <1>5 DEF Pool
  <2>2. CASE i = k
    BY <1>8, <2>1, <2>2
  <2>3. CASE j = k
    BY <1>8, <2>1, <2>3
  <2>4. CASE i # k /\ j # k
    BY <1>8, <2>4 DEF Pool
  <2>5. QED BY <2>2, <2>3, <2>4
<1>9. ASSUME NEW r \in RecId
      PROVE  r \in b \/ \E j \in 1 .. Len(qq) : r \in Range(qq[j].list)
  <2>1. CASE r \in Range(fr)
    <3>1. CASE r \in f
      <4>1. r \in Range(qq[k].list) /\ k \in 1 .. Len(qq)
        BY <1>5, <3>1
      <4>2. QED BY <4>1
    <3>2. QED BY <1>1, <2>1, <3>1
  <2>2. CASE \E j \in 1 .. Len(qs) : r \in Range(qs[j].list)
    <3>1. PICK j \in 1 .. Len(qs) : r \in Range(qs[j].list)
      BY <2>2
    <3>2. r \in Range(qq[j].list) /\ j \in 1 .. Len(qq)
      BY <1>5, <3>1
    <3>3. QED BY <3>2
  <2>3. QED BY <2>1, <2>2 DEF Pool
<1>10. Pool(Rest(fr, n), qq)
  BY <1>1, <1>7, <1>8, <1>9 DEF Pool, b
<1>11. QED BY <1>10

\* The queries that are left when the k-th goes.
Skip(k, j) == IF j < k THEN j ELSE j + 1

LEMMA Remaining ==
    ASSUME NEW S, NEW qs \in Seq(S), NEW k \in 1 .. Len(qs)
    PROVE  /\ RemoveAt(qs, k) \in Seq(S) /\ Len(RemoveAt(qs, k)) = Len(qs) - 1
           /\ \A j \in 1 .. Len(qs) - 1 : /\ Skip(k, j) \in 1 .. Len(qs)
                                          /\ Skip(k, j) # k
                                          /\ RemoveAt(qs, k)[j] = qs[Skip(k, j)]
           /\ \A i, j \in 1 .. Len(qs) - 1 : Skip(k, i) = Skip(k, j) => i = j
           /\ \A i \in 1 .. Len(qs) : i # k => \E j \in 1 .. Len(qs) - 1 : Skip(k, j) = i
<1>1. Len(qs) \in Nat /\ k \in 1 .. Len(qs)
  BY LenProperties
<1>2. \A j \in 1 .. Len(qs) - 1 : Skip(k, j) \in 1 .. Len(qs) /\ Skip(k, j) # k
  BY <1>1 DEF Skip
<1>3. \A i, j \in 1 .. Len(qs) - 1 : Skip(k, i) = Skip(k, j) => i = j
  BY <1>1 DEF Skip
<1>4. ASSUME NEW i \in 1 .. Len(qs), i # k
      PROVE  \E j \in 1 .. Len(qs) - 1 : Skip(k, j) = i
  <2>1. CASE i < k
    <3>1. i \in 1 .. Len(qs) - 1 /\ Skip(k, i) = i
      BY <1>1, <2>1 DEF Skip
    <3>2. QED BY <3>1
  <2>2. CASE i > k
    <3>1. i - 1 \in 1 .. Len(qs) - 1 /\ Skip(k, i - 1) = i
      BY <1>1, <2>2 DEF Skip
    <3>2. QED BY <3>1
  <2>3. QED BY <1>1, <1>4, <2>1, <2>2
<1>5. \A j \in 1 .. Len(qs) - 1 : RemoveAt(qs, k)[j] = qs[Skip(k, j)]
  BY RemoveAtIs DEF Skip
<1>6. RemoveAt(qs, k) \in Seq(S) /\ Len(RemoveAt(qs, k)) = Len(qs) - 1
  BY RemoveAtIs
<1>7. QED BY <1>2, <1>3, <1>4, <1>5, <1>6

\* The elements of a sequence that has lost one.
LEMMA Shorter ==
    ASSUME NEW S, NEW s \in Seq(S), NEW k \in 1 .. Len(s), NEW t, t = RemoveAt(s, k)
    PROVE  \A j \in 1 .. Len(t) : /\ Skip(k, j) \in 1 .. Len(s) /\ Skip(k, j) # k
                                  /\ t[j] = s[Skip(k, j)]
<1>1. Len(s) \in Nat /\ k \in 1 .. Len(s)
  BY LenProperties
<1>2. Len(RemoveAt(s, k)) = Len(s) - 1
  BY RemoveAtIs
<1>3. \A j \in 1 .. Len(s) - 1 : RemoveAt(s, k)[j] = s[Skip(k, j)]
  BY RemoveAtIs DEF Skip
<1>4. \A j \in 1 .. Len(s) - 1 : Skip(k, j) \in 1 .. Len(s) /\ Skip(k, j) # k
  BY <1>1 DEF Skip
<1>5. QED BY <1>2, <1>3, <1>4

\* Record items that go back are in the pool again, once each
\* (giveback_one_node).
LEMMA ReleaseKeeps ==
    ASSUME NEW fr \in Seq(RecId), NEW qs \in Seq(Query), Pool(fr, qs),
           NEW k \in 1 .. Len(qs)
    PROVE  /\ Pool(Reverse(qs[k].list) \o fr, RemoveAt(qs, k))
           /\ Reverse(qs[k].list) \o fr \in Seq(RecId)
           /\ Range(Reverse(qs[k].list) \o fr) = Range(qs[k].list) \cup Range(fr)
<1> DEFINE l == qs[k].list
           new == Reverse(l) \o fr
           rest == RemoveAt(qs, k)
<1>1. l \in Seq(RecId) /\ NoRepeat(l) /\ Range(l) \cap Range(fr) = {} /\ NoRepeat(fr)
  <2>1. qs[k] \in Query
    BY ElementOfSeq
  <2>2. qs[k].list \in Seq(RecId)
    BY <2>1 DEF Query
  <2>3. QED BY <2>2 DEF Pool
<1>2. Reverse(l) \in Seq(RecId) /\ Range(Reverse(l)) = Range(l) /\ NoRepeat(Reverse(l))
  BY <1>1, ReverseIs
<1>3. new \in Seq(RecId) /\ Range(new) = Range(l) \cup Range(fr) /\ NoRepeat(new)
  BY <1>1, <1>2, ConcatIs
<1>4. /\ rest \in Seq(Query) /\ Len(rest) = Len(qs) - 1
      /\ \A j \in 1 .. Len(qs) - 1 : /\ Skip(k, j) \in 1 .. Len(qs)
                                     /\ Skip(k, j) # k /\ rest[j] = qs[Skip(k, j)]
      /\ \A i, j \in 1 .. Len(qs) - 1 : Skip(k, i) = Skip(k, j) => i = j
      /\ \A i \in 1 .. Len(qs) : i # k => \E j \in 1 .. Len(qs) - 1 : Skip(k, j) = i
  BY Remaining
<1> HIDE DEF new, rest
<1>5. ASSUME NEW j \in 1 .. Len(rest)
      PROVE  NoRepeat(rest[j].list) /\ Range(new) \cap Range(rest[j].list) = {}
  <2>1. Skip(k, j) \in 1 .. Len(qs) /\ Skip(k, j) # k /\ rest[j] = qs[Skip(k, j)]
    BY <1>4
  <2>2. Range(l) \cap Range(rest[j].list) = {} /\ Range(fr) \cap Range(rest[j].list) = {}
    BY <2>1 DEF Pool
  <2>3. NoRepeat(rest[j].list)
    BY <2>1 DEF Pool
  <2>4. QED BY <1>3, <2>2, <2>3
<1>6. ASSUME NEW i \in 1 .. Len(rest), NEW j \in 1 .. Len(rest), i # j
      PROVE  Range(rest[i].list) \cap Range(rest[j].list) = {}
  <2>1. /\ Skip(k, i) \in 1 .. Len(qs) /\ rest[i] = qs[Skip(k, i)]
        /\ Skip(k, j) \in 1 .. Len(qs) /\ rest[j] = qs[Skip(k, j)]
    BY <1>4
  <2>2. Skip(k, i) # Skip(k, j)
    BY <1>4, <1>6
  <2>3. QED BY <2>1, <2>2 DEF Pool
<1>7. ASSUME NEW r \in RecId
      PROVE  r \in Range(new) \/ \E j \in 1 .. Len(rest) : r \in Range(rest[j].list)
  <2>1. CASE r \notin Range(new)
    <3>1. PICK i \in 1 .. Len(qs) : r \in Range(qs[i].list)
      BY <1>3, <2>1 DEF Pool
    <3>2. PICK j \in 1 .. Len(qs) - 1 : Skip(k, j) = i
      BY <1>3, <1>4, <2>1, <3>1
    <3>3. QED BY <1>4, <3>1, <3>2
  <2>2. QED BY <2>1
<1>8. Pool(new, rest)
  BY <1>3, <1>5, <1>6, <1>7 DEF Pool
<1>9. QED BY <1>3, <1>8 DEF new, rest

\* A query without records enters at the head of the queue.
LEMMA EnterKeeps ==
    ASSUME NEW fr \in Seq(RecId), NEW qs \in Seq(Query), Pool(fr, qs),
           NEW q \in Query, q.list = <<>>
    PROVE  /\ Pool(fr, <<q>> \o qs)
           /\ <<q>> \o qs \in Seq(Query)
           /\ Len(<<q>> \o qs) = Len(qs) + 1
           /\ (<<q>> \o qs)[1] = q
           /\ \A j \in 1 .. Len(qs) : (<<q>> \o qs)[j + 1] = qs[j]
           /\ \A j \in 1 .. Len(qs) + 1 : j = 1 \/ j - 1 \in 1 .. Len(qs)
<1> DEFINE qq == <<q>> \o qs
<1>1. /\ <<q>> \in Seq(Query) /\ Len(<<q>>) = 1 /\ <<q>>[1] = q
      /\ Len(qs) \in Nat
  OBVIOUS
<1>2. /\ qq \in Seq(Query) /\ Len(qq) = Len(qs) + 1 /\ qq[1] = q
      /\ \A j \in 1 .. Len(qs) : qq[j + 1] = qs[j]
  BY <1>1, ConcatProperties
<1>3. \A j \in 1 .. Len(qs) + 1 : j = 1 \/ j - 1 \in 1 .. Len(qs)
  BY <1>1
<1> HIDE DEF qq
<1>4. Range(q.list) = {} /\ NoRepeat(q.list)
  BY DEF Range, NoRepeat
<1>5. \A j \in 1 .. Len(qq) : j = 1 \/ (j - 1 \in 1 .. Len(qs) /\ qq[j] = qs[j - 1])
  <2>1. TAKE j \in 1 .. Len(qq)
  <2>2. j = 1 \/ (j - 1 \in 1 .. Len(qs) /\ qq[(j - 1) + 1] = qs[j - 1] /\ (j - 1) + 1 = j)
    BY <1>2, <1>3
  <2>3. QED BY <2>2
<1>6. \A j \in 1 .. Len(qq) : NoRepeat(qq[j].list) /\ Range(fr) \cap Range(qq[j].list) = {}
  BY <1>2, <1>4, <1>5 DEF Pool
<1>7. ASSUME NEW i \in 1 .. Len(qq), NEW j \in 1 .. Len(qq), i # j
      PROVE  Range(qq[i].list) \cap Range(qq[j].list) = {}
  <2>1. CASE i = 1 \/ j = 1
    BY <1>2, <1>4, <2>1
  <2>2. CASE i # 1 /\ j # 1
    <3>1. i - 1 # j - 1
      BY <1>1, <1>2, <1>7
    <3>2. /\ i - 1 \in 1 .. Len(qs) /\ qq[i] = qs[i - 1]
          /\ j - 1 \in 1 .. Len(qs) /\ qq[j] = qs[j - 1]
      BY <1>5, <2>2
    <3>3. QED BY <3>1, <3>2 DEF Pool
  <2>3. QED BY <2>1, <2>2
<1>8. ASSUME NEW r \in RecId
      PROVE  r \in Range(fr) \/ \E j \in 1 .. Len(qq) : r \in Range(qq[j].list)
  <2>1. CASE \E j \in 1 .. Len(qs) : r \in Range(qs[j].list)
    <3>1. PICK j \in 1 .. Len(qs) : r \in Range(qs[j].list)
      BY <2>1
    <3>2. j + 1 \in 1 .. Len(qq) /\ qq[j + 1] = qs[j]
      BY <1>1, <1>2
    <3>3. QED BY <3>1, <3>2
  <2>2. QED BY <2>1 DEF Pool
<1>9. Pool(fr, qq)
  BY <1>6, <1>7, <1>8 DEF Pool
<1>10. QED BY <1>2, <1>3, <1>9 DEF qq

-----------------------------------------------------------------------------
(* Messages and their types. *)

AnyItem == Item \cup {Other}
AnswerMsg == [ctx : Ctx, dev : AnyItem, sum : Nat, list : Seq(AllRecords)]
QueryIn == [type : {"query"}, sn : Sn, item : AnyItem]
AnswerIn == [type : {"answer"}, ctx : Ctx, dev : AnyItem, sum : Nat, list : Seq(AllRecords)]
QueryOut == [type : {"query"}, ctx : Ctx, item : Item]
ResultOut == [type : {"result"}, sn : Sn, list : Seq(AllRecords)]

Messages ==
    /\ held \in [Item -> Nat]
    /\ \A i \in Item : held[i] <= Len(Records[i])
    /\ queue \in Seq(Query)
    /\ toMc \in Seq(QueryIn \cup AnswerIn)
    /\ toGb \in Seq(QueryOut \cup ResultOut)
    /\ loop \in AnswerMsg \cup {Null}
    /\ toDev \subseteq [ctx : Ctx, item : Item]
    /\ fromDev \subseteq AnswerMsg
    /\ told \in [Sn -> Seq(Seq(AllRecords))]

\* The first invariant: typing, and where the record items are.
Sound ==
    /\ TypeOK
    /\ Messages
    /\ size = Len(queue)
    /\ Pool(free, queue)
    /\ Blank(rec, free)

\* What a message is, by its type.
LEMMA Kinds ==
    /\ \A x \in QueryIn \cup AnswerIn :
          /\ x.type = "query" => x \in QueryIn
          /\ x.type = "answer" => x \in AnswerIn
    /\ \A x \in QueryOut \cup ResultOut :
          /\ x.type = "query" => x \in QueryOut
          /\ x.type = "result" => x \in ResultOut
BY DEF QueryIn, AnswerIn, QueryOut, ResultOut

\* What the first message leaves behind.
LEMMA TailRange ==
    ASSUME NEW S, NEW s \in Seq(S), s # <<>>
    PROVE  /\ Head(s) \in S /\ Tail(s) \in Seq(S)
           /\ Head(s) \in Range(s) /\ Range(Tail(s)) \subseteq Range(s)
           /\ Len(Tail(s)) = Len(s) - 1 /\ Head(s) = s[1] /\ Len(s) \in Nat \ {0}
           /\ \A i \in 1 .. Len(s) - 1 : Tail(s)[i] = s[i + 1]
<1>1. /\ Head(s) \in S /\ Tail(s) \in Seq(S) /\ Len(Tail(s)) = Len(s) - 1
      /\ \A i \in 1 .. Len(Tail(s)) : Tail(s)[i] = s[i + 1]
      /\ Len(s) \in Nat \ {0} /\ Head(s) = s[1]
  BY HeadTailProperties, EmptySeq
<1>2. \A i \in 1 .. Len(Tail(s)) : i + 1 \in 1 .. Len(s) /\ Tail(s)[i] = s[i + 1]
  BY <1>1
<1>3. Range(Tail(s)) \subseteq Range(s)
  <2>1. \A x : x \in Range(s) <=> \E i \in 1 .. Len(s) : s[i] = x
    BY InRange
  <2>2. \A x : x \in Range(Tail(s)) <=> \E i \in 1 .. Len(Tail(s)) : Tail(s)[i] = x
    <3> DEFINE t == Tail(s)
    <3>1. t \in Seq(S)
      BY <1>1
    <3> HIDE DEF t
    <3>2. \A x : x \in Range(t) <=> \E i \in 1 .. Len(t) : t[i] = x
      BY <3>1, InRange
    <3>3. QED BY <3>2 DEF t
  <2>3. QED BY <1>2, <2>1, <2>2
<1>4. Head(s) \in Range(s)
  <2>1. 1 \in 1 .. Len(s) /\ s[1] = Head(s)
    BY <1>1
  <2>2. QED BY <2>1, InRange
<1>5. QED BY <1>1, <1>3, <1>4

\* What a message behind the last adds.
LEMMA AppendRange ==
    ASSUME NEW S, NEW s \in Seq(S), NEW e \in S
    PROVE  /\ Append(s, e) \in Seq(S) /\ Len(s) \in Nat
           /\ Len(Append(s, e)) = Len(s) + 1
           /\ \A i \in 1 .. Len(s) : Append(s, e)[i] = s[i]
           /\ Append(s, e)[Len(s) + 1] = e
           /\ Range(Append(s, e)) = Range(s) \cup {e}
<1> DEFINE t == Append(s, e)
<1>1. /\ t \in Seq(S) /\ Len(t) = Len(s) + 1 /\ Len(s) \in Nat
      /\ \A i \in 1 .. Len(s) : t[i] = s[i]
      /\ t[Len(s) + 1] = e
  BY AppendProperties, LenProperties
<1> HIDE DEF t
<1>2. \A i \in 1 .. Len(t) : i \in 1 .. Len(s) \/ i = Len(s) + 1
  BY <1>1
<1>3. \A i \in 1 .. Len(s) : i \in 1 .. Len(t)
  BY <1>1
<1>4. Len(s) + 1 \in 1 .. Len(t)
  BY <1>1
<1>5. \A x : x \in Range(s) <=> \E i \in 1 .. Len(s) : s[i] = x
  BY InRange
<1>6. \A x : x \in Range(t) <=> \E i \in 1 .. Len(t) : t[i] = x
  BY <1>1, InRange
<1>7. Range(t) = Range(s) \cup {e}
  BY <1>1, <1>2, <1>3, <1>4, <1>5, <1>6
<1>8. QED BY <1>1, <1>7 DEF t

\* A removal adds nothing.
LEMMA RemoveAtRange ==
    ASSUME NEW S, NEW s \in Seq(S), NEW k \in 1 .. Len(s)
    PROVE  RemoveAt(s, k) \in Seq(S) /\ Range(RemoveAt(s, k)) \subseteq Range(s)
<1> DEFINE t == RemoveAt(s, k)
<1>1. /\ t \in Seq(S) /\ Len(t) = Len(s) - 1
      /\ \A j \in 1 .. Len(s) - 1 : Skip(k, j) \in 1 .. Len(s) /\ t[j] = s[Skip(k, j)]
  BY Remaining
<1> HIDE DEF t
<1>2. Range(t) \subseteq Range(s)
  BY <1>1, InRange
<1>3. QED BY <1>1, <1>2 DEF t

\* The faults are counted.
LEMMA FaultsType ==
    ASSUME TypeOK, NoFault \/ \E f : Fault(f)
    PROVE  faults' \in Seq(Faults) /\ Len(faults') <= MaxFault
<1>1. CASE NoFault
  BY <1>1 DEF NoFault, TypeOK
<1>2. CASE \E f : Fault(f)
  <2>1. PICK f : Fault(f)
    BY <1>2
  <2>2. faults \in Seq(Faults) /\ f \in Faults /\ Len(faults) < MaxFault
        /\ faults' = Append(faults, f)
    BY <2>1 DEF Fault, TypeOK
  <2>3. QED BY <2>2, AppendRange, BoundAssumption
<1>3. QED BY <1>1, <1>2

\* A record that is in use has a content.
LEMMA InUseIsFilled ==
    ASSUME NEW fr \in Seq(RecId), NEW qs \in Seq(Query), Pool(fr, qs),
           NEW rc \in [RecId -> AllRecords \cup {Null}], Blank(rc, fr),
           NEW k \in 1 .. Len(qs), NEW r \in Range(qs[k].list)
    PROVE  r \in RecId /\ rc[r] \in AllRecords
<1>1. qs[k] \in Query
  BY ElementOfSeq
<1>2. qs[k].list \in Seq(RecId)
  BY <1>1 DEF Query
<1>3. r \in RecId
  BY <1>2, InRange
<1>4. r \notin Range(fr)
  BY DEF Pool
<1>5. QED BY <1>3, <1>4 DEF Blank

-----------------------------------------------------------------------------
(* The operators of add_rec_info. *)

\* A set of numbers has a least one.
LEMMA LeastOf ==
    ASSUME NEW S \in SUBSET Nat, S # {}
    PROVE  \E n \in S : \A m \in S : n <= m
<1>1. OpToRel(<, Nat) = {ss \in Nat \X Nat : ss[1] < ss[2]}
  BY Zenon DEF OpToRel
<1>2. IsWellFoundedOn({ss \in Nat \X Nat : ss[1] < ss[2]}, Nat)
  BY <1>1, NatLessThanWellFounded
<1>3. PICK n \in S : \A m \in S : <<m, n>> \notin {ss \in Nat \X Nat : ss[1] < ss[2]}
  BY <1>2, WFMin
<1>4. \A m \in S : ~(m < n)
  BY <1>3
<1>5. QED BY <1>4

\* add_rec_item_to_result stops somewhere, and before the first record that
\* is_same takes for one that is listed.
LEMMA FreshIs ==
    ASSUME NEW q, NEW S, NEW s \in Seq(S)
    PROVE  /\ Fresh(q, s) \in 0 .. Len(s)
           /\ \A k \in 1 .. Fresh(q, s) :
                 \A b \in Listed(q) \cup {s[j] : j \in 1 .. k - 1} : ~Same(b, s[k])
<1> DEFINE Clean(k) == \A b \in Listed(q) \cup {s[j] : j \in 1 .. k - 1} : ~Same(b, s[k])
           P(n) == /\ \A k \in 1 .. n : Clean(k)
                   /\ n = Len(s) \/ \E b \in Listed(q) \cup {s[j] : j \in 1 .. n} : Same(b, s[n + 1])
           Stop == {k \in 1 .. Len(s) : ~Clean(k)}
<1>0. Len(s) \in Nat
  BY LenProperties
<1>1. CASE Stop = {}
  <2>1. P(Len(s)) /\ Len(s) \in 0 .. Len(s)
    <3> HIDE DEF Clean
    <3>1. \A k \in 1 .. Len(s) : Clean(k)
      BY <1>1
    <3>2. QED BY <1>0, <3>1
  <2>2. QED BY <2>1 DEF Fresh
<1>2. CASE Stop # {}
  <2>1. PICK k \in Stop : \A m \in Stop : k <= m
    <3> HIDE DEF Clean
    <3>1. Stop \in SUBSET Nat
      BY <1>0
    <3> HIDE DEF Stop
    <3>2. QED BY <1>2, <3>1, LeastOf
  <2>2. k \in 1 .. Len(s) /\ ~Clean(k) /\ \A m \in 1 .. k - 1 : Clean(m)
    <3> HIDE DEF Clean
    <3>1. \A m \in 1 .. k - 1 : m \in 1 .. Len(s) /\ ~(k <= m)
      BY <1>0, <2>1
    <3>2. QED BY <2>1, <3>1
  <2>3. k - 1 \in 0 .. Len(s) /\ (k - 1) + 1 = k
    BY <1>0, <2>2
  <2>4. \E b \in Listed(q) \cup {s[j] : j \in 1 .. k - 1} : Same(b, s[k])
    BY <2>2
  <2>5. P(k - 1)
    <3> HIDE DEF Clean
    <3>1. QED BY <2>2, <2>3, <2>4
  <2>6. QED BY <2>3, <2>5 DEF Fresh
<1>3. QED BY <1>1, <1>2

\* What is taken is there, in the answer and in the pool.
LEMMA TakenIs ==
    ASSUME NEW q, NEW S, NEW s \in Seq(S), free \in Seq(RecId)
    PROVE  Taken(q, s) \in 0 .. Len(free) /\ Taken(q, s) <= Len(s)
<1>1. Len(free) \in Nat /\ Fresh(q, s) \in 0 .. Len(s) /\ Len(s) \in Nat
  BY FreshIs, LenProperties
<1>2. QED BY <1>1 DEF Taken, Runs

\* A longer list is the old one behind items of the pool.
LEMMA LongerIs ==
    ASSUME NEW q \in Query, NEW S, NEW s \in Seq(S), free \in Seq(RecId), NEW sum \in Nat
    PROVE  LET l == [Longer(q, s) EXCEPT !.sum = sum]
           IN  /\ l \in Query /\ l.ctx = q.ctx /\ l.sn = q.sn
               /\ l.list = Reverse(SubSeq(free, 1, Taken(q, s))) \o q.list
<1> DEFINE new == Reverse(SubSeq(free, 1, Taken(q, s)))
<1>1. new \in Seq(RecId)
  BY TakenIs, FirstIs, ReverseIs
<1>2. q.list \in Seq(RecId)
  BY DEF Query
<1>3. new \o q.list \in Seq(RecId)
  BY <1>1, <1>2, ConcatIs
<1>4. Longer(q, s) = [q EXCEPT !.list = new \o q.list]
  BY DEF Longer
<1> HIDE DEF new
<1>5. QED BY <1>3, <1>4 DEF Query, new

\* The record items taken get the records of the answer, the others keep
\* theirs.
LEMMA FilledIs ==
    ASSUME NEW q, NEW s \in Seq(AllRecords), free \in Seq(RecId), NoRepeat(free),
           rec \in [RecId -> AllRecords \cup {Null}]
    PROVE  LET f == Filled(q, s)
               new == Range(SubSeq(free, 1, Taken(q, s)))
           IN  /\ f \in [RecId -> AllRecords \cup {Null}]
               /\ \A r \in RecId : IF r \in new THEN f[r] \in Range(s) ELSE f[r] = rec[r]
<1> DEFINE n == Taken(q, s)
           new == Range(SubSeq(free, 1, n))
<1>1. n \in 0 .. Len(free) /\ n <= Len(s) /\ Len(free) \in Nat /\ Len(s) \in Nat
  BY TakenIs, LenProperties
<1>2. \A r : r \in new <=> \E k \in 1 .. n : free[k] = r
  <2> HIDE DEF n
  <2>1. /\ SubSeq(free, 1, n) \in Seq(RecId) /\ Len(SubSeq(free, 1, n)) = n
        /\ \A i \in 1 .. n : SubSeq(free, 1, n)[i] = free[i]
    BY <1>1, FirstIs
  <2> DEFINE f == SubSeq(free, 1, n)
  <2> HIDE DEF f
  <2>2. \A r : r \in Range(f) <=> \E k \in 1 .. Len(f) : f[k] = r
    BY <2>1, InRange DEF f
  <2>3. QED BY <2>1, <2>2 DEF f
<1>3. \A k \in 1 .. n : s[k] \in Range(s) /\ s[k] \in AllRecords
  <2>1. \A k \in 1 .. n : k \in 1 .. Len(s)
    BY <1>1
  <2>2. QED BY <2>1, InRange
<1> HIDE DEF n, new
<1>4. Filled(q, s) = [r \in RecId |-> IF \E k \in 1 .. n : free[k] = r
                                      THEN s[CHOOSE k \in 1 .. n : free[k] = r] ELSE rec[r]]
  BY DEF Filled, n
<1>5. ASSUME NEW r \in RecId
      PROVE  IF r \in new THEN Filled(q, s)[r] \in Range(s) /\ Filled(q, s)[r] \in AllRecords
                          ELSE Filled(q, s)[r] = rec[r]
  <2>1. CASE r \in new
    <3>1. (CHOOSE k \in 1 .. n : free[k] = r) \in 1 .. n
      BY <1>2, <2>1
    <3>2. Filled(q, s)[r] = s[CHOOSE k \in 1 .. n : free[k] = r]
      BY <1>2, <1>4, <2>1
    <3>3. QED BY <1>3, <2>1, <3>1, <3>2
  <2>2. CASE r \notin new
    BY <1>2, <1>4, <2>2
  <2>3. QED BY <2>1, <2>2
<1>6. Filled(q, s) \in [RecId -> AllRecords \cup {Null}]
  <2>1. \A r \in RecId : Filled(q, s)[r] \in AllRecords \cup {Null}
    BY <1>5
  <2>2. QED BY <1>4, <2>1
<1>7. QED BY <1>5, <1>6 DEF new, n

\* What a query tells the platform: results for its sn, made of what its
\* record items hold.
LEMMA ReportIs ==
    ASSUME NEW q \in Query, NEW content \in [RecId -> AllRecords \cup {Null}],
           \A r \in Range(q.list) : content[r] \in AllRecords
    PROVE  /\ Report(q, content) \in Seq(ResultOut)
           /\ \A m \in Range(Report(q, content)) :
                 /\ m \in ResultOut /\ m.sn = q.sn
                 /\ \A x \in Range(m.list) : \E r \in Range(q.list) : content[r] = x
<1> DEFINE c == Contents(q, content)
           last == IF Answer.sum = 0 /\ Len(q.list) % ResBatch = 0 THEN <<(<<>>)>> ELSE <<>>
           p == Pieces(c, ResBatch)
           lists == p \o last
           R == {content[r] : r \in Range(q.list)}
<1>1. q.list \in Seq(RecId) /\ Len(q.list) \in Nat /\ q.sn \in Sn
  BY LenProperties DEF Query
<1>2. \A j \in 1 .. Len(q.list) : q.list[j] \in Range(q.list)
  BY <1>1, InRange
<1>3. R \subseteq AllRecords
  OBVIOUS
<1>4. c \in Seq(R)
  <2>1. \A j \in 1 .. Len(q.list) : content[q.list[j]] \in R
    BY <1>2
  <2>2. QED BY <1>1, <2>1, IsASeq DEF Contents
<1> HIDE DEF c, R
<1>5. p \in Seq(Seq(R))
  BY <1>4, PiecesAre, BatchAssumption
<1>6. last \in Seq(Seq(R))
  BY EmptySeq
<1> HIDE DEF p, last
<1>7. lists \in Seq(Seq(R))
  BY <1>5, <1>6, ConcatProperties
<1>8. Report(q, content) = ToPlatform(q, lists)
  BY DEF Report, c, p, last
<1> HIDE DEF lists
<1>9. ASSUME NEW k \in 1 .. Len(lists)
      PROVE  /\ [type |-> "result", sn |-> q.sn, list |-> lists[k]] \in ResultOut
             /\ \A x \in Range(lists[k]) : x \in R
  <2>1. lists[k] \in Seq(R)
    BY <1>7, ElementOfSeq
  <2>2. Range(lists[k]) \subseteq R
    BY <2>1, InRange
  <2>3. lists[k] \in Seq(AllRecords)
    BY <1>3, <2>1, <2>2, SeqOfElements
  <2>4. QED BY <1>1, <2>2, <2>3 DEF ResultOut
<1>10. Len(lists) \in Nat
  BY <1>7, LenProperties
<1> DEFINE m == [k \in 1 .. Len(lists) |-> [type |-> "result", sn |-> q.sn, list |-> lists[k]]]
<1>11. m \in Seq(ResultOut)
  BY <1>9, <1>10, IsASeq
<1>12. ASSUME NEW x \in Range(m)
       PROVE  /\ x \in ResultOut /\ x.sn = q.sn
              /\ \A y \in Range(x.list) : \E r \in Range(q.list) : content[r] = y
  <2>1. PICK k \in 1 .. Len(lists) : x = m[k]
    BY <1>10 DEF Range
  <2>2. x = [type |-> "result", sn |-> q.sn, list |-> lists[k]]
    BY <2>1
  <2>3. QED BY <1>9, <2>2 DEF R
<1>13. Report(q, content) = m
  BY <1>8 DEF ToPlatform
<1> HIDE DEF m
<1>14. QED BY <1>11, <1>12, <1>13

\* What goes out, whether or not one of the messages is lost.
LEMMA SendIs ==
    ASSUME NEW msgs \in Seq(ResultOut), toGb \in Seq(QueryOut \cup ResultOut), Send(msgs)
    PROVE  /\ toGb' \in Seq(QueryOut \cup ResultOut)
           /\ Range(toGb') \subseteq Range(toGb) \cup Range(msgs)
           /\ NoFault \/ \E f : Fault(f)
<1> DEFINE T == QueryOut \cup ResultOut
<1>1. msgs \in Seq(T)
  <2>1. Range(msgs) \subseteq T
    BY InRange
  <2>2. QED BY <2>1, SeqOfElements
<1> HIDE DEF T
<1>2. CASE toGb' = toGb \o msgs /\ NoFault
  BY <1>1, <1>2, ConcatIs DEF T
<1>3. CASE \E k \in 1 .. Len(msgs) : toGb' = toGb \o RemoveAt(msgs, k) /\ Fault("sendto")
  <2>1. PICK k \in 1 .. Len(msgs) : toGb' = toGb \o RemoveAt(msgs, k) /\ Fault("sendto")
    BY <1>3
  <2>2. RemoveAt(msgs, k) \in Seq(T) /\ Range(RemoveAt(msgs, k)) \subseteq Range(msgs)
    BY <1>1, RemoveAtRange
  <2>3. QED BY <1>1, <2>1, <2>2, ConcatIs DEF T
<1>4. QED BY <1>2, <1>3 DEF Send

\* The queue without its k-th query does not depend on that query.
LEMMA RemoveChanged ==
    ASSUME NEW S, NEW s \in Seq(S), NEW t \in Seq(S), NEW k \in 1 .. Len(s),
           Len(t) = Len(s), \A j \in 1 .. Len(s) : j # k => t[j] = s[j]
    PROVE  RemoveAt(t, k) = RemoveAt(s, k)
<1>2. /\ RemoveAt(s, k) \in Seq(S) /\ Len(RemoveAt(s, k)) = Len(s) - 1
      /\ \A j \in 1 .. Len(s) - 1 : /\ Skip(k, j) \in 1 .. Len(s) /\ Skip(k, j) # k
                                    /\ RemoveAt(s, k)[j] = s[Skip(k, j)]
  BY Remaining
<1>3. /\ RemoveAt(t, k) \in Seq(S) /\ Len(RemoveAt(t, k)) = Len(s) - 1
      /\ \A j \in 1 .. Len(s) - 1 : RemoveAt(t, k)[j] = t[Skip(k, j)]
  <2>1. k \in 1 .. Len(t)
    OBVIOUS
  <2>2. /\ RemoveAt(t, k) \in Seq(S) /\ Len(RemoveAt(t, k)) = Len(t) - 1
        /\ \A j \in 1 .. Len(t) - 1 : RemoveAt(t, k)[j] = t[Skip(k, j)]
    BY <2>1, Remaining
  <2>3. QED BY <2>2
<1>4. \A j \in 1 .. Len(s) - 1 : RemoveAt(t, k)[j] = RemoveAt(s, k)[j]
  BY <1>2, <1>3
<1>5. RemoveAt(t, k) = RemoveAt(s, k)
  <2> DEFINE u == RemoveAt(t, k)
             v == RemoveAt(s, k)
  <2>1. u \in Seq(S) /\ v \in Seq(S) /\ Len(u) = Len(v) /\ \A j \in 1 .. Len(u) : u[j] = v[j]
    BY <1>2, <1>3, <1>4
  <2> HIDE DEF u, v
  <2>2. u = v
    BY <2>1, SeqEqual
  <2>3. QED BY <2>2 DEF u, v
<1>6. QED BY <1>5

\* What a query tells the platform: results for its sn, made of what its
\* record items hold.
Reporting(q, content) ==
    \A m \in Range(toGb') :
       \/ m \in Range(toGb)
       \/ /\ m \in ResultOut /\ m.sn = q.sn
          /\ \A x \in Range(m.list) : \E r \in Range(q.list) : content[r] = x

\* The record items of the other queries keep what they hold.
Untouched(q, content) ==
    \A r \in RecId : r \notin Range(q.list) => rec'[r] = content[r]

\* The label dump_rec: the query q, which has become of the k-th in the
\* queue, goes with all its record items.
LEMMA DumpIs ==
    ASSUME Sound, NEW k \in 1 .. Len(queue), NEW q \in Query,
           NEW content \in [RecId -> AllRecords \cup {Null}], NEW left \in Seq(RecId),
           Pool(left, [queue EXCEPT ![k] = q]), Blank(content, left),
           DumpRec(k, q, content, left)
    PROVE  /\ queue' = RemoveAt(queue, k) /\ queue' \in Seq(Query)
           /\ size' = Len(queue') /\ size' \in 0 .. MaxMsg + 1
           /\ free' \in Seq(RecId) /\ Pool(free', queue')
           /\ rec' \in [RecId -> AllRecords \cup {Null}] /\ Blank(rec', free')
           /\ toGb' \in Seq(QueryOut \cup ResultOut)
           /\ NoFault \/ \E f : Fault(f)
           /\ Reporting(q, content) /\ Untouched(q, content)
<1> DEFINE qs == [queue EXCEPT ![k] = q]
<1>1. queue \in Seq(Query) /\ size = Len(queue) /\ size \in 0 .. MaxMsg + 1
      /\ toGb \in Seq(QueryOut \cup ResultOut)
  BY DEF Sound, Messages, TypeOK
<1>2. /\ qs \in Seq(Query) /\ Len(qs) = Len(queue) /\ qs[k] = q
      /\ \A j \in 1 .. Len(queue) : j # k => qs[j] = queue[j]
  BY <1>1, ExceptSeq
<1> HIDE DEF qs
<1>3. RemoveAt(qs, k) = RemoveAt(queue, k)
  BY <1>1, <1>2, RemoveChanged
<1>4. Pool(left, qs)
  BY DEF qs
<1>5. k \in 1 .. Len(qs)
  BY <1>2
<1>6. /\ Pool(Reverse(q.list) \o left, RemoveAt(qs, k))
      /\ Reverse(q.list) \o left \in Seq(RecId)
      /\ Range(Reverse(q.list) \o left) = Range(q.list) \cup Range(left)
  BY <1>2, <1>4, <1>5, ReleaseKeeps
<1>7. \A r \in Range(q.list) : r \in RecId /\ content[r] \in AllRecords
  BY <1>2, <1>4, <1>5, InUseIsFilled
<1>8. /\ queue' = RemoveAt(queue, k) /\ size' = IF size > 0 THEN size - 1 ELSE size
      /\ free' = Reverse(q.list) \o left
      /\ Send(Report(q, content))
      /\ rec' = [r \in RecId |-> IF r \in Range(q.list) THEN Null ELSE content[r]]
  BY DEF DumpRec, DelRecInfo
<1>9. queue' \in Seq(Query) /\ Len(queue') = Len(queue) - 1 /\ Len(queue) \in Nat
  BY <1>1, <1>8, Remaining, LenProperties
<1>10. size' = Len(queue') /\ size' \in 0 .. MaxMsg + 1
  BY <1>1, <1>8, <1>9, LimitAssumption
<1>11. Pool(free', queue') /\ free' \in Seq(RecId)
  BY <1>3, <1>6, <1>8
<1>12. rec' \in [RecId -> AllRecords \cup {Null}]
  BY <1>8
<1>13. Blank(rec', free')
  BY <1>6, <1>8 DEF Blank
<1>14. /\ toGb' \in Seq(QueryOut \cup ResultOut)
       /\ NoFault \/ \E f : Fault(f)
       /\ \A m \in Range(toGb') :
             \/ m \in Range(toGb)
             \/ /\ m \in ResultOut /\ m.sn = q.sn
                /\ \A x \in Range(m.list) : \E r \in Range(q.list) : content[r] = x
  <2>1. /\ Report(q, content) \in Seq(ResultOut)
        /\ \A m \in Range(Report(q, content)) :
              /\ m \in ResultOut /\ m.sn = q.sn
              /\ \A x \in Range(m.list) : \E r \in Range(q.list) : content[r] = x
    BY <1>7, ReportIs
  <2>2. /\ toGb' \in Seq(QueryOut \cup ResultOut)
        /\ Range(toGb') \subseteq Range(toGb) \cup Range(Report(q, content))
        /\ NoFault \/ \E f : Fault(f)
    BY <1>1, <1>8, <2>1, SendIs
  <2>3. QED BY <2>1, <2>2
<1>15. \A r \in RecId : r \notin Range(q.list) => rec'[r] = content[r]
  BY <1>8
<1>16. QED BY <1>8, <1>9, <1>10, <1>11, <1>12, <1>13, <1>14, <1>15 DEF Reporting, Untouched

-----------------------------------------------------------------------------
(* get_async_msg_ctx *)

First == IF (ctx + 1) % Width = Limit THEN 1 ELSE (ctx + 1) % Width
After(k) == (First + k) % Width

LEMMA NewCtxChosen ==
    NewCtx = After(CHOOSE k \in 0 .. Len(queue) : /\ After(k) \notin InUse
                                                  /\ \A j \in 0 .. k - 1 : After(j) \in InUse)
BY DEF NewCtx, First, After

LEMMA CtxType ==
    ASSUME ctx \in Ctx
    PROVE  /\ Width \in Nat \ {0} /\ First \in Ctx
           /\ \A k \in Nat : After(k) \in Ctx
<1>1. Limit \in Nat
  BY LimitAssumption
<1>2. Width \in Nat \ {0}
  BY <1>1 DEF Width
<1> HIDE DEF Width
<1>3. ctx + 1 \in Nat
  BY <1>2 DEF Ctx
<1>4. (ctx + 1) % Width \in 0 .. Width - 1
  BY <1>2, <1>3
<1>5. 1 \in Ctx
  BY LimitAssumption DEF Width, Ctx
<1>6. First \in Ctx
  BY <1>4, <1>5 DEF First, Ctx
<1>7. ASSUME NEW k \in Nat
      PROVE  After(k) \in Ctx
  <2>1. First + k \in Nat
    BY <1>2, <1>6 DEF Ctx
  <2>2. QED BY <1>2, <2>1 DEF After, Ctx
<1>8. QED BY <1>2, <1>6, <1>7

\* Fewer values than Width after the first are all different.
LEMMA AfterDiffer ==
    ASSUME ctx \in Ctx, NEW j \in 0 .. Width - 1, NEW k \in 0 .. Width - 1, After(j) = After(k)
    PROVE  j = k
<1>1. Width \in Nat \ {0} /\ First \in Nat
  BY CtxType DEF Ctx
<1> DEFINE f == First
           w == Width
<1>2. w \in Nat \ {0} /\ f \in Nat /\ j \in 0 .. w - 1 /\ k \in 0 .. w - 1
  BY <1>1
<1>3. (f + j) % w = (f + k) % w
  BY DEF After
<1> HIDE DEF f, w
<1> DEFINE p == (f + j) \div w
           q == (f + k) \div w
           r == (f + j) % w
<1>4. p \in Int /\ q \in Int /\ r \in Int
  BY <1>2
<1>5. f + j = p * w + r /\ f + k = q * w + r
  BY <1>2, <1>3
<1> HIDE DEF p, q, r
<1>6. j - k = (p - q) * w
  BY <1>2, <1>4, <1>5, Z3
<1>7. j - k < w /\ k - j < w
  BY <1>2
<1>8. p = q
  BY <1>2, <1>4, <1>6, <1>7, Z3
<1>9. QED BY <1>2, <1>4, <1>5, <1>8

\* No more values are in use than there are queries.
LEMMA InUseFew ==
    ASSUME queue \in Seq(Query)
    PROVE  IsFiniteSet(InUse) /\ Cardinality(InUse) <= Len(queue)
<1>1. Len(queue) \in Nat
  BY LenProperties
<1>2. /\ IsFiniteSet(1 .. Len(queue))
      /\ Cardinality(1 .. Len(queue)) = Len(queue)
  <2>1. /\ IsFiniteSet(1 .. Len(queue))
        /\ Cardinality(1 .. Len(queue)) = IF 1 > Len(queue) THEN 0 ELSE Len(queue) - 1 + 1
    BY <1>1, FS_Interval
  <2>2. QED BY <1>1, <2>1
<1> DEFINE f == [k \in 1 .. Len(queue) |-> queue[k].ctx]
<1>3. f \in Surjection(1 .. Len(queue), InUse)
  BY DEF Surjection, InUse
<1>4. QED BY <1>2, <1>3, FS_Surjection

\* A queue with fewer queries than Width leaves a value for the next one.
LEMMA NewCtxIs ==
    ASSUME queue \in Seq(Query), ctx \in Ctx, Len(queue) < Width
    PROVE  NewCtx \in Ctx /\ NewCtx \notin InUse
<1> DEFINE K == 0 .. Len(queue)
           Free == {k \in K : After(k) \notin InUse}
<1>1. Len(queue) \in Nat /\ Width \in Nat
  BY CtxType, LenProperties
<1>2. Free # {}
  <2>1. SUFFICES ASSUME \A k \in K : After(k) \in InUse PROVE FALSE
    OBVIOUS
  <2> DEFINE f == [k \in K |-> After(k)]
  <2>2. \A j, k \in K : After(j) = After(k) => j = k
    <3>1. \A k \in K : k \in 0 .. Width - 1
      BY <1>1
    <3>2. QED BY <3>1, AfterDiffer
  <2>3. f \in Injection(K, InUse)
    BY <2>1, <2>2 DEF Injection, IsInjective
  <2>4. Cardinality(K) = Len(queue) + 1
    <3>1. Cardinality(K) = IF 0 > Len(queue) THEN 0 ELSE Len(queue) - 0 + 1
      BY <1>1, FS_Interval
    <3>2. QED BY <1>1, <3>1
  <2>5. Cardinality(K) <= Cardinality(InUse)
    BY <2>3, InUseFew, FS_Injection
  <2>6. Cardinality(InUse) \in Nat
    BY InUseFew, FS_CardinalityType
  <2>7. QED BY <1>1, <2>4, <2>5, <2>6, InUseFew
<1>3. Free \in SUBSET Nat
  BY <1>1
<1> DEFINE P(k) == After(k) \notin InUse /\ \A j \in 0 .. k - 1 : After(j) \in InUse
<1>4. \E k \in K : P(k)
  <2>1. PICK k \in Free : \A m \in Free : k <= m
    <3> HIDE DEF Free
    <3>1. QED BY <1>2, <1>3, LeastOf
  <2>2. \A j \in 0 .. k - 1 : j \in K /\ ~(k <= j)
    BY <1>1
  <2>3. QED BY <2>1, <2>2
<1>5. (CHOOSE k \in K : P(k)) \in K /\ P(CHOOSE k \in K : P(k))
  <2> HIDE DEF P
  <2>1. QED BY <1>4
<1>6. NewCtx = After(CHOOSE k \in K : P(k))
  BY NewCtxChosen
<1>7. \A k \in K : After(k) \in Ctx
  BY <1>1, CtxType
<1> HIDE DEF K
<1>8. QED BY <1>5, <1>6, <1>7

\* If the next value is free, it is taken.
LEMMA NewCtxNext ==
    ASSUME queue \in Seq(Query), ctx \in Ctx, ctx + 1 < Limit, ctx + 1 \notin InUse
    PROVE  NewCtx = ctx + 1
<1>1. Len(queue) \in Nat /\ Width \in Nat /\ Limit \in Nat /\ Limit < Width /\ ctx \in Nat
  BY CtxType, LenProperties, LimitAssumption DEF Width, Ctx
<1>2. (ctx + 1) % Width = ctx + 1
  BY <1>1
<1>3. First = ctx + 1
  BY <1>1, <1>2 DEF First
<1>4. After(0) = ctx + 1
  BY <1>1, <1>2, <1>3 DEF After
<1> DEFINE P(k) == After(k) \notin InUse /\ \A j \in 0 .. k - 1 : After(j) \in InUse
           K == 0 .. Len(queue)
<1>5. 0 \in K /\ P(0)
  BY <1>1, <1>4
<1>6. \A k \in K : P(k) => k = 0
  <2>1. SUFFICES ASSUME NEW k \in K, P(k), k # 0 PROVE FALSE
    OBVIOUS
  <2>2. 0 \in 0 .. k - 1
    BY <1>1, <2>1
  <2>3. QED BY <1>4, <2>1, <2>2
<1>7. (CHOOSE k \in K : P(k)) = 0
  <2> HIDE DEF P, K
  <2>1. QED BY <1>5, <1>6
<1>8. NewCtx = After(CHOOSE k \in K : P(k))
  BY NewCtxChosen
<1>9. QED BY <1>4, <1>7, <1>8

-----------------------------------------------------------------------------
(* Each step keeps Sound. *)

\* What the head of toMc is.
LEMMA AnswerIs ==
    ASSUME Sound, toMc # <<>>, Answer.type = "answer"
    PROVE  /\ Answer \in AnswerIn /\ Answer \in Range(toMc)
           /\ Answer.list \in Seq(AllRecords) /\ Answer.sum \in Nat
           /\ Answer.ctx \in Ctx
<1>1. toMc \in Seq(QueryIn \cup AnswerIn)
  BY DEF Sound, Messages
<1>2. Head(toMc) \in QueryIn \cup AnswerIn /\ Head(toMc) \in Range(toMc)
  BY <1>1, TailRange
<1>3. Answer \in AnswerIn
  BY <1>2, Kinds DEF Answer
<1>4. QED BY <1>2, <1>3 DEF Answer, AnswerIn

\* The query with the records of the answer, and what the pool has left.
Grown(k) == [Longer(queue[k], Answer.list) EXCEPT !.sum = Answer.sum]
Content(k) == Filled(queue[k], Answer.list)
Left(k) == Rest(free, Taken(queue[k], Answer.list))

LEMMA AddsIs ==
    ASSUME Sound, toMc # <<>>, Answer.type = "answer", NEW k \in 1 .. Len(queue)
    PROVE  /\ Grown(k) \in Query /\ Grown(k).ctx = queue[k].ctx /\ Grown(k).sn = queue[k].sn
           /\ Content(k) \in [RecId -> AllRecords \cup {Null}]
           /\ Left(k) \in Seq(RecId)
           /\ Pool(Left(k), [queue EXCEPT ![k] = Grown(k)])
           /\ Blank(Content(k), Left(k))
           /\ \A r \in Range(Grown(k).list) :
                 \/ Content(k)[r] \in Range(Answer.list)
                 \/ r \in Range(queue[k].list) /\ Content(k)[r] = rec[r]
           /\ \A j \in 1 .. Len(queue) : \A r \in Range(queue[j].list) :
                 j # k => Content(k)[r] = rec[r] /\ r \notin Range(Grown(k).list)
<1> DEFINE q == queue[k]
           s == Answer.list
           n == Taken(q, s)
           new == Range(SubSeq(free, 1, n))
<1>1. /\ queue \in Seq(Query) /\ free \in Seq(RecId) /\ Pool(free, queue) /\ Blank(rec, free)
      /\ rec \in [RecId -> AllRecords \cup {Null}]
  BY DEF Sound, Messages, TypeOK
<1>2. q \in Query
  BY <1>1, ElementOfSeq
<1>3. s \in Seq(AllRecords) /\ Answer.sum \in Nat
  BY AnswerIs
<1>4. n \in 0 .. Len(free)
  BY <1>1, <1>3, TakenIs
<1>5. /\ Grown(k) \in Query /\ Grown(k).ctx = q.ctx /\ Grown(k).sn = q.sn
      /\ Grown(k).list = Reverse(SubSeq(free, 1, n)) \o q.list
  BY <1>1, <1>2, <1>3, LongerIs DEF Grown
<1>6. NoRepeat(free)
  BY <1>1 DEF Pool
<1>7. /\ Content(k) \in [RecId -> AllRecords \cup {Null}]
      /\ \A r \in RecId : IF r \in new THEN Content(k)[r] \in Range(s) ELSE Content(k)[r] = rec[r]
  BY <1>1, <1>3, <1>6, FilledIs DEF Content
<1> HIDE DEF n, s
<1>8. /\ Pool(Rest(free, n), [queue EXCEPT ![k] = Grown(k)])
      /\ Range(Grown(k).list) = new \cup Range(q.list)
  <2> DEFINE qq == [queue EXCEPT ![k] = Grown(k)]
  <2>1. /\ qq \in Seq(Query) /\ Len(qq) = Len(queue)
        /\ \A j \in 1 .. Len(queue) : j # k => qq[j] = queue[j]
        /\ qq[k] = Grown(k)
    BY <1>1, <1>5, ExceptSeq
  <2> HIDE DEF qq
  <2>2. Pool(Rest(free, n), qq)
    <3>1. qq[k].list = Reverse(SubSeq(free, 1, n)) \o queue[k].list
      BY <1>5, <2>1
    <3>2. queue \in Seq(Query) /\ free \in Seq(RecId) /\ Pool(free, queue)
      BY <1>1
    <3>3. k \in 1 .. Len(queue)
      OBVIOUS
    <3>4. QED BY <1>4, <2>1, <3>1, <3>2, <3>3, TakeKeeps
  <2>3. q.list \in Seq(RecId)
    BY <1>2 DEF Query
  <2>4. Range(Grown(k).list) = new \cup Range(q.list)
    BY <1>1, <1>4, <1>5, <2>3, TakenRange
  <2>5. QED BY <2>2, <2>4 DEF qq
<1>9. Rest(free, n) \in Seq(RecId)
  BY <1>1, <1>4, RestIs
<1>10. /\ new \cap Range(Rest(free, n)) = {}
       /\ new \cup Range(Rest(free, n)) = Range(free)
  BY <1>1, <1>4, <1>6, SplitIs
<1>11. Left(k) = Rest(free, n)
  BY DEF Left, n, s
<1> HIDE DEF new
<1>12. Blank(Content(k), Rest(free, n))
  <2>1. SUFFICES ASSUME NEW r \in RecId
                 PROVE  Content(k)[r] = Null <=> r \in Range(Rest(free, n))
    BY DEF Blank
  <2>2. CASE r \in new
    <3>1. Content(k)[r] \in AllRecords
      BY <1>3, <1>7, <2>2, InRange
    <3>2. QED BY <1>10, <2>2, <3>1, RecordsAssumption
  <2>3. CASE r \notin new
    BY <1>1, <1>7, <1>10, <2>3 DEF Blank
  <2>4. QED BY <2>2, <2>3
<1>13. \A j \in 1 .. Len(queue) : Range(queue[j].list) \subseteq RecId
  <2>1. TAKE j \in 1 .. Len(queue)
  <2>2. queue[j] \in Query
    BY <1>1, ElementOfSeq
  <2>3. queue[j].list \in Seq(RecId)
    BY <2>2 DEF Query
  <2>4. QED BY <2>3, InRange
<1>14. new \subseteq RecId
  <2>1. Range(free) \subseteq RecId
    BY <1>1, InRange
  <2>2. QED BY <1>10, <2>1
<1>15. ASSUME NEW r \in Range(Grown(k).list)
       PROVE  \/ Content(k)[r] \in Range(s)
              \/ r \in Range(q.list) /\ Content(k)[r] = rec[r]
  BY <1>7, <1>8, <1>13, <1>14
<1>16. ASSUME NEW j \in 1 .. Len(queue), NEW r \in Range(queue[j].list), j # k
       PROVE  Content(k)[r] = rec[r] /\ r \notin Range(Grown(k).list)
  <2>1. r \notin Range(free) /\ r \notin Range(q.list)
    BY <1>1, <1>16 DEF Pool
  <2>2. r \notin new
    BY <1>10, <2>1
  <2>3. QED BY <1>7, <1>8, <1>13, <2>1, <2>2
<1>17. QED BY <1>5, <1>7, <1>8, <1>9, <1>11, <1>12, <1>15, <1>16 DEF s

\* The records of a device's answer are records of the device.
LEMMA HasIs ==
    ASSUME Messages, NEW i \in Item
    PROVE  /\ Has(i) \in Seq(AllRecords)
           /\ Range(Has(i)) \subseteq Range(Records[i])
           /\ Range(Records[i]) \subseteq AllRecords
           /\ Len(Has(i)) \in Nat
<1>1. Records[i] \in Seq(Range(Records[i]))
  BY RecordsAssumption
<1>2. held[i] \in 0 .. Len(Records[i])
  BY <1>1, LenProperties DEF Messages
<1>3. Has(i) \in Seq(Range(Records[i]))
  BY <1>1, <1>2, FirstIs DEF Has
<1>4. Range(Records[i]) \subseteq AllRecords
  BY DEF AllRecords
<1>5. Range(Has(i)) \subseteq Range(Records[i]) /\ Len(Has(i)) \in Nat
  BY <1>3, InRange
<1>6. Has(i) \in Seq(AllRecords)
  BY <1>3, <1>4, <1>5, SeqOfElements
<1>7. QED BY <1>4, <1>5, <1>6

\* The lists of records a device sends.
LEMMA DeviceLists ==
    ASSUME Messages, NEW i \in Item,
           NEW l \in IF Has(i) = <<>> THEN {<<>>} ELSE Range(Pieces(Has(i), DevBatch))
    PROVE  l \in Seq(AllRecords) /\ Range(l) \subseteq Range(Records[i])
<1>1. CASE Has(i) = <<>>
  BY <1>1, EmptySeq DEF Range
<1>2. CASE Has(i) # <<>>
  <2> DEFINE p == Pieces(Has(i), DevBatch)
  <2>1. /\ p \in Seq(Seq(AllRecords))
        /\ \A k \in 1 .. Len(p) : Range(p[k]) \subseteq Range(Has(i))
    BY HasIs, PiecesAre, BatchAssumption
  <2> HIDE DEF p
  <2>2. l \in Range(p)
    BY <1>2 DEF p
  <2>3. PICK k \in 1 .. Len(p) : p[k] = l
    BY <2>1, <2>2, InRange
  <2>4. QED BY <2>1, <2>3, HasIs, ElementOfSeq
<1>3. QED BY <1>1, <1>2

LEMMA SoundInit == Init => Sound
<1> SUFFICES ASSUME Init PROVE Sound
  OBVIOUS
<1>1. \A i \in Item : Records[i] \in Seq(Range(Records[i])) /\ Len(Records[i]) \in Nat
  BY RecordsAssumption, LenProperties
<1>2. held \in [Item -> Nat] /\ \A i \in Item : held[i] <= Len(Records[i])
  <2>1. CASE held = [i \in Item |-> Len(Records[i])]
    BY <1>1, <2>1
  <2>2. CASE held = [i \in Item |-> Len(Records[i]) \div 2]
    <3>1. \A m \in Nat : m \div 2 \in Nat /\ m \div 2 <= m
      OBVIOUS
    <3>2. \A i \in Item : held[i] = Len(Records[i]) \div 2
      BY <2>2
    <3>3. QED BY <1>1, <2>2, <3>1, <3>2
  <2>3. QED BY <2>1, <2>2 DEF Init
<1>3. free \in Seq(RecId) /\ Len(free) = NumRec /\ \A r \in RecId : free[r] = r
  BY NumRecAssumption, IsASeq DEF Init, RecId
<1>4. \A r \in RecId : r \in Range(free)
  BY <1>3, InRange DEF RecId
<1>5. NoRepeat(free)
  BY <1>3 DEF NoRepeat, RecId
<1>6. queue = <<>> /\ Len(queue) = 0
  BY DEF Init
<1>7. Pool(free, queue)
  BY <1>4, <1>5, <1>6 DEF Pool
<1>8. Blank(rec, free)
  BY <1>4 DEF Blank, Init
<1>9. ctx \in Ctx /\ size \in 0 .. MaxMsg + 1 /\ size = Len(queue)
  BY <1>6, LimitAssumption DEF Init, Ctx, Width
<1>10. TypeOK
  BY <1>3, <1>6, <1>9, EmptySeq, BoundAssumption DEF Init, TypeOK
<1>11. Messages
  <2>1. told \in [Sn -> Seq(Seq(AllRecords))]
    BY EmptySeq DEF Init
  <2>2. QED BY <1>2, <1>6, <2>1, EmptySeq DEF Init, Messages
<1>12. QED BY <1>7, <1>8, <1>9, <1>10, <1>11 DEF Sound

\* A query of the queue has its type.
LEMMA QueryType ==
    ASSUME queue \in Seq(Query), NEW k \in 1 .. Len(queue)
    PROVE  /\ queue[k] \in Query /\ queue[k].ctx \in Ctx /\ queue[k].sn \in Sn
           /\ queue[k].sum \in Nat /\ queue[k].list \in Seq(RecId)
<1>1. queue[k] \in Query
  BY ElementOfSeq
<1>2. QED BY <1>1 DEF Query

\* A step that leaves the message centre alone.
LEMMA SparesMc ==
    ASSUME Sound, UNCHANGED mc, NoFault \/ \E f : Fault(f),
           asked' \in Seq(Item \cup {Other}), Len(asked') <= MaxQuery,
           toDev' \subseteq [ctx : Ctx, item : Item], fromDev' \subseteq AnswerMsg,
           held' \in [Item -> Nat], \A i \in Item : held'[i] <= Len(Records[i]),
           toMc' \in Seq(QueryIn \cup AnswerIn), toGb' \in Seq(QueryOut \cup ResultOut),
           loop' \in AnswerMsg \cup {Null}, told' \in [Sn -> Seq(Seq(AllRecords))]
    PROVE  Sound'
<1>1. queue' = queue /\ size' = size /\ ctx' = ctx /\ rec' = rec /\ free' = free
  BY DEF mc
<1>2. TypeOK
  BY DEF Sound
<1>3. faults' \in Seq(Faults) /\ Len(faults') <= MaxFault
  BY <1>2, FaultsType
<1>4. TypeOK'
  BY <1>1, <1>2, <1>3 DEF TypeOK
<1>5. Messages'
  BY <1>1 DEF Sound, Messages
<1>6. size' = Len(queue') /\ Pool(free', queue') /\ Blank(rec', free')
  BY <1>1 DEF Sound
<1>7. QED BY <1>4, <1>5, <1>6 DEF Sound

\* A step of the message centre.
LEMMA McKeeps ==
    ASSUME Sound, UNCHANGED <<asked, held, loop, toDev, fromDev, told>>,
           NoFault \/ \E f : Fault(f), toMc # <<>>, toMc' = Tail(toMc),
           toGb' \in Seq(QueryOut \cup ResultOut),
           queue' \in Seq(Query), size' = Len(queue'), size' \in 0 .. MaxMsg + 1, ctx' \in Ctx,
           rec' \in [RecId -> AllRecords \cup {Null}], free' \in Seq(RecId),
           Pool(free', queue'), Blank(rec', free')
    PROVE  Sound'
<1>1. TypeOK /\ Messages
  BY DEF Sound
<1>2. faults' \in Seq(Faults) /\ Len(faults') <= MaxFault
  BY <1>1, FaultsType
<1>3. toMc' \in Seq(QueryIn \cup AnswerIn)
  BY <1>1, TailRange DEF Messages
<1>4. \A k \in 1 .. Len(queue') : /\ queue'[k].ctx \in Ctx /\ queue'[k].sn \in Sn
                                  /\ queue'[k].sum \in Nat /\ queue'[k].list \in Seq(RecId)
  <2>1. TAKE k \in 1 .. Len(queue')
  <2>2. queue'[k] \in Query
    BY ElementOfSeq
  <2>3. QED BY <2>2 DEF Query
<1>5. TypeOK'
  BY <1>1, <1>2, <1>4 DEF TypeOK
<1>6. Messages'
  BY <1>1, <1>3 DEF Messages
<1>7. QED BY <1>5, <1>6 DEF Sound

\* rmt_query_record_info
LEMMA PlatformAsksSound ==
    ASSUME Sound, NEW i \in Item \cup {Other}, PlatformAsks(i)
    PROVE  Sound'
<1>1. TypeOK /\ Messages
  BY DEF Sound
<1>2. /\ asked \in Seq(AnyItem) /\ Len(asked) < MaxQuery /\ Len(asked) \in Nat
      /\ asked' = Append(asked, i) /\ i \in AnyItem
  BY <1>1, LenProperties DEF TypeOK, PlatformAsks, AnyItem
<1>3. asked' \in Seq(AnyItem) /\ Len(asked') <= MaxQuery
  <2>1. asked' \in Seq(AnyItem) /\ Len(asked') = Len(asked) + 1
    BY <1>2, AppendRange
  <2>2. QED BY <1>2, <2>1, BoundAssumption
<1>4. [type |-> "query", sn |-> Len(asked) + 1, item |-> i] \in QueryIn
  BY <1>2, BoundAssumption DEF QueryIn, Sn
<1>5. toMc' \in Seq(QueryIn \cup AnswerIn)
  <2> DEFINE m == [type |-> "query", sn |-> Len(asked) + 1, item |-> i]
  <2>1. toMc \in Seq(QueryIn \cup AnswerIn) /\ m \in QueryIn \cup AnswerIn
    BY <1>1, <1>4 DEF Messages
  <2>2. toMc' = Append(toMc, m) \/ toMc' = toMc
    BY DEF PlatformAsks
  <2> HIDE DEF m
  <2>3. QED BY <2>1, <2>2, AppendRange
<1>6. UNCHANGED <<held, mc, loop, toGb, toDev, fromDev, told>> /\ (NoFault \/ \E f : Fault(f))
  BY DEF PlatformAsks
<1>7. QED BY <1>1, <1>3, <1>5, <1>6, SparesMc DEF TypeOK, Messages, AnyItem

\* deal_inter_msg takes a message of the message centre.
LEMMA GbTakesSound ==
    ASSUME Sound, GbQuery \/ GbResult
    PROVE  Sound'
<1>1. TypeOK /\ Messages
  BY DEF Sound
<1>2. /\ toGb \in Seq(QueryOut \cup ResultOut) /\ toGb # <<>> /\ toGb' = Tail(toGb) /\ NoFault
      /\ UNCHANGED <<asked, held, mc, loop, toMc, fromDev>>
  BY <1>1 DEF GbQuery, GbResult, Messages
<1>3. Head(toGb) \in QueryOut \cup ResultOut /\ toGb' \in Seq(QueryOut \cup ResultOut)
  BY <1>2, TailRange
<1>4. toDev' \subseteq [ctx : Ctx, item : Item] /\ told' \in [Sn -> Seq(Seq(AllRecords))]
  <2>1. CASE GbQuery
    <3>1. Head(toGb) \in QueryOut
      BY <1>3, <2>1, Kinds DEF GbQuery
    <3>2. [ctx |-> Head(toGb).ctx, item |-> Head(toGb).item] \in [ctx : Ctx, item : Item]
      BY <3>1 DEF QueryOut
    <3>3. QED BY <1>1, <2>1, <3>2 DEF GbQuery, Messages
  <2>2. CASE GbResult
    <3>1. Head(toGb) \in ResultOut
      BY <1>3, <2>2, Kinds DEF GbResult
    <3> DEFINE sn == Head(toGb).sn
               list == Head(toGb).list
    <3>2. sn \in Sn /\ list \in Seq(AllRecords)
      BY <3>1 DEF ResultOut
    <3>3. told' = [told EXCEPT ![sn] = Append(@, list)] /\ toDev' = toDev
      BY <2>2 DEF GbResult
    <3> HIDE DEF sn, list
    <3>4. told \in [Sn -> Seq(Seq(AllRecords))]
      BY <1>1 DEF Messages
    <3>5. Append(told[sn], list) \in Seq(Seq(AllRecords))
      BY <3>2, <3>4, AppendRange
    <3>6. QED BY <1>1, <3>3, <3>4, <3>5 DEF Messages
  <2>3. QED BY <2>1, <2>2
<1>5. QED BY <1>1, <1>2, <1>3, <1>4, SparesMc DEF TypeOK, Messages

\* add_recordinfo_query_result takes an answer and hands over its records.
LEMMA GbHandsSound ==
    ASSUME Sound, GbFullBatch \/ GbLastBatch \/ \E a \in fromDev : GbAnswer(a)
    PROVE  Sound'
<1>1. TypeOK /\ Messages
  BY DEF Sound
<1>2. /\ UNCHANGED <<asked, held, mc, toGb, toDev, told>>
      /\ NoFault \/ \E f : Fault(f)
  BY DEF GbFullBatch, GbLastBatch, GbAnswer
<1>3. fromDev' \subseteq AnswerMsg
  BY <1>1 DEF GbFullBatch, GbLastBatch, GbAnswer, Messages
<1>4. ASSUME loop # Null, NEW n \in 0 .. Len(loop.list)
      PROVE  HandOver(n) \in Seq(QueryIn \cup AnswerIn)
  <2>1. loop \in AnswerMsg /\ toMc \in Seq(QueryIn \cup AnswerIn)
    BY <1>1, <1>4 DEF Messages
  <2>2. loop.list \in Seq(AllRecords) /\ loop.ctx \in Ctx /\ loop.dev \in AnyItem /\ loop.sum \in Nat
    BY <2>1 DEF AnswerMsg
  <2>3. SubSeq(loop.list, 1, n) \in Seq(AllRecords)
    BY <2>2, FirstIs
  <2>4. [type |-> "answer", ctx |-> loop.ctx, dev |-> loop.dev, sum |-> loop.sum,
         list |-> SubSeq(loop.list, 1, n)] \in QueryIn \cup AnswerIn
    BY <2>2, <2>3 DEF AnswerIn
  <2>5. QED BY <2>1, <2>4, AppendRange DEF HandOver
<1>5. ASSUME loop # Null, NEW n \in 0 .. Len(loop.list)
      PROVE  [loop EXCEPT !.list = Rest(@, n)] \in AnswerMsg
  <2>1. loop \in AnswerMsg
    BY <1>1, <1>5 DEF Messages
  <2>2. Rest(loop.list, n) \in Seq(AllRecords)
    BY <2>1, RestIs DEF AnswerMsg
  <2>3. QED BY <2>1, <2>2 DEF AnswerMsg
<1>6. loop # Null => Len(loop.list) \in Nat
  BY <1>1, LenProperties DEF Messages, AnswerMsg
<1>7. toMc' \in Seq(QueryIn \cup AnswerIn) /\ loop' \in AnswerMsg \cup {Null}
  <2>1. CASE GbFullBatch
    <3>1. loop # Null /\ GbBatch \in 0 .. Len(loop.list) /\ GbBatch - 1 \in 0 .. Len(loop.list)
      BY <1>6, <2>1, BatchAssumption DEF GbFullBatch
    <3>2. /\ toMc' = HandOver(GbBatch) \/ toMc' = toMc
          /\ \/ loop' = [loop EXCEPT !.list = Rest(@, GbBatch)]
             \/ loop' = [loop EXCEPT !.list = Rest(@, GbBatch - 1)]
      BY <2>1 DEF GbFullBatch, AfterFailure
    <3>3. HandOver(GbBatch) \in Seq(QueryIn \cup AnswerIn)
      BY <1>4, <3>1
    <3>4. /\ [loop EXCEPT !.list = Rest(@, GbBatch)] \in AnswerMsg
          /\ [loop EXCEPT !.list = Rest(@, GbBatch - 1)] \in AnswerMsg
      BY <1>5, <3>1
    <3>5. toMc' \in Seq(QueryIn \cup AnswerIn)
      BY <1>1, <3>2, <3>3 DEF Messages
    <3>6. QED BY <3>2, <3>4, <3>5
  <2>2. CASE GbLastBatch
    <3>1. loop # Null /\ loop' = Null /\ (toMc' = HandOver(Len(loop.list)) \/ toMc' = toMc)
      BY <2>2 DEF GbLastBatch
    <3>2. Len(loop.list) \in 0 .. Len(loop.list)
      BY <1>6, <3>1
    <3>3. HandOver(Len(loop.list)) \in Seq(QueryIn \cup AnswerIn)
      BY <1>4, <3>1, <3>2
    <3>4. QED BY <1>1, <3>1, <3>3 DEF Messages
  <2>3. CASE \E a \in fromDev : GbAnswer(a)
    BY <1>1, <2>3 DEF GbAnswer, Messages
  <2>4. QED BY <2>1, <2>2, <2>3
<1>8. QED BY <1>1, <1>2, <1>3, <1>7, SparesMc DEF TypeOK, Messages

\* The devices and the network.
LEMMA OutsideSound ==
    ASSUME Sound,
           \/ Device \/ Lose
           \/ \E i \in Item : DevGrows(i)
           \/ \E a \in fromDev : DevAnswersAsOther(a)
    PROVE  Sound'
<1>1. TypeOK /\ Messages
  BY DEF Sound
<1>2. CASE Device
  <2>1. PICK q \in toDev : DevAnswer(q)
    BY <1>2 DEF Device
  <2> DEFINE all == Has(q.item)
             lists == IF all = <<>> THEN {<<>>} ELSE Range(Pieces(all, DevBatch))
             new == {[ctx |-> q.ctx, dev |-> q.item, sum |-> Len(all), list |-> l] : l \in lists}
  <2>2. q.ctx \in Ctx /\ q.item \in Item
    BY <1>1 DEF Messages
  <2>3. Len(all) \in Nat /\ \A l \in lists : l \in Seq(AllRecords)
    BY <1>1, <2>2, HasIs, DeviceLists
  <2>4. new \subseteq AnswerMsg
    <3> HIDE DEF lists, all
    <3>1. QED BY <2>2, <2>3 DEF AnswerMsg, AnyItem
  <2>5. /\ fromDev' = fromDev \cup new
        /\ (toDev' = toDev \ {q} /\ NoFault) \/ (toDev' = toDev /\ Fault("dup"))
        /\ UNCHANGED <<asked, held, mc, loop, toMc, toGb, told>>
    BY <2>1 DEF DevAnswer
  <2> HIDE DEF new
  <2>6. fromDev' \subseteq AnswerMsg /\ toDev' \subseteq [ctx : Ctx, item : Item]
    BY <1>1, <2>4, <2>5 DEF Messages
  <2>7. NoFault \/ \E f : Fault(f)
    BY <2>5
  <2>8. QED BY <1>1, <2>5, <2>6, <2>7, SparesMc DEF TypeOK, Messages
<1>3. CASE Lose
  BY <1>1, <1>3, SparesMc DEF Lose, TypeOK, Messages
<1>4. CASE \E i \in Item : DevGrows(i)
  <2>1. PICK i \in Item : DevGrows(i)
    BY <1>4
  <2>2. Len(Records[i]) \in Nat
    BY RecordsAssumption, LenProperties
  <2>3. held' = [held EXCEPT ![i] = Len(Records[i])] /\ held \in [Item -> Nat]
        /\ \A j \in Item : held[j] <= Len(Records[j])
    BY <1>1, <2>1 DEF DevGrows, Messages
  <2>4. held' \in [Item -> Nat] /\ \A j \in Item : held'[j] <= Len(Records[j])
    BY <2>2, <2>3
  <2>5. UNCHANGED <<asked, mc, loop, toMc, toGb, toDev, fromDev, told>> /\ \E f : Fault(f)
    BY <2>1 DEF DevGrows
  <2>6. QED BY <1>1, <2>4, <2>5, SparesMc DEF TypeOK, Messages
<1>5. CASE \E a \in fromDev : DevAnswersAsOther(a)
  <2>1. PICK a \in fromDev : DevAnswersAsOther(a)
    BY <1>5
  <2>2. a \in AnswerMsg
    BY <1>1 DEF Messages
  <2>3. [a EXCEPT !.dev = Other] \in AnswerMsg
    BY <2>2 DEF AnswerMsg, AnyItem
  <2>4. /\ fromDev' = (fromDev \ {a}) \cup {[a EXCEPT !.dev = Other]}
        /\ UNCHANGED <<asked, held, mc, loop, toMc, toGb, toDev, told>> /\ \E f : Fault(f)
    BY <2>1 DEF DevAnswersAsOther
  <2>5. fromDev' \subseteq AnswerMsg
    BY <1>1, <2>3, <2>4 DEF Messages
  <2>6. QED BY <1>1, <2>4, <2>5, SparesMc DEF TypeOK, Messages
<1>6. QED BY <1>2, <1>3, <1>4, <1>5

\* The query a platform's message becomes.
Entering == [ctx |-> NewCtx, sn |-> Head(toMc).sn, sum |-> 0, list |-> <<>>]

\* What query_record_info makes of the queue and of its messages.
LEMMA EntersIs ==
    ASSUME Sound, McQuery
    PROVE  /\ Entering \in Query /\ Entering.list = <<>> /\ Entering.ctx = NewCtx
           /\ NewCtx \in Ctx /\ NewCtx \notin InUse /\ NewCtx = ctx'
           /\ Head(toMc) \in QueryIn /\ Head(toMc) \in Range(toMc)
           /\ queue' = <<Entering>> \o queue /\ Len(queue) \in 0 .. MaxMsg
           /\ toMc # <<>> /\ toMc' = Tail(toMc)
           /\ toGb' \in Seq(QueryOut \cup ResultOut)
           /\ Range(toGb') \subseteq Range(toGb) \cup
                 {[type |-> "query", ctx |-> NewCtx, item |-> Head(toMc).item]}
           /\ NoFault \/ \E f : Fault(f)
<1>1. TypeOK /\ Messages /\ size = Len(queue)
  BY DEF Sound
<1>2. Head(toMc) \in QueryIn \cup AnswerIn /\ Head(toMc) \in Range(toMc)
  BY <1>1, TailRange DEF McQuery, Messages
<1>3. Head(toMc) \in QueryIn
  BY <1>2, Kinds DEF McQuery
<1>4. queue \in Seq(Query) /\ ctx \in Ctx /\ Len(queue) \in 0 .. MaxMsg
  BY <1>1, LenProperties DEF TypeOK, Messages, McQuery
<1>5. NewCtx \in Ctx /\ NewCtx \notin InUse
  <2>1. Len(queue) < Width
    BY <1>4, CtxType, LimitAssumption
  <2>2. QED BY <1>4, <2>1, NewCtxIs
<1>6. Entering \in Query /\ Entering.list = <<>> /\ Entering.ctx = NewCtx
  BY <1>3, <1>5, EmptySeq DEF Entering, Query, QueryIn
<1> DEFINE m == [type |-> "query", ctx |-> NewCtx, item |-> Head(toMc).item]
<1>7. m \in QueryOut
  BY <1>3, <1>5 DEF QueryOut, McQuery
<1>8. /\ (toGb' = Append(toGb, m) /\ NoFault) \/ (toGb' = toGb /\ Fault("sendto"))
      /\ toMc # <<>> /\ toMc' = Tail(toMc) /\ NewCtx = ctx'
      /\ queue' = <<Entering>> \o queue
  BY DEF McQuery, Entering
<1> HIDE DEF m
<1>9. toGb' \in Seq(QueryOut \cup ResultOut) /\ Range(toGb') \subseteq Range(toGb) \cup {m}
  <2>1. toGb \in Seq(QueryOut \cup ResultOut) /\ m \in QueryOut \cup ResultOut
    BY <1>1, <1>7 DEF Messages
  <2>2. Append(toGb, m) \in Seq(QueryOut \cup ResultOut) /\ Range(Append(toGb, m)) = Range(toGb) \cup {m}
    BY <2>1, AppendRange
  <2>3. toGb' = Append(toGb, m) \/ toGb' = toGb
    BY <1>8
  <2>4. QED BY <2>1, <2>2, <2>3
<1>10. NoFault \/ \E f : Fault(f)
  BY <1>8
<1>11. QED BY <1>2, <1>3, <1>4, <1>5, <1>6, <1>8, <1>9, <1>10 DEF m

\* query_record_info
LEMMA McQuerySound ==
    ASSUME Sound, McQuery
    PROVE  Sound'
<1>1. TypeOK /\ Messages /\ size = Len(queue) /\ Pool(free, queue) /\ Blank(rec, free)
  BY DEF Sound
<1>2. queue \in Seq(Query) /\ free \in Seq(RecId) /\ Len(queue) \in 0 .. MaxMsg
  BY <1>1, EntersIs DEF Messages, TypeOK
<1>3. Entering \in Query /\ Entering.list = <<>> /\ queue' = <<Entering>> \o queue
  BY EntersIs
<1> DEFINE qq == <<Entering>> \o queue
<1>4. Pool(free, qq) /\ qq \in Seq(Query) /\ Len(qq) = Len(queue) + 1
  <2>1. Entering \in Query /\ Entering.list = <<>>
    BY <1>3
  <2>2. QED BY <1>1, <1>2, <2>1, EnterKeeps
<1>5. size' = size + 1 /\ UNCHANGED <<asked, held, rec, free, loop, toDev, fromDev, told>>
  BY DEF McQuery
<1>6. queue' \in Seq(Query) /\ size' = Len(queue') /\ size' \in 0 .. MaxMsg + 1
  BY <1>1, <1>2, <1>3, <1>4, <1>5, LimitAssumption
<1>7. Pool(free', queue') /\ Blank(rec', free')
  BY <1>1, <1>3, <1>4, <1>5
<1>8. /\ ctx' \in Ctx /\ toMc # <<>> /\ toMc' = Tail(toMc)
      /\ toGb' \in Seq(QueryOut \cup ResultOut)
      /\ NoFault \/ \E f : Fault(f)
  BY EntersIs
<1>9. rec' \in [RecId -> AllRecords \cup {Null}] /\ free' \in Seq(RecId)
  BY <1>1, <1>5 DEF TypeOK
<1>10. QED BY <1>5, <1>6, <1>7, <1>8, <1>9, McKeeps

\* Messages that change nothing.
LEMMA McPassesSound ==
    ASSUME Sound, McQueryRefused \/ McAnswerUnknown
    PROVE  Sound'
<1>1. /\ UNCHANGED <<asked, held, mc, loop, toGb, toDev, fromDev, told>>
      /\ NoFault /\ toMc # <<>> /\ toMc' = Tail(toMc)
  BY DEF McQueryRefused, McAnswerUnknown, McAnswers, mc
<1>2. TypeOK /\ Messages /\ size = Len(queue) /\ Pool(free, queue) /\ Blank(rec, free)
  BY DEF Sound
<1>3. queue' = queue /\ size' = size /\ ctx' = ctx /\ rec' = rec /\ free' = free
  BY <1>1 DEF mc
<1>4. QED BY <1>1, <1>2, <1>3, McKeeps DEF TypeOK, Messages

\* An answer that ends the query at once: the query goes as it is.
LEMMA EndsIs ==
    ASSUME Sound, NEW k \in 1 .. Len(queue), McAnswerEnds(k)
    PROVE  /\ DumpRec(k, queue[k], rec, free) /\ queue[k] \in Query
           /\ Pool(free, [queue EXCEPT ![k] = queue[k]]) /\ Blank(rec, free)
           /\ rec \in [RecId -> AllRecords \cup {Null}] /\ free \in Seq(RecId)
<1>1. TypeOK /\ Messages /\ Pool(free, queue) /\ Blank(rec, free)
  BY DEF Sound
<1>2. queue \in Seq(Query)
  BY <1>1 DEF Messages
<1>3. [queue EXCEPT ![k] = queue[k]] = queue
  <2> DEFINE qq == [queue EXCEPT ![k] = queue[k]]
  <2>1. queue[k] \in Query
    BY <1>2, QueryType
  <2>2. qq \in Seq(Query) /\ Len(qq) = Len(queue) /\ \A j \in 1 .. Len(queue) : qq[j] = queue[j]
    BY <1>2, <2>1, ExceptSeq
  <2> HIDE DEF qq
  <2>3. qq = queue
    BY <1>2, <2>2, SeqEqual
  <2>4. QED BY <2>3 DEF qq
<1>4. queue[k] \in Query
  BY <1>2, QueryType
<1>5. QED BY <1>1, <1>3, <1>4 DEF McAnswerEnds, TypeOK

LEMMA McEndsSound ==
    ASSUME Sound, NEW k \in 1 .. Len(queue), McAnswerEnds(k)
    PROVE  Sound'
<1>1. /\ UNCHANGED <<asked, held, ctx, loop, toDev, fromDev, told>>
      /\ toMc # <<>> /\ toMc' = Tail(toMc)
  BY DEF McAnswerEnds, McAnswers
<1>2. ctx' \in Ctx
  BY <1>1 DEF Sound, TypeOK
<1>3. /\ DumpRec(k, queue[k], rec, free) /\ queue[k] \in Query
      /\ Pool(free, [queue EXCEPT ![k] = queue[k]]) /\ Blank(rec, free)
      /\ rec \in [RecId -> AllRecords \cup {Null}] /\ free \in Seq(RecId)
  BY EndsIs
<1>4. /\ queue' \in Seq(Query) /\ size' = Len(queue') /\ size' \in 0 .. MaxMsg + 1
      /\ free' \in Seq(RecId) /\ Pool(free', queue')
      /\ rec' \in [RecId -> AllRecords \cup {Null}] /\ Blank(rec', free')
      /\ toGb' \in Seq(QueryOut \cup ResultOut)
      /\ NoFault \/ \E f : Fault(f)
  BY <1>3, DumpIs
<1>5. QED BY <1>1, <1>2, <1>4, McKeeps

\* An answer whose records are added: the query stays, or it goes as it has
\* become.
LEMMA McAddsIs ==
    ASSUME Sound, NEW k \in 1 .. Len(queue), McAnswerAdds(k)
    PROVE  \/ /\ queue' = [queue EXCEPT ![k] = Grown(k)]
              /\ rec' = Content(k) /\ free' = Left(k) /\ NoFault /\ UNCHANGED <<size, toGb>>
           \/ DumpRec(k, Grown(k), Content(k), Left(k))
BY DEF McAnswerAdds, Grown, Content, Left

LEMMA McAddsSound ==
    ASSUME Sound, NEW k \in 1 .. Len(queue), McAnswerAdds(k)
    PROVE  Sound'
<1>1. /\ UNCHANGED <<asked, held, ctx, loop, toDev, fromDev, told>>
      /\ toMc # <<>> /\ toMc' = Tail(toMc) /\ Answer.type = "answer"
  BY DEF McAnswerAdds, McAnswers
<1>2. TypeOK /\ Messages /\ size = Len(queue)
  BY DEF Sound
<1>3. ctx' \in Ctx
  BY <1>1, <1>2 DEF TypeOK
<1>4. /\ Grown(k) \in Query /\ Content(k) \in [RecId -> AllRecords \cup {Null}]
      /\ Left(k) \in Seq(RecId)
      /\ Pool(Left(k), [queue EXCEPT ![k] = Grown(k)]) /\ Blank(Content(k), Left(k))
  BY <1>1, AddsIs
<1>5. CASE /\ queue' = [queue EXCEPT ![k] = Grown(k)]
           /\ rec' = Content(k) /\ free' = Left(k) /\ NoFault /\ UNCHANGED <<size, toGb>>
  <2>1. queue' \in Seq(Query) /\ Len(queue') = Len(queue)
    BY <1>2, <1>4, <1>5, ExceptSeq DEF Messages
  <2>2. size' = Len(queue') /\ size' \in 0 .. MaxMsg + 1 /\ toGb' \in Seq(QueryOut \cup ResultOut)
    BY <1>2, <1>5, <2>1 DEF TypeOK, Messages
  <2>3. Pool(free', queue') /\ Blank(rec', free')
    BY <1>4, <1>5
  <2>4. rec' \in [RecId -> AllRecords \cup {Null}] /\ free' \in Seq(RecId)
    BY <1>4, <1>5
  <2>5. NoFault \/ \E f : Fault(f)
    BY <1>5
  <2>6. QED BY <1>1, <1>3, <2>1, <2>2, <2>3, <2>4, <2>5, McKeeps
<1>6. CASE DumpRec(k, Grown(k), Content(k), Left(k))
  <2>1. /\ queue' \in Seq(Query) /\ size' = Len(queue') /\ size' \in 0 .. MaxMsg + 1
        /\ free' \in Seq(RecId) /\ Pool(free', queue')
        /\ rec' \in [RecId -> AllRecords \cup {Null}] /\ Blank(rec', free')
        /\ toGb' \in Seq(QueryOut \cup ResultOut)
        /\ NoFault \/ \E f : Fault(f)
    BY <1>4, <1>6, DumpIs
  <2>2. QED BY <1>1, <1>3, <2>1, McKeeps
<1>7. QED BY <1>5, <1>6, McAddsIs

LEMMA SoundNext == Sound /\ [Next]_vars => Sound'
<1> SUFFICES ASSUME Sound, [Next]_vars PROVE Sound'
  OBVIOUS
<1>1. CASE UNCHANGED vars
  BY <1>1 DEF vars, mc, Sound, TypeOK, Messages, Pool, Blank
<1>2. CASE \E i \in Item \cup {Other} : PlatformAsks(i)
  BY <1>2, PlatformAsksSound
<1>3. CASE GbServer
  BY <1>3, GbTakesSound, GbHandsSound DEF GbServer
<1>4. CASE MsgServerTask
  BY <1>4, McQuerySound, McPassesSound, McEndsSound, McAddsSound DEF MsgServerTask
<1>5. CASE \/ Device \/ Lose
           \/ \E i \in Item : DevGrows(i)
           \/ \E a \in fromDev : DevAnswersAsOther(a)
  BY <1>5, OutsideSound
<1>6. QED BY <1>1, <1>2, <1>3, <1>4, <1>5 DEF Next

LEMMA AlwaysSound == Spec => []Sound
BY SoundInit, SoundNext, PTL DEF Spec

\* Every variable keeps its type; in particular the queue never holds more
\* than MaxMsg + 1 queries, every query has a ctx of 32 bits and every message
\* to a device or a platform is one the code can build.
THEOREM RecQueryTypes == Spec => []TypeOK
<1>1. Sound => TypeOK
  BY DEF Sound
<1>2. QED BY <1>1, AlwaysSound, PTL

\* Each record item is once in the pool or once in the list of one query,
\* those in the pool are blank, and async_msg_size counts the queue, whatever
\* is lost, repeated, sent late or refused for want of record items
\* (add_rec_info, del_rec_info, get_one_node, giveback_one_node).
THEOREM RecordsAreConserved == Spec => []RecordsConserved
<1>1. ASSUME Sound PROVE RecordsConserved
  <2> DEFINE list(k) == IF k = 0 THEN free ELSE queue[k].list
             lists == 0 .. Len(queue)
  <2>1. queue \in Seq(Query) /\ free \in Seq(RecId) /\ Len(queue) \in Nat
    BY <1>1, LenProperties DEF Sound, TypeOK, Messages
  <2>2. \A k \in lists : list(k) \in Seq(RecId)
    BY <2>1, QueryType
  <2>3. size = Len(queue) /\ Pool(free, queue) /\ Blank(rec, free)
    BY <1>1 DEF Sound
  <2>4. \A r \in RecId : \E k \in lists : r \in Range(list(k))
    <3>1. TAKE r \in RecId
    <3>2. CASE r \in Range(free)
      <4>1. 0 \in lists /\ list(0) = free
        BY <2>1
      <4>2. QED BY <3>2, <4>1
    <3>3. CASE \E k \in 1 .. Len(queue) : r \in Range(queue[k].list)
      <4>1. PICK k \in 1 .. Len(queue) : r \in Range(queue[k].list)
        BY <3>3
      <4>2. k \in lists /\ list(k) = queue[k].list
        BY <2>1
      <4>3. QED BY <4>1, <4>2
    <3>4. QED BY <2>3, <3>2, <3>3 DEF Pool
  <2>5. \A j, k \in lists : j # k => Range(list(j)) \cap Range(list(k)) = {}
    <3>1. \A k \in lists : k # 0 => k \in 1 .. Len(queue) /\ list(k) = queue[k].list
      BY <2>1
    <3>2. list(0) = free
      OBVIOUS
    <3> HIDE DEF list, lists
    <3>3. QED BY <2>3, <3>1, <3>2 DEF Pool
  <2>6. \A k \in lists : NoRepeat(list(k))
    BY <2>1, <2>3 DEF Pool
  <2> HIDE DEF list
  <2>7. \A j, k \in lists : \A a \in 1 .. Len(list(j)), b \in 1 .. Len(list(k)) :
           list(j)[a] = list(k)[b] => j = k /\ a = b
    <3>1. TAKE j, k \in lists
    <3>2. TAKE a \in 1 .. Len(list(j)), b \in 1 .. Len(list(k))
    <3>3. HAVE list(j)[a] = list(k)[b]
    <3>4. list(j)[a] \in Range(list(j))
      BY <2>2, <3>1, <3>2, InRange
    <3>5. list(k)[b] \in Range(list(k))
      BY <2>2, <3>1, <3>2, InRange
    <3>6. j = k
      BY <2>5, <3>3, <3>4, <3>5
    <3>7. QED BY <2>6, <3>3, <3>6 DEF NoRepeat
  <2>8. QED BY <2>3, <2>4, <2>7 DEF RecordsConserved, list, Blank
<1>2. QED BY <1>1, AlwaysSound, PTL

-----------------------------------------------------------------------------
(* The numbers of the queries. *)

\* The platforms' queries on their way are in the order they were asked in ...
Ordered(as, ms) ==
    \A i \in 1 .. Len(ms) : ms[i].type = "query" =>
        /\ ms[i].sn \in 1 .. Len(as) /\ ms[i].item = as[ms[i].sn]
        /\ \A j \in 1 .. i - 1 : ms[j].type = "query" => ms[j].sn < ms[i].sn

\* ... those in the queue are for an item of the table, and all different ...
Waiting(as, qs) ==
    /\ \A j, k \in 1 .. Len(qs) : j # k => qs[j].ctx # qs[k].ctx /\ qs[j].sn # qs[k].sn
    /\ \A k \in 1 .. Len(qs) : qs[k].sn \in 1 .. Len(as) /\ as[qs[k].sn] \in Item

\* ... and older than the ones that are not there yet.
Newer(ms, qs) ==
    \A i \in 1 .. Len(ms) : ms[i].type = "query" =>
        \A k \in 1 .. Len(qs) : qs[k].sn < ms[i].sn

Numbers ==
    /\ Ordered(asked, toMc)
    /\ Waiting(asked, queue)
    /\ Newer(toMc, queue)

\* The second invariant.
Numbered == Sound /\ Numbers

\* A message of the GB server behind the others.
LEMMA HandOverKeeps ==
    ASSUME NEW S, NEW ms \in Seq(S), NEW m \in S, m.type = "answer",
           NEW as, NEW qs, Ordered(as, ms), Newer(ms, qs)
    PROVE  Ordered(as, Append(ms, m)) /\ Newer(Append(ms, m), qs)
<1> DEFINE t == Append(ms, m)
<1>1. /\ Len(ms) \in Nat /\ Len(t) = Len(ms) + 1 /\ t[Len(ms) + 1] = m
      /\ \A i \in 1 .. Len(ms) : t[i] = ms[i]
  BY AppendRange
<1> HIDE DEF t
<1>2. \A i \in 1 .. Len(t) : t[i].type = "query" => i \in 1 .. Len(ms) /\ t[i] = ms[i]
  BY <1>1
<1>3. Ordered(as, t)
  <2>1. SUFFICES ASSUME NEW i \in 1 .. Len(t), t[i].type = "query"
                 PROVE  /\ t[i].sn \in 1 .. Len(as) /\ t[i].item = as[t[i].sn]
                        /\ \A j \in 1 .. i - 1 : t[j].type = "query" => t[j].sn < t[i].sn
    BY DEF Ordered
  <2>2. i \in 1 .. Len(ms) /\ t[i] = ms[i]
    BY <1>2, <2>1
  <2>3. \A j \in 1 .. i - 1 : t[j] = ms[j]
    BY <1>1, <2>2
  <2>4. QED BY <2>1, <2>2, <2>3 DEF Ordered
<1>4. Newer(t, qs)
  BY <1>2 DEF Newer
<1>5. QED BY <1>3, <1>4 DEF t

\* The first message is taken.
LEMMA TakingKeeps ==
    ASSUME NEW S, NEW ms \in Seq(S), ms # <<>>,
           NEW as, NEW qs, Ordered(as, ms), Newer(ms, qs)
    PROVE  Ordered(as, Tail(ms)) /\ Newer(Tail(ms), qs)
<1> DEFINE t == Tail(ms)
<1>1. /\ Len(ms) \in Nat /\ Len(t) = Len(ms) - 1
      /\ \A i \in 1 .. Len(ms) - 1 : t[i] = ms[i + 1]
  BY TailRange
<1> HIDE DEF t
<1>2. \A i \in 1 .. Len(t) : i + 1 \in 1 .. Len(ms) /\ t[i] = ms[i + 1]
  BY <1>1
<1>3. Ordered(as, t)
  <2>1. SUFFICES ASSUME NEW i \in 1 .. Len(t), t[i].type = "query"
                 PROVE  /\ t[i].sn \in 1 .. Len(as) /\ t[i].item = as[t[i].sn]
                        /\ \A j \in 1 .. i - 1 : t[j].type = "query" => t[j].sn < t[i].sn
    BY DEF Ordered
  <2>2. i + 1 \in 1 .. Len(ms) /\ t[i] = ms[i + 1]
    BY <1>2
  <2>3. \A j \in 1 .. i - 1 : j + 1 \in 1 .. (i + 1) - 1 /\ t[j] = ms[j + 1]
    BY <1>1, <1>2
  <2>4. QED BY <2>1, <2>2, <2>3 DEF Ordered
<1>4. Newer(t, qs)
  BY <1>2 DEF Newer
<1>5. QED BY <1>3, <1>4 DEF t

\* A query leaves the queue.
LEMMA FewerKeeps ==
    ASSUME NEW as, NEW ms, NEW qs \in Seq(Query), Waiting(as, qs), Newer(ms, qs),
           NEW k \in 1 .. Len(qs)
    PROVE  Waiting(as, RemoveAt(qs, k)) /\ Newer(ms, RemoveAt(qs, k))
<1> DEFINE qq == RemoveAt(qs, k)
<1>1. /\ Len(qq) = Len(qs) - 1
      /\ \A j \in 1 .. Len(qs) - 1 : /\ Skip(k, j) \in 1 .. Len(qs)
                                     /\ qq[j] = qs[Skip(k, j)]
      /\ \A i, j \in 1 .. Len(qs) - 1 : Skip(k, i) = Skip(k, j) => i = j
  BY Remaining
<1> HIDE DEF qq
<1>2. ASSUME NEW i \in 1 .. Len(qq), NEW j \in 1 .. Len(qq), i # j
      PROVE  qq[i].ctx # qq[j].ctx /\ qq[i].sn # qq[j].sn
  <2>1. /\ Skip(k, i) \in 1 .. Len(qs) /\ qq[i] = qs[Skip(k, i)]
        /\ Skip(k, j) \in 1 .. Len(qs) /\ qq[j] = qs[Skip(k, j)]
    BY <1>1
  <2>2. Skip(k, i) # Skip(k, j)
    BY <1>1, <1>2
  <2>3. QED BY <2>1, <2>2 DEF Waiting
<1>3. \A j \in 1 .. Len(qq) : qq[j].sn \in 1 .. Len(as) /\ as[qq[j].sn] \in Item
  BY <1>1 DEF Waiting
<1>4. Newer(ms, qq)
  BY <1>1 DEF Newer
<1>5. Waiting(as, qq)
  BY <1>2, <1>3 DEF Waiting
<1>6. QED BY <1>4, <1>5 DEF qq

LEMMA NumbersInit == Init => Numbers
BY DEF Init, Numbers, Ordered, Waiting, Newer

\* The GB server, the devices and the network.
LEMMA OutsideNumbers ==
    ASSUME Numbered, asked' = asked, queue' = queue,
           \/ toMc' = toMc
           \/ \E m \in AnswerIn : toMc' = Append(toMc, m)
    PROVE  Numbers'
<1>1. CASE toMc' = toMc
  BY <1>1 DEF Numbered, Numbers, Ordered, Waiting, Newer
<1>2. CASE \E m \in AnswerIn : toMc' = Append(toMc, m)
  <2>1. PICK m \in AnswerIn : toMc' = Append(toMc, m)
    BY <1>2
  <2>2. m.type = "answer" /\ m \in QueryIn \cup AnswerIn /\ toMc \in Seq(QueryIn \cup AnswerIn)
    BY DEF AnswerIn, Numbered, Sound, Messages
  <2>3. Ordered(asked, toMc') /\ Newer(toMc', queue)
    BY <2>1, <2>2, HandOverKeeps DEF Numbered, Numbers
  <2>4. QED BY <2>3 DEF Numbered, Numbers
<1>3. QED BY <1>1, <1>2

\* A platform's query is the newest.
LEMMA PlatformAsksNumbers ==
    ASSUME Numbered, NEW i \in Item \cup {Other}, PlatformAsks(i)
    PROVE  Numbers'
<1> DEFINE m == [type |-> "query", sn |-> Len(asked) + 1, item |-> i]
           t == Append(toMc, m)
           as == Append(asked, i)
<1>1. /\ asked \in Seq(AnyItem) /\ i \in AnyItem /\ Len(asked) < MaxQuery
      /\ toMc \in Seq(QueryIn \cup AnswerIn) /\ queue \in Seq(Query)
      /\ Ordered(asked, toMc) /\ Waiting(asked, queue) /\ Newer(toMc, queue)
  BY DEF Numbered, Numbers, Sound, TypeOK, Messages, PlatformAsks, AnyItem
<1>2. /\ Len(asked) \in Nat /\ Len(as) = Len(asked) + 1 /\ as[Len(asked) + 1] = i
      /\ \A n \in 1 .. Len(asked) : as[n] = asked[n]
  BY <1>1, AppendRange
<1>3. m.type = "query" /\ m.sn = Len(asked) + 1 /\ m.item = i /\ m \in QueryIn
  BY <1>1, <1>2, BoundAssumption DEF QueryIn, Sn
<1>4. asked' = as /\ (toMc' = t \/ toMc' = toMc) /\ queue' = queue
  BY DEF PlatformAsks, mc
<1> HIDE DEF m, as
<1>5. \A n \in 1 .. Len(asked) : n \in 1 .. Len(as) /\ n < Len(asked) + 1
  BY <1>2
<1>6. Waiting(as, queue)
  BY <1>1, <1>2, <1>5 DEF Waiting
<1>7. Ordered(as, toMc)
  BY <1>1, <1>2, <1>5 DEF Ordered
<1>8. /\ Len(toMc) \in Nat /\ Len(t) = Len(toMc) + 1 /\ t[Len(toMc) + 1] = m
      /\ \A n \in 1 .. Len(toMc) : t[n] = toMc[n]
  BY <1>1, <1>3, AppendRange
<1> HIDE DEF t
<1>9. \A n \in 1 .. Len(t) : \/ n \in 1 .. Len(toMc) /\ t[n] = toMc[n]
                             \/ n = Len(toMc) + 1 /\ t[n] = m
  BY <1>8
<1>10. Ordered(as, t)
  <2>1. SUFFICES ASSUME NEW n \in 1 .. Len(t), t[n].type = "query"
                 PROVE  /\ t[n].sn \in 1 .. Len(as) /\ t[n].item = as[t[n].sn]
                        /\ \A j \in 1 .. n - 1 : t[j].type = "query" => t[j].sn < t[n].sn
    BY DEF Ordered
  <2>2. \A j \in 1 .. n - 1 : j \in 1 .. Len(toMc) /\ t[j] = toMc[j]
    BY <1>8
  <2>3. CASE n \in 1 .. Len(toMc) /\ t[n] = toMc[n]
    BY <1>7, <2>1, <2>2, <2>3 DEF Ordered
  <2>4. CASE n = Len(toMc) + 1 /\ t[n] = m
    <3>1. \A j \in 1 .. n - 1 : t[j].type = "query" => t[j].sn \in 1 .. Len(asked)
      BY <1>1, <2>2 DEF Ordered
    <3>2. Len(asked) + 1 \in 1 .. Len(as)
      BY <1>2
    <3>3. QED BY <1>2, <1>3, <1>5, <2>4, <3>1, <3>2
  <2>5. QED BY <1>9, <2>3, <2>4
<1>11. Newer(t, queue)
  <2>1. SUFFICES ASSUME NEW n \in 1 .. Len(t), t[n].type = "query",
                        NEW k \in 1 .. Len(queue)
                 PROVE  queue[k].sn < t[n].sn
    BY DEF Newer
  <2>2. queue[k].sn \in 1 .. Len(asked)
    BY <1>1 DEF Waiting
  <2>3. QED BY <1>1, <1>3, <1>5, <1>9, <2>1, <2>2 DEF Newer
<1>12. QED BY <1>1, <1>4, <1>6, <1>7, <1>10, <1>11 DEF Numbers

\* A query leaves the queue, and its message the socket.
LEMMA GoingKeeps ==
    ASSUME Numbered, toMc # <<>>, toMc' = Tail(toMc), asked' = asked,
           NEW k \in 1 .. Len(queue), queue' = RemoveAt(queue, k)
    PROVE  Numbers'
<1>1. /\ toMc \in Seq(QueryIn \cup AnswerIn) /\ queue \in Seq(Query)
      /\ Ordered(asked, toMc) /\ Waiting(asked, queue) /\ Newer(toMc, queue)
  BY DEF Numbered, Numbers, Sound, Messages
<1>2. Ordered(asked, toMc') /\ Newer(toMc', queue)
  BY <1>1, TakingKeeps
<1>3. Newer(toMc', queue) /\ Waiting(asked, queue) /\ queue \in Seq(Query)
  BY <1>1, <1>2
<1>4. Waiting(asked, queue') /\ Newer(toMc', queue')
  <2> DEFINE qs == queue
             ms == toMc'
  <2>1. qs \in Seq(Query) /\ Waiting(asked, qs) /\ Newer(ms, qs) /\ k \in 1 .. Len(qs)
    BY <1>3
  <2> HIDE DEF qs, ms
  <2>2. Waiting(asked, RemoveAt(qs, k)) /\ Newer(ms, RemoveAt(qs, k))
    BY <2>1, FewerKeeps
  <2>3. QED BY <2>2 DEF qs, ms
<1>5. QED BY <1>2, <1>4 DEF Numbers

\* A message is taken; the queries stay, with their numbers.
LEMMA StayingKeeps ==
    ASSUME Numbered, toMc # <<>>, toMc' = Tail(toMc), asked' = asked,
           Len(queue') = Len(queue),
           \A j \in 1 .. Len(queue) : queue'[j].ctx = queue[j].ctx /\ queue'[j].sn = queue[j].sn
    PROVE  Numbers'
<1>1. /\ toMc \in Seq(QueryIn \cup AnswerIn)
      /\ Ordered(asked, toMc) /\ Waiting(asked, queue) /\ Newer(toMc, queue)
  BY DEF Numbered, Numbers, Sound, Messages
<1>2. Ordered(asked, toMc') /\ Newer(toMc', queue)
  BY <1>1, TakingKeeps
<1>3. Waiting(asked, queue')
  BY <1>1 DEF Waiting
<1>4. Newer(toMc', queue')
  BY <1>2 DEF Newer
<1>5. QED BY <1>2, <1>3, <1>4 DEF Numbers

\* add_rec_info either keeps the k-th query or ends it.
LEMMA McAnswerNumbers ==
    ASSUME Numbered, NEW k \in 1 .. Len(queue), McAnswerEnds(k) \/ McAnswerAdds(k)
    PROVE  Numbers'
<1>1. toMc # <<>> /\ toMc' = Tail(toMc) /\ asked' = asked /\ Answer.type = "answer"
  BY DEF McAnswerEnds, McAnswerAdds, McAnswers
<1>2. CASE queue' = RemoveAt(queue, k)
  BY <1>1, <1>2, GoingKeeps
<1>3. CASE McAnswerAdds(k) /\ queue' = [queue EXCEPT ![k] = Grown(k)]
  <2>1. Sound /\ queue \in Seq(Query)
    BY DEF Numbered, Sound, Messages
  <2>2. Grown(k) \in Query /\ Grown(k).ctx = queue[k].ctx /\ Grown(k).sn = queue[k].sn
    BY <1>1, <2>1, AddsIs
  <2>3. /\ Len(queue') = Len(queue) /\ queue'[k] = Grown(k)
        /\ \A j \in 1 .. Len(queue) : j # k => queue'[j] = queue[j]
    BY <1>3, <2>1, <2>2, ExceptSeq
  <2>4. \A j \in 1 .. Len(queue) : queue'[j].ctx = queue[j].ctx /\ queue'[j].sn = queue[j].sn
    BY <2>2, <2>3
  <2>5. QED BY <1>1, <2>3, <2>4, StayingKeeps
<1>4. Sound
  BY DEF Numbered
<1>5. McAnswerAdds(k) => \/ queue' = [queue EXCEPT ![k] = Grown(k)]
                         \/ queue' = RemoveAt(queue, k)
  BY <1>4, McAddsIs DEF DumpRec, DelRecInfo
<1>6. McAnswerEnds(k) => queue' = RemoveAt(queue, k)
  BY DEF McAnswerEnds, DumpRec, DelRecInfo
<1>7. QED BY <1>2, <1>3, <1>5, <1>6

\* query_record_info: a new ctx, and a newer number than those in the queue.
LEMMA McQueryNumbers ==
    ASSUME Numbered, McQuery
    PROVE  Numbers'
<1>1. /\ Sound /\ toMc \in Seq(QueryIn \cup AnswerIn) /\ queue \in Seq(Query)
      /\ Ordered(asked, toMc) /\ Waiting(asked, queue) /\ Newer(toMc, queue)
      /\ free \in Seq(RecId) /\ Pool(free, queue)
  BY DEF Numbered, Numbers, Sound, Messages, TypeOK
<1>2. /\ Entering \in Query /\ Entering.list = <<>> /\ Entering.ctx \notin InUse
      /\ queue' = <<Entering>> \o queue
      /\ toMc # <<>> /\ toMc' = Tail(toMc) /\ asked' = asked
  BY <1>1, EntersIs DEF McQuery
<1>3. /\ Len(queue') = Len(queue) + 1 /\ queue'[1] = Entering
      /\ \A j \in 1 .. Len(queue) : queue'[j + 1] = queue[j]
      /\ \A j \in 1 .. Len(queue) + 1 : j = 1 \/ j - 1 \in 1 .. Len(queue)
  <2>1. Entering \in Query /\ Entering.list = <<>>
    BY <1>2
  <2>2. QED BY <1>1, <1>2, <2>1, EnterKeeps
<1>4. /\ Head(toMc) = toMc[1] /\ Len(toMc) \in Nat \ {0}
      /\ Len(toMc') = Len(toMc) - 1
      /\ \A i \in 1 .. Len(toMc) - 1 : toMc'[i] = toMc[i + 1]
  BY <1>1, <1>2, TailRange
<1>5. 1 \in 1 .. Len(toMc) /\ toMc[1].type = "query" /\ Entering.sn = toMc[1].sn
  BY <1>4 DEF McQuery, Entering
<1>6. Entering.sn \in 1 .. Len(asked) /\ asked[Entering.sn] \in Item
  BY <1>1, <1>4, <1>5 DEF Ordered, McQuery
<1>7. \A k \in 1 .. Len(queue) : queue[k].sn < Entering.sn /\ queue[k].ctx # Entering.ctx
  <2>1. \A k \in 1 .. Len(queue) : queue[k].sn < toMc[1].sn
    BY <1>1, <1>5 DEF Newer
  <2>2. QED BY <1>2, <1>5, <2>1 DEF InUse
<1>8. \A k \in 1 .. Len(queue) : queue[k].sn \in Nat /\ queue[k].sn # Entering.sn
  <2>1. \A k \in 1 .. Len(queue) : queue[k].sn \in 1 .. Len(asked)
    BY <1>1 DEF Waiting
  <2>2. QED BY <1>6, <1>7, <2>1
<1>9. \A j \in 1 .. Len(queue') : \/ j = 1 /\ queue'[j] = Entering
                                  \/ j - 1 \in 1 .. Len(queue) /\ queue'[j] = queue[j - 1]
  <2>1. TAKE j \in 1 .. Len(queue')
  <2>2. \/ j = 1
        \/ j - 1 \in 1 .. Len(queue) /\ queue'[(j - 1) + 1] = queue[j - 1] /\ (j - 1) + 1 = j
    BY <1>3
  <2>3. QED BY <1>3, <2>2
<1>10. Waiting(asked, queue')
  <2>1. ASSUME NEW i \in 1 .. Len(queue'), NEW j \in 1 .. Len(queue'), i # j
        PROVE  queue'[i].ctx # queue'[j].ctx /\ queue'[i].sn # queue'[j].sn
    <3>1. CASE i = 1 /\ queue'[i] = Entering
      BY <1>7, <1>8, <1>9, <2>1, <3>1
    <3>2. CASE j = 1 /\ queue'[j] = Entering
      BY <1>7, <1>8, <1>9, <2>1, <3>2
    <3>3. CASE /\ i - 1 \in 1 .. Len(queue) /\ queue'[i] = queue[i - 1]
               /\ j - 1 \in 1 .. Len(queue) /\ queue'[j] = queue[j - 1]
      <4>1. i - 1 # j - 1
        BY <2>1
      <4>2. QED BY <1>1, <3>3, <4>1 DEF Waiting
    <3>4. QED BY <1>9, <3>1, <3>2, <3>3
  <2>2. \A k \in 1 .. Len(queue') : queue'[k].sn \in 1 .. Len(asked) /\ asked[queue'[k].sn] \in Item
    BY <1>1, <1>6, <1>9 DEF Waiting
  <2>3. QED BY <2>1, <2>2 DEF Waiting
<1>11. Ordered(asked, toMc') /\ Newer(toMc', queue)
  BY <1>1, <1>2, TakingKeeps
<1>12. Newer(toMc', queue')
  <2>1. SUFFICES ASSUME NEW i \in 1 .. Len(toMc'), toMc'[i].type = "query",
                        NEW k \in 1 .. Len(queue')
                 PROVE  queue'[k].sn < toMc'[i].sn
    BY DEF Newer
  <2>2. i + 1 \in 1 .. Len(toMc) /\ toMc'[i] = toMc[i + 1] /\ 1 \in 1 .. (i + 1) - 1
    BY <1>4
  <2>3. Entering.sn < toMc'[i].sn
    <3>1. toMc[i + 1].type = "query"
      BY <2>1, <2>2
    <3>2. toMc[1].sn < toMc[i + 1].sn
      BY <1>1, <1>5, <2>2, <3>1 DEF Ordered
    <3>3. QED BY <1>5, <2>2, <3>2
  <2>4. QED BY <1>9, <1>11, <2>1, <2>3 DEF Newer
<1>13. QED BY <1>2, <1>10, <1>11, <1>12 DEF Numbers

\* What a step of the GB server or the world outside does to the queue and
\* what is before it.
LEMMA OutsideIs ==
    ASSUME Sound, GbServer \/ Device \/ Lose
                  \/ (\E i \in Item : DevGrows(i)) \/ (\E a \in fromDev : DevAnswersAsOther(a))
    PROVE  /\ asked' = asked /\ UNCHANGED mc
           /\ toMc' = toMc \/ \E m \in AnswerIn : toMc' = Append(toMc, m)
<1>1. asked' = asked /\ UNCHANGED mc
  BY DEF GbServer, GbQuery, GbResult, GbFullBatch, GbLastBatch, GbAnswer, Device, DevAnswer,
         Lose, DevGrows, DevAnswersAsOther
<1>2. ASSUME loop # Null, NEW n \in 0 .. Len(loop.list)
      PROVE  \E m \in AnswerIn : HandOver(n) = Append(toMc, m)
  <2>1. loop \in AnswerMsg
    BY <1>2 DEF Sound, Messages
  <2>2. loop.list \in Seq(AllRecords) /\ loop.ctx \in Ctx /\ loop.dev \in AnyItem /\ loop.sum \in Nat
    BY <2>1 DEF AnswerMsg
  <2>3. SubSeq(loop.list, 1, n) \in Seq(AllRecords)
    BY <2>2, FirstIs
  <2>4. [type |-> "answer", ctx |-> loop.ctx, dev |-> loop.dev, sum |-> loop.sum,
         list |-> SubSeq(loop.list, 1, n)] \in AnswerIn
    BY <2>2, <2>3 DEF AnswerIn
  <2>5. QED BY <2>4 DEF HandOver
<1>3. loop # Null => Len(loop.list) \in Nat
  BY LenProperties DEF Sound, Messages, AnswerMsg
<1>4. toMc' = toMc \/ \E m \in AnswerIn : toMc' = Append(toMc, m)
  <2>1. CASE GbFullBatch
    <3>1. loop # Null /\ GbBatch \in 0 .. Len(loop.list)
      BY <1>3, <2>1, BatchAssumption DEF GbFullBatch
    <3>2. QED BY <1>2, <2>1, <3>1 DEF GbFullBatch
  <2>2. CASE GbLastBatch
    <3>1. loop # Null /\ Len(loop.list) \in 0 .. Len(loop.list)
      BY <1>3, <2>2 DEF GbLastBatch
    <3>2. QED BY <1>2, <2>2, <3>1 DEF GbLastBatch
  <2>3. CASE ~GbFullBatch /\ ~GbLastBatch
    BY <2>3 DEF GbServer, GbQuery, GbResult, GbAnswer, Device, DevAnswer,
                Lose, DevGrows, DevAnswersAsOther
  <2>4. QED BY <2>1, <2>2, <2>3
<1>5. QED BY <1>1, <1>4

LEMMA NumberedNext == Numbered /\ [Next]_vars => Numbered'
<1> SUFFICES ASSUME Numbered, [Next]_vars PROVE Numbered'
  OBVIOUS
<1>1. Sound'
  BY SoundNext DEF Numbered
<1>2. CASE UNCHANGED vars
  BY <1>1, <1>2, OutsideNumbers DEF vars, mc, Numbered
<1>3. CASE \E i \in Item \cup {Other} : PlatformAsks(i)
  BY <1>1, <1>3, PlatformAsksNumbers DEF Numbered
<1>4. CASE GbServer \/ Device \/ Lose
           \/ (\E i \in Item : DevGrows(i)) \/ (\E a \in fromDev : DevAnswersAsOther(a))
  <2>1. asked' = asked /\ queue' = queue /\ (toMc' = toMc \/ \E m \in AnswerIn : toMc' = Append(toMc, m))
    BY <1>4, OutsideIs DEF Numbered, mc
  <2>2. QED BY <1>1, <2>1, OutsideNumbers DEF Numbered
<1>5. CASE MsgServerTask
  <2>1. CASE McQueryRefused \/ McAnswerUnknown
    <3>1. toMc # <<>> /\ toMc' = Tail(toMc) /\ asked' = asked /\ queue' = queue
      BY <2>1 DEF McQueryRefused, McAnswerUnknown, McAnswers, mc
    <3>2. QED BY <1>1, <3>1, StayingKeeps DEF Numbered
  <2>2. QED BY <1>1, <1>5, <2>1, McQueryNumbers, McAnswerNumbers DEF MsgServerTask, Numbered
<1>6. QED BY <1>1, <1>2, <1>3, <1>4, <1>5 DEF Next, Numbered

LEMMA AlwaysNumbered == Spec => []Numbered
<1>1. Init => Numbered
  BY SoundInit, NumbersInit DEF Numbered
<1>2. QED BY <1>1, NumberedNext, PTL DEF Spec

\* An answer belongs to one query only, even after async_msg_ctx has gone
\* round while queries without an answer are still queued, and no two queries
\* of the queue answer the same platform query (get_async_msg_ctx,
\* query_record_info).
THEOREM QueriesAreDistinct == Spec => []QueriesDistinct
<1>1. Numbered => QueriesDistinct
  BY DEF Numbered, Numbers, Waiting, QueriesDistinct
<1>2. QED BY <1>1, AlwaysNumbered, PTL

-----------------------------------------------------------------------------
(* What the platforms are told, until async_msg_ctx has gone round. *)

Of(as, sn) == Range(Records[as[sn]])

\* Record x may be, or become, part of an answer with ctx c.
Underway(c, x) ==
    \/ \E q \in toDev : q.ctx = c /\ x \in Range(Records[q.item])
    \/ \E m \in Range(toGb) : m.type = "query" /\ m.ctx = c /\ x \in Range(Records[m.item])
    \/ \E a \in fromDev : a.ctx = c /\ x \in Range(a.list)
    \/ loop # Null /\ loop.ctx = c /\ x \in Range(loop.list)
    \/ \E m \in Range(toMc) : m.type = "answer" /\ m.ctx = c /\ x \in Range(m.list)

\* Record x has been sent to the platform that asked the query sn.
Reported(sn, x) ==
    \/ \E m \in Range(toGb) : m.type = "result" /\ m.sn = sn /\ x \in Range(m.list)
    \/ \E b \in Range(told[sn]) : x \in Range(b)

\* Every query has used one value of ctx, in the order of the queries.
Behind ==
    /\ ctx <= Len(asked)
    /\ \A i \in 1 .. Len(toMc) : toMc[i].type = "query" => ctx < toMc[i].sn
    /\ \A k \in 1 .. Len(queue) : queue[k].ctx <= ctx

Answers ==
    \A c \in Ctx : \A x : Underway(c, x) =>
        /\ c <= ctx
        /\ \A k \in 1 .. Len(queue) : queue[k].ctx = c => x \in Of(asked, queue[k].sn)

Lists ==
    \A k \in 1 .. Len(queue) : \A r \in Range(queue[k].list) : rec[r] \in Of(asked, queue[k].sn)

Reports ==
    \A sn \in Sn : \A x : Reported(sn, x) =>
        sn \in 1 .. Len(asked) /\ asked[sn] \in Item /\ x \in Of(asked, sn)

Truth == Behind /\ Answers /\ Lists /\ Reports

\* The third invariant.
Truthful == Numbered /\ (Len(asked) < Limit => Truth)

LEMMA TruthInit == Init => Truth
<1> SUFFICES ASSUME Init PROVE Truth
  OBVIOUS
<1>1. /\ asked = <<>> /\ queue = <<>> /\ toMc = <<>> /\ toGb = <<>> /\ ctx = 0
      /\ toDev = {} /\ fromDev = {} /\ loop = Null /\ told = [sn \in Sn |-> <<>>]
  BY DEF Init
<1>2. Range(<<>>) = {}
  BY DEF Range
<1>3. Behind /\ Lists
  BY <1>1 DEF Behind, Lists
<1>4. Answers
  BY <1>1, <1>2 DEF Answers, Underway
<1>5. Reports
  BY <1>1, <1>2 DEF Reports, Reported
<1>6. QED BY <1>3, <1>4, <1>5 DEF Truth

\* The GB server, the devices and the network only pass things on.
LEMMA PassingOn ==
    ASSUME Numbered, Truth, asked' = asked, UNCHANGED mc,
           toMc' = toMc \/ \E m \in AnswerIn : toMc' = Append(toMc, m),
           \A c, x : Underway(c, x)' => Underway(c, x),
           \A sn \in Sn : \A x : Reported(sn, x)' => Reported(sn, x)
    PROVE  Truth'
<1>1. queue' = queue /\ ctx' = ctx /\ rec' = rec
  BY DEF mc
<1>2. \A i \in 1 .. Len(toMc') : toMc'[i].type = "query" => ctx < toMc'[i].sn
  <2>1. CASE toMc' = toMc
    BY <2>1 DEF Truth, Behind
  <2>2. CASE \E m \in AnswerIn : toMc' = Append(toMc, m)
    <3>1. PICK m \in AnswerIn : toMc' = Append(toMc, m)
      BY <2>2
    <3>2. m.type = "answer" /\ m \in QueryIn \cup AnswerIn /\ toMc \in Seq(QueryIn \cup AnswerIn)
      BY DEF AnswerIn, Numbered, Sound, Messages
    <3> DEFINE t == Append(toMc, m)
    <3>3. /\ Len(t) = Len(toMc) + 1 /\ Len(toMc) \in Nat /\ t[Len(toMc) + 1] = m
          /\ \A i \in 1 .. Len(toMc) : t[i] = toMc[i]
      BY <3>2, AppendRange
    <3> HIDE DEF t
    <3>4. \A i \in 1 .. Len(t) : t[i].type = "query" => i \in 1 .. Len(toMc) /\ t[i] = toMc[i]
      BY <3>2, <3>3
    <3>5. \A i \in 1 .. Len(t) : t[i].type = "query" => ctx < t[i].sn
      BY <3>4 DEF Truth, Behind
    <3>6. QED BY <3>1, <3>5 DEF t
  <2>3. QED BY <2>1, <2>2
<1>3. Behind'
  BY <1>1, <1>2 DEF Truth, Behind
<1>4. Answers'
  <2>1. SUFFICES ASSUME NEW c \in Ctx, NEW x, Underway(c, x)'
                 PROVE  /\ c <= ctx'
                        /\ \A k \in 1 .. Len(queue') : queue'[k].ctx = c => x \in Of(asked', queue'[k].sn)
    BY DEF Answers
  <2>2. Underway(c, x)
    BY <2>1
  <2>3. QED BY <1>1, <2>2 DEF Truth, Answers, Of
<1>5. Lists'
  BY <1>1 DEF Truth, Lists, Of
<1>6. Reports'
  <2>1. SUFFICES ASSUME NEW sn \in Sn, NEW x, Reported(sn, x)'
                 PROVE  sn \in 1 .. Len(asked') /\ asked'[sn] \in Item /\ x \in Of(asked', sn)
    BY DEF Reports
  <2>2. Reported(sn, x)
    BY <2>1
  <2>3. QED BY <2>2 DEF Truth, Reports, Of
<1>7. QED BY <1>3, <1>4, <1>5, <1>6 DEF Truth

\* deal_inter_msg passes on a query, or a result.
LEMMA GbTakesOn ==
    ASSUME Numbered, GbQuery \/ GbResult
    PROVE  /\ \A c, x : Underway(c, x)' => Underway(c, x)
           /\ \A sn \in Sn : \A x : Reported(sn, x)' => Reported(sn, x)
<1>1. TypeOK /\ Messages
  BY DEF Numbered, Sound
<1>2. /\ toGb \in Seq(QueryOut \cup ResultOut) /\ toGb # <<>> /\ toGb' = Tail(toGb)
      /\ UNCHANGED <<loop, toMc, fromDev>>
  BY <1>1 DEF GbQuery, GbResult, Messages
<1>3. /\ Head(toGb) \in QueryOut \cup ResultOut /\ Head(toGb) \in Range(toGb)
      /\ Range(toGb') \subseteq Range(toGb)
  BY <1>2, TailRange
<1> DEFINE h == Head(toGb)
<1>4. CASE GbQuery
  <2>1. toDev' = toDev \cup {[ctx |-> h.ctx, item |-> h.item]} /\ h.type = "query" /\ told' = told
    BY <1>4 DEF GbQuery
  <2> HIDE DEF h
  <2>2. \A q \in toDev' : q \in toDev \/ (q.ctx = h.ctx /\ q.item = h.item)
    BY <2>1
  <2>3. h \in Range(toGb)
    BY <1>3 DEF h
  <2>4. ASSUME NEW c, NEW x, Underway(c, x)' PROVE Underway(c, x)
    <3>1. CASE \E q \in toDev' : q.ctx = c /\ x \in Range(Records[q.item])
      BY <2>1, <2>2, <2>3, <3>1 DEF Underway
    <3>2. CASE ~\E q \in toDev' : q.ctx = c /\ x \in Range(Records[q.item])
      BY <1>2, <1>3, <2>4, <3>2 DEF Underway
    <3>3. QED BY <3>1, <3>2
  <2>5. \A sn \in Sn : \A x : Reported(sn, x)' => Reported(sn, x)
    BY <1>3, <2>1 DEF Reported
  <2>6. QED BY <2>4, <2>5
<1>5. CASE GbResult
  <2>1. h.type = "result" /\ told' = [told EXCEPT ![h.sn] = Append(@, h.list)] /\ toDev' = toDev
    BY <1>5 DEF GbResult
  <2>2. h \in ResultOut /\ h \in Range(toGb)
    BY <1>3, <2>1, Kinds
  <2> HIDE DEF h
  <2>3. h.sn \in Sn /\ h.list \in Seq(AllRecords) /\ told \in [Sn -> Seq(Seq(AllRecords))]
    BY <1>1, <2>2 DEF ResultOut, Messages
  <2>4. ASSUME NEW sn \in Sn, NEW b \in Range(told'[sn])
        PROVE  b \in Range(told[sn]) \/ (sn = h.sn /\ b = h.list)
    <3>1. CASE sn = h.sn
      <4>1. told'[sn] = Append(told[sn], h.list) /\ told[sn] \in Seq(Seq(AllRecords))
        BY <2>1, <2>3, <3>1
      <4>2. Range(Append(told[sn], h.list)) = Range(told[sn]) \cup {h.list}
        BY <2>3, <4>1, AppendRange
      <4>3. QED BY <3>1, <4>1, <4>2
    <3>2. CASE sn # h.sn
      BY <2>1, <2>3, <3>2
    <3>3. QED BY <3>1, <3>2
  <2>5. ASSUME NEW sn \in Sn, NEW x, Reported(sn, x)' PROVE Reported(sn, x)
    BY <1>3, <2>1, <2>2, <2>4, <2>5 DEF Reported
  <2>6. \A c, x : Underway(c, x)' => Underway(c, x)
    BY <1>2, <1>3, <2>1 DEF Underway
  <2>7. QED BY <2>5, <2>6
<1>6. QED BY <1>4, <1>5

\* add_recordinfo_query_result hands over parts of the answer it has.
LEMMA GbHandsOn ==
    ASSUME Numbered, GbFullBatch \/ GbLastBatch \/ \E a \in fromDev : GbAnswer(a)
    PROVE  /\ \A c, x : Underway(c, x)' => Underway(c, x)
           /\ \A sn \in Sn : \A x : Reported(sn, x)' => Reported(sn, x)
<1>1. TypeOK /\ Messages
  BY DEF Numbered, Sound
<1>2. toGb' = toGb /\ toDev' = toDev /\ told' = told
  BY DEF GbFullBatch, GbLastBatch, GbAnswer
<1>3. \A sn \in Sn : \A x : Reported(sn, x)' => Reported(sn, x)
  BY <1>2 DEF Reported
<1>4. CASE \E a \in fromDev : GbAnswer(a)
  <2>1. PICK a \in fromDev : GbAnswer(a)
    BY <1>4
  <2>2. fromDev' \subseteq fromDev /\ loop' = a /\ toMc' = toMc
    BY <2>1 DEF GbAnswer
  <2>3. ASSUME NEW c, NEW x, Underway(c, x)' PROVE Underway(c, x)
    <3>1. CASE a.ctx = c /\ x \in Range(a.list)
      BY <3>1 DEF Underway
    <3>2. CASE ~(a.ctx = c /\ x \in Range(a.list))
      BY <1>2, <2>2, <2>3, <3>2 DEF Underway
    <3>3. QED BY <3>1, <3>2
  <2>4. QED BY <1>3, <2>3
<1>5. CASE GbFullBatch \/ GbLastBatch
  <2>1. loop # Null /\ loop \in AnswerMsg /\ toMc \in Seq(QueryIn \cup AnswerIn) /\ fromDev' = fromDev
    BY <1>1, <1>5 DEF GbFullBatch, GbLastBatch, Messages
  <2>2. loop.list \in Seq(AllRecords) /\ Len(loop.list) \in Nat /\ loop.ctx \in Ctx
        /\ loop.dev \in AnyItem /\ loop.sum \in Nat
    BY <2>1, LenProperties DEF AnswerMsg
  <2>3. ASSUME NEW n \in 0 .. Len(loop.list), NEW m \in Range(HandOver(n))
        PROVE  m \in Range(toMc) \/ (m.ctx = loop.ctx /\ Range(m.list) \subseteq Range(loop.list))
    <3> DEFINE l == SubSeq(loop.list, 1, n)
               e == [type |-> "answer", ctx |-> loop.ctx, dev |-> loop.dev, sum |-> loop.sum, list |-> l]
    <3>1. l \in Seq(AllRecords) /\ Len(l) = n /\ \A i \in 1 .. n : l[i] = loop.list[i]
      BY <2>2, FirstIs
    <3> HIDE DEF l
    <3>2. Range(l) \subseteq Range(loop.list)
      <4>1. \A y : y \in Range(l) => \E i \in 1 .. Len(l) : l[i] = y
        BY <3>1, InRange
      <4>2. \A y : y \in Range(loop.list) <=> \E i \in 1 .. Len(loop.list) : loop.list[i] = y
        BY <2>2, InRange
      <4>3. \A i \in 1 .. n : i \in 1 .. Len(loop.list)
        BY <2>2
      <4>4. QED BY <3>1, <4>1, <4>2, <4>3
    <3>3. e \in QueryIn \cup AnswerIn
      BY <2>2, <3>1 DEF AnswerIn
    <3>4. HandOver(n) = Append(toMc, e)
      BY DEF HandOver, l
    <3>5. e.ctx = loop.ctx /\ e.list = l
      OBVIOUS
    <3> HIDE DEF e
    <3>6. Range(HandOver(n)) = Range(toMc) \cup {e}
      BY <2>1, <3>3, <3>4, AppendRange
    <3>7. QED BY <3>2, <3>5, <3>6
  <2>4. \A m \in Range(toMc') :
           m \in Range(toMc) \/ (m.ctx = loop.ctx /\ Range(m.list) \subseteq Range(loop.list))
    <3>1. CASE GbFullBatch
      <4>1. GbBatch \in 0 .. Len(loop.list) /\ (toMc' = HandOver(GbBatch) \/ toMc' = toMc)
        BY <2>2, <3>1, BatchAssumption DEF GbFullBatch
      <4>2. QED BY <2>3, <4>1
    <3>2. CASE GbLastBatch
      <4>1. /\ Len(loop.list) \in 0 .. Len(loop.list)
            /\ toMc' = HandOver(Len(loop.list)) \/ toMc' = toMc
        BY <2>2, <3>2 DEF GbLastBatch
      <4>2. QED BY <2>3, <4>1
    <3>3. QED BY <1>5, <3>1, <3>2
  <2>5. \/ loop' = Null
        \/ loop'.ctx = loop.ctx /\ Range(loop'.list) \subseteq Range(loop.list)
    <3>1. ASSUME NEW n \in 0 .. Len(loop.list)
          PROVE  Range(Rest(loop.list, n)) \subseteq Range(loop.list)
      <4> DEFINE l == Rest(loop.list, n)
      <4>1. l \in Seq(AllRecords) /\ Len(l) = Len(loop.list) - n
            /\ \A i \in 1 .. Len(loop.list) - n : l[i] = loop.list[n + i]
        BY <2>2, RestIs
      <4> HIDE DEF l
      <4>2. \A y : y \in Range(l) => \E i \in 1 .. Len(l) : l[i] = y
        BY <4>1, InRange
      <4>3. \A y : y \in Range(loop.list) <=> \E i \in 1 .. Len(loop.list) : loop.list[i] = y
        BY <2>2, InRange
      <4>4. \A i \in 1 .. Len(l) : n + i \in 1 .. Len(loop.list) /\ l[i] = loop.list[n + i]
        BY <2>2, <4>1
      <4>5. Range(l) \subseteq Range(loop.list)
        BY <4>2, <4>3, <4>4
      <4>6. QED BY <4>5 DEF l
    <3>2. CASE GbFullBatch
      <4>1. GbBatch \in 0 .. Len(loop.list) /\ GbBatch - 1 \in 0 .. Len(loop.list)
        BY <2>2, <3>2, BatchAssumption DEF GbFullBatch
      <4>2. PICK n \in 0 .. Len(loop.list) : loop' = [loop EXCEPT !.list = Rest(@, n)]
        BY <3>2, <4>1 DEF GbFullBatch, AfterFailure
      <4>3. loop'.ctx = loop.ctx /\ loop'.list = Rest(loop.list, n)
        BY <2>1, <4>2 DEF AnswerMsg
      <4>4. QED BY <3>1, <4>3
    <3>3. QED BY <1>5, <3>2 DEF GbLastBatch
  <2>6. ASSUME NEW c, NEW x, Underway(c, x)' PROVE Underway(c, x)
    <3>1. CASE loop.ctx = c /\ x \in Range(loop.list)
      BY <2>1, <3>1 DEF Underway
    <3>2. CASE ~(loop.ctx = c /\ x \in Range(loop.list))
      BY <1>2, <2>1, <2>4, <2>5, <2>6, <3>2 DEF Underway
    <3>3. QED BY <3>1, <3>2
  <2>7. QED BY <1>3, <2>6
<1>6. QED BY <1>4, <1>5

\* A device answers with its own records; nothing else outside makes any.
LEMMA OutsideOn ==
    ASSUME Numbered,
           \/ Device \/ Lose
           \/ \E i \in Item : DevGrows(i)
           \/ \E a \in fromDev : DevAnswersAsOther(a)
    PROVE  /\ \A c, x : Underway(c, x)' => Underway(c, x)
           /\ \A sn \in Sn : \A x : Reported(sn, x)' => Reported(sn, x)
<1>1. TypeOK /\ Messages
  BY DEF Numbered, Sound
<1>2. toGb' = toGb /\ told' = told /\ loop' = loop /\ toMc' = toMc /\ toDev' \subseteq toDev
  BY DEF Device, DevAnswer, Lose, DevGrows, DevAnswersAsOther
<1>3. \A sn \in Sn : \A x : Reported(sn, x)' => Reported(sn, x)
  BY <1>2 DEF Reported
<1>4. CASE Device
  <2>1. PICK q \in toDev : DevAnswer(q)
    BY <1>4 DEF Device
  <2> DEFINE all == Has(q.item)
             lists == IF all = <<>> THEN {<<>>} ELSE Range(Pieces(all, DevBatch))
             new == {[ctx |-> q.ctx, dev |-> q.item, sum |-> Len(all), list |-> l] : l \in lists}
  <2>2. q.item \in Item
    BY <1>1 DEF Messages
  <2>3. \A l \in lists : Range(l) \subseteq Range(Records[q.item])
    BY <1>1, <2>2, DeviceLists
  <2>4. fromDev' = fromDev \cup new
    BY <2>1 DEF DevAnswer
  <2> HIDE DEF lists, all
  <2>5. \A a \in new : a.ctx = q.ctx /\ Range(a.list) \subseteq Range(Records[q.item])
    BY <2>3
  <2> HIDE DEF new
  <2>6. ASSUME NEW c, NEW x, Underway(c, x)' PROVE Underway(c, x)
    <3>1. CASE q.ctx = c /\ x \in Range(Records[q.item])
      BY <3>1 DEF Underway
    <3>2. CASE ~(q.ctx = c /\ x \in Range(Records[q.item]))
      BY <1>2, <2>4, <2>5, <2>6, <3>2 DEF Underway
    <3>3. QED BY <3>1, <3>2
  <2>7. QED BY <1>3, <2>6
<1>5. CASE Lose \/ \E i \in Item : DevGrows(i)
  <2>1. fromDev' \subseteq fromDev
    BY <1>5 DEF Lose, DevGrows
  <2>2. QED BY <1>2, <1>3, <2>1 DEF Underway
<1>6. CASE \E a \in fromDev : DevAnswersAsOther(a)
  <2>1. PICK a \in fromDev : fromDev' = (fromDev \ {a}) \cup {[a EXCEPT !.dev = Other]}
    BY <1>6 DEF DevAnswersAsOther
  <2>2. a \in AnswerMsg
    BY <1>1 DEF Messages
  <2> DEFINE b == [a EXCEPT !.dev = Other]
  <2>3. b.ctx = a.ctx /\ b.list = a.list /\ fromDev' \subseteq fromDev \cup {b}
    BY <2>1, <2>2 DEF AnswerMsg
  <2> HIDE DEF b
  <2>4. QED BY <1>2, <1>3, <2>3 DEF Underway
<1>7. QED BY <1>4, <1>5, <1>6

\* A platform's query: the numbers asked so far keep their items.
LEMMA PlatformAsksTruth ==
    ASSUME Numbered, Truth, NEW i \in Item \cup {Other}, PlatformAsks(i)
    PROVE  Truth'
<1> DEFINE m == [type |-> "query", sn |-> Len(asked) + 1, item |-> i]
           t == Append(toMc, m)
           as == Append(asked, i)
<1>1. /\ asked \in Seq(AnyItem) /\ i \in AnyItem /\ Len(asked) < MaxQuery
      /\ toMc \in Seq(QueryIn \cup AnswerIn) /\ Waiting(asked, queue) /\ ctx \in Nat
  BY CtxType DEF Numbered, Numbers, Sound, TypeOK, Messages, PlatformAsks, AnyItem, Ctx
<1>2. /\ Len(asked) \in Nat /\ Len(as) = Len(asked) + 1
      /\ \A n \in 1 .. Len(asked) : as[n] = asked[n]
  BY <1>1, AppendRange
<1>3. m.type = "query" /\ m.sn = Len(asked) + 1 /\ m \in QueryIn
  BY <1>1, <1>2, BoundAssumption DEF QueryIn, Sn
<1>4. /\ asked' = as /\ (toMc' = t \/ toMc' = toMc)
      /\ UNCHANGED <<toGb, toDev, fromDev, loop, told>>
      /\ queue' = queue /\ ctx' = ctx /\ rec' = rec
  BY DEF PlatformAsks, mc
<1> HIDE DEF m, as
<1>5. \A n \in 1 .. Len(asked) : /\ n \in 1 .. Len(asked') /\ Of(asked', n) = Of(asked, n)
                                 /\ asked'[n] = asked[n]
  <2>1. TAKE n \in 1 .. Len(asked)
  <2>2. n \in 1 .. Len(as) /\ as[n] = asked[n]
    <3>1. n \in 1 .. Len(as)
      BY <1>2, <2>1
    <3>2. as[n] = asked[n]
      BY <1>2, <2>1
    <3>3. QED BY <3>1, <3>2
  <2>3. asked' = as
    BY <1>4
  <2>4. QED BY <2>2, <2>3 DEF Of
<1>6. /\ Len(t) = Len(toMc) + 1 /\ Len(toMc) \in Nat /\ t[Len(toMc) + 1] = m
      /\ \A n \in 1 .. Len(toMc) : t[n] = toMc[n]
      /\ Range(t) = Range(toMc) \cup {m}
  BY <1>1, <1>3, AppendRange
<1> HIDE DEF t
<1>7. \A n \in 1 .. Len(t) : \/ n \in 1 .. Len(toMc) /\ t[n] = toMc[n]
                             \/ t[n] = m
  BY <1>6
<1>8. Behind'
  <2>1. ctx' <= Len(asked') /\ \A k \in 1 .. Len(queue') : queue'[k].ctx <= ctx'
    <3>1. ctx <= Len(asked) /\ \A k \in 1 .. Len(queue) : queue[k].ctx <= ctx
      BY DEF Truth, Behind
    <3>2. Len(asked') = Len(asked) + 1 /\ queue' = queue /\ ctx' = ctx
      BY <1>2, <1>4
    <3>3. ctx <= Len(asked')
      BY <1>1, <1>2, <3>1, <3>2
    <3>4. QED BY <3>1, <3>2, <3>3
  <2>2. ctx < Len(asked) + 1
    BY <1>1, <1>2 DEF Truth, Behind
  <2>3. \A n \in 1 .. Len(t) : t[n].type = "query" => ctx < t[n].sn
    BY <1>3, <1>7, <2>2 DEF Truth, Behind
  <2>4. \A n \in 1 .. Len(toMc') : toMc'[n].type = "query" => ctx' < toMc'[n].sn
    BY <1>4, <2>3 DEF Truth, Behind
  <2>5. QED BY <2>1, <2>4 DEF Behind
<1>9. \A c, x : Underway(c, x)' => Underway(c, x)
  <2>1. \A e \in Range(toMc') : e.type = "answer" => e \in Range(toMc)
    BY <1>3, <1>4, <1>6
  <2>2. QED BY <1>4, <2>1 DEF Underway
<1>10. Answers'
  <2>1. SUFFICES ASSUME NEW c \in Ctx, NEW x, Underway(c, x)'
                 PROVE  /\ c <= ctx'
                        /\ \A k \in 1 .. Len(queue') : queue'[k].ctx = c => x \in Of(asked', queue'[k].sn)
    BY <1>4 DEF Answers
  <2>2. c <= ctx /\ \A k \in 1 .. Len(queue) : queue[k].ctx = c => x \in Of(asked, queue[k].sn)
    BY <1>9, <2>1 DEF Truth, Answers
  <2>3. \A k \in 1 .. Len(queue) : Of(asked', queue'[k].sn) = Of(asked, queue[k].sn)
    BY <1>1, <1>4, <1>5 DEF Waiting, Of
  <2>4. QED BY <1>4, <2>2, <2>3
<1>11. Lists'
  <2>1. \A k \in 1 .. Len(queue) : Of(asked', queue'[k].sn) = Of(asked, queue[k].sn)
    BY <1>1, <1>4, <1>5 DEF Waiting, Of
  <2>2. \A k \in 1 .. Len(queue) : \A r \in Range(queue[k].list) : rec[r] \in Of(asked', queue'[k].sn)
    BY <2>1 DEF Truth, Lists
  <2>3. QED BY <1>4, <2>2 DEF Lists, Of
<1>12. Reports'
  <2>1. SUFFICES ASSUME NEW sn \in Sn, NEW x, Reported(sn, x)'
                 PROVE  sn \in 1 .. Len(asked') /\ asked'[sn] \in Item /\ x \in Of(asked', sn)
    BY DEF Reports
  <2>2. Reported(sn, x)
    BY <1>4, <2>1 DEF Reported
  <2>3. QED BY <1>5, <2>2 DEF Truth, Reports
<1>13. QED BY <1>8, <1>10, <1>11, <1>12 DEF Truth

\* query_record_info: as long as ctx has not gone round, the query gets the
\* next value.
LEMMA NextCtx ==
    ASSUME Numbered, Truth, Len(asked) < Limit, McQuery
    PROVE  /\ ctx \in Nat /\ NewCtx = ctx + 1
           /\ Entering.sn \in 1 .. Len(asked) /\ ctx < Entering.sn
           /\ Head(toMc).item = asked[Entering.sn]
           /\ \A k \in 1 .. Len(queue) : queue[k].ctx \in Nat /\ queue[k].ctx <= ctx
           /\ Len(queue') = Len(queue) + 1
           /\ \A j \in 1 .. Len(queue') : \/ j = 1 /\ queue'[j] = Entering
                                          \/ j - 1 \in 1 .. Len(queue) /\ queue'[j] = queue[j - 1]
<1>1. /\ Sound /\ toMc \in Seq(QueryIn \cup AnswerIn) /\ queue \in Seq(Query)
      /\ Ordered(asked, toMc) /\ ctx \in Ctx /\ Len(asked) \in Nat
      /\ free \in Seq(RecId) /\ Pool(free, queue)
  BY LenProperties DEF Numbered, Numbers, Sound, TypeOK, Messages
<1>2. ctx \in Nat /\ Limit \in Nat
  BY <1>1, CtxType, LimitAssumption DEF Ctx
<1>3. /\ Entering \in Query /\ Entering.list = <<>> /\ Entering.ctx = NewCtx /\ ctx' = NewCtx
      /\ queue' = <<Entering>> \o queue
      /\ toMc # <<>> /\ toMc' = Tail(toMc)
      /\ Range(toGb') \subseteq Range(toGb) \cup
            {[type |-> "query", ctx |-> NewCtx, item |-> Head(toMc).item]}
  BY <1>1, EntersIs
<1>4. UNCHANGED <<asked, held, rec, free, loop, toDev, fromDev, told>>
  BY DEF McQuery
<1>5. /\ Head(toMc) = toMc[1] /\ Len(toMc) \in Nat \ {0} /\ Len(toMc') = Len(toMc) - 1
      /\ Range(toMc') \subseteq Range(toMc)
      /\ \A i \in 1 .. Len(toMc) - 1 : toMc'[i] = toMc[i + 1]
  BY <1>1, <1>3, TailRange
<1>6. 1 \in 1 .. Len(toMc) /\ toMc[1].type = "query" /\ Entering.sn = toMc[1].sn
  BY <1>5 DEF McQuery, Entering
<1>7. /\ Entering.sn \in 1 .. Len(asked) /\ ctx < Entering.sn
      /\ Head(toMc).item = asked[Entering.sn]
  BY <1>1, <1>5, <1>6 DEF Ordered, Truth, Behind
<1>8. \A k \in 1 .. Len(queue) : queue[k].ctx \in Nat /\ queue[k].ctx <= ctx
  <2>1. TAKE k \in 1 .. Len(queue)
  <2>2. queue[k].ctx \in Ctx
    BY <1>1, QueryType
  <2>3. Width \in Nat
    BY <1>1, CtxType
  <2>4. queue[k].ctx \in Nat
    BY <2>2, <2>3 DEF Ctx
  <2>5. QED BY <2>4 DEF Truth, Behind
<1>9. NewCtx = ctx + 1
  <2>1. ctx + 1 < Limit
    BY <1>1, <1>2, <1>7
  <2>2. ctx + 1 \notin InUse
    BY <1>2, <1>8 DEF InUse
  <2>3. QED BY <1>1, <2>1, <2>2, NewCtxNext
<1>10. /\ Len(queue') = Len(queue) + 1 /\ queue'[1] = Entering
       /\ \A j \in 1 .. Len(queue) : queue'[j + 1] = queue[j]
       /\ \A j \in 1 .. Len(queue) + 1 : j = 1 \/ j - 1 \in 1 .. Len(queue)
  <2>1. Entering \in Query /\ Entering.list = <<>>
    BY <1>3
  <2>2. QED BY <1>1, <1>3, <2>1, EnterKeeps
<1>11. \A j \in 1 .. Len(queue') : \/ j = 1 /\ queue'[j] = Entering
                                   \/ j - 1 \in 1 .. Len(queue) /\ queue'[j] = queue[j - 1]
  <2>1. TAKE j \in 1 .. Len(queue')
  <2>2. \/ j = 1
        \/ j - 1 \in 1 .. Len(queue) /\ queue'[(j - 1) + 1] = queue[j - 1] /\ (j - 1) + 1 = j
    BY <1>10
  <2>3. QED BY <1>10, <2>2
<1>12. QED BY <1>2, <1>7, <1>8, <1>9, <1>10, <1>11

\* query_record_info: as long as ctx has not gone round, the query gets the
\* next value, which nothing has been asked under.
LEMMA McQueryTruth ==
    ASSUME Numbered, Truth, Len(asked) < Limit, McQuery
    PROVE  Truth'
<1>1. /\ Sound /\ toMc \in Seq(QueryIn \cup AnswerIn) /\ queue \in Seq(Query)
      /\ Ordered(asked, toMc) /\ ctx \in Ctx /\ Len(asked) \in Nat
      /\ free \in Seq(RecId) /\ Pool(free, queue)
  BY LenProperties DEF Numbered, Numbers, Sound, TypeOK, Messages
<1>2. ctx \in Nat /\ Limit \in Nat
  BY <1>1, CtxType, LimitAssumption DEF Ctx
<1>3. /\ Entering \in Query /\ Entering.list = <<>> /\ Entering.ctx = NewCtx /\ ctx' = NewCtx
      /\ queue' = <<Entering>> \o queue
      /\ toMc # <<>> /\ toMc' = Tail(toMc)
      /\ Range(toGb') \subseteq Range(toGb) \cup
            {[type |-> "query", ctx |-> NewCtx, item |-> Head(toMc).item]}
  BY <1>1, EntersIs
<1>4. UNCHANGED <<asked, held, rec, free, loop, toDev, fromDev, told>>
  BY DEF McQuery
<1>5. /\ Head(toMc) = toMc[1] /\ Len(toMc) \in Nat \ {0} /\ Len(toMc') = Len(toMc) - 1
      /\ Range(toMc') \subseteq Range(toMc)
      /\ \A i \in 1 .. Len(toMc) - 1 : toMc'[i] = toMc[i + 1]
  BY <1>1, <1>3, TailRange
<1>6. 1 \in 1 .. Len(toMc) /\ toMc[1].type = "query" /\ Entering.sn = toMc[1].sn
  BY <1>5 DEF McQuery, Entering
<1>7. /\ Entering.sn \in 1 .. Len(asked) /\ ctx < Entering.sn
      /\ Head(toMc).item = asked[Entering.sn]
      /\ \A k \in 1 .. Len(queue) : queue[k].ctx \in Nat /\ queue[k].ctx <= ctx
      /\ NewCtx = ctx + 1
      /\ \A j \in 1 .. Len(queue') : \/ j = 1 /\ queue'[j] = Entering
                                     \/ j - 1 \in 1 .. Len(queue) /\ queue'[j] = queue[j - 1]
  BY NextCtx
<1>8. Behind'
  <2>1. ctx' <= Len(asked')
    BY <1>1, <1>2, <1>3, <1>4, <1>7
  <2>2. \A k \in 1 .. Len(queue') : queue'[k].ctx <= ctx'
    <3>1. TAKE k \in 1 .. Len(queue')
    <3>2. CASE k = 1 /\ queue'[k] = Entering
      BY <1>2, <1>3, <1>7, <3>2
    <3>3. CASE k - 1 \in 1 .. Len(queue) /\ queue'[k] = queue[k - 1]
      <4>1. queue[k - 1].ctx \in Nat /\ queue[k - 1].ctx <= ctx
        BY <1>7, <3>3
      <4>2. ctx' = ctx + 1
        BY <1>3, <1>7
      <4>3. QED BY <1>2, <3>3, <4>1, <4>2
    <3>4. QED BY <1>7, <3>1, <3>2, <3>3
  <2>3. ASSUME NEW i \in 1 .. Len(toMc'), toMc'[i].type = "query"
        PROVE  ctx' < toMc'[i].sn
    <3>1. i + 1 \in 1 .. Len(toMc) /\ toMc'[i] = toMc[i + 1] /\ 1 \in 1 .. (i + 1) - 1
      BY <1>5
    <3>2. toMc[i + 1].type = "query"
      BY <2>3, <3>1
    <3>3. toMc[1].sn < toMc[i + 1].sn /\ toMc[i + 1].sn \in 1 .. Len(asked)
      BY <1>1, <1>6, <3>1, <3>2 DEF Ordered
    <3>4. toMc[1].sn \in Nat /\ ctx < toMc[1].sn
      BY <1>1, <1>6, <1>7
    <3>5. ctx' = ctx + 1 /\ toMc[i + 1].sn \in Nat
      BY <1>1, <1>3, <1>7, <3>3
    <3>6. ctx' < toMc[i + 1].sn
      BY <1>2, <3>3, <3>4, <3>5
    <3>7. QED BY <3>1, <3>6
  <2>4. QED BY <2>1, <2>2, <2>3 DEF Behind
<1> DEFINE own(c, x) == c = NewCtx /\ x \in Of(asked, Entering.sn)
<1>9. \A c, x : Underway(c, x)' => Underway(c, x) \/ own(c, x)
  <2> DEFINE m == [type |-> "query", ctx |-> NewCtx, item |-> Head(toMc).item]
  <2>1. m.type = "query" /\ m.ctx = NewCtx /\ m.item = asked[Entering.sn]
    BY <1>7
  <2>2. Range(toGb') \subseteq Range(toGb) \cup {m}
    BY <1>3
  <2> HIDE DEF m
  <2>3. SUFFICES ASSUME NEW c, NEW x, Underway(c, x)', ~own(c, x)
                 PROVE  Underway(c, x)
    OBVIOUS
  <2>4. ~(m.ctx = c /\ x \in Range(Records[m.item]))
    BY <2>1, <2>3 DEF Of
  <2>5. QED BY <1>4, <1>5, <2>2, <2>3, <2>4 DEF Underway
<1>10. Answers'
  <2>1. SUFFICES ASSUME NEW c \in Ctx, NEW x, Underway(c, x)'
                 PROVE  /\ c <= ctx'
                        /\ \A k \in 1 .. Len(queue') : queue'[k].ctx = c => x \in Of(asked', queue'[k].sn)
    BY DEF Answers, Of
  <2>3. CASE own(c, x)
    <3>1. \A k \in 1 .. Len(queue') : queue'[k].ctx = c => queue'[k] = Entering
      BY <1>2, <1>7, <2>3
    <3>2. c <= ctx'
      BY <1>2, <1>3, <1>7, <2>3
    <3>3. \A k \in 1 .. Len(queue') : queue'[k].ctx = c => queue'[k].sn = Entering.sn
      BY <3>1
    <3>4. asked'[Entering.sn] = asked[Entering.sn]
      BY <1>4
    <3>5. QED BY <2>3, <3>2, <3>3, <3>4 DEF Of
  <2>4. CASE Underway(c, x)
    <3>1. c <= ctx /\ \A k \in 1 .. Len(queue) : queue[k].ctx = c => x \in Of(asked, queue[k].sn)
      BY <2>4 DEF Truth, Answers
    <3>2. Entering.ctx # c
      BY <1>2, <1>3, <1>7, <3>1
    <3>3. c <= ctx'
      <4>1. c <= ctx /\ ctx' = ctx + 1 /\ ctx \in Nat
        BY <1>2, <1>3, <1>7, <3>1
      <4>2. c \in Int
        BY <1>1, CtxType DEF Ctx
      <4>3. QED BY <4>1, <4>2
    <3>4. \A k \in 1 .. Len(queue') : queue'[k].ctx = c => x \in Of(asked, queue'[k].sn)
      BY <1>7, <3>1, <3>2
    <3>5. QED BY <1>4, <3>3, <3>4 DEF Of
  <2>5. QED BY <1>9, <2>1, <2>3, <2>4
<1>11. Lists'
  <2>1. ASSUME NEW k \in 1 .. Len(queue'), NEW r \in Range(queue'[k].list)
        PROVE  rec[r] \in Of(asked, queue'[k].sn)
    <3>1. queue'[k] # Entering
      BY <1>3, <2>1 DEF Range
    <3>2. k - 1 \in 1 .. Len(queue) /\ queue'[k] = queue[k - 1]
      BY <1>7, <3>1
    <3>3. QED BY <2>1, <3>2 DEF Truth, Lists
  <2>2. QED BY <1>4, <2>1 DEF Lists, Of
<1>12. Reports'
  <2>1. SUFFICES ASSUME NEW sn \in Sn, NEW x, Reported(sn, x)'
                 PROVE  sn \in 1 .. Len(asked') /\ asked'[sn] \in Item /\ x \in Of(asked', sn)
    BY DEF Reports
  <2>2. \A m \in Range(toGb') : m.type = "result" => m \in Range(toGb)
    BY <1>3
  <2>3. Reported(sn, x)
    BY <1>4, <2>1, <2>2 DEF Reported
  <2>4. QED BY <1>4, <2>3 DEF Truth, Reports, Of
<1>13. QED BY <1>8, <1>10, <1>11, <1>12 DEF Truth

\* A step of the message centre that takes a message: the queries that stay
\* keep their numbers, their record items hold records they have been told of,
\* and results are of such records.
LEMMA TakingTruth ==
    ASSUME Numbered, Truth, toMc # <<>>, toMc' = Tail(toMc),
           UNCHANGED <<asked, held, ctx, loop, toDev, fromDev, told>>,
           \A m \in Range(toGb') :
              \/ m \in Range(toGb)
              \/ /\ m \in ResultOut /\ m.sn \in 1 .. Len(asked) /\ asked[m.sn] \in Item
                 /\ Range(m.list) \subseteq Of(asked, m.sn),
           \A j \in 1 .. Len(queue') :
              \E i \in 1 .. Len(queue) : queue'[j].ctx = queue[i].ctx /\ queue'[j].sn = queue[i].sn,
           Lists'
    PROVE  Truth'
<1>1. toMc \in Seq(QueryIn \cup AnswerIn)
  BY DEF Numbered, Sound, Messages
<1>2. /\ Len(toMc') = Len(toMc) - 1 /\ Range(toMc') \subseteq Range(toMc) /\ Len(toMc) \in Nat
      /\ \A i \in 1 .. Len(toMc) - 1 : toMc'[i] = toMc[i + 1]
  BY <1>1, TailRange
<1>3. Behind'
  <2>1. ASSUME NEW i \in 1 .. Len(toMc'), toMc'[i].type = "query"
        PROVE  ctx < toMc'[i].sn
    <3>1. i + 1 \in 1 .. Len(toMc) /\ toMc'[i] = toMc[i + 1]
      BY <1>2
    <3>2. QED BY <2>1, <3>1 DEF Truth, Behind
  <2>2. \A k \in 1 .. Len(queue') : queue'[k].ctx <= ctx
    <3>1. TAKE k \in 1 .. Len(queue')
    <3>2. PICK i \in 1 .. Len(queue) : queue'[k].ctx = queue[i].ctx
      OBVIOUS
    <3>3. QED BY <3>2 DEF Truth, Behind
  <2>3. ctx <= Len(asked)
    BY DEF Truth, Behind
  <2>4. ctx' = ctx /\ asked' = asked
    OBVIOUS
  <2>5. QED BY <2>1, <2>2, <2>3, <2>4 DEF Behind
<1>4. \A c, x : Underway(c, x)' => Underway(c, x)
  <2>1. \A m \in Range(toGb') : m.type = "query" => m \in Range(toGb)
    BY DEF ResultOut
  <2>2. UNCHANGED <<loop, toDev, fromDev>>
    OBVIOUS
  <2>3. QED BY <1>2, <2>1, <2>2 DEF Underway
<1>5. Answers'
  <2>1. SUFFICES ASSUME NEW c \in Ctx, NEW x, Underway(c, x)'
                 PROVE  /\ c <= ctx'
                        /\ \A k \in 1 .. Len(queue') : queue'[k].ctx = c => x \in Of(asked', queue'[k].sn)
    BY DEF Answers, Of
  <2>2. c <= ctx /\ \A k \in 1 .. Len(queue) : queue[k].ctx = c => x \in Of(asked, queue[k].sn)
    BY <1>4, <2>1 DEF Truth, Answers
  <2>3. ASSUME NEW k \in 1 .. Len(queue'), queue'[k].ctx = c
        PROVE  x \in Of(asked', queue'[k].sn)
    <3>1. PICK i \in 1 .. Len(queue) : queue'[k].ctx = queue[i].ctx /\ queue'[k].sn = queue[i].sn
      OBVIOUS
    <3>2. x \in Of(asked, queue[i].sn)
      BY <2>2, <2>3, <3>1
    <3>3. QED BY <3>1, <3>2
  <2>4. QED BY <2>2, <2>3
<1>6. Reports'
  <2>1. SUFFICES ASSUME NEW sn \in Sn, NEW x, Reported(sn, x)'
                 PROVE  sn \in 1 .. Len(asked') /\ asked'[sn] \in Item /\ x \in Of(asked', sn)
    BY DEF Reports, Of
  <2>2. told' = told /\ asked' = asked
    OBVIOUS
  <2>3. CASE Reported(sn, x)
    BY <2>2, <2>3 DEF Truth, Reports
  <2>4. CASE ~Reported(sn, x)
    <3>1. PICK m \in Range(toGb') : m.type = "result" /\ m.sn = sn /\ x \in Range(m.list)
      BY <2>1, <2>2, <2>4 DEF Reported
    <3>2. m \notin Range(toGb)
      BY <2>4, <3>1 DEF Reported
    <3>3. QED BY <2>2, <3>1, <3>2
  <2>5. QED BY <2>3, <2>4
<1>7. QED BY <1>3, <1>5, <1>6 DEF Truth

\* A query that ends has the record items of the others untouched.
LEMMA DumpTruth ==
    ASSUME Numbered, Truth, NEW k \in 1 .. Len(queue), NEW q \in Query,
           q.sn = queue[k].sn,
           NEW content \in [RecId -> AllRecords \cup {Null}], NEW left \in Seq(RecId),
           Pool(left, [queue EXCEPT ![k] = q]), Blank(content, left),
           DumpRec(k, q, content, left),
           \A r \in Range(q.list) : content[r] \in Of(asked, q.sn),
           \A j \in 1 .. Len(queue) : \A r \in Range(queue[j].list) :
              j # k => content[r] = rec[r] /\ r \notin Range(q.list),
           toMc # <<>>, toMc' = Tail(toMc),
           UNCHANGED <<asked, held, ctx, loop, toDev, fromDev, told>>
    PROVE  Truth'
<1>1. Sound /\ queue \in Seq(Query) /\ Waiting(asked, queue)
  BY DEF Numbered, Numbers, Sound, Messages
<1>2. /\ Sound /\ k \in 1 .. Len(queue) /\ q \in Query
      /\ content \in [RecId -> AllRecords \cup {Null}] /\ left \in Seq(RecId)
      /\ Pool(left, [queue EXCEPT ![k] = q]) /\ Blank(content, left)
      /\ DumpRec(k, q, content, left)
  BY <1>1
<1>3. queue' = RemoveAt(queue, k) /\ Reporting(q, content) /\ Untouched(q, content)
  BY ONLY <1>2, DumpIs
<1>4. /\ queue' = RemoveAt(queue, k)
      /\ \A m \in Range(toGb') :
            \/ m \in Range(toGb)
            \/ /\ m \in ResultOut /\ m.sn = q.sn
               /\ \A x \in Range(m.list) : \E r \in Range(q.list) : content[r] = x
      /\ \A r \in RecId : r \notin Range(q.list) => rec'[r] = content[r]
  BY <1>3 DEF Reporting, Untouched
<1> DEFINE qq == RemoveAt(queue, k)
<1>5. /\ Len(qq) = Len(queue) - 1
      /\ \A j \in 1 .. Len(queue) - 1 : /\ Skip(k, j) \in 1 .. Len(queue) /\ Skip(k, j) # k
                                        /\ qq[j] = queue[Skip(k, j)]
  <2> DEFINE qs == queue
  <2>1. qs \in Seq(Query) /\ k \in 1 .. Len(qs)
    BY <1>1
  <2> HIDE DEF qs
  <2>2. /\ Len(RemoveAt(qs, k)) = Len(qs) - 1
        /\ \A j \in 1 .. Len(qs) - 1 : /\ Skip(k, j) \in 1 .. Len(qs) /\ Skip(k, j) # k
                                       /\ RemoveAt(qs, k)[j] = qs[Skip(k, j)]
    BY <2>1, Remaining
  <2>3. QED BY <2>2 DEF qs
<1>6. queue' = qq
  BY <1>4
<1> HIDE DEF qq
<1>7. \A j \in 1 .. Len(queue') : /\ Skip(k, j) \in 1 .. Len(queue) /\ Skip(k, j) # k
                                  /\ queue'[j] = queue[Skip(k, j)]
  BY <1>5, <1>6
<1>8. q.sn \in 1 .. Len(asked) /\ asked[q.sn] \in Item
  BY <1>1 DEF Waiting
<1>9. \A m \in Range(toGb') :
         \/ m \in Range(toGb)
         \/ /\ m \in ResultOut /\ m.sn \in 1 .. Len(asked) /\ asked[m.sn] \in Item
            /\ Range(m.list) \subseteq Of(asked, m.sn)
  <2>1. TAKE m \in Range(toGb')
  <2>2. CASE m \in Range(toGb)
    BY <2>2
  <2>3. CASE /\ m \in ResultOut /\ m.sn = q.sn
             /\ \A x \in Range(m.list) : \E r \in Range(q.list) : content[r] = x
    <3>1. \A x \in Range(m.list) : x \in Of(asked, q.sn)
      BY <2>3
    <3>2. QED BY <1>8, <2>3, <3>1
  <2>4. QED BY <1>4, <2>2, <2>3
<1>10. \A j \in 1 .. Len(queue') :
         \E i \in 1 .. Len(queue) : queue'[j].ctx = queue[i].ctx /\ queue'[j].sn = queue[i].sn
  BY <1>7
<1>11. Lists'
  <2>1. ASSUME NEW j \in 1 .. Len(queue'), NEW r \in Range(queue'[j].list)
        PROVE  rec'[r] \in Of(asked', queue'[j].sn)
    <3> DEFINE i == Skip(k, j)
    <3>1. i \in 1 .. Len(queue) /\ i # k /\ queue'[j] = queue[i]
      BY <1>7
    <3> HIDE DEF i
    <3>2. r \in Range(queue[i].list)
      BY <2>1, <3>1
    <3>3. content[r] = rec[r] /\ r \notin Range(q.list)
      BY <3>1, <3>2
    <3>4. queue[i].list \in Seq(RecId)
      BY <1>1, <3>1, QueryType
    <3>5. r \in RecId
      BY <3>2, <3>4, InRange
    <3>6. rec'[r] = rec[r]
      BY <1>4, <3>3, <3>5
    <3>7. rec[r] \in Of(asked, queue[i].sn)
      BY <3>1, <3>2 DEF Truth, Lists
    <3>8. asked' = asked
      OBVIOUS
    <3>9. QED BY <3>1, <3>6, <3>7, <3>8
  <2>2. QED BY <2>1 DEF Lists, Of
<1>12. QED BY <1>9, <1>10, <1>11, TakingTruth

\* add_rec_info: the answer has the records of the item the query is for.
LEMMA McAnswerTruth ==
    ASSUME Numbered, Truth, NEW k \in 1 .. Len(queue), McAnswerEnds(k) \/ McAnswerAdds(k)
    PROVE  Truth'
<1>1. /\ toMc # <<>> /\ toMc' = Tail(toMc) /\ Answer.type = "answer"
      /\ UNCHANGED <<asked, held, ctx, loop, toDev, fromDev, told>>
      /\ queue[k].ctx = Answer.ctx
  BY DEF McAnswerEnds, McAnswerAdds, McAnswers, IsFor
<1>2. Sound /\ queue \in Seq(Query) /\ Pool(free, queue)
  BY DEF Numbered, Sound, Messages
<1>3. Answer \in Range(toMc) /\ Answer.ctx \in Ctx /\ Answer.list \in Seq(AllRecords)
  BY <1>1, <1>2, AnswerIs
<1>4. \A x \in Range(Answer.list) : x \in Of(asked, queue[k].sn)
  <2>1. TAKE x \in Range(Answer.list)
  <2>2. Underway(Answer.ctx, x)
    BY <1>1, <1>3 DEF Underway
  <2>3. QED BY <1>1, <1>3, <2>2 DEF Truth, Answers
<1>5. CASE McAnswerEnds(k)
  <2>1. /\ DumpRec(k, queue[k], rec, free) /\ queue[k] \in Query
        /\ Pool(free, [queue EXCEPT ![k] = queue[k]]) /\ Blank(rec, free)
        /\ rec \in [RecId -> AllRecords \cup {Null}] /\ free \in Seq(RecId)
    BY <1>2, <1>5, EndsIs
  <2>2. \A r \in Range(queue[k].list) : rec[r] \in Of(asked, queue[k].sn)
    BY DEF Truth, Lists
  <2>3. \A j \in 1 .. Len(queue) : \A r \in Range(queue[j].list) :
           j # k => rec[r] = rec[r] /\ r \notin Range(queue[k].list)
    BY <1>2 DEF Pool
  <2>4. QED BY <1>1, <2>1, <2>2, <2>3, DumpTruth
<1>6. CASE McAnswerAdds(k)
  <2>1. /\ Grown(k) \in Query /\ Grown(k).ctx = queue[k].ctx /\ Grown(k).sn = queue[k].sn
        /\ Content(k) \in [RecId -> AllRecords \cup {Null}] /\ Left(k) \in Seq(RecId)
        /\ Pool(Left(k), [queue EXCEPT ![k] = Grown(k)]) /\ Blank(Content(k), Left(k))
    BY <1>1, <1>2, AddsIs
  <2>2. /\ \A r \in Range(Grown(k).list) :
              \/ Content(k)[r] \in Range(Answer.list)
              \/ r \in Range(queue[k].list) /\ Content(k)[r] = rec[r]
        /\ \A j \in 1 .. Len(queue) : \A r \in Range(queue[j].list) :
              j # k => Content(k)[r] = rec[r] /\ r \notin Range(Grown(k).list)
    BY <1>1, <1>2, AddsIs
  <2>3. \A r \in Range(Grown(k).list) : Content(k)[r] \in Of(asked, queue[k].sn)
    BY <1>4, <2>2 DEF Truth, Lists
  <2>4. CASE DumpRec(k, Grown(k), Content(k), Left(k))
    <3>1. \A r \in Range(Grown(k).list) : Content(k)[r] \in Of(asked, Grown(k).sn)
      BY <2>1, <2>3
    <3>2. QED BY <1>1, <2>1, <2>2, <2>4, <3>1, DumpTruth
  <2>5. CASE /\ queue' = [queue EXCEPT ![k] = Grown(k)]
             /\ rec' = Content(k) /\ free' = Left(k) /\ NoFault /\ UNCHANGED <<size, toGb>>
    <3>1. /\ Len(queue') = Len(queue) /\ queue'[k] = Grown(k)
          /\ \A j \in 1 .. Len(queue) : j # k => queue'[j] = queue[j]
      BY <1>2, <2>1, <2>5, ExceptSeq
    <3>2. \A j \in 1 .. Len(queue) : queue'[j].ctx = queue[j].ctx /\ queue'[j].sn = queue[j].sn
      BY <2>1, <3>1
    <3>3. ASSUME NEW j \in 1 .. Len(queue'), NEW r \in Range(queue'[j].list)
          PROVE  rec'[r] \in Of(asked', queue'[j].sn)
      <4>1. CASE j = k
        BY <1>1, <2>1, <2>3, <2>5, <3>1, <3>3, <4>1
      <4>2. CASE j # k
        <5>1. queue'[j] = queue[j] /\ j \in 1 .. Len(queue)
          BY <3>1, <4>2
        <5>2. r \in Range(queue[j].list)
          BY <3>3, <5>1
        <5>3. Content(k)[r] = rec[r] /\ rec[r] \in Of(asked, queue[j].sn)
          BY <2>2, <4>2, <5>1, <5>2 DEF Truth, Lists
        <5>4. QED BY <1>1, <2>5, <5>1, <5>3
      <4>3. QED BY <4>1, <4>2
    <3>4. Lists'
      BY <3>3 DEF Lists, Of
    <3>5. \A m \in Range(toGb') : m \in Range(toGb)
      BY <2>5
    <3>6. \A j \in 1 .. Len(queue') :
             \E i \in 1 .. Len(queue) : queue'[j].ctx = queue[i].ctx /\ queue'[j].sn = queue[i].sn
      BY <3>1, <3>2
    <3>7. QED BY <1>1, <3>4, <3>5, <3>6, TakingTruth
  <2>6. QED BY <1>2, <1>6, <2>4, <2>5, McAddsIs
<1>7. QED BY <1>5, <1>6

\* Queries are only added.
LEMMA AskedGrows ==
    ASSUME TypeOK, [Next]_vars, Len(asked') < Limit
    PROVE  Len(asked) < Limit
<1>1. asked \in Seq(AnyItem) /\ Limit \in Nat
  BY LimitAssumption DEF TypeOK, AnyItem
<1>2. asked' = asked \/ \E i \in AnyItem : asked' = Append(asked, i)
  BY DEF Next, vars, AnyItem, PlatformAsks, GbServer, GbQuery, GbResult, GbFullBatch,
         GbLastBatch, GbAnswer, MsgServerTask, McQuery, McQueryRefused, McAnswerUnknown,
         McAnswerEnds, McAnswerAdds, McAnswers, Device, DevAnswer, DevGrows,
         DevAnswersAsOther, Lose
<1>3. \A i \in AnyItem : Len(Append(asked, i)) = Len(asked) + 1 /\ Len(asked) \in Nat
  BY <1>1, AppendRange
<1>4. QED BY <1>1, <1>2, <1>3

LEMMA TruthfulNext == Truthful /\ [Next]_vars => Truthful'
<1> SUFFICES ASSUME Truthful, [Next]_vars PROVE Truthful'
  OBVIOUS
<1>1. Numbered /\ Numbered'
  BY NumberedNext DEF Truthful
<1>2. Len(asked') < Limit => Len(asked) < Limit
  BY <1>1, AskedGrows DEF Numbered, Sound
<1>3. SUFFICES ASSUME Truth, Len(asked) < Limit PROVE Truth'
  BY <1>1, <1>2 DEF Truthful
<1>4. CASE UNCHANGED vars
  BY <1>1, <1>3, <1>4, PassingOn DEF vars, mc, Underway, Reported
<1>5. CASE \E i \in Item \cup {Other} : PlatformAsks(i)
  BY <1>1, <1>3, <1>5, PlatformAsksTruth
<1>6. CASE GbServer \/ Device \/ Lose
           \/ (\E i \in Item : DevGrows(i)) \/ (\E a \in fromDev : DevAnswersAsOther(a))
  <2>1. /\ asked' = asked /\ UNCHANGED mc
        /\ toMc' = toMc \/ \E m \in AnswerIn : toMc' = Append(toMc, m)
    BY <1>1, <1>6, OutsideIs DEF Numbered
  <2>2. /\ \A c, x : Underway(c, x)' => Underway(c, x)
        /\ \A sn \in Sn : \A x : Reported(sn, x)' => Reported(sn, x)
    <3>1. CASE GbQuery \/ GbResult
      BY <1>1, <3>1, GbTakesOn
    <3>2. CASE GbFullBatch \/ GbLastBatch \/ \E a \in fromDev : GbAnswer(a)
      BY <1>1, <3>2, GbHandsOn
    <3>3. CASE \/ Device \/ Lose
               \/ \E i \in Item : DevGrows(i)
               \/ \E a \in fromDev : DevAnswersAsOther(a)
      BY <1>1, <3>3, OutsideOn
    <3>4. QED BY <1>6, <3>1, <3>2, <3>3 DEF GbServer
  <2>3. QED BY <1>1, <1>3, <2>1, <2>2, PassingOn
<1>7. CASE MsgServerTask
  <2>1. CASE McQueryRefused \/ McAnswerUnknown
    <3>1. /\ toMc # <<>> /\ toMc' = Tail(toMc) /\ queue' = queue /\ rec' = rec /\ toGb' = toGb
          /\ UNCHANGED <<asked, held, ctx, loop, toDev, fromDev, told>>
      BY <2>1 DEF McQueryRefused, McAnswerUnknown, McAnswers, mc
    <3>2. Lists'
      BY <1>3, <3>1 DEF Truth, Lists, Of
    <3>3. \A j \in 1 .. Len(queue') :
             \E i \in 1 .. Len(queue) : queue'[j].ctx = queue[i].ctx /\ queue'[j].sn = queue[i].sn
      BY <3>1
    <3>4. \A m \in Range(toGb') : m \in Range(toGb)
      BY <3>1
    <3>5. QED BY <1>1, <1>3, <3>1, <3>2, <3>3, <3>4, TakingTruth
  <2>2. QED BY <1>1, <1>3, <1>7, <2>1, McQueryTruth, McAnswerTruth DEF MsgServerTask
<1>8. QED BY <1>4, <1>5, <1>6, <1>7 DEF Next

LEMMA AlwaysTruthful == Spec => []Truthful
<1>1. Init => Truthful
  BY SoundInit, NumbersInit, TruthInit DEF Truthful, Numbered
<1>2. QED BY <1>1, TruthfulNext, PTL DEF Spec

\* Until async_msg_ctx has gone round, a platform is only told records of the
\* item it asked for, whatever is lost, repeated, late, or answered under
\* another id: the ctx of an answer finds the right list, and the record items
\* of that list hold nothing else.
THEOREM ToldWhatIsAsked == Spec => []ToldIsAsked
<1>1. ASSUME Truthful PROVE ToldIsAsked
  <2>1. SUFFICES ASSUME Len(asked) < Limit, NEW sn \in 1 .. Len(asked),
                        NEW batch \in Range(told[sn]), NEW x \in Range(batch)
                 PROVE  x \in IF asked[sn] \in Item THEN Range(Records[asked[sn]]) ELSE {}
    BY DEF ToldIsAsked
  <2>2. Reports /\ Sound
    BY <1>1, <2>1 DEF Truthful, Numbered, Truth
  <2>3. sn \in Sn
    BY <2>2, LenProperties, BoundAssumption DEF Sound, TypeOK, Sn
  <2>4. Reported(sn, x)
    BY <2>1 DEF Reported
  <2>5. QED BY <2>2, <2>3, <2>4 DEF Reports, Of
<1>2. QED BY <1>1, AlwaysTruthful, PTL

-----------------------------------------------------------------------------
(* No record is told twice: on its way to a platform it is in one place. *)

Holds(l, x, j) == j \in 1 .. Len(l) /\ l[j] = x

\* The query sn waits for answers with ctx c.
Waits(sn, c) == \E k \in 1 .. Len(queue) : queue[k].sn = sn /\ queue[k].ctx = c

\* Record x is the j-th of a list that answers the query sn, or will do so: of
\* the y-th message, of the datagram y, or of the only list (y = 0) there is.
InTold(sn, x, y, j) == y \in 1 .. Len(told[sn]) /\ Holds(told[sn][y], x, j)

InResult(sn, x, y, j) ==
    y \in 1 .. Len(toGb) /\ toGb[y].type = "result" /\ toGb[y].sn = sn /\ Holds(toGb[y].list, x, j)

InList(sn, x, y, j) ==
    y = 0 /\ \E k \in 1 .. Len(queue) : queue[k].sn = sn /\ Holds(Contents(queue[k], rec), x, j)

InBatch(sn, x, y, j) ==
    /\ y \in 1 .. Len(toMc) /\ toMc[y].type = "answer" /\ Waits(sn, toMc[y].ctx)
    /\ Holds(toMc[y].list, x, j)

InLoop(sn, x, y, j) ==
    y = 0 /\ loop # Null /\ Waits(sn, loop.ctx) /\ Holds(loop.list, x, j)

InAnswer(sn, x, y, j) == y \in fromDev /\ Waits(sn, y.ctx) /\ Holds(y.list, x, j)

\* Before the device answers, the query stands for all its records.
InAsked(sn, x, y, j) == y \in toDev /\ Waits(sn, y.ctx) /\ Holds(Records[y.item], x, j)

InAsking(sn, x, y, j) ==
    /\ y \in 1 .. Len(toGb) /\ toGb[y].type = "query" /\ Waits(sn, toGb[y].ctx)
    /\ Holds(Records[toGb[y].item], x, j)

InQuery(sn, x, y, j) ==
    /\ y \in 1 .. Len(toMc) /\ toMc[y].type = "query" /\ toMc[y].sn = sn
    /\ toMc[y].item \in Item /\ Holds(Records[toMc[y].item], x, j)

At(sn, x, p, y, j) ==
    \/ p = "told" /\ InTold(sn, x, y, j)
    \/ p = "result" /\ InResult(sn, x, y, j)
    \/ p = "list" /\ InList(sn, x, y, j)
    \/ p = "batch" /\ InBatch(sn, x, y, j)
    \/ p = "loop" /\ InLoop(sn, x, y, j)
    \/ p = "answer" /\ InAnswer(sn, x, y, j)
    \/ p = "asked" /\ InAsked(sn, x, y, j)
    \/ p = "asking" /\ InAsking(sn, x, y, j)
    \/ p = "query" /\ InQuery(sn, x, y, j)

Once ==
    \A sn \in Sn : \A x : \A p, y, j, p2, y2, j2 :
        At(sn, x, p, y, j) /\ At(sn, x, p2, y2, j2) => p = p2 /\ y = y2 /\ j = j2

\* The fourth invariant.
Single == Truthful /\ ("dup" \notin Range(faults) /\ Len(asked) < Limit => Once)

LEMMA OnceInit == Init => Once
<1> SUFFICES ASSUME Init PROVE Once
  OBVIOUS
<1>1. /\ queue = <<>> /\ toMc = <<>> /\ toGb = <<>> /\ toDev = {} /\ fromDev = {}
      /\ loop = Null /\ told = [sn \in Sn |-> <<>>]
  BY DEF Init
<1>2. \A sn \in Sn : \A x, p, y, j : ~At(sn, x, p, y, j)
  BY <1>1 DEF At, InTold, InResult, InList, InBatch, InLoop, InAnswer, InAsked, InAsking, InQuery
<1>3. QED BY <1>2 DEF Once

\* A record that no step has moved.
LEMMA Unmoved ==
    ASSUME NEW sn, NEW x, NEW p, NEW y, NEW j, At(sn, x, p, y, j)',
           \A c : Waits(sn, c)' => Waits(sn, c),
           p = "told" => told' = told,
           p \in {"result", "asking"} => toGb' = toGb,
           p = "list" => queue' = queue /\ rec' = rec,
           p \in {"batch", "query"} => toMc' = toMc,
           p = "loop" => loop' = loop,
           p = "answer" => y \in fromDev,
           p = "asked" => y \in toDev
    PROVE  At(sn, x, p, y, j)
<1>1. CASE p = "told"
  <2>1. InTold(sn, x, y, j)'
    BY <1>1 DEF At
  <2>2. InTold(sn, x, y, j)
    BY <1>1, <2>1 DEF InTold, Holds
  <2>3. QED BY <1>1, <2>2 DEF At
<1>2. CASE p = "result"
  <2>1. InResult(sn, x, y, j)'
    BY <1>2 DEF At
  <2>2. InResult(sn, x, y, j)
    BY <1>2, <2>1 DEF InResult, Holds
  <2>3. QED BY <1>2, <2>2 DEF At
<1>3. CASE p = "list"
  <2>1. InList(sn, x, y, j)'
    BY <1>3 DEF At
  <2>2. InList(sn, x, y, j)
    BY <1>3, <2>1 DEF InList, Contents, Holds
  <2>3. QED BY <1>3, <2>2 DEF At
<1>4. CASE p = "batch"
  <2>1. InBatch(sn, x, y, j)'
    BY <1>4 DEF At
  <2>2. InBatch(sn, x, y, j)
    BY <1>4, <2>1 DEF InBatch, Holds
  <2>3. QED BY <1>4, <2>2 DEF At
<1>5. CASE p = "loop"
  <2>1. InLoop(sn, x, y, j)'
    BY <1>5 DEF At
  <2>2. InLoop(sn, x, y, j)
    BY <1>5, <2>1 DEF InLoop, Holds
  <2>3. QED BY <1>5, <2>2 DEF At
<1>6. CASE p = "answer"
  <2>1. InAnswer(sn, x, y, j)'
    BY <1>6 DEF At
  <2>2. InAnswer(sn, x, y, j)
    BY <1>6, <2>1 DEF InAnswer, Holds
  <2>3. QED BY <1>6, <2>2 DEF At
<1>7. CASE p = "asked"
  <2>1. InAsked(sn, x, y, j)'
    BY <1>7 DEF At
  <2>2. InAsked(sn, x, y, j)
    BY <1>7, <2>1 DEF InAsked, Holds
  <2>3. QED BY <1>7, <2>2 DEF At
<1>8. CASE p = "asking"
  <2>1. InAsking(sn, x, y, j)'
    BY <1>8 DEF At
  <2>2. InAsking(sn, x, y, j)
    BY <1>8, <2>1 DEF InAsking, Holds
  <2>3. QED BY <1>8, <2>2 DEF At
<1>9. CASE p = "query"
  <2>1. InQuery(sn, x, y, j)'
    BY <1>9 DEF At
  <2>2. InQuery(sn, x, y, j)
    BY <1>9, <2>1 DEF InQuery, Holds
  <2>3. QED BY <1>9, <2>2 DEF At
<1>10. QED BY <1>1, <1>2, <1>3, <1>4, <1>5, <1>6, <1>7, <1>8, <1>9 DEF At

\* deal_inter_msg: a query goes to the device.
LEMMA GbQueryOnce ==
    ASSUME Sound, Once, GbQuery
    PROVE  Once'
<1> DEFINE h == Head(toGb)
           d == [ctx |-> h.ctx, item |-> h.item]
           new(p, y) == p = "asked" /\ y \notin toDev
           wp(p, y) == IF new(p, y) THEN "asking" ELSE p
           wy(p, y) == IF new(p, y) THEN 1 ELSE IF p \in {"result", "asking"} THEN y + 1 ELSE y
<1>1. /\ toGb # <<>> /\ toGb' = Tail(toGb) /\ h.type = "query" /\ toDev' = toDev \cup {d}
      /\ UNCHANGED <<told, fromDev, loop, toMc, queue, rec>>
  BY DEF GbQuery, mc
<1>2. toGb \in Seq(QueryOut \cup ResultOut)
  BY DEF Sound, Messages
<1>3. /\ Len(toGb') = Len(toGb) - 1 /\ h = toGb[1] /\ Len(toGb) \in Nat \ {0}
      /\ \A i \in 1 .. Len(toGb) - 1 : toGb'[i] = toGb[i + 1]
  BY <1>1, <1>2, TailRange
<1>4. \A i \in 1 .. Len(toGb') : i + 1 \in 1 .. Len(toGb) /\ toGb'[i] = toGb[i + 1]
  BY <1>3
<1>5. 1 \in 1 .. Len(toGb)
  BY <1>3
<1>6. \A y \in toDev' : y \in toDev \/ (y = d /\ y.ctx = toGb[1].ctx /\ y.item = toGb[1].item)
  BY <1>1, <1>3
<1>7. toGb[1].type = "query"
  BY <1>1, <1>3
<1> HIDE DEF h, d
<1>8. ASSUME NEW sn \in Sn, NEW x, NEW p, NEW y, NEW j, At(sn, x, p, y, j)'
      PROVE  At(sn, x, wp(p, y), wy(p, y), j)
  <2>1. \A c : Waits(sn, c)' <=> Waits(sn, c)
    BY <1>1 DEF Waits
  <2>2. CASE p = "asked"
    <3>1. InAsked(sn, x, y, j)'
      BY <1>8, <2>2 DEF At
    <3>2. y \in toDev \/ InAsking(sn, x, 1, j)
      BY <1>5, <1>6, <1>7, <2>1, <3>1 DEF InAsked, InAsking, Holds
    <3>3. y \in toDev => InAsked(sn, x, y, j)
      BY <2>1, <3>1 DEF InAsked, Holds
    <3>4. QED BY <2>2, <3>2, <3>3 DEF At
  <2>3. CASE p = "asking"
    <3>1. InAsking(sn, x, y, j)'
      BY <1>8, <2>3 DEF At
    <3>2. InAsking(sn, x, y + 1, j)
      BY <1>4, <2>1, <3>1 DEF InAsking, Holds
    <3>3. QED BY <2>3, <3>2 DEF At
  <2>4. CASE p = "result"
    <3>1. InResult(sn, x, y, j)'
      BY <1>8, <2>4 DEF At
    <3>2. InResult(sn, x, y + 1, j)
      BY <1>4, <3>1 DEF InResult, Holds
    <3>3. QED BY <2>4, <3>2 DEF At
  <2>5. CASE p \notin {"asked", "asking", "result"}
    <3>1. p = "answer" => y \in fromDev
      BY <1>1, <1>8 DEF At, InAnswer
    <3>2. At(sn, x, p, y, j)
      BY <1>1, <1>8, <2>1, <2>5, <3>1, Unmoved
    <3>3. QED BY <2>5, <3>2
  <2>6. QED BY <2>2, <2>3, <2>4, <2>5
<1>9. SUFFICES ASSUME NEW sn \in Sn, NEW x, NEW p, NEW y, NEW j, NEW p2, NEW y2, NEW j2,
                      At(sn, x, p, y, j)', At(sn, x, p2, y2, j2)'
               PROVE  p = p2 /\ y = y2 /\ j = j2
  BY DEF Once
<1>10. wp(p, y) = wp(p2, y2) /\ wy(p, y) = wy(p2, y2) /\ j = j2
  BY <1>8, <1>9 DEF Once
<1>11. /\ new(p, y) => y = d
       /\ new(p2, y2) => y2 = d
  BY <1>6, <1>9 DEF At, InAsked
<1>12. /\ p \in {"result", "asking"} => y \in 1 .. Len(toGb')
       /\ p2 \in {"result", "asking"} => y2 \in 1 .. Len(toGb')
  BY <1>9 DEF At, InResult, InAsking
<1>13. QED BY <1>10, <1>11, <1>12

\* deal_inter_msg: an answer goes to the platform.
LEMMA GbResultOnce ==
    ASSUME Sound, Once, GbResult
    PROVE  Once'
<1> DEFINE h == Head(toGb)
           new(sn, p, y) == p = "told" /\ y \notin 1 .. Len(told[sn])
           wp(sn, p, y) == IF new(sn, p, y) THEN "result" ELSE p
           wy(sn, p, y) == IF new(sn, p, y) THEN 1 ELSE IF p \in {"result", "asking"} THEN y + 1 ELSE y
<1>1. /\ toGb # <<>> /\ toGb' = Tail(toGb) /\ h.type = "result"
      /\ told' = [told EXCEPT ![h.sn] = Append(@, h.list)]
      /\ UNCHANGED <<toDev, fromDev, loop, toMc, queue, rec>>
  BY DEF GbResult, mc
<1>2. toGb \in Seq(QueryOut \cup ResultOut) /\ told \in [Sn -> Seq(Seq(AllRecords))]
  BY DEF Sound, Messages
<1>3. /\ Len(toGb') = Len(toGb) - 1 /\ h = toGb[1] /\ Len(toGb) \in Nat \ {0}
      /\ \A i \in 1 .. Len(toGb) - 1 : toGb'[i] = toGb[i + 1]
      /\ h \in QueryOut \cup ResultOut
  BY <1>1, <1>2, TailRange
<1>4. \A i \in 1 .. Len(toGb') : i + 1 \in 1 .. Len(toGb) /\ toGb'[i] = toGb[i + 1]
  BY <1>3
<1>5. 1 \in 1 .. Len(toGb) /\ toGb[1].type = "result"
  BY <1>1, <1>3
<1>6. h \in ResultOut
  BY <1>1, <1>3, Kinds
<1>7. h.sn \in Sn /\ h.list \in Seq(AllRecords)
  BY <1>6 DEF ResultOut
<1>8. ASSUME NEW sn \in Sn, NEW y \in 1 .. Len(told'[sn])
      PROVE  \/ y \in 1 .. Len(told[sn]) /\ told'[sn][y] = told[sn][y]
             \/ y = Len(told[sn]) + 1 /\ sn = toGb[1].sn /\ told'[sn][y] = toGb[1].list
  <2>1. CASE sn = h.sn
    <3> DEFINE t == told[sn]
    <3>1. t \in Seq(Seq(AllRecords)) /\ told'[sn] = Append(t, h.list)
      BY <1>1, <1>2, <2>1
    <3> HIDE DEF t
    <3>2. /\ Len(Append(t, h.list)) = Len(t) + 1 /\ Append(t, h.list)[Len(t) + 1] = h.list
          /\ Len(t) \in Nat /\ \A i \in 1 .. Len(t) : Append(t, h.list)[i] = t[i]
      BY <1>7, <3>1, AppendRange
    <3>3. y \in 1 .. Len(t) \/ y = Len(t) + 1
      BY <1>8, <3>1, <3>2
    <3>4. QED BY <1>3, <2>1, <3>1, <3>2, <3>3 DEF t
  <2>2. CASE sn # h.sn
    BY <1>1, <1>2, <1>8, <2>2
  <2>3. QED BY <2>1, <2>2
<1> HIDE DEF h
<1>9. ASSUME NEW sn \in Sn, NEW x, NEW p, NEW y, NEW j, At(sn, x, p, y, j)'
      PROVE  At(sn, x, wp(sn, p, y), wy(sn, p, y), j)
  <2>1. \A c : Waits(sn, c)' <=> Waits(sn, c)
    BY <1>1 DEF Waits
  <2>2. CASE p = "told"
    <3>1. InTold(sn, x, y, j)'
      BY <1>9, <2>2 DEF At
    <3>2. \/ y \in 1 .. Len(told[sn]) /\ InTold(sn, x, y, j)
          \/ y \notin 1 .. Len(told[sn]) /\ InResult(sn, x, 1, j)
      BY <1>5, <1>8, <3>1 DEF InTold, InResult, Holds
    <3>3. QED BY <2>2, <3>2 DEF At
  <2>3. CASE p = "asking"
    <3>1. InAsking(sn, x, y, j)'
      BY <1>9, <2>3 DEF At
    <3>2. InAsking(sn, x, y + 1, j)
      BY <1>4, <2>1, <3>1 DEF InAsking, Holds
    <3>3. QED BY <2>3, <3>2 DEF At
  <2>4. CASE p = "result"
    <3>1. InResult(sn, x, y, j)'
      BY <1>9, <2>4 DEF At
    <3>2. InResult(sn, x, y + 1, j)
      BY <1>4, <3>1 DEF InResult, Holds
    <3>3. QED BY <2>4, <3>2 DEF At
  <2>5. CASE p \notin {"told", "asking", "result"}
    <3>1. (p = "answer" => y \in fromDev) /\ (p = "asked" => y \in toDev)
      BY <1>1, <1>9 DEF At, InAnswer, InAsked
    <3>2. At(sn, x, p, y, j)
      BY <1>1, <1>9, <2>1, <2>5, <3>1, Unmoved
    <3>3. QED BY <2>5, <3>2
  <2>6. QED BY <2>2, <2>3, <2>4, <2>5
<1>10. SUFFICES ASSUME NEW sn \in Sn, NEW x, NEW p, NEW y, NEW j, NEW p2, NEW y2, NEW j2,
                       At(sn, x, p, y, j)', At(sn, x, p2, y2, j2)'
                PROVE  p = p2 /\ y = y2 /\ j = j2
  BY DEF Once
<1>11. wp(sn, p, y) = wp(sn, p2, y2) /\ wy(sn, p, y) = wy(sn, p2, y2) /\ j = j2
  BY <1>9, <1>10 DEF Once
<1>12. /\ new(sn, p, y) => y = Len(told[sn]) + 1
       /\ new(sn, p2, y2) => y2 = Len(told[sn]) + 1
  BY <1>8, <1>10 DEF At, InTold
<1>13. /\ p \in {"result", "asking"} => y \in 1 .. Len(toGb')
       /\ p2 \in {"result", "asking"} => y2 \in 1 .. Len(toGb')
  BY <1>10 DEF At, InResult, InAsking
<1>14. QED BY <1>11, <1>12, <1>13

\* An answer of a device reaches the GB server, and is not repeated.
LEMMA GbAnswerOnce ==
    ASSUME Once, NEW a \in fromDev, GbAnswer(a), ~Fault("dup")
    PROVE  Once'
<1> DEFINE wp(p) == IF p = "loop" THEN "answer" ELSE p
           wy(p, y) == IF p = "loop" THEN a ELSE y
<1>1. /\ loop' = a /\ fromDev' = fromDev \ {a}
      /\ UNCHANGED <<told, toGb, toDev, toMc, queue, rec>>
  BY DEF GbAnswer, mc
<1>2. ASSUME NEW sn \in Sn, NEW x, NEW p, NEW y, NEW j, At(sn, x, p, y, j)'
      PROVE  At(sn, x, wp(p), wy(p, y), j)
  <2>1. \A c : Waits(sn, c)' <=> Waits(sn, c)
    BY <1>1 DEF Waits
  <2>2. CASE p = "loop"
    <3>1. InLoop(sn, x, y, j)'
      BY <1>2, <2>2 DEF At
    <3>2. InAnswer(sn, x, a, j)
      BY <1>1, <2>1, <3>1 DEF InLoop, InAnswer, Holds
    <3>3. QED BY <2>2, <3>2 DEF At
  <2>3. CASE p # "loop"
    <3>1. (p = "answer" => y \in fromDev) /\ (p = "asked" => y \in toDev)
      BY <1>1, <1>2 DEF At, InAnswer, InAsked
    <3>2. At(sn, x, p, y, j)
      BY <1>1, <1>2, <2>1, <2>3, <3>1, Unmoved
    <3>3. QED BY <2>3, <3>2
  <2>4. QED BY <2>2, <2>3
<1>3. SUFFICES ASSUME NEW sn \in Sn, NEW x, NEW p, NEW y, NEW j, NEW p2, NEW y2, NEW j2,
                      At(sn, x, p, y, j)', At(sn, x, p2, y2, j2)'
               PROVE  p = p2 /\ y = y2 /\ j = j2
  BY DEF Once
<1>4. wp(p) = wp(p2) /\ wy(p, y) = wy(p2, y2) /\ j = j2
  BY <1>2, <1>3 DEF Once
<1>5. /\ p = "answer" => y # a
      /\ p2 = "answer" => y2 # a
  BY <1>1, <1>3 DEF At, InAnswer
<1>6. (p = "loop" => y = 0) /\ (p2 = "loop" => y2 = 0)
  BY <1>3 DEF At, InLoop
<1>7. QED BY <1>4, <1>5, <1>6

\* add_recordinfo_query_result: the first n records of the answer go to the
\* message centre, or are lost, and the loop goes on behind the first m.
LEMMA HandsOnce ==
    ASSUME Sound, Once, loop # Null, NEW n \in 0 .. Len(loop.list), NEW m \in 0 .. Len(loop.list),
           toMc' = toMc \/ (toMc' = HandOver(n) /\ n <= m),
           loop' = Null \/ loop' = [loop EXCEPT !.list = Rest(@, m)],
           UNCHANGED <<told, toGb, toDev, fromDev, queue, rec>>
    PROVE  Once'
<1> DEFINE new(p, y) == p = "batch" /\ y \notin 1 .. Len(toMc)
           wp(p, y) == IF new(p, y) THEN "loop" ELSE p
           wy(p, y) == IF new(p, y) THEN 0 ELSE y
           wj(p, j) == IF p = "loop" THEN j + m ELSE j
<1>1. loop \in AnswerMsg /\ toMc \in Seq(QueryIn \cup AnswerIn)
  BY DEF Sound, Messages
<1>2. loop.list \in Seq(AllRecords) /\ Len(loop.list) \in Nat
  BY <1>1, LenProperties DEF AnswerMsg
<1>3. ASSUME NEW y \in 1 .. Len(toMc')
      PROVE  \/ y \in 1 .. Len(toMc) /\ toMc'[y] = toMc[y]
             \/ /\ y = Len(toMc) + 1 /\ toMc'[y].type = "answer" /\ toMc'[y].ctx = loop.ctx
                /\ n <= m /\ Len(toMc'[y].list) = n
                /\ \A j \in 1 .. n : j \in 1 .. Len(loop.list) /\ toMc'[y].list[j] = loop.list[j]
  <2>1. CASE toMc' = toMc
    BY <1>3, <2>1
  <2>2. CASE toMc' = HandOver(n) /\ n <= m
    <3> DEFINE l == SubSeq(loop.list, 1, n)
               e == [type |-> "answer", ctx |-> loop.ctx, dev |-> loop.dev, sum |-> loop.sum, list |-> l]
    <3>1. l \in Seq(AllRecords) /\ Len(l) = n /\ \A i \in 1 .. n : l[i] = loop.list[i]
      BY <1>2, FirstIs
    <3>2. toMc' = Append(toMc, e)
      BY <2>2 DEF HandOver
    <3> HIDE DEF l
    <3>3. e \in QueryIn \cup AnswerIn
      BY <1>1, <3>1 DEF AnswerIn, AnswerMsg
    <3>4. e.type = "answer" /\ e.ctx = loop.ctx /\ e.list = l
      OBVIOUS
    <3> HIDE DEF e
    <3>5. /\ Len(Append(toMc, e)) = Len(toMc) + 1 /\ Len(toMc) \in Nat
          /\ Append(toMc, e)[Len(toMc) + 1] = e
          /\ \A i \in 1 .. Len(toMc) : Append(toMc, e)[i] = toMc[i]
      BY <1>1, <3>3, AppendRange
    <3>6. y \in 1 .. Len(toMc) \/ y = Len(toMc) + 1
      BY <1>3, <3>2, <3>5
    <3>7. \A j \in 1 .. n : j \in 1 .. Len(loop.list)
      BY <1>2
    <3>8. QED BY <2>2, <3>1, <3>2, <3>4, <3>5, <3>6, <3>7
  <2>3. QED BY <2>1, <2>2
<1>4. loop' # Null =>
        /\ loop'.ctx = loop.ctx
        /\ \A j \in 1 .. Len(loop'.list) : /\ j \in Nat \ {0} /\ j + m \in 1 .. Len(loop.list)
                                           /\ loop'.list[j] = loop.list[j + m]
  <2>1. SUFFICES ASSUME loop' = [loop EXCEPT !.list = Rest(@, m)]
                 PROVE  /\ loop'.ctx = loop.ctx
                        /\ \A j \in 1 .. Len(loop'.list) : /\ j \in Nat \ {0}
                                                           /\ j + m \in 1 .. Len(loop.list)
                                                           /\ loop'.list[j] = loop.list[j + m]
    OBVIOUS
  <2>2. loop'.ctx = loop.ctx /\ loop'.list = Rest(loop.list, m)
    BY <1>1, <2>1 DEF AnswerMsg
  <2>3. /\ Len(Rest(loop.list, m)) = Len(loop.list) - m
        /\ \A i \in 1 .. Len(loop.list) - m : Rest(loop.list, m)[i] = loop.list[m + i]
    BY <1>2, RestIs
  <2> DEFINE t == Rest(loop.list, m)
  <2>4. loop'.list = t /\ Len(t) = Len(loop.list) - m
        /\ \A i \in 1 .. Len(loop.list) - m : t[i] = loop.list[m + i]
    BY <2>2, <2>3
  <2> HIDE DEF t
  <2>5. \A j \in 1 .. Len(loop.list) - m : /\ j \in Nat \ {0} /\ j + m \in 1 .. Len(loop.list)
                                          /\ m + j = j + m
    BY <1>2
  <2>6. QED BY <2>2, <2>4, <2>5
<1>5. ASSUME NEW sn \in Sn, NEW x, NEW p, NEW y, NEW j, At(sn, x, p, y, j)'
      PROVE  At(sn, x, wp(p, y), wy(p, y), wj(p, j))
  <2>1. \A c : Waits(sn, c)' <=> Waits(sn, c)
    BY DEF Waits
  <2>2. CASE p = "loop"
    <3>1. InLoop(sn, x, y, j)'
      BY <1>5, <2>2 DEF At
    <3>2. InLoop(sn, x, y, j + m)
      BY <1>4, <2>1, <3>1 DEF InLoop, Holds
    <3>3. QED BY <2>2, <3>2 DEF At
  <2>3. CASE p = "batch"
    <3>1. InBatch(sn, x, y, j)'
      BY <1>5, <2>3 DEF At
    <3>2. \/ y \in 1 .. Len(toMc) /\ InBatch(sn, x, y, j)
          \/ y \notin 1 .. Len(toMc) /\ InLoop(sn, x, 0, j)
      <4>1. /\ y \in 1 .. Len(toMc') /\ toMc'[y].type = "answer"
            /\ Waits(sn, toMc'[y].ctx) /\ Holds(toMc'[y].list, x, j)
        BY <2>1, <3>1 DEF InBatch
      <4>2. CASE y \in 1 .. Len(toMc) /\ toMc'[y] = toMc[y]
        BY <4>1, <4>2 DEF InBatch
      <4>3. CASE ~(y \in 1 .. Len(toMc) /\ toMc'[y] = toMc[y])
        <5>1. /\ y = Len(toMc) + 1 /\ toMc'[y].ctx = loop.ctx /\ Len(toMc'[y].list) = n
              /\ \A i \in 1 .. n : i \in 1 .. Len(loop.list) /\ toMc'[y].list[i] = loop.list[i]
          BY <1>3, <4>1, <4>3
        <5>2. Holds(loop.list, x, j)
          BY <4>1, <5>1 DEF Holds
        <5>3. Len(toMc) \in Nat
          BY <1>1, LenProperties
        <5>4. y \notin 1 .. Len(toMc)
          BY <5>1, <5>3
        <5>5. QED BY <4>1, <5>1, <5>2, <5>4 DEF InLoop
      <4>4. QED BY <4>2, <4>3
    <3>3. QED BY <2>3, <3>2 DEF At
  <2>4. CASE p = "query"
    <3>1. InQuery(sn, x, y, j)'
      BY <1>5, <2>4 DEF At
    <3>2. InQuery(sn, x, y, j)
      BY <1>3, <3>1 DEF InQuery, Holds
    <3>3. QED BY <2>4, <3>2 DEF At
  <2>5. CASE p \notin {"loop", "batch", "query"}
    <3>1. (p = "answer" => y \in fromDev) /\ (p = "asked" => y \in toDev)
      BY <1>5 DEF At, InAnswer, InAsked
    <3>2. At(sn, x, p, y, j)
      BY <1>5, <2>1, <2>5, <3>1, Unmoved
    <3>3. QED BY <2>5, <3>2
  <2>6. QED BY <2>2, <2>3, <2>4, <2>5
<1>6. SUFFICES ASSUME NEW sn \in Sn, NEW x, NEW p, NEW y, NEW j, NEW p2, NEW y2, NEW j2,
                      At(sn, x, p, y, j)', At(sn, x, p2, y2, j2)'
               PROVE  p = p2 /\ y = y2 /\ j = j2
  BY DEF Once
<1>7. wp(p, y) = wp(p2, y2) /\ wy(p, y) = wy(p2, y2) /\ wj(p, j) = wj(p2, j2)
  BY <1>5, <1>6 DEF Once
<1>8. /\ new(p, y) => y = Len(toMc) + 1 /\ n <= m /\ j \in 1 .. n
      /\ new(p2, y2) => y2 = Len(toMc) + 1 /\ n <= m /\ j2 \in 1 .. n
  <2>1. \A yy, jj : InBatch(sn, x, yy, jj)' /\ yy \notin 1 .. Len(toMc)
                       => yy = Len(toMc) + 1 /\ n <= m /\ jj \in 1 .. n
    BY <1>3 DEF InBatch, Holds
  <2>2. QED BY <1>6, <2>1 DEF At
<1>9. /\ p = "loop" => y = 0 /\ j \in Nat \ {0}
      /\ p2 = "loop" => y2 = 0 /\ j2 \in Nat \ {0}
  <2>1. \A yy, jj : InLoop(sn, x, yy, jj)' => yy = 0 /\ jj \in Nat \ {0}
    BY <1>4 DEF InLoop, Holds
  <2>2. QED BY <1>6, <2>1 DEF At
<1>10. QED BY <1>7, <1>8, <1>9

\* A device's records are all different ...
LEMMA NoRecordTwice ==
    ASSUME Messages, NEW i \in Item
    PROVE  NoRepeat(Records[i]) /\ NoRepeat(Has(i))
<1>1. NoRepeat(Records[i]) /\ Records[i] \in Seq(Range(Records[i]))
  BY RecordsAssumption DEF NoRepeat
<1>2. held[i] \in 0 .. Len(Records[i])
  BY <1>1, LenProperties DEF Messages
<1>3. QED BY <1>1, <1>2, SplitIs DEF Has

\* ... and each is in one of the lists that it sends.
LEMMA DeviceOnce ==
    ASSUME Sound, Once, NEW q \in toDev, DevAnswer(q), ~Fault("dup")
    PROVE  Once'
<1> DEFINE all == Has(q.item)
           lists == IF all = <<>> THEN {<<>>} ELSE Range(Pieces(all, DevBatch))
           ans(l) == [ctx |-> q.ctx, dev |-> q.item, sum |-> Len(all), list |-> l]
<1>1. /\ fromDev' = fromDev \cup {ans(l) : l \in lists} /\ toDev' = toDev \ {q}
      /\ UNCHANGED <<told, toGb, loop, toMc, queue, rec>>
  BY DEF DevAnswer, mc
<1>2. q.item \in Item /\ Messages
  BY DEF Sound, Messages
<1>3. NoRepeat(Has(q.item)) /\ Has(q.item) \in Seq(AllRecords)
  BY <1>2, NoRecordTwice, HasIs
<1>4. ASSUME NEW l \in lists, NEW j \in 1 .. Len(l)
      PROVE  \E i \in 1 .. Len(Records[q.item]) : Records[q.item][i] = l[j]
  <2>1. l \in Seq(AllRecords) /\ Range(l) \subseteq Range(Records[q.item])
    BY <1>2, DeviceLists
  <2>2. l[j] \in Range(Records[q.item])
    BY <2>1, InRange
  <2>3. Records[q.item] \in Seq(Range(Records[q.item]))
    BY <1>2, RecordsAssumption
  <2>4. QED BY <2>2, <2>3, InRange
<1>5. ASSUME NEW l \in lists, NEW l2 \in lists, NEW j \in 1 .. Len(l), NEW j2 \in 1 .. Len(l2),
             l[j] = l2[j2]
      PROVE  l = l2 /\ j = j2
  <2>1. CASE all = <<>>
    BY <1>5, <2>1
  <2>2. CASE all # <<>>
    <3> DEFINE p == Pieces(all, DevBatch)
    <3>1. p \in Seq(Seq(AllRecords))
      BY <1>3, PiecesAre, BatchAssumption
    <3>2. \A k, k2 \in 1 .. Len(p) : \A i \in 1 .. Len(p[k]), i2 \in 1 .. Len(p[k2]) :
             p[k][i] = p[k2][i2] => k = k2 /\ i = i2
      BY <1>3, PiecesApart, BatchAssumption
    <3> HIDE DEF p
    <3>3. l \in Range(p) /\ l2 \in Range(p)
      BY <2>2 DEF p
    <3>4. PICK k \in 1 .. Len(p), k2 \in 1 .. Len(p) : p[k] = l /\ p[k2] = l2
      BY <3>1, <3>3, InRange
    <3>5. QED BY <1>5, <3>2, <3>4
  <2>3. QED BY <2>1, <2>2
<1> DEFINE new == {ans(l) : l \in lists}
<1>6. \A y \in new : y.ctx = q.ctx /\ y.list \in lists /\ y = ans(y.list)
  OBVIOUS
<1> HIDE DEF lists, all
<1>7. \A y, y2 \in new : y.list = y2.list => y = y2
  BY <1>6
<1>8. fromDev' = fromDev \cup new
  BY <1>1
<1> HIDE DEF new, ans
<1>9. ASSUME NEW sn \in Sn, NEW x, NEW p, NEW y, NEW j, At(sn, x, p, y, j)'
      PROVE  \/ /\ At(sn, x, p, y, j)
                /\ p = "asked" => y # q
             \/ /\ p = "answer" /\ y \in new /\ y.list \in lists /\ Holds(y.list, x, j)
                /\ \E i : At(sn, x, "asked", q, i)
  <2>1. \A c : Waits(sn, c)' <=> Waits(sn, c)
    BY <1>1 DEF Waits
  <2>2. CASE p = "answer" /\ y \notin fromDev
    <3>1. InAnswer(sn, x, y, j)'
      BY <1>9, <2>2 DEF At
    <3>2. y \in new /\ Waits(sn, q.ctx) /\ Holds(y.list, x, j) /\ y.list \in lists
      BY <1>6, <1>8, <2>1, <2>2, <3>1 DEF InAnswer, Holds
    <3>3. PICK i \in 1 .. Len(Records[q.item]) : Records[q.item][i] = x
      BY <1>4, <3>2 DEF Holds
    <3>4. InAsked(sn, x, q, i)
      BY <3>2, <3>3 DEF InAsked, Holds
    <3>5. QED BY <2>2, <3>2, <3>4 DEF At
  <2>3. CASE ~(p = "answer" /\ y \notin fromDev)
    <3>1. p = "asked" => y \in toDev /\ y # q
      BY <1>1, <1>9 DEF At, InAsked
    <3>2. At(sn, x, p, y, j)
      BY <1>1, <1>9, <2>1, <2>3, <3>1, Unmoved
    <3>3. QED BY <3>1, <3>2
  <2>4. QED BY <2>2, <2>3
<1>10. SUFFICES ASSUME NEW sn \in Sn, NEW x, NEW p, NEW y, NEW j, NEW p2, NEW y2, NEW j2,
                       At(sn, x, p, y, j)', At(sn, x, p2, y2, j2)'
                PROVE  p = p2 /\ y = y2 /\ j = j2
  BY DEF Once
<1> DEFINE old(pp, yy, jj) == At(sn, x, pp, yy, jj) /\ (pp = "asked" => yy # q)
           got(pp, yy, jj) == /\ pp = "answer" /\ yy \in new /\ yy.list \in lists
                              /\ Holds(yy.list, x, jj) /\ \E i : At(sn, x, "asked", q, i)
<1>11. /\ old(p, y, j) \/ got(p, y, j)
       /\ old(p2, y2, j2) \/ got(p2, y2, j2)
  BY <1>9, <1>10
<1>12. ASSUME NEW pp, NEW yy, NEW jj, old(pp, yy, jj), \E i : At(sn, x, "asked", q, i)
       PROVE  FALSE
  BY <1>12 DEF Once
<1>13. CASE old(p, y, j) /\ old(p2, y2, j2)
  BY <1>13 DEF Once
<1>14. CASE got(p, y, j) /\ got(p2, y2, j2)
  <2>1. y.list = y2.list /\ j = j2
    BY <1>5, <1>14 DEF Holds
  <2>2. QED BY <1>7, <1>14, <2>1
<1>15. QED BY <1>11, <1>12, <1>13, <1>14

\* What is lost, or answered under another id, is not told more often.
LEMMA NetworkOnce ==
    ASSUME Sound, Once,
           Lose \/ (\E i \in Item : DevGrows(i)) \/ \E a \in fromDev : DevAnswersAsOther(a)
    PROVE  Once'
<1>1. UNCHANGED <<told, toGb, loop, toMc, queue, rec>> /\ toDev' \subseteq toDev
  BY DEF Lose, DevGrows, DevAnswersAsOther, mc
<1>2. \A sn, c : Waits(sn, c)' <=> Waits(sn, c)
  BY <1>1 DEF Waits
<1>3. CASE fromDev' \subseteq fromDev
  <2>1. ASSUME NEW sn \in Sn, NEW x, NEW p, NEW y, NEW j, At(sn, x, p, y, j)'
        PROVE  At(sn, x, p, y, j)
    <3>1. (p = "answer" => y \in fromDev) /\ (p = "asked" => y \in toDev)
      BY <1>1, <1>3, <2>1 DEF At, InAnswer, InAsked
    <3>2. QED BY <1>1, <1>2, <2>1, <3>1, Unmoved
  <2>2. QED BY <2>1 DEF Once
<1>4. CASE \E a \in fromDev : DevAnswersAsOther(a)
  <2>1. PICK a \in fromDev : fromDev' = (fromDev \ {a}) \cup {[a EXCEPT !.dev = Other]}
    BY <1>4 DEF DevAnswersAsOther
  <2>2. a \in AnswerMsg
    BY DEF Sound, Messages
  <2> DEFINE b == [a EXCEPT !.dev = Other]
             wy(p, y) == IF p = "answer" /\ y \notin fromDev THEN a ELSE y
  <2>3. b.ctx = a.ctx /\ b.list = a.list /\ \A y \in fromDev' : y = b \/ (y \in fromDev /\ y # a)
    BY <2>1, <2>2 DEF AnswerMsg
  <2> HIDE DEF b
  <2>4. ASSUME NEW sn \in Sn, NEW x, NEW p, NEW y, NEW j, At(sn, x, p, y, j)'
        PROVE  At(sn, x, p, wy(p, y), j)
    <3>1. CASE p = "answer" /\ y \notin fromDev
      <4>1. InAnswer(sn, x, y, j)'
        BY <2>4, <3>1 DEF At
      <4>2. InAnswer(sn, x, a, j)
        BY <1>2, <2>3, <3>1, <4>1 DEF InAnswer, Holds
      <4>3. QED BY <3>1, <4>2 DEF At
    <3>2. CASE ~(p = "answer" /\ y \notin fromDev)
      <4>1. (p = "answer" => y \in fromDev) /\ (p = "asked" => y \in toDev)
        BY <1>1, <2>4, <3>2 DEF At, InAsked
      <4>2. At(sn, x, p, y, j)
        BY <1>1, <1>2, <2>4, <4>1, Unmoved
      <4>3. QED BY <3>2, <4>2
    <3>3. QED BY <3>1, <3>2
  <2>5. SUFFICES ASSUME NEW sn \in Sn, NEW x, NEW p, NEW y, NEW j, NEW p2, NEW y2, NEW j2,
                        At(sn, x, p, y, j)', At(sn, x, p2, y2, j2)'
                 PROVE  p = p2 /\ y = y2 /\ j = j2
    BY DEF Once
  <2>6. p = p2 /\ wy(p, y) = wy(p2, y2) /\ j = j2
    BY <2>4, <2>5 DEF Once
  <2>7. (p = "answer" => y \in fromDev') /\ (p2 = "answer" => y2 \in fromDev')
    BY <2>5 DEF At, InAnswer
  <2>8. QED BY <2>3, <2>6, <2>7
<1>5. QED BY <1>3, <1>4 DEF Lose, DevGrows

\* A value of ctx that nothing is underway with is held by no list.
LEMMA NoneUnderway ==
    ASSUME Sound, NEW c, \A x : ~Underway(c, x)
    PROVE  \A x, y, j :
              /\ ~(y \in 1 .. Len(toMc) /\ toMc[y].type = "answer" /\ toMc[y].ctx = c
                   /\ Holds(toMc[y].list, x, j))
              /\ ~(loop # Null /\ loop.ctx = c /\ Holds(loop.list, x, j))
              /\ ~(y \in fromDev /\ y.ctx = c /\ Holds(y.list, x, j))
              /\ ~(y \in toDev /\ y.ctx = c /\ Holds(Records[y.item], x, j))
              /\ ~(y \in 1 .. Len(toGb) /\ toGb[y].type = "query" /\ toGb[y].ctx = c
                   /\ Holds(Records[toGb[y].item], x, j))
<1>1. Messages
  BY DEF Sound
<1>2. TAKE x, y, j
<1>3. ASSUME NEW S, NEW l \in Seq(S), Holds(l, x, j)
      PROVE  x \in Range(l)
  BY <1>3, InRange DEF Holds
<1>4. \A i \in Item : Records[i] \in Seq(Range(Records[i]))
  BY RecordsAssumption
<1>5. ASSUME y \in 1 .. Len(toMc), toMc[y].type = "answer", toMc[y].ctx = c, Holds(toMc[y].list, x, j)
      PROVE  FALSE
  <2>1. toMc \in Seq(QueryIn \cup AnswerIn)
    BY <1>1 DEF Messages
  <2>2. toMc[y] \in Range(toMc) /\ toMc[y] \in QueryIn \cup AnswerIn
    BY <1>5, <2>1, InRange, ElementOfSeq
  <2>3. toMc[y] \in AnswerIn
    BY <1>5, <2>2, Kinds
  <2>4. toMc[y].list \in Seq(AllRecords)
    BY <2>3 DEF AnswerIn
  <2>5. x \in Range(toMc[y].list)
    BY <1>3, <1>5, <2>4
  <2>6. QED BY <1>5, <2>2, <2>5 DEF Underway
<1>6. ASSUME loop # Null, loop.ctx = c, Holds(loop.list, x, j)
      PROVE  FALSE
  <2>1. loop.list \in Seq(AllRecords)
    BY <1>1, <1>6 DEF Messages, AnswerMsg
  <2>2. x \in Range(loop.list)
    BY <1>3, <1>6, <2>1
  <2>3. QED BY <1>6, <2>2 DEF Underway
<1>7. ASSUME y \in fromDev, y.ctx = c, Holds(y.list, x, j)
      PROVE  FALSE
  <2>1. y.list \in Seq(AllRecords)
    BY <1>1, <1>7 DEF Messages, AnswerMsg
  <2>2. x \in Range(y.list)
    BY <1>3, <1>7, <2>1
  <2>3. QED BY <1>7, <2>2 DEF Underway
<1>8. ASSUME y \in toDev, y.ctx = c, Holds(Records[y.item], x, j)
      PROVE  FALSE
  <2>1. y.item \in Item
    BY <1>1, <1>8 DEF Messages
  <2>2. x \in Range(Records[y.item])
    BY <1>3, <1>4, <1>8, <2>1
  <2>3. QED BY <1>8, <2>2 DEF Underway
<1>9. ASSUME y \in 1 .. Len(toGb), toGb[y].type = "query", toGb[y].ctx = c,
             Holds(Records[toGb[y].item], x, j)
      PROVE  FALSE
  <2>1. toGb \in Seq(QueryOut \cup ResultOut)
    BY <1>1 DEF Messages
  <2>2. toGb[y] \in Range(toGb) /\ toGb[y] \in QueryOut \cup ResultOut
    BY <1>9, <2>1, InRange, ElementOfSeq
  <2>3. toGb[y].item \in Item
    BY <1>9, <2>2, Kinds DEF QueryOut
  <2>4. x \in Range(Records[toGb[y].item])
    BY <1>3, <1>4, <1>9, <2>3
  <2>5. QED BY <1>9, <2>2, <2>4 DEF Underway
<1>10. QED BY <1>5, <1>6, <1>7, <1>8, <1>9

\* Nobody has any records of a query that has not been asked yet.
LEMMA NotAskedYet ==
    ASSUME Numbered, Truth, NEW sn \in Sn, sn \notin 1 .. Len(asked)
    PROVE  \A x, p, y, j : ~At(sn, x, p, y, j)
<1>1. SUFFICES ASSUME NEW x, NEW p, NEW y, NEW j, At(sn, x, p, y, j) PROVE FALSE
  OBVIOUS
<1>2. Messages /\ Ordered(asked, toMc) /\ Waiting(asked, queue)
  BY DEF Numbered, Numbers, Sound
<1>3. \A c : ~Waits(sn, c)
  BY <1>2 DEF Waits, Waiting
<1>4. \A z : ~Reported(sn, z)
  BY DEF Truth, Reports
<1>5. ~InTold(sn, x, y, j)
  <2>1. SUFFICES ASSUME y \in 1 .. Len(told[sn]), j \in 1 .. Len(told[sn][y]), told[sn][y][j] = x
                 PROVE  FALSE
    BY DEF InTold, Holds
  <2>2. told[sn] \in Seq(Seq(AllRecords))
    BY <1>2 DEF Messages
  <2>3. told[sn][y] \in Range(told[sn]) /\ told[sn][y] \in Seq(AllRecords)
    BY <2>1, <2>2, InRange
  <2>4. x \in Range(told[sn][y])
    BY <2>1, <2>3, InRange
  <2>5. QED BY <1>4, <2>3, <2>4 DEF Reported
<1>6. ~InResult(sn, x, y, j)
  <2>1. SUFFICES ASSUME y \in 1 .. Len(toGb), toGb[y].type = "result", toGb[y].sn = sn,
                        j \in 1 .. Len(toGb[y].list), toGb[y].list[j] = x
                 PROVE  FALSE
    BY DEF InResult, Holds
  <2>2. toGb \in Seq(QueryOut \cup ResultOut)
    BY <1>2 DEF Messages
  <2>3. toGb[y] \in Range(toGb) /\ toGb[y] \in QueryOut \cup ResultOut
    BY <2>1, <2>2, InRange, ElementOfSeq
  <2>4. toGb[y].list \in Seq(AllRecords)
    BY <2>1, <2>3, Kinds DEF ResultOut
  <2>5. x \in Range(toGb[y].list)
    BY <2>1, <2>4, InRange
  <2>6. QED BY <1>4, <2>1, <2>3, <2>5 DEF Reported
<1>7. ~InQuery(sn, x, y, j) /\ ~InList(sn, x, y, j)
  BY <1>2 DEF InQuery, InList, Ordered, Waiting
<1>8. /\ ~InBatch(sn, x, y, j) /\ ~InLoop(sn, x, y, j) /\ ~InAnswer(sn, x, y, j)
      /\ ~InAsked(sn, x, y, j) /\ ~InAsking(sn, x, y, j)
  BY <1>3 DEF InBatch, InLoop, InAnswer, InAsked, InAsking
<1>9. QED BY <1>1, <1>5, <1>6, <1>7, <1>8 DEF At

\* A platform's query stands for all records of its item.
LEMMA PlatformAsksOnce ==
    ASSUME Numbered, Truth, Once, NEW i \in Item \cup {Other}, PlatformAsks(i)
    PROVE  Once'
<1> DEFINE m == [type |-> "query", sn |-> Len(asked) + 1, item |-> i]
<1>1. /\ asked \in Seq(AnyItem) /\ Len(asked) \in Nat /\ Len(asked) < MaxQuery
      /\ toMc \in Seq(QueryIn \cup AnswerIn) /\ Messages
  BY LenProperties DEF Numbered, Sound, TypeOK, Messages, PlatformAsks, AnyItem
<1>2. Len(asked) + 1 \in Sn /\ Len(asked) + 1 \notin 1 .. Len(asked)
  BY <1>1, BoundAssumption DEF Sn
<1>3. /\ toMc' = Append(toMc, m) \/ toMc' = toMc
      /\ UNCHANGED <<told, toGb, toDev, fromDev, loop, queue, rec>>
  BY DEF PlatformAsks, mc
<1>4. m \in QueryIn \cup AnswerIn
  BY <1>2 DEF QueryIn, AnyItem
<1>5. m.type = "query" /\ m.sn = Len(asked) + 1 /\ m.item = i
  OBVIOUS
<1> HIDE DEF m
<1>6. \A y \in 1 .. Len(toMc') : \/ y \in 1 .. Len(toMc) /\ toMc'[y] = toMc[y]
                                 \/ y = Len(toMc) + 1 /\ toMc'[y] = m
  <2>1. /\ Len(Append(toMc, m)) = Len(toMc) + 1 /\ Len(toMc) \in Nat
        /\ Append(toMc, m)[Len(toMc) + 1] = m
        /\ \A y \in 1 .. Len(toMc) : Append(toMc, m)[y] = toMc[y]
    BY <1>1, <1>4, AppendRange
  <2>2. QED BY <1>3, <2>1
<1>7. ASSUME NEW sn \in Sn, NEW x, NEW p, NEW y, NEW j, At(sn, x, p, y, j)'
      PROVE  \/ At(sn, x, p, y, j)
             \/ /\ sn = Len(asked) + 1 /\ p = "query" /\ y = Len(toMc) + 1
                /\ i \in Item /\ Holds(Records[i], x, j)
  <2>1. \A c : Waits(sn, c)' <=> Waits(sn, c)
    BY <1>3 DEF Waits
  <2>2. CASE p = "batch"
    <3>1. InBatch(sn, x, y, j)'
      BY <1>7, <2>2 DEF At
    <3>2. InBatch(sn, x, y, j)
      BY <1>5, <1>6, <2>1, <3>1 DEF InBatch, Holds
    <3>3. QED BY <2>2, <3>2 DEF At
  <2>3. CASE p = "query"
    <3>1. InQuery(sn, x, y, j)'
      BY <1>7, <2>3 DEF At
    <3>2. \/ InQuery(sn, x, y, j)
          \/ sn = Len(asked) + 1 /\ y = Len(toMc) + 1 /\ i \in Item /\ Holds(Records[i], x, j)
      BY <1>5, <1>6, <3>1 DEF InQuery, Holds
    <3>3. QED BY <2>3, <3>2 DEF At
  <2>4. CASE p \notin {"batch", "query"}
    <3>1. (p = "answer" => y \in fromDev) /\ (p = "asked" => y \in toDev)
      BY <1>3, <1>7 DEF At, InAnswer, InAsked
    <3>2. QED BY <1>3, <1>7, <2>1, <2>4, <3>1, Unmoved
  <2>5. QED BY <2>2, <2>3, <2>4
<1>8. SUFFICES ASSUME NEW sn \in Sn, NEW x, NEW p, NEW y, NEW j, NEW p2, NEW y2, NEW j2,
                      At(sn, x, p, y, j)', At(sn, x, p2, y2, j2)'
               PROVE  p = p2 /\ y = y2 /\ j = j2
  BY DEF Once
<1>9. CASE sn = Len(asked) + 1
  <2>1. ~At(sn, x, p, y, j) /\ ~At(sn, x, p2, y2, j2)
    BY <1>2, <1>9, NotAskedYet
  <2>2. /\ p = "query" /\ y = Len(toMc) + 1 /\ i \in Item /\ Holds(Records[i], x, j)
        /\ p2 = "query" /\ y2 = Len(toMc) + 1 /\ Holds(Records[i], x, j2)
    BY <1>7, <1>8, <2>1
  <2>3. NoRepeat(Records[i])
    BY <1>1, <2>2, NoRecordTwice
  <2>4. QED BY <2>2, <2>3 DEF Holds, NoRepeat
<1>10. CASE sn # Len(asked) + 1
  BY <1>7, <1>8, <1>10 DEF Once
<1>11. QED BY <1>9, <1>10

\* The message centre takes a message and leaves it at that.
LEMMA PassesOnce ==
    ASSUME Sound, Once, toMc # <<>>, toMc' = Tail(toMc),
           UNCHANGED <<told, toGb, toDev, fromDev, loop, queue, rec>>
    PROVE  Once'
<1> DEFINE wy(p, y) == IF p \in {"batch", "query"} THEN y + 1 ELSE y
<1>1. toMc \in Seq(QueryIn \cup AnswerIn)
  BY DEF Sound, Messages
<1>2. \A y \in 1 .. Len(toMc') : y + 1 \in 1 .. Len(toMc) /\ toMc'[y] = toMc[y + 1]
  BY <1>1, TailRange
<1>3. ASSUME NEW sn \in Sn, NEW x, NEW p, NEW y, NEW j, At(sn, x, p, y, j)'
      PROVE  At(sn, x, p, wy(p, y), j)
  <2>1. \A c : Waits(sn, c)' <=> Waits(sn, c)
    BY DEF Waits
  <2>2. CASE p = "batch"
    <3>1. InBatch(sn, x, y, j)'
      BY <1>3, <2>2 DEF At
    <3>2. InBatch(sn, x, y + 1, j)
      BY <1>2, <2>1, <3>1 DEF InBatch, Holds
    <3>3. QED BY <2>2, <3>2 DEF At
  <2>3. CASE p = "query"
    <3>1. InQuery(sn, x, y, j)'
      BY <1>3, <2>3 DEF At
    <3>2. InQuery(sn, x, y + 1, j)
      BY <1>2, <3>1 DEF InQuery, Holds
    <3>3. QED BY <2>3, <3>2 DEF At
  <2>4. CASE p \notin {"batch", "query"}
    <3>1. (p = "answer" => y \in fromDev) /\ (p = "asked" => y \in toDev)
      BY <1>3 DEF At, InAnswer, InAsked
    <3>2. At(sn, x, p, y, j)
      BY <1>3, <2>1, <2>4, <3>1, Unmoved
    <3>3. QED BY <2>4, <3>2
  <2>5. QED BY <2>2, <2>3, <2>4
<1>4. SUFFICES ASSUME NEW sn \in Sn, NEW x, NEW p, NEW y, NEW j, NEW p2, NEW y2, NEW j2,
                      At(sn, x, p, y, j)', At(sn, x, p2, y2, j2)'
               PROVE  p = p2 /\ y = y2 /\ j = j2
  BY DEF Once
<1>5. p = p2 /\ wy(p, y) = wy(p2, y2) /\ j = j2
  BY <1>3, <1>4 DEF Once
<1>6. p \in {"batch", "query"} => y \in 1 .. Len(toMc') /\ y2 \in 1 .. Len(toMc')
  BY <1>4, <1>5 DEF At, InBatch, InQuery
<1>7. QED BY <1>5, <1>6

\* query_record_info: what the query stood for, the message to the device
\* stands for now, under a ctx that nothing else has.
LEMMA McQueryOnce ==
    ASSUME Numbered, Truth, Once, Len(asked) < Limit, McQuery
    PROVE  Once'
<1> DEFINE m == [type |-> "query", ctx |-> NewCtx, item |-> Head(toMc).item]
           waits(sn, c) == \E k \in 1 .. Len(queue') : queue'[k].sn = sn /\ queue'[k].ctx = c
           new(p, y) == p = "asking" /\ y \notin 1 .. Len(toGb)
           wp(p, y) == IF new(p, y) THEN "query" ELSE p
           wy(p, y) == IF new(p, y) THEN 1 ELSE IF p \in {"batch", "query"} THEN y + 1 ELSE y
<1>1. /\ Sound /\ toMc \in Seq(QueryIn \cup AnswerIn) /\ toGb \in Seq(QueryOut \cup ResultOut)
      /\ Newer(toMc, queue)
  BY DEF Numbered, Numbers, Sound, Messages
<1>2. /\ Entering \in Query /\ Entering.list = <<>> /\ Entering.ctx = NewCtx
      /\ NewCtx \in Ctx /\ NewCtx \notin InUse
      /\ toMc # <<>> /\ toMc' = Tail(toMc) /\ Head(toMc) \in QueryIn
  BY <1>1, EntersIs
<1>3. /\ ctx \in Nat /\ NewCtx = ctx + 1
      /\ \A j \in 1 .. Len(queue') : \/ j = 1 /\ queue'[j] = Entering
                                     \/ j - 1 \in 1 .. Len(queue) /\ queue'[j] = queue[j - 1]
  BY NextCtx
<1>4. /\ Head(toMc) = toMc[1] /\ 1 \in 1 .. Len(toMc) /\ Len(toMc) \in Nat
      /\ \A y \in 1 .. Len(toMc') : y + 1 \in 1 .. Len(toMc) /\ toMc'[y] = toMc[y + 1]
  BY <1>1, <1>2, TailRange
<1>5. toMc[1].type = "query" /\ Entering.sn = toMc[1].sn /\ toMc[1].item \in Item
  BY <1>4 DEF McQuery, Entering
<1>6. UNCHANGED <<told, fromDev, toDev, loop, rec>>
  BY DEF McQuery
<1>7. m.type = "query" /\ m.ctx = NewCtx /\ m.item = toMc[1].item
  BY <1>4
<1>8. m \in QueryOut \cup ResultOut
  BY <1>2, <1>4, <1>5 DEF QueryOut
<1>9. toGb' = Append(toGb, m) \/ toGb' = toGb
  BY DEF McQuery
<1> HIDE DEF m
<1>10. \A y \in 1 .. Len(toGb') : \/ y \in 1 .. Len(toGb) /\ toGb'[y] = toGb[y]
                                  \/ y = Len(toGb) + 1 /\ toGb'[y] = m
  <2>1. /\ Len(Append(toGb, m)) = Len(toGb) + 1 /\ Len(toGb) \in Nat
        /\ Append(toGb, m)[Len(toGb) + 1] = m
        /\ \A y \in 1 .. Len(toGb) : Append(toGb, m)[y] = toGb[y]
    BY <1>1, <1>8, AppendRange
  <2>2. QED BY <1>9, <2>1
<1>11. \A x : ~Underway(NewCtx, x)
  <2>1. ~(NewCtx <= ctx)
    BY <1>3
  <2>2. QED BY <1>2, <2>1 DEF Truth, Answers
<1>12. \A sn, c : waits(sn, c) => Waits(sn, c) \/ (sn = Entering.sn /\ c = NewCtx)
  BY <1>2, <1>3 DEF Waits
<1>13. \A sn : ~Waits(sn, NewCtx)
  BY <1>2 DEF Waits, InUse
<1>14. ASSUME NEW sn \in Sn, NEW x, NEW p, NEW y, NEW j, At(sn, x, p, y, j)'
       PROVE  At(sn, x, wp(p, y), wy(p, y), j)
  <2>1. CASE p = "told"
    <3>1. InTold(sn, x, y, j)'
      BY <1>14, <2>1 DEF At
    <3>2. InTold(sn, x, y, j)
      BY <1>6, <3>1 DEF InTold, Holds
    <3>3. QED BY <2>1, <3>2 DEF At
  <2>2. CASE p = "result"
    <3>1. InResult(sn, x, y, j)'
      BY <1>14, <2>2 DEF At
    <3>2. InResult(sn, x, y, j)
      BY <1>7, <1>10, <3>1 DEF InResult, Holds
    <3>3. QED BY <2>2, <3>2 DEF At
  <2>3. CASE p = "list"
    <3>1. InList(sn, x, y, j)'
      BY <1>14, <2>3 DEF At
    <3>2. PICK k \in 1 .. Len(queue') : queue'[k].sn = sn /\ Holds(Contents(queue'[k], rec), x, j)
      BY <1>6, <3>1 DEF InList, Contents, Holds
    <3>3. queue'[k] # Entering
      BY <1>2, <3>2 DEF Contents, Holds
    <3>4. k - 1 \in 1 .. Len(queue) /\ queue'[k] = queue[k - 1]
      BY <1>3, <3>3
    <3>5. InList(sn, x, y, j)
      BY <3>1, <3>2, <3>4 DEF InList
    <3>6. QED BY <2>3, <3>5 DEF At
  <2>4. CASE p = "batch"
    <3>1. InBatch(sn, x, y, j)'
      BY <1>14, <2>4 DEF At
    <3>2. /\ y + 1 \in 1 .. Len(toMc) /\ toMc[y + 1].type = "answer"
          /\ waits(sn, toMc[y + 1].ctx) /\ Holds(toMc[y + 1].list, x, j)
      BY <1>4, <3>1 DEF InBatch, Waits, Holds
    <3>3. Waits(sn, toMc[y + 1].ctx)
      BY <1>1, <1>11, <1>12, <3>2, NoneUnderway
    <3>4. InBatch(sn, x, y + 1, j)
      BY <3>2, <3>3 DEF InBatch
    <3>5. QED BY <2>4, <3>4 DEF At
  <2>5. CASE p = "loop"
    <3>1. y = 0 /\ loop # Null /\ waits(sn, loop.ctx) /\ Holds(loop.list, x, j)
      BY <1>6, <1>14, <2>5 DEF At, InLoop, Waits, Holds
    <3>2. Waits(sn, loop.ctx)
      BY <1>1, <1>11, <1>12, <3>1, NoneUnderway
    <3>3. InLoop(sn, x, y, j)
      BY <3>1, <3>2 DEF InLoop
    <3>4. QED BY <2>5, <3>3 DEF At
  <2>6. CASE p = "answer"
    <3>1. y \in fromDev /\ waits(sn, y.ctx) /\ Holds(y.list, x, j)
      BY <1>6, <1>14, <2>6 DEF At, InAnswer, Waits, Holds
    <3>2. Waits(sn, y.ctx)
      BY <1>1, <1>11, <1>12, <3>1, NoneUnderway
    <3>3. InAnswer(sn, x, y, j)
      BY <3>1, <3>2 DEF InAnswer
    <3>4. QED BY <2>6, <3>3 DEF At
  <2>7. CASE p = "asked"
    <3>1. y \in toDev /\ waits(sn, y.ctx) /\ Holds(Records[y.item], x, j)
      BY <1>6, <1>14, <2>7 DEF At, InAsked, Waits, Holds
    <3>2. Waits(sn, y.ctx)
      BY <1>1, <1>11, <1>12, <3>1, NoneUnderway
    <3>3. InAsked(sn, x, y, j)
      BY <3>1, <3>2 DEF InAsked
    <3>4. QED BY <2>7, <3>3 DEF At
  <2>8. CASE p = "asking"
    <3>1. InAsking(sn, x, y, j)'
      BY <1>14, <2>8 DEF At
    <3>2. CASE y \in 1 .. Len(toGb)
      <4>1. Len(toGb) \in Nat
        BY <1>1, LenProperties
      <4>2. y \in 1 .. Len(toGb')
        BY <3>1 DEF InAsking
      <4>3. toGb'[y] = toGb[y]
        BY <1>10, <3>2, <4>1, <4>2
      <4>4. /\ toGb[y].type = "query" /\ waits(sn, toGb[y].ctx) /\ Holds(Records[toGb[y].item], x, j)
        BY <3>1, <4>3 DEF InAsking, Waits, Holds
      <4>5. Waits(sn, toGb[y].ctx)
        BY <1>1, <1>11, <1>12, <3>2, <4>4, NoneUnderway
      <4>6. InAsking(sn, x, y, j)
        BY <3>2, <4>4, <4>5 DEF InAsking
      <4>7. QED BY <2>8, <3>2, <4>6 DEF At
    <3>3. CASE y \notin 1 .. Len(toGb)
      <4>1. waits(sn, NewCtx) /\ Holds(Records[toMc[1].item], x, j)
        BY <1>7, <1>10, <3>1, <3>3 DEF InAsking, Waits, Holds
      <4>2. sn = Entering.sn
        BY <1>12, <1>13, <4>1
      <4>3. InQuery(sn, x, 1, j)
        BY <1>4, <1>5, <4>1, <4>2 DEF InQuery
      <4>4. QED BY <2>8, <3>3, <4>3 DEF At
    <3>4. QED BY <3>2, <3>3
  <2>9. CASE p = "query"
    <3>1. InQuery(sn, x, y, j)'
      BY <1>14, <2>9 DEF At
    <3>2. InQuery(sn, x, y + 1, j)
      BY <1>4, <3>1 DEF InQuery, Holds
    <3>3. QED BY <2>9, <3>2 DEF At
  <2>10. p \in {"told", "result", "list", "batch", "loop", "answer", "asked", "asking", "query"}
    BY <1>14 DEF At
  <2>11. QED BY <2>1, <2>2, <2>3, <2>4, <2>5, <2>6, <2>7, <2>8, <2>9, <2>10
<1>15. SUFFICES ASSUME NEW sn \in Sn, NEW x, NEW p, NEW y, NEW j, NEW p2, NEW y2, NEW j2,
                       At(sn, x, p, y, j)', At(sn, x, p2, y2, j2)'
                PROVE  p = p2 /\ y = y2 /\ j = j2
  BY DEF Once
<1>16. wp(p, y) = wp(p2, y2) /\ wy(p, y) = wy(p2, y2) /\ j = j2
  BY <1>14, <1>15 DEF Once
<1>17. /\ new(p, y) => y = Len(toGb) + 1
       /\ new(p2, y2) => y2 = Len(toGb) + 1
  BY <1>10, <1>15 DEF At, InAsking
<1>18. /\ p \in {"batch", "query"} => y \in 1 .. Len(toMc')
       /\ p2 \in {"batch", "query"} => y2 \in 1 .. Len(toMc')
  BY <1>15 DEF At, InBatch, InQuery
<1>19. QED BY <1>16, <1>17, <1>18

\* What the record items of the k-th query hold after an answer: the records
\* that were taken from it, the last in front, and what they held before.
LEMMA GrownHolds ==
    ASSUME Sound, toMc # <<>>, Answer.type = "answer", NEW k \in 1 .. Len(queue),
           NEW n, n = Taken(queue[k], Answer.list)
    PROVE  /\ n \in Nat /\ n <= Len(Answer.list)
           /\ \A x, j : Holds(Contents(Grown(k), Content(k)), x, j) =>
                 /\ j \in Nat
                 /\ j <= n => Holds(Answer.list, x, n + 1 - j)
                 /\ j > n => Holds(Contents(queue[k], rec), x, j - n)
<1> DEFINE q == queue[k]
           s == Answer.list
           f == SubSeq(free, 1, n)
           l == q.list
           g == Reverse(f)
           c == Contents(Grown(k), Content(k))
<1>1. /\ queue \in Seq(Query) /\ free \in Seq(RecId) /\ Pool(free, queue)
      /\ rec \in [RecId -> AllRecords \cup {Null}]
  BY DEF Sound, Messages, TypeOK
<1>2. q \in Query /\ l \in Seq(RecId) /\ Len(l) \in Nat
  <2>1. q \in Query
    BY <1>1, ElementOfSeq
  <2>2. QED BY <2>1, LenProperties DEF Query
<1>3. s \in Seq(AllRecords) /\ Answer.sum \in Nat /\ Len(s) \in Nat
  BY AnswerIs, LenProperties
<1>4. n \in 0 .. Len(free) /\ n <= Len(s) /\ Len(free) \in Nat
  BY <1>1, <1>3, TakenIs, LenProperties
<1>5. Grown(k).list = g \o l
  <2>1. Grown(k).list = Reverse(SubSeq(free, 1, Taken(q, s))) \o l
    BY <1>1, <1>2, <1>3, LongerIs DEF Grown
  <2>2. QED BY <2>1
<1>6. f \in Seq(RecId) /\ Len(f) = n /\ \A i \in 1 .. n : f[i] = free[i]
  BY <1>1, <1>4, FirstIs
<1> HIDE DEF f
<1>7. g \in Seq(RecId) /\ Len(g) = n /\ \A i \in 1 .. n : g[i] = free[(n - i) + 1]
  <2>1. g \in Seq(RecId) /\ Len(g) = Len(f) /\ \A i \in 1 .. Len(f) : g[i] = f[(Len(f) - i) + 1]
    BY <1>6, ReverseAt
  <2>2. \A i \in 1 .. n : (n - i) + 1 \in 1 .. n
    BY <1>4
  <2>3. QED BY <1>6, <2>1, <2>2
<1> HIDE DEF g
<1>8. /\ Len(g \o l) = n + Len(l)
      /\ \A i \in 1 .. n + Len(l) : (g \o l)[i] = IF i <= n THEN g[i] ELSE l[i - n]
  <2>1. l \in Seq(RecId) /\ g \in Seq(RecId) /\ Len(g) = n
    BY <1>2, <1>7
  <2> HIDE DEF l
  <2>2. /\ Len(g \o l) = Len(g) + Len(l)
        /\ \A i \in 1 .. Len(g) + Len(l) : (g \o l)[i] = IF i <= Len(g) THEN g[i] ELSE l[i - Len(g)]
    BY <2>1, ConcatAt
  <2>3. QED BY <2>1, <2>2
<1>9. ASSUME NEW i \in 1 .. n
      PROVE  Content(k)[free[i]] = s[i]
  <2>1. \A a, b \in 1 .. n : a \in 1 .. Len(free) /\ b \in 1 .. Len(free) /\ (free[a] = free[b] => a = b)
    BY <1>1, <1>4 DEF Pool, NoRepeat
  <2>2. (CHOOSE a \in 1 .. n : free[a] = free[i]) = i
    BY <2>1
  <2>3. free[i] \in RecId
    BY <1>1, <2>1, ElementOfSeq
  <2>4. \E a \in 1 .. n : free[a] = free[i]
    OBVIOUS
  <2>5. Content(k) = [r \in RecId |-> IF \E a \in 1 .. n : free[a] = r
                                      THEN s[CHOOSE a \in 1 .. n : free[a] = r] ELSE rec[r]]
    BY DEF Content, Filled
  <2>6. Content(k)[free[i]] = s[CHOOSE a \in 1 .. n : free[a] = free[i]]
    BY <2>3, <2>4, <2>5
  <2>7. QED BY <2>2, <2>6
<1>10. ASSUME NEW i \in 1 .. Len(l)
       PROVE  Content(k)[l[i]] = rec[l[i]]
  <2>1. l[i] \in Range(l) /\ l[i] \in RecId
    BY <1>2, InRange, ElementOfSeq
  <2>2. Range(free) \cap Range(l) = {}
    BY <1>1 DEF Pool
  <2>3. ~\E a \in 1 .. n : free[a] = l[i]
    <3>1. SUFFICES ASSUME NEW a \in 1 .. n, free[a] = l[i] PROVE FALSE
      OBVIOUS
    <3>2. a \in 1 .. Len(free)
      BY <1>4
    <3>3. free[a] \in Range(free)
      BY <1>1, <3>2, InRange
    <3>4. QED BY <2>1, <2>2, <3>1, <3>3
  <2>4. Content(k) = [r \in RecId |-> IF \E a \in 1 .. n : free[a] = r
                                      THEN s[CHOOSE a \in 1 .. n : free[a] = r] ELSE rec[r]]
    BY DEF Content, Filled
  <2>5. QED BY <2>1, <2>3, <2>4
<1>11. /\ Len(c) = n + Len(l)
       /\ \A j \in 1 .. n + Len(l) : c[j] = Content(k)[(g \o l)[j]]
  <2> DEFINE m == n + Len(l)
             v(j) == Content(k)[(g \o l)[j]]
  <2>1. c = [j \in 1 .. m |-> v(j)]
    BY <1>5, <1>8 DEF Contents
  <2>2. m \in Nat
    BY <1>2, <1>4
  <2> HIDE DEF c, m, v
  <2>3. Len(c) = m /\ \A j \in 1 .. m : c[j] = v(j)
    BY <2>1, <2>2
  <2>4. QED BY <2>3 DEF m, v
<1>12. Len(Contents(q, rec)) = Len(l) /\ \A j \in 1 .. Len(l) : Contents(q, rec)[j] = rec[l[j]]
  BY <1>2 DEF Contents
<1> HIDE DEF c, l, s, q
<1>13. ASSUME NEW x, NEW j, Holds(c, x, j)
       PROVE  /\ j \in Nat
              /\ j <= n => Holds(s, x, n + 1 - j)
              /\ j > n => Holds(Contents(q, rec), x, j - n)
  <2>1. j \in 1 .. n + Len(l) /\ c[j] = x
    BY <1>11, <1>13 DEF Holds
  <2>2. CASE j <= n
    <3>1. j \in Nat \ {0} /\ n \in Nat /\ Len(s) \in Nat /\ n <= Len(s)
      BY <1>2, <1>3, <1>4, <2>1
    <3>2. n + 1 - j \in 1 .. n /\ n + 1 - j \in 1 .. Len(s) /\ (n - j) + 1 = n + 1 - j /\ j \in 1 .. n
      BY ONLY <2>2, <3>1
    <3>3. (g \o l)[j] = free[n + 1 - j]
      BY <1>7, <1>8, <2>1, <2>2, <3>2
    <3>4. x = s[n + 1 - j]
      BY <1>9, <1>11, <2>1, <3>2, <3>3
    <3>5. QED BY <1>4, <2>1, <2>2, <3>2, <3>4 DEF Holds
  <2>3. CASE j > n
    <3>1. j - n \in 1 .. Len(l) /\ ~(j <= n)
      BY <1>2, <1>4, <2>1, <2>3
    <3>2. (g \o l)[j] = l[j - n]
      BY <1>8, <2>1, <3>1
    <3>3. x = Contents(q, rec)[j - n]
      BY <1>10, <1>11, <1>12, <2>1, <3>1, <3>2
    <3>4. QED BY <1>12, <2>1, <3>1, <3>3 DEF Holds
  <2>4. QED BY <1>2, <1>4, <2>1, <2>2, <2>3
<1>14. QED BY <1>4, <1>13 DEF c, s, q

\* add_rec_info, the query stays: the records are in its list now.
LEMMA AddsOnce ==
    ASSUME Numbered, Once, NEW k \in 1 .. Len(queue), toMc # <<>>, toMc' = Tail(toMc),
           Answer.type = "answer", queue[k].ctx = Answer.ctx,
           queue' = [queue EXCEPT ![k] = Grown(k)], rec' = Content(k),
           UNCHANGED <<told, toGb, toDev, fromDev, loop>>
    PROVE  Once'
<1> DEFINE n == Taken(queue[k], Answer.list)
           own(sn, p) == p = "list" /\ sn = queue[k].sn
           new(sn, p, j) == own(sn, p) /\ j <= n
           wp(sn, p, j) == IF new(sn, p, j) THEN "batch" ELSE p
           wy(sn, p, y, j) == IF new(sn, p, j) THEN 1
                              ELSE IF p \in {"batch", "query"} THEN y + 1 ELSE y
           wj(sn, p, j) == IF new(sn, p, j) THEN n + 1 - j ELSE IF own(sn, p) THEN j - n ELSE j
<1>1. /\ Sound /\ queue \in Seq(Query) /\ toMc \in Seq(QueryIn \cup AnswerIn)
      /\ Waiting(asked, queue)
  BY DEF Numbered, Numbers, Sound, Messages
<1>2. /\ Grown(k) \in Query /\ Grown(k).ctx = queue[k].ctx /\ Grown(k).sn = queue[k].sn
      /\ \A j \in 1 .. Len(queue) : \A r \in Range(queue[j].list) :
            j # k => Content(k)[r] = rec[r]
  BY <1>1, AddsIs
<1>3. /\ Len(queue') = Len(queue) /\ queue'[k] = Grown(k)
      /\ \A j \in 1 .. Len(queue) : j # k => queue'[j] = queue[j]
  BY <1>1, <1>2, ExceptSeq
<1>4. /\ Answer = toMc[1] /\ 1 \in 1 .. Len(toMc)
      /\ \A y \in 1 .. Len(toMc') : y + 1 \in 1 .. Len(toMc) /\ toMc'[y] = toMc[y + 1]
  BY <1>1, TailRange DEF Answer
<1>5. /\ n \in Nat /\ n <= Len(Answer.list)
      /\ \A x, j : Holds(Contents(Grown(k), Content(k)), x, j) =>
            /\ j \in Nat
            /\ j <= n => Holds(Answer.list, x, n + 1 - j)
            /\ j > n => Holds(Contents(queue[k], rec), x, j - n)
  BY <1>1, GrownHolds
<1> HIDE DEF n
<1>6. \A sn, c : Waits(sn, c)' <=> Waits(sn, c)
  <2>1. \A j \in 1 .. Len(queue) : queue'[j].sn = queue[j].sn /\ queue'[j].ctx = queue[j].ctx
    BY <1>2, <1>3
  <2>2. QED BY <1>3, <2>1 DEF Waits
<1>7. \A j \in 1 .. Len(queue) : j # k => queue[j].sn # queue[k].sn
  BY <1>1 DEF Waiting
<1>8. ASSUME NEW j \in 1 .. Len(queue), j # k
      PROVE  Contents(queue[j], Content(k)) = Contents(queue[j], rec)
  <2>1. queue[j].list \in Seq(RecId)
    BY <1>1, QueryType
  <2>2. \A i \in 1 .. Len(queue[j].list) : queue[j].list[i] \in Range(queue[j].list)
    BY <2>1, InRange
  <2>3. QED BY <1>2, <1>8, <2>2 DEF Contents
<1>9. ASSUME NEW sn \in Sn, NEW x, NEW y, NEW j, InList(sn, x, y, j)'
      PROVE  /\ y = 0
             /\ sn = queue[k].sn => Holds(Contents(Grown(k), Content(k)), x, j)
             /\ sn # queue[k].sn => InList(sn, x, y, j)
  <2>1. PICK i \in 1 .. Len(queue) : queue'[i].sn = sn /\ Holds(Contents(queue'[i], Content(k)), x, j)
    BY <1>3, <1>9 DEF InList, Contents, Holds
  <2>2. y = 0
    BY <1>9 DEF InList
  <2>3. CASE i = k
    BY <1>2, <1>3, <2>1, <2>2, <2>3
  <2>4. CASE i # k
    <3>1. queue'[i] = queue[i] /\ sn = queue[i].sn /\ sn # queue[k].sn
      BY <1>3, <1>7, <2>1, <2>4
    <3>2. InList(sn, x, y, j)
      BY <1>8, <2>1, <2>2, <2>4, <3>1 DEF InList
    <3>3. QED BY <2>2, <3>1, <3>2
  <2>5. QED BY <2>3, <2>4
<1>10. ASSUME NEW sn \in Sn, NEW x, NEW p, NEW y, NEW j, At(sn, x, p, y, j)'
       PROVE  At(sn, x, wp(sn, p, j), wy(sn, p, y, j), wj(sn, p, j))
  <2>1. CASE p = "list"
    <3>1. InList(sn, x, y, j)'
      BY <1>10, <2>1 DEF At
    <3>2. CASE sn # queue[k].sn
      <4>1. InList(sn, x, y, j)
        BY <1>9, <3>1, <3>2
      <4>2. QED BY <2>1, <3>2, <4>1 DEF At
    <3>3. CASE sn = queue[k].sn /\ j <= n
      <4>1. Holds(toMc[1].list, x, n + 1 - j)
        BY <1>4, <1>5, <1>9, <3>1, <3>3
      <4>2. Waits(sn, toMc[1].ctx)
        BY <1>4, <3>3 DEF Waits
      <4>3. InBatch(sn, x, 1, n + 1 - j)
        BY <1>4, <4>1, <4>2 DEF InBatch
      <4>4. QED BY <2>1, <3>3, <4>3 DEF At
    <3>4. CASE sn = queue[k].sn /\ ~(j <= n)
      <4>1. y = 0 /\ Holds(Contents(Grown(k), Content(k)), x, j)
        BY <1>9, <3>1, <3>4
      <4>2. j \in Nat /\ j > n
        BY <1>5, <3>4, <4>1
      <4>3. Holds(Contents(queue[k], rec), x, j - n)
        BY <1>5, <4>1, <4>2
      <4>4. InList(sn, x, y, j - n)
        BY <3>4, <4>1, <4>3 DEF InList
      <4>5. QED BY <2>1, <3>4, <4>4 DEF At
    <3>5. QED BY <3>2, <3>3, <3>4
  <2>2. CASE p = "batch"
    <3>1. InBatch(sn, x, y, j)'
      BY <1>10, <2>2 DEF At
    <3>2. InBatch(sn, x, y + 1, j)
      BY <1>4, <1>6, <3>1 DEF InBatch, Holds
    <3>3. QED BY <2>2, <3>2 DEF At
  <2>3. CASE p = "query"
    <3>1. InQuery(sn, x, y, j)'
      BY <1>10, <2>3 DEF At
    <3>2. InQuery(sn, x, y + 1, j)
      BY <1>4, <3>1 DEF InQuery, Holds
    <3>3. QED BY <2>3, <3>2 DEF At
  <2>4. CASE p \notin {"list", "batch", "query"}
    <3>1. (p = "answer" => y \in fromDev) /\ (p = "asked" => y \in toDev)
      BY <1>10 DEF At, InAnswer, InAsked
    <3>2. At(sn, x, p, y, j)
      BY <1>6, <1>10, <2>4, <3>1, Unmoved
    <3>3. QED BY <2>4, <3>2
  <2>5. QED BY <2>1, <2>2, <2>3, <2>4
<1>11. SUFFICES ASSUME NEW sn \in Sn, NEW x, NEW p, NEW y, NEW j, NEW p2, NEW y2, NEW j2,
                       At(sn, x, p, y, j)', At(sn, x, p2, y2, j2)'
                PROVE  p = p2 /\ y = y2 /\ j = j2
  BY DEF Once
<1>12. /\ wp(sn, p, j) = wp(sn, p2, j2) /\ wy(sn, p, y, j) = wy(sn, p2, y2, j2)
       /\ wj(sn, p, j) = wj(sn, p2, j2)
  BY <1>10, <1>11 DEF Once
<1>13. /\ p \in {"batch", "query"} => y \in 1 .. Len(toMc')
       /\ p2 \in {"batch", "query"} => y2 \in 1 .. Len(toMc')
  BY <1>11 DEF At, InBatch, InQuery
<1>14. /\ p = "list" => y = 0 /\ (own(sn, p) => j \in Nat)
       /\ p2 = "list" => y2 = 0 /\ (own(sn, p2) => j2 \in Nat)
  <2>1. \A yy, jj : InList(sn, x, yy, jj)' => yy = 0 /\ (sn = queue[k].sn => jj \in Nat)
    BY <1>5, <1>9
  <2>2. QED BY <1>11, <2>1 DEF At
<1>15. QED BY <1>5, <1>12, <1>13, <1>14

\* The messages ms hold records of c, and none twice.
Apart(ms, c) ==
    /\ \A i \in 1 .. Len(ms) : \A x, j : Holds(ms[i].list, x, j) => \E a : Holds(c, x, a)
    /\ \A i, i2 \in 1 .. Len(ms) : \A x, j, j2 :
          Holds(ms[i].list, x, j) /\ Holds(ms[i2].list, x, j2) => i = i2 /\ j = j2

\* What a query reports: each of its records once.
LEMMA ReportApart ==
    ASSUME NEW q \in Query, NEW content \in [RecId -> AllRecords \cup {Null}],
           \A r \in Range(q.list) : content[r] \in AllRecords,
           NoRepeat(Contents(q, content))
    PROVE  Apart(Report(q, content), Contents(q, content))
<1> DEFINE ms == Report(q, content)
           c == Contents(q, content)
           last == IF Answer.sum = 0 /\ Len(q.list) % ResBatch = 0 THEN <<(<<>>)>> ELSE <<>>
           p == Pieces(c, ResBatch)
           lists == p \o last
<1>1. q.list \in Seq(RecId) /\ Len(q.list) \in Nat
  BY LenProperties DEF Query
<1>2. \A j \in 1 .. Len(q.list) : q.list[j] \in Range(q.list)
  BY <1>1, InRange
<1>3. c \in Seq(AllRecords)
  <2>1. \A j \in 1 .. Len(q.list) : content[q.list[j]] \in AllRecords
    BY <1>2
  <2>2. QED BY <1>1, <2>1, IsASeq DEF Contents
<1>4. NoRepeat(c)
  OBVIOUS
<1>5. Report(q, content) = ToPlatform(q, lists)
  BY DEF Report
<1> HIDE DEF c
<1>6. /\ p \in Seq(Seq(AllRecords))
      /\ \A i \in 1 .. Len(p) : Range(p[i]) \subseteq Range(c)
      /\ \A i, i2 \in 1 .. Len(p) : \A j \in 1 .. Len(p[i]), j2 \in 1 .. Len(p[i2]) :
            p[i][j] = p[i2][j2] => i = i2 /\ j = j2
  BY <1>3, <1>4, PiecesAre, PiecesApart, BatchAssumption
<1>7. /\ last \in Seq(Seq(AllRecords))
      /\ \A i \in 1 .. Len(last) : last[i] = <<>>
  BY EmptySeq
<1> HIDE DEF p, last
<1>8. /\ Len(p) \in Nat /\ Len(last) \in Nat /\ Len(lists) = Len(p) + Len(last)
      /\ \A i \in 1 .. Len(p) + Len(last) :
            lists[i] = IF i <= Len(p) THEN p[i] ELSE last[i - Len(p)]
  BY <1>6, <1>7, ConcatAt, LenProperties
<1>9. \A i \in 1 .. Len(lists) : (i \in 1 .. Len(p) /\ lists[i] = p[i]) \/ lists[i] = <<>>
  <2>1. TAKE i \in 1 .. Len(lists)
  <2>2. CASE i <= Len(p)
    BY <1>8, <2>2
  <2>3. CASE ~(i <= Len(p))
    <3>1. i - Len(p) \in 1 .. Len(last) /\ lists[i] = last[i - Len(p)]
      BY <1>8, <2>3
    <3>2. QED BY <1>7, <3>1
  <2>4. QED BY <2>2, <2>3
<1> HIDE DEF lists, ms
<1>10. Len(ms) = Len(lists) /\ \A i \in 1 .. Len(ms) : ms[i].list = lists[i]
  <2>1. ms = [k \in 1 .. Len(lists) |-> [type |-> "result", sn |-> q.sn, list |-> lists[k]]]
    BY <1>5 DEF ms, ToPlatform
  <2>2. Len(lists) \in Nat
    BY <1>8
  <2>3. QED BY <2>1, <2>2
<1>11. \A i \in 1 .. Len(ms) : \A x, j :
          Holds(ms[i].list, x, j) => i \in 1 .. Len(p) /\ j \in 1 .. Len(p[i]) /\ p[i][j] = x
  BY <1>9, <1>10 DEF Holds
<1>12. ASSUME NEW i \in 1 .. Len(ms), NEW x, NEW j, Holds(ms[i].list, x, j)
       PROVE  \E a : Holds(c, x, a)
  <2>1. i \in 1 .. Len(p) /\ j \in 1 .. Len(p[i]) /\ p[i][j] = x
    BY <1>11, <1>12
  <2>2. p[i] \in Seq(AllRecords)
    BY <1>6, <2>1, ElementOfSeq
  <2>3. x \in Range(p[i])
    BY <2>1, <2>2, InRange
  <2>4. x \in Range(c)
    BY <1>6, <2>1, <2>3
  <2>5. QED BY <1>3, <2>4, InRange DEF Holds
<1>13. \A i, i2 \in 1 .. Len(ms) : \A x, j, j2 :
          Holds(ms[i].list, x, j) /\ Holds(ms[i2].list, x, j2) => i = i2 /\ j = j2
  <2>1. TAKE i, i2 \in 1 .. Len(ms)
  <2>2. TAKE x, j, j2
  <2>3. HAVE Holds(ms[i].list, x, j) /\ Holds(ms[i2].list, x, j2)
  <2>4. i \in 1 .. Len(p) /\ j \in 1 .. Len(p[i]) /\ p[i][j] = x
    BY <1>11, <2>3
  <2>5. i2 \in 1 .. Len(p) /\ j2 \in 1 .. Len(p[i2]) /\ p[i2][j2] = x
    BY <1>11, <2>3
  <2>6. QED BY <1>6, <2>4, <2>5
<1>14. QED BY <1>12, <1>13 DEF c, ms, Apart

\* What goes out when a query ends: whether or not one of its messages is
\* lost, each comes once, behind the messages that were there.
LEMMA SendApart ==
    ASSUME NEW msgs \in Seq(ResultOut), toGb \in Seq(QueryOut \cup ResultOut), Send(msgs)
    PROVE  \E w \in [1 .. Len(toGb') -> Nat] :
              \A y \in 1 .. Len(toGb') :
                 \/ y \in 1 .. Len(toGb) /\ toGb'[y] = toGb[y]
                 \/ /\ y \notin 1 .. Len(toGb) /\ w[y] \in 1 .. Len(msgs) /\ toGb'[y] = msgs[w[y]]
                    /\ \A y2 \in 1 .. Len(toGb') : y2 \notin 1 .. Len(toGb) /\ w[y2] = w[y] => y2 = y
<1> DEFINE T == QueryOut \cup ResultOut
<1>1. msgs \in Seq(T) /\ Len(msgs) \in Nat /\ toGb \in Seq(T) /\ Len(toGb) \in Nat
  <2>1. Range(msgs) \subseteq T
    BY InRange
  <2>2. QED BY <2>1, SeqOfElements, LenProperties
<1> HIDE DEF T
<1>2. ASSUME NEW ms \in Seq(T), toGb' = toGb \o ms
      PROVE  /\ Len(toGb') = Len(toGb) + Len(ms)
             /\ \A y \in 1 .. Len(toGb') :
                   \/ y \in 1 .. Len(toGb) /\ toGb'[y] = toGb[y]
                   \/ /\ y \notin 1 .. Len(toGb) /\ y - Len(toGb) \in 1 .. Len(ms)
                      /\ toGb'[y] = ms[y - Len(toGb)]
  <2>1. /\ Len(toGb \o ms) = Len(toGb) + Len(ms) /\ Len(ms) \in Nat
        /\ \A y \in 1 .. Len(toGb) + Len(ms) :
              (toGb \o ms)[y] = IF y <= Len(toGb) THEN toGb[y] ELSE ms[y - Len(toGb)]
    BY <1>1, ConcatAt, LenProperties
  <2>2. QED BY <1>1, <1>2, <2>1
<1>3. CASE toGb' = toGb \o msgs
  <2> DEFINE w == [y \in 1 .. Len(toGb') |-> IF y \in 1 .. Len(toGb) THEN 0 ELSE y - Len(toGb)]
  <2>1. \A y \in 1 .. Len(toGb') :
           \/ y \in 1 .. Len(toGb) /\ toGb'[y] = toGb[y]
           \/ y \notin 1 .. Len(toGb) /\ y - Len(toGb) \in 1 .. Len(msgs) /\ toGb'[y] = msgs[y - Len(toGb)]
    BY <1>1, <1>2, <1>3
  <2>2. w \in [1 .. Len(toGb') -> Nat]
    BY <1>1, <2>1
  <2>3. \A y \in 1 .. Len(toGb') : y \notin 1 .. Len(toGb) => w[y] = y - Len(toGb)
    OBVIOUS
  <2> HIDE DEF w
  <2>4. \A y, y2 \in 1 .. Len(toGb') :
           y \notin 1 .. Len(toGb) /\ y2 \notin 1 .. Len(toGb) /\ w[y2] = w[y] => y2 = y
    BY <1>1, <2>3
  <2>5. \A y \in 1 .. Len(toGb') :
           \/ y \in 1 .. Len(toGb) /\ toGb'[y] = toGb[y]
           \/ /\ y \notin 1 .. Len(toGb) /\ w[y] \in 1 .. Len(msgs) /\ toGb'[y] = msgs[w[y]]
              /\ \A y2 \in 1 .. Len(toGb') : y2 \notin 1 .. Len(toGb) /\ w[y2] = w[y] => y2 = y
    BY <2>1, <2>3, <2>4
  <2>6. QED BY <2>2, <2>5
<1>4. CASE \E k \in 1 .. Len(msgs) : toGb' = toGb \o RemoveAt(msgs, k) /\ Fault("sendto")
  <2>1. PICK k \in 1 .. Len(msgs) : toGb' = toGb \o RemoveAt(msgs, k)
    BY <1>4
  <2> DEFINE ms == RemoveAt(msgs, k)
             w == [y \in 1 .. Len(toGb') |-> IF y \in 1 .. Len(toGb) THEN 0 ELSE Skip(k, y - Len(toGb))]
  <2>2. /\ ms \in Seq(T) /\ Len(ms) = Len(msgs) - 1
        /\ \A j \in 1 .. Len(msgs) - 1 : Skip(k, j) \in 1 .. Len(msgs) /\ ms[j] = msgs[Skip(k, j)]
        /\ \A i, j \in 1 .. Len(msgs) - 1 : Skip(k, i) = Skip(k, j) => i = j
    BY <1>1, Remaining
  <2>3. toGb' = toGb \o ms
    BY <2>1
  <2> HIDE DEF ms
  <2>4. \A y \in 1 .. Len(toGb') :
           \/ y \in 1 .. Len(toGb) /\ toGb'[y] = toGb[y]
           \/ y \notin 1 .. Len(toGb) /\ y - Len(toGb) \in 1 .. Len(ms) /\ toGb'[y] = ms[y - Len(toGb)]
    BY <1>2, <2>2, <2>3
  <2>5. w \in [1 .. Len(toGb') -> Nat]
    BY <1>1, <2>2, <2>4
  <2>6. \A y \in 1 .. Len(toGb') : y \notin 1 .. Len(toGb) => w[y] = Skip(k, y - Len(toGb))
    OBVIOUS
  <2> HIDE DEF w
  <2>7. ASSUME NEW y \in 1 .. Len(toGb'), NEW y2 \in 1 .. Len(toGb'),
               y \notin 1 .. Len(toGb), y2 \notin 1 .. Len(toGb), w[y2] = w[y]
        PROVE  y2 = y
    <3>1. y - Len(toGb) \in 1 .. Len(msgs) - 1 /\ y2 - Len(toGb) \in 1 .. Len(msgs) - 1
      BY <2>2, <2>4, <2>7
    <3>2. y - Len(toGb) = y2 - Len(toGb)
      <4>1. Skip(k, y - Len(toGb)) = Skip(k, y2 - Len(toGb))
        BY <2>6, <2>7
      <4>2. QED BY <2>2, <3>1, <4>1
    <3>3. QED BY <1>1, <3>2
  <2>8. ASSUME NEW y \in 1 .. Len(toGb'), y \notin 1 .. Len(toGb)
        PROVE  w[y] \in 1 .. Len(msgs) /\ toGb'[y] = msgs[w[y]]
    BY <2>2, <2>4, <2>6, <2>8
  <2>9. \A y \in 1 .. Len(toGb') :
           \/ y \in 1 .. Len(toGb) /\ toGb'[y] = toGb[y]
           \/ /\ y \notin 1 .. Len(toGb) /\ w[y] \in 1 .. Len(msgs) /\ toGb'[y] = msgs[w[y]]
              /\ \A y2 \in 1 .. Len(toGb') : y2 \notin 1 .. Len(toGb) /\ w[y2] = w[y] => y2 = y
    BY <2>4, <2>7, <2>8
  <2>10. QED BY <2>5, <2>9
<1>5. QED BY <1>3, <1>4 DEF Send

\* The messages that a step adds to toGb.
Added == {y \in 1 .. Len(toGb') : y \notin 1 .. Len(toGb)}

\* What is new in toGb when a query ends: results for its sn, which tell each
\* of its records once.
LEMMA SentOnce ==
    ASSUME NEW q \in Query, NEW content \in [RecId -> AllRecords \cup {Null}],
           \A r \in Range(q.list) : content[r] \in AllRecords,
           NoRepeat(Contents(q, content)),
           toGb \in Seq(QueryOut \cup ResultOut), Send(Report(q, content))
    PROVE  /\ \A y \in 1 .. Len(toGb') : y \notin Added => y \in 1 .. Len(toGb) /\ toGb'[y] = toGb[y]
           /\ \A y \in Added : toGb'[y].type = "result" /\ toGb'[y].sn = q.sn
           /\ \A y \in Added : \A x, j :
                 Holds(toGb'[y].list, x, j) => \E a : Holds(Contents(q, content), x, a)
           /\ \A y, y2 \in Added : \A x, j, j2 :
                 Holds(toGb'[y].list, x, j) /\ Holds(toGb'[y2].list, x, j2) => y = y2 /\ j = j2
<1> DEFINE rs == Report(q, content)
<1>1. rs \in Seq(ResultOut) /\ \A m \in Range(rs) : m \in ResultOut /\ m.sn = q.sn
  BY ReportIs
<1>2. Apart(rs, Contents(q, content))
  BY ReportApart
<1> HIDE DEF rs
<1>3. \A i \in 1 .. Len(rs) : \A x, j :
         Holds(rs[i].list, x, j) => \E a : Holds(Contents(q, content), x, a)
  BY <1>2 DEF Apart
<1>4. \A i, i2 \in 1 .. Len(rs) : \A x, j, j2 :
         Holds(rs[i].list, x, j) /\ Holds(rs[i2].list, x, j2) => i = i2 /\ j = j2
  BY <1>2 DEF Apart
<1>5. \A i \in 1 .. Len(rs) : rs[i].type = "result" /\ rs[i].sn = q.sn
  <2>1. TAKE i \in 1 .. Len(rs)
  <2>2. rs[i] \in Range(rs)
    BY <1>1, InRange
  <2>3. QED BY <1>1, <2>2 DEF ResultOut
<1>6. Send(rs)
  BY DEF rs
<1>7. PICK w \in [1 .. Len(toGb') -> Nat] :
         \A y \in 1 .. Len(toGb') :
            \/ y \in 1 .. Len(toGb) /\ toGb'[y] = toGb[y]
            \/ /\ y \notin 1 .. Len(toGb) /\ w[y] \in 1 .. Len(rs) /\ toGb'[y] = rs[w[y]]
               /\ \A y2 \in 1 .. Len(toGb') : y2 \notin 1 .. Len(toGb) /\ w[y2] = w[y] => y2 = y
  BY <1>1, <1>6, SendApart
<1>8. \A y \in 1 .. Len(toGb') : y \notin Added => y \in 1 .. Len(toGb) /\ toGb'[y] = toGb[y]
  BY <1>7 DEF Added
<1>9. \A y \in Added : w[y] \in 1 .. Len(rs) /\ toGb'[y] = rs[w[y]]
  BY <1>7 DEF Added
<1>10. \A y, y2 \in Added : w[y] = w[y2] => y = y2
  BY <1>7 DEF Added
<1>11. \A y \in Added : toGb'[y].type = "result" /\ toGb'[y].sn = q.sn
  BY <1>5, <1>9
<1>12. \A y \in Added : \A x, j :
          Holds(toGb'[y].list, x, j) => \E a : Holds(Contents(q, content), x, a)
  BY <1>3, <1>9
<1>13. ASSUME NEW y \in Added, NEW y2 \in Added, NEW x, NEW j, NEW j2,
              Holds(toGb'[y].list, x, j), Holds(toGb'[y2].list, x, j2)
       PROVE  y = y2 /\ j = j2
  <2>1. PICK i \in 1 .. Len(rs) : i = w[y] /\ toGb'[y] = rs[i]
    BY <1>9
  <2>2. PICK i2 \in 1 .. Len(rs) : i2 = w[y2] /\ toGb'[y2] = rs[i2]
    BY <1>9
  <2>3. Holds(rs[i].list, x, j) /\ Holds(rs[i2].list, x, j2)
    BY <1>13, <2>1, <2>2
  <2>4. i = i2 /\ j = j2
    BY <1>4, <2>3
  <2>5. QED BY <1>10, <2>1, <2>2, <2>4
<1>14. QED BY <1>8, <1>11, <1>12, <1>13

\* The records of list l come from the list of the query sn, or from the answer
\* that is taken.
Comes(sn, l) ==
    \A x, a : Holds(l, x, a) =>
       \E p, y, j : At(sn, x, p, y, j) /\ (p = "list" \/ (p = "batch" /\ y = 1))

\* A query that ends: what it reports was in its list, or in the answer that
\* is taken now, and nowhere else.
LEMMA DumpOnce ==
    ASSUME Numbered, Once, NEW k \in 1 .. Len(queue), NEW q \in Query,
           q.sn = queue[k].sn,
           NEW content \in [RecId -> AllRecords \cup {Null}], NEW left \in Seq(RecId),
           Pool(left, [queue EXCEPT ![k] = q]), Blank(content, left),
           DumpRec(k, q, content, left),
           \A j \in 1 .. Len(queue) : \A r \in Range(queue[j].list) :
              j # k => content[r] = rec[r] /\ r \notin Range(q.list),
           NoRepeat(Contents(q, content)),
           Comes(q.sn, Contents(q, content)),
           toMc # <<>>, toMc' = Tail(toMc), UNCHANGED <<loop, toDev, fromDev, told>>
    PROVE  Once'
<1> DEFINE qs == [queue EXCEPT ![k] = q]
           wy(p, y) == IF p \in {"batch", "query"} THEN y + 1 ELSE y
<1>1. /\ Sound /\ queue \in Seq(Query) /\ Waiting(asked, queue)
      /\ toMc \in Seq(QueryIn \cup AnswerIn) /\ toGb \in Seq(QueryOut \cup ResultOut)
  BY DEF Numbered, Numbers, Sound, Messages
<1>2. /\ Sound /\ k \in 1 .. Len(queue) /\ q \in Query
      /\ content \in [RecId -> AllRecords \cup {Null}] /\ left \in Seq(RecId)
      /\ Pool(left, [queue EXCEPT ![k] = q]) /\ Blank(content, left)
      /\ DumpRec(k, q, content, left)
  BY <1>1
<1>3. queue' = RemoveAt(queue, k) /\ Untouched(q, content)
  BY ONLY <1>2, DumpIs
<1>4. /\ queue' = RemoveAt(queue, k)
      /\ \A r \in RecId : r \notin Range(q.list) => rec'[r] = content[r]
  BY <1>3 DEF Untouched
<1>5. \A j \in 1 .. Len(queue') : /\ Skip(k, j) \in 1 .. Len(queue) /\ Skip(k, j) # k
                                  /\ queue'[j] = queue[Skip(k, j)]
  BY <1>1, <1>4, Shorter
<1>6. \A y \in 1 .. Len(toMc') : y + 1 \in 1 .. Len(toMc) /\ toMc'[y] = toMc[y + 1]
  BY <1>1, TailRange
<1>7. \A r \in Range(q.list) : content[r] \in AllRecords
  <2>1. qs \in Seq(Query) /\ Len(qs) = Len(queue) /\ qs[k] = q
    BY <1>1, ExceptSeq
  <2>2. Pool(left, qs)
    OBVIOUS
  <2> HIDE DEF qs
  <2>3. QED BY <2>1, <2>2, InUseIsFilled
<1> HIDE DEF qs
<1>8. /\ \A y \in 1 .. Len(toGb') : y \notin Added => y \in 1 .. Len(toGb) /\ toGb'[y] = toGb[y]
      /\ \A y \in Added : toGb'[y].type = "result" /\ toGb'[y].sn = q.sn
      /\ \A y \in Added : \A x, j :
            Holds(toGb'[y].list, x, j) => \E a : Holds(Contents(q, content), x, a)
      /\ \A y, y2 \in Added : \A x, j, j2 :
            Holds(toGb'[y].list, x, j) /\ Holds(toGb'[y2].list, x, j2) => y = y2 /\ j = j2
  <2>1. Send(Report(q, content))
    BY DEF DumpRec
  <2>2. QED BY <1>1, <1>7, <2>1, SentOnce
<1>9. \A sn, c : Waits(sn, c)' => Waits(sn, c)
  BY <1>5 DEF Waits
<1>10. ASSUME NEW sn, NEW x, NEW y, NEW j, InList(sn, x, y, j)'
       PROVE  sn # q.sn /\ InList(sn, x, y, j)
  <2>1. PICK i \in 1 .. Len(queue') : queue'[i].sn = sn /\ Holds(Contents(queue'[i], rec'), x, j)
    BY <1>10 DEF InList, Contents, Holds
  <2>2. y = 0
    BY <1>10 DEF InList
  <2> DEFINE h == Skip(k, i)
  <2>3. h \in 1 .. Len(queue) /\ h # k /\ queue'[i] = queue[h]
    BY <1>5
  <2> HIDE DEF h
  <2>4. sn # q.sn
    BY <1>1, <2>1, <2>3 DEF Waiting
  <2>5. queue[h].list \in Seq(RecId)
    BY <1>1, <2>3, QueryType
  <2>6. \A a \in 1 .. Len(queue[h].list) : rec'[queue[h].list[a]] = rec[queue[h].list[a]]
    <3>1. TAKE a \in 1 .. Len(queue[h].list)
    <3>2. queue[h].list[a] \in RecId /\ queue[h].list[a] \in Range(queue[h].list)
      BY <2>5, IndexedIs
    <3>3. QED BY <1>4, <2>3, <3>2
  <2>7. Contents(queue[h], rec') = Contents(queue[h], rec)
    BY <2>6 DEF Contents
  <2>8. Holds(Contents(queue[h], rec), x, j)
    BY <2>1, <2>3, <2>7
  <2>9. QED BY <2>1, <2>2, <2>3, <2>4, <2>8 DEF InList
<1> DEFINE old(sn, x, p, y, j) == /\ At(sn, x, p, wy(p, y), j)
                                  /\ p = "list" => sn # q.sn
                                  /\ p \in {"batch", "query"} => y \in 1 .. Len(toMc')
           got(sn, x, p, y, j) == p = "result" /\ sn = q.sn /\ y \in Added /\ Holds(toGb'[y].list, x, j)
<1>11. ASSUME NEW sn \in Sn, NEW x, NEW p, NEW y, NEW j, At(sn, x, p, y, j)'
       PROVE  old(sn, x, p, y, j) \/ got(sn, x, p, y, j)
  <2>1. CASE p = "list"
    <3>1. InList(sn, x, y, j)'
      BY <1>11, <2>1 DEF At
    <3>2. sn # q.sn /\ InList(sn, x, y, j)
      BY <1>10, <3>1
    <3>3. QED BY <2>1, <3>2 DEF At
  <2>2. CASE p = "batch"
    <3>1. InBatch(sn, x, y, j)'
      BY <1>11, <2>2 DEF At
    <3>2. InBatch(sn, x, y + 1, j) /\ y \in 1 .. Len(toMc')
      BY <1>6, <1>9, <3>1 DEF InBatch, Holds
    <3>3. QED BY <2>2, <3>2 DEF At
  <2>3. CASE p = "query"
    <3>1. InQuery(sn, x, y, j)'
      BY <1>11, <2>3 DEF At
    <3>2. InQuery(sn, x, y + 1, j) /\ y \in 1 .. Len(toMc')
      BY <1>6, <3>1 DEF InQuery, Holds
    <3>3. QED BY <2>3, <3>2 DEF At
  <2>4. CASE p = "result"
    <3>1. InResult(sn, x, y, j)'
      BY <1>11, <2>4 DEF At
    <3>2. CASE y \notin Added
      <4>1. y \in 1 .. Len(toGb) /\ toGb'[y] = toGb[y]
        BY <1>8, <3>1, <3>2 DEF InResult
      <4>2. InResult(sn, x, y, j)
        BY <3>1, <4>1 DEF InResult, Holds
      <4>3. QED BY <2>4, <4>2 DEF At
    <3>3. CASE y \in Added
      <4>1. sn = q.sn /\ Holds(toGb'[y].list, x, j)
        BY <1>8, <3>1, <3>3 DEF InResult, Holds
      <4>2. QED BY <2>4, <3>3, <4>1
    <3>4. QED BY <3>2, <3>3
  <2>5. CASE p = "asking"
    <3>1. InAsking(sn, x, y, j)'
      BY <1>11, <2>5 DEF At
    <3>2. y \in 1 .. Len(toGb) /\ toGb'[y] = toGb[y]
      BY <1>8, <3>1 DEF InAsking
    <3>3. InAsking(sn, x, y, j)
      BY <1>9, <3>1, <3>2 DEF InAsking, Holds
    <3>4. QED BY <2>5, <3>3 DEF At
  <2>6. CASE p \notin {"list", "batch", "query", "result", "asking"}
    <3>1. (p = "answer" => y \in fromDev) /\ (p = "asked" => y \in toDev)
      BY <1>11 DEF At, InAnswer, InAsked
    <3>2. At(sn, x, p, y, j)
      BY <1>9, <1>11, <2>6, <3>1, Unmoved
    <3>3. QED BY <2>6, <3>2
  <2>7. QED BY <2>1, <2>2, <2>3, <2>4, <2>5, <2>6
<1>12. ASSUME NEW sn \in Sn, NEW x, NEW p, NEW y, NEW j, NEW p2, NEW y2, NEW j2,
              old(sn, x, p, y, j), got(sn, x, p2, y2, j2)
       PROVE  FALSE
  <2>1. \E a : Holds(Contents(q, content), x, a)
    BY <1>8, <1>12
  <2>2. PICK p0, y0, j0 : At(q.sn, x, p0, y0, j0) /\ (p0 = "list" \/ (p0 = "batch" /\ y0 = 1))
    BY <2>1 DEF Comes
  <2>3. p = p0 /\ wy(p, y) = y0
    BY <1>12, <2>2 DEF Once
  <2>4. CASE p = "list"
    BY <1>12, <2>4
  <2>5. CASE p = "batch" /\ y + 1 = 1
    BY <1>12, <2>5
  <2>6. QED BY <2>2, <2>3, <2>4, <2>5
<1>13. SUFFICES ASSUME NEW sn \in Sn, NEW x, NEW p, NEW y, NEW j, NEW p2, NEW y2, NEW j2,
                       At(sn, x, p, y, j)', At(sn, x, p2, y2, j2)'
                PROVE  p = p2 /\ y = y2 /\ j = j2
  BY DEF Once
<1>14. CASE old(sn, x, p, y, j) /\ old(sn, x, p2, y2, j2)
  <2>1. p = p2 /\ wy(p, y) = wy(p2, y2) /\ j = j2
    BY <1>14 DEF Once
  <2>2. QED BY <1>14, <2>1
<1>15. CASE got(sn, x, p, y, j) /\ got(sn, x, p2, y2, j2)
  <2>1. /\ p = "result" /\ y \in Added /\ Holds(toGb'[y].list, x, j)
        /\ p2 = "result" /\ y2 \in Added /\ Holds(toGb'[y2].list, x, j2)
    BY <1>15
  <2>2. \A a, b \in Added : \A z, c, d :
           Holds(toGb'[a].list, z, c) /\ Holds(toGb'[b].list, z, d) => a = b /\ c = d
    BY <1>8, Zenon
  <2>3. y \in Added /\ y2 \in Added
    BY <2>1
  <2>4. y = y2 /\ j = j2
    BY ONLY <2>1, <2>2, <2>3
  <2>5. QED BY <2>1, <2>4
<1>16. /\ old(sn, x, p, y, j) \/ got(sn, x, p, y, j)
       /\ old(sn, x, p2, y2, j2) \/ got(sn, x, p2, y2, j2)
  BY <1>11, <1>13
<1>17. /\ ~(old(sn, x, p, y, j) /\ got(sn, x, p2, y2, j2))
       /\ ~(old(sn, x, p2, y2, j2) /\ got(sn, x, p, y, j))
  BY <1>12
<1> HIDE DEF old, got
<1>18. QED BY <1>14, <1>15, <1>16, <1>17

\* A list in which a record is found at one place only does not repeat it.
LEMMA HeldOnce ==
    ASSUME NEW l, \A x, i, j : Holds(l, x, i) /\ Holds(l, x, j) => i = j
    PROVE  NoRepeat(l)
<1>1. \A i, j \in 1 .. Len(l) : l[i] = l[j] => Holds(l, l[i], i) /\ Holds(l, l[i], j)
  BY DEF Holds
<1>2. QED BY <1>1 DEF NoRepeat

\* What is in the list of a query is in nothing else.
LEMMA ListOnce ==
    ASSUME Sound, Once, NEW k \in 1 .. Len(queue)
    PROVE  /\ NoRepeat(Contents(queue[k], rec))
           /\ Comes(queue[k].sn, Contents(queue[k], rec))
<1> DEFINE c == Contents(queue[k], rec)
           sn == queue[k].sn
<1>1. sn \in Sn
  BY QueryType DEF Sound, Messages
<1>2. \A x, j : Holds(c, x, j) => At(sn, x, "list", 0, j)
  BY DEF At, InList
<1> HIDE DEF c, sn
<1>3. \A x, i, j : Holds(c, x, i) /\ Holds(c, x, j) => i = j
  BY <1>1, <1>2 DEF Once
<1>4. NoRepeat(c)
  BY <1>3, HeldOnce
<1>5. Comes(sn, c)
  BY <1>2 DEF Comes
<1>6. QED BY <1>4, <1>5 DEF c, sn

\* Nor is what was added to it.
LEMMA GrownOnce ==
    ASSUME Sound, Once, NEW k \in 1 .. Len(queue), toMc # <<>>, Answer.type = "answer",
           queue[k].ctx = Answer.ctx
    PROVE  /\ NoRepeat(Contents(Grown(k), Content(k)))
           /\ Comes(queue[k].sn, Contents(Grown(k), Content(k)))
<1> DEFINE c == Contents(Grown(k), Content(k))
           sn == queue[k].sn
           n == Taken(queue[k], Answer.list)
<1>1. sn \in Sn
  BY QueryType DEF Sound, Messages
<1>2. /\ n \in Nat
      /\ \A x, j : Holds(c, x, j) =>
            /\ j \in Nat
            /\ j <= n => Holds(Answer.list, x, n + 1 - j)
            /\ j > n => Holds(Contents(queue[k], rec), x, j - n)
  BY GrownHolds
<1>3. Answer = toMc[1] /\ 1 \in 1 .. Len(toMc)
  BY TailRange DEF Answer, Sound, Messages
<1>4. \A x, j : Holds(Answer.list, x, j) => At(sn, x, "batch", 1, j)
  <2>1. Waits(sn, Answer.ctx)
    BY DEF Waits
  <2>2. QED BY <1>3, <2>1 DEF At, InBatch
<1>5. \A x, j : Holds(Contents(queue[k], rec), x, j) => At(sn, x, "list", 0, j)
  BY DEF At, InList
<1> HIDE DEF c, sn, n
<1>6. ASSUME NEW x, NEW j, Holds(c, x, j)
      PROVE  /\ j \in Nat
             /\ j <= n => At(sn, x, "batch", 1, n + 1 - j)
             /\ j > n => At(sn, x, "list", 0, j - n)
  BY <1>2, <1>4, <1>5, <1>6
<1>7. ASSUME NEW x, NEW i, NEW j, Holds(c, x, i), Holds(c, x, j)
      PROVE  i = j
  <2>1. i \in Nat /\ j \in Nat
    BY <1>6, <1>7
  <2>2. CASE i <= n /\ j <= n
    <3>1. At(sn, x, "batch", 1, n + 1 - i) /\ At(sn, x, "batch", 1, n + 1 - j)
      BY <1>6, <1>7, <2>2
    <3>2. n + 1 - i = n + 1 - j
      BY <1>1, <3>1 DEF Once
    <3>3. QED BY <1>2, <2>1, <3>2
  <2>3. CASE i > n /\ j > n
    <3>1. At(sn, x, "list", 0, i - n) /\ At(sn, x, "list", 0, j - n)
      BY <1>6, <1>7, <2>3
    <3>2. i - n = j - n
      BY <1>1, <3>1 DEF Once
    <3>3. QED BY <1>2, <2>1, <3>2
  <2>4. CASE i <= n /\ j > n
    <3>1. At(sn, x, "batch", 1, n + 1 - i) /\ At(sn, x, "list", 0, j - n)
      BY <1>6, <1>7, <2>4
    <3>2. QED BY <1>1, <3>1 DEF Once
  <2>5. CASE i > n /\ j <= n
    <3>1. At(sn, x, "list", 0, i - n) /\ At(sn, x, "batch", 1, n + 1 - j)
      BY <1>6, <1>7, <2>5
    <3>2. QED BY <1>1, <3>1 DEF Once
  <2>6. QED BY <1>2, <2>1, <2>2, <2>3, <2>4, <2>5
<1>8. NoRepeat(c)
  BY <1>7, HeldOnce
<1>9. Comes(sn, c)
  <2>1. SUFFICES ASSUME NEW x, NEW a, Holds(c, x, a)
                 PROVE  \E p, y, j : At(sn, x, p, y, j) /\ (p = "list" \/ (p = "batch" /\ y = 1))
    BY DEF Comes
  <2>2. At(sn, x, "batch", 1, n + 1 - a) \/ At(sn, x, "list", 0, a - n)
    BY <1>2, <1>6, <2>1
  <2>3. QED BY <2>2
<1>10. QED BY <1>8, <1>9 DEF c, sn

\* add_rec_info: an answer that is taken is told once, now or later.
LEMMA McAnswerOnce ==
    ASSUME Numbered, Once, NEW k \in 1 .. Len(queue), McAnswerEnds(k) \/ McAnswerAdds(k)
    PROVE  Once'
<1>1. /\ toMc # <<>> /\ toMc' = Tail(toMc) /\ Answer.type = "answer"
      /\ UNCHANGED <<asked, held, ctx, loop, toDev, fromDev, told>>
      /\ queue[k].ctx = Answer.ctx
  BY DEF McAnswerEnds, McAnswerAdds, McAnswers, IsFor
<1>2. Sound /\ Pool(free, queue)
  BY DEF Numbered, Sound
<1>3. CASE McAnswerEnds(k)
  <2>1. /\ DumpRec(k, queue[k], rec, free) /\ queue[k] \in Query
        /\ Pool(free, [queue EXCEPT ![k] = queue[k]]) /\ Blank(rec, free)
        /\ rec \in [RecId -> AllRecords \cup {Null}] /\ free \in Seq(RecId)
    BY <1>2, <1>3, EndsIs
  <2>2. NoRepeat(Contents(queue[k], rec)) /\ Comes(queue[k].sn, Contents(queue[k], rec))
    BY <1>2, ListOnce
  <2>3. \A j \in 1 .. Len(queue) : \A r \in Range(queue[j].list) :
           j # k => rec[r] = rec[r] /\ r \notin Range(queue[k].list)
    BY <1>2 DEF Pool
  <2>4. QED BY <1>1, <2>1, <2>2, <2>3, DumpOnce
<1>4. CASE McAnswerAdds(k)
  <2>1. /\ Grown(k) \in Query /\ Grown(k).sn = queue[k].sn
        /\ Content(k) \in [RecId -> AllRecords \cup {Null}] /\ Left(k) \in Seq(RecId)
        /\ Pool(Left(k), [queue EXCEPT ![k] = Grown(k)]) /\ Blank(Content(k), Left(k))
        /\ \A j \in 1 .. Len(queue) : \A r \in Range(queue[j].list) :
              j # k => Content(k)[r] = rec[r] /\ r \notin Range(Grown(k).list)
    BY <1>1, <1>2, AddsIs
  <2>2. CASE DumpRec(k, Grown(k), Content(k), Left(k))
    <3>1. /\ NoRepeat(Contents(Grown(k), Content(k)))
          /\ Comes(Grown(k).sn, Contents(Grown(k), Content(k)))
      BY <1>1, <1>2, <2>1, GrownOnce
    <3>2. QED BY <1>1, <2>1, <2>2, <3>1, DumpOnce
  <2>3. CASE /\ queue' = [queue EXCEPT ![k] = Grown(k)]
             /\ rec' = Content(k) /\ free' = Left(k) /\ NoFault /\ UNCHANGED <<size, toGb>>
    BY <1>1, <2>3, AddsOnce
  <2>4. QED BY <1>2, <1>4, <2>2, <2>3, McAddsIs
<1>5. QED BY <1>3, <1>4

\* A fault is not forgotten, and while nothing has been repeated no step
\* repeats anything.
LEMMA FaultsGrow ==
    ASSUME TypeOK, [Next]_vars, "dup" \notin Range(faults')
    PROVE  "dup" \notin Range(faults) /\ ~Fault("dup")
<1>1. faults \in Seq(Faults)
  BY DEF TypeOK
<1>2. faults' = faults \/ \E f : Fault(f)
  BY DEF Next, vars, NoFault, PlatformAsks, GbServer, GbQuery, GbResult, GbFullBatch,
         GbLastBatch, GbAnswer, MsgServerTask, McQuery, McQueryRefused, McAnswerUnknown,
         McAnswerEnds, McAnswerAdds, DumpRec, Send, Device, DevAnswer, DevGrows,
         DevAnswersAsOther, Lose
<1>3. \A f : Fault(f) => Range(faults') = Range(faults) \cup {f}
  BY <1>1, AppendRange DEF Fault
<1>4. QED BY <1>2, <1>3

\* The GB server hands a part of the loop's answer to the message centre, and
\* goes on with what comes after it, or after a smaller part.
LEMMA GbBatchOnce ==
    ASSUME Sound, Once, GbFullBatch \/ GbLastBatch
    PROVE  Once'
<1>1. loop # Null /\ UNCHANGED <<told, toGb, toDev, fromDev, queue, rec>>
  BY DEF GbFullBatch, GbLastBatch, mc
<1>2. Len(loop.list) \in Nat /\ GbBatch \in Nat \ {0}
  <2>1. loop.list \in Seq(AllRecords)
    BY <1>1 DEF Sound, Messages, AnswerMsg
  <2>2. QED BY <2>1, LenProperties, BatchAssumption
<1>3. CASE GbFullBatch
  <2>1. GbBatch \in 0 .. Len(loop.list) /\ GbBatch - 1 \in 0 .. Len(loop.list)
    BY <1>2, <1>3 DEF GbFullBatch
  <2>2. \/ toMc' = HandOver(GbBatch) /\ loop' = [loop EXCEPT !.list = Rest(@, GbBatch)]
        \/ toMc' = toMc /\ loop' = [loop EXCEPT !.list = Rest(@, GbBatch - 1)]
    BY <1>3 DEF GbFullBatch, AfterFailure
  <2>3. CASE toMc' = HandOver(GbBatch) /\ loop' = [loop EXCEPT !.list = Rest(@, GbBatch)]
    <3>1. GbBatch <= GbBatch
      BY <1>2
    <3>2. QED BY <1>1, <2>1, <2>3, <3>1, HandsOnce
  <2>4. CASE toMc' = toMc /\ loop' = [loop EXCEPT !.list = Rest(@, GbBatch - 1)]
    BY <1>1, <2>1, <2>4, HandsOnce
  <2>5. QED BY <2>2, <2>3, <2>4
<1>4. CASE GbLastBatch
  <2>1. /\ loop' = Null
        /\ toMc' = toMc \/ toMc' = HandOver(Len(loop.list))
        /\ Len(loop.list) \in 0 .. Len(loop.list) /\ Len(loop.list) <= Len(loop.list)
    BY <1>2, <1>4 DEF GbLastBatch
  <2>2. QED BY <1>1, <2>1, HandsOnce
<1>5. QED BY <1>3, <1>4

LEMMA SingleNext == Single /\ [Next]_vars => Single'
<1> SUFFICES ASSUME Single, [Next]_vars PROVE Single'
  OBVIOUS
<1>1. Truthful /\ Truthful' /\ Numbered /\ Sound /\ TypeOK
  BY TruthfulNext DEF Single, Truthful, Numbered, Sound
<1>2. SUFFICES ASSUME "dup" \notin Range(faults'), Len(asked') < Limit
               PROVE  Once'
  BY <1>1 DEF Single
<1>3. "dup" \notin Range(faults) /\ ~Fault("dup")
  BY <1>1, <1>2, FaultsGrow
<1>4. Len(asked) < Limit
  BY <1>1, <1>2, AskedGrows
<1>5. Once /\ Truth
  BY <1>1, <1>3, <1>4 DEF Single, Truthful
<1>6. CASE UNCHANGED vars
  <2>1. UNCHANGED <<told, toGb, toMc, toDev, fromDev, loop, queue, rec>>
    BY <1>6 DEF vars, mc
  <2>2. \A sn, c : Waits(sn, c)' => Waits(sn, c)
    BY <2>1 DEF Waits
  <2>3. ASSUME NEW sn, NEW x, NEW p, NEW y, NEW j, At(sn, x, p, y, j)'
        PROVE  At(sn, x, p, y, j)
    <3>1. (p = "answer" => y \in fromDev) /\ (p = "asked" => y \in toDev)
      BY <2>1, <2>3 DEF At, InAnswer, InAsked
    <3>2. QED BY <2>1, <2>2, <2>3, <3>1, Unmoved
  <2>4. QED BY <1>5, <2>3 DEF Once
<1>7. CASE \E i \in Item \cup {Other} : PlatformAsks(i)
  BY <1>1, <1>5, <1>7, PlatformAsksOnce
<1>8. CASE GbServer
  BY <1>1, <1>3, <1>5, <1>8, GbQueryOnce, GbResultOnce, GbBatchOnce, GbAnswerOnce DEF GbServer
<1>9. CASE MsgServerTask
  <2>1. CASE McQuery
    BY <1>1, <1>4, <1>5, <2>1, McQueryOnce
  <2>2. CASE McQueryRefused \/ McAnswerUnknown
    <3>1. toMc # <<>> /\ toMc' = Tail(toMc) /\ UNCHANGED <<told, toGb, toDev, fromDev, loop, queue, rec>>
      BY <2>2 DEF McQueryRefused, McAnswerUnknown, McAnswers, mc
    <3>2. QED BY <1>1, <1>5, <3>1, PassesOnce
  <2>3. CASE \E k \in 1 .. Len(queue) : McAnswerEnds(k) \/ McAnswerAdds(k)
    BY <1>1, <1>5, <2>3, McAnswerOnce
  <2>4. QED BY <1>9, <2>1, <2>2, <2>3 DEF MsgServerTask
<1>10. CASE Device
  BY <1>1, <1>3, <1>5, <1>10, DeviceOnce DEF Device
<1>11. CASE Lose \/ (\E i \in Item : DevGrows(i)) \/ \E a \in fromDev : DevAnswersAsOther(a)
  BY <1>1, <1>5, <1>11, NetworkOnce
<1>12. QED BY <1>6, <1>7, <1>8, <1>9, <1>10, <1>11 DEF Next

LEMMA AlwaysSingle == Spec => []Single
<1>1. Init => Single
  BY SoundInit, NumbersInit, TruthInit, OnceInit DEF Single, Truthful, Numbered
<1>2. QED BY <1>1, SingleNext, PTL DEF Spec

\* While no datagram is repeated and async_msg_ctx has not gone round, no
\* record is told twice, however the answers are split, lost or sent again
\* after a failed sendto: wherever a record of the answer to a query is on its
\* way to the platform, it is nowhere else.
THEOREM RecordsAreToldOnce == Spec => []ToldOnce
<1>1. ASSUME Single PROVE ToldOnce
  <2>1. SUFFICES ASSUME Once,
                        NEW sn \in Sn, NEW a \in 1 .. Len(told[sn]), NEW b \in 1 .. Len(told[sn]),
                        NEW j \in 1 .. Len(told[sn][a]), NEW k \in 1 .. Len(told[sn][b]),
                        told[sn][a][j] = told[sn][b][k]
                 PROVE  a = b /\ j = k
    BY <1>1 DEF Single, ToldOnce, TellsOnce, ToldApart
  <2>2. /\ At(sn, told[sn][a][j], "told", a, j)
        /\ At(sn, told[sn][a][j], "told", b, k)
    BY <2>1 DEF At, InTold, Holds
  <2>3. QED BY <2>1, <2>2 DEF Once
<1>2. QED BY <1>1, AlwaysSingle, PTL

-----------------------------------------------------------------------------
(* Every query is answered: without faults nothing that leads to an answer   *)
(* is dropped.                                                               *)

\* Something with ctx c is under way, about the records of item i.
About(c, i) ==
    \/ \E q \in toDev : q.ctx = c /\ q.item = i
    \/ \E m \in Range(toGb) : m.type = "query" /\ m.ctx = c /\ m.item = i
    \/ \E a \in fromDev : a.ctx = c /\ a.dev = i
    \/ loop # Null /\ loop.ctx = c /\ loop.dev = i
    \/ \E m \in Range(toMc) : m.type = "answer" /\ m.ctx = c /\ m.dev = i

\* The item of the k-th query.
ItemOf(k) == asked[queue[k].sn]

\* An answer is about the item of the query it is taken for, and no answer is
\* older than its query ...
Matching ==
    \A c, i : About(c, i) =>
        c <= ctx /\ \A k \in 1 .. Len(queue) : queue[k].ctx = c => i = ItemOf(k)

\* ... and says how many records there are; an answer without any says 0.
Exact(a) == a.dev \in Item /\ a.sum = held[a.dev] /\ Range(a.list) \subseteq Range(Has(a.dev))
Full(a) == Exact(a) /\ (a.list = <<>> => a.sum = 0)

Exactly ==
    /\ \A a \in fromDev : Full(a)
    /\ loop # Null => Exact(loop)
    /\ \A m \in Range(toMc) : m.type = "answer" => Full(m)

\* A query in the queue is not complete ...
Partial ==
    \A k \in 1 .. Len(queue) :
        /\ Range(Contents(queue[k], rec)) \subseteq Range(Has(ItemOf(k)))
        /\ queue[k].sum \in {0, held[ItemOf(k)]}
        /\ held[ItemOf(k)] # 0 => Len(queue[k].list) # held[ItemOf(k)]

\* ... what it lacks is on its way ...
Coming ==
    \A k \in 1 .. Len(queue) : DifferentTimes(ItemOf(k)) =>
        \A x \in Range(Has(ItemOf(k))) :
            Underway(queue[k].ctx, x) \/ x \in Range(Contents(queue[k], rec))

\* ... and so is the news that there is nothing.
Stirring == \A k \in 1 .. Len(queue) : held[ItemOf(k)] = 0 => \E i : About(queue[k].ctx, i)

Asking(sn) == \E m \in Range(toMc) : m.type = "query" /\ m.sn = sn
Replied(sn) == told[sn] # <<>> \/ \E m \in Range(toGb) : m.type = "result" /\ m.sn = sn
Complete(sn) == Replied(sn) /\ \A x \in Range(Has(asked[sn])) : Reported(sn, x)

\* A query waits, is queued, or is completely answered.
Served ==
    PoolSuffices => \A sn \in 1 .. Len(asked) :
        asked[sn] \in Item /\ DifferentTimes(asked[sn]) => Asking(sn) \/ Queued(sn) \/ Complete(sn)

\* The platforms are told of records that the devices have.
Had == \A sn \in Sn : \A x : Reported(sn, x) => x \in Range(Has(asked[sn]))

Progress == Matching /\ Exactly /\ Partial /\ Coming /\ Stirring /\ Served /\ Had

\* The fifth invariant.
Answering == Single /\ (Calm => Progress)

\* The first element and the others.
LEMMA HeadAndTail ==
    ASSUME NEW S, NEW s \in Seq(S), s # <<>>
    PROVE  Range(s) = {Head(s)} \cup Range(Tail(s))
<1> DEFINE t == Tail(s)
<1>1. /\ t \in Seq(S) /\ Len(t) = Len(s) - 1 /\ Head(s) = s[1] /\ Len(s) \in Nat \ {0}
      /\ \A i \in 1 .. Len(s) - 1 : t[i] = s[i + 1]
      /\ Head(s) \in Range(s) /\ Range(t) \subseteq Range(s)
  BY TailRange
<1> HIDE DEF t
<1>2. \A i \in 1 .. Len(s) : i = 1 \/ (i - 1 \in 1 .. Len(t) /\ s[i] = t[i - 1])
  <2>1. TAKE i \in 1 .. Len(s)
  <2>2. CASE i # 1
    <3>1. i - 1 \in 1 .. Len(s) - 1 /\ (i - 1) + 1 = i
      BY <1>1, <2>2
    <3>2. QED BY <1>1, <3>1
  <2>3. QED BY <2>2
<1>3. \A e : e \in Range(t) <=> \E i \in 1 .. Len(t) : t[i] = e
  BY <1>1, InRange
<1>4. \A e : e \in Range(s) <=> \E i \in 1 .. Len(s) : s[i] = e
  BY InRange
<1>5. Range(s) \subseteq {Head(s)} \cup Range(t)
  BY <1>1, <1>2, <1>3, <1>4
<1>6. QED BY <1>1, <1>5 DEF t

\* The first n elements and the others.
LEMMA SplitRange ==
    ASSUME NEW S, NEW s \in Seq(S), NEW n \in 0 .. Len(s)
    PROVE  Range(SubSeq(s, 1, n)) \cup Range(Rest(s, n)) = Range(s)
<1> DEFINE a == SubSeq(s, 1, n)
           b == Rest(s, n)
<1>1. a \in Seq(S) /\ Len(a) = n /\ \A i \in 1 .. n : a[i] = s[i]
  BY FirstIs
<1>2. b \in Seq(S) /\ Len(b) = Len(s) - n /\ \A i \in 1 .. Len(s) - n : b[i] = s[n + i]
  BY RestIs
<1>3. Len(s) \in Nat
  BY LenProperties
<1> HIDE DEF a, b
<1>4. \A i \in 1 .. Len(a) : i \in 1 .. Len(s) /\ a[i] = s[i]
  BY <1>1, <1>3
<1>5. \A i \in 1 .. Len(b) : n + i \in 1 .. Len(s) /\ b[i] = s[n + i]
  BY <1>2, <1>3
<1>6. \A i \in 1 .. Len(s) : \/ i \in 1 .. Len(a)
                             \/ i - n \in 1 .. Len(b) /\ b[i - n] = s[i]
  <2>1. TAKE i \in 1 .. Len(s)
  <2>2. CASE i <= n
    BY <1>1, <2>2
  <2>3. CASE ~(i <= n)
    <3>1. i - n \in 1 .. Len(s) - n /\ n + (i - n) = i
      BY <1>3, <2>3
    <3>2. QED BY <1>2, <3>1
  <2>4. QED BY <2>2, <2>3
<1>7. \A x : (\E i \in 1 .. Len(s) : s[i] = x) <=>
                (\E i \in 1 .. Len(a) : a[i] = x) \/ (\E i \in 1 .. Len(b) : b[i] = x)
  BY <1>4, <1>5, <1>6
<1>8. /\ \A x : x \in Range(a) <=> \E i \in 1 .. Len(a) : a[i] = x
      /\ \A x : x \in Range(b) <=> \E i \in 1 .. Len(b) : b[i] = x
  BY <1>1, <1>2, InRange
<1>9. \A x : x \in Range(s) <=> \E i \in 1 .. Len(s) : s[i] = x
  BY InRange
<1>10. QED BY <1>7, <1>8, <1>9 DEF a, b

\* Division with a remainder.
LEMMA DivIs ==
    ASSUME NEW b \in Nat, NEW n \in Nat \ {0}
    PROVE  b \div n \in Nat /\ (b \div n) * n <= b /\ b < (b \div n) * n + n
<1>1. n * (b \div n) + (b % n) = b /\ b % n \in 0 .. n - 1 /\ b \div n \in Nat
  OBVIOUS
<1> DEFINE d == b \div n
           r == b % n
<1>2. n * d + r = b /\ r \in 0 .. n - 1 /\ d \in Nat
  BY <1>1
<1> HIDE DEF d, r
<1>3. n * d = d * n /\ d * n \in Nat
  BY <1>2
<1>4. d * n <= b /\ b < d * n + n
  BY <1>2, <1>3
<1>5. QED BY <1>2, <1>4 DEF d

\* Every element is in a piece, and no piece is empty.
LEMMA PiecesCover ==
    ASSUME NEW S, NEW s \in Seq(S), NEW n \in Nat \ {0}
    PROVE  /\ \A k \in 1 .. Len(Pieces(s, n)) : Pieces(s, n)[k] # <<>>
           /\ \A x \in Range(s) : \E k \in 1 .. Len(Pieces(s, n)) : x \in Range(Pieces(s, n)[k])
<1> DEFINE L == Len(s)
           m == (L + n - 1) \div n
           p(k) == SubSeq(s, (k - 1) * n + 1, IF k * n < L THEN k * n ELSE L)
           ps == Pieces(s, n)
<1>1. L \in Nat /\ m \in Nat
  BY LenProperties
<1>2. ps = [k \in 1 .. m |-> p(k)]
  BY DEF Pieces
<1>3. m * n <= L + n - 1 /\ L + n - 1 < m * n + n
  <2>1. L + n - 1 \in Nat
    BY <1>1
  <2>2. QED BY <2>1, DivIs
<1>4. ASSUME NEW k \in 1 .. m
      PROVE  /\ (k - 1) * n \in Nat /\ (k - 1) * n < L
             /\ Len(p(k)) \in Nat \ {0}
             /\ \A i \in 1 .. L : (k - 1) * n < i /\ i <= (k - 1) * n + n =>
                   \E j \in 1 .. Len(p(k)) : p(k)[j] = s[i]
  <2> DEFINE c == (k - 1) * n
             g == IF k * n < L THEN k * n ELSE L
  <2>1. c \in Nat /\ k * n = c + n /\ k - 1 \in Nat
    <3>1. k - 1 \in Nat /\ k = (k - 1) + 1
      BY <1>1
    <3>2. QED BY <3>1
  <2>2. c + n <= m * n
    <3>1. m - k \in Nat
      BY <1>1
    <3>2. (m - k) * n \in Nat
      BY <3>1
    <3>3. m * n = k * n + (m - k) * n
      BY <1>1, <3>1
    <3>4. QED BY <2>1, <3>2, <3>3
  <2>3. c < L
    <3>1. m * n \in Int
      BY <1>1
    <3>2. QED BY <1>1, <1>3, <2>1, <2>2, <3>1
  <2>4. p(k) = SubSeq(s, c + 1, g)
    OBVIOUS
  <2>5. g \in Nat /\ c + 1 <= g /\ g <= L /\ (g = c + n \/ g = L)
    BY <1>1, <2>1, <2>3
  <2> HIDE DEF c, g, L, p
  <2> DEFINE f == c + 1
  <2>6. f \in Nat \ {0} /\ g \in Int /\ g <= Len(s) /\ f <= g
    BY <2>1, <2>5 DEF L
  <2> HIDE DEF f
  <2>7. \A i \in f .. g : s[i] \in S
    BY <2>6, LenProperties
  <2>7b. /\ Len(SubSeq(s, f, g)) = (IF f <= g THEN (g - f) + 1 ELSE 0)
         /\ \A i \in 1 .. (g - f) + 1 : SubSeq(s, f, g)[i] = s[f + i - 1]
    BY <2>6, <2>7, SubSeqProperties
  <2> USE DEF f
  <2>8. Len(p(k)) = g - c
    BY <2>1, <2>4, <2>5, <2>7b
  <2>9. ASSUME NEW i \in 1 .. L, c < i, i <= c + n
        PROVE  \E j \in 1 .. Len(p(k)) : p(k)[j] = s[i]
    <3>1. i <= g
      BY <2>5, <2>9
    <3>2. i - c \in 1 .. (g - f) + 1 /\ i - c \in 1 .. g - c /\ f + (i - c) - 1 = i
      BY <1>1, <2>1, <2>5, <2>9, <3>1
    <3>3. p(k)[i - c] = s[i]
      BY <2>4, <2>7b, <3>2
    <3>4. QED BY <2>8, <3>2, <3>3
  <2>10. Len(p(k)) \in Nat \ {0}
    BY <2>1, <2>5, <2>8
  <2>11. QED BY <2>1, <2>3, <2>9, <2>10 DEF c
<1> HIDE DEF m, p, ps
<1>5. Len(ps) = m /\ \A k \in 1 .. m : ps[k] = p(k)
  BY <1>1, <1>2
<1>6. ps \in Seq(Seq(S))
  BY PiecesAre DEF ps
<1>7. \A k \in 1 .. Len(ps) : ps[k] # <<>>
  <2>1. TAKE k \in 1 .. Len(ps)
  <2>2. Len(ps[k]) # 0
    BY <1>4, <1>5
  <2>3. QED BY <2>2
<1>8. ASSUME NEW x \in Range(s)
      PROVE  \E k \in 1 .. Len(ps) : x \in Range(ps[k])
  <2>1. PICK i \in 1 .. L : s[i] = x
    BY InRange
  <2> DEFINE d == (i - 1) \div n
  <2>2. d \in Nat /\ d * n < i /\ i <= d * n + n
    <3>1. i - 1 \in Nat
      BY <1>1
    <3>2. d \in Nat /\ d * n <= i - 1 /\ i - 1 < d * n + n
      BY <3>1, DivIs
    <3> HIDE DEF d
    <3>3. d * n \in Nat
      BY <3>2
    <3>4. QED BY <1>1, <3>2, <3>3
  <2> HIDE DEF d, L
  <2>3. d < m
    <3>1. SUFFICES ASSUME m <= d PROVE FALSE
      BY <1>1, <2>2
    <3>2. d - m \in Nat
      BY <1>1, <2>2, <3>1
    <3>3. (d - m) * n \in Nat
      BY <3>2
    <3>4. d * n = m * n + (d - m) * n /\ m * n \in Nat /\ d * n \in Nat
      BY <1>1, <2>2, <3>2
    <3>5. QED BY <1>1, <1>3, <2>2, <3>3, <3>4
  <2>4. d + 1 \in 1 .. m /\ (d + 1) - 1 = d
    BY <1>1, <2>2, <2>3
  <2>5. \E j \in 1 .. Len(p(d + 1)) : p(d + 1)[j] = s[i]
    BY <1>4, <2>2, <2>4
  <2>6. ps[d + 1] \in Seq(S) /\ ps[d + 1] = p(d + 1)
    BY <1>5, <1>6, <2>4, ElementOfSeq
  <2>7. x \in Range(ps[d + 1])
    BY <2>1, <2>5, <2>6, InRange
  <2>8. QED BY <1>5, <2>4, <2>7
<1>9. QED BY <1>7, <1>8 DEF ps

\* A fault is not forgotten, a query is not taken back, and without a fault a
\* device keeps the records it has.
LEMMA CalmBefore ==
    ASSUME Sound, [Next]_vars, Calm'
    PROVE  Calm /\ held' = held /\ \A f : ~Fault(f)
<1>1. faults \in Seq(Faults) /\ asked \in Seq(AnyItem) /\ MaxMsg \in Nat /\ Limit \in Nat
  BY LimitAssumption DEF Sound, TypeOK, AnyItem
<1>2. \A f : ~Fault(f)
  <2>1. SUFFICES ASSUME NEW f, Fault(f) PROVE FALSE
    OBVIOUS
  <2>2. f \in Faults /\ faults' = Append(faults, f)
    BY <2>1 DEF Fault
  <2>3. Len(faults') = Len(faults) + 1 /\ Len(faults) \in Nat
    BY <1>1, <2>2, AppendRange
  <2>4. Len(faults') # 0
    BY <2>3
  <2>5. QED BY <2>4 DEF Calm
<1>3. /\ faults' = faults \/ \E f : Fault(f)
      /\ held' = held \/ \E f : Fault(f)
      /\ asked' = asked \/ \E i \in AnyItem : asked' = Append(asked, i)
  BY DEF Next, vars, NoFault, PlatformAsks, GbServer, GbQuery, GbResult, GbFullBatch,
         GbLastBatch, GbAnswer, MsgServerTask, McQuery, McQueryRefused, McAnswerUnknown,
         McAnswers, McAnswerEnds, McAnswerAdds, DumpRec, Send, Device, DevAnswer, DevGrows,
         DevAnswersAsOther, Lose, AnyItem
<1>4. Len(asked) \in Nat /\ (Len(asked') = Len(asked) \/ Len(asked') = Len(asked) + 1)
  <2>1. Len(asked) \in Nat
    BY <1>1, LenProperties
  <2>2. CASE \E i \in AnyItem : asked' = Append(asked, i)
    BY <1>1, <2>2, AppendRange
  <2>3. QED BY <1>3, <2>1, <2>2
<1>5. faults = <<>> /\ held' = held
  BY <1>2, <1>3 DEF Calm
<1>6. Len(asked) <= MaxMsg + 1 /\ Len(asked) < Limit
  BY <1>1, <1>4 DEF Calm
<1>7. QED BY <1>2, <1>5, <1>6 DEF Calm

\* What a device has is known by its index.
LEMMA HasCount ==
    ASSUME Messages, NEW i \in Item
    PROVE  /\ Has(i) \in Seq(AllRecords) /\ Len(Has(i)) = held[i] /\ held[i] \in Nat
           /\ NoRepeat(Has(i))
           /\ Range(Has(i)) \subseteq Range(Records[i]) /\ Range(Has(i)) \subseteq AllRecords
           /\ Range(Has(i)) = {} <=> held[i] = 0
<1>1. Records[i] \in Seq(Range(Records[i])) /\ NoRepeat(Records[i])
  BY RecordsAssumption DEF NoRepeat
<1>2. held[i] \in 0 .. Len(Records[i]) /\ Len(Records[i]) \in Nat
  BY <1>1, LenProperties DEF Messages
<1>3. Len(Has(i)) = held[i] /\ NoRepeat(Has(i))
  BY <1>1, <1>2, FirstIs, SplitIs DEF Has
<1>4. /\ Has(i) \in Seq(AllRecords) /\ Range(Has(i)) \subseteq Range(Records[i])
      /\ Range(Has(i)) \subseteq AllRecords
  BY HasIs
<1>5. held[i] \in Nat
  BY <1>2
<1>6. Range(Has(i)) = {} <=> held[i] = 0
  <2> DEFINE h == Has(i)
  <2>1. h \in Seq(AllRecords) /\ Len(h) = held[i]
    BY <1>3, <1>4
  <2> HIDE DEF h
  <2>2. \A x : x \in Range(h) <=> \E j \in 1 .. Len(h) : h[j] = x
    BY <2>1, InRange
  <2>3. held[i] # 0 => 1 \in 1 .. Len(h)
    BY <1>5, <2>1
  <2>4. held[i] = 0 => Range(h) = {}
    BY <2>1, <2>2
  <2>5. held[i] # 0 => Range(h) # {}
    BY <2>2, <2>3
  <2>6. QED BY <2>4, <2>5 DEF h
<1>7. QED BY <1>3, <1>4, <1>5, <1>6

\* The item of a query in the queue.
LEMMA ItemOfIs ==
    ASSUME Numbered, NEW k \in 1 .. Len(queue)
    PROVE  /\ ItemOf(k) \in Item /\ queue[k].sn \in 1 .. Len(asked) /\ queue[k].sn \in Sn
           /\ queue[k] \in Query
BY QueryType DEF Numbered, Numbers, Waiting, ItemOf, Sound, Messages

\* The GB server and the devices: nothing is dropped on the way.
LEMMA PassingKeeps ==
    ASSUME Numbered, Progress, UNCHANGED <<asked, held, queue, rec, ctx>>,
           \A c, i : About(c, i)' => About(c, i),
           \A k \in 1 .. Len(queue) : \A c, i :
              c = queue[k].ctx /\ i = ItemOf(k) /\ held[i] = 0 /\ About(c, i) => About(c, i)',
           \A k \in 1 .. Len(queue) : \A x \in Range(Has(ItemOf(k))) :
              Underway(queue[k].ctx, x) => Underway(queue[k].ctx, x)',
           Exactly',
           \A sn \in 1 .. Len(asked) : asked[sn] \in Item /\ Asking(sn) => Asking(sn)',
           \A sn \in Sn : /\ Replied(sn) => Replied(sn)'
                          /\ \A x : Reported(sn, x)' <=> Reported(sn, x)
    PROVE  Progress'
<1>1. \A k : ItemOf(k)' = ItemOf(k)
  BY DEF ItemOf
<1>2. \A i : Has(i)' = Has(i)
  BY DEF Has
<1>3. \A k : Contents(queue[k], rec)' = Contents(queue[k], rec)
  BY DEF Contents
<1>4. Matching'
  <2>1. SUFFICES ASSUME NEW c, NEW i, About(c, i)'
                 PROVE  c <= ctx' /\ \A k \in 1 .. Len(queue') : queue'[k].ctx = c => i = ItemOf(k)'
    BY DEF Matching
  <2>2. About(c, i)
    BY <2>1
  <2>3. QED BY <1>1, <2>2 DEF Progress, Matching
<1>5. Partial'
  <2>1. SUFFICES ASSUME NEW k \in 1 .. Len(queue')
                 PROVE  /\ Range(Contents(queue[k], rec)') \subseteq Range(Has(ItemOf(k))')
                        /\ queue'[k].sum \in {0, held'[ItemOf(k)']}
                        /\ held'[ItemOf(k)'] # 0 => Len(queue'[k].list) # held'[ItemOf(k)']
    BY DEF Partial
  <2>2. Has(ItemOf(k))' = Has(ItemOf(k))
    BY <1>1 DEF Has
  <2>3. QED BY <1>1, <1>3, <2>2 DEF Progress, Partial
<1>6. Coming'
  <2>1. SUFFICES ASSUME NEW k \in 1 .. Len(queue'), DifferentTimes(ItemOf(k)'),
                        NEW x \in Range(Has(ItemOf(k))')
                 PROVE  Underway(queue[k].ctx, x)' \/ x \in Range(Contents(queue[k], rec)')
    BY DEF Coming, DifferentTimes
  <2>2. Has(ItemOf(k))' = Has(ItemOf(k))
    BY <1>1 DEF Has
  <2>3. DifferentTimes(ItemOf(k)) /\ x \in Range(Has(ItemOf(k))) /\ k \in 1 .. Len(queue)
    BY <1>1, <2>1, <2>2
  <2>4. Underway(queue[k].ctx, x) \/ x \in Range(Contents(queue[k], rec))
    BY <2>3 DEF Progress, Coming
  <2>5. QED BY <1>3, <2>3, <2>4
<1>7. Stirring'
  <2>1. SUFFICES ASSUME NEW k \in 1 .. Len(queue), held[ItemOf(k)] = 0
                 PROVE  \E i : About(queue[k].ctx, i)'
    BY <1>1 DEF Stirring
  <2>2. PICK i : About(queue[k].ctx, i)
    BY <2>1 DEF Progress, Stirring
  <2>3. i = ItemOf(k) /\ i \in Item
    BY <2>2, ItemOfIs DEF Progress, Matching
  <2>4. About(queue[k].ctx, i)'
    BY <2>1, <2>2, <2>3
  <2>5. QED BY <2>4
<1>8. Served'
  <2>1. SUFFICES ASSUME PoolSuffices', NEW sn \in 1 .. Len(asked), asked[sn] \in Item,
                        DifferentTimes(asked[sn])
                 PROVE  (Asking(sn) \/ Queued(sn) \/ Complete(sn))'
    BY DEF Served, DifferentTimes
  <2>2. PoolSuffices
    BY <2>1 DEF PoolSuffices, Wanted, Has
  <2>3. Asking(sn) \/ Queued(sn) \/ Complete(sn)
    BY <2>1, <2>2 DEF Progress, Served
  <2>4. sn \in Sn
    BY LenProperties, BoundAssumption DEF Numbered, Sound, TypeOK, Sn
  <2>5. Queued(sn) => Queued(sn)'
    BY DEF Queued
  <2>6. Complete(sn) => Complete(sn)'
    <3>1. Has(asked[sn])' = Has(asked[sn])
      BY DEF Has
    <3>2. QED BY <2>4, <3>1 DEF Complete
  <2>7. QED BY <2>1, <2>3, <2>4, <2>5, <2>6
<1>9. Had'
  <2>1. SUFFICES ASSUME NEW sn \in Sn, NEW x, Reported(sn, x)'
                 PROVE  x \in Range(Has(asked[sn]))'
    BY DEF Had
  <2>2. Has(asked[sn])' = Has(asked[sn])
    BY DEF Has
  <2>3. x \in Range(Has(asked[sn]))
    BY <2>1 DEF Progress, Had
  <2>4. QED BY <2>2, <2>3
<1>10. QED BY <1>4, <1>5, <1>6, <1>7, <1>8, <1>9 DEF Progress

\* When every answer says how many records there are.
LEMMA ExactlyKept ==
    ASSUME held' = held, \A a \in fromDev' : Full(a), loop' # Null => Exact(loop'),
           \A m \in Range(toMc') : m.type = "answer" => Full(m)
    PROVE  Exactly'
<1>1. \A a : Exact(a)' <=> Exact(a)
  BY DEF Exact, Has
<1>2. \A a : Full(a)' <=> Full(a)
  BY <1>1 DEF Full
<1>3. loop' # Null => Exact(loop)'
  BY DEF Exact, Has
<1>4. QED BY <1>2, <1>3 DEF Exactly

\* The GB server sends a query to the device.
LEMMA GbQueryAnswers ==
    ASSUME Numbered, Progress, GbQuery
    PROVE  Progress'
<1> DEFINE h == Head(toGb)
<1>1. /\ toGb # <<>> /\ h.type = "query" /\ toGb' = Tail(toGb)
      /\ toDev' = toDev \cup {[ctx |-> h.ctx, item |-> h.item]}
      /\ UNCHANGED <<asked, held, queue, rec, ctx, loop, toMc, fromDev, told>>
  BY DEF GbQuery, mc
<1>2. toGb \in Seq(QueryOut \cup ResultOut)
  BY DEF Numbered, Sound, Messages
<1>3. Range(toGb) = {h} \cup Range(toGb')
  BY <1>1, <1>2, HeadAndTail
<1> DEFINE d == [ctx |-> h.ctx, item |-> h.item]
<1>10. d.ctx = h.ctx /\ d.item = h.item /\ toDev' = toDev \cup {d}
  BY <1>1
<1> HIDE DEF h, d
<1>4. \A c, i : About(c, i)' <=> About(c, i)
  BY <1>1, <1>3, <1>10 DEF About
<1>5. \A c, x : Underway(c, x) => Underway(c, x)'
  BY <1>1, <1>3, <1>10 DEF Underway
<1>6. \A sn, x : Reported(sn, x)' <=> Reported(sn, x)
  BY <1>1, <1>3 DEF Reported
<1>7. \A sn : (Asking(sn) => Asking(sn)') /\ (Replied(sn) => Replied(sn)')
  BY <1>1, <1>3 DEF Asking, Replied
<1>8. Exactly'
  BY <1>1, ExactlyKept DEF Progress, Exactly
<1>9. QED BY <1>1, <1>4, <1>5, <1>6, <1>7, <1>8, PassingKeeps

\* The GB server answers the platform.
LEMMA GbResultAnswers ==
    ASSUME Numbered, Progress, GbResult
    PROVE  Progress'
<1> DEFINE h == Head(toGb)
<1>1. /\ toGb # <<>> /\ h.type = "result" /\ toGb' = Tail(toGb)
      /\ told' = [told EXCEPT ![h.sn] = Append(@, h.list)]
      /\ UNCHANGED <<asked, held, queue, rec, ctx, loop, toMc, toDev, fromDev>>
  BY DEF GbResult, mc
<1>2. toGb \in Seq(QueryOut \cup ResultOut) /\ told \in [Sn -> Seq(Seq(AllRecords))]
  BY DEF Numbered, Sound, Messages
<1>3. Range(toGb) = {h} \cup Range(toGb') /\ h \in QueryOut \cup ResultOut
  BY <1>1, <1>2, HeadAndTail, TailRange
<1>4. h.sn \in Sn /\ h.list \in Seq(AllRecords)
  BY <1>1, <1>3, Kinds DEF ResultOut
<1> HIDE DEF h
<1>5. /\ \A sn \in Sn : sn # h.sn => told'[sn] = told[sn]
      /\ told'[h.sn] = Append(told[h.sn], h.list)
      /\ told[h.sn] \in Seq(Seq(AllRecords))
  BY <1>1, <1>2, <1>4
<1>6. Range(told'[h.sn]) = Range(told[h.sn]) \cup {h.list} /\ told'[h.sn] # <<>>
  <2>1. /\ Range(Append(told[h.sn], h.list)) = Range(told[h.sn]) \cup {h.list}
        /\ Len(Append(told[h.sn], h.list)) = Len(told[h.sn]) + 1
        /\ Len(told[h.sn]) \in Nat
    BY <1>4, <1>5, AppendRange
  <2>2. Len(told'[h.sn]) # 0
    BY <1>5, <2>1
  <2>3. QED BY <1>5, <2>1, <2>2
<1>7. \A c, i : About(c, i)' <=> About(c, i)
  BY <1>1, <1>3 DEF About
<1>8. \A c, x : Underway(c, x) => Underway(c, x)'
  BY <1>1, <1>3 DEF Underway
<1>9. ASSUME NEW sn \in Sn, NEW x
      PROVE  Reported(sn, x)' <=> Reported(sn, x)
  <2>1. CASE sn = h.sn
    BY <1>1, <1>3, <1>6, <2>1 DEF Reported
  <2>2. CASE sn # h.sn
    BY <1>1, <1>3, <1>5, <2>2 DEF Reported
  <2>3. QED BY <2>1, <2>2
<1>10. ASSUME NEW sn \in Sn
       PROVE  Replied(sn) => Replied(sn)'
  <2>1. CASE sn = h.sn
    BY <1>1, <1>6, <2>1 DEF Replied
  <2>2. CASE sn # h.sn
    BY <1>1, <1>3, <1>5, <2>2 DEF Replied
  <2>3. QED BY <2>1, <2>2
<1>11. Exactly'
  BY <1>1, ExactlyKept DEF Progress, Exactly
<1>12. \A sn : Asking(sn) => Asking(sn)'
  BY <1>1 DEF Asking
<1>13. QED BY <1>1, <1>7, <1>8, <1>9, <1>10, <1>11, <1>12, PassingKeeps

\* The GB server takes an answer of a device.
LEMMA GbAnswerAnswers ==
    ASSUME Numbered, Progress, NEW a \in fromDev, GbAnswer(a), \A f : ~Fault(f)
    PROVE  Progress'
<1>1. /\ loop = Null /\ loop' = a /\ fromDev' = fromDev \ {a}
      /\ UNCHANGED <<asked, held, queue, rec, ctx, toMc, toGb, toDev, told>>
  BY DEF GbAnswer, mc
<1>2. a # Null
  BY NullAssumption DEF Numbered, Sound, Messages, AnswerMsg, AnyItem
<1>3. \A c, i : About(c, i)' <=> About(c, i)
  BY <1>1, <1>2 DEF About
<1>4. \A c, x : Underway(c, x) => Underway(c, x)'
  BY <1>1, <1>2 DEF Underway
<1>5. \A sn, x : Reported(sn, x)' <=> Reported(sn, x)
  BY <1>1 DEF Reported
<1>6. \A sn : (Asking(sn) => Asking(sn)') /\ (Replied(sn) => Replied(sn)')
  BY <1>1 DEF Asking, Replied
<1>7. Exactly'
  BY <1>1, ExactlyKept DEF Progress, Exactly, Full
<1>8. QED BY <1>1, <1>3, <1>4, <1>5, <1>6, <1>7, PassingKeeps

\* A part of the answer in the loop goes to the message centre, the other part
\* stays; what goes is empty only when there is no record.
LEMMA HandingAnswers ==
    ASSUME Numbered, Progress, loop # Null, NEW n \in 0 .. Len(loop.list),
           toMc' = HandOver(n), n = 0 => loop.sum = 0,
           \/ loop' = [loop EXCEPT !.list = Rest(@, n)]
           \/ loop' = Null /\ n = Len(loop.list),
           UNCHANGED <<asked, held, mc, toGb, toDev, fromDev, told>>
    PROVE  Progress'
<1> DEFINE l == SubSeq(loop.list, 1, n)
           m == [type |-> "answer", ctx |-> loop.ctx, dev |-> loop.dev, sum |-> loop.sum, list |-> l]
<1>1. /\ loop \in AnswerMsg /\ loop.list \in Seq(AllRecords)
      /\ toMc \in Seq(QueryIn \cup AnswerIn) /\ Exact(loop)
  BY DEF Numbered, Sound, Messages, AnswerMsg, Progress, Exactly
<1>2. /\ l \in Seq(AllRecords) /\ Len(l) = n
      /\ Range(l) \cup Range(Rest(loop.list, n)) = Range(loop.list)
  BY <1>1, FirstIs, SplitRange
<1>3. m \in QueryIn \cup AnswerIn
  BY <1>1, <1>2 DEF AnswerMsg, AnswerIn
<1>4. toMc' = Append(toMc, m)
  BY DEF HandOver
<1>5. m.type = "answer" /\ m.ctx = loop.ctx /\ m.dev = loop.dev /\ m.sum = loop.sum /\ m.list = l
  OBVIOUS
<1> HIDE DEF m
<1>17. Range(toMc') = Range(toMc) \cup {m}
  BY <1>1, <1>3, <1>4, AppendRange
<1>6. UNCHANGED <<queue, rec, ctx>>
  BY DEF mc
<1>7. loop' # Null =>
         /\ loop'.ctx = loop.ctx /\ loop'.dev = loop.dev /\ loop'.sum = loop.sum
         /\ loop'.list = Rest(loop.list, n)
  BY <1>1 DEF AnswerMsg
<1>8. loop' = Null => Range(Rest(loop.list, n)) = {}
  <2>1. CASE loop' = Null /\ n = Len(loop.list)
    <3>1. /\ Rest(loop.list, n) \in Seq(AllRecords) /\ Len(Rest(loop.list, n)) = Len(loop.list) - n
          /\ Len(loop.list) \in Nat
      BY <1>1, RestIs
    <3>2. Len(Rest(loop.list, n)) = 0
      BY <2>1, <3>1
    <3>3. 1 .. 0 = {}
      OBVIOUS
    <3>4. QED BY <3>1, <3>2, <3>3, InRange
  <2>2. CASE loop' = [loop EXCEPT !.list = Rest(@, n)]
    <3>1. Rest(loop.list, n) \in Seq(AllRecords)
      BY <1>1, RestIs
    <3>2. loop' \in AnswerMsg
      BY <1>1, <2>2, <3>1 DEF AnswerMsg
    <3>3. QED BY <3>2, NullAssumption DEF AnswerMsg, AnyItem
  <2>3. QED BY <2>1, <2>2
<1>9. Full(m)
  <2>1. l = <<>> => n = 0
    BY <1>2
  <2>2. QED BY <1>1, <1>2, <1>5, <2>1 DEF Full, Exact
<1>10. loop' # Null => Exact(loop')
  BY <1>1, <1>2, <1>7 DEF Exact
<1> HIDE DEF l
<1>11. \A c, i : About(c, i)' <=> About(c, i)
  BY <1>5, <1>7, <1>17 DEF About
<1>12. \A c, x : Underway(c, x) => Underway(c, x)'
  BY <1>2, <1>5, <1>7, <1>8, <1>17 DEF Underway
<1>13. \A sn, x : Reported(sn, x)' <=> Reported(sn, x)
  BY DEF Reported
<1>14. \A sn : (Asking(sn) => Asking(sn)') /\ (Replied(sn) => Replied(sn)')
  BY <1>17 DEF Asking, Replied
<1>15. Exactly'
  BY <1>9, <1>10, <1>17, ExactlyKept DEF Progress, Exactly
<1>16. QED BY <1>6, <1>11, <1>12, <1>13, <1>14, <1>15, PassingKeeps

\* A full batch; the last batch.
LEMMA GbBatchAnswers ==
    ASSUME Numbered, Progress, GbFullBatch \/ GbLastBatch, \A f : ~Fault(f)
    PROVE  Progress'
<1>1. /\ loop # Null /\ UNCHANGED <<asked, held, mc, toGb, toDev, fromDev, told>>
      /\ UNCHANGED <<queue, rec, ctx>>
  BY DEF GbFullBatch, GbLastBatch, mc
<1>2. /\ loop.list \in Seq(AllRecords) /\ Len(loop.list) \in Nat /\ Exact(loop)
      /\ GbBatch \in Nat \ {0, 1}
  <2>1. loop.list \in Seq(AllRecords)
    BY <1>1 DEF Numbered, Sound, Messages, AnswerMsg
  <2>2. QED BY <1>1, <2>1, LenProperties, BatchAssumption DEF Progress, Exactly
<1>3. CASE GbFullBatch
  <2>1. GbBatch \in 0 .. Len(loop.list) /\ GbBatch # 0
    BY <1>2, <1>3 DEF GbFullBatch
  <2>2. toMc' = HandOver(GbBatch) /\ loop' = [loop EXCEPT !.list = Rest(@, GbBatch)]
    BY <1>3 DEF GbFullBatch
  <2>3. QED BY <1>1, <2>1, <2>2, HandingAnswers
<1>4. CASE GbLastBatch
  <2>1. CASE loop.list # <<>> \/ loop.sum = 0
    <3>1. toMc' = HandOver(Len(loop.list)) /\ loop' = Null
      BY <1>4, <2>1 DEF GbLastBatch
    <3>2. Len(loop.list) \in 0 .. Len(loop.list) /\ (Len(loop.list) = 0 => loop.sum = 0)
      BY <1>2, <2>1
    <3>3. QED BY <1>1, <3>1, <3>2, HandingAnswers
  <2>2. CASE loop.list = <<>> /\ loop.sum # 0
    <3>1. toMc' = toMc /\ loop' = Null
      BY <1>4, <2>2 DEF GbLastBatch
    <3>2. Range(loop.list) = {}
      BY <2>2 DEF Range
    <3>3. held[loop.dev] # 0
      BY <1>2, <2>2 DEF Exact
    <3>4. /\ \A c, i : About(c, i)' => About(c, i)
          /\ \A c, i : held[i] = 0 /\ About(c, i) => About(c, i)'
      BY <1>1, <3>1, <3>3 DEF About
    <3>5. \A c, x : Underway(c, x) => Underway(c, x)'
      BY <1>1, <3>1, <3>2 DEF Underway
    <3>6. \A sn, x : Reported(sn, x)' <=> Reported(sn, x)
      BY <1>1 DEF Reported
    <3>7. \A sn : (Asking(sn) => Asking(sn)') /\ (Replied(sn) => Replied(sn)')
      BY <1>1, <3>1 DEF Asking, Replied
    <3>8. Exactly'
      BY <1>1, <3>1, ExactlyKept DEF Progress, Exactly
    <3>9. QED BY <1>1, <3>4, <3>5, <3>6, <3>7, <3>8, PassingKeeps
  <2>3. QED BY <2>1, <2>2
<1>5. QED BY <1>3, <1>4

\* The device answers with all its records, or says that it has none.
LEMMA DeviceAnswers ==
    ASSUME Numbered, Progress, NEW q \in toDev, DevAnswer(q), \A f : ~Fault(f)
    PROVE  Progress'
<1> DEFINE all == Has(q.item)
           lists == IF all = <<>> THEN {<<>>} ELSE Range(Pieces(all, DevBatch))
           answer(l) == [ctx |-> q.ctx, dev |-> q.item, sum |-> Len(all), list |-> l]
<1>1. /\ fromDev' = fromDev \cup {answer(l) : l \in lists}
      /\ toDev' = toDev \ {q}
      /\ UNCHANGED <<asked, held, queue, rec, ctx, loop, toMc, toGb, told>>
  BY DEF DevAnswer, mc
<1>2. q.item \in Item /\ Messages
  BY DEF Numbered, Sound, Messages
<1>3. /\ all \in Seq(AllRecords) /\ Len(all) = held[q.item] /\ held[q.item] \in Nat
      /\ Range(all) = {} <=> held[q.item] = 0
  BY <1>2, HasCount
<1>4. \A l : /\ answer(l).ctx = q.ctx /\ answer(l).dev = q.item
             /\ answer(l).sum = Len(all) /\ answer(l).list = l
  OBVIOUS
<1> DEFINE ps == Pieces(all, DevBatch)
<1>5. /\ ps \in Seq(Seq(AllRecords))
      /\ \A j \in 1 .. Len(ps) : Range(ps[j]) \subseteq Range(all) /\ ps[j] # <<>>
      /\ \A x \in Range(all) : \E j \in 1 .. Len(ps) : x \in Range(ps[j])
  <2> HIDE DEF all
  <2>1. DevBatch \in Nat \ {0}
    BY BatchAssumption
  <2>2. all \in Seq(AllRecords)
    BY <1>3
  <2>3. ps \in Seq(Seq(AllRecords)) /\ \A j \in 1 .. Len(ps) : Range(ps[j]) \subseteq Range(all)
    BY ONLY <2>1, <2>2, PiecesAre
  <2>4. /\ \A j \in 1 .. Len(ps) : ps[j] # <<>>
        /\ \A x \in Range(all) : \E j \in 1 .. Len(ps) : x \in Range(ps[j])
    BY ONLY <2>1, <2>2, PiecesCover
  <2>5. QED BY <2>3, <2>4
<1>6. /\ \A l \in lists : Range(l) \subseteq Range(all) /\ (l = <<>> => held[q.item] = 0)
      /\ \A x \in Range(all) : \E l \in lists : x \in Range(l)
      /\ held[q.item] = 0 => <<>> \in lists
  <2>1. CASE all = <<>>
    <3>1. Range(all) = {} /\ lists = {<<>>}
      BY <2>1 DEF Range
    <3>2. QED BY <1>3, <2>1, <3>1
  <2>2. CASE all # <<>>
    <3>1. lists = Range(ps)
      BY <2>2
    <3> HIDE DEF lists, ps, all
    <3>2. \A l : l \in lists <=> \E j \in 1 .. Len(ps) : ps[j] = l
      BY <1>5, <3>1, InRange
    <3>3. held[q.item] # 0
      BY <1>3, <2>2, EmptySeq
    <3>4. QED BY <1>5, <3>2, <3>3
  <2>3. QED BY <2>1, <2>2
<1> HIDE DEF lists, ps, all, answer
<1>7. \A a \in fromDev' : \/ a \in fromDev
                          \/ \E l \in lists : /\ a = answer(l) /\ a.ctx = q.ctx /\ a.dev = q.item
                                              /\ a.sum = Len(all) /\ a.list = l
  BY <1>1, <1>4
<1>8. \A l \in lists : \E a \in fromDev' : a.ctx = q.ctx /\ a.dev = q.item /\ a.list = l
  BY <1>1, <1>4
<1>9. \A a \in fromDev : a \in fromDev'
  BY <1>1
<1>10. \A d : d \in toDev <=> d = q \/ d \in toDev'
  BY <1>1
<1>11. \A c, i : About(c, i)' => About(c, i)
  BY <1>1, <1>7, <1>10 DEF About
<1>12. \A i : held[i] = 0 => \A c : About(c, i) => About(c, i)'
  <2>1. held[q.item] = 0 => \E a \in fromDev' : a.ctx = q.ctx /\ a.dev = q.item
    BY <1>6, <1>8
  <2>2. QED BY <1>1, <1>9, <1>10, <2>1 DEF About
<1>13. ASSUME NEW k \in 1 .. Len(queue), NEW x \in Range(Has(ItemOf(k))), Underway(queue[k].ctx, x)
       PROVE  Underway(queue[k].ctx, x)'
  <2>1. CASE q.ctx = queue[k].ctx
    <3>1. About(queue[k].ctx, q.item)
      BY <2>1 DEF About
    <3>2. q.item = ItemOf(k)
      BY <3>1 DEF Progress, Matching
    <3>3. PICK l \in lists : x \in Range(l)
      BY <1>6, <1>13, <3>2 DEF all
    <3>4. PICK a \in fromDev' : a.ctx = queue[k].ctx /\ x \in Range(a.list)
      BY <1>8, <2>1, <3>3
    <3>5. QED BY <1>1, <3>4 DEF Underway
  <2>2. CASE q.ctx # queue[k].ctx
    BY <1>1, <1>9, <1>10, <1>13, <2>2 DEF Underway
  <2>3. QED BY <2>1, <2>2
<1>14. \A sn, x : Reported(sn, x)' <=> Reported(sn, x)
  BY <1>1 DEF Reported
<1>15. \A sn : (Asking(sn) => Asking(sn)') /\ (Replied(sn) => Replied(sn)')
  BY <1>1 DEF Asking, Replied
<1>16. \A a \in fromDev' : Full(a)
  <2>1. TAKE a \in fromDev'
  <2>2. CASE a \in fromDev
    BY <2>2 DEF Progress, Exactly
  <2>3. CASE \E l \in lists : /\ a = answer(l) /\ a.ctx = q.ctx /\ a.dev = q.item
                              /\ a.sum = Len(all) /\ a.list = l
    BY <1>2, <1>3, <1>6, <2>3 DEF Full, Exact, all
  <2>4. QED BY <1>7, <2>2, <2>3
<1>17. Exactly'
  BY <1>1, <1>16, ExactlyKept DEF Progress, Exactly
<1>18. QED BY <1>1, <1>11, <1>12, <1>13, <1>14, <1>15, <1>17, PassingKeeps

\* A sequence without repetitions has as many elements as it is long.
LEMMA CountRange ==
    ASSUME NEW S, NEW s \in Seq(S)
    PROVE  /\ IsFiniteSet(Range(s)) /\ Cardinality(Range(s)) \in Nat
           /\ Cardinality(Range(s)) = Len(s) <=> NoRepeat(s)
<1> DEFINE n == Len(s)
           f == [i \in 1 .. n |-> s[i]]
<1>1. n \in Nat /\ \A e : e \in Range(s) <=> \E i \in 1 .. n : s[i] = e
  BY InRange, LenProperties
<1> HIDE DEF n
<1>2. f \in [1 .. n -> Range(s)] /\ \A e \in Range(s) : \E i \in 1 .. n : f[i] = e
  BY <1>1
<1>3. f \in Surjection(1 .. n, Range(s))
  <2> HIDE DEF f
  <2>1. QED BY <1>2 DEF Surjection
<1>4. IsFiniteSet(1 .. n) /\ Cardinality(1 .. n) = n
  BY <1>1, FS_Interval
<1>5. /\ IsFiniteSet(Range(s))
      /\ Cardinality(Range(s)) = n <=> f \in Injection(1 .. n, Range(s))
  BY <1>3, <1>4, FS_Surjection
<1>6. f \in Injection(1 .. n, Range(s)) <=> NoRepeat(s)
  <2>1. f \in Injection(1 .. n, Range(s)) => \A a, b \in 1 .. n : f[a] = f[b] => a = b
    BY DEF Injection, IsInjective
  <2>2. (\A a, b \in 1 .. n : f[a] = f[b] => a = b) => f \in Injection(1 .. n, Range(s))
    BY <1>2 DEF Injection, IsInjective
  <2>3. (\A a, b \in 1 .. n : f[a] = f[b] => a = b) <=> NoRepeat(s)
    BY DEF NoRepeat, n
  <2>4. QED BY <2>1, <2>2, <2>3
<1>7. QED BY <1>5, <1>6, FS_CardinalityType DEF n

\* What the queries of the platforms ask for is finite.
LEMMA WantedFinite == Sound => IsFiniteSet(Wanted)
<1> SUFFICES ASSUME Sound PROVE IsFiniteSet(Wanted)
  OBVIOUS
<1> DEFINE want == {n \in 1 .. Len(asked) : asked[n] \in Item}
           of(sn) == {sn} \X Range(Has(asked[sn]))
<1>1. Len(asked) \in Nat
  BY LenProperties DEF Sound, TypeOK
<1>2. IsFiniteSet(want)
  <2>1. IsFiniteSet(1 .. Len(asked))
    BY <1>1, FS_Interval
  <2>2. QED BY <2>1, FS_Subset
<1>3. ASSUME NEW sn \in want PROVE IsFiniteSet(of(sn))
  <2>1. Has(asked[sn]) \in Seq(AllRecords)
    BY HasIs DEF Sound
  <2>2. IsFiniteSet(Range(Has(asked[sn])))
    BY <2>1, CountRange
  <2>3. IsFiniteSet({sn})
    BY FS_Singleton
  <2>4. QED BY <2>2, <2>3, FS_Product
<1> DEFINE parts == {of(sn) : sn \in want}
<1>4. IsFiniteSet(parts)
  <2> DEFINE f == [sn \in want |-> of(sn)]
  <2>1. f \in Surjection(want, parts)
    BY DEF Surjection
  <2>2. QED BY <1>2, <2>1, FS_Surjection
<1>5. \A p \in parts : IsFiniteSet(p)
  BY <1>3
<1>6. IsFiniteSet(UNION parts)
  BY <1>4, <1>5, FS_UNION
<1>7. Wanted = UNION parts
  BY DEF Wanted
<1>8. QED BY <1>6, <1>7

\* One query more asks for more.
LEMMA SufficedBefore ==
    ASSUME Sound, Sound', held' = held,
           asked' = asked \/ \E i \in AnyItem : asked' = Append(asked, i)
    PROVE  PoolSuffices' => PoolSuffices
<1>1. asked \in Seq(AnyItem)
  BY DEF Sound, TypeOK, AnyItem
<1>2. \A sn \in 1 .. Len(asked) : sn \in 1 .. Len(asked') /\ asked'[sn] = asked[sn]
  <2>1. CASE \E i \in AnyItem : asked' = Append(asked, i)
    BY <1>1, <2>1, AppendRange
  <2>2. QED BY <2>1
<1>3. \A i : Has(i)' = Has(i)
  BY DEF Has
<1>4. Wanted \subseteq Wanted'
  BY <1>2, <1>3 DEF Wanted
<1>5. IsFiniteSet(Wanted')
  <2>1. Sound' => IsFiniteSet(Wanted)'
    BY WantedFinite, PTL
  <2>2. QED BY <2>1
<1>6. IsFiniteSet(Wanted) /\ Cardinality(Wanted) <= Cardinality(Wanted')
  BY <1>4, <1>5, FS_Subset
<1>7. Cardinality(Wanted) \in Nat /\ Cardinality(Wanted') \in Nat
  BY <1>5, <1>6, FS_CardinalityType
<1>8. QED BY <1>6, <1>7, NumRecAssumption DEF PoolSuffices

\* A platform's query is on its way to the message centre.
LEMMA PlatformAsksAnswers ==
    ASSUME Numbered, Sound', Truth, Progress, NEW i \in AnyItem, PlatformAsks(i), \A f : ~Fault(f)
    PROVE  Progress'
<1> DEFINE m == [type |-> "query", sn |-> Len(asked) + 1, item |-> i]
<1>1. /\ asked' = Append(asked, i) /\ toMc' = Append(toMc, m) /\ Len(asked) < MaxQuery
      /\ UNCHANGED <<held, queue, rec, ctx, loop, toGb, toDev, fromDev, told>>
  BY DEF PlatformAsks, mc
<1>2. /\ asked \in Seq(AnyItem) /\ Len(asked) \in Nat /\ Len(asked') = Len(asked) + 1
      /\ \A j \in 1 .. Len(asked) : asked'[j] = asked[j]
      /\ asked'[Len(asked) + 1] = i
  BY <1>1, AppendRange DEF Numbered, Sound, TypeOK, AnyItem
<1>3. m.type = "query" /\ m.sn = Len(asked) + 1
  OBVIOUS
<1>4. toMc \in Seq(QueryIn \cup AnswerIn) /\ m \in QueryIn \cup AnswerIn
  <2>1. Len(asked) + 1 \in Sn
    BY <1>1, <1>2, BoundAssumption DEF Sn
  <2>2. QED BY <2>1 DEF Numbered, Sound, Messages, QueryIn
<1> HIDE DEF m
<1>5. Range(toMc') = Range(toMc) \cup {m}
  BY <1>1, <1>4, AppendRange
<1>6. \A sn \in 1 .. Len(asked) : asked'[sn] = asked[sn] /\ Has(asked[sn])' = Has(asked[sn])
  BY <1>1, <1>2 DEF Has
<1>7. \A k \in 1 .. Len(queue) :
         /\ queue[k].sn \in 1 .. Len(asked)
         /\ ItemOf(k)' = ItemOf(k) /\ Has(ItemOf(k))' = Has(ItemOf(k))
         /\ Contents(queue[k], rec)' = Contents(queue[k], rec)
  BY <1>1, <1>6, ItemOfIs DEF ItemOf, Contents
<1>8. \A c, j : About(c, j)' <=> About(c, j)
  BY <1>1, <1>3, <1>5 DEF About
<1>9. \A c, x : Underway(c, x)' <=> Underway(c, x)
  BY <1>1, <1>3, <1>5 DEF Underway
<1>10. \A sn, x : Reported(sn, x)' <=> Reported(sn, x)
  BY <1>1 DEF Reported
<1>11. Matching'
  BY <1>1, <1>7, <1>8 DEF Progress, Matching
<1>12. Exactly'
  BY <1>1, <1>3, <1>5, ExactlyKept DEF Progress, Exactly
<1>13. Partial'
  BY <1>1, <1>7 DEF Progress, Partial
<1>14. Coming'
  BY <1>1, <1>7, <1>9 DEF Progress, Coming, DifferentTimes
<1>15. Stirring'
  BY <1>1, <1>7, <1>8 DEF Progress, Stirring
<1>16. PoolSuffices' => PoolSuffices
  BY <1>1, SufficedBefore DEF Numbered
<1>17. Served'
  <2>1. SUFFICES ASSUME PoolSuffices', NEW sn \in 1 .. Len(asked'), asked'[sn] \in Item,
                        DifferentTimes(asked'[sn])
                 PROVE  (Asking(sn) \/ Queued(sn) \/ Complete(sn))'
    BY DEF Served, DifferentTimes
  <2>2. CASE sn = Len(asked) + 1
    BY <1>3, <1>5, <2>2 DEF Asking
  <2>3. CASE sn \in 1 .. Len(asked)
    <3>1. asked[sn] \in Item /\ DifferentTimes(asked[sn])
      BY <1>6, <2>1, <2>3
    <3>2. Asking(sn) \/ Queued(sn) \/ Complete(sn)
      BY <1>16, <2>1, <2>3, <3>1 DEF Progress, Served
    <3>3. /\ Asking(sn) => Asking(sn)'
          /\ Queued(sn) => Queued(sn)'
          /\ Replied(sn) => Replied(sn)'
      BY <1>1, <1>5 DEF Asking, Queued, Replied
    <3>4. Complete(sn) => Complete(sn)'
      BY <1>6, <1>10, <2>3, <3>3 DEF Complete
    <3>5. QED BY <3>2, <3>3, <3>4
  <2>4. QED BY <1>2, <2>1, <2>2, <2>3
<1>18. Had'
  <2>1. SUFFICES ASSUME NEW sn \in Sn, NEW x, Reported(sn, x)'
                 PROVE  x \in Range(Has(asked[sn]))'
    BY DEF Had
  <2>2. Reported(sn, x) /\ sn \in 1 .. Len(asked)
    BY <1>10, <2>1 DEF Truth, Reports
  <2>3. x \in Range(Has(asked[sn]))
    BY <2>1, <2>2 DEF Progress, Had
  <2>4. QED BY <1>6, <2>2, <2>3
<1>19. QED BY <1>11, <1>12, <1>13, <1>14, <1>15, <1>17, <1>18 DEF Progress

\* While a query is on its way to the message centre, fewer are in the queue.
LEMMA RoomForOne ==
    ASSUME Numbered, NEW i \in 1 .. Len(toMc), toMc[i].type = "query"
    PROVE  Len(queue) < Len(asked)
<1> DEFINE sn == toMc[i].sn
           n == Len(queue)
           f == [k \in 1 .. n |-> queue[k].sn]
<1>1. Len(asked) \in Nat /\ n \in Nat
  BY LenProperties DEF Numbered, Sound, TypeOK, Messages
<1>2. sn \in 1 .. Len(asked)
  BY DEF Numbered, Numbers, Ordered
<1>3. \A k \in 1 .. n : queue[k].sn \in 1 .. Len(asked) /\ queue[k].sn < sn
  BY DEF Numbered, Numbers, Waiting, Newer
<1> HIDE DEF sn
<1>4. \A k \in 1 .. n : queue[k].sn \in 1 .. sn - 1
  BY <1>1, <1>2, <1>3
<1>5. \A j, k \in 1 .. n : queue[j].sn = queue[k].sn => j = k
  BY DEF Numbered, Numbers, Waiting
<1> HIDE DEF n
<1>6. f \in Injection(1 .. n, 1 .. sn - 1)
  BY <1>4, <1>5 DEF Injection, IsInjective
<1>7. /\ IsFiniteSet(1 .. sn - 1) /\ Cardinality(1 .. sn - 1) = sn - 1
      /\ Cardinality(1 .. n) = n
  <2>1. sn \in Int /\ 1 \in Int /\ sn - 1 \in Nat
    BY <1>1, <1>2
  <2>2. \A a \in Nat : IsFiniteSet(1 .. a) /\ Cardinality(1 .. a) = a
    <3>1. TAKE a \in Nat
    <3>2. a \in Int /\ 1 \in Int
      OBVIOUS
    <3>3. IsFiniteSet(1 .. a) /\ Cardinality(1 .. a) = (IF 1 > a THEN 0 ELSE (a - 1) + 1)
      BY ONLY <3>2, FS_Interval
    <3>4. QED BY <3>3
  <2>3. QED BY <1>1, <2>1, <2>2
<1>8. n <= sn - 1
  BY <1>6, <1>7, FS_Injection
<1>9. QED BY <1>1, <1>2, <1>8 DEF n

\* A query is only refused for an item that is not in the table, as long as
\* there are few.
LEMMA RefusedIs ==
    ASSUME Numbered, Calm, McQueryRefused
    PROVE  asked[Head(toMc).sn] \notin Item
<1> DEFINE h == Head(toMc)
<1>1. h.type = "query" /\ (h.item \notin Item \/ size > MaxMsg) /\ toMc # <<>>
  BY DEF McQueryRefused
<1>2. toMc \in Seq(QueryIn \cup AnswerIn)
  BY DEF Numbered, Sound, Messages
<1>3. h = toMc[1] /\ 1 \in 1 .. Len(toMc)
  BY <1>1, <1>2, TailRange
<1>4. Len(queue) < Len(asked)
  BY <1>1, <1>3, RoomForOne
<1>5. size = Len(queue) /\ Len(queue) \in Nat /\ Len(asked) \in Nat /\ Len(asked) <= MaxMsg + 1
  BY LenProperties DEF Numbered, Sound, TypeOK, Messages, Calm
<1>6. ~(size > MaxMsg)
  BY <1>4, <1>5, LimitAssumption
<1>7. h.item = asked[h.sn]
  BY <1>1, <1>3 DEF Numbered, Numbers, Ordered
<1>8. QED BY <1>1, <1>6, <1>7

\* A query is refused, or an answer thrown away.
LEMMA McPassesAnswers ==
    ASSUME Numbered, Progress, Calm, McQueryRefused \/ McAnswerUnknown
    PROVE  Progress'
<1> DEFINE h == Head(toMc)
<1>1. /\ toMc # <<>> /\ toMc' = Tail(toMc)
      /\ UNCHANGED <<asked, held, queue, rec, ctx, loop, toGb, toDev, fromDev, told>>
  BY DEF McQueryRefused, McAnswerUnknown, McAnswers, mc
<1>2. toMc \in Seq(QueryIn \cup AnswerIn)
  BY DEF Numbered, Sound, Messages
<1>3. Range(toMc) = {h} \cup Range(toMc') /\ h = toMc[1] /\ 1 \in 1 .. Len(toMc)
  BY <1>1, <1>2, HeadAndTail, TailRange
<1>4. h.type = "query" => asked[h.sn] \notin Item
  BY RefusedIs DEF McAnswerUnknown, McAnswers, Answer
<1>5. h.type = "answer" => \A k \in 1 .. Len(queue) : queue[k].ctx # h.ctx
  <2>1. SUFFICES ASSUME h.type = "answer" PROVE \A k \in 1 .. Len(queue) : queue[k].ctx # h.ctx
    OBVIOUS
  <2>2. h.dev \notin Item \/ h.ctx \notin InUse
    BY <2>1 DEF McQueryRefused, McAnswerUnknown, Answer
  <2>3. h.dev \in Item
    BY <1>3, <2>1 DEF Progress, Exactly, Full, Exact
  <2>4. QED BY <2>2, <2>3 DEF InUse
<1> HIDE DEF h
<1>6. \A c, i : About(c, i)' => About(c, i)
  BY <1>1, <1>3 DEF About
<1>7. \A k \in 1 .. Len(queue) :
         \A c : c = queue[k].ctx => /\ \A i : About(c, i) => About(c, i)'
                                    /\ \A x : Underway(c, x) => Underway(c, x)'
  BY <1>1, <1>3, <1>5 DEF About, Underway
<1>8. Exactly'
  BY <1>1, <1>3, ExactlyKept DEF Progress, Exactly
<1>9. \A sn \in 1 .. Len(asked) : asked[sn] \in Item /\ Asking(sn) => Asking(sn)'
  BY <1>3, <1>4 DEF Asking
<1>10. \A sn, x : (Reported(sn, x)' <=> Reported(sn, x)) /\ (Replied(sn) => Replied(sn)')
  BY <1>1 DEF Reported, Replied
<1>11. QED BY <1>1, <1>6, <1>7, <1>8, <1>9, <1>10, PassingKeeps

\* What is under way has a ctx.
LEMMA AboutCtx ==
    ASSUME Sound, NEW c, NEW i, About(c, i)
    PROVE  c \in Ctx
<1>1. \A q \in toDev : q.ctx \in Ctx
  BY DEF Sound, Messages
<1>2. \A a \in fromDev : a.ctx \in Ctx
  BY DEF Sound, Messages, AnswerMsg
<1>3. loop # Null => loop.ctx \in Ctx
  BY DEF Sound, Messages, AnswerMsg
<1>4. \A m \in Range(toGb) : m.type = "query" => m.ctx \in Ctx
  <2>1. Range(toGb) \subseteq QueryOut \cup ResultOut
    BY InRange DEF Sound, Messages
  <2>2. QED BY <2>1, Kinds DEF QueryOut
<1>5. \A m \in Range(toMc) : m.type = "answer" => m.ctx \in Ctx
  <2>1. Range(toMc) \subseteq QueryIn \cup AnswerIn
    BY InRange DEF Sound, Messages
  <2>2. QED BY <2>1, Kinds DEF AnswerIn
<1>6. QED BY <1>1, <1>2, <1>3, <1>4, <1>5 DEF About

\* A query enters the queue and goes to the GB server.
LEMMA McQueryAnswers ==
    ASSUME Numbered, Truth, Progress, Len(asked) < Limit, McQuery, \A f : ~Fault(f)
    PROVE  Progress'
<1> DEFINE h == Head(toMc)
           m == [type |-> "query", ctx |-> NewCtx, item |-> h.item]
           n == Len(queue)
<1>1. /\ toMc # <<>> /\ toMc' = Tail(toMc) /\ h.type = "query" /\ h.item \in Item
      /\ toGb' = Append(toGb, m) /\ ctx' = NewCtx
      /\ UNCHANGED <<asked, held, rec, loop, toDev, fromDev, told>>
  BY DEF McQuery
<1>2. /\ ctx \in Nat /\ NewCtx = ctx + 1
      /\ h.item = asked[h.sn] /\ Entering.sn = h.sn /\ h.sn \in 1 .. Len(asked)
      /\ \A k \in 1 .. n : queue[k].ctx \in Nat /\ queue[k].ctx <= ctx
      /\ Len(queue') = n + 1 /\ n \in Nat
      /\ \A j \in 1 .. Len(queue') : \/ j = 1 /\ queue'[j] = Entering
                                     \/ j - 1 \in 1 .. n /\ queue'[j] = queue[j - 1]
  BY NextCtx, LenProperties DEF Entering, Numbered, Sound, Messages
<1>3. Entering.ctx = ctx' /\ Entering.list = <<>> /\ Entering.sum = 0
  BY <1>1 DEF Entering
<1>4. toGb \in Seq(QueryOut \cup ResultOut) /\ m \in QueryOut \cup ResultOut
      /\ toMc \in Seq(QueryIn \cup AnswerIn)
  BY <1>1, EntersIs DEF Numbered, Sound, Messages, QueryOut
<1>5. Range(toGb') = Range(toGb) \cup {m} /\ m.type = "query" /\ m.ctx = ctx' /\ m.item = h.item
  BY <1>1, <1>4, AppendRange
<1>6. Range(toMc) = {h} \cup Range(toMc')
  BY <1>1, <1>4, HeadAndTail
<1> HIDE DEF h, m, n
<1>7. /\ \A c, i : About(c, i)' <=> About(c, i) \/ (c = ctx' /\ i = h.item)
      /\ \A c, x : Underway(c, x) => Underway(c, x)'
      /\ \A x \in Range(Records[h.item]) : Underway(ctx, x)'
  BY <1>1, <1>5, <1>6 DEF About, Underway
<1>8. \A sn, x : Reported(sn, x)' <=> Reported(sn, x)
  BY <1>1, <1>5 DEF Reported
<1>9. \A j \in 1 .. Len(queue') :
         \/ /\ j = 1 /\ queue'[j].ctx = ctx' /\ queue'[j].sn = h.sn /\ queue'[j].sum = 0
            /\ queue'[j].list = <<>> /\ ItemOf(j)' = h.item
         \/ /\ j - 1 \in 1 .. n /\ queue'[j] = queue[j - 1] /\ ItemOf(j)' = ItemOf(j - 1)
            /\ queue'[j].ctx # ctx' /\ queue'[j].ctx = queue[j - 1].ctx
  BY <1>1, <1>2, <1>3 DEF ItemOf
<1>10. \A i : Has(i)' = Has(i)
  BY <1>1 DEF Has
<1>11. Matching'
  <2>1. SUFFICES ASSUME NEW c, NEW i, About(c, i)'
                 PROVE  c <= ctx' /\ \A j \in 1 .. Len(queue') : queue'[j].ctx = c => i = ItemOf(j)'
    BY DEF Matching
  <2>2. CASE c = ctx' /\ i = h.item
    BY <1>1, <1>2, <1>9, <2>2
  <2>3. CASE About(c, i)
    <3>1. /\ c <= ctx
          /\ \A k \in 1 .. n : queue[k].ctx = c => i = ItemOf(k)
      BY <2>3 DEF Progress, Matching, n
    <3>2. c \in Ctx
      BY <2>3, AboutCtx DEF Numbered
    <3>3. c <= ctx' /\ c # ctx'
      BY <1>1, <1>2, <3>1, <3>2, CtxType DEF Ctx
    <3>4. QED BY <1>9, <3>1, <3>3
  <2>4. QED BY <1>7, <2>1, <2>2, <2>3
<1>12. Exactly'
  BY <1>1, <1>6, ExactlyKept DEF Progress, Exactly
<1>13. Partial'
  <2>1. SUFFICES ASSUME NEW j \in 1 .. Len(queue')
                 PROVE  /\ Range(Contents(queue'[j], rec')) \subseteq Range(Has(ItemOf(j)'))
                        /\ queue'[j].sum \in {0, held[ItemOf(j)']}
                        /\ held[ItemOf(j)'] # 0 => Len(queue'[j].list) # held[ItemOf(j)']
    BY <1>1, <1>10 DEF Partial, Has
  <2>2. CASE queue'[j].sum = 0 /\ queue'[j].list = <<>>
    <3>1. Range(Contents(queue'[j], rec')) = {}
      BY <2>2 DEF Contents, Range
    <3>2. QED BY <2>2, <3>1
  <2>3. CASE j - 1 \in 1 .. n /\ queue'[j] = queue[j - 1] /\ ItemOf(j)' = ItemOf(j - 1)
    BY <1>1, <2>3 DEF Progress, Partial, n
  <2>4. QED BY <1>9, <2>2, <2>3
<1>14. Coming'
  <2>1. SUFFICES ASSUME NEW j \in 1 .. Len(queue'), DifferentTimes(ItemOf(j)'),
                        NEW x \in Range(Has(ItemOf(j)'))
                 PROVE  Underway(queue[j].ctx, x)' \/ x \in Range(Contents(queue'[j], rec'))
    BY <1>1, <1>10 DEF Coming, DifferentTimes, Has
  <2>2. CASE queue'[j].ctx = ctx' /\ ItemOf(j)' = h.item
    <3>1. x \in Range(Records[h.item])
      BY <1>1, <2>1, <2>2, HasIs DEF Numbered, Sound
    <3>2. QED BY <1>7, <2>2, <3>1
  <2>3. CASE j - 1 \in 1 .. n /\ queue'[j] = queue[j - 1] /\ ItemOf(j)' = ItemOf(j - 1)
    <3>1. Underway(queue[j - 1].ctx, x) \/ x \in Range(Contents(queue[j - 1], rec))
      BY <2>1, <2>3 DEF Progress, Coming, n
    <3>2. QED BY <1>1, <1>7, <2>3, <3>1
  <2>4. QED BY <1>9, <2>2, <2>3
<1>15. Stirring'
  <2>1. SUFFICES ASSUME NEW j \in 1 .. Len(queue'), held[ItemOf(j)'] = 0
                 PROVE  \E i : About(queue'[j].ctx, i) \/ (queue'[j].ctx = ctx' /\ i = h.item)
    BY <1>1, <1>7 DEF Stirring
  <2>2. CASE queue'[j].ctx = ctx' /\ ItemOf(j)' = h.item
    BY <2>2
  <2>3. CASE j - 1 \in 1 .. n /\ queue'[j] = queue[j - 1] /\ ItemOf(j)' = ItemOf(j - 1)
    BY <2>1, <2>3 DEF Progress, Stirring, n
  <2>4. QED BY <1>9, <2>2, <2>3
<1>16. Served'
  <2>1. SUFFICES ASSUME PoolSuffices', NEW sn \in 1 .. Len(asked), asked[sn] \in Item,
                        DifferentTimes(asked[sn])
                 PROVE  (Asking(sn) \/ Queued(sn) \/ Complete(sn))'
    BY <1>1 DEF Served, DifferentTimes
  <2>2. PoolSuffices
    BY <1>1, <2>1 DEF PoolSuffices, Wanted, Has
  <2>3. CASE Asking(sn)
    <3>1. 1 \in 1 .. Len(queue') /\ queue'[1].sn = h.sn
      BY <1>2, <1>9
    <3>2. QED BY <1>6, <2>3, <3>1 DEF Asking, Queued
  <2>4. CASE Queued(sn)
    <3>1. PICK k \in 1 .. n : queue[k].sn = sn
      BY <2>4 DEF Queued, n
    <3>2. k + 1 \in 1 .. Len(queue') /\ (k + 1) - 1 = k /\ k + 1 # 1
      BY <1>2
    <3>3. queue'[k + 1].sn = sn
      BY <1>9, <3>1, <3>2
    <3>4. QED BY <3>2, <3>3 DEF Queued
  <2>5. CASE Complete(sn)
    <3>1. Replied(sn)'
      BY <1>1, <1>5, <2>5 DEF Complete, Replied
    <3>2. Has(asked[sn])' = Has(asked[sn])
      BY <1>1 DEF Has
    <3>3. QED BY <1>8, <2>5, <3>1, <3>2 DEF Complete
  <2>6. QED BY <2>1, <2>2, <2>3, <2>4, <2>5 DEF Progress, Served
<1>17. Had'
  <2>1. SUFFICES ASSUME NEW sn \in Sn, NEW x, Reported(sn, x)'
                 PROVE  x \in Range(Has(asked[sn]))'
    BY DEF Had
  <2>2. Has(asked[sn])' = Has(asked[sn])
    BY <1>1 DEF Has
  <2>3. QED BY <1>8, <2>1, <2>2 DEF Progress, Had
<1>18. QED BY <1>11, <1>12, <1>13, <1>14, <1>15, <1>16, <1>17 DEF Progress

\* The answer that is taken for the k-th query is about its item and says how
\* many records there are.
LEMMA AnswerTaken ==
    ASSUME Numbered, Progress, NEW k \in 1 .. Len(queue),
           toMc # <<>>, Answer.type = "answer", queue[k].ctx = Answer.ctx
    PROVE  /\ Answer.dev = ItemOf(k) /\ Answer.sum = held[ItemOf(k)]
           /\ Range(Answer.list) \subseteq Range(Has(ItemOf(k)))
           /\ Answer.list = <<>> => Answer.sum = 0
           /\ Answer.list \in Seq(AllRecords)
<1>1. Answer \in Range(toMc) /\ Answer.list \in Seq(AllRecords)
  BY AnswerIs DEF Numbered
<1>2. About(Answer.ctx, Answer.dev)
  BY <1>1 DEF About
<1>3. Answer.dev = ItemOf(k)
  BY <1>2 DEF Progress, Matching
<1>4. Full(Answer)
  BY <1>1 DEF Progress, Exactly
<1>5. QED BY <1>1, <1>3, <1>4 DEF Full, Exact

\* The list of a query reads the same when its record items are untouched.
LEMMA SameContents ==
    ASSUME NEW q \in Query, NEW c1, NEW c2, \A r \in Range(q.list) : c1[r] = c2[r]
    PROVE  Contents(q, c1) = Contents(q, c2)
<1>1. q.list \in Seq(RecId)
  BY DEF Query
<1>2. \A i \in 1 .. Len(q.list) : q.list[i] \in Range(q.list)
  BY <1>1, InRange
<1>3. QED BY <1>2 DEF Contents

\* A query that stays has taken in the answer and is not complete.
Stays(q, k) ==
    /\ q \in Query /\ q.sn = queue[k].sn /\ q.ctx = queue[k].ctx /\ q.sum = held[ItemOf(k)]
    /\ held[ItemOf(k)] # 0 /\ Len(q.list) # held[ItemOf(k)]
    /\ Range(Contents(q, rec')) \subseteq Range(Has(ItemOf(k)))
    /\ DifferentTimes(ItemOf(k)) =>
          Range(Contents(queue[k], rec)) \cup Range(Answer.list) \subseteq Range(Contents(q, rec'))

\* An answer is taken: the other queries are left alone.
LEMMA TakingAnswers ==
    ASSUME Numbered, Progress, NEW k \in 1 .. Len(queue),
           toMc # <<>>, toMc' = Tail(toMc), Answer.type = "answer", queue[k].ctx = Answer.ctx,
           UNCHANGED <<asked, held, ctx, loop, toDev, fromDev, told>>,
           Range(toGb) \subseteq Range(toGb'),
           \A m \in Range(toGb') :
              \/ m \in Range(toGb)
              \/ /\ m.type = "result" /\ m.sn = queue[k].sn
                 /\ Range(m.list) \subseteq Range(Has(ItemOf(k))),
           \A j \in 1 .. Len(queue') :
              \/ \E i \in 1 .. Len(queue) :
                    /\ i # k /\ queue'[j] = queue[i]
                    /\ \A r \in Range(queue[i].list) : rec'[r] = rec[r]
              \/ Stays(queue'[j], k),
           \A i \in 1 .. Len(queue) : i # k => \E j \in 1 .. Len(queue') : queue'[j] = queue[i],
           \A sn : sn = queue[k].sn /\ PoolSuffices /\ DifferentTimes(ItemOf(k)) =>
              Queued(sn)' \/ Complete(sn)'
    PROVE  Progress'
<1>1. /\ queue \in Seq(Query) /\ toMc \in Seq(QueryIn \cup AnswerIn)
      /\ \A i, j \in 1 .. Len(queue) : i # j => queue[i].ctx # queue[j].ctx
      /\ \A i \in 1 .. Len(queue) : queue[i] \in Query
  BY QueryType DEF Numbered, Numbers, Sound, Messages, Waiting
<1>2. Range(toMc) = {Answer} \cup Range(toMc')
  BY <1>1, HeadAndTail DEF Answer
<1>3. \A i : Has(i)' = Has(i)
  BY DEF Has
<1>4. \A c, i : About(c, i)' => About(c, i)
  BY <1>2 DEF About
<1>5. \A c : c # Answer.ctx =>
         /\ \A i : About(c, i) => About(c, i)'
         /\ \A x : Underway(c, x) => Underway(c, x)'
  BY <1>2 DEF About, Underway
<1>7. \A c, x : Underway(c, x) => Underway(c, x)' \/ (c = Answer.ctx /\ x \in Range(Answer.list))
  BY <1>2 DEF Underway
<1>8. ASSUME NEW j \in 1 .. Len(queue')
      PROVE  \/ Stays(queue'[j], k) /\ ItemOf(j)' = ItemOf(k)
             \/ \E i \in 1 .. Len(queue) :
                   /\ i # k /\ queue'[j] = queue[i] /\ ItemOf(j)' = ItemOf(i)
                   /\ Contents(queue'[j], rec') = Contents(queue[i], rec)
  <2>1. CASE Stays(queue'[j], k)
    BY <2>1 DEF Stays, ItemOf
  <2>2. CASE \E i \in 1 .. Len(queue) :
                /\ i # k /\ queue'[j] = queue[i]
                /\ \A r \in Range(queue[i].list) : rec'[r] = rec[r]
    <3>1. PICK i \in 1 .. Len(queue) :
                 /\ i # k /\ queue'[j] = queue[i]
                 /\ \A r \in Range(queue[i].list) : rec'[r] = rec[r]
      BY <2>2
    <3>2. queue[i] \in Query
      BY <1>1
    <3>3. Contents(queue[i], rec') = Contents(queue[i], rec)
      BY <3>1, <3>2, SameContents
    <3>4. ItemOf(j)' = ItemOf(i)
      BY <3>1 DEF ItemOf
    <3>5. QED BY <3>1, <3>3, <3>4
  <2>3. QED BY <2>1, <2>2
<1>9. Matching'
  <2>1. SUFFICES ASSUME NEW c, NEW i, About(c, i)', NEW j \in 1 .. Len(queue'), queue'[j].ctx = c
                 PROVE  i = ItemOf(j)'
    BY <1>4 DEF Matching, Progress
  <2>2. \A a \in 1 .. Len(queue) : queue[a].ctx = c => i = ItemOf(a)
    BY <1>4, <2>1 DEF Progress, Matching
  <2>3. QED BY <1>8, <2>1, <2>2 DEF Stays
<1>10. Exactly'
  BY <1>2, ExactlyKept DEF Progress, Exactly
<1>11. Partial'
  <2>1. SUFFICES ASSUME NEW j \in 1 .. Len(queue')
                 PROVE  /\ Range(Contents(queue'[j], rec')) \subseteq Range(Has(ItemOf(j)'))
                        /\ queue'[j].sum \in {0, held[ItemOf(j)']}
                        /\ held[ItemOf(j)'] # 0 => Len(queue'[j].list) # held[ItemOf(j)']
    BY <1>3 DEF Partial, Has
  <2>2. CASE Stays(queue'[j], k) /\ ItemOf(j)' = ItemOf(k)
    BY <2>2 DEF Stays
  <2>3. CASE \E i \in 1 .. Len(queue) :
                /\ i # k /\ queue'[j] = queue[i] /\ ItemOf(j)' = ItemOf(i)
                /\ Contents(queue'[j], rec') = Contents(queue[i], rec)
    BY <2>3 DEF Progress, Partial
  <2>4. QED BY <1>8, <2>2, <2>3
<1>12. Coming'
  <2>1. SUFFICES ASSUME NEW j \in 1 .. Len(queue'), DifferentTimes(ItemOf(j)'),
                        NEW x \in Range(Has(ItemOf(j)'))
                 PROVE  Underway(queue[j].ctx, x)' \/ x \in Range(Contents(queue'[j], rec'))
    BY <1>3 DEF Coming, DifferentTimes, Has
  <2>2. CASE Stays(queue'[j], k) /\ ItemOf(j)' = ItemOf(k)
    <3>1. Underway(queue[k].ctx, x) \/ x \in Range(Contents(queue[k], rec))
      BY <2>1, <2>2 DEF Progress, Coming
    <3>2. Range(Contents(queue[k], rec)) \cup Range(Answer.list) \subseteq Range(Contents(queue'[j], rec'))
      BY <2>1, <2>2 DEF Stays
    <3>3. queue'[j].ctx = queue[k].ctx
      BY <2>2 DEF Stays
    <3>4. QED BY <1>7, <3>1, <3>2, <3>3
  <2>3. CASE \E i \in 1 .. Len(queue) :
                /\ i # k /\ queue'[j] = queue[i] /\ ItemOf(j)' = ItemOf(i)
                /\ Contents(queue'[j], rec') = Contents(queue[i], rec)
    <3>1. PICK i \in 1 .. Len(queue) :
                 /\ i # k /\ queue'[j] = queue[i] /\ ItemOf(j)' = ItemOf(i)
                 /\ Contents(queue'[j], rec') = Contents(queue[i], rec)
      BY <2>3
    <3>2. Underway(queue[i].ctx, x) \/ x \in Range(Contents(queue[i], rec))
      BY <2>1, <3>1 DEF Progress, Coming
    <3>3. queue[i].ctx # Answer.ctx
      BY <1>1, <3>1
    <3>4. QED BY <1>5, <3>1, <3>2, <3>3
  <2>4. QED BY <1>8, <2>2, <2>3
<1>13. Stirring'
  <2>1. SUFFICES ASSUME NEW j \in 1 .. Len(queue'), held[ItemOf(j)'] = 0
                 PROVE  \E i : About(queue[j].ctx, i)'
    BY DEF Stirring
  <2>2. PICK i \in 1 .. Len(queue) :
               /\ i # k /\ queue'[j] = queue[i] /\ ItemOf(j)' = ItemOf(i)
               /\ Contents(queue'[j], rec') = Contents(queue[i], rec)
    BY <1>8, <2>1 DEF Stays
  <2>3. \E a : About(queue[i].ctx, a)
    BY <2>1, <2>2 DEF Progress, Stirring
  <2>4. queue[i].ctx # Answer.ctx
    BY <1>1, <2>2
  <2>5. QED BY <1>5, <2>2, <2>3, <2>4
<1>14. \A sn \in Sn : /\ Replied(sn) => Replied(sn)'
                      /\ \A x : Reported(sn, x) => Reported(sn, x)'
  BY DEF Replied, Reported
<1>15. Served'
  <2>1. SUFFICES ASSUME PoolSuffices', NEW sn \in 1 .. Len(asked), asked[sn] \in Item,
                        DifferentTimes(asked[sn])
                 PROVE  (Asking(sn) \/ Queued(sn) \/ Complete(sn))'
    BY DEF Served, DifferentTimes
  <2>2. PoolSuffices
    BY <2>1 DEF PoolSuffices, Wanted, Has
  <2>3. CASE sn = queue[k].sn
    BY <2>1, <2>2, <2>3 DEF ItemOf
  <2>4. CASE sn # queue[k].sn
    <3>1. Asking(sn) \/ Queued(sn) \/ Complete(sn)
      BY <2>1, <2>2 DEF Progress, Served
    <3>2. Asking(sn) => Asking(sn)'
      BY <1>2 DEF Asking
    <3>3. Queued(sn) => Queued(sn)'
      BY <2>4 DEF Queued
    <3>4. Complete(sn) => Complete(sn)'
      <4>1. sn \in Sn
        BY LenProperties, BoundAssumption DEF Numbered, Sound, TypeOK, Sn
      <4>2. Has(asked[sn])' = Has(asked[sn])
        BY DEF Has
      <4>3. QED BY <1>14, <4>1, <4>2 DEF Complete
    <3>5. QED BY <3>1, <3>2, <3>3, <3>4
  <2>5. QED BY <2>3, <2>4
<1>16. Had'
  <2>1. SUFFICES ASSUME NEW sn \in Sn, NEW x, Reported(sn, x)'
                 PROVE  x \in Range(Has(asked[sn]))'
    BY DEF Had
  <2>2. Has(asked[sn])' = Has(asked[sn])
    BY DEF Has
  <2>3. Reported(sn, x) \/ (sn = queue[k].sn /\ x \in Range(Has(ItemOf(k))))
    BY <2>1 DEF Reported
  <2>4. QED BY <2>2, <2>3 DEF Progress, Had, ItemOf
<1>17. QED BY <1>9, <1>10, <1>11, <1>12, <1>13, <1>15, <1>16 DEF Progress

\* Every record of the list is in a message to the platform; there is one at
\* least when the list is not empty, and when SumNum is 0.
LEMMA ReportCovers ==
    ASSUME NEW q \in Query, NEW content \in [RecId -> AllRecords \cup {Null}],
           \A r \in Range(q.list) : content[r] \in AllRecords, Answer.sum \in Nat
    PROVE  /\ \A x \in Range(Contents(q, content)) :
                 \E m \in Range(Report(q, content)) : x \in Range(m.list)
           /\ Answer.sum = 0 \/ q.list # <<>> => Report(q, content) # <<>>
           /\ \A m \in Range(Report(q, content)) :
                 /\ m.type = "result" /\ m.sn = q.sn
                 /\ Range(m.list) \subseteq Range(Contents(q, content))
           /\ Report(q, content) \in Seq(ResultOut)
<1> DEFINE c == Contents(q, content)
           last == IF Answer.sum = 0 /\ Len(q.list) % ResBatch = 0 THEN <<(<<>>)>> ELSE <<>>
           p == Pieces(c, ResBatch)
           lists == p \o last
           m == [k \in 1 .. Len(lists) |-> [type |-> "result", sn |-> q.sn, list |-> lists[k]]]
<1>1. q.list \in Seq(RecId) /\ Len(q.list) \in Nat /\ q.sn \in Sn
  BY LenProperties DEF Query
<1>2. \A j \in 1 .. Len(q.list) : q.list[j] \in Range(q.list)
  BY <1>1, InRange
<1>3. c \in Seq(AllRecords) /\ Len(c) = Len(q.list)
  <2>1. \A j \in 1 .. Len(q.list) : content[q.list[j]] \in AllRecords
    BY <1>2
  <2>2. QED BY <1>1, <2>1, IsASeq DEF Contents
<1>4. \A r \in Range(q.list) : content[r] \in Range(c)
  <2>1. TAKE r \in Range(q.list)
  <2>2. PICK j \in 1 .. Len(q.list) : q.list[j] = r
    BY <1>1, InRange
  <2>3. c[j] = content[r]
    BY <2>2 DEF Contents
  <2> HIDE DEF c
  <2>4. QED BY <1>3, <2>2, <2>3, InRange
<1>5. ResBatch \in Nat \ {0}
  BY BatchAssumption
<1>6. Report(q, content) = m
  BY DEF Report, ToPlatform
<1> HIDE DEF c
<1>7. /\ p \in Seq(Seq(AllRecords))
      /\ \A x \in Range(c) : \E k \in 1 .. Len(p) : x \in Range(p[k])
  BY <1>3, <1>5, PiecesAre, PiecesCover
<1>8. last \in Seq(Seq(AllRecords)) /\ (Answer.sum = 0 /\ Len(q.list) % ResBatch = 0 => Len(last) = 1)
  BY EmptySeq
<1> HIDE DEF p, last
<1>9. /\ lists \in Seq(Seq(AllRecords)) /\ Len(lists) = Len(p) + Len(last) /\ Len(p) \in Nat
      /\ Len(last) \in Nat
      /\ \A k \in 1 .. Len(p) : k \in 1 .. Len(lists) /\ lists[k] = p[k]
  BY <1>7, <1>8, ConcatProperties, LenProperties
<1> HIDE DEF lists
<1>10. \A x \in Range(c) : \E k \in 1 .. Len(lists) : x \in Range(lists[k])
  BY <1>7, <1>9
<1>11. Answer.sum = 0 \/ q.list # <<>> => Len(lists) # 0
  <2>1. CASE q.list # <<>>
    <3>1. Len(c) # 0
      BY <1>1, <1>3, <2>1
    <3>2. 1 \in 1 .. Len(c)
      BY <1>1, <1>3, <3>1
    <3>3. PICK x \in Range(c) : TRUE
      BY <1>3, <3>2, InRange
    <3>4. PICK k \in 1 .. Len(lists) : x \in Range(lists[k])
      BY <1>10, <3>3
    <3>5. QED BY <1>9, <3>4
  <2>2. CASE q.list = <<>> /\ Answer.sum = 0
    <3>1. 0 % ResBatch = 0
      BY <1>5
    <3>2. Len(q.list) % ResBatch = 0
      BY <2>2, <3>1
    <3>3. QED BY <1>8, <1>9, <2>2, <3>2
  <2>3. QED BY <2>1, <2>2
<1>12. \A k \in 1 .. Len(lists) : /\ m[k].type = "result" /\ m[k].sn = q.sn /\ m[k].list = lists[k]
  OBVIOUS
<1>13. Len(m) = Len(lists) /\ Len(lists) \in Nat
  BY <1>9
<1>14. /\ Report(q, content) \in Seq(ResultOut)
       /\ \A x \in Range(Report(q, content)) :
             /\ x \in ResultOut /\ x.sn = q.sn
             /\ \A y \in Range(x.list) : \E r \in Range(q.list) : content[r] = y
  BY ReportIs
<1> HIDE DEF m
<1>15. \A k \in 1 .. Len(m) : m[k] \in Range(m)
  BY <1>6, <1>14, InRange
<1>16. \A x \in Range(c) : \E y \in Range(m) : x \in Range(y.list)
  BY <1>10, <1>12, <1>13, <1>15
<1>17. Answer.sum = 0 \/ q.list # <<>> => m # <<>>
  BY <1>11, <1>13
<1>18. \A y \in Range(m) : /\ y.type = "result" /\ y.sn = q.sn
                           /\ Range(y.list) \subseteq Range(c)
  <2>1. \A y \in Range(m) : /\ y \in ResultOut /\ y.sn = q.sn
                            /\ \A x \in Range(y.list) : \E r \in Range(q.list) : content[r] = x
    BY <1>6, <1>14
  <2>2. \A y \in Range(m) : \A x \in Range(y.list) : x \in Range(c)
    BY <1>4, <2>1
  <2>3. \A y \in ResultOut : y.type = "result"
    BY DEF ResultOut
  <2>4. QED BY <2>1, <2>2, <2>3
<1>19. QED BY <1>6, <1>14, <1>16, <1>17, <1>18 DEF c

\* A query is answered and leaves the queue.
LEMMA DumpAnswers ==
    ASSUME Numbered, Progress, NEW k \in 1 .. Len(queue), NEW q \in Query, q.sn = queue[k].sn,
           NEW content \in [RecId -> AllRecords \cup {Null}], NEW left \in Seq(RecId),
           Pool(left, [queue EXCEPT ![k] = q]), Blank(content, left),
           DumpRec(k, q, content, left),
           \A j \in 1 .. Len(queue) : \A r \in Range(queue[j].list) :
              j # k => content[r] = rec[r] /\ r \notin Range(q.list),
           toMc # <<>>, toMc' = Tail(toMc), Answer.type = "answer", queue[k].ctx = Answer.ctx,
           UNCHANGED <<asked, held, ctx, loop, toDev, fromDev, told>>, \A f : ~Fault(f),
           Range(Contents(q, content)) \subseteq Range(Has(ItemOf(k))),
           PoolSuffices /\ DifferentTimes(ItemOf(k)) =>
              /\ Answer.sum = 0 \/ q.list # <<>>
              /\ Range(Has(ItemOf(k))) \subseteq Range(Contents(q, content))
    PROVE  Progress'
<1> DEFINE msgs == Report(q, content)
           qs == [queue EXCEPT ![k] = q]
<1>1. /\ queue \in Seq(Query) /\ toGb \in Seq(QueryOut \cup ResultOut) /\ Sound
      /\ Answer.sum \in Nat
  BY AnswerIs DEF Numbered, Sound, Messages
<1>2. /\ queue' = RemoveAt(queue, k) /\ Untouched(q, content)
  BY <1>1, DumpIs
<1>3. toGb' = toGb \o msgs
  BY DEF DumpRec, Send
<1>4. \A r \in Range(q.list) : content[r] \in AllRecords
  <2>1. /\ qs \in Seq(Query) /\ Len(qs) = Len(queue) /\ qs[k] = q
    BY <1>1, ExceptSeq
  <2>2. Pool(left, qs)
    OBVIOUS
  <2> HIDE DEF qs
  <2>3. k \in 1 .. Len(qs)
    BY <2>1
  <2>4. QED BY <2>1, <2>2, <2>3, InUseIsFilled
<1>5. /\ \A x \in Range(Contents(q, content)) : \E m \in Range(msgs) : x \in Range(m.list)
      /\ Answer.sum = 0 \/ q.list # <<>> => msgs # <<>>
      /\ msgs \in Seq(ResultOut)
      /\ \A m \in Range(msgs) : /\ m.type = "result" /\ m.sn = q.sn
                                /\ Range(m.list) \subseteq Range(Contents(q, content))
  BY <1>1, <1>4, ReportCovers
<1> HIDE DEF msgs
<1>6. Range(toGb') = Range(toGb) \cup Range(msgs)
  <2>1. msgs \in Seq(QueryOut \cup ResultOut)
    BY <1>5
  <2>2. QED BY <1>1, <1>3, <2>1, ConcatIs
<1>7. /\ Len(queue') = Len(queue) - 1
      /\ \A j \in 1 .. Len(queue') :
            Skip(k, j) \in 1 .. Len(queue) /\ Skip(k, j) # k /\ queue'[j] = queue[Skip(k, j)]
      /\ \A i \in 1 .. Len(queue) : i # k => \E j \in 1 .. Len(queue') : Skip(k, j) = i
  <2>1. /\ Len(RemoveAt(queue, k)) = Len(queue) - 1
        /\ \A j \in 1 .. Len(queue) - 1 : /\ Skip(k, j) \in 1 .. Len(queue)
                                          /\ Skip(k, j) # k
                                          /\ RemoveAt(queue, k)[j] = queue[Skip(k, j)]
        /\ \A i \in 1 .. Len(queue) : i # k => \E j \in 1 .. Len(queue) - 1 : Skip(k, j) = i
    <3>1. queue \in Seq(Query) /\ k \in 1 .. Len(queue)
      BY <1>1
    <3>2. QED BY ONLY <3>1, Remaining
  <2>2. QED BY <1>2, <2>1
<1>8. \A i \in 1 .. Len(queue) : i # k => \A r \in Range(queue[i].list) : rec'[r] = rec[r]
  <2>1. \A i \in 1 .. Len(queue) : Range(queue[i].list) \subseteq RecId
    BY <1>1, QueryType, InRange
  <2>2. QED BY <1>2, <2>1 DEF Untouched
<1>9. ASSUME NEW sn, sn = queue[k].sn, PoolSuffices, DifferentTimes(ItemOf(k))
      PROVE  Complete(sn)'
  <2>1. PICK m \in Range(msgs) : TRUE
    <3>1. msgs # <<>>
      BY <1>5, <1>9
    <3>2. msgs[1] \in Range(msgs)
      BY <1>5, <3>1, TailRange
    <3>3. QED BY <3>2
  <2>2. Replied(sn)'
    BY <1>5, <1>6, <1>9, <2>1 DEF Replied
  <2>3. ASSUME NEW x \in Range(Has(asked[sn]))
        PROVE  Reported(sn, x)'
    <3>1. x \in Range(Contents(q, content))
      BY <1>9, <2>3 DEF ItemOf
    <3>2. PICK a \in Range(msgs) : x \in Range(a.list)
      BY <1>5, <3>1
    <3>3. QED BY <1>5, <1>6, <1>9, <3>2 DEF Reported
  <2>4. Has(asked[sn])' = Has(asked[sn])
    BY DEF Has
  <2>5. QED BY <2>2, <2>3, <2>4 DEF Complete
<1>10. \A j \in 1 .. Len(queue') : \E i \in 1 .. Len(queue) :
          /\ i # k /\ queue'[j] = queue[i] /\ \A r \in Range(queue[i].list) : rec'[r] = rec[r]
  BY <1>7, <1>8
<1>11. \A i \in 1 .. Len(queue) : i # k => \E j \in 1 .. Len(queue') : queue'[j] = queue[i]
  BY <1>7
<1>12. \A m \in Range(toGb') :
          \/ m \in Range(toGb)
          \/ /\ m.type = "result" /\ m.sn = queue[k].sn
             /\ Range(m.list) \subseteq Range(Has(ItemOf(k)))
  BY <1>5, <1>6
<1>13. Range(toGb) \subseteq Range(toGb')
  BY <1>6
<1>14. QED BY <1>9, <1>10, <1>11, <1>12, <1>13, TakingAnswers

\* The message centre ends a query: without faults because there is no record.
LEMMA McEndsAnswers ==
    ASSUME Numbered, Progress, NEW k \in 1 .. Len(queue), McAnswerEnds(k), \A f : ~Fault(f)
    PROVE  Progress'
<1>1. /\ toMc # <<>> /\ toMc' = Tail(toMc) /\ Answer.type = "answer"
      /\ UNCHANGED <<asked, held, ctx, loop, toDev, fromDev, told>>
      /\ queue[k].ctx = Answer.ctx /\ IsShort(queue[k])
  BY DEF McAnswerEnds, McAnswers, IsFor
<1>2. /\ DumpRec(k, queue[k], rec, free) /\ queue[k] \in Query
      /\ Pool(free, [queue EXCEPT ![k] = queue[k]]) /\ Blank(rec, free)
      /\ rec \in [RecId -> AllRecords \cup {Null}] /\ free \in Seq(RecId)
  BY EndsIs DEF Numbered
<1>3. /\ Answer.sum = held[ItemOf(k)] /\ (Answer.list = <<>> => Answer.sum = 0)
  BY <1>1, AnswerTaken
<1>4. /\ Range(Contents(queue[k], rec)) \subseteq Range(Has(ItemOf(k)))
      /\ queue[k].sum \in {0, held[ItemOf(k)]}
  BY DEF Progress, Partial
<1>5. Answer.sum = 0
  BY <1>1, <1>3, <1>4 DEF IsShort
<1>6. Range(Has(ItemOf(k))) = {}
  BY <1>3, <1>5, ItemOfIs, HasCount DEF Numbered, Sound
<1>7. \A j \in 1 .. Len(queue) : \A r \in Range(queue[j].list) :
         j # k => rec[r] = rec[r] /\ r \notin Range(queue[k].list)
  BY DEF Numbered, Sound, Pool
<1>8. QED BY <1>1, <1>2, <1>4, <1>5, <1>6, <1>7, DumpAnswers

\* Records of an item whose records have different times.
LEMMA TimesDiffer ==
    ASSUME NEW i \in Item, DifferentTimes(i),
           NEW a \in Range(Records[i]), NEW b \in Range(Records[i]), a.span = b.span
    PROVE  a = b
<1> DEFINE s == Records[i]
           n == Len(s)
           spans == {r.span : r \in Range(s)}
           g == [j \in 1 .. n |-> s[j].span]
<1>1. s \in Seq(Range(s)) /\ n \in Nat
  BY RecordsAssumption, LenProperties
<1>2. \A e : e \in Range(s) <=> \E j \in 1 .. n : s[j] = e
  BY <1>1, InRange
<1>3. Cardinality(spans) = n
  BY DEF DifferentTimes
<1> HIDE DEF s, n
<1>4. g \in [1 .. n -> spans] /\ \A t \in spans : \E j \in 1 .. n : g[j] = t
  BY <1>2
<1>5. \A j \in 1 .. n : g[j] = s[j].span
  OBVIOUS
<1> HIDE DEF g, spans
<1>6. g \in Surjection(1 .. n, spans)
  BY <1>4 DEF Surjection
<1>7. IsFiniteSet(1 .. n) /\ Cardinality(1 .. n) = n
  BY <1>1, FS_Interval
<1>8. g \in Injection(1 .. n, spans)
  BY <1>3, <1>6, <1>7, FS_Surjection
<1>9. \A j, k \in 1 .. n : g[j] = g[k] => j = k
  BY <1>8 DEF Injection, IsInjective
<1>10. PICK j \in 1 .. n, k \in 1 .. n : s[j] = a /\ s[k] = b
  BY <1>2 DEF s
<1>11. QED BY <1>5, <1>9, <1>10

\* What a query has listed.
LEMMA ListedIs ==
    ASSUME Sound, NEW k \in 1 .. Len(queue)
    PROVE  Listed(queue[k]) = Range(Contents(queue[k], rec))
<1> DEFINE l == queue[k].list
           c == Contents(queue[k], rec)
<1>1. l \in Seq(RecId) /\ Len(l) \in Nat
  BY QueryType, LenProperties DEF Sound, Messages
<1>2. \A r : r \in Range(l) <=> \E j \in 1 .. Len(l) : l[j] = r
  BY <1>1, InRange
<1>3. Len(c) = Len(l) /\ \A j \in 1 .. Len(l) : c[j] = rec[l[j]]
  BY <1>1 DEF Contents
<1>4. DOMAIN c = 1 .. Len(l)
  BY DEF Contents
<1>5. \A x : x \in Range(c) <=> \E j \in 1 .. Len(l) : rec[l[j]] = x
  BY <1>3, <1>4 DEF Range
<1>6. Listed(queue[k]) = {rec[r] : r \in Range(l)}
  BY DEF Listed
<1> HIDE DEF l, c
<1>7. QED BY <1>2, <1>5, <1>6 DEF c

\* Records with different times are never the same: none is passed over.
LEMMA AllFresh ==
    ASSUME Numbered, Progress, NEW k \in 1 .. Len(queue),
           toMc # <<>>, Answer.type = "answer", queue[k].ctx = Answer.ctx,
           DifferentTimes(ItemOf(k))
    PROVE  Fresh(queue[k], Answer.list) = Len(Answer.list)
<1> DEFINE s == Answer.list
           L == Listed(queue[k])
           h == Range(Has(ItemOf(k)))
<1>1. s \in Seq(AllRecords) /\ Len(s) \in Nat /\ Range(s) \subseteq h
  BY AnswerTaken, LenProperties
<1>2. L \subseteq h
  BY ListedIs DEF Numbered, Progress, Partial
<1>3. \A j \in 1 .. Len(s) : s[j] \in h
  BY <1>1, InRange
<1>4. \A a, b \in h : ~Same(a, b)
  <2>1. ItemOf(k) \in Item
    BY ItemOfIs
  <2>2. h \subseteq Range(Records[ItemOf(k)])
    BY <2>1, HasIs DEF Numbered, Sound
  <2>3. \A a, b \in h : a.span = b.span => a = b
    BY <2>1, <2>2, TimesDiffer
  <2>4. QED BY <2>3 DEF Same
<1> HIDE DEF s, L, h
<1>5. \A n \in 0 .. Len(s) : \A j \in 1 .. n : s[j] \in h
  BY <1>1, <1>3
<1> DEFINE P(n) == /\ \A j \in 1 .. n : \A b \in L \cup {s[i] : i \in 1 .. j - 1} : ~Same(b, s[j])
                   /\ n = Len(s) \/ \E b \in L \cup {s[i] : i \in 1 .. n} : Same(b, s[n + 1])
<1>6. \A n \in 0 .. Len(s) : \A j \in 1 .. n : {s[i] : i \in 1 .. j - 1} \subseteq h
  BY <1>1, <1>3
<1>7. P(Len(s))
  BY <1>1, <1>2, <1>3, <1>4, <1>6
<1>8. \A n \in 0 .. Len(s) : P(n) => n = Len(s)
  <2>1. SUFFICES ASSUME NEW n \in 0 .. Len(s), n # Len(s),
                        NEW b \in L \cup {s[i] : i \in 1 .. n}, Same(b, s[n + 1])
                 PROVE  FALSE
    OBVIOUS
  <2>2. n + 1 \in 1 .. Len(s) /\ \A i \in 1 .. n : i \in 1 .. Len(s)
    BY <1>1, <2>1
  <2>3. s[n + 1] \in h /\ b \in h
    BY <1>2, <1>3, <2>1, <2>2
  <2>4. QED BY <1>4, <2>1, <2>3
<1>9. Len(s) \in 0 .. Len(s)
  BY <1>1
<1>10. Fresh(queue[k], s) = CHOOSE n \in 0 .. Len(s) : P(n)
  BY DEF Fresh, L
<1> HIDE DEF P
<1>11. QED BY <1>7, <1>8, <1>9, <1>10 DEF s

\* What is added is in the list.
LEMMA GrownFull ==
    ASSUME Sound, toMc # <<>>, Answer.type = "answer", NEW k \in 1 .. Len(queue),
           Taken(queue[k], Answer.list) = Len(Answer.list)
    PROVE  /\ Len(Grown(k).list) = Len(Answer.list) + Len(queue[k].list)
           /\ Range(Contents(queue[k], rec)) \cup Range(Answer.list)
                 \subseteq Range(Contents(Grown(k), Content(k)))
<1> DEFINE s == Answer.list
           n == Len(s)
           f == SubSeq(free, 1, n)
           l == queue[k].list
           c == Contents(Grown(k), Content(k))
           d == Contents(queue[k], rec)
<1>1. s \in Seq(AllRecords) /\ n \in Nat /\ Answer.sum \in Nat
  BY AnswerIs, LenProperties
<1>2. /\ queue[k] \in Query /\ l \in Seq(RecId) /\ Len(l) \in Nat /\ free \in Seq(RecId)
  BY QueryType, LenProperties DEF Sound, Messages, TypeOK
<1>3. n \in 0 .. Len(free)
  BY <1>1, <1>2, TakenIs
<1>4. Grown(k).list = Reverse(f) \o l
  <2>1. Grown(k).list = Reverse(SubSeq(free, 1, Taken(queue[k], s))) \o l
    BY <1>1, <1>2, LongerIs DEF Grown
  <2>2. QED BY <2>1
<1>5. f \in Seq(RecId) /\ Len(f) = n
  BY <1>2, <1>3, FirstIs
<1>6. Reverse(f) \in Seq(RecId) /\ Len(Reverse(f)) = n
  BY <1>5, ReverseAt
<1>7. Len(Grown(k).list) = n + Len(l)
  <2> HIDE DEF f, l, n
  <2>1. Len(Reverse(f) \o l) = Len(Reverse(f)) + Len(l)
    BY <1>2, <1>6, ConcatAt
  <2>2. QED BY <1>4, <1>6, <2>1
<1>8. \A x, j : Holds(c, x, j) =>
         /\ j <= n => Holds(s, x, n + 1 - j)
         /\ j > n => Holds(d, x, j - n)
  BY GrownHolds
<1>9. Len(c) = n + Len(l) /\ DOMAIN c = 1 .. n + Len(l)
  <2>1. c = [j \in 1 .. n + Len(l) |-> Content(k)[Grown(k).list[j]]]
    BY <1>7 DEF Contents
  <2>2. n \in Nat /\ Len(l) \in Nat
    BY <1>1, <1>2
  <2> HIDE DEF n, l
  <2>3. n + Len(l) \in Nat
    BY <2>2
  <2>4. QED BY <2>1, <2>3
<1>10. Len(d) = Len(l) /\ DOMAIN d = 1 .. Len(l)
  BY <1>2 DEF Contents
<1> HIDE DEF c, d, s, n, l
<1>11. \A x : x \in Range(d) <=> \E j \in 1 .. Len(l) : d[j] = x
  BY <1>10 DEF Range
<1>12. \A j \in 1 .. n + Len(l) : c[j] \in Range(c) /\ Holds(c, c[j], j)
  BY <1>9 DEF Range, Holds
<1>13. \A x : x \in Range(s) <=> \E i \in 1 .. n : s[i] = x
  BY <1>1, InRange DEF n
<1>14. ASSUME NEW x \in Range(s) PROVE x \in Range(c)
  <2>1. PICK i \in 1 .. n : s[i] = x
    BY <1>13
  <2>2. n + 1 - i \in 1 .. n + Len(l) /\ n + 1 - i <= n /\ n + 1 - (n + 1 - i) = i
    BY <1>1, <1>2
  <2>3. Holds(s, c[n + 1 - i], i)
    BY <1>8, <1>12, <2>2
  <2>4. QED BY <1>12, <2>1, <2>2, <2>3 DEF Holds
<1>15. ASSUME NEW x \in Range(d) PROVE x \in Range(c)
  <2>1. PICK i \in 1 .. Len(l) : d[i] = x
    BY <1>11
  <2>2. n + i \in 1 .. n + Len(l) /\ n + i > n /\ (n + i) - n = i
    BY <1>1, <1>2
  <2>3. Holds(d, c[n + i], i)
    BY <1>8, <1>12, <2>2
  <2>4. QED BY <1>12, <2>1, <2>2, <2>3 DEF Holds
<1>16. QED BY <1>7, <1>14, <1>15 DEF c, d, s, n, l

\* The list has records of the item only.
LEMMA GrownWithin ==
    ASSUME Numbered, Progress, NEW k \in 1 .. Len(queue),
           toMc # <<>>, Answer.type = "answer", queue[k].ctx = Answer.ctx
    PROVE  Range(Contents(Grown(k), Content(k))) \subseteq Range(Has(ItemOf(k)))
<1> DEFINE c == Contents(Grown(k), Content(k))
           d == Contents(queue[k], rec)
           n == Taken(queue[k], Answer.list)
<1>1. Answer.list \in Seq(AllRecords) /\ Range(Answer.list) \subseteq Range(Has(ItemOf(k)))
  BY AnswerTaken
<1>2. Range(d) \subseteq Range(Has(ItemOf(k)))
  BY DEF Progress, Partial
<1>3. \A x, j : Holds(c, x, j) =>
         /\ j \in Nat
         /\ j <= n => Holds(Answer.list, x, n + 1 - j)
         /\ j > n => Holds(d, x, j - n)
  BY GrownHolds DEF Numbered
<1>4. n \in Nat
  BY GrownHolds DEF Numbered
<1>5. \A x, j : Holds(Answer.list, x, j) => x \in Range(Answer.list)
  BY <1>1, InRange DEF Holds
<1>6. /\ Len(queue[k].list) \in Nat /\ Len(Grown(k).list) \in Nat
  BY QueryType, AddsIs, LenProperties DEF Numbered, Sound, Messages, Query
<1>7. DOMAIN d = 1 .. Len(d) /\ DOMAIN c = 1 .. Len(c)
  BY <1>6 DEF Contents
<1> HIDE DEF c, d, n
<1>8. \A x, j : Holds(d, x, j) => x \in Range(d)
  BY <1>7 DEF Holds, Range
<1>9. \A x \in Range(c) : \E j : Holds(c, x, j)
  BY <1>7 DEF Holds, Range
<1>10. \A x \in Range(c) : x \in Range(Answer.list) \/ x \in Range(d)
  <2>1. TAKE x \in Range(c)
  <2>2. PICK j : Holds(c, x, j)
    BY <1>9
  <2>3. j <= n \/ j > n
    BY <1>3, <1>4, <2>2
  <2>4. QED BY <1>3, <1>5, <1>8, <2>2, <2>3
<1>11. QED BY <1>1, <1>2, <1>10 DEF c

\* A record that is asked for is wanted.
LEMMA InWanted ==
    ASSUME NEW sn \in 1 .. Len(asked), asked[sn] \in Item, NEW x \in Range(Has(asked[sn]))
    PROVE  <<sn, x>> \in Wanted
<1>1. <<sn, x>> \in {sn} \X Range(Has(asked[sn]))
  OBVIOUS
<1>2. QED BY <1>1 DEF Wanted

\* What the queries have listed and what the answer adds are different wanted
\* records, so there is a record item for each.
LEMMA RoomInPool ==
    ASSUME Numbered, Progress, Once, PoolSuffices, NEW k \in 1 .. Len(queue),
           toMc # <<>>, Answer.type = "answer", queue[k].ctx = Answer.ctx
    PROVE  Len(Answer.list) <= Len(free)
<1> DEFINE s == Answer.list
           own == queue[k].sn
           used == RecId \ Range(free)
           owner(r) == CHOOSE j \in 1 .. Len(queue) : r \in Range(queue[j].list)
           f == [r \in used |-> <<queue[owner(r)].sn, rec[r]>>]
           t == [i \in 1 .. Len(s) |-> <<own, s[i]>>]
           c(j) == Contents(queue[j], rec)
<1>1. /\ Sound /\ queue \in Seq(Query) /\ free \in Seq(RecId) /\ Pool(free, queue)
      /\ Len(free) \in Nat
      /\ toMc \in Seq(QueryIn \cup AnswerIn)
      /\ \A i, j \in 1 .. Len(queue) : queue[i].sn = queue[j].sn => i = j
  BY LenProperties DEF Numbered, Numbers, Sound, Messages, TypeOK, Waiting
<1>2. /\ s \in Seq(AllRecords) /\ Len(s) \in Nat /\ Range(s) \subseteq Range(Has(ItemOf(k)))
  BY AnswerTaken, LenProperties
<1>3. \A j \in 1 .. Len(queue) : /\ ItemOf(j) = asked[queue[j].sn] /\ ItemOf(j) \in Item
                                 /\ queue[j].sn \in 1 .. Len(asked) /\ queue[j].sn \in Sn
                                 /\ queue[j].list \in Seq(RecId)
                                 /\ Len(queue[j].list) \in Nat
  BY ItemOfIs, LenProperties DEF ItemOf, Query
<1>4. \A j \in 1 .. Len(queue) : NoRepeat(c(j)) /\ Range(c(j)) \subseteq Range(Has(ItemOf(j)))
  BY <1>1, ListOnce DEF Progress, Partial
<1>5. \A j \in 1 .. Len(queue) :
         /\ Len(c(j)) = Len(queue[j].list) /\ DOMAIN c(j) = 1 .. Len(queue[j].list)
         /\ \A a \in 1 .. Len(queue[j].list) : c(j)[a] = rec[queue[j].list[a]]
  BY <1>3 DEF Contents
<1> HIDE DEF c
<1>6. ASSUME NEW r \in used
      PROVE  /\ owner(r) \in 1 .. Len(queue)
             /\ \E a \in 1 .. Len(queue[owner(r)].list) :
                   queue[owner(r)].list[a] = r /\ c(owner(r))[a] = rec[r]
  <2>1. \E j \in 1 .. Len(queue) : r \in Range(queue[j].list)
    BY <1>1 DEF Pool
  <2>2. owner(r) \in 1 .. Len(queue) /\ r \in Range(queue[owner(r)].list)
    BY <2>1
  <2> HIDE DEF owner
  <2>3. PICK a \in 1 .. Len(queue[owner(r)].list) : queue[owner(r)].list[a] = r
    BY <1>3, <2>2, InRange
  <2>4. QED BY <1>5, <2>2, <2>3
<1> HIDE DEF owner, used, s, own
<1>7. Answer = toMc[1] /\ 1 \in 1 .. Len(toMc)
  BY <1>1, TailRange DEF Answer
<1>8. \A x, i : Holds(s, x, i) => At(own, x, "batch", 1, i)
  <2>1. Waits(own, Answer.ctx)
    BY DEF Waits, own
  <2>2. QED BY <1>7, <2>1 DEF At, InBatch, s
<1>9. \A x, a : Holds(c(k), x, a) => At(own, x, "list", 0, a)
  BY DEF At, InList, own, c
<1>10. own \in Sn /\ own \in 1 .. Len(asked) /\ asked[own] = ItemOf(k) /\ ItemOf(k) \in Item
  BY <1>3 DEF own
<1>11. NoRepeat(s)
  <2>1. \A x, i, j : Holds(s, x, i) /\ Holds(s, x, j) => i = j
    BY <1>8, <1>10 DEF Once
  <2>2. QED BY <2>1, HeldOnce
<1>12. \A i \in 1 .. Len(s), a \in 1 .. Len(queue[k].list) : c(k)[a] # s[i]
  <2>1. SUFFICES ASSUME NEW i \in 1 .. Len(s), NEW a \in 1 .. Len(queue[k].list), c(k)[a] = s[i]
                 PROVE  FALSE
    OBVIOUS
  <2>2. Holds(s, s[i], i) /\ Holds(c(k), s[i], a)
    BY <1>5, <2>1 DEF Holds
  <2>3. At(own, s[i], "batch", 1, i) /\ At(own, s[i], "list", 0, a)
    BY <1>8, <1>9, <2>2
  <2>4. QED BY <1>10, <2>3 DEF Once
<1>13. \A i \in 1 .. Len(s) : s[i] \in Range(Has(ItemOf(k))) /\ s[i] \in AllRecords
  BY <1>2, InRange
<1>14. /\ \A i \in 1 .. Len(s) : t[i] = <<own, s[i]>> /\ <<own, s[i]>> \in Wanted
       /\ t \in Seq(Wanted) /\ Len(t) = Len(s)
  <2>1. \A i \in 1 .. Len(s) : t[i] = <<own, s[i]>> /\ <<own, s[i]>> \in Wanted
    BY <1>10, <1>13, InWanted
  <2>2. QED BY <1>2, <2>1, IsASeq
<1>15. NoRepeat(t)
  BY <1>11, <1>14 DEF NoRepeat
<1> HIDE DEF t
<1>16. Range(t) \subseteq Wanted /\ Cardinality(Range(t)) = Len(s)
  <2>1. t \in Seq(Wanted) /\ NoRepeat(t) /\ Len(t) = Len(s)
    BY <1>14, <1>15
  <2>2. Range(t) \subseteq Wanted
    BY ONLY <2>1, InRange
  <2>3. Cardinality(Range(t)) = Len(t)
    BY ONLY <2>1, CountRange
  <2>4. QED BY <2>1, <2>2, <2>3
<1>17. \A p \in Range(t) : \E i \in 1 .. Len(s) : p = <<own, s[i]>>
  <2>1. t \in Seq(Wanted)
    BY <1>14
  <2>2. \A p : p \in Range(t) <=> \E i \in 1 .. Len(t) : t[i] = p
    BY ONLY <2>1, InRange
  <2>3. TAKE p \in Range(t)
  <2>4. PICK i \in 1 .. Len(t) : t[i] = p
    BY <2>2
  <2>5. i \in 1 .. Len(s) /\ t[i] = <<own, s[i]>>
    BY <1>14
  <2>6. QED BY <2>4, <2>5
<1>18. ASSUME NEW r \in used
       PROVE  f[r] = <<queue[owner(r)].sn, rec[r]>> /\ f[r] \in Wanted \ Range(t)
  <2> DEFINE j == owner(r)
  <2>1. PICK a \in 1 .. Len(queue[j].list) : queue[j].list[a] = r /\ c(j)[a] = rec[r]
    BY <1>6
  <2>2. j \in 1 .. Len(queue)
    BY <1>6
  <2> HIDE DEF j
  <2>3. rec[r] \in Range(c(j))
    BY <1>5, <2>1, <2>2 DEF Range
  <2>4. rec[r] \in Range(Has(ItemOf(j)))
    BY <1>4, <2>2, <2>3
  <2>5. <<queue[j].sn, rec[r]>> \in Wanted
    BY <1>3, <2>2, <2>4, InWanted
  <2>6. <<queue[j].sn, rec[r]>> \notin Range(t)
    <3>1. SUFFICES ASSUME <<queue[j].sn, rec[r]>> \in Range(t) PROVE FALSE
      OBVIOUS
    <3>2. PICK i \in 1 .. Len(s) : <<queue[j].sn, rec[r]>> = <<own, s[i]>>
      BY <1>17, <3>1
    <3>3. queue[j].sn = own /\ rec[r] = s[i]
      BY <3>2
    <3>4. j = k
      BY <1>1, <2>2, <3>3 DEF own
    <3>5. QED BY <1>12, <2>1, <3>3, <3>4
  <2>7. f[r] = <<queue[j].sn, rec[r]>>
    BY DEF j
  <2>8. QED BY <2>5, <2>6, <2>7 DEF j
<1>19. ASSUME NEW r \in used, NEW r2 \in used, f[r] = f[r2]
       PROVE  r = r2
  <2> DEFINE j == owner(r)
             j2 == owner(r2)
  <2>1. PICK a \in 1 .. Len(queue[j].list) : queue[j].list[a] = r /\ c(j)[a] = rec[r]
    BY <1>6
  <2>2. PICK b \in 1 .. Len(queue[j2].list) : queue[j2].list[b] = r2 /\ c(j2)[b] = rec[r2]
    BY <1>6
  <2>3. j \in 1 .. Len(queue) /\ j2 \in 1 .. Len(queue)
    BY <1>6
  <2>4. <<queue[j].sn, rec[r]>> = <<queue[j2].sn, rec[r2]>>
    BY <1>18, <1>19
  <2> HIDE DEF j, j2
  <2>5. queue[j].sn = queue[j2].sn /\ rec[r] = rec[r2]
    BY <2>4
  <2>6. j = j2
    BY <1>1, <2>3, <2>5
  <2>7. a = b
    BY <1>4, <1>5, <2>1, <2>2, <2>3, <2>5, <2>6 DEF NoRepeat
  <2>8. QED BY <2>1, <2>2, <2>6, <2>7
<1>20. f \in Injection(used, Wanted \ Range(t))
  <2>1. f \in [used -> Wanted \ Range(t)]
    <3>1. \A r \in used : f[r] \in Wanted \ Range(t)
      BY <1>18
    <3>2. f = [r \in used |-> f[r]]
      OBVIOUS
    <3> HIDE DEF f
    <3>3. QED BY <3>1, <3>2
  <2>2. DOMAIN f = used
    OBVIOUS
  <2> HIDE DEF f
  <2>3. \A r, r2 \in used : f[r] = f[r2] => r = r2
    BY <1>19 DEF f
  <2>4. QED BY <2>1, <2>2, <2>3 DEF Injection, IsInjective
<1> HIDE DEF f
<1>21. /\ IsFiniteSet(Wanted) /\ Cardinality(Wanted) \in Nat /\ Cardinality(Wanted) <= NumRec
  BY <1>1, WantedFinite, FS_CardinalityType DEF PoolSuffices
<1>22. /\ IsFiniteSet(Wanted \ Range(t))
       /\ Cardinality(Wanted \ Range(t)) = Cardinality(Wanted) - Len(s)
  <2>1. Wanted \cap Range(t) = Range(t)
    BY <1>16
  <2>2. IsFiniteSet(Wanted)
    BY <1>21
  <2>3. /\ IsFiniteSet(Wanted \ Range(t))
        /\ Cardinality(Wanted \ Range(t)) = Cardinality(Wanted) - Cardinality(Wanted \cap Range(t))
    BY ONLY <2>2, FS_Difference
  <2>4. QED BY <1>16, <2>1, <2>3
<1>23. Cardinality(used) = NumRec - Len(free)
  <2>1. RecId \cap Range(free) = Range(free)
    BY <1>1, InRange
  <2>2. Cardinality(Range(free)) = Len(free)
    BY <1>1, CountRange DEF Pool
  <2>3. NumRec \in Nat /\ NumRec \in Int /\ 1 \in Int
    BY NumRecAssumption
  <2>4. IsFiniteSet(1 .. NumRec) /\ Cardinality(1 .. NumRec) = NumRec
    <3>1. /\ IsFiniteSet(1 .. NumRec)
          /\ Cardinality(1 .. NumRec) = (IF 1 > NumRec THEN 0 ELSE (NumRec - 1) + 1)
      BY ONLY <2>3, FS_Interval
    <3>2. QED BY <3>1, NumRecAssumption
  <2>5. IsFiniteSet(RecId) /\ Cardinality(RecId) = NumRec
    BY <2>4 DEF RecId
  <2>6. Cardinality(RecId \ Range(free)) = Cardinality(RecId) - Cardinality(RecId \cap Range(free))
    BY ONLY <2>5, FS_Difference
  <2>7. QED BY <2>1, <2>2, <2>5, <2>6 DEF used
<1>24. Cardinality(used) <= Cardinality(Wanted \ Range(t))
  BY <1>20, <1>22, FS_Injection
<1>25. NumRec \in Nat
  BY NumRecAssumption
<1>26. QED BY <1>1, <1>2, <1>21, <1>22, <1>23, <1>24, <1>25 DEF s

\* The list of a query, as records.
LEMMA ContentsSeq ==
    ASSUME NEW q \in Query, NEW content
    PROVE  /\ Len(Contents(q, content)) = Len(q.list)
           /\ Contents(q, content) \in Seq(Range(Contents(q, content)))
<1> DEFINE c == Contents(q, content)
           n == Len(q.list)
<1>1. n \in Nat
  BY LenProperties DEF Query
<1>2. c = [j \in 1 .. n |-> content[q.list[j]]]
  BY DEF Contents
<1> HIDE DEF c, n
<1>3. Len(c) = n /\ \A j \in 1 .. Len(c) : c[j] \in Range(c)
  BY <1>1, <1>2 DEF Range
<1>4. c = [j \in 1 .. n |-> c[j]]
  BY <1>2
<1>5. QED BY <1>1, <1>3, <1>4, IsASeq DEF c, n

\* The answer that completes a list leaves nothing out.
LEMMA GrownCovers ==
    ASSUME Numbered, Progress, Once, NEW k \in 1 .. Len(queue),
           toMc # <<>>, Answer.type = "answer", queue[k].ctx = Answer.ctx,
           Len(Grown(k).list) = held[ItemOf(k)]
    PROVE  Range(Has(ItemOf(k))) \subseteq Range(Contents(Grown(k), Content(k)))
<1> DEFINE c == Contents(Grown(k), Content(k))
           h == Has(ItemOf(k))
<1>1. /\ h \in Seq(AllRecords) /\ Len(h) = held[ItemOf(k)] /\ NoRepeat(h)
  BY ItemOfIs, HasCount DEF Numbered, Sound
<1>2. NoRepeat(c) /\ Range(c) \subseteq Range(h)
  BY GrownOnce, GrownWithin DEF Numbered
<1>3. Len(c) = Len(Grown(k).list) /\ c \in Seq(Range(c))
  BY AddsIs, ContentsSeq DEF Numbered
<1> HIDE DEF c, h
<1>4. IsFiniteSet(Range(h)) /\ Cardinality(Range(h)) = Len(h)
  BY ONLY <1>1, CountRange
<1>5. Cardinality(Range(c)) = Len(c)
  BY ONLY <1>2, <1>3, CountRange
<1>6. Cardinality(Range(c)) = Cardinality(Range(h))
  BY <1>1, <1>3, <1>4, <1>5
<1>7. Range(h) = Range(c)
  BY ONLY <1>2, <1>4, <1>6, FS_Subset
<1>8. QED BY <1>7 DEF c, h

\* The message centre adds the records of an answer to the list of a query.
LEMMA McAddsAnswers ==
    ASSUME Numbered, Progress, Once, NEW k \in 1 .. Len(queue), McAnswerAdds(k), \A f : ~Fault(f)
    PROVE  Progress'
<1> DEFINE q == Grown(k)
           done == ~Runs(queue[k], Answer.list) \/ Len(q.list) = q.sum
<1>1. /\ toMc # <<>> /\ toMc' = Tail(toMc) /\ Answer.type = "answer"
      /\ UNCHANGED <<asked, held, ctx, loop, toDev, fromDev, told>>
      /\ queue[k].ctx = Answer.ctx /\ ~IsShort(queue[k])
  BY DEF McAnswerAdds, McAnswers, IsFor
<1>2. \/ /\ ~done /\ queue' = [queue EXCEPT ![k] = q]
         /\ rec' = Content(k) /\ UNCHANGED toGb
      \/ done /\ DumpRec(k, q, Content(k), Left(k))
  BY DEF McAnswerAdds, Grown, Content, Left
<1>3. /\ q \in Query /\ q.ctx = queue[k].ctx /\ q.sn = queue[k].sn
      /\ Content(k) \in [RecId -> AllRecords \cup {Null}] /\ Left(k) \in Seq(RecId)
      /\ Pool(Left(k), [queue EXCEPT ![k] = q]) /\ Blank(Content(k), Left(k))
      /\ \A j \in 1 .. Len(queue) : \A r \in Range(queue[j].list) :
            j # k => Content(k)[r] = rec[r] /\ r \notin Range(q.list)
  BY <1>1, AddsIs DEF Numbered
<1>4. /\ Answer.sum = held[ItemOf(k)] /\ Answer.sum # 0
      /\ Answer.list \in Seq(AllRecords) /\ Answer.list # <<>>
  BY <1>1, AnswerTaken DEF IsShort
<1>5. q.sum = held[ItemOf(k)]
  <2>1. /\ queue[k] \in Query /\ free \in Seq(RecId) /\ Answer.sum \in Nat
    BY <1>1, AnswerIs, QueryType DEF Numbered, Sound, Messages, TypeOK
  <2>2. DOMAIN Longer(queue[k], Answer.list) = {"ctx", "sn", "sum", "list"}
    BY <2>1 DEF Longer, Query
  <2>3. QED BY <1>4, <2>2 DEF Grown
<1>6. Range(Contents(q, Content(k))) \subseteq Range(Has(ItemOf(k)))
  BY <1>1, GrownWithin
<1> DEFINE plain == DifferentTimes(ItemOf(k))
           all == /\ Len(q.list) = Len(Answer.list) + Len(queue[k].list)
                  /\ Range(Contents(queue[k], rec)) \cup Range(Answer.list)
                        \subseteq Range(Contents(q, Content(k)))
<1>7. plain => Fresh(queue[k], Answer.list) = Len(Answer.list)
  BY <1>1, AllFresh
<1>8. plain /\ Runs(queue[k], Answer.list) => all
  <2>1. SUFFICES ASSUME plain, Runs(queue[k], Answer.list) PROVE all
    OBVIOUS
  <2>2. Taken(queue[k], Answer.list) = Len(Answer.list)
    BY <1>7, <2>1 DEF Taken
  <2>3. QED BY <1>1, <2>2, GrownFull DEF Numbered
<1>9. plain /\ PoolSuffices => Runs(queue[k], Answer.list)
  <2>1. SUFFICES ASSUME plain, PoolSuffices PROVE Runs(queue[k], Answer.list)
    OBVIOUS
  <2>2. Len(Answer.list) <= Len(free)
    BY <1>1, <2>1, RoomInPool
  <2>3. QED BY <1>7, <2>1, <2>2 DEF Runs
<1>10. Len(Answer.list) \in Nat \ {0} /\ Len(queue[k].list) \in Nat
  <2>1. queue[k].list \in Seq(RecId)
    BY QueryType DEF Numbered, Sound, Messages
  <2>2. QED BY <1>4, <2>1, LenProperties, EmptySeq
<1> HIDE DEF q, plain
<1>11. CASE done /\ DumpRec(k, q, Content(k), Left(k))
  <2>1. ASSUME PoolSuffices, plain
        PROVE  /\ q.list # <<>>
               /\ Range(Has(ItemOf(k))) \subseteq Range(Contents(q, Content(k)))
    <3>1. Runs(queue[k], Answer.list) /\ all
      BY <1>8, <1>9, <2>1
    <3>2. Len(q.list) = held[ItemOf(k)]
      BY <1>5, <1>11, <3>1
    <3>3. Range(Has(ItemOf(k))) \subseteq Range(Contents(q, Content(k)))
      BY <1>1, <3>2, GrownCovers DEF q
    <3>4. Len(q.list) # 0
      BY <1>4, <3>2
    <3>5. q.list # <<>>
      BY <3>4
    <3>6. QED BY <3>3, <3>5
  <2>2. DumpRec(k, q, Content(k), Left(k))
    BY <1>11
  <2>3. PoolSuffices /\ DifferentTimes(ItemOf(k)) =>
           /\ Answer.sum = 0 \/ q.list # <<>>
           /\ Range(Has(ItemOf(k))) \subseteq Range(Contents(q, Content(k)))
    BY <2>1 DEF plain
  <2>4. QED BY <1>1, <1>3, <1>6, <2>2, <2>3, DumpAnswers
<1>12. CASE /\ ~done /\ queue' = [queue EXCEPT ![k] = q]
            /\ rec' = Content(k) /\ UNCHANGED toGb
  <2>1. /\ Len(queue') = Len(queue) /\ queue'[k] = q
        /\ \A j \in 1 .. Len(queue) : j # k => queue'[j] = queue[j]
    <3>1. queue \in Seq(Query)
      BY DEF Numbered, Sound, Messages
    <3>2. QED BY <1>3, <1>12, <3>1, ExceptSeq
  <2>2. Stays(q, k)
    <3>1. Len(q.list) # held[ItemOf(k)] /\ held[ItemOf(k)] # 0
      BY <1>4, <1>5, <1>12
    <3>2. Runs(queue[k], Answer.list)
      BY <1>12
    <3>3. DifferentTimes(ItemOf(k)) =>
             Range(Contents(queue[k], rec)) \cup Range(Answer.list) \subseteq Range(Contents(q, rec'))
      BY <1>8, <1>12, <3>2 DEF plain
    <3>4. QED BY <1>3, <1>5, <1>6, <1>12, <3>1, <3>3 DEF Stays
  <2>3. \A j \in 1 .. Len(queue') :
           \/ \E i \in 1 .. Len(queue) :
                 /\ i # k /\ queue'[j] = queue[i]
                 /\ \A r \in Range(queue[i].list) : rec'[r] = rec[r]
           \/ Stays(queue'[j], k)
    <3>1. \A j \in 1 .. Len(queue) : j # k => \A r \in Range(queue[j].list) : rec'[r] = rec[r]
      BY <1>3, <1>12
    <3>2. QED BY <2>1, <2>2, <3>1
  <2>4. \A i \in 1 .. Len(queue) : i # k => \E j \in 1 .. Len(queue') : queue'[j] = queue[i]
    BY <2>1
  <2>5. \A sn : sn = queue[k].sn => Queued(sn)'
    BY <1>3, <2>1 DEF Queued
  <2>6. toGb' = toGb
    BY <1>12
  <2>7. QED BY <1>1, <2>3, <2>4, <2>5, <2>6, TakingAnswers
<1>13. QED BY <1>2, <1>11, <1>12

LEMMA ProgressInit == Init => Progress
<1> SUFFICES ASSUME Init PROVE Progress
  OBVIOUS
<1>1. /\ asked = <<>> /\ queue = <<>> /\ toMc = <<>> /\ toGb = <<>>
      /\ toDev = {} /\ fromDev = {} /\ loop = Null /\ told = [sn \in Sn |-> <<>>]
  BY DEF Init
<1>2. Range(<<>>) = {}
  BY DEF Range
<1>3. \A c, i : ~About(c, i)
  BY <1>1, <1>2 DEF About
<1>4. Matching /\ Partial /\ Coming /\ Stirring
  BY <1>1, <1>3 DEF Matching, Partial, Coming, Stirring
<1>5. Exactly
  BY <1>1, <1>2 DEF Exactly
<1>6. Served
  BY <1>1 DEF Served
<1>7. Had
  BY <1>1, <1>2 DEF Had, Reported
<1>8. QED BY <1>4, <1>5, <1>6, <1>7 DEF Progress

\* A step that changes nothing.
LEMMA StutterAnswers ==
    ASSUME Numbered, Progress, UNCHANGED vars
    PROVE  Progress'
<1>1. UNCHANGED <<asked, held, queue, rec, ctx, loop, toMc, toGb, toDev, fromDev, told>>
  BY DEF vars, mc
<1>2. \A c, i : About(c, i)' <=> About(c, i)
  BY <1>1 DEF About
<1>3. \A c, x : Underway(c, x)' <=> Underway(c, x)
  BY <1>1 DEF Underway
<1>4. Exactly'
  BY <1>1, ExactlyKept DEF Progress, Exactly
<1>5. \A sn : /\ Asking(sn)' <=> Asking(sn)
              /\ Replied(sn)' <=> Replied(sn)
              /\ \A x : Reported(sn, x)' <=> Reported(sn, x)
  BY <1>1 DEF Asking, Replied, Reported
<1>6. QED BY <1>1, <1>2, <1>3, <1>4, <1>5, PassingKeeps

LEMMA AnsweringNext == Answering /\ [Next]_vars => Answering'
<1> SUFFICES ASSUME Answering, [Next]_vars PROVE Answering'
  OBVIOUS
<1>1. Single /\ Single' /\ Numbered /\ Sound /\ Sound'
  BY SingleNext DEF Answering, Single, Truthful, Numbered
<1>2. SUFFICES ASSUME Calm' PROVE Progress'
  BY <1>1 DEF Answering
<1>3. Calm /\ held' = held /\ \A f : ~Fault(f)
  BY <1>1, <1>2, CalmBefore
<1>4. Progress
  BY <1>3 DEF Answering
<1>5. faults = <<>> /\ Len(asked) < Limit
  BY <1>3 DEF Calm
<1>6. Once /\ Truth
  <2>1. "dup" \notin Range(faults)
    BY <1>5 DEF Range
  <2>2. QED BY <1>1, <1>5, <2>1 DEF Single, Truthful
<1>7. CASE UNCHANGED vars
  BY <1>1, <1>4, <1>7, StutterAnswers
<1>8. CASE \E i \in Item \cup {Other} : PlatformAsks(i)
  BY <1>1, <1>3, <1>4, <1>6, <1>8, PlatformAsksAnswers DEF AnyItem
<1>9. CASE GbServer
  BY <1>1, <1>3, <1>4, <1>9, GbQueryAnswers, GbResultAnswers, GbBatchAnswers, GbAnswerAnswers
     DEF GbServer
<1>10. CASE MsgServerTask
  <2>1. CASE McQuery
    BY <1>1, <1>3, <1>4, <1>5, <1>6, <2>1, McQueryAnswers
  <2>2. CASE McQueryRefused \/ McAnswerUnknown
    BY <1>1, <1>3, <1>4, <2>2, McPassesAnswers
  <2>3. CASE \E k \in 1 .. Len(queue) : McAnswerEnds(k) \/ McAnswerAdds(k)
    BY <1>1, <1>3, <1>4, <1>6, <2>3, McEndsAnswers, McAddsAnswers
  <2>4. QED BY <1>10, <2>1, <2>2, <2>3 DEF MsgServerTask
<1>11. CASE Device
  BY <1>1, <1>3, <1>4, <1>11, DeviceAnswers DEF Device
<1>12. CASE Lose \/ (\E i \in Item : DevGrows(i)) \/ \E a \in fromDev : DevAnswersAsOther(a)
  BY <1>3, <1>12 DEF Lose, DevGrows, DevAnswersAsOther
<1>13. QED BY <1>7, <1>8, <1>9, <1>10, <1>11, <1>12 DEF Next

LEMMA AnsweringInit == Init => Answering
BY SoundInit, NumbersInit, TruthInit, OnceInit, ProgressInit
   DEF Answering, Single, Truthful, Numbered

\* Of an item whose records all have different times: without faults, and until
\* async_msg_ctx has gone round, every query that has not met a full queue has
\* left it by the time everything is quiet; and if the pool was never short, it
\* was answered, with exactly the records the device has, each once
\* (query_record_info, add_rec_info, deal_rec_list).  What a queued query lacks
\* is on its way, so a quiet system has no query.
LEMMA DistinctTimesAreAnswered == Answering => DistinctTimesAnswered
<1>1. ASSUME Answering PROVE DistinctTimesAnswered
  <2>1. SUFFICES ASSUME Quiet, Calm, NEW sn \in 1 .. Len(asked),
                        asked[sn] \in Item, DifferentTimes(asked[sn])
                 PROVE  /\ \A k \in 1 .. Len(queue) : queue[k].sn # sn
                        /\ PoolSuffices => /\ told[sn] # <<>>
                                           /\ Told(sn) = Range(Has(asked[sn]))
                                           /\ ToldApart(sn)
    BY DEF DistinctTimesAnswered, Queued, FullyTold
  <2>2. Progress /\ Single /\ Numbered /\ Sound
    BY <1>1, <2>1 DEF Answering, Single, Truthful, Numbered
  <2>3. Once
    <3>1. "dup" \notin Range(faults) /\ Len(asked) < Limit
      BY <2>1 DEF Calm, Range
    <3>2. QED BY <2>2, <3>1 DEF Single
  <2>4. sn \in Sn
    BY <2>2, LenProperties, BoundAssumption DEF Sound, TypeOK, Sn
  <2>5. /\ toMc = <<>> /\ toGb = <<>> /\ toDev = {} /\ fromDev = {} /\ loop = Null
        /\ Range(toMc) = {} /\ Range(toGb) = {}
    BY <2>1 DEF Quiet, Range
  <2>6. \A k \in 1 .. Len(queue) : queue[k].sn # sn
    <3>1. SUFFICES ASSUME NEW k \in 1 .. Len(queue), queue[k].sn = sn PROVE FALSE
      OBVIOUS
    <3> DEFINE i == ItemOf(k)
               c == Contents(queue[k], rec)
    <3>2. i \in Item /\ DifferentTimes(i)
      BY <2>1, <3>1 DEF ItemOf
    <3>3. held[i] # 0
      <4>1. \A d : ~About(queue[k].ctx, d)
        BY <2>5 DEF About
      <4>2. QED BY <2>2, <4>1 DEF Progress, Stirring
    <3>4. Range(Has(i)) \subseteq Range(c)
      <4>1. \A x : ~Underway(queue[k].ctx, x)
        BY <2>5 DEF Underway
      <4>2. QED BY <2>2, <3>2, <4>1 DEF Progress, Coming
    <3>5. Range(c) \subseteq Range(Has(i)) /\ Len(queue[k].list) # held[i]
      BY <2>2, <3>3 DEF Progress, Partial
    <3>6. NoRepeat(c)
      BY <2>2, <2>3, ListOnce
    <3>7. Has(i) \in Seq(AllRecords) /\ Len(Has(i)) = held[i] /\ NoRepeat(Has(i))
      BY <2>2, <3>2, HasCount DEF Sound
    <3>8. Len(c) = Len(queue[k].list) /\ c \in Seq(Range(c))
      BY <2>2, QueryType, ContentsSeq DEF Sound, Messages
    <3> HIDE DEF c, i
    <3>9. Cardinality(Range(Has(i))) = Len(Has(i))
      BY ONLY <3>7, CountRange
    <3>10. Cardinality(Range(c)) = Len(c)
      BY ONLY <3>6, <3>8, CountRange
    <3>11. Range(c) = Range(Has(i))
      BY <3>4, <3>5
    <3>12. Len(c) = Len(Has(i))
      BY <3>9, <3>10, <3>11
    <3>13. QED BY <3>5, <3>7, <3>8, <3>12
  <2>7. ASSUME PoolSuffices
        PROVE  told[sn] # <<>> /\ Told(sn) = Range(Has(asked[sn]))
    <3>1. ~Asking(sn) /\ ~Queued(sn)
      BY <2>5, <2>6 DEF Asking, Queued
    <3>2. Complete(sn)
      BY <2>1, <2>2, <2>7, <3>1 DEF Progress, Served
    <3>3. told[sn] # <<>>
      BY <2>5, <3>2 DEF Complete, Replied
    <3>4. \A x : Reported(sn, x) <=> x \in Told(sn)
      BY <2>5 DEF Reported, Told
    <3>5. \A x \in Range(Has(asked[sn])) : x \in Told(sn)
      BY <3>2, <3>4 DEF Complete
    <3>6. \A x \in Told(sn) : x \in Range(Has(asked[sn]))
      BY <2>2, <2>4, <3>4 DEF Progress, Had
    <3>7. QED BY <3>3, <3>5, <3>6
  <2>8. ToldApart(sn)
    <3>1. SUFFICES ASSUME NEW a \in 1 .. Len(told[sn]), NEW b \in 1 .. Len(told[sn]),
                          NEW j \in 1 .. Len(told[sn][a]), NEW k \in 1 .. Len(told[sn][b]),
                          told[sn][a][j] = told[sn][b][k]
                   PROVE  a = b /\ j = k
      BY DEF ToldApart
    <3>2. /\ At(sn, told[sn][a][j], "told", a, j)
          /\ At(sn, told[sn][a][j], "told", b, k)
      BY <3>1 DEF At, InTold, Holds
    <3>3. QED BY <2>3, <2>4, <3>2 DEF Once
  <2>9. QED BY <2>6, <2>7, <2>8
<1>2. QED BY <1>1

-----------------------------------------------------------------------------
(* Items with two records of one time. *)

\* No list has two records that is_same takes for one.
NoTwins ==
    \A k \in 1 .. Len(queue) : \A a, b \in Range(Contents(queue[k], rec)) : ~Same(a, b)

\* No query for such an item is ever over.
Lasting ==
    PoolSuffices => \A sn \in 1 .. Len(asked) :
        asked[sn] \in Item /\ SameTimes(asked[sn]) => Asking(sn) \/ Queued(sn)

\* The sixth invariant.
Settling == Answering /\ NoTwins /\ (Calm => Lasting)

\* What is added to a list is_same finds different from what is there.
LEMMA GrownNoTwins ==
    ASSUME Sound, NoTwins, toMc # <<>>, Answer.type = "answer", NEW k \in 1 .. Len(queue)
    PROVE  \A a, b \in Range(Contents(Grown(k), Content(k))) : ~Same(a, b)
<1> DEFINE c == Contents(Grown(k), Content(k))
           d == Contents(queue[k], rec)
           s == Answer.list
           n == Taken(queue[k], s)
<1>1. s \in Seq(AllRecords) /\ Len(s) \in Nat
  BY AnswerIs, LenProperties
<1>2. /\ n \in Nat /\ n <= Len(s)
      /\ \A x, j : Holds(c, x, j) =>
            /\ j \in Nat
            /\ j <= n => Holds(s, x, n + 1 - j)
            /\ j > n => Holds(d, x, j - n)
  BY GrownHolds
<1>3. n <= Fresh(queue[k], s) /\ Fresh(queue[k], s) \in Nat
  <2>1. Fresh(queue[k], s) \in 0 .. Len(s)
    BY <1>1, FreshIs
  <2>2. free \in Seq(RecId)
    BY DEF Sound, TypeOK
  <2>3. Len(free) \in Nat
    BY <2>2, LenProperties
  <2>4. QED BY <1>1, <2>1, <2>3 DEF Taken, Runs
<1>4. \A j \in 1 .. n : /\ \A b \in Range(d) : ~Same(b, s[j])
                        /\ \A i \in 1 .. j - 1 : ~Same(s[i], s[j])
  <2>1. \A j \in 1 .. Fresh(queue[k], s) :
           \A b \in Listed(queue[k]) \cup {s[i] : i \in 1 .. j - 1} : ~Same(b, s[j])
    BY <1>1, FreshIs
  <2>2. Listed(queue[k]) = Range(d)
    BY ListedIs
  <2>3. \A j \in 1 .. n : j \in 1 .. Fresh(queue[k], s)
    BY <1>2, <1>3
  <2>4. QED BY <2>1, <2>2, <2>3
<1>5. \A a, b \in Range(d) : ~Same(a, b)
  BY DEF NoTwins
<1>6. /\ Len(queue[k].list) \in Nat /\ Len(Grown(k).list) \in Nat
  BY QueryType, AddsIs, LenProperties DEF Sound, Messages, Query
<1>7. DOMAIN d = 1 .. Len(d) /\ DOMAIN c = 1 .. Len(c)
  BY <1>6 DEF Contents
<1> HIDE DEF c, d, s, n
<1>8. \A x, j : Holds(d, x, j) => x \in Range(d)
  BY <1>7 DEF Holds, Range
<1>9. \A x \in Range(c) : (\E j \in 1 .. n : s[j] = x) \/ x \in Range(d)
  <2>1. TAKE x \in Range(c)
  <2>2. PICK j : Holds(c, x, j)
    BY <1>7 DEF Holds, Range
  <2>3. CASE j <= n
    <3>1. j \in Nat /\ Holds(s, x, n + 1 - j)
      BY <1>2, <2>2, <2>3
    <3>2. n + 1 - j \in 1 .. n /\ s[n + 1 - j] = x
      <4>1. j \in 1 .. Len(c)
        BY <2>2 DEF Holds
      <4>2. j >= 1
        BY <3>1, <4>1
      <4>3. QED BY <1>2, <2>3, <3>1, <4>2 DEF Holds
    <3>3. QED BY <3>2
  <2>4. CASE j > n
    BY <1>2, <1>8, <2>2, <2>4
  <2>5. QED BY <1>2, <2>2, <2>3, <2>4
<1>10. \A a, b : Same(a, b) => Same(b, a) /\ a # b
  BY DEF Same
<1>11. \A i, j \in 1 .. n : ~Same(s[i], s[j])
  <2>1. TAKE i, j \in 1 .. n
  <2>2. i \in 1 .. j - 1 \/ j \in 1 .. i - 1 \/ i = j
    BY <1>2
  <2>3. QED BY <1>4, <1>10, <2>2
<1>12. QED BY <1>4, <1>5, <1>9, <1>10, <1>11 DEF c

\* A query goes with its list; the others keep theirs.
LEMMA DumpNoTwins ==
    ASSUME Sound, NoTwins, NEW k \in 1 .. Len(queue), NEW q \in Query,
           NEW content \in [RecId -> AllRecords \cup {Null}], NEW left \in Seq(RecId),
           Pool(left, [queue EXCEPT ![k] = q]), Blank(content, left),
           DumpRec(k, q, content, left),
           \A j \in 1 .. Len(queue) : \A r \in Range(queue[j].list) :
              j # k => content[r] = rec[r] /\ r \notin Range(q.list)
    PROVE  /\ NoTwins'
           /\ \A i \in 1 .. Len(queue) : i # k => \E j \in 1 .. Len(queue') : queue'[j] = queue[i]
<1>1. queue \in Seq(Query)
  BY DEF Sound, Messages
<1>2. queue' = RemoveAt(queue, k) /\ Untouched(q, content)
  BY DumpIs
<1>3. /\ Len(queue') = Len(queue) - 1
      /\ \A j \in 1 .. Len(queue') :
            Skip(k, j) \in 1 .. Len(queue) /\ Skip(k, j) # k /\ queue'[j] = queue[Skip(k, j)]
      /\ \A i \in 1 .. Len(queue) : i # k => \E j \in 1 .. Len(queue') : Skip(k, j) = i
  <2>1. /\ Len(RemoveAt(queue, k)) = Len(queue) - 1
        /\ \A j \in 1 .. Len(queue) - 1 : /\ Skip(k, j) \in 1 .. Len(queue)
                                          /\ Skip(k, j) # k
                                          /\ RemoveAt(queue, k)[j] = queue[Skip(k, j)]
        /\ \A i \in 1 .. Len(queue) : i # k => \E j \in 1 .. Len(queue) - 1 : Skip(k, j) = i
    <3>1. queue \in Seq(Query) /\ k \in 1 .. Len(queue)
      BY <1>1
    <3>2. QED BY ONLY <3>1, Remaining
  <2>2. QED BY <1>2, <2>1
<1>4. \A i \in 1 .. Len(queue) : i # k => \A r \in Range(queue[i].list) : rec'[r] = rec[r]
  <2>1. \A i \in 1 .. Len(queue) : Range(queue[i].list) \subseteq RecId
    BY <1>1, QueryType, InRange
  <2>2. QED BY <1>2, <2>1 DEF Untouched
<1>5. \A i \in 1 .. Len(queue) : i # k => Contents(queue[i], rec') = Contents(queue[i], rec)
  BY <1>1, <1>4, QueryType, SameContents
<1>6. NoTwins'
  <2>1. SUFFICES ASSUME NEW j \in 1 .. Len(queue')
                 PROVE  \A a, b \in Range(Contents(queue'[j], rec')) : ~Same(a, b)
    BY DEF NoTwins
  <2>2. PICK i \in 1 .. Len(queue) : i # k /\ queue'[j] = queue[i]
    BY <1>3
  <2>3. QED BY <1>5, <2>2 DEF NoTwins
<1>7. QED BY <1>3, <1>6

\* A query enters with an empty list, and the others stay.
LEMMA EnterNoTwins ==
    ASSUME Sound, NoTwins, McQuery
    PROVE  /\ NoTwins'
           /\ \E j \in 1 .. Len(queue') : queue'[j].sn = Head(toMc).sn
           /\ \A i \in 1 .. Len(queue) : \E j \in 1 .. Len(queue') : queue'[j] = queue[i]
<1>1. /\ Entering \in Query /\ Entering.list = <<>> /\ queue' = <<Entering>> \o queue
      /\ queue \in Seq(Query) /\ free \in Seq(RecId) /\ Pool(free, queue)
      /\ Len(queue) \in Nat
  BY EntersIs, LenProperties DEF Sound, Messages, TypeOK
<1>2. rec' = rec /\ Entering.sn = Head(toMc).sn
  BY DEF McQuery, Entering
<1>3. /\ Len(queue') = Len(queue) + 1 /\ queue'[1] = Entering
      /\ \A j \in 1 .. Len(queue) : queue'[j + 1] = queue[j]
  BY <1>1, EnterKeeps
<1>4. Range(Contents(Entering, rec)) = {}
  <2>1. Len(Entering.list) = 0
    BY <1>1
  <2>2. QED BY <2>1 DEF Contents, Range
<1>5. NoTwins'
  <2>1. SUFFICES ASSUME NEW j \in 1 .. Len(queue')
                 PROVE  \A a, b \in Range(Contents(queue'[j], rec)) : ~Same(a, b)
    BY <1>2 DEF NoTwins
  <2>2. CASE j = 1
    BY <1>3, <1>4, <2>2
  <2>3. CASE j # 1
    <3>1. j - 1 \in 1 .. Len(queue) /\ (j - 1) + 1 = j
      BY <1>1, <1>3, <2>3
    <3>2. QED BY <1>3, <3>1 DEF NoTwins
  <2>4. QED BY <2>2, <2>3
<1>6. 1 \in 1 .. Len(queue') /\ \A i \in 1 .. Len(queue) : i + 1 \in 1 .. Len(queue')
  BY <1>1, <1>3
<1>7. QED BY <1>2, <1>3, <1>5, <1>6

\* An answer that is taken, whatever becomes of its query.
LEMMA AnswerNoTwins ==
    ASSUME Sound, NoTwins, NEW k \in 1 .. Len(queue), McAnswerEnds(k) \/ McAnswerAdds(k)
    PROVE  /\ NoTwins'
           /\ \A i \in 1 .. Len(queue) :
                 i # k => \E j \in 1 .. Len(queue') : queue'[j] = queue[i]
<1>1. toMc # <<>> /\ Answer.type = "answer" /\ queue \in Seq(Query)
  BY DEF McAnswerEnds, McAnswerAdds, McAnswers, Sound, Messages
<1>2. CASE McAnswerEnds(k)
  <2>1. /\ DumpRec(k, queue[k], rec, free) /\ queue[k] \in Query
        /\ Pool(free, [queue EXCEPT ![k] = queue[k]]) /\ Blank(rec, free)
        /\ rec \in [RecId -> AllRecords \cup {Null}] /\ free \in Seq(RecId)
    BY <1>2, EndsIs
  <2>2. \A j \in 1 .. Len(queue) : \A r \in Range(queue[j].list) :
           j # k => rec[r] = rec[r] /\ r \notin Range(queue[k].list)
    BY DEF Sound, Pool
  <2>3. QED BY <2>1, <2>2, DumpNoTwins
<1>3. CASE McAnswerAdds(k)
  <2> DEFINE q == Grown(k)
  <2>1. /\ q \in Query /\ q.sn = queue[k].sn
        /\ Content(k) \in [RecId -> AllRecords \cup {Null}] /\ Left(k) \in Seq(RecId)
        /\ Pool(Left(k), [queue EXCEPT ![k] = q]) /\ Blank(Content(k), Left(k))
        /\ \A j \in 1 .. Len(queue) : \A r \in Range(queue[j].list) :
              j # k => Content(k)[r] = rec[r] /\ r \notin Range(q.list)
    BY <1>1, AddsIs
  <2>2. \A a, b \in Range(Contents(q, Content(k))) : ~Same(a, b)
    BY <1>1, GrownNoTwins
  <2> HIDE DEF q
  <2>3. CASE DumpRec(k, q, Content(k), Left(k))
    BY <2>1, <2>3, DumpNoTwins
  <2>4. CASE queue' = [queue EXCEPT ![k] = q] /\ rec' = Content(k)
    <3>1. /\ Len(queue') = Len(queue) /\ queue'[k] = q
          /\ \A j \in 1 .. Len(queue) : j # k => queue'[j] = queue[j]
      BY <1>1, <2>1, <2>4, ExceptSeq
    <3>2. \A j \in 1 .. Len(queue) : j # k => Contents(queue[j], rec') = Contents(queue[j], rec)
      BY <1>1, <2>1, <2>4, QueryType, SameContents
    <3>3. NoTwins'
      BY <2>2, <2>4, <3>1, <3>2 DEF NoTwins
    <3>4. QED BY <3>1, <3>3
  <2>5. QED BY <1>3, <2>3, <2>4, McAddsIs DEF q
<1>4. QED BY <1>2, <1>3

\* A list without twins is never as long as what the device has if there are
\* twins among it, so that no answer is the last one.
LEMMA TwinsStay ==
    ASSUME Numbered, Progress, Once, NoTwins, PoolSuffices, NEW k \in 1 .. Len(queue),
           SameTimes(ItemOf(k)), McAnswerEnds(k) \/ McAnswerAdds(k)
    PROVE  \E j \in 1 .. Len(queue') : queue'[j].sn = queue[k].sn
<1>1. /\ toMc # <<>> /\ Answer.type = "answer" /\ queue[k].ctx = Answer.ctx
      /\ queue \in Seq(Query)
  BY DEF McAnswerEnds, McAnswerAdds, McAnswers, IsFor, Numbered, Sound, Messages
<1>2. /\ Answer.sum = held[ItemOf(k)] /\ (Answer.list = <<>> => Answer.sum = 0)
      /\ Answer.list \in Seq(AllRecords)
  BY <1>1, AnswerTaken
<1>3. held[ItemOf(k)] # 0
  BY ItemOfIs, HasCount DEF Numbered, Sound, SameTimes
<1>4. ~IsShort(queue[k])
  BY <1>2, <1>3 DEF IsShort, Progress, Partial
<1>5. McAnswerAdds(k)
  BY <1>4 DEF McAnswerEnds
<1>6. Runs(queue[k], Answer.list)
  <2>1. Len(Answer.list) <= Len(free)
    BY <1>1, RoomInPool
  <2>2. Fresh(queue[k], Answer.list) \in 0 .. Len(Answer.list) /\ Len(Answer.list) \in Nat
    BY <1>2, FreshIs, LenProperties
  <2>3. free \in Seq(RecId)
    BY DEF Numbered, Sound, TypeOK
  <2>4. Len(free) \in Nat
    BY <2>3, LenProperties
  <2>5. QED BY <2>1, <2>2, <2>4 DEF Runs
<1>7. Grown(k) \in Query /\ Grown(k).sn = queue[k].sn
  BY <1>1, AddsIs DEF Numbered
<1>8. Grown(k).sum = held[ItemOf(k)]
  <2>1. /\ queue[k] \in Query /\ free \in Seq(RecId) /\ Answer.sum \in Nat
    BY <1>1, AnswerIs, QueryType DEF Numbered, Sound, Messages, TypeOK
  <2>2. DOMAIN Longer(queue[k], Answer.list) = {"ctx", "sn", "sum", "list"}
    BY <2>1 DEF Longer, Query
  <2>3. QED BY <1>2, <2>2 DEF Grown
<1>9. Len(Grown(k).list) # held[ItemOf(k)]
  <2>1. SUFFICES ASSUME Len(Grown(k).list) = held[ItemOf(k)] PROVE FALSE
    OBVIOUS
  <2>2. Range(Has(ItemOf(k))) \subseteq Range(Contents(Grown(k), Content(k)))
    BY <1>1, <2>1, GrownCovers
  <2>3. \A a, b \in Range(Contents(Grown(k), Content(k))) : ~Same(a, b)
    BY <1>1, GrownNoTwins DEF Numbered
  <2>4. PICK a \in Range(Has(ItemOf(k))), b \in Range(Has(ItemOf(k))) : Same(a, b)
    BY DEF SameTimes, Same
  <2>5. QED BY <2>2, <2>3, <2>4
<1>10. queue' = [queue EXCEPT ![k] = Grown(k)]
  BY <1>5, <1>6, <1>8, <1>9 DEF McAnswerAdds, Grown
<1>11. Len(queue') = Len(queue) /\ queue'[k] = Grown(k)
  BY <1>1, <1>7, <1>10, ExceptSeq
<1>12. QED BY <1>7, <1>11

\* Messages to the message centre stay in line, except the first when it is
\* taken.
LEMMA AskingStays ==
    ASSUME Sound, NEW sn, Asking(sn),
           \/ toMc' = toMc
           \/ \E i \in AnyItem : PlatformAsks(i)
           \/ GbFullBatch
           \/ GbLastBatch
           \/ toMc # <<>> /\ toMc' = Tail(toMc) /\ ~(Head(toMc).type = "query" /\ Head(toMc).sn = sn)
    PROVE  Asking(sn)'
<1>1. PICK m \in Range(toMc) : m.type = "query" /\ m.sn = sn
  BY DEF Asking
<1>2. CASE toMc' = toMc
  BY <1>1, <1>2 DEF Asking
<1>3. CASE toMc # <<>> /\ toMc' = Tail(toMc) /\ ~(Head(toMc).type = "query" /\ Head(toMc).sn = sn)
  <2>1. Range(toMc) = {Head(toMc)} \cup Range(toMc')
    BY <1>3, HeadAndTail DEF Sound, Messages
  <2>2. m \in Range(toMc')
    BY <1>1, <1>3, <2>1
  <2>3. QED BY <1>1, <2>2 DEF Asking
<1>4. CASE \E e : toMc' = Append(toMc, e)
  <2>1. PICK e : toMc' = Append(toMc, e)
    BY <1>4
  <2>2. toMc \in Seq(QueryIn \cup AnswerIn)
    BY DEF Sound, Messages
  <2>3. \A S : toMc \in Seq(S) => toMc \in Seq(S \cup {e})
    OBVIOUS
  <2>4. toMc \in Seq((QueryIn \cup AnswerIn) \cup {e}) /\ e \in (QueryIn \cup AnswerIn) \cup {e}
    BY <2>2
  <2>5. Range(toMc') = Range(toMc) \cup {e}
    BY ONLY <2>1, <2>4, AppendRange
  <2>6. QED BY <1>1, <2>5 DEF Asking
<1>5. QED BY <1>2, <1>3, <1>4 DEF PlatformAsks, GbFullBatch, GbLastBatch, HandOver

LEMMA LastingNext ==
    ASSUME Answering, NoTwins, Calm => Lasting, [Next]_vars, Answering', Calm'
    PROVE  Lasting'
<1>1. Numbered /\ Sound /\ Sound' /\ Single
  BY DEF Answering, Single, Truthful, Numbered
<1>2. Calm /\ held' = held /\ \A f : ~Fault(f)
  BY <1>1, CalmBefore
<1>3. Progress /\ Lasting
  BY <1>2 DEF Answering
<1>4. Once
  <2>1. "dup" \notin Range(faults) /\ Len(asked) < Limit
    BY <1>2 DEF Calm, Range
  <2>2. QED BY <1>1, <2>1 DEF Single
<1>5. asked \in Seq(AnyItem) /\ Len(asked) \in Nat
  BY <1>1, LenProperties DEF Sound, TypeOK, AnyItem
<1>6. asked' = asked \/ \E i \in AnyItem : PlatformAsks(i)
  BY DEF Next, vars, GbServer, GbQuery, GbResult, GbFullBatch,
         GbLastBatch, GbAnswer, MsgServerTask, McQuery, McQueryRefused, McAnswerUnknown,
         McAnswers, McAnswerEnds, McAnswerAdds, Device, DevAnswer, DevGrows,
         DevAnswersAsOther, Lose, AnyItem
<1>7. /\ Len(asked') \in {Len(asked), Len(asked) + 1}
      /\ \A sn \in 1 .. Len(asked) : asked'[sn] = asked[sn]
      /\ Len(asked') # Len(asked) => \E i \in AnyItem : PlatformAsks(i)
  <2>1. CASE \E i \in AnyItem : PlatformAsks(i)
    BY <1>5, <2>1, AppendRange DEF PlatformAsks
  <2>2. QED BY <1>6, <2>1
<1>8. PoolSuffices' => PoolSuffices
  BY <1>1, <1>2, <1>6, SufficedBefore DEF PlatformAsks
<1>9. \A i : SameTimes(i)' <=> SameTimes(i)
  BY <1>2 DEF SameTimes, Has
<1>10. SUFFICES ASSUME PoolSuffices', NEW sn \in 1 .. Len(asked'), asked'[sn] \in Item,
                       SameTimes(asked'[sn])
                PROVE  Asking(sn)' \/ Queued(sn)'
  BY <1>9 DEF Lasting
<1>11. CASE sn = Len(asked) + 1
  <2> DEFINE m(i) == [type |-> "query", sn |-> Len(asked) + 1, item |-> i]
  <2>1. PICK i \in AnyItem : PlatformAsks(i)
    BY <1>5, <1>7, <1>11
  <2>2. toMc' = Append(toMc, m(i)) /\ Len(asked) < MaxQuery
    BY <1>2, <2>1 DEF PlatformAsks
  <2>3. toMc \in Seq(QueryIn \cup AnswerIn) /\ m(i) \in QueryIn \cup AnswerIn
    <3>1. Len(asked) + 1 \in Sn
      BY <1>5, <2>2, BoundAssumption DEF Sn
    <3>2. QED BY <1>1, <3>1 DEF Sound, Messages, QueryIn
  <2>4. m(i).type = "query" /\ m(i).sn = sn
    BY <1>11
  <2> HIDE DEF m
  <2>5. Range(toMc') = Range(toMc) \cup {m(i)}
    BY <2>2, <2>3, AppendRange
  <2>6. QED BY <2>4, <2>5 DEF Asking
<1>12. CASE sn \in 1 .. Len(asked)
  <2>1. asked[sn] \in Item /\ SameTimes(asked[sn])
    BY <1>7, <1>10, <1>12
  <2>2. Asking(sn) \/ Queued(sn)
    BY <1>3, <1>8, <1>10, <1>12, <2>1 DEF Lasting
  <2>3. CASE Queued(sn)
    <3>1. PICK k \in 1 .. Len(queue) : queue[k].sn = sn
      BY <2>3 DEF Queued
    <3>2. CASE queue' = queue
      BY <3>1, <3>2 DEF Queued
    <3>3. CASE McQuery
      BY <1>1, <3>1, <3>3, EnterNoTwins DEF Queued
    <3>4. CASE \E i \in 1 .. Len(queue) : McAnswerEnds(i) \/ McAnswerAdds(i)
      <4>1. PICK i \in 1 .. Len(queue) : McAnswerEnds(i) \/ McAnswerAdds(i)
        BY <3>4
      <4>2. CASE i # k
        BY <1>1, <3>1, <4>1, <4>2, AnswerNoTwins DEF Queued
      <4>3. CASE i = k
        <5>1. SameTimes(ItemOf(k))
          BY <2>1, <3>1 DEF ItemOf
        <5>2. QED BY <1>1, <1>3, <1>4, <1>8, <1>10, <3>1, <4>1, <4>3, <5>1, TwinsStay DEF Queued
      <4>4. QED BY <4>2, <4>3
    <3>5. QED BY <3>2, <3>3, <3>4 DEF Next, vars, mc, GbServer, GbQuery, GbResult, GbFullBatch,
               GbLastBatch, GbAnswer, MsgServerTask, McQueryRefused, McAnswerUnknown,
               Device, DevAnswer, DevGrows, DevAnswersAsOther, Lose, PlatformAsks
  <2>4. CASE Asking(sn)
    <3>1. CASE McQuery
      <4>1. CASE Head(toMc).sn = sn
        BY <1>1, <3>1, <4>1, EnterNoTwins DEF Queued
      <4>2. CASE Head(toMc).sn # sn
        BY <1>1, <2>4, <3>1, <4>2, AskingStays DEF McQuery
      <4>3. QED BY <4>1, <4>2
    <3>2. CASE McQueryRefused
      <4>1. Head(toMc).sn # sn
        BY <1>1, <1>2, <2>1, <3>2, RefusedIs
      <4>2. QED BY <1>1, <2>4, <3>2, <4>1, AskingStays DEF McQueryRefused
    <3>3. CASE McAnswers
      BY <1>1, <2>4, <3>3, AskingStays DEF McAnswers, Answer
    <3>4. CASE toMc' = toMc \/ (\E i \in AnyItem : PlatformAsks(i)) \/ GbFullBatch \/ GbLastBatch
      BY <1>1, <2>4, <3>4, AskingStays
    <3>5. QED BY <3>1, <3>2, <3>3, <3>4 DEF Next, vars, GbServer, GbQuery, GbResult,
               GbAnswer, MsgServerTask, McAnswerUnknown, McAnswerEnds, McAnswerAdds,
               Device, DevAnswer, DevGrows, DevAnswersAsOther, Lose, AnyItem
  <2>5. QED BY <2>2, <2>3, <2>4
<1>13. QED BY <1>5, <1>7, <1>11, <1>12

LEMMA SettlingNext == Settling /\ [Next]_vars => Settling'
<1> SUFFICES ASSUME Settling, [Next]_vars PROVE Settling'
  OBVIOUS
<1>1. Answering'
  BY AnsweringNext DEF Settling
<1>2. Sound
  BY DEF Settling, Answering, Single, Truthful, Numbered
<1>3. NoTwins'
  <2>1. CASE UNCHANGED <<queue, rec>>
    BY <2>1 DEF Settling, NoTwins, Contents
  <2>2. CASE McQuery
    BY <1>2, <2>2, EnterNoTwins DEF Settling
  <2>3. CASE \E k \in 1 .. Len(queue) : McAnswerEnds(k) \/ McAnswerAdds(k)
    BY <1>2, <2>3, AnswerNoTwins DEF Settling
  <2>4. QED BY <2>1, <2>2, <2>3 DEF Next, vars, mc, GbServer, GbQuery, GbResult, GbFullBatch,
             GbLastBatch, GbAnswer, MsgServerTask, McQueryRefused, McAnswerUnknown,
             Device, DevAnswer, DevGrows, DevAnswersAsOther, Lose, PlatformAsks
<1>4. QED BY <1>1, <1>3, LastingNext DEF Settling

\* Without faults, and until async_msg_ctx has gone round, the queries settle
\* in one of two ways, which depends on the records alone.  Of an item whose
\* records all have different times every query that has not met a full queue
\* has left it by the time everything is quiet, and if the pool was never short
\* it was answered with exactly the records of the device, each once.  If two
\* files have one time and the pool was never short, no query for the item
\* leaves the queue again: is_same keeps the second file from the list, which
\* then never gets as long as the device's SumNum (query_record_info,
\* add_rec_info, deal_rec_list).
THEOREM QueriesSettleByTimes == Spec => []QueriesSettle
<1>1. Init => Settling
  <2>1. SUFFICES ASSUME Init PROVE Settling
    OBVIOUS
  <2>2. Answering
    BY <2>1, AnsweringInit
  <2>3. NoTwins /\ Lasting
    <3>1. queue = <<>> /\ asked = <<>>
      BY <2>1 DEF Init
    <3>2. QED BY <3>1 DEF NoTwins, Lasting
  <2>4. QED BY <2>2, <2>3 DEF Settling
<1>2. Settling => QueriesSettle
  <2>1. SUFFICES ASSUME Settling PROVE QueriesSettle
    OBVIOUS
  <2>2. DistinctTimesAnswered
    BY <2>1, DistinctTimesAreAnswered DEF Settling
  <2>3. SameTimesStay
    <3>1. ASSUME Quiet, NEW sn PROVE ~Asking(sn)
      <4>1. Range(toMc) = {}
        BY <3>1 DEF Quiet, Range
      <4>2. QED BY <4>1 DEF Asking
    <3>2. QED BY <2>1, <3>1 DEF SameTimesStay, Settling, Lasting
  <2>4. QED BY <2>2, <2>3 DEF QueriesSettle
<1>3. QED BY <1>1, <1>2, SettlingNext, PTL DEF Spec

=============================================================================
