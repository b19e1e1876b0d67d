--------------------------- MODULE CatalogueProofs ---------------------------
(***************************************************************************)
(* Proofs about Catalogue, for any devices and items, tables of any size,  *)
(* and any faults: an item has one entry in each table and is invited      *)
(* once, and when nothing fails every item gets where there is room for it *)
(* and every platform is told what query_cata_log means to tell.           *)
(***************************************************************************)
EXTENDS Catalogue, FiniteSetTheorems, SequenceTheorems, TLAPS

-----------------------------------------------------------------------------
(* Queues and tables. *)

\* A queue p of which the first message was taken ...
LEMMA TailIs ==
    ASSUME NEW S, NEW s \in Seq(S), s # <<>>, NEW p, p = Tail(s)
    PROVE  /\ p \in Seq(S) /\ Len(s) \in Nat \ {0} /\ Len(p) = Len(s) - 1
           /\ 1 \in 1 .. Len(s) /\ Head(s) = s[1] /\ s[1] \in S
           /\ \A k \in 1 .. Len(p) : k + 1 \in 1 .. Len(s) /\ p[k] = s[k + 1]
           /\ \A k \in 1 .. Len(s) : k = 1 \/ (k - 1 \in 1 .. Len(p) /\ p[k - 1] = s[k])
<1>1. /\ p \in Seq(S) /\ Len(p) = Len(s) - 1
      /\ \A k \in 1 .. Len(p) : p[k] = s[k + 1]
  BY HeadTailProperties
<1>2. Len(s) \in Nat \ {0} /\ DOMAIN s = 1 .. Len(s)
  BY EmptySeq, LenProperties
<1>3. 1 \in 1 .. Len(s) /\ Head(s) = s[1] /\ s[1] \in S
  BY <1>2, ElementOfSeq
<1>4. QED BY <1>1, <1>2, <1>3

\* ... or to which one was added.
LEMMA AppendIs ==
    ASSUME NEW S, NEW s \in Seq(S), NEW e \in S, NEW p, p = Append(s, e)
    PROVE  /\ p \in Seq(S) /\ Len(s) \in Nat /\ Len(p) = Len(s) + 1
           /\ Len(p) \in 1 .. Len(p) /\ p[Len(p)] = e
           /\ \A k \in 1 .. Len(s) : k \in 1 .. Len(p) /\ p[k] = s[k]
           /\ \A k \in 1 .. Len(p) : \/ k \in 1 .. Len(s) /\ p[k] = s[k]
                                     \/ k = Len(p) /\ p[k] = e
<1>1. /\ p \in Seq(S) /\ Len(p) = Len(s) + 1 /\ Len(s) \in Nat /\ p[Len(s) + 1] = e
      /\ \A k \in 1 .. Len(s) : p[k] = s[k]
  BY AppendProperties, LenProperties
<1>2. QED BY <1>1

\* Positions in a sequence of which the first element is taken.
LEMMA CountTail ==
    ASSUME NEW n \in Nat \ {0}, NEW I \in SUBSET (1 .. n), NEW J \in SUBSET (1 .. n - 1),
           \A k \in 1 .. n - 1 : k \in J <=> k + 1 \in I
    PROVE  /\ Cardinality(I) \in Nat /\ Cardinality(J) \in Nat
           /\ Cardinality(I) = IF 1 \in I THEN Cardinality(J) + 1 ELSE Cardinality(J)
<1>1. IsFiniteSet(1 .. n) /\ IsFiniteSet(1 .. n - 1)
  BY FS_Interval
<1>2. IsFiniteSet(I) /\ IsFiniteSet(J)
  BY <1>1, FS_Subset
<1> DEFINE f == [j \in J |-> j + 1]
<1>3. f \in Bijection(J, I \ {1})
  <2>1. f \in [J -> I \ {1}]
    OBVIOUS
  <2>2. \A a, b \in J : f[a] = f[b] => a = b
    OBVIOUS
  <2>3. \A i \in I \ {1} : \E j \in J : f[j] = i
    <3>1. ASSUME NEW i \in I \ {1} PROVE \E j \in J : f[j] = i
      <4>1. i - 1 \in 1 .. n - 1 /\ (i - 1) + 1 = i
        OBVIOUS
      <4>2. i - 1 \in J
        BY <4>1
      <4>3. f[i - 1] = i
        BY <4>1, <4>2
      <4>4. QED BY <4>2, <4>3
    <3>2. QED BY <3>1
  <2> HIDE DEF f
  <2>4. QED BY <2>1, <2>2, <2>3 DEF Bijection, Injection, Surjection, IsInjective
<1>4. Cardinality(I \ {1}) = Cardinality(J)
  BY <1>2, <1>3, FS_Bijection DEF ExistsBijection
<1>5. Cardinality(I \ {1}) = IF 1 \in I THEN Cardinality(I) - 1 ELSE Cardinality(I)
  BY <1>2, FS_RemoveElement
<1>6. Cardinality(I) \in Nat /\ Cardinality(J) \in Nat
  BY <1>2, FS_CardinalityType
<1>7. QED BY <1>4, <1>5, <1>6

\* Positions in a sequence to which an element is added.
LEMMA CountAppend ==
    ASSUME NEW n \in Nat, NEW I \in SUBSET (1 .. n), NEW J \in SUBSET (1 .. n + 1),
           \A k \in 1 .. n : k \in J <=> k \in I
    PROVE  /\ Cardinality(I) \in Nat /\ Cardinality(J) \in Nat
           /\ Cardinality(J) = IF n + 1 \in J THEN Cardinality(I) + 1 ELSE Cardinality(I)
<1>1. IsFiniteSet(1 .. n)
  BY FS_Interval
<1>2. IsFiniteSet(I)
  BY <1>1, FS_Subset
<1>3. n + 1 \notin I
  OBVIOUS
<1>4. J = IF n + 1 \in J THEN I \cup {n + 1} ELSE I
  <2>1. \A k \in J : k \in I \/ k = n + 1
    OBVIOUS
  <2>2. I \subseteq J
    OBVIOUS
  <2>3. CASE n + 1 \in J
    <3>1. J = I \cup {n + 1}
      BY <2>1, <2>2, <2>3
    <3>2. QED BY <2>3, <3>1
  <2>4. CASE n + 1 \notin J
    <3>1. J = I
      BY <2>1, <2>2, <2>4
    <3>2. QED BY <2>4, <3>1
  <2>5. QED BY <2>3, <2>4
<1>5. Cardinality(I \cup {n + 1}) = Cardinality(I) + 1
  BY <1>2, <1>3, FS_AddElement
<1>6. Cardinality(I) \in Nat
  BY <1>2, FS_CardinalityType
<1>7. QED BY <1>4, <1>5, <1>6

\* No two entries have the same id.
Distinct(s) == \A j, k \in 1 .. Len(s) : s[j].id = s[k].id => j = k

LEMMA DistinctCount ==
    ASSUME NEW S, NEW s \in Seq(S)
    PROVE  /\ IsFiniteSet(IdsIn(s)) /\ Len(s) \in Nat
           /\ Distinct(s) => Cardinality(IdsIn(s)) = Len(s)
<1>1. Len(s) \in Nat /\ 1 \in Int /\ Len(s) \in Int
  BY LenProperties
<1>2. IsFiniteSet(1 .. Len(s)) /\ Cardinality(1 .. Len(s)) = Len(s)
  BY <1>1, FS_Interval
<1> DEFINE f == [k \in 1 .. Len(s) |-> s[k].id]
<1>3. f \in Surjection(1 .. Len(s), IdsIn(s))
  BY DEF Surjection, IdsIn
<1>4. Distinct(s) => f \in Injection(1 .. Len(s), IdsIn(s))
  <2>1. Distinct(s) => \A j, k \in 1 .. Len(s) : f[j] = f[k] => j = k
    BY DEF Distinct
  <2> HIDE DEF f
  <2>2. f \in [1 .. Len(s) -> IdsIn(s)]
    BY <1>3 DEF Surjection
  <2>3. QED BY <2>1, <2>2 DEF Injection, IsInjective
<1> HIDE DEF f
<1>5. QED BY <1>1, <1>2, <1>3, <1>4, FS_Surjection

\* The ids of a table that grows ...
LEMMA IdsAppend ==
    ASSUME NEW S, NEW s \in Seq(S), NEW e \in S, NEW p, p = Append(s, e)
    PROVE  /\ IdsIn(p) = IdsIn(s) \cup {e.id}
           /\ Distinct(s) /\ e.id \notin IdsIn(s) => Distinct(p)
<1>1. /\ Len(p) \in 1 .. Len(p) /\ p[Len(p)] = e
      /\ \A k \in 1 .. Len(s) : k \in 1 .. Len(p) /\ p[k] = s[k]
      /\ \A k \in 1 .. Len(p) : \/ k \in 1 .. Len(s) /\ p[k] = s[k]
                                \/ k = Len(p) /\ p[k] = e
  BY AppendIs
<1>2. IdsIn(p) = IdsIn(s) \cup {e.id}
  BY <1>1 DEF IdsIn
<1>3. ASSUME Distinct(s), e.id \notin IdsIn(s), NEW j \in 1 .. Len(p), NEW k \in 1 .. Len(p),
             p[j].id = p[k].id
      PROVE  j = k
  <2>1. \A i \in 1 .. Len(s) : s[i].id # e.id
    BY <1>3 DEF IdsIn
  <2>2. CASE j \in 1 .. Len(s) /\ p[j] = s[j] /\ k \in 1 .. Len(s) /\ p[k] = s[k]
    BY <1>3, <2>2 DEF Distinct
  <2>3. QED BY <1>1, <1>3, <2>1, <2>2
<1>4. QED BY <1>2, <1>3 DEF Distinct

\* ... and of an answer of which the first item is taken.
LEMMA IdsTail ==
    ASSUME NEW S, NEW s \in Seq(S), s # <<>>, NEW p, p = Tail(s)
    PROVE  IdsIn(s) = {Head(s).id} \cup IdsIn(p)
<1>1. /\ 1 \in 1 .. Len(s) /\ Head(s) = s[1]
      /\ \A k \in 1 .. Len(p) : k + 1 \in 1 .. Len(s) /\ p[k] = s[k + 1]
      /\ \A k \in 1 .. Len(s) : k = 1 \/ (k - 1 \in 1 .. Len(p) /\ p[k - 1] = s[k])
  BY TailIs
<1>2. IdsIn(p) \subseteq IdsIn(s) /\ Head(s).id \in IdsIn(s)
  BY <1>1 DEF IdsIn
<1>3. ASSUME NEW i \in IdsIn(s), i # Head(s).id
      PROVE  i \in IdsIn(p)
  <2>1. PICK k \in 1 .. Len(s) : i = s[k].id
    BY DEF IdsIn
  <2>2. k - 1 \in 1 .. Len(p) /\ p[k - 1] = s[k]
    BY <1>1, <1>3, <2>1
  <2>3. QED BY <2>1, <2>2 DEF IdsIn
<1>4. QED BY <1>2, <1>3

\* A table whose entries change but not their ids.
LEMMA IdsSame ==
    ASSUME NEW s, NEW p, Len(p) = Len(s), \A k \in 1 .. Len(s) : p[k].id = s[k].id
    PROVE  IdsIn(p) = IdsIn(s) /\ (Distinct(s) => Distinct(p))
BY DEF IdsIn, Distinct

-----------------------------------------------------------------------------
(* What the operators of Catalogue return. *)

\* add_res_item leaves one entry of the item, and the others alone.
LEMMA AddResItemIs ==
    ASSUME MaxRes \in Nat, NEW c \in Seq(Item), Len(c) <= MaxRes, NEW item \in Item,
           ~NoRoom(c, item), NEW p, p = AddResItem(c, item)
    PROVE  /\ p \in Seq(Item) /\ Len(p) <= MaxRes
           /\ Len(c) <= Len(p)
           /\ IdsIn(p) = IdsIn(c) \cup {item.id}
           /\ Distinct(c) => Distinct(p)
<1>0. Len(c) \in Nat /\ \A k \in 1 .. Len(c) : c[k] \in Item
  BY LenProperties, ElementOfSeq
<1>1. CASE item.id \in IdsIn(c)
  <2>1. p = [k \in 1 .. Len(c) |-> IF c[k].id = item.id THEN item ELSE c[k]]
    BY <1>1 DEF AddResItem
  <2>2. \A k \in 1 .. Len(c) : (IF c[k].id = item.id THEN item ELSE c[k]) \in Item
    BY <1>0
  <2>3. p \in Seq(Item) /\ Len(p) = Len(c)
    BY <1>0, <2>1, <2>2, IsASeq
  <2>4. \A k \in 1 .. Len(c) : p[k].id = c[k].id
    BY <2>1
  <2>5. QED BY <1>1, <1>0, <2>3, <2>4, IdsSame
<1>2. CASE item.id \notin IdsIn(c)
  <2>1. p = Append(c, item) /\ Len(c) # MaxRes
    BY <1>2 DEF AddResItem, NoRoom
  <2>2. p \in Seq(Item) /\ Len(p) = Len(c) + 1
    BY <2>1, AppendIs
  <2>3. IdsIn(p) = IdsIn(c) \cup {item.id} /\ (Distinct(c) => Distinct(p))
    <3>1. Distinct(c) /\ item.id \notin IdsIn(c) => Distinct(p)
      BY <2>1, IdsAppend
    <3>2. /\ Len(p) \in 1 .. Len(p) /\ p[Len(p)] = item
          /\ \A k \in 1 .. Len(c) : k \in 1 .. Len(p) /\ p[k] = c[k]
          /\ \A k \in 1 .. Len(p) : \/ k \in 1 .. Len(c) /\ p[k] = c[k]
                                    \/ k = Len(p) /\ p[k] = item
      BY <2>1, AppendIs
    <3>3. IdsIn(p) = IdsIn(c) \cup {item.id}
      BY <3>2 DEF IdsIn
    <3>4. QED BY <1>2, <3>1, <3>3
  <2>4. QED BY <1>0, <2>1, <2>2, <2>3
<1>3. QED BY <1>1, <1>2

Plays(t, i) == \E k \in 1 .. Len(t) : t[k].id = i /\ t[k].play
AllReal(q) == \A k \in 1 .. Len(q) : q[k].on = status[q[k].id]

\* An entry behind the others.
LEMMA EntryAppended ==
    ASSUME NEW t \in Seq(Entry), NEW e \in Entry, NEW p, p = Append(t, e)
    PROVE  IdsIn(p) = IdsIn(t) \cup {e.id}
<1>1. /\ Len(p) \in 1 .. Len(p) /\ p[Len(p)] = e
      /\ \A k \in 1 .. Len(t) : k \in 1 .. Len(p) /\ p[k] = t[k]
      /\ \A k \in 1 .. Len(p) : \/ k \in 1 .. Len(t) /\ p[k] = t[k]
                                \/ k = Len(p) /\ p[k] = e
  BY AppendIs
<1>2. QED BY <1>1 DEF IdsIn

\* CResouceItem::add adds an entry that does not play, or nothing: then the
\* item is known or the table is full.
LEMMA AddItemIs ==
    ASSUME MaxItem \in Nat, NEW t \in Seq(Entry), Len(t) <= MaxItem, NEW item \in Item,
           NEW p, p = AddItem(t, item)
    PROVE  /\ p \in Seq(Entry) /\ Len(p) <= MaxItem
           /\ IdsIn(t) \subseteq IdsIn(p) /\ IdsIn(p) \subseteq IdsIn(t) \cup {item.id}
           /\ item.id \in IdsIn(p) \/ Len(p) = MaxItem
           /\ Len(t) = MaxItem => Len(p) = MaxItem
           /\ Distinct(t) => Distinct(p)
           /\ p # t => item.id \notin IdsIn(t) /\ item.id \in IdsIn(p)
           /\ \A i : Plays(p, i) <=> Plays(t, i)
           /\ AllReal(t) /\ item.on = status[item.id] => AllReal(p)
<1>1. CASE item.id \in IdsIn(t) \/ Len(t) = MaxItem
  BY <1>1 DEF AddItem
<1>2. CASE item.id \notin IdsIn(t) /\ Len(t) # MaxItem
  <2>1. PICK e \in Entry : /\ e = NewEntry(item)
                           /\ e.id = item.id /\ e.on = item.on /\ e.play = FALSE
    <3>1. NewEntry(item) \in Entry
      BY DEF NewEntry, Entry, Item
    <3>2. QED BY <3>1 DEF NewEntry
  <2>2. p = Append(t, e)
    BY <1>2, <2>1 DEF AddItem
  <2>3. /\ p \in Seq(Entry) /\ Len(t) \in Nat /\ Len(p) = Len(t) + 1
        /\ \A k \in 1 .. Len(t) : k \in 1 .. Len(p) /\ p[k] = t[k]
        /\ \A k \in 1 .. Len(p) : \/ k \in 1 .. Len(t) /\ p[k] = t[k]
                                  \/ k = Len(p) /\ p[k] = e
    BY <2>1, <2>2, AppendIs
  <2>4. IdsIn(p) = IdsIn(t) \cup {item.id} /\ (Distinct(t) => Distinct(p))
    <3>1. Distinct(t) /\ e.id \notin IdsIn(t) => Distinct(p)
      BY <2>1, <2>2, IdsAppend
    <3>2. t \in Seq(Entry) /\ e \in Entry /\ p = Append(t, e)
      BY <2>2
    <3>3. IdsIn(p) = IdsIn(t) \cup {e.id}
      BY <3>2, EntryAppended
    <3>4. QED BY <1>2, <2>1, <3>1, <3>3
  <2>5. \A i : Plays(p, i) <=> Plays(t, i)
    BY <2>1, <2>3 DEF Plays
  <2>6. AllReal(t) /\ item.on = status[item.id] => AllReal(p)
    BY <2>1, <2>3 DEF AllReal
  <2>7. Len(p) <= MaxItem
    BY <1>2, <2>3
  <2>8. QED BY <1>2, <2>3, <2>4, <2>5, <2>6, <2>7
<1>3. QED BY <1>1, <1>2

\* The ids of a table but the last of an odd number.
AllButLast(t) == IdsIn(SubSeq(t, 1, 2 * (Len(t) \div 2)))

LEMMA AllButLastIs ==
    ASSUME NEW S, NEW t \in Seq(S)
    PROVE  AllButLast(t) = {t[j].id : j \in 1 .. 2 * (Len(t) \div 2)}
<1> DEFINE m == 2 * (Len(t) \div 2)
<1>1. Len(t) \in Nat /\ m \in 0 .. Len(t)
  BY LenProperties
<1>2. \A j \in 1 .. m : t[j] \in S
  BY <1>1, ElementOfSeq
<1>3. Len(SubSeq(t, 1, m)) = m /\ \A j \in 1 .. m : SubSeq(t, 1, m)[j] = t[j]
  BY <1>1, <1>2, SubSeqProperties
<1> HIDE DEF m
<1>4. IdsIn(SubSeq(t, 1, m)) = {t[j].id : j \in 1 .. m}
  BY <1>3 DEF IdsIn
<1>5. QED BY <1>4 DEF AllButLast, m

LEMMA FewIds ==
    /\ IdsIn(<<>>) = {}
    /\ \A a : IdsIn(<<a>>) = {a.id}
    /\ \A a, b : IdsIn(<<a, b>>) = {a.id, b.id}
<1>1. IdsIn(<<>>) = {}
  BY DEF IdsIn
<1>2. ASSUME NEW a
      PROVE  IdsIn(<<a>>) = {a.id}
  <2>1. Len(<<a>>) = 1 /\ <<a>>[1] = a /\ \A k \in 1 .. 1 : k = 1
    OBVIOUS
  <2>2. QED BY <2>1 DEF IdsIn
<1>3. ASSUME NEW a, NEW b
      PROVE  IdsIn(<<a, b>>) = {a.id, b.id}
  <2>1. /\ Len(<<a, b>>) = 2 /\ <<a, b>>[1] = a /\ <<a, b>>[2] = b
        /\ \A k \in 1 .. 2 : k = 1 \/ k = 2
        /\ 1 \in 1 .. 2 /\ 2 \in 1 .. 2
    OBVIOUS
  <2>2. \A k \in 1 .. 2 : <<a, b>>[k].id = a.id \/ <<a, b>>[k].id = b.id
    BY <2>1
  <2>3. QED BY <2>1, <2>2 DEF IdsIn
<1>4. QED BY <1>1, <1>2, <1>3

\* query_cata_log: the items two by two are all but the last of an odd number;
\* what is sent once more for an even number tells nothing else.
LEMMA ListsAre ==
    ASSUME NEW t \in Seq(Entry), NEW p, p = Lists(t)
    PROVE  /\ p \in Seq(Seq(Entry))
           /\ UNION {IdsIn(p[k]) : k \in 1 .. Len(p)} = AllButLast(t)
<1>0. PICK n \in Nat : n = Len(t)
  BY LenProperties
<1>1. PICK h \in Nat : h = n \div 2 /\ 2 * h <= n /\ (n % 2 = 0 => n = 2 * h)
  BY <1>0
<1>2. \A j \in 1 .. n : t[j] \in Entry
  BY <1>0, ElementOfSeq
<1>3. AllButLast(t) = {t[j].id : j \in 1 .. 2 * h}
  BY <1>0, <1>1, AllButLastIs
<1> DEFINE pair(k) == <<t[2 * k - 1], t[2 * k]>>
           pairs == [k \in 1 .. h |-> pair(k)]
<1>4. \A k \in 1 .. h : pair(k) \in Seq(Entry) /\ IdsIn(pair(k)) = {t[2 * k - 1].id, t[2 * k].id}
  <2>1. TAKE k \in 1 .. h
  <2>2. 2 * k - 1 \in 1 .. n /\ 2 * k \in 1 .. n
    BY <1>1
  <2>3. t[2 * k - 1] \in Entry /\ t[2 * k] \in Entry
    BY <1>2, <2>2
  <2>4. QED BY <2>3, FewIds
<1> HIDE DEF pair
<1>5. pairs \in Seq(Seq(Entry)) /\ Len(pairs) = h /\ \A k \in 1 .. h : pairs[k] = pair(k)
  BY <1>4, IsASeq
<1> HIDE DEF pairs
<1>6. UNION {IdsIn(pairs[k]) : k \in 1 .. h} = AllButLast(t)
  <2>1. ASSUME NEW k \in 1 .. h
        PROVE  IdsIn(pairs[k]) \subseteq AllButLast(t)
    <3>1. 2 * k - 1 \in 1 .. 2 * h /\ 2 * k \in 1 .. 2 * h
      OBVIOUS
    <3>2. \A j \in 1 .. 2 * h : t[j].id \in AllButLast(t)
      BY <1>3
    <3>3. t[2 * k - 1].id \in AllButLast(t) /\ t[2 * k].id \in AllButLast(t)
      BY <3>1, <3>2
    <3>4. IdsIn(pairs[k]) = {t[2 * k - 1].id, t[2 * k].id}
      BY <1>4, <1>5
    <3>5. QED BY <3>3, <3>4
  <2>2. ASSUME NEW j \in 1 .. 2 * h
        PROVE  \E k \in 1 .. h : t[j].id \in IdsIn(pairs[k])
    <3>1. PICK k \in 1 .. h : j = 2 * k - 1 \/ j = 2 * k
      <4>1. (j + 1) \div 2 \in 1 .. h /\ (j = 2 * ((j + 1) \div 2) - 1 \/ j = 2 * ((j + 1) \div 2))
        OBVIOUS
      <4>2. QED BY <4>1
    <3>2. QED BY <1>4, <1>5, <3>1
  <2>3. AllButLast(t) \subseteq UNION {IdsIn(pairs[k]) : k \in 1 .. h}
    BY <1>3, <2>2
  <2>4. UNION {IdsIn(pairs[k]) : k \in 1 .. h} \subseteq AllButLast(t)
    BY <2>1
  <2>5. QED BY <2>3, <2>4
<1>7. CASE n = 0
  <2>1. p = <<(<<>>)>>
    BY <1>0, <1>7 DEF Lists
  <2>2. AllButLast(t) = {}
    BY <1>1, <1>3, <1>7
  <2>3. \A k \in 1 .. Len(p) : IdsIn(p[k]) = {}
    <3>1. Len(p) = 1 /\ p[1] = <<>>
      BY <2>1
    <3>2. QED BY <3>1, FewIds
  <2>4. <<>> \in Seq(Entry)
    BY EmptySeq
  <2>5. p \in Seq(Seq(Entry))
    BY <2>1, <2>4
  <2>6. QED BY <2>2, <2>3, <2>5
<1>8. CASE n # 0 /\ n % 2 # 0
  <2>1. p = pairs
    BY <1>0, <1>1, <1>8 DEF Lists, pairs, pair
  <2>2. QED BY <1>5, <1>6, <2>1
<1>9. CASE n # 0 /\ n % 2 = 0
  <2>1. p = Append(pairs, <<t[n - 1]>>)
    BY <1>0, <1>1, <1>9 DEF Lists, pairs, pair
  <2>2. n - 1 \in 1 .. n /\ n - 1 \in 1 .. 2 * h
    BY <1>1, <1>9
  <2>3. <<t[n - 1]>> \in Seq(Entry) /\ IdsIn(<<t[n - 1]>>) = {t[n - 1].id}
    BY <1>2, <2>2, FewIds
  <2>4. PICK e \in Seq(Entry) : e = <<t[n - 1]>> /\ IdsIn(e) \subseteq AllButLast(t)
    BY <1>3, <2>2, <2>3
  <2>5. /\ p \in Seq(Seq(Entry))
        /\ \A k \in 1 .. h : k \in 1 .. Len(p) /\ p[k] = pairs[k]
        /\ \A k \in 1 .. Len(p) : (k \in 1 .. h /\ p[k] = pairs[k]) \/ p[k] = e
    BY <1>5, <2>1, <2>4, AppendIs
  <2>6. UNION {IdsIn(p[k]) : k \in 1 .. Len(p)} \subseteq AllButLast(t)
    BY <1>6, <2>4, <2>5
  <2>7. AllButLast(t) \subseteq UNION {IdsIn(p[k]) : k \in 1 .. Len(p)}
    BY <1>6, <2>5
  <2>8. QED BY <2>5, <2>6, <2>7
<1>10. QED BY <1>7, <1>8, <1>9

\* ... and the messages that they are sent in.
LEMMA MessagesAre ==
    ASSUME NEW t \in Seq(Entry), NEW sn \in Sn, NEW p, p = CatalogMsgs(sn, t)
    PROVE  /\ p \in Seq(ToGbMsg)
           /\ \A k \in 1 .. Len(p) : p[k].type = "catalog" /\ p[k].sn = sn
           /\ UNION {IdsIn(p[k].list) : k \in 1 .. Len(p)} = AllButLast(t)
<1>1. PICK q \in Seq(Seq(Entry)) :
         /\ q = Lists(t)
         /\ UNION {IdsIn(q[k]) : k \in 1 .. Len(q)} = AllButLast(t)
  BY ListsAre
<1>2. Len(q) \in Nat /\ \A k \in 1 .. Len(q) : q[k] \in Seq(Entry)
  BY LenProperties, ElementOfSeq
<1> DEFINE list(k) == [j \in 1 .. Len(q[k]) |-> Item2Told(q[k][j])]
           msg(k) == [type |-> "catalog", sn |-> sn, list |-> list(k)]
<1>3. \A k \in 1 .. Len(q) : list(k) \in Seq(Item) /\ IdsIn(list(k)) = IdsIn(q[k])
  <2>1. TAKE k \in 1 .. Len(q)
  <2>2. Len(q[k]) \in Nat /\ \A j \in 1 .. Len(q[k]) : q[k][j] \in Entry
    BY <1>2, LenProperties, ElementOfSeq
  <2>3. ASSUME NEW j \in 1 .. Len(q[k])
        PROVE  Item2Told(q[k][j]) \in Item /\ Item2Told(q[k][j]).id = q[k][j].id
    <3>1. PICK e \in Entry : e = q[k][j]
      BY <2>2
    <3>2. Item2Told(e) \in Item /\ Item2Told(e).id = e.id
      BY DEF Entry, Item, Item2Told
    <3>3. QED BY <3>1, <3>2
  <2>4. list(k) \in Seq(Item) /\ Len(list(k)) = Len(q[k])
    BY <2>2, <2>3, IsASeq
  <2>5. QED BY <2>3, <2>4, IdsSame
<1> HIDE DEF list
<1>4. \A k \in 1 .. Len(q) : msg(k) \in ToGbMsg
  BY <1>3 DEF ToGbMsg
<1>5. p = [k \in 1 .. Len(q) |-> msg(k)]
  BY <1>1 DEF CatalogMsgs, list
<1>6. p \in Seq(ToGbMsg) /\ Len(p) = Len(q)
  BY <1>2, <1>4, <1>5, IsASeq
<1>7. \A k \in 1 .. Len(p) : p[k].type = "catalog" /\ p[k].sn = sn /\ IdsIn(p[k].list) = IdsIn(q[k])
  BY <1>3, <1>5, <1>6
<1>8. {IdsIn(p[k].list) : k \in 1 .. Len(p)} = {IdsIn(q[k]) : k \in 1 .. Len(q)}
  BY <1>6, <1>7
<1>9. UNION {IdsIn(p[k].list) : k \in 1 .. Len(p)} = AllButLast(t)
  BY <1>1, <1>8
<1>10. QED BY <1>6, <1>7, <1>9

-----------------------------------------------------------------------------
(* Types, and the bound on the platforms' queries. *)

Typed == TypeOK /\ Asked <= MaxQuery

LEMMA QueriesTail ==
    ASSUME NEW S, toMc \in Seq(S), toMc # <<>>, toMc' = Tail(toMc)
    PROVE  /\ Cardinality(Queries) \in Nat /\ Cardinality(Queries') \in Nat
           /\ Cardinality(Queries) = IF Head(toMc).type = "query" THEN Cardinality(Queries') + 1
                                     ELSE Cardinality(Queries')
<1>1. PICK n \in Nat \ {0} : n = Len(toMc)
  BY EmptySeq
<1>2. PICK I \in SUBSET (1 .. n) : I = Queries
  BY <1>1 DEF Queries
<1>3. /\ Len(toMc') = n - 1 /\ Head(toMc) = toMc[1] /\ 1 \in 1 .. n
      /\ \A k \in 1 .. n - 1 : k + 1 \in 1 .. n /\ toMc'[k] = toMc[k + 1]
  BY <1>1, TailIs
<1>4. PICK J \in SUBSET (1 .. n - 1) : J = Queries'
  BY <1>3 DEF Queries
<1>5. \A k \in 1 .. n - 1 : k \in J <=> k + 1 \in I
  BY <1>1, <1>2, <1>3, <1>4 DEF Queries
<1>6. 1 \in I <=> Head(toMc).type = "query"
  BY <1>1, <1>2, <1>3 DEF Queries
<1>7. QED BY <1>2, <1>4, <1>5, <1>6, CountTail

LEMMA QueriesAppend ==
    ASSUME NEW S, toMc \in Seq(S), NEW m \in S, toMc' = Append(toMc, m)
    PROVE  /\ Cardinality(Queries) \in Nat /\ Cardinality(Queries') \in Nat
           /\ Cardinality(Queries') = IF m.type = "query" THEN Cardinality(Queries) + 1
                                      ELSE Cardinality(Queries)
<1>1. PICK n \in Nat : n = Len(toMc)
  BY LenProperties
<1>2. PICK I \in SUBSET (1 .. n) : I = Queries
  BY <1>1 DEF Queries
<1>3. /\ Len(toMc') = n + 1 /\ toMc'[n + 1] = m
      /\ \A k \in 1 .. n : toMc'[k] = toMc[k]
  BY <1>1, AppendIs
<1>4. PICK J \in SUBSET (1 .. n + 1) : J = Queries'
  BY <1>3 DEF Queries
<1>5. \A k \in 1 .. n : k \in J <=> k \in I
  BY <1>1, <1>2, <1>3, <1>4 DEF Queries
<1>6. n + 1 \in J <=> m.type = "query"
  BY <1>1, <1>3, <1>4 DEF Queries
<1>7. QED BY <1>2, <1>4, <1>5, <1>6, CountAppend

LEMMA QueriesCount ==
    ASSUME NEW S, toMc \in Seq(S)
    PROVE  Cardinality(Queries) \in Nat
<1>1. PICK n \in Nat : n = Len(toMc)
  BY LenProperties
<1>2. 1 \in Int /\ n \in Int /\ Queries \in SUBSET (1 .. n)
  BY <1>1 DEF Queries
<1>3. IsFiniteSet(1 .. n)
  BY <1>2, FS_Interval
<1>4. IsFiniteSet(Queries)
  BY <1>2, <1>3, FS_Subset
<1>5. QED BY <1>4, FS_CardinalityType

LEMMA TypedInit == Init => Typed
<1> SUFFICES ASSUME Init PROVE Typed
  OBVIOUS
<1> USE SizesAssumption, BoundsAssumption
<1>1. <<>> \in Seq(Item) /\ <<>> \in Seq(ToMcMsg) /\ <<>> \in Seq(ToGbMsg) /\ <<>> \in Seq(Entry)
      /\ <<>> \in Seq(Seq(Entry)) /\ <<>> \in Seq(Seq(Item))
  BY EmptySeq
<1>2. TypeOK
  BY <1>1 DEF Init, TypeOK
<1>3. Queries = {}
  BY DEF Init, Queries
<1>4. Cardinality(Queries) = 0
  BY <1>3, FS_EmptySet
<1>5. Asked <= MaxQuery
  BY <1>4 DEF Init, Asked
<1>6. QED BY <1>2, <1>5 DEF Typed

\* Registration and the devices leave the message centre's variables alone.
Centre == <<toMc, toGb, table, answered, told, invited, raced>>

LEMMA DeviceTyped ==
    ASSUME Typed, UNCHANGED Centre,
           RegisterRefused \/ (\E d \in Dev : Register(d)) \/ GbSchedule \/ Device \/ Lose
             \/ (\E i \in Id : Switch(i)) \/ (\E a \in fromDev : GbCatalogAnswer(a))
    PROVE  Typed'
<1>0. /\ MaxRegDev \in Nat /\ MaxReg \in Nat /\ MaxFault \in Nat
      /\ \A n \in 0 .. MaxFault : n < MaxFault => n + 1 \in 0 .. MaxFault
      /\ \A n \in 0 .. MaxReg : n < MaxReg => n + 1 \in 0 .. MaxReg
  BY SizesAssumption, BoundsAssumption
<1> DEFINE Rest == /\ cat \in Seq(Item) /\ Len(cat) <= MaxRes
                   /\ toMc \in Seq(ToMcMsg) /\ toGb \in Seq(ToGbMsg)
                   /\ table \in Seq(Entry) /\ Len(table) <= MaxItem
                   /\ answered \in Seq(Seq(Entry)) /\ Len(answered) <= MaxQuery
                   /\ told \in [Sn -> Seq(Seq(Item))]
                   /\ invited \in [Id -> Nat] /\ raced \subseteq Id
           Mine == /\ DOMAIN regs \subseteq Dev /\ \A d \in DOMAIN regs : regs[d] \in BOOLEAN
                   /\ count \in 0 .. MaxRegDev
                   /\ toDev \subseteq Dev /\ fromDev \subseteq Seq(Item)
                   /\ status \in [Id -> BOOLEAN] /\ rest \in Seq(Item)
                   /\ requests \in 0 .. MaxReg /\ faults \in 0 .. MaxFault
<1>1. TypeOK <=> Mine /\ Rest
  BY DEF TypeOK
<1>2. TypeOK' <=> Mine' /\ Rest'
  BY DEF TypeOK
<1>3. Mine /\ Rest
  BY <1>1 DEF Typed
<1>4. cat' = cat
  BY DEF RegisterRefused, Register, GbSchedule, Device, DevAnswer, Lose, Switch, GbCatalogAnswer, gb
<1>5. Rest'
  BY <1>3, <1>4 DEF Centre
<1>6. Mine'
  <2> HIDE DEF Rest
  <2> USE <1>0, <1>3
  <2>1. CASE RegisterRefused
    BY <2>1 DEF RegisterRefused, NoFault, gb
  <2>2. ASSUME NEW d \in Dev, Register(d) PROVE Mine'
    BY <2>2 DEF Register, NoFault, Registered
  <2>3. CASE GbSchedule
    <3>1. PICK failed \in SUBSET {d \in DOMAIN regs : ~regs[d]} :
             /\ IF failed = {} THEN NoFault ELSE Fault("sendto")
             /\ toDev' = toDev \cup Queried(failed)
             /\ regs' = [d \in DOMAIN regs |-> regs[d] \/ d \in Queried(failed)]
             /\ UNCHANGED <<count, fromDev, status, rest, requests>>
      BY <2>3 DEF GbSchedule
    <3>2. Queried(failed) \subseteq DOMAIN regs
      BY DEF Queried
    <3>3. faults' \in 0 .. MaxFault
      BY <3>1 DEF NoFault, Fault
    <3>4. DOMAIN regs' = DOMAIN regs /\ \A d \in DOMAIN regs' : regs'[d] \in BOOLEAN
      BY <3>1
    <3>5. QED BY <3>1, <3>2, <3>3, <3>4
  <2>4. ASSUME NEW d \in toDev, DevAnswer(d) PROVE Mine'
    <3> DEFINE item(k) == [id |-> ItemsOf[d][k], on |-> status[ItemsOf[d][k]]]
               a == [k \in 1 .. Len(ItemsOf[d]) |-> item(k)]
    <3>1. d \in Dev
      OBVIOUS
    <3>2. ItemsOf[d] \in Seq(Range(ItemsOf[d])) /\ Range(ItemsOf[d]) \subseteq Id
      BY <3>1, DevAssumption DEF Id
    <3>3. \A k \in 1 .. Len(ItemsOf[d]) : item(k) \in Item
      <4>1. TAKE k \in 1 .. Len(ItemsOf[d])
      <4>2. ItemsOf[d][k] \in Id
        BY <3>2, ElementOfSeq
      <4>3. status[ItemsOf[d][k]] \in BOOLEAN
        BY <4>2
      <4>4. QED BY <4>2, <4>3 DEF Item
    <3>4. Len(ItemsOf[d]) \in Nat
      BY <3>2, LenProperties
    <3>5. a \in Seq(Item)
      <4> HIDE DEF item
      <4>1. QED BY <3>3, <3>4, IsASeq
    <3>6. fromDev' = fromDev \cup {a} /\ toDev' \subseteq toDev /\ faults' \in 0 .. MaxFault
      BY <2>4 DEF DevAnswer, NoFault, Fault
    <3>7. UNCHANGED <<regs, count, status, rest, requests>>
      BY <2>4 DEF DevAnswer, gb
    <3> HIDE DEF a
    <3>8. QED BY <3>5, <3>6, <3>7
  <2>5. CASE Lose
    BY <2>5 DEF Lose, Fault, gb
  <2>6. ASSUME NEW i \in Id, Switch(i) PROVE Mine'
    <3>1. status' \in [Id -> BOOLEAN]
      BY <2>6 DEF Switch
    <3>2. UNCHANGED <<regs, count, toDev, fromDev, rest, requests>> /\ faults' \in 0 .. MaxFault
      BY <2>6 DEF Switch, Fault, gb
    <3>3. QED BY <3>1, <3>2
  <2>7. ASSUME NEW a \in fromDev, GbCatalogAnswer(a) PROVE Mine'
    BY <2>7 DEF GbCatalogAnswer, NoFault, Fault
  <2>8. QED BY <2>1, <2>2, <2>3, <2>4, <2>5, <2>6, <2>7 DEF Device
<1>7. Asked' = Asked
  BY DEF Asked, Queries, Centre
<1>8. QED BY <1>2, <1>5, <1>6, <1>7 DEF Typed

\* The faults stay within their bound.
LEMMA FaultsBound ==
    ASSUME faults \in 0 .. MaxFault, NoFault \/ \E f \in Faults : Fault(f)
    PROVE  faults' \in 0 .. MaxFault /\ (faults' = 0 => faults = 0 /\ NoFault)
<1>1. MaxFault \in Nat
  BY BoundsAssumption
<1>2. QED BY <1>1 DEF NoFault, Fault

\* What GbAddItem does.
LEMMA GbAddItemIs ==
    ASSUME TypeOK, GbAddItem
    PROVE  /\ rest # <<>> /\ Head(rest) \in Item
           /\ UNCHANGED <<regs, count, toDev, fromDev, status, toGb, table, answered, told,
                          invited, raced, requests>>
           /\ \/ /\ NoRoom(cat, Head(rest)) /\ rest' = <<>>
                 /\ NoFault /\ UNCHANGED <<cat, toMc>>
              \/ /\ ~NoRoom(cat, Head(rest)) /\ rest' = Tail(rest)
                 /\ cat' = AddResItem(cat, Head(rest))
                 /\ \/ \E m \in ToMcMsg : /\ m.type = "item" /\ m.item = Head(rest)
                                          /\ toMc' = Append(toMc, m) /\ NoFault
                    \/ toMc' = toMc /\ Fault("sendto")
<1>1. rest # <<>>
  BY DEF GbAddItem
<1>2. PICK item \in Item : item = Head(rest)
  BY <1>1, TailIs DEF TypeOK
<1>3. PICK m \in ToMcMsg : m = [type |-> "item", item |-> item] /\ m.type = "item" /\ m.item = item
  <2>1. [type |-> "item", item |-> item] \in ToMcMsg
    BY DEF ToMcMsg
  <2>2. QED BY <2>1
<1>4. QED BY <1>1, <1>2, <1>3 DEF GbAddItem

LEMMA GbAddItemTyped ==
    ASSUME Typed, GbAddItem
    PROVE  Typed'
<1>0. MaxRes \in Nat
  BY SizesAssumption
<1>1. TypeOK /\ Asked <= MaxQuery
  BY DEF Typed
<1>2. PICK item \in Item : item = Head(rest)
  BY <1>1, GbAddItemIs
<1>3. faults' \in 0 .. MaxFault
  BY <1>1, FaultsBound DEF GbAddItem, Fault, TypeOK
<1>4. rest' \in Seq(Item)
  <2>1. <<>> \in Seq(Item)
    BY EmptySeq
  <2>2. QED BY <1>1, <2>1, GbAddItemIs, TailIs DEF TypeOK
<1>5. cat' \in Seq(Item) /\ Len(cat') <= MaxRes
  <2>1. CASE cat' = cat
    BY <1>1, <2>1 DEF TypeOK
  <2>2. CASE ~NoRoom(cat, item) /\ cat' = AddResItem(cat, item)
    BY <1>0, <1>1, <2>2, AddResItemIs DEF TypeOK
  <2>3. QED BY <1>1, <1>2, <2>1, <2>2, GbAddItemIs
<1>6. toMc' \in Seq(ToMcMsg) /\ Asked' = Asked
  <2>1. CASE toMc' = toMc
    BY <1>1, <2>1, GbAddItemIs DEF TypeOK, Asked, Queries
  <2>2. ASSUME NEW m \in ToMcMsg, m.type = "item", toMc' = Append(toMc, m)
        PROVE  toMc' \in Seq(ToMcMsg) /\ Asked' = Asked
    <3>1. toMc \in Seq(ToMcMsg) /\ m \in ToMcMsg /\ toMc' = Append(toMc, m)
      BY <1>1, <2>2 DEF TypeOK
    <3>2. toMc' \in Seq(ToMcMsg)
      BY <3>1, AppendIs
    <3>3. Cardinality(Queries') = Cardinality(Queries)
      BY <2>2, <3>1, QueriesAppend
    <3>4. QED BY <1>1, <3>2, <3>3, GbAddItemIs DEF Asked
  <2>3. QED BY <1>1, <2>1, <2>2, GbAddItemIs
<1>7. UNCHANGED <<regs, count, toDev, fromDev, status, toGb, table, answered, told, invited,
                  raced, requests>>
  BY <1>1, GbAddItemIs
<1>8. QED BY <1>1, <1>3, <1>4, <1>5, <1>6, <1>7 DEF Typed, TypeOK

LEMMA PlatformAsksTyped ==
    ASSUME Typed, PlatformAsks
    PROVE  Typed'
<1>1. TypeOK /\ Asked <= MaxQuery
  BY DEF Typed
<1>2. PICK m \in ToMcMsg : m = [type |-> "query"] /\ m.type = "query"
  <2>1. [type |-> "query"] \in ToMcMsg
    BY DEF ToMcMsg
  <2>2. QED BY <2>1
<1>3. toMc \in Seq(ToMcMsg) /\ m \in ToMcMsg /\ toMc' = Append(toMc, m)
  BY <1>1, <1>2 DEF TypeOK, PlatformAsks
<1>4. toMc' \in Seq(ToMcMsg)
  BY <1>3, AppendIs
<1>5. Cardinality(Queries') = Cardinality(Queries) + 1 /\ Cardinality(Queries) \in Nat
  BY <1>2, <1>3, QueriesAppend
<1>6. answered' = answered /\ Len(answered) \in Nat
  BY <1>1, LenProperties DEF TypeOK, PlatformAsks
<1>7. Asked' <= MaxQuery
  BY <1>5, <1>6, BoundsAssumption DEF Asked, PlatformAsks
<1>8. UNCHANGED <<regs, count, cat, rest, toDev, fromDev, status, toGb, table, answered, told,
                  invited, raced, requests, faults>>
  BY DEF PlatformAsks, gb, NoFault
<1>9. QED BY <1>1, <1>4, <1>7, <1>8 DEF Typed, TypeOK

\* The two kinds of messages to the GB server.
LEMMA ToGbMsgIs ==
    ASSUME NEW m \in ToGbMsg
    PROVE  /\ m.type = "invite" \/ m.type = "catalog"
           /\ m.type = "invite" => m.id \in Id
           /\ m.type = "catalog" => m.sn \in Sn /\ m.list \in Seq(Item)
BY DEF ToGbMsg

LEMMA GbInviteTyped ==
    ASSUME Typed, GbInvite
    PROVE  Typed'
<1>1. TypeOK /\ Asked <= MaxQuery
  BY DEF Typed
<1>2. toGb # <<>> /\ toGb' = Tail(toGb) /\ toGb \in Seq(ToGbMsg)
  BY <1>1 DEF GbInvite, TypeOK
<1>3. PICK i \in Id : i = Head(toGb).id
  BY <1>2, TailIs, ToGbMsgIs DEF GbInvite
<1>4. toGb' \in Seq(ToGbMsg)
  BY <1>2, TailIs
<1>5. invited' \in [Id -> Nat]
  BY <1>1, <1>3 DEF GbInvite, TypeOK
<1>6. UNCHANGED <<regs, count, cat, rest, toDev, fromDev, status, toMc, table, answered, told,
                  raced, requests, faults>>
  BY DEF GbInvite, gb, NoFault
<1>7. Asked' = Asked
  BY <1>6 DEF Asked, Queries
<1>8. QED BY <1>1, <1>4, <1>5, <1>6, <1>7 DEF Typed, TypeOK

LEMMA GbCatalogReplyTyped ==
    ASSUME Typed, GbCatalogReply
    PROVE  Typed'
<1>1. TypeOK /\ Asked <= MaxQuery
  BY DEF Typed
<1>2. toGb # <<>> /\ toGb' = Tail(toGb) /\ toGb \in Seq(ToGbMsg)
  BY <1>1 DEF GbCatalogReply, TypeOK
<1>3. PICK m \in ToGbMsg : m = Head(toGb) /\ m.type = "catalog"
  BY <1>2, TailIs DEF GbCatalogReply
<1>4. toGb' \in Seq(ToGbMsg)
  BY <1>2, TailIs
<1>5. told' \in [Sn -> Seq(Seq(Item))]
  <2>1. PICK sn \in Sn, list \in Seq(Item) : sn = m.sn /\ list = m.list
    BY <1>3, ToGbMsgIs
  <2>2. told[sn] \in Seq(Seq(Item))
    BY <1>1 DEF TypeOK
  <2>3. Append(told[sn], list) \in Seq(Seq(Item))
    BY <2>2, AppendProperties
  <2>4. told' = [told EXCEPT ![sn] = Append(told[sn], list)]
    BY <1>3, <2>1 DEF GbCatalogReply
  <2>5. QED BY <1>1, <2>3, <2>4 DEF TypeOK
<1>6. UNCHANGED <<regs, count, cat, rest, toDev, fromDev, status, toMc, table, answered, invited,
                  raced, requests, faults>>
  BY DEF GbCatalogReply, gb, NoFault
<1>7. Asked' = Asked
  BY <1>6 DEF Asked, Queries
<1>8. QED BY <1>1, <1>4, <1>5, <1>6, <1>7 DEF Typed, TypeOK

\* What adding an item to the device table does, in either order of the threads.
LEMMA TableTyped ==
    ASSUME TypeOK, toMc # <<>>, Head(toMc).type = "item"
    PROVE  /\ Head(toMc).item \in Item
           /\ AddItem(table, Head(toMc).item) \in Seq(Entry)
           /\ Len(AddItem(table, Head(toMc).item)) <= MaxItem
           /\ Tail(toMc) \in Seq(ToMcMsg)
<1>1. PICK m \in ToMcMsg : m = Head(toMc)
  BY TailIs DEF TypeOK
<1>2. m.item \in Item
  BY <1>1 DEF ToMcMsg
<1>3. MaxItem \in Nat
  BY SizesAssumption
<1>4. QED BY <1>1, <1>2, <1>3, AddItemIs, TailIs DEF TypeOK

LEMMA McAddItemTyped ==
    ASSUME Typed, McAddItem
    PROVE  Typed'
<1>1. TypeOK /\ Asked <= MaxQuery
  BY DEF Typed
<1>2. toMc # <<>> /\ toMc' = Tail(toMc) /\ toMc \in Seq(ToMcMsg) /\ Head(toMc).type = "item"
  BY <1>1 DEF McAddItem, TypeOK
<1>3. toMc' \in Seq(ToMcMsg) /\ table' \in Seq(Entry) /\ Len(table') <= MaxItem
  BY <1>1, <1>2, TableTyped DEF McAddItem
<1>4. UNCHANGED <<regs, count, cat, rest, toDev, fromDev, status, toGb, answered, told, invited,
                  raced, requests, faults>>
  BY DEF McAddItem, gb, NoFault
<1>5. Asked' = Asked
  BY <1>2, <1>4, QueriesTail DEF Asked
<1>6. QED BY <1>1, <1>3, <1>4, <1>5 DEF Typed, TypeOK

LEMMA McAddItemRacedTyped ==
    ASSUME Typed, McAddItemRaced
    PROVE  Typed'
<1>1. TypeOK /\ Asked <= MaxQuery
  BY DEF Typed
<1>2. toMc # <<>> /\ toMc' = Tail(toMc) /\ toMc \in Seq(ToMcMsg) /\ Head(toMc).type = "item"
  BY <1>1 DEF McAddItemRaced, TypeOK
<1>3. PICK item \in Item : item = Head(toMc).item
  BY <1>1, <1>2, TableTyped
<1>4. toMc' \in Seq(ToMcMsg) /\ table' \in Seq(Entry) /\ Len(table') <= MaxItem
  BY <1>1, <1>2, TableTyped DEF McAddItemRaced
<1>5. PICK i \in Id : i = item.id
  BY DEF Item
<1>6. [type |-> "invite", id |-> i] \in ToGbMsg
  BY DEF ToGbMsg
<1>7. toGb' = Append(toGb, [type |-> "invite", id |-> i]) /\ raced' = raced \cup {i}
  BY <1>3, <1>5 DEF McAddItemRaced
<1>8. toGb' \in Seq(ToGbMsg) /\ raced' \subseteq Id
  BY <1>1, <1>6, <1>7, AppendProperties DEF TypeOK
<1>9. faults' \in 0 .. MaxFault
  BY <1>1, FaultsBound DEF McAddItemRaced, Fault, TypeOK
<1>10. UNCHANGED <<regs, count, cat, rest, toDev, fromDev, status, answered, told, invited, requests>>
  BY DEF McAddItemRaced, gb
<1>11. Asked' = Asked
  BY <1>2, <1>10, QueriesTail DEF Asked
<1>12. QED BY <1>1, <1>4, <1>8, <1>9, <1>10, <1>11 DEF Typed, TypeOK

\* What McQueryCatalog does: msgs are the messages sent before one fails.
LEMMA McQueryCatalogIs ==
    ASSUME Typed, McQueryCatalog
    PROVE  /\ toMc # <<>> /\ Head(toMc).type = "query" /\ toMc' = Tail(toMc)
           /\ answered' = Append(answered, table)
           /\ UNCHANGED <<regs, count, cat, rest, toDev, fromDev, status, table, told, invited,
                          raced, requests>>
           /\ Len(answered) \in Nat /\ Len(answered) + 1 \in Sn
           /\ \E msgs \in Seq(ToGbMsg) :
                /\ toGb' = toGb \o msgs
                /\ \A k \in 1 .. Len(msgs) :
                     msgs[k].type = "catalog" /\ msgs[k].sn = Len(answered) + 1
                /\ \/ /\ NoFault
                      /\ UNION {IdsIn(msgs[k].list) : k \in 1 .. Len(msgs)} = AllButLast(table)
                   \/ Fault("sendto")
<1>1. TypeOK /\ Asked <= MaxQuery
  BY DEF Typed
<1>2. /\ toMc # <<>> /\ Head(toMc).type = "query" /\ toMc' = Tail(toMc)
      /\ answered' = Append(answered, table)
      /\ UNCHANGED <<regs, count, cat, rest, toDev, fromDev, status, table, told, invited,
                     raced, requests>>
  BY DEF McQueryCatalog, gb
<1>3. Len(answered) \in Nat /\ Len(answered) + 1 \in Sn
  <2>1. Len(answered) \in Nat
    BY <1>1, LenProperties DEF TypeOK
  <2>2. toMc \in Seq(ToMcMsg)
    BY <1>1 DEF TypeOK
  <2>3. Cardinality(Queries) \in Nat /\ Cardinality(Queries) >= 1
    BY <1>2, <2>2, QueriesTail
  <2>4. MaxQuery \in Nat
    BY BoundsAssumption
  <2>5. QED BY <1>1, <2>1, <2>3, <2>4 DEF Asked, Sn
<1>4. PICK sn \in Sn : sn = Len(answered) + 1
  BY <1>3
<1>5. PICK all \in Seq(ToGbMsg) :
         /\ all = CatalogMsgs(sn, table)
         /\ \A k \in 1 .. Len(all) : all[k].type = "catalog" /\ all[k].sn = sn
         /\ UNION {IdsIn(all[k].list) : k \in 1 .. Len(all)} = AllButLast(table)
  <2>1. table \in Seq(Entry) /\ sn \in Sn
    BY <1>1 DEF TypeOK
  <2>2. PICK p : p = CatalogMsgs(sn, table)
    OBVIOUS
  <2>3. /\ p \in Seq(ToGbMsg)
        /\ \A k \in 1 .. Len(p) : p[k].type = "catalog" /\ p[k].sn = sn
        /\ UNION {IdsIn(p[k].list) : k \in 1 .. Len(p)} = AllButLast(table)
    BY <2>1, <2>2, MessagesAre
  <2>4. QED BY <2>2, <2>3
<1>6. CASE toGb' = toGb \o all /\ NoFault
  BY <1>2, <1>3, <1>4, <1>5, <1>6
<1>7. ASSUME NEW k \in 1 .. Len(all), toGb' = toGb \o SubSeq(all, 1, k - 1), Fault("sendto")
      PROVE  \E msgs \in Seq(ToGbMsg) :
                /\ toGb' = toGb \o msgs
                /\ \A j \in 1 .. Len(msgs) : msgs[j].type = "catalog" /\ msgs[j].sn = sn
  <2>1. Len(all) \in Nat /\ k - 1 \in Nat /\ \A j \in 1 .. k - 1 : j \in 1 .. Len(all) /\ all[j] \in ToGbMsg
    BY LenProperties, ElementOfSeq
  <2>2. PICK msgs \in Seq(ToGbMsg) :
           /\ msgs = SubSeq(all, 1, k - 1) /\ Len(msgs) = k - 1
           /\ \A j \in 1 .. k - 1 : msgs[j] = all[j]
    <3>1. 1 \in Int /\ k - 1 \in Int
      BY <2>1
    <3>2. /\ SubSeq(all, 1, k - 1) \in Seq(ToGbMsg)
          /\ Len(SubSeq(all, 1, k - 1)) = IF 1 <= k - 1 THEN (k - 1) - 1 + 1 ELSE 0
          /\ \A j \in 1 .. (k - 1) - 1 + 1 : SubSeq(all, 1, k - 1)[j] = all[1 + j - 1]
      BY <2>1, <3>1, SubSeqProperties
    <3>3. PICK n \in Nat : n = k - 1
      BY <2>1
    <3>4. Len(SubSeq(all, 1, n)) = n /\ \A j \in 1 .. n : SubSeq(all, 1, n)[j] = all[j]
      BY <3>2, <3>3
    <3>5. QED BY <3>2, <3>3, <3>4
  <2>3. toGb' = toGb \o msgs
    BY <1>7, <2>2
  <2>4. \A j \in 1 .. Len(msgs) : msgs[j].type = "catalog" /\ msgs[j].sn = sn
    BY <1>5, <2>1, <2>2
  <2>5. QED BY <2>3, <2>4
<1>8. \/ toGb' = toGb \o all /\ NoFault
      \/ /\ \E k \in 1 .. Len(all) : toGb' = toGb \o SubSeq(all, 1, k - 1)
         /\ Fault("sendto")
  BY <1>4, <1>5 DEF McQueryCatalog
<1>9. QED BY <1>2, <1>3, <1>4, <1>6, <1>7, <1>8

LEMMA McQueryCatalogTyped ==
    ASSUME Typed, McQueryCatalog
    PROVE  Typed'
<1>1. TypeOK /\ Asked <= MaxQuery
  BY DEF Typed
<1>2. toMc' \in Seq(ToMcMsg) /\ Cardinality(Queries) = Cardinality(Queries') + 1
      /\ Cardinality(Queries') \in Nat
  <2>1. toMc # <<>> /\ toMc \in Seq(ToMcMsg) /\ toMc' = Tail(toMc) /\ Head(toMc).type = "query"
    BY <1>1, McQueryCatalogIs DEF TypeOK
  <2>2. QED BY <2>1, TailIs, QueriesTail
<1>3. /\ answered' \in Seq(Seq(Entry)) /\ Len(answered') = Len(answered) + 1 /\ Len(answered) \in Nat
      /\ Len(answered') <= MaxQuery
  <2>1. table \in Seq(Entry) /\ answered \in Seq(Seq(Entry)) /\ answered' = Append(answered, table)
    BY <1>1, McQueryCatalogIs DEF TypeOK
  <2>2. Len(answered) + 1 <= MaxQuery
    BY McQueryCatalogIs, BoundsAssumption DEF Sn
  <2>3. QED BY <2>1, <2>2, AppendProperties, LenProperties
<1>4. toGb' \in Seq(ToGbMsg)
  <2>1. PICK msgs \in Seq(ToGbMsg) : toGb' = toGb \o msgs
    BY McQueryCatalogIs
  <2>2. toGb \in Seq(ToGbMsg)
    BY <1>1 DEF TypeOK
  <2>3. QED BY <2>1, <2>2, ConcatProperties
<1>5. faults' \in 0 .. MaxFault
  BY <1>1, FaultsBound DEF McQueryCatalog, Fault, TypeOK
<1>6. Asked' = Asked
  BY <1>2, <1>3 DEF Asked
<1>7. QED BY <1>1, <1>2, <1>3, <1>4, <1>5, <1>6, McQueryCatalogIs DEF Typed, TypeOK

\* Played sets play of one entry, and leaves the others alone.
LEMMA PlayedIs ==
    ASSUME TypeOK, NEW k \in 1 .. Len(table)
    PROVE  /\ table[k] \in Entry
           /\ Played(k) \in Seq(Entry) /\ Len(Played(k)) = Len(table)
           /\ Played(k)[k].play
           /\ \A j \in 1 .. Len(table) : /\ Played(k)[j].id = table[j].id
                                         /\ Played(k)[j].on = table[j].on
                                         /\ j # k => Played(k)[j] = table[j]
<1>1. table \in Seq(Entry) /\ DOMAIN table = 1 .. Len(table)
      /\ \A j \in 1 .. Len(table) : table[j] \in Entry
  BY LenProperties, ElementOfSeq DEF TypeOK
<1>2. PICK e \in Entry : e = [table[k] EXCEPT !.play = TRUE] /\ e.id = table[k].id
                         /\ e.on = table[k].on /\ e.play
  <2>1. PICK o \in Entry : o = table[k]
    BY <1>1
  <2>2. [o EXCEPT !.play = TRUE] \in Entry
    BY DEF Entry
  <2>3. /\ [o EXCEPT !.play = TRUE].id = o.id /\ [o EXCEPT !.play = TRUE].on = o.on
        /\ [o EXCEPT !.play = TRUE].play
    BY DEF Entry
  <2>4. QED BY <2>1, <2>2, <2>3
<1>3. Played(k) = [table EXCEPT ![k] = e]
  BY <1>2 DEF Played
<1>4. QED BY <1>1, <1>2, <1>3, ExceptSeq

LEMMA DevInviteTyped ==
    ASSUME Typed, NEW k \in 1 .. Len(table), DevInvite(k)
    PROVE  Typed'
<1>1. TypeOK /\ Asked <= MaxQuery
  BY DEF Typed
<1>2. table' \in Seq(Entry) /\ Len(table') = Len(table)
  BY <1>1, PlayedIs DEF DevInvite
<1>3. PICK i \in Id : i = table[k].id
  BY <1>1, PlayedIs DEF Entry
<1>4. [type |-> "invite", id |-> i] \in ToGbMsg
  BY DEF ToGbMsg
<1>5. toGb' = toGb \/ toGb' = Append(toGb, [type |-> "invite", id |-> i])
  BY <1>3 DEF DevInvite
<1>6. toGb' \in Seq(ToGbMsg)
  <2>1. PICK m \in ToGbMsg : m = [type |-> "invite", id |-> i]
    BY <1>4
  <2>2. toGb \in Seq(ToGbMsg)
    BY <1>1 DEF TypeOK
  <2>3. QED BY <1>5, <2>1, <2>2, AppendProperties
<1>7. faults' \in 0 .. MaxFault
  BY <1>1, FaultsBound DEF DevInvite, Fault, TypeOK
<1>8. UNCHANGED <<regs, count, cat, rest, toDev, fromDev, status, toMc, answered, told, invited,
                  raced, requests>>
  BY DEF DevInvite, gb
<1>9. Asked' = Asked
  BY <1>8 DEF Asked, Queries
<1>10. QED BY <1>1, <1>2, <1>6, <1>7, <1>8, <1>9 DEF Typed, TypeOK

LEMMA TypedNext == Typed /\ [Next]_vars => Typed'
<1> SUFFICES ASSUME Typed, [Next]_vars PROVE Typed'
  OBVIOUS
<1>1. CASE RegisterRefused \/ (\E d \in Dev : Register(d)) \/ GbSchedule \/ Device \/ Lose
             \/ (\E i \in Id : Switch(i)) \/ (\E a \in fromDev : GbCatalogAnswer(a))
  <2>1. UNCHANGED Centre
    BY <1>1 DEF RegisterRefused, Register, GbSchedule, Device, DevAnswer, Lose, Switch,
                GbCatalogAnswer, Centre
  <2>2. QED BY <1>1, <2>1, DeviceTyped
<1>2. CASE \E k \in 1 .. Len(table) : DevInvite(k)
  BY <1>2, DevInviteTyped
<1>3. CASE UNCHANGED vars
  BY <1>3 DEF Typed, TypeOK, Asked, Queries, vars
<1>4. QED
  BY <1>1, <1>2, <1>3, GbAddItemTyped, PlatformAsksTyped, GbInviteTyped, GbCatalogReplyTyped,
     McAddItemTyped, McAddItemRacedTyped, McQueryCatalogTyped
     DEF Next, GbReceive, MsgServerTask, DevShedule

\* Every variable keeps its type, for any devices, items and tables.
THEOREM CatalogueTypes == Spec => []TypeOK
<1>1. Typed => TypeOK
  BY DEF Typed
<1>2. QED BY <1>1, TypedInit, TypedNext, PTL DEF Spec

-----------------------------------------------------------------------------
(* Where the items come from: what is queried, answered, taken and listed   *)
(* belongs to registered devices.                                           *)

IsOf(a, d) == Len(a) = Len(ItemsOf[d]) /\ \A k \in 1 .. Len(a) : a[k].id = ItemsOf[d][k]
Ours(i) == \E d \in DOMAIN regs : i \in Range(ItemsOf[d])

Sources ==
    /\ toDev \subseteq DOMAIN regs
    /\ \A a \in fromDev : \E d \in DOMAIN regs : IsOf(a, d)
    /\ \A i \in IdsIn(rest) : Ours(i)
    /\ \A i \in IdsIn(cat) : Ours(i)

LEMMA IsOfIds ==
    ASSUME NEW d \in Dev, NEW a, IsOf(a, d)
    PROVE  IdsIn(a) = Range(ItemsOf[d])
<1>1. DOMAIN ItemsOf[d] = 1 .. Len(ItemsOf[d])
  BY DevAssumption, LenProperties
<1>2. QED BY <1>1 DEF IsOf, IdsIn, Range

\* What a device answers.
LEMMA DevAnswerIs ==
    ASSUME TypeOK, NEW d \in Dev, DevAnswer(d)
    PROVE  /\ UNCHANGED <<regs, rest, cat>> /\ UNCHANGED Centre
           /\ toDev' \subseteq toDev /\ toDev \subseteq toDev' \cup {d}
           /\ \E a : fromDev' = fromDev \cup {a} /\ IsOf(a, d) /\ AllReal(a)
           /\ NoFault => status' = status
<1> DEFINE item(k) == [id |-> ItemsOf[d][k], on |-> status[ItemsOf[d][k]]]
<1>1. Len(ItemsOf[d]) \in Nat
  BY DevAssumption, LenProperties
<1>2. PICK a : a = [k \in 1 .. Len(ItemsOf[d]) |-> item(k)] /\ fromDev' = fromDev \cup {a}
  BY DEF DevAnswer
<1>3. \A k \in 1 .. Len(ItemsOf[d]) : item(k).id = ItemsOf[d][k] /\ item(k).on = status[item(k).id]
  OBVIOUS
<1> HIDE DEF item
<1>4. Len(a) = Len(ItemsOf[d]) /\ \A k \in 1 .. Len(a) : a[k] = item(k)
  BY <1>1, <1>2
<1>5. IsOf(a, d) /\ AllReal(a)
  BY <1>3, <1>4 DEF IsOf, AllReal
<1>6. QED BY <1>2, <1>5 DEF DevAnswer, gb, Centre

LEMMA SourcesInit == Init => Sources
BY FewIds DEF Init, Sources

LEMMA SourcesNext ==
    ASSUME Typed, Sources, [Next]_vars
    PROVE  Sources'
<1>0. TypeOK
  BY DEF Typed
<1>1. DOMAIN regs \subseteq DOMAIN regs'
  <2>1. ASSUME NEW d \in Dev, Register(d)
        PROVE  DOMAIN regs \subseteq DOMAIN regs'
    BY <2>1 DEF Register
  <2>2. CASE GbSchedule
    BY <2>2 DEF GbSchedule
  <2>3. QED
    BY <1>0, <2>1, <2>2 DEF Next, vars, gb, RegisterRefused, GbReceive, GbCatalogAnswer, GbAddItem,
       GbInvite, GbCatalogReply, Device, DevAnswer, Lose, Switch, PlatformAsks, MsgServerTask,
       McAddItem, McAddItemRaced, McQueryCatalog, DevShedule, DevInvite
<1>2. \A i : Ours(i) => Ours(i)'
  BY <1>1 DEF Ours
<1>3. toDev' \subseteq DOMAIN regs'
  <2>1. CASE GbSchedule
    BY <2>1 DEF GbSchedule, Queried, Sources
  <2>2. CASE toDev' \subseteq toDev
    BY <1>1, <2>2 DEF Sources
  <2>3. QED
    BY <1>0, <2>1, <2>2, DevAnswerIs DEF Next, vars, gb, RegisterRefused, Register, GbReceive,
       GbCatalogAnswer, GbAddItem, GbInvite, GbCatalogReply, Device, DevAnswer, Lose, Switch,
       PlatformAsks, MsgServerTask, McAddItem, McAddItemRaced, McQueryCatalog, DevShedule, DevInvite
<1>4. \A a \in fromDev' : \E d \in DOMAIN regs' : IsOf(a, d)
  <2>1. ASSUME NEW d \in toDev, DevAnswer(d)
        PROVE  \A a \in fromDev' : \E e \in DOMAIN regs' : IsOf(a, e)
    <3>1. d \in Dev /\ d \in DOMAIN regs'
      BY <1>0, <1>1 DEF TypeOK, Sources
    <3>2. PICK a : fromDev' = fromDev \cup {a} /\ IsOf(a, d)
      BY <1>0, <2>1, <3>1, DevAnswerIs
    <3>3. QED BY <1>1, <3>1, <3>2 DEF Sources
  <2>2. CASE fromDev' \subseteq fromDev
    BY <1>1, <2>2 DEF Sources
  <2>3. QED
    BY <2>1, <2>2 DEF Next, vars, gb, RegisterRefused, Register, GbSchedule, GbReceive,
       GbCatalogAnswer, GbAddItem, GbInvite, GbCatalogReply, Device, Lose, Switch,
       PlatformAsks, MsgServerTask, McAddItem, McAddItemRaced, McQueryCatalog, DevShedule, DevInvite
<1>5. (\A i \in IdsIn(rest') : Ours(i)') /\ (\A i \in IdsIn(cat') : Ours(i)')
  <2>1. ASSUME NEW a \in fromDev, GbCatalogAnswer(a)
        PROVE  (\A i \in IdsIn(rest') : Ours(i)') /\ (\A i \in IdsIn(cat') : Ours(i)')
    <3>1. rest' = a /\ cat' = cat
      BY <2>1 DEF GbCatalogAnswer
    <3>2. PICK d \in DOMAIN regs : IsOf(a, d)
      BY DEF Sources
    <3>3. d \in Dev
      BY <1>0 DEF TypeOK
    <3>4. IdsIn(a) = Range(ItemsOf[d])
      BY <3>2, <3>3, IsOfIds
    <3>5. \A i \in IdsIn(a) : Ours(i)
      BY <3>2, <3>4 DEF Ours
    <3>6. QED BY <1>2, <3>1, <3>5 DEF Sources
  <2>2. CASE GbAddItem
    <3>1. PICK item \in Item : item = Head(rest)
      BY <1>0, <2>2, GbAddItemIs
    <3>2. rest # <<>> /\ rest \in Seq(Item)
      BY <1>0, <2>2, GbAddItemIs DEF TypeOK
    <3>3. IdsIn(rest) = {item.id} \cup IdsIn(Tail(rest))
      BY <3>1, <3>2, IdsTail
    <3>4. IdsIn(rest') \subseteq IdsIn(rest)
      BY <1>0, <2>2, <3>3, GbAddItemIs, FewIds
    <3>5. MaxRes \in Nat /\ cat \in Seq(Item) /\ Len(cat) <= MaxRes
      BY <1>0, SizesAssumption DEF TypeOK
    <3>6. ~NoRoom(cat, item) /\ cat' = AddResItem(cat, item) => IdsIn(cat') = IdsIn(cat) \cup {item.id}
      BY <3>5, AddResItemIs
    <3>7. cat' = cat \/ (~NoRoom(cat, item) /\ cat' = AddResItem(cat, item))
      BY <1>0, <2>2, <3>1, GbAddItemIs
    <3>8. IdsIn(cat') \subseteq IdsIn(cat) \cup IdsIn(rest)
      BY <3>3, <3>6, <3>7
    <3>9. QED BY <1>2, <3>4, <3>8 DEF Sources
  <2>3. CASE UNCHANGED <<rest, cat>>
    BY <1>2, <2>3 DEF Sources
  <2>4. QED
    BY <1>0, <2>1, <2>2, <2>3 DEF Next, vars, gb, RegisterRefused, Register, GbSchedule, GbReceive,
       GbInvite, GbCatalogReply, Device, DevAnswer, Lose, Switch,
       PlatformAsks, MsgServerTask, McAddItem, McAddItemRaced, McQueryCatalog, DevShedule, DevInvite
<1>6. QED BY <1>3, <1>4, <1>5 DEF Sources

-----------------------------------------------------------------------------
(* The entries: one of each item, and what is on its way to the device      *)
(* table, or in it, is in the catalogue.                                    *)

Adds(k) == toMc[k].type = "item"

Entries ==
    /\ Distinct(cat) /\ Distinct(table)
    /\ \A k \in 1 .. Len(toMc) : Adds(k) => toMc[k].item.id \in IdsIn(cat)
    /\ IdsIn(table) \subseteq IdsIn(cat)

LEMMA EntriesInit == Init => Entries
BY FewIds DEF Init, Entries, Distinct

\* A datagram taken from the message centre's queue leaves the others.
LEMMA AddsTail ==
    ASSUME TypeOK, toMc # <<>>, toMc' = Tail(toMc)
    PROVE  \A k \in 1 .. Len(toMc') : k + 1 \in 1 .. Len(toMc) /\ toMc'[k] = toMc[k + 1]
BY TailIs DEF TypeOK

LEMMA GbAddItemEntries ==
    ASSUME TypeOK, Entries, GbAddItem
    PROVE  Entries'
<1>1. PICK item \in Item : item = Head(rest)
  BY GbAddItemIs
<1>2. MaxRes \in Nat /\ cat \in Seq(Item) /\ Len(cat) <= MaxRes /\ toMc \in Seq(ToMcMsg)
  BY SizesAssumption DEF TypeOK
<1>3. table' = table
  BY DEF GbAddItem
<1>4. CASE UNCHANGED <<cat, toMc>>
  BY <1>3, <1>4 DEF Entries, Adds
<1>5. CASE ~NoRoom(cat, item) /\ cat' = AddResItem(cat, item)
  <2>1. IdsIn(cat') = IdsIn(cat) \cup {item.id} /\ Distinct(cat')
    <3>1. IdsIn(cat') = IdsIn(cat) \cup {item.id}
      BY <1>2, <1>5, AddResItemIs
    <3>2. Distinct(cat) => Distinct(cat')
      BY <1>2, <1>5, AddResItemIs
    <3>3. QED BY <3>1, <3>2 DEF Entries
  <2>2. CASE toMc' = toMc
    BY <1>3, <2>1, <2>2 DEF Entries, Adds
  <2>3. ASSUME NEW m \in ToMcMsg, m.item = item, toMc' = Append(toMc, m)
        PROVE  Entries'
    <3>1. \A k \in 1 .. Len(toMc') : \/ k \in 1 .. Len(toMc) /\ toMc'[k] = toMc[k]
                                     \/ k = Len(toMc') /\ toMc'[k] = m
      BY <1>2, <2>3, AppendIs
    <3>2. QED BY <1>3, <2>1, <2>3, <3>1 DEF Entries, Adds
  <2>4. QED BY <1>1, <1>5, <2>2, <2>3, GbAddItemIs
<1>6. QED BY <1>1, <1>4, <1>5, GbAddItemIs

LEMMA PlatformAsksEntries ==
    ASSUME TypeOK, Entries, PlatformAsks
    PROVE  Entries'
<1>1. PICK m \in ToMcMsg : m = [type |-> "query"] /\ m.type # "item"
  <2>1. [type |-> "query"] \in ToMcMsg
    BY DEF ToMcMsg
  <2>2. QED BY <2>1
<1>2. toMc \in Seq(ToMcMsg) /\ m \in ToMcMsg /\ toMc' = Append(toMc, m)
  BY <1>1 DEF PlatformAsks, TypeOK
<1>3. \A k \in 1 .. Len(toMc') : \/ k \in 1 .. Len(toMc) /\ toMc'[k] = toMc[k]
                                 \/ k = Len(toMc') /\ toMc'[k] = m
  BY <1>2, AppendIs
<1>4. UNCHANGED <<cat, table>>
  BY DEF PlatformAsks, gb
<1>5. QED BY <1>1, <1>3, <1>4 DEF Entries, Adds

LEMMA AddItemEntries ==
    ASSUME TypeOK, Entries, toMc # <<>>, Head(toMc).type = "item", toMc' = Tail(toMc),
           table' = AddItem(table, Head(toMc).item), UNCHANGED cat
    PROVE  Entries'
<1>1. PICK item \in Item : item = Head(toMc).item
  BY TableTyped
<1>2. MaxItem \in Nat /\ table \in Seq(Entry) /\ Len(table) <= MaxItem /\ toMc \in Seq(ToMcMsg)
  BY SizesAssumption DEF TypeOK
<1>3. IdsIn(table') \subseteq IdsIn(table) \cup {item.id}
  BY <1>1, <1>2, AddItemIs
<1>4. Distinct(table) => Distinct(table')
  BY <1>1, <1>2, AddItemIs
<1>5. 1 \in 1 .. Len(toMc) /\ Head(toMc) = toMc[1]
  BY <1>2, TailIs
<1>6. item.id \in IdsIn(cat)
  BY <1>1, <1>5 DEF Entries, Adds
<1>7. \A k \in 1 .. Len(toMc') : k + 1 \in 1 .. Len(toMc) /\ toMc'[k] = toMc[k + 1]
  BY AddsTail
<1>8. QED BY <1>3, <1>4, <1>6, <1>7 DEF Entries, Adds

LEMMA EntriesNext ==
    ASSUME Typed, Entries, [Next]_vars
    PROVE  Entries'
<1>0. TypeOK
  BY DEF Typed
<1>1. CASE McQueryCatalog
  <2>1. toMc # <<>> /\ toMc' = Tail(toMc) /\ UNCHANGED <<cat, table>>
    BY <1>1, McQueryCatalogIs
  <2>2. QED BY <1>0, <2>1, AddsTail DEF Entries, Adds
<1>2. ASSUME NEW k \in 1 .. Len(table), DevInvite(k)
      PROVE  Entries'
  <2>1. UNCHANGED <<cat, toMc>> /\ table' = Played(k)
    BY <1>2 DEF DevInvite, gb
  <2>2. Len(table') = Len(table) /\ \A j \in 1 .. Len(table) : table'[j].id = table[j].id
    BY <1>0, <2>1, PlayedIs
  <2>3. IdsIn(table') = IdsIn(table) /\ (Distinct(table) => Distinct(table'))
    BY <2>2, IdsSame
  <2>4. QED BY <2>1, <2>3 DEF Entries, Adds
<1>3. CASE McAddItem \/ McAddItemRaced
  BY <1>0, <1>3, AddItemEntries DEF McAddItem, McAddItemRaced, gb
<1>4. CASE UNCHANGED <<cat, toMc, table>>
  BY <1>4 DEF Entries, Adds
<1>5. QED
  BY <1>0, <1>1, <1>2, <1>3, <1>4, GbAddItemEntries, PlatformAsksEntries
     DEF Next, vars, gb, RegisterRefused, Register, GbSchedule, GbReceive, GbCatalogAnswer,
         GbInvite, GbCatalogReply, Device, DevAnswer, Lose, Switch, MsgServerTask, DevShedule

\* An item has one entry in the catalogue and one in the device table, however
\* often it is reported and whatever is lost, and the device table has no item
\* that the catalogue lacks.
THEOREM OneEntryEach == Spec => []EntriesAgree
<1> DEFINE Inv == Typed /\ Sources /\ Entries
<1>1. Init => Inv
  BY TypedInit, SourcesInit, EntriesInit
<1>2. Inv /\ [Next]_vars => Inv'
  BY TypedNext, SourcesNext, EntriesNext
<1>3. Inv => EntriesAgree
  BY DistinctCount DEF EntriesAgree, Typed, TypeOK, Sources, Entries, Ours
<1>4. QED BY <1>1, <1>2, <1>3, PTL DEF Spec

-----------------------------------------------------------------------------
(* The INVITEs: those sent and those on their way to the GB server are one  *)
(* for the entry that plays and one for a race at the add.                  *)

Invites(i) == {k \in 1 .. Len(toGb) : toGb[k].type = "invite" /\ toGb[k].id = i}
Sent(i) == invited[i] + Cardinality(Invites(i))
One(p) == IF p THEN 1 ELSE 0

Invited ==
    \A i \in Id : /\ Sent(i) <= One(i \in raced) + One(Plays(table, i))
                  /\ i \in raced => i \in IdsIn(table)

IsInvite(m, i) == m.type = "invite" /\ m.id = i

LEMMA InvitesTail ==
    ASSUME NEW S, toGb \in Seq(S), toGb # <<>>, toGb' = Tail(toGb), NEW i
    PROVE  /\ Cardinality(Invites(i)) \in Nat /\ Cardinality(Invites(i)') \in Nat
           /\ Cardinality(Invites(i)) = IF IsInvite(Head(toGb), i) THEN Cardinality(Invites(i)') + 1
                                        ELSE Cardinality(Invites(i)')
<1>1. PICK n \in Nat \ {0} : n = Len(toGb)
  BY EmptySeq
<1>2. PICK I \in SUBSET (1 .. n) : I = Invites(i)
  BY <1>1 DEF Invites
<1>3. /\ Len(toGb') = n - 1 /\ Head(toGb) = toGb[1] /\ 1 \in 1 .. n
      /\ \A k \in 1 .. n - 1 : k + 1 \in 1 .. n /\ toGb'[k] = toGb[k + 1]
  BY <1>1, TailIs
<1>4. PICK J \in SUBSET (1 .. n - 1) : J = Invites(i)'
  BY <1>3 DEF Invites
<1>5. \A k \in 1 .. n - 1 : k \in J <=> k + 1 \in I
  BY <1>1, <1>2, <1>3, <1>4 DEF Invites
<1>6. 1 \in I <=> IsInvite(Head(toGb), i)
  BY <1>1, <1>2, <1>3 DEF Invites, IsInvite
<1>7. QED BY <1>2, <1>4, <1>5, <1>6, CountTail

LEMMA InvitesAppend ==
    ASSUME NEW S, toGb \in Seq(S), NEW m \in S, toGb' = Append(toGb, m), NEW i
    PROVE  /\ Cardinality(Invites(i)) \in Nat /\ Cardinality(Invites(i)') \in Nat
           /\ Cardinality(Invites(i)') = IF IsInvite(m, i) THEN Cardinality(Invites(i)) + 1
                                         ELSE Cardinality(Invites(i))
<1>1. PICK n \in Nat : n = Len(toGb)
  BY LenProperties
<1>2. PICK I \in SUBSET (1 .. n) : I = Invites(i)
  BY <1>1 DEF Invites
<1>3. /\ Len(toGb') = n + 1 /\ toGb'[n + 1] = m
      /\ \A k \in 1 .. n : toGb'[k] = toGb[k]
  BY <1>1, AppendIs
<1>4. PICK J \in SUBSET (1 .. n + 1) : J = Invites(i)'
  BY <1>3 DEF Invites
<1>5. \A k \in 1 .. n : k \in J <=> k \in I
  BY <1>1, <1>2, <1>3, <1>4 DEF Invites
<1>6. n + 1 \in J <=> IsInvite(m, i)
  BY <1>1, <1>3, <1>4 DEF Invites, IsInvite
<1>7. QED BY <1>2, <1>4, <1>5, <1>6, CountAppend

\* What the message centre's answer adds to the queue.
LEMMA ConcatIs ==
    ASSUME NEW S, NEW s \in Seq(S), NEW q \in Seq(S), NEW p, p = s \o q
    PROVE  /\ p \in Seq(S) /\ Len(s) \in Nat /\ Len(q) \in Nat /\ Len(p) = Len(s) + Len(q)
           /\ \A k \in 1 .. Len(s) : k \in 1 .. Len(p) /\ p[k] = s[k]
           /\ \A k \in 1 .. Len(q) : Len(s) + k \in 1 .. Len(p) /\ p[Len(s) + k] = q[k]
           /\ \A k \in 1 .. Len(p) : \/ k \in 1 .. Len(s) /\ p[k] = s[k]
                                     \/ /\ ~(k \in 1 .. Len(s))
                                        /\ k - Len(s) \in 1 .. Len(q) /\ p[k] = q[k - Len(s)]
<1>1. PICK n \in Nat, m \in Nat : n = Len(s) /\ m = Len(q)
  BY LenProperties
<1>2. /\ p \in Seq(S) /\ Len(p) = n + m
      /\ \A k \in 1 .. n + m : p[k] = IF k <= n THEN s[k] ELSE q[k - n]
  BY <1>1, ConcatProperties
<1>3. \A k \in 1 .. m : n + k \in 1 .. n + m /\ p[n + k] = q[k]
  <2>1. TAKE k \in 1 .. m
  <2>2. n + k \in 1 .. n + m /\ ~(n + k <= n) /\ (n + k) - n = k
    OBVIOUS
  <2>3. QED BY <1>2, <2>2
<1>4. QED BY <1>1, <1>2, <1>3

LEMMA InvitesConcat ==
    ASSUME NEW S, toGb \in Seq(S), NEW q \in Seq(S), toGb' = toGb \o q,
           \A k \in 1 .. Len(q) : q[k].type # "invite", NEW i
    PROVE  Invites(i)' = Invites(i)
<1>1. /\ \A k \in 1 .. Len(toGb) : k \in 1 .. Len(toGb') /\ toGb'[k] = toGb[k]
      /\ \A k \in 1 .. Len(toGb') : \/ k \in 1 .. Len(toGb) /\ toGb'[k] = toGb[k]
                                    \/ k - Len(toGb) \in 1 .. Len(q) /\ toGb'[k] = q[k - Len(toGb)]
  BY ConcatIs
<1>2. QED BY <1>1 DEF Invites

LEMMA InvitesCount ==
    ASSUME TypeOK, NEW i \in Id
    PROVE  Sent(i) \in Nat /\ Cardinality(Invites(i)) \in Nat /\ invited[i] \in Nat
<1>1. PICK n \in Nat : n = Len(toGb)
  BY LenProperties DEF TypeOK
<1>2. 1 \in Int /\ n \in Int /\ Invites(i) \in SUBSET (1 .. n)
  BY <1>1 DEF Invites
<1>3. IsFiniteSet(1 .. n)
  BY <1>2, FS_Interval
<1>4. IsFiniteSet(Invites(i))
  BY <1>2, <1>3, FS_Subset
<1>5. Cardinality(Invites(i)) \in Nat
  BY <1>4, FS_CardinalityType
<1>6. QED BY <1>5 DEF TypeOK, Sent

LEMMA InvitedInit == Init => Invited
<1> SUFFICES ASSUME Init PROVE Invited
  OBVIOUS
<1>1. \A i \in Id : Invites(i) = {} /\ invited[i] = 0
  BY DEF Init, Invites
<1>2. \A i \in Id : Sent(i) = 0
  BY <1>1, FS_EmptySet DEF Sent
<1>3. raced = {}
  BY DEF Init
<1>4. QED BY <1>2, <1>3 DEF Invited, One

\* The entry of an item that is not yet played does not play.
LEMMA NotYetPlayed ==
    ASSUME TypeOK, Entries, NEW k \in 1 .. Len(table), ~table[k].play
    PROVE  /\ ~Plays(table, table[k].id) /\ Plays(Played(k), table[k].id)
           /\ \A i : i # table[k].id => (Plays(Played(k), i) <=> Plays(table, i))
<1>1. ~Plays(table, table[k].id)
  BY DEF Plays, Entries, Distinct
<1>2. /\ Len(Played(k)) = Len(table) /\ Played(k)[k].play
      /\ \A j \in 1 .. Len(table) : /\ Played(k)[j].id = table[j].id
                                    /\ j # k => Played(k)[j] = table[j]
  BY PlayedIs
<1>3. QED BY <1>1, <1>2 DEF Plays

\* An INVITE is sent, and counted, once.
LEMMA SentOnce ==
    ASSUME TypeOK, Entries, Invited, NEW i \in Id, GbReceive
    PROVE  Sent(i)' = Sent(i)
<1>1. CASE GbInvite
  <2>1. toGb \in Seq(ToGbMsg) /\ toGb # <<>> /\ toGb' = Tail(toGb)
    BY <1>1 DEF TypeOK, GbInvite
  <2>2. PICK j \in Id : j = Head(toGb).id
    BY <1>1, <2>1, TailIs, ToGbMsgIs DEF GbInvite
  <2>3. IsInvite(Head(toGb), i) <=> i = j
    BY <1>1, <2>2 DEF IsInvite, GbInvite
  <2>4. invited'[i] = IF i = j THEN invited[i] + 1 ELSE invited[i]
    BY <1>1, <2>2 DEF GbInvite, TypeOK
  <2>5. PICK n \in Nat, m \in Nat, v \in Nat :
           n = Cardinality(Invites(i)) /\ m = Cardinality(Invites(i)') /\ v = invited[i]
    BY <2>1, InvitesTail DEF TypeOK
  <2>6. n = IF i = j THEN m + 1 ELSE m
    BY <2>1, <2>3, <2>5, InvitesTail
  <2>7. QED BY <2>4, <2>5, <2>6 DEF Sent
<1>2. CASE GbCatalogReply
  <2>1. toGb \in Seq(ToGbMsg) /\ toGb # <<>> /\ toGb' = Tail(toGb) /\ ~IsInvite(Head(toGb), i)
    BY <1>2 DEF TypeOK, GbCatalogReply, IsInvite
  <2>2. Cardinality(Invites(i)') = Cardinality(Invites(i))
    BY <2>1, InvitesTail
  <2>3. QED BY <1>2, <2>2 DEF Sent, GbCatalogReply
<1>3. CASE UNCHANGED <<toGb, invited>>
  BY <1>3 DEF Sent, Invites
<1>4. QED BY <1>1, <1>2, <1>3 DEF GbReceive, GbCatalogAnswer, GbAddItem

LEMMA McAddItemInvited ==
    ASSUME TypeOK, Entries, Invited, McAddItem \/ McAddItemRaced
    PROVE  Invited'
<1>1. toMc # <<>> /\ Head(toMc).type = "item" /\ table' = AddItem(table, Head(toMc).item)
  BY DEF McAddItem, McAddItemRaced
<1>2. PICK item \in Item : item = Head(toMc).item
  BY <1>1, TableTyped
<1>3. MaxItem \in Nat /\ table \in Seq(Entry) /\ Len(table) <= MaxItem /\ toGb \in Seq(ToGbMsg)
  BY SizesAssumption DEF TypeOK
<1>4. \A i : Plays(table', i) <=> Plays(table, i)
  BY <1>1, <1>2, <1>3, AddItemIs
<1>5. IdsIn(table) \subseteq IdsIn(table')
  BY <1>1, <1>2, <1>3, AddItemIs
<1>6. table' # table => item.id \notin IdsIn(table) /\ item.id \in IdsIn(table')
  BY <1>1, <1>2, <1>3, AddItemIs
<1>7. CASE McAddItem
  <2>1. UNCHANGED <<toGb, invited, raced>>
    BY <1>7 DEF McAddItem
  <2>2. \A i \in Id : Sent(i)' = Sent(i)
    BY <2>1 DEF Sent, Invites
  <2>3. ASSUME NEW i \in Id
        PROVE  /\ Sent(i)' <= One(i \in raced') + One(Plays(table', i))
               /\ i \in raced' => i \in IdsIn(table')
    <3>1. One(Plays(table', i)) = One(Plays(table, i))
      BY <1>4 DEF One
    <3>2. QED BY <1>5, <2>1, <2>2, <3>1 DEF Invited
  <2>4. QED BY <2>3 DEF Invited
<1>8. CASE McAddItemRaced
  <2>1. PICK r \in Id : r = item.id
    BY DEF Item
  <2>2. PICK m \in ToGbMsg : m = [type |-> "invite", id |-> r] /\ m.type = "invite" /\ m.id = r
    <3>1. [type |-> "invite", id |-> r] \in ToGbMsg
      BY DEF ToGbMsg
    <3>2. QED BY <3>1
  <2>3. toGb' = Append(toGb, m) /\ raced' = raced \cup {r} /\ invited' = invited /\ table' # table
    BY <1>2, <1>8, <2>1, <2>2 DEF McAddItemRaced
  <2>4. r \notin raced /\ r \in IdsIn(table')
    BY <1>6, <2>1, <2>3 DEF Invited
  <2>5. ASSUME NEW i \in Id
        PROVE  /\ Sent(i)' <= One(i \in raced') + One(Plays(table', i))
               /\ i \in raced' => i \in IdsIn(table')
    <3>1. toGb \in Seq(ToGbMsg) /\ m \in ToGbMsg /\ toGb' = Append(toGb, m)
      BY <1>3, <2>3
    <3>2. Cardinality(Invites(i)') = IF IsInvite(m, i) THEN Cardinality(Invites(i)) + 1
                                     ELSE Cardinality(Invites(i))
      BY <3>1, InvitesAppend
    <3>3. IsInvite(m, i) <=> i = r
      BY <2>2 DEF IsInvite
    <3>4. Cardinality(Invites(i)) \in Nat /\ invited[i] \in Nat
      BY InvitesCount
    <3>5. Sent(i)' = Sent(i) + One(i = r)
      BY <2>3, <3>2, <3>3, <3>4 DEF Sent, One
    <3>6. Sent(i) <= One(i \in raced) + One(Plays(table', i)) /\ Sent(i) \in Nat
      <4>1. One(Plays(table', i)) = One(Plays(table, i))
        BY <1>4 DEF One
      <4>2. QED BY <4>1, InvitesCount DEF Invited
    <3>7. One(i \in raced') = One(i \in raced) + One(i = r)
      BY <2>3, <2>4 DEF One
    <3>8. One(i \in raced) \in Nat /\ One(i = r) \in Nat /\ One(Plays(table', i)) \in Nat
      BY DEF One
    <3>9. Sent(i)' <= One(i \in raced') + One(Plays(table', i))
      BY <3>5, <3>6, <3>7, <3>8
    <3>10. i \in raced' => i \in IdsIn(table')
      BY <1>5, <2>3, <2>4 DEF Invited
    <3>11. QED BY <3>9, <3>10
  <2>6. QED BY <2>5 DEF Invited
<1>9. QED BY <1>7, <1>8

LEMMA DevInviteInvited ==
    ASSUME TypeOK, Entries, Invited, NEW k \in 1 .. Len(table), DevInvite(k)
    PROVE  Invited'
<1>1. PICK r \in Id : r = table[k].id
  BY PlayedIs DEF Entry
<1>2. ~table[k].play /\ table' = Played(k) /\ UNCHANGED <<invited, raced>>
  BY DEF DevInvite
<1>3. /\ ~Plays(table, r) /\ Plays(table', r)
      /\ \A i : i # r => (Plays(table', i) <=> Plays(table, i))
  BY <1>1, <1>2, NotYetPlayed
<1>4. IdsIn(table') = IdsIn(table)
  <2>1. Len(table') = Len(table) /\ \A j \in 1 .. Len(table) : table'[j].id = table[j].id
    BY <1>2, PlayedIs
  <2>2. QED BY <2>1, IdsSame
<1>5. PICK m \in ToGbMsg : m = [type |-> "invite", id |-> r] /\ m.type = "invite" /\ m.id = r
  <2>1. [type |-> "invite", id |-> r] \in ToGbMsg
    BY DEF ToGbMsg
  <2>2. QED BY <2>1
<1>6. ASSUME NEW i \in Id
      PROVE  /\ Sent(i)' <= One(i \in raced') + One(Plays(table', i))
             /\ i \in raced' => i \in IdsIn(table')
  <2>1. Cardinality(Invites(i)) \in Nat /\ invited[i] \in Nat /\ Sent(i) \in Nat
    BY InvitesCount
  <2>2. Sent(i)' = Sent(i) \/ (i = r /\ Sent(i)' = Sent(i) + 1)
    <3>1. CASE toGb' = toGb
      BY <1>2, <3>1 DEF Sent, Invites
    <3>2. CASE toGb' = Append(toGb, m)
      <4>1. toGb \in Seq(ToGbMsg) /\ m \in ToGbMsg /\ toGb' = Append(toGb, m)
        BY <3>2 DEF TypeOK
      <4>2. Cardinality(Invites(i)') = IF IsInvite(m, i) THEN Cardinality(Invites(i)) + 1
                                       ELSE Cardinality(Invites(i))
        BY <4>1, InvitesAppend
      <4>3. IsInvite(m, i) <=> i = r
        BY <1>5 DEF IsInvite
      <4>4. invited'[i] = invited[i]
        BY <1>2
      <4>5. Sent(i) = invited[i] + Cardinality(Invites(i))
            /\ Sent(i)' = invited[i] + Cardinality(Invites(i)')
        BY <4>4 DEF Sent
      <4>6. Sent(i)' = Sent(i) \/ (IsInvite(m, i) /\ Sent(i)' = Sent(i) + 1)
        BY <2>1, <4>2, <4>5
      <4>7. QED BY <4>3, <4>6
    <3>3. QED BY <1>1, <1>5, <3>1, <3>2 DEF DevInvite
  <2>3. Sent(i) <= One(i \in raced) + One(Plays(table, i))
    BY DEF Invited
  <2>4. One(Plays(table', i)) = One(Plays(table, i)) + One(i = r)
    BY <1>3 DEF One
  <2>5. One(i \in raced) \in Nat /\ One(i = r) \in Nat /\ One(Plays(table, i)) \in Nat
        /\ (i = r => One(i = r) = 1)
    BY DEF One
  <2>6. Sent(i)' <= One(i \in raced) + One(Plays(table', i))
    BY <2>1, <2>2, <2>3, <2>4, <2>5
  <2>7. QED BY <1>2, <1>4, <2>6 DEF Invited
<1>7. QED BY <1>6 DEF Invited

LEMMA InvitedNext ==
    ASSUME Typed, Entries, Invited, [Next]_vars
    PROVE  Invited'
<1>0. TypeOK
  BY DEF Typed
<1>1. CASE McAddItem \/ McAddItemRaced
  BY <1>0, <1>1, McAddItemInvited
<1>2. CASE \E k \in 1 .. Len(table) : DevInvite(k)
  BY <1>0, <1>2, DevInviteInvited
<1>3. CASE GbReceive
  <2>1. \A i \in Id : Sent(i)' = Sent(i)
    BY <1>0, <1>3, SentOnce
  <2>2. UNCHANGED <<table, raced>>
    BY <1>3 DEF GbReceive, GbCatalogAnswer, GbAddItem, GbInvite, GbCatalogReply
  <2>3. QED BY <2>1, <2>2 DEF Invited
<1>4. CASE McQueryCatalog
  <2>1. UNCHANGED <<table, invited, raced>>
    BY <1>4, McQueryCatalogIs
  <2>2. PICK msgs \in Seq(ToGbMsg) :
           toGb' = toGb \o msgs /\ \A k \in 1 .. Len(msgs) : msgs[k].type # "invite"
    BY <1>4, McQueryCatalogIs
  <2>3. toGb \in Seq(ToGbMsg)
    BY <1>0 DEF TypeOK
  <2>4. \A i \in Id : Invites(i)' = Invites(i)
    BY <2>2, <2>3, InvitesConcat
  <2>5. \A i \in Id : Sent(i)' = Sent(i)
    BY <2>1, <2>4 DEF Sent
  <2>6. QED BY <2>1, <2>5 DEF Invited
<1>5. CASE UNCHANGED <<toGb, table, invited, raced>>
  BY <1>5 DEF Invited, Sent, Invites
<1>6. QED
  BY <1>1, <1>2, <1>3, <1>4, <1>5
     DEF Next, vars, RegisterRefused, Register, GbSchedule, Device, DevAnswer, Lose, Switch,
         PlatformAsks, MsgServerTask, DevShedule

\* An item is sent one INVITE, or two if the first raced with the add, however
\* often it is reported.
THEOREM InvitedOnce == Spec => []OneInvite
<1> DEFINE Inv == Typed /\ Sources /\ Entries /\ Invited
<1>1. Init => Inv
  BY TypedInit, SourcesInit, EntriesInit, InvitedInit
<1>2. Inv /\ [Next]_vars => Inv'
  BY TypedNext, SourcesNext, EntriesNext, InvitedNext
<1>3. Inv => OneInvite
  <2>1. ASSUME Inv, NEW i \in Id
        PROVE  /\ invited[i] <= IF i \in raced THEN 2 ELSE 1
               /\ invited[i] = 1 /\ i \notin raced => Plays(table, i)
    <3>1. Cardinality(Invites(i)) \in Nat /\ invited[i] \in Nat
      BY <2>1, InvitesCount DEF Typed
    <3>2. invited[i] + Cardinality(Invites(i)) <= One(i \in raced) + One(Plays(table, i))
      BY <2>1 DEF Invited, Sent
    <3>3. QED BY <3>1, <3>2 DEF One
  <2>2. QED BY <2>1 DEF OneInvite, Plays
<1>4. QED BY <1>1, <1>2, <1>3, PTL DEF Spec

-----------------------------------------------------------------------------
(* As long as nothing fails: what a platform is told or will be told is     *)
(* what query_cata_log means to tell.                                       *)

LEMMA Calm ==
    ASSUME TypeOK, faults' = 0
    PROVE  /\ \A f : ~Fault(f)
           /\ [Next]_vars => faults = 0
<1>1. faults \in Nat
  BY BoundsAssumption DEF TypeOK
<1>2. \A f : ~Fault(f)
  BY <1>1 DEF Fault
<1>3. ASSUME Next
      PROVE  NoFault
  BY <1>2, <1>3
     DEF Next, RegisterRefused, Register, GbSchedule, GbReceive, GbCatalogAnswer, GbAddItem,
         GbInvite, GbCatalogReply, Device, DevAnswer, Lose, Switch, PlatformAsks, MsgServerTask,
         McAddItem, McAddItemRaced, McQueryCatalog, DevShedule, DevInvite
<1>4. QED BY <1>2, <1>3 DEF NoFault, vars

IsList(m, sn) == m.type = "catalog" /\ m.sn = sn
ListsFor(sn) == {k \in 1 .. Len(toGb) : IsList(toGb[k], sn)}
Queued(sn) == UNION {IdsIn(toGb[k].list) : k \in ListsFor(sn)}
Said(sn) == ToldIds(sn) \cup Queued(sn)

Saying ==
    \A sn \in Sn : Said(sn) = IF sn <= Len(answered) THEN AllButLast(answered[sn]) ELSE {}

LEMMA SayingInit == Init => Saying
<1> SUFFICES ASSUME Init, NEW sn \in Sn PROVE Said(sn) = {} /\ ~(sn <= Len(answered))
  BY DEF Saying
<1>1. ListsFor(sn) = {} /\ told[sn] = <<>> /\ answered = <<>>
  BY DEF Init, ListsFor
<1>2. ~(sn <= Len(answered))
  BY <1>1 DEF Sn
<1>3. Queued(sn) = {}
  BY <1>1 DEF Queued
<1>4. ToldIds(sn) = {}
  BY <1>1 DEF ToldIds
<1>5. QED BY <1>2, <1>3, <1>4 DEF Said

LEMMA QueuedTail ==
    ASSUME NEW S, toGb \in Seq(S), toGb # <<>>, toGb' = Tail(toGb), NEW sn
    PROVE  Queued(sn) = Queued(sn)' \cup IF IsList(Head(toGb), sn) THEN IdsIn(Head(toGb).list) ELSE {}
<1>1. /\ 1 \in 1 .. Len(toGb) /\ Head(toGb) = toGb[1]
      /\ \A k \in 1 .. Len(toGb') : k + 1 \in 1 .. Len(toGb) /\ toGb'[k] = toGb[k + 1]
      /\ \A k \in 1 .. Len(toGb) : k = 1 \/ (k - 1 \in 1 .. Len(toGb') /\ toGb'[k - 1] = toGb[k])
  BY TailIs
<1>2. \A k \in ListsFor(sn)' : k + 1 \in ListsFor(sn) /\ toGb'[k] = toGb[k + 1]
  BY <1>1 DEF ListsFor
<1>3. \A k \in ListsFor(sn) : k = 1 \/ (k - 1 \in ListsFor(sn)' /\ toGb'[k - 1] = toGb[k])
  BY <1>1 DEF ListsFor
<1>4. 1 \in ListsFor(sn) <=> IsList(Head(toGb), sn)
  BY <1>1 DEF ListsFor
<1>5. Queued(sn)' \subseteq Queued(sn)
  BY <1>2 DEF Queued
<1>6. CASE IsList(Head(toGb), sn)
  <2>1. IdsIn(Head(toGb).list) \subseteq Queued(sn)
    BY <1>1, <1>4, <1>6 DEF Queued
  <2>2. Queued(sn) \subseteq Queued(sn)' \cup IdsIn(Head(toGb).list)
    BY <1>1, <1>3 DEF Queued
  <2>3. QED BY <1>5, <1>6, <2>1, <2>2
<1>7. CASE ~IsList(Head(toGb), sn)
  <2>1. Queued(sn) \subseteq Queued(sn)'
    BY <1>3, <1>4, <1>7 DEF Queued
  <2>2. QED BY <1>5, <1>7, <2>1
<1>8. QED BY <1>6, <1>7

LEMMA QueuedAppend ==
    ASSUME NEW S, toGb \in Seq(S), NEW m \in S, toGb' = Append(toGb, m), NEW sn, ~IsList(m, sn)
    PROVE  Queued(sn)' = Queued(sn)
<1>1. /\ \A k \in 1 .. Len(toGb) : k \in 1 .. Len(toGb') /\ toGb'[k] = toGb[k]
      /\ \A k \in 1 .. Len(toGb') : \/ k \in 1 .. Len(toGb) /\ toGb'[k] = toGb[k]
                                    \/ k = Len(toGb') /\ toGb'[k] = m
  BY AppendIs
<1>2. ListsFor(sn)' = ListsFor(sn) /\ \A k \in ListsFor(sn) : toGb'[k] = toGb[k]
  BY <1>1 DEF ListsFor
<1>3. QED BY <1>2 DEF Queued

LEMMA QueuedConcat ==
    ASSUME NEW S, toGb \in Seq(S), NEW q \in Seq(S), toGb' = toGb \o q, NEW n,
           \A k \in 1 .. Len(q) : IsList(q[k], n), NEW sn
    PROVE  Queued(sn)' = Queued(sn) \cup
             IF sn = n THEN UNION {IdsIn(q[k].list) : k \in 1 .. Len(q)} ELSE {}
<1>1. /\ \A k \in 1 .. Len(toGb) : k \in 1 .. Len(toGb') /\ toGb'[k] = toGb[k]
      /\ \A k \in 1 .. Len(q) : Len(toGb) + k \in 1 .. Len(toGb') /\ toGb'[Len(toGb) + k] = q[k]
      /\ \A k \in 1 .. Len(toGb') : \/ k \in 1 .. Len(toGb) /\ toGb'[k] = toGb[k]
                                    \/ k - Len(toGb) \in 1 .. Len(q) /\ toGb'[k] = q[k - Len(toGb)]
  BY ConcatIs
<1>2. \A k \in 1 .. Len(q) : IsList(q[k], sn) <=> sn = n
  BY DEF IsList
<1>3. \A k \in ListsFor(sn) : k \in ListsFor(sn)' /\ toGb'[k] = toGb[k]
  BY <1>1 DEF ListsFor
<1>4. \A k \in ListsFor(sn)' : \/ k \in ListsFor(sn) /\ toGb'[k] = toGb[k]
                               \/ /\ k - Len(toGb) \in 1 .. Len(q)
                                  /\ toGb'[k] = q[k - Len(toGb)] /\ sn = n
  BY <1>1, <1>2 DEF ListsFor
<1>5. sn = n => \A k \in 1 .. Len(q) : Len(toGb) + k \in ListsFor(sn)' /\ toGb'[Len(toGb) + k] = q[k]
  BY <1>1, <1>2 DEF ListsFor
<1>6. Queued(sn) \subseteq Queued(sn)'
  BY <1>3 DEF Queued
<1>7. CASE sn = n
  <2>1. UNION {IdsIn(q[k].list) : k \in 1 .. Len(q)} \subseteq Queued(sn)'
    BY <1>5, <1>7 DEF Queued
  <2>2. Queued(sn)' \subseteq Queued(sn) \cup UNION {IdsIn(q[k].list) : k \in 1 .. Len(q)}
    BY <1>4 DEF Queued
  <2>3. QED BY <1>6, <1>7, <2>1, <2>2
<1>8. CASE sn # n
  <2>1. Queued(sn)' \subseteq Queued(sn)
    BY <1>4, <1>8 DEF Queued
  <2>2. QED BY <1>6, <1>8, <2>1
<1>9. QED BY <1>7, <1>8

\* A list on its way becomes a list that was told.
LEMMA ReplySaid ==
    ASSUME TypeOK, GbCatalogReply, NEW sn \in Sn
    PROVE  Said(sn)' = Said(sn)
<1>1. toGb \in Seq(ToGbMsg) /\ toGb # <<>> /\ toGb' = Tail(toGb)
  BY DEF TypeOK, GbCatalogReply
<1>2. PICK m \in ToGbMsg : m = Head(toGb) /\ m.type = "catalog"
  BY <1>1, TailIs DEF GbCatalogReply
<1>3. PICK n \in Sn, list \in Seq(Item) : n = m.sn /\ list = m.list
  BY <1>2, ToGbMsgIs
<1>4. IsList(m, sn) <=> sn = n
  BY <1>2, <1>3 DEF IsList
<1>5. told'[sn] = IF sn = n THEN Append(told[sn], list) ELSE told[sn]
  BY <1>2, <1>3 DEF GbCatalogReply, TypeOK
<1>6. ToldIds(sn)' = ToldIds(sn) \cup IF sn = n THEN IdsIn(list) ELSE {}
  <2>1. CASE sn = n
    <3>1. told[sn] \in Seq(Seq(Item)) /\ list \in Seq(Item) /\ told'[sn] = Append(told[sn], list)
      BY <1>5, <2>1 DEF TypeOK
    <3>2. /\ Len(told'[sn]) \in 1 .. Len(told'[sn]) /\ told'[sn][Len(told'[sn])] = list
          /\ \A k \in 1 .. Len(told[sn]) : k \in 1 .. Len(told'[sn]) /\ told'[sn][k] = told[sn][k]
          /\ \A k \in 1 .. Len(told'[sn]) : \/ k \in 1 .. Len(told[sn]) /\ told'[sn][k] = told[sn][k]
                                            \/ k = Len(told'[sn]) /\ told'[sn][k] = list
      BY <3>1, AppendIs
    <3>3. ToldIds(sn)' = ToldIds(sn) \cup IdsIn(list)
      <4>1. ToldIds(sn) \subseteq ToldIds(sn)'
        BY <3>2 DEF ToldIds
      <4>2. IdsIn(list) \subseteq ToldIds(sn)'
        BY <3>2 DEF ToldIds
      <4>3. ToldIds(sn)' \subseteq ToldIds(sn) \cup IdsIn(list)
        BY <3>2 DEF ToldIds
      <4>4. QED BY <4>1, <4>2, <4>3
    <3>4. QED BY <2>1, <3>3
  <2>2. CASE sn # n
    BY <1>5, <2>2 DEF ToldIds
  <2>3. QED BY <2>1, <2>2
<1>7. Queued(sn) = Queued(sn)' \cup IF sn = n THEN IdsIn(list) ELSE {}
  BY <1>1, <1>2, <1>3, <1>4, QueuedTail
<1>8. QED BY <1>6, <1>7 DEF Said

LEMMA SayingNext ==
    ASSUME Typed, Saying, [Next]_vars, faults' = 0
    PROVE  Saying'
<1>0. TypeOK /\ toGb \in Seq(ToGbMsg)
  BY DEF Typed, TypeOK
<1>1. CASE GbCatalogReply
  <2>1. answered' = answered
    BY <1>1 DEF GbCatalogReply
  <2>2. \A sn \in Sn : Said(sn)' = Said(sn)
    BY <1>0, <1>1, ReplySaid
  <2>3. QED BY <2>1, <2>2 DEF Saying
<1>2. CASE GbInvite
  <2>1. toGb # <<>> /\ toGb' = Tail(toGb) /\ UNCHANGED <<told, answered>>
    BY <1>2 DEF GbInvite
  <2>2. \A sn : ~IsList(Head(toGb), sn)
    BY <1>2 DEF GbInvite, IsList
  <2>3. \A sn \in Sn : Queued(sn)' = Queued(sn)
    BY <1>0, <2>1, <2>2, QueuedTail
  <2>4. \A sn \in Sn : Said(sn)' = Said(sn)
    BY <2>1, <2>3 DEF Said, ToldIds
  <2>5. QED BY <2>1, <2>4 DEF Saying
<1>3. CASE McQueryCatalog
  <2>1. PICK n \in Sn : n = Len(answered) + 1 /\ Len(answered) \in Nat
    BY <1>3, McQueryCatalogIs
  <2>2. PICK msgs \in Seq(ToGbMsg) :
           /\ toGb' = toGb \o msgs
           /\ \A k \in 1 .. Len(msgs) : IsList(msgs[k], n)
           /\ UNION {IdsIn(msgs[k].list) : k \in 1 .. Len(msgs)} = AllButLast(table)
    BY <1>0, <1>3, <2>1, McQueryCatalogIs, Calm DEF IsList
  <2>3. told' = told /\ answered' = Append(answered, table) /\ answered \in Seq(Seq(Entry))
        /\ table \in Seq(Entry)
    BY <1>0, <1>3, McQueryCatalogIs DEF TypeOK
  <2>4. /\ Len(answered') = n /\ answered'[n] = table
        /\ \A k \in 1 .. Len(answered) : answered'[k] = answered[k]
    BY <2>1, <2>3, AppendIs
  <2>5. ASSUME NEW sn \in Sn
        PROVE  Said(sn)' = IF sn <= Len(answered') THEN AllButLast(answered'[sn]) ELSE {}
    <3>1. Queued(sn)' = Queued(sn) \cup IF sn = n THEN AllButLast(table) ELSE {}
      <4>1. Queued(sn)' = Queued(sn) \cup
              IF sn = n THEN UNION {IdsIn(msgs[k].list) : k \in 1 .. Len(msgs)} ELSE {}
        <5>1. toGb \in Seq(ToGbMsg) /\ toGb' = toGb \o msgs /\ \A k \in 1 .. Len(msgs) : IsList(msgs[k], n)
          BY <1>0, <2>2
        <5> HIDE DEF IsList
        <5>2. QED BY <5>1, QueuedConcat
      <4>2. QED BY <2>2, <4>1
    <3>2. Said(sn)' = Said(sn) \cup IF sn = n THEN AllButLast(table) ELSE {}
      BY <2>3, <3>1 DEF Said, ToldIds
    <3>3. Said(sn) = IF sn <= Len(answered) THEN AllButLast(answered[sn]) ELSE {}
      BY DEF Saying
    <3>4. sn \in Nat /\ sn >= 1
      BY BoundsAssumption DEF Sn
    <3>5. CASE sn = n
      BY <2>1, <2>4, <3>2, <3>3, <3>5
    <3>6. CASE sn <= Len(answered)
      <4>1. sn \in 1 .. Len(answered) /\ sn # n /\ sn <= n
        BY <2>1, <3>4, <3>6
      <4>2. answered'[sn] = answered[sn]
        BY <2>4, <4>1
      <4>3. QED BY <2>4, <3>2, <3>3, <3>6, <4>1, <4>2
    <3>7. CASE ~(sn <= Len(answered)) /\ sn # n
      <4>1. ~(sn <= n)
        BY <2>1, <3>4, <3>7
      <4>2. QED BY <2>4, <3>2, <3>3, <3>7, <4>1
    <3>8. QED BY <3>5, <3>6, <3>7
  <2>6. QED BY <2>5 DEF Saying
<1>4. ASSUME NEW k \in 1 .. Len(table), DevInvite(k)
      PROVE  Saying'
  <2>1. PICK m \in ToGbMsg : m = [type |-> "invite", id |-> table[k].id] /\ m.type = "invite"
    <3>1. PICK r \in Id : r = table[k].id
      BY <1>0, PlayedIs DEF Entry
    <3>2. [type |-> "invite", id |-> r] \in ToGbMsg
      BY DEF ToGbMsg
    <3>3. QED BY <3>1, <3>2
  <2>2. toGb' = Append(toGb, m) /\ UNCHANGED <<told, answered>>
    BY <1>0, <1>4, <2>1, Calm DEF DevInvite
  <2>3. \A sn : ~IsList(m, sn)
    BY <2>1 DEF IsList
  <2>4. \A sn \in Sn : Queued(sn)' = Queued(sn)
    BY <1>0, <2>2, <2>3, QueuedAppend
  <2>5. \A sn \in Sn : Said(sn)' = Said(sn)
    BY <2>2, <2>4 DEF Said, ToldIds
  <2>6. QED BY <2>2, <2>5 DEF Saying
<1>5. CASE UNCHANGED <<toGb, told, answered>>
  <2>1. \A sn \in Sn : Said(sn)' = Said(sn)
    BY <1>5 DEF Said, ToldIds, Queued, ListsFor
  <2>2. QED BY <1>5, <2>1 DEF Saying
<1>6. ~McAddItemRaced
  BY <1>0, Calm DEF McAddItemRaced
<1>7. QED
  BY <1>1, <1>2, <1>3, <1>4, <1>5, <1>6
     DEF Next, vars, gb, RegisterRefused, Register, GbSchedule, GbReceive, GbCatalogAnswer, GbAddItem,
         Device, DevAnswer, Lose, Switch, PlatformAsks, MsgServerTask, McAddItem, DevShedule

\* When nothing fails, a platform whose lists have all arrived was told every
\* item of the table but the last of an odd number, and no other.
THEOREM ToldWhatIsKnown == Spec => []ToldAllButLast
<1> DEFINE Inv == Typed /\ (faults = 0 => Saying)
<1>1. Init => Inv
  BY TypedInit, SayingInit
<1>2. Inv /\ [Next]_vars => Inv'
  BY TypedNext, SayingNext, Calm DEF Typed
<1>3. Inv => ToldAllButLast
  <2>1. ASSUME Inv, NEW sn \in Sn, Complete(sn)
        PROVE  ToldIds(sn) = AllButLast(answered[sn])
    <3>1. sn <= Len(answered) /\ faults = 0 /\ ListsFor(sn) = {}
      BY <2>1 DEF Complete, ListsFor, IsList
    <3>2. Queued(sn) = {}
      BY <3>1 DEF Queued
    <3>3. QED BY <2>1, <3>1, <3>2 DEF Saying, Said
  <2>2. QED BY <2>1 DEF ToldAllButLast, AllButLast
<1>4. QED BY <1>1, <1>2, <1>3, PTL DEF Spec

-----------------------------------------------------------------------------
(* As long as nothing fails: an item is passed on until it is in the device *)
(* table, or a table is full.                                               *)

Stored(i) == i \in IdsIn(rest) \/ i \in IdsIn(cat) \/ Len(cat) = MaxRes

Answering ==
    \A d \in DOMAIN regs : regs[d] =>
        \/ d \in toDev
        \/ \E a \in fromDev : IsOf(a, d)
        \/ \A i \in Range(ItemsOf[d]) : Stored(i)

Adding ==
    \A i \in IdsIn(cat) : \/ \E k \in 1 .. Len(toMc) : Adds(k) /\ toMc[k].item.id = i
                          \/ i \in IdsIn(table) \/ Len(table) = MaxItem

LEMMA PassingInit == Init => Answering /\ Adding
BY FewIds DEF Init, Answering, Adding

\* What is stored stays stored.
LEMMA StoredStays ==
    ASSUME TypeOK, GbAddItem, NEW i, Stored(i)
    PROVE  Stored(i)'
<1>1. MaxRes \in Nat /\ cat \in Seq(Item) /\ Len(cat) <= MaxRes /\ rest # <<>> /\ rest \in Seq(Item)
  BY SizesAssumption, GbAddItemIs DEF TypeOK
<1>2. PICK item \in Item : item = Head(rest)
  BY GbAddItemIs
<1>3. CASE NoRoom(cat, item) /\ cat' = cat
  BY <1>3 DEF NoRoom, Stored
<1>4. CASE ~NoRoom(cat, item) /\ cat' = AddResItem(cat, item) /\ rest' = Tail(rest)
  <2>1. IdsIn(cat') = IdsIn(cat) \cup {item.id} /\ Len(cat') <= MaxRes /\ Len(cat) <= Len(cat')
        /\ cat' \in Seq(Item)
    BY <1>1, <1>4, AddResItemIs
  <2>2. IdsIn(rest) = {item.id} \cup IdsIn(rest')
    BY <1>1, <1>2, <1>4, IdsTail
  <2>3. Len(cat) \in Nat /\ Len(cat') \in Nat
    BY <1>1, <2>1, LenProperties
  <2>4. Len(cat) = MaxRes => Len(cat') = MaxRes
    BY <1>1, <2>1, <2>3
  <2>5. QED BY <2>1, <2>2, <2>4 DEF Stored
<1>5. QED BY <1>2, <1>3, <1>4, GbAddItemIs

LEMMA AnsweringNext ==
    ASSUME Typed, Answering, [Next]_vars, faults' = 0
    PROVE  Answering'
<1>0. TypeOK
  BY DEF Typed
<1>1. ASSUME NEW e \in Dev, Register(e)
      PROVE  Answering'
  <2>1. UNCHANGED <<toDev, fromDev, rest, cat>>
    BY <1>1 DEF Register
  <2>2. \A d \in DOMAIN regs' : regs'[d] => d \in DOMAIN regs /\ regs[d]
    BY <1>1 DEF Register
  <2>3. QED BY <2>1, <2>2 DEF Answering, Stored
<1>2. CASE GbSchedule
  <2>1. PICK failed : /\ toDev' = toDev \cup Queried(failed)
                      /\ regs' = [d \in DOMAIN regs |-> regs[d] \/ d \in Queried(failed)]
                      /\ UNCHANGED <<fromDev, rest, cat>>
    BY <1>2 DEF GbSchedule
  <2>2. \A d \in DOMAIN regs' : regs'[d] => d \in DOMAIN regs /\ (regs[d] \/ d \in toDev')
    BY <2>1
  <2>3. QED BY <2>1, <2>2 DEF Answering, Stored
<1>3. ASSUME NEW e \in toDev, DevAnswer(e)
      PROVE  Answering'
  <2>1. e \in Dev
    BY <1>0 DEF TypeOK
  <2>2. UNCHANGED <<regs, rest, cat>> /\ toDev \subseteq toDev' \cup {e}
    BY <1>0, <1>3, <2>1, DevAnswerIs
  <2>3. PICK a : fromDev' = fromDev \cup {a} /\ IsOf(a, e)
    BY <1>0, <1>3, <2>1, DevAnswerIs
  <2>4. QED BY <2>2, <2>3 DEF Answering, Stored
<1>4. ASSUME NEW a \in fromDev, GbCatalogAnswer(a)
      PROVE  Answering'
  <2>1. rest = <<>> /\ rest' = a /\ fromDev \subseteq fromDev' \cup {a} /\ UNCHANGED <<regs, toDev, cat>>
    BY <1>4 DEF GbCatalogAnswer, Idle
  <2>2. \A i : Stored(i) => Stored(i)'
    BY <2>1, FewIds DEF Stored
  <2>3. ASSUME NEW d \in DOMAIN regs, IsOf(a, d)
        PROVE  \A i \in Range(ItemsOf[d]) : Stored(i)'
    <3>1. d \in Dev
      BY <1>0 DEF TypeOK
    <3>2. IdsIn(rest') = Range(ItemsOf[d])
      BY <2>1, <2>3, <3>1, IsOfIds
    <3>3. QED BY <3>2 DEF Stored
  <2>4. QED BY <2>1, <2>2, <2>3 DEF Answering
<1>5. CASE GbAddItem
  <2>1. UNCHANGED <<regs, toDev, fromDev>>
    BY <1>5 DEF GbAddItem
  <2>2. \A i : Stored(i) => Stored(i)'
    BY <1>0, <1>5, StoredStays
  <2>3. QED BY <2>1, <2>2 DEF Answering
<1>6. CASE UNCHANGED <<regs, toDev, fromDev, rest, cat>>
  BY <1>6 DEF Answering, Stored
<1>7. ~Lose /\ ~(\E i \in Id : Switch(i))
  BY <1>0, Calm DEF Lose, Switch
<1>8. QED
  BY <1>1, <1>2, <1>3, <1>4, <1>5, <1>6, <1>7
     DEF Next, vars, gb, RegisterRefused, GbReceive, GbInvite, GbCatalogReply, Device, PlatformAsks,
         MsgServerTask, McAddItem, McAddItemRaced, McQueryCatalog, DevShedule, DevInvite

LEMMA AddingNext ==
    ASSUME Typed, Adding, [Next]_vars, faults' = 0
    PROVE  Adding'
<1>0. TypeOK /\ toMc \in Seq(ToMcMsg)
  BY DEF Typed, TypeOK
<1>1. CASE GbAddItem
  <2>1. PICK item \in Item : item = Head(rest)
    BY <1>0, <1>1, GbAddItemIs
  <2>2. table' = table /\ ~Fault("sendto")
    BY <1>0, <1>1, Calm DEF GbAddItem
  <2>3. CASE UNCHANGED <<cat, toMc>>
    BY <2>2, <2>3 DEF Adding, Adds
  <2>4. ASSUME NEW m \in ToMcMsg, m.type = "item", m.item = item, toMc' = Append(toMc, m),
               ~NoRoom(cat, item), cat' = AddResItem(cat, item)
        PROVE  Adding'
    <3>1. MaxRes \in Nat /\ cat \in Seq(Item) /\ Len(cat) <= MaxRes
      BY <1>0, SizesAssumption DEF TypeOK
    <3>2. IdsIn(cat') = IdsIn(cat) \cup {item.id}
      BY <2>4, <3>1, AddResItemIs
    <3>3. toMc \in Seq(ToMcMsg) /\ m \in ToMcMsg /\ toMc' = Append(toMc, m)
      BY <1>0, <2>4
    <3>4. /\ Len(toMc') \in 1 .. Len(toMc') /\ toMc'[Len(toMc')] = m
          /\ \A k \in 1 .. Len(toMc) : k \in 1 .. Len(toMc') /\ toMc'[k] = toMc[k]
      BY <3>3, AppendIs
    <3>5. QED BY <2>2, <2>4, <3>2, <3>4 DEF Adding, Adds
  <2>5. QED BY <1>0, <1>1, <2>1, <2>2, <2>3, <2>4, GbAddItemIs
<1>2. CASE PlatformAsks
  <2>1. PICK m \in ToMcMsg : m = [type |-> "query"]
    <3>1. [type |-> "query"] \in ToMcMsg
      BY DEF ToMcMsg
    <3>2. QED BY <3>1
  <2>2. toMc \in Seq(ToMcMsg) /\ m \in ToMcMsg /\ toMc' = Append(toMc, m)
    BY <1>0, <1>2, <2>1 DEF PlatformAsks
  <2>3. \A k \in 1 .. Len(toMc) : k \in 1 .. Len(toMc') /\ toMc'[k] = toMc[k]
    BY <2>2, AppendIs
  <2>4. UNCHANGED <<cat, table>>
    BY <1>2 DEF PlatformAsks, gb
  <2>5. QED BY <2>3, <2>4 DEF Adding, Adds
<1>3. CASE McAddItem \/ McAddItemRaced
  <2>1. /\ toMc # <<>> /\ Head(toMc).type = "item" /\ toMc' = Tail(toMc)
        /\ table' = AddItem(table, Head(toMc).item) /\ cat' = cat
    BY <1>3 DEF McAddItem, McAddItemRaced, gb
  <2>2. PICK item \in Item : item = Head(toMc).item
    BY <1>0, <2>1, TableTyped
  <2>3. MaxItem \in Nat /\ table \in Seq(Entry) /\ Len(table) <= MaxItem
    BY <1>0, SizesAssumption DEF TypeOK
  <2>4. IdsIn(table) \subseteq IdsIn(table') /\ (item.id \in IdsIn(table') \/ Len(table') = MaxItem)
    BY <2>1, <2>2, <2>3, AddItemIs
  <2>5. Len(table) = MaxItem => Len(table') = MaxItem
    BY <2>1, <2>2, <2>3, AddItemIs
  <2>6. /\ Head(toMc) = toMc[1]
        /\ \A k \in 1 .. Len(toMc) : k = 1 \/ (k - 1 \in 1 .. Len(toMc') /\ toMc'[k - 1] = toMc[k])
    BY <1>0, <2>1, TailIs
  <2>7. ASSUME NEW i \in IdsIn(cat')
        PROVE  \/ \E k \in 1 .. Len(toMc') : toMc'[k].type = "item" /\ toMc'[k].item.id = i
               \/ i \in IdsIn(table') \/ Len(table') = MaxItem
    <3>1. CASE i \in IdsIn(table) \/ Len(table) = MaxItem
      BY <2>4, <2>5, <3>1
    <3>2. ASSUME NEW k \in 1 .. Len(toMc), Adds(k), toMc[k].item.id = i
          PROVE  \/ \E j \in 1 .. Len(toMc') : toMc'[j].type = "item" /\ toMc'[j].item.id = i
                 \/ i \in IdsIn(table') \/ Len(table') = MaxItem
      BY <2>2, <2>4, <2>6, <3>2 DEF Adds
    <3>3. QED BY <2>1, <3>1, <3>2 DEF Adding
  <2>8. QED BY <2>7 DEF Adding, Adds
<1>4. CASE McQueryCatalog
  <2>1. toMc # <<>> /\ toMc' = Tail(toMc) /\ Head(toMc).type # "item" /\ UNCHANGED <<cat, table>>
    BY <1>4, McQueryCatalogIs
  <2>2. /\ Head(toMc) = toMc[1]
        /\ \A k \in 1 .. Len(toMc) : k = 1 \/ (k - 1 \in 1 .. Len(toMc') /\ toMc'[k - 1] = toMc[k])
    BY <1>0, <2>1, TailIs
  <2>3. QED BY <2>1, <2>2 DEF Adding, Adds
<1>5. ASSUME NEW k \in 1 .. Len(table), DevInvite(k)
      PROVE  Adding'
  <2>1. UNCHANGED <<cat, toMc>> /\ table' = Played(k)
    BY <1>5 DEF DevInvite, gb
  <2>2. Len(table') = Len(table) /\ \A j \in 1 .. Len(table) : table'[j].id = table[j].id
    BY <1>0, <2>1, PlayedIs
  <2>3. IdsIn(table') = IdsIn(table)
    BY <2>2, IdsSame
  <2>4. QED BY <2>1, <2>2, <2>3 DEF Adding, Adds
<1>6. CASE UNCHANGED <<cat, toMc, table>>
  BY <1>6 DEF Adding, Adds
<1>7. QED
  BY <1>1, <1>2, <1>3, <1>4, <1>5, <1>6
     DEF Next, vars, gb, RegisterRefused, Register, GbSchedule, GbReceive, GbCatalogAnswer, GbInvite,
         GbCatalogReply, Device, DevAnswer, Lose, Switch, MsgServerTask, DevShedule

-----------------------------------------------------------------------------
(* As long as nothing fails: what is passed on is the items' real status,   *)
(* and an entry that plays had its INVITE sent.                             *)

Real(item) == item.on = status[item.id]

Truth ==
    /\ \A a \in fromDev : AllReal(a)
    /\ AllReal(rest) /\ AllReal(table)
    /\ \A k \in 1 .. Len(toMc) : Adds(k) => Real(toMc[k].item)

Playing ==
    /\ raced = {}
    /\ \A i \in Id : Plays(table, i) => Sent(i) >= 1

LEMMA TruthInit == Init => Truth /\ Playing
BY DEF Init, Truth, Playing, AllReal, Plays

LEMMA TruthNext ==
    ASSUME Typed, Truth, [Next]_vars, faults' = 0
    PROVE  Truth'
<1>0. TypeOK /\ toMc \in Seq(ToMcMsg)
  BY DEF Typed, TypeOK
<1>1. \A f : ~Fault(f)
  BY <1>0, Calm
<1>2. status' = status
  <2>1. ASSUME NEW d \in toDev, DevAnswer(d)
        PROVE  status' = status
    BY <2>1 DEF DevAnswer
  <2>2. QED
    BY <1>1, <2>1 DEF Next, vars, gb, RegisterRefused, Register, GbSchedule, GbReceive,
       GbCatalogAnswer, GbAddItem, GbInvite, GbCatalogReply, Device, Lose, Switch, PlatformAsks,
       MsgServerTask, McAddItem, McAddItemRaced, McQueryCatalog, DevShedule, DevInvite
<1>3. ASSUME NEW d \in toDev, DevAnswer(d)
      PROVE  Truth'
  <2>1. d \in Dev
    BY <1>0 DEF TypeOK
  <2>2. PICK a : fromDev' = fromDev \cup {a} /\ AllReal(a)
    BY <1>0, <1>3, <2>1, DevAnswerIs
  <2>3. UNCHANGED <<rest, toMc, table>>
    BY <1>0, <1>3, <2>1, DevAnswerIs DEF Centre
  <2>4. QED BY <1>2, <2>2, <2>3 DEF Truth, AllReal, Adds, Real
<1>4. ASSUME NEW a \in fromDev, GbCatalogAnswer(a)
      PROVE  Truth'
  <2>1. rest' = a /\ fromDev' \subseteq fromDev /\ UNCHANGED <<toMc, table>>
    BY <1>4 DEF GbCatalogAnswer
  <2>2. QED BY <1>2, <2>1 DEF Truth, AllReal, Adds, Real
<1>5. CASE GbAddItem
  <2>1. PICK item \in Item : item = Head(rest)
    BY <1>0, <1>5, GbAddItemIs
  <2>2. rest # <<>> /\ rest \in Seq(Item)
    BY <1>0, <1>5, GbAddItemIs DEF TypeOK
  <2>3. UNCHANGED <<fromDev, table>>
    BY <1>5 DEF GbAddItem
  <2>4. CASE rest' = <<>> /\ toMc' = toMc
    BY <1>2, <2>3, <2>4 DEF Truth, AllReal, Adds, Real
  <2>5. ASSUME NEW m \in ToMcMsg, m.item = item, toMc' = Append(toMc, m), rest' = Tail(rest)
        PROVE  Truth'
    <3>1. /\ 1 \in 1 .. Len(rest) /\ item = rest[1]
          /\ \A k \in 1 .. Len(rest') : k + 1 \in 1 .. Len(rest) /\ rest'[k] = rest[k + 1]
      BY <2>1, <2>2, <2>5, TailIs
    <3>2. Real(item) /\ \A k \in 1 .. Len(rest') : Real(rest'[k])
      BY <3>1 DEF Truth, AllReal, Real
    <3>3. toMc \in Seq(ToMcMsg) /\ m \in ToMcMsg /\ toMc' = Append(toMc, m)
      BY <1>0, <2>5
    <3>4. \A k \in 1 .. Len(toMc') : \/ k \in 1 .. Len(toMc) /\ toMc'[k] = toMc[k]
                                     \/ k = Len(toMc') /\ toMc'[k] = m
      BY <3>3, AppendIs
    <3>5. QED BY <1>2, <2>3, <2>5, <3>2, <3>4 DEF Truth, AllReal, Adds, Real
  <2>6. QED BY <1>0, <1>1, <1>5, <2>1, <2>4, <2>5, GbAddItemIs
<1>6. CASE PlatformAsks
  <2>1. PICK m \in ToMcMsg : m = [type |-> "query"] /\ m.type # "item"
    <3>1. [type |-> "query"] \in ToMcMsg
      BY DEF ToMcMsg
    <3>2. QED BY <3>1
  <2>2. toMc \in Seq(ToMcMsg) /\ m \in ToMcMsg /\ toMc' = Append(toMc, m)
    BY <1>0, <1>6, <2>1 DEF PlatformAsks
  <2>3. \A k \in 1 .. Len(toMc') : \/ k \in 1 .. Len(toMc) /\ toMc'[k] = toMc[k]
                                   \/ k = Len(toMc') /\ toMc'[k] = m
    BY <2>2, AppendIs
  <2>4. UNCHANGED <<fromDev, rest, table>>
    BY <1>6 DEF PlatformAsks, gb
  <2>5. QED BY <1>2, <2>1, <2>3, <2>4 DEF Truth, AllReal, Adds, Real
<1>7. CASE McAddItem
  <2>1. /\ toMc # <<>> /\ Head(toMc).type = "item" /\ toMc' = Tail(toMc)
        /\ table' = AddItem(table, Head(toMc).item) /\ UNCHANGED <<fromDev, rest>>
    BY <1>7 DEF McAddItem, gb
  <2>2. PICK item \in Item : item = Head(toMc).item
    BY <1>0, <2>1, TableTyped
  <2>3. /\ 1 \in 1 .. Len(toMc) /\ Head(toMc) = toMc[1]
        /\ \A k \in 1 .. Len(toMc') : k + 1 \in 1 .. Len(toMc) /\ toMc'[k] = toMc[k + 1]
    BY <1>0, <2>1, TailIs
  <2>4. item.on = status[item.id]
    BY <2>1, <2>2, <2>3 DEF Truth, Adds, Real
  <2>5. MaxItem \in Nat /\ table \in Seq(Entry) /\ Len(table) <= MaxItem
    BY <1>0, SizesAssumption DEF TypeOK
  <2>6. PICK p : p = table'
    OBVIOUS
  <2>7. AllReal(p)
    BY <2>1, <2>2, <2>4, <2>5, <2>6, AddItemIs DEF Truth
  <2>8. AllReal(table)'
    BY <1>2, <2>6, <2>7 DEF AllReal
  <2>9. QED BY <1>2, <2>1, <2>3, <2>8 DEF Truth, AllReal, Adds, Real
<1>8. CASE McQueryCatalog
  <2>1. toMc # <<>> /\ toMc' = Tail(toMc) /\ UNCHANGED <<fromDev, rest, table>>
    BY <1>8, McQueryCatalogIs
  <2>2. \A k \in 1 .. Len(toMc') : k + 1 \in 1 .. Len(toMc) /\ toMc'[k] = toMc[k + 1]
    BY <1>0, <2>1, AddsTail
  <2>3. QED BY <1>2, <2>1, <2>2 DEF Truth, AllReal, Adds, Real
<1>9. ASSUME NEW k \in 1 .. Len(table), DevInvite(k)
      PROVE  Truth'
  <2>1. UNCHANGED <<fromDev, rest, toMc>> /\ table' = Played(k)
    BY <1>9 DEF DevInvite, gb
  <2>2. Len(table') = Len(table)
        /\ \A j \in 1 .. Len(table) : table'[j].id = table[j].id /\ table'[j].on = table[j].on
    BY <1>0, <2>1, PlayedIs
  <2>3. QED BY <1>2, <2>1, <2>2 DEF Truth, AllReal, Adds, Real
<1>10. CASE UNCHANGED <<fromDev, rest, toMc, table>>
  BY <1>2, <1>10 DEF Truth, AllReal, Adds, Real
<1>11. QED
  BY <1>1, <1>3, <1>4, <1>5, <1>6, <1>7, <1>8, <1>9, <1>10
     DEF Next, vars, gb, RegisterRefused, Register, GbSchedule, GbReceive, GbInvite,
         GbCatalogReply, Device, Lose, Switch, MsgServerTask, McAddItemRaced, DevShedule

LEMMA PlayingNext ==
    ASSUME Typed, Entries, Invited, Playing, [Next]_vars, faults' = 0
    PROVE  Playing'
<1>0. TypeOK /\ toGb \in Seq(ToGbMsg) /\ \A f : ~Fault(f)
  BY Calm DEF Typed, TypeOK
<1>1. CASE McAddItem
  <2>1. toMc # <<>> /\ Head(toMc).type = "item" /\ table' = AddItem(table, Head(toMc).item)
        /\ UNCHANGED <<toGb, invited, raced>>
    BY <1>1 DEF McAddItem
  <2>2. PICK item \in Item : item = Head(toMc).item
    BY <1>0, <2>1, TableTyped
  <2>3. MaxItem \in Nat /\ table \in Seq(Entry) /\ Len(table) <= MaxItem
    BY <1>0, SizesAssumption DEF TypeOK
  <2>4. \A i : Plays(table', i) <=> Plays(table, i)
    BY <2>1, <2>2, <2>3, AddItemIs
  <2>5. \A i \in Id : Sent(i)' = Sent(i)
    BY <2>1 DEF Sent, Invites
  <2>6. QED BY <2>1, <2>4, <2>5 DEF Playing
<1>2. ASSUME NEW k \in 1 .. Len(table), DevInvite(k)
      PROVE  Playing'
  <2>1. PICK r \in Id : r = table[k].id
    BY <1>0, PlayedIs DEF Entry
  <2>2. ~table[k].play /\ table' = Played(k) /\ UNCHANGED <<invited, raced>>
    BY <1>2 DEF DevInvite
  <2>3. \A i : i # r => (Plays(table', i) <=> Plays(table, i))
    BY <1>0, <2>1, <2>2, NotYetPlayed
  <2>4. PICK m \in ToGbMsg : m = [type |-> "invite", id |-> r] /\ m.type = "invite" /\ m.id = r
    <3>1. [type |-> "invite", id |-> r] \in ToGbMsg
      BY DEF ToGbMsg
    <3>2. QED BY <3>1
  <2>5. toGb' = Append(toGb, m)
    BY <1>0, <1>2, <2>1, <2>4 DEF DevInvite
  <2>6. ASSUME NEW i \in Id, Plays(table', i)
        PROVE  Sent(i)' >= 1
    <3>1. Cardinality(Invites(i)) \in Nat /\ invited[i] \in Nat /\ Sent(i) \in Nat
      BY <1>0, InvitesCount
    <3>2. toGb \in Seq(ToGbMsg) /\ m \in ToGbMsg /\ toGb' = Append(toGb, m)
      BY <1>0, <2>5
    <3>3. Cardinality(Invites(i)') = IF IsInvite(m, i) THEN Cardinality(Invites(i)) + 1
                                     ELSE Cardinality(Invites(i))
      BY <3>2, InvitesAppend
    <3>4. invited'[i] = invited[i]
      BY <2>2
    <3>5. Sent(i)' = IF IsInvite(m, i) THEN Sent(i) + 1 ELSE Sent(i)
      BY <3>1, <3>3, <3>4 DEF Sent
    <3>6. IsInvite(m, i) <=> i = r
      BY <2>4 DEF IsInvite
    <3>7. IsInvite(m, i) \/ Sent(i) >= 1
      BY <2>3, <2>6, <3>6 DEF Playing
    <3>8. QED BY <3>1, <3>5, <3>7
  <2>7. QED BY <2>2, <2>6 DEF Playing
<1>3. CASE GbReceive
  <2>1. \A i \in Id : Sent(i)' = Sent(i)
    BY <1>0, <1>3, SentOnce
  <2>2. UNCHANGED <<table, raced>>
    BY <1>3 DEF GbReceive, GbCatalogAnswer, GbAddItem, GbInvite, GbCatalogReply
  <2>3. QED BY <2>1, <2>2 DEF Playing
<1>4. CASE McQueryCatalog
  <2>1. UNCHANGED <<table, invited, raced>>
    BY <1>4, McQueryCatalogIs
  <2>2. PICK msgs \in Seq(ToGbMsg) :
           toGb' = toGb \o msgs /\ \A k \in 1 .. Len(msgs) : msgs[k].type # "invite"
    BY <1>4, McQueryCatalogIs
  <2>3. \A i \in Id : Invites(i)' = Invites(i)
    BY <1>0, <2>2, InvitesConcat
  <2>4. \A i \in Id : Sent(i)' = Sent(i)
    BY <2>1, <2>3 DEF Sent
  <2>5. QED BY <2>1, <2>4 DEF Playing
<1>5. CASE UNCHANGED <<toGb, table, invited, raced>>
  BY <1>5 DEF Playing, Sent, Invites
<1>6. ~McAddItemRaced
  BY <1>0 DEF McAddItemRaced
<1>7. QED
  BY <1>1, <1>2, <1>3, <1>4, <1>5, <1>6
     DEF Next, vars, RegisterRefused, Register, GbSchedule, Device, DevAnswer, Lose, Switch,
         PlatformAsks, MsgServerTask, DevShedule

-----------------------------------------------------------------------------
(* When nothing fails and all is quiet. *)

All == UNION {Range(ItemsOf[d]) : d \in DOMAIN regs}

LEMMA AllFinite ==
    ASSUME TypeOK
    PROVE  IsFiniteSet(All)
<1>1. IsFiniteSet(DOMAIN regs)
  BY DevAssumption, FS_Subset DEF TypeOK
<1>2. \A d \in DOMAIN regs : IsFiniteSet(Range(ItemsOf[d]))
  <2>1. TAKE d \in DOMAIN regs
  <2>2. PICK s : s = ItemsOf[d]
    OBVIOUS
  <2>3. s \in Seq(Range(s))
    BY <2>2, DevAssumption DEF TypeOK
  <2>4. PICK n \in Nat : n = Len(s) /\ DOMAIN s = 1 .. n
    BY <2>3, LenProperties
  <2>5. IsFiniteSet(1 .. n)
    BY <2>4, FS_Interval
  <2>6. [k \in 1 .. n |-> s[k]] \in Surjection(1 .. n, Range(s))
    BY <2>4 DEF Surjection, Range
  <2>7. QED BY <2>2, <2>5, <2>6, FS_Surjection
<1> DEFINE Sets == {Range(ItemsOf[d]) : d \in DOMAIN regs}
<1>3. [d \in DOMAIN regs |-> Range(ItemsOf[d])] \in Surjection(DOMAIN regs, Sets)
  BY DEF Surjection
<1>4. IsFiniteSet(Sets)
  BY <1>1, <1>3, FS_Surjection
<1>5. \A T \in Sets : IsFiniteSet(T)
  BY <1>2
<1>6. QED BY <1>4, <1>5, FS_UNION DEF All

LEMMA MinIs ==
    ASSUME NEW S \in SUBSET Nat, NEW n \in S, \A m \in S : n <= m
    PROVE  Min(S) = n
<1>1. \E x \in S : \A y \in S : x =< y
  OBVIOUS
<1>2. Min(S) \in S /\ \A y \in S : Min(S) =< y
  BY <1>1 DEF Min
<1>3. PICK m \in Nat : m = Min(S)
  BY <1>2
<1>4. m =< n /\ n <= m /\ n \in Nat
  BY <1>2, <1>3
<1>5. m = n
  BY <1>4
<1>6. QED BY <1>3, <1>5

\* A table that takes what is not there yet until it is full holds as much of
\* it as there is room for.
LEMMA AsMany ==
    ASSUME NEW S, NEW t \in Seq(S), Distinct(t), NEW N \in Nat, Len(t) <= N,
           NEW K, IsFiniteSet(K), IdsIn(t) \subseteq K, Len(t) = N \/ K \subseteq IdsIn(t)
    PROVE  /\ Cardinality(K) \in Nat /\ Len(t) <= Cardinality(K)
           /\ Len(t) = N \/ Len(t) = Cardinality(K)
<1>1. Cardinality(IdsIn(t)) = Len(t)
  BY DistinctCount
<1>2. Cardinality(K) \in Nat /\ Cardinality(IdsIn(t)) <= Cardinality(K)
  BY FS_CardinalityType, FS_Subset
<1>3. K \subseteq IdsIn(t) => K = IdsIn(t)
  OBVIOUS
<1>4. QED BY <1>1, <1>2, <1>3

Known == Typed /\ Sources /\ Entries /\ Invited /\ (faults = 0 => Answering /\ Adding /\ Truth /\ Playing)

LEMMA QuietKnown ==
    ASSUME Known, Quiet, faults = 0
    PROVE  /\ Len(table) = Min({Cardinality(All), MaxRes, MaxItem})
           /\ \A i \in IdsIn(table) : status[i] => invited[i] = 1
<1>1. /\ TypeOK /\ Sources /\ Entries /\ Invited
      /\ Answering /\ Adding /\ Truth /\ Playing
  BY DEF Known, Typed
<1>2. /\ cat \in Seq(Item) /\ Len(cat) \in Nat /\ Len(cat) <= MaxRes
      /\ table \in Seq(Entry) /\ Len(table) \in Nat /\ Len(table) <= MaxItem
      /\ MaxRes \in Nat /\ MaxItem \in Nat
  BY <1>1, LenProperties, SizesAssumption DEF TypeOK
<1>3. Len(cat) <= Cardinality(All) /\ Cardinality(All) \in Nat
      /\ (Len(cat) = MaxRes \/ Len(cat) = Cardinality(All))
  <2>1. Distinct(cat)
    BY <1>1 DEF Entries
  <2>2. IsFiniteSet(All)
    BY <1>1, AllFinite
  <2>3. IdsIn(cat) \subseteq All
    BY <1>1 DEF Sources, Ours, All
  <2>4. Len(cat) = MaxRes \/ All \subseteq IdsIn(cat)
    <3>1. \A d \in DOMAIN regs : \A i \in Range(ItemsOf[d]) : i \in IdsIn(cat) \/ Len(cat) = MaxRes
      BY <1>1, FewIds DEF Answering, Stored, Quiet
    <3>2. QED BY <3>1 DEF All
  <2>5. QED BY <1>2, <2>1, <2>2, <2>3, <2>4, AsMany
<1>4. Len(table) <= Len(cat) /\ (Len(table) = MaxItem \/ Len(table) = Len(cat))
  <2>1. Distinct(table) /\ IdsIn(table) \subseteq IdsIn(cat)
    BY <1>1 DEF Entries
  <2>2. IsFiniteSet(IdsIn(cat)) /\ Cardinality(IdsIn(cat)) = Len(cat)
    BY <1>1, <1>2, DistinctCount DEF Entries
  <2>3. Len(table) = MaxItem \/ IdsIn(cat) \subseteq IdsIn(table)
    <3>1. toMc = <<>>
      BY DEF Quiet
    <3>2. QED BY <1>1, <3>1 DEF Adding
  <2>4. QED BY <1>2, <2>1, <2>2, <2>3, AsMany
<1>5. Len(table) = Min({Cardinality(All), MaxRes, MaxItem})
  <2>1. PICK n \in Nat, c \in Nat, a \in Nat, r \in Nat, m \in Nat :
           n = Len(table) /\ c = Len(cat) /\ a = Cardinality(All) /\ r = MaxRes /\ m = MaxItem
    BY <1>2, <1>3
  <2>2. n \in {a, r, m} /\ \A x \in {a, r, m} : n <= x
    BY <1>2, <1>3, <1>4, <2>1
  <2>3. {a, r, m} \in SUBSET Nat
    OBVIOUS
  <2>4. Min({a, r, m}) = n
    BY <2>2, <2>3, MinIs
  <2>5. QED BY <2>1, <2>4
<1>6. ASSUME NEW i \in IdsIn(table), status[i]
      PROVE  invited[i] = 1
  <2>1. PICK k \in 1 .. Len(table) : table[k].id = i
    BY DEF IdsIn
  <2>2. i \in Id
    <3>1. table[k] \in Entry
      BY <1>2, ElementOfSeq
    <3>2. QED BY <2>1, <3>1 DEF Entry
  <2>3. table[k].on
    BY <1>1, <1>6, <2>1 DEF Truth, AllReal
  <2>4. Plays(table, i)
    BY <2>1, <2>3 DEF Quiet, Plays
  <2>5. Invites(i) = {}
    BY DEF Quiet, Invites
  <2>6. Sent(i) = invited[i] /\ invited[i] \in Nat
    BY <1>1, <2>2, <2>5, FS_EmptySet, InvitesCount DEF Sent
  <2>7. Sent(i) <= One(i \in raced) + One(Plays(table, i)) /\ Sent(i) >= 1 /\ i \notin raced
    BY <1>1, <2>2, <2>4 DEF Invited, Playing
  <2>8. QED BY <2>4, <2>6, <2>7 DEF One
<1>7. QED BY <1>5, <1>6

\* When nothing fails, then once all is quiet the device table holds as many of
\* the registered devices' items as both tables have room for, and those that
\* are on were invited.
THEOREM AllItemsKnown == Spec => []ItemsKnown
<1>1. Init => Known
  BY TypedInit, SourcesInit, EntriesInit, InvitedInit, PassingInit, TruthInit DEF Known
<1>2. Known /\ [Next]_vars => Known'
  <2>1. ASSUME Known, [Next]_vars
        PROVE  Known'
    <3>1. Typed' /\ Sources' /\ Entries' /\ Invited'
      BY <2>1, TypedNext, SourcesNext, EntriesNext, InvitedNext DEF Known
    <3>2. faults' = 0 => faults = 0
      BY <2>1, Calm DEF Known, Typed
    <3>3. faults' = 0 => Answering' /\ Adding' /\ Truth' /\ Playing'
      BY <2>1, <3>2, AnsweringNext, AddingNext, TruthNext, PlayingNext DEF Known
    <3>4. QED BY <3>1, <3>3 DEF Known
  <2>2. QED BY <2>1
<1>3. Known => ItemsKnown
  BY QuietKnown DEF ItemsKnown, All
<1>4. QED BY <1>1, <1>2, <1>3, PTL DEF Spec
=============================================================================
