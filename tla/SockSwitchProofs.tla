-------------------------- MODULE SockSwitchProofs --------------------------
(***************************************************************************)
(* Proofs about SockSwitch, for any users, addresses, sizes of the pools   *)
(* and of the hash, and however many commands come late.                   *)
(***************************************************************************)
EXTENDS SockSwitch, FiniteSetTheorems, SequenceTheorems, WellFoundedInduction, TLAPS

-----------------------------------------------------------------------------
(* The inductive invariant, as a property of any tables w: the operations  *)
(* pass through tables that are not those of any state.                    *)

Placed(w) ==
    /\ \A m \in Mmb : (m \in w.free) <=> (\A g \in Grp : m \notin w.list[g])
    /\ \A m \in Mmb, g \in Grp : m \in w.list[g] =>
            /\ w.mmb[m].rcv = g
            /\ \A h \in 0 .. HashSize - 1 :
                  (m \in w.bucket[h]) <=> (h = Hash(w.grp[g].local, w.mmb[m].src))
    /\ \A m \in w.free, h \in 0 .. HashSize - 1 : m \notin w.bucket[h]

Slots(w) ==
    /\ \A g \in Grp \ Using(w) : Idle(w, g) /\ ~w.grp[g].filter
    /\ \A g, h \in Using(w) : w.grp[g].local = w.grp[h].local => g = h
    /\ \A g \in Using(w) : w.grp[g].sock

\* No source has more members than TransData serves.
Bounded(w) ==
    \A g \in Grp, s \in Src \cup {0} : Cardinality(SameSrc(w, g, s)) <= MaxSnd

Sound(w) == w \in Tables /\ Placed(w) /\ Slots(w) /\ Bounded(w)

\* Every group in use is needed, those in gs perhaps not.
NeededBut(w, gs) == \A g \in Using(w) \ gs : ~Idle(w, g)

Good(w) == Sound(w) /\ NeededBut(w, {})

GoodResult(r) == Good(r.w) /\ r.ret \in {"OK", "ERROR"}

IInv == TypeOK /\ Good(sw)

-----------------------------------------------------------------------------
(* Slots and keys. *)

\* A key is that of a bucket.
LEMMA HashType ==
    ASSUME NEW l \in Nat, NEW s \in Nat
    PROVE  Hash(l, s) \in 0 .. HashSize - 1
BY PoolAssumption DEF Hash

\* What the assumptions say of addresses and slots.
LEMMA Addresses == /\ Local \cup {0} \subseteq Nat
                   /\ Src \cup {0} \subseteq Nat
                   /\ 0 \notin Local
                   /\ 0 \notin Grp
                   /\ Grp \subseteq Nat
BY AddressAssumption, PoolAssumption DEF Grp

\* A set of slots has a first one.
LEMMA FirstOf ==
    ASSUME NEW S \in SUBSET Grp, S # {}
    PROVE  \E g \in S : \A h \in S : g <= h
<1>1. S \subseteq Nat
  BY Addresses
<1>2. \E g \in S : \A h \in S : <<h, g>> \notin OpToRel(<, Nat)
  BY <1>1, NatLessThanWellFounded, WFMin, Zenon
<1>3. PICK g \in S : \A h \in S : <<h, g>> \notin OpToRel(<, Nat)
  BY <1>2
<1>4. ASSUME NEW h \in S PROVE g <= h
  <2>1. ~(h < g)
    BY <1>1, <1>3 DEF OpToRel
  <2>2. QED BY <1>1, <2>1
<1>5. QED BY <1>4

\* AllocGrp finds a slot when one is not in use.
LEMMA FirstUnusedIsUnused ==
    ASSUME NEW w, Using(w) # Grp
    PROVE  FirstUnused(w) \in Grp \ Using(w)
<1>1. Grp \ Using(w) # {} /\ Grp \ Using(w) \in SUBSET Grp
  BY DEF Using
<1>2. \E g \in Grp \ Using(w) : \A h \in Grp \ Using(w) : g <= h
  BY <1>1, FirstOf, Zenon
<1>3. QED BY <1>2 DEF FirstUnused

\* GetRcvGrp finds the slot in use for an address, if there is one.
LEMMA GetRcvGrpFinds ==
    ASSUME NEW w, NEW l
    PROVE  \/ /\ GetRcvGrp(w, l) \in Using(w)
              /\ w.grp[GetRcvGrp(w, l)].local = l
           \/ /\ GetRcvGrp(w, l) = NoGrp
              /\ \A g \in Using(w) : w.grp[g].local # l
<1> DEFINE at == {g \in Using(w) : w.grp[g].local = l}
<1>1. CASE at = {}
  BY <1>1 DEF GetRcvGrp
<1>2. CASE at # {}
  <2>1. at \in SUBSET Grp
    BY DEF Using
  <2>2. \E g \in at : \A h \in at : g <= h
    BY <1>2, <2>1, FirstOf, Zenon
  <2>3. GetRcvGrp(w, l) = CHOOSE g \in at : \A h \in at : g <= h
    BY <1>2 DEF GetRcvGrp
  <2>4. GetRcvGrp(w, l) \in at
    BY <2>2, <2>3
  <2>5. QED BY <2>4
<1>3. QED BY <1>1, <1>2

-----------------------------------------------------------------------------
(* What the operations are built from keeps the tables sound. *)

\* The members of one source are finitely many.
LEMMA MembersFinite ==
    ASSUME NEW w, w \in Tables, NEW g \in Grp, NEW s
    PROVE  /\ IsFiniteSet(SameSrc(w, g, s)) /\ Cardinality(SameSrc(w, g, s)) \in Nat
           /\ \A T \in SUBSET SameSrc(w, g, s) :
                 Cardinality(T) \in Nat /\ Cardinality(T) <= Cardinality(SameSrc(w, g, s))
<1>1. SameSrc(w, g, s) \in SUBSET Mmb
  BY DEF SameSrc, Tables
<1>2. IsFiniteSet(SameSrc(w, g, s))
  BY <1>1, PoolAssumption, FS_Subset
<1>3. QED BY <1>2, FS_Subset, FS_CardinalityType

\* As many members for each source as before.
LEMMA SameBounded ==
    ASSUME NEW w, Bounded(w), NEW o, o.list = w.list, o.mmb = w.mmb
    PROVE  Bounded(o)
BY DEF Bounded, SameSrc

\* Tables with other slots.
LEMMA GrpSet ==
    ASSUME NEW w \in Tables, NEW G \in [Grp -> Slot]
    PROVE  /\ [w EXCEPT !.grp = G] \in Tables
           /\ [w EXCEPT !.grp = G] = [grp |-> G, list |-> w.list, bucket |-> w.bucket,
                                       mmb |-> w.mmb, free |-> w.free]
<1>1. [w EXCEPT !.grp = G] = [grp |-> G, list |-> w.list, bucket |-> w.bucket,
                               mmb |-> w.mmb, free |-> w.free]
  BY DEF Tables
<1>2. QED BY <1>1 DEF Tables

\* A slot with another dump, filter or socket.
LEMMA SlotFields ==
    ASSUME NEW r \in Slot, NEW D \in SUBSET DsId, NEW b \in BOOLEAN
    PROVE  /\ [r EXCEPT !.dump = D] = [local |-> r.local, sock |-> r.sock,
                                        dump |-> D, filter |-> r.filter]
           /\ [r EXCEPT !.filter = b] = [local |-> r.local, sock |-> r.sock,
                                          dump |-> r.dump, filter |-> b]
           /\ [r EXCEPT !.sock = b] = [local |-> r.local, sock |-> b,
                                        dump |-> r.dump, filter |-> r.filter]
BY DEF Slot

WithSlot(w, g, r) == [w EXCEPT !.grp = [w.grp EXCEPT ![g] = r]]

\* Slot r may take the place of g: it keeps the address, and the socket or
\* nothing at all.
Fits(w, g, r) ==
    /\ r \in Slot
    /\ r.local = w.grp[g].local
    /\ g \in Using(w) => r.sock
    /\ g \notin Using(w) => r.dump = {} /\ ~r.filter

\* o is w with slot g replaced by r, and as good.
SlotIs(w, g, r, o) ==
    /\ Sound(o)
    /\ Using(o) = Using(w)
    /\ o.mmb = w.mmb /\ o.list = w.list /\ o.free = w.free
    /\ o.grp[g] = r /\ \A h \in Grp \ {g} : o.grp[h] = w.grp[h]
    /\ NeededBut(w, {g}) => NeededBut(o, {g})
    /\ NeededBut(w, {}) /\ (Idle(o, g) => Idle(w, g)) => NeededBut(o, {})
    /\ NeededBut(w, {g}) /\ r.dump # {} => NeededBut(o, {})

\* A slot may be changed as long as it fits.
LEMMA SlotChanged ==
    ASSUME NEW w, Sound(w), NEW g \in Grp, NEW r, Fits(w, g, r)
    PROVE  SlotIs(w, g, r, WithSlot(w, g, r))
<1> DEFINE o == WithSlot(w, g, r)
           G == [w.grp EXCEPT ![g] = r]
<1>1. w \in Tables /\ G \in [Grp -> Slot]
  BY DEF Sound, Tables, Fits
<1> HIDE DEF G, o
<1>2. /\ o \in Tables
      /\ o = [grp |-> G, list |-> w.list, bucket |-> w.bucket, mmb |-> w.mmb, free |-> w.free]
  BY <1>1, GrpSet, Zenon DEF G, WithSlot, o
<1>3. /\ o.grp = [w.grp EXCEPT ![g] = r]
      /\ o.list = w.list /\ o.bucket = w.bucket /\ o.mmb = w.mmb /\ o.free = w.free
  BY <1>2 DEF G
<1>4. o.grp[g] = r /\ \A h \in Grp \ {g} : o.grp[h] = w.grp[h]
  BY <1>1, <1>3 DEF Tables
<1>5. \A h \in Grp : o.grp[h].local = w.grp[h].local
  BY <1>4 DEF Fits
<1>6. Using(o) = Using(w)
  BY <1>5 DEF Using
<1>7. Placed(o)
  BY <1>3, <1>5 DEF Sound, Placed
<1>8. Slots(o)
  BY <1>3, <1>4, <1>5, <1>6 DEF Sound, Slots, Idle, Using, Fits
<1>9. /\ NeededBut(w, {g}) => NeededBut(o, {g})
      /\ NeededBut(w, {}) /\ (Idle(o, g) => Idle(w, g)) => NeededBut(o, {})
      /\ NeededBut(w, {g}) /\ r.dump # {} => NeededBut(o, {})
  BY <1>3, <1>4, <1>6 DEF NeededBut, Idle, Using
<1>10. Bounded(o)
  BY <1>3, SameBounded DEF Sound
<1>11. QED BY <1>2, <1>3, <1>4, <1>6, <1>7, <1>8, <1>9, <1>10 DEF Sound, SlotIs, o

\* Members leave (FreeMmb, RemovefromSndHash).
LEMMA WithoutSound ==
    ASSUME NEW w, Sound(w), NEW ms \in SUBSET UNION {w.list[g] : g \in Grp}
    PROVE  Sound(Without(w, ms)) /\ Using(Without(w, ms)) = Using(w)
<1> DEFINE v == Without(w, ms)
<1>0. ms \in SUBSET Mmb
  BY DEF Tables, Sound
<1>1. v \in Tables /\ Using(v) = Using(w) /\ ms \in SUBSET Mmb
  BY <1>0 DEF Without, Tables, Sound, BlankMmb, Using
<1>2. ASSUME NEW m \in Mmb PROVE (m \in v.free) <=> (\A g \in Grp : m \notin v.list[g])
  BY <1>1 DEF Without, Sound, Placed
<1>3. ASSUME NEW m \in Mmb, NEW g \in Grp, m \in v.list[g], NEW h \in 0 .. HashSize - 1
      PROVE  /\ v.mmb[m].rcv = g
             /\ (m \in v.bucket[h]) <=> (h = Hash(v.grp[g].local, v.mmb[m].src))
  <2>1. m \in w.list[g] /\ m \notin ms
    BY <1>3 DEF Without
  <2>2. v.mmb[m] = w.mmb[m] /\ v.grp = w.grp
    BY <2>1 DEF Without
  <2>3. (m \in v.bucket[h]) <=> (m \in w.bucket[h])
    BY <2>1 DEF Without
  <2>4. QED BY <2>1, <2>2, <2>3 DEF Sound, Placed
<1>4. ASSUME NEW m \in v.free, NEW h \in 0 .. HashSize - 1
      PROVE  m \notin v.bucket[h]
  <2>1. CASE m \in ms
    <3>1. PICK g \in Grp : m \in w.list[g]
      BY <2>1
    <3>2. /\ w.mmb[m].rcv = g
          /\ (m \in w.bucket[h]) <=> (h = Bucket(w, g, m))
      BY <1>1, <2>1, <3>1 DEF Sound, Placed, Bucket
    <3>3. QED BY <2>1, <3>2 DEF Without
  <2>2. CASE m \in w.free
    BY <2>2 DEF Without, Sound, Placed
  <2>3. QED BY <1>4, <2>1, <2>2 DEF Without
<1>5. Placed(v)
  <2>1. 0 \in 0 .. HashSize - 1
    BY PoolAssumption
  <2>2. \A m \in Mmb, g \in Grp : m \in v.list[g] => v.mmb[m].rcv = g
    BY <1>3, <2>1
  <2>3. QED BY <1>2, <1>3, <1>4, <2>2 DEF Placed
<1>6. Slots(v)
  BY <1>1 DEF Slots, Sound, Without, Idle, Using
<1>7. Bounded(v)
  <2>1. ASSUME NEW g \in Grp, NEW s \in Src \cup {0}
        PROVE  Cardinality(SameSrc(v, g, s)) <= MaxSnd
    <3>1. v.list[g] = w.list[g] \ ms /\ v.list[g] \subseteq Mmb
      BY <1>1 DEF Without, Tables
    <3>2. \A m \in v.list[g] : v.mmb[m] = w.mmb[m]
      BY <3>1 DEF Without
    <3>3. SameSrc(v, g, s) \in SUBSET SameSrc(w, g, s)
      BY <3>1, <3>2 DEF SameSrc
    <3>4. Cardinality(SameSrc(w, g, s)) <= MaxSnd /\ w \in Tables
      BY DEF Sound, Bounded
    <3> HIDE DEF v
    <3>5. QED BY <3>3, <3>4, MembersFinite, PoolAssumption
  <2>2. QED BY <2>1 DEF Bounded
<1>8. QED BY <1>1, <1>5, <1>6, <1>7 DEF Sound

\* Groups that nobody needs are freed (FreeGrp).
LEMMA FreedIfIdleSound ==
    ASSUME NEW w, Sound(w), NEW gs \in SUBSET Grp
    PROVE  /\ Sound(FreedIfIdle(w, gs))
           /\ NeededBut(w, gs) => Good(FreedIfIdle(w, gs))
<1> DEFINE v == FreedIfIdle(w, gs)
<1> DEFINE G == [g \in Grp |-> IF g \in gs /\ Idle(w, g) THEN BlankGrp ELSE w.grp[g]]
<1>0. w \in Tables /\ G \in [Grp -> Slot]
  BY DEF Sound, Tables, BlankGrp, Slot
<1>1. /\ v \in Tables
      /\ \A g \in Grp : v.grp[g] = IF g \in gs /\ Idle(w, g) THEN BlankGrp ELSE w.grp[g]
      /\ v.list = w.list /\ v.bucket = w.bucket /\ v.mmb = w.mmb /\ v.free = w.free
  <2>1. v = [w EXCEPT !.grp = G]
    BY Zenon DEF FreedIfIdle
  <2>2. \A g \in Grp : G[g] = IF g \in gs /\ Idle(w, g) THEN BlankGrp ELSE w.grp[g]
    OBVIOUS
  <2> HIDE DEF v, G
  <2>3. v \in Tables /\ v = [grp |-> G, list |-> w.list, bucket |-> w.bucket,
                               mmb |-> w.mmb, free |-> w.free]
    BY <1>0, <2>1, GrpSet, Zenon
  <2>4. QED BY <2>2, <2>3
<1>2. \A g \in Grp, m \in Mmb : m \in w.list[g] => v.grp[g] = w.grp[g]
  BY <1>1 DEF Idle
<1>3. Placed(v)
  BY <1>1, <1>2 DEF Sound, Placed
<1>4. /\ Using(v) = {g \in Using(w) : ~(g \in gs /\ Idle(w, g))}
      /\ \A g \in Using(v) : v.grp[g] = w.grp[g]
      /\ \A g \in Grp : Idle(w, g) => Idle(v, g)
      /\ \A g \in Using(v) : Idle(v, g) => Idle(w, g)
  BY <1>1 DEF Using, BlankGrp, Idle
<1>5. Slots(v)
  <2>1. ASSUME NEW g \in Grp \ Using(v) PROVE Idle(v, g) /\ ~v.grp[g].filter
    <3>1. CASE g \in gs /\ Idle(w, g)
      BY <1>1, <1>4, <3>1 DEF BlankGrp
    <3>2. CASE ~(g \in gs /\ Idle(w, g))
      BY <1>1, <1>4, <3>2 DEF Sound, Slots
    <3>3. QED BY <3>1, <3>2
  <2>2. QED BY <1>4, <2>1 DEF Sound, Slots
<1>6. NeededBut(w, gs) => NeededBut(v, {})
  BY <1>4 DEF NeededBut
<1>7. Bounded(v)
  BY <1>1, SameBounded DEF Sound
<1>8. QED BY <1>1, <1>3, <1>5, <1>6, <1>7 DEF Sound, Good

\* A group is opened for an address (AllocGrp).
LEMMA OpenedSound ==
    ASSUME NEW w, Good(w), NEW l \in Local, NEW o \in Opened(w, l)
    PROVE  /\ Sound(o)
           /\ GetRcvGrp(o, l) \in Using(o)
           /\ o.grp[GetRcvGrp(o, l)].local = l
           /\ NeededBut(o, {GetRcvGrp(o, l)})
           /\ o.free = w.free /\ o.mmb = w.mmb /\ o.list = w.list
<1>1. CASE GetRcvGrp(w, l) # NoGrp
  BY <1>1, GetRcvGrpFinds DEF Opened, Good, NeededBut
<1>2. CASE GetRcvGrp(w, l) = NoGrp
  <2> DEFINE g == FirstUnused(w)
             new == [local |-> l, sock |-> TRUE, dump |-> {}, filter |-> FALSE]
  <2>1. Vacant(w) /\ o = [w EXCEPT !.grp[g] = new]
    BY <1>2 DEF Opened
  <2>2. g \in Grp \ Using(w)
    BY <2>1, FirstUnusedIsUnused DEF Vacant
  <2>3. /\ o \in Tables
        /\ o.grp = [w.grp EXCEPT ![g] = new]
        /\ o.list = w.list /\ o.bucket = w.bucket /\ o.mmb = w.mmb /\ o.free = w.free
    <3> DEFINE G == [w.grp EXCEPT ![g] = new]
    <3>1. w \in Tables /\ G \in [Grp -> Slot]
      BY <2>2 DEF Good, Sound, Tables, Slot
    <3>2. o = [w EXCEPT !.grp = G]
      BY <2>1, Zenon
    <3> HIDE DEF G
    <3>3. o \in Tables /\ o = [grp |-> G, list |-> w.list, bucket |-> w.bucket,
                                 mmb |-> w.mmb, free |-> w.free]
      BY <3>1, <3>2, GrpSet, Zenon
    <3>4. QED BY <3>3 DEF G
  <2>4. /\ Using(o) = Using(w) \cup {g}
        /\ o.grp[g] = new
        /\ \A h \in Grp \ {g} : o.grp[h] = w.grp[h]
    BY <2>2, <2>3, Addresses DEF Using, Good, Sound, Tables
  <2>5. w.list[g] = {}
    BY <2>2 DEF Good, Sound, Slots, Idle
  <2>6. Placed(o)
    BY <2>3, <2>4, <2>5 DEF Good, Sound, Placed
  <2>7. \A h \in Using(w) : w.grp[h].local # l
    <3>1. NoGrp \notin Using(w)
      BY Addresses DEF NoGrp, Using
    <3>2. QED BY <1>2, <3>1, GetRcvGrpFinds
  <2>8. Slots(o)
    BY <2>2, <2>3, <2>4, <2>5, <2>7 DEF Good, Sound, Slots, Idle
  <2>9. GetRcvGrp(o, l) = g
    <3>1. g \in Using(o) /\ o.grp[g].local = l
      BY <2>4
    <3>2. \A h \in Using(o) : o.grp[h].local = l => h = g
      BY <2>4, <2>7 DEF Using
    <3>3. QED BY <3>1, <3>2, GetRcvGrpFinds
  <2>10. NeededBut(o, {g})
    BY <2>3, <2>4 DEF Good, NeededBut, Idle
  <2>11. Bounded(o)
    BY <2>3, SameBounded DEF Good, Sound
  <2>12. QED BY <2>3, <2>4, <2>6, <2>8, <2>9, <2>10, <2>11 DEF Sound
<1>3. QED BY <1>1, <1>2

\* A member enters a group that may have been opened for it.
LEMMA EnteredGood ==
    ASSUME NEW w, Sound(w), NEW g \in Using(w), NeededBut(w, {g}), NEW m \in w.free,
           NEW ds \in DsId, NEW s \in Src \cup {0}, NEW d \in Dst,
           Cardinality(SameSrc(w, g, s)) < MaxSnd
    PROVE  Good(Entered(w, g, m, ds, s, d))
<1> DEFINE v == Entered(w, g, m, ds, s, d)
           k == Hash(w.grp[g].local, s)
           new == [ds |-> ds, src |-> s, dst |-> d, rcv |-> g]
<1>1. g \in Grp /\ m \in Mmb /\ w.grp[g].local \in Nat /\ s \in Nat
  BY Addresses DEF Sound, Tables, Using, Slot
<1>2. k \in 0 .. HashSize - 1
  BY <1>1, HashType
<1>3. /\ v \in Tables
      /\ v.grp = w.grp
      /\ v.free = w.free \ {m}
      /\ v.mmb = [w.mmb EXCEPT ![m] = new]
      /\ v.list = [w.list EXCEPT ![g] = @ \cup {m}]
      /\ v.bucket = [w.bucket EXCEPT ![k] = @ \cup {m}]
  BY <1>1, <1>2 DEF Entered, NewMmb, Sound, Tables
<1>4. /\ v.mmb[m] = new
      /\ \A n \in Mmb \ {m} : v.mmb[n] = w.mmb[n]
      /\ v.list[g] = w.list[g] \cup {m}
      /\ \A h \in Grp \ {g} : v.list[h] = w.list[h]
      /\ \A h \in 0 .. HashSize - 1 :
            v.bucket[h] = w.bucket[h] \cup (IF h = k THEN {m} ELSE {})
  BY <1>1, <1>2, <1>3 DEF Sound, Tables
<1>5. Placed(v)
  <2>1. ASSUME NEW n \in Mmb PROVE (n \in v.free) <=> (\A h \in Grp : n \notin v.list[h])
    BY <1>1, <1>3, <1>4 DEF Sound, Placed
  <2>2. ASSUME NEW n \in Mmb, NEW i \in Grp, n \in v.list[i]
        PROVE  /\ v.mmb[n].rcv = i
               /\ \A h \in 0 .. HashSize - 1 :
                     (n \in v.bucket[h]) <=> (h = Hash(v.grp[i].local, v.mmb[n].src))
    <3>1. CASE n = m
      <4>1. i = g
        BY <1>1, <1>4, <2>2, <3>1 DEF Sound, Placed
      <4>2. QED BY <1>1, <1>2, <1>3, <1>4, <3>1, <4>1 DEF Sound, Placed
    <3>2. CASE n # m
      BY <1>1, <1>3, <1>4, <2>2, <3>2 DEF Sound, Placed
    <3>3. QED BY <3>1, <3>2
  <2>3. ASSUME NEW n \in v.free, NEW h \in 0 .. HashSize - 1 PROVE n \notin v.bucket[h]
    BY <1>3, <1>4, <2>3 DEF Sound, Placed
  <2>4. QED BY <2>1, <2>2, <2>3 DEF Placed
<1>6. Using(v) = Using(w)
  BY <1>3 DEF Using
<1>7. Slots(v)
  BY <1>1, <1>3, <1>4, <1>6 DEF Sound, Slots, Idle, Using
<1>8. NeededBut(v, {})
  BY <1>1, <1>3, <1>4, <1>6 DEF NeededBut, Idle, Using
<1>9. Bounded(v)
  <2>1. \A h \in Grp : m \notin w.list[h]
    BY <1>1 DEF Sound, Placed
  <2>2. SameSrc(v, g, s) = SameSrc(w, g, s) \cup {m}
    BY <1>1, <1>4, <2>1 DEF SameSrc, Sound, Tables
  <2>3. \A h \in Grp, t \in Src \cup {0} :
            h # g \/ t # s => SameSrc(v, h, t) = SameSrc(w, h, t)
    BY <1>1, <1>4, <2>1 DEF SameSrc, Sound, Tables
  <2>4. IsFiniteSet(SameSrc(w, g, s)) /\ Cardinality(SameSrc(w, g, s)) \in Nat
    BY <1>1, MembersFinite DEF Sound
  <2>5. Cardinality(SameSrc(w, g, s) \cup {m}) <= MaxSnd
    <3>1. Cardinality(SameSrc(w, g, s) \cup {m}) \in
             {Cardinality(SameSrc(w, g, s)), Cardinality(SameSrc(w, g, s)) + 1}
      BY <2>4, FS_AddElement
    <3>2. QED BY <2>4, <3>1, PoolAssumption
  <2>6. QED BY <2>2, <2>3, <2>5 DEF Sound, Bounded
<1>10. QED BY <1>3, <1>5, <1>7, <1>8, <1>9 DEF Good, Sound

-----------------------------------------------------------------------------
(* ... and what they do to the rules and the dumps. *)

Same(w, o) == RulesOf(o) = RulesOf(w) /\ DumpsOf(o) = DumpsOf(w)

\* A rule is that of a member on some list.
LEMMA InRules ==
    ASSUME NEW w, NEW r
    PROVE  r \in RulesOf(w) <=> \E g \in Grp : \E m \in w.list[g] : r = RuleOf(w, m)
BY DEF RulesOf

\* The rule of a member has the address of the group it is on.
LEMMA RuleOfMember ==
    ASSUME NEW w, Sound(w), NEW g \in Grp, NEW m \in w.list[g]
    PROVE  /\ RuleOf(w, m) = [ds |-> w.mmb[m].ds, local |-> w.grp[g].local,
                              src |-> w.mmb[m].src, dst |-> w.mmb[m].dst]
           /\ g \in Using(w)
           /\ m \in Mmb
           /\ w.grp[g].local \in Local
<1>1. m \in Mmb /\ w.grp[g] \in Slot
  BY DEF Sound, Tables
<1>2. w.mmb[m].rcv = g
  BY <1>1 DEF Sound, Placed
<1>3. g \in Using(w)
  BY DEF Sound, Slots, Idle
<1>4. QED BY <1>1, <1>2, <1>3 DEF RuleOf, Using, Slot

\* The same members, and the address of every group that has one.
LEMMA SameRules ==
    ASSUME NEW w, Sound(w), NEW o, Sound(o), o.list = w.list, o.mmb = w.mmb,
           \A g \in Grp : w.list[g] # {} => o.grp[g].local = w.grp[g].local
    PROVE  RulesOf(o) = RulesOf(w)
<1>1. \A g \in Grp : \A m \in w.list[g] : RuleOf(o, m) = RuleOf(w, m)
  BY RuleOfMember
<1>2. \A r : r \in RulesOf(o) <=> r \in RulesOf(w)
  BY <1>1, InRules
<1>3. QED BY <1>2

\* Freeing groups that nobody needs changes nothing for the callers.
LEMMA FreedIfIdleSame ==
    ASSUME NEW w, Sound(w), NEW gs \in SUBSET Grp
    PROVE  Same(w, FreedIfIdle(w, gs))
<1> DEFINE v == FreedIfIdle(w, gs)
           G == [g \in Grp |-> IF g \in gs /\ Idle(w, g) THEN BlankGrp ELSE w.grp[g]]
<1>1. w \in Tables /\ G \in [Grp -> Slot]
  BY DEF Sound, Tables, BlankGrp, Slot
<1>2. v = [w EXCEPT !.grp = G]
  BY Zenon DEF FreedIfIdle
<1>3. \A g \in Grp : G[g] = IF g \in gs /\ Idle(w, g) THEN BlankGrp ELSE w.grp[g]
  OBVIOUS
<1> HIDE DEF v, G
<1>4. v = [grp |-> G, list |-> w.list, bucket |-> w.bucket, mmb |-> w.mmb, free |-> w.free]
  BY <1>1, <1>2, GrpSet, Zenon
<1>5. Sound(v)
  BY FreedIfIdleSound DEF v
<1>6. RulesOf(v) = RulesOf(w)
  BY <1>3, <1>4, <1>5, SameRules DEF Idle
<1>7. /\ Using(v) = {g \in Using(w) : ~(g \in gs /\ Idle(w, g))}
      /\ \A g \in Using(v) : v.grp[g] = w.grp[g]
  BY <1>3, <1>4 DEF Using, BlankGrp
<1>8. DumpsOf(v) = DumpsOf(w)
  BY <1>7 DEF DumpsOf, Idle
<1>9. QED BY <1>6, <1>8 DEF Same, v

\* The members that stand for a rule that satisfies P go, and no other.
LEMMA WithoutRules ==
    ASSUME NEW w, Sound(w), NEW R,
           NEW ms \in SUBSET UNION {w.list[g] : g \in Grp},
           \A g \in Grp : \A m \in w.list[g] : m \in ms <=> RuleOf(w, m) \in R
    PROVE  /\ RulesOf(Without(w, ms)) = RulesOf(w) \ R
           /\ DumpsOf(Without(w, ms)) = DumpsOf(w)
<1> DEFINE v == Without(w, ms)
<1>1. Sound(v) /\ Using(v) = Using(w)
  BY WithoutSound
<1>2. /\ v.grp = w.grp
      /\ \A g \in Grp : v.list[g] = w.list[g] \ ms
      /\ \A m \in Mmb : m \notin ms => v.mmb[m] = w.mmb[m]
  BY DEF Without
<1>3. DumpsOf(v) = DumpsOf(w)
  BY <1>1, <1>2 DEF DumpsOf
<1> HIDE DEF v
<1>4. \A g \in Grp : \A m \in v.list[g] : RuleOf(v, m) = RuleOf(w, m)
  BY <1>1, <1>2, RuleOfMember
<1>5. ASSUME NEW r PROVE r \in RulesOf(v) <=> r \in RulesOf(w) \ R
  <2>1. ASSUME r \in RulesOf(v) PROVE r \in RulesOf(w) \ R
    <3>0. PICK g \in Grp : \E m \in v.list[g] : r = RuleOf(v, m)
      BY <2>1, InRules
    <3>1. PICK m \in v.list[g] : r = RuleOf(v, m)
      BY <3>0
    <3>2. m \in w.list[g] /\ m \notin ms /\ r = RuleOf(w, m)
      BY <1>2, <1>4, <3>1
    <3>3. QED BY <3>2, InRules
  <2>2. ASSUME r \in RulesOf(w) \ R PROVE r \in RulesOf(v)
    <3>0. PICK g \in Grp : \E m \in w.list[g] : r = RuleOf(w, m)
      BY <2>2, InRules
    <3>1. PICK m \in w.list[g] : r = RuleOf(w, m)
      BY <3>0
    <3>2. m \in v.list[g] /\ r = RuleOf(v, m)
      BY <1>2, <1>4, <2>2, <3>1
    <3>3. QED BY <3>2, InRules
  <2>3. QED BY <2>1, <2>2
<1>6. QED BY <1>3, <1>5 DEF v

\* Nor does opening one.
LEMMA OpenedSame ==
    ASSUME NEW w, Good(w), NEW l \in Local, NEW o \in Opened(w, l)
    PROVE  Same(w, o)
<1>1. CASE GetRcvGrp(w, l) # NoGrp
  BY <1>1 DEF Opened, Same
<1>2. CASE GetRcvGrp(w, l) = NoGrp
  <2> DEFINE g == FirstUnused(w)
             new == [local |-> l, sock |-> TRUE, dump |-> {}, filter |-> FALSE]
             G == [w.grp EXCEPT ![g] = new]
  <2>1. Vacant(w) /\ o = [w EXCEPT !.grp = G]
    BY <1>2 DEF Opened
  <2>2. g \in Grp \ Using(w)
    BY <2>1, FirstUnusedIsUnused DEF Vacant
  <2>3. w \in Tables /\ G \in [Grp -> Slot]
    BY <2>2 DEF Good, Sound, Tables, Slot
  <2>4. /\ G[g].local \in Local /\ G[g].dump = {}
        /\ \A h \in Grp \ {g} : G[h] = w.grp[h]
    BY <2>2 DEF Good, Sound, Tables
  <2> HIDE DEF G
  <2>5. o = [grp |-> G, list |-> w.list, bucket |-> w.bucket, mmb |-> w.mmb, free |-> w.free]
    BY <2>1, <2>3, GrpSet, Zenon
  <2>6. Sound(o) /\ Sound(w)
    BY OpenedSound DEF Good
  <2>7. w.list[g] = {} /\ g \in Grp
    BY <2>2, <2>6 DEF Slots, Sound, Idle
  <2>8. RulesOf(o) = RulesOf(w)
    BY <2>4, <2>5, <2>6, <2>7, SameRules
  <2>9. \A h \in Grp : h # g => (h \in Using(o) <=> h \in Using(w)) /\ o.grp[h] = w.grp[h]
    BY <2>4, <2>5 DEF Using
  <2>10. DumpsOf(o) = DumpsOf(w)
    BY <2>2, <2>4, <2>5, <2>9 DEF DumpsOf, Using
  <2>11. QED BY <2>8, <2>10 DEF Same
<1>3. QED BY <1>1, <1>2

\* A member that enters adds its rule.
LEMMA EnteredRules ==
    ASSUME NEW w, Sound(w), NEW g \in Using(w), NEW m \in w.free,
           NEW ds \in DsId, NEW s \in Src \cup {0}, NEW d \in Dst,
           NEW o, o = Entered(w, g, m, ds, s, d), Sound(o)
    PROVE  /\ RulesOf(o) = RulesOf(w) \cup
                {[ds |-> ds, local |-> w.grp[g].local, src |-> s, dst |-> d]}
           /\ DumpsOf(o) = DumpsOf(w)
<1> DEFINE new == [ds |-> ds, local |-> w.grp[g].local, src |-> s, dst |-> d]
<1>1. g \in Grp /\ m \in Mmb /\ w \in Tables
  BY DEF Sound, Tables, Using
<1>2. /\ o.grp = w.grp
      /\ o.list[g] = w.list[g] \cup {m}
      /\ \A h \in Grp \ {g} : o.list[h] = w.list[h]
      /\ o.mmb[m] = [ds |-> ds, src |-> s, dst |-> d, rcv |-> g]
      /\ \A n \in Mmb \ {m} : o.mmb[n] = w.mmb[n]
  BY <1>1 DEF Entered, NewMmb, Tables
<1>3. RuleOf(o, m) = new
  BY <1>2 DEF RuleOf
<1>4. \A h \in Grp : \A n \in w.list[h] : n # m /\ n \in Mmb /\ RuleOf(o, n) = RuleOf(w, n)
  <2>1. \A h \in Grp : \A n \in w.list[h] : n # m /\ n \in Mmb
    BY <1>1 DEF Sound, Placed, Tables
  <2>2. QED BY <1>2, <2>1 DEF RuleOf
<1>5. \A r : r \in RulesOf(o) <=> r \in RulesOf(w) \cup {new}
  BY <1>1, <1>2, <1>3, <1>4, InRules
<1>6. DumpsOf(o) = DumpsOf(w)
  BY <1>2 DEF DumpsOf, Using
<1>7. QED BY <1>5, <1>6

\* A slot that keeps its address and its dump.
LEMMA SlotSame ==
    ASSUME NEW w, Sound(w), NEW g \in Grp, NEW r, NEW o, SlotIs(w, g, r, o),
           r.local = w.grp[g].local
    PROVE  /\ RulesOf(o) = RulesOf(w)
           /\ r.dump = w.grp[g].dump => Same(w, o)
<1>1. /\ Sound(o) /\ Using(o) = Using(w)
      /\ o.mmb = w.mmb /\ o.list = w.list
      /\ o.grp[g] = r /\ \A h \in Grp \ {g} : o.grp[h] = w.grp[h]
  BY DEF SlotIs
<1>2. \A h \in Grp : o.grp[h].local = w.grp[h].local
  BY <1>1
<1>3. RulesOf(o) = RulesOf(w)
  BY <1>1, <1>2, SameRules
<1>4. ASSUME r.dump = w.grp[g].dump PROVE DumpsOf(o) = DumpsOf(w)
  <2>1. \A h \in Grp : o.grp[h].dump = w.grp[h].dump
    BY <1>1, <1>4
  <2>2. QED BY <1>1, <1>2, <2>1 DEF DumpsOf, Using
<1>5. QED BY <1>3, <1>4 DEF Same

\* A group that cannot be opened leaves a socket open at most.
LEMMA UnopenedGood ==
    ASSUME NEW w, Good(w), NEW l \in Local, NEW o \in Unopened(w, l)
    PROVE  Good(o) /\ Same(w, o)
<1>1. CASE o = w
  BY <1>1 DEF Same
<1>2. CASE o # w
  <2> DEFINE g == FirstUnused(w)
  <2>1. Vacant(w) /\ o = [w EXCEPT !.grp[g].sock = TRUE]
    BY <1>2 DEF Unopened
  <2>2. g \in Grp \ Using(w)
    BY <2>1, FirstUnusedIsUnused DEF Vacant
  <2>3. w.grp[g] \in Slot
    BY <2>2 DEF Good, Sound, Tables
  <2> DEFINE r == [w.grp[g] EXCEPT !.sock = TRUE]
  <2>4. r = [local |-> w.grp[g].local, sock |-> TRUE,
             dump |-> w.grp[g].dump, filter |-> w.grp[g].filter]
    BY <2>3, SlotFields, Zenon
  <2>5. o = WithSlot(w, g, r)
    BY <2>1, Zenon DEF WithSlot
  <2> HIDE DEF r
  <2>6. Fits(w, g, r)
    BY <2>2, <2>3, <2>4 DEF Good, Sound, Slots, Idle, Slot, Fits
  <2>7. g \in Grp /\ Sound(w) /\ NeededBut(w, {}) /\ Idle(w, g)
    BY <2>2 DEF Good, Sound, Slots
  <2> HIDE DEF g
  <2>8. SlotIs(w, g, r, o)
    BY <2>5, <2>6, <2>7, SlotChanged, Zenon
  <2>9. Same(w, o)
    BY <2>3, <2>4, <2>7, <2>8, SlotSame DEF Slot
  <2>10. QED BY <2>7, <2>8, <2>9 DEF Good, SlotIs
<1>3. QED BY <1>1, <1>2

-----------------------------------------------------------------------------
(* The operations. *)

\* What comes of adding rule q to tables w.
AddedTo(w, q, r) ==
    /\ GoodResult(r)
    /\ DumpsOf(r.w) = DumpsOf(w)
    /\ RulesOf(r.w) = IF r.ret = "OK" THEN F!Added(RulesOf(w), q) ELSE RulesOf(w)

\* A command that gets no group changes no rule.
LEMMA NotReachedSame ==
    ASSUME NEW w, Good(w), NEW l \in Local, NEW r \in NotReached(w, l)
    PROVE  GoodResult(r) /\ Same(w, r.w) /\ r.ret = "ERROR"
<1>1. PICK o \in Unopened(w, l) \cup {w} : r = Result(o, "ERROR")
  BY DEF NotReached
<1>2. Good(o) /\ Same(w, o)
  BY UnopenedGood DEF Same
<1>3. QED BY <1>1, <1>2 DEF Result, GoodResult

\* Add in a group that is open.
LEMMA AddToAdds ==
    ASSUME NEW w, Sound(w), NEW g \in Using(w), NeededBut(w, {g}),
           NEW ds \in DsId, NEW s \in Src \cup {0}, NEW d \in Dst,
           NEW r \in AddTo(w, g, ds, s, d)
    PROVE  AddedTo(w, [ds |-> ds, local |-> w.grp[g].local, src |-> s, dst |-> d], r)
<1> DEFINE q == [ds |-> ds, local |-> w.grp[g].local, src |-> s, dst |-> d]
           known == \E p \in RulesOf(w) : p.local = q.local /\ p.src = q.src /\ p.dst = q.dst
<1>1. g \in Grp
  BY DEF Using
<1>2. known <=> Exists(w, g, s, d)
  <2>1. ASSUME Exists(w, g, s, d) PROVE known
    <3>1. PICK m \in w.list[g] : w.mmb[m].src = s /\ w.mmb[m].dst = d
      BY <2>1 DEF Exists, SameSrc
    <3>2. RuleOf(w, m) \in RulesOf(w)
      BY <1>1, InRules
    <3>3. QED BY <1>1, <3>1, <3>2, RuleOfMember
  <2>2. ASSUME known PROVE Exists(w, g, s, d)
    <3>1. PICK p \in RulesOf(w) : p.local = q.local /\ p.src = q.src /\ p.dst = q.dst
      BY <2>2
    <3>2. PICK h \in Grp : \E m \in w.list[h] : p = RuleOf(w, m)
      BY <3>1, InRules
    <3>3. PICK m \in w.list[h] : p = RuleOf(w, m)
      BY <3>2
    <3>4. /\ w.grp[h].local = w.grp[g].local /\ h \in Using(w)
          /\ w.mmb[m].src = s /\ w.mmb[m].dst = d
      BY <3>1, <3>3, RuleOfMember
    <3>5. h = g
      BY <3>4 DEF Sound, Slots
    <3>6. QED BY <3>4, <3>5 DEF Exists, SameSrc
  <2>3. QED BY <2>1, <2>2
<1>3. SameSrc(w, g, s) # {} => Good(w)
  <2>1. SameSrc(w, g, s) # {} => ~Idle(w, g)
    BY DEF SameSrc, Idle
  <2>2. QED BY <2>1 DEF Good, NeededBut
<1>4. CASE Exists(w, g, s, d)
  <2>1. r = Result(w, "OK") /\ Good(w)
    BY <1>3, <1>4 DEF AddTo, Exists
  <2>2. F!Added(RulesOf(w), q) = RulesOf(w)
    BY <1>2, <1>4 DEF F!Added
  <2>3. QED BY <2>1, <2>2 DEF Result, AddedTo, GoodResult
<1>5. CASE ~Exists(w, g, s, d) /\ Cardinality(SameSrc(w, g, s)) >= MaxSnd
  <2>1. SameSrc(w, g, s) # {}
    BY <1>5, FS_EmptySet, PoolAssumption
  <2>2. r = Result(w, "ERROR")
    BY <1>5 DEF AddTo
  <2>3. QED BY <1>3, <2>1, <2>2 DEF Result, AddedTo, GoodResult
<1>6. ASSUME ~Exists(w, g, s, d), ~(Cardinality(SameSrc(w, g, s)) >= MaxSnd),
             NEW m \in w.free, r = Result(Entered(w, g, m, ds, s, d), "OK")
      PROVE  AddedTo(w, q, r)
  <2>0. Cardinality(SameSrc(w, g, s)) < MaxSnd
    BY <1>1, <1>6, MembersFinite, PoolAssumption DEF Sound
  <2>1. Good(Entered(w, g, m, ds, s, d))
    BY <2>0, EnteredGood
  <2>2. /\ RulesOf(Entered(w, g, m, ds, s, d)) = RulesOf(w) \cup {q}
        /\ DumpsOf(Entered(w, g, m, ds, s, d)) = DumpsOf(w)
    BY <2>1, EnteredRules DEF Good
  <2>3. F!Added(RulesOf(w), q) = RulesOf(w) \cup {q}
    BY <1>2, <1>6 DEF F!Added
  <2>4. QED BY <1>6, <2>1, <2>2, <2>3 DEF Result, AddedTo, GoodResult
<1>7. CASE r = Result(FreedIfIdle(w, {g}), "ERROR")
  <2>1. Good(FreedIfIdle(w, {g})) /\ Same(w, FreedIfIdle(w, {g}))
    BY <1>1, FreedIfIdleSound, FreedIfIdleSame
  <2>2. QED BY <1>7, <2>1 DEF Result, AddedTo, GoodResult, Same
<1>8. \/ Exists(w, g, s, d)
      \/ ~Exists(w, g, s, d) /\ Cardinality(SameSrc(w, g, s)) >= MaxSnd
      \/ /\ ~Exists(w, g, s, d) /\ ~(Cardinality(SameSrc(w, g, s)) >= MaxSnd)
         /\ \E m \in w.free : r = Result(Entered(w, g, m, ds, s, d), "OK")
      \/ r = Result(FreedIfIdle(w, {g}), "ERROR")
  BY DEF AddTo
<1>9. QED BY <1>4, <1>5, <1>6, <1>7, <1>8

\* Add.
LEMMA AddAdds ==
    ASSUME NEW w, Good(w), NEW l \in Local,
           NEW ds \in DsId, NEW s \in Src \cup {0}, NEW d \in Dst,
           NEW r \in Add(w, ds, l, s, d)
    PROVE  AddedTo(w, [ds |-> ds, local |-> l, src |-> s, dst |-> d], r)
<1>1. CASE r \in NotReached(w, l)
  BY <1>1, NotReachedSame DEF AddedTo, Same
<1>2. ASSUME NEW o \in Opened(w, l), r \in AddTo(o, GetRcvGrp(o, l), ds, s, d)
      PROVE  AddedTo(w, [ds |-> ds, local |-> l, src |-> s, dst |-> d], r)
  <2>1. /\ Sound(o)
        /\ GetRcvGrp(o, l) \in Using(o)
        /\ o.grp[GetRcvGrp(o, l)].local = l
        /\ NeededBut(o, {GetRcvGrp(o, l)})
    BY OpenedSound
  <2>2. AddedTo(o, [ds |-> ds, local |-> l, src |-> s, dst |-> d], r)
    BY <1>2, <2>1, AddToAdds
  <2>3. QED BY <2>2, OpenedSame DEF AddedTo, Same
<1>3. QED BY <1>1, <1>2 DEF Add

\* A group in use with another dump, which is what the users of its address see.
LEMMA DumpSet ==
    ASSUME NEW w, Sound(w), NEW g \in Using(w), NEW D \in SUBSET DsId,
           NEW o, o = [w EXCEPT !.grp[g].dump = D]
    PROVE  /\ Sound(o)
           /\ Using(o) = Using(w)
           /\ RulesOf(o) = RulesOf(w)
           /\ DumpsOf(o) = {p \in DumpsOf(w) : p[2] # w.grp[g].local}
                              \cup (D \X {w.grp[g].local})
           /\ NeededBut(w, {g}) => NeededBut(o, {g})
           /\ NeededBut(w, {g}) /\ D # {} => NeededBut(o, {})
<1> DEFINE r == [w.grp[g] EXCEPT !.dump = D]
<1>1. g \in Grp /\ w.grp[g] \in Slot
  BY DEF Sound, Tables, Using
<1>2. r = [local |-> w.grp[g].local, sock |-> w.grp[g].sock,
           dump |-> D, filter |-> w.grp[g].filter]
  BY <1>1, SlotFields, Zenon
<1>3. o = WithSlot(w, g, r)
  BY Zenon DEF WithSlot
<1> HIDE DEF r
<1>4. Fits(w, g, r)
  BY <1>1, <1>2 DEF Sound, Slots, Slot, Fits
<1>5. SlotIs(w, g, r, o)
  <2>1. SlotIs(w, g, r, WithSlot(w, g, r))
    BY <1>1, <1>4, SlotChanged
  <2>2. QED BY <1>3, <2>1, Zenon
<1>6. RulesOf(o) = RulesOf(w)
  BY <1>1, <1>2, <1>5, SlotSame
<1>7. /\ Using(o) = Using(w) /\ w.grp[g].local \in Local
      /\ o.grp[g].local = w.grp[g].local /\ o.grp[g].dump = D
      /\ \A h \in Grp \ {g} : o.grp[h] = w.grp[h]
  BY <1>1, <1>2, <1>5 DEF SlotIs, Using, Slot
<1>8. \A h \in Using(w) : w.grp[h].local = w.grp[g].local => h = g
  BY DEF Sound, Slots
<1>9. ASSUME NEW p
      PROVE  p \in DumpsOf(o) <=> \/ p \in DumpsOf(w) /\ p[2] # w.grp[g].local
                                  \/ p \in D \X {w.grp[g].local}
  BY <1>7, <1>8 DEF DumpsOf, Using
<1>10. DumpsOf(o) = {p \in DumpsOf(w) : p[2] # w.grp[g].local} \cup (D \X {w.grp[g].local})
  BY <1>9
<1>11. QED BY <1>2, <1>5, <1>6, <1>10 DEF SlotIs

\* AddDump.
LEMMA AddDumpAdds ==
    ASSUME NEW w, Good(w), NEW l \in Local, NEW ds \in DsId, NEW r \in AddDump(w, ds, l)
    PROVE  /\ GoodResult(r)
           /\ RulesOf(r.w) = RulesOf(w)
           /\ DumpsOf(r.w) = IF r.ret = "OK" THEN DumpsOf(w) \cup {<<ds, l>>} ELSE DumpsOf(w)
<1>1. CASE r \in NotReached(w, l)
  BY <1>1, NotReachedSame DEF Same
<1>2. ASSUME NEW o \in Opened(w, l), NEW v,
             v = [o EXCEPT !.grp[GetRcvGrp(o, l)].dump = @ \cup {ds}], r = Result(v, "OK")
      PROVE  /\ GoodResult(r)
             /\ RulesOf(r.w) = RulesOf(w)
             /\ DumpsOf(r.w) = DumpsOf(w) \cup {<<ds, l>>}
             /\ r.ret = "OK"
  <2> DEFINE g == GetRcvGrp(o, l)
             D == o.grp[g].dump \cup {ds}
  <2>1. Sound(o) /\ g \in Using(o) /\ o.grp[g].local = l /\ NeededBut(o, {g})
    BY OpenedSound
  <2>2. o.grp[g].dump \in SUBSET DsId /\ D \in SUBSET DsId /\ D # {}
    BY <2>1 DEF Sound, Tables, Using, Slot
  <2>3. v = [o EXCEPT !.grp[g].dump = D]
    BY <1>2
  <2> HIDE DEF g, D
  <2>4. /\ Sound(v) /\ NeededBut(v, {})
        /\ RulesOf(v) = RulesOf(o)
        /\ DumpsOf(v) = {p \in DumpsOf(o) : p[2] # l} \cup (D \X {l})
    BY <2>1, <2>2, <2>3, DumpSet
  <2>5. {p \in DumpsOf(o) : p[2] = l} = o.grp[g].dump \X {l}
    <3>1. \A h \in Using(o) : o.grp[h].local = l => h = g
      BY <2>1 DEF Sound, Slots
    <3>2. QED BY <2>1, <2>2, <3>1 DEF DumpsOf
  <2>6. D = o.grp[g].dump \cup {ds}
    BY DEF D
  <2>7. DumpsOf(v) = DumpsOf(o) \cup {<<ds, l>>}
    BY <2>4, <2>5, <2>6
  <2>8. QED BY <1>2, <2>4, <2>7, OpenedSame DEF Good, GoodResult, Result, Same
<1>3. QED BY <1>1, <1>2, NotReachedSame DEF AddDump

\* A group that may be idle is freed.
LEMMA Freed ==
    ASSUME NEW w, Sound(w), NEW gs \in SUBSET Grp, NeededBut(w, gs)
    PROVE  Good(FreedIfIdle(w, gs)) /\ Same(w, FreedIfIdle(w, gs))
BY FreedIfIdleSound, FreedIfIdleSame

\* RemoveDump.
LEMMA RemoveDumpRemoves ==
    ASSUME NEW w, Good(w), NEW l \in Local, NEW ds \in DsId
    PROVE  /\ GoodResult(RemoveDump(w, ds, l))
           /\ RulesOf(RemoveDump(w, ds, l).w) = RulesOf(w)
           /\ DumpsOf(RemoveDump(w, ds, l).w) = DumpsOf(w) \ {<<ds, l>>}
<1> DEFINE g == GetRcvGrp(w, l)
           D == w.grp[g].dump \ {ds}
           v == [w EXCEPT !.grp[g].dump = D]
<1>1. CASE g = NoGrp
  <2>1. \A h \in Using(w) : w.grp[h].local # l
    BY <1>1, Addresses, GetRcvGrpFinds DEF NoGrp, Using
  <2>2. DumpsOf(w) \ {<<ds, l>>} = DumpsOf(w)
    BY <2>1 DEF DumpsOf
  <2>3. QED BY <1>1, <2>2 DEF RemoveDump, Result, GoodResult
<1>2. CASE g # NoGrp
  <2>1. g \in Using(w) /\ w.grp[g].local = l /\ Sound(w) /\ NeededBut(w, {g}) /\ g \in Grp
    BY <1>2, GetRcvGrpFinds DEF Good, NeededBut, Using
  <2>2. w.grp[g].dump \in SUBSET DsId /\ D \in SUBSET DsId
    BY <2>1 DEF Sound, Tables, Using, Slot
  <2>3. RemoveDump(w, ds, l) = Result(FreedIfIdle(v, {g}), "OK")
    BY <1>2 DEF RemoveDump
  <2>4. v = [w EXCEPT !.grp[g].dump = D]
    OBVIOUS
  <2> HIDE DEF g, D, v
  <2>5. /\ Sound(v) /\ NeededBut(v, {g})
        /\ RulesOf(v) = RulesOf(w)
        /\ DumpsOf(v) = {p \in DumpsOf(w) : p[2] # l} \cup (D \X {l})
    BY <2>1, <2>2, <2>4, DumpSet
  <2>6. {p \in DumpsOf(w) : p[2] = l} = w.grp[g].dump \X {l}
    <3>1. \A h \in Using(w) : w.grp[h].local = l => h = g
      BY <2>1 DEF Sound, Slots
    <3>2. QED BY <2>1, <2>2, <3>1 DEF DumpsOf
  <2>7. D = w.grp[g].dump \ {ds}
    BY DEF D
  <2>8. DumpsOf(v) = DumpsOf(w) \ {<<ds, l>>}
    BY <2>5, <2>6, <2>7
  <2>9. Good(FreedIfIdle(v, {g})) /\ Same(v, FreedIfIdle(v, {g}))
    BY <2>1, <2>5, Freed
  <2>10. /\ RemoveDump(w, ds, l).w = FreedIfIdle(v, {g})
         /\ RemoveDump(w, ds, l).ret = "OK"
    BY <2>3 DEF Result
  <2>11. QED BY <2>5, <2>8, <2>9, <2>10 DEF GoodResult, Same
<1>3. QED BY <1>1, <1>2

\* What Remove takes, as a property of rules.
Hit(q, ds, s, d) ==
    /\ q.ds = ds
    /\ \/ s # 0 /\ q.src = s /\ d \in {AnyAddr, q.dst}
       \/ s = 0 /\ q.dst = d

\* The members that Remove takes from a group are those of the rules it hits.
LEMMA DoomedHit ==
    ASSUME NEW w, Sound(w), NEW g \in Grp, NEW ds, NEW s, NEW d
    PROVE  /\ Doomed(w, g, ds, s, d) \subseteq w.list[g]
           /\ \A m \in w.list[g] :
                 m \in Doomed(w, g, ds, s, d) <=> Hit(RuleOf(w, m), ds, s, d)
<1>1. ASSUME NEW m \in w.list[g]
      PROVE  m \in Doomed(w, g, ds, s, d) <=> Hit(RuleOf(w, m), ds, s, d)
  <2>1. /\ RuleOf(w, m).ds = w.mmb[m].ds /\ RuleOf(w, m).src = w.mmb[m].src
        /\ RuleOf(w, m).dst = w.mmb[m].dst
    BY RuleOfMember
  <2>2. QED BY <2>1 DEF Doomed, Hit
<1>2. QED BY <1>1 DEF Doomed

\* A member is on one list only.
LEMMA OneList ==
    ASSUME NEW w, Sound(w), NEW g \in Grp, NEW h \in Grp, NEW m \in w.list[g], m \in w.list[h]
    PROVE  g = h
BY DEF Sound, Placed, Tables

\* Remove.
LEMMA RemoveRemoves ==
    ASSUME NEW w, Good(w), NEW l \in Local, NEW ds, NEW s, NEW d
    PROVE  /\ GoodResult(Remove(w, ds, l, s, d))
           /\ RulesOf(Remove(w, ds, l, s, d).w) =
                 {q \in RulesOf(w) : ~(q.local = l /\ Hit(q, ds, s, d))}
           /\ DumpsOf(Remove(w, ds, l, s, d).w) = DumpsOf(w)
<1> DEFINE g == GetRcvGrp(w, l)
           ms == Doomed(w, g, ds, s, d)
           v == Without(w, ms)
           R == {q \in RulesOf(w) : q.local = l /\ Hit(q, ds, s, d)}
<1>0. Sound(w)
  BY DEF Good
<1>1. CASE g = NoGrp
  <2>1. \A h \in Using(w) : w.grp[h].local # l
    BY <1>1, Addresses, GetRcvGrpFinds DEF NoGrp, Using
  <2>2. \A q \in RulesOf(w) : q.local # l
    BY <1>0, <2>1, InRules, RuleOfMember
  <2>3. Remove(w, ds, l, s, d) = Result(w, "ERROR")
    BY <1>1 DEF Remove
  <2>4. Remove(w, ds, l, s, d).w = w /\ Remove(w, ds, l, s, d).ret = "ERROR"
    BY <2>3 DEF Result
  <2>5. QED BY <2>2, <2>4 DEF GoodResult
<1>2. CASE g # NoGrp
  <2>1. g \in Using(w) /\ w.grp[g].local = l /\ NeededBut(w, {g}) /\ g \in Grp
    BY <1>2, GetRcvGrpFinds DEF Good, NeededBut, Using
  <2>2. ms \subseteq w.list[g] /\ ms \in SUBSET UNION {w.list[h] : h \in Grp}
    BY <1>0, <2>1, DoomedHit
  <2>3. ASSUME NEW h \in Grp, NEW m \in w.list[h] PROVE m \in ms <=> RuleOf(w, m) \in R
    <3>1. RuleOf(w, m) \in RulesOf(w) /\ RuleOf(w, m).local = w.grp[h].local /\ h \in Using(w)
      BY <1>0, InRules, RuleOfMember
    <3>2. CASE h = g
      BY <1>0, <2>1, <3>1, <3>2, DoomedHit
    <3>3. CASE h # g
      <4>1. w.grp[h].local # l
        BY <1>0, <2>1, <3>1, <3>3 DEF Sound, Slots
      <4>2. m \notin ms
        BY <1>0, <2>1, <2>2, <3>3, OneList
      <4>3. QED BY <3>1, <4>1, <4>2
    <3>4. QED BY <3>2, <3>3
  <2>4. Remove(w, ds, l, s, d) = Result(FreedIfIdle(v, {g}), "OK")
    BY <1>2 DEF Remove
  <2>5. /\ Remove(w, ds, l, s, d).w = FreedIfIdle(v, {g})
        /\ Remove(w, ds, l, s, d).ret = "OK"
    BY <2>4 DEF Result
  <2>6. NeededBut(v, {g})
    <3>1. \A h \in Grp : h # g => v.list[h] = w.list[h]
      BY <1>0, <2>1, <2>2, OneList DEF Without
    <3>2. v.grp = w.grp
      BY DEF Without
    <3>3. QED BY <2>1, <3>1, <3>2 DEF NeededBut, Idle, Using
  <2> HIDE DEF g, ms
  <2>7. Sound(v)
    BY <1>0, <2>2, WithoutSound
  <2>8. RulesOf(v) = RulesOf(w) \ R /\ DumpsOf(v) = DumpsOf(w)
    <3> HIDE DEF R
    <3>1. QED BY <1>0, <2>2, <2>3, WithoutRules
  <2> HIDE DEF v
  <2>9. Good(FreedIfIdle(v, {g})) /\ Same(v, FreedIfIdle(v, {g}))
    BY <2>1, <2>6, <2>7, Freed
  <2>10. QED BY <2>5, <2>8, <2>9 DEF GoodResult, Same
<1>3. QED BY <1>1, <1>2

\* RemoveAllMmb.
LEMMA RemoveAllMmbRemoves ==
    ASSUME NEW w, Good(w), NEW ds, NEW s, NEW d
    PROVE  /\ Good(RemoveAllMmb(w, ds, s, d))
           /\ RulesOf(RemoveAllMmb(w, ds, s, d)) = {q \in RulesOf(w) : ~Hit(q, ds, s, d)}
           /\ DumpsOf(RemoveAllMmb(w, ds, s, d)) = DumpsOf(w)
<1> DEFINE ms == UNION {Doomed(w, g, ds, s, d) : g \in Using(w)}
           v == Without(w, ms)
           R == {q \in RulesOf(w) : Hit(q, ds, s, d)}
<1>0. Sound(w) /\ Using(w) \in SUBSET Grp
  BY DEF Good, Using
<1>1. ms \in SUBSET UNION {w.list[h] : h \in Grp}
  BY <1>0, DoomedHit
<1>2. ASSUME NEW h \in Grp, NEW m \in w.list[h] PROVE m \in ms <=> RuleOf(w, m) \in R
  <2>1. RuleOf(w, m) \in RulesOf(w) /\ h \in Using(w)
    BY <1>0, InRules, RuleOfMember
  <2>2. m \in Doomed(w, h, ds, s, d) <=> RuleOf(w, m) \in R
    BY <1>0, <2>1, DoomedHit
  <2>3. \A g \in Using(w) : m \in Doomed(w, g, ds, s, d) => g = h
    BY <1>0, DoomedHit, OneList
  <2>4. QED BY <2>1, <2>2, <2>3
<1>3. RemoveAllMmb(w, ds, s, d) = FreedIfIdle(v, Using(w))
  BY DEF RemoveAllMmb
<1> HIDE DEF ms
<1>4. Sound(v) /\ Using(v) = Using(w)
  BY <1>0, <1>1, WithoutSound
<1>5. RulesOf(v) = RulesOf(w) \ R /\ DumpsOf(v) = DumpsOf(w)
  <2> HIDE DEF R
  <2>1. QED BY <1>0, <1>1, <1>2, WithoutRules
<1> HIDE DEF v
<1>6. NeededBut(v, Using(w))
  BY <1>4 DEF NeededBut
<1>7. /\ Good(FreedIfIdle(v, Using(w)))
      /\ Same(v, FreedIfIdle(v, Using(w)))
  BY <1>0, <1>4, <1>6, Freed
<1>8. QED BY <1>3, <1>5, <1>7 DEF Same

\* A user's dumps go.
LEMMA UndumpedSound ==
    ASSUME NEW w, Sound(w), NEW ds
    PROVE  /\ Sound(Undumped(w, ds))
           /\ Using(Undumped(w, ds)) = Using(w)
           /\ RulesOf(Undumped(w, ds)) = RulesOf(w)
           /\ DumpsOf(Undumped(w, ds)) = {p \in DumpsOf(w) : p[1] # ds}
<1> DEFINE v == Undumped(w, ds)
           G == [g \in Grp |-> [w.grp[g] EXCEPT !.dump = @ \ {ds}]]
<1>1. ASSUME NEW g \in Grp
      PROVE  /\ G[g] \in Slot
             /\ G[g].local = w.grp[g].local
             /\ G[g].sock = w.grp[g].sock
             /\ G[g].dump = w.grp[g].dump \ {ds}
             /\ G[g].filter = w.grp[g].filter
  <2> DEFINE D == w.grp[g].dump \ {ds}
  <2>1. w.grp[g] \in Slot /\ D \in SUBSET DsId
    BY DEF Sound, Tables, Slot
  <2>2. G[g] = [w.grp[g] EXCEPT !.dump = D]
    BY Zenon
  <2> HIDE DEF D, G
  <2>3. G[g] = [local |-> w.grp[g].local, sock |-> w.grp[g].sock,
                dump |-> D, filter |-> w.grp[g].filter]
    BY <2>1, <2>2, SlotFields, Zenon
  <2>4. D = w.grp[g].dump \ {ds}
    BY DEF D
  <2>5. QED BY <2>1, <2>3, <2>4 DEF Slot
<1>2. w \in Tables /\ G \in [Grp -> Slot]
  BY <1>1 DEF Sound, Tables
<1>3. v = [w EXCEPT !.grp = G]
  BY Zenon DEF Undumped
<1> HIDE DEF v, G
<1>4. /\ v \in Tables
      /\ v = [grp |-> G, list |-> w.list, bucket |-> w.bucket, mmb |-> w.mmb, free |-> w.free]
  BY <1>2, <1>3, GrpSet, Zenon
<1>5. /\ v.list = w.list /\ v.bucket = w.bucket /\ v.mmb = w.mmb /\ v.free = w.free
      /\ \A g \in Grp : /\ v.grp[g].local = w.grp[g].local
                        /\ v.grp[g].sock = w.grp[g].sock
                        /\ v.grp[g].dump = w.grp[g].dump \ {ds}
                        /\ v.grp[g].filter = w.grp[g].filter
  <2>1. /\ v.list = w.list /\ v.bucket = w.bucket /\ v.mmb = w.mmb /\ v.free = w.free
        /\ v.grp = G
    BY <1>4
  <2>2. ASSUME NEW g \in Grp
        PROVE  /\ G[g].local = w.grp[g].local
               /\ G[g].sock = w.grp[g].sock
               /\ G[g].dump = w.grp[g].dump \ {ds}
               /\ G[g].filter = w.grp[g].filter
    BY <1>1
  <2>3. QED BY <2>1, <2>2
<1>6. Using(v) = Using(w)
  BY <1>5 DEF Using
<1>7. Placed(v)
  BY <1>5 DEF Sound, Placed
<1>8. Slots(v)
  BY <1>5, <1>6 DEF Sound, Slots, Idle, Using
<1>9. Sound(v)
  BY <1>4, <1>5, <1>7, <1>8, SameBounded DEF Sound
<1>10. RulesOf(v) = RulesOf(w)
  BY <1>5, <1>9, SameRules
<1>11. DumpsOf(v) = {p \in DumpsOf(w) : p[1] # ds}
  <2>1. ASSUME NEW p PROVE p \in DumpsOf(v) <=> p \in DumpsOf(w) /\ p[1] # ds
    BY <1>5, <1>6 DEF DumpsOf, Using
  <2>2. QED BY <2>1
<1>12. QED BY <1>6, <1>9, <1>10, <1>11 DEF v

\* RemoveAll.
LEMMA RemoveAllRemoves ==
    ASSUME NEW w, Good(w), NEW ds, NEW removeDump \in BOOLEAN
    PROVE  /\ Good(RemoveAll(w, ds, removeDump))
           /\ RulesOf(RemoveAll(w, ds, removeDump)) = {q \in RulesOf(w) : q.ds # ds}
           /\ DumpsOf(RemoveAll(w, ds, removeDump)) =
                 IF removeDump THEN {p \in DumpsOf(w) : p[1] # ds} ELSE DumpsOf(w)
<1> DEFINE mine == {m \in UNION {w.list[g] : g \in Using(w)} : w.mmb[m].ds = ds}
           left == Without(w, mine)
           v == IF removeDump THEN Undumped(left, ds) ELSE left
           R == {q \in RulesOf(w) : q.ds = ds}
<1>0. Sound(w) /\ Using(w) \in SUBSET Grp
  BY DEF Good, Using
<1>1. mine \in SUBSET UNION {w.list[h] : h \in Grp}
  BY <1>0
<1>2. ASSUME NEW h \in Grp, NEW m \in w.list[h] PROVE m \in mine <=> RuleOf(w, m) \in R
  <2>1. RuleOf(w, m) \in RulesOf(w) /\ h \in Using(w) /\ RuleOf(w, m).ds = w.mmb[m].ds
    BY <1>0, InRules, RuleOfMember
  <2>2. QED BY <2>1
<1>3. RemoveAll(w, ds, removeDump) = FreedIfIdle(v, Using(w))
  BY DEF RemoveAll
<1> HIDE DEF mine
<1>4. Sound(left) /\ Using(left) = Using(w)
  BY <1>0, <1>1, WithoutSound
<1>5. RulesOf(left) = RulesOf(w) \ R /\ DumpsOf(left) = DumpsOf(w)
  <2> HIDE DEF R
  <2>1. QED BY <1>0, <1>1, <1>2, WithoutRules
<1> HIDE DEF left
<1>6. /\ Sound(v) /\ Using(v) = Using(w) /\ RulesOf(v) = RulesOf(left)
      /\ DumpsOf(v) = IF removeDump THEN {p \in DumpsOf(left) : p[1] # ds} ELSE DumpsOf(left)
  BY <1>4, UndumpedSound
<1> HIDE DEF v
<1>7. NeededBut(v, Using(w))
  BY <1>6 DEF NeededBut
<1>8. /\ Good(FreedIfIdle(v, Using(w)))
      /\ Same(v, FreedIfIdle(v, Using(w)))
  BY <1>0, <1>6, <1>7, Freed
<1>9. QED BY <1>3, <1>5, <1>6, <1>8 DEF Same

\* Only the filter of a group in use changes.
LEMMA FilterSet ==
    ASSUME NEW w, Good(w), NEW g \in Using(w), NEW b \in BOOLEAN,
           NEW o, o = [w EXCEPT !.grp[g].filter = b]
    PROVE  Good(o) /\ Same(w, o)
<1> DEFINE r == [w.grp[g] EXCEPT !.filter = b]
<1>1. Sound(w) /\ NeededBut(w, {}) /\ g \in Grp /\ w.grp[g] \in Slot
  BY DEF Good, Sound, Tables, Using
<1>2. r = [local |-> w.grp[g].local, sock |-> w.grp[g].sock,
           dump |-> w.grp[g].dump, filter |-> b]
  BY <1>1, SlotFields, Zenon
<1>3. o = WithSlot(w, g, r)
  BY Zenon DEF WithSlot
<1> HIDE DEF r
<1>4. Fits(w, g, r)
  BY <1>1, <1>2 DEF Sound, Slots, Slot, Fits
<1>5. SlotIs(w, g, r, o)
  <2>1. SlotIs(w, g, r, WithSlot(w, g, r))
    BY <1>1, <1>4, SlotChanged
  <2>2. QED BY <1>3, <2>1, Zenon
<1>6. Idle(o, g) => Idle(w, g)
  BY <1>2, <1>5 DEF SlotIs, Idle
<1>7. Same(w, o)
  BY <1>1, <1>2, <1>5, SlotSame
<1>8. QED BY <1>1, <1>5, <1>6, <1>7 DEF SlotIs, Good

\* AddSpy.
LEMMA AddSpyAdds ==
    ASSUME NEW w, Good(w), NEW l \in Local, NEW ds \in DsId, NEW r \in AddSpy(w, ds, l)
    PROVE  /\ GoodResult(r)
           /\ RulesOf(r.w) = RulesOf(w)
           /\ DumpsOf(r.w) \in {DumpsOf(w), DumpsOf(w) \cup {<<ds, l>>}}
<1>1. PICK a \in AddDump(w, ds, l) :
        r = LET g == GetRcvGrp(a.w, l)
            IN  IF g = NoGrp THEN Result(a.w, "ERROR")
                ELSE Result([a.w EXCEPT !.grp[g].filter = TRUE], "OK")
  BY DEF AddSpy
<1>2. /\ Good(a.w) /\ RulesOf(a.w) = RulesOf(w)
      /\ DumpsOf(a.w) \in {DumpsOf(w), DumpsOf(w) \cup {<<ds, l>>}}
  BY AddDumpAdds DEF GoodResult
<1> DEFINE v == a.w
           g == GetRcvGrp(v, l)
           o == [v EXCEPT !.grp[g].filter = TRUE]
<1>3. CASE g = NoGrp
  BY <1>1, <1>2, <1>3 DEF Result, GoodResult
<1>4. CASE g # NoGrp
  <2>1. r = Result(o, "OK")
    BY <1>1, <1>4
  <2>2. g \in Using(v)
    BY <1>4, GetRcvGrpFinds
  <2>3. Good(v)
    BY <1>2
  <2> HIDE DEF v, g
  <2>4. Good(o) /\ Same(v, o)
    BY <2>2, <2>3, FilterSet
  <2> HIDE DEF o
  <2>5. r.w = o /\ r.ret = "OK"
    BY <2>1 DEF Result
  <2>6. QED BY <1>2, <2>4, <2>5 DEF GoodResult, Same, v
<1>5. QED BY <1>3, <1>4

\* RemoveSpy.
LEMMA RemoveSpyRemoves ==
    ASSUME NEW w, Good(w), NEW l \in Local, NEW ds \in DsId
    PROVE  /\ GoodResult(RemoveSpy(w, ds, l))
           /\ RulesOf(RemoveSpy(w, ds, l).w) = RulesOf(w)
           /\ DumpsOf(RemoveSpy(w, ds, l).w) \in {DumpsOf(w), DumpsOf(w) \ {<<ds, l>>}}
<1> DEFINE g == GetRcvGrp(w, l)
           o == [w EXCEPT !.grp[g].filter = FALSE]
<1>1. CASE g = NoGrp
  BY <1>1 DEF RemoveSpy, Result, GoodResult
<1>2. CASE g # NoGrp
  <2>1. RemoveSpy(w, ds, l) = RemoveDump(o, ds, l)
    BY <1>2 DEF RemoveSpy
  <2>2. g \in Using(w)
    BY <1>2, GetRcvGrpFinds
  <2> HIDE DEF g
  <2>3. Good(o) /\ Same(w, o)
    BY <2>2, FilterSet
  <2> HIDE DEF o
  <2>4. QED BY <2>1, <2>3, RemoveDumpRemoves DEF Same
<1>3. QED BY <1>1, <1>2

-----------------------------------------------------------------------------
(* The steps. *)

\* Every command that ProssInterMsg carries out keeps the tables good and is a
\* step of Forwarding.
LEMMA OutcomeStep ==
    ASSUME Good(sw), NEW c \in Cmd, NEW r \in Outcomes(c), sw' = r.w
    PROVE  GoodResult(r) /\ [F!Next]_(F!vars)
<1>0. \A w : w = sw' => RulesOf(w) = Rules' /\ DumpsOf(w) = DumpsOf(sw)'
  BY DEF Rules
<1>1. CASE c.op = "ADD_M2ONE"
  <2>1. c.ds \in DsId /\ c.local \in Local /\ c.dst \in Dst
    BY <1>1 DEF Cmd
  <2>2. r \in Add(sw, c.ds, c.local, 0, c.dst)
    BY <1>1 DEF Outcomes
  <2>3. AddedTo(sw, [ds |-> c.ds, local |-> c.local, src |-> 0, dst |-> c.dst], r)
    BY <2>1, <2>2, AddAdds
  <2>4. QED BY <2>1, <2>3 DEF AddedTo, F!Next, F!Add, F!vars, F!Rule, Rules
<1>2. CASE c.op = "ADD_SRC_M2ONE"
  <2>1. c.ds \in DsId /\ c.local \in Local /\ c.src \in Src /\ c.dst \in Dst
    BY <1>2 DEF Cmd
  <2>2. r \in Add(sw, c.ds, c.local, c.src, c.dst)
    BY <1>2 DEF Outcomes
  <2>3. AddedTo(sw, [ds |-> c.ds, local |-> c.local, src |-> c.src, dst |-> c.dst], r)
    BY <2>1, <2>2, AddAdds
  <2>4. QED BY <2>1, <2>3 DEF AddedTo, F!Next, F!Add, F!vars, F!Rule, Rules
<1>3. CASE c.op = "ADD"
  <2> DEFINE v == RemoveAllMmb(sw, c.ds, 0, c.dst)
             others == {q \in RulesOf(sw) : q.ds # c.ds \/ q.dst # c.dst}
  <2>1. c.ds \in DsId /\ c.local \in Local /\ c.dst \in Dst
    BY <1>3 DEF Cmd
  <2>2. r \in Add(v, c.ds, c.local, 0, c.dst)
    BY <1>3 DEF Outcomes
  <2>3. Good(v) /\ RulesOf(v) = others /\ DumpsOf(v) = DumpsOf(sw)
    BY RemoveAllMmbRemoves DEF Hit
  <2> HIDE DEF v
  <2>4. AddedTo(v, [ds |-> c.ds, local |-> c.local, src |-> 0, dst |-> c.dst], r)
    BY <2>1, <2>2, <2>3, AddAdds
  <2>5. F!Move(c.ds, c.local, c.dst)
    BY <2>3, <2>4 DEF AddedTo, F!Move, Rules
  <2>6. QED BY <2>1, <2>4, <2>5 DEF AddedTo, F!Next
<1>4. CASE c.op = "RM_M2ONE"
  <2>1. c.ds \in DsId /\ c.local \in Local /\ c.dst \in Dst
    BY <1>4 DEF Cmd
  <2>2. r = Remove(sw, c.ds, c.local, 0, c.dst)
    BY <1>4 DEF Outcomes
  <2>3. /\ GoodResult(r) /\ DumpsOf(r.w) = DumpsOf(sw)
        /\ RulesOf(r.w) = {q \in RulesOf(sw) : ~(q.local = c.local /\ Hit(q, c.ds, 0, c.dst))}
    BY <2>1, <2>2, RemoveRemoves
  <2>4. F!RemoveAtTo(c.ds, c.local, c.dst)
    BY <2>3 DEF Hit, F!RemoveAtTo, F!Drop, F!Of, Rules
  <2>5. QED BY <2>1, <2>3, <2>4 DEF F!Next
<1>5. CASE c.op = "RM_SRC_M2ONE"
  <2> DEFINE p == [ds |-> c.ds, local |-> c.local, src |-> c.src, dst |-> c.dst]
  <2>1. /\ c.ds \in DsId /\ c.local \in Local /\ c.src \in Src /\ c.dst \in Dst
        /\ c.src # 0 /\ c.dst # AnyAddr
    BY <1>5, AddressAssumption DEF Cmd
  <2>2. r = Remove(sw, c.ds, c.local, c.src, c.dst)
    BY <1>5 DEF Outcomes
  <2>3. /\ GoodResult(r) /\ DumpsOf(r.w) = DumpsOf(sw)
        /\ RulesOf(r.w) = {q \in RulesOf(sw) : ~(q.local = c.local /\ Hit(q, c.ds, c.src, c.dst))}
    BY <2>1, <2>2, RemoveRemoves
  <2>4. \A q \in RulesOf(sw) : (q.local = c.local /\ Hit(q, c.ds, c.src, c.dst)) <=> q = p
    <3>1. \A q \in RulesOf(sw) : q = [ds |-> q.ds, local |-> q.local, src |-> q.src, dst |-> q.dst]
      BY DEF RulesOf, RuleOf
    <3>2. QED BY <2>1, <3>1 DEF Hit
  <2>5. RulesOf(r.w) = RulesOf(sw) \ {p}
    BY <2>3, <2>4
  <2>6. F!RemoveRule(p)
    BY <2>3, <2>5 DEF F!RemoveRule, F!Drop, Rules
  <2>7. p \in F!Rule
    BY <2>1 DEF F!Rule
  <2>8. QED BY <2>3, <2>6, <2>7 DEF F!Next
<1>6. CASE c.op = "RM_ALLM2ONE"
  <2>1. c.ds \in DsId /\ c.dst \in Dst
    BY <1>6 DEF Cmd
  <2>2. r = Result(RemoveAllMmb(sw, c.ds, 0, c.dst), "OK")
    BY <1>6 DEF Outcomes
  <2>3. r.w = RemoveAllMmb(sw, c.ds, 0, c.dst) /\ r.ret = "OK"
    BY <2>2 DEF Result
  <2>4. F!RemoveTo(c.ds, c.dst)
    BY <2>3, RemoveAllMmbRemoves DEF Hit, F!RemoveTo, F!Drop, F!Of, Rules
  <2>5. GoodResult(r)
    BY <2>3, RemoveAllMmbRemoves DEF GoodResult
  <2>6. QED BY <2>1, <2>4, <2>5 DEF F!Next
<1>7. CASE c.op = "RM_SRC_ALLM2ONE"
  <2>1. c.ds \in DsId /\ c.src \in Src /\ c.src # 0
    BY <1>7, AddressAssumption DEF Cmd
  <2>2. r = Result(RemoveAllMmb(sw, c.ds, c.src, AnyAddr), "OK")
    BY <1>7 DEF Outcomes
  <2>3. r.w = RemoveAllMmb(sw, c.ds, c.src, AnyAddr) /\ r.ret = "OK"
    BY <2>2 DEF Result
  <2>4. F!RemoveFrom(c.ds, c.src)
    BY <2>1, <2>3, RemoveAllMmbRemoves DEF Hit, F!RemoveFrom, F!Drop, F!Of, Rules
  <2>5. GoodResult(r)
    BY <2>3, RemoveAllMmbRemoves DEF GoodResult
  <2>6. QED BY <2>1, <2>4, <2>5 DEF F!Next
<1>8. CASE c.op \in {"ADD_DUMP", "ADD_SPY"}
  <2>1. c.ds \in DsId /\ c.local \in Local
    BY <1>8 DEF Cmd
  <2>2. r \in AddDump(sw, c.ds, c.local) \/ r \in AddSpy(sw, c.ds, c.local)
    BY <1>8 DEF Outcomes
  <2>3. /\ GoodResult(r) /\ RulesOf(r.w) = RulesOf(sw)
        /\ DumpsOf(r.w) \in {DumpsOf(sw), DumpsOf(sw) \cup {<<c.ds, c.local>>}}
    <3>1. CASE r \in AddDump(sw, c.ds, c.local)
      BY <2>1, <3>1, AddDumpAdds
    <3>2. CASE r \in AddSpy(sw, c.ds, c.local)
      BY <2>1, <3>2, AddSpyAdds
    <3>3. QED BY <2>2, <3>1, <3>2
  <2>4. F!AddDump(c.ds, c.local) \/ UNCHANGED F!vars
    BY <2>3 DEF F!AddDump, F!vars, Rules
  <2>5. QED BY <2>1, <2>3, <2>4 DEF F!Next
<1>9. CASE c.op \in {"RM_DUMP", "RM_SPY"}
  <2>1. c.ds \in DsId /\ c.local \in Local
    BY <1>9 DEF Cmd
  <2>2. r = RemoveDump(sw, c.ds, c.local) \/ r = RemoveSpy(sw, c.ds, c.local)
    BY <1>9 DEF Outcomes
  <2>3. /\ GoodResult(r) /\ RulesOf(r.w) = RulesOf(sw)
        /\ DumpsOf(r.w) \in {DumpsOf(sw), DumpsOf(sw) \ {<<c.ds, c.local>>}}
    BY <2>1, <2>2, RemoveDumpRemoves, RemoveSpyRemoves
  <2>4. F!RemoveDump(c.ds, c.local) \/ UNCHANGED F!vars
    BY <2>3 DEF F!RemoveDump, F!vars, Rules
  <2>5. QED BY <2>1, <2>3, <2>4 DEF F!Next
<1>10. CASE c.op \in {"RM_ALL", "RM_ALL_EXCEPT_DUMP"}
  <2>1. c.ds \in DsId
    BY <1>10 DEF Cmd
  <2>2. \E b \in BOOLEAN : r = Result(RemoveAll(sw, c.ds, b), "OK")
    BY <1>10 DEF Outcomes
  <2>3. PICK b \in BOOLEAN : r = Result(RemoveAll(sw, c.ds, b), "OK")
    BY <2>2
  <2>4. r.w = RemoveAll(sw, c.ds, b) /\ r.ret = "OK"
    BY <2>3 DEF Result
  <2>5. /\ GoodResult(r)
        /\ RulesOf(r.w) = {q \in RulesOf(sw) : q.ds # c.ds}
        /\ DumpsOf(r.w) \in {DumpsOf(sw), {p \in DumpsOf(sw) : p[1] # c.ds}}
    BY <2>4, RemoveAllRemoves DEF GoodResult
  <2>6. F!RemoveAll(c.ds)
    BY <2>5 DEF F!RemoveAll, F!Of, Rules
  <2>7. QED BY <2>1, <2>5, <2>6 DEF F!Next
<1>11. c.op \in {"ADD", "ADD_M2ONE", "RM_M2ONE", "ADD_SRC_M2ONE", "RM_SRC_M2ONE",
                 "RM_ALLM2ONE", "RM_SRC_ALLM2ONE", "ADD_DUMP", "RM_DUMP", "ADD_SPY",
                 "RM_SPY", "RM_ALL", "RM_ALL_EXCEPT_DUMP"}
  BY DEF Cmd
<1>12. QED BY <1>1, <1>2, <1>3, <1>4, <1>5, <1>6, <1>7, <1>8, <1>9, <1>10, <1>11

-----------------------------------------------------------------------------
(* The theorems. *)

\* The pools start full and the tables empty (InitGrpMmbPool).
LEMMA InitIInv == Init => IInv /\ F!Init
<1> SUFFICES ASSUME Init PROVE IInv /\ F!Init
  OBVIOUS
<1>1. /\ sw.grp = [g \in Grp |-> BlankGrp] /\ sw.list = [g \in Grp |-> {}]
      /\ sw.bucket = [h \in 0 .. HashSize - 1 |-> {}]
      /\ sw.mmb = [m \in Mmb |-> BlankMmb] /\ sw.free = Mmb
  BY DEF Init
<1>2. sw \in Tables
  BY DEF Init, Tables, Slot, BlankGrp, BlankMmb
<1>3. Using(sw) = {} /\ \A g \in Grp : Idle(sw, g) /\ ~sw.grp[g].filter
  BY <1>1 DEF Using, Idle, BlankGrp
<1>4. Placed(sw)
  <2>1. \E g \in Grp : TRUE
    BY PoolAssumption DEF Grp
  <2>2. QED BY <1>1, <2>1 DEF Placed
<1>5. Slots(sw) /\ NeededBut(sw, {})
  BY <1>3 DEF Slots, NeededBut
<1>6. Bounded(sw)
  <2>1. \A g \in Grp, s \in Src \cup {0} : SameSrc(sw, g, s) = {}
    BY <1>1 DEF SameSrc
  <2>2. QED BY <2>1, FS_EmptySet, PoolAssumption DEF Bounded
<1>7. TypeOK
  BY <1>2, BoundAssumption DEF Init, TypeOK
<1>8. RulesOf(sw) = {} /\ DumpsOf(sw) = {}
  BY <1>1, <1>3 DEF RulesOf, DumpsOf
<1>9. QED BY <1>2, <1>4, <1>5, <1>6, <1>7, <1>8 DEF IInv, Good, Sound, F!Init, Rules

\* Commands are about rules.
LEMMA CommandRules ==
    ASSUME NEW c \in Cmd
    PROVE  Adds(c) \subseteq Rule /\ Removes(c) \subseteq Rule /\ Ends(c) \subseteq Rule
<1>1. CASE c.op \in {"ADD", "ADD_M2ONE"}
  <2>1. c.ds \in DsId /\ c.local \in Local /\ c.dst \in Dst
    BY <1>1 DEF Cmd
  <2>2. QED BY <1>1, <2>1 DEF Adds, Removes, Ends, Rule
<1>2. CASE c.op = "ADD_SRC_M2ONE"
  <2>1. c.ds \in DsId /\ c.local \in Local /\ c.src \in Src /\ c.dst \in Dst
    BY <1>2 DEF Cmd
  <2>2. QED BY <1>2, <2>1 DEF Adds, Removes, Ends, Rule
<1>3. CASE c.op \notin {"ADD", "ADD_M2ONE", "ADD_SRC_M2ONE"}
  BY <1>3 DEF Adds, Removes, Ends
<1>4. QED BY <1>1, <1>2, <1>3

\* Steps that leave the tables alone.
LEMMA SameTables ==
    ASSUME Good(sw), sw' = sw
    PROVE  Good(sw)' /\ UNCHANGED F!vars
BY DEF Good, Sound, Placed, Slots, Bounded, NeededBut, F!vars, Rules, RulesOf, RuleOf,
       DumpsOf, Using, Idle, SameSrc

\* Every step keeps the invariant and is a step of Forwarding.
LEMMA NextIInv == IInv /\ [Next]_vars => IInv' /\ [F!Next]_(F!vars)
<1> SUFFICES ASSUME IInv, [Next]_vars PROVE IInv' /\ [F!Next]_(F!vars)
  OBVIOUS
<1> USE DEF IInv
<1>1. ASSUME NEW c \in Cmd, Begin(c) PROVE IInv' /\ [F!Next]_(F!vars)
  <2>1. sw' = sw /\ sn + 1 \in 1 .. MaxCmd
    BY <1>1, BoundAssumption DEF Begin, TypeOK
  <2>2. toSwitch' \in Seq([sn : 1 .. MaxCmd, cmd : Cmd])
    BY <1>1, <2>1, AppendProperties DEF Begin, TypeOK
  <2>3. TypeOK'
    BY <1>1, <2>1, <2>2, CommandRules DEF Begin, Hits, TypeOK
  <2>4. QED BY <2>1, <2>3, SameTables
<1>2. ASSUME Acked PROVE IInv' /\ [F!Next]_(F!vars)
  <2>1. acks' \in Seq([sn : 1 .. MaxCmd, ret : {"OK", "ERROR"}])
    BY <1>2, HeadTailProperties DEF Acked, TypeOK
  <2>2. call \in Cmd
    BY <1>2 DEF Acked, TypeOK
  <2>3. /\ call' \in Cmd \cup {Null} /\ promised' \subseteq Rule /\ ended' \subseteq Rule
        /\ swept' \subseteq promised'
    BY <1>2, <2>2, CommandRules DEF Acked, TypeOK
  <2>4. TypeOK'
    BY <1>2, <2>1, <2>3 DEF Acked, TypeOK
  <2>5. QED BY <1>2, <2>4, SameTables DEF Acked
<1>3. ASSUME GiveUp PROVE IInv' /\ [F!Next]_(F!vars)
  <2>1. TypeOK'
    BY <1>3, BoundAssumption DEF GiveUp, Slow, TypeOK
  <2>2. QED BY <1>3, <2>1, SameTables DEF GiveUp
<1>4. ASSUME ProssInterMsg PROVE IInv' /\ [F!Next]_(F!vars)
  <2>1. /\ Head(toSwitch) \in [sn : 1 .. MaxCmd, cmd : Cmd]
        /\ toSwitch' \in Seq([sn : 1 .. MaxCmd, cmd : Cmd])
    BY <1>4, HeadTailProperties DEF ProssInterMsg, TypeOK
  <2>2. PICK r \in Outcomes(Head(toSwitch).cmd) :
           /\ sw' = r.w
           /\ acks' = Append(acks, [sn |-> Head(toSwitch).sn, ret |-> r.ret])
    BY <1>4 DEF ProssInterMsg
  <2>3. GoodResult(r) /\ [F!Next]_(F!vars)
    BY <2>1, <2>2, OutcomeStep
  <2>4. Good(sw)'
    <3>1. \A w : w = sw' => (Good(w) <=> Good(sw)')
      OBVIOUS
    <3>2. QED BY <2>2, <2>3, <3>1 DEF GoodResult
  <2>5. acks' \in Seq([sn : 1 .. MaxCmd, ret : {"OK", "ERROR"}])
    BY <2>1, <2>2, <2>3, AppendProperties DEF GoodResult, TypeOK
  <2>6. TypeOK'
    BY <1>4, <2>1, <2>4, <2>5 DEF ProssInterMsg, Good, Sound, TypeOK
  <2>7. QED BY <2>3, <2>4, <2>6
<1>5. ASSUME TooOld PROVE IInv' /\ [F!Next]_(F!vars)
  <2>1. toSwitch' \in Seq([sn : 1 .. MaxCmd, cmd : Cmd])
    BY <1>5, HeadTailProperties DEF TooOld, TypeOK
  <2>2. TypeOK'
    BY <1>5, <2>1, BoundAssumption DEF TooOld, Slow, TypeOK
  <2>3. QED BY <1>5, <2>2, SameTables DEF TooOld
<1>6. ASSUME UNCHANGED vars PROVE IInv' /\ [F!Next]_(F!vars)
  <2>1. TypeOK'
    BY <1>6 DEF vars, TypeOK
  <2>2. QED BY <1>6, <2>1, SameTables DEF vars
<1>7. QED BY <1>1, <1>2, <1>3, <1>4, <1>5, <1>6 DEF Next

\* The inductive invariant holds.
LEMMA Invariance == Spec => []IInv
<1>1. Init => IInv
  BY InitIInv
<1>2. IInv /\ [Next]_vars => IInv'
  BY NextIInv
<1>3. QED BY <1>1, <1>2, PTL DEF Spec

\* TransData finds the members of a source, no more and no fewer, and for want
\* of them those without a source and the strays.
LEMMA TargetsFound ==
    ASSUME IInv, NEW g \in Using(sw), NEW s \in Src
    PROVE  Targets(g, s) = IF SameSrc(sw, g, s) # {} THEN {SameSrc(sw, g, s)}
                           ELSE Cut(SameSrc(sw, g, 0) \cup Strays(g))
<1> DEFINE l == sw.grp[g].local
<1>1. /\ g \in Grp /\ l \in Nat /\ s \in Nat /\ sw \in Tables
      /\ Placed(sw) /\ Bounded(sw)
  BY Addresses DEF IInv, Good, Sound, Tables, Slot, Using
<1>2. Hash(l, s) \in 0 .. HashSize - 1 /\ Hash(l, 0) \in 0 .. HashSize - 1
  BY <1>1, HashType
<1> HIDE DEF l
<1>3. ASSUME NEW h \in 0 .. HashSize - 1, NEW m \in sw.bucket[h], sw.mmb[m].rcv = g
      PROVE  m \in sw.list[g] /\ m \in Mmb
  <2>1. m \in Mmb /\ m \notin sw.free
    BY <1>1 DEF Placed, Tables
  <2>2. PICK f \in Grp : m \in sw.list[f]
    BY <1>1, <2>1 DEF Placed
  <2>3. f = g
    BY <1>1, <1>3, <2>1, <2>2 DEF Placed
  <2>4. QED BY <2>1, <2>2, <2>3
<1>4. ASSUME NEW m \in sw.list[g], NEW h \in 0 .. HashSize - 1
      PROVE  /\ sw.mmb[m].rcv = g
             /\ m \in sw.bucket[h] <=> h = Hash(l, sw.mmb[m].src)
  <2>1. m \in Mmb
    BY <1>1 DEF Tables
  <2>2. QED BY <1>1, <2>1 DEF Placed, l
<1>5. ExactFor(g, s) = SameSrc(sw, g, s)
  <2>1. \A m \in ExactFor(g, s) : m \in SameSrc(sw, g, s)
    BY <1>2, <1>3 DEF ExactFor, SameSrc, l
  <2>2. \A m \in SameSrc(sw, g, s) : m \in ExactFor(g, s)
    BY <1>2, <1>4 DEF ExactFor, SameSrc, l
  <2>3. QED BY <2>1, <2>2
<1>6. ForAll(g) = SameSrc(sw, g, 0) \cup Strays(g)
  <2>1. ASSUME NEW m \in ForAll(g) PROVE m \in SameSrc(sw, g, 0) \cup Strays(g)
    <3>1. m \in sw.bucket[Hash(l, 0)] /\ sw.mmb[m].rcv = g
      BY DEF ForAll, l
    <3>2. m \in sw.list[g]
      BY <1>2, <1>3, <3>1
    <3>3. Hash(l, 0) = Hash(l, sw.mmb[m].src)
      BY <1>2, <1>4, <3>1, <3>2
    <3>4. QED BY <3>2, <3>3 DEF SameSrc, Strays, l
  <2>2. \A m \in SameSrc(sw, g, 0) : m \in ForAll(g)
    BY <1>2, <1>4 DEF ForAll, SameSrc, l
  <2>3. \A m \in Strays(g) : m \in ForAll(g)
    BY <1>2, <1>4 DEF ForAll, Strays, l
  <2>4. QED BY <2>1, <2>2, <2>3
<1>7. Cut(SameSrc(sw, g, s)) = {SameSrc(sw, g, s)}
  BY <1>1 DEF Bounded, Cut
<1>8. QED BY <1>5, <1>6, <1>7 DEF Targets

\* What the filter lets through goes to the targets.
LEMMA PacketsFind == IInv => PacketsFindMembers
<1> SUFFICES ASSUME IInv, NEW g \in Using(sw), NEW s \in Src, NEW v \in Verdict
             PROVE  SentTo(g, s, v) =
                        IF sw.grp[g].filter /\ v # 0 THEN {{}}
                        ELSE IF SameSrc(sw, g, s) # {} THEN {SameSrc(sw, g, s)}
                        ELSE Cut(SameSrc(sw, g, 0) \cup Strays(g))
  BY DEF PacketsFindMembers
<1>1. CASE Dropped(g, v)
  BY <1>1 DEF SentTo, Dropped
<1>2. CASE ~Dropped(g, v)
  <2>1. SentTo(g, s, v) = Targets(g, s)
    BY <1>2 DEF SentTo
  <2>2. QED BY <1>2, <2>1, TargetsFound DEF Dropped
<1>3. QED BY <1>1, <1>2

\* What follows from the invariant alone.
LEMMA IInvImplies == IInv => MembersPlaced /\ GroupsNeeded /\ PacketsFindMembers
<1> SUFFICES ASSUME IInv PROVE MembersPlaced /\ GroupsNeeded
  BY PacketsFind
<1>1. MembersPlaced
  BY DEF IInv, Good, Sound, Placed, MembersPlaced
<1>2. \A g \in Grp : g \in Using(sw) <=> ~Idle(sw, g)
  BY DEF IInv, Good, Sound, Slots, NeededBut
<1>3. GroupsNeeded
  BY <1>2 DEF IInv, Good, Sound, Slots, GroupsNeeded
<1>4. QED BY <1>1, <1>3

\* Every variable of SockSwitch keeps its type.
THEOREM TypeInvariance == Spec => []TypeOK
<1>1. IInv => TypeOK
  BY DEF IInv
<1>2. QED BY <1>1, Invariance, PTL

\* A member is in the pool, or on one list and in the one bucket where it is
\* looked for, whatever sequence of commands, failures and late answers came
\* (AddtoSndHash, RemovefromSndHash, FreeMmb).
THEOREM MembersArePlaced == Spec => []MembersPlaced
BY IInvImplies, Invariance, PTL

\* A receive group is in use exactly as long as it has a member or a dump
\* (AllocGrp, FreeGrp).
THEOREM GroupsAreNeeded == Spec => []GroupsNeeded
BY IInvImplies, Invariance, PTL

\* Every packet that no filter judges, or that the filter returns zero for, goes
\* to all members added for its source and to nobody else; if there are none, to
\* those added without a source and to the strays, those of any other source
\* whose key is theirs.  One that the filter returns anything else for is not
\* forwarded, DSOK included (TransData, FuncForSpy, GetSndMmb).
THEOREM PacketsFindTheirMembers == Spec => []PacketsFindMembers
BY IInvImplies, Invariance, PTL

\* For any number of users, addresses, members and groups the switch implements
\* a set of rules that one command changes at a time (ProssInterMsg).
THEOREM SwitchForwards == Spec => ImplementsForwarding
<1>1. Init => F!Init
  BY InitIInv
<1>2. IInv /\ [Next]_vars => [F!Next]_(F!vars)
  BY NextIInv
<1>3. QED BY <1>1, <1>2, Invariance, PTL DEF Spec, ImplementsForwarding, F!Spec

-----------------------------------------------------------------------------
(* What the callers were told.  The acknowledgements in the socket are those *)
(* of commands before the ones that wait, so that when the acknowledgement   *)
(* of the last command is there, no command waits and the rules stay.        *)

\* The rules of the switch are as a caller takes DSOK for command c.
Held(c, R) ==
    /\ \A p \in Adds(c) : \E q \in R : SameRule(q, p)
    /\ Ends(c) \cap R = {}

InOrder ==
    /\ \A i \in 1 .. Len(acks) :
          /\ acks[i].sn <= sn
          /\ \A k \in 1 .. Len(toSwitch) : acks[i].sn < toSwitch[k].sn
    /\ \A k \in 1 .. Len(toSwitch) : toSwitch[k].sn <= sn
    /\ \A j, k \in 1 .. Len(toSwitch) : j < k => toSwitch[j].sn < toSwitch[k].sn

CallIsLast ==
    call # Null =>
        /\ \A k \in 1 .. Len(toSwitch) : toSwitch[k].sn = sn => toSwitch[k].cmd = call
        /\ \A i \in 1 .. Len(acks) :
              acks[i].sn = sn /\ acks[i].ret = "OK" => Held(call, Rules)

\* The rules that the tables may have when the k-th command is carried out, and
\* of those the ones that it may take.
May(k) == Rules \cup UNION {Adds(toSwitch[j].cmd) : j \in 1 .. k - 1}

Taken(k) == May(k) \cap (Removes(toSwitch[k].cmd) \cup Sweeps(toSwitch[k].cmd))

WaitingSpares ==
    \A k \in 1 .. Len(toSwitch) :
        /\ Adds(toSwitch[k].cmd) \subseteq asked
        /\ \A r \in promised, q \in Taken(k) : SameRule(q, r) => r \in swept
        /\ ended \cap Adds(toSwitch[k].cmd) = {}

ToldInv == InOrder /\ CallIsLast /\ WaitingSpares /\ Rules \subseteq asked /\ ToldIsDone

\* What a command does to the rules.
CommandDoes(c, r) ==
    /\ RulesOf(r.w) \subseteq Rules \cup Adds(c)
    /\ Rules \ RulesOf(r.w) \subseteq Removes(c) \cup Sweeps(c)
    /\ r.ret = "OK" => Held(c, RulesOf(r.w))

\* Adding a rule takes none away.
LEMMA AddedHolds ==
    ASSUME NEW R, NEW p
    PROVE  /\ F!Added(R, p) \subseteq R \cup {p}
           /\ R \subseteq F!Added(R, p)
           /\ \E q \in F!Added(R, p) : SameRule(q, p)
BY DEF F!Added, SameRule

\* ProssInterMsg only adds the rules that the caller asks it to add, only removes
\* what he asks it to remove and what it sweeps, and DSOK means that it did.
LEMMA OutcomeRules ==
    ASSUME Good(sw), Rules \subseteq Rule, NEW c \in Cmd, NEW r \in Outcomes(c)
    PROVE  CommandDoes(c, r)
<1> USE DEF Rules
<1>1. CASE c.op = "ADD_M2ONE"
  <2> DEFINE p == [ds |-> c.ds, local |-> c.local, src |-> 0, dst |-> c.dst]
  <2>1. c.ds \in DsId /\ c.local \in Local /\ c.dst \in Dst
    BY <1>1 DEF Cmd
  <2>2. r \in Add(sw, c.ds, c.local, 0, c.dst)
    BY <1>1 DEF Outcomes
  <2>3. AddedTo(sw, p, r)
    BY <2>1, <2>2, AddAdds
  <2>4. Adds(c) = {p} /\ Ends(c) = {}
    BY <1>1 DEF Adds, Ends, Removes
  <2> HIDE DEF p
  <2>5. QED BY <2>3, <2>4, AddedHolds DEF AddedTo, CommandDoes, Held
<1>2. CASE c.op = "ADD_SRC_M2ONE"
  <2> DEFINE p == [ds |-> c.ds, local |-> c.local, src |-> c.src, dst |-> c.dst]
  <2>1. c.ds \in DsId /\ c.local \in Local /\ c.src \in Src /\ c.dst \in Dst
    BY <1>2 DEF Cmd
  <2>2. r \in Add(sw, c.ds, c.local, c.src, c.dst)
    BY <1>2 DEF Outcomes
  <2>3. AddedTo(sw, p, r)
    BY <2>1, <2>2, AddAdds
  <2>4. Adds(c) = {p} /\ Ends(c) = {}
    BY <1>2 DEF Adds, Ends, Removes
  <2> HIDE DEF p
  <2>5. QED BY <2>3, <2>4, AddedHolds DEF AddedTo, CommandDoes, Held
<1>3. CASE c.op = "ADD"
  <2> DEFINE v == RemoveAllMmb(sw, c.ds, 0, c.dst)
             p == [ds |-> c.ds, local |-> c.local, src |-> 0, dst |-> c.dst]
             gone == {q \in Rule : q.ds = c.ds /\ q.dst = c.dst}
  <2>1. c.ds \in DsId /\ c.local \in Local /\ c.dst \in Dst
    BY <1>3 DEF Cmd
  <2>2. r \in Add(v, c.ds, c.local, 0, c.dst)
    BY <1>3 DEF Outcomes
  <2>3. Good(v) /\ RulesOf(v) = RulesOf(sw) \ gone
    BY RemoveAllMmbRemoves DEF Hit
  <2> HIDE DEF v
  <2>4. AddedTo(v, p, r)
    BY <2>1, <2>2, <2>3, AddAdds
  <2>5. Adds(c) = {p} /\ Removes(c) = gone /\ Ends(c) = gone \ {p}
    BY <1>3 DEF Adds, Ends, Removes
  <2> HIDE DEF p, gone
  <2>6. QED BY <2>3, <2>4, <2>5, AddedHolds DEF AddedTo, CommandDoes, Held
<1>4. CASE c.op = "RM_M2ONE"
  <2>1. c.ds \in DsId /\ c.local \in Local /\ c.dst \in Dst
    BY <1>4 DEF Cmd
  <2>2. r = Remove(sw, c.ds, c.local, 0, c.dst)
    BY <1>4 DEF Outcomes
  <2>3. RulesOf(r.w) = {q \in RulesOf(sw) : ~(q.local = c.local /\ Hit(q, c.ds, 0, c.dst))}
    BY <2>1, <2>2, RemoveRemoves
  <2>4. /\ Adds(c) = {} /\ Ends(c) = Removes(c)
        /\ Removes(c) = {q \in Rule : q.local = c.local /\ Hit(q, c.ds, 0, c.dst)}
    BY <1>4 DEF Adds, Ends, Removes, Hit
  <2>5. QED BY <2>3, <2>4 DEF CommandDoes, Held
<1>5. CASE c.op = "RM_SRC_M2ONE"
  <2>1. /\ c.ds \in DsId /\ c.local \in Local /\ c.src \in Src /\ c.dst \in Dst
        /\ c.src # 0 /\ c.dst # AnyAddr
    BY <1>5, AddressAssumption DEF Cmd
  <2>2. r = Remove(sw, c.ds, c.local, c.src, c.dst)
    BY <1>5 DEF Outcomes
  <2>3. RulesOf(r.w) = {q \in RulesOf(sw) : ~(q.local = c.local /\ Hit(q, c.ds, c.src, c.dst))}
    BY <2>1, <2>2, RemoveRemoves
  <2>4. /\ Adds(c) = {} /\ Ends(c) = Removes(c)
        /\ Removes(c) = {q \in Rule : q.local = c.local /\ Hit(q, c.ds, c.src, c.dst)}
    BY <1>5, <2>1 DEF Adds, Ends, Removes, Hit
  <2>5. QED BY <2>3, <2>4 DEF CommandDoes, Held
<1>6. CASE c.op = "RM_ALLM2ONE"
  <2>1. r.w = RemoveAllMmb(sw, c.ds, 0, c.dst)
    BY <1>6 DEF Outcomes, Result
  <2>2. RulesOf(r.w) = {q \in RulesOf(sw) : ~Hit(q, c.ds, 0, c.dst)}
    BY <2>1, RemoveAllMmbRemoves
  <2>3. /\ Adds(c) = {} /\ Ends(c) = Removes(c)
        /\ Removes(c) = {q \in Rule : Hit(q, c.ds, 0, c.dst)}
    BY <1>6 DEF Adds, Ends, Removes, Hit
  <2>4. QED BY <2>2, <2>3 DEF CommandDoes, Held
<1>7. CASE c.op = "RM_SRC_ALLM2ONE"
  <2>1. c.src \in Src /\ c.src # 0
    BY <1>7, AddressAssumption DEF Cmd
  <2>2. r.w = RemoveAllMmb(sw, c.ds, c.src, AnyAddr)
    BY <1>7 DEF Outcomes, Result
  <2>3. RulesOf(r.w) = {q \in RulesOf(sw) : ~Hit(q, c.ds, c.src, AnyAddr)}
    BY <2>2, RemoveAllMmbRemoves
  <2>4. /\ Adds(c) = {} /\ Ends(c) = Removes(c)
        /\ Removes(c) = {q \in Rule : q.local = c.local /\ Hit(q, c.ds, c.src, AnyAddr)}
        /\ Sweeps(c) = {q \in Rule : q.local # c.local /\ Hit(q, c.ds, c.src, AnyAddr)}
    BY <1>7, <2>1 DEF Adds, Ends, Removes, Sweeps, Hit
  <2>5. QED BY <2>3, <2>4 DEF CommandDoes, Held
<1>8. CASE c.op \in {"ADD_DUMP", "ADD_SPY", "RM_DUMP", "RM_SPY"}
  <2>1. c.ds \in DsId /\ c.local \in Local
    BY <1>8 DEF Cmd
  <2>2. \/ r \in AddDump(sw, c.ds, c.local) \/ r \in AddSpy(sw, c.ds, c.local)
        \/ r = RemoveDump(sw, c.ds, c.local) \/ r = RemoveSpy(sw, c.ds, c.local)
    BY <1>8 DEF Outcomes
  <2>3. CASE r \in AddDump(sw, c.ds, c.local)
    BY <1>8, <2>1, <2>3, AddDumpAdds DEF CommandDoes, Held, Adds, Ends, Removes
  <2>4. CASE r \in AddSpy(sw, c.ds, c.local)
    BY <1>8, <2>1, <2>4, AddSpyAdds DEF CommandDoes, Held, Adds, Ends, Removes
  <2>5. CASE r = RemoveDump(sw, c.ds, c.local)
    BY <1>8, <2>1, <2>5, RemoveDumpRemoves DEF CommandDoes, Held, Adds, Ends, Removes
  <2>6. CASE r = RemoveSpy(sw, c.ds, c.local)
    BY <1>8, <2>1, <2>6, RemoveSpyRemoves DEF CommandDoes, Held, Adds, Ends, Removes
  <2>7. QED BY <2>2, <2>3, <2>4, <2>5, <2>6
<1>9. CASE c.op \in {"RM_ALL", "RM_ALL_EXCEPT_DUMP"}
  <2>1. \E b \in BOOLEAN : r = Result(RemoveAll(sw, c.ds, b), "OK")
    BY <1>9 DEF Outcomes
  <2>2. PICK b \in BOOLEAN : r = Result(RemoveAll(sw, c.ds, b), "OK")
    BY <2>1
  <2>3. r.w = RemoveAll(sw, c.ds, b)
    BY <2>2 DEF Result
  <2>4. RulesOf(r.w) = {q \in RulesOf(sw) : q.ds # c.ds}
    BY <2>3, RemoveAllRemoves
  <2>5. /\ Adds(c) = {} /\ Ends(c) = Removes(c)
        /\ Removes(c) = {q \in Rule : q.ds = c.ds}
    BY <1>9 DEF Adds, Ends, Removes
  <2>6. QED BY <2>4, <2>5 DEF CommandDoes, Held
<1>10. c.op \in {"ADD", "ADD_M2ONE", "RM_M2ONE", "ADD_SRC_M2ONE", "RM_SRC_M2ONE",
                 "RM_ALLM2ONE", "RM_SRC_ALLM2ONE", "ADD_DUMP", "RM_DUMP", "ADD_SPY",
                 "RM_SPY", "RM_ALL", "RM_ALL_EXCEPT_DUMP"}
  BY DEF Cmd
<1>11. QED BY <1>1, <1>2, <1>3, <1>4, <1>5, <1>6, <1>7, <1>8, <1>9, <1>10

\* What follows the first of a sequence.
LEMMA TailIs ==
    ASSUME NEW S, NEW s \in Seq(S), s # <<>>
    PROVE  /\ Len(s) \in Nat \ {0}
           /\ Len(Tail(s)) = Len(s) - 1
           /\ \A k \in 1 .. Len(s) - 1 : Tail(s)[k] = s[k + 1]
           /\ Head(s) = s[1]
BY HeadTailProperties, EmptySeq, LenProperties

\* What is put behind the last of a sequence.
LEMMA AppendIs ==
    ASSUME NEW S, NEW s \in Seq(S), NEW e \in S
    PROVE  /\ Len(s) \in Nat
           /\ Len(Append(s, e)) = Len(s) + 1
           /\ \A k \in 1 .. Len(s) : Append(s, e)[k] = s[k]
           /\ Append(s, e)[Len(s) + 1] = e
BY AppendProperties, LenProperties

\* Nobody has been told anything yet.
LEMMA InitTold == Init => ToldInv
<1> SUFFICES ASSUME Init PROVE ToldInv
  OBVIOUS
<1>1. Rules = {}
  BY DEF Init, Rules, RulesOf
<1>2. Len(toSwitch) = 0 /\ Len(acks) = 0 /\ call = Null /\ promised = {} /\ ended = {}
  BY DEF Init
<1>3. InOrder /\ CallIsLast /\ WaitingSpares
  BY <1>2 DEF InOrder, CallIsLast, WaitingSpares
<1>4. ToldIsDone
  BY <1>2 DEF ToldIsDone
<1>5. QED BY <1>1, <1>3, <1>4 DEF ToldInv

\* Serial numbers are numbers.
LEMMA Serials ==
    ASSUME TypeOK
    PROVE  /\ Len(toSwitch) \in Nat /\ Len(acks) \in Nat /\ sn \in Nat
           /\ \A k \in 1 .. Len(toSwitch) : toSwitch[k].sn \in Nat
           /\ \A i \in 1 .. Len(acks) : acks[i].sn \in Nat
<1>1. /\ toSwitch \in Seq([sn : 1 .. MaxCmd, cmd : Cmd])
      /\ acks \in Seq([sn : 1 .. MaxCmd, ret : {"OK", "ERROR"}])
      /\ sn \in Nat
  BY BoundAssumption DEF TypeOK
<1>2. Len(toSwitch) \in Nat /\ Len(acks) \in Nat
  BY <1>1, LenProperties
<1>3. ASSUME NEW k \in 1 .. Len(toSwitch) PROVE toSwitch[k].sn \in Nat
  <2>1. toSwitch[k] \in [sn : 1 .. MaxCmd, cmd : Cmd]
    BY <1>1, ElementOfSeq
  <2>2. QED BY <2>1
<1>4. ASSUME NEW i \in 1 .. Len(acks) PROVE acks[i].sn \in Nat
  <2>1. acks[i] \in [sn : 1 .. MaxCmd, ret : {"OK", "ERROR"}]
    BY <1>1, ElementOfSeq
  <2>2. QED BY <2>1
<1>5. QED BY <1>1, <1>2, <1>3, <1>4

\* A new command is behind all others.
LEMMA ToldBegin ==
    ASSUME IInv, ToldInv, NEW c \in Cmd, Begin(c)
    PROVE  ToldInv'
<1>1. /\ sn' = sn + 1 /\ sn \in Nat /\ call' = c /\ acks' = acks /\ sw' = sw
      /\ asked' = asked \cup Adds(c) /\ promised' = promised \ Removes(c)
      /\ swept' = (swept \cup Hits(c)) \ Removes(c)
      /\ ended' = ended \ Adds(c)
  BY DEF Begin, IInv, TypeOK
<1>2. /\ Len(toSwitch) \in Nat /\ Len(acks) \in Nat
      /\ Len(toSwitch') = Len(toSwitch) + 1
      /\ \A k \in 1 .. Len(toSwitch) : toSwitch'[k] = toSwitch[k]
      /\ toSwitch'[Len(toSwitch) + 1].sn = sn + 1
      /\ toSwitch'[Len(toSwitch) + 1].cmd = c
  <2> DEFINE e == [sn |-> sn + 1, cmd |-> c]
  <2>1. /\ e \in [sn : 1 .. MaxCmd, cmd : Cmd] /\ toSwitch' = Append(toSwitch, e)
        /\ e.sn = sn + 1 /\ e.cmd = c
    BY BoundAssumption DEF Begin, IInv, TypeOK
  <2>2. /\ toSwitch \in Seq([sn : 1 .. MaxCmd, cmd : Cmd])
        /\ acks \in Seq([sn : 1 .. MaxCmd, ret : {"OK", "ERROR"}])
    BY DEF IInv, TypeOK
  <2> HIDE DEF e
  <2>3. QED BY <2>1, <2>2, AppendIs, LenProperties
<1>3. /\ \A k \in 1 .. Len(toSwitch) : toSwitch[k].sn \in Nat
      /\ \A i \in 1 .. Len(acks) : acks[i].sn \in Nat
  BY Serials DEF IInv
<1>4. \A k \in 1 .. Len(toSwitch') : k \in 1 .. Len(toSwitch) \/ k = Len(toSwitch) + 1
  BY <1>2
<1>5. InOrder'
  <2>1. /\ \A i \in 1 .. Len(acks) : acks[i].sn <= sn
        /\ \A i \in 1 .. Len(acks), k \in 1 .. Len(toSwitch) : acks[i].sn < toSwitch[k].sn
        /\ \A k \in 1 .. Len(toSwitch) : toSwitch[k].sn <= sn
        /\ \A j, k \in 1 .. Len(toSwitch) : j < k => toSwitch[j].sn < toSwitch[k].sn
    BY DEF ToldInv, InOrder
  <2>2. \A i \in 1 .. Len(acks') : acks'[i].sn <= sn'
    BY <1>1, <1>3, <2>1
  <2>3. \A i \in 1 .. Len(acks'), k \in 1 .. Len(toSwitch') : acks'[i].sn < toSwitch'[k].sn
    BY <1>1, <1>2, <1>3, <1>4, <2>1
  <2>4. \A k \in 1 .. Len(toSwitch') : toSwitch'[k].sn <= sn'
    BY <1>1, <1>2, <1>3, <1>4, <2>1
  <2>5. ASSUME NEW j \in 1 .. Len(toSwitch'), NEW k \in 1 .. Len(toSwitch'), j < k
        PROVE  toSwitch'[j].sn < toSwitch'[k].sn
    <3>1. j \in 1 .. Len(toSwitch)
      BY <1>2, <1>4, <2>5
    <3>2. CASE k \in 1 .. Len(toSwitch)
      BY <1>2, <2>1, <2>5, <3>1, <3>2
    <3>3. CASE k = Len(toSwitch) + 1
      BY <1>1, <1>2, <1>3, <2>1, <3>1, <3>3
    <3>4. QED BY <1>4, <3>2, <3>3
  <2>6. QED BY <2>2, <2>3, <2>4, <2>5 DEF InOrder
<1>6. CallIsLast'
  BY <1>1, <1>2, <1>3, <1>4 DEF ToldInv, InOrder, CallIsLast
<1>7. Rules' = Rules
  BY <1>1 DEF Rules
<1>8. WaitingSpares'
  <2>1. \A k \in 1 .. Len(toSwitch) : /\ Adds(toSwitch[k].cmd) \subseteq asked
                                      /\ \A r \in promised, q \in Taken(k) :
                                            SameRule(q, r) => r \in swept
                                      /\ ended \cap Adds(toSwitch[k].cmd) = {}
    BY DEF ToldInv, WaitingSpares
  <2>2. \A k \in 1 .. Len(toSwitch') : /\ Adds(toSwitch'[k].cmd) \subseteq asked'
                                       /\ ended' \cap Adds(toSwitch'[k].cmd) = {}
    BY <1>1, <1>2, <1>4, <2>1
  <2>3. ASSUME NEW k \in 1 .. Len(toSwitch'), NEW r \in promised', NEW q \in Taken(k)',
               SameRule(q, r)
        PROVE  r \in swept'
    <3>1. r \in promised /\ r \notin Removes(c)
      BY <1>1
    <3>2. \A j \in 1 .. k - 1 : j \in 1 .. Len(toSwitch) /\ toSwitch'[j] = toSwitch[j]
      BY <1>2
    <3>3. CASE k \in 1 .. Len(toSwitch)
      <4>1. q \in Taken(k)
        BY <1>2, <1>7, <3>2, <3>3 DEF Taken, May
      <4>2. QED BY <1>1, <2>1, <2>3, <3>1, <3>3, <4>1
    <3>4. CASE k = Len(toSwitch) + 1
      <4>1. q \in Removes(c) \cup Sweeps(c)
        BY <1>2, <3>4 DEF Taken
      <4>2. q \in asked
        BY <1>7, <2>1, <3>2 DEF Taken, May, ToldInv
      <4>3. QED BY <1>1, <2>3, <3>1, <4>1, <4>2 DEF Hits
    <3>5. QED BY <1>4, <3>3, <3>4
  <2>4. QED BY <2>2, <2>3 DEF WaitingSpares
<1>9. Rules' \subseteq asked' /\ ToldIsDone'
  BY <1>1, <1>7 DEF ToldInv, ToldIsDone, Holds
<1>10. QED BY <1>5, <1>6, <1>8, <1>9 DEF ToldInv

\* An acknowledgement with the last serial number is about the last command.
LEMMA ToldAcked ==
    ASSUME IInv, ToldInv, Acked
    PROVE  ToldInv'
<1>1. /\ sn' = sn /\ toSwitch' = toSwitch /\ sw' = sw /\ asked' = asked /\ call # Null
      /\ acks' = Tail(acks) /\ acks # <<>> /\ call' \in {call, Null}
  BY DEF Acked
<1>2. /\ Len(acks) \in Nat \ {0} /\ Len(acks') = Len(acks) - 1
      /\ \A i \in 1 .. Len(acks') : acks'[i] = acks[i + 1] /\ i + 1 \in 1 .. Len(acks)
      /\ Head(acks) = acks[1] /\ 1 \in 1 .. Len(acks)
  BY <1>1, TailIs DEF IInv, TypeOK
<1>3. InOrder'
  BY <1>1, <1>2 DEF ToldInv, InOrder
<1>4. Rules' = Rules
  BY <1>1 DEF Rules
<1>5. CallIsLast'
  BY <1>1, <1>2, <1>4 DEF ToldInv, CallIsLast
<1>6. CASE Mine(Head(acks)) /\ Head(acks).ret = "OK"
  <2>1. /\ promised' = promised \cup Adds(call)
        /\ swept' = swept \ Adds(call)
        /\ ended' = ended \cup (Ends(call) \cap asked)
    BY <1>6 DEF Acked
  <2>2. acks[1].sn = sn /\ acks[1].ret = "OK"
    BY <1>2, <1>6 DEF Mine
  <2>3. Held(call, Rules)
    BY <1>1, <1>2, <2>2 DEF ToldInv, CallIsLast
  <2>4. \A k \in 1 .. Len(toSwitch) : FALSE
    <3>1. ASSUME NEW k \in 1 .. Len(toSwitch) PROVE FALSE
      <4>1. toSwitch[k].sn \in Nat /\ sn \in Nat
        BY Serials DEF IInv
      <4>2. QED BY <1>2, <2>2, <4>1 DEF ToldInv, InOrder
    <3>2. QED BY <3>1
  <2>5. WaitingSpares'
    BY <1>1, <2>4 DEF WaitingSpares
  <2>6. ToldIsDone'
    BY <1>1, <1>4, <2>1, <2>3 DEF ToldInv, ToldIsDone, Holds, Held
  <2>7. QED BY <1>1, <1>3, <1>4, <1>5, <2>5, <2>6 DEF ToldInv
<1>7. CASE ~(Mine(Head(acks)) /\ Head(acks).ret = "OK")
  <2>1. promised' = promised /\ swept' = swept /\ ended' = ended
    BY <1>7 DEF Acked
  <2>2. QED BY <1>1, <1>3, <1>4, <1>5, <2>1
            DEF ToldInv, WaitingSpares, Taken, May, ToldIsDone, Holds
<1>8. QED BY <1>6, <1>7

\* Commands that come late are never about what was last said.
LEMMA ToldPross ==
    ASSUME IInv, ToldInv, ProssInterMsg
    PROVE  ToldInv'
<1> DEFINE c == Head(toSwitch).cmd
           n == Head(toSwitch).sn
<1>1. /\ sn' = sn /\ call' = call /\ asked' = asked /\ promised' = promised /\ ended' = ended
      /\ swept' = swept
      /\ toSwitch' = Tail(toSwitch) /\ toSwitch # <<>>
  BY DEF ProssInterMsg
<1>2. /\ Len(toSwitch) \in Nat \ {0} /\ Len(toSwitch') = Len(toSwitch) - 1
      /\ \A k \in 1 .. Len(toSwitch') :
            toSwitch'[k] = toSwitch[k + 1] /\ k + 1 \in 1 .. Len(toSwitch) /\ 1 < k + 1
      /\ Head(toSwitch) = toSwitch[1] /\ 1 \in 1 .. Len(toSwitch)
      /\ c \in Cmd /\ n \in 1 .. MaxCmd
  <2>1. toSwitch \in Seq([sn : 1 .. MaxCmd, cmd : Cmd])
    BY DEF IInv, TypeOK
  <2>2. Head(toSwitch) \in [sn : 1 .. MaxCmd, cmd : Cmd]
    BY <1>1, <2>1, HeadTailProperties
  <2>3. QED BY <1>1, <2>1, <2>2, TailIs
<1>3. PICK r \in Outcomes(c) : /\ sw' = r.w
                               /\ acks' = Append(acks, [sn |-> n, ret |-> r.ret])
  BY DEF ProssInterMsg
<1>4. GoodResult(r) /\ CommandDoes(c, r)
  BY <1>2, <1>3, OutcomeStep, OutcomeRules DEF IInv, ToldInv, TypeOK
<1>5. /\ Len(acks) \in Nat /\ Len(acks') = Len(acks) + 1
      /\ \A i \in 1 .. Len(acks) : acks'[i] = acks[i]
      /\ acks'[Len(acks) + 1].sn = n /\ acks'[Len(acks) + 1].ret = r.ret
  <2> DEFINE e == [sn |-> n, ret |-> r.ret]
  <2>1. e \in [sn : 1 .. MaxCmd, ret : {"OK", "ERROR"}] /\ e.sn = n /\ e.ret = r.ret
    BY <1>2, <1>4 DEF GoodResult
  <2>2. acks' = Append(acks, e)
    BY <1>3
  <2> HIDE DEF e, c, n
  <2>3. QED BY <2>1, <2>2, AppendIs DEF IInv, TypeOK
<1>6. \A i \in 1 .. Len(acks') : i \in 1 .. Len(acks) \/ i = Len(acks) + 1
  BY <1>5
<1>7. /\ c = toSwitch[1].cmd /\ n = toSwitch[1].sn
  BY <1>2
<1>8. Rules' = RulesOf(r.w)
  BY <1>3 DEF Rules
<1> HIDE DEF c, n
<1>9. InOrder'
  <2>1. /\ \A i \in 1 .. Len(acks) : acks[i].sn <= sn
        /\ \A i \in 1 .. Len(acks), k \in 1 .. Len(toSwitch) : acks[i].sn < toSwitch[k].sn
        /\ \A k \in 1 .. Len(toSwitch) : toSwitch[k].sn <= sn
        /\ \A j, k \in 1 .. Len(toSwitch) : j < k => toSwitch[j].sn < toSwitch[k].sn
    BY DEF ToldInv, InOrder
  <2>2. \A k \in 1 .. Len(toSwitch') : /\ n < toSwitch'[k].sn /\ toSwitch'[k].sn <= sn
                                       /\ \A i \in 1 .. Len(acks) : acks[i].sn < toSwitch'[k].sn
    BY <1>2, <1>7, <2>1
  <2>3. \A j, k \in 1 .. Len(toSwitch') : j < k => toSwitch'[j].sn < toSwitch'[k].sn
    BY <1>2, <2>1
  <2>4. n <= sn
    BY <1>2, <1>7, <2>1
  <2>5. ASSUME NEW i \in 1 .. Len(acks')
        PROVE  /\ acks'[i].sn <= sn
               /\ \A k \in 1 .. Len(toSwitch') : acks'[i].sn < toSwitch'[k].sn
    <3>1. CASE i \in 1 .. Len(acks)
      BY <1>5, <2>1, <2>2, <3>1
    <3>2. CASE i = Len(acks) + 1
      BY <1>5, <2>2, <2>4, <3>2
    <3>3. QED BY <1>6, <3>1, <3>2
  <2>6. QED BY <1>1, <2>2, <2>3, <2>5 DEF InOrder
<1>10. CallIsLast'
  <2>1. ASSUME call # Null, NEW i \in 1 .. Len(acks'), acks'[i].sn = sn, acks'[i].ret = "OK"
        PROVE  Held(call, Rules')
    <3>1. CASE i \in 1 .. Len(acks)
      <4>1. acks[i].sn = sn
        BY <1>5, <2>1, <3>1
      <4>2. acks[i].sn < toSwitch[1].sn /\ toSwitch[1].sn <= sn
        BY <1>2, <3>1 DEF ToldInv, InOrder
      <4>3. toSwitch[1].sn \in Nat /\ sn \in Nat
        BY <1>2, <1>7 DEF IInv, TypeOK
      <4>4. QED BY <4>1, <4>2, <4>3
    <3>2. CASE i = Len(acks) + 1
      <4>1. c = call
        BY <1>2, <1>5, <1>7, <2>1, <3>2 DEF ToldInv, CallIsLast
      <4>2. QED BY <1>4, <1>5, <1>8, <2>1, <3>2, <4>1 DEF CommandDoes
    <3>3. QED BY <1>6, <3>1, <3>2
  <2>2. \A k \in 1 .. Len(toSwitch') : call # Null /\ toSwitch'[k].sn = sn => toSwitch'[k].cmd = call
    BY <1>2 DEF ToldInv, CallIsLast
  <2>3. QED BY <1>1, <2>1, <2>2 DEF CallIsLast
<1>11. /\ Adds(c) \subseteq asked /\ ended \cap Adds(c) = {}
       /\ \A p \in promised, q \in Rules \cap (Removes(c) \cup Sweeps(c)) :
             SameRule(q, p) => p \in swept
  BY <1>2, <1>7 DEF ToldInv, WaitingSpares, Taken, May
<1>12. WaitingSpares'
  <2>1. ASSUME NEW k \in 1 .. Len(toSwitch') PROVE Taken(k)' \subseteq Taken(k + 1)
    <3>1. Rules' \subseteq Rules \cup Adds(toSwitch[1].cmd)
      BY <1>4, <1>7, <1>8 DEF CommandDoes
    <3>2. \A j \in 1 .. k - 1 : j + 1 \in 1 .. k /\ toSwitch'[j] = toSwitch[j + 1]
      BY <1>2
    <3>3. 1 \in 1 .. (k + 1) - 1 /\ \A j \in 1 .. k : j \in 1 .. (k + 1) - 1
      BY <1>2
    <3>4. May(k)' \subseteq May(k + 1)
      BY <3>1, <3>2, <3>3 DEF May
    <3>5. QED BY <1>2, <3>4 DEF Taken
  <2>2. QED BY <1>1, <1>2, <2>1 DEF ToldInv, WaitingSpares
<1>13. Rules' \subseteq asked'
  BY <1>1, <1>4, <1>8, <1>11 DEF ToldInv, CommandDoes
<1>14. ToldIsDone'
  <2>1. ASSUME NEW p \in promised PROVE Holds(p)' \/ p \in swept
    <3>1. CASE p \in swept
      BY <3>1
    <3>2. CASE \E q \in Rules : SameRule(q, p)
      <4>1. PICK q \in Rules : SameRule(q, p)
        BY <3>2
      <4>2. CASE q \in Rules'
        BY <4>1, <4>2 DEF Holds
      <4>3. CASE q \notin Rules'
        BY <1>4, <1>8, <1>11, <4>1, <4>3 DEF CommandDoes
      <4>4. QED BY <4>2, <4>3
    <3>3. QED BY <3>1, <3>2 DEF ToldInv, ToldIsDone, Holds
  <2>2. ended \cap Rules' = {}
    BY <1>4, <1>8, <1>11 DEF ToldInv, ToldIsDone, CommandDoes
  <2>3. QED BY <1>1, <2>1, <2>2 DEF ToldIsDone
<1>15. QED BY <1>9, <1>10, <1>12, <1>13, <1>14 DEF ToldInv

\* No step breaks what callers were told.
LEMMA NextTold == IInv /\ ToldInv /\ [Next]_vars => ToldInv'
<1> SUFFICES ASSUME IInv, ToldInv, [Next]_vars PROVE ToldInv'
  OBVIOUS
<1>1. ASSUME NEW c \in Cmd, Begin(c) PROVE ToldInv'
  BY <1>1, ToldBegin
<1>2. CASE Acked
  BY <1>2, ToldAcked
<1>3. CASE GiveUp
  <2>1. Rules' = Rules
    BY <1>3 DEF GiveUp, Rules
  <2>2. QED BY <1>3, <2>1
            DEF GiveUp, ToldInv, InOrder, CallIsLast, WaitingSpares, Taken, May, ToldIsDone, Holds
<1>4. CASE ProssInterMsg
  BY <1>4, ToldPross
<1>5. CASE TooOld
  <2>1. Rules' = Rules
    BY <1>5 DEF TooOld, Rules
  <2>2. /\ Len(toSwitch) \in Nat \ {0} /\ Len(toSwitch') = Len(toSwitch) - 1
        /\ \A k \in 1 .. Len(toSwitch') :
              toSwitch'[k] = toSwitch[k + 1] /\ k + 1 \in 1 .. Len(toSwitch)
    BY <1>5, TailIs DEF TooOld, IInv, TypeOK
  <2>3. ASSUME NEW k \in 1 .. Len(toSwitch') PROVE Taken(k)' \subseteq Taken(k + 1)
    <3>1. \A j \in 1 .. k - 1 : j + 1 \in 1 .. (k + 1) - 1 /\ toSwitch'[j] = toSwitch[j + 1]
      BY <2>2
    <3>2. QED BY <2>1, <2>2, <3>1 DEF Taken, May
  <2>4. WaitingSpares'
    BY <1>5, <2>2, <2>3 DEF TooOld, ToldInv, WaitingSpares
  <2>5. QED BY <1>5, <2>1, <2>2, <2>4
            DEF TooOld, ToldInv, InOrder, CallIsLast, ToldIsDone, Holds
<1>6. CASE UNCHANGED vars
  <2>1. Rules' = Rules
    BY <1>6 DEF vars, Rules
  <2>2. QED BY <1>6, <2>1
            DEF vars, ToldInv, InOrder, CallIsLast, WaitingSpares, Taken, May, ToldIsDone, Holds
<1>7. QED BY <1>1, <1>2, <1>3, <1>4, <1>5, <1>6 DEF Next

\* However late commands and acknowledgements are, the last rule that a caller
\* was told is removed is gone, and the last one that he was told is added
\* holds, until a later call hits it: his own dsRemoveAllSrcSwitch for another
\* address, or another user's removal of the same rule, which he had asked for
\* as well (SetCmd, GetCmdData, ProssInterMsg, Add).
THEOREM CallersAreToldTrue == Spec => []ToldIsDone
<1>1. ToldInv => ToldIsDone
  BY DEF ToldInv
<1>2. QED BY <1>1, InitTold, NextTold, Invariance, PTL DEF Spec

=============================================================================
