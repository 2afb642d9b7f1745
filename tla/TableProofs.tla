---------------------------- MODULE TableProofs ----------------------------
(***************************************************************************)
(* Table implements Map, for any keys, values, size and hash function.     *)
(*                                                                         *)
(* The lemmas about a chain are about any sequence of bindings c in which  *)
(* no key stands twice; BoundOnce says that every bucket is one.           *)
(***************************************************************************)
EXTENDS Table, FiniteSetTheorems, TLAPS

Once(c) == \A i, j \in DOMAIN c : c[i].key = c[j].key => i = j

BoundIn(c, k) == {i \in DOMAIN c : c[i].key = k}

LookupIn(c, k) ==
    IF BoundIn(c, k) = {} THEN NIL
    ELSE c[CHOOSE i \in BoundIn(c, k) : \A j \in BoundIn(c, k) : i <= j].value

\* Where there is one binding, it is what the loop over the chain finds.
LEMMA Found ==
    ASSUME NEW c \in Seq(Binding), Once(c), NEW k, NEW i \in BoundIn(c, k)
    PROVE  LookupIn(c, k) = c[i].value /\ LookupIn(c, k) \in Value
<1>1. BoundIn(c, k) = {i}
  BY DEF BoundIn, Once
<1>2. i <= i
  BY DEF BoundIn
<1>3. (CHOOSE j \in BoundIn(c, k) : \A n \in BoundIn(c, k) : j <= n) = i
  BY <1>1, <1>2
<1>4. c[i] \in Binding
  BY DEF BoundIn
<1> QED
  BY <1>1, <1>3, <1>4 DEF LookupIn, Binding

LEMMA FoundOrNot ==
    ASSUME NEW c \in Seq(Binding), Once(c), NEW k
    PROVE  /\ LookupIn(c, k) \in Value \cup {NIL}
           /\ LookupIn(c, k) = NIL <=> BoundIn(c, k) = {}
<1>1. CASE BoundIn(c, k) = {}
  BY <1>1 DEF LookupIn
<1>2. CASE BoundIn(c, k) # {}
  <2>1. PICK i : i \in BoundIn(c, k)
    BY <1>2
  <2> QED
    BY <1>2, <2>1, Found, TableAssumption
<1> QED
  BY <1>1, <1>2

\* What the chain d answers that a call leaves of the chain c.
Becomes(c, d, k, value) ==
    /\ d \in Seq(Binding) /\ Once(d)
    /\ LookupIn(d, k) = value
    /\ \A x \in Key \ {k} : LookupIn(d, x) = LookupIn(c, x)
    /\ \A i \in DOMAIN d : d[i].key = k \/ \E j \in DOMAIN c : d[i].key = c[j].key

\* Two chains answer alike for a key that is bound to one value in both, or in
\* neither.
LEMMA SameAnswer ==
    ASSUME NEW c \in Seq(Binding), Once(c), NEW d \in Seq(Binding), Once(d), NEW x,
           \A i \in BoundIn(c, x) : \E j \in BoundIn(d, x) : d[j].value = c[i].value,
           BoundIn(c, x) = {} => BoundIn(d, x) = {}
    PROVE  LookupIn(d, x) = LookupIn(c, x)
<1>1. CASE BoundIn(c, x) = {}
  BY <1>1, FoundOrNot
<1>2. CASE BoundIn(c, x) # {}
  <2>1. PICK i : i \in BoundIn(c, x)
    BY <1>2
  <2>2. PICK j \in BoundIn(d, x) : d[j].value = c[i].value
    BY <2>1
  <2> QED
    BY <2>1, <2>2, Found
<1> QED
  BY <1>1, <1>2

\* A binding put at the head.
LEMMA PutInFront ==
    ASSUME NEW c \in Seq(Binding), Once(c), NEW k \in Key, NEW v \in Value,
           BoundIn(c, k) = {}
    PROVE  Becomes(c, <<[key |-> k, value |-> v]>> \o c, k, v)
<1> DEFINE b == [key |-> k, value |-> v]
           d == <<b>> \o c
<1>1. b \in Binding
  BY DEF Binding
<1>2. /\ d \in Seq(Binding) /\ Len(d) = Len(c) + 1 /\ Len(c) \in Nat
      /\ DOMAIN c = 1 .. Len(c) /\ DOMAIN d = 1 .. Len(c) + 1
      /\ d[1] = b /\ \A i \in DOMAIN c : d[i + 1] = c[i]
      /\ \A i \in DOMAIN d : i # 1 => i - 1 \in DOMAIN c /\ d[i] = c[i - 1]
  BY <1>1
<1>3. b.key = k /\ b.value = v
  OBVIOUS
<1> HIDE DEF b, d
<1>4. \A i \in DOMAIN c : c[i].key # k
  BY DEF BoundIn
<1>5. Once(d)
  BY <1>2, <1>3, <1>4 DEF Once
<1>6. LookupIn(d, k) = v
  <2>1. 1 \in BoundIn(d, k)
    BY <1>2, <1>3 DEF BoundIn
  <2> QED
    BY <2>1, <1>2, <1>3, <1>5, Found
<1>7. ASSUME NEW x \in Key \ {k}
      PROVE  LookupIn(d, x) = LookupIn(c, x)
  <2>1. \A i \in BoundIn(c, x) : \E j \in BoundIn(d, x) : d[j].value = c[i].value
    <3>1. SUFFICES ASSUME NEW i \in BoundIn(c, x)
                   PROVE  i + 1 \in BoundIn(d, x) /\ d[i + 1].value = c[i].value
      OBVIOUS
    <3> QED
      BY <3>1, <1>2 DEF BoundIn
  <2>2. BoundIn(c, x) = {} => BoundIn(d, x) = {}
    BY <1>2, <1>3, <1>7 DEF BoundIn
  <2> QED
    BY <2>1, <2>2, <1>2, <1>5, SameAnswer
<1>8. \A i \in DOMAIN d : d[i].key = k \/ \E j \in DOMAIN c : d[i].key = c[j].key
  BY <1>2, <1>3
<1>9. Becomes(c, d, k, v)
  BY <1>2, <1>5, <1>6, <1>7, <1>8 DEF Becomes
<1> QED
  BY <1>9 DEF d, b

\* A value replaced.
LEMMA ReplaceValue ==
    ASSUME NEW c \in Seq(Binding), Once(c), NEW k \in Key, NEW v \in Value,
           NEW i \in BoundIn(c, k)
    PROVE  Becomes(c, [c EXCEPT ![i].value = v], k, v)
<1> DEFINE d == [c EXCEPT ![i].value = v]
<1>1. i \in DOMAIN c /\ c[i].key = k /\ c[i] \in Binding
  BY DEF BoundIn
<1>2. /\ DOMAIN d = DOMAIN c /\ d[i].key = k /\ d[i].value = v /\ d[i] \in Binding
      /\ \A j \in DOMAIN c : j # i => d[j] = c[j]
  BY <1>1 DEF Binding
<1>3. DOMAIN c = 1 .. Len(c) /\ Len(c) \in Nat /\ \A j \in DOMAIN c : c[j] \in Binding
  OBVIOUS
<1>4. d \in [1 .. Len(c) -> Binding]
  BY <1>2, <1>3
<1>5. d \in Seq(Binding)
  BY <1>3, <1>4
<1> HIDE DEF d
<1>6. \A j \in DOMAIN c : d[j].key = c[j].key
  BY <1>1, <1>2
<1>7. Once(d)
  BY <1>2, <1>6 DEF Once
<1>8. LookupIn(d, k) = v
  <2>1. i \in BoundIn(d, k)
    BY <1>1, <1>2 DEF BoundIn
  <2> QED
    BY <2>1, <1>2, <1>5, <1>7, Found
<1>9. ASSUME NEW x \in Key \ {k}
      PROVE  LookupIn(d, x) = LookupIn(c, x)
  <2>1. \A j \in BoundIn(c, x) : j \in BoundIn(d, x) /\ d[j].value = c[j].value
    BY <1>1, <1>2, <1>9 DEF BoundIn
  <2>2. BoundIn(c, x) = {} => BoundIn(d, x) = {}
    BY <1>2, <1>6 DEF BoundIn
  <2> QED
    BY <2>1, <2>2, <1>5, <1>7, SameAnswer
<1>10. Becomes(c, d, k, v)
  BY <1>1, <1>2, <1>5, <1>6, <1>7, <1>8, <1>9 DEF Becomes
<1> QED
  BY <1>10 DEF d

\* A binding unlinked.
LEMMA UnlinkOne ==
    ASSUME NEW c \in Seq(Binding), Once(c), NEW k \in Key, NEW i \in BoundIn(c, k)
    PROVE  Becomes(c, Unlink(c, i), k, NIL)
<1> DEFINE d == Unlink(c, i)
           old(j) == IF j < i THEN j ELSE j + 1
<1>1. /\ Len(c) \in Nat \ {0} /\ DOMAIN c = 1 .. Len(c) /\ i \in 1 .. Len(c)
      /\ c[i].key = k /\ \A j \in 1 .. Len(c) : c[j] \in Binding
  BY DEF BoundIn
<1>2. /\ DOMAIN d = 1 .. Len(c) - 1
      /\ \A j \in DOMAIN d : old(j) \in DOMAIN c /\ old(j) # i /\ d[j] = c[old(j)]
  BY <1>1 DEF Unlink
<1>3. d \in [1 .. Len(c) - 1 -> Binding]
  BY <1>1 DEF Unlink
<1>4. d \in Seq(Binding)
  BY <1>1, <1>3
<1>5. \A j \in DOMAIN c : j # i => \E n \in DOMAIN d : d[n] = c[j]
  <2>1. SUFFICES ASSUME NEW j \in DOMAIN c, j # i
                 PROVE  \E n \in DOMAIN d : d[n] = c[j]
    OBVIOUS
  <2>2. CASE j < i
    <3>1. j \in DOMAIN d /\ old(j) = j
      BY <2>1, <2>2, <1>1, <1>2
    <3> QED
      BY <3>1, <1>2
  <2>3. CASE j > i
    <3>1. j - 1 \in DOMAIN d /\ old(j - 1) = j
      BY <2>1, <2>3, <1>1, <1>2
    <3> QED
      BY <3>1, <1>2
  <2> QED
    BY <2>1, <2>2, <2>3, <1>1
<1>6. Once(d)
  <2>1. SUFFICES ASSUME NEW j \in DOMAIN d, NEW n \in DOMAIN d, d[j].key = d[n].key
                 PROVE  j = n
    BY DEF Once
  <2>2. old(j) = old(n)
    BY <2>1, <1>2 DEF Once
  <2> QED
    BY <2>2, <1>1, <1>2
<1> HIDE DEF d, old
<1>7. LookupIn(d, k) = NIL
  <2>1. ASSUME NEW j \in BoundIn(d, k)
        PROVE  FALSE
    <3>1. j \in DOMAIN d /\ d[j].key = k
      BY <2>1 DEF BoundIn
    <3> QED
      BY <3>1, <1>1, <1>2 DEF Once
  <2> QED
    BY <2>1, <1>4, <1>6, FoundOrNot
<1>8. ASSUME NEW x \in Key \ {k}
      PROVE  LookupIn(d, x) = LookupIn(c, x)
  <2>1. \A j \in BoundIn(c, x) : \E n \in BoundIn(d, x) : d[n].value = c[j].value
    BY <1>1, <1>5, <1>8 DEF BoundIn
  <2>2. BoundIn(c, x) = {} => BoundIn(d, x) = {}
    BY <1>2 DEF BoundIn
  <2> QED
    BY <2>1, <2>2, <1>4, <1>6, SameAnswer
<1>9. \A j \in DOMAIN d : \E n \in DOMAIN c : d[j].key = c[n].key
  BY <1>2
<1>10. Becomes(c, d, k, NIL)
  BY <1>4, <1>6, <1>7, <1>8, <1>9 DEF Becomes
<1> QED
  BY <1>10 DEF d

-----------------------------------------------------------------------------
\* The whole table.

\* TableTypeOK but for length, which needs Counted.
Buckets == buckets \in [0 .. size - 1 -> Seq(Binding)]

Mapped == [x \in Key |-> Lookup(x)]

Keys == {x \in Key : Lookup(x) # NIL}

\* length is the number of keys that are bound.
Counted == IsFiniteSet(Keys) /\ length = Cardinality(Keys)

Inv == TableTypeOK /\ BoundOnce /\ Counted

LEMMA LookupInChain ==
    ASSUME NEW x \in Key
    PROVE  /\ Lookup(x) = LookupIn(buckets[hash[x]], x)
           /\ Lookup(x)' = LookupIn(buckets'[hash[x]], x)
           /\ Bound(x) = BoundIn(buckets[hash[x]], x)
BY DEF Lookup, Bound, Position, Chain, LookupIn, BoundIn

LEMMA ChainOnce ==
    ASSUME Buckets, BoundOnce, NEW x \in Key
    PROVE  /\ hash[x] \in 0 .. size - 1
           /\ buckets[hash[x]] \in Seq(Binding) /\ Once(buckets[hash[x]])
           /\ Lookup(x) \in Value \cup {NIL}
           /\ Lookup(x) = NIL <=> Bound(x) = {}
<1>1. hash[x] \in 0 .. size - 1
  BY TableAssumption
<1>2. buckets[hash[x]] \in Seq(Binding) /\ Once(buckets[hash[x]])
  BY <1>1 DEF Buckets, BoundOnce, Once
<1> QED
  BY <1>1, <1>2, FoundOrNot, LookupInChain

\* Only one chain changes, and one key's value.
LEMMA OneChain ==
    ASSUME Buckets, BoundOnce, NEW k \in Key, NEW d, NEW value,
           Becomes(Chain(k), d, k, value),
           buckets' = [buckets EXCEPT ![hash[k]] = d]
    PROVE  Buckets' /\ BoundOnce' /\ Mapped' = [Mapped EXCEPT ![k] = value]
<1> DEFINE b == hash[k]
           c == buckets[b]
<1>1. /\ b \in 0 .. size - 1 /\ c \in Seq(Binding) /\ Once(c) /\ Chain(k) = c
      /\ d \in Seq(Binding) /\ Once(d)
      /\ LookupIn(d, k) = value
      /\ \A x \in Key \ {k} : LookupIn(d, x) = LookupIn(c, x)
      /\ \A i \in DOMAIN d : d[i].key = k \/ \E j \in DOMAIN c : d[i].key = c[j].key
  BY ChainOnce DEF Becomes, Chain
<1>2. /\ buckets' \in [0 .. size - 1 -> Seq(Binding)] /\ buckets'[b] = d
      /\ \A i \in 0 .. size - 1 : i # b => buckets'[i] = buckets[i]
  BY <1>1 DEF Buckets
<1>3. BoundOnce'
  <2>1. \A i \in DOMAIN d : hash[d[i].key] = b
    BY <1>1 DEF BoundOnce
  <2>2. ASSUME NEW i \in 0 .. size - 1, NEW j \in DOMAIN buckets'[i]
        PROVE  /\ hash[buckets'[i][j].key] = i
               /\ \A n \in DOMAIN buckets'[i] :
                      buckets'[i][n].key = buckets'[i][j].key => n = j
    <3>1. CASE i = b
      BY <3>1, <2>1, <2>2, <1>1, <1>2 DEF Once
    <3>2. CASE i # b
      BY <3>2, <2>2, <1>2 DEF BoundOnce
    <3> QED
      BY <3>1, <3>2
  <2> QED
    BY <2>2 DEF BoundOnce
<1>4. ASSUME NEW x \in Key
      PROVE  Lookup(x)' = IF x = k THEN value ELSE Lookup(x)
  <2>1. hash[x] \in 0 .. size - 1
    BY TableAssumption
  <2>2. CASE x = k
    BY <2>2, <1>1, <1>2, LookupInChain
  <2>3. CASE x # k /\ hash[x] = b
    BY <2>3, <1>1, <1>2, LookupInChain
  <2>4. CASE hash[x] # b
    BY <2>1, <2>4, <1>2, LookupInChain
  <2> QED
    BY <2>2, <2>3, <2>4
<1>5. Mapped' = [Mapped EXCEPT ![k] = value]
  BY <1>4 DEF Mapped
<1> QED
  BY <1>2, <1>3, <1>5 DEF Buckets

\* The keys that are bound, and their number, when one key's value changes.
LEMMA KeysChange ==
    ASSUME Counted, NEW k \in Key, NEW value, Mapped' = [Mapped EXCEPT ![k] = value]
    PROVE  /\ value # NIL => Keys' = Keys \cup {k}
           /\ value = NIL => Keys' = Keys \ {k}
           /\ IsFiniteSet(Keys')
           /\ value # NIL /\ k \notin Keys => Cardinality(Keys') = length + 1
           /\ value # NIL /\ k \in Keys => Cardinality(Keys') = length
           /\ value = NIL /\ k \in Keys => Cardinality(Keys') = length - 1
<1>1. \A x \in Key : Lookup(x)' = IF x = k THEN value ELSE Lookup(x)
  <2>1. ASSUME NEW x \in Key
        PROVE  Lookup(x)' = Mapped'[x] /\ Lookup(x) = Mapped[x]
    BY DEF Mapped
  <2>2. \A x \in Key : Mapped'[x] = IF x = k THEN value ELSE Mapped[x]
    BY DEF Mapped
  <2> QED
    BY <2>1, <2>2
<1>2. /\ value # NIL => Keys' = Keys \cup {k}
      /\ value = NIL => Keys' = Keys \ {k}
  BY <1>1 DEF Keys
<1> QED
  BY <1>2, FS_AddElement, FS_RemoveElement DEF Counted

\* What every action needs of the invariant.
LEMMA CountedLength ==
    ASSUME Counted
    PROVE  length \in Nat /\ \A k \in Keys : length - 1 \in Nat
<1>1. length \in Nat
  BY FS_CardinalityType DEF Counted
<1>2. ASSUME NEW k \in Keys
      PROVE  length # 0
  BY FS_EmptySet DEF Counted
<1> QED
  BY <1>1, <1>2

\* An action that leaves the buckets leaves the map.
LEMMA BucketsStay ==
    ASSUME Inv, UNCHANGED <<buckets, length>>
    PROVE  /\ Buckets' /\ BoundOnce' /\ Counted'
           /\ Mapped' = Mapped /\ length' \in Nat
<1>1. \A x \in Key : Lookup(x)' = Lookup(x)
  BY DEF Lookup, Bound, Position, Chain
<1>2. Keys' = Keys /\ Mapped' = Mapped
  BY <1>1 DEF Keys, Mapped
<1> QED
  BY <1>2 DEF Inv, TableTypeOK, Buckets, BoundOnce, Counted

\* The three outcomes of Table_put and Table_remove that change a chain: the
\* table stays one, and the map changes at k as it should.
LEMMA PutStep ==
    ASSUME Inv, NEW k \in Key, NEW v \in Value, Table_put(k, v)
    PROVE  Inv' /\ Mapped' = [Mapped EXCEPT ![k] = v]
<1>1. /\ Buckets /\ BoundOnce /\ Counted /\ length \in Nat
      /\ Chain(k) \in Seq(Binding) /\ Once(Chain(k)) /\ Bound(k) = BoundIn(Chain(k), k)
      /\ Lookup(k) \in Value \cup {NIL} /\ (Lookup(k) = NIL <=> Bound(k) = {})
  BY ChainOnce, LookupInChain DEF Inv, TableTypeOK, Buckets, Chain
<1>2. v # NIL
  BY TableAssumption
<1>3. CASE Bound(k) = {}
  <2> DEFINE d == <<[key |-> k, value |-> v]>> \o Chain(k)
  <2>1. buckets' = [buckets EXCEPT ![hash[k]] = d] /\ length' = length + 1
    BY <1>3 DEF Table_put, Chain
  <2>2. Becomes(Chain(k), d, k, v)
    BY <1>1, <1>3, PutInFront
  <2> HIDE DEF d
  <2>3. Buckets' /\ BoundOnce' /\ Mapped' = [Mapped EXCEPT ![k] = v]
    BY <1>1, <2>1, <2>2, OneChain
  <2>4. k \notin Keys
    BY <1>1, <1>3 DEF Keys
  <2>5. Counted'
    BY <1>1, <1>2, <2>1, <2>3, <2>4, KeysChange DEF Counted
  <2> QED
    BY <1>1, <2>1, <2>3, <2>5 DEF Inv, TableTypeOK, Buckets, Table_put
<1>4. CASE Bound(k) # {}
  <2> DEFINE i == Position(k)
             d == [Chain(k) EXCEPT ![i].value = v]
  <2>1. i \in BoundIn(Chain(k), k)
    <3>1. PICK n : n \in Bound(k)
      BY <1>4
    <3>2. Bound(k) = {n} /\ n \in Nat
      BY <1>1, <3>1 DEF BoundIn, Once
    <3> QED
      BY <1>1, <3>2 DEF Position
  <2>2. buckets' = [buckets EXCEPT ![hash[k]] = d] /\ length' = length
    BY <1>4 DEF Table_put, Chain
  <2> HIDE DEF i
  <2>3. Becomes(Chain(k), d, k, v)
    BY <1>1, <2>1, ReplaceValue
  <2> HIDE DEF d
  <2>4. Buckets' /\ BoundOnce' /\ Mapped' = [Mapped EXCEPT ![k] = v]
    BY <1>1, <2>2, <2>3, OneChain
  <2>5. k \in Keys
    BY <1>1, <1>4 DEF Keys
  <2>6. Counted'
    BY <1>1, <1>2, <2>2, <2>4, <2>5, KeysChange DEF Counted
  <2> QED
    BY <1>1, <2>2, <2>4, <2>6 DEF Inv, TableTypeOK, Buckets, Table_put
<1> QED
  BY <1>3, <1>4

LEMMA RemoveStep ==
    ASSUME Inv, NEW k \in Key, Table_remove(k)
    PROVE  Inv' /\ Mapped' = [Mapped EXCEPT ![k] = NIL]
<1>1. /\ Buckets /\ BoundOnce /\ Counted /\ length \in Nat
      /\ Chain(k) \in Seq(Binding) /\ Once(Chain(k)) /\ Bound(k) = BoundIn(Chain(k), k)
      /\ Lookup(k) \in Value \cup {NIL} /\ (Lookup(k) = NIL <=> Bound(k) = {})
  BY ChainOnce, LookupInChain DEF Inv, TableTypeOK, Buckets, Chain
<1>2. CASE Bound(k) = {}
  <2>1. UNCHANGED <<buckets, length>>
    BY <1>2 DEF Table_remove
  <2>2. Mapped = [Mapped EXCEPT ![k] = NIL]
    BY <1>1, <1>2 DEF Mapped
  <2> QED
    BY <1>1, <2>1, <2>2, BucketsStay DEF Inv, TableTypeOK, Buckets, Table_remove
<1>3. CASE Bound(k) # {}
  <2> DEFINE i == Position(k)
             d == Unlink(Chain(k), i)
  <2>1. i \in BoundIn(Chain(k), k)
    <3>1. PICK n : n \in Bound(k)
      BY <1>3
    <3>2. Bound(k) = {n} /\ n \in Nat
      BY <1>1, <3>1 DEF BoundIn, Once
    <3> QED
      BY <1>1, <3>2 DEF Position
  <2>2. buckets' = [buckets EXCEPT ![hash[k]] = d] /\ length' = length - 1
    BY <1>3 DEF Table_remove, Chain
  <2> HIDE DEF i
  <2>3. Becomes(Chain(k), d, k, NIL)
    BY <1>1, <2>1, UnlinkOne
  <2> HIDE DEF d
  <2>4. Buckets' /\ BoundOnce' /\ Mapped' = [Mapped EXCEPT ![k] = NIL]
    BY <1>1, <2>2, <2>3, OneChain
  <2>5. k \in Keys
    BY <1>1, <1>3 DEF Keys
  <2>6. Counted'
    BY <1>1, <2>2, <2>4, <2>5, KeysChange DEF Counted
  <2>7. length' \in Nat
    BY <1>1, <2>2, <2>5, CountedLength
  <2> QED
    BY <1>1, <2>2, <2>4, <2>6, <2>7 DEF Inv, TableTypeOK, Buckets, Table_remove
<1> QED
  BY <1>2, <1>3

\* Table_toArray finds each key that is bound, with its value, and nothing else.
LEMMA ArrayIsMap ==
    ASSUME Inv
    PROVE  /\ Bindings = {<<k, Mapped[k]>> : k \in Keys}
           /\ Bindings \subseteq Key \X Value
<1>1. ASSUME NEW i \in DOMAIN buckets, NEW j \in DOMAIN buckets[i]
      PROVE  /\ buckets[i][j].key \in Keys /\ buckets[i][j].value \in Value
             /\ Mapped[buckets[i][j].key] = buckets[i][j].value
  <2> DEFINE k == buckets[i][j].key
  <2>1. i \in 0 .. size - 1 /\ buckets[i] \in Seq(Binding) /\ buckets[i][j] \in Binding
    BY <1>1 DEF Inv, TableTypeOK
  <2>2. k \in Key /\ hash[k] = i
    BY <2>1, <1>1 DEF Inv, BoundOnce, Binding
  <2>3. Once(buckets[i]) /\ j \in BoundIn(buckets[i], k)
    BY <2>1, <1>1 DEF Inv, BoundOnce, Once, BoundIn
  <2>4. Lookup(k) = buckets[i][j].value /\ Lookup(k) \in Value
    BY <2>1, <2>2, <2>3, Found, LookupInChain
  <2> QED
    BY <2>2, <2>4, TableAssumption DEF Keys, Mapped
<1>2. ASSUME NEW k \in Keys
      PROVE  \E i \in DOMAIN buckets : \E j \in DOMAIN buckets[i] :
                 buckets[i][j].key = k /\ buckets[i][j].value = Mapped[k]
  <2>1. /\ k \in Key /\ hash[k] \in 0 .. size - 1 /\ buckets[hash[k]] \in Seq(Binding)
        /\ Once(buckets[hash[k]]) /\ Bound(k) # {} /\ DOMAIN buckets = 0 .. size - 1
    BY <1>2, ChainOnce DEF Keys, Inv, TableTypeOK, Buckets
  <2>2. PICK j : j \in BoundIn(buckets[hash[k]], k)
    BY <2>1, LookupInChain
  <2>3. Mapped[k] = buckets[hash[k]][j].value
    BY <2>1, <2>2, Found, LookupInChain DEF Mapped
  <2> QED
    BY <2>1, <2>2, <2>3 DEF BoundIn
<1>3. ASSUME NEW e \in Bindings
      PROVE  e \in {<<k, Mapped[k]>> : k \in Keys} /\ e \in Key \X Value
  <2>1. PICK i \in DOMAIN buckets :
            e \in {<<buckets[i][j].key, buckets[i][j].value>> : j \in DOMAIN buckets[i]}
    BY <1>3 DEF Bindings
  <2>2. PICK j \in DOMAIN buckets[i] : e = <<buckets[i][j].key, buckets[i][j].value>>
    BY <2>1
  <2> QED
    BY <2>2, <1>1 DEF Keys
<1>4. ASSUME NEW k \in Keys
      PROVE  <<k, Mapped[k]>> \in Bindings
  <2>1. PICK i \in DOMAIN buckets : \E j \in DOMAIN buckets[i] :
            buckets[i][j].key = k /\ buckets[i][j].value = Mapped[k]
    BY <1>2
  <2>2. <<k, Mapped[k]>> \in
            {<<buckets[i][j].key, buckets[i][j].value>> : j \in DOMAIN buckets[i]}
    BY <2>1
  <2> QED
    BY <2>2 DEF Bindings
<1> QED
  BY <1>3, <1>4

-----------------------------------------------------------------------------
\* The invariant.

LEMMA InitInv == Table_new => Inv
<1> SUFFICES ASSUME Table_new
             PROVE  Inv
  OBVIOUS
<1>1. Buckets /\ BoundOnce
  BY TableAssumption DEF Table_new, Buckets, BoundOnce
<1>2. \A k \in Key : Lookup(k) = NIL
  BY TableAssumption DEF Table_new, Lookup, Bound, Chain
<1>3. Keys = {}
  BY <1>2 DEF Keys
<1> QED
  BY <1>1, <1>3, FS_EmptySet DEF Table_new, Inv, TableTypeOK, Buckets, Counted

\* The calls that only look, and Table_free.
LEMMA LookStep ==
    ASSUME Inv, \/ \E k \in Key : Table_get(k)
                \/ Table_length \/ Table_toArray \/ Table_free \/ UNCHANGED tableVars
    PROVE  Inv' /\ Mapped' = Mapped
<1>1. UNCHANGED <<buckets, length>>
  BY DEF Table_get, Table_length, Table_toArray, Table_free, tableVars
<1>2. Buckets' /\ BoundOnce' /\ Counted' /\ Mapped' = Mapped /\ length' \in Nat
  BY <1>1, BucketsStay
<1>3. /\ result' \in Value \cup Nat \cup {NIL}
      /\ array' \subseteq Key \X Value /\ freed' \in BOOLEAN
  <2>1. \A k \in Key : Lookup(k) \in Value \cup {NIL}
    BY ChainOnce DEF Inv, TableTypeOK, Buckets
  <2>2. CASE \E k \in Key : Table_get(k)
    BY <2>1, <2>2 DEF Table_get, Inv, TableTypeOK
  <2>3. CASE Table_length
    BY <2>3 DEF Table_length, Inv, TableTypeOK
  <2>4. CASE Table_toArray
    BY <2>4, ArrayIsMap DEF Table_toArray, Inv, TableTypeOK
  <2>5. CASE Table_free \/ UNCHANGED tableVars
    BY <2>5 DEF Table_free, tableVars, Inv, TableTypeOK
  <2> QED
    BY <2>2, <2>3, <2>4, <2>5
<1> QED
  BY <1>2, <1>3 DEF Inv, TableTypeOK, Buckets

LEMMA NextInv == Inv /\ [TableNext]_tableVars => Inv'
<1> SUFFICES ASSUME Inv, [TableNext]_tableVars
             PROVE  Inv'
  OBVIOUS
<1>1. ASSUME NEW k \in Key, NEW v \in Value, Table_put(k, v)
      PROVE  Inv'
  BY <1>1, PutStep
<1>2. ASSUME NEW k \in Key, Table_remove(k)
      PROVE  Inv'
  BY <1>2, RemoveStep
<1> QED
  BY <1>1, <1>2, LookStep DEF TableNext

LEMMA Invariance == TableSpec => []Inv
<1> QED
  BY InitInv, NextInv, PTL DEF TableSpec

\* For any keys, values, size and hash function every variable of the table
\* stays in its type; in particular the length never goes below 0.
THEOREM TypeCorrect == TableSpec => []TableTypeOK
<1>1. Inv => TableTypeOK
  BY DEF Inv
<1> QED
  BY <1>1, Invariance, PTL

\* No sequence of calls binds a key twice, or in a bucket where it is not looked
\* for.
THEOREM BoundOnceCorrect == TableSpec => []BoundOnce
<1>1. Inv => BoundOnce
  BY DEF Inv
<1> QED
  BY <1>1, Invariance, PTL

-----------------------------------------------------------------------------
\* The refinement.

LEMMA InitIsMap == Table_new => M!Init
<1> SUFFICES ASSUME Table_new
             PROVE  M!Init
  OBVIOUS
<1>1. \A k \in Key : Lookup(k) = NIL
  BY TableAssumption DEF Table_new, Lookup, Bound, Chain
<1> QED
  BY <1>1 DEF Table_new, M!Init

LEMMA NextIsMap == Inv /\ [TableNext]_tableVars => [M!Next]_(M!vars)
<1> SUFFICES ASSUME Inv, [TableNext]_tableVars
             PROVE  [M!Next]_(M!vars)
  OBVIOUS
<1>1. M!Present = Keys
  BY DEF M!Present, Keys
<1>2. ASSUME NEW k \in Key, NEW v \in Value, Table_put(k, v)
      PROVE  M!Put(k, v)
  BY <1>2, PutStep DEF M!Put, Mapped, Table_put
<1>3. ASSUME NEW k \in Key, Table_remove(k)
      PROVE  M!Remove(k)
  BY <1>3, RemoveStep DEF M!Remove, Mapped, Table_remove
<1>4. ASSUME NEW k \in Key, Table_get(k)
      PROVE  M!Get(k)
  BY <1>4, LookStep DEF M!Get, Mapped, Table_get
<1>5. ASSUME Table_length
      PROVE  M!Length
  <2>1. M!Cardinality(Keys) = Cardinality(Keys)
    BY DEF M!Cardinality, Cardinality
  <2>2. result' = M!Cardinality(M!Present) /\ array' = {}
    BY <1>1, <1>5, <2>1 DEF Table_length, Inv, Counted
  <2>3. Mapped' = Mapped
    BY <1>5, LookStep
  <2> QED
    BY <2>2, <2>3 DEF M!Length, Mapped
<1>6. ASSUME Table_toArray
      PROVE  M!ToArray
  BY <1>1, <1>6, LookStep, ArrayIsMap DEF M!ToArray, Mapped, Table_toArray
<1>7. ASSUME Table_free \/ UNCHANGED tableVars
      PROVE  UNCHANGED M!vars
  BY <1>7, LookStep DEF M!vars, Mapped, Table_free, tableVars
<1> QED
  BY <1>2, <1>3, <1>4, <1>5, <1>6, <1>7 DEF TableNext, M!Next

\* The table is a map: whatever its callers do, each call returns what a partial
\* function from keys to values would give.
THEOREM IsMapCorrect == TableSpec => IsMap
<1> QED
  BY InitIsMap, NextIsMap, Invariance, PTL DEF TableSpec, IsMap, M!Spec
=============================================================================
