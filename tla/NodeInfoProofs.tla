--------------------------- MODULE NodeInfoProofs ---------------------------
(***************************************************************************)
(* What one turn of node_merge's outer loop does to a list of nodes, and   *)
(* what all of node_merge does.                                            *)
(***************************************************************************)
EXTENDS NodeInfo, WellFoundedInduction, TLAPS

\* The entry at one place: it keeps its id, its count does not fall and reaches
\* the absorbed node's if they have one id, and count and addresses come together
\* from the old entry or from the absorbed node.
LEMMA AbsorbAt ==
    ASSUME NEW nodes \in Seq(Node), NEW n \in Node, NEW i \in 1 .. Len(nodes)
    PROVE  /\ nodes[i] \in Node /\ Absorb(nodes, n)[i] \in Node
           /\ Absorb(nodes, n)[i].id = nodes[i].id
           /\ Absorb(nodes, n)[i].node_count >= nodes[i].node_count
           /\ nodes[i].id = n.id => Absorb(nodes, n)[i].node_count >= n.node_count
           /\ Absorb(nodes, n)[i] = nodes[i] \/ Absorb(nodes, n)[i] = n
<1>1. nodes[i] \in Node /\ i \in DOMAIN nodes
  OBVIOUS
<1>2. Absorb(nodes, n)[i] =
        IF nodes[i].id = n.id /\ nodes[i].node_count < n.node_count
        THEN [nodes[i] EXCEPT !.node_count = n.node_count, !.ip_list = n.ip_list]
        ELSE nodes[i]
  BY <1>1 DEF Absorb
<1>3. nodes[i].node_count \in Nat /\ n.node_count \in Nat
  BY <1>1 DEF Node
<1>4. CASE nodes[i].id = n.id /\ nodes[i].node_count < n.node_count
  <2>1. Absorb(nodes, n)[i] = n
    <3>1. Absorb(nodes, n)[i] =
            [nodes[i] EXCEPT !.node_count = n.node_count, !.ip_list = n.ip_list]
      BY <1>2, <1>4
    <3>2. nodes[i] = [id |-> nodes[i].id, node_count |-> nodes[i].node_count,
                      ip_list |-> nodes[i].ip_list]
      BY <1>1 DEF Node
    <3>3. n = [id |-> n.id, node_count |-> n.node_count, ip_list |-> n.ip_list]
      BY DEF Node
    <3> QED
      BY <1>4, <3>1, <3>2, <3>3
  <2> QED
    BY <1>1, <1>3, <1>4, <2>1
<1>5. CASE ~(nodes[i].id = n.id /\ nodes[i].node_count < n.node_count)
  <2>1. Absorb(nodes, n)[i] = nodes[i]
    BY <1>2, <1>5
  <2> QED
    BY <1>1, <1>3, <1>5, <2>1
<1> QED
  BY <1>4, <1>5

\* Taking over a newer version keeps the list a list of nodes, as long as it
\* was, with the same ids in the same places.
LEMMA AbsorbShape ==
    ASSUME NEW nodes \in Seq(Node), NEW n \in Node
    PROVE  /\ Absorb(nodes, n) \in Seq(Node)
           /\ DOMAIN Absorb(nodes, n) = DOMAIN nodes
           /\ Len(Absorb(nodes, n)) = Len(nodes)
           /\ \A i \in DOMAIN nodes : Absorb(nodes, n)[i].id = nodes[i].id
<1> DEFINE new == Absorb(nodes, n)
<1>1. new = [i \in 1 .. Len(nodes) |-> new[i]] /\ DOMAIN nodes = 1 .. Len(nodes)
  BY DEF Absorb
<1>2. \A i \in 1 .. Len(nodes) : new[i] \in Node /\ new[i].id = nodes[i].id
  BY AbsorbAt
<1> HIDE DEF new
<1>3. new \in Seq(Node) /\ Len(new) = Len(nodes)
  <2>1. Len(nodes) \in Nat
    OBVIOUS
  <2> QED
    BY <1>1, <1>2, <2>1
<1>4. DOMAIN new = DOMAIN nodes
  BY <1>1
<1> QED
  BY <1>1, <1>2, <1>3, <1>4 DEF new

\* So it keeps a list without duplicates one without duplicates.
LEMMA AbsorbUnique ==
    ASSUME NEW nodes \in Seq(Node), NEW n \in Node, UniqueIds(nodes)
    PROVE  UniqueIds(Absorb(nodes, n))
BY AbsorbShape DEF UniqueIds

\* It forgets no node and puts none back to an older version, and afterwards
\* the list holds the absorbed node if it knew its id.
LEMMA AbsorbHolds ==
    ASSUME NEW nodes \in Seq(Node), NEW n \in Node
    PROVE  /\ \A m \in Node : Holds(nodes, m) => Holds(Absorb(nodes, n), m)
           /\ ~IsNew(nodes, n) => Holds(Absorb(nodes, n), n)
<1> DEFINE new == Absorb(nodes, n)
<1>1. DOMAIN new = DOMAIN nodes /\ DOMAIN nodes = 1 .. Len(nodes)
  BY AbsorbShape
<1>2. \A i \in DOMAIN nodes :
        /\ nodes[i] \in Node /\ new[i] \in Node
        /\ new[i].id = nodes[i].id
        /\ new[i].node_count >= nodes[i].node_count
        /\ nodes[i].id = n.id => new[i].node_count >= n.node_count
  BY <1>1, AbsorbAt
<1> HIDE DEF new
<1>3. \A m \in Node : m.node_count \in Nat
  BY DEF Node
<1>4. ASSUME NEW m \in Node, Holds(nodes, m)
      PROVE  Holds(new, m)
  <2>1. PICK i \in DOMAIN nodes : nodes[i].id = m.id /\ nodes[i].node_count >= m.node_count
    BY <1>4 DEF Holds
  <2>2. new[i].id = m.id /\ new[i].node_count >= m.node_count
    BY <1>2, <1>3, <2>1
  <2> QED
    BY <1>1, <2>2 DEF Holds
<1>5. ASSUME ~IsNew(nodes, n)
      PROVE  Holds(new, n)
  <2>1. PICK i \in DOMAIN nodes : nodes[i].id = n.id
    BY <1>5 DEF IsNew, IdsOf
  <2> QED
    BY <1>1, <1>2, <2>1 DEF Holds
<1> QED
  BY <1>4, <1>5 DEF new

\* Appending a node whose id the list does not have.
LEMMA AppendUnique ==
    ASSUME NEW nodes \in Seq(Node), NEW n \in Node, UniqueIds(nodes), IsNew(nodes, n)
    PROVE  UniqueIds(Append(nodes, n))
BY DEF UniqueIds, IsNew, IdsOf

\* Linking two lists that share no id.
LEMMA ConcatUnique ==
    ASSUME NEW s \in Seq(Node), NEW t \in Seq(Node), UniqueIds(s), UniqueIds(t),
           IdsOf(s) \cap IdsOf(t) = {}
    PROVE  UniqueIds(s \o t)
<1> SUFFICES ASSUME NEW i \in DOMAIN (s \o t), NEW j \in DOMAIN (s \o t),
                    (s \o t)[i].id = (s \o t)[j].id
             PROVE  i = j
  BY DEF UniqueIds
<1>1. \A k \in DOMAIN (s \o t) :
        \/ k \in DOMAIN s /\ (s \o t)[k] = s[k]
        \/ k - Len(s) \in DOMAIN t /\ (s \o t)[k] = t[k - Len(s)]
  OBVIOUS
<1>2. i \in Nat /\ j \in Nat /\ Len(s) \in Nat
  OBVIOUS
<1>3. CASE i \in DOMAIN s /\ (s \o t)[i] = s[i]
  <2>1. (s \o t)[i].id \in IdsOf(s)
    BY <1>3 DEF IdsOf
  <2>2. j \in DOMAIN s /\ (s \o t)[j] = s[j]
    BY <1>1, <2>1 DEF IdsOf
  <2> QED
    BY <1>3, <2>2 DEF UniqueIds
<1>4. CASE i - Len(s) \in DOMAIN t /\ (s \o t)[i] = t[i - Len(s)]
  <2>1. (s \o t)[i].id \in IdsOf(t)
    BY <1>4 DEF IdsOf
  <2>2. j - Len(s) \in DOMAIN t /\ (s \o t)[j] = t[j - Len(s)]
    BY <1>1, <2>1 DEF IdsOf
  <2>3. i - Len(s) = j - Len(s)
    BY <1>4, <2>2 DEF UniqueIds
  <2> QED
    BY <1>2, <2>3
<1> QED
  BY <1>1, <1>3, <1>4

\* What a linked list holds.
LEMMA ConcatHolds ==
    ASSUME NEW s \in Seq(Node), NEW t \in Seq(Node), NEW n \in Node,
           Holds(s, n) \/ Holds(t, n)
    PROVE  Holds(s \o t, n)
<1>1. CASE Holds(s, n)
  <2>1. PICK i \in DOMAIN s : s[i].id = n.id /\ s[i].node_count >= n.node_count
    BY <1>1 DEF Holds
  <2>2. i \in DOMAIN (s \o t) /\ (s \o t)[i] = s[i]
    OBVIOUS
  <2> QED
    BY <2>1, <2>2 DEF Holds
<1>2. CASE Holds(t, n)
  <2>1. PICK i \in DOMAIN t : t[i].id = n.id /\ t[i].node_count >= n.node_count
    BY <1>2 DEF Holds
  <2>2. Len(s) + i \in DOMAIN (s \o t) /\ (s \o t)[Len(s) + i] = t[i]
    OBVIOUS
  <2> QED
    BY <2>1, <2>2 DEF Holds
<1> QED
  BY <1>1, <1>2

\* What a list with one more node holds.
LEMMA AppendHolds ==
    ASSUME NEW s \in Seq(Node), NEW m \in Node, NEW n \in Node,
           Holds(s, n) \/ n = m
    PROVE  Holds(Append(s, m), n)
<1>1. CASE Holds(s, n)
  <2>1. PICK i \in DOMAIN s : s[i].id = n.id /\ s[i].node_count >= n.node_count
    BY <1>1 DEF Holds
  <2>2. i \in DOMAIN Append(s, m) /\ Append(s, m)[i] = s[i]
    OBVIOUS
  <2> QED
    BY <2>1, <2>2 DEF Holds
<1>2. CASE n = m
  <2>1. Len(s) + 1 \in DOMAIN Append(s, m) /\ Append(s, m)[Len(s) + 1] = m
    OBVIOUS
  <2> QED
    BY <1>2, <2>1 DEF Holds, Node
<1> QED
  BY <1>1, <1>2

\* What a crash leaves of a list without duplicates has none.
LEMMA PrefixUnique ==
    ASSUME NEW nodes \in Seq(Node), UniqueIds(nodes), NEW k \in 0 .. Len(nodes)
    PROVE  SubSeq(nodes, 1, k) \in Seq(Node) /\ UniqueIds(SubSeq(nodes, 1, k))
<1>1. /\ SubSeq(nodes, 1, k) \in Seq(Node)
      /\ DOMAIN SubSeq(nodes, 1, k) = 1 .. k
      /\ \A i \in 1 .. k : SubSeq(nodes, 1, k)[i] = nodes[i] /\ i \in DOMAIN nodes
  OBVIOUS
<1> QED
  BY <1>1 DEF UniqueIds

-----------------------------------------------------------------------------
(* Induction.  The library's theorems take a predicate, which the provers    *)
(* cannot instantiate; a set they can.                                       *)

\* A set of natural numbers with 0 and every successor.
LEMMA NatSet ==
    ASSUME NEW S \in SUBSET Nat, 0 \in S, \A n \in S : n + 1 \in S
    PROVE  S = Nat
<1> SUFFICES ASSUME S # Nat
             PROVE  FALSE
  OBVIOUS
<1> DEFINE T == Nat \ S
           R == OpToRel(<, Nat)
<1>1. IsWellFoundedOn(R, Nat)
  BY NatLessThanWellFounded
<1>2. T # {} /\ T \subseteq Nat
  OBVIOUS
<1>3. PICK x \in T : \A y \in T : ~ (<<y, x>> \in R)
  <2> HIDE DEF R, T
  <2> QED
    BY <1>1, <1>2, WFMin
<1>4. x # 0 /\ x \in Nat
  OBVIOUS
<1>5. x - 1 \in Nat
  BY <1>4
<1>6. <<x - 1, x>> \in R
  BY <1>4, <1>5 DEF OpToRel
<1>7. x - 1 \in S
  BY <1>3, <1>5, <1>6
<1> QED
  BY <1>4, <1>5, <1>7


Turns(n, D) == [1 .. n -> [D -> D]]

Runs(f, n, D, a, turn) ==
    /\ f \in [0 .. n -> D]
    /\ f[0] = a /\ \A i \in 1 .. n : f[i] = turn[i][f[i - 1]]

\* A loop of n turns, each of which takes what the one before has left in D, has
\* a run.
LEMMA Recursion ==
    ASSUME NEW D, NEW a \in D, NEW n \in Nat, NEW turn \in Turns(n, D)
    PROVE  \E f : Runs(f, n, D, a, turn)
<1> DEFINE Solves(f, m) ==
               f[0] = a /\ \A i \in 1 .. m : f[i] = turn[i][f[i - 1]]
           S == {m \in Nat : m <= n => \E f \in [0 .. m -> D] : Solves(f, m)}
<1>1. 0 \in S
  <2> DEFINE f == [i \in 0 .. 0 |-> a]
  <2>1. f \in [0 .. 0 -> D] /\ Solves(f, 0)
    OBVIOUS
  <2> HIDE DEF f, Solves
  <2> QED
    BY <2>1
<1>2. ASSUME NEW m \in S
      PROVE  m + 1 \in S
  <2>1. m \in Nat
    OBVIOUS
  <2> SUFFICES ASSUME m + 1 <= n
               PROVE  \E f \in [0 .. m + 1 -> D] : Solves(f, m + 1)
    <3>1. m + 1 \in Nat
      BY <2>1
    <3> HIDE DEF Solves
    <3> QED
      BY <3>1
  <2>2. PICK f \in [0 .. m -> D] : Solves(f, m)
    BY <2>1
  <2> DEFINE v == turn[m + 1][f[m]]
             g == [i \in 0 .. m + 1 |-> IF i = m + 1 THEN v ELSE f[i]]
  <2>3. v \in D
    BY <2>1 DEF Turns
  <2>4. g \in [0 .. m + 1 -> D] /\ \A i \in 0 .. m : g[i] = f[i]
    <3> HIDE DEF v
    <3> QED
      BY <2>1, <2>3
  <2>5. g[m + 1] = v
    BY <2>1
  <2> HIDE DEF g
  <2>6. g[0] = a
    BY <2>1, <2>2, <2>4
  <2>7. ASSUME NEW i \in 1 .. m + 1
        PROVE  g[i] = turn[i][g[i - 1]]
    <3>1. CASE i = m + 1
      BY <2>1, <2>4, <2>5, <3>1
    <3>2. CASE i \in 1 .. m
      BY <2>1, <2>2, <2>4, <3>2
    <3> QED
      BY <2>1, <3>1, <3>2
  <2> QED
    BY <2>4, <2>6, <2>7
<1>3. S = Nat
  <2>1. S \in SUBSET Nat
    OBVIOUS
  <2> HIDE DEF S
  <2> QED
    BY <1>1, <1>2, <2>1, NatSet
<1>4. n \in S
  BY <1>3
<1> QED
  BY <1>4 DEF Runs

-----------------------------------------------------------------------------
(* node_merge as a whole *)

\* s holds the new ones of the first i entries.
NewOnes(nodes, others, i, s) ==
    /\ s \in Seq(Node)
    /\ \A k \in DOMAIN s : \E j \in 1 .. i : s[k] = others[j] /\ IsNew(nodes, others[j])
    /\ \A j \in 1 .. i : IsNew(nodes, others[j]) => \E k \in DOMAIN s : s[k] = others[j]
    /\ UniqueIds(others) => UniqueIds(s)

\* One more entry.
LEMMA NewOnesStep ==
    ASSUME NEW nodes \in Seq(Node), NEW others \in Seq(Node), NEW i \in 1 .. Len(others),
           NEW s, NewOnes(nodes, others, i - 1, s)
    PROVE  NewOnes(nodes, others, i,
                   IF IsNew(nodes, others[i]) THEN Append(s, others[i]) ELSE s)
<1>1. s \in Seq(Node) /\ others[i] \in Node /\ i \in Nat \ {0} /\ i \in DOMAIN others
  BY DEF NewOnes
<1>2. \A j \in 1 .. i - 1 : j \in 1 .. i /\ j \in DOMAIN others /\ j # i
  BY <1>1
<1>3. CASE ~IsNew(nodes, others[i])
  <2>1. \A j \in 1 .. i : IsNew(nodes, others[j]) => j \in 1 .. i - 1
    BY <1>1, <1>3
  <2> QED
    BY <1>2, <1>3, <2>1 DEF NewOnes
<1>4. CASE IsNew(nodes, others[i])
  <2> DEFINE t == Append(s, others[i])
  <2>1. /\ t \in Seq(Node) /\ DOMAIN t = 1 .. Len(s) + 1 /\ DOMAIN s = 1 .. Len(s)
        /\ t[Len(s) + 1] = others[i] /\ \A k \in DOMAIN s : t[k] = s[k]
        /\ Len(s) \in Nat
    BY <1>1
  <2>2. ASSUME NEW k \in DOMAIN t
        PROVE  \E j \in 1 .. i : t[k] = others[j] /\ IsNew(nodes, others[j])
    <3>1. CASE k = Len(s) + 1
      BY <1>1, <1>4, <2>1, <3>1
    <3>2. CASE k \in DOMAIN s
      BY <1>2, <2>1, <3>2 DEF NewOnes
    <3> QED
      BY <2>1, <3>1, <3>2
  <2>3. ASSUME NEW j \in 1 .. i, IsNew(nodes, others[j])
        PROVE  \E k \in DOMAIN t : t[k] = others[j]
    <3>1. CASE j = i
      BY <2>1, <3>1
    <3>2. CASE j \in 1 .. i - 1
      <4>1. PICK k \in DOMAIN s : s[k] = others[j]
        BY <2>3, <3>2 DEF NewOnes
      <4>2. k \in DOMAIN t /\ t[k] = s[k]
        BY <2>1
      <4> QED
        BY <4>1, <4>2
    <3> QED
      BY <1>1, <3>1, <3>2
  <2>4. ASSUME UniqueIds(others)
        PROVE  UniqueIds(t)
    <3>1. UniqueIds(s)
      BY <2>4 DEF NewOnes
    <3>2. IsNew(s, others[i])
      <4> SUFFICES ASSUME NEW k \in DOMAIN s, s[k].id = others[i].id
                   PROVE  FALSE
        BY DEF IsNew, IdsOf
      <4>1. PICK j \in 1 .. i - 1 : s[k] = others[j]
        BY DEF NewOnes
      <4> QED
        BY <1>1, <1>2, <2>4, <4>1 DEF UniqueIds
    <3> QED
      BY <1>1, <3>1, <3>2, AppendUnique
  <2> HIDE DEF t
  <2>5. NewOnes(nodes, others, i, t)
    BY <2>1, <2>2, <2>3, <2>4 DEF NewOnes
  <2> QED
    BY <1>4, <2>5 DEF t
<1> QED
  BY <1>3, <1>4

\* The function by which Added is defined exists.
LEMMA AddedSolves ==
    ASSUME NEW nodes, NEW E, NEW others \in Seq(E)
    PROVE  \E f : /\ f[0] = <<>>
                  /\ \A i \in 1 .. Len(others) :
                        f[i] = IF IsNew(nodes, others[i])
                               THEN Append(f[i - 1], others[i]) ELSE f[i - 1]
                  /\ Added(nodes, others) = f[Len(others)]
<1> DEFINE Next(s, i) == IF IsNew(nodes, others[i]) THEN Append(s, others[i]) ELSE s
           turn == [i \in 1 .. Len(others) |-> [s \in Seq(E) |-> Next(s, i)]]
           added == CHOOSE f : f = [i \in 0 .. Len(others) |->
                                       IF i = 0 THEN <<>>
                                       ELSE IF IsNew(nodes, others[i])
                                            THEN Append(f[i - 1], others[i])
                                            ELSE f[i - 1]]
<1>1. Len(others) \in Nat /\ <<>> \in Seq(E)
  OBVIOUS
<1>2. \E f : f = [i \in 0 .. Len(others) |->
                     IF i = 0 THEN <<>>
                     ELSE IF IsNew(nodes, others[i]) THEN Append(f[i - 1], others[i])
                     ELSE f[i - 1]]
  <2>1. \A i \in 1 .. Len(others), s \in Seq(E) : Next(s, i) \in Seq(E)
    OBVIOUS
  <2>2. turn \in Turns(Len(others), Seq(E))
    <3> HIDE DEF Next
    <3> QED
      BY <2>1 DEF Turns
  <2>3. PICK f : Runs(f, Len(others), Seq(E), <<>>, turn)
    <3> HIDE DEF turn
    <3> QED
      BY <1>1, <2>2, Recursion
  <2>4. ASSUME NEW i \in 1 .. Len(others)
        PROVE  turn[i][f[i - 1]] = Next(f[i - 1], i)
    <3>1. f[i - 1] \in Seq(E)
      <4>1. f \in [0 .. Len(others) -> Seq(E)] /\ i - 1 \in 0 .. Len(others)
        <5> HIDE DEF turn
        <5> QED
          BY <1>1, <2>3 DEF Runs
      <4> QED
        BY <4>1
    <3> HIDE DEF Next
    <3> QED
      BY <3>1
  <2> HIDE DEF turn, Next
  <2>5. f = [i \in 0 .. Len(others) |-> IF i = 0 THEN <<>> ELSE Next(f[i - 1], i)]
    BY <1>1, <2>3, <2>4 DEF Runs
  <2> QED
    BY <2>5 DEF Next
<1>3. added = [i \in 0 .. Len(others) |-> IF i = 0 THEN <<>> ELSE Next(added[i - 1], i)]
  BY <1>2
<1>4. Added(nodes, others) = added[Len(others)]
  BY DEF Added
<1> HIDE DEF added
<1>5. added[0] = <<>> /\ \A i \in 1 .. Len(others) : added[i] = Next(added[i - 1], i)
  <2> HIDE DEF Next
  <2> QED
    BY <1>1, <1>3
<1> QED
  BY <1>4, <1>5

\* Added returns the new ones of all entries.
LEMMA AddedIsNewOnes ==
    ASSUME NEW nodes \in Seq(Node), NEW others \in Seq(Node)
    PROVE  NewOnes(nodes, others, Len(others), Added(nodes, others))
<1> DEFINE Next(s, i) == IF IsNew(nodes, others[i]) THEN Append(s, others[i]) ELSE s
<1>1. Len(others) \in Nat /\ <<>> \in Seq(Node)
  OBVIOUS
<1>2. PICK added : /\ added[0] = <<>>
                   /\ \A i \in 1 .. Len(others) : added[i] = Next(added[i - 1], i)
                   /\ Added(nodes, others) = added[Len(others)]
  BY AddedSolves
<1> DEFINE S == {i \in Nat : i <= Len(others) => NewOnes(nodes, others, i, added[i])}
<1>3. \A i \in 1 .. Len(others) : added[i] = Next(added[i - 1], i)
  BY <1>2
<1>4. Added(nodes, others) = added[Len(others)]
  BY <1>2
<1> HIDE DEF Next
<1>5. 0 \in S
  <2>1. NewOnes(nodes, others, 0, <<>>)
    BY <1>1 DEF NewOnes, UniqueIds
  <2>2. added[0] = <<>>
    BY <1>2
  <2> QED
    BY <2>1, <2>2
<1>6. ASSUME NEW i \in S
      PROVE  i + 1 \in S
  <2>1. i \in Nat /\ i + 1 \in Nat
    OBVIOUS
  <2> SUFFICES ASSUME i + 1 <= Len(others)
               PROVE  NewOnes(nodes, others, i + 1, added[i + 1])
    BY <2>1
  <2>2. NewOnes(nodes, others, i, added[i])
    BY <1>1, <2>1
  <2>3. added[i + 1] = Next(added[i], i + 1)
    BY <1>1, <1>3, <2>1
  <2>4. i + 1 \in 1 .. Len(others) /\ (i + 1) - 1 = i
    BY <1>1, <2>1
  <2> QED
    BY <2>2, <2>3, <2>4, NewOnesStep DEF Next
<1>7. S = Nat
  <2>1. S \in SUBSET Nat
    OBVIOUS
  <2> HIDE DEF S
  <2> QED
    BY <1>5, <1>6, <2>1, NatSet
<1> QED
  BY <1>1, <1>4, <1>7

\* The entries of a list are nodes.
LEMMA EntryType ==
    ASSUME NEW nodes \in Seq(Node), NEW i \in DOMAIN nodes
    PROVE  i \in Nat /\ nodes[i] \in Node /\ nodes[i].id \in Nat /\ nodes[i].node_count \in Nat
<1>1. i \in Nat /\ nodes[i] \in Node
  OBVIOUS
<1> QED
  BY <1>1 DEF Node

\* Of the entries at some places there is a first of the newest.
LEMMA NewestExists ==
    ASSUME NEW others \in Seq(Node), NEW T \in SUBSET DOMAIN others, T # {}
    PROVE  \E j \in T : \A k \in T :
              \/ others[k].node_count < others[j].node_count
              \/ others[k].node_count = others[j].node_count /\ j <= k
<1> DEFINE Before(j, k) ==
               \/ others[k].node_count < others[j].node_count
               \/ others[k].node_count = others[j].node_count /\ j <= k
           First(U) == U # {} => \E j \in U : \A k \in U : Before(j, k)
           S == {m \in Nat : \A U \in SUBSET (DOMAIN others \cap (1 .. m)) : First(U)}
<1>1. \A j \in DOMAIN others : others[j].node_count \in Nat /\ j \in Nat
  BY EntryType
<1>2. 0 \in S
  OBVIOUS
<1>3. ASSUME NEW m \in S
      PROVE  m + 1 \in S
  <2>1. m \in Nat /\ m + 1 \in Nat
    OBVIOUS
  <2> SUFFICES ASSUME NEW U \in SUBSET (DOMAIN others \cap (1 .. m + 1)), U # {}
               PROVE  \E j \in U : \A k \in U : Before(j, k)
    BY <2>1
  <2> DEFINE V == U \ {m + 1}
  <2>2. V \subseteq DOMAIN others \cap (1 .. m)
    BY <2>1
  <2>3. CASE V = {}
    <3>1. \A k \in U : k = m + 1
      BY <2>3
    <3>2. \A k \in U : Before(k, k)
      BY <1>1
    <3> HIDE DEF Before
    <3> QED
      BY <3>1, <3>2
  <2>4. CASE V # {}
    <3>1. PICK j \in V : \A k \in V : Before(j, k)
      BY <2>2, <2>4
    <3>2. \A k \in V : k <= m /\ k \in U
      BY <2>1, <2>2
    <3>3. CASE m + 1 \notin U
      <4>1. U = V
        BY <3>3
      <4> QED
        BY <3>1, <4>1
    <3>4. CASE m + 1 \in U /\ others[j].node_count < others[m + 1].node_count
      <4>1. \A k \in V : Before(m + 1, k)
        BY <1>1, <2>1, <2>2, <3>1, <3>4
      <4>2. Before(m + 1, m + 1)
        BY <1>1, <3>4
      <4> HIDE DEF Before
      <4>3. \A k \in U : Before(m + 1, k)
        BY <4>1, <4>2
      <4> QED
        BY <3>4, <4>3
    <3>5. CASE m + 1 \in U /\ ~(others[j].node_count < others[m + 1].node_count)
      <4>1. Before(j, m + 1)
        BY <1>1, <2>1, <2>2, <3>2, <3>5
      <4> HIDE DEF Before
      <4>2. \A k \in U : Before(j, k)
        BY <3>1, <4>1
      <4> QED
        BY <3>2, <4>2
    <3> QED
      BY <3>3, <3>4, <3>5
  <2> QED
    BY <2>3, <2>4
<1>4. S = Nat
  <2>1. S \in SUBSET Nat
    OBVIOUS
  <2> HIDE DEF S
  <2> QED
    BY <1>2, <1>3, <2>1, NatSet
<1>5. Len(others) \in S /\ T \in SUBSET (DOMAIN others \cap (1 .. Len(others)))
  <2>1. DOMAIN others = 1 .. Len(others) /\ Len(others) \in Nat
    OBVIOUS
  <2> HIDE DEF S
  <2> QED
    BY <1>4, <2>1
<1>6. First(T)
  <2> HIDE DEF First
  <2> QED
    BY <1>5
<1> QED
  BY <1>6

\* What is left of one entry is the newest of it and its versions in the second
\* list.
LEMMA NewestIs ==
    ASSUME NEW n \in Node, NEW others \in Seq(Node)
    PROVE  /\ Newest(n, others) \in Node
           /\ Newest(n, others).id = n.id
           /\ Newest(n, others).node_count >= n.node_count
           /\ \A j \in DOMAIN others : others[j].id = n.id =>
                 Newest(n, others).node_count >= others[j].node_count
           /\ Newest(n, others) = n \/ Contains(others, Newest(n, others))
<1> DEFINE newer == Newer(n, others)
<1>1. /\ n.node_count \in Nat
      /\ \A j \in DOMAIN others : others[j] \in Node /\ others[j].node_count \in Nat
  BY EntryType DEF Node
<1>2. CASE newer = {}
  <2>1. Newest(n, others) = n
    BY <1>2 DEF Newest
  <2>2. \A j \in DOMAIN others : others[j].id = n.id => n.node_count >= others[j].node_count
    BY <1>1, <1>2 DEF Newer
  <2> QED
    BY <1>1, <2>1, <2>2
<1>3. CASE newer # {}
  <2>1. newer \in SUBSET DOMAIN others
    BY DEF Newer
  <2> DEFINE Latest(j) == \A k \in newer :
                             \/ others[k].node_count < others[j].node_count
                             \/ others[k].node_count = others[j].node_count /\ j <= k
             j == CHOOSE i \in newer : Latest(i)
  <2> HIDE DEF newer
  <2>2. j \in newer /\ Latest(j)
    <3>1. \E i \in newer : Latest(i)
      BY <1>3, <2>1, NewestExists
    <3> HIDE DEF Latest
    <3> QED
      BY <3>1
  <2>3. Newest(n, others) = others[j]
    BY <1>3 DEF Newest, newer
  <2> HIDE DEF j
  <2>4. others[j].id = n.id /\ others[j].node_count > n.node_count
    BY <2>2 DEF Newer, newer
  <2>5. ASSUME NEW k \in DOMAIN others, others[k].id = n.id
        PROVE  others[j].node_count >= others[k].node_count
    <3>1. CASE k \in newer
      BY <1>1, <2>1, <2>2, <3>1
    <3>2. CASE k \notin newer
      BY <1>1, <2>1, <2>2, <2>4, <2>5, <3>2 DEF Newer, newer
    <3> QED
      BY <3>1, <3>2
  <2> QED
    BY <1>1, <2>1, <2>2, <2>3, <2>4, <2>5 DEF Contains
<1> QED
  BY <1>2, <1>3

\* The merged list: a list of nodes again, and not empty unless the first was,
\* it names no node twice if neither list did, holds what both held, and has
\* every node from one of them.
LEMMA MergeIs ==
    ASSUME NEW nodes \in Seq(Node), NEW others \in Seq(Node)
    PROVE  /\ Merge(nodes, others) \in Seq(Node)
           /\ nodes # <<>> => Merge(nodes, others) # <<>>
           /\ UniqueIds(nodes) /\ UniqueIds(others) => UniqueIds(Merge(nodes, others))
           /\ HoldsAll(Merge(nodes, others), nodes)
           /\ HoldsAll(Merge(nodes, others), others)
           /\ \A i \in DOMAIN Merge(nodes, others) :
                 \/ Contains(nodes, Merge(nodes, others)[i])
                 \/ Contains(others, Merge(nodes, others)[i])
<1> DEFINE s == [i \in DOMAIN nodes |-> Newest(nodes[i], others)]
           t == Added(nodes, others)
           m == Merge(nodes, others)
<1>1. /\ Len(nodes) \in Nat /\ DOMAIN nodes = 1 .. Len(nodes)
      /\ \A i \in DOMAIN nodes : nodes[i] \in Node
      /\ \A j \in DOMAIN others : others[j] \in Node
  OBVIOUS
<1>2. /\ s \in Seq(Node) /\ Len(s) = Len(nodes) /\ DOMAIN s = DOMAIN nodes
      /\ \A i \in DOMAIN nodes : s[i] = Newest(nodes[i], others)
  BY <1>1, NewestIs
<1>3. \A i \in DOMAIN nodes :
        /\ s[i].id = nodes[i].id /\ s[i].node_count >= nodes[i].node_count
        /\ \A j \in DOMAIN others : others[j].id = nodes[i].id =>
              s[i].node_count >= others[j].node_count
        /\ s[i] = nodes[i] \/ Contains(others, s[i])
  BY <1>1, <1>2, NewestIs
<1>4. NewOnes(nodes, others, Len(others), t)
  BY AddedIsNewOnes
<1>5. t \in Seq(Node)
  BY <1>4 DEF NewOnes
<1>6. m = s \o t
  BY DEF Merge
<1> HIDE DEF s, t, m
<1>7. /\ m \in Seq(Node) /\ Len(m) = Len(s) + Len(t)
      /\ \A i \in DOMAIN m : \/ i \in DOMAIN s /\ m[i] = s[i]
                             \/ i - Len(s) \in DOMAIN t /\ m[i] = t[i - Len(s)]
  <2>1. s \in Seq(Node) /\ t \in Seq(Node) /\ m = s \o t
    BY <1>2, <1>5, <1>6
  <2> QED
    BY <2>1
<1>8. nodes # <<>> => m # <<>>
  BY <1>1, <1>2, <1>5, <1>7
<1>9. ASSUME UniqueIds(nodes), UniqueIds(others)
      PROVE  UniqueIds(m)
  <2>1. UniqueIds(s)
    BY <1>2, <1>3, <1>9 DEF UniqueIds
  <2>2. UniqueIds(t)
    BY <1>4, <1>9 DEF NewOnes
  <2>3. IdsOf(s) \cap IdsOf(t) = {}
    <3>1. \A k \in DOMAIN t : t[k].id \notin IdsOf(nodes)
      BY <1>4 DEF NewOnes, IsNew
    <3>2. IdsOf(s) = IdsOf(nodes)
      BY <1>2, <1>3 DEF IdsOf
    <3> QED
      BY <3>1, <3>2 DEF IdsOf
  <2> QED
    BY <1>2, <1>5, <1>6, <2>1, <2>2, <2>3, ConcatUnique
<1>10. HoldsAll(m, nodes)
  <2> SUFFICES ASSUME NEW i \in DOMAIN nodes
               PROVE  Holds(m, nodes[i])
    BY DEF HoldsAll
  <2>1. Holds(s, nodes[i])
    BY <1>2, <1>3 DEF Holds
  <2> QED
    BY <1>1, <1>2, <1>5, <1>6, <2>1, ConcatHolds
<1>11. HoldsAll(m, others)
  <2> SUFFICES ASSUME NEW j \in DOMAIN others
               PROVE  Holds(m, others[j])
    BY DEF HoldsAll
  <2>1. CASE IsNew(nodes, others[j])
    <3>1. j \in 1 .. Len(others)
      OBVIOUS
    <3>2. PICK k \in DOMAIN t : t[k] = others[j]
      BY <1>4, <2>1, <3>1 DEF NewOnes
    <3>3. Holds(t, others[j])
      <4>1. others[j].node_count \in Nat
        BY EntryType
      <4> QED
        BY <3>2, <4>1 DEF Holds
    <3> QED
      BY <1>1, <1>2, <1>5, <1>6, <3>3, ConcatHolds
  <2>2. CASE ~IsNew(nodes, others[j])
    <3>1. PICK i \in DOMAIN nodes : nodes[i].id = others[j].id
      BY <2>2 DEF IsNew, IdsOf
    <3>2. Holds(s, others[j])
      BY <1>2, <1>3, <3>1 DEF Holds
    <3> QED
      BY <1>1, <1>2, <1>5, <1>6, <3>2, ConcatHolds
  <2> QED
    BY <2>1, <2>2
<1>12. ASSUME NEW i \in DOMAIN m
       PROVE  Contains(nodes, m[i]) \/ Contains(others, m[i])
  <2>1. CASE i \in DOMAIN s /\ m[i] = s[i]
    BY <1>2, <1>3, <2>1 DEF Contains
  <2>2. CASE i - Len(s) \in DOMAIN t /\ m[i] = t[i - Len(s)]
    <3>1. PICK j \in 1 .. Len(others) : m[i] = others[j]
      BY <1>4, <2>2 DEF NewOnes
    <3>2. j \in DOMAIN others
      OBVIOUS
    <3> QED
      BY <3>1, <3>2 DEF Contains
  <2> QED
    BY <1>7, <2>1, <2>2
<1> QED
  BY <1>7, <1>8, <1>9, <1>10, <1>11, <1>12 DEF m
====
