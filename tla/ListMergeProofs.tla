-------------------------- MODULE ListMergeProofs --------------------------
(***************************************************************************)
(* What the two merging functions do to lists of any length, with any      *)
(* entries.  Both walk the cells of the first list, in their order; once   *)
(* ip_list_merge has linked a cell of the second list, every later cell of *)
(* the second list is on the way too, meets itself there, and is never     *)
(* linked again.                                                           *)
(***************************************************************************)
EXTENDS ListMerge, NodeInfoProofs, SequenceTheorems

First  == 1 .. n1
Second == n1 + 1 .. n1 + n2

\* What a cell held when the function was called.
Orig(c) == IF c \in First THEN list1[c] ELSE list2[c - n1]

\* How many entries of the second list have been dealt with.
Passed == IF ptr2 \in Second THEN ptr2 - n1 - 1 ELSE n2

\* The cells the inner loop walks over, in the order of the numbers, and what
\* it finds behind the last of them.
Linked  == tail \in Second
Path    == First \cup {c \in Second : Linked /\ c >= tail}
PathEnd == IF Linked THEN end2 ELSE end1
Walked  == {c \in Path : ptr1 \in Path => c < ptr1}

\* The next pointer of a cell of either list while a loop runs.
After(c) == IF c = n1 THEN IF Linked THEN tail ELSE end1
            ELSE IF c = n1 + n2 THEN end2 ELSE c + 1

-----------------------------------------------------------------------------
(* The inductive invariant: where the pointers are *)

Args ==
    /\ call \in {"node_merge", "ip_list_merge"}
    /\ list1 \in FirstLists /\ list2 \in SecondLists /\ end1 \in Ends /\ end2 \in Ends

Where ==
    /\ ptr2 \in Second \cup {end2} /\ (pc = "inner" => ptr2 \in Second)
    /\ pc \in {"run", "inner"} => ptr1 \in Path \cup {PathEnd}
    /\ pc = "run" /\ ptr1 = NULL => n1 = 0
    /\ pc = "run" /\ call = "node_merge" => ptr2 = NULL
    /\ pc = "inner" /\ ptr2 \in Walked => flag = 0

\* The allocated cells of node_merge form a list that p ends, until it is linked.
Copies ==
    /\ tail \in remain .. remain + Passed /\ p = tail + 1 /\ value = 0
    /\ pc # "returned" => /\ \A c \in remain .. tail : next[c] = c + 1
                          /\ \A c \in First \cup Second : next[c] = After(c)
    /\ pc = "returned" =>
          /\ \A c \in 1 .. n1 - 1 : next[c] = c + 1
          /\ \A c \in remain + 1 .. tail - 1 : next[c] = c + 1
          /\ next[n1] = IF tail = remain THEN NULL ELSE remain + 1
          /\ tail # remain => next[tail] = NULL

\* ip_list_merge has found the last cell of the first list and has linked at
\* most one cell to it.
Joint ==
    /\ \A c \in First \cup Second : next[c] = After(c)
    /\ pc = "run" => tail = remain
    /\ pc \in {"outer", "inner", "returned"} =>
          /\ n1 > 0 /\ end1 = NULL
          /\ tail = n1 \/ tail \in n1 + 1 .. n1 + Passed

Heap == IF call = "node_merge" THEN Copies ELSE Joint

Outcome ==
    /\ value = -1 => pc = "returned"
    /\ pc = "returned" /\ value # -1 => n1 > 0 /\ end1 = NULL /\ ptr2 = NULL
    /\ pc = "crashed" => n1 = 0 \/ end1 = WILD \/ end2 = WILD

ShapeInv == Args /\ TypeOK /\ Where /\ Heap /\ Outcome

-----------------------------------------------------------------------------
(* The inductive invariant: what the cells hold *)

\* The function has not been left early.
Going == pc \in {"outer", "run", "inner"} \/ Merged

\* How many entries of the second list a cell has been compared with.
Seen(c) == IF pc = "inner" /\ c \in Walked THEN Passed + 1 ELSE Passed

\* A cell keeps its key, and its count does not fall; what it holds it held from
\* the start or has from an entry it was compared with.
Grown(c) ==
    /\ cell[c].key = Orig(c).key /\ cell[c].count >= Orig(c).count
    /\ \/ cell[c] = Orig(c)
       \/ \E j \in 1 .. Seen(c) : cell[c] = list2[j] /\ list2[j].key = Orig(c).key

Cells ==
    /\ \A c \in First \cup Second : Grown(c)
    /\ \A c \in Second \ Path : cell[c] = Orig(c)

\* The flag tells whether the key of ptr2 was met; wherever it was, the count is
\* no smaller now.
Met ==
    pc = "inner" =>
        /\ flag = 0 <=> \E c \in Walked : Orig(c).key = Orig(ptr2).key
        /\ \A c \in Walked : Orig(c).key = Orig(ptr2).key => cell[c].count >= cell[ptr2].count

\* A cell of the first list holds the first of the newest entries among those it
\* was compared with, if any of them is newer than what it held.
Left(e, k, c) ==
    \/ /\ e = list1[c]
       /\ \A j \in 1 .. k : list2[j].key = list1[c].key => list2[j].count <= list1[c].count
    \/ \E j \in 1 .. k :
          /\ e = list2[j] /\ list2[j].key = list1[c].key /\ list2[j].count > list1[c].count
          /\ \A i \in 1 .. k : list2[i].key = list1[c].key =>
                list2[i].count <= list2[j].count /\ (i < j => list2[i].count < list2[j].count)

AsNode(e) == [id |-> e.key, node_count |-> e.count, ip_list |-> e.info]

\* f[i] is what the first i entries of the second list add to the first list.
Adds(f) ==
    /\ f[0] = <<>>
    /\ \A i \in 1 .. n2 :
          f[i] = IF IsNew(Nodes(list1), Nodes(list2)[i])
                 THEN Append(f[i - 1], Nodes(list2)[i]) ELSE f[i - 1]

Copied == [k \in 1 .. tail - remain |-> AsNode(cell[remain + k])]

NodeCells ==
    call = "node_merge" =>
        /\ \A c \in First : Left(cell[c], Seen(c), c)
        /\ \A f : Adds(f) => f[Passed] = Copied

\* Strong conflict of two entries.
Clash(e1, e2) == e1.key = e2.key /\ e1.count = e2.count /\ e1.info # e2.info

\* Every entry of the second list that was passed stands in the list, or an entry
\* with its address and no smaller count does.  The entry that was linked is new.
IpCells ==
    call = "ip_list_merge" =>
        /\ \A c \in n1 + 1 .. n1 + Passed :
              c \in Path \/ \E d \in Path : /\ Orig(d).key = Orig(c).key
                                            /\ cell[d].count >= Orig(c).count
        /\ Linked => \A c \in First : Orig(c).key # Orig(tail).key
        /\ Once(list1) /\ Once(list2) =>
              \A i \in First : \A j \in 1 .. Seen(i) : ~Clash(list1[i], list2[j])

Stopped ==
    value = -1 => call = "ip_list_merge" /\ (Once(list1) /\ Once(list2) =>
        \E i \in First, j \in 1 .. n2 : Clash(list1[i], list2[j]))

DataInv == Stopped /\ (Going => Cells /\ Met /\ NodeCells /\ IpCells)

ListInv == ShapeInv /\ DataInv

-----------------------------------------------------------------------------
(* Where the pointers are *)

LEMMA Sizes ==
    ASSUME Args
    PROVE  /\ n1 \in Nat /\ n2 \in Nat /\ Longest \in Nat /\ n1 <= Longest /\ n2 <= Longest
           /\ list1 \in Seq(Entry) /\ list2 \in Seq(Entry)
           /\ DOMAIN list1 = 1 .. n1 /\ DOMAIN list2 = 1 .. n2
           /\ end1 \in {NULL, WILD} /\ end2 \in {NULL, WILD}
           /\ NULL # WILD /\ NULL \notin Nat /\ WILD \notin Nat
BY ListMergeAssumption DEF Args, n1, n2

\* A cell is a number and no end of a list.
LEMMA CellIsNat ==
    ASSUME NEW c \in Cell
    PROVE  c \in Nat /\ c # NULL /\ c # WILD
BY ListMergeAssumption DEF Cell

LEMMA SameArgs ==
    ASSUME UNCHANGED args
    PROVE  /\ n1' = n1 /\ n2' = n2 /\ First' = First /\ Second' = Second
           /\ remain' = remain /\ head1' = head1 /\ head2' = head2
           /\ call' = call /\ list1' = list1 /\ list2' = list2 /\ end1' = end1 /\ end2' = end2
           /\ Args => Args'
           /\ \A c : Orig(c)' = Orig(c)
BY DEF args, n1, n2, First, Second, remain, head1, head2, Args, Orig, HeadOf

\* The first pointer of either list.
LEMMA Heads ==
    ASSUME Args
    PROVE  /\ n1 = 0 => head1 = end1
           /\ n1 > 0 => head1 = 1 /\ 1 \in First
           /\ head2 \in Second \cup {end2}
           /\ head2 = IF n2 = 0 THEN end2 ELSE n1 + 1
BY Sizes DEF head1, head2, HeadOf, First, Second

LEMMA ListCells ==
    ASSUME Args
    PROVE  /\ First \subseteq Cell /\ Second \subseteq Cell /\ remain \in Cell
           /\ First \cap Second = {} /\ Cell \subseteq Nat
           /\ \A c \in First : c \in Nat /\ 1 <= c /\ c <= n1
           /\ \A c \in Second : c \in Nat /\ n1 + 1 <= c /\ c <= n1 + n2
           /\ Passed \in 0 .. n2
           /\ \A c \in remain .. remain + Passed + 1 : c \in Cell /\ c \notin First /\ c \notin Second
<1>1. /\ n1 \in Nat /\ n2 \in Nat /\ Longest \in Nat /\ n1 <= Longest /\ n2 <= Longest
      /\ NULL \notin Nat /\ WILD \notin Nat
  BY Sizes
<1>2. First \subseteq Cell /\ Second \subseteq Cell /\ remain \in Cell /\ Cell \subseteq Nat
  BY <1>1 DEF First, Second, remain, Cell
<1>3. Passed \in 0 .. n2
  BY <1>1 DEF Passed, Second
<1>4. \A c \in remain .. remain + Passed + 1 : c \in Cell /\ c \notin First /\ c \notin Second
  BY <1>1, <1>3 DEF First, Second, Cell, remain
<1> QED
  BY <1>1, <1>2, <1>3, <1>4 DEF First, Second

\* The pointers of the path stay on it.
LEMMA OnPath ==
    ASSUME Args, tail \in Nat
    PROVE  /\ Path \subseteq First \cup Second
           /\ PathEnd \in {NULL, WILD}
           /\ \A c \in Path : After(c) \in Path \cup {PathEnd}
           /\ \A c \in Path : /\ After(c) \in Path => c < After(c)
                              /\ \A d \in Path : After(c) \in Path => d <= c \/ After(c) <= d
                              /\ After(c) \notin Path => \A d \in Path : d <= c
<1>1. n1 \in Nat /\ n2 \in Nat /\ end1 \in {NULL, WILD} /\ end2 \in {NULL, WILD}
      /\ NULL \notin Nat /\ WILD \notin Nat
  BY Sizes
<1>2. PathEnd \in {NULL, WILD}
  BY <1>1 DEF PathEnd
<1>3. CASE Linked
  BY <1>1, <1>2, <1>3 DEF Path, First, Second, Linked, After, PathEnd
<1>4. CASE ~Linked
  BY <1>1, <1>2, <1>4 DEF Path, First, Second, Linked, After, PathEnd
<1> QED
  BY <1>2, <1>3, <1>4 DEF Path

LEMMA InitShape ==
    ASSUME Init
    PROVE  ShapeInv
<1>1. Args
  BY DEF Init, Args
<1>2. /\ n1 \in Nat /\ n2 \in Nat /\ Longest \in Nat /\ n1 <= Longest /\ n2 <= Longest
      /\ list1 \in Seq(Entry) /\ list2 \in Seq(Entry)
      /\ DOMAIN list1 = 1 .. n1 /\ DOMAIN list2 = 1 .. n2
      /\ end1 \in {NULL, WILD} /\ end2 \in {NULL, WILD}
      /\ NULL # WILD /\ NULL \notin Nat /\ WILD \notin Nat
  BY <1>1, Sizes
<1>3. tail = remain /\ remain = n1 + n2 + 1 /\ p = remain + 1 /\ value = 0 /\ flag = 1
  BY DEF Init, remain
<1>4. ~Linked /\ Path = First /\ PathEnd = end1
  BY <1>2, <1>3 DEF Linked, Path, PathEnd, Second
<1>5. ptr1 = head1 /\ ptr2 = head2 /\ Passed = 0
  BY <1>1, <1>2, Heads DEF Init, Passed, Second
<1>6. cell \in [Cell -> Entry \cup {Unwritten}]
  <2>1. \A c \in 1 .. n1 : list1[c] \in Entry
    BY <1>2
  <2>2. \A c \in n1 + 1 .. n1 + n2 : list2[c - n1] \in Entry
    BY <1>2
  <2>3. \A c \in Cell : c \in Nat /\ (c <= n1 => c \in 1 .. n1)
    BY <1>2 DEF Cell
  <2>4. cell = [c \in Cell |-> CASE c <= n1 -> list1[c]
                                [] c \in n1 + 1 .. n1 + n2 -> list2[c - n1]
                                [] OTHER -> Unwritten]
    BY DEF Init
  <2>5. \A c \in Cell : (CASE c <= n1 -> list1[c]
                           [] c \in n1 + 1 .. n1 + n2 -> list2[c - n1]
                           [] OTHER -> Unwritten) \in Entry \cup {Unwritten}
    BY <1>2, <2>1, <2>2, <2>3
  <2> QED
    BY <2>4, <2>5
<1>7. /\ next \in [Cell -> Pointer]
      /\ \A c \in First : next[c] = Next1(c)
      /\ \A c \in Second : next[c] = Next2(c)
      /\ next[remain] = remain + 1
  <2>1. next = [c \in Cell |-> CASE c <= n1      -> Next1(c)
                                [] c \in n1 + 1 .. n1 + n2 -> Next2(c)
                                [] c = remain   -> remain + 1
                                [] OTHER        -> WILD]
    BY DEF Init
  <2>2. \A c \in Cell : /\ c <= n1 => Next1(c) \in Pointer
                        /\ c \in n1 + 1 .. n1 + n2 => Next2(c) \in Pointer
                        /\ c = remain => remain + 1 \in Pointer
                        /\ WILD \in Pointer
    BY <1>2, <1>3 DEF Cell, Pointer, Next1, Next2
  <2>3. next \in [Cell -> Pointer]
    BY <2>1, <2>2
  <2> QED
    BY <1>1, <1>2, <1>3, <2>1, <2>3, ListCells DEF First, Second
<1>8. \A c \in First \cup Second : next[c] = After(c)
  BY <1>2, <1>4, <1>7 DEF After, Next1, Next2, First, Second
<1>9. TypeOK
  <2>1. ptr1 \in Pointer /\ ptr2 \in Pointer
    BY <1>1, <1>2, <1>5, Heads, ListCells DEF Pointer
  <2>2. tail \in Cell /\ p \in Cell
    BY <1>2, <1>3 DEF Cell
  <2> QED
    BY <1>3, <1>6, <1>7, <2>1, <2>2 DEF TypeOK, Init
<1>10. Where
  BY <1>1, <1>2, <1>3, <1>4, <1>5, Heads DEF Where, Init
<1>11. Heap
  <2>1. pc = (IF call = "node_merge" THEN "outer" ELSE "run")
    BY DEF Init
  <2>2. Copies
    <3>1. \A c \in remain .. tail : c = remain
      BY <1>2, <1>3
    <3>2. tail \in remain .. remain + Passed
      BY <1>2, <1>3, <1>5
    <3> QED
      BY <1>3, <1>7, <1>8, <2>1, <3>1, <3>2 DEF Copies
  <2>3. call # "node_merge" => Joint
    BY <1>3, <1>8, <2>1 DEF Joint
  <2> QED
    BY <2>2, <2>3 DEF Heap
<1>12. Outcome
  BY <1>3 DEF Outcome, Init
<1> QED
  BY <1>1, <1>9, <1>10, <1>11, <1>12 DEF ShapeInv

LEMMA SamePath ==
    ASSUME UNCHANGED <<args, tail>>
    PROVE  /\ Linked' = Linked /\ Path' = Path /\ PathEnd' = PathEnd
           /\ \A c : After(c)' = After(c)
           /\ ptr2' = ptr2 => Passed' = Passed
           /\ ptr1' = ptr1 => Walked' = Walked
<1>1. n1' = n1 /\ n2' = n2 /\ First' = First /\ Second' = Second /\ end1' = end1 /\ end2' = end2
  BY SameArgs
<1>2. Linked' = Linked /\ tail' = tail
  BY <1>1 DEF Linked
<1>3. Path' = Path /\ PathEnd' = PathEnd
  BY <1>1, <1>2 DEF Path, PathEnd
<1>4. \A c : After(c)' = After(c)
  BY <1>1, <1>2 DEF After
<1>5. ptr2' = ptr2 => Passed' = Passed
  BY <1>1 DEF Passed
<1>6. ptr1' = ptr1 => Walked' = Walked
  BY <1>3 DEF Walked
<1> QED
  BY <1>2, <1>3, <1>4, <1>5, <1>6

\* node_merge links nothing to the first list while a loop runs.
LEMMA NodePath ==
    ASSUME Args, call = "node_merge", Copies
    PROVE  ~Linked /\ Path = First /\ PathEnd = end1 /\ tail \in Nat /\ tail \notin Second
<1>1. n1 \in Nat /\ n2 \in Nat /\ Passed \in 0 .. n2 /\ tail \in remain .. remain + Passed
  BY Sizes, ListCells DEF Copies
<1>2. tail \notin Second /\ tail \in Nat
  BY <1>1 DEF Second, remain
<1> QED
  BY <1>2 DEF Linked, Path, PathEnd

\* The facts about a state that every step starts from.
LEMMA Facts ==
    ASSUME ShapeInv
    PROVE  /\ Args /\ TypeOK /\ Where /\ Heap /\ Outcome
           /\ n1 \in Nat /\ n2 \in Nat /\ tail \in Cell /\ tail \in Nat
           /\ end1 \in {NULL, WILD} /\ end2 \in {NULL, WILD}
           /\ NULL # WILD /\ NULL \notin Cell /\ WILD \notin Cell
           /\ First \subseteq Cell /\ Second \subseteq Cell
           /\ Path \subseteq Cell /\ PathEnd \in {NULL, WILD} /\ First \subseteq Path
           /\ call = "node_merge" => Path = First /\ PathEnd = end1
           /\ ptr2 \in Cell => ptr2 \in Second
           /\ ptr2 \notin Cell => ptr2 = end2
           /\ pc \in {"run", "inner"} /\ ptr1 \in Cell => ptr1 \in Path
           /\ pc \in {"run", "inner"} /\ ptr1 \notin Cell => ptr1 = PathEnd
<1>1. Args /\ TypeOK /\ Where /\ Heap /\ Outcome
  BY DEF ShapeInv
<1>2. tail \in Cell /\ tail \in Nat
  BY <1>1, CellIsNat DEF TypeOK
<1>3. /\ n1 \in Nat /\ n2 \in Nat /\ end1 \in {NULL, WILD} /\ end2 \in {NULL, WILD}
      /\ NULL # WILD /\ NULL \notin Cell /\ WILD \notin Cell
  BY <1>1, Sizes, CellIsNat
<1>4. First \subseteq Cell /\ Second \subseteq Cell
  BY <1>1, ListCells
<1>5. Path \subseteq Cell /\ PathEnd \in {NULL, WILD} /\ First \subseteq Path
  BY <1>1, <1>2, <1>4, OnPath DEF Path
<1>6. call = "node_merge" => Path = First /\ PathEnd = end1
  BY <1>1, NodePath DEF Heap
<1>7. /\ ptr2 \in Cell => ptr2 \in Second
      /\ ptr2 \notin Cell => ptr2 = end2
  BY <1>1, <1>3, <1>4 DEF Where
<1>8. /\ pc \in {"run", "inner"} /\ ptr1 \in Cell => ptr1 \in Path
      /\ pc \in {"run", "inner"} /\ ptr1 \notin Cell => ptr1 = PathEnd
  BY <1>1, <1>3, <1>5 DEF Where
<1> QED
  BY <1>1, <1>2, <1>3, <1>4, <1>5, <1>6, <1>7, <1>8

LEMMA OuterShape ==
    ASSUME ShapeInv, Outer
    PROVE  ShapeInv'
<1>1. /\ Args /\ TypeOK /\ Where /\ Heap /\ Outcome
      /\ n1 \in Nat /\ end2 \in {NULL, WILD} /\ NULL # WILD /\ NULL \notin Cell /\ WILD \notin Cell
      /\ ptr2 \in Cell => ptr2 \in Second
      /\ ptr2 \notin Cell => ptr2 = end2
      /\ First \subseteq Path /\ First \subseteq Cell /\ tail \in Nat
      /\ end1 \in {NULL, WILD}
      /\ call = "node_merge" => Path = First /\ PathEnd = end1
  BY Facts
<1>2. /\ pc = "outer" /\ ptr1' = head1 /\ flag' \in {flag, 1}
      /\ UNCHANGED <<args, cell, next, ptr2, tail, p>>
      /\ UNCHANGED <<args, tail>> /\ UNCHANGED args
  BY DEF Outer, Here, Goto
<1>3. /\ Args' /\ n1' = n1 /\ First' = First /\ Second' = Second /\ remain' = remain
      /\ call' = call /\ end1' = end1 /\ end2' = end2
  BY <1>1, <1>2, SameArgs
<1>4. /\ Linked' = Linked /\ Path' = Path /\ PathEnd' = PathEnd
      /\ (\A c : After(c)' = After(c)) /\ Passed' = Passed
  BY <1>2, SamePath
<1>5. \/ call = "node_merge" /\ ptr2 = NULL /\ pc' = "run" /\ value' = 0
      \/ call = "ip_list_merge" /\ ptr2 = NULL /\ pc' = "returned" /\ value' = 1
      \/ ptr2 \in Cell /\ pc' = "inner" /\ value' = value
      \/ ptr2 = WILD /\ pc' = "crashed" /\ value' = value
  BY <1>1, <1>2 DEF Outer, Goto, InCell, Args
<1>6. value \in {0, 1}
  BY <1>1, <1>2 DEF Outcome, TypeOK
<1>7. head1 \in Path \cup {PathEnd} /\ (head1 = NULL => n1 = 0)
  <2>1. CASE n1 > 0
    BY <1>1, <2>1, Heads
  <2>2. CASE n1 = 0
    <3>1. call = "node_merge"
      BY <1>1, <1>2, <2>2 DEF Heap, Joint, Args
    <3> QED
      BY <1>1, <2>2, <3>1, Heads
  <2> QED
    BY <1>1, <2>1, <2>2
<1>8. TypeOK'
  <2>1. ptr1' \in Pointer
    BY <1>1, <1>2, Heads DEF Pointer
  <2> QED
    BY <1>1, <1>2, <1>5, <1>6, <2>1 DEF TypeOK
<1>9. Where'
  <2>1. pc' = "inner" => Walked' = {}
    <3>1. n1 > 0 => head1 = 1
      BY <1>1, Heads
    <3>2. n1 = 0 => Path = {}
      <4>1. n1 = 0 => call = "node_merge"
        BY <1>1, <1>2 DEF Heap, Joint, Args
      <4> QED
        BY <1>1, <4>1 DEF First
    <3>3. \A c \in Path : c \in Nat /\ c >= 1
      BY <1>1, OnPath, ListCells
    <3>4. n1 > 0 => head1 \in Path
      BY <1>1, Heads
    <3>5. Walked' = {c \in Path : head1 \in Path => c < head1}
      BY <1>2, <1>4 DEF Walked
    <3> QED
      BY <1>1, <3>1, <3>2, <3>3, <3>4, <3>5
  <2> QED
    BY <1>1, <1>2, <1>3, <1>4, <1>5, <1>7, <2>1 DEF Where
<1>10. Heap'
  <2>1. CASE call = "node_merge"
    <3>1. Copies
      BY <1>1, <2>1 DEF Heap
    <3>2. Copies'
      BY <1>2, <1>3, <1>4, <1>5, <2>1, <3>1 DEF Copies
    <3> QED
      BY <1>3, <2>1, <3>2 DEF Heap
  <2>2. CASE call # "node_merge"
    <3>1. Joint
      BY <1>1, <2>2 DEF Heap
    <3>2. Joint'
      BY <1>2, <1>3, <1>4, <1>5, <2>2, <3>1 DEF Joint
    <3> QED
      BY <1>3, <2>2, <3>2 DEF Heap
  <2> QED
    BY <2>1, <2>2
<1>11. Outcome'
  <2>1. pc' = "returned" => call = "ip_list_merge"
    BY <1>5
  <2>2. pc' = "returned" => n1 > 0 /\ end1 = NULL
    BY <1>1, <1>2, <2>1 DEF Heap, Joint
  <2> QED
    BY <1>1, <1>2, <1>3, <1>5, <1>6, <2>2 DEF Outcome
<1> QED
  BY <1>3, <1>8, <1>9, <1>10, <1>11 DEF ShapeInv

LEMMA FollowsNothingShape ==
    ASSUME ShapeInv, FollowsNothing
    PROVE  ShapeInv'
<1>1. /\ Args /\ TypeOK /\ Where /\ Heap /\ Outcome
      /\ end1 \in {NULL, WILD} /\ end2 \in {NULL, WILD} /\ NULL # WILD /\ WILD \notin Cell
      /\ pc \in {"run", "inner"} /\ ptr1 \notin Cell => ptr1 = PathEnd
  BY Facts
<1>2. /\ pc \in {"run", "inner"} /\ pc' = "crashed"
      /\ UNCHANGED <<args, cell, next, ptr1, ptr2, flag, tail, p, value>>
      /\ UNCHANGED <<args, tail>> /\ UNCHANGED args
      /\ ptr1 \notin Cell /\ (pc = "inner" => ptr1 = WILD)
  BY <1>1 DEF FollowsNothing, Crash, Here, Goto, InCell
<1>3. /\ Args' /\ n1' = n1 /\ First' = First /\ Second' = Second /\ remain' = remain
      /\ call' = call /\ end1' = end1 /\ end2' = end2
  BY <1>1, <1>2, SameArgs
<1>4. /\ Linked' = Linked /\ Path' = Path /\ PathEnd' = PathEnd
      /\ (\A c : After(c)' = After(c)) /\ Passed' = Passed
  BY <1>2, SamePath
<1>5. TypeOK' /\ Where'
  BY <1>1, <1>2, <1>3, <1>4 DEF TypeOK, Where
<1>6. Copies => Copies'
  BY <1>2, <1>3, <1>4 DEF Copies
<1>7. Joint => Joint'
  BY <1>2, <1>3, <1>4 DEF Joint
<1>8. Outcome'
  <2>1. ptr1 = WILD => end1 = WILD \/ end2 = WILD
    BY <1>1, <1>2 DEF PathEnd
  <2>2. ptr1 = NULL => n1 = 0
    BY <1>1, <1>2 DEF Where
  <2>3. ptr1 \in {NULL, WILD}
    BY <1>1, <1>2 DEF PathEnd
  <2> QED
    BY <1>1, <1>2, <1>3, <2>1, <2>2, <2>3 DEF Outcome
<1> QED
  BY <1>1, <1>3, <1>5, <1>6, <1>7, <1>8 DEF ShapeInv, Heap

\* The first list is run through before anything is linked to it.
LEMMA RunFacts ==
    ASSUME ShapeInv, Run
    PROVE  /\ pc = "run" /\ ptr1 \in First /\ ~Linked /\ Path = First /\ PathEnd = end1
           /\ \A c \in First \cup Second : next[c] = After(c)
           /\ n1 > 0 /\ n1 \in First
           /\ AtEnd => ptr1 = n1 /\ end1 = NULL
<1>1. /\ Args /\ TypeOK /\ Where /\ Heap /\ n1 \in Nat /\ n2 \in Nat
      /\ NULL \notin Nat
      /\ pc \in {"run", "inner"} /\ ptr1 \in Cell => ptr1 \in Path
      /\ call = "node_merge" => Path = First /\ PathEnd = end1
  BY Facts, Sizes
<1>2. pc = "run" /\ ptr1 \in Path
  BY <1>1 DEF Run, Here, InCell
<1>3. ~Linked
  <2>1. CASE call = "node_merge"
    BY <1>1, <2>1, NodePath DEF Heap
  <2>2. CASE call # "node_merge"
    <3>1. tail = remain
      BY <1>1, <1>2, <2>2 DEF Heap, Joint
    <3> QED
      BY <1>1, <3>1 DEF Linked, Second, remain
  <2> QED
    BY <2>1, <2>2
<1>4. Path = First /\ PathEnd = end1
  BY <1>3 DEF Path, PathEnd
<1>5. \A c \in First \cup Second : next[c] = After(c)
  BY <1>1, <1>2 DEF Heap, Copies, Joint
<1>6. n1 > 0 /\ n1 \in First
  BY <1>1, <1>2, <1>4 DEF First
<1>7. AtEnd => ptr1 = n1 /\ end1 = NULL
  <2>1. next[ptr1] = After(ptr1)
    BY <1>2, <1>4, <1>5
  <2>2. ptr1 # n1 => After(ptr1) \in Nat
    BY <1>1, <1>2, <1>4 DEF After, First, Second
  <2> QED
    BY <1>1, <1>3, <2>1, <2>2 DEF AtEnd, After
<1> QED
  BY <1>2, <1>3, <1>4, <1>5, <1>6, <1>7

LEMMA RunShape ==
    ASSUME ShapeInv, Run
    PROVE  ShapeInv'
<1>1. /\ Args /\ TypeOK /\ Where /\ Heap /\ Outcome /\ n1 \in Nat /\ n2 \in Nat
      /\ NULL \notin Cell /\ tail \in Nat /\ First \subseteq Cell
      /\ end1 \in {NULL, WILD} /\ end2 \in {NULL, WILD} /\ NULL # WILD
  BY Facts
<1>2. /\ pc = "run" /\ ptr1 \in First /\ ~Linked /\ Path = First /\ PathEnd = end1
      /\ \A c \in First \cup Second : next[c] = After(c)
      /\ n1 > 0 /\ n1 \in First
      /\ AtEnd => ptr1 = n1 /\ end1 = NULL
  BY RunFacts
<1>3. UNCHANGED args /\ UNCHANGED <<args, cell, ptr2, flag, p, value>>
  BY DEF Run
<1>4. /\ Args' /\ n1' = n1 /\ n2' = n2 /\ First' = First /\ Second' = Second /\ remain' = remain
      /\ call' = call /\ end1' = end1 /\ end2' = end2
  BY <1>1, <1>3, SameArgs
<1>5. Passed' = Passed
  BY <1>3, <1>4 DEF Passed
<1>6. value \in {0, 1} /\ (call = "node_merge" => value = 0 /\ ptr2 = NULL)
  BY <1>1, <1>2 DEF Outcome, TypeOK, Heap, Copies, Where
<1>7. CASE ~AtEnd /\ ptr1' = next[ptr1] /\ UNCHANGED <<tail, pc, next>>
  <2>1. UNCHANGED <<args, tail>>
    BY <1>3, <1>7
  <2>2. Linked' = Linked /\ Path' = Path /\ PathEnd' = PathEnd /\ (\A c : After(c)' = After(c))
    BY <2>1, SamePath
  <2>3. ptr1' \in Path \cup {PathEnd} /\ ptr1' # NULL
    BY <1>1, <1>2, <1>7, OnPath DEF AtEnd
  <2>4. TypeOK'
    <3>1. ptr1' \in Pointer
      BY <1>1, <1>7, <1>2, <2>3 DEF Pointer
    <3> QED
      BY <1>1, <1>3, <1>7, <3>1 DEF TypeOK
  <2>5. Where'
    BY <1>1, <1>2, <1>3, <1>4, <1>7, <2>2, <2>3 DEF Where
  <2>6. Copies => Copies'
    BY <1>2, <1>3, <1>4, <1>5, <1>7, <2>2 DEF Copies
  <2>7. Joint => Joint'
    BY <1>2, <1>3, <1>4, <1>5, <1>7, <2>2 DEF Joint
  <2>8. Outcome'
    BY <1>2, <1>3, <1>6, <1>7 DEF Outcome
  <2> QED
    BY <1>1, <1>4, <2>4, <2>5, <2>6, <2>7, <2>8 DEF ShapeInv, Heap
<1>8. CASE AtEnd /\ call = "node_merge" /\ next' = LinkCopies /\ pc' = "returned"
           /\ UNCHANGED <<ptr1, tail>>
  <2>1. UNCHANGED <<args, tail>>
    BY <1>3, <1>8
  <2>2. Linked' = Linked /\ Path' = Path /\ PathEnd' = PathEnd /\ (\A c : After(c)' = After(c))
    BY <2>1, SamePath
  <2>3. /\ tail \in remain .. remain + Passed /\ p = tail + 1 /\ value = 0
        /\ \A c \in remain .. tail : next[c] = c + 1
    BY <1>1, <1>2, <1>8 DEF Heap, Copies
  <2>4. Passed \in 0 .. n2 /\ tail \in Cell /\ remain = n1 + n2 + 1
        /\ next \in [Cell -> Pointer] /\ remain \in Cell
        /\ ptr1 = n1 /\ end1 = NULL
    BY <1>1, <1>2, <1>8, ListCells DEF TypeOK, remain
  <2>5. /\ next' \in [Cell -> Pointer]
        /\ next'[n1] = (IF tail = remain THEN NULL ELSE next[remain])
        /\ next'[tail] = NULL
        /\ \A c \in Cell : c # n1 /\ c # tail => next'[c] = next[c]
    <3>1. n1 # tail /\ n1 \in Cell
      BY <1>1, <1>2, <2>3, <2>4
    <3>2. next[remain] \in Pointer /\ NULL \in Pointer
      BY <2>4 DEF Pointer
    <3> QED
      BY <1>8, <2>4, <3>1, <3>2 DEF LinkCopies
  <2>6. TypeOK'
    BY <1>1, <1>3, <1>8, <2>5 DEF TypeOK
  <2>7. Where'
    BY <1>1, <1>3, <1>4, <1>8, <2>2 DEF Where
  <2>8. Copies'
    <3>1. \A c \in 1 .. n1 - 1 : next'[c] = c + 1
      <4>1. \A c \in 1 .. n1 - 1 : c \in First /\ c # n1 /\ c # tail /\ After(c) = c + 1
        <5> SUFFICES ASSUME NEW c \in 1 .. n1 - 1
                     PROVE  c \in First /\ c # n1 /\ c # tail /\ After(c) = c + 1
          OBVIOUS
        <5>1. tail \in Nat /\ tail >= remain
          BY <1>1, <2>3, <2>4
        <5>2. c \in First /\ c # n1 /\ c # tail /\ c # n1 + n2
          BY <1>1, <2>4, <5>1 DEF First
        <5> QED
          BY <5>2 DEF After
      <4> QED
        BY <1>1, <1>2, <2>5, <4>1
    <3>2. \A c \in remain + 1 .. tail - 1 : next'[c] = c + 1
      <4>1. \A c \in remain + 1 .. tail - 1 :
              c \in remain .. tail /\ c # n1 /\ c # tail /\ c \in remain .. remain + Passed + 1
        BY <1>1, <2>3, <2>4
      <4>2. \A c \in remain + 1 .. tail - 1 : c \in Cell
        BY <1>1, <4>1, ListCells
      <4> QED
        BY <2>3, <2>5, <4>1, <4>2
    <3>3. next'[n1] = IF tail = remain THEN NULL ELSE remain + 1
      BY <1>1, <2>3, <2>4, <2>5
    <3> QED
      BY <1>3, <1>4, <1>5, <1>8, <2>3, <2>5, <3>1, <3>2, <3>3 DEF Copies
  <2>9. Outcome'
    BY <1>2, <1>3, <1>4, <1>6, <1>8 DEF Outcome
  <2> QED
    BY <1>4, <1>8, <2>6, <2>7, <2>8, <2>9 DEF ShapeInv, Heap
<1>9. CASE AtEnd /\ call = "ip_list_merge" /\ tail' = ptr1 /\ pc' = "outer"
           /\ UNCHANGED <<ptr1, next>>
  <2>1. tail' = n1 /\ end1 = NULL /\ ~Linked'
    BY <1>1, <1>2, <1>4, <1>9 DEF Linked, Second
  <2>2. \A c \in First \cup Second : After(c)' = After(c)
    BY <1>2, <1>4, <2>1 DEF After
  <2>3. TypeOK'
    BY <1>1, <1>2, <1>3, <1>9 DEF TypeOK
  <2>4. Where'
    BY <1>1, <1>3, <1>4, <1>9 DEF Where
  <2>5. Joint'
    BY <1>2, <1>3, <1>4, <1>9, <2>1, <2>2 DEF Joint
  <2>6. Outcome'
    BY <1>3, <1>6, <1>9 DEF Outcome
  <2> QED
    BY <1>4, <1>9, <2>3, <2>4, <2>5, <2>6 DEF ShapeInv, Heap
<1> QED
  BY <1>7, <1>8, <1>9 DEF Run, Goto

\* A turn of the inner loop goes on to the next cell of the path.
LEMMA InnerFacts ==
    ASSUME ShapeInv, Inner
    PROVE  /\ pc = "inner" /\ ptr1 \in Path /\ ptr2 \in Second
           /\ \A c \in First \cup Second : next[c] = After(c)
           /\ UNCHANGED args /\ UNCHANGED <<args, tail>> /\ UNCHANGED <<next, ptr2, tail, p>>
           /\ Path' = Path /\ PathEnd' = PathEnd /\ Passed' = Passed
           /\ ~Conflict => /\ pc' = "inner" /\ value' = value
                           /\ ptr1' \in Path \cup {PathEnd}
                           /\ Walked' = Walked \cup {ptr1}
<1>1. /\ Args /\ TypeOK /\ Where /\ Heap /\ tail \in Nat
      /\ NULL \notin Cell /\ WILD \notin Cell /\ Path \subseteq Cell
      /\ PathEnd \in {NULL, WILD}
      /\ pc \in {"run", "inner"} /\ ptr1 \in Cell => ptr1 \in Path
  BY Facts
<1>2. pc = "inner" /\ ptr1 \in Path /\ ptr2 \in Second
  BY <1>1 DEF Inner, Here, InCell, Where
<1>3. \A c \in First \cup Second : next[c] = After(c)
  BY <1>1, <1>2 DEF Heap, Copies, Joint
<1>4. UNCHANGED args /\ UNCHANGED <<args, tail>> /\ UNCHANGED <<next, ptr2, tail, p>>
  BY DEF Inner
<1>5. Path' = Path /\ PathEnd' = PathEnd /\ Passed' = Passed
  BY <1>4, SamePath
<1>6. ASSUME ~Conflict
      PROVE  /\ pc' = "inner" /\ value' = value
             /\ ptr1' \in Path \cup {PathEnd}
             /\ Walked' = Walked \cup {ptr1}
  <2>1. ptr1' = next[ptr1] /\ UNCHANGED <<pc, value>>
    BY <1>6 DEF Inner
  <2>2. ptr1' = After(ptr1)
    BY <1>1, <1>2, <1>3, <2>1, OnPath
  <2>3. /\ ptr1' \in Path \cup {PathEnd}
        /\ ptr1' \in Path => ptr1 < ptr1'
        /\ \A d \in Path : ptr1' \in Path => d <= ptr1 \/ ptr1' <= d
        /\ ptr1' \notin Path => \A d \in Path : d <= ptr1
    BY <1>1, <1>2, <2>2, OnPath
  <2>4. Walked' = {c \in Path : ptr1' \in Path => c < ptr1'}
    BY <1>5 DEF Walked
  <2>5. Path \subseteq Nat
    BY <1>1, CellIsNat
  <2>6. Walked' = Walked \cup {ptr1}
    <3>1. \A c \in Path : c \in Walked <=> c < ptr1
      BY <1>2 DEF Walked
    <3>2. \A c \in Path : c \in Walked' <=> c <= ptr1
      <4>1. CASE ptr1' \in Path
        BY <1>2, <2>3, <2>4, <2>5, <4>1
      <4>2. CASE ptr1' \notin Path
        BY <2>3, <2>4, <4>2
      <4> QED
        BY <4>1, <4>2
    <3>3. \A c \in Path : c <= ptr1 <=> c < ptr1 \/ c = ptr1
      BY <1>2, <2>5
    <3>4. Walked \subseteq Path /\ Walked' \subseteq Path
      BY <2>4 DEF Walked
    <3> QED
      BY <1>2, <3>1, <3>2, <3>3, <3>4
  <2> QED
    BY <1>2, <2>1, <2>3, <2>6
<1> QED
  BY <1>2, <1>3, <1>4, <1>5, <1>6

LEMMA InnerShape ==
    ASSUME ShapeInv, Inner
    PROVE  ShapeInv'
<1>1. /\ Args /\ TypeOK /\ Where /\ Heap /\ Outcome /\ tail \in Nat
      /\ NULL \notin Cell /\ WILD \notin Cell /\ Path \subseteq Cell /\ Second \subseteq Cell
      /\ PathEnd \in {NULL, WILD}
  BY Facts
<1>2. /\ pc = "inner" /\ ptr1 \in Path /\ ptr2 \in Second
      /\ UNCHANGED args /\ UNCHANGED <<args, tail>> /\ UNCHANGED <<next, ptr2, tail, p>>
      /\ Path' = Path /\ PathEnd' = PathEnd /\ Passed' = Passed
      /\ ~Conflict => /\ pc' = "inner" /\ value' = value
                      /\ ptr1' \in Path \cup {PathEnd}
                      /\ Walked' = Walked \cup {ptr1}
  BY InnerFacts
<1>3. /\ Args' /\ n1' = n1 /\ n2' = n2 /\ First' = First /\ Second' = Second /\ remain' = remain
      /\ call' = call /\ end1' = end1 /\ end2' = end2
  BY <1>1, <1>2, SameArgs
<1>4. \A c : After(c)' = After(c)
  BY <1>2, SamePath
<1>5. /\ flag' = (IF Same THEN 0 ELSE flag)
      /\ cell' = (IF Same /\ Greater THEN [cell EXCEPT ![ptr1] = cell[ptr2]] ELSE cell)
  BY DEF Inner
<1>6. cell' \in [Cell -> Entry \cup {Unwritten}] /\ flag' \in {0, 1}
  BY <1>1, <1>2, <1>5 DEF TypeOK
<1>7. CASE Conflict
  <2>1. pc' = "returned" /\ value' = -1 /\ ptr1' = ptr1 /\ call = "ip_list_merge"
    BY <1>7 DEF Inner, Goto, Conflict
  <2>2. TypeOK' /\ Where'
    BY <1>1, <1>2, <1>3, <1>6, <2>1 DEF TypeOK, Where
  <2>3. Joint'
    BY <1>1, <1>2, <1>3, <1>4, <2>1 DEF Heap, Joint
  <2>4. Outcome'
    BY <2>1 DEF Outcome
  <2> QED
    BY <1>3, <2>1, <2>2, <2>3, <2>4 DEF ShapeInv, Heap
<1>8. CASE ~Conflict
  <2>1. /\ pc' = "inner" /\ value' = value
        /\ ptr1' \in Path \cup {PathEnd}
        /\ Walked' = Walked \cup {ptr1}
    BY <1>2, <1>8
  <2>2. TypeOK'
    <3>1. ptr1' \in Pointer
      BY <1>1, <2>1 DEF Pointer
    <3> QED
      BY <1>1, <1>2, <1>6, <2>1, <3>1 DEF TypeOK
  <2>3. ptr2' \in Walked' => flag' = 0
    <3>1. ptr2 \in Walked => flag = 0
      BY <1>1, <1>2 DEF Where
    <3>2. ptr2 = ptr1 => flag' = 0
      BY <1>5 DEF Same
    <3> QED
      BY <1>2, <1>5, <2>1, <3>1, <3>2
  <2>4. Where'
    BY <1>2, <1>3, <2>1, <2>3 DEF Where
  <2>5. Copies => Copies'
    BY <1>2, <1>3, <1>4, <2>1 DEF Copies
  <2>6. Joint => Joint'
    BY <1>2, <1>3, <1>4, <2>1 DEF Joint
  <2>7. Outcome'
    BY <1>1, <1>2, <2>1 DEF Outcome
  <2> QED
    BY <1>1, <1>3, <2>2, <2>4, <2>5, <2>6, <2>7 DEF ShapeInv, Heap
<1> QED
  BY <1>7, <1>8

\* The inner loop has walked over the whole path; a cell that is linked is the
\* first.
LEMMA AddFacts ==
    ASSUME ShapeInv, Add
    PROVE  /\ pc = "inner" /\ pc' = "outer" /\ ptr2 \in Second
           /\ Walked = Path /\ PathEnd = NULL
           /\ Passed = ptr2 - n1 - 1 /\ Passed + 1 \in 1 .. n2 /\ Passed \in Nat
           /\ UNCHANGED args /\ UNCHANGED <<ptr1, flag, value>>
           /\ \A c \in First \cup Second : next[c] = After(c)
           /\ \/ flag = 0 /\ UNCHANGED <<cell, next, tail, p>>
              \/ /\ flag = 1 /\ call = "node_merge" /\ p \in Cell
                 /\ p \in remain .. remain + Passed + 1 /\ p \notin First /\ p \notin Second
                 /\ cell' = [cell EXCEPT ![p] = cell[ptr2]]
                 /\ next' = [next EXCEPT ![p] = p + 1]
                 /\ p' = p + 1 /\ tail' = p
              \/ /\ flag = 1 /\ call = "ip_list_merge"
                 /\ tail = n1 /\ n1 > 0 /\ ~Linked /\ ptr2 \notin Path
                 /\ next' = [next EXCEPT ![n1] = ptr2]
                 /\ tail' = ptr2 /\ UNCHANGED <<cell, p>>
           /\ ptr2' \in Second \cup {end2} /\ Passed' = Passed + 1
<1>1. /\ Args /\ TypeOK /\ Where /\ Heap /\ tail \in Nat /\ tail \in Cell
      /\ n1 \in Nat /\ n2 \in Nat /\ end2 \in {NULL, WILD}
      /\ NULL \notin Cell /\ WILD \notin Cell /\ Path \subseteq Cell /\ Second \subseteq Cell
      /\ First \subseteq Cell
      /\ pc \in {"run", "inner"} /\ ptr1 \notin Cell => ptr1 = PathEnd
  BY Facts
<1>2. /\ pc = "inner" /\ pc' = "outer" /\ ptr1 = NULL
      /\ UNCHANGED args /\ UNCHANGED <<ptr1, flag, value>>
      /\ ptr2' = next'[ptr2]
  BY DEF Add, Here, Goto, NextEntry
<1>3. ptr2 \in Second /\ PathEnd = NULL /\ ptr1 \notin Path
  BY <1>1, <1>2 DEF Where
<1>4. Walked = Path
  BY <1>3 DEF Walked
<1>5. Passed = ptr2 - n1 - 1 /\ Passed + 1 \in 1 .. n2 /\ Passed \in Nat
  BY <1>1, <1>3 DEF Passed, Second
<1>6. \A c \in First \cup Second : next[c] = After(c)
  BY <1>1, <1>2 DEF Heap, Copies, Joint
<1>7. n1' = n1 /\ n2' = n2 /\ Second' = Second /\ end2' = end2
  BY <1>2, SameArgs
<1>8. ASSUME call = "node_merge"
      PROVE  /\ p \in Cell /\ p \in remain .. remain + Passed + 1
             /\ p \notin First /\ p \notin Second /\ next[tail] = p
  <2>1. /\ tail \in remain .. remain + Passed /\ p = tail + 1
        /\ \A c \in remain .. tail : next[c] = c + 1
    BY <1>1, <1>2, <1>8 DEF Heap, Copies
  <2>2. remain \in Nat
    BY <1>1 DEF remain
  <2>3. p \in remain .. remain + Passed + 1
    BY <1>5, <2>1, <2>2
  <2> QED
    BY <1>1, <2>1, <2>2, <2>3, ListCells
<1>9. ASSUME call = "ip_list_merge", flag = 1
      PROVE  tail = n1 /\ n1 > 0 /\ ~Linked /\ ptr2 \notin Path
  <2>1. ptr2 \notin Path
    BY <1>1, <1>2, <1>3, <1>4, <1>9 DEF Where
  <2>2. n1 > 0 /\ (tail = n1 \/ tail \in n1 + 1 .. n1 + Passed)
    BY <1>1, <1>2, <1>9 DEF Heap, Joint
  <2>3. ~Linked
    <3>1. SUFFICES ASSUME Linked
                   PROVE  FALSE
      OBVIOUS
    <3>2. tail # n1
      BY <1>1, <3>1 DEF Linked, Second
    <3>3. tail <= n1 + Passed
      BY <1>1, <1>5, <2>2, <3>2
    <3>4. ptr2 >= tail
      BY <1>1, <1>3, <1>5, <3>3 DEF Second
    <3> QED
      BY <1>3, <2>1, <3>1, <3>4 DEF Path
  <2>4. tail = n1
    BY <1>1, <1>5, <2>2, <2>3 DEF Linked, Second
  <2> QED
    BY <2>1, <2>2, <2>3, <2>4
<1>10. \/ flag = 0 /\ UNCHANGED <<cell, next, tail, p>>
       \/ /\ flag = 1 /\ call = "node_merge" /\ p \in Cell
          /\ p \in remain .. remain + Passed + 1 /\ p \notin First /\ p \notin Second
          /\ cell' = [cell EXCEPT ![p] = cell[ptr2]]
          /\ next' = [next EXCEPT ![p] = p + 1]
          /\ p' = p + 1 /\ tail' = p
       \/ /\ flag = 1 /\ call = "ip_list_merge"
          /\ tail = n1 /\ n1 > 0 /\ ~Linked /\ ptr2 \notin Path
          /\ next' = [next EXCEPT ![n1] = ptr2]
          /\ tail' = ptr2 /\ UNCHANGED <<cell, p>>
  BY <1>8, <1>9 DEF Add
<1>11. next'[ptr2] = next[ptr2]
  <2>1. next \in [Cell -> Pointer] /\ ptr2 \in Cell /\ ptr2 # n1
    BY <1>1, <1>3 DEF TypeOK, Second
  <2> QED
    BY <1>3, <1>10, <2>1
<1>12. /\ ptr2' = IF ptr2 = n1 + n2 THEN end2 ELSE ptr2 + 1
       /\ end2 \notin Second
  BY <1>1, <1>2, <1>3, <1>6, <1>11 DEF After, Second
<1>13. ptr2' \in Second \cup {end2} /\ Passed' = Passed + 1
  <2>1. CASE ptr2 = n1 + n2
    BY <1>1, <1>5, <1>7, <1>12, <2>1 DEF Passed
  <2>2. CASE ptr2 # n1 + n2
    <3>1. ptr2 + 1 \in Second
      BY <1>1, <1>3, <2>2 DEF Second
    <3> QED
      BY <1>1, <1>3, <1>5, <1>7, <1>12, <2>2, <3>1 DEF Passed, Second
  <2> QED
    BY <2>1, <2>2
<1> QED
  BY <1>2, <1>3, <1>4, <1>5, <1>6, <1>10, <1>13

LEMMA AddShape ==
    ASSUME ShapeInv, Add
    PROVE  ShapeInv'
<1>1. /\ Args /\ TypeOK /\ Where /\ Heap /\ Outcome /\ tail \in Nat /\ tail \in Cell
      /\ n1 \in Nat /\ n2 \in Nat /\ end2 \in {NULL, WILD}
      /\ NULL \notin Cell /\ WILD \notin Cell /\ Second \subseteq Cell /\ First \subseteq Cell
  BY Facts
<1>2. /\ pc = "inner" /\ pc' = "outer" /\ ptr2 \in Second
      /\ Passed = ptr2 - n1 - 1 /\ Passed + 1 \in 1 .. n2 /\ Passed \in Nat
      /\ UNCHANGED args /\ UNCHANGED <<ptr1, flag, value>>
      /\ \A c \in First \cup Second : next[c] = After(c)
      /\ ptr2' \in Second \cup {end2} /\ Passed' = Passed + 1
  BY AddFacts
<1>3. /\ Args' /\ n1' = n1 /\ n2' = n2 /\ First' = First /\ Second' = Second /\ remain' = remain
      /\ call' = call /\ end1' = end1 /\ end2' = end2
  BY <1>1, <1>2, SameArgs
<1>4. ptr2' \in Pointer
  BY <1>1, <1>2 DEF Pointer
<1>5. Where' /\ Outcome'
  <2>1. value # -1
    BY <1>1, <1>2 DEF Outcome
  <2> QED
    BY <1>2, <1>3, <2>1 DEF Where, Outcome
<1>6. CASE flag = 0 /\ UNCHANGED <<cell, next, tail, p>>
  <2>1. TypeOK'
    BY <1>1, <1>2, <1>4, <1>6 DEF TypeOK
  <2>2. \A c : After(c)' = After(c)
    <3>1. UNCHANGED <<args, tail>>
      BY <1>2, <1>6
    <3> QED
      BY <3>1, SamePath
  <2>3. Copies => Copies'
    <3>1. tail \in remain .. remain + Passed => tail \in remain .. remain + (Passed + 1)
      <4>1. remain \in Nat
        BY <1>1 DEF remain
      <4> QED
        BY <1>1, <1>2, <4>1
    <3> QED
      BY <1>2, <1>3, <1>6, <2>2, <3>1 DEF Copies
  <2>4. Joint => Joint'
    <3>1. tail \in n1 + 1 .. n1 + Passed => tail \in n1 + 1 .. n1 + (Passed + 1)
      BY <1>1, <1>2
    <3> QED
      BY <1>2, <1>3, <1>6, <2>2, <3>1 DEF Joint
  <2> QED
    BY <1>1, <1>3, <1>5, <2>1, <2>3, <2>4 DEF ShapeInv, Heap
<1>7. CASE /\ flag = 1 /\ call = "node_merge" /\ p \in Cell
           /\ p \in remain .. remain + Passed + 1 /\ p \notin First /\ p \notin Second
           /\ cell' = [cell EXCEPT ![p] = cell[ptr2]]
           /\ next' = [next EXCEPT ![p] = p + 1]
           /\ p' = p + 1 /\ tail' = p
  <2>1. Copies /\ remain \in Nat
    BY <1>1, <1>7 DEF Heap, remain
  <2>2. tail \in remain .. remain + Passed /\ p = tail + 1
    BY <2>1 DEF Copies
  <2>3. p + 1 \in Cell
    <3>1. Longest \in Nat /\ n1 <= Longest /\ n2 <= Longest
      BY <1>1, Sizes
    <3>2. p + 1 <= n1 + n2 + 1 + n2 + 1
      BY <1>1, <1>2, <2>1, <2>2 DEF remain
    <3>3. p + 1 >= 1 /\ p + 1 \in Int
      BY <2>1, <2>2
    <3> QED
      BY <1>1, <3>1, <3>2, <3>3 DEF Cell
  <2>4. TypeOK'
    <3>1. /\ next' \in [Cell -> Pointer]
          /\ cell' \in [Cell -> Entry \cup {Unwritten}]
      BY <1>1, <1>2, <1>7, <2>3 DEF TypeOK, Pointer
    <3> QED
      BY <1>1, <1>2, <1>4, <1>7, <2>3, <3>1 DEF TypeOK
  <2>5. tail' \in remain .. remain + Passed + 1 /\ tail' \notin Second
    BY <1>7
  <2>6. \A c \in First \cup Second : After(c)' = After(c)
    <3>1. ~Linked /\ ~Linked'
      BY <1>1, <1>3, <1>7, <2>1, <2>5, NodePath DEF Linked
    <3> QED
      BY <1>3, <3>1 DEF After
  <2>7. \A c \in First \cup Second : next'[c] = next[c]
    BY <1>1, <1>7 DEF TypeOK
  <2>8. \A c \in remain .. tail' : next'[c] = c + 1
    <3> SUFFICES ASSUME NEW c \in remain .. p
                 PROVE  next'[c] = c + 1
      BY <1>7
    <3>1. CASE c = p
      BY <1>1, <1>7, <3>1 DEF TypeOK
    <3>2. CASE c # p
      <4>1. c \in remain .. tail
        BY <1>1, <2>1, <2>2, <3>2
      <4>2. next[c] = c + 1
        BY <1>2, <2>1, <4>1 DEF Copies
      <4>3. c \in Cell
        BY <1>1, <2>1, <2>2, <4>1, ListCells
      <4> QED
        BY <1>1, <1>7, <3>2, <4>2, <4>3 DEF TypeOK
    <3> QED
      BY <3>1, <3>2
  <2>9. Copies'
    <3>1. remain + Passed + 1 = remain + (Passed + 1)
      BY <1>2, <2>1
    <3>2. value' = 0 /\ pc' # "returned"
      BY <1>2, <2>1 DEF Copies
    <3> QED
      BY <1>2, <1>3, <1>7, <2>5, <2>6, <2>7, <2>8, <3>1, <3>2 DEF Copies
  <2> QED
    BY <1>3, <1>5, <1>7, <2>4, <2>9 DEF ShapeInv, Heap
<1>8. CASE /\ flag = 1 /\ call = "ip_list_merge"
           /\ tail = n1 /\ n1 > 0 /\ ~Linked /\ ptr2 \notin Path
           /\ next' = [next EXCEPT ![n1] = ptr2]
           /\ tail' = ptr2 /\ UNCHANGED <<cell, p>>
  <2>1. TypeOK'
    <3>1. next' \in [Cell -> Pointer] /\ tail' \in Cell
      BY <1>1, <1>2, <1>8 DEF TypeOK, Pointer
    <3> QED
      BY <1>1, <1>2, <1>4, <1>8, <3>1 DEF TypeOK
  <2>2. Linked' /\ n1 \in First /\ n1 \in Cell
    BY <1>1, <1>2, <1>3, <1>8 DEF Linked, First
  <2>3. \A c \in First \cup Second : next'[c] = After(c)'
    <3> SUFFICES ASSUME NEW c \in First \cup Second
                 PROVE  next'[c] = After(c)'
      OBVIOUS
    <3>1. next[c] = After(c) /\ c \in Cell
      BY <1>1, <1>2
    <3>2. CASE c = n1
      BY <1>1, <1>3, <1>8, <2>2, <3>2 DEF After, TypeOK
    <3>3. CASE c # n1
      BY <1>1, <1>3, <1>8, <3>1, <3>3 DEF After, TypeOK
    <3> QED
      BY <3>2, <3>3
  <2>4. Joint'
    <3>1. ptr2 \in n1 + 1 .. n1 + (Passed + 1)
      BY <1>1, <1>2 DEF Second
    <3>2. n1 > 0 /\ end1 = NULL
      BY <1>1, <1>2, <1>8 DEF Heap, Joint
    <3> QED
      BY <1>2, <1>3, <1>8, <2>3, <3>1, <3>2 DEF Joint
  <2> QED
    BY <1>3, <1>5, <1>8, <2>1, <2>4 DEF ShapeInv, Heap
<1> QED
  BY <1>6, <1>7, <1>8, AddFacts

LEMMA StutterShape ==
    ASSUME ShapeInv, UNCHANGED vars
    PROVE  ShapeInv'
<1>1. UNCHANGED args /\ UNCHANGED <<args, tail>>
      /\ UNCHANGED <<cell, next, ptr1, ptr2, flag, tail, p, pc, value>>
  BY DEF vars
<1>2. Args /\ TypeOK /\ Where /\ Heap /\ Outcome
  BY Facts
<1>3. /\ Args' /\ n1' = n1 /\ n2' = n2 /\ First' = First /\ Second' = Second /\ remain' = remain
      /\ call' = call /\ end1' = end1 /\ end2' = end2
  BY <1>1, <1>2, SameArgs
<1>4. /\ Path' = Path /\ PathEnd' = PathEnd /\ (\A c : After(c)' = After(c))
      /\ Passed' = Passed /\ Walked' = Walked
  BY <1>1, SamePath
<1>5. TypeOK' /\ Where' /\ Outcome'
  BY <1>1, <1>2, <1>3, <1>4 DEF TypeOK, Where, Outcome
<1>6. (Copies => Copies') /\ (Joint => Joint')
  BY <1>1, <1>3, <1>4 DEF Copies, Joint
<1> QED
  BY <1>2, <1>3, <1>5, <1>6 DEF ShapeInv, Heap

LEMMA NextShape ==
    ASSUME ShapeInv, [Next]_vars
    PROVE  ShapeInv'
BY OuterShape, RunShape, InnerShape, AddShape, FollowsNothingShape, StutterShape DEF Next

\* The loops never leave their types, and node_merge never runs out of the cells
\* it has allocated, however long the lists are.
THEOREM TypeCorrect == Spec => []TypeOK
<1>1. Init => ShapeInv
  BY InitShape
<1>2. ShapeInv /\ [Next]_vars => ShapeInv'
  BY NextShape
<1>3. ShapeInv => TypeOK
  BY DEF ShapeInv
<1> QED
  BY <1>1, <1>2, <1>3, PTL DEF Spec

\* Any merge that no conflict ends survives if and only if there is a first list
\* and both lists end.
THEOREM SurvivesIffListsEndCorrect == Spec => []SurvivesIffListsEnd
<1>1. Init => ShapeInv
  BY InitShape
<1>2. ShapeInv /\ [Next]_vars => ShapeInv'
  BY NextShape
<1>3. ShapeInv => SurvivesIffListsEnd
  <2> SUFFICES ASSUME ShapeInv
               PROVE  SurvivesIffListsEnd
    OBVIOUS
  <2>1. /\ Outcome /\ Args /\ NULL \notin Cell
        /\ ptr2 \notin Cell => ptr2 = end2
    BY Facts
  <2>2. n1 = 0 <=> list1 = <<>>
    BY <2>1, Sizes DEF n1
  <2> QED
    BY <2>1, <2>2, Sizes DEF Outcome, SurvivesIffListsEnd
<1> QED
  BY <1>1, <1>2, <1>3, PTL DEF Spec

-----------------------------------------------------------------------------
(* What the cells hold *)

\* The cells of the lists have entries.
LEMMA Entries ==
    ASSUME Args
    PROVE  /\ \A c \in First : c \in DOMAIN list1 /\ Orig(c) = list1[c] /\ list1[c] \in Entry
           /\ \A c \in Second : /\ c - n1 \in DOMAIN list2 /\ Orig(c) = list2[c - n1]
                                /\ list2[c - n1] \in Entry
           /\ \A j \in 1 .. n2 : /\ j \in DOMAIN list2 /\ list2[j] \in Entry /\ n1 + j \in Second
                                 /\ Orig(n1 + j) = list2[j]
           /\ \A c \in First \cup Second : Orig(c) \in Entry /\ Orig(c).count \in Int
           /\ \A e \in Entry : /\ e = [key |-> e.key, count |-> e.count, info |-> e.info]
                               /\ e.count \in Int
<1>1. /\ n1 \in Nat /\ n2 \in Nat /\ list1 \in Seq(Entry) /\ list2 \in Seq(Entry)
      /\ DOMAIN list1 = 1 .. n1 /\ DOMAIN list2 = 1 .. n2
  BY Sizes
<1>2. \A e \in Entry : /\ e = [key |-> e.key, count |-> e.count, info |-> e.info]
                       /\ e.count \in Int
  BY ListMergeAssumption
<1>3. \A c \in First : c \in DOMAIN list1 /\ Orig(c) = list1[c] /\ list1[c] \in Entry
  BY <1>1 DEF First, Orig
<1>4. \A j \in 1 .. n2 : /\ j \in DOMAIN list2 /\ list2[j] \in Entry /\ n1 + j \in Second
                         /\ n1 + j \notin First /\ (n1 + j) - n1 = j
  BY <1>1 DEF First, Second
<1>5. \A j \in 1 .. n2 : Orig(n1 + j) = list2[j]
  BY <1>4 DEF Orig
<1>6. \A c \in Second : c - n1 \in 1 .. n2 /\ c \notin First
  BY <1>1 DEF First, Second
<1>7. \A c \in Second : /\ c - n1 \in DOMAIN list2 /\ Orig(c) = list2[c - n1]
                        /\ list2[c - n1] \in Entry
  BY <1>4, <1>6 DEF Orig
<1> QED
  BY <1>2, <1>3, <1>4, <1>5, <1>7

LEMMA InitData ==
    ASSUME Init
    PROVE  DataInv
<1>1. ShapeInv
  BY InitShape
<1>2. /\ Args /\ TypeOK /\ n1 \in Nat /\ n2 \in Nat /\ First \subseteq Cell /\ Second \subseteq Cell
  BY <1>1, Facts
<1>3. tail = remain /\ remain \in Nat /\ value = 0 /\ pc \in {"outer", "run"} /\ ptr2 = head2
  BY <1>2 DEF Init, remain
<1>4. ~Linked /\ Path = First /\ Passed = 0
  BY <1>2, <1>3, Heads, Sizes DEF Linked, Path, Second, remain, Passed
<1>5. \A c : Seen(c) = 0
  BY <1>3, <1>4 DEF Seen
<1>6. \A c \in First \cup Second : cell[c] = Orig(c)
  <2>1. \A c \in First : cell[c] = list1[c]
    <3>1. \A c \in First : c <= n1
      BY <1>2 DEF First
    <3> QED
      BY <1>2, <3>1 DEF Init
  <2>2. \A c \in Second : cell[c] = list2[c - n1]
    <3>1. \A c \in Second : ~(c <= n1) /\ c \in n1 + 1 .. n1 + n2
      BY <1>2 DEF Second
    <3> QED
      BY <1>2, <3>1 DEF Init
  <2> QED
    BY <1>2, <2>1, <2>2, Entries
<1>7. Cells
  BY <1>2, <1>4, <1>6, Entries DEF Cells, Grown
<1>8. NodeCells
  <2>1. \A c \in First : Left(cell[c], 0, c)
    BY <1>2, <1>6, Entries DEF Left
  <2>2. Copied = <<>>
    BY <1>3 DEF Copied
  <2> QED
    BY <1>4, <1>5, <2>1, <2>2 DEF NodeCells, Adds
<1>9. IpCells
  BY <1>2, <1>4, <1>5 DEF IpCells
<1> QED
  BY <1>3, <1>7, <1>8, <1>9 DEF DataInv, Stopped, Met

\* A step that changes no cell and goes on at the same place of both lists.
LEMMA SameData ==
    ASSUME UNCHANGED args, UNCHANGED cell, Path' = Path, Passed' = Passed, Linked' = Linked,
           \A c : Seen(c)' = Seen(c), Linked \/ call = "node_merge" => tail' = tail
    PROVE  (Cells => Cells') /\ (NodeCells => NodeCells') /\ (IpCells => IpCells')
<1>1. /\ n1' = n1 /\ n2' = n2 /\ First' = First /\ Second' = Second /\ remain' = remain
      /\ call' = call /\ list1' = list1 /\ list2' = list2
      /\ \A c : Orig(c)' = Orig(c)
  BY SameArgs
<1>2. \A c : Grown(c) => Grown(c)'
  BY <1>1 DEF Grown
<1>3. Cells => Cells'
  BY <1>1, <1>2 DEF Cells
<1>4. \A e, k, c : Left(e, k, c)' = Left(e, k, c)
  BY <1>1 DEF Left
<1>5. \A f : Adds(f)' = Adds(f)
  BY <1>1 DEF Adds
<1>6. call = "node_merge" => Copied' = Copied
  BY <1>1 DEF Copied
<1>7. NodeCells => NodeCells'
  BY <1>1, <1>4, <1>5, <1>6 DEF NodeCells
<1>8. IpCells => IpCells'
  BY <1>1 DEF IpCells
<1> QED
  BY <1>3, <1>7, <1>8

LEMMA OuterData ==
    ASSUME ShapeInv, DataInv, Outer
    PROVE  DataInv'
<1>1. /\ Args /\ TypeOK /\ Heap /\ Outcome /\ n1 \in Nat /\ tail \in Nat
      /\ First \subseteq Path
      /\ call = "node_merge" => Path = First
  BY Facts
<1>2. /\ pc = "outer" /\ ptr1' = head1
      /\ UNCHANGED args /\ UNCHANGED <<args, tail>> /\ UNCHANGED <<cell, next, ptr2, tail, p>>
      /\ pc' = "inner" => flag' = 1
      /\ value' # -1
  BY <1>1 DEF Outer, Here, Goto, Outcome
<1>3. Path' = Path /\ Passed' = Passed /\ Linked' = Linked
  BY <1>2, SamePath
<1>4. pc' = "inner" => Walked' = {}
  <2>1. n1 > 0 => head1 = 1 /\ head1 \in Path
    BY <1>1, Heads
  <2>2. n1 = 0 => Path = {}
    BY <1>1, <1>2 DEF First, Heap, Joint, Args
  <2>3. \A c \in Path : c \in Nat /\ c >= 1
    BY <1>1, OnPath, ListCells
  <2>4. Walked' = {c \in Path : head1 \in Path => c < head1}
    BY <1>2, <1>3 DEF Walked
  <2> QED
    BY <1>1, <2>1, <2>2, <2>3, <2>4
<1>5. \A c : Seen(c)' = Seen(c)
  BY <1>2, <1>3, <1>4 DEF Seen
<1>6. (Cells => Cells') /\ (NodeCells => NodeCells') /\ (IpCells => IpCells')
  BY <1>2, <1>3, <1>5, SameData
<1>7. Cells /\ NodeCells /\ IpCells
  BY <1>2 DEF DataInv, Going
<1>8. Met'
  <2>1. pc' = "inner" => flag' # 0
    BY <1>2
  <2> QED
    BY <1>4, <2>1 DEF Met
<1>9. Stopped'
  BY <1>2 DEF Stopped
<1> QED
  BY <1>6, <1>7, <1>8, <1>9 DEF DataInv

LEMMA RunData ==
    ASSUME ShapeInv, DataInv, Run
    PROVE  DataInv'
<1>1. /\ Args /\ TypeOK /\ Heap /\ Outcome /\ n1 \in Nat /\ n2 \in Nat /\ tail \in Nat
  BY Facts
<1>2. /\ pc = "run" /\ ptr1 \in First /\ ~Linked /\ Path = First /\ n1 > 0
      /\ AtEnd => ptr1 = n1
  BY RunFacts
<1>3. UNCHANGED args /\ UNCHANGED <<args, cell, ptr2, flag, p, value>> /\ UNCHANGED ptr2
  BY DEF Run
<1>4. /\ n1' = n1 /\ n2' = n2 /\ First' = First /\ Second' = Second
  BY <1>3, SameArgs
<1>5. pc' # "inner" /\ (tail' = tail \/ (call = "ip_list_merge" /\ tail' = n1))
  <2>1. CASE ~AtEnd /\ UNCHANGED <<tail, pc, next>>
    BY <1>2, <2>1
  <2>2. CASE Goto("returned") /\ UNCHANGED <<ptr1, tail>>
    BY <2>2 DEF Goto
  <2>3. CASE AtEnd /\ call = "ip_list_merge" /\ tail' = ptr1 /\ Goto("outer")
    BY <1>2, <2>3 DEF Goto
  <2> QED
    BY <2>1, <2>2, <2>3 DEF Run
<1>6. Linked' = Linked
  BY <1>1, <1>2, <1>4, <1>5 DEF Linked, Second
<1>7. Path' = Path /\ Passed' = Passed
  BY <1>2, <1>3, <1>4, <1>6 DEF Path, Passed
<1>8. \A c : Seen(c)' = Seen(c)
  BY <1>2, <1>5, <1>7 DEF Seen
<1>9. (Cells => Cells') /\ (NodeCells => NodeCells') /\ (IpCells => IpCells')
  <2>1. UNCHANGED cell /\ (Linked \/ call = "node_merge" => tail' = tail)
    BY <1>2, <1>3, <1>5
  <2> QED
    BY <1>3, <1>6, <1>7, <1>8, <2>1, SameData
<1>10. Cells /\ NodeCells /\ IpCells
  BY <1>2 DEF DataInv, Going
<1>11. Met' /\ Stopped'
  BY <1>1, <1>2, <1>3, <1>5 DEF Met, Stopped, Outcome
<1> QED
  BY <1>9, <1>10, <1>11 DEF DataInv

LEMMA FollowsNothingData ==
    ASSUME ShapeInv, DataInv, FollowsNothing
    PROVE  DataInv'
<1>1. Outcome
  BY Facts
<1>2. value' = value /\ pc' = "crashed" /\ pc \in {"run", "inner"}
  BY DEF FollowsNothing, Crash, Here, Goto
<1> QED
  BY <1>1, <1>2 DEF Outcome, DataInv, Stopped, Going, Merged

LEMMA StutterData ==
    ASSUME ShapeInv, DataInv, UNCHANGED vars
    PROVE  DataInv'
<1>1. UNCHANGED args /\ UNCHANGED <<args, tail>>
      /\ UNCHANGED <<cell, next, ptr1, ptr2, flag, tail, p, pc, value>>
  BY DEF vars
<1>2. /\ First' = First /\ Second' = Second /\ call' = call /\ list1' = list1 /\ list2' = list2
      /\ n1' = n1 /\ n2' = n2 /\ \A c : Orig(c)' = Orig(c)
  BY <1>1, SameArgs
<1>3. Path' = Path /\ Passed' = Passed /\ Linked' = Linked /\ Walked' = Walked
  BY <1>1, SamePath
<1>4. \A c : Seen(c)' = Seen(c)
  BY <1>1, <1>3 DEF Seen
<1>5. (Cells => Cells') /\ (NodeCells => NodeCells') /\ (IpCells => IpCells')
  BY <1>1, <1>3, <1>4, SameData
<1>6. (Met => Met') /\ (Stopped => Stopped') /\ Going' = Going
  BY <1>1, <1>2, <1>3 DEF Met, Stopped, Going, Merged, Once
<1> QED
  BY <1>5, <1>6 DEF DataInv

\* The cells of the lists hold entries.
LEMMA CellEntries ==
    ASSUME Args, Passed \in 0 .. n2, pc = "inner" => Passed + 1 \in 1 .. n2,
           NEW c \in First \cup Second, Grown(c)
    PROVE  /\ cell[c] \in Entry /\ cell[c].count \in Int
           /\ cell[c] = [key |-> cell[c].key, count |-> cell[c].count, info |-> cell[c].info]
<1>1. cell[c] \in Entry
  <2>1. Seen(c) \in 0 .. n2 /\ n2 \in Nat
    BY Sizes DEF Seen
  <2>2. CASE cell[c] = Orig(c)
    BY <2>2, Entries
  <2>3. CASE cell[c] # Orig(c)
    <3>1. PICK j \in 1 .. Seen(c) : cell[c] = list2[j]
      BY <2>3 DEF Grown
    <3>2. j \in 1 .. n2
      BY <2>1
    <3> QED
      BY <3>1, <3>2, Entries
  <2> QED
    BY <2>2, <2>3
<1> QED
  BY <1>1, Entries

\* Where the inner loop compares.
LEMMA Turn ==
    ASSUME ShapeInv, DataInv, Inner
    PROVE  /\ Cells /\ Met /\ NodeCells /\ IpCells
           /\ ptr1 \in Path /\ ptr1 \notin Walked /\ ptr2 \in Second
           /\ n1 \in Nat /\ n2 \in Nat /\ Passed \in 0 .. n2 /\ Passed + 1 \in 1 .. n2
           /\ ptr2 = n1 + (Passed + 1) /\ Orig(ptr2) = list2[Passed + 1]
           /\ ptr1 \in First \cup Second /\ Path \subseteq First \cup Second
           /\ Seen(ptr1) = Passed
           /\ \A c : Seen(c) \in {Passed, Passed + 1}
           /\ \A c \in First \cup Second : cell[c].count \in Int /\ Orig(c).count \in Int
           /\ Same <=> Orig(ptr1).key = Orig(ptr2).key
           /\ pc = "inner"
<1>1. /\ Args /\ n1 \in Nat /\ n2 \in Nat /\ tail \in Nat /\ Path \subseteq Cell
  BY Facts
<1>2. pc = "inner" /\ ptr1 \in Path /\ ptr2 \in Second
  BY InnerFacts
<1>3. Cells /\ Met /\ NodeCells /\ IpCells
  BY <1>2 DEF DataInv, Going
<1>4. Passed = ptr2 - n1 - 1 /\ Passed \in 0 .. n2 /\ Passed + 1 \in 1 .. n2
      /\ ptr2 = n1 + (Passed + 1) /\ ptr2 - n1 = Passed + 1
  BY <1>1, <1>2 DEF Passed, Second
<1>5. Orig(ptr2) = list2[Passed + 1]
  BY <1>1, <1>2, <1>4, Entries
<1>6. ptr1 \in First \cup Second /\ Path \subseteq First \cup Second
  BY <1>1, <1>2, OnPath
<1>7. ptr1 \notin Walked
  <2>1. ptr1 \in Nat
    BY <1>1, <1>2, CellIsNat
  <2> QED
    BY <1>2, <2>1 DEF Walked
<1>8. Seen(ptr1) = Passed /\ \A c : Seen(c) \in {Passed, Passed + 1}
  BY <1>7 DEF Seen
<1>9. \A c \in First \cup Second : cell[c].count \in Int /\ Orig(c).count \in Int
  BY <1>1, <1>3, <1>4, CellEntries, Entries DEF Cells
<1>10. Same <=> Orig(ptr1).key = Orig(ptr2).key
  BY <1>2, <1>3, <1>6 DEF Same, Cells, Grown
<1> QED
  BY <1>1, <1>2, <1>3, <1>4, <1>5, <1>6, <1>7, <1>8, <1>9, <1>10

\* If neither list has a key twice, two different cells with one key are a cell
\* of the first and a cell of the second list, and no one has written them.
LEMMA FreshPair ==
    ASSUME ShapeInv, DataInv, Inner, Once(list1), Once(list2), Same, ptr1 # ptr2
    PROVE  /\ ptr1 \in First
           /\ cell[ptr1] = list1[ptr1] /\ cell[ptr2] = list2[Passed + 1]
<1>1. /\ Cells /\ ptr1 \in First \cup Second /\ ptr2 \in Second
      /\ n1 \in Nat /\ n2 \in Nat /\ Passed \in 0 .. n2 /\ Passed + 1 \in 1 .. n2
      /\ ptr2 = n1 + (Passed + 1) /\ Orig(ptr2) = list2[Passed + 1]
      /\ Seen(ptr1) = Passed
      /\ \A c : Seen(c) \in {Passed, Passed + 1}
      /\ Orig(ptr1).key = Orig(ptr2).key
  BY Turn
<1>2. Args
  BY Facts
<1>3. \A j \in 1 .. n2 : list2[j].key = list2[Passed + 1].key => j = Passed + 1
  BY <1>1, <1>2, Sizes DEF Once
<1>4. ptr1 \in First
  <2>1. SUFFICES ASSUME ptr1 \in Second
                 PROVE  FALSE
    BY <1>1
  <2>2. ptr1 - n1 \in 1 .. n2 /\ Orig(ptr1) = list2[ptr1 - n1]
    BY <1>1, <1>2, <2>1, Entries, Sizes
  <2>3. ptr1 - n1 = Passed + 1 /\ ptr1 \in Int
    BY <1>1, <1>3, <2>1, <2>2 DEF Second
  <2> QED
    BY <1>1, <2>3
<1>5. cell[ptr1] = list1[ptr1]
  <2>1. \A j \in 1 .. Passed : list2[j].key # Orig(ptr1).key
    <3>1. \A j \in 1 .. Passed : j \in 1 .. n2 /\ j # Passed + 1
      BY <1>1
    <3> QED
      BY <1>1, <1>3, <3>1
  <2>2. cell[ptr1] = Orig(ptr1)
    BY <1>1, <2>1 DEF Cells, Grown
  <2> QED
    BY <1>2, <1>4, <2>2, Entries
<1>6. cell[ptr2] = list2[Passed + 1]
  <2>1. CASE cell[ptr2] = Orig(ptr2)
    BY <1>1, <2>1
  <2>2. CASE cell[ptr2] # Orig(ptr2)
    <3>1. PICK j \in 1 .. Seen(ptr2) : cell[ptr2] = list2[j] /\ list2[j].key = Orig(ptr2).key
      BY <1>1, <2>2 DEF Cells, Grown
    <3>2. j \in 1 .. n2
      BY <1>1
    <3> QED
      BY <1>1, <1>3, <3>1, <3>2
  <2> QED
    BY <2>1, <2>2
<1> QED
  BY <1>4, <1>5, <1>6

\* One more entry compared with a cell of the first list.
LEMMA LeftStep ==
    ASSUME NEW c, NEW k \in Nat, NEW e, Left(e, k, c), e.key = list1[c].key,
           list1[c].count \in Int, \A j \in 1 .. k + 1 : list2[j].count \in Int
    PROVE  Left(IF e.key = list2[k + 1].key /\ list2[k + 1].count > e.count
                THEN list2[k + 1] ELSE e, k + 1, c)
<1> DEFINE n == list2[k + 1]
<1>1. \A j \in 1 .. k + 1 : j \in 1 .. k \/ j = k + 1
  OBVIOUS
<1>2. \A j \in 1 .. k : j \in 1 .. k + 1 /\ j < k + 1 /\ ~(k + 1 < j) /\ j \in Int
  OBVIOUS
<1>3. k + 1 \in 1 .. k + 1 /\ n.count \in Int /\ ~(k + 1 < k + 1)
  OBVIOUS
<1> HIDE DEF n
<1>4. CASE e = list1[c] /\ \A j \in 1 .. k : list2[j].key = list1[c].key =>
                                             list2[j].count <= list1[c].count
  <2>1. CASE e.key = n.key /\ n.count > e.count
    <3>1. \A j \in 1 .. k : list2[j].key = list1[c].key => list2[j].count < n.count
      BY <1>2, <1>3, <1>4, <2>1
    <3>2. Left(n, k + 1, c)
      BY <1>1, <1>2, <1>3, <1>4, <2>1, <3>1 DEF Left, n
    <3> QED
      BY <2>1, <3>2 DEF n
  <2>2. CASE ~(e.key = n.key /\ n.count > e.count)
    <3>1. n.key = list1[c].key => n.count <= list1[c].count
      BY <1>3, <1>4, <2>2
    <3>2. Left(e, k + 1, c)
      BY <1>1, <1>4, <3>1 DEF Left, n
    <3> QED
      BY <2>2, <3>2 DEF n
  <2> QED
    BY <2>1, <2>2
<1>5. CASE \E j \in 1 .. k :
              /\ e = list2[j] /\ list2[j].key = list1[c].key /\ list2[j].count > list1[c].count
              /\ \A i \in 1 .. k : list2[i].key = list1[c].key =>
                    list2[i].count <= list2[j].count /\ (i < j => list2[i].count < list2[j].count)
  <2>1. PICK j \in 1 .. k :
              /\ e = list2[j] /\ list2[j].key = list1[c].key /\ list2[j].count > list1[c].count
              /\ \A i \in 1 .. k : list2[i].key = list1[c].key =>
                    list2[i].count <= list2[j].count /\ (i < j => list2[i].count < list2[j].count)
    BY <1>5
  <2>2. CASE e.key = n.key /\ n.count > e.count
    <3>1. \A i \in 1 .. k : list2[i].key = list1[c].key => list2[i].count < n.count
      BY <1>2, <1>3, <2>1, <2>2
    <3>2. n.count > list1[c].count
      BY <1>2, <1>3, <2>1, <2>2
    <3>3. Left(n, k + 1, c)
      BY <1>1, <1>2, <1>3, <2>1, <2>2, <3>1, <3>2 DEF Left, n
    <3> QED
      BY <2>2, <3>3 DEF n
  <2>3. CASE ~(e.key = n.key /\ n.count > e.count)
    <3>1. n.key = list1[c].key => n.count <= list2[j].count
      BY <1>2, <1>3, <2>1, <2>3
    <3>2. j \in 1 .. k + 1 /\ ~(k + 1 < j)
      BY <1>2
    <3>3. Left(e, k + 1, c)
      BY <1>1, <1>2, <2>1, <3>1, <3>2 DEF Left, n
    <3> QED
      BY <2>3, <3>3 DEF n
  <2> QED
    BY <2>2, <2>3
<1> QED
  BY <1>4, <1>5 DEF Left

LEMMA InnerData ==
    ASSUME ShapeInv, DataInv, Inner
    PROVE  DataInv'
<1>1. /\ Cells /\ Met /\ NodeCells /\ IpCells
      /\ ptr1 \in Path /\ ptr1 \notin Walked /\ ptr2 \in Second
      /\ n1 \in Nat /\ n2 \in Nat /\ Passed \in 0 .. n2 /\ Passed + 1 \in 1 .. n2
      /\ ptr2 = n1 + (Passed + 1) /\ Orig(ptr2) = list2[Passed + 1]
      /\ ptr1 \in First \cup Second /\ Path \subseteq First \cup Second
      /\ Seen(ptr1) = Passed
      /\ \A c : Seen(c) \in {Passed, Passed + 1}
      /\ \A c \in First \cup Second : cell[c].count \in Int /\ Orig(c).count \in Int
      /\ Same <=> Orig(ptr1).key = Orig(ptr2).key
      /\ pc = "inner"
  BY Turn
<1>2. /\ Args /\ TypeOK /\ Heap /\ Outcome /\ First \subseteq Cell /\ Second \subseteq Cell
      /\ call = "node_merge" => Path = First
  BY Facts
<1>3. /\ UNCHANGED args /\ UNCHANGED <<args, tail>> /\ UNCHANGED <<next, ptr2, tail, p>>
      /\ Path' = Path /\ Passed' = Passed
      /\ ~Conflict => pc' = "inner" /\ value' = value /\ Walked' = Walked \cup {ptr1}
  BY InnerFacts
<1>4. /\ n1' = n1 /\ n2' = n2 /\ First' = First /\ Second' = Second /\ remain' = remain
      /\ call' = call /\ list1' = list1 /\ list2' = list2 /\ Linked' = Linked
      /\ \A c : Orig(c)' = Orig(c)
  BY <1>3, SameArgs, SamePath
<1>5. CASE Conflict
  <2>1. /\ pc' = "returned" /\ value' = -1 /\ call = "ip_list_merge" /\ Same
        /\ cell[ptr1].count = cell[ptr2].count /\ cell[ptr1].info # cell[ptr2].info
    BY <1>5 DEF Inner, Goto, Conflict
  <2>2. ASSUME Once(list1), Once(list2)
        PROVE  \E i \in First, j \in 1 .. n2 : Clash(list1[i], list2[j])
    <3>1. /\ ptr1 \in First
          /\ cell[ptr1] = list1[ptr1] /\ cell[ptr2] = list2[Passed + 1]
      <4>1. ptr1 # ptr2
        BY <2>1
      <4> QED
        BY <2>1, <2>2, <4>1, FreshPair
    <3>2. Clash(list1[ptr1], list2[Passed + 1])
      BY <2>1, <3>1 DEF Clash, Same
    <3> QED
      BY <1>1, <3>1, <3>2
  <2>3. Stopped'
    <3>1. Once(list1)' = Once(list1) /\ Once(list2)' = Once(list2)
      BY <1>4 DEF Once
    <3> QED
      BY <1>4, <2>1, <2>2, <3>1 DEF Stopped
  <2> QED
    BY <2>1, <2>3 DEF DataInv, Going, Merged
<1>6. CASE ~Conflict
  <2>1. pc' = "inner" /\ value' = value /\ Walked' = Walked \cup {ptr1}
    BY <1>3, <1>6
  <2>2. /\ flag' = (IF Same THEN 0 ELSE flag)
        /\ cell' = (IF Same /\ Greater THEN [cell EXCEPT ![ptr1] = cell[ptr2]] ELSE cell)
    BY DEF Inner
  <2>3. /\ \A c \in Cell : c # ptr1 => cell'[c] = cell[c]
        /\ cell'[ptr1] = IF Same /\ Greater THEN cell[ptr2] ELSE cell[ptr1]
        /\ cell'[ptr2] = cell[ptr2]
        /\ ptr1 \in Cell /\ ptr2 \in Cell
    BY <1>1, <1>2, <2>2 DEF TypeOK
  <2>4. /\ \A c : c # ptr1 => Seen(c)' = Seen(c)
        /\ \A c : c = ptr1 => Seen(c)' = Passed + 1
    BY <1>1, <1>3, <2>1 DEF Seen
  <2>5. \A c \in First \cup Second : cell[c].key = Orig(c).key /\ cell[c].count >= Orig(c).count
    BY <1>1 DEF Cells, Grown
  <2>6. Cells'
    <3>1. ASSUME NEW c \in First \cup Second
          PROVE  Grown(c)'
      <4>1. Grown(c) /\ c \in Cell
        BY <1>1, <1>2 DEF Cells
      <4>2. CASE c # ptr1
        BY <1>4, <2>3, <2>4, <4>1, <4>2 DEF Grown
      <4>3. CASE c = ptr1 /\ cell'[ptr1] = cell[ptr1]
        <5>1. \A j \in 1 .. Passed : j \in 1 .. Passed + 1
          BY <1>1
        <5>2. Seen(c)' = Passed + 1 /\ Seen(c) = Passed
          BY <1>1, <2>4, <4>3
        <5> QED
          BY <1>4, <4>1, <4>3, <5>1, <5>2 DEF Grown
      <4>4. CASE c = ptr1 /\ Same /\ Greater
        <5>1. cell'[c] = cell[ptr2] /\ Seen(c)' = Passed + 1
          BY <2>3, <2>4, <4>4
        <5>2. cell[ptr2].key = Orig(c).key /\ Orig(ptr2).key = Orig(c).key
          BY <1>1, <2>5, <4>4
        <5>3. cell[ptr2].count >= Orig(c).count
          <6>1. cell[ptr2].count > cell[c].count
            BY <4>4 DEF Greater
          <6> QED
            BY <1>1, <2>5, <4>4, <6>1
        <5>4. \E j \in 1 .. Passed + 1 : cell[ptr2] = list2[j] /\ list2[j].key = Orig(c).key
          <6>1. CASE cell[ptr2] = Orig(ptr2)
            BY <1>1, <5>2, <6>1
          <6>2. CASE cell[ptr2] # Orig(ptr2)
            <7>1. PICK j \in 1 .. Seen(ptr2) :
                          cell[ptr2] = list2[j] /\ list2[j].key = Orig(ptr2).key
              BY <1>1, <6>2 DEF Cells, Grown
            <7>2. j \in 1 .. Passed + 1
              BY <1>1
            <7> QED
              BY <5>2, <7>1, <7>2
          <6> QED
            BY <6>1, <6>2
        <5> QED
          BY <1>4, <5>1, <5>2, <5>3, <5>4 DEF Grown
      <4> QED
        BY <2>3, <4>2, <4>3, <4>4
    <3>2. ASSUME NEW c \in Second \ Path
          PROVE  cell'[c] = Orig(c)
      BY <1>1, <1>2, <2>3 DEF Cells
    <3> QED
      BY <1>3, <1>4, <3>1, <3>2 DEF Cells
  <2>7. Met'
    <3>1. flag' = 0 <=> \E c \in Walked' : Orig(c).key = Orig(ptr2).key
      BY <1>1, <2>1, <2>2 DEF Met
    <3>2. ASSUME NEW c \in Walked', Orig(c).key = Orig(ptr2).key
          PROVE  cell'[c].count >= cell'[ptr2].count
      <4>1. CASE c = ptr1
        <5>1. Same
          BY <1>1, <3>2, <4>1
        <5>2. CASE Greater
          BY <1>1, <2>3, <4>1, <5>1, <5>2
        <5>3. CASE ~Greater
          BY <1>1, <2>3, <4>1, <5>3 DEF Greater
        <5> QED
          BY <5>2, <5>3
      <4>2. CASE c # ptr1
        <5>1. c \in Walked /\ c \in Cell
          BY <1>1, <1>2, <2>1, <4>2 DEF Walked
        <5> QED
          BY <1>1, <2>3, <3>2, <4>2, <5>1 DEF Met
      <4> QED
        BY <4>1, <4>2
    <3> QED
      BY <1>3, <1>4, <3>1, <3>2 DEF Met
  <2>8. NodeCells'
    <3> SUFFICES ASSUME call = "node_merge"
                 PROVE  /\ \A c \in First : Left(cell[c], Seen(c), c)'
                        /\ \A f : Adds(f)' => f[Passed] = Copied'
      BY <1>3, <1>4 DEF NodeCells
    <3>1. \A e, k, c : Left(e, k, c)' = Left(e, k, c)
      BY <1>4 DEF Left
    <3>2. \A f : Adds(f)' = Adds(f)
      BY <1>4 DEF Adds
    <3>3. Path = First /\ ptr1 \in First
      BY <1>1, <1>2
    <3>4. cell[ptr2] = list2[Passed + 1]
      <4>1. ptr2 \notin Path
        BY <1>2, <1>1, <3>3, ListCells
      <4> QED
        BY <1>1, <4>1 DEF Cells
    <3>5. ASSUME NEW c \in First
          PROVE  Left(cell'[c], Seen(c)', c)
      <4>1. Left(cell[c], Seen(c), c) /\ c \in Cell
        BY <1>1, <1>2 DEF NodeCells
      <4>2. CASE c # ptr1
        BY <2>3, <2>4, <4>1, <4>2
      <4>3. CASE c = ptr1
        <5>1. cell'[c] = IF cell[c].key = list2[Passed + 1].key
                            /\ list2[Passed + 1].count > cell[c].count
                         THEN list2[Passed + 1] ELSE cell[c]
          BY <2>3, <3>4, <4>3 DEF Same, Greater
        <5>2. Left(cell[c], Passed, c) /\ Seen(c)' = Passed + 1
          BY <1>1, <2>4, <4>1, <4>3
        <5>3. cell[c].key = list1[c].key /\ list1[c].count \in Int
          BY <1>2, <2>5, Entries
        <5>4. \A j \in 1 .. Passed + 1 : list2[j].count \in Int
          BY <1>1, <1>2, Entries
        <5> QED
          BY <1>1, <5>1, <5>2, <5>3, <5>4, LeftStep
      <4> QED
        BY <4>2, <4>3
    <3>6. Copied' = Copied
      <4>1. ASSUME NEW k \in 1 .. tail - remain
            PROVE  cell'[remain + k] = cell[remain + k]
        <5>1. tail \in remain .. remain + Passed
          BY <1>1, <1>2 DEF Heap, Copies
        <5>2. remain + k \in remain .. remain + Passed + 1
          BY <1>1, <5>1 DEF remain
        <5>3. remain + k \in Cell /\ remain + k \notin First
          BY <1>2, <5>2, ListCells
        <5> QED
          BY <2>3, <3>3, <5>3
      <4> QED
        BY <1>3, <1>4, <4>1 DEF Copied, AsNode
    <3> QED
      BY <1>1, <3>1, <3>2, <3>5, <3>6 DEF NodeCells
  <2>9. IpCells'
    <3> SUFFICES ASSUME call = "ip_list_merge"
                 PROVE  IpCells'
      BY <1>4 DEF IpCells
    <3>1. \A d \in Path : cell'[d].count >= cell[d].count /\ cell'[d].count \in Int
      <4> SUFFICES ASSUME NEW d \in Path
                   PROVE  cell'[d].count >= cell[d].count /\ cell'[d].count \in Int
        OBVIOUS
      <4>1. d \in Cell /\ cell[d].count \in Int /\ cell[ptr2].count \in Int
        BY <1>1, <1>2
      <4> QED
        BY <2>3, <4>1 DEF Greater
    <3>2. ASSUME NEW c \in n1 + 1 .. n1 + Passed, c \notin Path
          PROVE  \E d \in Path : Orig(d).key = Orig(c).key /\ cell'[d].count >= Orig(c).count
      <4>1. PICK d \in Path : Orig(d).key = Orig(c).key /\ cell[d].count >= Orig(c).count
        BY <1>1, <3>2 DEF IpCells
      <4>2. cell[d].count \in Int /\ Orig(c).count \in Int
        <5>1. c \in Second
          BY <1>1 DEF Second
        <5> QED
          BY <1>1, <5>1
      <4> QED
        BY <3>1, <4>1, <4>2
    <3>3. ASSUME Once(list1), Once(list2), NEW i \in First, NEW j \in 1 .. Seen(i)'
          PROVE  ~Clash(list1[i], list2[j])
      <4>1. \A k \in 1 .. Seen(i) : ~Clash(list1[i], list2[k])
        BY <1>1, <3>3 DEF IpCells
      <4>2. CASE j \in 1 .. Seen(i)
        BY <4>1, <4>2
      <4>3. CASE i = ptr1 /\ j = Passed + 1
        <5>1. SUFFICES ASSUME Clash(list1[i], list2[j])
                       PROVE  FALSE
          OBVIOUS
        <5>2. Same
          <6>1. Orig(ptr1) = list1[i]
            BY <1>2, <4>3, Entries
          <6> QED
            BY <1>1, <4>3, <5>1, <6>1 DEF Clash
        <5>3. ptr1 # ptr2
          BY <1>1, <1>2, <4>3, ListCells
        <5>4. cell[ptr1] = list1[ptr1] /\ cell[ptr2] = list2[Passed + 1]
          BY <3>3, <5>2, <5>3, FreshPair
        <5> QED
          BY <1>6, <4>3, <5>1, <5>2, <5>4 DEF Conflict, Clash
      <4>4. j \in 1 .. Seen(i) \/ (i = ptr1 /\ j = Passed + 1)
        <5>1. CASE i # ptr1
          BY <2>4, <5>1
        <5>2. CASE i = ptr1
          BY <1>1, <2>4, <5>2
        <5> QED
          BY <5>1, <5>2
      <4> QED
        BY <4>2, <4>3, <4>4
    <3>4. Linked => \A c \in First : Orig(c).key # Orig(tail).key
      BY <1>1 DEF IpCells
    <3>5. Once(list1)' = Once(list1) /\ Once(list2)' = Once(list2)
      BY <1>4 DEF Once
    <3>6. \A e1, e2 : Clash(e1, e2)' = Clash(e1, e2)
      BY DEF Clash
    <3> QED
      BY <1>3, <1>4, <3>2, <3>3, <3>4, <3>5, <3>6 DEF IpCells
  <2>10. Stopped'
    BY <1>1, <1>2, <2>1 DEF Stopped, Outcome
  <2> QED
    BY <2>6, <2>7, <2>8, <2>9, <2>10 DEF DataInv
<1> QED
  BY <1>5, <1>6

LEMMA AppendIs ==
    ASSUME NEW S, NEW s \in Seq(S), NEW x \in S
    PROVE  Append(s, x) = [k \in 1 .. Len(s) + 1 |-> IF k = Len(s) + 1 THEN x ELSE s[k]]
<1> DEFINE t == Append(s, x)
<1>1. /\ t \in Seq(S) /\ Len(t) = Len(s) + 1 /\ Len(s) \in Nat
      /\ \A k \in 1 .. Len(s) : t[k] = s[k]
  OBVIOUS
<1>2. t[Len(s) + 1] = x
  BY AppendProperties
<1> HIDE DEF t
<1>3. t = [k \in 1 .. Len(s) + 1 |-> t[k]]
  BY <1>1
<1>4. \A k \in 1 .. Len(s) + 1 : t[k] = IF k = Len(s) + 1 THEN x ELSE s[k]
  BY <1>1, <1>2
<1> QED
  BY <1>3, <1>4 DEF t

LEMMA AddData ==
    ASSUME ShapeInv, DataInv, Add
    PROVE  DataInv'
<1>1. /\ Args /\ TypeOK /\ Heap /\ Outcome /\ n1 \in Nat /\ n2 \in Nat /\ tail \in Nat
      /\ First \subseteq Cell /\ Second \subseteq Cell /\ First \subseteq Path
      /\ call = "node_merge" => Path = First
  BY Facts
<1>2. /\ pc = "inner" /\ pc' = "outer" /\ ptr2 \in Second /\ Walked = Path
      /\ Passed = ptr2 - n1 - 1 /\ Passed + 1 \in 1 .. n2 /\ Passed \in Nat
      /\ UNCHANGED args /\ UNCHANGED <<ptr1, flag, value>>
      /\ Passed' = Passed + 1
  BY AddFacts
<1>3. Cells /\ Met /\ NodeCells /\ IpCells
  BY <1>2 DEF DataInv, Going
<1>4. /\ n1' = n1 /\ n2' = n2 /\ First' = First /\ Second' = Second /\ remain' = remain
      /\ call' = call /\ list1' = list1 /\ list2' = list2
      /\ \A c : Orig(c)' = Orig(c)
  BY <1>2, SameArgs
<1>5. /\ \A c : Seen(c)' = Passed + 1
      /\ \A c \in Path : Seen(c) = Passed + 1
      /\ \A c : Seen(c) \in {Passed, Passed + 1}
  BY <1>2 DEF Seen
<1>6. /\ ptr2 = n1 + (Passed + 1) /\ Orig(ptr2) = list2[Passed + 1]
      /\ list2[Passed + 1] \in Entry /\ Passed + 1 \in DOMAIN list2
  <2>1. ptr2 = n1 + (Passed + 1)
    BY <1>1, <1>2 DEF Second
  <2> QED
    BY <1>1, <1>2, <2>1, Entries
<1>7. /\ \A c \in First \cup Second : cell[c].count \in Int /\ Orig(c).count \in Int
  <2>1. Passed \in 0 .. n2
    BY <1>1, <1>2
  <2> QED
    BY <1>1, <1>2, <1>3, <2>1, CellEntries, Entries DEF Cells
<1>8. ASSUME \A c \in First \cup Second : cell'[c] = cell[c],
             \A c \in Second : c \in Path => c \in Path'
      PROVE  Cells'
  <2>1. ASSUME NEW c \in First \cup Second
        PROVE  Grown(c)'
    <3>1. \A j \in 1 .. Seen(c) : j \in 1 .. Passed + 1
      BY <1>2, <1>5
    <3>2. Grown(c) /\ cell'[c] = cell[c]
      BY <1>3, <1>8 DEF Cells
    <3> QED
      BY <1>4, <1>5, <3>1, <3>2 DEF Grown
  <2>2. ASSUME NEW c \in Second \ Path'
        PROVE  cell'[c] = Orig(c)
    BY <1>3, <1>8 DEF Cells
  <2> QED
    BY <1>4, <2>1, <2>2 DEF Cells
<1>9. Met' /\ Stopped'
  <2>1. value' # -1
    BY <1>1, <1>2 DEF Outcome
  <2> QED
    BY <1>2, <2>1 DEF Met, Stopped
<1>10. ASSUME Once(list1), Once(list2), call = "ip_list_merge", NEW i \in First,
              NEW j \in 1 .. Passed + 1
       PROVE  ~Clash(list1[i], list2[j])
  BY <1>1, <1>3, <1>5, <1>10 DEF IpCells
<1>11. Once(list1)' = Once(list1) /\ Once(list2)' = Once(list2)
       /\ \A e1, e2 : Clash(e1, e2)' = Clash(e1, e2)
  BY <1>4 DEF Once, Clash
<1>12. \A c \in n1 + 1 .. n1 + (Passed + 1) : c = ptr2 \/ c \in n1 + 1 .. n1 + Passed
  BY <1>1, <1>2, <1>6
<1>13. ASSUME \A c \in First : cell'[c] = cell[c],
              \A f : Adds(f) => f[Passed + 1] = Copied'
       PROVE  NodeCells'
  <2>1. \A e, k, c : Left(e, k, c)' = Left(e, k, c)
    BY <1>4 DEF Left
  <2>2. \A f : Adds(f)' = Adds(f)
    BY <1>4 DEF Adds
  <2>3. ASSUME call = "node_merge", NEW c \in First
        PROVE  Left(cell'[c], Seen(c)', c)
    BY <1>1, <1>3, <1>5, <1>13, <2>3 DEF NodeCells
  <2> QED
    BY <1>2, <1>4, <1>13, <2>1, <2>2, <2>3 DEF NodeCells
<1>14. ASSUME NEW f, Adds(f), call = "node_merge"
       PROVE  /\ f[Passed] = Copied
              /\ f[Passed + 1] = IF flag = 0 THEN Copied
                                 ELSE Append(Copied, AsNode(list2[Passed + 1]))
  <2>1. f[Passed] = Copied /\ (Passed + 1) - 1 = Passed
    BY <1>2, <1>3, <1>14 DEF NodeCells
  <2>2. Nodes(list2)[Passed + 1] = AsNode(list2[Passed + 1])
    BY <1>6 DEF Nodes, AsNode
  <2>3. IdsOf(Nodes(list1)) = {list1[i].key : i \in First}
    <3>1. DOMAIN list1 = First
      BY <1>1, Sizes DEF First
    <3> QED
      BY <3>1 DEF IdsOf, Nodes
  <2>4. flag = 0 <=> \E c \in First : list1[c].key = list2[Passed + 1].key
    BY <1>1, <1>2, <1>3, <1>6, <1>14, Entries DEF Met
  <2>5. IsNew(Nodes(list1), Nodes(list2)[Passed + 1]) <=> flag # 0
    BY <2>2, <2>3, <2>4 DEF IsNew, AsNode
  <2> QED
    BY <1>2, <1>14, <2>1, <2>2, <2>5 DEF Adds
<1>15. CASE flag = 0 /\ UNCHANGED <<cell, next, tail, p>>
  <2>1. UNCHANGED <<args, tail>>
    BY <1>2, <1>15
  <2>2. Path' = Path /\ Linked' = Linked
    BY <2>1, SamePath
  <2>3. Cells'
    BY <1>8, <1>15, <2>2
  <2>4. NodeCells'
    <3>1. CASE call = "node_merge"
      <4>1. Copied' = Copied
        BY <1>4, <1>15 DEF Copied
      <4> QED
        BY <1>13, <1>14, <1>15, <3>1, <4>1
    <3>2. CASE call # "node_merge"
      BY <1>4, <3>2 DEF NodeCells
    <3> QED
      BY <3>1, <3>2
  <2>5. IpCells'
    <3> SUFFICES ASSUME call = "ip_list_merge"
                 PROVE  IpCells'
      BY <1>4 DEF IpCells
    <3>1. \E d \in Path : Orig(d).key = Orig(ptr2).key /\ cell[d].count >= Orig(ptr2).count
      <4>1. PICK d \in Path : Orig(d).key = Orig(ptr2).key
        BY <1>2, <1>3, <1>15 DEF Met
      <4>2. cell[d].count >= cell[ptr2].count
        BY <1>2, <1>3, <4>1 DEF Met
      <4>3. cell[ptr2].count >= Orig(ptr2).count
        BY <1>2, <1>3 DEF Cells, Grown
      <4>4. d \in First \cup Second /\ ptr2 \in First \cup Second
        BY <1>1, <1>2, OnPath
      <4> QED
        BY <1>7, <4>1, <4>2, <4>3, <4>4
    <3>2. ASSUME NEW c \in n1 + 1 .. n1 + (Passed + 1), c \notin Path
          PROVE  \E d \in Path : Orig(d).key = Orig(c).key /\ cell[d].count >= Orig(c).count
      <4>1. CASE c = ptr2
        BY <3>1, <4>1
      <4>2. CASE c \in n1 + 1 .. n1 + Passed
        BY <1>3, <3>2, <4>2 DEF IpCells
      <4> QED
        BY <1>12, <4>1, <4>2
    <3>3. Linked => \A c \in First : Orig(c).key # Orig(tail).key
      BY <1>3 DEF IpCells
    <3> QED
      BY <1>2, <1>4, <1>5, <1>10, <1>11, <1>15, <2>2, <3>2, <3>3 DEF IpCells
  <2> QED
    BY <1>9, <2>3, <2>4, <2>5 DEF DataInv
<1>16. CASE /\ flag = 1 /\ call = "node_merge" /\ p \in Cell
            /\ p \in remain .. remain + Passed + 1 /\ p \notin First /\ p \notin Second
            /\ cell' = [cell EXCEPT ![p] = cell[ptr2]]
            /\ next' = [next EXCEPT ![p] = p + 1]
            /\ p' = p + 1 /\ tail' = p
  <2>1. /\ \A c \in Cell : c # p => cell'[c] = cell[c]
        /\ cell'[p] = cell[ptr2]
    BY <1>1, <1>16 DEF TypeOK
  <2>2. \A c \in First \cup Second : cell'[c] = cell[c]
    BY <1>1, <1>16, <2>1
  <2>3. Path' = First
    BY <1>4, <1>16 DEF Path, Linked
  <2>4. Cells'
    BY <1>1, <1>8, <1>16, <2>2, <2>3
  <2>5. cell[ptr2] = list2[Passed + 1]
    <3>1. ptr2 \notin Path
      BY <1>1, <1>2, <1>16, ListCells
    <3> QED
      BY <1>2, <1>3, <1>6, <3>1 DEF Cells
  <2>6. tail \in remain .. remain + Passed /\ p = tail + 1 /\ remain \in Nat
    BY <1>1, <1>2, <1>16 DEF Heap, Copies, remain
  <2>7. Copied' = Append(Copied, AsNode(list2[Passed + 1]))
    <3> DEFINE m == tail - remain
               x == AsNode(list2[Passed + 1])
               S == {x} \cup {AsNode(cell[remain + k]) : k \in 1 .. m}
    <3>1. m \in Nat /\ p - remain = m + 1 /\ remain + (m + 1) = p
      BY <1>1, <1>2, <2>6
    <3>2. Copied \in Seq(S) /\ Len(Copied) = m /\ x \in S
          /\ \A k \in 1 .. m : Copied[k] = AsNode(cell[remain + k])
      <4>1. Copied = [k \in 1 .. m |-> AsNode(cell[remain + k])]
        BY DEF Copied
      <4> HIDE DEF m, x
      <4> QED
        BY <3>1, <4>1
    <3>3. Copied' = [k \in 1 .. m + 1 |-> AsNode(cell'[remain + k])]
      <4>1. Copied' = [k \in 1 .. p - remain |-> AsNode(cell'[remain + k])]
        BY <1>4, <1>16 DEF Copied, AsNode
      <4> QED
        BY <3>1, <4>1
    <3>4. ASSUME NEW k \in 1 .. m + 1
          PROVE  AsNode(cell'[remain + k]) = IF k = m + 1 THEN x ELSE Copied[k]
      <4>1. CASE k = m + 1
        BY <2>1, <2>5, <3>1, <4>1
      <4>2. CASE k # m + 1
        <5>1. k \in 1 .. m /\ remain + k \in remain .. remain + Passed + 1 /\ remain + k # p
          BY <1>2, <2>6, <3>1, <4>2
        <5>2. remain + k \in Cell
          BY <1>1, <5>1, ListCells
        <5> QED
          BY <2>1, <3>2, <4>2, <5>1, <5>2
      <4> QED
        BY <4>1, <4>2
    <3> HIDE DEF m, x, S
    <3>5. Append(Copied, x) = [k \in 1 .. m + 1 |-> IF k = m + 1 THEN x ELSE Copied[k]]
      BY <3>2, AppendIs
    <3> QED
      BY <3>3, <3>4, <3>5 DEF x
  <2>8. NodeCells'
    BY <1>13, <1>14, <1>16, <2>2, <2>7
  <2>9. IpCells'
    BY <1>4, <1>16 DEF IpCells
  <2> QED
    BY <1>9, <2>4, <2>8, <2>9 DEF DataInv
<1>17. CASE /\ flag = 1 /\ call = "ip_list_merge"
            /\ tail = n1 /\ n1 > 0 /\ ~Linked /\ ptr2 \notin Path
            /\ next' = [next EXCEPT ![n1] = ptr2]
            /\ tail' = ptr2 /\ UNCHANGED <<cell, p>>
  <2>1. Linked' /\ Path = First /\ Path' = First \cup {c \in Second : c >= ptr2}
    BY <1>2, <1>4, <1>17 DEF Linked, Path
  <2>2. First \cap Second = {}
    BY <1>1, ListCells
  <2>3. Cells'
    BY <1>8, <1>17, <2>1
  <2>4. NodeCells'
    BY <1>4, <1>17 DEF NodeCells
  <2>5. IpCells'
    <3>1. ptr2 \in Path'
      BY <1>1, <1>2, <2>1 DEF Second
    <3>2. ASSUME NEW c \in n1 + 1 .. n1 + (Passed + 1), c \notin Path'
          PROVE  \E d \in Path' : Orig(d).key = Orig(c).key /\ cell[d].count >= Orig(c).count
      <4>1. c \in n1 + 1 .. n1 + Passed /\ c \notin Path
        BY <1>12, <2>1, <3>1, <3>2
      <4>2. PICK d \in Path : Orig(d).key = Orig(c).key /\ cell[d].count >= Orig(c).count
        BY <1>3, <1>17, <4>1 DEF IpCells
      <4> QED
        BY <2>1, <4>2
    <3>3. \A c \in First : Orig(c).key # Orig(ptr2).key
      BY <1>2, <1>3, <1>17, <2>1 DEF Met
    <3>4. \A c : c = ptr2 => Orig(c) = Orig(ptr2) /\ Orig(c)' = Orig(c)
      BY <1>4
    <3>5. Orig(tail)' = Orig(ptr2)
      BY <1>4, <1>17 DEF Orig
    <3>6. Linked' => \A c \in First : Orig(c).key # (Orig(tail)').key
      BY <3>3, <3>5
    <3>7. ASSUME Once(list1), Once(list2), NEW i \in First, NEW j \in 1 .. Seen(i)'
          PROVE  ~Clash(list1[i], list2[j])
      BY <1>5, <1>10, <1>17, <3>7
    <3> QED
      BY <1>2, <1>4, <1>11, <1>17, <3>2, <3>6, <3>7 DEF IpCells
  <2> QED
    BY <1>9, <2>3, <2>4, <2>5 DEF DataInv
<1> QED
  BY <1>15, <1>16, <1>17, AddFacts

LEMMA InvCorrect == Spec => []ListInv
<1>1. Init => ListInv
  BY InitShape, InitData DEF ListInv
<1>2. ListInv /\ [Next]_vars => ListInv'
  <2> SUFFICES ASSUME ListInv, [Next]_vars
               PROVE  ListInv'
    OBVIOUS
  <2>1. ShapeInv /\ DataInv
    BY DEF ListInv
  <2>2. ShapeInv'
    BY <2>1, NextShape
  <2>3. DataInv'
    BY <2>1, OuterData, RunData, InnerData, AddData, FollowsNothingData, StutterData DEF Next
  <2> QED
    BY <2>2, <2>3 DEF ListInv
<1> QED
  BY <1>1, <1>2, PTL DEF Spec

-----------------------------------------------------------------------------
(* What the caller gets *)

\* The list that Result reads, if the cells g hang together and NULL ends them.
LEMMA ResultIs ==
    ASSUME Args, NEW L \in Nat \ {0}, NEW g, L <= 3 * Longest + 2,
           \A k \in 1 .. L : g[k] \in Cell,
           head1 = g[1],
           \A k \in 1 .. L : next[g[k]] = IF k = L THEN NULL ELSE g[k + 1]
    PROVE  EndsInNull /\ Result = [k \in 1 .. L |-> cell[g[k]]]
<1> DEFINE N == 3 * Longest + 2
           V == [k \in 0 .. N |-> IF k < L THEN g[k + 1] ELSE NULL]
           Way(v) == [k \in 0 .. N |-> IF k = 0 THEN head1
                                       ELSE IF InCell(v[k - 1]) THEN next[v[k - 1]] ELSE v[k - 1]]
           S == {k \in Nat : k <= N => Visited[k] = V[k]}
<1>1. Longest \in Nat /\ N \in Nat /\ NULL \notin Cell
  BY Sizes, CellIsNat
<1>2. \A k \in 0 .. N : V[k] = IF k < L THEN g[k + 1] ELSE NULL
  OBVIOUS
<1>3. \A k \in 1 .. N : IF InCell(V[k - 1]) THEN V[k] = next[V[k - 1]] ELSE V[k] = V[k - 1]
  <2> SUFFICES ASSUME NEW k \in 1 .. N
               PROVE  IF InCell(V[k - 1]) THEN V[k] = next[V[k - 1]] ELSE V[k] = V[k - 1]
    OBVIOUS
  <2>1. k \in 0 .. N /\ k - 1 \in 0 .. N /\ (k - 1) + 1 = k
    BY <1>1
  <2> HIDE DEF V, N
  <2>2. CASE k - 1 < L
    <3>1. V[k - 1] = g[k] /\ k \in 1 .. L
      BY <1>2, <2>1, <2>2
    <3>2. V[k] = IF k = L THEN NULL ELSE g[k + 1]
      BY <1>2, <2>1, <3>1
    <3> QED
      BY <3>1, <3>2 DEF InCell
  <2>3. CASE ~(k - 1 < L)
    <3>1. V[k - 1] = NULL /\ V[k] = NULL
      BY <1>2, <2>1, <2>3
    <3> QED
      BY <1>1, <3>1 DEF InCell
  <2> QED
    BY <2>2, <2>3
<1>4. V[0] = head1
  BY <1>1
<1>5. V = Way(V)
  <2>1. V = [k \in 0 .. N |-> V[k]]
    OBVIOUS
  <2>2. \A k \in 0 .. N : V[k] = Way(V)[k]
    <3> SUFFICES ASSUME NEW k \in 0 .. N
                 PROVE  V[k] = Way(V)[k]
      OBVIOUS
    <3>1. CASE k = 0
      BY <1>4, <3>1
    <3>2. CASE k # 0
      <4>1. k \in 1 .. N
        BY <1>1, <3>2
      <4> HIDE DEF V, N
      <4> QED
        BY <1>3, <3>2, <4>1
    <3> QED
      BY <3>1, <3>2
  <2> HIDE DEF V, N
  <2> QED
    BY <2>1, <2>2
<1>6. Visited = Way(Visited)
  <2>1. Visited = CHOOSE v : v = Way(v)
    BY DEF Visited
  <2> HIDE DEF V
  <2> QED
    BY <1>5, <2>1
<1> HIDE DEF V, N
<1>7. S = Nat
  <2>1. 0 \in S
    BY <1>1, <1>4, <1>6
  <2>2. ASSUME NEW k \in S
        PROVE  k + 1 \in S
    <3>1. k \in Nat /\ k + 1 \in Nat /\ (k + 1) - 1 = k
      OBVIOUS
    <3> SUFFICES ASSUME k + 1 <= N
                 PROVE  Visited[k + 1] = V[k + 1]
      BY <3>1
    <3>2. Visited[k] = V[k] /\ k + 1 \in 1 .. N /\ k + 1 # 0
      BY <1>1, <3>1
    <3>3. Visited[k + 1] = IF InCell(Visited[k]) THEN next[Visited[k]] ELSE Visited[k]
      BY <1>1, <1>6, <3>1, <3>2
    <3> QED
      BY <1>3, <3>1, <3>2, <3>3
  <2>3. S \in SUBSET Nat
    OBVIOUS
  <2> HIDE DEF S
  <2> QED
    BY <2>1, <2>2, <2>3, NatSet
<1>8. \A k \in 0 .. N : Visited[k] = IF k < L THEN g[k + 1] ELSE NULL
  BY <1>1, <1>2, <1>7
<1>9. EndsInNull
  BY <1>1, <1>8 DEF EndsInNull, N
<1>10. \A k \in 0 .. N : Visited[k] = NULL /\ (\A j \in 0 .. k - 1 : Visited[j] # NULL) <=> k = L
  <2> SUFFICES ASSUME NEW k \in 0 .. N
               PROVE  Visited[k] = NULL /\ (\A j \in 0 .. k - 1 : Visited[j] # NULL) <=> k = L
    OBVIOUS
  <2>1. k < L => Visited[k] # NULL
    BY <1>1, <1>8
  <2>2. k > L => Visited[L] = NULL /\ L \in 0 .. k - 1
    BY <1>1, <1>8
  <2>3. k = L => Visited[k] = NULL /\ \A j \in 0 .. k - 1 : Visited[j] # NULL
    <3> SUFFICES ASSUME k = L, NEW j \in 0 .. k - 1
                 PROVE  Visited[j] # NULL
      BY <1>8
    <3>1. j \in 0 .. N /\ j < L /\ j + 1 \in 1 .. L
      BY <1>1
    <3> QED
      BY <1>1, <1>8, <3>1
  <2> QED
    BY <1>1, <2>1, <2>2, <2>3
<1>11. (CHOOSE k \in 0 .. N : Visited[k] = NULL /\ \A j \in 0 .. k - 1 : Visited[j] # NULL) = L
  <2>1. L \in 0 .. N
    BY <1>1 DEF N
  <2> QED
    BY <1>10, <2>1
<1>12. Result = [k \in 1 .. L |-> cell[Visited[k - 1]]]
  BY <1>11 DEF Result, N
<1>13. \A k \in 1 .. L : Visited[k - 1] = g[k]
  <2> SUFFICES ASSUME NEW k \in 1 .. L
               PROVE  Visited[k - 1] = g[k]
    OBVIOUS
  <2>1. k - 1 \in 0 .. N /\ k - 1 < L /\ (k - 1) + 1 = k
    BY <1>1 DEF N
  <2> QED
    BY <1>8, <2>1
<1> QED
  BY <1>9, <1>12, <1>13

\* The cells of the merged list, in their order.
Total == IF call = "node_merge" THEN n1 + (tail - remain)
         ELSE IF Linked THEN n1 + (n1 + n2 + 1 - tail) ELSE n1
At    == [k \in 1 .. Total |-> IF k <= n1 THEN k
                               ELSE IF call = "node_merge" THEN remain + (k - n1)
                               ELSE tail + (k - n1 - 1)]

\* The merged list ends, and all entries of the second list were dealt with.
LEMMA MergedIs ==
    ASSUME ListInv, Merged
    PROVE  /\ EndsInNull /\ Result = [k \in 1 .. Total |-> cell[At[k]]]
           /\ Total \in Nat \ {0} /\ n1 > 0 /\ n1 <= Total
           /\ Passed = n2 /\ (\A c : Seen(c) = n2)
           /\ Cells /\ NodeCells /\ IpCells
           /\ call = "node_merge" => tail - remain \in Nat
<1>1. /\ ShapeInv /\ Args /\ TypeOK /\ Where /\ Heap /\ Outcome
      /\ n1 \in Nat /\ n2 \in Nat /\ tail \in Cell /\ tail \in Nat
      /\ NULL # WILD /\ NULL \notin Cell
      /\ First \subseteq Cell /\ Second \subseteq Cell
  BY Facts DEF ListInv
<1>2. pc = "returned" /\ value # -1 /\ Cells /\ NodeCells /\ IpCells
  BY DEF Merged, ListInv, DataInv, Going
<1>3. n1 > 0 /\ end1 = NULL /\ ptr2 = NULL /\ end2 = NULL
  BY <1>1, <1>2 DEF Outcome, Where
<1>4. Passed = n2
  BY <1>1, <1>3 DEF Passed
<1>5. \A c : Seen(c) = n2
  BY <1>2, <1>4 DEF Seen
<1>6. /\ Longest \in Nat /\ n1 <= Longest /\ n2 <= Longest
  BY <1>1, Sizes
<1>7. call = "node_merge" => tail - remain \in 0 .. n2
  BY <1>1, <1>4 DEF Heap, Copies, remain
<1>8. call # "node_merge" /\ Linked => tail \in n1 + 1 .. n1 + n2
  BY DEF Linked, Second
<1>9. Total \in Nat \ {0} /\ n1 <= Total /\ Total <= n1 + n2
  BY <1>1, <1>3, <1>7, <1>8 DEF Total
<1>10. \A k \in 1 .. Total : At[k] = IF k <= n1 THEN k
                                     ELSE IF call = "node_merge" THEN remain + (k - n1)
                                     ELSE tail + (k - n1 - 1)
  BY DEF At
<1>11. head1 = At[1]
  <2>1. 1 \in 1 .. Total
    BY <1>9
  <2>2. At[1] = 1
    BY <1>1, <1>3, <1>10, <2>1
  <2> QED
    BY <1>1, <1>3, <2>2, Heads
<1>12. ASSUME NEW k \in 1 .. Total
       PROVE  At[k] \in Cell /\ next[At[k]] = IF k = Total THEN NULL ELSE At[k + 1]
  <2>1. CASE call = "node_merge"
    <3>1. /\ \A c \in 1 .. n1 - 1 : next[c] = c + 1
          /\ \A c \in remain + 1 .. tail - 1 : next[c] = c + 1
          /\ next[n1] = IF tail = remain THEN NULL ELSE remain + 1
          /\ tail # remain => next[tail] = NULL
          /\ remain \in Nat /\ tail >= remain
          /\ Total = n1 + (tail - remain)
      BY <1>1, <1>2, <1>7, <2>1 DEF Heap, Copies, remain, Total
    <3>2. CASE k < n1
      <4>1. At[k] = k /\ k \in 1 .. n1 - 1 /\ At[k + 1] = k + 1 /\ k # Total /\ k \in First
        BY <1>1, <1>9, <1>10, <3>2 DEF First
      <4> QED
        BY <1>1, <3>1, <4>1
    <3>3. CASE k = n1
      <4>1. At[k] = n1 /\ n1 \in First
        BY <1>1, <1>3, <1>10, <3>3 DEF First
      <4>2. tail = remain <=> k = Total
        BY <1>1, <3>1, <3>3
      <4>3. k # Total => At[k + 1] = remain + 1
        <5> SUFFICES ASSUME k # Total
                     PROVE  At[k + 1] = remain + 1
          OBVIOUS
        <5>1. k + 1 \in 1 .. Total /\ ~(k + 1 <= n1) /\ (k + 1) - n1 = 1
          BY <1>1, <1>9, <3>3
        <5> QED
          BY <1>10, <2>1, <5>1
      <4> QED
        BY <1>1, <3>1, <4>1, <4>2, <4>3
    <3>4. CASE k > n1
      <4>1. At[k] = remain + (k - n1) /\ remain + (k - n1) \in remain + 1 .. tail
        BY <1>1, <1>10, <2>1, <3>1, <3>4
      <4>2. At[k] \in Cell
        <5>1. remain + (k - n1) \in remain .. remain + Passed + 1
          BY <1>1, <1>4, <1>7, <2>1, <3>1, <3>4, <4>1
        <5> QED
          BY <1>1, <4>1, <5>1, ListCells
      <4>3. CASE k = Total
        <5>1. At[k] = tail /\ tail # remain
          BY <1>1, <3>1, <3>4, <4>1, <4>3
        <5> QED
          BY <3>1, <4>2, <4>3, <5>1
      <4>4. CASE k # Total
        <5>1. At[k] \in remain + 1 .. tail - 1
          BY <1>1, <3>1, <3>4, <4>1, <4>4
        <5>2. At[k + 1] = remain + (k - n1) + 1
          <6>1. k + 1 \in 1 .. Total /\ ~(k + 1 <= n1)
            BY <1>1, <1>9, <3>4, <4>4
          <6>2. At[k + 1] = remain + ((k + 1) - n1)
            BY <1>10, <2>1, <6>1
          <6> QED
            BY <1>1, <3>1, <6>2
        <5> QED
          BY <3>1, <4>1, <4>2, <4>4, <5>1, <5>2
      <4> QED
        BY <4>3, <4>4
    <3> QED
      BY <1>1, <3>2, <3>3, <3>4
  <2>2. CASE call # "node_merge"
    <3>1. \A c \in First \cup Second : next[c] = After(c)
      BY <1>1, <2>2 DEF Heap, Joint
    <3>2. Total = IF Linked THEN n1 + (n1 + n2 + 1 - tail) ELSE n1
      BY <2>2 DEF Total
    <3>3. CASE k < n1
      <4>1. At[k] = k /\ At[k + 1] = k + 1 /\ k # Total /\ k \in First
        BY <1>1, <1>9, <1>10, <3>3 DEF First
      <4>2. After(k) = k + 1
        <5>1. k # n1 /\ k # n1 + n2
          BY <1>1, <1>9, <3>3
        <5> QED
          BY <5>1 DEF After
      <4> QED
        BY <1>1, <3>1, <4>1, <4>2
    <3>4. CASE k = n1
      <4>1. At[k] = n1 /\ n1 \in First
        BY <1>1, <1>3, <1>10, <3>4 DEF First
      <4>2. Linked => k # Total /\ At[k + 1] = tail
        <5> SUFFICES ASSUME Linked
                     PROVE  k # Total /\ At[k + 1] = tail
          OBVIOUS
        <5>1. k # Total
          BY <1>1, <1>8, <2>2, <3>2, <3>4
        <5>2. k + 1 \in 1 .. Total /\ ~(k + 1 <= n1) /\ tail + ((k + 1) - n1 - 1) = tail
          BY <1>1, <1>9, <3>4, <5>1
        <5> QED
          BY <1>10, <2>2, <5>1, <5>2
      <4>3. ~Linked => k = Total
        BY <3>2, <3>4
      <4> QED
        BY <1>1, <1>3, <3>1, <4>1, <4>2, <4>3 DEF After
    <3>5. CASE k > n1
      <4>1. Linked /\ tail \in n1 + 1 .. n1 + n2 /\ Total = n1 + (n1 + n2 + 1 - tail)
        BY <1>1, <1>8, <2>2, <3>2, <3>5
      <4>2. At[k] = tail + (k - n1 - 1) /\ tail + (k - n1 - 1) \in tail .. n1 + n2
        BY <1>1, <1>10, <2>2, <3>5, <4>1
      <4>3. At[k] \in Second /\ At[k] # n1
        BY <1>1, <4>1, <4>2 DEF Second
      <4>4. next[At[k]] = IF At[k] = n1 + n2 THEN NULL ELSE At[k] + 1
        BY <1>3, <3>1, <4>3 DEF After
      <4>5. CASE k = Total
        <5>1. At[k] = n1 + n2
          BY <1>1, <4>1, <4>2, <4>5
        <5> QED
          BY <1>1, <4>3, <4>4, <4>5, <5>1
      <4>6. CASE k # Total
        <5>1. At[k] # n1 + n2
          BY <1>1, <4>1, <4>2, <4>6
        <5>2. At[k + 1] = At[k] + 1
          <6>1. k + 1 \in 1 .. Total /\ ~(k + 1 <= n1)
            BY <1>1, <1>9, <3>5, <4>6
          <6>2. At[k + 1] = tail + ((k + 1) - n1 - 1)
            BY <1>10, <2>2, <6>1
          <6> QED
            BY <1>1, <4>2, <6>2
        <5> QED
          BY <1>1, <4>3, <4>4, <4>6, <5>1, <5>2
      <4> QED
        BY <4>5, <4>6
    <3> QED
      BY <1>1, <3>3, <3>4, <3>5
  <2> QED
    BY <2>1, <2>2
<1>13. EndsInNull /\ Result = [k \in 1 .. Total |-> cell[At[k]]]
  <2>1. Total <= 3 * Longest + 2
    BY <1>1, <1>6, <1>9
  <2> HIDE DEF Total
  <2> QED
    BY <1>1, <1>9, <1>11, <1>12, <2>1, ResultIs
<1> QED
  BY <1>2, <1>3, <1>4, <1>5, <1>7, <1>9, <1>13

\* The first list comes first, and every cell of the path has its place behind it.
LEMMA AtIs ==
    ASSUME ListInv, Merged
    PROVE  /\ \A k \in First : k \in 1 .. Total /\ At[k] = k
           /\ call = "ip_list_merge" =>
                 /\ \A k \in 1 .. Total : At[k] \in Path
                 /\ \A c \in Path : \E k \in 1 .. Total : At[k] = c
                 /\ \A j, k \in 1 .. Total : At[j] = At[k] => j = k
<1>1. /\ Args /\ n1 \in Nat /\ n2 \in Nat /\ tail \in Nat
      /\ Total \in Nat /\ n1 > 0 /\ n1 <= Total
  BY Facts, MergedIs DEF ListInv
<1>2. \A k \in 1 .. Total : At[k] = IF k <= n1 THEN k
                                    ELSE IF call = "node_merge" THEN remain + (k - n1)
                                    ELSE tail + (k - n1 - 1)
  BY DEF At
<1>3. \A k \in First : k \in 1 .. Total /\ At[k] = k
  BY <1>1, <1>2 DEF First
<1>4. CASE call = "ip_list_merge"
  <2>1. Linked => tail \in n1 + 1 .. n1 + n2
    BY DEF Linked, Second
  <2>2. Total = IF Linked THEN n1 + (n1 + n2 + 1 - tail) ELSE n1
    BY <1>4 DEF Total
  <2>3. ASSUME NEW k \in 1 .. Total
        PROVE  /\ k <= n1 => At[k] = k /\ k \in First
               /\ k > n1 => /\ At[k] = tail + (k - n1 - 1) /\ Linked
                            /\ At[k] \in Second /\ At[k] >= tail
    <3>1. k <= n1 => At[k] = k /\ k \in First
      BY <1>1, <1>2 DEF First
    <3>2. k > n1 => At[k] = tail + (k - n1 - 1) /\ Linked
      BY <1>1, <1>2, <1>4, <2>2
    <3>3. k > n1 => At[k] \in Second /\ At[k] >= tail
      BY <1>1, <2>1, <2>2, <3>2 DEF Second
    <3> QED
      BY <3>1, <3>2, <3>3
  <2>4. \A k \in 1 .. Total : At[k] \in Path
    <3> SUFFICES ASSUME NEW k \in 1 .. Total
                 PROVE  At[k] \in Path
      OBVIOUS
    <3>1. k <= n1 \/ k > n1
      BY <1>1
    <3> QED
      BY <2>3, <3>1 DEF Path
  <2>5. ASSUME NEW c \in Path
        PROVE  \E k \in 1 .. Total : At[k] = c
    <3>1. CASE c \in First
      BY <1>3, <3>1
    <3>2. CASE c \notin First
      <4>1. Linked /\ c \in tail .. n1 + n2
        BY <1>1, <3>2 DEF Path, Second
      <4> DEFINE k == n1 + 1 + (c - tail)
      <4>2. k \in 1 .. Total /\ k > n1 /\ tail + (k - n1 - 1) = c
        BY <1>1, <2>1, <2>2, <4>1
      <4> HIDE DEF k
      <4> QED
        BY <2>3, <4>2
    <3> QED
      BY <3>1, <3>2
  <2>6. ASSUME NEW j \in 1 .. Total, NEW k \in 1 .. Total, At[j] = At[k]
        PROVE  j = k
    <3>1. \A i \in 1 .. Total : /\ i <= n1 => At[i] = i
                                /\ i > n1 => At[i] = tail + (i - n1 - 1) /\ At[i] > n1
      <4> SUFFICES ASSUME NEW i \in 1 .. Total
                   PROVE  /\ i <= n1 => At[i] = i
                          /\ i > n1 => At[i] = tail + (i - n1 - 1) /\ At[i] > n1
        OBVIOUS
      <4>1. \A c \in Second : c > n1
        BY <1>1 DEF Second
      <4> QED
        BY <2>3, <4>1
    <3>2. j \in Nat /\ k \in Nat
      BY <1>1
    <3> HIDE DEF Total
    <3> QED
      BY <1>1, <2>6, <3>1, <3>2
  <2> QED
    BY <1>3, <2>4, <2>5, <2>6
<1> QED
  BY <1>3, <1>4

\* ip_list_merge's list ends, holds every address of both lists with no smaller
\* count, and holds no entry that neither list had.
THEOREM IpListMergeKeepsCorrect == Spec => []IpListMergeKeeps
<1>1. ASSUME ListInv
      PROVE  IpListMergeKeeps
  <2> SUFFICES ASSUME Merged, call = "ip_list_merge"
               PROVE  /\ EndsInNull
                      /\ Nodes(Result) # <<>> /\ HoldsAll(Nodes(Result), Nodes(list1))
                      /\ HoldsAll(Nodes(Result), Nodes(list2))
                      /\ \A i \in DOMAIN Result : \/ \E j \in DOMAIN list1 : Result[i] = list1[j]
                                                  \/ \E j \in DOMAIN list2 : Result[i] = list2[j]
    BY DEF IpListMergeKeeps
  <2>1. /\ EndsInNull /\ Result = [k \in 1 .. Total |-> cell[At[k]]]
        /\ Total \in Nat \ {0} /\ n1 <= Total /\ Passed = n2 /\ (\A c : Seen(c) = n2)
        /\ Cells /\ IpCells
    BY <1>1, MergedIs
  <2>2. /\ \A k \in First : k \in 1 .. Total /\ At[k] = k
        /\ \A k \in 1 .. Total : At[k] \in Path
        /\ \A c \in Path : \E k \in 1 .. Total : At[k] = c
    BY <1>1, AtIs
  <2>3. /\ Args /\ n1 \in Nat /\ n2 \in Nat /\ Path \subseteq First \cup Second
        /\ DOMAIN list1 = 1 .. n1 /\ DOMAIN list2 = 1 .. n2
    BY <1>1, Facts, OnPath, Sizes DEF ListInv
  <2>4. \A c \in First \cup Second : Grown(c) /\ Orig(c).count \in Int /\ cell[c].count \in Int
    <3>1. Passed \in 0 .. n2 /\ (pc = "inner" => FALSE)
      BY <2>1, <2>3 DEF Merged
    <3> QED
      BY <2>1, <2>3, <3>1, Entries, CellEntries DEF Cells
  <2> DEFINE R == Nodes(Result)
  <2>5. /\ DOMAIN Result = 1 .. Total /\ DOMAIN R = 1 .. Total
        /\ \A k \in 1 .. Total : /\ Result[k] = cell[At[k]] /\ R[k].id = cell[At[k]].key
                                 /\ R[k].node_count = cell[At[k]].count
    BY <2>1 DEF Nodes
  <2>6. R # <<>>
    <3>1. 1 \in DOMAIN R
      BY <2>1, <2>5
    <3> HIDE DEF R
    <3> QED
      BY <3>1
  <2>7. ASSUME NEW c \in First \cup Second, NEW d \in Path, Orig(d).key = Orig(c).key,
               cell[d].count >= Orig(c).count
        PROVE  Holds(R, [id |-> Orig(c).key, node_count |-> Orig(c).count, ip_list |-> Orig(c).info])
    <3>1. PICK k \in 1 .. Total : At[k] = d
      BY <2>2
    <3>2. R[k].id = Orig(c).key /\ R[k].node_count >= Orig(c).count
      BY <2>3, <2>4, <2>5, <2>7, <3>1 DEF Grown
    <3> HIDE DEF R
    <3> QED
      BY <2>5, <3>2 DEF Holds
  <2> HIDE DEF R
  <2>8. HoldsAll(R, Nodes(list1))
    <3> SUFFICES ASSUME NEW i \in 1 .. n1
                 PROVE  Holds(R, Nodes(list1)[i])
      BY <2>3 DEF HoldsAll, Nodes
    <3>1. i \in First /\ i \in Path /\ Orig(i) = list1[i]
      BY <2>3, Entries DEF First, Path
    <3>2. Nodes(list1)[i] = [id |-> Orig(i).key, node_count |-> Orig(i).count,
                             ip_list |-> Orig(i).info]
      BY <2>3, <3>1 DEF Nodes
    <3>3. cell[i].count >= Orig(i).count
      BY <2>4, <3>1 DEF Grown
    <3> QED
      BY <2>7, <3>1, <3>2, <3>3
  <2>9. HoldsAll(R, Nodes(list2))
    <3> SUFFICES ASSUME NEW j \in 1 .. n2
                 PROVE  Holds(R, Nodes(list2)[j])
      BY <2>3 DEF HoldsAll, Nodes
    <3> DEFINE c == n1 + j
    <3>1. c \in Second /\ Orig(c) = list2[j]
      BY <2>3, Entries
    <3>2. Nodes(list2)[j] = [id |-> Orig(c).key, node_count |-> Orig(c).count,
                             ip_list |-> Orig(c).info]
      BY <2>3, <3>1 DEF Nodes
    <3>3. c \in n1 + 1 .. n1 + Passed
      BY <2>1, <2>3
    <3> HIDE DEF c
    <3>4. CASE c \in Path
      <4>1. cell[c].count >= Orig(c).count
        BY <2>4, <3>1 DEF Grown
      <4> QED
        BY <2>7, <3>1, <3>2, <3>4, <4>1
    <3>5. CASE c \notin Path
      <4>1. PICK d \in Path : Orig(d).key = Orig(c).key /\ cell[d].count >= Orig(c).count
        BY <2>1, <3>3, <3>5 DEF IpCells
      <4> QED
        BY <2>7, <3>1, <3>2, <4>1
    <3> QED
      BY <3>4, <3>5
  <2>10. ASSUME NEW i \in DOMAIN Result
         PROVE  \/ \E j \in DOMAIN list1 : Result[i] = list1[j]
                \/ \E j \in DOMAIN list2 : Result[i] = list2[j]
    <3>1. PICK c \in First \cup Second : Result[i] = cell[c]
      BY <2>2, <2>3, <2>5
    <3>2. CASE cell[c] = Orig(c)
      BY <2>3, <3>1, <3>2, Entries
    <3>3. CASE cell[c] # Orig(c)
      BY <2>1, <2>3, <2>4, <3>1, <3>3 DEF Grown
    <3> QED
      BY <3>2, <3>3
  <2> QED
    BY <2>1, <2>6, <2>8, <2>9, <2>10 DEF R
<1> QED
  BY <1>1, InvCorrect, PTL

\* -1 is returned if and only if one address has two types with one count, when
\* no list names an address twice.
THEOREM ConflictIsReportedCorrect == Spec => []ConflictIsReported
<1>1. ASSUME ListInv
      PROVE  ConflictIsReported
  <2> SUFFICES ASSUME pc = "returned", call = "ip_list_merge", Once(list1), Once(list2)
               PROVE  value = -1 <=> \E i \in DOMAIN list1, j \in DOMAIN list2 :
                                        Clash(list1[i], list2[j])
    BY DEF ConflictIsReported, Clash
  <2>1. DOMAIN list1 = First /\ DOMAIN list2 = 1 .. n2
    BY <1>1, Facts, Sizes DEF ListInv, First
  <2>2. CASE value = -1
    BY <1>1, <2>1, <2>2 DEF ListInv, DataInv, Stopped
  <2>3. CASE value # -1
    <3>1. IpCells /\ \A c : Seen(c) = n2
      BY <1>1, <2>3, MergedIs DEF Merged
    <3> QED
      BY <2>1, <2>3, <3>1 DEF IpCells
  <2> QED
    BY <2>2, <2>3
<1> QED
  BY <1>1, InvCorrect, PTL

\* The merged list of two lists without duplicates has one only if a known
\* address stood behind a new one in the second list.
THEOREM AddressesOnceCorrect == Spec => []AddressesOnce
<1>1. ASSUME ListInv
      PROVE  AddressesOnce
  <2> SUFFICES ASSUME Merged, call = "ip_list_merge", Once(list1), Once(list2), ~Once(Result)
               PROVE  \E i, j \in DOMAIN list2 :
                         i < j /\ list2[i].key \notin Keys(list1) /\ list2[j].key \in Keys(list1)
    BY DEF AddressesOnce
  <2>1. /\ Result = [k \in 1 .. Total |-> cell[At[k]]]
        /\ Cells /\ IpCells
    BY <1>1, MergedIs
  <2>2. /\ \A k \in 1 .. Total : At[k] \in Path
        /\ \A j, k \in 1 .. Total : At[j] = At[k] => j = k
    BY <1>1, AtIs
  <2>3. /\ Args /\ n1 \in Nat /\ n2 \in Nat /\ Path \subseteq First \cup Second /\ tail \in Nat
        /\ DOMAIN list1 = First /\ DOMAIN list2 = 1 .. n2
    BY <1>1, Facts, OnPath, Sizes DEF ListInv, First
  <2>4. PICK a \in 1 .. Total, b \in 1 .. Total :
               a # b /\ cell[At[a]].key = cell[At[b]].key
    BY <2>1 DEF Once
  <2>5. PICK c \in Path, d \in Path : c # d /\ Orig(c).key = Orig(d).key
    BY <2>1, <2>2, <2>3, <2>4 DEF Cells, Grown
  <2>6. /\ \A e \in First : Orig(e) = list1[e]
        /\ \A e \in Second : Orig(e) = list2[e - n1] /\ e - n1 \in 1 .. n2 /\ e \in Int
    BY <2>3, Entries DEF Second
  <2>7. ~(c \in First /\ d \in First)
    BY <2>3, <2>5, <2>6 DEF Once
  <2>8. ~(c \in Second /\ d \in Second)
    <3> SUFFICES ASSUME c \in Second, d \in Second
                 PROVE  FALSE
      OBVIOUS
    <3>1. c - n1 = d - n1
      BY <2>3, <2>5, <2>6 DEF Once
    <3> QED
      BY <2>3, <2>5, <2>6, <3>1
  <2>9. PICK e \in First, f \in Second : f \in Path /\ Orig(e).key = Orig(f).key
    BY <2>3, <2>5, <2>7, <2>8
  <2>10. Linked /\ f >= tail
    BY <2>3, <2>9, ListCells DEF Path
  <2>11. \A x \in First : Orig(x).key # Orig(tail).key
    BY <2>1, <2>10 DEF IpCells
  <2>12. tail \in Second /\ tail # f
    BY <2>9, <2>10, <2>11 DEF Linked
  <2>13. /\ tail - n1 \in 1 .. n2 /\ f - n1 \in 1 .. n2 /\ tail - n1 < f - n1
         /\ list2[tail - n1] = Orig(tail) /\ list2[f - n1] = Orig(f)
    BY <2>3, <2>6, <2>9, <2>10, <2>12
  <2>14. list2[tail - n1].key \notin Keys(list1)
    BY <2>3, <2>6, <2>11, <2>13 DEF Keys
  <2>15. list2[f - n1].key \in Keys(list1)
    BY <2>3, <2>6, <2>9, <2>13 DEF Keys
  <2> QED
    BY <2>3, <2>13, <2>14, <2>15
<1> QED
  BY <1>1, InvCorrect, PTL

\* What the loops leave of an entry of the first list is what Merge takes.
LEMMA LeftIsNewest ==
    ASSUME Args, NEW c \in First, NEW e, Left(e, n2, c)
    PROVE  AsNode(e) = Newest(AsNode(list1[c]), Nodes(list2))
<1> DEFINE n == AsNode(list1[c])
           others == Nodes(list2)
           newer == Newer(n, others)
           Before(j, k) == \/ others[k].node_count < others[j].node_count
                           \/ /\ others[k].node_count = others[j].node_count
                              /\ j <= k
<1>1. /\ n2 \in Nat /\ DOMAIN others = 1 .. n2
      /\ \A j \in 1 .. n2 : others[j] = AsNode(list2[j]) /\ list2[j].count \in Int
      /\ list1[c].count \in Int
  BY Sizes, Entries DEF Nodes, AsNode
<1>2. newer = {j \in 1 .. n2 : list2[j].key = list1[c].key /\ list2[j].count > list1[c].count}
  BY <1>1 DEF Newer, AsNode
<1>3. Newest(n, others) =
        IF newer = {} THEN n ELSE others[CHOOSE j \in newer : \A k \in newer : Before(j, k)]
  BY DEF Newest
<1>4. \A j, k \in 1 .. n2 : Before(j, k) <=> \/ list2[k].count < list2[j].count
                                             \/ list2[k].count = list2[j].count /\ j <= k
  BY <1>1 DEF AsNode
<1> HIDE DEF n, others, newer, Before
<1>5. CASE /\ e = list1[c]
           /\ \A j \in 1 .. n2 : list2[j].key = list1[c].key => list2[j].count <= list1[c].count
  <2>1. newer = {}
    BY <1>1, <1>2, <1>5
  <2> QED
    BY <1>3, <1>5, <2>1 DEF n, others
<1>6. CASE \E j \in 1 .. n2 :
              /\ e = list2[j] /\ list2[j].key = list1[c].key /\ list2[j].count > list1[c].count
              /\ \A i \in 1 .. n2 : list2[i].key = list1[c].key =>
                    list2[i].count <= list2[j].count /\ (i < j => list2[i].count < list2[j].count)
  <2>1. PICK j \in 1 .. n2 :
              /\ e = list2[j] /\ list2[j].key = list1[c].key /\ list2[j].count > list1[c].count
              /\ \A i \in 1 .. n2 : list2[i].key = list1[c].key =>
                    list2[i].count <= list2[j].count /\ (i < j => list2[i].count < list2[j].count)
    BY <1>6
  <2>2. j \in newer /\ newer \subseteq 1 .. n2
    BY <1>2, <2>1
  <2>3. \A k \in newer : Before(j, k)
    <3> SUFFICES ASSUME NEW k \in newer
                 PROVE  Before(j, k)
      OBVIOUS
    <3>1. k \in 1 .. n2 /\ list2[k].key = list1[c].key
      BY <1>2
    <3>2. list2[k].count <= list2[j].count /\ (k < j => list2[k].count < list2[j].count)
      BY <2>1, <3>1
    <3> QED
      BY <1>1, <1>4, <3>1, <3>2
  <2>4. \A i \in newer : (\A k \in newer : Before(i, k)) => i = j
    <3> SUFFICES ASSUME NEW i \in newer, Before(i, j)
                 PROVE  i = j
      BY <2>2
    <3>1. Before(j, i) /\ i \in 1 .. n2
      BY <2>2, <2>3
    <3> QED
      BY <1>1, <1>4, <3>1
  <2>5. (CHOOSE i \in newer : \A k \in newer : Before(i, k)) = j
    BY <2>2, <2>3, <2>4
  <2>6. newer # {}
    BY <2>2
  <2> QED
    BY <1>1, <1>3, <2>1, <2>5, <2>6 DEF n, others
<1> QED
  BY <1>5, <1>6 DEF Left

\* What the loops have copied is what Merge adds.
LEMMA CopiedIsAdded ==
    ASSUME ListInv, Merged, call = "node_merge"
    PROVE  Added(Nodes(list1), Nodes(list2)) = Copied
<1>1. /\ Args /\ list2 \in Seq(Entry) /\ n2 \in Nat /\ DOMAIN list2 = 1 .. n2
  BY Facts, Sizes DEF ListInv
<1>2. NodeCells /\ Passed = n2
  BY MergedIs
<1> DEFINE E == {AsNode(e) : e \in Entry}
<1>3. Nodes(list2) \in Seq(E) /\ Len(Nodes(list2)) = n2
  <2>1. Nodes(list2) = [j \in 1 .. n2 |-> AsNode(list2[j])]
    BY <1>1 DEF Nodes, AsNode
  <2>2. \A j \in 1 .. n2 : AsNode(list2[j]) \in E
    BY <1>1
  <2> HIDE DEF E
  <2> QED
    BY <1>1, <2>1, <2>2
<1>4. \E f : Adds(f) /\ Added(Nodes(list1), Nodes(list2)) = f[n2]
  <2> HIDE DEF E
  <2> QED
    BY <1>3, AddedSolves DEF Adds
<1> QED
  BY <1>2, <1>4 DEF NodeCells

LEMMA IsSeq ==
    ASSUME NEW S, NEW n \in Nat, NEW f, f = [i \in 1 .. n |-> f[i]], \A i \in 1 .. n : f[i] \in S
    PROVE  f \in Seq(S) /\ Len(f) = n
<1>1. f \in [1 .. n -> S]
  OBVIOUS
<1> QED
  BY <1>1

\* The loops of node_merge compute Merge, whatever the lists hold and however
\* long they are.
THEOREM NodeMergeIsMergeCorrect == Spec => []NodeMergeIsMerge
<1>1. ASSUME ListInv
      PROVE  NodeMergeIsMerge
  <2> SUFFICES ASSUME Merged, call = "node_merge"
               PROVE  EndsInNull /\ Nodes(Result) = Merge(Nodes(list1), Nodes(list2))
    BY DEF NodeMergeIsMerge
  <2>1. /\ EndsInNull /\ Result = [k \in 1 .. Total |-> cell[At[k]]]
        /\ Total \in Nat \ {0} /\ n1 <= Total /\ Passed = n2 /\ (\A c : Seen(c) = n2)
        /\ NodeCells /\ tail - remain \in Nat
    BY <1>1, MergedIs
  <2>2. /\ Args /\ n1 \in Nat /\ n2 \in Nat /\ DOMAIN list1 = 1 .. n1
    BY <1>1, Facts, Sizes DEF ListInv
  <2> DEFINE s == [i \in DOMAIN Nodes(list1) |-> Newest(Nodes(list1)[i], Nodes(list2))]
             S == {s[i] : i \in 1 .. n1} \cup {Copied[k] : k \in 1 .. tail - remain}
  <2>3. Merge(Nodes(list1), Nodes(list2)) = s \o Copied
    BY <1>1, CopiedIsAdded DEF Merge
  <2>4. s = [i \in 1 .. n1 |-> AsNode(cell[i])]
    <3>1. s = [i \in 1 .. n1 |-> Newest(AsNode(list1[i]), Nodes(list2))]
      BY <2>2 DEF Nodes, AsNode
    <3>2. \A i \in 1 .. n1 : Newest(AsNode(list1[i]), Nodes(list2)) = AsNode(cell[i])
      BY <2>1, <2>2, LeftIsNewest DEF NodeCells, First
    <3> HIDE DEF s
    <3> QED
      BY <3>1, <3>2
  <2>5. Copied = [k \in 1 .. tail - remain |-> AsNode(cell[remain + k])]
    BY DEF Copied
  <2>6. s \in Seq(S) /\ Copied \in Seq(S) /\ Len(s) = n1 /\ Len(Copied) = tail - remain
    <3>1. \A i \in 1 .. n1 : s[i] \in S
      OBVIOUS
    <3>2. \A k \in 1 .. tail - remain : Copied[k] \in S
      OBVIOUS
    <3>3. s = [i \in 1 .. n1 |-> s[i]] /\ Copied = [k \in 1 .. tail - remain |-> Copied[k]]
      <4> HIDE DEF s
      <4> QED
        BY <2>4, <2>5
    <3> HIDE DEF s, S
    <3>4. s \in Seq(S) /\ Len(s) = n1
      BY <2>2, <3>1, <3>3, IsSeq
    <3>5. Copied \in Seq(S) /\ Len(Copied) = tail - remain
      BY <2>1, <3>2, <3>3, IsSeq
    <3> QED
      BY <3>4, <3>5
  <2> HIDE DEF s, S
  <2>7. /\ s \o Copied \in Seq(S) /\ Len(s \o Copied) = Total
        /\ \A k \in 1 .. Total :
              (s \o Copied)[k] = IF k <= n1 THEN s[k] ELSE Copied[k - n1]
    <3>1. Total = n1 + (tail - remain)
      BY DEF Total
    <3> DEFINE m == tail - remain
    <3>2. n1 \in Nat /\ m \in Nat /\ Len(s) = n1 /\ Len(Copied) = m
      BY <2>1, <2>2, <2>6
    <3> HIDE DEF m
    <3>3. /\ s \o Copied \in Seq(S) /\ Len(s \o Copied) = n1 + m
          /\ \A k \in 1 .. n1 + m :
                (s \o Copied)[k] = IF k <= n1 THEN s[k] ELSE Copied[k - n1]
      <4>1. PICK a, b : a = s /\ b = Copied
        OBVIOUS
      <4>2. a \in Seq(S) /\ b \in Seq(S) /\ Len(a) = n1 /\ Len(b) = m
        BY <2>6, <3>2, <4>1
      <4>3. a \o b \in Seq(S) /\ Len(a \o b) = n1 + m
        BY <3>2, <4>2
      <4>4. \A k \in 1 .. n1 + m : (a \o b)[k] = IF k <= n1 THEN a[k] ELSE b[k - n1]
        <5> TAKE k \in 1 .. n1 + m
        <5>1. CASE k <= n1
          BY <3>2, <4>2, <5>1
        <5>2. CASE ~(k <= n1)
          BY <3>2, <4>2, <5>2
        <5> QED
          BY <5>1, <5>2
      <4> QED
        BY <4>1, <4>3, <4>4
    <3> QED
      BY <3>1, <3>3 DEF m
  <2>8. ASSUME NEW k \in 1 .. Total
        PROVE  AsNode(cell[At[k]]) = (s \o Copied)[k]
    <3>1. At[k] = IF k <= n1 THEN k ELSE remain + (k - n1)
      BY DEF At
    <3>2. Total = n1 + (tail - remain)
      BY DEF Total
    <3>3. CASE k <= n1
      BY <2>1, <2>2, <2>4, <2>7, <3>1, <3>3
    <3>4. CASE ~(k <= n1)
      <4>1. k - n1 \in 1 .. tail - remain
        BY <2>1, <2>2, <3>2, <3>4
      <4>2. Copied[k - n1] = AsNode(cell[remain + (k - n1)])
        BY <2>5, <4>1
      <4> QED
        BY <2>7, <3>1, <3>4, <4>2
    <3> QED
      BY <3>3, <3>4
  <2>9. Nodes(Result) = [k \in 1 .. Total |-> AsNode(cell[At[k]])]
    BY <2>1 DEF Nodes, AsNode
  <2>10. s \o Copied = [k \in 1 .. Total |-> (s \o Copied)[k]]
    <3> DEFINE t == s \o Copied
    <3>1. t \in Seq(S) /\ Len(t) = Total
      BY <2>7
    <3> HIDE DEF t
    <3>2. t = [k \in 1 .. Total |-> t[k]]
      BY <3>1
    <3> QED
      BY <3>2 DEF t
  <2> QED
    BY <2>1, <2>3, <2>8, <2>9, <2>10
<1> QED
  BY <1>1, InvCorrect, PTL

-----------------------------------------------------------------------------
(* Every step brings the function nearer to its end *)

LEMMA AheadFacts ==
    ASSUME ShapeInv
    PROVE  /\ \A c \in First \cup Second : Ahead(c) = n1 + n2 + 1 - c
           /\ Ahead(NULL) = 0 /\ Ahead(WILD) = 0
           /\ \A c \in Pointer : Ahead(c) \in 0 .. n1 + n2
<1>1. Args /\ n1 \in Nat /\ n2 \in Nat /\ NULL \notin Nat /\ WILD \notin Nat
  BY Facts, Sizes
<1> QED
  BY <1>1 DEF Ahead, First, Second

\* The pointer of the inner loop, or of the run, comes nearer to the path's end.
LEMMA Nearer ==
    ASSUME ShapeInv, NEW c \in Path
    PROVE  Ahead(After(c)) < Ahead(c) /\ c \in First \cup Second
<1>1. /\ Args /\ n1 \in Nat /\ n2 \in Nat /\ tail \in Nat
      /\ end1 \in {NULL, WILD} /\ end2 \in {NULL, WILD}
  BY Facts
<1>2. NULL \notin Nat /\ WILD \notin Nat
  BY <1>1, Sizes
<1>3. c \in First \cup Second /\ After(c) \in Path \cup {PathEnd} /\ PathEnd \in {NULL, WILD}
      /\ Path \subseteq First \cup Second /\ (After(c) \in Path => c < After(c))
  BY <1>1, OnPath
<1>4. Ahead(c) = n1 + n2 + 1 - c /\ Ahead(c) > 0 /\ c \in Nat
  BY <1>1, <1>3, AheadFacts DEF First, Second
<1>5. CASE After(c) \in Path
  <2> DEFINE d == After(c)
  <2>1. d \in First \cup Second /\ c < d
    BY <1>3, <1>5
  <2>2. Ahead(d) = n1 + n2 + 1 - d
    BY <2>1, AheadFacts
  <2> HIDE DEF d
  <2>3. d \in Nat
    BY <1>1, <2>1 DEF First, Second
  <2>4. Ahead(d) < Ahead(c)
    BY <1>1, <1>4, <2>1, <2>2, <2>3
  <2> QED
    BY <1>3, <2>4 DEF d
<1>6. CASE After(c) \notin Path
  BY <1>3, <1>4, <1>6, AheadFacts
<1> QED
  BY <1>3, <1>5, <1>6

Advances == Rounds' < Rounds \/ (Rounds' = Rounds /\ Walk' < Walk)

LEMMA SameAhead ==
    ASSUME UNCHANGED args
    PROVE  \A c : Ahead(c)' = Ahead(c)
BY SameArgs DEF Ahead

LEMMA OuterAdvances ==
    ASSUME ShapeInv, Outer
    PROVE  Advances
<1>1. /\ pc = "outer" /\ UNCHANGED args /\ ptr2' = ptr2 /\ call' = call
      /\ pc' \in {"inner", "run", "returned", "crashed"} /\ ptr1' = head1
      /\ pc' = "run" => call = "node_merge"
  BY DEF Outer, Here, Goto, args
<1>2. /\ Args /\ n1 \in Nat /\ n2 \in Nat /\ n1' = n1 /\ n2' = n2
      /\ ptr2 \in Pointer
  BY <1>1, Facts, SameArgs DEF TypeOK
<1>3. head1 \in Pointer
  <2>1. First \subseteq Cell /\ end1 \in {NULL, WILD}
    BY Facts
  <2> QED
    BY <1>2, <2>1, Heads DEF Pointer
<1>4. Ahead(head1) \in 0 .. n1 + n2 /\ Ahead(ptr2) \in 0 .. n1 + n2
  BY <1>2, <1>3, AheadFacts
<1>5. Ahead(ptr1)' = Ahead(head1) /\ Ahead(ptr2)' = Ahead(ptr2)
  BY <1>1, SameArgs DEF Ahead
<1>6. Rounds = Ahead(ptr2) + 1 /\ Walk = n1 + n2 + 2
  BY <1>1 DEF Rounds, Walk
<1>7. CASE pc' = "inner"
  <2>1. Rounds' = Ahead(ptr2) + 1 /\ Walk' = Ahead(head1) + 1
    BY <1>5, <1>7 DEF Rounds, Walk
  <2> QED
    BY <1>2, <1>4, <1>6, <2>1 DEF Advances
<1>8. CASE pc' # "inner"
  <2>1. Rounds' = 0
    BY <1>1, <1>8 DEF Rounds
  <2> QED
    BY <1>2, <1>4, <1>6, <2>1 DEF Advances
<1> QED
  BY <1>7, <1>8

LEMMA RunAdvances ==
    ASSUME ShapeInv, Run
    PROVE  Advances
<1>1. /\ pc = "run" /\ UNCHANGED args /\ ptr2' = ptr2 /\ call' = call
      /\ call \in {"node_merge", "ip_list_merge"}
  BY Facts DEF Run, Here, args, Args
<1>2. /\ n1 \in Nat /\ n2 \in Nat /\ n1' = n1 /\ n2' = n2
      /\ ptr2 \in Second \cup {end2} /\ end2 \in {NULL, WILD}
  BY <1>1, Facts, SameArgs DEF Where
<1>3. ptr1 \in Path /\ next[ptr1] = After(ptr1)
  BY RunFacts
<1>4. /\ Ahead(After(ptr1)) < Ahead(ptr1) /\ Ahead(ptr1) \in Nat
      /\ Ahead(After(ptr1)) \in Nat
  <2>1. ptr1 \in Pointer /\ next[ptr1] \in Pointer
    BY Facts DEF TypeOK, Run, InCell
  <2>2. Ahead(ptr1) \in 0 .. n1 + n2 /\ Ahead(next[ptr1]) \in 0 .. n1 + n2
    BY <2>1, AheadFacts
  <2> QED
    BY <1>2, <1>3, <2>2, Nearer
<1>5. Ahead(ptr2) <= n2 /\ Ahead(ptr2) \in Nat
  <2>1. \A c \in Second : Ahead(c) = n1 + n2 + 1 - c
    BY AheadFacts
  <2> QED
    BY <1>2, <2>1, AheadFacts DEF Second
<1>6. Rounds = (IF call = "ip_list_merge" THEN n2 + 2 ELSE 0) /\ Walk = Ahead(ptr1) + 1
  BY <1>1 DEF Rounds, Walk
<1>7. CASE ~AtEnd
  <2>1. pc' = "run" /\ ptr1' = After(ptr1)
    BY <1>1, <1>3, <1>7 DEF Run
  <2>2. Rounds' = Rounds /\ Walk' = Ahead(After(ptr1)) + 1
    <3>1. Ahead(ptr1)' = Ahead(After(ptr1))
      BY <1>1, <2>1, SameArgs DEF Ahead
    <3> QED
      BY <1>1, <1>2, <2>1, <3>1 DEF Rounds, Walk
  <2> QED
    BY <1>4, <1>6, <2>2 DEF Advances
<1>8. CASE AtEnd /\ call = "node_merge"
  <2>1. pc' = "returned"
    BY <1>8 DEF Run, Goto
  <2>2. Rounds' = 0 /\ Walk' = 0
    BY <2>1 DEF Rounds, Walk
  <2> QED
    BY <1>4, <1>6, <1>8, <2>2 DEF Advances
<1>9. CASE AtEnd /\ call = "ip_list_merge"
  <2>1. pc' = "outer"
    BY <1>9 DEF Run, Goto
  <2>2. Rounds' = Ahead(ptr2) + 1
    <3>1. Ahead(ptr2)' = Ahead(ptr2)
      BY <1>1, SameArgs DEF Ahead
    <3> QED
      BY <2>1, <3>1 DEF Rounds
  <2> QED
    BY <1>2, <1>5, <1>6, <1>9, <2>2 DEF Advances
<1> QED
  BY <1>1, <1>7, <1>8, <1>9

LEMMA InnerAdvances ==
    ASSUME ShapeInv, Inner
    PROVE  Advances
<1>1. /\ pc = "inner" /\ ptr1 \in Path /\ next[ptr1] = After(ptr1)
      /\ UNCHANGED args /\ ptr2' = ptr2
  <2>1. ptr1 \in Path
    BY InnerFacts
  <2>2. ptr1 \in First \cup Second
    BY <2>1, Nearer
  <2> QED
    BY <2>1, <2>2, InnerFacts
<1>2. n1 \in Nat /\ n2 \in Nat /\ ptr1 \in Pointer /\ ptr2 \in Pointer
  <2>1. ptr1 \in Pointer /\ ptr2 \in Pointer
    BY Facts DEF TypeOK
  <2> QED
    BY <2>1, Facts
<1>3. After(ptr1) \in Pointer
  BY <1>1, Facts DEF TypeOK
<1>4. /\ Ahead(After(ptr1)) < Ahead(ptr1) /\ Ahead(ptr1) \in Nat
      /\ Ahead(After(ptr1)) \in Nat /\ Ahead(ptr2) \in Nat
  BY <1>1, <1>2, <1>3, AheadFacts, Nearer
<1>5. Rounds = Ahead(ptr2) + 1 /\ Walk = Ahead(ptr1) + 1
  BY <1>1 DEF Rounds, Walk
<1>6. CASE Conflict
  <2>1. pc' = "returned"
    BY <1>6 DEF Inner, Goto
  <2>2. Rounds' = 0
    BY <2>1 DEF Rounds
  <2> QED
    BY <1>4, <1>5, <2>2 DEF Advances
<1>7. CASE ~Conflict
  <2>1. pc' = "inner" /\ ptr1' = After(ptr1)
    BY <1>1, <1>7 DEF Inner
  <2>2. Ahead(ptr1)' = Ahead(After(ptr1)) /\ Ahead(ptr2)' = Ahead(ptr2)
    BY <1>1, <2>1, SameArgs DEF Ahead
  <2>3. Rounds' = Rounds /\ Walk' = Ahead(After(ptr1)) + 1
    BY <1>5, <2>1, <2>2 DEF Rounds, Walk
  <2> QED
    BY <1>4, <1>5, <2>3 DEF Advances
<1> QED
  BY <1>6, <1>7

LEMMA AddAdvances ==
    ASSUME ShapeInv, Add
    PROVE  Advances
<1>1. /\ pc = "inner" /\ pc' = "outer" /\ UNCHANGED args /\ ptr2 \in Second
      /\ ptr2' \in Second \cup {end2} /\ Passed' = Passed + 1
      /\ Passed = ptr2 - n1 - 1
  BY AddFacts
<1>2. /\ n1 \in Nat /\ n2 \in Nat /\ end2 \in {NULL, WILD} /\ n1' = n1 /\ n2' = n2
      /\ Second' = Second
  BY <1>1, Facts, SameArgs
<1>3. Ahead(ptr2) = n1 + n2 + 1 - ptr2 /\ Ahead(ptr2) > 0 /\ ptr2 \in Nat
  <2>1. Ahead(ptr2) = n1 + n2 + 1 - ptr2
    BY <1>1, AheadFacts
  <2> QED
    BY <1>1, <1>2, <2>1 DEF Second
<1>4. PICK a \in Nat : Ahead(ptr2)' = a /\ a < Ahead(ptr2)
  <2>1. CASE ptr2' \in Second
    <3>1. PICK q \in Nat : q = ptr2' /\ q \in n1 + 1 .. n1 + n2
      BY <1>2, <2>1 DEF Second
    <3>2. q - n1 - 1 = ptr2 - n1 - 1 + 1
      BY <1>1, <1>2, <2>1, <3>1 DEF Passed
    <3>3. Ahead(ptr2)' = n1 + n2 + 1 - q
      <4>1. q \in 1 .. n1 + n2
        BY <1>2, <3>1
      <4> QED
        BY <1>2, <3>1, <4>1 DEF Ahead
    <3>4. n1 + n2 + 1 - q \in Nat /\ n1 + n2 + 1 - q < n1 + n2 + 1 - ptr2
      <4>1. n1 \in Nat /\ n2 \in Nat /\ ptr2 \in Nat /\ ptr2 <= n1 + n2
        BY <1>2, <1>3
      <4>2. q = ptr2 + 1
        BY <3>2, <4>1
      <4> QED
        BY <1>3, <4>1, <4>2
    <3> QED
      BY <1>3, <3>3, <3>4
  <2>2. CASE ptr2' \notin Second
    <3>1. Ahead(ptr2)' = 0
      <4>1. ptr2' = end2
        BY <1>1, <2>2
      <4> QED
        BY <1>1, <1>2, <4>1, SameAhead, AheadFacts
    <3> QED
      BY <1>2, <1>3, <3>1
  <2> QED
    BY <2>1, <2>2
<1>5. Rounds = Ahead(ptr2) + 1 /\ Rounds' = a + 1
  BY <1>1, <1>4 DEF Rounds
<1>6. Ahead(ptr2) \in Nat
  BY <1>2, <1>3
<1> QED
  BY <1>4, <1>5, <1>6 DEF Advances

LEMMA CrashAdvances ==
    ASSUME ShapeInv, FollowsNothing
    PROVE  Advances
<1>1. pc \in {"run", "inner"} /\ pc' = "crashed"
  BY DEF FollowsNothing, Here, Crash, Goto
<1>2. Rounds' = 0 /\ Walk' = 0
  BY <1>1 DEF Rounds, Walk
<1>3. Walk > 0 /\ Rounds \in Nat
  <2>1. n1 \in Nat /\ n2 \in Nat /\ ptr1 \in Pointer /\ ptr2 \in Pointer
    <3>1. ptr1 \in Pointer /\ ptr2 \in Pointer
      BY Facts DEF TypeOK
    <3> QED
      BY <3>1, Facts
  <2>2. Ahead(ptr1) \in Nat /\ Ahead(ptr2) \in Nat
    BY <2>1, AheadFacts
  <2> QED
    BY <1>1, <2>1, <2>2 DEF Rounds, Walk
<1> QED
  BY <1>2, <1>3 DEF Advances

\* However long the lists are, every step of either function brings it nearer to
\* its end: the entries still to come get fewer, or else the cells to be walked
\* before the next one do, and both are numbers.
THEOREM MergeAdvancesCorrect == Spec => MergeAdvances
<1>1. ShapeInv /\ [Next]_vars => [Advances]_vars
  BY OuterAdvances, RunAdvances, InnerAdvances, AddAdvances, CrashAdvances DEF Next
<1>2. Init => ShapeInv
  BY InitShape
<1>3. ShapeInv /\ [Next]_vars => ShapeInv'
  BY NextShape
<1> QED
  BY <1>1, <1>2, <1>3, PTL DEF Spec, MergeAdvances, Advances
=============================================================================
