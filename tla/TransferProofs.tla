--------------------------- MODULE TransferProofs ---------------------------
(***************************************************************************)
(* What Transfer guarantees for lists of any length, any number of         *)
(* connections and any number of deaths.                                   *)
(***************************************************************************)
EXTENDS Transfer, SequenceTheorems, TLAPS

Loops == INSTANCE NodeInfoProofs

-----------------------------------------------------------------------------
(* Lines and lists of nodes *)

Lines ==
    ({"id", "node_count"} \X Nat) \cup ({"ip"} \X Text)
        \cup ({"ip_list", "validity", "ip_list_ends", "end_node", "junk", "nul"} \X {0})

Blanks == {Junk, Nul}

Entry == [id : Nat, node_count : Nat, ip_list : Seq(Addr) \ {<<>>}]

LEMMA ListsType == Lists \subseteq Seq(Entry)
<1> SUFFICES ASSUME NEW l \in Lists
             PROVE  l \in Seq(Entry)
  OBVIOUS
<1> DEFINE Strict == [id : Nat \ {NoNumber}, node_count : Nat \ {NoNumber},
                      ip_list : Seq(Addr) \ {<<>>}]
<1>1. l \in Seq(Strict) /\ Strict \subseteq Entry
  BY TransferAssumption DEF Entry
<1> HIDE DEF Strict
<1> QED
  BY <1>1

\* A line no parser knows leaves a parser that has not crashed as it is.
LEMMA BlankTurn ==
    ASSUME NEW s, ~s.crashed, NEW x \in Blanks
    PROVE  ParseLine(s, x) = s
BY DEF ParseLine, FollowsNull, Blanks, Junk, Nul

\* A turn of the loop keeps the parser's variables in their types.
LEMMA TurnType ==
    ASSUME NEW s \in Parser, NEW x \in Lines
    PROVE  ParseLine(s, x) \in Parser
<1> DEFINE N == [id : Nat, node_count : Nat, ip_list : Seq(Text)]
           e == [id |-> s.id, node_count |-> s.node_count, ip_list |-> ListAt(s)]
           more == Append(s.nodes, e)
           longer == Append(s.full, s.ip_new)
<1>1. /\ s.nodes \in Seq(N) /\ s.id \in Nat /\ s.node_count \in Nat /\ s.full \in Seq(Text)
      /\ s.ip_new \in Text /\ <<>> \in Seq(Text) /\ NoAddress \in Text
      /\ NoNumber \in Nat
  BY DEF Parser, NoNumber, Text
<1>2. longer \in Seq(Text)
  BY <1>1
<1>3. ListAt(s) \in Seq(Text)
  BY <1>1, <1>2 DEF ListAt
<1>4. more \in Seq(N)
  <2>1. e \in N
    BY <1>1, <1>3
  <2> HIDE DEF N, e
  <2> QED
    BY <1>1, <2>1
<1>6. CASE s.crashed \/ FollowsNull(s, x)
  <2>1. ParseLine(s, x) = [s EXCEPT !.crashed = TRUE]
    BY <1>6 DEF ParseLine
  <2> QED
    BY <2>1 DEF Parser
<1>7. CASE ~(s.crashed \/ FollowsNull(s, x))
  <2>1. CASE x[1] \in {"id", "node_count"}
    <3>1. x[2] \in Nat /\ ParseLine(s, x) \in {[s EXCEPT !.id = x[2]], [s EXCEPT !.node_count = x[2]]}
      BY <1>7, <2>1 DEF ParseLine, Lines
    <3> QED
      BY <3>1 DEF Parser
  <2>2. CASE x[1] = "ip"
    <3>1. x[2] \in Text /\ ParseLine(s, x) = [s EXCEPT !.ip_new = x[2]]
      BY <1>7, <2>2 DEF ParseLine, Lines
    <3> QED
      BY <3>1 DEF Parser
  <2>3. CASE x[1] = "ip_list"
    <3>1. ParseLine(s, x) = [s EXCEPT !.begun = TRUE, !.full = <<>>, !.ip_new = NoAddress,
                                      !.header = "cell"]
      BY <1>7, <2>3 DEF ParseLine
    <3> QED
      BY <1>1, <3>1 DEF Parser
  <2>4. CASE x[1] = "validity"
    <3>1. ParseLine(s, x) \in {[s EXCEPT !.header = "past"],
                               [s EXCEPT !.full = longer, !.ip_new = NoAddress]}
      BY <1>7, <2>4 DEF ParseLine
    <3> HIDE DEF longer
    <3> QED
      BY <1>1, <1>2, <3>1 DEF Parser
  <2>5. CASE x[1] = "ip_list_ends"
    <3>1. ParseLine(s, x) = [s EXCEPT !.header = "last"]
      BY <1>7, <2>5 DEF ParseLine
    <3> QED
      BY <3>1 DEF Parser
  <2>6. CASE x[1] = "end_node"
    <3>1. ParseLine(s, x) = [s EXCEPT !.nodes = more, !.id = NoNumber,
                                      !.node_count = NoNumber, !.begun = FALSE]
      BY <1>7, <2>6 DEF ParseLine
    <3> HIDE DEF more
    <3> QED
      BY <1>1, <1>4, <3>1 DEF Parser
  <2>7. CASE x[1] \in {"junk", "nul"}
    BY <1>7, <2>7 DEF ParseLine
  <2> QED
    BY <2>1, <2>2, <2>3, <2>4, <2>5, <2>6, <2>7 DEF Lines
<1> QED
  BY <1>6, <1>7

\* The parser's variables after each line.
Reads(f, lines) ==
    /\ f[0] = Unparsed
    /\ \A i \in 0 .. Len(lines) : f[i] \in Parser
    /\ \A i \in 1 .. Len(lines) : f[i] = ParseLine(f[i - 1], lines[i])
    /\ Parse(lines) = f[Len(lines)]

LEMMA Reading ==
    ASSUME NEW lines \in Seq(Lines)
    PROVE  \E f : Reads(f, lines)
<1> DEFINE n == Len(lines)
           T(s, i) == [t \in Parser |-> ParseLine(t, lines[i])][s]
           turn == [i \in 1 .. n |-> [s \in Parser |-> ParseLine(s, lines[i])]]
           after == CHOOSE f : f = [i \in 0 .. n |-> IF i = 0 THEN Unparsed ELSE T(f[i - 1], i)]
<1>1. n \in Nat /\ Unparsed \in Parser
  BY DEF Unparsed, Parser, NoNumber, Text
<1>2. turn \in Loops!Turns(n, Parser)
  <2>1. \A i \in 1 .. n, s \in Parser : ParseLine(s, lines[i]) \in Parser
    BY TurnType
  <2> HIDE DEF n
  <2> QED
    BY <2>1 DEF Loops!Turns
<1>3. PICK f : Loops!Runs(f, n, Parser, Unparsed, turn)
  <2> HIDE DEF turn, n
  <2> QED
    BY <1>1, <1>2, Loops!Recursion
<1>4. \A i \in 1 .. n : T(f[i - 1], i) = turn[i][f[i - 1]]
  OBVIOUS
<1>5. f = [i \in 0 .. n |-> IF i = 0 THEN Unparsed ELSE T(f[i - 1], i)]
  <2> HIDE DEF T, turn, n
  <2> QED
    BY <1>1, <1>3, <1>4 DEF Loops!Runs
<1>6. after = [i \in 0 .. n |-> IF i = 0 THEN Unparsed ELSE T(after[i - 1], i)]
  <2> HIDE DEF T, n
  <2> QED
    BY <1>5
<1>7. Parse(lines) = after[n]
  BY DEF Parse
<1> HIDE DEF after
<1>8. after[0] = Unparsed /\ \A i \in 1 .. n : after[i] = T(after[i - 1], i)
  <2> HIDE DEF T, n
  <2> QED
    BY <1>1, <1>6
<1> DEFINE S == {i \in Nat : i <= n => after[i] \in Parser}
<1>9. S = Nat
  <2>1. 0 \in S
    <3> HIDE DEF T, n
    <3> QED
      BY <1>1, <1>8
  <2>2. ASSUME NEW i \in S
        PROVE  i + 1 \in S
    <3> SUFFICES ASSUME i + 1 <= n
                 PROVE  after[i + 1] \in Parser
      OBVIOUS
    <3>1. i + 1 \in 1 .. n /\ (i + 1) - 1 = i /\ after[i] \in Parser
      OBVIOUS
    <3>2. after[i + 1] = T(after[i], i + 1)
      <4> HIDE DEF T, n
      <4> QED
        BY <1>8, <3>1
    <3>3. lines[i + 1] \in Lines
      BY <3>1
    <3> QED
      BY <3>1, <3>2, <3>3, TurnType
  <2>3. S \in SUBSET Nat
    OBVIOUS
  <2> HIDE DEF S
  <2> QED
    BY <2>1, <2>2, <2>3, Loops!NatSet
<1>10. \A i \in 0 .. n : after[i] \in Parser
  <2> HIDE DEF n
  <2>1. \A i \in Nat : i \in S
    BY <1>9
  <2> QED
    BY <1>1, <2>1
<1>11. \A i \in 1 .. n : after[i] = ParseLine(after[i - 1], lines[i])
  <2> SUFFICES ASSUME NEW i \in 1 .. n
               PROVE  after[i] = ParseLine(after[i - 1], lines[i])
    OBVIOUS
  <2>1. after[i - 1] \in Parser
    BY <1>1, <1>10
  <2> QED
    BY <1>8, <2>1
<1> QED
  BY <1>7, <1>8, <1>10, <1>11 DEF Reads

-----------------------------------------------------------------------------
(* FlattenSeq *)

\* g is where the sequences start in f, one after the other.
Joins(f, seqs, g) ==
    /\ g[0] = 0 /\ \A k \in 0 .. Len(seqs) : g[k] \in Nat /\ g[k] <= Len(f)
    /\ Len(f) = g[Len(seqs)]
    /\ \A k \in 1 .. Len(seqs) :
          /\ g[k] = g[k - 1] + Len(seqs[k])
          /\ \A j \in 1 .. Len(seqs[k]) : f[g[k - 1] + j] = seqs[k][j]

LEMMA Flattened ==
    ASSUME NEW S, NEW seqs \in Seq(Seq(S))
    PROVE  FlattenSeq(seqs) \in Seq(S) /\ \E g : Joins(FlattenSeq(seqs), seqs, g)
<1> DEFINE n == Len(seqs)
           F == FlattenSeq(seqs)
<1>1. n \in Nat /\ <<>> \in Seq(S) /\ \A i \in 1 .. n : seqs[i] \in Seq(S)
  OBVIOUS
<1>2. CASE n = 0
  <2>1. F = <<>>
    BY <1>2 DEF FlattenSeq
  <2> DEFINE g == [k \in {0} |-> 0]
  <2>2. Joins(<<>>, seqs, g)
    BY <1>2 DEF Joins
  <2> QED
    BY <2>1, <2>2
<1>3. CASE n # 0
  <2> DEFINE turn == [i \in 1 .. n |-> [s \in Seq(S) |-> s \o seqs[i]]]
             flatten == CHOOSE f : f = [i \in 1 .. n |->
                                          IF i = 1 THEN seqs[i] ELSE f[i - 1] \o seqs[i]]
  <2>1. turn \in Loops!Turns(n, Seq(S))
    <3>1. \A i \in 1 .. n, s \in Seq(S) : s \o seqs[i] \in Seq(S)
      OBVIOUS
    <3> HIDE DEF n
    <3> QED
      BY <3>1 DEF Loops!Turns
  <2>2. PICK r : Loops!Runs(r, n, Seq(S), <<>>, turn)
    <3> HIDE DEF turn, n
    <3> QED
      BY <1>1, <2>1, Loops!Recursion
  <2>3. /\ r[0] = <<>> /\ \A i \in 0 .. n : r[i] \in Seq(S)
        /\ \A i \in 1 .. n : r[i] = r[i - 1] \o seqs[i]
    <3>1. /\ r[0] = <<>> /\ r \in [0 .. n -> Seq(S)]
          /\ \A i \in 1 .. n : r[i] = turn[i][r[i - 1]]
      <4> HIDE DEF turn, n
      <4> QED
        BY <2>2 DEF Loops!Runs
    <3>2. \A i \in 1 .. n, s \in Seq(S) : turn[i][s] = s \o seqs[i]
      OBVIOUS
    <3>3. ASSUME NEW i \in 1 .. n
          PROVE  r[i] = r[i - 1] \o seqs[i]
      <4>1. r[i - 1] \in Seq(S)
        <5> HIDE DEF turn, n
        <5> QED
          BY <1>1, <3>1
      <4> HIDE DEF turn, n
      <4> QED
        BY <3>1, <3>2, <4>1
    <3> HIDE DEF turn, n
    <3> QED
      BY <1>1, <3>1, <3>3
  <2> HIDE DEF turn
  <2>4. \E f : f = [i \in 1 .. n |-> IF i = 1 THEN seqs[i] ELSE f[i - 1] \o seqs[i]]
    <3> DEFINE f == [i \in 1 .. n |-> r[i]]
    <3>1. r[1] = seqs[1]
      <4>1. 1 \in 1 .. n /\ 1 - 1 = 0
        BY <1>1, <1>3
      <4>2. r[1] = r[0] \o seqs[1] /\ r[0] = <<>>
        <5> HIDE DEF n
        <5> QED
          BY <2>3, <4>1
      <4> QED
        BY <1>1, <4>1, <4>2, ConcatEmptySeq
    <3>2. ASSUME NEW i \in 1 .. n
          PROVE  f[i] = IF i = 1 THEN seqs[i] ELSE f[i - 1] \o seqs[i]
      <4>1. CASE i = 1
        BY <3>1, <4>1
      <4>2. CASE i # 1
        <5>1. i - 1 \in 1 .. n /\ r[i] = r[i - 1] \o seqs[i]
          <6>1. i - 1 \in 1 .. n
            BY <1>1, <4>2
          <6>2. r[i] = r[i - 1] \o seqs[i]
            BY <2>3
          <6> QED
            BY <6>1, <6>2
        <5> QED
          BY <4>2, <5>1
      <4> QED
        BY <4>1, <4>2
    <3>3. f = [i \in 1 .. n |-> IF i = 1 THEN seqs[i] ELSE f[i - 1] \o seqs[i]]
      BY <3>2
    <3> QED
      BY <3>3
  <2>5. flatten = [i \in 1 .. n |-> IF i = 1 THEN seqs[i] ELSE flatten[i - 1] \o seqs[i]]
    <3> HIDE DEF n
    <3> QED
      BY <2>4
  <2>6. F = flatten[n]
    BY <1>3 DEF FlattenSeq
  <2> HIDE DEF flatten, F
  <2> DEFINE h == [i \in 0 .. n |-> IF i = 0 THEN <<>> ELSE flatten[i]]
             g == [i \in 0 .. n |-> Len(h[i])]
  <2>7. h[0] = <<>> /\ h[n] = F /\ \A i \in 1 .. n : h[i] = flatten[i]
    BY <1>1, <1>3, <2>6
  <2>8. \A i \in 1 .. n : h[i] = h[i - 1] \o seqs[i]
    <3> SUFFICES ASSUME NEW i \in 1 .. n
                 PROVE  h[i] = h[i - 1] \o seqs[i]
      OBVIOUS
    <3>1. CASE i = 1
      <4>1. h[1] = seqs[1] /\ h[1 - 1] = <<>>
        BY <2>5, <2>7, <3>1
      <4> QED
        BY <1>1, <3>1, <4>1, ConcatEmptySeq
    <3>2. CASE i # 1
      <4>1. i \in 1 .. n /\ i - 1 \in 1 .. n
        BY <1>1, <3>2
      <4>2. flatten[i] = flatten[i - 1] \o seqs[i]
        <5> HIDE DEF n
        <5> QED
          BY <2>5, <3>2
      <4> QED
        BY <2>7, <4>1, <4>2
    <3> QED
      BY <3>1, <3>2
  <2> HIDE DEF h
  <2> DEFINE Typed == {i \in Nat : i <= n => h[i] \in Seq(S)}
  <2>9. \A i \in 0 .. n : h[i] \in Seq(S)
    <3>1. 0 \in Typed
      BY <1>1, <2>7
    <3>2. ASSUME NEW i \in Typed
          PROVE  i + 1 \in Typed
      <4> SUFFICES ASSUME i + 1 <= n
                   PROVE  h[i + 1] \in Seq(S)
        OBVIOUS
      <4>1. i + 1 \in 1 .. n /\ (i + 1) - 1 = i /\ h[i] \in Seq(S)
        BY <1>1
      <4>2. h[i + 1] = h[i] \o seqs[i + 1] /\ seqs[i + 1] \in Seq(S)
        BY <1>1, <2>8, <4>1
      <4> QED
        BY <4>1, <4>2
    <3>3. Typed \in SUBSET Nat
      OBVIOUS
    <3>4. Typed = Nat
      <4> HIDE DEF Typed
      <4> QED
        BY <3>1, <3>2, <3>3, Loops!NatSet
    <3>5. \A i \in Nat : i \in Typed
      BY <3>4
    <3> QED
      BY <1>1, <3>5
  <2>10. /\ g[0] = 0 /\ g[n] = Len(F)
         /\ \A k \in 0 .. n : g[k] = Len(h[k]) /\ g[k] \in Nat
    BY <1>1, <2>7, <2>9
  <2>11. ASSUME NEW k \in 1 .. n
         PROVE  /\ g[k] = g[k - 1] + Len(seqs[k])
                /\ \A j \in 1 .. g[k - 1] : h[k][j] = h[k - 1][j]
                /\ \A j \in 1 .. Len(seqs[k]) : h[k][g[k - 1] + j] = seqs[k][j]
    <3>1. k - 1 \in 0 .. n /\ k \in 0 .. n
      BY <1>1
    <3>2. h[k] = h[k - 1] \o seqs[k] /\ h[k - 1] \in Seq(S) /\ seqs[k] \in Seq(S)
          /\ g[k - 1] = Len(h[k - 1]) /\ g[k] = Len(h[k])
      BY <1>1, <2>8, <2>9, <2>10, <3>1
    <3> HIDE DEF g, n
    <3>3. g[k] = g[k - 1] + Len(seqs[k])
      BY <3>2
    <3> DEFINE a == h[k - 1]
               c == seqs[k]
    <3>4. h[k] = a \o c /\ a \in Seq(S) /\ c \in Seq(S) /\ g[k - 1] = Len(a)
      BY <3>2
    <3> HIDE DEF a, c
    <3>5. ASSUME NEW j \in 1 .. g[k - 1]
          PROVE  h[k][j] = a[j]
      BY <3>4
    <3>6. ASSUME NEW j \in 1 .. Len(c)
          PROVE  h[k][g[k - 1] + j] = c[j]
      BY <3>4
    <3> QED
      BY <3>3, <3>5, <3>6 DEF a, c
  <2> HIDE DEF g
  <2> DEFINE Kept(i, k) ==
                /\ g[k] <= g[i]
                /\ k # 0 => \A j \in 1 .. Len(seqs[k]) : h[i][g[k - 1] + j] = seqs[k][j]
             All == {i \in Nat : i <= n => \A k \in 0 .. i : Kept(i, k)}
  <2>12. \A k \in 0 .. n : Kept(n, k)
    <3>1. 0 \in All
      BY <2>10
    <3>2. ASSUME NEW i \in All
          PROVE  i + 1 \in All
      <4> SUFFICES ASSUME i + 1 <= n, NEW k \in 0 .. i + 1
                   PROVE  Kept(i + 1, k)
        OBVIOUS
      <4>1. i \in 0 .. n /\ i + 1 \in 1 .. n /\ (i + 1) - 1 = i
        BY <1>1
      <4>2. /\ g[i + 1] = g[i] + Len(seqs[i + 1])
            /\ \A j \in 1 .. g[i] : h[i + 1][j] = h[i][j]
            /\ \A j \in 1 .. Len(seqs[i + 1]) : h[i + 1][g[i] + j] = seqs[i + 1][j]
        BY <2>11, <4>1
      <4>3. Len(seqs[i + 1]) \in Nat /\ g[i] \in Nat /\ g[i + 1] \in Nat
        BY <1>1, <2>10, <4>1
      <4>4. CASE k = i + 1
        BY <4>1, <4>2, <4>3, <4>4
      <4>5. CASE k \in 0 .. i
        <5>1. Kept(i, k)
          BY <4>1, <4>5
        <5>2. ASSUME k # 0, NEW j \in 1 .. Len(seqs[k])
              PROVE  h[i + 1][g[k - 1] + j] = seqs[k][j]
          <6>1. k \in 1 .. n /\ k - 1 \in 0 .. n
            BY <4>1, <4>5, <5>2
          <6>2. g[k] = g[k - 1] + Len(seqs[k]) /\ g[k - 1] \in Nat /\ Len(seqs[k]) \in Nat
            BY <1>1, <2>10, <2>11, <6>1
          <6>3. g[k - 1] + j \in 1 .. g[i]
            <7>1. g[k] <= g[i]
              BY <5>1
            <7> HIDE DEF Kept
            <7> QED
              BY <4>3, <5>2, <6>2, <7>1
          <6> QED
            BY <4>2, <5>1, <5>2, <6>3
        <5>3. g[k] \in Nat
          BY <2>10, <4>1, <4>5
        <5> QED
          BY <4>2, <4>3, <5>1, <5>2, <5>3
      <4> QED
        BY <4>1, <4>4, <4>5
    <3>3. All \in SUBSET Nat
      OBVIOUS
    <3>4. All = Nat
      <4> HIDE DEF All
      <4> QED
        BY <3>1, <3>2, <3>3, Loops!NatSet
    <3>5. n \in All
      <4> HIDE DEF All
      <4> QED
        BY <1>1, <3>4
    <3> QED
      BY <3>5
  <2>13. F \in Seq(S)
    BY <1>1, <2>7, <2>9
  <2>14. Joins(F, seqs, g)
    <3>1. \A k \in 0 .. n : g[k] \in Nat /\ g[k] <= Len(F)
      BY <2>10, <2>12
    <3>2. ASSUME NEW k \in 1 .. n
          PROVE  /\ g[k] = g[k - 1] + Len(seqs[k])
                 /\ \A j \in 1 .. Len(seqs[k]) : F[g[k - 1] + j] = seqs[k][j]
      <4>1. k \in 0 .. n /\ k # 0
        BY <1>1
      <4>2. Kept(n, k)
        BY <2>12, <4>1
      <4> QED
        BY <2>7, <2>11, <4>1, <4>2
    <3> QED
      BY <2>10, <3>1, <3>2 DEF Joins
  <2> QED
    BY <2>13, <2>14 DEF F
<1> QED
  BY <1>2, <1>3

-----------------------------------------------------------------------------
(* What is written *)

LEMMA ConcatAt ==
    ASSUME NEW S, NEW a \in Seq(S), NEW b \in Seq(S), NEW c, c = a \o b
    PROVE  /\ c \in Seq(S) /\ Len(c) = Len(a) + Len(b)
           /\ \A j \in 1 .. Len(a) : c[j] = a[j]
           /\ \A j \in 1 .. Len(b) : c[Len(a) + j] = b[j]
<1>1. ASSUME NEW j \in 1 .. Len(a)
      PROVE  c[j] = a[j]
  OBVIOUS
<1>2. ASSUME NEW j \in 1 .. Len(b)
      PROVE  c[Len(a) + j] = b[j]
  OBVIOUS
<1> QED
  BY <1>1, <1>2

\* The lines L of a node with m addresses.
Shape(n, L, m) ==
    /\ m \in Nat \ {0} /\ L \in Seq(Lines) /\ Len(L) = 5 + 2 * m
    /\ L[1] = <<"id", n.id>> /\ L[2] = <<"node_count", n.node_count>>
    /\ L[3] = <<"ip_list", 0>>
    /\ \A i \in 1 .. m : L[2 + 2 * i] = <<"ip", n.ip_list[i]>>
    /\ \A i \in 1 .. m : L[3 + 2 * i] = <<"validity", 0>>
    /\ L[4 + 2 * m] = <<"ip_list_ends", 0>> /\ L[5 + 2 * m] = <<"end_node", 0>>

LEMMA NodeLinesAre ==
    ASSUME NEW n \in Entry
    PROVE  Shape(n, NodeLines(n), Len(n.ip_list))
<1> SUFFICES ASSUME NEW L, L = NodeLines(n), NEW m, m = Len(n.ip_list)
             PROVE  Shape(n, L, m)
  OBVIOUS
<1> DEFINE ips == n.ip_list
           Pair(i) == <<<<"ip", ips[i]>>, <<"validity", 0>>>>
           pairs == [i \in DOMAIN ips |-> Pair(i)]
           front == <<<<"id", n.id>>, <<"node_count", n.node_count>>, <<"ip_list", 0>>>>
           middle == FlattenSeq(pairs)
           back == <<<<"ip_list_ends", 0>>, <<"end_node", 0>>>>
<1>1. /\ ips \in Seq(Addr) /\ m = Len(ips) /\ m \in Nat \ {0} /\ DOMAIN ips = 1 .. m
      /\ n.id \in Nat /\ n.node_count \in Nat
  BY EmptySeq DEF Entry
<1>2. L = (front \o middle) \o back
  BY DEF NodeLines
<1>3. front \in Seq(Lines) /\ Len(front) = 3 /\ back \in Seq(Lines) /\ Len(back) = 2
  <2>1. /\ <<"id", n.id>> \in Lines /\ <<"node_count", n.node_count>> \in Lines
        /\ <<"ip_list", 0>> \in Lines /\ <<"ip_list_ends", 0>> \in Lines
        /\ <<"end_node", 0>> \in Lines
    BY <1>1 DEF Lines
  <2> HIDE DEF ips
  <2> QED
    BY <2>1
<1>4. \A i \in 1 .. m : Pair(i) \in Seq(Lines) /\ Len(Pair(i)) = 2
  <2> SUFFICES ASSUME NEW i \in 1 .. m
               PROVE  Pair(i) \in Seq(Lines) /\ Len(Pair(i)) = 2
    OBVIOUS
  <2>1. <<"ip", ips[i]>> \in Lines /\ <<"validity", 0>> \in Lines
    BY <1>1 DEF Lines, Text
  <2> HIDE DEF ips
  <2> QED
    BY <2>1
<1>5. /\ pairs \in Seq(Seq(Lines)) /\ Len(pairs) = m
      /\ \A i \in 1 .. m : pairs[i] = Pair(i)
  <2> HIDE DEF Pair, ips
  <2> QED
    BY <1>1, <1>4
<1>6. PICK g : middle \in Seq(Lines) /\ Joins(middle, pairs, g)
  <2> HIDE DEF pairs
  <2> QED
    BY <1>5, Flattened
<1> HIDE DEF middle
<1>7. \A k \in 0 .. m : g[k] = 2 * k
  <2> DEFINE Even == {k \in Nat : k <= m => g[k] = 2 * k}
  <2>1. 0 \in Even
    BY <1>6 DEF Joins
  <2>2. ASSUME NEW k \in Even
        PROVE  k + 1 \in Even
    <3> SUFFICES ASSUME k + 1 <= m
                 PROVE  g[k + 1] = 2 * (k + 1)
      OBVIOUS
    <3>1. k + 1 \in 1 .. m /\ (k + 1) - 1 = k /\ g[k] = 2 * k
      BY <1>1
    <3>2. Len(pairs[k + 1]) = 2
      <4> HIDE DEF pairs, Pair
      <4> QED
        BY <1>4, <1>5, <3>1
    <3>3. g[k + 1] = g[k] + Len(pairs[k + 1])
      <4> HIDE DEF pairs
      <4> QED
        BY <1>5, <1>6, <3>1 DEF Joins
    <3>4. 2 * (k + 1) = 2 * k + 2
      OBVIOUS
    <3> HIDE DEF pairs
    <3> QED
      BY <3>1, <3>2, <3>3, <3>4
  <2>3. Even \in SUBSET Nat
    OBVIOUS
  <2>4. Even = Nat
    <3> HIDE DEF Even
    <3> QED
      BY <2>1, <2>2, <2>3, Loops!NatSet
  <2>5. \A k \in Nat : k \in Even
    BY <2>4
  <2> QED
    BY <1>1, <2>5
<1>8. Len(middle) = 2 * m
  <2>1. Len(middle) = g[m]
    <3> HIDE DEF pairs
    <3> QED
      BY <1>5, <1>6 DEF Joins
  <2>2. m \in 0 .. m
    BY <1>1
  <2> QED
    BY <1>7, <2>1, <2>2
<1>9. ASSUME NEW i \in 1 .. m
      PROVE  middle[2 * i - 1] = <<"ip", ips[i]>> /\ middle[2 * i] = <<"validity", 0>>
  <2>1. Pair(i)[1] = <<"ip", ips[i]>> /\ Pair(i)[2] = <<"validity", 0>>
    OBVIOUS
  <2>2. i - 1 \in 0 .. m /\ g[i - 1] = 2 * (i - 1)
    BY <1>1, <1>7
  <2> HIDE DEF Pair
  <2>3. \A j \in 1 .. 2 : middle[g[i - 1] + j] = Pair(i)[j]
    <3>1. pairs[i] = Pair(i) /\ Len(Pair(i)) = 2
      <4> HIDE DEF pairs
      <4> QED
        BY <1>4, <1>5
    <3>2. \A j \in 1 .. Len(pairs[i]) : middle[g[i - 1] + j] = pairs[i][j]
      <4> HIDE DEF pairs
      <4> QED
        BY <1>5, <1>6 DEF Joins
    <3> HIDE DEF pairs
    <3> QED
      BY <3>1, <3>2
  <2>4. g[i - 1] + 1 = 2 * i - 1 /\ g[i - 1] + 2 = 2 * i /\ 1 \in 1 .. 2 /\ 2 \in 1 .. 2
    BY <1>1, <2>2
  <2> QED
    BY <2>1, <2>3, <2>4
<1> DEFINE begin == front \o middle
<1>10. /\ begin \in Seq(Lines) /\ Len(begin) = 3 + 2 * m
       /\ \A j \in 1 .. 3 : begin[j] = front[j]
       /\ \A j \in 1 .. 2 * m : begin[3 + j] = middle[j]
  <2>1. 2 * m \in Nat
    BY <1>1
  <2>2. begin = front \o middle
    OBVIOUS
  <2> HIDE DEF front, begin
  <2>3. /\ begin \in Seq(Lines) /\ Len(begin) = Len(front) + Len(middle)
        /\ \A j \in 1 .. Len(front) : begin[j] = front[j]
        /\ \A j \in 1 .. Len(middle) : begin[Len(front) + j] = middle[j]
    <3>1. front \in Seq(Lines) /\ middle \in Seq(Lines)
      BY <1>3, <1>6
    <3> QED
      BY <2>2, <3>1, ConcatAt
  <2> QED
    BY <1>3, <1>8, <2>1, <2>3
<1>11. L = begin \o back
  BY <1>2
<1> HIDE DEF begin
<1>12. /\ L \in Seq(Lines) /\ Len(L) = 5 + 2 * m
       /\ \A j \in 1 .. 3 + 2 * m : L[j] = begin[j]
       /\ \A j \in 1 .. 2 : L[3 + 2 * m + j] = back[j]
  <2> DEFINE n1 == 3 + 2 * m
  <2>1. n1 \in Nat /\ n1 + 2 = 5 + 2 * m /\ Len(begin) = n1
    BY <1>1, <1>10
  <2> HIDE DEF back, n1
  <2>2. /\ L \in Seq(Lines) /\ Len(L) = Len(begin) + Len(back)
        /\ \A j \in 1 .. Len(begin) : L[j] = begin[j]
        /\ \A j \in 1 .. Len(back) : L[Len(begin) + j] = back[j]
    <3>1. begin \in Seq(Lines) /\ back \in Seq(Lines)
      BY <1>3, <1>10
    <3> QED
      BY <1>11, <3>1, ConcatAt
  <2>3. /\ L \in Seq(Lines) /\ Len(L) = n1 + 2
        /\ \A j \in 1 .. n1 : L[j] = begin[j]
        /\ \A j \in 1 .. 2 : L[n1 + j] = back[j]
    BY <1>3, <2>1, <2>2
  <2> QED
    BY <2>1, <2>3 DEF n1
<1>13. ASSUME NEW i \in 1 .. m
       PROVE  L[2 + 2 * i] = <<"ip", ips[i]>> /\ L[3 + 2 * i] = <<"validity", 0>>
  <2> DEFINE a == 2 * i - 1
             b == 2 * i
  <2>1. /\ a \in 1 .. 2 * m /\ b \in 1 .. 2 * m /\ 2 + 2 * i = 3 + a /\ 3 + 2 * i = 3 + b
        /\ 3 + a \in 1 .. 3 + 2 * m /\ 3 + b \in 1 .. 3 + 2 * m
    BY <1>1
  <2>2. middle[a] = <<"ip", ips[i]>> /\ middle[b] = <<"validity", 0>>
    BY <1>9
  <2> HIDE DEF a, b
  <2> QED
    BY <1>10, <1>12, <2>1, <2>2
<1>14. /\ L[1] = <<"id", n.id>> /\ L[2] = <<"node_count", n.node_count>>
       /\ L[3] = <<"ip_list", 0>>
  <2>1. /\ 1 \in 1 .. 3 /\ 2 \in 1 .. 3 /\ 3 \in 1 .. 3
        /\ \A j \in 1 .. 3 : j \in 1 .. 3 + 2 * m
    BY <1>1
  <2> QED
    BY <1>10, <1>12, <2>1
<1>15. L[4 + 2 * m] = <<"ip_list_ends", 0>> /\ L[5 + 2 * m] = <<"end_node", 0>>
  <2>1. /\ 4 + 2 * m = 3 + 2 * m + 1 /\ 5 + 2 * m = 3 + 2 * m + 2
        /\ 1 \in 1 .. 2 /\ 2 \in 1 .. 2
    BY <1>1
  <2> QED
    BY <1>12, <2>1
<1> QED
  BY <1>1, <1>12, <1>13, <1>14, <1>15 DEF Shape

\* A list in the text's form, on the connection and in the file.
Encoded(l) == FlattenSeq([i \in DOMAIN l |-> NodeLines(l[i])])

\* Where each node starts.
Starts(l, g) ==
    /\ g[0] = 0 /\ Len(Encoded(l)) = g[Len(l)]
    /\ \A k \in 0 .. Len(l) : g[k] \in Nat /\ g[k] <= Len(Encoded(l))
    /\ \A k \in 1 .. Len(l) :
          /\ g[k] = g[k - 1] + Len(NodeLines(l[k]))
          /\ \A j \in 1 .. Len(NodeLines(l[k])) :
                Encoded(l)[g[k - 1] + j] = NodeLines(l[k])[j]

LEMMA EncodedIs ==
    ASSUME NEW l \in Seq(Entry)
    PROVE  Encoded(l) \in Seq(Lines) /\ \E g : Starts(l, g)
<1> DEFINE seqs == [i \in DOMAIN l |-> NodeLines(l[i])]
<1>1. \A i \in 1 .. Len(l) : NodeLines(l[i]) \in Seq(Lines)
  <2> SUFFICES ASSUME NEW i \in 1 .. Len(l)
               PROVE  NodeLines(l[i]) \in Seq(Lines)
    OBVIOUS
  <2>1. l[i] \in Entry
    OBVIOUS
  <2> QED
    BY <2>1, NodeLinesAre DEF Shape
<1>2. /\ seqs \in Seq(Seq(Lines)) /\ Len(seqs) = Len(l)
      /\ \A i \in 1 .. Len(l) : seqs[i] = NodeLines(l[i])
  BY <1>1
<1>3. Encoded(l) = FlattenSeq(seqs)
  BY DEF Encoded
<1> HIDE DEF seqs
<1>4. PICK g : FlattenSeq(seqs) \in Seq(Lines) /\ Joins(FlattenSeq(seqs), seqs, g)
  BY <1>2, Flattened
<1>5. Starts(l, g)
  <2>1. /\ g[0] = 0 /\ Len(Encoded(l)) = g[Len(l)]
        /\ \A k \in 0 .. Len(l) : g[k] \in Nat /\ g[k] <= Len(Encoded(l))
    BY <1>2, <1>3, <1>4 DEF Joins
  <2>2. ASSUME NEW k \in 1 .. Len(l)
        PROVE  /\ g[k] = g[k - 1] + Len(NodeLines(l[k]))
               /\ \A j \in 1 .. Len(NodeLines(l[k])) :
                     Encoded(l)[g[k - 1] + j] = NodeLines(l[k])[j]
    <3>1. seqs[k] = NodeLines(l[k])
      BY <1>2
    <3>2. /\ g[k] = g[k - 1] + Len(seqs[k])
          /\ \A j \in 1 .. Len(seqs[k]) : FlattenSeq(seqs)[g[k - 1] + j] = seqs[k][j]
      BY <1>2, <1>4 DEF Joins
    <3> QED
      BY <1>3, <3>1, <3>2
  <2> QED
    BY <2>1, <2>2 DEF Starts
<1> QED
  BY <1>3, <1>4, <1>5

-----------------------------------------------------------------------------
(* What is parsed *)

\* The list under construction after the first j lines of a node with ips.
Addresses(s, ips, j) ==
    \/ /\ s.header = "cell"
       /\ \E i \in 0 .. Len(ips) : j = 3 + 2 * i /\ s.full = SubSeq(ips, 1, i)
    \/ /\ s.header = "cell"
       /\ \E i \in 1 .. Len(ips) :
             /\ j = 2 + 2 * i /\ s.full = SubSeq(ips, 1, i - 1) /\ s.ip_new = ips[i]
    \/ s.header = "last" /\ j = 4 + 2 * Len(ips) /\ s.full = ips

\* The parser has read the first j lines of the k-th node, and the nodes before.
Inside(s, l, k, j) ==
    /\ s \in Parser /\ ~s.crashed /\ s.nodes = SubSeq(l, 1, k - 1)
    /\ j >= 1 => s.id = l[k].id
    /\ j >= 2 => s.node_count = l[k].node_count
    /\ j >= 3 => s.begun /\ Addresses(s, l[k].ip_list, j)

LEMMA InsideStart ==
    ASSUME NEW l \in Seq(Entry)
    PROVE  Inside(Unparsed, l, 1, 0)
<1>1. Unparsed \in Parser
  BY DEF Unparsed, Parser, NoNumber, Text
<1>2. SubSeq(l, 1, 1 - 1) = <<>>
  OBVIOUS
<1> QED
  BY <1>1, <1>2 DEF Inside, Unparsed

\* One more line of a node.
LEMMA InsideStep ==
    ASSUME NEW l \in Seq(Entry), NEW k \in 1 .. Len(l), NEW L, L = NodeLines(l[k]),
           NEW j \in 0 .. Len(L) - 1, NEW s, Inside(s, l, k, j),
           NEW t, t = ParseLine(s, L[j + 1])
    PROVE  IF j + 1 < Len(L) THEN Inside(t, l, k, j + 1) ELSE Inside(t, l, k + 1, 0)
<1> DEFINE n == l[k]
           ips == n.ip_list
           m == Len(ips)
<1>1. n \in Entry
  OBVIOUS
<1>2. /\ m \in Nat \ {0} /\ L \in Seq(Lines) /\ Len(L) = 5 + 2 * m
      /\ L[1] = <<"id", n.id>> /\ L[2] = <<"node_count", n.node_count>>
      /\ L[3] = <<"ip_list", 0>>
      /\ \A i \in 1 .. m : L[2 + 2 * i] = <<"ip", ips[i]>>
      /\ \A i \in 1 .. m : L[3 + 2 * i] = <<"validity", 0>>
      /\ L[4 + 2 * m] = <<"ip_list_ends", 0>> /\ L[5 + 2 * m] = <<"end_node", 0>>
  <2>1. Shape(n, L, m)
    BY <1>1, NodeLinesAre
  <2> HIDE DEF n, m
  <2> QED
    BY <2>1 DEF Shape, ips
<1>3. ips \in Seq(Addr) /\ n.id \in Nat /\ n.node_count \in Nat
  BY <1>1 DEF Entry
<1> HIDE DEF n
<1>4. s \in Parser /\ ~s.crashed /\ s.nodes = SubSeq(l, 1, k - 1) /\ j \in Nat
  BY <1>2 DEF Inside
<1>5. t \in Parser
  <2>1. L[j + 1] \in Lines
    BY <1>2
  <2> QED
    BY <1>4, <2>1, TurnType
<1>6. CASE j = 0
  <2>1. t = [s EXCEPT !.id = n.id]
    <3>1. j + 1 = 1
      BY <1>6
    <3>2. L[j + 1] = <<"id", n.id>>
      BY <1>2, <3>1
    <3> QED
      BY <1>4, <3>2 DEF ParseLine, FollowsNull
  <2>2. j + 1 < Len(L)
    BY <1>2, <1>6
  <2>3. ~t.crashed /\ t.nodes = s.nodes /\ t.id = n.id
    BY <1>4, <2>1 DEF Parser
  <2> QED
    BY <1>4, <1>5, <1>6, <2>2, <2>3 DEF Inside, n
<1>7. CASE j = 1
  <2>1. t = [s EXCEPT !.node_count = n.node_count]
    <3>1. j + 1 = 2
      BY <1>7
    <3>2. L[j + 1] = <<"node_count", n.node_count>>
      BY <1>2, <3>1
    <3> QED
      BY <1>4, <3>2 DEF ParseLine, FollowsNull
  <2>2. j + 1 < Len(L)
    BY <1>2, <1>7
  <2>3. ~t.crashed /\ t.nodes = s.nodes /\ t.id = s.id /\ t.node_count = n.node_count
    BY <1>4, <2>1 DEF Parser
  <2> QED
    BY <1>4, <1>5, <1>7, <2>2, <2>3 DEF Inside, n
<1>8. CASE j = 2
  <2>1. t = [s EXCEPT !.begun = TRUE, !.full = <<>>, !.ip_new = NoAddress,
                      !.header = "cell"]
    <3>1. j + 1 = 3
      BY <1>8
    <3>2. L[j + 1] = <<"ip_list", 0>>
      BY <1>2, <3>1
    <3> QED
      BY <1>4, <3>2 DEF ParseLine, FollowsNull
  <2>2. j + 1 < Len(L) /\ j + 1 = 3 + 2 * 0 /\ 0 \in 0 .. m
    BY <1>2, <1>8
  <2>3. /\ ~t.crashed /\ t.nodes = s.nodes /\ t.id = s.id /\ t.node_count = s.node_count
        /\ t.begun /\ t.header = "cell" /\ t.full = <<>>
    BY <1>4, <2>1 DEF Parser
  <2>4. SubSeq(ips, 1, 0) = <<>>
    BY <1>3
  <2>5. Addresses(t, ips, j + 1)
    BY <2>2, <2>3, <2>4 DEF Addresses
  <2> QED
    BY <1>4, <1>5, <1>8, <2>2, <2>3, <2>5 DEF Inside, n
<1>9. CASE j >= 3
  <2>1. s.id = n.id /\ s.node_count = n.node_count /\ s.begun /\ Addresses(s, ips, j)
    BY <1>4, <1>9 DEF Inside, n
  <2> DEFINE Goes == /\ j + 1 < Len(L)
                     /\ ~t.crashed /\ t.nodes = s.nodes /\ t.id = s.id
                     /\ t.node_count = s.node_count /\ t.begun /\ Addresses(t, ips, j + 1)
  <2>2. ASSUME Goes
        PROVE  Inside(t, l, k, j + 1)
    BY <1>4, <1>5, <1>9, <2>1, <2>2 DEF Inside, n
  <2>3. ASSUME s.header = "cell", NEW i \in 0 .. m, j = 3 + 2 * i, s.full = SubSeq(ips, 1, i)
        PROVE  Goes
    <3>1. CASE i = m
      <4>1. L[j + 1] = <<"ip_list_ends", 0>> /\ j + 1 < Len(L) /\ j + 1 = 4 + 2 * m
        BY <1>2, <2>3, <3>1
      <4>2. t = [s EXCEPT !.header = "last"]
        BY <1>4, <2>3, <4>1 DEF ParseLine, FollowsNull
      <4>3. /\ ~t.crashed /\ t.nodes = s.nodes /\ t.id = s.id
            /\ t.node_count = s.node_count /\ t.begun /\ t.header = "last" /\ t.full = s.full
        BY <1>4, <2>1, <4>2 DEF Parser
      <4>4. SubSeq(ips, 1, m) = ips
        BY <1>3
      <4>5. Addresses(t, ips, j + 1)
        BY <2>3, <3>1, <4>1, <4>3, <4>4 DEF Addresses
      <4> QED
        BY <4>1, <4>3, <4>5
    <3>2. CASE i # m
      <4>1. i + 1 \in 1 .. m /\ j + 1 = 2 + 2 * (i + 1) /\ j + 1 < Len(L) /\ (i + 1) - 1 = i
        BY <1>2, <2>3, <3>2
      <4>2. L[j + 1] = <<"ip", ips[i + 1]>>
        BY <1>2, <4>1
      <4>3. t = [s EXCEPT !.ip_new = ips[i + 1]]
        <5>1. s.header # "none"
          BY <2>3
        <5> HIDE DEF ips
        <5> QED
          BY <1>4, <4>2, <5>1 DEF ParseLine, FollowsNull
      <4>4. /\ ~t.crashed /\ t.nodes = s.nodes /\ t.id = s.id
            /\ t.node_count = s.node_count /\ t.begun /\ t.header = "cell"
            /\ t.full = s.full /\ t.ip_new = ips[i + 1]
        BY <1>4, <2>1, <2>3, <4>3 DEF Parser
      <4>5. Addresses(t, ips, j + 1)
        <5> HIDE DEF ips
        <5> QED
          BY <2>3, <4>1, <4>4 DEF Addresses
      <4> QED
        BY <4>1, <4>4, <4>5
    <3> QED
      BY <3>1, <3>2
  <2>4. ASSUME s.header = "cell", NEW i \in 1 .. m, j = 2 + 2 * i,
               s.full = SubSeq(ips, 1, i - 1), s.ip_new = ips[i]
        PROVE  Goes
    <3>1. j + 1 = 3 + 2 * i /\ j + 1 < Len(L) /\ i \in 0 .. m
      BY <1>2, <2>4
    <3>2. L[j + 1] = <<"validity", 0>>
      BY <1>2, <3>1
    <3>3. t = [s EXCEPT !.full = Append(@, s.ip_new), !.ip_new = NoAddress]
      BY <1>4, <2>4, <3>2 DEF ParseLine, FollowsNull
    <3>4. /\ ~t.crashed /\ t.nodes = s.nodes /\ t.id = s.id
          /\ t.node_count = s.node_count /\ t.begun /\ t.header = "cell"
          /\ t.full = Append(SubSeq(ips, 1, i - 1), ips[i])
      BY <1>4, <2>1, <2>4, <3>3 DEF Parser
    <3>5. Append(SubSeq(ips, 1, i - 1), ips[i]) = SubSeq(ips, 1, i)
      BY <1>3, <2>4
    <3>6. Addresses(t, ips, j + 1)
      <4> HIDE DEF ips
      <4> QED
        BY <3>1, <3>4, <3>5 DEF Addresses
    <3> QED
      BY <3>1, <3>4, <3>6
  <2>5. ASSUME s.header = "last", j = 4 + 2 * m, s.full = ips
        PROVE  ~(j + 1 < Len(L)) /\ Inside(t, l, k + 1, 0)
    <3>1. ~(j + 1 < Len(L)) /\ j + 1 = 5 + 2 * m
      BY <1>2, <2>5
    <3> DEFINE e == [id |-> s.id, node_count |-> s.node_count, ip_list |-> ListAt(s)]
    <3>2. t = [s EXCEPT !.nodes = Append(@, e), !.id = NoNumber, !.node_count = NoNumber,
                        !.begun = FALSE]
      <4>1. L[j + 1] = <<"end_node", 0>>
        BY <1>2, <3>1
      <4> QED
        BY <1>4, <4>1 DEF ParseLine, FollowsNull
    <3>3. ListAt(s) = ips
      <4>1. ips # <<>>
        BY <1>2
      <4> QED
        BY <2>1, <2>5, <4>1 DEF ListAt
    <3>4. e = n
      BY <1>1, <2>1, <3>3 DEF Entry
    <3> HIDE DEF e
    <3>5. ~t.crashed /\ t.nodes = Append(SubSeq(l, 1, k - 1), l[k])
      BY <1>4, <3>2, <3>4 DEF Parser, n
    <3>6. Append(SubSeq(l, 1, k - 1), l[k]) = SubSeq(l, 1, k)
      OBVIOUS
    <3>7. (k + 1) - 1 = k
      OBVIOUS
    <3> QED
      BY <1>5, <3>1, <3>5, <3>6, <3>7 DEF Inside
  <2> QED
    BY <2>1, <2>2, <2>3, <2>4, <2>5 DEF Addresses
<1> QED
  BY <1>4, <1>6, <1>7, <1>8, <1>9

\* A cut line of a node.
LEMMA CutStep ==
    ASSUME NEW l \in Seq(Entry), NEW k \in 1 .. Len(l), NEW L, L = NodeLines(l[k]),
           NEW j \in 0 .. Len(L) - 1, NEW s, Inside(s, l, k, j),
           NEW x \in CutLines(L[j + 1]), NEW t, t = ParseLine(s, x)
    PROVE  /\ ~t.crashed
           /\ t.nodes = SubSeq(l, 1, k - 1) \/ t.nodes = SubSeq(l, 1, k)
<1> DEFINE n == l[k]
           m == Len(n.ip_list)
<1>1. Shape(n, L, m)
  <2>1. n \in Entry
    OBVIOUS
  <2> HIDE DEF n
  <2> QED
    BY <2>1, NodeLinesAre DEF n
<1>2. s \in Parser /\ ~s.crashed /\ s.nodes = SubSeq(l, 1, k - 1) /\ j \in Nat
  BY <1>1 DEF Inside, Shape
<1>3. CASE x = Junk
  BY <1>2, <1>3, BlankTurn DEF Blanks
<1>4. CASE L[j + 1][1] \in {"id", "node_count"} /\ x = <<L[j + 1][1], NoNumber>>
  <2>1. t = [s EXCEPT !.id = NoNumber] \/ t = [s EXCEPT !.node_count = NoNumber]
    BY <1>2, <1>4 DEF ParseLine, FollowsNull
  <2> QED
    BY <1>2, <2>1 DEF Parser
<1>5. CASE L[j + 1][1] = "ip" /\ x = <<"ip", NoAddress>>
  <2>1. j >= 3
    <3>1. L[1][1] = "id" /\ L[2][1] = "node_count" /\ L[3][1] = "ip_list"
      BY <1>1 DEF Shape
    <3>2. j # 0 /\ j # 1 /\ j # 2
      BY <1>2, <1>5, <3>1
    <3> QED
      BY <1>2, <3>2
  <2>2. s.header # "none"
    BY <2>1 DEF Inside, Addresses
  <2>3. t = [s EXCEPT !.ip_new = NoAddress]
    BY <1>2, <1>5, <2>2 DEF ParseLine, FollowsNull
  <2> QED
    BY <1>2, <2>3 DEF Parser
<1>6. CASE L[j + 1][1] = "ip_list_ends" /\ x = <<"ip_list", 0>>
  <2>1. t = [s EXCEPT !.begun = TRUE, !.full = <<>>, !.ip_new = NoAddress,
                      !.header = "cell"]
    BY <1>2, <1>6 DEF ParseLine, FollowsNull
  <2> QED
    BY <1>2, <2>1 DEF Parser
<1>7. CASE L[j + 1][1] = "end_node" /\ x = L[j + 1]
  <2>1. (k + 1) - 1 = k
    OBVIOUS
  <2>2. IF j + 1 < Len(L) THEN Inside(t, l, k, j + 1) ELSE Inside(t, l, k + 1, 0)
    <3>1. t = ParseLine(s, L[j + 1])
      BY <1>7
    <3> QED
      BY <3>1, InsideStep
  <2> QED
    BY <2>1, <2>2 DEF Inside
<1> QED
  BY <1>3, <1>4, <1>5, <1>6, <1>7 DEF CutLines

\* After n lines of a list the parser stands at line j of the k-th node.
At(l, g, s, n, k, j) ==
    /\ n = g[k - 1] + j /\ Inside(s, l, k, j)
    /\ IF k <= Len(l) THEN j < Len(NodeLines(l[k])) ELSE j = 0

LEMMA LinesOf ==
    ASSUME NEW l \in Seq(Entry), NEW k \in 1 .. Len(l)
    PROVE  Len(NodeLines(l[k])) \in Nat \ {0} /\ NodeLines(l[k]) \in Seq(Lines)
<1>1. l[k] \in Entry
  OBVIOUS
<1>2. Shape(l[k], NodeLines(l[k]), Len(l[k].ip_list))
  BY <1>1, NodeLinesAre
<1> QED
  BY <1>2 DEF Shape

LEMMA Stages ==
    ASSUME NEW l \in Seq(Entry), NEW g, Starts(l, g), NEW b \in Seq(Lines), NEW f, Reads(f, b),
           NEW n \in 0 .. Len(b), \A i \in 1 .. n : i <= Len(Encoded(l)) /\ b[i] = Encoded(l)[i]
    PROVE  \E k \in 1 .. Len(l) + 1, j \in Nat : At(l, g, f[n], n, k, j)
<1> DEFINE Stage(i) == \E k \in 1 .. Len(l) + 1, j \in Nat : At(l, g, f[i], i, k, j)
           S == {i \in Nat : i <= n => Stage(i)}
<1>1. n \in Nat /\ Len(b) \in Nat /\ Len(l) \in Nat
  OBVIOUS
<1>2. \A k \in 1 .. Len(l) : Len(NodeLines(l[k])) \in Nat \ {0}
  BY LinesOf
<1>3. 0 \in S
  <2>1. 0 = g[1 - 1] + 0 /\ 1 \in 1 .. Len(l) + 1
    BY <1>1 DEF Starts
  <2>2. Inside(f[0], l, 1, 0)
    BY InsideStart DEF Reads
  <2>3. IF 1 <= Len(l) THEN 0 < Len(NodeLines(l[1])) ELSE 0 = 0
    BY <1>1, <1>2
  <2>4. At(l, g, f[0], 0, 1, 0)
    BY <2>1, <2>2, <2>3 DEF At
  <2> QED
    BY <2>1, <2>4
<1>4. ASSUME NEW i \in S
      PROVE  i + 1 \in S
  <2> SUFFICES ASSUME i + 1 <= n
               PROVE  Stage(i + 1)
    OBVIOUS
  <2>1. i \in Nat /\ i + 1 \in 1 .. n /\ i + 1 \in 1 .. Len(b) /\ (i + 1) - 1 = i
    BY <1>1
  <2>2. PICK k \in 1 .. Len(l) + 1, j \in Nat : At(l, g, f[i], i, k, j)
    BY <2>1
  <2>3. f[i + 1] = ParseLine(f[i], b[i + 1]) /\ b[i + 1] = Encoded(l)[i + 1]
        /\ i + 1 <= Len(Encoded(l))
    BY <2>1 DEF Reads
  <2>4. i = g[k - 1] + j /\ Inside(f[i], l, k, j) /\ g[k - 1] \in Nat
        /\ IF k <= Len(l) THEN j < Len(NodeLines(l[k])) ELSE j = 0
    <3>1. k - 1 \in 0 .. Len(l)
      BY <1>1
    <3> QED
      BY <2>2, <3>1 DEF At, Starts
  <2>5. k \in 1 .. Len(l)
    <3> SUFFICES ASSUME k = Len(l) + 1
                 PROVE  FALSE
      BY <1>1
    <3>1. i = g[Len(l)]
      BY <1>1, <2>4
    <3>2. Len(Encoded(l)) = g[Len(l)] /\ g[Len(l)] \in Nat
      BY <1>1 DEF Starts
    <3> QED
      BY <2>1, <2>3, <3>1, <3>2
  <2> DEFINE L == NodeLines(l[k])
             t == f[i + 1]
  <2>6. Len(L) \in Nat \ {0} /\ j \in 0 .. Len(L) - 1 /\ j + 1 \in 1 .. Len(L)
    BY <1>2, <2>4, <2>5
  <2>7. Encoded(l)[i + 1] = L[j + 1]
    <3>1. Encoded(l)[g[k - 1] + (j + 1)] = L[j + 1]
      BY <2>5, <2>6 DEF Starts
    <3>2. i + 1 = g[k - 1] + (j + 1)
      BY <2>4
    <3> QED
      BY <3>1, <3>2
  <2>8. t = ParseLine(f[i], L[j + 1])
    BY <2>3, <2>7
  <2>9. IF j + 1 < Len(L) THEN Inside(t, l, k, j + 1) ELSE Inside(t, l, k + 1, 0)
    <3> HIDE DEF t
    <3> QED
      BY <2>4, <2>5, <2>6, <2>8, InsideStep
  <2> HIDE DEF t, L
  <2>10. CASE j + 1 < Len(L)
    <3>1. At(l, g, t, i + 1, k, j + 1)
      <4>1. i + 1 = g[k - 1] + (j + 1)
        BY <2>4
      <4> QED
        BY <2>5, <2>9, <2>10, <4>1 DEF At, L
    <3> QED
      BY <2>6, <3>1 DEF t
  <2>11. CASE ~(j + 1 < Len(L))
    <3>1. g[k] = g[k - 1] + Len(L)
      BY <2>5 DEF Starts, L
    <3>2. i + 1 = g[(k + 1) - 1] + 0
      <4>1. j + 1 = Len(L) /\ (k + 1) - 1 = k
        BY <2>5, <2>6, <2>11
      <4>2. i + 1 = g[k]
        <5>1. g[k] = g[k - 1] + (j + 1)
          BY <3>1, <4>1
        <5>2. i + 1 = g[k - 1] + (j + 1)
          BY <2>4
        <5> QED
          BY <5>1, <5>2
      <4>3. g[k] + 0 = g[k]
        BY <2>1, <4>2
      <4> QED
        BY <4>1, <4>2, <4>3
    <3>3. IF k + 1 <= Len(l) THEN 0 < Len(NodeLines(l[k + 1])) ELSE 0 = 0
      BY <1>1, <1>2, <2>5
    <3>4. At(l, g, t, i + 1, k + 1, 0)
      BY <2>9, <2>11, <3>2, <3>3 DEF At
    <3>5. k + 1 \in 1 .. Len(l) + 1
      BY <1>1, <2>5
    <3> QED
      BY <3>4, <3>5 DEF t
  <2> QED
    BY <2>10, <2>11
<1>5. S \in SUBSET Nat
  OBVIOUS
<1>6. S = Nat
  <2> HIDE DEF S
  <2> QED
    BY <1>3, <1>4, <1>5, Loops!NatSet
<1>7. n \in S
  <2> HIDE DEF S
  <2> QED
    BY <1>1, <1>6
<1> QED
  BY <1>7

-----------------------------------------------------------------------------
(* Pieces *)

\* The first k lines of l, one more that may be cut, and nothing a parser knows.
CutAt(b, l, k) ==
    /\ \A i \in 1 .. k : i <= Len(Encoded(l)) /\ b[i] = Encoded(l)[i]
    /\ k < Len(b) =>
          \/ b[k + 1] \in Blanks
          \/ k + 1 <= Len(Encoded(l)) /\ b[k + 1] \in CutLines(Encoded(l)[k + 1])
    /\ \A i \in k + 2 .. Len(b) : b[i] \in Blanks

Piece(b, l) == b \in Seq(Lines) /\ \E k \in 0 .. Len(b) : CutAt(b, l, k)

\* All of l.
Whole(b, l) ==
    /\ b \in Seq(Lines) /\ Len(Encoded(l)) <= Len(b)
    /\ \A i \in 1 .. Len(Encoded(l)) : b[i] = Encoded(l)[i]
    /\ \A i \in Len(Encoded(l)) + 1 .. Len(b) : b[i] \in Blanks

LEMMA WholeIsPiece ==
    ASSUME NEW l \in Seq(Entry), NEW b, Whole(b, l)
    PROVE  Piece(b, l)
<1> DEFINE n == Len(Encoded(l))
<1>1. n \in Nat /\ Len(b) \in Nat /\ n <= Len(b)
  BY EncodedIs DEF Whole
<1>2. CutAt(b, l, n)
  BY <1>1 DEF CutAt, Whole
<1> QED
  BY <1>1, <1>2 DEF Piece, Whole

\* Behind the last line a parser knows nothing happens.
LEMMA BlankEnd ==
    ASSUME NEW b \in Seq(Lines), NEW f, Reads(f, b), NEW n \in 0 .. Len(b), ~f[n].crashed,
           \A i \in n + 1 .. Len(b) : b[i] \in Blanks
    PROVE  Parse(b) = f[n]
<1> DEFINE S == {i \in Nat : n + i <= Len(b) => f[n + i] = f[n]}
<1>1. 0 \in S
  OBVIOUS
<1>2. ASSUME NEW i \in S
      PROVE  i + 1 \in S
  <2> SUFFICES ASSUME n + (i + 1) <= Len(b)
               PROVE  f[n + (i + 1)] = f[n]
    OBVIOUS
  <2> DEFINE j == n + (i + 1)
  <2>1. j \in 1 .. Len(b) /\ j \in n + 1 .. Len(b) /\ j - 1 = n + i /\ f[n + i] = f[n]
    OBVIOUS
  <2> HIDE DEF j
  <2>2. f[j] = ParseLine(f[j - 1], b[j]) /\ b[j] \in Blanks
    BY <2>1 DEF Reads
  <2>3. f[j] = ParseLine(f[n], b[j])
    BY <2>1, <2>2
  <2>4. f[j] = f[n]
    <3>1. ParseLine(f[n], b[j]) = f[n]
      BY <2>2, BlankTurn
    <3> QED
      BY <2>3, <3>1
  <2> QED
    BY <2>4 DEF j
<1>3. S \in SUBSET Nat
  OBVIOUS
<1>4. S = Nat
  <2> HIDE DEF S
  <2> QED
    BY <1>1, <1>2, <1>3, Loops!NatSet
<1>5. Len(b) - n \in Nat /\ n + (Len(b) - n) = Len(b)
  OBVIOUS
<1>6. Len(b) - n \in S
  <2> HIDE DEF S
  <2> QED
    BY <1>4, <1>5
<1>7. f[Len(b)] = f[n]
  BY <1>5, <1>6
<1> QED
  BY <1>7 DEF Reads

\* A parser survives a piece and returns the first nodes.
LEMMA ParsePiece ==
    ASSUME NEW l \in Seq(Entry), NEW b, Piece(b, l)
    PROVE  ~Parse(b).crashed /\ \E q \in 0 .. Len(l) : Parse(b).nodes = SubSeq(l, 1, q)
<1>1. PICK k \in 0 .. Len(b) : b \in Seq(Lines) /\ CutAt(b, l, k)
  BY DEF Piece
<1>2. PICK f : Reads(f, b)
  BY <1>1, Reading
<1>3. PICK g : Starts(l, g)
  BY EncodedIs
<1>4. PICK n \in 1 .. Len(l) + 1, j \in Nat : At(l, g, f[k], k, n, j)
  <2>1. \A i \in 1 .. k : i <= Len(Encoded(l)) /\ b[i] = Encoded(l)[i]
    BY <1>1 DEF CutAt
  <2> QED
    BY <1>1, <1>2, <1>3, <2>1, Stages
<1>5. /\ Inside(f[k], l, n, j) /\ ~f[k].crashed /\ f[k].nodes = SubSeq(l, 1, n - 1)
      /\ n - 1 \in 0 .. Len(l) /\ f[k] \in Parser
  BY <1>4 DEF At, Inside
<1>6. CASE k = Len(b)
  BY <1>2, <1>5, <1>6 DEF Reads
<1>7. CASE k < Len(b)
  <2>1. k + 1 \in 1 .. Len(b) /\ (k + 1) - 1 = k /\ k + 1 \in 0 .. Len(b)
    BY <1>1, <1>7
  <2> DEFINE t == f[k + 1]
             x == b[k + 1]
  <2>2. t = ParseLine(f[k], x)
    BY <1>2, <2>1 DEF Reads
  <2>3. ~t.crashed /\ \E q \in 0 .. Len(l) : t.nodes = SubSeq(l, 1, q)
    <3>1. CASE x \in Blanks
      <4>1. t = f[k]
        <5> HIDE DEF t, x
        <5> QED
          BY <1>5, <2>2, <3>1, BlankTurn
      <4> QED
        BY <1>5, <4>1
    <3>2. CASE k + 1 <= Len(Encoded(l)) /\ x \in CutLines(Encoded(l)[k + 1])
      <4>1. k = g[n - 1] + j /\ IF n <= Len(l) THEN j < Len(NodeLines(l[n])) ELSE j = 0
        BY <1>4 DEF At
      <4>2. Len(Encoded(l)) = g[Len(l)] /\ g[Len(l)] \in Nat
        BY <1>3 DEF Starts
      <4>3. n \in 1 .. Len(l)
        <5> SUFFICES ASSUME n = Len(l) + 1
                     PROVE  FALSE
          OBVIOUS
        <5>1. k = g[Len(l)]
          BY <4>1, <4>2
        <5> QED
          BY <3>2, <4>2, <5>1
      <4> DEFINE L == NodeLines(l[n])
      <4>4. Len(L) \in Nat /\ j \in 0 .. Len(L) - 1 /\ j + 1 \in 1 .. Len(L)
        BY <4>1, <4>3, LinesOf
      <4>5. g[n - 1] \in Nat
        BY <1>3, <1>5 DEF Starts
      <4>6. Encoded(l)[g[n - 1] + (j + 1)] = L[j + 1]
        BY <1>3, <4>3, <4>4 DEF Starts
      <4>7. k + 1 = g[n - 1] + (j + 1)
        BY <4>1, <4>5
      <4>8. x \in CutLines(L[j + 1])
        BY <3>2, <4>6, <4>7
      <4>9. ~t.crashed /\ (t.nodes = SubSeq(l, 1, n - 1) \/ t.nodes = SubSeq(l, 1, n))
        <5> HIDE DEF t, x
        <5> QED
          BY <1>5, <2>2, <4>3, <4>4, <4>8, CutStep
      <4> QED
        BY <1>5, <4>3, <4>9
    <3> QED
      BY <1>1, <1>7, <3>1, <3>2 DEF CutAt
  <2>4. Parse(b) = t
    <3>1. \A i \in (k + 1) + 1 .. Len(b) : b[i] \in Blanks
      <4>1. (k + 1) + 1 = k + 2
        OBVIOUS
      <4> QED
        BY <1>1, <4>1 DEF CutAt
    <3> QED
      BY <1>1, <1>2, <2>1, <2>3, <3>1, BlankEnd
  <2> QED
    BY <2>3, <2>4
<1> QED
  BY <1>6, <1>7

\* And all nodes, when it is whole.
LEMMA ParseWhole ==
    ASSUME NEW l \in Seq(Entry), NEW b, Whole(b, l)
    PROVE  Parse(b).nodes = l
<1> DEFINE N == Len(Encoded(l))
<1>1. PICK g : Starts(l, g)
  BY EncodedIs
<1>2. PICK f : Reads(f, b)
  BY Reading DEF Whole
<1>3. b \in Seq(Lines) /\ N \in Nat /\ N \in 0 .. Len(b)
  BY EncodedIs DEF Whole
<1>4. \A i \in 1 .. N : i <= Len(Encoded(l)) /\ b[i] = Encoded(l)[i]
  BY <1>3 DEF Whole
<1>5. PICK k \in 1 .. Len(l) + 1, j \in Nat : At(l, g, f[N], N, k, j)
  BY <1>1, <1>2, <1>3, <1>4, Stages
<1>6. /\ N = g[k - 1] + j /\ Inside(f[N], l, k, j)
      /\ IF k <= Len(l) THEN j < Len(NodeLines(l[k])) ELSE j = 0
  BY <1>5 DEF At
<1>7. k = Len(l) + 1
  <2> SUFFICES ASSUME k \in 1 .. Len(l)
               PROVE  FALSE
    OBVIOUS
  <2>1. g[k] = g[k - 1] + Len(NodeLines(l[k])) /\ g[k] <= N
    BY <1>1 DEF Starts
  <2>2. Len(NodeLines(l[k])) \in Nat /\ g[k - 1] \in Nat /\ j < Len(NodeLines(l[k]))
    <3>1. k - 1 \in 0 .. Len(l)
      OBVIOUS
    <3> QED
      BY <1>1, <1>6, <3>1, LinesOf DEF Starts
  <2> HIDE DEF N
  <2> QED
    BY <1>3, <1>6, <2>1, <2>2
<1>8. ~f[N].crashed /\ f[N].nodes = l
  <2>1. k - 1 = Len(l) /\ SubSeq(l, 1, Len(l)) = l
    BY <1>7
  <2> QED
    BY <1>6, <2>1 DEF Inside
<1>9. Parse(b) = f[N]
  <2>1. \A i \in N + 1 .. Len(b) : b[i] \in Blanks
    BY DEF Whole
  <2> QED
    BY <1>2, <1>3, <1>8, <2>1, BlankEnd
<1> QED
  BY <1>8, <1>9
-----------------------------------------------------------------------------
(* What the connection and a death leave of a piece *)

LEMMA LineCuts ==
    ASSUME NEW x \in Lines, NEW c \in CutLines(x)
    PROVE  /\ c \in Lines /\ CutLines(c) \subseteq CutLines(x) \cup Blanks
           /\ x \in Blanks => c = Junk
<1>1. CASE x[1] \in {"id", "node_count"}
  <2>1. x \notin Blanks /\ c \in {Junk, <<x[1], NoNumber>>}
    BY <1>1 DEF CutLines, Blanks, Junk, Nul
  <2>2. CutLines(x) = {Junk, <<x[1], NoNumber>>} /\ CutLines(<<x[1], NoNumber>>) = {Junk, <<x[1], NoNumber>>}
    BY <1>1 DEF CutLines
  <2>3. CutLines(Junk) = {Junk}
    BY DEF CutLines, Junk
  <2>4. Junk \in Lines /\ <<x[1], NoNumber>> \in Lines
    BY <1>1 DEF Lines, Junk, NoNumber
  <2> QED
    BY <2>1, <2>2, <2>3, <2>4
<1>2. CASE x[1] = "ip"
  <2>1. x \notin Blanks /\ c \in {Junk, <<"ip", NoAddress>>}
    BY <1>2 DEF CutLines, Blanks, Junk, Nul
  <2>2. CutLines(x) = {Junk, <<"ip", NoAddress>>} /\ CutLines(<<"ip", NoAddress>>) = {Junk, <<"ip", NoAddress>>}
    BY <1>2 DEF CutLines
  <2>3. CutLines(Junk) = {Junk}
    BY DEF CutLines, Junk
  <2>4. Junk \in Lines /\ <<"ip", NoAddress>> \in Lines
    BY DEF Lines, Junk, Text
  <2> QED
    BY <2>1, <2>2, <2>3, <2>4
<1>3. CASE x[1] = "ip_list_ends"
  <2>1. x \notin Blanks /\ c \in {Junk, <<"ip_list", 0>>}
    BY <1>3 DEF CutLines, Blanks, Junk, Nul
  <2>2. CutLines(<<"ip_list", 0>>) = {Junk} /\ CutLines(Junk) = {Junk} /\ Junk \in Blanks
    BY DEF CutLines, Junk, Blanks
  <2>3. Junk \in Lines /\ <<"ip_list", 0>> \in Lines
    BY DEF Lines, Junk
  <2> QED
    BY <2>1, <2>2, <2>3
<1>4. CASE x[1] = "end_node"
  <2>1. x \notin Blanks /\ c \in {Junk, x}
    BY <1>4 DEF CutLines, Blanks, Junk, Nul
  <2>2. CutLines(Junk) = {Junk} /\ Junk \in Blanks /\ Junk \in Lines
    BY DEF CutLines, Junk, Blanks, Lines
  <2> QED
    BY <2>1, <2>2
<1>5. CASE x[1] \notin {"id", "node_count", "ip", "ip_list_ends", "end_node"}
  <2>1. c = Junk
    BY <1>5 DEF CutLines
  <2>2. CutLines(Junk) = {Junk} /\ Junk \in Blanks /\ Junk \in Lines
    BY DEF CutLines, Junk, Blanks, Lines
  <2> QED
    BY <2>1, <2>2
<1> QED
  BY <1>1, <1>2, <1>3, <1>4, <1>5

\* A beginning of a piece is a piece,
LEMMA PieceBegins ==
    ASSUME NEW l \in Seq(Entry), NEW b, Piece(b, l), NEW n \in 0 .. Len(b)
    PROVE  Piece(SubSeq(b, 1, n), l)
<1> DEFINE x == SubSeq(b, 1, n)
<1>1. PICK k \in 0 .. Len(b) : b \in Seq(Lines) /\ CutAt(b, l, k)
  BY DEF Piece
<1>2. x \in Seq(Lines) /\ Len(x) = n /\ \A i \in 1 .. n : x[i] = b[i]
  BY <1>1
<1> HIDE DEF x
<1>3. CASE n <= k
  <2>1. CutAt(x, l, n)
    BY <1>1, <1>2, <1>3 DEF CutAt
  <2> QED
    BY <1>2, <2>1 DEF Piece, x
<1>4. CASE n > k
  <2>1. CutAt(x, l, k)
    BY <1>1, <1>2, <1>4 DEF CutAt
  <2> QED
    BY <1>1, <1>2, <1>4, <2>1 DEF Piece, x
<1> QED
  BY <1>1, <1>3, <1>4

\* and so is one with a part of the next line.
LEMMA PieceGoesOn ==
    ASSUME NEW l \in Seq(Entry), NEW b, Piece(b, l), NEW n \in 0 .. Len(b) - 1,
           NEW c \in CutLines(b[n + 1])
    PROVE  Piece(Append(SubSeq(b, 1, n), c), l)
<1> DEFINE a == SubSeq(b, 1, n)
           x == Append(a, c)
<1>1. PICK k \in 0 .. Len(b) : b \in Seq(Lines) /\ CutAt(b, l, k)
  BY DEF Piece
<1>2. a \in Seq(Lines) /\ Len(a) = n /\ \A i \in 1 .. n : a[i] = b[i]
  BY <1>1
<1>3. b[n + 1] \in Lines /\ n + 1 \in 1 .. Len(b) /\ n \in Nat
  BY <1>1
<1>4. c \in Lines /\ CutLines(c) \subseteq CutLines(b[n + 1]) \cup Blanks
      /\ (b[n + 1] \in Blanks => c = Junk) /\ Junk \in Blanks
  BY <1>3, LineCuts DEF Blanks
<1> HIDE DEF a
<1>5. /\ x \in Seq(Lines) /\ Len(x) = n + 1 /\ x[n + 1] = c
      /\ \A i \in 1 .. n : x[i] = b[i]
  BY <1>2, <1>3, <1>4
<1> HIDE DEF x
<1>6. CASE n < k
  <2>1. n + 1 \in 1 .. k
    BY <1>1, <1>3, <1>6
  <2>2. n + 1 <= Len(Encoded(l)) /\ b[n + 1] = Encoded(l)[n + 1]
    BY <1>1, <2>1 DEF CutAt
  <2>3. CutAt(x, l, n)
    BY <1>1, <1>3, <1>5, <1>6, <2>2 DEF CutAt
  <2> QED
    BY <1>3, <1>5, <2>3 DEF Piece, x, a
<1>7. CASE n = k
  <2>1. b[n + 1] \in Blanks
           \/ (n + 1 <= Len(Encoded(l)) /\ b[n + 1] \in CutLines(Encoded(l)[n + 1]))
    BY <1>1, <1>3, <1>7 DEF CutAt
  <2>2. c \in Blanks
           \/ (n + 1 <= Len(Encoded(l)) /\ c \in CutLines(Encoded(l)[n + 1]))
    <3>1. CASE b[n + 1] \in Blanks
      BY <1>4, <3>1
    <3>2. CASE n + 1 <= Len(Encoded(l)) /\ b[n + 1] \in CutLines(Encoded(l)[n + 1])
      <4>1. Encoded(l)[n + 1] \in Lines
        BY <1>3, <3>2, EncodedIs
      <4>2. CutLines(b[n + 1]) \subseteq CutLines(Encoded(l)[n + 1]) \cup Blanks
        BY <3>2, <4>1, LineCuts
      <4> QED
        BY <3>2, <4>2
    <3> QED
      BY <2>1, <3>1, <3>2
  <2>3. CutAt(x, l, n)
    BY <1>1, <1>3, <1>5, <1>7, <2>2 DEF CutAt
  <2> QED
    BY <1>3, <1>5, <2>3 DEF Piece, x, a
<1>8. CASE n > k
  <2>1. n + 1 \in k + 2 .. Len(b)
    BY <1>1, <1>3, <1>8
  <2>2. b[n + 1] \in Blanks
    BY <1>1, <2>1 DEF CutAt
  <2>3. CutAt(x, l, k)
    BY <1>1, <1>3, <1>4, <1>5, <1>8, <2>2 DEF CutAt
  <2> QED
    BY <1>1, <1>3, <1>5, <1>8, <2>3 DEF Piece, x, a
<1> QED
  BY <1>1, <1>3, <1>6, <1>7, <1>8

LEMMA PieceCut ==
    ASSUME NEW l \in Seq(Entry), NEW b, Piece(b, l), NEW x \in Cuts(b)
    PROVE  Piece(x, l)
<1>1. PICK n \in 0 .. Len(b) - 1 : x \in CutAfter(b, n)
  BY DEF Cuts
<1>2. Len(b) \in Nat
  BY DEF Piece
<1>3. n \in 0 .. Len(b)
  BY <1>2
<1>4. CASE x = SubSeq(b, 1, n)
  BY <1>3, <1>4, PieceBegins
<1>5. ASSUME NEW c \in CutLines(b[n + 1]), x = Append(SubSeq(b, 1, n), c)
      PROVE  Piece(x, l)
  BY <1>5, PieceGoesOn
<1> QED
  BY <1>1, <1>4, <1>5 DEF CutAfter

\* The NUL behind the file's text changes nothing.
LEMMA NulEnds ==
    ASSUME NEW l \in Seq(Entry), NEW b, Piece(b, l)
    PROVE  Piece(Append(b, Nul), l) /\ (Whole(b, l) => Whole(Append(b, Nul), l))
<1> DEFINE x == Append(b, Nul)
<1>1. PICK k \in 0 .. Len(b) : b \in Seq(Lines) /\ CutAt(b, l, k)
  BY DEF Piece
<1>2. Nul \in Blanks /\ Nul \in Lines
  BY DEF Blanks, Lines, Nul
<1>3. /\ x \in Seq(Lines) /\ Len(x) = Len(b) + 1 /\ x[Len(b) + 1] = Nul
      /\ \A i \in 1 .. Len(b) : x[i] = b[i]
  BY <1>1, <1>2
<1>4. Len(Encoded(l)) \in Nat /\ Len(b) \in Nat
  BY <1>1, EncodedIs
<1> HIDE DEF x
<1>5. CutAt(x, l, k)
  <2>1. \A i \in 1 .. k : i <= Len(Encoded(l)) /\ x[i] = Encoded(l)[i]
    BY <1>1, <1>3 DEF CutAt
  <2>2. \/ x[k + 1] \in Blanks
        \/ k + 1 <= Len(Encoded(l)) /\ x[k + 1] \in CutLines(Encoded(l)[k + 1])
    <3>1. CASE k = Len(b)
      BY <1>2, <1>3, <3>1
    <3>2. CASE k < Len(b)
      <4>1. x[k + 1] = b[k + 1]
        BY <1>1, <1>3, <3>2
      <4> QED
        BY <1>1, <3>2, <4>1 DEF CutAt
    <3> QED
      BY <1>1, <3>1, <3>2
  <2>3. \A i \in k + 2 .. Len(x) : x[i] \in Blanks
    <3>1. \A i \in k + 2 .. Len(b) : x[i] \in Blanks
      BY <1>1, <1>3 DEF CutAt
    <3> QED
      BY <1>1, <1>2, <1>3, <1>4, <3>1
  <2> QED
    BY <2>1, <2>2, <2>3 DEF CutAt
<1>6. Piece(x, l)
  BY <1>1, <1>3, <1>4, <1>5 DEF Piece
<1>7. ASSUME Whole(b, l)
      PROVE  Whole(x, l)
  <2> DEFINE n == Len(Encoded(l))
  <2>1. n <= Len(b) /\ (\A i \in 1 .. n : b[i] = Encoded(l)[i])
        /\ \A i \in n + 1 .. Len(b) : b[i] \in Blanks
    BY <1>7 DEF Whole
  <2>2. n \in Nat
    BY <1>4
  <2> HIDE DEF n
  <2>3. n <= Len(x)
    BY <1>3, <1>4, <2>1, <2>2
  <2>4. \A i \in 1 .. n : x[i] = Encoded(l)[i]
    BY <1>3, <1>4, <2>1, <2>2
  <2>5. \A i \in n + 1 .. Len(x) : x[i] \in Blanks
    BY <1>2, <1>3, <1>4, <2>1, <2>2
  <2> QED
    BY <1>3, <2>3, <2>4, <2>5 DEF Whole, n
<1> QED
  BY <1>6, <1>7 DEF x

LEMMA NothingIsAPiece ==
    ASSUME NEW l \in Seq(Entry)
    PROVE  Piece(<<>>, l)
<1>1. <<>> \in Seq(Lines) /\ Len(<<>>) = 0
  OBVIOUS
<1>2. CutAt(<<>>, l, 0)
  BY <1>1 DEF CutAt
<1> QED
  BY <1>1, <1>2 DEF Piece

\* The two messages that no list is sent with.
LEMMA EmptyIsWhole == Whole(<<>>, <<>>) /\ Whole(<<Junk>>, <<>>)
<1>1. <<>> \in Seq(Entry) /\ Len(<<>>) = 0
  OBVIOUS
<1>2. Len(Encoded(<<>>)) = 0
  <2>1. PICK g : Starts(<<>>, g)
    BY <1>1, EncodedIs
  <2> QED
    BY <1>1, <2>1 DEF Starts
<1>3. <<>> \in Seq(Lines) /\ <<Junk>> \in Seq(Lines) /\ Len(<<Junk>>) = 1 /\ <<Junk>>[1] = Junk
  BY DEF Lines, Junk
<1>4. Junk \in Blanks
  BY DEF Blanks
<1>5. Whole(<<>>, <<>>)
  BY <1>1, <1>2, <1>3 DEF Whole
<1>6. Whole(<<Junk>>, <<>>)
  <2> DEFINE b == <<Junk>>
  <2>1. b \in Seq(Lines) /\ Len(b) = 1 /\ b[1] \in Blanks
    BY <1>3, <1>4
  <2> HIDE DEF b
  <2>2. Whole(b, <<>>)
    BY <1>2, <2>1 DEF Whole
  <2> QED
    BY <2>2 DEF b
<1> QED
  BY <1>5, <1>6

LEMMA EncodeIsWhole ==
    ASSUME NEW l \in Lists
    PROVE  l \in Seq(Entry) /\ Encode[l] \in Seq(Lines) /\ Whole(Encode[l], l)
<1>1. l \in Seq(Entry)
  BY ListsType
<1>2. Encode[l] = Encoded(l)
  BY DEF Encode, Encoded
<1>3. Encoded(l) \in Seq(Lines)
  BY <1>1, EncodedIs
<1>4. Whole(Encoded(l), l)
  BY <1>3 DEF Whole
<1> QED
  BY <1>1, <1>2, <1>3, <1>4

\* What an earlier message left is lines, too.
LEMMA EndingsType == Endings \subseteq Seq(Lines)
<1> SUFFICES ASSUME NEW l \in Lists, NEW e \in Suffixes(Encode[l])
             PROVE  e \in Seq(Lines)
  BY DEF Endings
<1>1. Encode[l] \in Seq(Lines)
  BY EncodeIsWhole
<1>2. CASE e = <<>>
  BY <1>2
<1>3. ASSUME NEW i \in 1 .. Len(Encode[l]), e = SubSeq(Encode[l], i, Len(Encode[l]))
      PROVE  e \in Seq(Lines)
  <2> DEFINE w == Encode[l]
  <2>1. \A j \in i .. Len(w) : w[j] \in Lines
    BY <1>1
  <2>2. w \in Seq(Lines) /\ Len(w) \in Nat /\ e = SubSeq(w, i, Len(w)) /\ i \in Nat
    BY <1>1, <1>3
  <2> HIDE DEF w
  <2> QED
    BY <2>1, <2>2, SubSeqProperties
<1> QED
  BY <1>2, <1>3 DEF Suffixes

\* recv gives all of a message whose size was announced.
LEMMA AllOffered ==
    ASSUME NEW S, NEW w \in Seq(S)
    PROVE  SubSeq(w, 1, Min({Len(w), Len(w)})) = w
<1>1. Len(w) \in Nat
  OBVIOUS
<1>2. Min({Len(w), Len(w)}) = Len(w)
  BY <1>1 DEF Min
<1> QED
  BY <1>2

\* What is parsed of a piece and of the whole.
LEMMA DecodePiece ==
    ASSUME NEW l \in Seq(Entry), NEW b, Piece(b, l)
    PROVE  ~Parse(b).crashed /\ IsPrefix(Decode(b), l)
<1>1. PICK q \in 0 .. Len(l) : ~Parse(b).crashed /\ Parse(b).nodes = SubSeq(l, 1, q)
  BY ParsePiece
<1> DEFINE p == SubSeq(l, 1, q)
<1>2. Len(p) = q /\ q <= Len(l) /\ SubSeq(p, 1, q) = p
  OBVIOUS
<1> QED
  BY <1>1, <1>2 DEF Decode, IsPrefix

LEMMA DecodeWhole ==
    ASSUME NEW l \in Seq(Entry), NEW b, Whole(b, l)
    PROVE  Decode(b) = l
BY ParseWhole DEF Decode

-----------------------------------------------------------------------------
(* The inductive invariant *)

Texts == Seq(Lines)
Kinds == {"none", "Register", "width_test", "R_Register"}
Sending == {"send size", "send type", "send body"}

TypeInv ==
    /\ pc \in [Side -> Labels] /\ DOMAIN wire = Side
    /\ ended \in [Side -> {"open", "closed", "reset"}]
    /\ how \in [Side -> {"whole", "short", "mixed"}]
    /\ frame \in [Side -> [size : Nat, type : Kinds]]
    /\ out \in [Side -> [size : Nat, type : Kinds, body : Texts]]
    /\ buf \in [Side -> Texts] /\ sent \in [Side -> Seq(Entry)]
    /\ file \in Texts /\ written \in Seq(Entry) /\ torn \in BOOLEAN

\* Who is where, what the server answers, and what size a message announces.
Roles ==
    /\ pc["client"] \notin {"accept", "dead", "file"} /\ pc["server"] \notin {"off", "write"}
    /\ frame["client"].type \in {"none", "R_Register"}
    /\ out["server"].type \in {"none", "R_Register"}
    /\ \A s \in Side : out[s].size = Len(out[s].body)

\* A side that is gone is known to be gone.
Ends ==
    /\ ended["client"] # "open" => pc["server"] \in {"dead", "accept"}
    /\ ended["server"] = "open" <=> pc["client"] # "off"

\* While the server has not answered nothing is on the way to the client.
Waiting ==
    /\ pc["server"] \in Receiving \cup {"handle"} =>
          wire["client"] = <<>> /\ pc["client"] \in {"off", "size"} \cup Sending
    /\ pc["server"] = "handle" => pc["client"] \notin Sending
    /\ pc["client"] \in Sending => wire["client"] = <<>> /\ pc["server"] \notin Sending

SizeOf(s) == <<"size", out[s].size>>
TypeOf(s) == <<"type", out[s].type>>

\* What s has received of the peer's message, and what is on the way to it.
Arrives(s) ==
    LET o == Other(s)
        here == wire[s] # <<>> \/ ended[s] = "open"
    IN  /\ pc[s] = "size" => wire[s] \in {<<>>, <<SizeOf(o)>>, <<SizeOf(o), TypeOf(o)>>,
                                          <<SizeOf(o), TypeOf(o)>> \o out[o].body}
        /\ pc[s] = "type" =>
              /\ wire[s] \in {<<>>, <<TypeOf(o)>>, <<TypeOf(o)>> \o out[o].body}
              /\ here => frame[s].size = out[o].size
        /\ pc[s] \in {"body", "file"} =>
              /\ wire[s] \in {<<>>, out[o].body}
              /\ here => frame[s].size = out[o].size /\ frame[s].type = out[o].type
        /\ pc[s] = "file" => frame[s].type = "width_test"

\* How far s is when its peer has still to send.
InStep(s) ==
    LET o == Other(s)
    IN  ended[s] = "open" /\ ended[o] = "open" =>
          /\ pc[o] = "send size" => pc[s] = "size" /\ wire[s] = <<>>
          /\ pc[o] = "send type" =>
                \/ pc[s] = "size" /\ wire[s] = <<SizeOf(o)>>
                \/ pc[s] = "type" /\ wire[s] = <<>>
          /\ pc[o] = "send body" =>
                \/ pc[s] = "size" /\ wire[s] = <<SizeOf(o), TypeOf(o)>>
                \/ pc[s] = "type" /\ wire[s] = <<TypeOf(o)>>
                \/ pc[s] \in {"body", "file"} /\ wire[s] = <<>>

\* Whether the message to s is made of a list that nobody cut.
Uncut(s) == s = "client" \/ (~torn /\ pc["server"] \in Receiving \cup {"handle"})

\* What is sent to s.
Offers(s) ==
    /\ Piece(out[Other(s)].body, sent[s])
    /\ Uncut(s) => Whole(out[Other(s)].body, sent[s])

\* What s has received.
Holds(s) ==
    /\ pc[s] \notin {"handle", "write"} => buf[s] = <<>>
    /\ how[s] = "mixed" => s = "server"
    /\ how[s] # "mixed" => Piece(buf[s], sent[s])
    /\ pc[s] \in {"handle", "write"} /\ how[s] = "whole" /\ Uncut(s) => Whole(buf[s], sent[s])

FileInv ==
    /\ Piece(file, written) /\ (~torn => Whole(file, written))
    /\ pc["client"] = "write" => torn /\ written = sent["client"]
    /\ out["client"].type = "width_test" => sent["server"] = <<>>

IInv ==
    /\ TypeInv /\ Roles /\ Ends /\ Waiting /\ FileInv
    /\ \A s \in Side : Arrives(s) /\ InStep(s) /\ Offers(s) /\ Holds(s)

\* The variables that hold something for each side.
Functions ==
    /\ DOMAIN pc = Side /\ DOMAIN wire = Side /\ DOMAIN ended = Side /\ DOMAIN how = Side
    /\ DOMAIN frame = Side /\ DOMAIN out = Side /\ DOMAIN buf = Side /\ DOMAIN sent = Side

-----------------------------------------------------------------------------
(* Messages *)

LEMMA TextFacts ==
    /\ <<>> \in Texts /\ <<Junk>> \in Texts
    /\ \A b, c \in Texts : b \o c \in Texts
    /\ \A b \in Texts : Append(b, Nul) \in Texts /\ Len(b) \in Nat
BY DEF Texts, Junk, Nul, Lines

LEMMA JunkIsAPiece ==
    ASSUME NEW l \in Seq(Entry)
    PROVE  Piece(<<Junk>>, l)
<1> DEFINE b == <<Junk>>
<1>1. b \in Seq(Lines) /\ Len(b) = 1 /\ b[1] \in Blanks
  BY DEF Lines, Junk, Blanks
<1> HIDE DEF b
<1>2. CutAt(b, l, 0)
  BY <1>1 DEF CutAt
<1>3. Piece(b, l)
  BY <1>1, <1>2 DEF Piece
<1> QED
  BY <1>3 DEF b

LEMMA BothSides ==
    ASSUME NEW L, NEW x \in L, NEW y \in L
    PROVE  [client |-> x, server |-> y] \in [Side -> L]
BY DEF Side

LEMMA Appended ==
    ASSUME NEW x, NEW y
    PROVE  <<>> \o <<x>> = <<x>> /\ <<x>> \o <<y>> = <<x, y>>
<1> DEFINE S == {x, y}
<1> DEFINE p == <<x>>
           q == <<y>>
           r == <<x, y>>
<1>1. /\ p \in Seq(S) /\ q \in Seq(S) /\ r \in Seq(S)
      /\ Len(p) = 1 /\ Len(q) = 1 /\ Len(r) = 2
      /\ p[1] = x /\ q[1] = y /\ r[1] = x /\ r[2] = y
  OBVIOUS
<1> HIDE DEF p, q, r, S
<1>2. /\ p \o q \in Seq(S) /\ Len(p \o q) = Len(p) + Len(q)
      /\ \A i \in 1 .. Len(p) + Len(q) :
            (p \o q)[i] = IF i <= Len(p) THEN p[i] ELSE q[i - Len(p)]
  BY <1>1, ConcatProperties
<1>3. (p \o q)[1] = x /\ (p \o q)[2] = y /\ Len(p \o q) = 2
  BY <1>1, <1>2
<1>4. \A i \in 1 .. Len(p \o q) : (p \o q)[i] = r[i]
  BY <1>1, <1>3
<1>5. p \o q = r
  BY <1>1, <1>2, <1>3, <1>4, SeqEqual
<1>6. <<>> \o p = p
  BY <1>1, ConcatEmptySeq
<1> QED
  BY <1>5, <1>6 DEF p, q, r

LEMMA StreamFacts ==
    ASSUME NEW x, NEW y, NEW b \in Texts
    PROVE  /\ Head(<<x>>) = x /\ Tail(<<x>>) = <<>>
           /\ Head(<<x, y>>) = x /\ Tail(<<x, y>>) = <<y>>
           /\ Head(<<x>> \o b) = x /\ Tail(<<x>> \o b) = b
           /\ Head(<<x, y>> \o b) = x /\ Tail(<<x, y>> \o b) = <<y>> \o b
<1> DEFINE S == {x, y} \cup Lines
<1>1. b \in Seq(S) /\ <<x>> \in Seq(S) /\ <<y>> \in Seq(S) /\ <<x, y>> \in Seq(S)
  BY DEF Texts
<1>2. <<>> \o b = b
  BY <1>1, ConcatEmptySeq
<1>3. <<x>> # <<>> /\ <<x, y>> # <<>> /\ Head(<<x>>) = x /\ Tail(<<x>>) = <<>>
      /\ Head(<<x, y>>) = x /\ Tail(<<x, y>>) = <<y>>
  OBVIOUS
<1> HIDE DEF S
<1>4. ASSUME NEW c \in Seq(S), c # <<>>
      PROVE  Head(c \o b) = Head(c) /\ Tail(c \o b) = Tail(c) \o b
  <2>1. Len(c) \in Nat /\ Len(c) >= 1 /\ Len(b) \in Nat
    BY <1>1, <1>4
  <2>2. c \o b \in Seq(S) /\ Len(c \o b) = Len(c) + Len(b)
    BY <1>1
  <2>3. Head(c \o b) = Head(c) /\ c \o b # <<>>
    BY <1>1, <1>4, <2>1, <2>2
  <2>4. Tail(c) \in Seq(S) /\ Len(Tail(c)) = Len(c) - 1
        /\ \A i \in 1 .. Len(c) - 1 : Tail(c)[i] = c[i + 1]
    BY <1>4, HeadTailProperties
  <2>5. Tail(c \o b) \in Seq(S) /\ Len(Tail(c \o b)) = Len(c) + Len(b) - 1
        /\ \A i \in 1 .. Len(c) + Len(b) - 1 : Tail(c \o b)[i] = (c \o b)[i + 1]
    BY <2>2, <2>3, HeadTailProperties
  <2>6. \A i \in 1 .. Len(c) + Len(b) - 1 : Tail(c \o b)[i] = (Tail(c) \o b)[i]
    BY <1>1, <1>4, <2>1, <2>4, <2>5
  <2>7. Tail(c) \o b \in Seq(S) /\ Len(Tail(c) \o b) = Len(c) + Len(b) - 1
    BY <1>1, <2>1, <2>4
  <2>8. Tail(c \o b) = Tail(c) \o b
    BY <2>5, <2>6, <2>7, SeqEqual
  <2> QED
    BY <2>3, <2>8
<1>5. Head(<<x>> \o b) = x /\ Tail(<<x>> \o b) = b
  BY <1>1, <1>2, <1>3, <1>4
<1>6. Head(<<x, y>> \o b) = x /\ Tail(<<x, y>> \o b) = <<y>> \o b
  BY <1>1, <1>3, <1>4
<1> QED
  BY <1>2, <1>3, <1>5, <1>6

-----------------------------------------------------------------------------
(* Every action keeps it *)

LEMMA ConnectKeeps ==
    ASSUME IInv, Connect
    PROVE  IInv'
<1>1. TypeInv /\ Functions
  BY DEF IInv, TypeInv, Functions
<1>2. Roles
  BY DEF IInv
<1>5. FileInv
  BY DEF IInv
<1>6. \A s \in Side : Arrives(s) /\ InStep(s) /\ Offers(s) /\ Holds(s)
  BY DEF IInv
<1>7. \E m \in [size : Nat, type : Kinds, body : Texts], l \in Seq(Entry) :
        /\ out' = [out EXCEPT !["client"] = m] /\ sent' = [sent EXCEPT !["server"] = l]
        /\ m.size = Len(m.body) /\ Piece(m.body, l) /\ (~torn => Whole(m.body, l))
        /\ m.type = "width_test" => l = <<>>
  <2>1. CASE /\ out' = [out EXCEPT !["client"] = [size |-> Len(file) + 1, type |-> "Register",
                                                body |-> Append(file, Nul)]]
             /\ sent' = [sent EXCEPT !["server"] = written]
    <3> DEFINE t == Append(file, Nul)
               m == [size |-> Len(file) + 1, type |-> "Register", body |-> t]
    <3>1. file \in Texts /\ written \in Seq(Entry)
      BY <1>1 DEF TypeInv
    <3>2. t \in Texts /\ Len(t) = Len(file) + 1 /\ Len(file) + 1 \in Nat
      BY <3>1, TextFacts DEF Texts
    <3>3. Piece(t, written) /\ (~torn => Whole(t, written))
      BY <1>5, <3>1, NulEnds DEF FileInv
    <3> HIDE DEF t
    <3>4. m \in [size : Nat, type : Kinds, body : Texts] /\ m.size = Len(m.body)
          /\ m.body = t /\ m.type # "width_test"
      BY <3>2 DEF Kinds
    <3> QED
      BY <2>1, <3>1, <3>3, <3>4 DEF t
  <2>2. CASE /\ out' = [out EXCEPT !["client"] = [size |-> 1, type |-> "width_test",
                                                body |-> <<Junk>>]]
             /\ sent' = [sent EXCEPT !["server"] = <<>>]
    <3> DEFINE t == <<Junk>>
               m == [size |-> 1, type |-> "width_test", body |-> t]
    <3>1. t \in Texts /\ Len(t) = 1 /\ <<>> \in Seq(Entry)
      BY TextFacts
    <3>2. Whole(t, <<>>) /\ Piece(t, <<>>)
      BY <3>1, EmptyIsWhole, WholeIsPiece
    <3> HIDE DEF t
    <3>3. m \in [size : Nat, type : Kinds, body : Texts] /\ m.size = Len(m.body)
          /\ m.body = t
      BY <3>1 DEF Kinds
    <3> QED
      BY <2>2, <3>1, <3>2, <3>3 DEF t
  <2> QED
    BY <2>1, <2>2 DEF Connect
<1>8. PICK m \in [size : Nat, type : Kinds, body : Texts], l \in Seq(Entry) :
        /\ out' = [out EXCEPT !["client"] = m] /\ sent' = [sent EXCEPT !["server"] = l]
        /\ m.size = Len(m.body) /\ Piece(m.body, l) /\ (~torn => Whole(m.body, l))
        /\ m.type = "width_test" => l = <<>>
  BY <1>7
<1>9. /\ out'["client"] = m /\ out'["server"] = out["server"]
      /\ sent'["server"] = l /\ sent'["client"] = sent["client"]
      /\ pc'["client"] = "send size" /\ pc'["server"] = "size" /\ pc["server"] = "accept"
      /\ pc["client"] = "off"
      /\ wire'["client"] = <<>> /\ wire'["server"] = <<>>
      /\ frame'["client"] = Blank /\ frame'["server"] = frame["server"]
      /\ buf' = buf /\ how' = how /\ file' = file /\ written' = written /\ torn' = torn
  BY <1>1, <1>8 DEF Connect, fileVars, Functions, Side
<1>10. TypeInv'
  <2>1. out' \in [Side -> [size : Nat, type : Kinds, body : Texts]]
    BY <1>1, <1>8 DEF TypeInv
  <2>2. sent' \in [Side -> Seq(Entry)]
    BY <1>1, <1>8 DEF TypeInv
  <2>5. frame' \in [Side -> [size : Nat, type : Kinds]]
    BY <1>1 DEF Connect, Blank, TypeInv, Kinds
  <2>6. pc' \in [Side -> Labels]
    <3>1. "send size" \in Labels /\ "size" \in Labels
      BY DEF Labels, Receiving
    <3>2. pc' = [client |-> "send size", server |-> "size"]
      BY DEF Connect
    <3> QED
      BY <3>1, <3>2, BothSides
  <2> QED
    BY <1>1, <2>1, <2>2, <2>5, <2>6 DEF Connect, fileVars, TypeInv
<1>11. Roles'
  <2>1. \A s \in Side : out'[s].size = Len(out'[s].body)
    BY <1>2, <1>8 DEF Roles, Side
  <2>2. Blank.type = "none" /\ frame'["client"] = Blank
    BY <1>9 DEF Blank
  <2> QED
    BY <1>2, <1>9, <2>1, <2>2 DEF Roles
<1>12. Ends'
  BY DEF Connect, Side, Ends
<1>13. Waiting'
  BY DEF Connect, Side, Waiting, Sending
<1>14. FileInv'
  BY <1>5, <1>8, <1>9 DEF FileInv
<1>15. ASSUME NEW s \in Side
       PROVE  Arrives(s)' /\ InStep(s)' /\ Offers(s)' /\ Holds(s)'
  <2>0. Arrives(s) /\ InStep(s) /\ Offers(s) /\ Holds(s)
    BY <1>6
  <2>1. Arrives(s)'
    BY <1>9 DEF Arrives, Side
  <2>2. InStep(s)'
    BY <1>9 DEF InStep, Side, Other
  <2>3. Offers(s)'
    BY <1>8, <1>9, <2>0 DEF Offers, Side, Other, Uncut
  <2>4. Holds(s)'
    <3> QED
      BY <1>9, <2>0, NothingIsAPiece DEF Holds, Side
  <2> QED
    BY <2>1, <2>2, <2>3, <2>4
<1> QED
  BY <1>10, <1>11, <1>12, <1>13, <1>14, <1>15 DEF IInv

LEMMA SendKeeps ==
    ASSUME IInv, NEW a \in Side, Send(a)
    PROVE  IInv'
<1>1. TypeInv /\ Functions
  BY DEF IInv, TypeInv, Functions
<1>2. Roles
  BY DEF IInv
<1>3. Ends
  BY DEF IInv
<1>4. Waiting
  BY DEF IInv
<1>5. FileInv
  BY DEF IInv
<1>6. \A s \in Side : Arrives(s) /\ InStep(s) /\ Offers(s) /\ Holds(s)
  BY DEF IInv
<1> DEFINE o == Other(a)
           S == SizeOf(a)
           T == TypeOf(a)
           b == out[a].body
<1>7. o \in Side /\ o # a /\ Other(o) = a /\ pc[a] # "off" /\ pc[a] \notin {"dead", "accept"}
      /\ pc[a] \in Sending /\ (a = "client" => o = "server") /\ (a = "server" => o = "client")
  BY DEF Side, Other, Send, Sending
<1>8. ended[a] = "open" <=> ended[a] = "open" /\ ended[o] = "open"
  BY <1>3, <1>7 DEF Ends, Side
<1>9. b \in Texts
  BY <1>1 DEF TypeInv
<1>10. /\ <<>> \o <<S>> = <<S>> /\ <<>> \o <<T>> = <<T>> /\ <<>> \o b = b
       /\ <<S>> \o <<T>> = <<S, T>>
  <2>1. b \in Texts
    BY <1>9
  <2> HIDE DEF S, T, b
  <2>2. <<>> \o <<S>> = <<S>> /\ <<S>> \o <<T>> = <<S, T>>
    BY Appended
  <2>3. <<>> \o <<T>> = <<T>>
    BY Appended
  <2>4. <<>> \o b = b
    BY <2>1, ConcatEmptySeq DEF Texts
  <2> QED
    BY <2>2, <2>3, <2>4
<1>11. /\ \A t \in Side : t # a => pc'[t] = pc[t]
       /\ \A t \in Side : t # o => wire'[t] = wire[t]
       /\ ended[a] # "open" => wire' = wire
       /\ frame' = frame /\ out' = out /\ ended' = ended
       /\ \/ pc[a] = "send size" /\ pc'[a] = "send type"
             /\ (ended[a] = "open" => wire'[o] = wire[o] \o <<S>>)
          \/ pc[a] = "send type" /\ pc'[a] = "send body"
             /\ (ended[a] = "open" => wire'[o] = wire[o] \o <<T>>)
          \/ pc[a] = "send body" /\ pc'[a] \in {"size", "accept"}
             /\ (ended[a] = "open" => wire'[o] = wire[o] \o b)
  BY <1>1, <1>7 DEF Send, Put, Goto, Functions, SizeOf, TypeOf
<1>12. Arrives(o) /\ InStep(o)
  BY <1>6, <1>7
<1>13. TypeInv'
  <2>1. pc' \in [Side -> Labels]
    BY <1>1 DEF Send, Put, Goto, fileVars, counters, TypeInv, Labels, Receiving
  <2>2. DOMAIN wire' = Side
    BY <1>1 DEF Send, Put, TypeInv
  <2> QED
    BY <1>1, <2>1, <2>2 DEF Send, fileVars, TypeInv
<1>14. Roles'
  BY <1>1, <1>2 DEF Send, Goto, Side, Functions, Roles
<1>15. Ends'
  BY <1>1, <1>3 DEF Send, Goto, Side, Functions, Ends
<1>16. Waiting'
  BY <1>1, <1>2, <1>3, <1>4, <1>6
     DEF Send, Put, Goto, fileVars, counters, Side, Other, Functions, Roles, Ends,
         Waiting, Receiving, Sending
<1>17. FileInv'
  BY <1>1, <1>5 DEF Send, Goto, fileVars, Side, Functions, FileInv
<1>18. ASSUME NEW s \in Side
       PROVE  Arrives(s)' /\ InStep(s)' /\ Offers(s)' /\ Holds(s)'
  <2>0. Arrives(s) /\ InStep(s) /\ Offers(s) /\ Holds(s)
    BY <1>6
  <2>1. Arrives(s)'
    <3>1. CASE s = o /\ ended[a] = "open"
      <4>1. ended[o] = "open"
        BY <1>8, <3>1
      <4> HIDE DEF o, S, T, b
      <4>2. CASE pc[a] = "send size"
        <5>1. pc[o] = "size" /\ wire[o] = <<>>
          BY <1>7, <1>12, <3>1, <4>1, <4>2 DEF InStep
        <5>2. wire'[o] = <<S>> /\ pc'[o] = "size"
          BY <1>7, <1>10, <1>11, <3>1, <4>2, <5>1
        <5> QED
          BY <1>7, <1>11, <3>1, <5>2 DEF Arrives, S, SizeOf
      <4>3. CASE pc[a] = "send type"
        <5>1. \/ pc[o] = "size" /\ wire[o] = <<S>>
              \/ pc[o] = "type" /\ wire[o] = <<>>
          BY <1>7, <1>12, <3>1, <4>1, <4>3 DEF InStep, S
        <5>2. \/ pc'[o] = "size" /\ wire'[o] = <<S, T>>
              \/ pc'[o] = "type" /\ wire'[o] = <<T>> /\ pc[o] = "type"
          BY <1>7, <1>10, <1>11, <3>1, <4>3, <5>1
        <5>3. pc[o] = "type" => frame[o].size = out[a].size
          BY <1>7, <1>12, <4>1 DEF Arrives
        <5> QED
          BY <1>7, <1>11, <3>1, <5>2, <5>3 DEF Arrives, S, T, SizeOf, TypeOf
      <4>4. CASE pc[a] = "send body"
        <5>1. \/ pc[o] = "size" /\ wire[o] = <<S, T>>
              \/ pc[o] = "type" /\ wire[o] = <<T>>
              \/ pc[o] \in {"body", "file"} /\ wire[o] = <<>>
          BY <1>7, <1>12, <3>1, <4>1, <4>4 DEF InStep, S, T
        <5>2. pc'[o] = pc[o]
          BY <1>7, <1>11
        <5>3. \/ pc'[o] = "size" /\ wire'[o] = <<S, T>> \o b
              \/ pc'[o] = "type" /\ wire'[o] = <<T>> \o b
              \/ pc'[o] \in {"body", "file"} /\ wire'[o] = b
          BY <1>10, <1>11, <3>1, <4>4, <5>1, <5>2
        <5>4. /\ pc[o] = "type" => frame[o].size = out[a].size
              /\ pc[o] \in {"body", "file"} => frame[o].size = out[a].size /\ frame[o].type = out[a].type
              /\ pc[o] = "file" => frame[o].type = "width_test"
          BY <1>7, <1>12, <4>1 DEF Arrives
        <5> QED
          BY <1>7, <1>11, <3>1, <5>3, <5>4 DEF Arrives, S, T, b, SizeOf, TypeOf
      <4> QED
        BY <1>11, <4>2, <4>3, <4>4
    <3>2. CASE s = o /\ ended[a] # "open"
      <4>1. wire'[s] = wire[s] /\ pc'[s] = pc[s]
        BY <1>7, <1>11, <3>2
      <4> QED
        BY <1>11, <2>0, <4>1 DEF Arrives, SizeOf, TypeOf
    <3>3. CASE s = a
      <4>1. wire'[a] = wire[a]
        BY <1>7, <1>11
      <4>2. pc'[a] \in {"send type", "send body", "accept"} \/ (a = "client" /\ pc'[a] = "size" /\ pc[a] = "send body")
        BY <1>1 DEF Send, Goto, Functions
      <4>3. a = "client" /\ pc[a] = "send body" => wire'[a] = <<>>
        BY <1>4, <4>1 DEF Waiting, Sending
      <4> QED
        BY <3>3, <4>2, <4>3 DEF Arrives
    <3> QED
      BY <1>7, <3>1, <3>2, <3>3 DEF Side
  <2>2. InStep(s)'
    <3>0. SUFFICES ASSUME ended[s] = "open", ended[Other(s)] = "open"
                   PROVE  InStep(s)'
      BY <1>11 DEF InStep
    <3>1. CASE s = o
      <4>1. ended[a] = "open" /\ ended[o] = "open" /\ Other(s) = a
        BY <1>7, <3>0, <3>1
      <4> HIDE DEF o, S, T, b
      <4>2. CASE pc[a] = "send size"
        <5>1. pc[o] = "size" /\ wire[o] = <<>>
          BY <1>12, <3>1, <4>1, <4>2 DEF InStep
        <5>2. wire'[o] = <<S>> /\ pc'[o] = "size" /\ pc'[a] = "send type"
          BY <1>7, <1>10, <1>11, <4>1, <4>2, <5>1
        <5> QED
          BY <1>11, <3>1, <4>1, <5>2 DEF InStep, S, SizeOf
      <4>3. CASE pc[a] = "send type"
        <5>1. \/ pc[o] = "size" /\ wire[o] = <<S>>
              \/ pc[o] = "type" /\ wire[o] = <<>>
          BY <1>12, <3>1, <4>1, <4>3 DEF InStep, S
        <5>2. pc'[a] = "send body" /\ pc'[o] = pc[o] /\ wire'[o] = wire[o] \o <<T>>
          BY <1>7, <1>11, <4>1, <4>3
        <5>3. \/ pc'[o] = "size" /\ wire'[o] = <<S, T>>
              \/ pc'[o] = "type" /\ wire'[o] = <<T>>
          BY <1>10, <5>1, <5>2
        <5> QED
          BY <1>11, <3>1, <4>1, <5>2, <5>3 DEF InStep, S, T, SizeOf, TypeOf
      <4>4. CASE pc[a] = "send body"
        <5>1. pc'[a] \in {"size", "accept"}
          BY <1>11, <4>4
        <5> QED
          BY <4>1, <5>1 DEF InStep
      <4> QED
        BY <1>11, <4>2, <4>3, <4>4
    <3>2. CASE s = a
      <4>1. pc[o] \notin Sending
        BY <1>7, <2>0, <3>0, <3>2 DEF InStep, Sending
      <4> QED
        BY <1>7, <1>11, <3>2, <4>1 DEF InStep, Sending
    <3> QED
      BY <1>7, <3>1, <3>2 DEF Side
  <2>3. Offers(s)'
    BY <1>1, <2>0 DEF Send, Goto, fileVars, Side, Functions, Receiving, Offers, Uncut
  <2>4. Holds(s)'
    BY <1>1, <1>4, <2>0
       DEF Send, Goto, Side, Functions, Roles, Waiting, Receiving, Holds, Uncut
  <2> QED
    BY <2>1, <2>2, <2>3, <2>4
<1> QED
  BY <1>13, <1>14, <1>15, <1>16, <1>17, <1>18 DEF IInv

LEMMA RecvSizeKeeps ==
    ASSUME IInv, NEW a \in Side, RecvSize(a)
    PROVE  IInv'
<1>1. TypeInv /\ Functions
  BY DEF IInv, TypeInv, Functions
<1>2. Roles
  BY DEF IInv
<1>3. Ends
  BY DEF IInv
<1>4. Waiting
  BY DEF IInv
<1>5. FileInv
  BY DEF IInv
<1>6. \A s \in Side : Arrives(s) /\ InStep(s) /\ Offers(s) /\ Holds(s)
  BY DEF IInv
<1> DEFINE o == Other(a)
           S == SizeOf(o)
           T == TypeOf(o)
           b == out[o].body
<1>7. /\ o \in Side /\ o # a /\ Other(o) = a /\ \A s \in Side : s = a \/ s = o
      /\ (a = "client" /\ o = "server") \/ (a = "server" /\ o = "client")
      /\ pc[a] = "size"
  BY DEF Side, Other, RecvSize
<1>8. b \in Texts /\ out[o].size \in Nat
  BY <1>1, <1>7 DEF TypeInv
<1>9. wire[a] # <<>> =>
        /\ Head(wire[a]) = S
        /\ \/ wire[a] = <<S>> /\ Tail(wire[a]) = <<>>
           \/ wire[a] = <<S, T>> /\ Tail(wire[a]) = <<T>>
           \/ wire[a] = <<S, T>> \o b /\ Tail(wire[a]) = <<T>> \o b
  <2>1. wire[a] \in {<<>>, <<S>>, <<S, T>>, <<S, T>> \o b}
    BY <1>6, <1>7 DEF Arrives
  <2>2. b \in Texts
    BY <1>8
  <2> HIDE DEF S, T, b
  <2>3. /\ Head(<<S>>) = S /\ Tail(<<S>>) = <<>>
        /\ Head(<<S, T>>) = S /\ Tail(<<S, T>>) = <<T>>
        /\ Head(<<S, T>> \o b) = S /\ Tail(<<S, T>> \o b) = <<T>> \o b
    BY <2>2, StreamFacts
  <2> QED
    BY <2>1, <2>3
<1>10. /\ wire'[o] = wire[o] /\ frame'[o] = frame[o] /\ pc'[a] = "type" /\ pc'[o] = pc[o]
       /\ \/ wire[a] # <<>> /\ wire'[a] = Tail(wire[a]) /\ frame'[a].size = out[o].size
             /\ frame'[a].type = frame[a].type
             /\ frame' = [frame EXCEPT ![a].size = out[o].size]
          \/ wire[a] = <<>> /\ wire'[a] = <<>> /\ ended[a] = "closed" /\ frame' = frame
       /\ ended' = ended /\ out' = out
  <2>1. wire[a] # <<>> => Head(wire[a])[2] = out[o].size
    BY <1>9 DEF SizeOf
  <2>2. frame[a] \in [size : Nat, type : Kinds]
    BY <1>1 DEF TypeInv
  <2> QED
    BY <1>1, <1>7, <2>1, <2>2 DEF RecvSize, Goto, Functions
<1>12. TypeInv'
  <2>1. frame' \in [Side -> [size : Nat, type : Kinds]]
    <3>1. frame \in [Side -> [size : Nat, type : Kinds]]
      BY <1>1 DEF TypeInv
    <3>2. CASE frame' = [frame EXCEPT ![a].size = out[o].size]
      <4> DEFINE v == out[o].size
      <4>1. v \in Nat
        BY <1>8
      <4>2. frame' = [frame EXCEPT ![a].size = v]
        BY <3>2
      <4> HIDE DEF v
      <4> QED
        BY <3>1, <4>1, <4>2
    <3> QED
      BY <1>10, <3>1, <3>2
  <2>3. pc' \in [Side -> Labels]
    BY <1>1 DEF RecvSize, Goto, TypeInv, Labels, Receiving
  <2> QED
    BY <1>1, <2>1, <2>3 DEF RecvSize, fileVars, TypeInv
<1>13. Roles'
  BY <1>2, <1>7, <1>10 DEF Roles
<1>14. Ends'
  BY <1>3 DEF RecvSize, Goto, Ends
<1>15. Waiting'
  BY <1>3, <1>4, <1>7, <1>10 DEF Roles, Ends, Waiting, Receiving, Sending
<1>16. FileInv'
  BY <1>5 DEF RecvSize, Goto, fileVars, FileInv
<1>17. ASSUME NEW s \in Side
       PROVE  Arrives(s)' /\ InStep(s)' /\ Offers(s)' /\ Holds(s)'
  <2>0. Arrives(s) /\ InStep(s) /\ Offers(s) /\ Holds(s)
    BY <1>6
  <2>1. Arrives(s)'
    <3>1. CASE s = o
      BY <1>10, <2>0, <3>1 DEF Arrives, SizeOf, TypeOf
    <3>2. CASE s = a
      <4> HIDE DEF S, T, b, o
      <4>1. CASE wire[a] = <<>>
        <5>1. wire'[a] = <<>> /\ ended'[a] # "open"
          BY <1>10, <4>1
        <5> QED
          BY <1>10, <3>2, <5>1 DEF Arrives
      <4>2. CASE wire[a] # <<>>
        <5>1. wire'[a] \in {<<>>, <<T>>, <<T>> \o b} /\ frame'[a].size = out[o].size
          BY <1>9, <1>10, <4>2
        <5> QED
          BY <1>10, <3>2, <5>1 DEF Arrives, T, b, o, TypeOf
      <4> QED
        BY <4>1, <4>2
    <3> QED
      BY <1>7, <3>1, <3>2
  <2>2. InStep(s)'
    <3>0. SUFFICES ASSUME ended[s] = "open", ended[Other(s)] = "open"
                   PROVE  InStep(s)'
      BY <1>10 DEF InStep
    <3>1. CASE s = o
      BY <1>7, <1>10, <3>1 DEF InStep
    <3>2. CASE s = a
      <4> HIDE DEF S, T, b, o
      <4>1. wire[a] # <<>> /\ Other(s) = o
        BY <1>10, <3>0, <3>2 DEF o
      <4>2. CASE pc[o] \notin Sending
        BY <1>10, <4>1, <4>2 DEF InStep, Sending
      <4>3. CASE pc[o] = "send size"
        BY <2>0, <3>0, <3>2, <4>1, <4>3 DEF InStep
      <4>4. CASE pc[o] = "send type"
        <5>1. wire[a] = <<S>>
          BY <2>0, <3>0, <3>2, <4>1, <4>4 DEF InStep, S
        <5>2. wire'[a] = <<>>
          BY <1>8, <1>10, <4>1, <5>1, StreamFacts
        <5> QED
          BY <1>10, <3>2, <4>1, <4>4, <5>2 DEF InStep
      <4>5. CASE pc[o] = "send body"
        <5>1. wire[a] = <<S, T>>
          BY <1>7, <2>0, <3>0, <4>1, <4>5 DEF InStep, S, T
        <5>2. wire'[a] = <<T>>
          BY <1>8, <1>10, <4>1, <5>1, StreamFacts
        <5> QED
          BY <1>10, <3>2, <4>1, <4>5, <5>2 DEF InStep, T, TypeOf
      <4> QED
        BY <4>2, <4>3, <4>4, <4>5 DEF Sending
    <3> QED
      BY <1>7, <3>1, <3>2
  <2>3. Offers(s)'
    BY <2>0 DEF RecvSize, Goto, fileVars, Receiving, Offers, Uncut
  <2>4. Holds(s)'
    BY <2>0 DEF RecvSize, Goto, fileVars, Side, Functions, Holds, Uncut
  <2> QED
    BY <2>1, <2>2, <2>3, <2>4
<1> QED
  BY <1>12, <1>13, <1>14, <1>15, <1>16, <1>17 DEF IInv

LEMMA RecvTypeKeeps ==
    ASSUME IInv, NEW a \in Side, RecvType(a)
    PROVE  IInv'
<1>1. TypeInv /\ Functions
  BY DEF IInv, TypeInv, Functions
<1>2. Roles
  BY DEF IInv
<1>3. Ends
  BY DEF IInv
<1>4. Waiting
  BY DEF IInv
<1>5. FileInv
  BY DEF IInv
<1>6. \A s \in Side : Arrives(s) /\ InStep(s) /\ Offers(s) /\ Holds(s)
  BY DEF IInv
<1> DEFINE o == Other(a)
           T == TypeOf(o)
           b == out[o].body
<1>7. /\ o \in Side /\ o # a /\ Other(o) = a /\ \A s \in Side : s = a \/ s = o
      /\ (a = "client" /\ o = "server") \/ (a = "server" /\ o = "client")
      /\ pc[a] = "type"
  BY DEF Side, Other, RecvType
<1>8. b \in Texts /\ out[o].type \in Kinds
  BY <1>1, <1>7 DEF TypeInv
<1>9. wire[a] # <<>> =>
        /\ Head(wire[a]) = T
        /\ \/ wire[a] = <<T>> /\ Tail(wire[a]) = <<>>
           \/ wire[a] = <<T>> \o b /\ Tail(wire[a]) = b
  <2>1. wire[a] \in {<<>>, <<T>>, <<T>> \o b}
    BY <1>6, <1>7 DEF Arrives
  <2>2. b \in Texts
    BY <1>8
  <2> HIDE DEF T, b
  <2>3. /\ Head(<<T>>) = T /\ Tail(<<T>>) = <<>>
        /\ Head(<<T>> \o b) = T /\ Tail(<<T>> \o b) = b
    BY <2>2, StreamFacts
  <2> QED
    BY <2>1, <2>3
<1>10. /\ wire'[o] = wire[o] /\ frame'[o] = frame[o] /\ pc'[o] = pc[o]
       /\ pc'[a] = IF frame'[a].type = "width_test" THEN "file" ELSE "body"
       /\ \/ wire[a] # <<>> /\ wire'[a] = Tail(wire[a]) /\ frame'[a].type = out[o].type
             /\ frame'[a].size = frame[a].size
             /\ frame' = [frame EXCEPT ![a].type = out[o].type]
          \/ wire[a] = <<>> /\ wire'[a] = <<>> /\ ended[a] = "closed" /\ frame' = frame
       /\ ended' = ended /\ out' = out
  <2>1. wire[a] # <<>> => Head(wire[a])[2] = out[o].type
    BY <1>9 DEF TypeOf
  <2>2. frame[a] \in [size : Nat, type : Kinds]
    BY <1>1 DEF TypeInv
  <2> QED
    BY <1>1, <1>7, <2>1, <2>2 DEF RecvType, Goto, Functions
<1>11. Arrives(o) /\ InStep(o) /\ Arrives(a)
  BY <1>6, <1>7
<1>12. TypeInv'
  <2>1. frame' \in [Side -> [size : Nat, type : Kinds]]
    <3>1. frame \in [Side -> [size : Nat, type : Kinds]]
      BY <1>1 DEF TypeInv
    <3>2. CASE frame' = [frame EXCEPT ![a].type = out[o].type]
      <4> DEFINE v == out[o].type
      <4>1. v \in Kinds
        BY <1>8
      <4>2. frame' = [frame EXCEPT ![a].type = v]
        BY <3>2
      <4> HIDE DEF v
      <4> QED
        BY <3>1, <4>1, <4>2
    <3> QED
      BY <1>10, <3>1, <3>2
  <2>3. pc' \in [Side -> Labels]
    BY <1>1 DEF RecvType, Goto, TypeInv, Labels, Receiving
  <2> QED
    BY <1>1, <2>1, <2>3 DEF RecvType, fileVars, TypeInv
<1>13. Roles'
  BY <1>2, <1>7, <1>10 DEF Roles
<1>14. Ends'
  BY <1>3 DEF RecvType, Goto, Ends
<1>15. Waiting'
  BY <1>4, <1>7, <1>10 DEF Waiting, Receiving, Sending
<1>16. FileInv'
  BY <1>5 DEF RecvType, Goto, fileVars, FileInv
<1>17. ASSUME NEW s \in Side
       PROVE  Arrives(s)' /\ InStep(s)' /\ Offers(s)' /\ Holds(s)'
  <2>0. Arrives(s) /\ InStep(s) /\ Offers(s) /\ Holds(s)
    BY <1>6
  <2>1. Arrives(s)'
    <3>1. CASE s = o
      BY <1>10, <2>0, <3>1 DEF Arrives, SizeOf, TypeOf
    <3>2. CASE s = a
      <4> HIDE DEF T, b, o
      <4>1. CASE wire[a] = <<>>
        <5>1. wire'[a] = <<>> /\ ended'[a] # "open"
          BY <1>10, <4>1
        <5> QED
          BY <1>10, <3>2, <5>1 DEF Arrives
      <4>2. CASE wire[a] # <<>>
        <5>1. wire'[a] \in {<<>>, b} /\ frame'[a].type = out[o].type
          BY <1>9, <1>10, <4>2
        <5>2. frame'[a].size = out[o].size
          BY <1>7, <1>10, <1>11, <4>2 DEF Arrives, o
        <5> QED
          BY <1>10, <3>2, <5>1, <5>2 DEF Arrives, b, o
      <4> QED
        BY <4>1, <4>2
    <3> QED
      BY <1>7, <3>1, <3>2
  <2>2. InStep(s)'
    <3>0. SUFFICES ASSUME ended[s] = "open", ended[Other(s)] = "open"
                   PROVE  InStep(s)'
      BY <1>10 DEF InStep
    <3>1. CASE s = o
      BY <1>7, <1>10, <3>1 DEF InStep
    <3>2. CASE s = a
      <4> HIDE DEF T, b, o
      <4>1. wire[a] # <<>> /\ Other(s) = o
        BY <1>10, <3>0, <3>2 DEF o
      <4>2. CASE pc[o] \notin Sending
        BY <1>10, <4>1, <4>2 DEF InStep, Sending
      <4>3. CASE pc[o] \in {"send size", "send type"}
        BY <1>7, <2>0, <3>0, <4>1, <4>3 DEF InStep
      <4>4. CASE pc[o] = "send body"
        <5>1. wire[a] = <<T>>
          BY <1>7, <2>0, <3>0, <4>1, <4>4 DEF InStep, T
        <5>2. wire'[a] = <<>>
          BY <1>8, <1>10, <4>1, <5>1, StreamFacts
        <5> QED
          BY <1>10, <3>2, <4>1, <4>4, <5>2 DEF InStep
      <4> QED
        BY <4>2, <4>3, <4>4 DEF Sending
    <3> QED
      BY <1>7, <3>1, <3>2
  <2>3. Offers(s)'
    BY <2>0 DEF RecvType, Goto, fileVars, Receiving, Offers, Uncut
  <2>4. Holds(s)'
    BY <1>1, <1>4, <2>0
       DEF RecvType, Goto, Side, Functions, Waiting, Sending, Holds, Uncut
  <2> QED
    BY <2>1, <2>2, <2>3, <2>4
<1> QED
  BY <1>12, <1>13, <1>14, <1>15, <1>16, <1>17 DEF IInv

LEMMA RecvBodyKeeps ==
    ASSUME IInv, NEW a \in Side, RecvBody(a)
    PROVE  IInv'
<1>1. TypeInv /\ Functions
  BY DEF IInv, TypeInv, Functions
<1>2. Roles
  BY DEF IInv
<1>3. Ends
  BY DEF IInv
<1>4. Waiting
  BY DEF IInv
<1>5. FileInv
  BY DEF IInv
<1>6. \A s \in Side : Arrives(s) /\ InStep(s) /\ Offers(s) /\ Holds(s)
  BY DEF IInv
<1> DEFINE o == Other(a)
           b == out[o].body
<1>7. /\ o \in Side /\ o # a /\ Other(o) = a /\ \A s \in Side : s = a \/ s = o
      /\ (a = "client" /\ o = "server") \/ (a = "server" /\ o = "client")
      /\ pc[a] = "body" /\ Arrives(a) /\ Offers(a)
  BY <1>6 DEF Side, Other, RecvBody
<1>8. b \in Texts /\ Piece(b, sent[a]) /\ sent[a] \in Seq(Entry)
  BY <1>1, <1>7 DEF TypeInv, Offers
<1>9. wire[a] # <<>> => Offered(a) = b
  <2>1. wire[a] # <<>> => wire[a] = b /\ frame[a].size = Len(b)
    BY <1>2, <1>7 DEF Arrives, Roles
  <2> HIDE DEF b
  <2> QED
    BY <1>8, <2>1, AllOffered DEF Offered, Texts
<1>10. /\ buf'[a] \in Texts
       /\ how'[a] = "whole" => buf'[a] = b
       /\ how'[a] = "mixed" => a = "server"
       /\ how'[a] # "mixed" => Piece(buf'[a], sent[a])
       /\ how'[a] \in {"whole", "short", "mixed"}
  <2>1. CASE wire[a] # <<>> /\ buf' = [buf EXCEPT ![a] = Offered(a)]
             /\ how' = [how EXCEPT ![a] = "whole"]
    BY <1>1, <1>8, <1>9, <2>1 DEF Functions
  <2>2. ASSUME NEW first \in IF wire[a] = <<>> THEN {<<>>} ELSE Cuts(Offered(a)) \ {<<>>},
               NEW rest \in Behind(a), buf' = [buf EXCEPT ![a] = first \o rest],
               how' = [how EXCEPT ![a] = IF rest = <<>> THEN "short" ELSE "mixed"]
        PROVE  /\ buf'[a] \in Texts
               /\ how'[a] \in {"short", "mixed"}
               /\ how'[a] = "mixed" => a = "server"
               /\ how'[a] # "mixed" => Piece(buf'[a], sent[a])
    <3>1. Piece(first, sent[a])
      <4>1. CASE wire[a] = <<>>
        BY <1>8, <4>1, NothingIsAPiece
      <4>2. CASE wire[a] # <<>>
        <5>1. first \in Cuts(b)
          BY <1>9, <4>2
        <5> HIDE DEF b
        <5> QED
          BY <1>8, <5>1, PieceCut
      <4> QED
        BY <4>1, <4>2
    <3>2. first \in Texts
      BY <3>1 DEF Piece, Texts
    <3>3. rest \in Texts /\ (rest # <<>> => a = "server")
      BY EndingsType, TextFacts DEF Behind, Texts
    <3>4. first \o rest \in Texts
      BY <3>2, <3>3, TextFacts
    <3>5. rest = <<>> => first \o rest = first
      BY <3>2 DEF Texts
    <3>6. buf'[a] = first \o rest /\ how'[a] = IF rest = <<>> THEN "short" ELSE "mixed"
      BY <1>1, <2>2 DEF Functions
    <3> QED
      BY <3>1, <3>3, <3>4, <3>5, <3>6
  <2> QED
    BY <2>1, <2>2 DEF RecvBody
<1>11. /\ buf' = [buf EXCEPT ![a] = buf'[a]] /\ buf'[o] = buf[o]
       /\ how' = [how EXCEPT ![a] = how'[a]] /\ how'[o] = how[o]
       /\ pc'[a] = "handle" /\ pc'[o] = pc[o] /\ pc' = [pc EXCEPT ![a] = "handle"]
       /\ wire'[a] = <<>> /\ wire'[o] = wire[o]
       /\ ended' = ended /\ out' = out /\ sent' = sent /\ torn' = torn
       /\ wire[a] # <<>> \/ ended[a] = "closed"
  BY <1>1, <1>7 DEF RecvBody, Goto, Functions, fileVars
<1>12. TypeInv'
  <2>1. buf' \in [Side -> Texts]
    BY <1>1, <1>10, <1>11 DEF TypeInv
  <2>4. pc' \in [Side -> Labels]
    BY <1>1 DEF RecvBody, Goto, TypeInv, Labels
  <2> QED
    BY <1>1, <2>1, <2>4 DEF RecvBody, fileVars, TypeInv
<1>13. Roles'
  BY <1>2 DEF RecvBody, Goto, Roles
<1>14. Ends'
  BY <1>3 DEF RecvBody, Goto, Ends
<1>15. Waiting'
  <2>1. CASE a = "client"
    BY <1>4, <1>7, <1>11, <2>1 DEF Waiting, Receiving, Sending
  <2>2. CASE a = "server"
    <3>1. wire["client"] = <<>> /\ pc["client"] \in {"off", "size"} \cup Sending
      BY <1>4, <1>7, <2>2 DEF Waiting, Receiving
    <3>2. pc["client"] \notin Sending
      <4> SUFFICES ASSUME pc["client"] \in Sending
                   PROVE  FALSE
        OBVIOUS
      <4>1. ended["server"] = "open" /\ ended["client"] = "open"
        BY <1>3, <1>7 DEF Ends, Sending
      <4>2. InStep("server")
        BY <1>6 DEF Side
      <4>3. wire["server"] = <<>>
        BY <1>7, <4>1, <4>2 DEF InStep, Sending
      <4> QED
        BY <1>11, <2>2, <4>1, <4>3
    <3> QED
      BY <1>7, <1>11, <3>1, <3>2 DEF Waiting
  <2> QED
    BY <1>7, <2>1, <2>2
<1>16. FileInv'
  BY <1>5 DEF RecvBody, Goto, fileVars, FileInv
<1>17. ASSUME NEW s \in Side
       PROVE  Arrives(s)' /\ InStep(s)' /\ Offers(s)' /\ Holds(s)'
  <2>0. Arrives(s) /\ InStep(s) /\ Offers(s) /\ Holds(s)
    BY <1>6
  <2>1. Arrives(s)'
    BY <1>1, <2>0 DEF RecvBody, Goto, counters, Functions, Arrives, SizeOf, TypeOf
  <2>2. InStep(s)'
    BY <1>1, <2>0
       DEF RecvBody, Goto, fileVars, counters, Side, Other, Functions, Roles, Ends,
           Waiting, Receiving, Sending, InStep
  <2>3. Offers(s)'
    BY <2>0 DEF RecvBody, Goto, fileVars, Receiving, Offers, Uncut
  <2>4. Holds(s)'
    <3>1. CASE s = o
      BY <1>7, <1>11, <2>0, <3>1 DEF Holds, Uncut
    <3>2. CASE s = a
      <4>1. Uncut(s)' => Uncut(s)
        BY <1>7, <1>11 DEF Uncut, Receiving
      <4> HIDE DEF b
      <4>2. Uncut(s) => Whole(b, sent[a])
        BY <1>7, <3>2 DEF Offers, b
      <4> QED
        BY <1>10, <1>11, <3>2, <4>1, <4>2 DEF Holds
    <3> QED
      BY <1>7, <3>1, <3>2
  <2> QED
    BY <2>1, <2>2, <2>3, <2>4
<1> QED
  BY <1>12, <1>13, <1>14, <1>15, <1>16, <1>17 DEF IInv

LEMMA RecvFileKeeps ==
    ASSUME IInv, NEW a \in Side, RecvFile(a)
    PROVE  IInv'
<1>1. TypeInv /\ Functions
  BY DEF IInv, TypeInv, Functions
<1>2. Roles
  BY DEF IInv
<1>3. Ends
  BY DEF IInv
<1>4. Waiting
  BY DEF IInv
<1>5. FileInv
  BY DEF IInv
<1>6. \A s \in Side : Arrives(s) /\ InStep(s) /\ Offers(s) /\ Holds(s)
  BY DEF IInv
<1> DEFINE o == Other(a)
<1>7. /\ o \in Side /\ o # a /\ Other(o) = a /\ \A s \in Side : s = a \/ s = o
      /\ a = "server" /\ o = "client"
      /\ pc[a] = "file" /\ Arrives(a) /\ Offers(a)
  BY <1>2, <1>6 DEF Side, Other, RecvFile, Roles
<1>8. <<Junk>> \in Texts /\ sent[a] \in Seq(Entry)
  BY <1>1, TextFacts DEF TypeInv
<1>9. wire[a] # <<>> => sent[a] = <<>>
  <2>1. wire[a] # <<>> => out[o].type = "width_test"
    BY <1>7 DEF Arrives
  <2> QED
    BY <1>5, <1>7, <2>1 DEF FileInv
<1>10. Piece(<<Junk>>, sent[a]) /\ (wire[a] # <<>> => Whole(<<Junk>>, sent[a]))
  BY <1>8, <1>9, EmptyIsWhole, JunkIsAPiece
<1>11. /\ buf'[o] = buf[o] /\ how'[o] = how[o] /\ buf'[a] = <<Junk>>
       /\ how'[a] = IF wire[a] = <<>> THEN "short" ELSE "whole"
       /\ pc'[a] = "handle" /\ pc'[o] = pc[o]
       /\ wire'[a] = <<>> /\ wire'[o] = wire[o]
       /\ ended' = ended /\ out' = out /\ sent' = sent /\ torn' = torn
       /\ wire[a] # <<>> \/ ended[a] = "closed"
  BY <1>1, <1>7 DEF RecvFile, Goto, Functions, fileVars
<1>12. TypeInv'
  <2>1. buf' \in [Side -> Texts]
    BY <1>1, TextFacts DEF RecvFile, TypeInv
  <2>4. pc' \in [Side -> Labels]
    BY <1>1 DEF RecvFile, Goto, TypeInv, Labels
  <2> QED
    BY <1>1, <2>1, <2>4 DEF RecvFile, fileVars, TypeInv
<1>13. Roles'
  BY <1>2 DEF RecvFile, Goto, Roles
<1>14. Ends'
  BY <1>3 DEF RecvFile, Goto, Ends
<1>15. Waiting'
  <2>1. CASE a = "client"
    BY <1>7, <2>1
  <2>2. CASE a = "server"
    <3>1. wire["client"] = <<>> /\ pc["client"] \in {"off", "size"} \cup Sending
      BY <1>4, <1>7 DEF Waiting, Receiving
    <3>2. pc["client"] \notin Sending
      <4> SUFFICES ASSUME pc["client"] \in Sending
                   PROVE  FALSE
        OBVIOUS
      <4>1. ended["server"] = "open" /\ ended["client"] = "open"
        BY <1>3, <1>7 DEF Ends, Sending
      <4>2. InStep("server")
        BY <1>6 DEF Side
      <4>3. wire["server"] = <<>>
        BY <1>7, <4>1, <4>2 DEF InStep, Sending
      <4> QED
        BY <1>11, <2>2, <4>1, <4>3
    <3> QED
      BY <1>7, <1>11, <3>1, <3>2 DEF Waiting
  <2> QED
    BY <1>7, <2>1, <2>2
<1>16. FileInv'
  BY <1>5 DEF RecvFile, Goto, fileVars, FileInv
<1>17. ASSUME NEW s \in Side
       PROVE  Arrives(s)' /\ InStep(s)' /\ Offers(s)' /\ Holds(s)'
  <2>0. Arrives(s) /\ InStep(s) /\ Offers(s) /\ Holds(s)
    BY <1>6
  <2>1. Arrives(s)'
    BY <1>1, <2>0 DEF RecvFile, Goto, Functions, Arrives, SizeOf, TypeOf
  <2>2. InStep(s)'
    BY <1>1, <2>0 DEF RecvFile, Goto, fileVars, counters, Side, Other, Functions, InStep
  <2>3. Offers(s)'
    BY <2>0 DEF RecvFile, Goto, fileVars, Receiving, Offers, Uncut
  <2>4. Holds(s)'
    <3>1. CASE s = o
      BY <1>7, <1>11, <2>0, <3>1 DEF Holds, Uncut
    <3>2. CASE s = a
      BY <1>10, <1>11, <3>2 DEF Holds
    <3> QED
      BY <1>7, <3>1, <3>2
  <2> QED
    BY <2>1, <2>2, <2>3, <2>4
<1> QED
  BY <1>12, <1>13, <1>14, <1>15, <1>16, <1>17 DEF IInv

LEMMA FailsKeeps ==
    ASSUME IInv, NEW a \in Side, Fails(a)
    PROVE  IInv'
<1>1. TypeInv /\ Functions
  BY DEF IInv, TypeInv, Functions
<1>2. Roles
  BY DEF IInv
<1>3. Ends
  BY DEF IInv
<1>4. Waiting
  BY DEF IInv
<1>5. FileInv
  BY DEF IInv
<1>6. \A s \in Side : Arrives(s) /\ InStep(s) /\ Offers(s) /\ Holds(s)
  BY DEF IInv
<1>7. TypeInv'
  <2>1. pc' \in [Side -> Labels]
    BY <1>1 DEF Fails, TypeInv, Labels
  <2> QED
    BY <1>1, <2>1 DEF Fails, fileVars, TypeInv
<1>8. Roles'
  BY <1>2 DEF Fails, Roles
<1>9. Ends'
  BY <1>1, <1>3 DEF Fails, Side, Other, Functions, Ends
<1>10. Waiting'
  BY <1>1, <1>4 DEF Fails, Side, Functions, Waiting, Receiving, Sending
<1>11. FileInv'
  BY <1>5 DEF Fails, fileVars, FileInv
<1>12. ASSUME NEW s \in Side
       PROVE  Arrives(s)' /\ InStep(s)' /\ Offers(s)' /\ Holds(s)'
  <2>0. Arrives(s) /\ InStep(s) /\ Offers(s) /\ Holds(s)
    BY <1>6
  <2>1. Arrives(s)'
    BY <1>1, <2>0 DEF Fails, counters, Functions, Arrives, SizeOf, TypeOf
  <2>2. InStep(s)'
    BY <1>1 DEF Fails, Side, Other, Functions, InStep
  <2>3. Offers(s)'
    BY <2>0 DEF Fails, fileVars, Receiving, Offers, Uncut
  <2>4. Holds(s)'
    BY <2>0 DEF Fails, fileVars, Side, Functions, Holds, Uncut
  <2> QED
    BY <2>1, <2>2, <2>3, <2>4
<1> QED
  BY <1>7, <1>8, <1>9, <1>10, <1>11, <1>12 DEF IInv

LEMMA HandleKeeps ==
    ASSUME IInv, Handle
    PROVE  IInv'
<1>1. TypeInv /\ Functions
  BY DEF IInv, TypeInv, Functions
<1>2. Roles
  BY DEF IInv
<1>3. Ends
  BY DEF IInv
<1>4. Waiting
  BY DEF IInv
<1>5. FileInv
  BY DEF IInv
<1>6. \A s \in Side : Arrives(s) /\ InStep(s) /\ Offers(s) /\ Holds(s)
  BY DEF IInv
<1>7. PICK l \in Lists :
        /\ out' = [out EXCEPT !["server"] =
                      [size |-> Len(Encode[l]), type |-> "R_Register", body |-> Encode[l]]]
        /\ sent' = [sent EXCEPT !["client"] = l]
  BY DEF Handle
<1> DEFINE t == Encode[l]
           m == [size |-> Len(t), type |-> "R_Register", body |-> t]
<1>8. l \in Seq(Entry) /\ t \in Texts /\ Whole(t, l) /\ Piece(t, l) /\ Len(t) \in Nat
  BY EncodeIsWhole, WholeIsPiece DEF Texts
<1>9. /\ m.size = Len(t) /\ m.type = "R_Register" /\ m.body = t
      /\ m \in [size : Nat, type : Kinds, body : Texts]
  <2> HIDE DEF t
  <2> QED
    BY <1>8 DEF Kinds
<1> HIDE DEF m
<1>10. /\ out'["server"] = m /\ out'["client"] = out["client"]
       /\ out' = [out EXCEPT !["server"] = m]
       /\ sent'["client"] = l /\ sent'["server"] = sent["server"]
       /\ pc["server"] = "handle" /\ pc'["server"] = "send size" /\ pc'["client"] = pc["client"]
       /\ buf'["server"] = <<>> /\ how'["server"] = "whole"
       /\ buf'["client"] = buf["client"] /\ how'["client"] = how["client"]
       /\ wire' = wire /\ ended' = ended /\ frame' = frame
       /\ file' = file /\ written' = written /\ torn' = torn
  BY <1>1, <1>7 DEF Handle, Goto, Forget, Functions, fileVars, Side, m
<1>11. wire["client"] = <<>> /\ pc["client"] \in {"off", "size"}
  BY <1>4, <1>10 DEF Waiting
<1> HIDE DEF t
<1>12. TypeInv'
  <2>1. pc' \in [Side -> Labels]
    BY <1>1 DEF Handle, Goto, TypeInv, Labels
  <2>2. out' \in [Side -> [size : Nat, type : Kinds, body : Texts]]
    BY <1>1, <1>9, <1>10 DEF TypeInv
  <2>3. sent' \in [Side -> Seq(Entry)]
    BY <1>1, <1>7, <1>8 DEF TypeInv
  <2>4. buf' \in [Side -> Texts]
    BY <1>1, TextFacts DEF Handle, Forget, TypeInv
  <2>5. how' \in [Side -> {"whole", "short", "mixed"}]
    BY <1>1 DEF Handle, Forget, TypeInv
  <2> QED
    BY <1>1, <2>1, <2>2, <2>3, <2>4, <2>5 DEF Handle, fileVars, TypeInv
<1>13. Roles'
  <2>1. \A s \in Side : out'[s].size = Len(out'[s].body)
    <3>1. out'["server"].size = Len(out'["server"].body)
      BY <1>9, <1>10
    <3>2. out'["client"].size = Len(out'["client"].body)
      BY <1>2, <1>10 DEF Roles, Side
    <3> QED
      BY <3>1, <3>2 DEF Side
  <2>2. out'["server"].type = "R_Register"
    BY <1>9, <1>10
  <2> QED
    BY <1>2, <1>10, <2>1, <2>2 DEF Roles
<1>14. Ends'
  BY <1>1, <1>3 DEF Handle, Goto, Side, Functions, Ends
<1>15. Waiting'
  BY <1>1, <1>4 DEF Handle, Goto, Side, Functions, Waiting
<1>16. FileInv'
  BY <1>1, <1>4, <1>5 DEF Handle, Goto, fileVars, Side, Functions, FileInv, Waiting
<1>17. ASSUME NEW s \in Side
       PROVE  Arrives(s)' /\ InStep(s)' /\ Offers(s)' /\ Holds(s)'
  <2>0. Arrives(s) /\ InStep(s) /\ Offers(s) /\ Holds(s)
    BY <1>6
  <2>1. Arrives(s)'
    BY <1>1, <1>4 DEF Handle, Goto, Side, Functions, Waiting, Arrives
  <2>2. InStep(s)'
    BY <1>1, <1>3, <1>4 DEF Handle, Goto, Side, Other, Functions, Ends, Waiting, InStep
  <2>3. Offers(s)'
    <3>1. out'["server"].body = t
      BY <1>9, <1>10
    <3>2. CASE s = "client"
      <4>1. out'[Other(s)].body = t /\ sent'[s] = l
        BY <1>10, <3>1, <3>2 DEF Other
      <4> QED
        BY <1>8, <4>1 DEF Offers
    <3>3. CASE s = "server"
      <4>1. out'[Other(s)] = out[Other(s)] /\ sent'[s] = sent[s] /\ (Uncut(s)' => Uncut(s))
        BY <1>10, <3>3 DEF Other, Uncut
      <4> QED
        BY <2>0, <4>1 DEF Offers
    <3> QED
      BY <3>2, <3>3 DEF Side
  <2>4. Holds(s)'
    <3>1. CASE s = "client"
      <4> QED
        BY <1>8, <1>10, <1>11, <2>0, <3>1, NothingIsAPiece DEF Holds
    <3>2. CASE s = "server"
      <4>1. sent[s] \in Seq(Entry)
        BY <1>1 DEF TypeInv
      <4> QED
        BY <1>10, <3>2, <4>1, NothingIsAPiece DEF Holds
    <3> QED
      BY <3>1, <3>2 DEF Side
  <2> QED
    BY <2>1, <2>2, <2>3, <2>4
<1> QED
  BY <1>12, <1>13, <1>14, <1>15, <1>16, <1>17 DEF IInv

LEMMA OpenFileKeeps ==
    ASSUME IInv, OpenFile
    PROVE  IInv'
<1>1. TypeInv /\ Functions
  BY DEF IInv, TypeInv, Functions
<1>2. Roles
  BY DEF IInv
<1>3. Ends
  BY DEF IInv
<1>4. Waiting
  BY DEF IInv
<1>6. \A s \in Side : Arrives(s) /\ InStep(s) /\ Offers(s) /\ Holds(s)
  BY DEF IInv
<1>7. TypeInv'
  <2>1. pc' \in [Side -> Labels]
    BY <1>1 DEF OpenFile, Goto, TypeInv, Labels
  <2>2. file' \in Texts
    BY TextFacts DEF OpenFile
  <2>3. written' \in Seq(Entry)
    BY <1>1 DEF OpenFile, Side, TypeInv
  <2> QED
    BY <1>1, <2>1, <2>2, <2>3 DEF OpenFile, TypeInv
<1>8. Roles'
  BY <1>2 DEF OpenFile, Goto, Roles
<1>9. Ends'
  BY <1>3 DEF OpenFile, Goto, Ends
<1>10. Waiting'
  BY <1>1, <1>4 DEF OpenFile, Goto, Side, Functions, Waiting, Sending
<1>11. FileInv'
  <2>1. sent["client"] \in Seq(Entry)
    BY <1>1 DEF TypeInv, Side
  <2> QED
    BY <2>1, NothingIsAPiece DEF OpenFile, FileInv
<1>12. ASSUME NEW s \in Side
       PROVE  Arrives(s)' /\ InStep(s)' /\ Offers(s)' /\ Holds(s)'
  <2>0. Arrives(s) /\ InStep(s) /\ Offers(s) /\ Holds(s)
    BY <1>6
  <2>1. Arrives(s)'
    BY <1>1, <2>0 DEF OpenFile, Goto, Functions, Arrives, SizeOf, TypeOf
  <2>2. InStep(s)'
    BY <1>1, <2>0 DEF OpenFile, Goto, Side, Other, Functions, InStep
  <2>3. Offers(s)'
    BY <2>0 DEF OpenFile, Offers, Uncut
  <2>4. Holds(s)'
    BY <2>0 DEF OpenFile, Goto, Holds, Uncut
  <2> QED
    BY <2>1, <2>2, <2>3, <2>4
<1> QED
  BY <1>7, <1>8, <1>9, <1>10, <1>11, <1>12 DEF IInv

LEMMA WriteFileKeeps ==
    ASSUME IInv, WriteFile
    PROVE  IInv'
<1>1. TypeInv /\ Functions
  BY DEF IInv, TypeInv, Functions
<1>2. Roles
  BY DEF IInv
<1>3. Ends
  BY DEF IInv
<1>4. Waiting
  BY DEF IInv
<1>5. FileInv
  BY DEF IInv
<1>6. \A s \in Side : Arrives(s) /\ InStep(s) /\ Offers(s) /\ Holds(s)
  BY DEF IInv
<1>7. /\ pc["client"] = "write" /\ pc'["client"] = "off" /\ pc'["server"] = pc["server"]
      /\ file' = buf["client"] /\ torn' = (how["client"] # "whole") /\ written' = written
      /\ buf'["client"] = <<>> /\ how'["client"] = "whole"
      /\ buf'["server"] = buf["server"] /\ how'["server"] = how["server"]
      /\ sent' = sent /\ out' = out
  BY <1>1 DEF WriteFile, Goto, Forget, Functions, Side
<1>8. Holds("client") /\ written = sent["client"] /\ torn
      /\ pc["server"] \notin Receiving \cup {"handle"}
  BY <1>4, <1>5, <1>6, <1>7 DEF FileInv, Side, Waiting, Sending
<1>9. TypeInv'
  <2>1. pc' \in [Side -> Labels]
    BY <1>1 DEF WriteFile, Goto, TypeInv, Labels
  <2>2. file' \in Texts
    BY <1>1 DEF WriteFile, Side, TypeInv
  <2>5. buf' \in [Side -> Texts]
    BY <1>1, TextFacts DEF WriteFile, Forget, TypeInv
  <2>6. how' \in [Side -> {"whole", "short", "mixed"}]
    BY <1>1 DEF WriteFile, Forget, TypeInv
  <2> QED
    BY <1>1, <2>1, <2>2, <2>5, <2>6 DEF WriteFile, TypeInv
<1>10. Roles'
  BY <1>2 DEF WriteFile, Goto, Roles
<1>11. Ends'
  BY <1>1, <1>3 DEF WriteFile, Goto, Side, Functions, Ends
<1>12. Waiting'
  BY <1>1, <1>4 DEF WriteFile, Goto, Side, Functions, Waiting, Sending
<1>13. FileInv'
  BY <1>5, <1>7, <1>8 DEF Holds, FileInv, Uncut
<1>14. ASSUME NEW s \in Side
       PROVE  Arrives(s)' /\ InStep(s)' /\ Offers(s)' /\ Holds(s)'
  <2>0. Arrives(s) /\ InStep(s) /\ Offers(s) /\ Holds(s)
    BY <1>6
  <2>1. Arrives(s)'
    BY <1>1, <2>0 DEF WriteFile, Goto, counters, Functions, Arrives, SizeOf, TypeOf
  <2>2. InStep(s)'
    BY <1>1 DEF WriteFile, Side, Other, Functions, InStep
  <2>3. Offers(s)'
    BY <1>7, <1>8, <2>0 DEF Offers, Uncut
  <2>4. Holds(s)'
    <3>1. sent[s] \in Seq(Entry) /\ Piece(<<>>, sent[s])
      BY <1>1, NothingIsAPiece DEF TypeInv
    <3> QED
      BY <1>7, <1>8, <2>0, <3>1 DEF Holds, Uncut, Side
  <2> QED
    BY <2>1, <2>2, <2>3, <2>4
<1> QED
  BY <1>9, <1>10, <1>11, <1>12, <1>13, <1>14 DEF IInv

LEMMA EndProbeKeeps ==
    ASSUME IInv, EndProbe
    PROVE  IInv'
<1>1. TypeInv /\ Functions
  BY DEF IInv, TypeInv, Functions
<1>2. Roles
  BY DEF IInv
<1>3. Ends
  BY DEF IInv
<1>4. Waiting
  BY DEF IInv
<1>5. FileInv
  BY DEF IInv
<1>6. \A s \in Side : Arrives(s) /\ InStep(s) /\ Offers(s) /\ Holds(s)
  BY DEF IInv
<1>7. /\ pc'["client"] = "off" /\ pc'["server"] = pc["server"]
      /\ buf'["client"] = <<>> /\ how'["client"] = "whole"
      /\ buf'["server"] = buf["server"] /\ how'["server"] = how["server"]
      /\ sent' = sent /\ torn' = torn
  BY <1>1 DEF EndProbe, Goto, Forget, Functions, Side, fileVars
<1>8. TypeInv'
  <2>1. pc' \in [Side -> Labels]
    BY <1>1 DEF EndProbe, Goto, TypeInv, Labels
  <2>3. buf' \in [Side -> Texts]
    BY <1>1, TextFacts DEF EndProbe, Forget, TypeInv
  <2>4. how' \in [Side -> {"whole", "short", "mixed"}]
    BY <1>1 DEF EndProbe, Forget, TypeInv
  <2> QED
    BY <1>1, <2>1, <2>3, <2>4 DEF EndProbe, fileVars, TypeInv
<1>9. Roles'
  BY <1>2 DEF EndProbe, Goto, Roles
<1>10. Ends'
  BY <1>1, <1>3 DEF EndProbe, Goto, Side, Functions, Ends
<1>11. Waiting'
  BY <1>1, <1>4 DEF EndProbe, Goto, Side, Functions, Waiting, Sending
<1>12. FileInv'
  BY <1>5 DEF EndProbe, Goto, fileVars, FileInv
<1>13. ASSUME NEW s \in Side
       PROVE  Arrives(s)' /\ InStep(s)' /\ Offers(s)' /\ Holds(s)'
  <2>0. Arrives(s) /\ InStep(s) /\ Offers(s) /\ Holds(s)
    BY <1>6
  <2>1. Arrives(s)'
    BY <1>1, <2>0 DEF EndProbe, Goto, Functions, Arrives, SizeOf, TypeOf
  <2>2. InStep(s)'
    BY <1>1 DEF EndProbe, Side, Other, Functions, InStep
  <2>3. Offers(s)'
    BY <2>0 DEF EndProbe, Goto, fileVars, Offers, Uncut
  <2>4. Holds(s)'
    <3>1. sent[s] \in Seq(Entry) /\ Piece(<<>>, sent[s])
      BY <1>1, NothingIsAPiece DEF TypeInv
    <3> QED
      BY <1>7, <2>0, <3>1 DEF Holds, Uncut, Side
  <2> QED
    BY <2>1, <2>2, <2>3, <2>4
<1> QED
  BY <1>8, <1>9, <1>10, <1>11, <1>12, <1>13 DEF IInv

LEMMA KillKeeps ==
    ASSUME IInv, NEW a \in Side, Kill(a)
    PROVE  IInv'
<1>1. TypeInv /\ Functions
  BY DEF IInv, TypeInv, Functions
<1>2. Roles
  BY DEF IInv
<1>3. Ends
  BY DEF IInv
<1>4. Waiting
  BY DEF IInv
<1>5. FileInv
  BY DEF IInv
<1>6. \A s \in Side : Arrives(s) /\ InStep(s) /\ Offers(s) /\ Holds(s)
  BY DEF IInv
<1>7. /\ pc'[a] \in {"off", "dead"} /\ buf'[a] = <<>> /\ how'[a] = "whole"
      /\ \A s \in Side : s # a => pc'[s] = pc[s] /\ buf'[s] = buf[s] /\ how'[s] = how[s]
      /\ sent' = sent /\ torn' = torn
  BY <1>1 DEF Kill, Goto, Forget, Functions
<1>8. Piece(file', written)
  <2>1. CASE a = "client" /\ pc[a] = "write"
    <3>1. Holds(a) /\ sent[a] = written /\ written \in Seq(Entry)
      BY <1>1, <1>5, <1>6, <2>1 DEF FileInv, TypeInv
    <3>2. Piece(buf[a], written)
      BY <2>1, <3>1 DEF Holds
    <3>3. file' \in Cuts(buf[a])
      BY <2>1 DEF Kill
    <3> QED
      BY <3>1, <3>2, <3>3, PieceCut
  <2>2. CASE ~(a = "client" /\ pc[a] = "write")
    BY <1>5, <2>2 DEF Kill, FileInv
  <2> QED
    BY <2>1, <2>2
<1>9. TypeInv'
  <2>1. pc' \in [Side -> Labels]
    BY <1>1 DEF Kill, Goto, TypeInv, Labels
  <2>4. file' \in Texts
    BY <1>8 DEF Piece, Texts
  <2>5. buf' \in [Side -> Texts]
    BY <1>1, TextFacts DEF Kill, Forget, TypeInv
  <2>6. how' \in [Side -> {"whole", "short", "mixed"}]
    BY <1>1 DEF Kill, Forget, TypeInv
  <2> QED
    BY <1>1, <2>1, <2>4, <2>5, <2>6 DEF Kill, TypeInv
<1>10. Roles'
  BY <1>2 DEF Kill, Goto, Roles
<1>11. Ends'
  BY <1>1, <1>3 DEF Kill, Goto, Side, Other, Functions, Ends
<1>12. Waiting'
  BY <1>1, <1>4 DEF Kill, Goto, Side, Functions, Waiting, Receiving, Sending
<1>13. FileInv'
  <2>1. file' = file \/ (a = "client" /\ pc["client"] = "write")
    BY DEF Kill
  <2>2. pc'["client"] = "write" => pc["client"] = "write" /\ a # "client"
    BY <1>7 DEF Side
  <2>3. out' = out /\ written' = written
    BY DEF Kill
  <2> QED
    BY <1>5, <1>7, <1>8, <2>1, <2>2, <2>3 DEF FileInv
<1>14. ASSUME NEW s \in Side
       PROVE  Arrives(s)' /\ InStep(s)' /\ Offers(s)' /\ Holds(s)'
  <2>0. Arrives(s) /\ InStep(s) /\ Offers(s) /\ Holds(s)
    BY <1>6
  <2>1. Arrives(s)'
    BY <1>1, <1>2, <1>3, <1>4, <2>0
       DEF Kill, Goto, Forget, fileVars, counters, Side, Other, Functions, Roles, Ends,
           Waiting, Receiving, Arrives, InStep, SizeOf, TypeOf
  <2>2. InStep(s)'
    BY <1>1 DEF Kill, Forget, Side, Other, Functions, Roles, Ends, InStep
  <2>3. Offers(s)'
    BY <2>0 DEF Kill, Goto, Receiving, Offers, Uncut
  <2>4. Holds(s)'
    <3>1. sent[s] \in Seq(Entry) /\ Piece(<<>>, sent[s])
      BY <1>1, NothingIsAPiece DEF TypeInv
    <3>2. CASE s = a
      BY <1>7, <3>1, <3>2 DEF Holds
    <3>3. CASE s # a
      <4>1. Uncut(s)' => Uncut(s)
        BY <1>7, <3>3 DEF Uncut, Side
      <4> QED
        BY <1>7, <2>0, <3>3, <4>1 DEF Holds
    <3> QED
      BY <3>2, <3>3
  <2> QED
    BY <2>1, <2>2, <2>3, <2>4
<1> QED
  BY <1>9, <1>10, <1>11, <1>12, <1>13, <1>14 DEF IInv

LEMMA DiesKeeps ==
    ASSUME IInv, NEW a \in Side, Dies(a)
    PROVE  IInv'
<1>1. TypeInv /\ Functions
  BY DEF IInv, TypeInv, Functions
<1>2. Roles
  BY DEF IInv
<1>3. Ends
  BY DEF IInv
<1>4. Waiting
  BY DEF IInv
<1>5. FileInv
  BY DEF IInv
<1>6. \A s \in Side : Arrives(s) /\ InStep(s) /\ Offers(s) /\ Holds(s)
  BY DEF IInv
<1>7. /\ pc'[a] \in {"off", "dead"} /\ buf'[a] = <<>> /\ how'[a] = "whole"
      /\ \A s \in Side : s # a => pc'[s] = pc[s] /\ buf'[s] = buf[s] /\ how'[s] = how[s]
      /\ sent' = sent /\ torn' = torn
  BY <1>1 DEF Dies, Goto, Forget, Functions, fileVars
<1>8. TypeInv'
  <2>1. pc' \in [Side -> Labels]
    BY <1>1 DEF Dies, Goto, TypeInv, Labels
  <2>3. buf' \in [Side -> Texts]
    BY <1>1, TextFacts DEF Dies, Forget, TypeInv
  <2>4. how' \in [Side -> {"whole", "short", "mixed"}]
    BY <1>1 DEF Dies, Forget, TypeInv
  <2> QED
    BY <1>1, <2>1, <2>3, <2>4 DEF Dies, fileVars, TypeInv
<1>9. Roles'
  BY <1>1, <1>2 DEF Dies, Goto, Side, Functions, Roles
<1>10. Ends'
  BY <1>1, <1>3 DEF Dies, Goto, Side, Other, Functions, Ends
<1>11. Waiting'
  BY <1>1, <1>4 DEF Dies, Goto, Side, Functions, Waiting, Receiving, Sending
<1>12. FileInv'
  BY <1>1, <1>5 DEF Dies, Goto, fileVars, Side, Functions, FileInv
<1>13. ASSUME NEW s \in Side
       PROVE  Arrives(s)' /\ InStep(s)' /\ Offers(s)' /\ Holds(s)'
  <2>0. Arrives(s) /\ InStep(s) /\ Offers(s) /\ Holds(s)
    BY <1>6
  <2>1. Arrives(s)'
    BY <1>1, <2>0
       DEF Dies, Goto, Forget, fileVars, counters, Functions, Arrives, SizeOf, TypeOf
  <2>2. InStep(s)'
    BY <1>1 DEF Dies, fileVars, Side, Other, Functions, InStep
  <2>3. Offers(s)'
    BY <1>1, <2>0 DEF Dies, Goto, fileVars, Side, Functions, Receiving, Offers, Uncut
  <2>4. Holds(s)'
    <3>1. sent[s] \in Seq(Entry) /\ Piece(<<>>, sent[s])
      BY <1>1, NothingIsAPiece DEF TypeInv
    <3>2. CASE s = a
      BY <1>7, <3>1, <3>2 DEF Holds
    <3>3. CASE s # a
      <4>1. Uncut(s)' => Uncut(s)
        BY <1>7, <3>3 DEF Uncut, Side
      <4> QED
        BY <1>7, <2>0, <3>3, <4>1 DEF Holds
    <3> QED
      BY <3>2, <3>3
  <2> QED
    BY <2>1, <2>2, <2>3, <2>4
<1> QED
  BY <1>8, <1>9, <1>10, <1>11, <1>12, <1>13 DEF IInv

LEMMA BootKeeps ==
    ASSUME IInv, Boot
    PROVE  IInv'
<1>1. TypeInv /\ Functions
  BY DEF IInv, TypeInv, Functions
<1>2. Roles
  BY DEF IInv
<1>3. Ends
  BY DEF IInv
<1>4. Waiting
  BY DEF IInv
<1>5. FileInv
  BY DEF IInv
<1>6. \A s \in Side : Arrives(s) /\ InStep(s) /\ Offers(s) /\ Holds(s)
  BY DEF IInv
<1>7. TypeInv'
  <2>1. pc' \in [Side -> Labels]
    BY <1>1 DEF Boot, Goto, TypeInv, Labels
  <2>2. frame' \in [Side -> [size : Nat, type : Kinds]]
    BY <1>1 DEF Boot, Blank, TypeInv, Kinds
  <2> QED
    BY <1>1, <2>1, <2>2 DEF Boot, fileVars, TypeInv
<1>8. Roles'
  BY <1>2 DEF Boot, Goto, Roles
<1>9. Ends'
  BY <1>3 DEF Boot, Goto, Ends
<1>10. Waiting'
  BY <1>1, <1>4 DEF Boot, Goto, Side, Functions, Waiting, Receiving, Sending
<1>11. FileInv'
  BY <1>5 DEF Boot, Goto, fileVars, FileInv
<1>12. ASSUME NEW s \in Side
       PROVE  Arrives(s)' /\ InStep(s)' /\ Offers(s)' /\ Holds(s)'
  <2>0. Arrives(s) /\ InStep(s) /\ Offers(s) /\ Holds(s)
    BY <1>6
  <2>1. Arrives(s)'
    BY <1>1, <2>0 DEF Boot, Goto, Functions, Arrives, SizeOf, TypeOf
  <2>2. InStep(s)'
    BY <1>1, <2>0 DEF Boot, Goto, Side, Other, Functions, InStep
  <2>3. Offers(s)'
    BY <2>0 DEF Boot, Goto, Receiving, Offers, Uncut
  <2>4. Holds(s)'
    BY <2>0 DEF Boot, Goto, Side, Functions, Holds, Uncut
  <2> QED
    BY <2>1, <2>2, <2>3, <2>4
<1> QED
  BY <1>7, <1>8, <1>9, <1>10, <1>11, <1>12 DEF IInv

-----------------------------------------------------------------------------
(* The theorems *)

LEMMA InitHolds == Init => IInv
<1> SUFFICES ASSUME Init
             PROVE  IInv
  OBVIOUS
<1>1. /\ pc["client"] = "off" /\ pc["server"] = "accept"
      /\ \A s \in Side : /\ wire[s] = <<>> /\ ended[s] = "closed" /\ frame[s] = Blank
                         /\ buf[s] = <<>> /\ how[s] = "whole" /\ out[s] = NoMessage
                         /\ sent[s] = <<>>
      /\ file = Encode[written] /\ torn = FALSE /\ written \in Lists
  BY DEF Init, Side
<1>2. /\ NoMessage.size = 0 /\ NoMessage.type = "none" /\ NoMessage.body = <<>>
      /\ Blank.type = "none"
      /\ NoMessage \in [size : Nat, type : Kinds, body : Texts]
      /\ Blank \in [size : Nat, type : Kinds]
  BY TextFacts DEF NoMessage, Blank, Kinds
<1>3. written \in Seq(Entry) /\ file \in Texts /\ Whole(file, written)
      /\ Piece(file, written)
  BY <1>1, EncodeIsWhole, WholeIsPiece DEF Texts
<1>4. <<>> \in Seq(Entry) /\ Whole(<<>>, <<>>) /\ Piece(<<>>, <<>>)
  <2>1. <<>> \in Seq(Entry)
    OBVIOUS
  <2> QED
    BY <2>1, EmptyIsWhole, WholeIsPiece
<1>5. TypeInv
  <2>1. "off" \in Labels /\ "accept" \in Labels
    BY DEF Labels
  <2>2. pc \in [Side -> Labels]
    <3>1. pc = [client |-> "off", server |-> "accept"]
      BY DEF Init
    <3> QED
      BY <2>1, <3>1, BothSides
  <2>3. /\ DOMAIN wire = Side /\ ended \in [Side -> {"open", "closed", "reset"}]
        /\ how \in [Side -> {"whole", "short", "mixed"}]
        /\ buf \in [Side -> Texts] /\ sent \in [Side -> Seq(Entry)]
    BY <1>4, TextFacts DEF Init
  <2>4. frame \in [Side -> [size : Nat, type : Kinds]]
        /\ out \in [Side -> [size : Nat, type : Kinds, body : Texts]]
    BY <1>2 DEF Init
  <2> QED
    BY <1>1, <1>3, <2>2, <2>3, <2>4 DEF TypeInv
<1>6. Roles
  <2>1. Len(<<>>) = 0
    OBVIOUS
  <2> QED
    BY <1>1, <1>2, <2>1 DEF Roles, Side
<1>7. Ends /\ Waiting
  BY <1>1 DEF Ends, Waiting, Receiving, Sending, Side
<1>8. FileInv
  BY <1>1, <1>2, <1>3 DEF FileInv, Side
<1>9. ASSUME NEW s \in Side
      PROVE  Arrives(s) /\ InStep(s) /\ Offers(s) /\ Holds(s)
  <2>1. Other(s) \in Side /\ pc[s] \in {"off", "accept"}
    BY <1>1 DEF Side, Other
  <2>2. Arrives(s) /\ InStep(s)
    BY <1>1, <2>1 DEF Arrives, InStep
  <2>3. out[Other(s)].body = <<>> /\ sent[s] = <<>> /\ buf[s] = <<>>
    BY <1>1, <1>2, <2>1
  <2>4. Offers(s)
    BY <1>4, <2>3 DEF Offers
  <2>5. Holds(s)
    BY <1>1, <1>4, <2>3 DEF Holds
  <2> QED
    BY <2>2, <2>4, <2>5
<1> QED
  BY <1>5, <1>6, <1>7, <1>8, <1>9 DEF IInv

LEMMA StepKeeps ==
    ASSUME IInv, [Next]_vars
    PROVE  IInv'
<1>1. ASSUME NEW s \in Side, Step(s)
      PROVE  IInv'
  BY <1>1, SendKeeps, RecvSizeKeeps, RecvTypeKeeps, RecvBodyKeeps, RecvFileKeeps,
     FailsKeeps,
     DiesKeeps DEF Step
<1>2. CASE ClientStep
  BY <1>1, <1>2, OpenFileKeeps, WriteFileKeeps, EndProbeKeeps DEF ClientStep, Side
<1>3. CASE ServerStep
  BY <1>1, <1>3, HandleKeeps DEF ServerStep, Side
<1>4. CASE Connect \/ Boot
  BY <1>4, ConnectKeeps, BootKeeps
<1>5. CASE \E s \in Side : Kill(s)
  BY <1>5, KillKeeps
<1>6. CASE UNCHANGED vars
  <2>1. TypeInv' /\ Roles' /\ Ends' /\ Waiting' /\ FileInv'
    BY <1>6 DEF vars, IInv, TypeInv, Roles, Ends, Waiting, FileInv
  <2>2. ASSUME NEW s \in Side
        PROVE  Arrives(s)' /\ InStep(s)' /\ Offers(s)' /\ Holds(s)'
    <3>1. Arrives(s) /\ InStep(s) /\ Offers(s) /\ Holds(s)
      BY DEF IInv
    <3>2. Arrives(s)' /\ InStep(s)'
      BY <1>6, <3>1 DEF vars, Arrives, InStep, SizeOf, TypeOf
    <3>3. Offers(s)' /\ Holds(s)'
      BY <1>6, <3>1 DEF vars, Offers, Holds, Uncut
    <3> QED
      BY <3>2, <3>3
  <2> QED
    BY <2>1, <2>2 DEF IInv
<1> QED
  BY <1>2, <1>3, <1>4, <1>5, <1>6 DEF Next

LEMMA IInvAlways == Spec => []IInv
<1>1. IInv /\ [Next]_vars => IInv'
  BY StepKeeps
<1> QED
  BY <1>1, InitHolds, PTL DEF Spec

\* Every variable stays in its type, and the size a message announces, which
\* send_msg_over_socket and send_file_over_socket put on the connection before
\* it, is that of what follows.
THEOREM TypeCorrect == Spec => []TypeOK
<1>1. IInv => TypeOK
  <2> SUFFICES ASSUME IInv
               PROVE  TypeOK
    OBVIOUS
  <2>1. \A b \in Texts : \A i \in DOMAIN b : b[i][1] \in Line
    BY DEF Texts, Lines, Line
  <2>2. TypeInv /\ Roles
    BY DEF IInv
  <2> HIDE DEF IInv
  <2>3. ASSUME NEW s \in Side
        PROVE  /\ pc[s] \in Labels /\ ended[s] \in {"open", "closed", "reset"}
               /\ how[s] \in {"whole", "short", "mixed"}
               /\ out[s].size = Len(out[s].body) /\ frame[s].size \in Nat
               /\ \A i \in DOMAIN buf[s] : buf[s][i][1] \in Line
    <3>1. buf[s] \in Texts /\ frame[s] \in [size : Nat, type : Kinds]
      BY <2>2 DEF TypeInv
    <3>2. /\ pc[s] \in Labels /\ ended[s] \in {"open", "closed", "reset"}
          /\ how[s] \in {"whole", "short", "mixed"}
      BY <2>2 DEF TypeInv
    <3> QED
      BY <2>1, <2>2, <3>1, <3>2 DEF Roles
  <2> QED
    BY <2>1, <2>2, <2>3 DEF TypeOK, TypeInv
<1> QED
  BY <1>1, IInvAlways, PTL

\* What recv_msg_over_socket hands over is parsed to the list that was sent, or to
\* its first nodes when the message came short: convert_buf_to_node never returns
\* a node of which only a part arrived.
THEOREM NothingHalfCorrect == Spec => []NothingHalf
<1>1. IInv => NothingHalf
  <2> SUFFICES ASSUME IInv, NEW s \in Side, pc[s] = "handle", how[s] # "mixed"
               PROVE  /\ IsPrefix(Decode(buf[s]), sent[s])
                      /\ how[s] = "whole" /\ ~(s = "server" /\ torn) => Decode(buf[s]) = sent[s]
    BY DEF NothingHalf
  <2>1. sent[s] \in Seq(Entry) /\ Holds(s)
    BY DEF IInv, TypeInv
  <2>2. Piece(buf[s], sent[s])
    BY <2>1 DEF Holds
  <2>3. ASSUME how[s] = "whole", ~(s = "server" /\ torn)
        PROVE  Decode(buf[s]) = sent[s]
    <3>1. Uncut(s)
      BY <2>3 DEF Uncut, Side
    <3>2. Whole(buf[s], sent[s])
      BY <2>1, <2>3, <3>1 DEF Holds
    <3> QED
      BY <2>1, <3>2, DecodeWhole
  <2> QED
    BY <2>1, <2>2, <2>3, DecodePiece
<1> QED
  BY <1>1, IInvAlways, PTL

\* The file register_node writes holds whole nodes, the first ones of the answer,
\* and all of them unless the client was killed while write_buf_to_file ran or
\* the answer came short.
THEOREM FileHoldsWholeNodesCorrect == Spec => []FileHoldsWholeNodes
<1>1. IInv => FileHoldsWholeNodes
  <2> SUFFICES ASSUME IInv
               PROVE  FileHoldsWholeNodes
    OBVIOUS
  <2>1. /\ written \in Seq(Entry) /\ Piece(file, written)
        /\ ~torn => Whole(file, written)
    BY DEF IInv, TypeInv, FileInv
  <2> QED
    BY <2>1, DecodePiece, DecodeWhole DEF FileHoldsWholeNodes
<1> QED
  BY <1>1, IInvAlways, PTL

\* convert_buf_to_node and convert_file_to_node follow ip_header when it is NULL
\* only in a message that came short behind another one on the server's stack.
THEOREM ParserSurvivesCorrect == Spec => []ParserSurvives
<1>1. IInv => ParserSurvives
  <2> SUFFICES ASSUME IInv, NEW s \in Side, how[s] # "mixed"
               PROVE  ~Parse(buf[s]).crashed
    BY DEF ParserSurvives
  <2>1. sent[s] \in Seq(Entry) /\ Holds(s)
    BY DEF IInv, TypeInv
  <2>2. Piece(buf[s], sent[s])
    BY <2>1 DEF Holds
  <2> QED
    BY <2>1, <2>2, DecodePiece
<1> QED
  BY <1>1, IInvAlways, PTL

-----------------------------------------------------------------------------
(* Nobody waits in vain *)

\* s has nothing more to send.
HasSent(s) ==
    IF s = "client" THEN pc[s] \notin Sending \cup {"off"} ELSE pc[s] \in {"accept", "dead"}

\* What s has not received yet is on its way, all of it.
Comes(s) ==
    LET o == Other(s)
    IN  /\ pc[s] = "size" => wire[s] = <<SizeOf(o), TypeOf(o)>> \o out[o].body
        /\ pc[s] = "type" => wire[s] = <<TypeOf(o)>> \o out[o].body
        /\ pc[s] \in {"body", "file"} => wire[s] = out[o].body
        /\ out[o].body # <<>>

\* Messages are not empty.
Bodies ==
    /\ pc["client"] # "off" => out["client"].body # <<>>
    /\ pc["server"] \in Sending => out["server"].body # <<>>

\* A client that sends to a server that has left the connection will notice.
Left ==
    pc["client"] \in Sending /\ pc["server"] \in {"accept", "dead"} => ended["client"] # "open"

Sent(s) == pc[s] \in Receiving /\ ended[s] = "open" /\ HasSent(Other(s)) => Comes(s)

SentInv == Bodies /\ Left /\ \A s \in Side : Sent(s)

LEMMA Labelled ==
    /\ "off" \notin Sending \cup Receiving /\ "accept" \notin Sending \cup Receiving
    /\ "dead" \notin Sending \cup Receiving /\ "handle" \notin Sending \cup Receiving
    /\ "write" \notin Sending \cup Receiving /\ Sending \cap Receiving = {}
    /\ "size" \in Receiving /\ "type" \in Receiving /\ "body" \in Receiving
    /\ "file" \in Receiving
    /\ "send size" \in Sending /\ "send type" \in Sending /\ "send body" \in Sending
BY DEF Sending, Receiving

\* A side that the step leaves alone.
LEMMA Unmoved ==
    ASSUME NEW s \in Side, Sent(s), pc'[s] = pc[s], wire'[s] = wire[s], ended'[s] = ended[s],
           out'[Other(s)] = out[Other(s)], HasSent(Other(s))' => HasSent(Other(s))
    PROVE  Sent(s)'
<1>1. Comes(s) => Comes(s)'
  BY DEF Comes, SizeOf, TypeOf
<1> QED
  BY <1>1 DEF Sent

\* The text of a list is not empty.
LEMMA EncodeIsNotEmpty ==
    ASSUME NEW l \in Lists, l # <<>>
    PROVE  Encode[l] # <<>>
<1>1. l \in Seq(Entry) /\ Encode[l] = Encoded(l)
  BY EncodeIsWhole DEF Encode, Encoded
<1>2. PICK g : Starts(l, g)
  BY <1>1, EncodedIs
<1>3. 1 \in 1 .. Len(l) /\ 1 \in 0 .. Len(l) /\ 1 - 1 = 0
  BY <1>1
<1>4. Len(NodeLines(l[1])) \in Nat \ {0}
  BY <1>1, <1>3, LinesOf
<1>5. g[0] = 0 /\ g[1] = g[1 - 1] + Len(NodeLines(l[1])) /\ g[1] <= Len(Encoded(l))
  BY <1>2, <1>3 DEF Starts
<1>6. Len(Encoded(l)) # 0
  BY <1>3, <1>4, <1>5, <1>1, EncodedIs
<1> QED
  BY <1>1, <1>6

LEMMA ConnectSends ==
    ASSUME IInv, SentInv, Connect
    PROVE  SentInv'
<1>1. pc'["client"] = "send size" /\ pc'["server"] = "size"
  BY DEF Connect
<1>2. out'["client"].body # <<>>
  <2>1. file \in Texts /\ DOMAIN out = Side /\ "client" \in Side
    BY DEF IInv, TypeInv, Side
  <2>2. Append(file, Nul) # <<>> /\ <<Junk>> # <<>>
    <3>1. Nul \in Lines
      BY DEF Nul, Lines
    <3> QED
      BY <2>1, <3>1 DEF Texts
  <2>3. out'["client"].body = Append(file, Nul) \/ out'["client"].body = <<Junk>>
    <3> DEFINE r == [size |-> Len(file) + 1, type |-> "Register", body |-> Append(file, Nul)]
               w == [size |-> 1, type |-> "width_test", body |-> <<Junk>>]
    <3>1. r.body = Append(file, Nul) /\ w.body = <<Junk>>
      OBVIOUS
    <3>2. out' = [out EXCEPT !["client"] = r] \/ out' = [out EXCEPT !["client"] = w]
      BY DEF Connect
    <3> HIDE DEF r, w
    <3> QED
      BY <2>1, <3>1, <3>2
  <2> QED
    BY <2>2, <2>3
<1>3. ~HasSent("client")' /\ Other("server") = "client"
  BY <1>1, Labelled DEF HasSent, Other
<1> QED
  BY <1>1, <1>2, <1>3, Labelled DEF SentInv, Bodies, Left, Sent, Side

LEMMA SendSends ==
    ASSUME IInv, SentInv, NEW a \in Side, Send(a)
    PROVE  SentInv'
<1> DEFINE o == Other(a)
           S == SizeOf(a)
           T == TypeOf(a)
           b == out[a].body
<1>1. /\ o \in Side /\ o # a /\ Other(o) = a /\ pc[a] \in Sending /\ out' = out
      /\ (a = "client" => o = "server") /\ (a = "server" => o = "client") /\ ended' = ended
  BY DEF Side, Other, Send, Sending
<1>2. pc'[o] = pc[o] /\ pc'[a] \in {"send type", "send body", "size", "accept"}
      /\ (pc'[a] \in {"size", "accept"} => pc[a] = "send body")
      /\ (pc'[a] = "size" => a = "client") /\ (pc'[a] = "accept" => a = "server")
  <2>1. DOMAIN pc = Side
    BY DEF IInv, TypeInv
  <2> QED
    BY <1>1, <2>1 DEF Send, Goto, Side
<1>3. Bodies /\ Left /\ Waiting /\ Ends /\ InStep(o)
  BY <1>1 DEF IInv, SentInv
<1>4. Bodies'
  BY <1>1, <1>2, <1>3, Labelled DEF Bodies, Side
<1>5. Left'
  BY <1>1, <1>2, <1>3, Labelled DEF Left, Side, Waiting
<1>6. Sent(a)'
  <2>1. pc'[a] = "size" => ~(ended[a] = "open" /\ pc[o] \in {"accept", "dead"})
    BY <1>1, <1>2, <1>3 DEF Left
  <2>2. HasSent(o)' => pc[o] \in {"accept", "dead"} \/ a = "server"
    BY <1>1, <1>2 DEF HasSent, Side
  <2> QED
    BY <1>1, <1>2, <2>1, <2>2, Labelled DEF Sent
<1>7. Sent(o)'
  <2>1. CASE pc'[a] \in {"send type", "send body"}
    <3>1. ~HasSent(a)'
      BY <2>1, Labelled DEF HasSent, Side
    <3> QED
      BY <1>1, <3>1 DEF Sent
  <2>2. CASE pc'[a] \in {"size", "accept"}
    <3> SUFFICES ASSUME pc[o] \in Receiving, ended[o] = "open"
                 PROVE  Comes(o)'
      BY <1>1, <1>2 DEF Sent
    <3>1. pc[a] = "send body"
      BY <1>2, <2>2
    <3>2. ended[a] = "open"
      BY <1>1, <1>3, <3>1, Labelled DEF Ends, Side
    <3>3. wire'[o] = wire[o] \o b
      <4>1. DOMAIN wire = Side
        BY DEF IInv, TypeInv
      <4> QED
        BY <1>1, <3>1, <3>2, <4>1 DEF Send, Put
    <3>4. b \in Texts /\ b # <<>>
      <4>1. b \in Texts
        BY DEF IInv, TypeInv
      <4> QED
        BY <1>1, <1>3, <4>1, Labelled DEF Bodies, Side
    <3>5. \/ pc[o] = "size" /\ wire[o] = <<S, T>>
          \/ pc[o] = "type" /\ wire[o] = <<T>>
          \/ pc[o] \in {"body", "file"} /\ wire[o] = <<>>
      BY <1>1, <1>3, <3>1, <3>2 DEF InStep
    <3>6. <<>> \o b = b
      BY <3>4, ConcatEmptySeq
    <3>7. S' = S /\ T' = T /\ b' = b
      BY <1>1 DEF SizeOf, TypeOf
    <3> HIDE DEF S, T, b
    <3>8. \/ pc'[o] = "size" /\ wire'[o] = <<S, T>> \o b
          \/ pc'[o] = "type" /\ wire'[o] = <<T>> \o b
          \/ pc'[o] \in {"body", "file"} /\ wire'[o] = b
      BY <1>2, <3>3, <3>5, <3>6
    <3> QED
      BY <1>1, <3>4, <3>7, <3>8 DEF Comes, S, T, b
  <2> QED
    BY <1>2, <2>1, <2>2
<1> QED
  BY <1>1, <1>4, <1>5, <1>6, <1>7 DEF SentInv, Side

LEMMA RecvSends ==
    ASSUME IInv, SentInv, NEW a \in Side, RecvSize(a) \/ RecvType(a)
    PROVE  SentInv'
<1> DEFINE o == Other(a)
           S == SizeOf(o)
           T == TypeOf(o)
           b == out[o].body
<1>1. /\ o \in Side /\ o # a /\ Other(o) = a /\ out' = out /\ ended' = ended
      /\ pc[a] \in {"size", "type"}
  BY DEF Side, Other, RecvSize, RecvType
<1>2. pc'[o] = pc[o] /\ pc'[a] \in {"type", "body", "file"}
  <2>1. DOMAIN pc = Side
    BY DEF IInv, TypeInv
  <2> QED
    BY <1>1, <2>1 DEF RecvSize, RecvType, Goto
<1>3. DOMAIN wire = Side /\ wire'[o] = wire[o]
  <2>1. DOMAIN wire = Side
    BY DEF IInv, TypeInv
  <2> QED
    BY <1>1, <2>1 DEF RecvSize, RecvType
<1>4. Bodies /\ Left /\ Sent(a) /\ Sent(o) /\ b \in Texts
  BY <1>1 DEF IInv, TypeInv, SentInv
<1>5. Bodies' /\ Left'
  BY <1>1, <1>2, <1>4, Labelled DEF Bodies, Left, Side
<1>6. Sent(o)'
  <2>1. HasSent(a)' => HasSent(a)
    BY <1>1, <1>2, Labelled DEF HasSent
  <2> QED
    BY <1>1, <1>2, <1>3, <1>4, <2>1, Unmoved
<1>7. Sent(a)'
  <2> SUFFICES ASSUME ended[a] = "open", HasSent(o)
               PROVE  Comes(a)'
    BY <1>1, <1>2 DEF Sent, HasSent
  <2>1. Comes(a)
    BY <1>1, <1>4, Labelled DEF Sent
  <2>2. S' = S /\ T' = T /\ b' = b /\ b # <<>>
    BY <1>1, <2>1 DEF SizeOf, TypeOf, Comes
  <2>3. CASE RecvSize(a)
    <3>1. pc'[a] = "type" /\ wire'[a] = Tail(wire[a])
      <4>1. DOMAIN pc = Side
        BY DEF IInv, TypeInv
      <4> QED
        BY <1>3, <2>3, <4>1 DEF RecvSize, Goto
    <3>2. wire[a] = <<S, T>> \o b
      BY <2>1, <2>3 DEF Comes, RecvSize
    <3>3. Tail(<<S, T>> \o b) = <<T>> \o b
      <4> HIDE DEF S, T, b
      <4> QED
        BY <1>4, StreamFacts
    <3> QED
      BY <1>1, <2>2, <3>1, <3>2, <3>3 DEF Comes
  <2>4. CASE RecvType(a)
    <3>1. pc'[a] \in {"body", "file"} /\ wire'[a] = Tail(wire[a])
      <4>1. DOMAIN pc = Side
        BY DEF IInv, TypeInv
      <4> QED
        BY <1>3, <2>4, <4>1 DEF RecvType, Goto
    <3>2. wire[a] = <<T>> \o b
      BY <2>1, <2>4 DEF Comes, RecvType
    <3>3. Tail(<<T>> \o b) = b
      <4> HIDE DEF S, T, b
      <4> QED
        BY <1>4, StreamFacts
    <3> QED
      BY <1>1, <2>2, <3>1, <3>2, <3>3 DEF Comes
  <2> QED
    BY <2>3, <2>4
<1> QED
  BY <1>1, <1>5, <1>6, <1>7 DEF SentInv, Side

\* Once a message has been received its receiver goes on by itself.
LEMMA TakenSends ==
    ASSUME IInv, SentInv, NEW a \in Side, RecvBody(a) \/ RecvFile(a)
    PROVE  SentInv'
<1> DEFINE o == Other(a)
<1>1. /\ o \in Side /\ o # a /\ Other(o) = a /\ out' = out /\ ended' = ended
      /\ pc[a] \in {"body", "file"}
  BY DEF Side, Other, RecvBody, RecvFile
<1>2. pc'[o] = pc[o] /\ pc'[a] = "handle" /\ wire'[o] = wire[o]
  <2>1. DOMAIN pc = Side /\ DOMAIN wire = Side
    BY DEF IInv, TypeInv
  <2> QED
    BY <1>1, <2>1 DEF RecvBody, RecvFile, Goto
<1>3. Bodies /\ Left /\ Sent(o)
  BY <1>1 DEF SentInv
<1>4. Bodies' /\ Left'
  BY <1>1, <1>2, <1>3, Labelled DEF Bodies, Left, Side
<1>5. Sent(o)'
  <2>1. HasSent(a)' => HasSent(a)
    BY <1>1, <1>2, Labelled DEF HasSent
  <2> QED
    BY <1>1, <1>2, <1>3, <2>1, Unmoved
<1>6. Sent(a)'
  BY <1>2, Labelled DEF Sent
<1> QED
  BY <1>1, <1>4, <1>5, <1>6 DEF SentInv, Side

\* Whoever leaves the connection is seen to.
LEMMA LeavingSends ==
    ASSUME IInv, SentInv, NEW a \in Side, Fails(a) \/ Kill(a) \/ Dies(a)
    PROVE  SentInv'
<1> DEFINE o == Other(a)
<1>1. o \in Side /\ o # a /\ Other(o) = a /\ out' = out
  BY DEF Side, Other, Fails, Kill, Dies
<1>2. /\ pc'[o] = pc[o] /\ ended'[o] # "open"
      /\ pc'[a] \in (IF a = "client" THEN {"off"} ELSE {"accept", "dead"})
  <2>1. DOMAIN pc = Side /\ DOMAIN ended = Side
    BY DEF IInv, TypeInv
  <2> QED
    BY <1>1, <2>1 DEF Fails, Kill, Dies, Goto
<1>3. Bodies
  BY DEF SentInv
<1>4. Bodies' /\ Left'
  BY <1>1, <1>2, <1>3, Labelled DEF Bodies, Left, Side
<1>5. Sent(a)' /\ Sent(o)'
  BY <1>2, Labelled DEF Sent
<1> QED
  BY <1>1, <1>4, <1>5 DEF SentInv, Side

LEMMA HandleSends ==
    ASSUME <<>> \notin Lists, IInv, SentInv, Handle
    PROVE  SentInv'
<1>1. pc' = [pc EXCEPT !["server"] = "send size"] /\ DOMAIN pc = Side /\ DOMAIN out = Side
  BY DEF Handle, Goto, IInv, TypeInv
<1>2. PICK l \in Lists :
        out' = [out EXCEPT !["server"] =
                  [size |-> Len(Encode[l]), type |-> "R_Register", body |-> Encode[l]]]
  BY DEF Handle
<1>3. out'["server"].body # <<>> /\ out'["client"] = out["client"]
  <2>1. Encode[l] # <<>>
    BY EncodeIsNotEmpty
  <2> QED
    BY <1>1, <1>2, <2>1 DEF Side
<1>4. pc'["server"] = "send size" /\ pc'["client"] = pc["client"]
  BY <1>1 DEF Side
<1>5. Bodies' /\ Left'
  BY <1>3, <1>4, Labelled DEF SentInv, Bodies, Left
<1>6. ~HasSent("server")' /\ Other("client") = "server"
  BY <1>4 DEF HasSent, Other
<1> QED
  BY <1>4, <1>5, <1>6, Labelled DEF SentInv, Sent, Side

\* The client has its answer, which the server sends only when it has read all.
LEMMA AnsweredSends ==
    ASSUME IInv, SentInv, OpenFile \/ WriteFile \/ EndProbe
    PROVE  SentInv'
<1>1. pc["client"] \in {"handle", "write"} /\ out' = out
  BY DEF OpenFile, WriteFile, EndProbe
<1>2. pc'["client"] \in {"write", "off"} /\ pc'["server"] = pc["server"]
  <2>1. DOMAIN pc = Side
    BY DEF IInv, TypeInv
  <2> QED
    BY <2>1 DEF OpenFile, WriteFile, EndProbe, Goto, Side
<1>3. pc["server"] \notin Receiving
  BY <1>1, Labelled DEF IInv, Waiting
<1>4. Bodies' /\ Left'
  BY <1>1, <1>2, Labelled DEF SentInv, Bodies, Left
<1> QED
  BY <1>2, <1>3, <1>4, Labelled DEF SentInv, Sent, Side

LEMMA BootSends ==
    ASSUME IInv, SentInv, Boot
    PROVE  SentInv'
<1>1. /\ pc["server"] = "dead" /\ pc'["server"] = "accept" /\ pc'["client"] = pc["client"]
      /\ out' = out /\ wire' = wire /\ ended' = ended
  <2>1. DOMAIN pc = Side
    BY DEF IInv, TypeInv
  <2> QED
    BY <2>1 DEF Boot, Goto, Side
<1>2. Bodies' /\ Left'
  BY <1>1, Labelled DEF SentInv, Bodies, Left
<1>3. Sent("server")'
  BY <1>1, Labelled DEF Sent
<1>4. Sent("client")'
  <2>1. HasSent(Other("client")) /\ Sent("client") /\ "client" \in Side
    BY <1>1 DEF HasSent, Other, SentInv, Side
  <2> QED
    BY <1>1, <2>1, Unmoved
<1> QED
  BY <1>2, <1>3, <1>4 DEF SentInv, Side

LEMMA StepSends ==
    ASSUME <<>> \notin Lists, IInv, SentInv, [Next]_vars
    PROVE  SentInv'
<1>1. ASSUME NEW s \in Side, Step(s)
      PROVE  SentInv'
  BY <1>1, SendSends, RecvSends, TakenSends, LeavingSends DEF Step
<1>2. CASE ClientStep
  BY <1>1, <1>2, AnsweredSends DEF ClientStep, Side
<1>3. CASE ServerStep
  BY <1>1, <1>3, HandleSends DEF ServerStep, Side
<1>4. CASE Connect \/ Boot
  BY <1>4, ConnectSends, BootSends
<1>5. CASE \E s \in Side : Kill(s)
  BY <1>5, LeavingSends
<1>6. CASE UNCHANGED vars
  <2>1. Bodies' /\ Left'
    BY <1>6 DEF vars, SentInv, Bodies, Left
  <2>2. ASSUME NEW s \in Side
        PROVE  Sent(s)'
    BY <1>6, <2>2, Unmoved DEF vars, SentInv, HasSent
  <2> QED
    BY <2>1, <2>2 DEF SentInv
<1> QED
  BY <1>2, <1>3, <1>4, <1>5, <1>6 DEF Next

\* As long as no empty list is sent (no program's list is ever empty when it
\* sends it), the client and the server never wait for each other in recv, and
\* nobody waits for a peer that has gone back to accept, or is gone, without the
\* connection telling it.
THEOREM NobodyWaitsInVainCorrect ==
    ASSUME <<>> \notin Lists
    PROVE  Spec => []NobodyWaitsInVain
<1>1. Init => SentInv
  <2> SUFFICES ASSUME Init
               PROVE  SentInv
    OBVIOUS
  <2>1. pc["client"] = "off" /\ pc["server"] = "accept"
    BY DEF Init
  <2> QED
    BY <2>1, Labelled DEF SentInv, Bodies, Left, Sent, Side
<1>2. IInv /\ SentInv /\ [Next]_vars => SentInv'
  BY StepSends
<1>3. IInv /\ SentInv => NobodyWaitsInVain
  <2> SUFFICES ASSUME IInv, SentInv
               PROVE  NobodyWaitsInVain
    OBVIOUS
  <2>1. ASSUME NEW s \in Side, Waits(s)
        PROVE  ~HasSent(Other(s))
    <3>1. DOMAIN out = Side /\ Other(s) \in Side
      BY DEF IInv, TypeInv, Side, Other
    <3>2. out[Other(s)].body \in Texts
      BY <3>1 DEF IInv, TypeInv
    <3>3. ~Comes(s)
      <4> DEFINE b == out[Other(s)].body
                 S == SizeOf(Other(s))
                 T == TypeOf(Other(s))
      <4>1. <<S, T>> \o b # <<>> /\ <<T>> \o b # <<>>
        <5>1. b \in Texts
          BY <3>2
        <5> HIDE DEF b, S, T
        <5> QED
          BY <5>1, StreamFacts
      <4> QED
        BY <2>1, <4>1 DEF Waits, Receiving, Comes
    <3> QED
      BY <2>1, <3>3 DEF SentInv, Sent, Waits
  <2>2. Waits("server") => pc["client"] \in Sending
    <3>1. Waits("server") => pc["client"] # "off"
      BY DEF Waits, IInv, Ends
    <3> QED
      BY <2>1, <3>1 DEF HasSent, Other, Side
  <2>3. Waits("client") => pc["server"] \notin {"accept", "dead", "off"}
    BY <2>1 DEF HasSent, Other, Side, IInv, Roles
  <2> QED
    BY <2>2, <2>3, Labelled DEF NobodyWaitsInVain, Waits, Side, Other
<1> QED
  BY <1>1, <1>2, <1>3, IInvAlways, PTL DEF Spec
=============================================================================
