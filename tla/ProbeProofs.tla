---------------------------- MODULE ProbeProofs ----------------------------
(***************************************************************************)
(* What a probe of a node leaves in the table, and what it costs.  The     *)
(* facts about the table are those of TableProofs.                         *)
(***************************************************************************)
EXTENDS Probe, SequenceTheorems, TLAPS

T == INSTANCE TableProofs WITH Key <- Pair, Value <- W, NIL <- NULL

LEMMA TableAssumed == T!TableAssumption
BY ProbeAssumption DEF T!TableAssumption

\* T names what Probe calls table.
LEMMA SameTable ==
    /\ table!Table_new <=> T!Table_new
    /\ \A k \in Pair : table!Lookup(k) = T!Lookup(k)
    /\ \A k \in Pair, v \in W : table!Table_put(k, v) <=> T!Table_put(k, v)
    /\ \A k \in Pair : table!Table_get(k) <=> T!Table_get(k)
    /\ table!TableTypeOK <=> T!TableTypeOK
BY DEF table!Table_new, T!Table_new, table!Lookup, T!Lookup, table!Table_put, T!Table_put,
       table!Table_get, T!Table_get, table!TableTypeOK, T!TableTypeOK, table!Bound, T!Bound,
       table!Chain, T!Chain, table!Position, T!Position, table!Binding, T!Binding

Looping == pc \in {"socket", "connect", "send", "recv"}

\* Where the loop is, and the pair of the address it is at.
AtPair ==
    /\ Looping =>
        /\ p \in Pair
        /\ pairs = IF test = "width_test" THEN p ELSE p - 1
        /\ test = "width_test" => pair = p
        /\ pairs > 0 => tmpPair = pairs
    /\ pc \in {"get", "done"} => p = addresses + 1 /\ tmpPair = addresses

\* What was measured so far, and what the table has of it.
Measured ==
    /\ Looping /\ test = "width_test" => Len(took[p]) = 1 /\ delay = took[p][1] \div 2
    /\ \A i \in 1 .. p - 1 :
        /\ Len(took[i]) = 2
        /\ T!Lookup(i) = [delay |-> took[i][1] \div 2,
                          divisor |-> took[i][2] - 2 * (took[i][1] \div 2)]
    /\ \A i \in Pair : T!Lookup(i) # NULL => i < p

\* The sockets that are open, the one of the test that runs among them.
Open ==
    /\ others <= fds
    /\ pc = "socket" => fds = others + p - 1
    /\ pc \in {"connect", "send", "recv"} => fds = others + p
    /\ pc \in {"get", "done"} => fds = others + addresses

\* The values of the variables that are not the table's.
Values ==
    /\ pc \in {"socket", "connect", "send", "recv", "get", "done", "exited"}
    /\ p \in 1 .. addresses + 1
    /\ test \in {"regular_update", "width_test"}
    /\ conn \in {"none", "open", "asked", "taken", "answered", "closed"}
    /\ delay \in Nat /\ pairs \in 0 .. addresses
    /\ pair \in Pair \cup {NULL} /\ tmpPair \in Pair \cup {NULL}
    /\ others \in Nat /\ fds \in 0 .. MaxFd
    /\ took \in [Pair -> Seq(Ticks)]

ProbeInv ==
    /\ Values /\ T!Inv /\ ~freed /\ length = p - 1
    /\ AtPair /\ Measured /\ Open

LEMMA InitInv == Init => ProbeInv
<1> SUFFICES ASSUME Init
             PROVE  ProbeInv
  OBVIOUS
<1>1. T!Inv /\ ~freed /\ length = 0
  BY T!InitInv, TableAssumed, SameTable DEF Init, T!Table_new
<1>2. \A i \in Pair : T!Lookup(i) = NULL
  BY TableAssumed, SameTable
     DEF Init, T!Table_new, T!Lookup, T!Bound, T!Chain, T!TableAssumption
<1>3. Values
  BY ProbeAssumption DEF Init, Values, Pair
<1>4. AtPair /\ Open /\ p = 1
  BY ProbeAssumption DEF Init, AtPair, Open, Looping, Pair
<1>5. Measured
  BY <1>2, <1>4 DEF Init, Measured, Looping
<1> QED
  BY <1>1, <1>3, <1>4, <1>5 DEF ProbeInv

LEMMA TableStays ==
    ASSUME T!Inv, UNCHANGED tableVars
    PROVE  T!Inv' /\ \A i \in Pair : T!Lookup(i)' = T!Lookup(i)
<1>1. UNCHANGED T!tableVars
  BY DEF tableVars, T!tableVars
<1>2. T!Inv' /\ T!Mapped' = T!Mapped
  BY <1>1, T!LookStep, TableAssumed
<1>3. \A i \in Pair : T!Mapped[i] = T!Lookup(i) /\ T!Mapped'[i] = T!Lookup(i)'
  BY DEF T!Mapped
<1> QED
  BY <1>2, <1>3

\* The steps to and from the socket, the peer's and the other thread's.
LEMMA WayStep ==
    ASSUME ProbeInv, UNCHANGED <<locals, test, tableVars, took>>,
           \/ Socket \/ SocketFails \/ Connect \/ Send \/ RecvFails
           \/ PeerServes \/ PeerEnds \/ OtherThread \/ UNCHANGED vars
    PROVE  ProbeInv'
<1>1. T!Inv' /\ ~freed' /\ length' = p' - 1 /\ \A i \in Pair : T!Lookup(i)' = T!Lookup(i)
  BY TableStays DEF ProbeInv, tableVars, locals
<1>2. addresses \in Nat /\ MaxFd \in Nat
  BY ProbeAssumption
<1>3. Values'
  BY <1>2 DEF Socket, SocketFails, Connect, Send, RecvFails, PeerServes, PeerEnds, OtherThread,
         Exit, ProbeInv, Values, Looping, locals, vars
<1>4. AtPair'
  BY <1>2 DEF Socket, SocketFails, Connect, Send, RecvFails, PeerServes, PeerEnds, OtherThread,
         Exit, ProbeInv, AtPair, Looping, locals, vars
<1>5. Measured'
  <2>1. Looping' => Looping
    BY DEF Socket, SocketFails, Connect, Send, RecvFails, PeerServes, PeerEnds, OtherThread,
           Exit, Looping, vars
  <2>2. \A i \in 1 .. p - 1 : i \in Pair
    BY <1>2 DEF ProbeInv, Values, Pair
  <2> QED
    BY <1>1, <2>1, <2>2 DEF ProbeInv, Measured, locals
<1>6. Open'
  <2>1. others \in Nat /\ fds \in Nat /\ p \in Nat /\ Open /\ UNCHANGED p
    BY <1>2 DEF ProbeInv, Values, locals
  <2>2. CASE Socket \/ SocketFails
    BY <2>1, <2>2 DEF Socket, SocketFails, Exit, Open
  <2>3. CASE Connect \/ Send \/ RecvFails
    BY <2>1, <2>3 DEF Connect, Send, RecvFails, Exit, Open
  <2>4. CASE PeerServes \/ PeerEnds \/ UNCHANGED vars
    BY <2>1, <2>4 DEF PeerServes, PeerEnds, vars, Open
  <2>5. CASE OtherThread
    BY <1>2, <2>1, <2>5 DEF OtherThread, Open
  <2> QED
    BY <2>2, <2>3, <2>4, <2>5
<1> QED
  BY <1>1, <1>3, <1>4, <1>5, <1>6 DEF ProbeInv

\* Half of what clock() counted, and twice that taken off again.
LEMMA Halves ==
    ASSUME NEW d \in Ticks
    PROVE  d \in Nat /\ d \div 2 \in Nat
BY ProbeAssumption

LEMMA SecondTick ==
    ASSUME NEW s \in Seq(Ticks), Len(s) = 1, NEW d \in Ticks
    PROVE  /\ Append(s, d) \in Seq(Ticks) /\ Len(Append(s, d)) = 2
           /\ Append(s, d)[1] = s[1] /\ Append(s, d)[2] = d
<1>1. Append(s, d) \in Seq(Ticks) /\ Len(Append(s, d)) = Len(s) + 1
  OBVIOUS
<1>2. Append(s, d)[Len(s) + 1] = d
  BY AppendProperties
<1>3. \A i \in 1 .. Len(s) : Append(s, d)[i] = s[i]
  OBVIOUS
<1> QED
  BY <1>1, <1>2, <1>3

LEMMA DelayStep ==
    ASSUME ProbeInv, DelayMeasured
    PROVE  ProbeInv'
<1>1. PICK d \in Ticks : delay' = d \div 2 /\ took' = [took EXCEPT ![p] = <<d>>]
  BY DEF DelayMeasured
<1>2. /\ pc = "recv" /\ test = "regular_update" /\ p \in Pair /\ pairs = p - 1
      /\ fds = others + p
  BY DEF DelayMeasured, ProbeInv, AtPair, Open, Looping
<1>3. /\ pairs' = p /\ pair' = p /\ tmpPair' = p /\ fds' = fds - 1
      /\ conn' = "none" /\ test' = "width_test" /\ pc' = "socket"
      /\ UNCHANGED <<p, others, tableVars>>
  BY <1>2 DEF DelayMeasured, Pair
<1>4. T!Inv' /\ ~freed' /\ length' = p' - 1 /\ \A i \in Pair : T!Lookup(i)' = T!Lookup(i)
  BY <1>3, TableStays DEF ProbeInv, tableVars
<1>5. /\ p \in Nat /\ p >= 1 /\ p <= addresses /\ addresses \in Nat /\ MaxFd \in Nat
      /\ others \in Nat /\ fds \in 0 .. MaxFd /\ d \in Nat /\ d \div 2 \in Nat
  BY <1>2, Halves, ProbeAssumption DEF Pair, ProbeInv, Values
<1>6. /\ took' \in [Pair -> Seq(Ticks)] /\ took'[p] = <<d>>
      /\ \A i \in Pair \ {p} : took'[i] = took[i]
  <2>1. <<d>> \in Seq(Ticks)
    OBVIOUS
  <2> QED
    BY <1>1, <1>2, <2>1 DEF ProbeInv, Values
<1>7. Values'
  BY <1>1, <1>2, <1>3, <1>5, <1>6 DEF ProbeInv, Values, Pair
<1>8. AtPair'
  BY <1>2, <1>3, <1>5 DEF AtPair, Looping
<1>9. Measured'
  <2>1. \A i \in 1 .. p - 1 : i \in Pair \ {p}
    BY <1>5 DEF Pair
  <2>2. Len(took'[p]) = 1 /\ delay' = took'[p][1] \div 2
    BY <1>1, <1>6
  <2> QED
    BY <1>3, <1>4, <1>6, <2>1, <2>2 DEF ProbeInv, Measured
<1>10. Open'
  BY <1>2, <1>3, <1>5 DEF Open
<1> QED
  BY <1>4, <1>7, <1>8, <1>9, <1>10 DEF ProbeInv

LEMMA WidthStep ==
    ASSUME ProbeInv, WidthMeasured
    PROVE  ProbeInv'
<1>1. /\ pc = "recv" /\ test = "width_test"
      /\ p \in Pair /\ pairs = p /\ pair = p /\ tmpPair = p /\ fds = others + p
  BY DEF WidthMeasured, Received, ProbeInv, AtPair, Open, Looping, Pair
<1>2. PICK d \in Ticks :
        /\ table!Table_put(pair, [delay |-> delay, divisor |-> d - delay * 2])
        /\ took' = [took EXCEPT ![p] = Append(@, d)]
  BY DEF WidthMeasured
<1>0. PICK k \in Pair : k = p
  BY <1>1
<1> DEFINE v == [delay |-> delay, divisor |-> d - delay * 2]
<1>3. /\ p \in Nat /\ p >= 1 /\ p <= addresses /\ addresses \in Nat /\ delay \in Nat
      /\ d \in Nat /\ took[p] \in Seq(Ticks) /\ Len(took[p]) = 1
      /\ delay = took[p][1] \div 2
  BY <1>1, Halves, ProbeAssumption DEF Pair, ProbeInv, Values, Measured, Looping
<1>4. v \in W
  BY <1>3 DEF W
<1>5. T!Table_put(k, v)
  BY <1>0, <1>1, <1>2, <1>4, SameTable
<1>6. T!Inv' /\ T!Mapped' = [T!Mapped EXCEPT ![k] = v]
  <2> HIDE DEF v
  <2> QED
    BY <1>1, <1>4, <1>5, T!PutStep, TableAssumed DEF ProbeInv
<1>7. T!Lookup(k)' = v /\ \A i \in Pair \ {k} : T!Lookup(i)' = T!Lookup(i)
  <2>1. \A i \in Pair : T!Mapped[i] = T!Lookup(i) /\ T!Mapped'[i] = T!Lookup(i)'
    BY DEF T!Mapped
  <2>2. DOMAIN T!Mapped = Pair
    BY DEF T!Mapped
  <2> HIDE DEF v
  <2>3. T!Mapped'[k] = v /\ \A i \in Pair \ {k} : T!Mapped'[i] = T!Mapped[i]
    BY <1>6, <2>2
  <2> QED
    BY <2>1, <2>3
<1>8. length' = length + 1 /\ ~freed'
  <2>1. T!Lookup(k) = NULL
    BY <1>0, <1>3 DEF ProbeInv, Measured
  <2>2. T!Bound(k) = {}
    BY <2>1, T!ChainOnce, TableAssumed DEF ProbeInv, T!Inv, T!TableTypeOK, T!Buckets
  <2> HIDE DEF v
  <2> QED
    BY <1>5, <2>2 DEF T!Table_put, ProbeInv
<1>9. /\ p' = p + 1 /\ test' = "regular_update" /\ conn' = "none"
      /\ pc' = IF p = addresses THEN "get" ELSE "socket"
      /\ UNCHANGED <<delay, pairs, pair, tmpPair, others, fds>>
  BY <1>1 DEF WidthMeasured
<1>10. /\ took' \in [Pair -> Seq(Ticks)] /\ took'[p] \in Seq(Ticks)
       /\ Len(took'[p]) = 2 /\ took'[p][1] = took[p][1] /\ took'[p][2] = d
       /\ \A i \in Pair \ {p} : took'[i] = took[i]
  <2> DEFINE s == Append(took[p], d)
  <2>1. s \in Seq(Ticks) /\ Len(s) = 2 /\ s[1] = took[p][1] /\ s[2] = d
    BY <1>3, SecondTick
  <2>2. took' = [took EXCEPT ![p] = s]
    BY <1>2
  <2> HIDE DEF s
  <2> QED
    BY <1>1, <2>1, <2>2 DEF ProbeInv, Values
<1>11. Values'
  BY <1>1, <1>3, <1>9, <1>10 DEF ProbeInv, Values, Pair
<1>12. AtPair'
  BY <1>1, <1>3, <1>9 DEF AtPair, Looping, Pair
<1>13. Measured'
  <2>1. v = [delay |-> took'[p][1] \div 2,
             divisor |-> took'[p][2] - 2 * (took'[p][1] \div 2)]
    <3>1. d - delay * 2 = d - 2 * delay
      BY <1>3
    <3> QED
      BY <1>3, <1>10, <3>1
  <2>2. \A i \in 1 .. p - 1 : i \in Pair \ {p}
    BY <1>3 DEF Pair
  <2>3. ASSUME NEW i \in 1 .. p' - 1
        PROVE  /\ Len(took'[i]) = 2
               /\ T!Lookup(i)' = [delay |-> took'[i][1] \div 2,
                                  divisor |-> took'[i][2] - 2 * (took'[i][1] \div 2)]
    <3>1. CASE i = p
      <4> HIDE DEF v
      <4> QED
        BY <1>0, <1>7, <1>10, <2>1, <3>1
    <3>2. CASE i # p
      <4>1. i \in 1 .. p - 1
        BY <1>3, <1>9, <3>2
      <4> QED
        BY <1>0, <1>7, <1>10, <2>2, <4>1 DEF ProbeInv, Measured
    <3> QED
      BY <3>1, <3>2
  <2>4. \A i \in Pair : T!Lookup(i)' # NULL => i < p'
    BY <1>0, <1>3, <1>7, <1>9 DEF ProbeInv, Measured, Pair
  <2> QED
    BY <1>9, <2>3, <2>4 DEF Measured
<1>14. Open'
  BY <1>1, <1>3, <1>9 DEF ProbeInv, Values, Open
<1>15. length' = p' - 1
  BY <1>3, <1>8, <1>9 DEF ProbeInv
<1> QED
  BY <1>6, <1>8, <1>11, <1>12, <1>13, <1>14, <1>15 DEF ProbeInv

LEMMA GetStep ==
    ASSUME ProbeInv, Get
    PROVE  ProbeInv'
<1>1. /\ pc = "get" /\ tmpPair \in Pair /\ pc' \in {"done", "exited"}
      /\ UNCHANGED <<locals, test, conn, others, fds, took>>
  BY ProbeAssumption DEF Get, ProbeInv, AtPair, Pair
<1>2. T!Table_get(tmpPair)
  BY <1>1, SameTable DEF Get
<1>3. T!Inv' /\ T!Mapped' = T!Mapped
  BY <1>1, <1>2, T!LookStep, TableAssumed DEF ProbeInv
<1>4. \A i \in Pair : T!Lookup(i)' = T!Lookup(i)
  <2>1. \A i \in Pair : T!Mapped[i] = T!Lookup(i) /\ T!Mapped'[i] = T!Lookup(i)'
    BY DEF T!Mapped
  <2> QED
    BY <1>3, <2>1
<1>5. ~freed' /\ length' = p' - 1
  BY <1>1, <1>2 DEF T!Table_get, ProbeInv, locals
<1>6. Values' /\ AtPair' /\ Open'
  BY <1>1, <1>4 DEF ProbeInv, Values, AtPair, Open, Looping, locals
<1>7. Measured'
  <2>1. \A i \in 1 .. p - 1 : i \in Pair
    BY ProbeAssumption DEF ProbeInv, Values, Pair
  <2> QED
    BY <1>1, <1>4, <2>1 DEF ProbeInv, Measured, Looping, locals
<1> QED
  BY <1>3, <1>5, <1>6, <1>7 DEF ProbeInv

LEMMA NextInv == ProbeInv /\ [Next]_vars => ProbeInv'
<1> SUFFICES ASSUME ProbeInv, [Next]_vars
             PROVE  ProbeInv'
  OBVIOUS
<1>1. ASSUME \/ Socket \/ SocketFails \/ Connect \/ Send \/ RecvFails
             \/ PeerServes \/ PeerEnds \/ OtherThread \/ UNCHANGED vars
      PROVE  UNCHANGED <<locals, test, tableVars, took>>
  BY <1>1 DEF Socket, SocketFails, Connect, Send, RecvFails, PeerServes, PeerEnds,
              OtherThread, vars
<1> QED
  BY <1>1, WayStep, DelayStep, WidthStep, GetStep DEF Next

LEMMA Always == Spec => []ProbeInv
BY InitInv, NextInv, PTL DEF Spec

-----------------------------------------------------------------------------

\* Every variable of a probe stays in its type, the descriptors within the limit
\* and the loop within the list of addresses.
THEOREM TypeCorrect == Spec => []TypeOK
<1>1. ProbeInv => TypeOK
  BY SameTable DEF ProbeInv, Values, Open, TypeOK, T!Inv
<1> QED
  BY <1>1, Always, PTL

\* Whatever the number of the node's addresses and whichever buckets their pairs
\* fall into, the table ends up with one entry for each, which is what was
\* measured over that address, and the last pair is found in it.
THEOREM EachAddressItsOwnCorrect == Spec => []EachAddressItsOwn
<1>1. ProbeInv => EachAddressItsOwn
  <2> SUFFICES ASSUME ProbeInv
               PROVE  EachAddressItsOwn
    OBVIOUS
  <2>1. \A i \in 1 .. p - 1 : i \in Pair /\ table!Lookup(i) = T!Lookup(i)
    BY SameTable, ProbeAssumption DEF ProbeInv, Values, Pair
  <2>2. ASSUME pc = "get"
        PROVE  tmpPair # NULL /\ table!Lookup(tmpPair) # NULL
    <3>1. p = addresses + 1 /\ tmpPair = addresses /\ addresses \in Pair
      BY <2>2, ProbeAssumption DEF ProbeInv, AtPair, Pair
    <3>2. T!Lookup(addresses) = [delay |-> took[addresses][1] \div 2,
                divisor |-> took[addresses][2] - 2 * (took[addresses][1] \div 2)]
      BY <3>1 DEF ProbeInv, Measured, Pair
    <3>3. took[addresses][1] \in Nat /\ took[addresses][2] \in Nat
      <4>1. took[addresses] \in Seq(Ticks) /\ Len(took[addresses]) = 2
        BY <3>1 DEF ProbeInv, Values, Measured, Pair
      <4>2. took[addresses][1] \in Ticks /\ took[addresses][2] \in Ticks
        BY <4>1
      <4> QED
        BY <4>2, ProbeAssumption
    <3>4. T!Lookup(addresses) # NULL
      BY <3>2, <3>3, ProbeAssumption DEF W
    <3> QED
      BY <3>1, <3>4, SameTable, ProbeAssumption
  <2> QED
    BY <2>1, <2>2 DEF ProbeInv, Measured, EachAddressItsOwn
<1> QED
  BY <1>1, Always, PTL

\* Each address done has cost one descriptor that is never given back: that of
\* its bandwidth test.
THEOREM LeaksOnePerAddressCorrect == Spec => []LeaksOnePerAddress
<1>1. ProbeInv => LeaksOnePerAddress
  BY DEF ProbeInv, Open, LeaksOnePerAddress
<1> QED
  BY <1>1, Always, PTL
=============================================================================
