---------------------------- MODULE ServerProofs ----------------------------
(***************************************************************************)
(* Proofs for Server: the types; what it does to the lists it is given (no *)
(* duplicates, nothing lost, nothing invented, and the answer that was     *)
(* saved); and what becomes of its file over many registrations and deaths.*)
(***************************************************************************)
EXTENDS Server, NodeInfoProofs, FiniteSetTheorems

List == [nodes : Seq(Node), wild : BOOLEAN]

\* The pointers a step follows lead to a list that has a first node.
Pointers ==
    /\ local_node # NULL => heap[local_node].nodes # <<>>
    /\ arg # NULL => heap[arg].nodes # <<>>
    /\ list # NULL => heap[list].nodes # <<>>
    /\ rx \in {"absorb", "write"} => arg # NULL
    /\ rx \in {"absorb", "open", "write", "encode"} => local_node # NULL

TypeInv == TypeOK /\ Pointers

-----------------------------------------------------------------------------
(* The heap *)

\* Three pointers do not use up the objects.
LEMMA UnusedExists == Unused # {}
<1> SUFFICES ASSUME Unused = {}
             PROVE  FALSE
  OBVIOUS
<1> DEFINE three == {local_node, arg, list}
<1>1. Obj \subseteq three
  BY DEF Unused
<1>2. IsFiniteSet({local_node}) /\ Cardinality({local_node}) = 1
  BY FS_Singleton
<1>3. IsFiniteSet({local_node, arg}) /\ Cardinality({local_node, arg}) \in Nat
      /\ Cardinality({local_node, arg}) <= 2
  <2>1. {local_node, arg} = {local_node} \cup {arg}
    OBVIOUS
  <2> QED
    BY <1>2, <2>1, FS_AddElement
<1>4. IsFiniteSet(three) /\ Cardinality(three) \in Nat /\ Cardinality(three) <= 3
  <2>1. three = {local_node, arg} \cup {list}
    OBVIOUS
  <2> HIDE DEF three
  <2> QED
    BY <1>3, <2>1, FS_AddElement
<1>5. Cardinality(Obj) <= Cardinality(three) /\ Cardinality(Obj) \in Nat
  BY <1>1, <1>4, FS_Subset, FS_CardinalityType, ServerAssumption
<1> QED
  BY <1>4, <1>5, ServerAssumption

\* A new list lies where no pointer leads; the lists in use stay as they are.
LEMMA NewListOK ==
    ASSUME TypeOK, NEW nodes \in Seq(Node), NEW wild \in BOOLEAN,
           NewList(nodes, wild)
    PROVE  /\ local_node' \in Obj /\ local_node' # NULL
           /\ local_node' \notin {local_node, arg, list}
           /\ heap' \in [Obj -> List]
           /\ heap'[local_node'] = [nodes |-> nodes, wild |-> wild]
           /\ \A p \in Obj \ {local_node'} : heap'[p] \in {heap[p], Empty}
           /\ \A p \in {local_node, arg, list} : p # NULL => heap'[p] = heap[p]
<1> DEFINE o == CHOOSE o \in Unused : TRUE
<1>1. o \in Unused
  BY UnusedExists
<1> HIDE DEF o
<1>2. o \in Obj /\ o \notin {local_node, arg, list} /\ o # NULL
  BY <1>1, ServerAssumption DEF Unused
<1>3. /\ heap' = [p \in Obj |-> IF p = o THEN [nodes |-> nodes, wild |-> wild]
                                ELSE IF p \in Unused THEN Empty ELSE heap[p]]
      /\ local_node' = o
  BY DEF NewList, o
<1>4. Empty \in List /\ [nodes |-> nodes, wild |-> wild] \in List
  BY DEF Empty, List
<1>5. \A p \in Obj : heap[p] \in List
  BY DEF TypeOK, SharedOK, List
<1>6. heap' \in [Obj -> List]
  BY <1>3, <1>4, <1>5
<1>7. \A p \in {local_node, arg, list} : p # NULL => p \in Obj /\ p \notin Unused /\ p # o
  BY <1>2 DEF TypeOK, SharedOK, RxOK, CronOK, Unused
<1> QED
  BY <1>2, <1>3, <1>6, <1>7

\* A list changed in place changes nothing else.
LEMMA SetNodesOK ==
    ASSUME TypeOK, NEW o \in Obj, NEW nodes \in Seq(Node), SetNodes(o, nodes)
    PROVE  /\ heap' \in [Obj -> List]
           /\ heap'[o].nodes = nodes /\ heap'[o].wild = heap[o].wild
           /\ \A p \in Obj \ {o} : heap'[p] = heap[p]
<1>1. heap \in [Obj -> List]
  BY DEF TypeOK, SharedOK, List
<1>2. [nodes |-> nodes, wild |-> heap[o].wild] \in List
  BY <1>1 DEF List
<1> QED
  BY <1>1, <1>2 DEF SetNodes

\* Replacing the first node's addresses.
LEMMA SetIpListOK ==
    ASSUME NEW nodes \in Seq(Node), NEW l \in Seq(IP)
    PROVE  /\ SetIpList(nodes, l) \in Seq(Node)
           /\ DOMAIN SetIpList(nodes, l) = DOMAIN nodes
           /\ Len(SetIpList(nodes, l)) = Len(nodes)
           /\ \A i \in DOMAIN nodes : SetIpList(nodes, l)[i].id = nodes[i].id
<1> DEFINE new == SetIpList(nodes, l)
<1>1. new = [i \in 1 .. Len(nodes) |-> new[i]] /\ DOMAIN nodes = 1 .. Len(nodes)
      /\ Len(nodes) \in Nat
  BY DEF SetIpList
<1>2. ASSUME NEW i \in 1 .. Len(nodes)
      PROVE  new[i] \in Node /\ new[i].id = nodes[i].id
  <2>1. nodes[i] \in Node
    OBVIOUS
  <2>2. CASE i = 1
    <3>1. new[i] = [nodes[i] EXCEPT !.ip_list = l]
      BY <2>2 DEF SetIpList
    <3> QED
      BY <2>1, <3>1 DEF Node
  <2>3. CASE i # 1
    BY <2>1, <2>3 DEF SetIpList
  <2> QED
    BY <2>2, <2>3
<1> HIDE DEF new
<1>3. new \in Seq(Node) /\ Len(new) = Len(nodes) /\ DOMAIN new = DOMAIN nodes
  BY <1>1, <1>2
<1> QED
  BY <1>1, <1>2, <1>3 DEF new

-----------------------------------------------------------------------------
(* Type correctness *)

\* The messages, the first file and the lists the cron thread generates are of
\* their types.
LEMMA MessageType ==
    /\ \A m \in Messages \cup {NoMessage} :
        m.nodes \in Seq(Node) /\ UniqueIds(m.nodes)
    /\ FirstFile \in Seq(Node) /\ UniqueIds(FirstFile)
<1>1. NoMessage.nodes \in Seq(Node) /\ UniqueIds(NoMessage.nodes)
  BY DEF NoMessage, UniqueIds
<1> QED
  BY <1>1, ServerAssumption

LEMMA IpListType ==
    /\ \A a \in LocalIps : LocalIpList(a) \in Seq(IP)
    /\ NoLocalIpList \in Seq(IP)
<1>1. ASSUME NEW a \in LocalIps
      PROVE  [ip |-> a, type |-> "clientIP", validity |-> 1] \in IP
  BY ServerAssumption DEF IP
<1>2. [ip |-> Blank, type |-> Blank, validity |-> 0] \in IP
  BY DEF IP, Blank
<1> QED
  BY <1>1, <1>2 DEF LocalIpList, NoLocalIpList

LEMMA MarkedType ==
    ASSUME NEW current \in Seq(IP), NEW before
    PROVE  Marked(current, before) \in Seq(IP)
<1> DEFINE new == [i \in DOMAIN current |->
            IF contain_ip(before, current[i].ip)
            THEN [current[i] EXCEPT !.validity = 0]
            ELSE [current[i] EXCEPT !.type = "unknownIP", !.validity = 1]]
<1>1. ASSUME NEW i \in 1 .. Len(current)
      PROVE  new[i] \in IP
  <2>1. current[i] \in IP /\ i \in DOMAIN current
    OBVIOUS
  <2>2. CASE contain_ip(before, current[i].ip)
    <3>1. new[i] = [current[i] EXCEPT !.validity = 0]
      BY <2>1, <2>2
    <3> QED
      BY <2>1, <3>1 DEF IP
  <2>3. CASE ~contain_ip(before, current[i].ip)
    <3>1. new[i] = [current[i] EXCEPT !.type = "unknownIP", !.validity = 1]
      BY <2>1, <2>3
    <3> QED
      BY <2>1, <3>1 DEF IP
  <2> QED
    BY <2>2, <2>3
<1>2. new = [i \in 1 .. Len(current) |-> new[i]] /\ Len(current) \in Nat
  OBVIOUS
<1> HIDE DEF new
<1>3. new \in Seq(IP)
  BY <1>1, <1>2
<1> QED
  BY <1>3 DEF Marked, new

\* Whatever a thread was doing, a process that dies leaves a file of nodes, and
\* the memory a new process starts with.
LEMMA DieType ==
    ASSUME TypeInv, Die
    PROVE  TypeInv'
<1>1. disk' \in Seq(Node)
  <2>1. CASE rx = "write"
    <3>1. arg \in Obj /\ heap[arg].nodes \in Seq(Node)
      BY <2>1 DEF TypeInv, TypeOK, SharedOK, RxOK, Pointers
    <3>2. PICK k \in 0 .. Len(heap[arg].nodes) : disk' = SubSeq(heap[arg].nodes, 1, k)
      BY <2>1 DEF Die, Leftover
    <3> QED
      BY <3>1, <3>2
  <2>2. CASE rx # "write"
    BY <2>2 DEF Die, Leftover, TypeInv, TypeOK, SharedOK
  <2> QED
    BY <2>1, <2>2
<1>2. heap' \in [Obj -> [nodes : Seq(Node), wild : BOOLEAN]]
  BY DEF Die, Fresh, Empty
<1>3. 0 \in 0 .. MaxFd
  BY ServerAssumption
<1>4. TypeOK'
  <2>1. SharedOK'
    BY <1>1, <1>2, <1>3 DEF Die, Fresh, SharedOK
  <2>2. RxOK'
    BY DEF Die, Fresh, RxOK
  <2>3. CronOK'
    BY DEF Die, Fresh, CronOK
  <2>4. FlagsOK'
    BY DEF Die, Fresh, FlagsOK
  <2> QED
    BY <2>1, <2>2, <2>3, <2>4 DEF TypeOK
<1>5. Pointers'
  BY DEF Die, Fresh, Pointers
<1> QED
  BY <1>4, <1>5 DEF TypeInv

LEMMA TypeInit == Init => TypeInv
<1> SUFFICES ASSUME Init
             PROVE  TypeInv
  OBVIOUS
<1>1. heap \in [Obj -> [nodes : Seq(Node), wild : BOOLEAN]]
  BY DEF Init, Empty
<1>2. disk \in Seq(Node) /\ 0 \in 0 .. MaxFd
  BY ServerAssumption DEF Init
<1>3. TypeOK
  <2>1. SharedOK
    BY <1>1, <1>2 DEF Init, SharedOK
  <2>2. RxOK
    BY DEF Init, RxOK
  <2>3. CronOK
    BY DEF Init, CronOK
  <2>4. FlagsOK
    BY DEF Init, FlagsOK
  <2> QED
    BY <2>1, <2>2, <2>3, <2>4 DEF TypeOK
<1>4. Pointers
  BY DEF Init, Pointers
<1> QED
  BY <1>3, <1>4 DEF TypeInv

\* The steps of the two threads that do not end the process.
RxMove ==
    \/ Accept \/ AcceptFails \/ RecvFails \/ Receive \/ ReplyUpdate \/ Load
    \/ StartMerge \/ MergeNode \/ LinkRemain \/ OpenFile \/ WriteFile \/ Encode
    \/ SendReply

CronMove ==
    \/ GenerateLocalNode \/ CompareIpLists \/ AssignIpList \/ StartProbing
    \/ ProbeReturns \/ ProbeHangs \/ EndProbing

LEMMA NextCases == Next => Die \/ Restart \/ RxMove \/ CronMove
BY DEF Next, RxStep, CronStep, Environment, RxCrash, CronCrash, Crash, RxMove, CronMove

\* Each thread leaves the other's variables alone.
LEMMA RxFrame == RxMove => UNCHANGED <<up, local_node_id, cronVars>>
BY DEF RxMove, Accept, AcceptFails, RecvFails, Receive, ReplyUpdate, Load, StartMerge,
       MergeNode, LinkRemain, OpenFile, WriteFile, Encode, SendReply, memory

LEMMA CronFrame == CronMove => UNCHANGED <<up, disk, rx, rxLocals>>
BY DEF CronMove, GenerateLocalNode, CompareIpLists, AssignIpList, StartProbing,
       ProbeReturns, ProbeHangs, EndProbing, notes

\* A restart finds the memory as the process that died left it: as it starts.
LEMMA RestartType ==
    ASSUME TypeInv, Restart
    PROVE  TypeInv'
<1>1. SharedOK' /\ CronOK' /\ Pointers'
  BY DEF Restart, TypeInv, TypeOK, SharedOK, CronOK, Pointers, memory, cronVars, rxLocals
<1>2. RxOK'
  BY DEF Restart, TypeInv, TypeOK, RxOK, rxLocals
<1>3. FlagsOK'
  BY DEF Restart, TypeInv, TypeOK, FlagsOK, rxLocals, notes
<1> QED
  BY <1>1, <1>2, <1>3 DEF TypeInv, TypeOK

\* The nodes rx merges, and the list it merges them into.
LEMMA MergeTypes ==
    ASSUME TypeInv, rx = "absorb"
    PROVE  /\ arg \in Obj /\ arg # NULL
           /\ heap[arg].nodes \in Seq(Node) /\ heap[arg].nodes # <<>>
           /\ msg.nodes \in Seq(Node)
           /\ ptr2 <= Len(msg.nodes) => msg.nodes[ptr2] \in Node
<1>1. msg.nodes \in Seq(Node)
  BY MessageType DEF TypeInv, TypeOK, RxOK
<1>2. ptr2 \in Nat \ {0}
  BY DEF TypeInv, TypeOK, RxOK
<1>3. arg \in Obj /\ arg # NULL /\ heap[arg].nodes \in Seq(Node) /\ heap[arg].nodes # <<>>
  BY DEF TypeInv, TypeOK, SharedOK, RxOK, Pointers
<1> QED
  BY <1>1, <1>2, <1>3

LEMMA RxMoveType ==
    ASSUME TypeInv, RxMove
    PROVE  RxOK'
<1> USE DEF TypeInv, TypeOK, RxOK
<1>1. CASE Accept \/ AcceptFails \/ RecvFails \/ ReplyUpdate
  BY <1>1 DEF Accept, AcceptFails, RecvFails, ReplyUpdate, rxLocals
<1>2. CASE Receive
  <2>1. \A t : Handler(t) \in {"load", "update", "accept"}
    BY DEF Handler
  <2> QED
    BY <1>2, <2>1 DEF Receive
<1>3. CASE Load
  BY <1>3 DEF Load, SharedOK
<1>4. CASE StartMerge
  BY <1>4 DEF StartMerge, SharedOK
<1>5. CASE MergeNode
  <2>1. msg.nodes[ptr2] \in Node
    BY <1>5, MergeTypes DEF MergeNode
  <2>2. Append(remain, msg.nodes[ptr2]) \in Seq(Node)
    BY <2>1
  <2> QED
    BY <1>5, <2>2 DEF MergeNode
<1>6. CASE LinkRemain
  BY <1>6 DEF LinkRemain
<1>7. CASE OpenFile
  BY <1>7 DEF OpenFile, SharedOK
<1>8. CASE WriteFile
  BY <1>8 DEF WriteFile
<1>9. CASE Encode
  BY <1>9 DEF Encode, SharedOK, Pointers
<1>10. CASE SendReply
  BY <1>10 DEF SendReply
<1> QED
  BY <1>1, <1>2, <1>3, <1>4, <1>5, <1>6, <1>7, <1>8, <1>9, <1>10 DEF RxMove

\* What rx does to the memory: a list it loads, merges or links is a list of
\* nodes with a first node, and the lists the pointers name stay so.
LEMMA RxMoveShared ==
    ASSUME TypeInv, RxMove
    PROVE  SharedOK' /\ Pointers'
<1> USE DEF TypeInv, TypeOK, SharedOK, Pointers
<1>1. CASE Accept \/ AcceptFails \/ RecvFails \/ ReplyUpdate
  <2>1. fds' \in 0 .. MaxFd
    BY <1>1, ServerAssumption DEF Accept, AcceptFails, RecvFails, ReplyUpdate
  <2>2. rx' \in {"recv", "stopped", "accept"} /\ UNCHANGED <<arg, list>>
        /\ UNCHANGED <<disk, heap, local_node, local_node_id>>
    BY <1>1 DEF Accept, AcceptFails, RecvFails, ReplyUpdate, rxLocals, memory, cronVars
  <2> QED
    BY <2>1, <2>2
<1>2. CASE Receive
  <2>1. \A t : Handler(t) \in {"load", "update", "accept"}
    BY DEF Handler
  <2>2. rx' \in {"load", "update", "accept"} /\ arg' = arg
    BY <1>2, <2>1 DEF Receive
  <2>3. UNCHANGED <<disk, heap, local_node, local_node_id, fds, list>>
    BY <1>2 DEF Receive, memory, cronVars
  <2> QED
    BY <2>2, <2>3
<1>3. CASE Load
  <2>1. fds' \in 0 .. MaxFd
    BY <1>3, ServerAssumption DEF Load
  <2>2. CASE disk = <<>>
    BY <1>3, <2>1, <2>2 DEF Load, cronVars
  <2>3. CASE disk # <<>>
    <3>1. NewList(disk, FALSE)
      BY <1>3, <2>3 DEF Load
    <3>2. /\ local_node' \in Obj /\ local_node' # NULL
          /\ heap' \in [Obj -> List]
          /\ heap'[local_node'] = [nodes |-> disk, wild |-> FALSE]
          /\ \A p \in {local_node, arg, list} : p # NULL => heap'[p] = heap[p]
      BY <3>1, NewListOK
    <3>3. heap'[local_node'].nodes # <<>>
      BY <2>3, <3>2
    <3> QED
      BY <1>3, <2>1, <3>2, <3>3 DEF Load, List, cronVars
  <2> QED
    BY <2>2, <2>3
<1>4. CASE StartMerge
  BY <1>4 DEF StartMerge, memory, cronVars
<1>5. CASE MergeNode \/ LinkRemain
  <2> DEFINE new == IF ptr2 <= Len(msg.nodes)
                    THEN Absorb(heap[arg].nodes, msg.nodes[ptr2])
                    ELSE heap[arg].nodes \o remain
  <2>1. arg \in Obj /\ heap[arg].nodes \in Seq(Node) /\ heap[arg].nodes # <<>>
        /\ (ptr2 <= Len(msg.nodes) => msg.nodes[ptr2] \in Node)
        /\ remain \in Seq(Node) /\ ptr2 \in Nat /\ Len(msg.nodes) \in Nat
    BY <1>5, MergeTypes DEF MergeNode, LinkRemain, RxOK
  <2>2. new \in Seq(Node) /\ new # <<>>
    <3>1. CASE ptr2 <= Len(msg.nodes)
      <4>1. Absorb(heap[arg].nodes, msg.nodes[ptr2]) \in Seq(Node)
            /\ Len(Absorb(heap[arg].nodes, msg.nodes[ptr2])) = Len(heap[arg].nodes)
        BY <2>1, <3>1, AbsorbShape
      <4> QED
        BY <2>1, <3>1, <4>1
    <3>2. CASE ~(ptr2 <= Len(msg.nodes))
      BY <2>1, <3>2
    <3> QED
      BY <3>1, <3>2
  <2>3. SetNodes(arg, new)
    BY <1>5, <2>1 DEF MergeNode, LinkRemain
  <2> HIDE DEF new
  <2>4. /\ heap' \in [Obj -> List] /\ heap'[arg].nodes = new
        /\ \A p \in Obj \ {arg} : heap'[p] = heap[p]
    BY <2>1, <2>2, <2>3, SetNodesOK
  <2>5. UNCHANGED <<disk, local_node, local_node_id, fds, list>>
        /\ arg' \in {arg, NULL} /\ (rx' = "absorb" => arg' = arg) /\ rx' \in {"absorb", "open"}
    BY <1>5 DEF MergeNode, LinkRemain, cronVars
  <2>6. rx = "absorb"
    BY <1>5 DEF MergeNode, LinkRemain
  <2>7. SharedOK'
    BY <2>4, <2>5 DEF List
  <2>8. \A p \in Obj : heap[p].nodes # <<>> => heap'[p].nodes # <<>>
    BY <2>1, <2>2, <2>4
  <2>9. Pointers'
    BY <2>1, <2>5, <2>6, <2>8 DEF RxOK, CronOK
  <2> QED
    BY <2>7, <2>9
<1>6. CASE OpenFile
  <2>1. UNCHANGED <<heap, local_node, local_node_id, fds, list>> /\ local_node # NULL
    BY <1>6 DEF OpenFile, memory, cronVars
  <2>2. \/ rx' = "write" /\ arg' = local_node /\ disk' = <<>>
        \/ rx' = "encode" /\ arg' = arg /\ disk' = disk
    BY <1>6 DEF OpenFile
  <2>3. disk' \in Seq(Node)
    <3>1. disk' = <<>> \/ disk' = disk
      BY <2>2
    <3>2. disk \in Seq(Node) /\ <<>> \in Seq(Node)
      OBVIOUS
    <3> QED
      BY <3>1, <3>2
  <2>4. SharedOK'
    BY <2>1, <2>3
  <2>5. Pointers'
    BY <2>1, <2>2
  <2> QED
    BY <2>4, <2>5
<1>7. CASE WriteFile
  BY <1>7 DEF WriteFile, memory, cronVars, RxOK
<1>8. CASE Encode
  BY <1>8 DEF Encode, memory, cronVars
<1>9. CASE SendReply
  BY <1>9 DEF SendReply, memory, cronVars
<1> QED
  BY <1>1, <1>2, <1>3, <1>4, <1>5, <1>6, <1>7, <1>8, <1>9 DEF RxMove

\* What the node generated by cron looks like.
LEMMA GenerateShape ==
    ASSUME TypeInv, GenerateLocalNode
    PROVE  \E id \in Nat, l \in Seq(IP), wild \in BOOLEAN :
             /\ <<[id |-> id, node_count |-> 1, ip_list |-> l]>> \in Seq(Node)
             /\ NewList(<<[id |-> id, node_count |-> 1, ip_list |-> l]>>, wild)
             /\ local_node_id' = id /\ current_ip_list' = l
<1>1. PICK id \in GenIds, wild \in BOOLEAN,
           l \in IF fds < MaxFd THEN {LocalIpList(a) : a \in LocalIps} ELSE {NoLocalIpList} :
        /\ NewList(<<[id |-> id, node_count |-> 1, ip_list |-> l]>>, wild)
        /\ local_node_id' = id /\ current_ip_list' = l
  BY DEF GenerateLocalNode
<1>2. id \in Nat
  BY ServerAssumption
<1>3. l \in Seq(IP)
  BY IpListType
<1>4. [id |-> id, node_count |-> 1, ip_list |-> l] \in Node
  BY <1>2, <1>3 DEF Node
<1>5. <<[id |-> id, node_count |-> 1, ip_list |-> l]>> \in Seq(Node)
  BY <1>4
<1> QED
  BY <1>1, <1>2, <1>3, <1>5

LEMMA CronMoveShared ==
    ASSUME TypeInv, CronMove
    PROVE  SharedOK' /\ Pointers'
<1> USE DEF TypeInv, TypeOK, SharedOK, Pointers
<1>0. UNCHANGED <<disk, rx, arg>>
  BY CronFrame DEF rxLocals
<1>1. CASE GenerateLocalNode
  <2>1. PICK id \in Nat, l \in Seq(IP), wild \in BOOLEAN :
             /\ <<[id |-> id, node_count |-> 1, ip_list |-> l]>> \in Seq(Node)
             /\ NewList(<<[id |-> id, node_count |-> 1, ip_list |-> l]>>, wild)
             /\ local_node_id' = id
    BY <1>1, GenerateShape
  <2> DEFINE new == <<[id |-> id, node_count |-> 1, ip_list |-> l]>>
  <2>2. new # <<>>
    OBVIOUS
  <2> HIDE DEF new
  <2>3. /\ local_node' \in Obj /\ local_node' # NULL
        /\ heap' \in [Obj -> List]
        /\ heap'[local_node'] = [nodes |-> new, wild |-> wild]
        /\ \A p \in {local_node, arg, list} : p # NULL => heap'[p] = heap[p]
    BY <2>1, NewListOK DEF new
  <2>4. heap'[local_node'].nodes # <<>>
    BY <2>2, <2>3
  <2>5. UNCHANGED <<fds, list>>
    BY <1>1 DEF GenerateLocalNode
  <2>6. SharedOK'
    BY <1>0, <2>1, <2>3, <2>5 DEF List
  <2>7. Pointers'
    BY <1>0, <2>3, <2>4, <2>5
  <2> QED
    BY <2>6, <2>7
<1>2. CASE CompareIpLists
  BY <1>0, <1>2 DEF CompareIpLists, memory
<1>3. CASE AssignIpList
  <2>1. local_node \in Obj /\ heap[local_node].nodes \in Seq(Node)
        /\ heap[local_node].nodes # <<>> /\ current_ip_list \in Seq(IP)
    BY <1>3 DEF AssignIpList, CronOK
  <2> DEFINE new == SetIpList(heap[local_node].nodes, current_ip_list)
  <2>2. new \in Seq(Node) /\ Len(new) = Len(heap[local_node].nodes)
    BY <2>1, SetIpListOK
  <2>3. SetNodes(local_node, new)
    BY <1>3 DEF AssignIpList
  <2> HIDE DEF new
  <2>4. new # <<>>
    BY <2>1, <2>2
  <2>5. /\ heap' \in [Obj -> List] /\ heap'[local_node].nodes = new
        /\ \A p \in Obj \ {local_node} : heap'[p] = heap[p]
    BY <2>1, <2>2, <2>3, SetNodesOK
  <2>6. UNCHANGED <<local_node, local_node_id, fds, list>>
    BY <1>3 DEF AssignIpList
  <2>7. \A p \in Obj : heap[p].nodes # <<>> => heap'[p].nodes # <<>>
    BY <2>4, <2>5
  <2>8. SharedOK'
    BY <1>0, <2>5, <2>6 DEF List
  <2>9. Pointers'
    BY <1>0, <2>6, <2>7 DEF RxOK, CronOK
  <2> QED
    BY <2>8, <2>9
<1>4. CASE StartProbing
  BY <1>0, <1>4 DEF StartProbing, memory
<1>5. CASE ProbeReturns \/ ProbeHangs \/ EndProbing
  <2>1. UNCHANGED <<heap, local_node, local_node_id>> /\ list' \in {list, NULL}
    BY <1>5 DEF ProbeReturns, ProbeHangs, EndProbing, memory
  <2>2. fds' \in 0 .. MaxFd
    <3>1. CASE ProbeReturns
      <4>1. list \in Obj /\ heap[list].nodes[ptr] \in Node
        BY <3>1 DEF ProbeReturns, ProbesNext, CronOK
      <4>2. Len(heap[list].nodes[ptr].ip_list) \in Nat
        BY <4>1 DEF Node
      <4>3. fds' = fds + Len(heap[list].nodes[ptr].ip_list) /\ fds' <= MaxFd
        BY <3>1 DEF ProbeReturns
      <4>4. fds \in Nat
        BY DEF SharedOK
      <4>5. PICK k \in Nat : k = Len(heap[list].nodes[ptr].ip_list)
        BY <4>2
      <4>6. MaxFd \in Nat
        BY ServerAssumption
      <4>7. fds + k \in 0 .. MaxFd
        BY <4>3, <4>4, <4>5, <4>6
      <4> QED
        BY <4>3, <4>5, <4>7
    <3>2. CASE ProbeHangs
      <4>1. list \in Obj /\ heap[list].nodes[ptr] \in Node
        BY <3>2 DEF ProbeHangs, ProbesNext, CronOK
      <4>2. heap[list].nodes[ptr].ip_list \in Seq(IP)
        BY <4>1 DEF Node
      <4>3. PICK n \in DOMAIN heap[list].nodes[ptr].ip_list : fds + n <= MaxFd /\ fds' = fds + n
        BY <3>2 DEF ProbeHangs
      <4> QED
        BY <4>2, <4>3, ServerAssumption
    <3>3. CASE EndProbing
      BY <3>3 DEF EndProbing
    <3> QED
      BY <1>5, <3>1, <3>2, <3>3
  <2>3. SharedOK'
    BY <1>0, <2>1, <2>2
  <2>4. Pointers'
    BY <1>0, <2>1
  <2> QED
    BY <2>3, <2>4
<1> QED
  BY <1>1, <1>2, <1>3, <1>4, <1>5 DEF CronMove

LEMMA CronMoveType ==
    ASSUME TypeInv, CronMove
    PROVE  CronOK'
<1> USE DEF TypeInv, TypeOK, CronOK
<1>1. CASE GenerateLocalNode
  <2>1. current_ip_list' \in Seq(IP)
    BY <1>1, GenerateShape
  <2>2. cron' = "compare" /\ UNCHANGED <<list, ptr>>
    BY <1>1 DEF GenerateLocalNode
  <2> QED
    BY <2>1, <2>2
<1>2. CASE CompareIpLists
  <2>1. current_ip_list' \in Seq(IP)
    BY <1>2, MarkedType DEF CompareIpLists
  <2> QED
    BY <1>2, <2>1 DEF CompareIpLists
<1>3. CASE AssignIpList
  BY <1>3 DEF AssignIpList
<1>4. CASE StartProbing
  BY <1>4 DEF StartProbing, SharedOK
<1>5. CASE ProbeReturns
  BY <1>5 DEF ProbeReturns
<1>6. CASE ProbeHangs
  BY <1>6 DEF ProbeHangs
<1>7. CASE EndProbing
  BY <1>7 DEF EndProbing
<1> QED
  BY <1>1, <1>2, <1>3, <1>4, <1>5, <1>6, <1>7 DEF CronMove

LEMMA MoveFlags ==
    ASSUME TypeInv, RxMove \/ CronMove
    PROVE  FlagsOK'
<1>1. up' = up
  BY RxFrame, CronFrame
<1>2. up \in BOOLEAN /\ sock \in BOOLEAN /\ saved \in BOOLEAN
      /\ raced \in BOOLEAN /\ unprobed \subseteq Nat
  BY DEF TypeInv, TypeOK, FlagsOK
<1>3. sock' \in BOOLEAN
  BY <1>2 DEF RxMove, CronMove, Accept, AcceptFails, RecvFails, Receive, ReplyUpdate,
     Load, StartMerge, MergeNode, LinkRemain, OpenFile, WriteFile, Encode, SendReply,
     GenerateLocalNode, CompareIpLists, AssignIpList, StartProbing, ProbeReturns,
     ProbeHangs, EndProbing, rxLocals
<1>4. saved' \in BOOLEAN
  BY <1>2 DEF RxMove, CronMove, Accept, AcceptFails, RecvFails, Receive, ReplyUpdate,
     Load, StartMerge, MergeNode, LinkRemain, OpenFile, WriteFile, Encode, SendReply,
     GenerateLocalNode, CompareIpLists, AssignIpList, StartProbing, ProbeReturns,
     ProbeHangs, EndProbing, rxLocals
<1>5. raced' \in BOOLEAN
  BY <1>2 DEF RxMove, CronMove, Accept, AcceptFails, RecvFails, Receive, ReplyUpdate,
     Load, StartMerge, MergeNode, LinkRemain, OpenFile, WriteFile, Encode, SendReply,
     GenerateLocalNode, CompareIpLists, AssignIpList, StartProbing, ProbeReturns,
     ProbeHangs, EndProbing, notes
<1>6. unprobed' \subseteq Nat
  <2>1. CASE StartProbing
    <3>1. \A i \in DOMAIN disk : disk[i].id \in Nat
      <4>1. \A i \in DOMAIN disk : disk[i] \in Node
        BY DEF TypeInv, TypeOK, SharedOK
      <4> QED
        BY <4>1 DEF Node
    <3> QED
      BY <2>1, <3>1 DEF StartProbing
  <2>2. CASE ProbeReturns \/ EndProbing
    BY <1>2, <2>2 DEF ProbeReturns, EndProbing
  <2>3. CASE ~StartProbing /\ ~ProbeReturns /\ ~EndProbing
    BY <1>2, <2>3 DEF RxMove, CronMove, Accept, AcceptFails, RecvFails, Receive,
       ReplyUpdate, Load, StartMerge, MergeNode, LinkRemain, OpenFile, WriteFile, Encode,
       SendReply, GenerateLocalNode, CompareIpLists, AssignIpList, ProbeHangs, notes
  <2> QED
    BY <2>1, <2>2, <2>3
<1> QED
  BY <1>1, <1>2, <1>3, <1>4, <1>5, <1>6 DEF FlagsOK

LEMMA TypeStep == TypeInv /\ [Next]_vars => TypeInv'
<1> SUFFICES ASSUME TypeInv, [Next]_vars
             PROVE  TypeInv'
  OBVIOUS
<1>1. CASE Die
  BY <1>1, DieType
<1>2. CASE Restart
  BY <1>2, RestartType
<1>3. CASE RxMove
  <2>1. CronOK'
    BY <1>3, RxFrame DEF TypeInv, TypeOK, CronOK, cronVars
  <2> QED
    BY <1>3, <2>1, RxMoveType, RxMoveShared, MoveFlags DEF TypeInv, TypeOK
<1>4. CASE CronMove
  <2>1. RxOK'
    BY <1>4, CronFrame DEF TypeInv, TypeOK, RxOK, rxLocals
  <2> QED
    BY <1>4, <2>1, CronMoveType, CronMoveShared, MoveFlags DEF TypeInv, TypeOK
<1>5. CASE UNCHANGED vars
  <2>1. SharedOK' /\ CronOK' /\ Pointers'
    BY <1>5 DEF vars, TypeInv, TypeOK, SharedOK, CronOK, Pointers, memory, cronVars, rxLocals
  <2>2. RxOK'
    BY <1>5 DEF vars, TypeInv, TypeOK, RxOK, rxLocals
  <2>3. FlagsOK'
    BY <1>5 DEF vars, TypeInv, TypeOK, FlagsOK, rxLocals, notes
  <2> QED
    BY <2>1, <2>2, <2>3 DEF TypeInv, TypeOK
<1> QED
  BY <1>1, <1>2, <1>3, <1>4, <1>5, NextCases

LEMMA TypeInvariant == Spec => []TypeInv
BY TypeInit, TypeStep, PTL DEF Spec

\* Every variable stays in its type and the descriptors in use within the limit,
\* however the two threads, the crashes and the restarts of server.c interleave.
THEOREM TypeCorrect == Spec => []TypeOK
<1>1. TypeInv => TypeOK
  BY DEF TypeInv
<1> QED
  BY <1>1, TypeInvariant, PTL

-----------------------------------------------------------------------------
(* Duplicates *)

\* In the middle of a merge the nodes set aside are new to the list and come
\* from the part of the message that was read.
SetAside ==
    rx = "absorb" =>
        /\ UniqueIds(remain)
        /\ IdsOf(remain) \cap IdsOf(heap[arg].nodes) = {}
        /\ \A k \in DOMAIN remain : \E j \in DOMAIN msg.nodes :
              j < ptr2 /\ remain[k] = msg.nodes[j]

UniqueInv == NoDuplicateNode /\ SetAside

LEMMA UniqueInit == Init => UniqueInv
<1>1. UniqueIds(<<>>)
  BY DEF UniqueIds
<1> QED
  BY <1>1, MessageType DEF Init, UniqueInv, NoDuplicateNode, SetAside, Empty

LEMMA DieUnique ==
    ASSUME TypeInv, UniqueInv, Die
    PROVE  UniqueInv'
<1>1. UniqueIds(<<>>)
  BY DEF UniqueIds
<1>2. UniqueIds(disk')
  <2>1. CASE rx = "write"
    <3>1. arg \in Obj /\ heap[arg].nodes \in Seq(Node)
      BY <2>1 DEF TypeInv, TypeOK, SharedOK, RxOK, Pointers
    <3>2. PICK k \in 0 .. Len(heap[arg].nodes) : disk' = SubSeq(heap[arg].nodes, 1, k)
      BY <2>1 DEF Die, Leftover
    <3>3. UniqueIds(heap[arg].nodes)
      BY <3>1 DEF UniqueInv, NoDuplicateNode
    <3> QED
      BY <3>1, <3>2, <3>3, PrefixUnique
  <2>2. CASE rx # "write"
    BY <2>2 DEF Die, Leftover, UniqueInv, NoDuplicateNode
  <2> QED
    BY <2>1, <2>2
<1> QED
  BY <1>1, <1>2 DEF Die, Fresh, UniqueInv, NoDuplicateNode, SetAside, Empty

\* One entry of the message.
LEMMA MergeUnique ==
    ASSUME TypeInv, UniqueInv, MergeNode
    PROVE  UniqueInv'
<1> DEFINE L == heap[arg].nodes
           n == msg.nodes[ptr2]
<1>1. /\ rx = "absorb" /\ ptr2 <= Len(msg.nodes) /\ SetNodes(arg, Absorb(L, n))
      /\ remain' = IF IsNew(L, n) THEN Append(remain, n) ELSE remain
      /\ ptr2' = ptr2 + 1 /\ UNCHANGED <<disk, reply, rx, msg, arg>>
  BY DEF MergeNode
<1>2. /\ arg \in Obj /\ L \in Seq(Node) /\ n \in Node
      /\ remain \in Seq(Node) /\ ptr2 \in Nat \ {0} /\ msg.nodes \in Seq(Node)
      /\ UniqueIds(msg.nodes)
  BY <1>1, MergeTypes, MessageType DEF TypeInv, TypeOK, RxOK
<1>3. UniqueIds(L)
  BY <1>2 DEF UniqueInv, NoDuplicateNode
<1>4. /\ UniqueIds(remain) /\ IdsOf(remain) \cap IdsOf(L) = {}
      /\ \A k \in DOMAIN remain : \E j \in DOMAIN msg.nodes :
            j < ptr2 /\ remain[k] = msg.nodes[j]
  BY <1>1 DEF UniqueInv, SetAside
<1>5. ptr2 \in DOMAIN msg.nodes
  BY <1>1, <1>2
<1> HIDE DEF L, n
<1>6. /\ Absorb(L, n) \in Seq(Node) /\ DOMAIN Absorb(L, n) = DOMAIN L
      /\ \A i \in DOMAIN L : Absorb(L, n)[i].id = L[i].id
      /\ UniqueIds(Absorb(L, n))
  BY <1>2, <1>3, AbsorbShape, AbsorbUnique
<1>7. IdsOf(Absorb(L, n)) = IdsOf(L)
  BY <1>6 DEF IdsOf
<1>8. /\ heap'[arg].nodes = Absorb(L, n) /\ \A p \in Obj \ {arg} : heap'[p] = heap[p]
  BY <1>1, <1>2, <1>6, SetNodesOK DEF TypeInv
<1>9. NoDuplicateNode'
  BY <1>1, <1>6, <1>8 DEF UniqueInv, NoDuplicateNode
<1>10. n.id \notin IdsOf(remain)
  <2> SUFFICES ASSUME NEW k \in DOMAIN remain, remain[k].id = n.id
               PROVE  FALSE
    BY DEF IdsOf
  <2>1. PICK j \in DOMAIN msg.nodes : j < ptr2 /\ remain[k] = msg.nodes[j]
    BY <1>4
  <2>2. msg.nodes[j].id = msg.nodes[ptr2].id
    BY <2>1 DEF n
  <2>3. j = ptr2
    BY <1>2, <1>5, <2>2 DEF UniqueIds
  <2> QED
    BY <1>2, <2>1, <2>3
<1>11. /\ UniqueIds(remain') /\ IdsOf(remain') \cap IdsOf(L) = {}
       /\ \A k \in DOMAIN remain' : \E j \in DOMAIN msg.nodes :
            j < ptr2 + 1 /\ remain'[k] = msg.nodes[j]
  <2>1. CASE IsNew(L, n)
    <3>1. remain' = Append(remain, n)
      BY <1>1, <2>1 DEF L, n
    <3>2. UniqueIds(remain')
      BY <1>2, <1>4, <1>10, <3>1, AppendUnique DEF IsNew
    <3>3. \A k \in DOMAIN remain' :
            (k \in DOMAIN remain /\ remain'[k] = remain[k]) \/ remain'[k] = n
      BY <1>2, <3>1
    <3>4. IdsOf(remain') \subseteq IdsOf(remain) \cup {n.id}
      BY <3>3 DEF IdsOf
    <3>5. \A k \in DOMAIN remain' : \E j \in DOMAIN msg.nodes :
            j < ptr2 + 1 /\ remain'[k] = msg.nodes[j]
      <4>1. \A j \in DOMAIN msg.nodes : j < ptr2 => j < ptr2 + 1
        BY <1>2
      <4>2. ptr2 < ptr2 + 1 /\ n = msg.nodes[ptr2]
        BY <1>2 DEF n
      <4> QED
        BY <1>4, <1>5, <3>3, <4>1, <4>2
    <3> QED
      BY <1>4, <2>1, <3>2, <3>4, <3>5 DEF IsNew
  <2>2. CASE ~IsNew(L, n)
    <3>1. remain' = remain
      BY <1>1, <2>2 DEF L, n
    <3>2. \A j \in DOMAIN msg.nodes : j < ptr2 => j < ptr2 + 1
      BY <1>2
    <3> QED
      BY <1>4, <3>1, <3>2
  <2> QED
    BY <2>1, <2>2
<1> QED
  BY <1>1, <1>7, <1>8, <1>9, <1>11 DEF UniqueInv, SetAside

LEMMA RxUnique ==
    ASSUME TypeInv, UniqueInv, RxMove
    PROVE  UniqueInv'
<1>1. CASE Accept \/ AcceptFails \/ RecvFails \/ ReplyUpdate
  BY <1>1 DEF Accept, AcceptFails, RecvFails, ReplyUpdate, rxLocals, memory, UniqueInv,
     NoDuplicateNode, SetAside
<1>2. CASE Receive
  <2>1. \A t : Handler(t) \in {"load", "update", "accept"}
    BY DEF Handler
  <2> QED
    BY <1>2, <2>1 DEF Receive, memory, UniqueInv, NoDuplicateNode, SetAside
<1>3. CASE Load
  <2>1. rx' = "merge" /\ UNCHANGED <<disk, reply>>
    BY <1>3 DEF Load
  <2>2. \A o \in Obj : UniqueIds(heap'[o].nodes)
    <3>1. CASE disk = <<>>
      BY <1>3, <3>1 DEF Load, UniqueInv, NoDuplicateNode
    <3>2. CASE disk # <<>>
      <4>1. NewList(disk, FALSE) /\ disk \in Seq(Node)
        BY <1>3, <3>2 DEF Load, TypeInv, TypeOK, SharedOK
      <4>2. /\ heap'[local_node'] = [nodes |-> disk, wild |-> FALSE]
            /\ \A p \in Obj \ {local_node'} : heap'[p] \in {heap[p], Empty}
        BY <4>1, NewListOK DEF TypeInv
      <4>3. UniqueIds(<<>>)
        BY DEF UniqueIds
      <4> QED
        BY <4>2, <4>3 DEF UniqueInv, NoDuplicateNode, Empty
    <3> QED
      BY <3>1, <3>2
  <2> QED
    BY <2>1, <2>2 DEF UniqueInv, NoDuplicateNode, SetAside
<1>4. CASE StartMerge
  <2>1. UniqueIds(<<>>) /\ IdsOf(<<>>) = {}
    BY DEF UniqueIds, IdsOf
  <2> QED
    BY <1>4, <2>1 DEF StartMerge, memory, UniqueInv, NoDuplicateNode, SetAside
<1>5. CASE MergeNode
  BY <1>5, MergeUnique
<1>6. CASE LinkRemain
  <2>1. rx = "absorb" /\ SetNodes(arg, heap[arg].nodes \o remain)
        /\ rx' = "open" /\ UNCHANGED <<disk, reply>>
    BY <1>6 DEF LinkRemain
  <2>2. arg \in Obj /\ heap[arg].nodes \in Seq(Node) /\ remain \in Seq(Node)
        /\ UniqueIds(heap[arg].nodes) /\ UniqueIds(remain)
        /\ IdsOf(remain) \cap IdsOf(heap[arg].nodes) = {}
    BY <2>1, MergeTypes DEF TypeInv, TypeOK, RxOK, UniqueInv, NoDuplicateNode, SetAside
  <2> DEFINE new == heap[arg].nodes \o remain
  <2>3. new \in Seq(Node)
    BY <2>2
  <2>4. UniqueIds(new)
    BY <2>2, ConcatUnique
  <2>5. SetNodes(arg, new)
    BY <2>1
  <2> HIDE DEF new
  <2>6. heap'[arg].nodes = new /\ \A p \in Obj \ {arg} : heap'[p] = heap[p]
    BY <2>2, <2>3, <2>5, SetNodesOK DEF TypeInv
  <2> QED
    BY <2>1, <2>4, <2>6 DEF UniqueInv, NoDuplicateNode, SetAside
<1>7. CASE OpenFile
  <2>1. UniqueIds(<<>>)
    BY DEF UniqueIds
  <2> QED
    BY <1>7, <2>1 DEF OpenFile, memory, UniqueInv, NoDuplicateNode, SetAside
<1>8. CASE WriteFile
  <2>1. arg \in Obj
    BY <1>8 DEF WriteFile, TypeInv, TypeOK, RxOK, Pointers
  <2> QED
    BY <1>8, <2>1 DEF WriteFile, memory, UniqueInv, NoDuplicateNode, SetAside
<1>9. CASE Encode
  <2>1. local_node \in Obj
    BY <1>9 DEF Encode, TypeInv, TypeOK, SharedOK, Pointers
  <2> QED
    BY <1>9, <2>1 DEF Encode, memory, UniqueInv, NoDuplicateNode, SetAside
<1>10. CASE SendReply
  <2>1. UniqueIds(<<>>)
    BY DEF UniqueIds
  <2> QED
    BY <1>10, <2>1 DEF SendReply, memory, UniqueInv, NoDuplicateNode, SetAside
<1> QED
  BY <1>1, <1>2, <1>3, <1>4, <1>5, <1>6, <1>7, <1>8, <1>9, <1>10 DEF RxMove

LEMMA CronUnique ==
    ASSUME TypeInv, UniqueInv, CronMove
    PROVE  UniqueInv'
<1>0. UNCHANGED <<disk, reply, rx, msg, arg, ptr2, remain>>
  BY CronFrame DEF rxLocals
<1>1. CASE GenerateLocalNode
  <2>1. PICK id \in Nat, l \in Seq(IP), wild \in BOOLEAN :
             /\ <<[id |-> id, node_count |-> 1, ip_list |-> l]>> \in Seq(Node)
             /\ NewList(<<[id |-> id, node_count |-> 1, ip_list |-> l]>>, wild)
    BY <1>1, GenerateShape
  <2> DEFINE new == <<[id |-> id, node_count |-> 1, ip_list |-> l]>>
  <2>2. UniqueIds(new)
    BY DEF UniqueIds
  <2> HIDE DEF new
  <2>3. /\ heap'[local_node'] = [nodes |-> new, wild |-> wild]
        /\ \A p \in Obj \ {local_node'} : heap'[p] \in {heap[p], Empty}
        /\ \A p \in {local_node, arg, list} : p # NULL => heap'[p] = heap[p]
    BY <2>1, NewListOK DEF new, TypeInv
  <2>4. UniqueIds(<<>>)
    BY DEF UniqueIds
  <2>5. NoDuplicateNode'
    BY <1>0, <2>2, <2>3, <2>4 DEF UniqueInv, NoDuplicateNode, Empty
  <2>6. rx = "absorb" => heap'[arg] = heap[arg]
    BY <2>3 DEF TypeInv, Pointers
  <2> QED
    BY <1>0, <2>5, <2>6 DEF UniqueInv, SetAside
<1>2. CASE AssignIpList
  <2>1. local_node \in Obj /\ heap[local_node].nodes \in Seq(Node)
        /\ current_ip_list \in Seq(IP) /\ UniqueIds(heap[local_node].nodes)
    BY <1>2 DEF AssignIpList, TypeInv, TypeOK, SharedOK, CronOK, UniqueInv, NoDuplicateNode
  <2> DEFINE L == heap[local_node].nodes
             new == SetIpList(L, current_ip_list)
  <2>2. SetNodes(local_node, new)
    BY <1>2 DEF AssignIpList
  <2> HIDE DEF L
  <2>3. new \in Seq(Node) /\ DOMAIN new = DOMAIN L /\ \A i \in DOMAIN L : new[i].id = L[i].id
    BY <2>1, SetIpListOK DEF L
  <2> HIDE DEF new
  <2>4. UniqueIds(new) /\ IdsOf(new) = IdsOf(L)
    BY <2>1, <2>3 DEF UniqueIds, IdsOf, L
  <2>5. heap'[local_node].nodes = new /\ \A p \in Obj \ {local_node} : heap'[p] = heap[p]
    BY <2>1, <2>2, <2>3, SetNodesOK DEF TypeInv
  <2>6. NoDuplicateNode'
    BY <1>0, <2>4, <2>5 DEF UniqueInv, NoDuplicateNode
  <2>7. rx = "absorb" => IdsOf(heap'[arg].nodes) = IdsOf(heap[arg].nodes)
    <3>1. rx = "absorb" => arg \in Obj
      BY DEF TypeInv, TypeOK, RxOK, Pointers
    <3> QED
      BY <2>4, <2>5, <3>1 DEF L
  <2> QED
    BY <1>0, <2>6, <2>7 DEF UniqueInv, SetAside
<1>3. CASE CompareIpLists \/ StartProbing \/ ProbeReturns \/ ProbeHangs \/ EndProbing
  <2>1. heap' = heap
    BY <1>3 DEF CompareIpLists, StartProbing, ProbeReturns, ProbeHangs, EndProbing, memory
  <2> QED
    BY <1>0, <2>1 DEF UniqueInv, NoDuplicateNode, SetAside
<1> QED
  BY <1>1, <1>2, <1>3 DEF CronMove

LEMMA UniqueStep == TypeInv /\ UniqueInv /\ [Next]_vars => UniqueInv'
<1> SUFFICES ASSUME TypeInv, UniqueInv, [Next]_vars
             PROVE  UniqueInv'
  OBVIOUS
<1>1. CASE Restart \/ UNCHANGED vars
  BY <1>1 DEF Restart, vars, rxLocals, memory, UniqueInv, NoDuplicateNode, SetAside
<1> QED
  BY <1>1, DieUnique, RxUnique, CronUnique, NextCases

\* For any messages, interface addresses and limits: no list the server saves,
\* sends or holds names a node twice.
THEOREM NoDuplicateNodeCorrect == Spec => []NoDuplicateNode
<1>1. UniqueInv => NoDuplicateNode
  BY DEF UniqueInv
<1> QED
  BY <1>1, TypeInvariant, UniqueInit, UniqueStep, PTL DEF Spec

-----------------------------------------------------------------------------
(* Registrations *)

\* Every node of the list is, as a whole, one of the file or of the message.
FromInputs(nodes) ==
    \A i \in DOMAIN nodes : Contains(base, nodes[i]) \/ Contains(msg.nodes, nodes[i])

Merged(nodes) ==
    /\ HoldsAll(nodes, base) /\ HoldsAll(nodes, msg.nodes)
    /\ FromInputs(nodes)

AfterLoad == rx = "merge" /\ local_node # NULL => heap[local_node].nodes = base

InMerge ==
    rx = "absorb" =>
        /\ arg = local_node
        /\ HoldsAll(heap[arg].nodes, base) /\ FromInputs(heap[arg].nodes)
        /\ \A j \in DOMAIN msg.nodes : j < ptr2 =>
              Holds(heap[arg].nodes, msg.nodes[j]) \/ Holds(remain, msg.nodes[j])

AfterMerge ==
    /\ rx = "write" => arg = local_node
    /\ rx \in {"open", "write", "encode"} => Merged(heap[local_node].nodes)
    /\ rx = "encode" /\ saved => disk = heap[local_node].nodes
    /\ rx = "send" /\ saved => Merged(disk) /\ reply = disk

\* The progress of a registration that the cron thread left alone.
Progress == ~raced => AfterLoad /\ InMerge /\ AfterMerge

LEMMA ProgressInit == Init => Progress
BY DEF Init, Progress, AfterLoad, InMerge, AfterMerge

LEMMA DieProgress == Die => Progress'
BY DEF Die, Fresh, Progress, AfterLoad, InMerge, AfterMerge

\* Until the answer is encoded a step of the cron thread that touches a list
\* sets raced; afterwards it cannot reach the file or the answer.
LEMMA CronProgress ==
    ASSUME TypeInv, Progress, CronMove
    PROVE  Progress'
<1>0. UNCHANGED <<disk, rx, msg, arg, ptr2, remain, reply, base, saved>>
  BY CronFrame DEF rxLocals
<1>1. CASE GenerateLocalNode \/ AssignIpList
  <2>1. raced' <=> (raced \/ Handling)
    BY <1>1 DEF GenerateLocalNode, AssignIpList
  <2> QED
    BY <1>0, <2>1 DEF Handling, Progress, AfterLoad, InMerge, AfterMerge, Merged, FromInputs
<1>2. CASE CompareIpLists \/ StartProbing \/ ProbeReturns \/ ProbeHangs \/ EndProbing
  <2>1. UNCHANGED <<heap, local_node, raced>>
    BY <1>2 DEF CompareIpLists, StartProbing, ProbeReturns, ProbeHangs, EndProbing, memory, notes
  <2> QED
    BY <1>0, <2>1 DEF Progress, AfterLoad, InMerge, AfterMerge, Merged, FromInputs
<1> QED
  BY <1>1, <1>2 DEF CronMove

LEMMA HoldsItself ==
    ASSUME NEW nodes \in Seq(Node)
    PROVE  /\ HoldsAll(nodes, nodes)
           /\ \A i \in DOMAIN nodes : Contains(nodes, nodes[i])
<1>1. ASSUME NEW i \in DOMAIN nodes
      PROVE  Holds(nodes, nodes[i])
  <2>1. nodes[i] \in Node
    OBVIOUS
  <2>2. nodes[i].node_count \in Nat
    BY <2>1 DEF Node
  <2>3. nodes[i].node_count >= nodes[i].node_count
    BY <2>2
  <2> QED
    BY <2>3 DEF Holds
<1> QED
  BY <1>1 DEF HoldsAll, Contains

\* One entry of the message is in the list or set aside afterwards, whatever
\* was held is held, and what is copied is copied as a whole.
LEMMA MergeProgress ==
    ASSUME TypeInv, Progress, MergeNode
    PROVE  Progress'
<1> DEFINE L == heap[arg].nodes
           n == msg.nodes[ptr2]
<1>1. /\ rx = "absorb" /\ ptr2 <= Len(msg.nodes) /\ SetNodes(arg, Absorb(L, n))
      /\ remain' = IF IsNew(L, n) THEN Append(remain, n) ELSE remain
      /\ ptr2' = ptr2 + 1 /\ UNCHANGED <<rx, msg, arg, local_node, base, raced>>
  BY DEF MergeNode, notes
<1>2. /\ arg \in Obj /\ L \in Seq(Node) /\ n \in Node
      /\ remain \in Seq(Node) /\ ptr2 \in Nat \ {0} /\ msg.nodes \in Seq(Node)
      /\ base \in Seq(Node)
  BY <1>1, MergeTypes, MessageType DEF TypeInv, TypeOK, RxOK
<1>3. SUFFICES ASSUME ~raced
               PROVE  InMerge'
  BY <1>1 DEF Progress, AfterLoad, AfterMerge
<1>4. /\ arg = local_node /\ HoldsAll(L, base) /\ FromInputs(L)
      /\ \A j \in DOMAIN msg.nodes : j < ptr2 =>
            Holds(L, msg.nodes[j]) \/ Holds(remain, msg.nodes[j])
  BY <1>1, <1>3 DEF Progress, InMerge
<1>5. ptr2 \in DOMAIN msg.nodes
  BY <1>1, <1>2
<1> DEFINE new == Absorb(L, n)
<1>6. remain' \in Seq(Node) /\ \A m \in Node : Holds(remain, m) => Holds(remain', m)
  <2>1. CASE IsNew(L, n)
    <3>1. remain' = Append(remain, n)
      BY <1>1, <2>1
    <3>2. \A m \in Node : Holds(remain, m) => Holds(Append(remain, n), m)
      BY <1>2, AppendHolds
    <3> QED
      BY <1>2, <3>1, <3>2
  <2>2. CASE ~IsNew(L, n)
    BY <1>1, <1>2, <2>2
  <2> QED
    BY <2>1, <2>2
<1>7. /\ new \in Seq(Node) /\ DOMAIN new = DOMAIN L
      /\ \A m \in Node : Holds(L, m) => Holds(new, m)
      /\ ~IsNew(L, n) => Holds(new, n)
  BY <1>2, AbsorbShape, AbsorbHolds
<1>8. heap'[arg].nodes = new
  BY <1>1, <1>2, <1>7, SetNodesOK DEF TypeInv
<1>9. IsNew(L, n) => Holds(remain', n)
  <2>1. Holds(Append(remain, n), n)
    BY <1>2, AppendHolds
  <2> QED
    BY <1>1, <2>1
<1>10. \A i \in DOMAIN L : new[i] = L[i] \/ new[i] = n
  <2>1. DOMAIN L = 1 .. Len(L)
    BY <1>2
  <2> QED
    BY <1>2, <2>1, AbsorbAt
<1> HIDE DEF new, L
<1>11. HoldsAll(new, base)
  <2>1. \A i \in DOMAIN base : base[i] \in Node
    BY <1>2
  <2> QED
    BY <1>4, <1>7, <2>1 DEF HoldsAll
<1>12. FromInputs(new)
  <2>1. Contains(msg.nodes, n)
    BY <1>5 DEF Contains
  <2> QED
    BY <1>4, <1>7, <1>10, <2>1 DEF FromInputs
<1>13. ASSUME NEW j \in DOMAIN msg.nodes, j < ptr2 + 1
       PROVE  Holds(new, msg.nodes[j]) \/ Holds(remain', msg.nodes[j])
  <2>1. j \in Nat /\ msg.nodes[j] \in Node
    BY <1>2
  <2>2. CASE j < ptr2
    BY <1>4, <1>6, <1>7, <2>1, <2>2
  <2>3. CASE j = ptr2
    BY <1>7, <1>9, <2>3
  <2> QED
    BY <1>2, <1>13, <2>1, <2>2, <2>3
<1> QED
  BY <1>1, <1>4, <1>8, <1>11, <1>12, <1>13 DEF InMerge, FromInputs

\* The nodes set aside are linked: nothing of the message is missing any more.
LEMMA LinkProgress ==
    ASSUME TypeInv, UniqueInv, Progress, LinkRemain
    PROVE  Progress'
<1> DEFINE L == heap[arg].nodes
           new == L \o remain
<1>1. /\ rx = "absorb" /\ ptr2 > Len(msg.nodes) /\ SetNodes(arg, new)
      /\ rx' = "open" /\ UNCHANGED <<msg, local_node, base, raced>>
  BY DEF LinkRemain, notes
<1>2. /\ arg \in Obj /\ L \in Seq(Node) /\ remain \in Seq(Node) /\ ptr2 \in Nat \ {0}
      /\ msg.nodes \in Seq(Node) /\ base \in Seq(Node) /\ new \in Seq(Node)
  BY <1>1, MergeTypes DEF TypeInv, TypeOK, RxOK
<1>3. SUFFICES ASSUME ~raced
               PROVE  AfterMerge'
  BY <1>1 DEF Progress, AfterLoad, InMerge
<1>4. /\ arg = local_node /\ HoldsAll(L, base) /\ FromInputs(L)
      /\ \A j \in DOMAIN msg.nodes : j < ptr2 =>
            Holds(L, msg.nodes[j]) \/ Holds(remain, msg.nodes[j])
  BY <1>1, <1>3 DEF Progress, InMerge
<1>5. heap'[arg].nodes = new
  BY <1>1, <1>2, SetNodesOK DEF TypeInv
<1>6. \A m \in Node : Holds(L, m) \/ Holds(remain, m) => Holds(new, m)
  BY <1>2, ConcatHolds
<1>7. \A i \in DOMAIN new :
        (\E k \in DOMAIN L : new[i] = L[k]) \/ (\E k \in DOMAIN remain : new[i] = remain[k])
  <2> SUFFICES ASSUME NEW i \in DOMAIN new
               PROVE  (\E k \in DOMAIN L : new[i] = L[k])
                      \/ (\E k \in DOMAIN remain : new[i] = remain[k])
    OBVIOUS
  <2>1. CASE i <= Len(L)
    BY <1>2, <2>1
  <2>2. CASE i > Len(L)
    <3>1. i - Len(L) \in DOMAIN remain /\ new[i] = remain[i - Len(L)]
      BY <1>2, <2>2
    <3> QED
      BY <3>1
  <2> QED
    BY <1>2, <2>1, <2>2
<1> HIDE DEF new, L
<1>8. HoldsAll(new, base)
  <2>1. \A i \in DOMAIN base : base[i] \in Node
    BY <1>2
  <2> QED
    BY <1>4, <1>6, <2>1 DEF HoldsAll
<1>9. HoldsAll(new, msg.nodes)
  <2>1. \A j \in DOMAIN msg.nodes : msg.nodes[j] \in Node /\ j < ptr2
    BY <1>1, <1>2
  <2> QED
    BY <1>4, <1>6, <2>1 DEF HoldsAll
<1>10. FromInputs(new)
  <2>1. \A k \in DOMAIN remain : Contains(msg.nodes, remain[k])
    BY <1>1 DEF UniqueInv, SetAside, Contains
  <2> QED
    BY <1>4, <1>7, <2>1 DEF FromInputs
<1> QED
  BY <1>1, <1>4, <1>5, <1>8, <1>9, <1>10 DEF AfterMerge, Merged, FromInputs

LEMMA RxProgress ==
    ASSUME TypeInv, UniqueInv, Progress, RxMove
    PROVE  Progress'
<1>1. CASE Accept \/ AcceptFails \/ RecvFails \/ ReplyUpdate \/ SendReply
  <2>1. rx' \in {"accept", "recv", "stopped"}
    BY <1>1 DEF Accept, AcceptFails, RecvFails, ReplyUpdate, SendReply
  <2> QED
    BY <2>1 DEF Progress, AfterLoad, InMerge, AfterMerge
<1>2. CASE Receive
  <2>1. \A t : Handler(t) \in {"load", "update", "accept"}
    BY DEF Handler
  <2>2. rx' \in {"load", "update", "accept"}
    BY <1>2, <2>1 DEF Receive
  <2> QED
    BY <2>2 DEF Progress, AfterLoad, InMerge, AfterMerge
<1>3. CASE Load
  <2>1. rx' = "merge" /\ base' = disk
    BY <1>3 DEF Load
  <2>2. local_node' # NULL => heap'[local_node'].nodes = disk
    <3>1. CASE disk = <<>>
      BY <1>3, <3>1 DEF Load
    <3>2. CASE disk # <<>>
      <4>1. NewList(disk, FALSE) /\ disk \in Seq(Node)
        BY <1>3, <3>2 DEF Load, TypeInv, TypeOK, SharedOK
      <4>2. heap'[local_node'] = [nodes |-> disk, wild |-> FALSE]
        BY <4>1, NewListOK DEF TypeInv
      <4> QED
        BY <4>2
    <3> QED
      BY <3>1, <3>2
  <2> QED
    BY <2>1, <2>2 DEF Progress, AfterLoad, InMerge, AfterMerge
<1>4. CASE StartMerge
  <2>1. /\ rx = "merge" /\ local_node # NULL /\ arg' = local_node /\ ptr2' = 1
        /\ rx' = "absorb" /\ UNCHANGED <<heap, local_node, msg, base, raced>>
    BY <1>4 DEF StartMerge, memory, notes
  <2>2. base \in Seq(Node) /\ msg.nodes \in Seq(Node)
    BY MessageType DEF TypeInv, TypeOK, RxOK
  <2>3. ~raced => heap[local_node].nodes = base
    BY <2>1 DEF Progress, AfterLoad
  <2>4. HoldsAll(base, base) /\ FromInputs(base)
    BY <2>2, HoldsItself DEF FromInputs
  <2>5. \A j \in DOMAIN msg.nodes : ~(j < 1)
    BY <2>2
  <2>6. ~raced => InMerge'
    BY <2>1, <2>3, <2>4, <2>5 DEF InMerge, FromInputs
  <2> QED
    BY <2>1, <2>6 DEF Progress, AfterLoad, AfterMerge
<1>5. CASE MergeNode
  BY <1>5, MergeProgress
<1>6. CASE LinkRemain
  BY <1>6, LinkProgress
<1>7. CASE OpenFile
  <2>1. /\ rx = "open" /\ UNCHANGED <<heap, local_node, msg, base, raced>>
        /\ \/ rx' = "write" /\ arg' = local_node
           \/ rx' = "encode" /\ saved' = FALSE
    BY <1>7 DEF OpenFile, memory, notes
  <2> QED
    BY <2>1 DEF Progress, AfterLoad, InMerge, AfterMerge, Merged, FromInputs
<1>8. CASE WriteFile
  <2>1. /\ rx = "write" /\ rx' = "encode" /\ disk' = heap[arg].nodes
        /\ UNCHANGED <<heap, local_node, msg, base, raced>>
    BY <1>8 DEF WriteFile, memory, notes
  <2> QED
    BY <2>1 DEF Progress, AfterLoad, InMerge, AfterMerge, Merged, FromInputs
<1>9. CASE Encode
  <2>1. /\ rx = "encode" /\ rx' = "send" /\ reply' = heap[local_node].nodes
        /\ UNCHANGED <<disk, msg, base, raced, saved>>
    BY <1>9 DEF Encode, notes
  <2> QED
    BY <2>1 DEF Progress, AfterLoad, InMerge, AfterMerge, Merged, FromInputs
<1> QED
  BY <1>1, <1>2, <1>3, <1>4, <1>5, <1>6, <1>7, <1>8, <1>9 DEF RxMove

LEMMA ProgressStep == TypeInv /\ UniqueInv /\ Progress /\ [Next]_vars => Progress'
<1> SUFFICES ASSUME TypeInv, UniqueInv, Progress, [Next]_vars
             PROVE  Progress'
  OBVIOUS
<1>1. CASE Restart \/ UNCHANGED vars
  BY <1>1 DEF Restart, vars, rxLocals, memory, notes, Progress, AfterLoad, InMerge,
     AfterMerge, Merged, FromInputs
<1> QED
  BY <1>1, DieProgress, RxProgress, CronProgress, NextCases

LEMMA ProgressInvariant == Spec => []Progress
BY TypeInvariant, UniqueInit, UniqueStep, ProgressInit, ProgressStep, PTL DEF Spec

\* For any messages and any file: a registration the cron thread left alone is
\* answered with a list that was saved and that holds every node of both.
THEOREM RegistrationKeepsEveryoneCorrect == Spec => []RegistrationKeepsEveryone
<1>1. Progress => RegistrationKeepsEveryone
  BY DEF Progress, AfterMerge, Merged, RegistrationKeepsEveryone
<1> QED
  BY <1>1, ProgressInvariant, PTL

\* Nothing in that list is made up of parts of two versions of a node.
THEOREM RegistrationInventsNothingCorrect == Spec => []RegistrationInventsNothing
<1>1. Progress => RegistrationInventsNothing
  BY DEF Progress, AfterMerge, Merged, FromInputs, RegistrationInventsNothing
<1> QED
  BY <1>1, ProgressInvariant, PTL

\* And the peer is told exactly that list.
THEOREM ReplyIsWhatWasSavedCorrect == Spec => []ReplyIsWhatWasSaved
<1>1. Progress => ReplyIsWhatWasSaved
  BY DEF Progress, AfterMerge, ReplyIsWhatWasSaved
<1> QED
  BY <1>1, ProgressInvariant, PTL

-----------------------------------------------------------------------------
(* The file *)

\* Nobody but the receiving thread writes the file: what it loaded is there until
\* it opens the file again.
BaseIsFile == rx \in {"merge", "absorb", "open"} => base = disk

LEMMA BaseInit == Init => BaseIsFile
BY DEF Init, BaseIsFile

LEMMA BaseStep == TypeInv /\ BaseIsFile /\ [Next]_vars => BaseIsFile'
<1> SUFFICES ASSUME TypeInv, BaseIsFile, [Next]_vars
             PROVE  BaseIsFile'
  OBVIOUS
<1>1. CASE Die
  BY <1>1 DEF Die, Fresh, BaseIsFile
<1>2. CASE Restart \/ UNCHANGED vars
  BY <1>2 DEF Restart, vars, rxLocals, BaseIsFile
<1>3. CASE CronMove
  BY <1>3, CronFrame DEF rxLocals, BaseIsFile
<1>4. CASE RxMove
  <2>1. CASE Receive
    <3>1. \A t : Handler(t) \in {"load", "update", "accept"}
      BY DEF Handler
    <3> QED
      BY <2>1, <3>1 DEF Receive, BaseIsFile
  <2>2. CASE Load \/ StartMerge \/ MergeNode \/ LinkRemain
    BY <2>2 DEF Load, StartMerge, MergeNode, LinkRemain, BaseIsFile
  <2>3. CASE Accept \/ AcceptFails \/ RecvFails \/ ReplyUpdate \/ OpenFile \/ WriteFile
             \/ Encode \/ SendReply
    <3>1. rx' \notin {"merge", "absorb", "open"}
      BY <2>3 DEF Accept, AcceptFails, RecvFails, ReplyUpdate, OpenFile, WriteFile,
         Encode, SendReply
    <3> QED
      BY <3>1 DEF BaseIsFile
  <2> QED
    BY <1>4, <2>1, <2>2, <2>3 DEF RxMove
<1> QED
  BY <1>1, <1>2, <1>3, <1>4, NextCases

LEMMA OnFileType == TypeInv => OnFile \in Seq(Node)
BY DEF TypeInv, TypeOK, SharedOK, RxOK, Pointers, OnFile

\* While the file is written the receiving thread changes no list, and the cron
\* thread only the addresses of the first node, which it is marked for.
LEMMA FileStays ==
    ASSUME TypeInv, [Next]_vars, ~OpenFile, ~raced', ~(rx = "write" /\ ~up')
    PROVE  OnFile' = OnFile
<1>1. CASE Die
  <2>1. rx # "write" /\ rx' = "accept" /\ disk' = disk
    BY <1>1 DEF Die, Fresh, Leftover
  <2> QED
    BY <2>1 DEF OnFile
<1>2. CASE Restart \/ UNCHANGED vars
  BY <1>2 DEF Restart, vars, rxLocals, memory, OnFile
<1>3. CASE CronMove
  <2>1. UNCHANGED <<disk, rx, arg>>
    BY <1>3, CronFrame DEF rxLocals
  <2>2. rx = "write" => heap'[arg] = heap[arg]
    <3> SUFFICES ASSUME rx = "write"
                 PROVE  heap'[arg] = heap[arg]
      OBVIOUS
    <3>1. ~GenerateLocalNode /\ ~AssignIpList
      BY DEF GenerateLocalNode, AssignIpList, Handling
    <3> QED
      BY <1>3, <3>1 DEF CronMove, CompareIpLists, StartProbing, ProbeReturns, ProbeHangs,
         EndProbing, memory
  <2> QED
    BY <2>1, <2>2 DEF OnFile
<1>4. CASE RxMove
  <2>1. CASE WriteFile
    BY <2>1 DEF WriteFile, OnFile
  <2>2. CASE Receive
    <3>1. \A t : Handler(t) \in {"load", "update", "accept"}
      BY DEF Handler
    <3> QED
      BY <2>2, <3>1 DEF Receive, OnFile
  <2>3. CASE ~WriteFile /\ ~Receive
    <3>1. rx # "write" /\ rx' # "write" /\ disk' = disk
      BY <1>4, <2>3 DEF RxMove, Accept, AcceptFails, RecvFails, ReplyUpdate, Load,
         StartMerge, MergeNode, LinkRemain, Encode, SendReply
    <3> QED
      BY <3>1 DEF OnFile
  <2> QED
    BY <2>1, <2>2, <2>3
<1> QED
  BY <1>1, <1>2, <1>3, <1>4, NextCases

\* The list that is written holds what was loaded, which is what the file holds.
LEMMA OpenKeeps ==
    ASSUME TypeInv, Progress, BaseIsFile, OpenFile, ~raced
    PROVE  HoldsAll(OnFile', OnFile)
<1>1. rx = "open" /\ OnFile = disk /\ base = disk
  BY DEF OpenFile, OnFile, BaseIsFile
<1>2. CASE rx' = "write"
  <2>1. OnFile' = heap[local_node].nodes
    BY <1>1, <1>2 DEF OpenFile, OnFile, memory
  <2>2. HoldsAll(heap[local_node].nodes, base)
    BY <1>1 DEF Progress, AfterMerge, Merged
  <2> QED
    BY <1>1, <2>1, <2>2
<1>3. CASE rx' # "write"
  <2>1. OnFile' = disk
    BY <1>1, <1>3 DEF OpenFile, OnFile
  <2> QED
    BY <1>1, <2>1, OnFileType, HoldsItself
<1> QED
  BY <1>2, <1>3

\* For any messages, any limit and any number of deaths: who is in the file stays
\* in it, but for a death while it is written and a cron thread that interferes.
THEOREM FileKeepsEveryoneCorrect == Spec => FileKeepsEveryone
<1>1. ASSUME TypeInv, Progress, BaseIsFile, [Next]_vars
      PROVE  HoldsAll(OnFile', OnFile) \/ raced' \/ (rx = "write" /\ ~up')
  <2> SUFFICES ASSUME ~raced', ~(rx = "write" /\ ~up')
               PROVE  HoldsAll(OnFile', OnFile)
    OBVIOUS
  <2>1. CASE OpenFile
    <3>1. ~raced
      BY <2>1 DEF OpenFile, notes
    <3> QED
      BY <1>1, <2>1, <3>1, OpenKeeps
  <2>2. CASE ~OpenFile
    BY <1>1, <2>2, FileStays, OnFileType, HoldsItself
  <2> QED
    BY <2>1, <2>2
<1> QED
  BY <1>1, TypeInvariant, ProgressInvariant, BaseInit, BaseStep, PTL
     DEF Spec, FileKeepsEveryone
=============================================================================
