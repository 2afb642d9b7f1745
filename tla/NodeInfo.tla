------------------------------ MODULE NodeInfo ------------------------------
(***************************************************************************)
(* The cluster list of NodeInfo/node_info.c as data.  A struct Node is a   *)
(* record, the linked list that starts at a node is a sequence of records, *)
(* and an ip_list is a sequence of struct IP records.  The field reliable  *)
(* is left out (it is copied wherever node_count is and only ever holds    *)
(* RELIABLE), and so is s_count, which nothing the server runs compares.   *)
(***************************************************************************)
EXTENDS Integers, Sequences

CONSTANT Addr            \* the address strings of struct IP

Blank == ""              \* a string of zeroed memory

IP == [ip : Addr \cup {Blank},
       type : {"unknownIP", "clientIP", "serverIP", Blank}, validity : {0, 1}]

Node == [id : Nat, node_count : Nat, ip_list : Seq(IP)]

IdsOf(nodes) == {nodes[i].id : i \in DOMAIN nodes}

UniqueIds(nodes) ==
    \A i, j \in DOMAIN nodes : nodes[i].id = nodes[j].id => i = j

\* What a merge owes: nodes holds node n, or a later version of it.
Holds(nodes, n) ==
    \E i \in DOMAIN nodes : nodes[i].id = n.id /\ nodes[i].node_count >= n.node_count

HoldsAll(nodes, others) == \A i \in DOMAIN others : Holds(nodes, others[i])

Contains(nodes, n) == \E i \in DOMAIN nodes : nodes[i] = n

-----------------------------------------------------------------------------
\* One turn of node_merge's outer loop, for the entry ptr2 of the second list.

\* Slips of node_merge, for the checks that its properties can fail: the count
\* compared the wrong way round, the addresses not copied, nodes compared whole.
AbsorbOlder(nodes, ptr2) ==
    [i \in DOMAIN nodes |->
        IF nodes[i].id = ptr2.id /\ nodes[i].node_count > ptr2.node_count
        THEN [nodes[i] EXCEPT !.node_count = ptr2.node_count,
                              !.ip_list = ptr2.ip_list]
        ELSE nodes[i]]

AbsorbCountOnly(nodes, ptr2) ==
    [i \in DOMAIN nodes |->
        IF nodes[i].id = ptr2.id /\ nodes[i].node_count < ptr2.node_count
        THEN [nodes[i] EXCEPT !.node_count = ptr2.node_count]
        ELSE nodes[i]]

IsNewByValue(nodes, ptr2) == \A i \in DOMAIN nodes : nodes[i] # ptr2

\* The inner loop: an entry with ptr2's id takes its count and its addresses
\* when ptr2's count is greater.
Absorb(nodes, ptr2) ==
    [i \in DOMAIN nodes |->
        IF nodes[i].id = ptr2.id /\ nodes[i].node_count < ptr2.node_count
        THEN [nodes[i] EXCEPT !.node_count = ptr2.node_count,
                              !.ip_list = ptr2.ip_list]
        ELSE nodes[i]]

\* `flag' after the inner loop: no entry had ptr2's id.
IsNew(nodes, ptr2) == ptr2.id \notin IdsOf(nodes)

\* node_merge as a whole.  Among several newer versions of n the first of the
\* newest is what is left.
Newer(n, others) ==
    {j \in DOMAIN others : others[j].id = n.id /\ others[j].node_count > n.node_count}

Newest(n, others) ==
    LET newer == Newer(n, others)
    IN  IF newer = {} THEN n
        ELSE others[CHOOSE j \in newer :
                        \A k \in newer : \/ others[k].node_count < others[j].node_count
                                         \/ /\ others[k].node_count = others[j].node_count
                                            /\ j <= k]

\* A slip: the new entries are not linked.
MergeKnownOnly(nodes, others) ==
    [i \in DOMAIN nodes |-> Newest(nodes[i], others)]

\* The entries whose id is new, in their order.
Added(nodes, others) ==
    LET added[i \in 0 .. Len(others)] ==
            IF i = 0 THEN <<>>
            ELSE IF IsNew(nodes, others[i]) THEN Append(added[i - 1], others[i])
            ELSE added[i - 1]
    IN  added[Len(others)]

Merge(nodes, others) ==
    [i \in DOMAIN nodes |-> Newest(nodes[i], others)] \o Added(nodes, others)

-----------------------------------------------------------------------------
\* Addresses.

contain_ip(ip_list, ip) == \E i \in DOMAIN ip_list : ip_list[i].ip = ip

ip_list_identical(ip_list1, ip_list2) ==
    /\ Len(ip_list1) = Len(ip_list2)
    /\ \A i \in DOMAIN ip_list1 : contain_ip(ip_list2, ip_list1[i].ip)

\* The list that generate_local_node builds for one interface whose address is
\* ip: is_intranet answers 1 whatever it is asked, so the type is clientIP.
LocalIpList(ip) == <<[ip |-> ip, type |-> "clientIP", validity |-> 1]>>

\* The same when get_local_ip finds no address: the struct IP stays as malloc
\* gave it.
NoLocalIpList == <<[ip |-> Blank, type |-> Blank, validity |-> 0]>>
=============================================================================
