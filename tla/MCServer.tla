------------------------------ MODULE MCServer ------------------------------
(***************************************************************************)
(* Server on a small cluster.  Node 1 is in the file from the start; peers *)
(* register node 3, or node 2 with an older version of node 3.  The cron   *)
(* thread generates the id that node 3 has, as generate_id may.            *)
(***************************************************************************)
EXTENDS Server

N(id, count, a) ==
    [id |-> id, node_count |-> count,
     ip_list |-> <<[ip |-> a, type |-> "clientIP", validity |-> 1]>>]

MCAddr      == {"a", "b", "l", "m"}
MCObj       == 1 .. 4
MCNULL      == 0
MCFirstFile == <<N(1, 1, "a")>>
MCLocalIps  == {"l"}
MCGenIds    == {3}

Register(nodes) == [type |-> REGISTER, nodes |-> nodes]

\* One node, which is new or newer than the file's; two, one more than fits dst,
\* of which the file may have the second in a newer version.
MCMessages ==
    {Register(<<N(3, 2, "a")>>), Register(<<N(2, 1, "b"), N(3, 1, "b")>>),
     [type |-> REGULAR_UPDATE, nodes |-> <<>>],
     [type |-> WIDTH_TEST, nodes |-> <<>>]}
=============================================================================
