----------------------------- MODULE MCTransfer -----------------------------
(***************************************************************************)
(* Lists of one node and of two, one with two addresses; two connections,  *)
(* so that one finds what the other left, and one death.                   *)
(***************************************************************************)
EXTENDS Transfer

n1 == [id |-> 1, node_count |-> 1, ip_list |-> <<"a">>]
n2 == [id |-> 2, node_count |-> 3, ip_list |-> <<"b", "c">>]

MCAddr == {"a", "b", "c"}
MCLists == {<<n1>>, <<n2, n1>>}
MCMaxBehind == 3
MCMaxConnections == 2
MCMaxDeaths == 1
=============================================================================
