------------------------------- MODULE MCJoin -------------------------------
(***************************************************************************)
(* A and B join S, which runs node_join_server; B, with two interfaces,    *)
(* may run server.c besides.  Or S, to which A has turned, joins T.        *)
(***************************************************************************)
EXTENDS Join

MCClient     == {"A", "B"}
MCServer     == {"S", "B"}
MCOldServer  == {"S"}
MCAddr       == {"a", "b", "c", "s"}
MCIds        == {1, 2}
MCInterfaces == [A |-> <<"a">>, B |-> <<"b", "c">>, S |-> <<"s">>]

MCNobody     == {}

ChainClient  == {"A", "S"}
ChainServer  == {"S", "T"}
ChainInterfaces == [A |-> <<"a">>, S |-> <<"s">>, T |-> <<"b">>]
=============================================================================
