------------------------------ MODULE MCPunch ------------------------------
(***************************************************************************)
(* Users start either A and B, which sweep each other, or C, which keeps   *)
(* calling the server S.                                                   *)
(***************************************************************************)
EXTENDS Punch

MCClient   == {"A", "B", "C"}
MCServer   == {"S"}
MCStranger == {"X"}
MCNoise    == <<"n">>
Pair       == {{"A", "B"}}
PairOrCall == {{"A", "B"}, {"C"}}
MCNobody   == {}
MCBoth     == {"A", "B"}
MCOnlyA    == {"A"}
MCRestart  == {"B", "C"}

MCType == [A |-> 2, B |-> 2, C |-> 1]
MCPeer == [A |-> "B", B |-> "A", C |-> "S"]
\* A's greeting is longer than the wire, the others are not.
MCSend == [A |-> <<"h", "i", "!">>, B |-> <<"y">>, C |-> <<"h">>]
MCRecv == [A |-> <<"y">>, B |-> <<"h", "i">>, C |-> <<>>]
\* A's is the last port that a sweep comes to, and the server listens at the one
\* that clients of type 1 have built in.
MCNatPort == [A |-> {1}, B |-> {1, 2}, C |-> {2}]
MCListen  == [S |-> 1]
MCRespond == [S |-> <<"o", "k">>]
=============================================================================
