----------------------------- MODULE MCNodeInfo -----------------------------
(***************************************************************************)
(* The two data structures of NodeInfo: the lists and the table.           *)
(*                                                                         *)
(* All first lists of up to two entries with the keys 1 and 2, and all     *)
(* second lists of up to two entries with the keys 1, 2 and 3.  Four keys  *)
(* of a table in two buckets: three of them collide.                       *)
(***************************************************************************)
EXTENDS ListMerge, Table

CONSTANTS k1, k2, k3, k4, v1, v2

Upto2(S) == {<<>>} \cup {<<e>> : e \in S} \cup (S \X S)

MCEntry       == [key : 1 .. 3, count : {0, 1}, info : {1, 2}]
MCFirstLists  == Upto2({e \in MCEntry : e.key < 3 /\ e.info = 1})
MCSecondLists == Upto2(MCEntry)
MCEnds        == {NULL, WILD}
MCAddr        == {}

MCKey   == {k1, k2, k3, k4}
MCValue == {v1, v2}
MCsize  == 2
MChash  == [k \in MCKey |-> IF k = k4 THEN 1 ELSE 0]

\* Neither structure knows of the other.  A thread that has merged goes on with
\* the table, but only after the shortest of the merges, so that the states of the
\* two add up and are not multiplied.
Shortest == /\ pc = "returned" /\ call = "node_merge"
            /\ list1 = <<[key |-> 1, count |-> 0, info |-> 1]>> /\ list2 = <<>>

NodeInfoInit == Init /\ Table_new

NodeInfoNext ==
    \/ Next /\ UNCHANGED tableVars
    \/ Shortest /\ TableNext /\ UNCHANGED vars

NodeInfoSpec ==
    /\ NodeInfoInit /\ [][NodeInfoNext]_<<vars, tableVars>>
    /\ WF_vars(Next)
=============================================================================
