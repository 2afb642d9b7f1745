------------------------------ MODULE MCProbe ------------------------------
(***************************************************************************)
(* A node of three addresses, two of whose pairs fall into one bucket;     *)
(* descriptors for all of them, or not.                                    *)
(***************************************************************************)
EXTENDS Probe

MCaddresses == 3
MCMaxFd     == 4
MCTicks     == 0 .. 2
MCsize      == 2
MChash      == [i \in 1 .. 3 |-> IF i = 2 THEN 1 ELSE 0]
=============================================================================
