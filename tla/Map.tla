-------------------------------- MODULE Map --------------------------------
(***************************************************************************)
(* What a table promises its callers: a partial function from keys to      *)
(* values, NIL where there is none, and what each call returns.           *)
(***************************************************************************)
EXTENDS Integers, FiniteSets

CONSTANTS Key, Value, NIL

VARIABLES
    map,       \* the value of each key, or NIL
    result,    \* what the last call returned, or NIL
    array      \* what it returned if it was ToArray, or {}

vars == <<map, result, array>>

Present == {k \in Key : map[k] # NIL}

Init ==
    /\ map = [k \in Key |-> NIL]
    /\ result = NIL /\ array = {}

Get(k) == result' = map[k] /\ array' = {} /\ UNCHANGED map

Put(k, v) ==
    /\ map' = [map EXCEPT ![k] = v]
    /\ result' = map[k] /\ array' = {}

Remove(k) ==
    /\ map' = [map EXCEPT ![k] = NIL]
    /\ result' = map[k] /\ array' = {}

Length == result' = Cardinality(Present) /\ array' = {} /\ UNCHANGED map

ToArray ==
    /\ array' = {<<k, map[k]>> : k \in Present}
    /\ result' = NIL /\ UNCHANGED map

Next ==
    \/ \E k \in Key : Get(k) \/ Remove(k) \/ \E v \in Value : Put(k, v)
    \/ Length \/ ToArray

Spec == Init /\ [][Next]_vars
=============================================================================
