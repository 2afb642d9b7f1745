------------------------------- MODULE Table -------------------------------
(***************************************************************************)
(* NodeInfo/table.c: a hash table.  A bucket is the chain of its bindings, *)
(* the last one put at the head.  The keys the program uses are pointers   *)
(* to pairs, compared and hashed as pointers.  timestamp, which nobody     *)
(* reads, is left out, and malloc never fails.                             *)
(***************************************************************************)
EXTENDS Integers, Sequences

CONSTANTS
    Key, Value,
    NIL,               \* NULL
    size,              \* number of buckets
    hash               \* bucket of each key

ASSUME TableAssumption ==
    /\ NIL \notin Value
    /\ size \in Nat \ {0}
    /\ hash \in [Key -> 0 .. size - 1]

Binding == [key : Key, value : Value]

VARIABLES
    buckets,
    length,
    result,     \* what the last call returned, or NIL
    array,      \* what it returned if it was Table_toArray, or {}
    freed       \* Table_free was called: nobody may use the table again

tableVars == <<buckets, length, result, array, freed>>

Table_new ==
    /\ buckets = [i \in 0 .. size - 1 |-> <<>>]
    /\ length = 0 /\ result = NIL /\ array = {} /\ freed = FALSE

Chain(k) == buckets[hash[k]]

Bound(k) == {i \in DOMAIN Chain(k) : Chain(k)[i].key = k}

\* Where the loop over the chain stops.
Position(k) == CHOOSE i \in Bound(k) : \A j \in Bound(k) : i <= j

Lookup(k) == IF Bound(k) = {} THEN NIL ELSE Chain(k)[Position(k)].value

Table_get(k) ==
    /\ ~freed
    /\ result' = Lookup(k)
    /\ array' = {} /\ UNCHANGED <<buckets, length, freed>>

\* A slip: the key is not looked for.
PutAlways(k, v) ==
    /\ ~freed
    /\ result' = Lookup(k)
    /\ buckets' = [buckets EXCEPT ![hash[k]] = <<[key |-> k, value |-> v]>> \o @]
    /\ length' = length + 1
    /\ array' = {} /\ UNCHANGED freed

Table_put(k, v) ==
    /\ ~freed
    /\ result' = Lookup(k)
    /\ \/ /\ Bound(k) = {}
          /\ buckets' = [buckets EXCEPT ![hash[k]] = <<[key |-> k, value |-> v]>> \o @]
          /\ length' = length + 1
       \/ /\ Bound(k) # {}
          /\ buckets' = [buckets EXCEPT ![hash[k]][Position(k)].value = v]
          /\ UNCHANGED length
    /\ array' = {} /\ UNCHANGED freed

\* A slip: the chain is cut off at position i.
UnlinkRest(chain, i) == SubSeq(chain, 1, i - 1)

\* The binding at position i is unlinked.
Unlink(chain, i) ==
    [j \in 1 .. Len(chain) - 1 |-> IF j < i THEN chain[j] ELSE chain[j + 1]]

\* A slip: a key that is not there is counted off, too.
RemoveCounted(k) ==
    /\ ~freed
    /\ result' = Lookup(k)
    /\ buckets' = [buckets EXCEPT ![hash[k]] =
                     IF Bound(k) = {} THEN @ ELSE Unlink(@, Position(k))]
    /\ length' = length - 1
    /\ array' = {} /\ UNCHANGED freed

Table_remove(k) ==
    /\ ~freed
    /\ result' = Lookup(k)
    /\ \/ /\ Bound(k) = {}
          /\ UNCHANGED <<buckets, length>>
       \/ /\ Bound(k) # {}
          /\ buckets' = [buckets EXCEPT ![hash[k]] = Unlink(@, Position(k))]
          /\ length' = length - 1
    /\ array' = {} /\ UNCHANGED freed

Table_length ==
    /\ ~freed
    /\ result' = length
    /\ array' = {} /\ UNCHANGED <<buckets, length, freed>>

\* Every binding, bucket after bucket; as a set, for nobody relies on the order.
Bindings ==
    UNION {{<<buckets[i][j].key, buckets[i][j].value>> : j \in DOMAIN buckets[i]} :
               i \in DOMAIN buckets}

Table_toArray ==
    /\ ~freed
    /\ array' = Bindings /\ result' = NIL
    /\ UNCHANGED <<buckets, length, freed>>

\* The bindings are freed; the buckets still point to them.
Table_free ==
    /\ ~freed
    /\ freed' = TRUE
    /\ UNCHANGED <<buckets, length, result, array>>

TableNext ==
    \/ \E k \in Key : Table_get(k) \/ Table_remove(k) \/ \E v \in Value : Table_put(k, v)
    \/ Table_length \/ Table_toArray \/ Table_free

TableSpec == Table_new /\ [][TableNext]_tableVars

-----------------------------------------------------------------------------
(* Properties *)

\* Every variable stays in its type; what a call returns is a value, a length or
\* NIL.
TableTypeOK ==
    /\ buckets \in [0 .. size - 1 -> Seq(Binding)]
    /\ length \in Nat
    /\ result \in Value \cup Nat \cup {NIL}
    /\ array \subseteq Key \X Value
    /\ freed \in BOOLEAN

\* A key is bound at most once, and only in the bucket where it is looked for.
BoundOnce ==
    \A i \in 0 .. size - 1 : \A j \in DOMAIN buckets[i] :
        /\ hash[buckets[i][j].key] = i
        /\ \A n \in DOMAIN buckets[i] : buckets[i][n].key = buckets[i][j].key => n = j

\* The table is a map: every call returns what it would return there, the length
\* is the number of keys that have a value, and the array, which is allocated
\* for that many, holds exactly those.
M == INSTANCE Map WITH map <- [k \in Key |-> Lookup(k)]

IsMap == M!Spec
=============================================================================
