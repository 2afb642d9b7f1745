----------------------------- MODULE ListMerge -----------------------------
(***************************************************************************)
(* node_merge and ip_list_merge of node_info.c on their cells.             *)
(*                                                                         *)
(* A cell is a struct Node or a struct IP: its key (id or ip), its count   *)
(* (node_count or s_count), the rest (ip_list or type) and its next        *)
(* pointer.  Both functions change the cells of the first list in place;   *)
(* node_merge copies the entries that are new, ip_list_merge links the     *)
(* cells of the second list.  A pointer nobody wrote is WILD: following it *)
(* kills the process.  A step is one turn of a loop.  (ip_list_merge does  *)
(* not copy validity, which is left out.)                                  *)
(***************************************************************************)
EXTENDS NodeInfo

CONSTANTS
    Entry,                       \* contents of a cell: [key, count, info]
    Longest,                     \* a bound on the length of an argument
    FirstLists, SecondLists,     \* the arguments, as sequences of entries
    Ends,                        \* what the last next pointer may be
    NULL, WILD

ASSUME ListMergeAssumption ==
    /\ NULL # WILD /\ {NULL, WILD} \cap Nat = {} /\ Ends \subseteq {NULL, WILD}
    /\ Longest \in Nat
    /\ \A e \in Entry : /\ e = [key |-> e.key, count |-> e.count, info |-> e.info]
                         /\ e.count \in Int
    /\ \A l \in FirstLists \cup SecondLists : l \in Seq(Entry) /\ Len(l) <= Longest

Cell    == 1 .. 3 * Longest + 2
Pointer == Cell \cup {NULL, WILD}

VARIABLES
    call, list1, list2, end1, end2,   \* the call and its arguments
    cell, next,                       \* the heap
    ptr1, ptr2, flag,
    tail,              \* prev of node_merge, ip_list_tail of ip_list_merge
    p,                 \* node_merge's cell for the next new entry
    pc, value          \* where the function is, what it returned

args == <<call, list1, list2, end1, end2>>
vars == <<args, cell, next, ptr1, ptr2, flag, tail, p, pc, value>>

n1 == Len(list1)
n2 == Len(list2)

\* Head of the list that occupies the n cells from first on.
HeadOf(first, n, end) == IF n = 0 THEN end ELSE first

head1  == HeadOf(1, n1, end1)
head2  == HeadOf(n1 + 1, n2, end2)
remain == n1 + n2 + 1

Next1(c) == IF c = n1 THEN end1 ELSE c + 1

\* A slip: the second list is not ended.
Next2Open(c) == c + 1

Next2(c) == IF c = n1 + n2 THEN end2 ELSE c + 1

Unwritten == [key |-> 0, count |-> 0, info |-> 0]

\* Both functions start with the first list: node_merge with its outer loop,
\* ip_list_merge by running to the list's end.
Init ==
    /\ call \in {"node_merge", "ip_list_merge"}
    /\ list1 \in FirstLists /\ list2 \in SecondLists /\ end1 \in Ends /\ end2 \in Ends
    /\ cell = [c \in Cell |-> CASE c <= n1      -> list1[c]
                                [] c \in n1 + 1 .. n1 + n2 -> list2[c - n1]
                                [] OTHER        -> Unwritten]
    /\ next = [c \in Cell |-> CASE c <= n1      -> Next1(c)
                                [] c \in n1 + 1 .. n1 + n2 -> Next2(c)
                                [] c = remain   -> remain + 1
                                [] OTHER        -> WILD]
    /\ ptr1 = head1 /\ ptr2 = head2 /\ flag = 1
    /\ tail = remain /\ p = remain + 1
    /\ pc = IF call = "node_merge" THEN "outer" ELSE "run"
    /\ value = 0

Here(label)  == pc = label
Goto(label)  == pc' = label
Crash        == Goto("crashed") /\ UNCHANGED <<args, cell, next, ptr1, ptr2, flag, tail, p, value>>
InCell(ptr)  == ptr \in Cell

-----------------------------------------------------------------------------
\* for (ptr2 = node2; ptr2 != NULL; ...)
Outer ==
    /\ Here("outer")
    /\ IF ptr2 = NULL
       THEN /\ Goto(IF call = "node_merge" THEN "run" ELSE "returned")
            /\ value' = IF call = "node_merge" THEN 0 ELSE 1
            /\ ptr1' = head1 /\ UNCHANGED flag
       ELSE /\ Goto(IF InCell(ptr2) THEN "inner" ELSE "crashed")
            /\ flag' = 1 /\ ptr1' = head1 /\ UNCHANGED value
    /\ UNCHANGED <<args, cell, next, ptr2, tail, p>>

\* Slips: a run that a WILD pointer ends; the copied cells are not ended.
AtEndOrWild == ~InCell(next[ptr1])
LinkCopiesOpen == [next EXCEPT ![ptr1] = next[remain]]

AtEnd == next[ptr1] = NULL

\* The cells that were copied end with the one before p and follow the last
\* cell of the first list.
LinkCopies ==
    [next EXCEPT ![tail] = NULL, ![ptr1] = IF tail = remain THEN NULL ELSE next[remain]]

\* The loops' run to the last cell of the first list, which must have one.
Run ==
    /\ Here("run") /\ InCell(ptr1)
    /\ \/ /\ ~AtEnd
          /\ ptr1' = next[ptr1] /\ UNCHANGED <<tail, pc, next>>
       \/ /\ AtEnd /\ call = "node_merge"
          /\ next' = LinkCopies
          /\ Goto("returned") /\ UNCHANGED <<ptr1, tail>>
       \/ /\ AtEnd /\ call = "ip_list_merge"
          /\ tail' = ptr1 /\ Goto("outer")
          /\ UNCHANGED <<ptr1, next>>
    /\ UNCHANGED <<args, cell, ptr2, flag, p, value>>

\* Slips: whole entries are compared; the smaller count wins.
SameEntry == cell[ptr1] = cell[ptr2]
Smaller   == cell[ptr2].count < cell[ptr1].count

Same    == cell[ptr1].key = cell[ptr2].key
Greater == cell[ptr2].count > cell[ptr1].count

\* A slip: the counts are not compared.
ConflictOfInfo ==
    call = "ip_list_merge" /\ Same /\ cell[ptr1].info # cell[ptr2].info

\* Strong conflict: one address, one count, two types.
Conflict ==
    /\ call = "ip_list_merge" /\ Same
    /\ cell[ptr1].count = cell[ptr2].count /\ cell[ptr1].info # cell[ptr2].info

\* One cell of the first list.
Inner ==
    /\ Here("inner") /\ InCell(ptr1)
    /\ flag' = IF Same THEN 0 ELSE flag
    /\ cell' = IF Same /\ Greater THEN [cell EXCEPT ![ptr1] = cell[ptr2]] ELSE cell
    /\ IF Conflict
       THEN Goto("returned") /\ value' = -1 /\ UNCHANGED ptr1
       ELSE ptr1' = next[ptr1] /\ UNCHANGED <<pc, value>>
    /\ UNCHANGED <<args, next, ptr2, tail, p>>

\* A slip: the loop only goes on after a new entry.
NextEntryIfNew == IF flag = 0 THEN ptr2 ELSE next'[ptr2]

NextEntry == next'[ptr2]

\* An entry whose key was not found: node_merge copies it to p, ip_list_merge
\* links its cell, and with it all that follow.
Add ==
    /\ Here("inner") /\ ptr1 = NULL
    /\ \/ flag = 0 /\ UNCHANGED <<cell, next, tail, p>>
       \/ /\ flag = 1 /\ call = "node_merge"
          /\ cell' = [cell EXCEPT ![p] = cell[ptr2]]
          /\ next' = [next EXCEPT ![p] = p + 1]
          /\ p' = p + 1 /\ tail' = next[tail]
       \/ /\ flag = 1 /\ call = "ip_list_merge"
          /\ next' = [next EXCEPT ![tail] = ptr2]
          /\ tail' = ptr2 /\ UNCHANGED <<cell, p>>
    /\ ptr2' = NextEntry
    /\ Goto("outer")
    /\ UNCHANGED <<args, ptr1, flag, value>>

\* ptr1 is followed: NULL by the run, WILD by either loop.
FollowsNothing ==
    /\ \/ Here("run") /\ ~InCell(ptr1)
       \/ Here("inner") /\ ptr1 = WILD
    /\ Crash

Next == Outer \/ Run \/ Inner \/ Add \/ FollowsNothing

Spec == Init /\ [][Next]_vars /\ WF_vars(Next)

-----------------------------------------------------------------------------
(* Properties *)

\* Every variable stays in its type; node_merge never needs more cells than it
\* has allocated, one for each entry of the second list and two besides.
TypeOK ==
    /\ cell \in [Cell -> Entry \cup {Unwritten}] /\ next \in [Cell -> Pointer]
    /\ ptr1 \in Pointer /\ ptr2 \in Pointer /\ flag \in {0, 1}
    /\ tail \in Cell /\ p \in Cell
    /\ pc \in {"outer", "run", "inner", "returned", "crashed"}
    /\ value \in {-1, 0, 1}

\* The pointers on the way through the first list; it has ended, or it never does.
Visited[k \in 0 .. 3 * Longest + 2] ==
    IF k = 0 THEN head1
    ELSE IF InCell(Visited[k - 1]) THEN next[Visited[k - 1]] ELSE Visited[k - 1]

EndsInNull == Visited[3 * Longest + 2] = NULL

Result ==
    LET len == CHOOSE k \in 0 .. 3 * Longest + 2 :
                      /\ Visited[k] = NULL
                      /\ \A j \in 0 .. k - 1 : Visited[j] # NULL
    IN  [k \in 1 .. len |-> cell[Visited[k - 1]]]

Nodes(entries) ==
    [i \in DOMAIN entries |-> [id |-> entries[i].key, node_count |-> entries[i].count,
                               ip_list |-> entries[i].info]]

Keys(entries) == {entries[i].key : i \in DOMAIN entries}

Once(entries) == \A i, j \in DOMAIN entries : entries[i].key = entries[j].key => i = j

Merged == pc = "returned" /\ value # -1

\* node_merge's loops compute Merge, the definition the server and the join
\* programs are modelled with, whatever duplicates its arguments have.
NodeMergeIsMerge ==
    Merged /\ call = "node_merge" =>
        EndsInNull /\ Nodes(Result) = Merge(Nodes(list1), Nodes(list2))

\* ip_list_merge's list ends, although cells of the second list are linked into
\* the list that is still being walked.  It holds every address of both lists,
\* none with a smaller count, and no entry that neither list had.
IpListMergeKeeps ==
    Merged /\ call = "ip_list_merge" =>
        /\ EndsInNull
        /\ Nodes(Result) # <<>> /\ HoldsAll(Nodes(Result), Nodes(list1))
        /\ HoldsAll(Nodes(Result), Nodes(list2))
        /\ \A i \in DOMAIN Result : \/ \E j \in DOMAIN list1 : Result[i] = list1[j]
                                    \/ \E j \in DOMAIN list2 : Result[i] = list2[j]

\* It holds an address twice only if a known address stands behind a new one
\* in the second list, with which it was linked.
AddressesOnce ==
    Merged /\ call = "ip_list_merge" /\ Once(list1) /\ Once(list2) =>
        \/ Once(Result)
        \/ \E i, j \in DOMAIN list2 :
            i < j /\ list2[i].key \notin Keys(list1) /\ list2[j].key \in Keys(list1)

\* -1 is returned if and only if there is a strong conflict, also when the
\* address that is in conflict was linked before it is looked at.
ConflictIsReported ==
    pc = "returned" /\ call = "ip_list_merge" /\ Once(list1) /\ Once(list2) =>
        (value = -1 <=> \E i \in DOMAIN list1, j \in DOMAIN list2 :
                            /\ list1[i].key = list2[j].key
                            /\ list1[i].count = list2[j].count
                            /\ list1[i].info # list2[j].info)

\* A merge that is not ended by a conflict survives if and only if there is a
\* first list and both lists end.  (The guards of the server's merge.)
SurvivesIffListsEnd ==
    /\ pc = "returned" /\ value # -1 => list1 # <<>> /\ end1 = NULL /\ end2 = NULL
    /\ pc = "crashed" => list1 = <<>> \/ end1 = WILD \/ end2 = WILD

\* How many cells of the two lists are ahead of a pointer that walks them.
Ahead(ptr) == IF ptr \in 1 .. n1 + n2 THEN n1 + n2 + 1 - ptr ELSE 0

\* How many entries are still to be dealt with, and how many cells to be walked
\* until the next one.
Rounds ==
    CASE pc = "run" /\ call = "ip_list_merge" -> n2 + 2
      [] pc \in {"outer", "inner"}            -> Ahead(ptr2) + 1
      [] OTHER                                -> 0

Walk ==
    CASE pc = "outer"           -> n1 + n2 + 2
      [] pc \in {"run", "inner"} -> Ahead(ptr1) + 1
      [] OTHER                  -> 0

\* Every step brings the function nearer to its end, although the list that the
\* inner loop walks may grow under it.
MergeAdvances == [][Rounds' < Rounds \/ (Rounds' = Rounds /\ Walk' < Walk)]_vars

\* Both functions come to an end.
MergeEnds == <>(pc \in {"returned", "crashed"})
=============================================================================
