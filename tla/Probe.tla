------------------------------- MODULE Probe -------------------------------
(***************************************************************************)
(* One call of router_refresh (CronJob/node_cron_job.c) by the cron thread *)
(* of the server, against the receiving thread of the node it probes,      *)
(* which runs the same program: for each address of that node a            *)
(* connection for the delay, one for the bandwidth, and an entry in the    *)
(* table.                                                                  *)
(*                                                                         *)
(* The pairs the table is keyed by are cells of malloc, numbered in the    *)
(* order they are made.  A width is kept as its divisor, in ticks of       *)
(* clock().                                                                *)
(***************************************************************************)
EXTENDS Integers, Sequences

CONSTANTS
    NULL,
    addresses,    \* number of addresses of toNode
    MaxFd,        \* descriptors the process may have open
    Ticks,        \* what clock() may count between two calls
    size, hash    \* of the table

Pair == 1 .. addresses
W == [delay : Nat, divisor : Int]

\* No node has an empty list: generate_local_node and both parsers begin one with
\* an address.
ASSUME ProbeAssumption ==
    /\ addresses \in Nat \ {0}
    /\ MaxFd \in Nat
    /\ Ticks \subseteq Nat
    /\ NULL \notin Pair /\ NULL \notin W
    /\ size \in Nat \ {0}
    /\ hash \in [Pair -> 0 .. size - 1]

VARIABLES
    pc,
    p,              \* the address the loop is at
    test,           \* what its connection is for: REGULAR_UPDATE or WIDTH_TEST
    conn,           \* what became of the connection
    delay,
    pairs,          \* number of pairs made
    pair, tmpPair,
    others,         \* descriptors the rest of the process holds
    fds,            \* descriptors open
    buckets, length, result, array, freed,    \* the table
    took            \* history: what the two tests of each address took, by its pair

tableVars == <<buckets, length, result, array, freed>>
locals == <<p, delay, pairs, pair, tmpPair>>
vars == <<pc, locals, test, conn, others, fds, tableVars, took>>

table == INSTANCE Table WITH Key <- Pair, Value <- W, NIL <- NULL

Init ==
    /\ pc = "socket" /\ p = 1 /\ test = "regular_update" /\ conn = "none"
    /\ delay = 0 /\ pairs = 0 /\ pair = NULL /\ tmpPair = NULL
    /\ others \in 0 .. MaxFd /\ fds = others
    /\ table!Table_new
    /\ took = [i \in Pair |-> <<>>]

Exit == pc' = "exited"

\* A slip: the descriptor limit is not looked at.
SocketUnlimited ==
    /\ pc = "socket"
    /\ fds' = fds + 1
    /\ pc' = "connect"
    /\ UNCHANGED <<locals, test, conn, others, tableVars, took>>

Socket ==
    /\ pc = "socket" /\ fds < MaxFd
    /\ fds' = fds + 1
    /\ pc' = "connect"
    /\ UNCHANGED <<locals, test, conn, others, tableVars, took>>

\* No descriptor: exit.
SocketFails ==
    /\ pc = "socket" /\ fds = MaxFd
    /\ Exit
    /\ UNCHANGED <<locals, test, conn, others, fds, tableVars, took>>

Connect ==
    /\ pc = "connect"
    /\ \/ pc' = "send" /\ conn' = "open"
       \/ Exit /\ conn' = conn
    /\ UNCHANGED <<locals, test, others, fds, tableVars, took>>

\* The regular update has no size: send may be given more than there is, which
\* ends the process as a reset connection does.
Send ==
    /\ pc = "send"
    /\ \/ conn = "open" /\ pc' = "recv" /\ conn' = "asked"
       \/ Exit /\ conn' = conn
       \/ conn = "closed" /\ pc' = "recv" /\ conn' = conn
    /\ UNCHANGED <<locals, test, others, fds, tableVars, took>>

\* recv gives the answer, or 0 when the peer's end is gone: router_refresh takes
\* both for the answer.  In the second case recv_msg reads a length nobody wrote.
Received ==
    \/ conn = "answered"
    \/ conn = "closed"

RecvFails ==
    /\ pc = "recv" /\ conn = "closed"
    /\ Exit
    /\ UNCHANGED <<locals, test, conn, others, fds, tableVars, took>>

\* A slip: the socket of the first test stays open.
DelayMeasuredOpen ==
    /\ pc = "recv" /\ test = "regular_update" /\ Received
    /\ \E duration \in Ticks :
        delay' = duration \div 2 /\ took' = [took EXCEPT ![p] = <<duration>>]
    /\ pairs' = pairs + 1 /\ pair' = pairs' /\ tmpPair' = pair'
    /\ conn' = "none" /\ test' = "width_test" /\ pc' = "socket"
    /\ UNCHANGED <<p, others, fds, tableVars>>

\* create_node_pair, and the first socket is closed.
DelayMeasured ==
    /\ pc = "recv" /\ test = "regular_update" /\ Received
    /\ \E duration \in Ticks :
        delay' = duration \div 2 /\ took' = [took EXCEPT ![p] = <<duration>>]
    /\ pairs' = pairs + 1 /\ pair' = pairs' /\ tmpPair' = pair'
    /\ fds' = fds - 1
    /\ conn' = "none" /\ test' = "width_test" /\ pc' = "socket"
    /\ UNCHANGED <<p, others, tableVars>>

\* A slip: the entry is made under the pair of the first address.
WidthMeasuredFirstPair ==
    /\ pc = "recv" /\ test = "width_test" /\ Received
    /\ \E duration \in Ticks :
        /\ table!Table_put(1, [delay |-> delay, divisor |-> duration - delay * 2])
        /\ took' = [took EXCEPT ![p] = Append(@, duration)]
    /\ p' = p + 1 /\ test' = "regular_update" /\ conn' = "none"
    /\ pc' = IF p = addresses THEN "get" ELSE "socket"
    /\ UNCHANGED <<delay, pairs, pair, tmpPair, others, fds>>

\* create_width_delay and the entry in the table; nobody closes this socket.
WidthMeasured ==
    /\ pc = "recv" /\ test = "width_test" /\ Received
    /\ \E duration \in Ticks :
        /\ table!Table_put(pair, [delay |-> delay, divisor |-> duration - delay * 2])
        /\ took' = [took EXCEPT ![p] = Append(@, duration)]
    /\ p' = p + 1 /\ test' = "regular_update" /\ conn' = "none"
    /\ pc' = IF p = addresses THEN "get" ELSE "socket"
    /\ UNCHANGED <<delay, pairs, pair, tmpPair, others, fds>>

\* The last pair is looked up and what is found is printed; the table is left.
Get ==
    /\ pc = "get"
    /\ table!Table_get(tmpPair)
    /\ pc' = IF result' = NULL THEN "exited" ELSE "done"
    /\ UNCHANGED <<locals, test, conn, others, fds, took>>

\* The peer's recv_msg names a width test width_test_return; its
\* thread_receive_pack has answers for two of the types it sends.
TypeAtPeer(type) == IF type = "width_test" THEN "width_test_return" ELSE type

Dispatches(type) == type \in {"regular_update", "regular_update_return"}

PeerServes ==
    /\ conn = "asked"
    /\ conn' = IF Dispatches(TypeAtPeer(test)) THEN "answered" ELSE "taken"
    /\ UNCHANGED <<pc, locals, test, others, fds, tableVars, took>>

\* The peer's process ends: it closes no socket before.
PeerEnds ==
    /\ conn \in {"open", "asked", "taken", "answered"}
    /\ conn' = "closed"
    /\ UNCHANGED <<pc, locals, test, others, fds, tableVars, took>>

\* The receiving thread takes a descriptor: it gives none back.
OtherThread ==
    /\ fds < MaxFd
    /\ others' = others + 1 /\ fds' = fds + 1
    /\ UNCHANGED <<pc, locals, test, conn, tableVars, took>>

Next ==
    \/ Socket \/ SocketFails \/ Connect \/ Send \/ RecvFails
    \/ DelayMeasured \/ WidthMeasured \/ Get
    \/ PeerServes \/ PeerEnds \/ OtherThread

Spec == Init /\ [][Next]_vars

\* The peer's receiving thread is scheduled.
FairSpec == Spec /\ WF_vars(PeerServes)

-----------------------------------------------------------------------------
(* Properties *)

\* Every variable stays in its type; the descriptors stay within the limit and
\* the loop within the list.
TypeOK ==
    /\ pc \in {"socket", "connect", "send", "recv", "get", "done", "exited"}
    /\ p \in 1 .. addresses + 1
    /\ test \in {"regular_update", "width_test"}
    /\ conn \in {"none", "open", "asked", "taken", "answered", "closed"}
    /\ delay \in Nat
    /\ pairs \in 0 .. addresses
    /\ pair \in Pair \cup {NULL} /\ tmpPair \in Pair \cup {NULL}
    /\ others \in 0 .. fds /\ fds \in 0 .. MaxFd
    /\ table!TableTypeOK
    /\ took \in [Pair -> Seq(Ticks)]

\* What the probe has for an address when it is done with it is what it measured
\* over that address: the delay of its first test, and the time of its second
\* less that delay.  The last one is found when it is looked up.
EachAddressItsOwn ==
    /\ pc = "get" => tmpPair # NULL /\ table!Lookup(tmpPair) # NULL
    /\ length = p - 1
    /\ \A i \in 1 .. p - 1 :
           table!Lookup(i) =
               [delay |-> took[i][1] \div 2,
                divisor |-> took[i][2] - 2 * (took[i][1] \div 2)]

\* A probe leaves open one socket of each address it has done, and none of the
\* first tests: what Server takes a probe to cost (ProbeReturns), and what it
\* holds while it waits for an answer (ProbeHangs).
LeaksOnePerAddress ==
    /\ pc \in {"get", "done"} => fds = others + addresses
    /\ pc = "recv" => fds = others + p

\* A node that receives a bandwidth test answers it, unless its process ends.
\* (Design.md's section on the bandwidth; the code does not: the peer dispatches
\* on the type its recv_msg has given the message.)
WidthTestIsAnswered ==
    (test = "width_test" /\ conn = "asked") ~> conn \in {"answered", "closed"}
=============================================================================
