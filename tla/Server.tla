------------------------------- MODULE Server -------------------------------
(***************************************************************************)
(* server.c: the process that keeps the cluster list.                      *)
(*                                                                         *)
(* Two threads run without a lock.  thread_receive_pack (rx) serves one    *)
(* connection after another; thread_cron_job (cron) wakes up every hour,   *)
(* refreshes the local address and probes other nodes.  They share the     *)
(* globals local_node and local_node_id, the heap the list lives in and    *)
(* the process's descriptors.  node_info.txt (disk) outlives the process.  *)
(*                                                                         *)
(* A step is what a thread does between two accesses to state the other    *)
(* thread or a crash can see.  heap[o].nodes is the list that starts at    *)
(* object o; heap[o].wild says that the next_node of its last node was     *)
(* never written and does not happen to be NULL, so that a loop that goes  *)
(* past that node leaves the list and kills the process.  (The next_ip of  *)
(* a generated address is as wild; only the compare step follows it.)      *)
(***************************************************************************)
EXTENDS NodeInfo, FiniteSets

CONSTANTS
    Obj,          \* heap objects a list can start at
    NULL,
    LocalIps,     \* addresses the only interface may have
    GenIds,       \* ids generate_id may return
    Messages,     \* messages peers send: [type, nodes]
    FirstFile,    \* node_info.txt as the operator first provides it
    DstNodes,     \* nodes that fit the 50 rows of convert_buf_to_node's dst
    MaxFd         \* descriptors left once the process listens

ASSUME ServerAssumption ==
    /\ NULL \notin Obj
    /\ IsFiniteSet(Obj) /\ Cardinality(Obj) > 3      \* malloc never fails
    /\ LocalIps \subseteq Addr
    /\ GenIds \subseteq Nat
    /\ \A m \in Messages : m.nodes \in Seq(Node) /\ UniqueIds(m.nodes)
    /\ FirstFile \in Seq(Node) /\ UniqueIds(FirstFile)
    /\ DstNodes \in Nat
    /\ MaxFd \in Nat

VARIABLES
    up,               \* the process runs
    disk,             \* the nodes file2struct finds in node_info.txt
    heap, local_node, local_node_id, fds,
    rx,               \* where thread_receive_pack is
    msg, sock,        \* its message; whether its socket number is intact
    arg,              \* the list node_merge or struct2file was given
    ptr2, remain,     \* node_merge's position and the nodes it will append
    reply,            \* reply_msg.buf
    cron,             \* where thread_cron_job is
    current_ip_list,  \* in local_ip_refresh
    list, ptr,        \* in handle_router_refresh: list head and position
    \* History, read by properties only.
    base,             \* disk when rx loaded it
    raced,            \* cron wrote local_node while rx was handling a register
    saved,            \* struct2file could open the file
    unprobed          \* ids of the file, when the round began, not probed in it yet

memory   == <<heap, local_node, local_node_id>>
rxLocals == <<msg, sock, arg, ptr2, remain, reply, base, saved>>
cronVars == <<cron, current_ip_list, list, ptr>>
notes    == <<raced, unprobed>>
vars     == <<up, disk, memory, fds, rx, rxLocals, cronVars, notes>>

REGISTER          == "register"
REGULAR_UPDATE    == "regular_update"
WIDTH_TEST        == "width_test"
WIDTH_TEST_RETURN == "width_test_return"

NoMessage == [type |-> "none", nodes |-> <<>>]
Empty     == [nodes |-> <<>>, wild |-> FALSE]

-----------------------------------------------------------------------------
\* The memory of a process that has just started.
Fresh ==
    /\ heap' = [o \in Obj |-> Empty]
    /\ local_node' = NULL /\ local_node_id' = 0 /\ fds' = 0
    /\ rx' = "accept" /\ msg' = NoMessage /\ sock' = TRUE /\ arg' = NULL
    /\ ptr2' = 1 /\ remain' = <<>> /\ reply' = <<>>
    /\ cron' = "sleep" /\ current_ip_list' = <<>> /\ list' = NULL /\ ptr' = 1
    /\ base' = <<>> /\ saved' = FALSE
    /\ raced' = FALSE /\ unprobed' = {}

Init ==
    /\ up = TRUE /\ disk = FirstFile
    /\ heap = [o \in Obj |-> Empty]
    /\ local_node = NULL /\ local_node_id = 0 /\ fds = 0
    /\ rx = "accept" /\ msg = NoMessage /\ sock = TRUE /\ arg = NULL
    /\ ptr2 = 1 /\ remain = <<>> /\ reply = <<>>
    /\ cron = "sleep" /\ current_ip_list = <<>> /\ list = NULL /\ ptr = 1
    /\ base = <<>> /\ saved = FALSE
    /\ raced = FALSE /\ unprobed = {}

\* A slip: struct2file does not close the file, so that what it wrote is complete
\* only when the answer has been sent.
LeftoverUnclosed ==
    CASE rx = "write"             -> {SubSeq(heap[arg].nodes, 1, n) :
                                         n \in 0 .. Len(heap[arg].nodes)}
      [] rx \in {"encode", "send"} -> {SubSeq(disk, 1, n) : n \in 0 .. Len(disk)}
      [] OTHER                    -> {disk}

\* What a process that dies leaves of a file it is writing: stdio has flushed
\* some of it, and the parser drops a node whose end_node is missing.
Leftover ==
    IF rx = "write"
    THEN {SubSeq(heap[arg].nodes, 1, n) : n \in 0 .. Len(heap[arg].nodes)}
    ELSE {disk}

Die == up /\ up' = FALSE /\ disk' \in Leftover /\ Fresh

Restart ==
    /\ ~up
    /\ up' = TRUE
    /\ UNCHANGED <<disk, memory, fds, rx, rxLocals, cronVars, notes>>

\* malloc returns an object nothing refers to.  (Nothing is ever freed; the
\* model clears what no thread can reach.)
Unused == Obj \ {local_node, arg, list}

NewList(nodes, wild) ==
    LET o == CHOOSE o \in Unused : TRUE
    IN  /\ heap' = [p \in Obj |-> IF p = o THEN [nodes |-> nodes, wild |-> wild]
                                  ELSE IF p \in Unused THEN Empty ELSE heap[p]]
        /\ local_node' = o

\* A list is changed in place.
SetNodes(o, nodes) == heap' = [heap EXCEPT ![o] = [nodes |-> nodes, wild |-> @.wild]]

-----------------------------------------------------------------------------
\* thread_receive_pack.

Accept ==
    /\ up /\ rx = "accept" /\ fds < MaxFd
    /\ rx' = "recv" /\ fds' = fds + 1
    /\ UNCHANGED <<up, disk, memory, rxLocals, cronVars, notes>>

\* The process has no descriptor left: the loop is left and the thread ends.
AcceptFails ==
    /\ up /\ rx = "accept" /\ fds = MaxFd
    /\ rx' = "stopped"
    /\ UNCHANGED <<up, disk, memory, fds, rxLocals, cronVars, notes>>

\* `continue' without closing the socket.
RecvFails ==
    /\ up /\ rx = "recv"
    /\ rx' = "accept"
    /\ UNCHANGED <<up, disk, memory, fds, rxLocals, cronVars, notes>>

\* recv_msg_over_socket turns a width test into its own answer's type.
TypeOf(m) == IF m.type = WIDTH_TEST THEN WIDTH_TEST_RETURN ELSE m.type

\* The third arm compares with a type that does not fit the 20 bytes of the
\* wire, so that every other message ends the turn without an answer.
Handler(type) ==
    CASE type = REGISTER       -> "load"
      [] type = REGULAR_UPDATE -> "update"
      [] OTHER                 -> "accept"

Receive ==
    /\ up /\ rx = "recv"
    /\ \E m \in Messages :
        /\ rx' = Handler(TypeOf(m))
        /\ msg' = IF rx' = "load" THEN m ELSE msg
    /\ UNCHANGED <<up, disk, memory, fds, sock, arg, ptr2, remain, reply, base,
                   saved, cronVars, notes>>

\* handle_regular_update.
ReplyUpdate ==
    /\ up /\ rx = "update"
    /\ rx' = "accept"
    /\ UNCHANGED <<up, disk, memory, fds, rxLocals, cronVars, notes>>

\* A slip: the descriptor limit is not looked at.
LoadUnlimited ==
    /\ up /\ rx = "load"
    /\ sock' = TRUE
    /\ IF disk = <<>>
       THEN local_node' = NULL /\ heap' = heap
       ELSE NewList(disk, FALSE)
    /\ fds' = fds + 1
    /\ rx' = "merge" /\ base' = disk
    /\ raced' = FALSE
    /\ UNCHANGED <<up, disk, local_node_id, msg, arg, ptr2, remain, reply, saved,
                   cronVars, unprobed>>

\* handle_register, its first two lines.  convert_buf_to_node writes behind its
\* dst when the message holds more nodes than fit, over the caller's socket
\* number among others.  file2struct never closes the file.  A file without a
\* node gives a NULL list.
Load ==
    /\ up /\ rx = "load" /\ fds < MaxFd
    /\ sock' \in IF Len(msg.nodes) > DstNodes THEN BOOLEAN ELSE {TRUE}
    /\ IF disk = <<>>
       THEN local_node' = NULL /\ heap' = heap
       ELSE NewList(disk, FALSE)
    /\ fds' = fds + 1
    /\ rx' = "merge" /\ base' = disk
    /\ raced' = FALSE
    /\ UNCHANGED <<up, disk, local_node_id, msg, arg, ptr2, remain, reply, saved,
                   cronVars, unprobed>>

\* node_merge(local_node, recv_node) is called: its loops run over the list
\* that local_node names now, and end only inside a list that ends.
StartMerge ==
    /\ up /\ rx = "merge"
    /\ local_node # NULL /\ ~heap[local_node].wild
    /\ arg' = local_node /\ ptr2' = 1 /\ remain' = <<>>
    /\ rx' = "absorb"
    /\ UNCHANGED <<up, disk, memory, fds, msg, sock, reply, base, saved, cronVars,
                   notes>>

\* A slip: the position only advances when a node is appended.
MergeNodeStuck ==
    /\ up /\ rx = "absorb" /\ ptr2 <= Len(msg.nodes)
    /\ SetNodes(arg, Absorb(heap[arg].nodes, msg.nodes[ptr2]))
    /\ IF IsNew(heap[arg].nodes, msg.nodes[ptr2])
       THEN remain' = Append(remain, msg.nodes[ptr2]) /\ ptr2' = ptr2 + 1
       ELSE UNCHANGED <<remain, ptr2>>
    /\ UNCHANGED <<up, disk, local_node, local_node_id, fds, rx, msg, sock, arg,
                   reply, base, saved, cronVars, notes>>

\* One entry of recv_node.
MergeNode ==
    /\ up /\ rx = "absorb" /\ ptr2 <= Len(msg.nodes)
    /\ SetNodes(arg, Absorb(heap[arg].nodes, msg.nodes[ptr2]))
    /\ remain' = IF IsNew(heap[arg].nodes, msg.nodes[ptr2])
                 THEN Append(remain, msg.nodes[ptr2]) ELSE remain
    /\ ptr2' = ptr2 + 1
    /\ UNCHANGED <<up, disk, local_node, local_node_id, fds, rx, msg, sock, arg,
                   reply, base, saved, cronVars, notes>>

\* The new nodes are linked behind the last node of the list.
LinkRemain ==
    /\ up /\ rx = "absorb" /\ ptr2 > Len(msg.nodes)
    /\ SetNodes(arg, heap[arg].nodes \o remain)
    /\ arg' = NULL /\ ptr2' = 1 /\ remain' = <<>>
    /\ rx' = "open"
    /\ UNCHANGED <<up, disk, local_node, local_node_id, fds, msg, sock, reply, base,
                   saved, cronVars, notes>>

\* struct2file(local_node, FILENAME): fopen empties the file, or finds no
\* descriptor, which handle_register does not notice.
OpenFile ==
    /\ up /\ rx = "open"
    /\ \/ /\ fds < MaxFd
          /\ arg' = local_node /\ disk' = <<>> /\ saved' = TRUE
          /\ rx' = "write"
       \/ /\ fds = MaxFd
          /\ saved' = FALSE /\ rx' = "encode"
          /\ UNCHANGED <<arg, disk>>
    /\ UNCHANGED <<up, memory, fds, msg, sock, ptr2, remain, reply, base, cronVars,
                   notes>>

WriteFile ==
    /\ up /\ rx = "write" /\ ~heap[arg].wild
    /\ disk' = heap[arg].nodes
    /\ arg' = NULL /\ rx' = "encode"
    /\ UNCHANGED <<up, memory, fds, msg, sock, ptr2, remain, reply, base, saved,
                   cronVars, notes>>

\* A slip: what was received is encoded.
EncodeReceived ==
    /\ up /\ rx = "encode" /\ ~heap[local_node].wild
    /\ reply' = msg.nodes
    /\ rx' = "send"
    /\ UNCHANGED <<up, disk, memory, fds, msg, sock, arg, ptr2, remain, base, saved,
                   cronVars, notes>>

\* convert_node_to_buf(local_node, reply_msg.buf).
Encode ==
    /\ up /\ rx = "encode" /\ ~heap[local_node].wild
    /\ reply' = heap[local_node].nodes
    /\ rx' = "send"
    /\ UNCHANGED <<up, disk, memory, fds, msg, sock, arg, ptr2, remain, base, saved,
                   cronVars, notes>>

\* The reply is sent, on the connection unless its number was overwritten.
SendReply ==
    /\ up /\ rx = "send"
    /\ rx' = "accept"
    /\ msg' = NoMessage /\ sock' = TRUE /\ reply' = <<>>
    /\ base' = <<>> /\ saved' = FALSE /\ raced' = FALSE
    /\ UNCHANGED <<up, disk, memory, fds, arg, ptr2, remain, cronVars, unprobed>>

\* What kills the process in this thread: no descriptor for file2struct's
\* fopen (fgets of a NULL stream), dst overrun, a loop over a NULL or a wild
\* list, and SIGPIPE when the peer has reset the connection it is answered on.
RxCrash ==
    /\ \/ rx = "load" /\ (fds = MaxFd \/ Len(msg.nodes) > DstNodes)
       \/ rx = "merge" /\ local_node = NULL
       \/ rx = "merge" /\ local_node # NULL /\ heap[local_node].wild
       \/ rx = "write" /\ heap[arg].wild
       \/ rx = "encode" /\ heap[local_node].wild
       \/ rx = "update"
       \/ rx = "send" /\ sock
    /\ Die

-----------------------------------------------------------------------------
\* thread_cron_job.

\* rx is between loading the list and encoding it.
Handling == rx \in {"merge", "absorb", "open", "write", "encode"}

\* local_ip_refresh: generate_local_node makes a list of one node, the process's
\* only cluster list from here on.  Its next_node is never written.
GenerateLocalNode ==
    /\ up /\ cron = "sleep"
    /\ \E id \in GenIds, wild \in BOOLEAN :
       \E l \in IF fds < MaxFd THEN {LocalIpList(a) : a \in LocalIps}
                ELSE {NoLocalIpList} :
        /\ NewList(<<[id |-> id, node_count |-> 1, ip_list |-> l]>>, wild)
        /\ local_node_id' = id
        /\ current_ip_list' = l
    /\ cron' = "compare"
    /\ raced' = (raced \/ Handling)
    /\ UNCHANGED <<up, disk, fds, rx, rxLocals, list, ptr, unprobed>>

\* The addresses get their type and validity when the list local_node names now
\* does not hold the same ones.
Marked(current, before) ==
    IF ip_list_identical(current, before) THEN current
    ELSE [i \in DOMAIN current |->
            IF contain_ip(before, current[i].ip)
            THEN [current[i] EXCEPT !.validity = 0]
            ELSE [current[i] EXCEPT !.type = "unknownIP", !.validity = 1]]

CompareIpLists ==
    /\ up /\ cron = "compare" /\ local_node # NULL
    /\ current_ip_list' = Marked(current_ip_list, heap[local_node].nodes[1].ip_list)
    /\ cron' = "assign"
    /\ UNCHANGED <<up, disk, memory, fds, rx, rxLocals, list, ptr, notes>>

SetIpList(nodes, l) ==
    [i \in DOMAIN nodes |->
        IF i = 1 THEN [nodes[1] EXCEPT !.ip_list = l] ELSE nodes[i]]

\* local_node->ip_list = current_ip_list, whatever node local_node names now.
AssignIpList ==
    /\ up /\ cron = "assign" /\ local_node # NULL
    /\ SetNodes(local_node, SetIpList(heap[local_node].nodes, current_ip_list))
    /\ cron' = "find" /\ current_ip_list' = <<>>
    /\ raced' = (raced \/ Handling)
    /\ UNCHANGED <<up, disk, local_node, local_node_id, fds, rx, rxLocals, list, ptr,
                   unprobed>>

\* handle_router_refresh: fromNode is looked up (it only labels the results)
\* and the second loop starts at the head of local_node's list.
StartProbing ==
    /\ up /\ cron = "find"
    /\ list' = local_node /\ ptr' = 1
    /\ cron' = "probe"
    /\ unprobed' = {disk[i].id : i \in DOMAIN disk}
    /\ UNCHANGED <<up, disk, memory, fds, rx, rxLocals, current_ip_list, raced>>

\* The second loop's condition.
ProbesNext ==
    /\ list # NULL /\ ptr <= Len(heap[list].nodes)
    /\ heap[list].nodes[ptr].id # local_node_id

\* router_refresh returns: each address of the node cost one descriptor.
ProbeReturns ==
    /\ up /\ cron = "probe" /\ ProbesNext
    /\ fds + Len(heap[list].nodes[ptr].ip_list) <= MaxFd
    /\ fds' = fds + Len(heap[list].nodes[ptr].ip_list)
    /\ ptr' = ptr + 1 /\ unprobed' = unprobed \ {heap[list].nodes[ptr].id}
    /\ UNCHANGED <<up, disk, memory, rx, rxLocals, cron, current_ip_list, list, raced>>

\* The peer never answers, which it will not do to a width test.
ProbeHangs ==
    /\ up /\ cron = "probe" /\ ProbesNext
    /\ \E n \in DOMAIN heap[list].nodes[ptr].ip_list :
        fds + n <= MaxFd /\ fds' = fds + n
    /\ cron' = "blocked"
    /\ UNCHANGED <<up, disk, memory, rx, rxLocals, current_ip_list, list, ptr, notes>>

EndProbing ==
    /\ up /\ cron = "probe" /\ ~ProbesNext
    /\ cron' = "sleep" /\ list' = NULL /\ ptr' = 1 /\ unprobed' = {}
    /\ UNCHANGED <<up, disk, memory, fds, rx, rxLocals, current_ip_list, raced>>

\* What kills the process in this thread: a NULL list, the next_ip nobody wrote,
\* and every failure of a probe, which router_refresh answers with exit.
CronCrash ==
    /\ \/ cron \in {"compare", "assign"} /\ local_node = NULL
       \/ cron = "compare" /\ local_node # NULL /\ heap[local_node].wild
       \/ cron = "probe" /\ ProbesNext
    /\ Die

-----------------------------------------------------------------------------
\* Power loss, kill.
Crash == Die

RxStep ==
    \/ AcceptFails \/ ReplyUpdate \/ Load \/ StartMerge \/ MergeNode \/ LinkRemain
    \/ OpenFile \/ WriteFile \/ Encode \/ SendReply \/ RxCrash

CronStep ==
    \/ GenerateLocalNode \/ CompareIpLists \/ AssignIpList \/ StartProbing
    \/ ProbeReturns \/ ProbeHangs \/ EndProbing \/ CronCrash

Environment == Accept \/ RecvFails \/ Receive \/ Crash \/ Restart

Next == RxStep \/ CronStep \/ Environment

Spec == Init /\ [][Next]_vars

\* The receiving thread is scheduled; peers, the other thread and an operator
\* who restarts a dead server owe nothing.
LiveSpec == Spec /\ WF_vars(RxStep)

-----------------------------------------------------------------------------
(* Properties *)

SharedOK ==
    /\ disk \in Seq(Node)
    /\ heap \in [Obj -> [nodes : Seq(Node), wild : BOOLEAN]]
    /\ local_node \in Obj \cup {NULL}
    /\ local_node_id \in Nat
    /\ fds \in 0 .. MaxFd

RxOK ==
    /\ rx \in {"accept", "recv", "load", "merge", "absorb", "open", "write",
               "encode", "send", "update", "stopped"}
    /\ msg \in Messages \cup {NoMessage}
    /\ arg \in Obj \cup {NULL}
    /\ ptr2 \in Nat \ {0}
    /\ remain \in Seq(Node)
    /\ reply \in Seq(Node)
    /\ base \in Seq(Node)

CronOK ==
    /\ cron \in {"sleep", "compare", "assign", "find", "probe", "blocked"}
    /\ current_ip_list \in Seq(IP)
    /\ list \in Obj \cup {NULL}
    /\ ptr \in Nat \ {0}

FlagsOK ==
    /\ up \in BOOLEAN /\ sock \in BOOLEAN /\ saved \in BOOLEAN
    /\ raced \in BOOLEAN /\ unprobed \subseteq Nat

\* Every variable stays in its type; in particular the descriptors in use, which
\* both threads take and neither gives back, stay within the process's limit.
TypeOK == SharedOK /\ RxOK /\ CronOK /\ FlagsOK

\* No list ever names one node twice: not the file, not a list in memory, not
\* the reply; whatever the cron thread does to local_node in the middle of a
\* merge, and wherever a crash cuts the file.
NoDuplicateNode ==
    /\ UniqueIds(disk) /\ UniqueIds(reply)
    /\ \A o \in Obj : UniqueIds(heap[o].nodes)

\* Before it answers a registration the server has saved a list that holds
\* every node the file held when the registration came and every node the
\* registration brought, none of them in an older version: unless the cron
\* thread replaced local_node meanwhile, or the file could not be opened.
RegistrationKeepsEveryone ==
    rx = "send" /\ saved /\ ~raced =>
        HoldsAll(disk, base) /\ HoldsAll(disk, msg.nodes)

\* Nor does it invent anything: each node it saves is, count and addresses
\* together, one the file or the registration had.
RegistrationInventsNothing ==
    rx = "send" /\ saved /\ ~raced =>
        \A i \in DOMAIN disk : Contains(base, disk[i]) \/ Contains(msg.nodes, disk[i])

\* The peer is told what was saved: the encoder reads local_node again, after
\* the file was written.
ReplyIsWhatWasSaved == rx = "send" /\ saved /\ ~raced => reply = disk

\* What the file holds, or will hold when the write that has begun is done.
OnFile == IF rx = "write" THEN heap[arg].nodes ELSE disk

\* Nobody who is in the file is ever lost from it, or put back to an older
\* version: not by a registration, not by one that finds no descriptor to save
\* with, not by a process that dies of its answer to a peer that is gone, or of
\* anything else.  Only two things can do that: a death between fopen and fclose,
\* and the cron thread, if it writes local_node during a registration.
FileKeepsEveryone ==
    [][HoldsAll(OnFile', OnFile) \/ raced' \/ (rx = "write" /\ ~up')]_vars

\* Every message that was received is dealt with: the thread is back at accept,
\* has stopped, or the process is gone, however the cron thread blocks.
HandlingEnds ==
    rx \in {"load", "merge", "absorb", "open", "write", "encode", "send", "update"}
        ~> rx \in {"accept", "stopped"}

-----------------------------------------------------------------------------
(* What comments say and the code does not do *)

\* server.c:77: the registration and the local information are merged and saved,
\* all of it and nothing else, also when the cron thread refreshes the address
\* meanwhile.
SavedDespiteCron ==
    rx = "send" /\ saved =>
        /\ HoldsAll(disk, base) /\ HoldsAll(disk, msg.nodes)
        /\ \A i \in DOMAIN disk : Contains(base, disk[i]) \/ Contains(msg.nodes, disk[i])

\* server.c:178: a round is sent to all other nodes that are not the local one:
\* when it ends it has reached each other node the file named when it began.
RoundReachesEveryone ==
    cron = "probe" /\ ~ProbesNext => unprobed \subseteq {local_node_id}
=============================================================================
