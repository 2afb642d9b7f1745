# VPNP2P: models, checks and proofs

VPNP2P is a set of C programs for a peer-to-peer VPN: a server keeps the list
of the nodes of a cluster, nodes join by registering with servers of that list,
an hourly job refreshes a node's addresses and measures the way to the others,
and two test programs punch UDP holes through NATs. This directory holds TLA+
models of these programs, TLC configurations that check them on small
instances, and TLAPS proofs of the main results for every instance.

Paths such as `server.c:158` are under `src/`.

## 1. The system

| Component | Code | State | Operations | Modelled |
|---|---|---|---|---|
| cluster list | `NodeInfo/node_info.c` | linked lists of `struct Node`, each with a list of `struct IP`; `node_info.txt` | `node_merge`, `ip_list_merge`, `file2struct`, `struct2file`, `convert_*`, `generate_local_node` | `NodeInfo`, `ListMerge`, `Transfer`, `Server`, `Join` |
| server process | `server.c` | globals `local_node`, `local_node_id`; sockets | `thread_receive_pack` with `handle_register`, `handle_regular_update`, `handle_width_test`; `thread_cron_job` with `handle_router_refresh` | `Server` |
| cron job | `CronJob/node_cron_job.c` | the new address list; sockets and measurements of its probes | `local_ip_refresh`, `router_refresh` | `Server`, `Probe` |
| messages | `Util/message.c` | a stream of bytes | `send_msg_over_socket`, `recv_msg_over_socket`, the file variants, `read_file_to_buf`, `write_buf_to_file` | `Transfer`, `Server` |
| utilities | `Util/util.c` | none | `get_local_ip`, `is_intranet`, `ip_match`, `generate_id`, `connect_to_server` | `NodeInfo`, `Join`, `Server`, `Probe` |
| punching | `PunchTest/udp_client.c`, `udp_server.c` | `threadflag`, `heartbeat`, `si_other`, the sweep's counter; datagrams on their way | the threads of a client and of the server | `Punch` |
| pair table | `NodeInfo/table.c`, `node_pair.c` | a hash table of measured pairs | `Table_new`, `put`, `get`, `remove`, `length`, `toArray`, `free` | `Table`, `Map`, `Probe` |
| join client | `JoinTest/node_join.c`, `main.c` | `node_info.txt`; the list a program is going to write | `join`, `register_node`, `judge_local_ip` | `Join`, `Transfer` |
| join test server | `JoinTest/node_join_server.c` | `node_info.txt`, `local_node` | its one thread | `Join`, `Transfer` |
| start-up | `InitTest/node_start.c` | `node_info.txt` | `start`, `generate_node_info` | `Join` |
| design documents | `Design/`, `README.md` | | | not code |

How they interact. A peer opens a TCP connection to the server and sends one
message. A `register` brings a list of nodes: the server loads its file into
the global `local_node` (`file2struct`), merges the received list into it,
writes the file again, encodes `local_node` and sends it back. A
`regular_update` is echoed. In the same process, without a lock, the cron thread
generates a new `local_node` from the network interfaces, compares and assigns
its addresses, then walks the list of `local_node` and opens connections to the
nodes it finds there. Both threads take descriptors and neither gives any back.
`start` and `join` are programs a user calls: they write `node_info.txt`, and
`join` sends it to a server, whose answer replaces it. On a host that is a
server too they share that file with it. The punching programs stand alone: a
client's punching, receiving and heartbeat threads share three globals, and meet
the network.

What makes it hard:

* *Interleaving.* `local_node` is one pointer that the receiving thread reads
  four times during a registration and the cron thread replaces or writes
  through at any of these moments.
* *Crashes.* The file is truncated and rewritten in place, and a good part of
  the failures of the cron thread are `exit`.
* *Resources.* Descriptors run out in three different places with three
  different effects (a registration that is not saved, a probe that ends the
  process, a listener that stops).
* *Blocking.* A probe, and a client that joins, wait for an answer without a
  timeout.
* *Streams.* `recv` is called once for each field: what TCP delivers late is
  never read, and the end of a connection is taken for a message.
* *An unreliable network.* Datagrams are lost, doubled, late, or come from
  somebody else, while hosts are started again with other ports.

What makes the components correct, in short: a registration loses nobody,
doubles nobody and invents nobody, and its answer is what was saved; each
message is dealt with whatever the other thread does; descriptors stay within
the limit; hosts that join only learn; a list that is cut on its way is never
read as something else; a measurement is stored where it belongs; a punched link
is kept and is found again after a disturbance.

## 2. The modules

| Module | Contents |
|---|---|
| `NodeInfo` | nodes, addresses, and the operators of the merge and of the refresh as pure definitions |
| `Server` | both threads of the server, its memory, descriptors, file and crashes |
| `MCServer` | values for `Server`: a file of one node, two registrations, the other two kinds of message |
| `Punch` | clients of both types, the echo server, the network, strangers, restarts |
| `MCPunch` | values for `Punch`: two clients that sweep each other, or one that calls a server |
| `Knowledge` | what joining promises about the list each host keeps: an abstract specification |
| `Join` | `start`, `join`, `join -f` and both kinds of server on several hosts; implements `Knowledge` |
| `MCJoin` | values for `Join`: two hosts that join one server, one of them a server itself; a chain of two servers |
| `ListMerge` | `node_merge` and `ip_list_merge` pointer by pointer |
| `Map` | what a table promises: an abstract specification |
| `Table` | the hash table; implements `Map` |
| `MCNodeInfo` | values for `ListMerge` and `Table`: all pairs of lists of up to two entries; four keys, three of them in one bucket |
| `Probe` | one `router_refresh`, with an instance of `Table` |
| `MCProbe` | a node of three addresses |
| `Transfer` | the text of a list, and its way over TCP and into the file |
| `MCTransfer` | lists of one node and of two |
| `NodeInfoProofs` | lemmas on the operators of `NodeInfo`, and on functions defined by recursion over the numbers |
| `ServerProofs` | the safety properties of `Server`: types, what a registration does to the list, what becomes of the file |
| `PunchProofs` | the safety properties of `Punch` |
| `JoinProofs` | the safety properties of `Join`, and that it implements `Knowledge` |
| `ListMergeProofs` | the safety properties of `ListMerge` |
| `TableProofs` | the properties of `Table`, and that it implements `Map` |
| `ProbeProofs` | the properties of `Probe`, on those of `Table` |
| `TransferProofs` | the safety properties of `Transfer` |

### `NodeInfo` and `Server`

A linked list that starts at a heap object is a sequence of records;
`heap[o].nodes` is that sequence, and `heap[o].wild` says that the `next_node`
of its last node was never written (`generate_local_node` does not) and is not
NULL by luck. `local_node` is the object the global points to. A step is what a
thread does between two accesses to something the other thread or a crash can
see; the local pointers that live across such a point (`arg`, `ptr2`, `remain`,
`list`, `ptr`, `current_ip_list`) are variables.

| Code | Action |
|---|---|
| `accept`, and its failure (`server.c:132-139`) | `Accept`, `AcceptFails` |
| `recv_msg_over_socket` and the dispatch (`:142-160`) | `Receive`, `RecvFails` |
| `handle_register`: decode, `file2struct` | `Load` |
| `node_merge`: call, one turn of the outer loop, the final append | `StartMerge`, `MergeNode`, `LinkRemain` |
| `struct2file`: `fopen`, writing to `fclose` | `OpenFile`, `WriteFile` |
| `convert_node_to_buf`, the answer | `Encode`, `SendReply` |
| `handle_regular_update` | `ReplyUpdate` |
| `local_ip_refresh`: `generate_local_node`, compare, assign | `GenerateLocalNode`, `CompareIpLists`, `AssignIpList` |
| `handle_router_refresh`: start, one `router_refresh`, end | `StartProbing`, `ProbeReturns`, `ProbeHangs`, `EndProbing` |
| NULL and wild pointers, `exit`, SIGPIPE | `RxCrash`, `CronCrash` |
| power loss, kill; the operator | `Crash`, `Restart` |

`handle_width_test` has no action: nothing reaches it, because the dispatch
compares with a constant that the wire cannot carry (`Handler`).

Abstractions, and why they lose nothing the properties ask about:

* `reliable` and `s_count` are left out: the first is copied wherever
  `node_count` is and always holds the same value, the second is compared only
  by `node_is_identical`, which the server does not call.
* The host has one interface. With more, `next_ip` points into a dead stack
  frame (`node_info.c:410-413`); `Join` has that.
* The inner loop of `node_merge` is one step with the outer one's turn (and in
  `Join` the whole merge is one step, `Merge`; `ListMerge` shows that the loops
  compute it). The
  cron thread could come between two inner turns, but all it writes in a list
  that is being merged is the address list of the first node, which it writes
  before or after.
* `malloc` never fails, and nothing is freed; the model clears what no thread
  can reach any more.
* A message with more nodes than `convert_buf_to_node`'s array holds writes
  over the frames of its callers. The model has the two outcomes that matter to
  the protocol, the socket number survives or not, and death at any point
  (`Crash`).
* A crash while the file is written leaves a prefix of its nodes: `file2struct`
  drops a node whose end marker is missing.
* A message is received whole or not at all; `Transfer` is about its pieces. A
  file from the operator is well formed.
* A probe is one step (`ProbeReturns`, `ProbeHangs`), with the number of
  descriptors that `Probe` shows it to keep open.
* Descriptors are counted that are never given back. One that a call opens and
  closes is not: the socket of `get_local_ip` (`util.c:15-33`) and the `FILE` of
  `struct2file` between `fopen` and `fclose` (`node_info.c:30-58`). That the
  `fopen` fails at the limit is modelled (`OpenFile`). That `get_local_ip` fails
  there, or that another call fails because the `FILE` is open just then, is not.

`base`, `raced`, `saved` and `unprobed` are history: no action's guard reads
them.

### `Punch`

| Code | Action |
|---|---|
| `main`, `init_program` | `Init`, `Restart` |
| `thread_punching`: `sendto` and the next port, the check | `Punch`, `CheckFlag` |
| `thread_receive_pack`: `recvfrom` and `strcmp`, the two assignments | `Receive`, `SetThreadflag`, `SetHeartbeat` |
| `thread_heartbeat` | `Beat` |
| `udp_server.c`: `thread_receive_pack` | `Serve` |
| the network, strangers | `Lose`, `Take`, `Disturb` |

Users start the clients of one `Party`; the others are "off". `NatPort` has the
ports that each client's NAT may give it. `recvfrom` and `strcmp` are one step
because only the receiving thread reads the
buffer; `threadflag` and `heartbeat` are two, because other threads read them.
A string is a short sequence and `WIRE` stands for the six bytes every `sendto`
sends, so that an expected text longer than the wire can never arrive, as in
the code. The two fields of `si_other` are written at once: a heartbeat that
meets the kernel's copy half way is not modelled. A host keeps one port at its
NAT for every destination. A datagram for a port that nobody holds vanishes when
it is sent. `count_time` only prints and is left out, and so are datagrams
longer than the receive buffer.

### `Join` and `Knowledge`

Each host has one `file`. A host runs one client program at a time (`pc`,
`command`) and, if it is a server, one server thread (`srv`). What a program is
about to write is in `mem`, or in the server's `list`.

| Code | Action |
|---|---|
| `main.c`, the `fopen` of `start` and `join` | `Launch` |
| `generate_node_info`, `generate_local_node` | `Generate` with `StartList`, `JoinLists` |
| `struct2file`, `write_buf_to_file`: `fopen`, then up to `fclose` | `Open`, `Write` |
| `judge_local_ip` and the new count (`join -f`) | `CheckCache` |
| `register_node`: connect, read the file, send | `Register`, `ConnectFails` |
| `register_node`: the answer, or the end of the connection | `TakeAnswer`, `LoseServer` |
| `node_join_server.c`: `main`; accept to merge; `struct2file`; the answer | `Boot`; `Accept`; `ServerOpen`, `ServerWrite`; `Reply` |
| `server.c`'s dispatch | `Dispatches` (its registration itself is `Server`'s) |
| kills, wild pointers, SIGPIPE | `Die`, `Crash`, `Down` |

`join` never gets past its first registration. `local_node` is NULL when the
file existed, and `node_merge` follows it; when the node was generated the next
statement takes the string `server_ip` for a `struct Node` (`node_join.c:173`).
By then `register_node` has written the answer to the file. So the model ends
there, and the loop over further servers, `send_recheck_msg` and the last
`struct2file` have no action. `join -f` passes `"-f"` on as the server's
address: `register_node` exits.

`generate_local_node` with several interfaces chains cells of a variable of its
loop body. While the function runs these are all the same cell; after it they
are whatever is on the stack. `start` writes the file inside that function,
`join` after it, so that the two leave different lists (`StartList`,
`JoinLists`). A next pointer that happens to be neither NULL nor readable is a
death (`Die`).

`LoseServer` is the end of a connection without an answer. `recv` returns 0, and
`register_node` goes on with a message nobody wrote (`node_join.c:58-64`): it
writes to the file whatever the stack held. The model takes that for an empty
list. Stack content that looks like a list is left out.

`Knowledge` says: a host's list changes only to versions of nodes that some host
generated, and without a death it never loses one. `Join` implements it with
`known` the versions in each host's list, where a list that is being written
counts as written. This is a claim about a single writer at a time as well: a
client and a server that shared a host's file in the wrong order would break it.
Versions, not nodes, because two hosts may draw one id.

### `ListMerge`

The heap is a function from cells to contents and next pointers, a step is one
turn of a loop, and the pointers have the names of the code. `WILD` is a pointer
nobody wrote, which kills whoever follows it. One module for both functions,
because they have the same two loops and differ in what they do with an entry
that is new: `node_merge` copies it to cells of its own, `ip_list_merge` links
the caller's cell together with everything behind it, and so walks later into
what it has linked. Nothing calls `ip_list_merge` yet; what it promises is
stated here for whoever will.

### `Table`, `Map` and `Probe`

A bucket is the sequence of its bindings. `NIL` is the table's NULL. A key's
bucket is a constant, `hash`;
the size is any number. `Map` is a partial function; `Table` implements it with
`map[k]` the value `Table_get` would find. `Table_remove`, `Table_length`,
`Table_toArray` and `Table_free` are modelled although the programs only put and
get.

`Probe` is one call of `router_refresh` against one thread of the node it
probes. Its actions are the calls of the loop body: `Socket`, `Connect`, `Send`,
`DelayMeasured` (the first answer, the pair, the first socket closed),
`WidthMeasured` (the second answer, `Table_put`), `Get`; the failing branches,
all of which `exit`, are `SocketFails`, `RecvFails` and the second disjuncts.
The peer answers by its own dispatch (`PeerServes`), or its process ends
(`PeerEnds`) and `recv` returns 0, which the code takes for an answer. The other
thread of the probing process takes descriptors meanwhile (`OtherThread`). The
connection of the width test is "taken" when the peer has received the test and
its dispatch has nothing to do with it: it stays open, and nothing comes back. A
bandwidth is kept as the divisor it is computed with; the floating-point
division, by zero too, is not modelled. A node without addresses would make the
code read a pair that was never written (`node_cron_job.c:137`); there is none,
because both parsers and `generate_local_node` give a node an address, and
`ProbeAssumption` says so.

### `Transfer`

The client and the server's thread are two programs that send and receive; what
lies between them is `wire` and whether the peer's end is open, closed or reset.
Counted are the size, the type and the lines of a message. `RecvBody` takes what
there is, up to the announced size: all, or a prefix of lines and perhaps a part
of the next one (`Cuts`). A part of a line is what a parser makes of it: the
line with a shorter value, an unknown line, or, for `ip_list_ends`, an
`ip_list`. What is missing is filled by what the stack held, which is nothing or
the end of an earlier message (`Endings`, at most `MaxBehind` lines).

`ParseLine` is one turn of the loop of `convert_buf_to_node` and of
`file2struct`, which agree on the lines that are kept (`id`, `node_count`, the
address, its end). `header` is their `ip_header`: NULL before any list
("none"), a cell while a list is read, and NULL once more when a `validity`
comes behind the end of a list ("past"). `FollowsNull` has the lines that then
kill the parser: a `validity` or an `ip_list_ends` writes through `ip_header`,
an `ip` writes through `ip_new`, which is NULL at the start only. `Decode` is
the parsers' result.

Four things are simpler than the code. `file2struct` begins with a header and a
cell it has allocated, `convert_buf_to_node` with NULL: the model takes NULL for
both, which kills a parser in more cases. The array of 50 lines
(`node_info.c:275`) has no bound here; `Server` has the message that is too long
for it (`DstNodes`), and what is said of lists of any length is to be read below
that bound. A server's answer has no NUL behind it (`server.c:84-85`,
`node_join_server.c:114-118`), so that the `strcpy` of `message.c:122` goes on
into what the stack holds: only bytes behind the last line differ, and the model
takes the answer alone. And a peer ends with a FIN or an RST: one that vanishes
without either leaves the other in `recv`, which `RecvReturns` does not cover.

## 3. What is checked

Run any of them with `tlc -config <cfg> <module>`.

| Run | Configuration | Question and answer |
|---|---|---|
| `server` | `MCServer.cfg` | Both threads, descriptors, file and crashes in every order. No list names a node twice, anywhere, ever. A registration that the cron thread leaves alone saves everybody the file and the message named, none in an older version, nobody else, and answers with what it saved. However often the process dies and starts again, the file loses a node, or goes back to an older version of one, only by a death between `fopen` and `fclose` or when the cron thread wrote `local_node` during the registration (`FileKeepsEveryone`). Every message is dealt with (`HandlingEnds`). |
| `punch` | `MCPunch.cfg` | Two clients that sweep each other, or one that calls a server; a datagram doubled, and either a stranger who reaches one client or a client started again at any of its ports, at any moment. At most one datagram is punched after success; the client no stranger reaches only ever sends heartbeats to its peer's host. Both sweeps find their ports, also after a restart (`SweepersConnect`); again and again both send their heartbeats to each other's ports (`LinkHeals`); the caller is answered (`CallersAreAnswered`). |
| `join` | `MCJoin.cfg` | A and B join S, and B is a server besides; up to four programs and one death. No file names a node twice. Until a death, what a client was told its server keeps (`ToldIsKept`), in spite of all later registrations. The files implement `Knowledge`. No client waits for `node_join_server` for ever (`WaitEnds`), and without a death it is answered (`OldServerAnswers`). |
| `node_info` | `MCNodeInfo.cfg` | The two data structures, one after the other. Every pair of lists, ended or not: `node_merge` computes `Merge`, duplicates included. `ip_list_merge` loses no address and invents none; it doubles one only when a known address stands behind a new one in the second list; it reports a conflict exactly when there is one. A merge that a conflict does not end survives exactly when there is a first list and both lists end. Both return, and each step brings them nearer to it (`MergeAdvances`). Every sequence of calls of a table: a key is bound once, and the table is a map (`IsMap`). |
| `probe` | `MCProbe.cfg` | Each address's entry holds what was measured over it; one descriptor an address stays open (what `Server` assumes), whatever the other thread takes and wherever the peer ends. |
| `transfer` | `MCTransfer.cfg` | Lists in pieces, either side killed at any moment. What is parsed is what was sent, or its first nodes, never a half of one; the same is true of the file. A parser dies of a message only if it came short behind an earlier one. The two never wait in `recv` for each other (`NobodyWaitsInVain`), and nobody waits there for good. |

Six runs state what a comment or a document says and end in a counterexample:

| Run | What the document says | What the code does |
|---|---|---|
| `saved_despite_cron` | `server.c:77`: a registration and the local information are merged and saved | the cron thread replaces `local_node` between the merge and `struct2file`, and one generated node overwrites the file |
| `round_reaches_everyone` | `server.c:178`: the round sends to every node that is not the local one | the loop ends at the local node. A refresh has just put that node at the head of the list, so that the round probes nobody, however many nodes the file names |
| `width_test_is_answered` | `Design.md:582`: NodeB answers the width test at once | `recv_msg_over_socket` gives the test a type the dispatch has no case for (`server.c:158`): it is received, not answered, and the connection stays open |
| `punch_lost` | `Design.md:299-303`: after success both sides keep the link with heartbeats | one datagram of a stranger to each side, and both send their heartbeats to the stranger for ever |
| `join_is_answered` | `Design.md:119`: the server answers NodeX | the client sends the type `Register`, `server.c` waits for `register`, and the client waits for good |
| `join_forgets_nothing` | `node_join.c:168`: what is known is merged with the answer | the answer replaces the file; on a host that is a server, what was registered since the file was read is gone |

Some more disagreements are in the models as the code has them, without a run
of their own: a changed address is compared with itself (`CompareIpLists`;
`Design.md:534`); the file is emptied before it is written (`OpenFile`;
`Design.md:893`); a failing `accept` ends the listening thread for good
(`AcceptFails`; `server.c:126`); a client of type 1 is given a port
(`PunchTest.md:13`) and uses it for nothing, the first datagram goes to `PORT`
and the others to 9930 (`Punch`; line 15 of the document has 9930 too, and the
checked server listens there); `node_merge` never returns -1, with which the
comment at `node_info.c:208-209` announces a strong conflict
(`NodeMergeIsMerge` is about what it does return); `ip_list_merge` links a new
address together with the rest of its list, known ones included, where the
comment at `node_info.c:198` has only addresses that do not exist yet
(`AddressesOnce` says which are doubled).

The preconditions of the registration properties are what the code needs:
`~raced` (the cron thread did not write `local_node` since the load; with it,
`saved_despite_cron` is the counterexample) and `saved` (`fopen` found a
descriptor). At the limit of descriptors a registration is answered and not
saved: the model has that step (`OpenFile`), and nothing reports it in the code.

`LinkHeals` holds within narrow conditions, and the checks gave them their
shape. It holds when strangers reach one side only and when nothing but a
restart happens. It fails when strangers reach both (`punch_lost`). It also
fails when a restart and a stranger meet: a datagram sent before the restart
ends the new sweep early, the stranger then diverts the only side that still
knew the other. And it fails when a stranger never stops. So the passing run has
a budget of one event, either a stranger's datagram or a restart.

`Remembers`, `ToldIsKept` and `OldServerAnswers` are about times without a
death: after one, a file may be empty or cut, as `Torn` has it, and only
`NoDuplicateNode` and `WaitEnds` remain. `Remembers` has another condition: no
host that runs `node_join_server` joins another one itself. (In its run the host
that does both runs `server.c`, which does nothing with a `Register`.)
`JoinForgetsNothing` is what happens otherwise. `NothingHalf` and
`ParserSurvives` exclude a short message behind which the stack still held an
earlier one (`how` is "mixed"): then the parsers may return anything or die.

### Bounds

| Constant | Value | Why it is enough |
|---|---|---|
| `Obj` | 4 objects | three can be reachable (`local_node`, `arg`, `list`) and one more is allocated |
| `FirstFile`, `Messages` | node 1; node 3, or node 2 with an older version of node 3 | what is registered is new to the file, newer or older than it, or both at once with one node or two to append; registrations follow each other, so that lists reach three nodes |
| `GenIds` | the id of a node that also registers | `generate_id` is `rand()`: a collision is possible and `NoDuplicateNode` is asked of it |
| `DstNodes` | 1 (50 lines in the code) | one message fits and one does not |
| `MaxFd` | 4 (about 1000) | a registration takes two, so that each of the failing calls can be the one that meets the limit, after one complete registration or none |
| `PORT`, `NatPort` | 2 (65535); one client has port 1, the other either | a sweep that wraps around, with the peer at the last port it comes to, and at any of them, before and after a restart |
| `Party` | the two that sweep each other, or the one that calls a server | they share no state, and the states of the two add up |
| `FixedPort`, `Listen_PORT` | the same (9930) | a server elsewhere is never heard of again |
| `WIRE` | 2 (6) | a greeting longer than the wire and one that fits |
| `MaxTroubles`, `MaxCopies` | 1, 1 (`punch_lost`: 2, 0) | a stranger's datagram or a restart, at every moment; a datagram the network doubles, so that the late copy of one meets the end of a sweep |
| `MaxRuns`, `MaxDeaths` (`Join`) | 4, 1 | two hosts that start and register, or one that does it again after a death; the death is at every step of every process |
| `Ids` | 2 | three hosts draw ids, so that two of them have the same one |
| `Longest` (`ListMerge`; the bound of what is enumerated) | 2 | with two entries in either list a known and an unknown key stand in either order, and one list can repeat a key |
| `Key`, `size` (`Table`) | 4, 2 | chains of three: the first, the middle and the last binding are removed |
| `addresses`, `MaxFd`, `Ticks` (`Probe`) | 3, 4, 0 .. 2 | the limit is met at every socket of the loop; divisors are negative, zero and positive |
| `Addr`, `Lists`, `MaxBehind` (`Transfer`) | three addresses; one node, and two, one with two addresses; 3 | cuts within a node, between addresses and between nodes; what is left over ends with an address's end, its list's and its node's |
| `MaxConnections`, `MaxDeaths` (`Transfer`) | 2, 1 | the second connection finds what the first left on the stack and in the file |

### Fairness

`LiveSpec` assumes weak fairness of the receiving thread's own steps, and
nothing of peers, of the cron thread, of crashes or of who restarts the server.
`Punch`'s `FairSpec` assumes weak fairness of each client thread (they loop and
sleep, and are scheduled) and strong fairness of `Receive` from the host a
client calls and of `Serve`: a host that sends again and again is heard by an
open socket in the end, however much the network loses. It says nothing of
datagrams of strangers, and nothing of the threads that the given instance never
has (a client of type 1 accepts nothing and sends no heartbeats).
`Join`'s `FairSpec` assumes weak fairness of each host's client program and of
each server's thread, which do nothing but run and wait; users owe nothing, nor
does whoever starts servers. `Transfer`'s is the same for its two programs:
`recv` returns when something has arrived or the peer's end is gone. `Probe`'s
assumes it of the peer's receiving thread alone, which is the one that
`Design.md:582` wants an answer of.
`ListMerge` is one thread.

## 4. What is proved

Every invariant and every action property of the passing runs, and both
refinements, for all constants that satisfy the assumptions of the modules:

| Assumption | What it says |
|---|---|
| `ServerAssumption` | `malloc` finds an object; messages and the operator's file name no node twice |
| `PunchAssumption` | who the hosts are, and the ranges of ports |
| `JoinAssumption` | ids are numbers; every host has an interface; a `node_join_server` is a server |
| `ListMergeAssumption` | NULL and an unwritten pointer are no cells; lists have entries, up to `Longest` of them, which is any number |
| `TableAssumption` | there is a bucket, `hash` gives every key one, and NULL is no value. There may be infinitely many keys |
| `ProbeAssumption` | the node has an address; the table's assumption, for pairs and bandwidths |
| `TransferAssumption` | nodes have ids and counts that are not 0 (what a cut number becomes) and at least one address; nothing of how many there are |

`ToldIsKeptCorrect` and `RemembersCorrect` have a hypothesis besides,
`ServersDoNotJoin`: no host that runs `node_join_server` joins another one. It is
the condition under which the two properties are checked (`MCJoin` satisfies it),
and `join_forgets_nothing` is the counterexample without it.
`NobodyWaitsInVainCorrect` has the hypothesis that no empty list is sent: an
answer of no bytes would leave the client in `recv`. The programs satisfy it: an
answer is a list that `node_merge` has returned from, which has a first node
(`SurvivesIffListsEnd`), and a client sends at least a NUL.

| Theorem | Module | Argument |
|---|---|---|
| `TypeCorrect` (`Server`) | `ServerProofs` | `TypeInv` is `TypeOK` with `Pointers`: which pointers are set where each thread is, and that every reachable list begins with a node. Without it `heap[arg]` and `nodes[1]` have no type |
| `NoDuplicateNodeCorrect` | `ServerProofs` | `UniqueInv` adds `SetAside`: the nodes that `node_merge` has put aside so far are new to the list it runs over, unlike each other, and all come from before its position, so that appending them doubles nobody. It stays true when the cron thread writes the list's first addresses, because ids do not change |
| `RegistrationKeepsEveryoneCorrect`, `RegistrationInventsNothingCorrect`, `ReplyIsWhatWasSavedCorrect` | `ServerProofs` | `Progress` follows a registration that is not raced: after the load the list is the file (`AfterLoad`), in the merge it and `remain` hold the file and the message's nodes before the position (`InMerge`), after it both in full (`AfterMerge`). Every step of the cron thread that writes the list sets `raced` |
| `FileKeepsEveryoneCorrect` | `ServerProofs` | `BaseIsFile`: what a registration loaded is still in the file until it opens it again; with `Progress`, what it then writes holds all of that. `OpenKeeps` is the one step that changes the file on purpose, `FileStays` all others |
| `TypeCorrect` (`Punch`) | `PunchProofs` | the sweep: `NextCount` stays below `PORT`, so that `PORT - cnt` is a port and never 0 |
| `FewPunchesCorrect` | `PunchProofs` | `LateInv`: after one late datagram the thread is at its check, or gone, and the flag is set |
| `HeartbeatsStayWithPeerCorrect` | `PunchProofs` | `QuietInv`: all datagrams on their way to a client that nobody else calls come from its peer's host |
| `TypeCorrect`, `NoDuplicateNodeCorrect` (`Join`) | `JoinProofs` | `TypeInv` adds `Programs` and `Servers`, what a program or a server has in hand where it is; `UniqueInv` says of every list, in a file, in memory or on its way, what `NoDuplicateNode` says of the files and of what is about to be written |
| `ToldIsKeptCorrect` | `JoinProofs` | `CalmInv`: a host's file has one writer (`OneWriter`); a request that is open carries what its client still has in its file, and one that was taken is part of the server's list (`Pending`, `OneEach`); an answer holds the client's file, and the server still holds the answer (`Told`); a server's list holds its file until it is written (`Merging`). Each step only lets the content of a host grow (`Grows`) |
| `RemembersCorrect` (`Knowledge`) | `JoinProofs` | `FactsInv`: every version in any list was generated by some host. With it and `CalmInv` a step changes the content of one host at most (`OneHost`), and maps to an action of `Knowledge` or to a stutter |
| `TypeCorrect`, `SurvivesIffListsEndCorrect` (`ListMerge`) | `ListMergeProofs` | `ShapeInv`: the cells the inner loop walks (`Path`) are those of the first list and, once `ip_list_merge` has linked one of the second, all of the second from there on; they are in the order of their numbers and end in `PathEnd`. That is why a loop over a list that grows under it ends, and where it meets a pointer nobody wrote |
| `IpListMergeKeepsCorrect`, `ConflictIsReportedCorrect`, `AddressesOnceCorrect` | `ListMergeProofs` | `DataInv`: what each cell holds after the entries that were dealt with (`Grown`, `Left`), and which of them the loop has met. A cell of the second list behind the first linked one is on the path, meets itself, and is never linked again |
| `MergeAdvancesCorrect` | `ListMergeProofs` | a pair of numbers that falls lexicographically: the entries to come, and the cells ahead of the pointer that walks. It is the part of `MergeEnds` that needs no ENABLED |
| `NodeMergeIsMergeCorrect` | `ListMergeProofs` | the same invariant gives the result cell by cell (`ResultIs`); `Newest` and `Added` are what `Merge` makes of the same lists (`MergeIs`, `LeftIsNewest`, `CopiedIsAdded`) |
| `TypeCorrect`, `BoundOnceCorrect` (`Table`) | `TableProofs` | `Inv` adds to the two `Counted`: the bound keys are finite and `length` is their number. `Table_remove` needs it, for `length - 1` not to be negative, and so does `Table_length`, to be `Map`'s. `Becomes` says what a call does to the one chain it touches (`PutInFront`, `ReplaceValue`, `UnlinkOne`), `OneChain` that no other key sees it |
| `IsMapCorrect` | `TableProofs` | `PutStep`, `RemoveStep` and `LookStep` say what each call does to what `Table_get` would find, which is `Map`'s action; `ArrayIsMap` is the array of all chains |
| `TypeCorrect`, `EachAddressItsOwnCorrect`, `LeaksOnePerAddressCorrect` (`Probe`) | `ProbeProofs` | `ProbeInv`: where the loop is decides which pair it measures (`AtPair`), how many sockets are open (`Open`) and what the table holds (`Measured`). What a call does to the table is `TableProofs`', of which the module has an instance for pairs |
| `TypeCorrect`, `NothingHalfCorrect`, `FileHoldsWholeNodesCorrect`, `ParserSurvivesCorrect` (`Transfer`) | `TransferProofs` | in two halves, below |
| `NobodyWaitsInVainCorrect` | `TransferProofs` | `SentInv`, on top of the second half: when a side has sent all and the other still reads, everything it has not read is on its way (`Comes`), and is not empty. It is the part of `RecvReturns` that needs no fairness |

`Transfer`'s first half is about texts. `Whole(b, l)` says that the lines `b`
are the text of the list `l`, perhaps with blank lines behind, and `Piece(b, l)`
that they are what may be left of it. `Stages` shows by induction over the lines
that a parser in the text of `l` stands at some line of some node with the nodes
before it read (`At`, `Inside`); `ParseWhole` and `ParsePiece` conclude that a
whole text is parsed to `l` and a piece to its first nodes, without a crash. The
one line to worry about is the last: it may be cut (`CutStep`), and a cut
`ip_list_ends` starts the addresses again, which is harmless because the node
is not ended. The second half is about the two programs. `IInv` says where the
stream is between them: what has arrived and what is on its way is a message of
the peer in its order, cut by nothing but the end of the connection
(`Arrives`); how far a side is while its peer still sends (`InStep`); who can be
gone, and who waits for whom (`Ends`, `Waiting`). On that rests what each text is
made of: the message to a side (`Offers`), what it received (`Holds`), and the
file (`FileInv`), pieces all, and whole unless something was cut. It is needed in
this strength: that a received text is a piece of what was sent follows only if
no rest of an earlier message is on the wire and the announced size is that of
this message, which are facts of the other program's position.

Induction: what a recursive function computes is proved with `NodeInfoProofs`'
`NatSet` (a set of numbers with 0 that is closed under successors is all of
them) and `Recursion` (such a function exists and satisfies its equation). The
library's theorem takes a predicate, a set does as well.

Only model-checked: liveness (`HandlingEnds`, `LinkHeals`, `SweepersConnect`,
`CallersAreAnswered`, `WaitEnds`, `OldServerAnswers`, `MergeEnds`,
`RecvReturns`), which is beyond the prover, and the six counterexamples.

## 5. What is not modelled, and the plan

Not modelled by choice: `count_time` and other printing; `node_is_identical` and
`contain_node`, which change nothing and which nothing calls; the part of `join`
behind the point where it dies; the dead code of `Design/`; memory that is never
freed; what an overrun of an array does beyond the words named above; the
floating-point value of a bandwidth; failures of the descriptors a call opens and
closes; what the stack holds where a message was not written. Section 2 has the
rest, module by module.

Every program of the repository has a model, and every safety property that a
run checks has a proof. Left to do:

1. The steps behind the other liveness properties that can be stated without
   ENABLED, as was done for `MergeEnds` and `RecvReturns`: that a registration of
   `Server` has a number that falls (`HandlingEnds`), and that a client of `Join`
   that waits has a request that is open (`WaitEnds`).
2. The inner loop of `Server`'s `MergeNode` as a refinement of `ListMerge`: now
   the README argues that one step may stand for it, and `NodeMergeIsMerge` is
   about a merge that nobody interrupts.
