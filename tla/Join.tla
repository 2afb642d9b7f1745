-------------------------------- MODULE Join --------------------------------
(***************************************************************************)
(* Building a cluster with the programs: `main start ip', `main join ip'   *)
(* and `main join -f' (main.c, node_start.c, node_join.c) on the hosts,    *)
(* and on the servers' hosts the process that answers registrations,       *)
(* node_join_server.c (on OldServer) or server.c with its dispatch.        *)
(*                                                                         *)
(* Each host has one node_info.txt, which its programs share.  A host runs *)
(* one client program at a time, a server is one thread.  A process that   *)
(* writes the file first empties it and fills it when it closes it.        *)
(*                                                                         *)
(* join never gets past its first registration: node_merge runs over the   *)
(* local_node nobody has set (or the generated one), and then the string   *)
(* server_ip is used as a struct Node.  By then the answer is in the file. *)
(* So its loop over the other servers, send_recheck_msg and its last       *)
(* struct2file (lines 171-190) never run.                                  *)
(***************************************************************************)
EXTENDS NodeInfo

CONSTANTS
    Client, Server,    \* hosts, by the program they run
    Nothing,           \* no file, no answer, no server
    Ids,               \* what generate_id may return
    Interfaces,        \* addresses of each host, as get_local_ip lists them
    OldServer,         \* servers that run node_join_server
    MaxRuns,           \* programs users start
    MaxDeaths          \* processes that are killed or die of a wild pointer

Host == Client \cup Server

ASSUME JoinAssumption ==
    /\ Nothing \notin Seq(Node)
    /\ Ids \subseteq Nat
    /\ Interfaces \in [Host -> Seq(Addr) \ {<<>>}]
    /\ OldServer \subseteq Server
    /\ MaxRuns \in Nat /\ MaxDeaths \in Nat

VARIABLES
    file,            \* nodes file2struct finds in each host's node_info.txt
    pc, command,     \* where the host's client program is, and which it is
    mem,             \* the list the client program is going to write
    peer, answer,    \* the server it registers with; what arrived from it
    up, srv, list,   \* each server: running, where, its local_node
    requests,        \* connections whose message was sent
    runs, deaths,
    appeared         \* history: versions of nodes that were generated

clientVars == <<pc, command, mem, peer, answer, runs>>
serverVars == <<up, srv, list>>
vars == <<file, clientVars, serverVars, requests, deaths, appeared>>

FactsOf(nodes) == {[id |-> nodes[i].id, node_count |-> nodes[i].node_count] : i \in DOMAIN nodes}

Init ==
    /\ file = [h \in Host |-> Nothing]
    /\ pc = [h \in Host |-> "off"] /\ command = [h \in Host |-> "none"]
    /\ mem = [h \in Host |-> <<>>]
    /\ peer = [h \in Host |-> Nothing] /\ answer = [h \in Host |-> Nothing]
    /\ up = [s \in Server |-> FALSE] /\ srv = [s \in Server |-> "accept"]
    /\ list = [s \in Server |-> <<>>]
    /\ requests = {} /\ runs = 0 /\ deaths = 0 /\ appeared = {}

Goto(h, label) == pc' = [pc EXCEPT ![h] = label]

\* The client program of h is gone.
Exit(h) ==
    /\ Goto(h, "off") /\ command' = [command EXCEPT ![h] = "none"]
    /\ mem' = [mem EXCEPT ![h] = <<>>]

-----------------------------------------------------------------------------
\* The client programs.

\* A slip: the file is not looked for.
LaunchUnlooked(h, c) ==
    /\ pc[h] = "off" /\ runs < MaxRuns /\ runs' = runs + 1
    /\ command' = [command EXCEPT ![h] = c] /\ peer' = [peer EXCEPT ![h] = Nothing]
    /\ Goto(h, IF c = "join" THEN "register" ELSE "make")
    /\ UNCHANGED <<file, mem, answer, serverVars, requests, deaths, appeared>>

\* The file is only looked for.  (Where it exists `start' does nothing, and
\* `join -f' follows a NULL local_node: neither changes anything.)
Launch(h, c) ==
    /\ pc[h] = "off" /\ runs < MaxRuns /\ runs' = runs + 1
    /\ command' = [command EXCEPT ![h] = c] /\ peer' = [peer EXCEPT ![h] = Nothing]
    /\ \/ file[h] = Nothing /\ Goto(h, "make")
       \/ file[h] # Nothing /\ c = "join" /\ Goto(h, "register")
    /\ UNCHANGED <<file, mem, answer, serverVars, requests, deaths, appeared>>

\* What generate_node_info lists.  The cell of every address after the first is
\* one and the same variable of the loop body, which each turn clears: the last
\* address is left.  The server's address, here its own, follows.  Nobody writes
\* a validity; fresh memory is 0.
StartList(h) ==
    LET ips == Interfaces[h]
    IN  [i \in 1 .. (IF Len(ips) > 1 THEN 2 ELSE 1) |->
            [ip |-> IF i = 1 THEN ips[1] ELSE ips[Len(ips)], type |-> "clientIP",
             validity |-> 0]]
        \o <<[ip |-> ips[1], type |-> "serverIP", validity |-> 0]>>

\* generate_local_node returns, and that variable is gone: whatever is on the
\* stack there is taken for the second address.
JoinLists(h) ==
    LET ips == Interfaces[h]
    IN  {LocalIpList(ips[1]) \o rest :
            rest \in IF Len(ips) > 1 THEN {<<>>, NoLocalIpList} ELSE {<<>>}}

\* generate_node_info and generate_local_node.
Generate(h) ==
    /\ pc[h] = "make"
    /\ \E id \in Ids, l \in IF command[h] = "start" THEN {StartList(h)} ELSE JoinLists(h) :
        /\ mem' = [mem EXCEPT ![h] = <<[id |-> id, node_count |-> 1, ip_list |-> l]>>]
        /\ appeared' = appeared \cup {[id |-> id, node_count |-> 1]}
    /\ Goto(h, "open")
    /\ UNCHANGED <<file, command, peer, answer, runs, serverVars, requests, deaths>>

\* struct2file or write_buf_to_file: fopen empties the file ...
Open(h) ==
    /\ pc[h] = "open"
    /\ file' = [file EXCEPT ![h] = <<>>]
    /\ Goto(h, "write")
    /\ UNCHANGED <<command, mem, peer, answer, runs, serverVars, requests, deaths, appeared>>

\* ... and fclose fills it.  A join that was answered dies right afterwards.
Write(h) ==
    /\ pc[h] = "write"
    /\ file' = [file EXCEPT ![h] = mem[h]]
    /\ \/ /\ command[h] \in {"start", "rewrite"} /\ Exit(h)
       \/ /\ command[h] = "join" /\ Goto(h, "register")
          /\ mem' = [mem EXCEPT ![h] = <<>>] /\ UNCHANGED command
       \/ /\ command[h] = "join -f" /\ Goto(h, "check")
          /\ UNCHANGED <<command, mem>>
       \/ /\ command[h] = "done" /\ Goto(h, "off")
          /\ mem' = [mem EXCEPT ![h] = <<>>] /\ UNCHANGED command
    /\ UNCHANGED <<peer, answer, runs, serverVars, requests, deaths, appeared>>

\* What join makes of its node if judge_local_ip finds other addresses: it gets
\* the next count and loses its own; a reader finds one that nobody wrote.
Renewed(node) == [node EXCEPT !.node_count = @ + 1, !.ip_list = NoLocalIpList]

\* judge_local_ip.  The interfaces may have changed meanwhile.  Either way
\* register_node then fails on the address "-f".
CheckCache(h) ==
    /\ pc[h] = "check"
    /\ \/ Exit(h) /\ UNCHANGED appeared
       \/ /\ mem' = [mem EXCEPT ![h] = <<Renewed(mem[h][1])>>]
          /\ command' = [command EXCEPT ![h] = "rewrite"]
          /\ appeared' = appeared \cup FactsOf(mem'[h])
          /\ Goto(h, "open")
    /\ UNCHANGED <<file, peer, answer, runs, serverVars, requests, deaths>>

\* register_node: connect, read the file as it is now, send.
Register(h, s) ==
    /\ pc[h] = "register" /\ up[s] /\ s # h
    /\ peer' = [peer EXCEPT ![h] = s]
    /\ requests' = requests \cup
           {[client |-> h, server |-> s, nodes |-> file[h], open |-> TRUE, taken |-> FALSE]}
    /\ Goto(h, "wait")
    /\ UNCHANGED <<file, command, mem, answer, runs, serverVars, deaths, appeared>>

ConnectFails(h, s) ==
    /\ pc[h] = "register" /\ ~up[s] /\ s # h
    /\ Exit(h)
    /\ UNCHANGED <<file, peer, answer, runs, serverVars, requests, deaths, appeared>>

\* The whole answer replaces what was known (write_buf_to_file, then a crash).
TakeAnswer(h) ==
    /\ pc[h] = "wait" /\ answer[h] # Nothing
    /\ mem' = [mem EXCEPT ![h] = answer[h]]
    /\ answer' = [answer EXCEPT ![h] = Nothing]
    /\ command' = [command EXCEPT ![h] = "done"]
    /\ Goto(h, "open")
    /\ UNCHANGED <<file, peer, runs, serverVars, requests, deaths, appeared>>

Waiting(r, h) == r.client = h /\ r.open

\* The server has died.  recv reports an error, or the end of the stream, which
\* nobody tells from an answer: what happens to be on the stack is written.
LoseServer(h) ==
    /\ pc[h] = "wait" /\ answer[h] = Nothing /\ ~ \E r \in requests : Waiting(r, h)
    /\ \E nodes \in {file[h], <<>>} : file' = [file EXCEPT ![h] = nodes]
    /\ Exit(h)
    /\ UNCHANGED <<peer, answer, runs, serverVars, requests, deaths, appeared>>

\* What a process that dies leaves of a file it was writing.
Torn(nodes) == {SubSeq(nodes, 1, n) : n \in 0 .. Len(nodes)}

\* The user stops the program, or it follows a next_node or next_ip that nobody
\* wrote.  What it has sent stays with the server.
Die(h) ==
    /\ pc[h] # "off" /\ deaths < MaxDeaths /\ deaths' = deaths + 1
    /\ \E nodes \in IF pc[h] = "write" THEN Torn(mem[h]) ELSE {file[h]} :
        file' = [file EXCEPT ![h] = nodes]
    /\ requests' = {IF Waiting(r, h) THEN [r EXCEPT !.open = FALSE] ELSE r : r \in requests}
    /\ answer' = [answer EXCEPT ![h] = Nothing]
    /\ Exit(h)
    /\ UNCHANGED <<peer, runs, serverVars, appeared>>

-----------------------------------------------------------------------------
\* The servers.

\* main: without a file fgets is given a NULL stream.  The operator waits for
\* `start' on that host to end.
Boot(s) ==
    /\ ~up[s] /\ pc[s] = "off" /\ file[s] # Nothing
    /\ up' = [up EXCEPT ![s] = TRUE]
    /\ UNCHANGED <<file, clientVars, srv, list, requests, deaths, appeared>>

\* A slip: the type is compared with "register".
DispatchesNever(s) == FALSE

\* The client sends "Register".  node_join_server does not look at the type;
\* server.c waits for "register" and leaves any other connection as it is.
Dispatches(s) == s \in OldServer

\* The process is gone, and with it its connections.
Down(s) ==
    /\ up' = [up EXCEPT ![s] = FALSE] /\ srv' = [srv EXCEPT ![s] = "accept"]
    /\ list' = [list EXCEPT ![s] = <<>>]
    /\ requests' = {r \in requests : r.server # s}

Taken(r) == [r EXCEPT !.taken = TRUE]

\* Slips: nothing is merged; an empty list is left alone, and so is the client.
AcceptUnmerged(s) ==
    /\ up[s] /\ srv[s] = "accept" /\ Dispatches(s)
    /\ \E r \in requests :
        /\ r.server = s /\ ~r.taken
        /\ requests' = (requests \ {r}) \cup {Taken(r)}
        /\ list' = [list EXCEPT ![s] = r.nodes]
    /\ srv' = [srv EXCEPT ![s] = "open"]
    /\ UNCHANGED <<file, clientVars, up, deaths, appeared>>

AcceptSkipsEmpty(s) ==
    /\ up[s] /\ srv[s] = "accept"
    /\ \E r \in requests :
        /\ r.server = s /\ ~r.taken
        /\ requests' = (requests \ {r}) \cup {Taken(r)}
        /\ IF Dispatches(s) /\ file[s] # <<>>
           THEN /\ list' = [list EXCEPT ![s] = Merge(file[s], r.nodes)]
                /\ srv' = [srv EXCEPT ![s] = "open"]
           ELSE UNCHANGED <<list, srv>>
    /\ UNCHANGED <<file, clientVars, up, deaths, appeared>>

\* accept, receive, file2struct and node_merge; a list without a node is NULL,
\* which node_merge follows.
Accept(s) ==
    /\ up[s] /\ srv[s] = "accept"
    /\ \E r \in requests :
        /\ r.server = s /\ ~r.taken
        /\ \/ /\ ~Dispatches(s)
              /\ requests' = (requests \ {r}) \cup {Taken(r)}
              /\ UNCHANGED <<up, srv, list>>
           \/ /\ Dispatches(s) /\ file[s] # <<>>
              /\ requests' = (requests \ {r}) \cup {Taken(r)}
              /\ list' = [list EXCEPT ![s] = Merge(file[s], r.nodes)]
              /\ srv' = [srv EXCEPT ![s] = "open"]
              /\ UNCHANGED up
           \/ Dispatches(s) /\ file[s] = <<>> /\ Down(s)
    /\ UNCHANGED <<file, clientVars, deaths, appeared>>

ServerOpen(s) ==
    /\ srv[s] = "open"
    /\ file' = [file EXCEPT ![s] = <<>>]
    /\ srv' = [srv EXCEPT ![s] = "write"]
    /\ UNCHANGED <<clientVars, up, list, requests, deaths, appeared>>

ServerWrite(s) ==
    /\ srv[s] = "write"
    /\ file' = [file EXCEPT ![s] = list[s]]
    /\ srv' = [srv EXCEPT ![s] = "send"]
    /\ UNCHANGED <<clientVars, up, list, requests, deaths, appeared>>

\* A client that is gone may cost the server its life (SIGPIPE).
Reply(s) ==
    /\ srv[s] = "send"
    /\ \E r \in requests :
        /\ r.server = s /\ r.taken
        /\ \/ /\ requests' = requests \ {r}
              /\ answer' = IF r.open THEN [answer EXCEPT ![r.client] = list[s]] ELSE answer
              /\ srv' = [srv EXCEPT ![s] = "accept"]
              /\ list' = [list EXCEPT ![s] = <<>>]
              /\ UNCHANGED up
           \/ ~r.open /\ Down(s) /\ UNCHANGED answer
    /\ UNCHANGED <<file, pc, command, mem, peer, runs, deaths, appeared>>

\* The server is killed.
Crash(s) ==
    /\ up[s] /\ deaths < MaxDeaths /\ deaths' = deaths + 1
    /\ \E nodes \in IF srv[s] = "write" THEN Torn(list[s]) ELSE {file[s]} :
        file' = [file EXCEPT ![s] = nodes]
    /\ Down(s)
    /\ UNCHANGED <<clientVars, appeared>>

-----------------------------------------------------------------------------
ClientStep(h) ==
    \/ Generate(h) \/ Open(h) \/ Write(h) \/ CheckCache(h) \/ TakeAnswer(h) \/ LoseServer(h)
    \/ \E s \in Server : Register(h, s) \/ ConnectFails(h, s)

ServerStep(s) == Accept(s) \/ ServerOpen(s) \/ ServerWrite(s) \/ Reply(s)

Next ==
    \/ \E h \in Host : ClientStep(h) \/ Launch(h, "start") \/ Die(h)
    \/ \E h \in Client : Launch(h, "join") \/ Launch(h, "join -f")
    \/ \E s \in Server : ServerStep(s) \/ Boot(s) \/ Crash(s)

Spec == Init /\ [][Next]_vars

\* Programs that run are scheduled; users start and stop them as they like.
FairSpec ==
    /\ Spec
    /\ \A h \in Host : WF_vars(ClientStep(h))
    /\ \A s \in Server : WF_vars(ServerStep(s))

-----------------------------------------------------------------------------
(* Properties *)

\* What host h knows: a list that is being written counts as written.
Content(h) ==
    IF h \in Server /\ srv[h] = "write" THEN list[h]
    ELSE IF pc[h] = "write" THEN mem[h]
    ELSE IF file[h] = Nothing THEN <<>> ELSE file[h]

Lists == Seq(Node)

\* Every variable stays in its type.
TypeOK ==
    /\ file \in [Host -> Lists \cup {Nothing}]
    /\ pc \in [Host -> {"off", "make", "open", "write", "check", "register", "wait"}]
    /\ command \in [Host -> {"none", "start", "join", "join -f", "rewrite", "done"}]
    /\ mem \in [Host -> Lists] /\ peer \in [Host -> Server \cup {Nothing}]
    /\ answer \in [Host -> Lists \cup {Nothing}]
    /\ up \in [Server -> BOOLEAN] /\ srv \in [Server -> {"accept", "open", "write", "send"}]
    /\ list \in [Server -> Lists]
    /\ \A r \in requests :
        r \in [client : Host, server : Server, nodes : Lists, open : BOOLEAN, taken : BOOLEAN]
    /\ runs \in 0 .. MaxRuns /\ deaths \in 0 .. MaxDeaths

\* No file ever lists a node twice, whatever was merged into it and wherever a
\* death has cut it.
NoDuplicateNode ==
    \A h \in Host : file[h] = Nothing \/ UniqueIds(file[h])

\* Until a process dies, what a client was told by its server the server has
\* too, in this or a later version, and the client's own node is part of it:
\* through all later registrations, and while its file is being written.
ToldIsKept ==
    \A h \in Host : deaths = 0 /\ command[h] = "done" =>
        HoldsAll(Content(peer[h]), Content(h))

\* The files keep the promise of Knowledge: hosts learn by registering, and
\* forget only once a process has died; provided that no host which runs
\* node_join_server joins another one itself (see JoinForgetsNothing).
K == INSTANCE Knowledge WITH
        Fact <- [id : Ids, node_count : Nat],
        seen <- appeared,
        known <- [h \in Host |-> FactsOf(Content(h))],
        calm <- deaths = 0

Remembers == K!Spec

\* A client of node_join_server never waits for ever, even if that server dies,
WaitEnds == \A h \in Client : pc[h] = "wait" /\ peer[h] \in OldServer ~> pc[h] # "wait"

\* and it is answered unless a process dies.
OldServerAnswers ==
    \A h \in Client :
        pc[h] = "wait" /\ peer[h] \in OldServer ~> command[h] = "done" \/ deaths > 0

-----------------------------------------------------------------------------
(* What the comments and the design say and the code does not do *)

\* Design.md:119: the server answers a registration.
JoinIsAnswered == \A h \in Client : pc[h] = "wait" ~> pc[h] # "wait"

\* node_join.c:168: what is known is merged with the answer.  On a host that is
\* itself a server the answer replaces what the server has learned meanwhile.
JoinForgetsNothing ==
    [][\A h \in Host : deaths' = 0 => HoldsAll(Content(h)', Content(h))]_vars
=============================================================================
